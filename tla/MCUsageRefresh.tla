---------------------------- MODULE MCUsageRefresh ----------------------------
EXTENDS UsageRefresh, TLC

CONSTANTS c1, c2

MCCalls == {c1, c2}
=============================================================================
