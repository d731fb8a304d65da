--------------------------- MODULE MCAccountConfig ---------------------------
EXTENDS AccountConfig

Entry(p, n, h, t) == [provider |-> p, name |-> n, home |-> h, token |-> t]
Cfg(order, enabled, legacy, listed) ==
    [order |-> order, enabled |-> enabled, legacy |-> legacy, listed |-> listed]

\* A legacy account, a token entry, standalone providers in the order, in the
\* enabled list and in both; and nothing at all.
MCConfigs == {
    Cfg(<< <<"zai">>, <<"codex">> >>, << <<"codex">>, <<"zhipu">> >>,
        << Entry("codex", "work", "h1", FALSE) >>, << Entry("kimi", "tok", "h2", TRUE) >>),
    Cfg(<< <<"grok">>, <<"gemini">> >>, << <<"codex">>, <<"agy">> >>, << >>, << >>),
    Cfg(<< >>, << <<"deepseek">>, <<"codex">> >>, << >>, << Entry("codex", "work", "h2", TRUE) >>)}

MCEmailAlias  == [ann |-> "a*n", bo |-> "***", cy |-> "asks"]
MCSegmentHome == [n \in {"ann", "bo", "cy", "work", "a*n"} |->
                     IF n \in {"ann", "a*n"} THEN "h1" ELSE "h2"]
=============================================================================
