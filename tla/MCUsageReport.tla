---------------------------- MODULE MCUsageReport ----------------------------
EXTENDS UsageReport

Cfg(order, enabled, listed) ==
    [order |-> order, enabled |-> enabled, legacy |-> << >>, listed |-> listed]
Entry(p, name, home) == [provider |-> p, name |-> name, home |-> home, token |-> FALSE]
Case(cfg, has, override, alerts) ==
    [cfg |-> cfg, has |-> [i \in 1 .. 12 |-> IF i <= Len(has) THEN has[i] ELSE {}],
     override |-> override, alerts |-> alerts]

\* What each provider's fetcher looks for.
Sources == [
    codex |-> {"auth", "custom", "logs"}, kimi |-> {"env", "static", "rotated", "expired"},
    copilot |-> {"env", "user", "logs"}, commandcode |-> {"env"},
    qwen |-> {"records", "spent"}, mmx |-> {"env"},
    opencode |-> {"env", "auth", "access", "dated"},
    zai |-> {"env", "entry", "access", "dated"}, grok |-> {"auth"}, deepseek |-> {"env"},
    openrouter |-> {"env"}]

\* One provider alone, in every world, with the shortest deadline.
Alone == UNION {
    {Case(Cfg(<< >>, << << p >> >>, << >>), [i \in 1 .. 2 |-> has], 1, FALSE) : has \in SUBSET Sources[p]}
        : p \in DOMAIN Sources}
CursorAlone ==
    {Case(Cfg(<< >>, << <<"cursor">> >>, << >>), [i \in 1 .. 2 |-> has], 1, FALSE) :
        has \in SUBSET {"custom", "env", "auth", "sessions"}}

\* The deadline as it is and at its ceiling, with and without alerts.
Timing == {Case(Cfg(<< >>, << <<"deepseek">> >>, << >>), << {"env"} >>, t, a) :
              t \in {-1, 30}, a \in BOOLEAN}

\* Two accounts of a provider whose key is also in the environment.
TwoAccounts(p) == << Entry(p, "work", "h1"), Entry(p, "home", "h2"), Entry(p, "work", "h3") >>
Accounts == {Case(Cfg(<< >>, << <<p>> >>, TwoAccounts(p)), << a, b >>, 1, FALSE) :
                p \in {"kimi"}, a \in {{"env", "static"}}, b \in {{"env"}, {"env", "static"}}}

\* The same providers named in several ways and twice, without credentials.
Names == { <<"codex">>, <<"codex", "work">>, <<"zhipu">>, <<"zai">>, <<"minimax">> }
Orders == UNION {[1 .. k -> Names] : k \in 0 .. 2}
Enabled == { << <<"zai">> >>, << <<"minimax">>, <<"codex">> >>, << <<"zhipu">>, <<"codex", "work">> >> }
Listed == {Case(Cfg(o, e, TwoAccounts("codex")), [i \in 1 .. 12 |-> {}], 1, FALSE) :
              o \in Orders, e \in Enabled}

MCCases == Alone \union CursorAlone \union Timing \union Accounts \union Listed

\* The condition of the theorem LoginsApart holds of these cases.
ASSUME HomesAreApart == HomesApart
=============================================================================
