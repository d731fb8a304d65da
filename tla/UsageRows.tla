------------------------------ MODULE UsageRows ------------------------------
(***************************************************************************)
(* Which rows a usage report has (internal/usage, internal/update): the    *)
(* provider registry, the names a user may write for a provider, the       *)
(* accounts configured for it, and the jobs GetUsage makes of them.        *)
(*                                                                         *)
(* A name is a tuple: <<"codex">> is the plain provider, <<"codex",        *)
(* "work">> the account label codex:work.  The lists of the configuration  *)
(* are already lower-cased and split at commas, as every reader does.      *)
(***************************************************************************)
EXTENDS Integers, FiniteSets, SequencesExt

None == "none"

\* What a configuration file may hold.
Entries        == [provider : STRING, name : STRING, home : STRING, token : BOOLEAN]
LabelNames     == Seq(STRING) \ {<< >>}
Configurations == [order : Seq(LabelNames), enabled : Seq(LabelNames),
                   legacy : Seq(Entries), listed : Seq(Entries)]

\* The elements of seq that are in S, in their order.
Among(seq, S) == FoldLeft(LAMBDA acc, x : IF x \in S THEN Append(acc, x) ELSE acc, << >>, seq)

-----------------------------------------------------------------------------
(* The registry.                                                           *)

providers == << "agy", "claude", "commandcode", "cursor-agent", "copilot",
                "opencode", "codex", "kimi", "zai", "qwen", "deepseek",
                "openrouter", "minimax", "grok" >>
Standalone   == {"zai", "deepseek", "openrouter", "grok"}
AccountKinds == {"codex", "kimi", "qwen", "grok"}
Aliases == [p \in ToSet(providers) |->
    CASE p = "agy" -> {"antigravity", "gemini"}
      [] p = "zai" -> {"zhipu"}
      [] p = "minimax" -> {"mmx"}
      [] OTHER -> {}]

\* The installable tools, by binary name.
Tools == << "claude", "commandcode", "cursor-agent", "opencode", "codex",
            "agy", "copilot", "kimi", "qwen", "mmx" >>

\* String literals are strings: TLC evaluates what the prover is not told.
ASSUME LiteralsAssumption ==
    {None} \union AccountKinds \union Standalone \union ToSet(Tools) \subseteq STRING

\* Legacy and alternative names of a tool.
NormalizeToolName(n) ==
    CASE n = "claude-code" -> "claude"
      [] n \in {"command-code", "cmd", "cmdc"} -> "commandcode"
      [] n \in {"cursor", "agent"} -> "cursor-agent"
      [] n \in {"antigravity", "gemini", "gemini-cli"} -> "agy"
      [] n = "minimax" -> "mmx"
      [] OTHER -> n

\* Names the tool table knows and NormalizeToolName does not fold.
MatchesName(t, n) == NormalizeToolName(n) = t \/ (t = "opencode" /\ n = "opencode-ai")

\* The registry entry of an exact name or alias.
lookupProviderName(n) ==
    LET found == {p \in ToSet(providers) : n = p \/ n \in Aliases[p]}
    IN  IF found = {} THEN None ELSE CHOOSE p \in found : TRUE

-----------------------------------------------------------------------------
(* Accounts.  `legacy` is the codex_accounts key, `listed` the accounts    *)
(* key with its providers in sorted order; an entry has a provider, a      *)
(* name, a home, and is a token entry when it has a key or an env.         *)

SplitAccountProviderLabel(n) == Len(n) = 2 /\ n[1] \in ToSet(providers)

\* Mutant: the legacy entry wins.
FirstEntryStays(entries, e) ==
    IF \E i \in 1 .. Len(entries) :
          entries[i].provider = e.provider /\ entries[i].name = e.name
    THEN entries ELSE Append(entries, e)

\* Entries without a home, or of a provider without accounts, are skipped; an
\* entry replaces an earlier one of its name, in the earlier one's place.
upsertEntry(entries, e) ==
    LET same == {i \in 1 .. Len(entries) :
                    entries[i].provider = e.provider /\ entries[i].name = e.name}
    IN  IF e.home = None \/ e.provider \notin AccountKinds THEN entries
        ELSE IF same = {} THEN Append(entries, e)
        ELSE [entries EXCEPT ![CHOOSE i \in same : TRUE] = e]

AccountConfigEntries(cfg) == FoldLeft(upsertEntry, << >>, cfg.legacy \o cfg.listed)

AccountsForProvider(cfg, p) ==
    LET entries == AccountConfigEntries(cfg)
    IN  Among(entries, {e \in ToSet(entries) : e.provider = p /\ ~e.token})

\* An account label is its own name, but only while the account is configured.
CanonicalProviderName(cfg, n) ==
    IF Len(n) = 1 /\ lookupProviderName(n[1]) # None THEN << lookupProviderName(n[1]) >>
    ELSE IF /\ SplitAccountProviderLabel(n)
            /\ \E e \in ToSet(AccountsForProvider(cfg, n[1])) : e.name = n[2]
         THEN n
    ELSE IF Len(n) = 1 /\ lookupProviderName(NormalizeToolName(n[1])) # None
         THEN << lookupProviderName(NormalizeToolName(n[1])) >>
    ELSE << >>

-----------------------------------------------------------------------------
(* The jobs of a report.                                                   *)

Distinct(seq) == FoldLeft(LAMBDA acc, x : IF x \in ToSet(acc) THEN acc ELSE Append(acc, x),
                          << >>, seq)

LookupStandalone(n) ==
    LET p == IF Len(n) = 1 THEN lookupProviderName(n[1]) ELSE None
    IN  IF p \in Standalone THEN p ELSE None

\* enabled_tools decides which standalone providers are in, and agent_order
\* when enabled_tools is empty.
standaloneAllowedNames(cfg) ==
    {LookupStandalone(n) : n \in ToSet(IF cfg.enabled # << >> THEN cfg.enabled ELSE cfg.order)}
        \ {None}

\* The tools of agent_order first, then the others in table order.
GetOrderedTools(order) ==
    Among(Distinct([i \in 1 .. Len(order) |->
              IF Len(order[i]) = 1 THEN NormalizeToolName(order[i][1]) ELSE None] \o Tools),
          ToSet(Tools))

\* The enabled ones, in that order; all of them when none is listed.
GetFilteredTools(enabled, tools) ==
    IF enabled = << >> THEN tools
    ELSE Among(tools, {t \in ToSet(tools) : \E n \in ToSet(enabled) :
                           Len(n) = 1 /\ MatchesName(t, n[1])})

SelectedTools(cfg) == GetFilteredTools(cfg.enabled,
    GetOrderedTools(IF cfg.order # << >> THEN cfg.order
                    ELSE [i \in 1 .. Len(providers) |-> << providers[i] >>]))

orderedRequestedNames(cfg) == Distinct(cfg.order \o cfg.enabled)

Emitted(requested, selected) == Distinct(requested \o selected)

\* Mutant: each account's row keeps the provider's name.
accountFetchJobsUnnamed(cfg, label) ==
    LET p == NormalizeToolName(label)
        accounts == AccountsForProvider(cfg, p)
    IN  [i \in 1 .. Len(accounts) |->
            [label |-> << p >>, provider |-> p, home |-> accounts[i].home]]

\* A provider with accounts shows one row for each and none of its own; one
\* account alone keeps the provider's name.
accountFetchJobs(cfg, label) ==
    LET p == NormalizeToolName(label)
        accounts == AccountsForProvider(cfg, p)
        labelOf(i) == IF Len(accounts) > 1 THEN << p, accounts[i].name >> ELSE << p >>
    IN  [i \in 1 .. Len(accounts) |->
            [label |-> labelOf(i), provider |-> p, home |-> accounts[i].home]]

RowsOf(cfg, label) ==
    IF accountFetchJobs(cfg, label) # << >> THEN accountFetchJobs(cfg, label)
    ELSE << [label |-> << label >>, provider |-> lookupProviderName(label), home |-> None] >>

\* Standalone rows and tool rows interleave as their names were requested; a
\* label such as codex:work stands for its tool.
Jobs(cfg) ==
    LET selected == SelectedTools(cfg)
        allowed  == standaloneAllowedNames(cfg)
        namesOf(n) ==
            IF LookupStandalone(n) # None
            THEN IF LookupStandalone(n) \in allowed THEN << LookupStandalone(n) >> ELSE << >>
            ELSE LET t == NormalizeToolName(n[1])
                     known == Len(n) = 1 \/ SplitAccountProviderLabel(n)
                 IN  IF known /\ t \in ToSet(selected) THEN << t >> ELSE << >>
        requested == orderedRequestedNames(cfg)
        named     == FlattenSeq([i \in 1 .. Len(requested) |-> namesOf(requested[i])])
        emitted   == Emitted(named, selected)
    IN  FlattenSeq([i \in 1 .. Len(emitted) |-> RowsOf(cfg, emitted[i])])

=============================================================================
