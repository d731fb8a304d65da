---------------------------- MODULE AccountConfig ----------------------------
(***************************************************************************)
(* The commands that decide which rows a report has and whose login each   *)
(* row shows: oct config account add and remove, the interactive oct       *)
(* config with its account actions (cmd/config.go), and whose credit oct   *)
(* usage reset-credit spends (cmd/usage_reset_credit.go).                  *)
(*                                                                         *)
(* A command reads the configuration file when it starts and writes it     *)
(* whole.  The quick ones are one step; the interactive one may be open    *)
(* while others run.  Two interactive ones at once are left out.           *)
(***************************************************************************)
EXTENDS UsageRows

CONSTANTS
    Configs,      \* the configuration files at the start
    AddTo,        \* the providers accounts are added to by hand
    Names,        \* account names
    Homes,        \* credential directories, DefaultHome among them
    TmpHomes,     \* the directories made for a login, one each
    Logins,       \* the provider's logins
    DefaultHome,
    EmailAlias,   \* of a login: its masked e-mail, Masked, or NoEmail
    SegmentHome,  \* the directory named after a login, or after a name
    Masked, NoEmail,
    Toggles,      \* the sets of tools a user may toggle in the picker
    MaxCommands   \* bound on the commands run

Gone == "gone"

ASSUME ConfigsAssumption ==
    Configs \subseteq Configurations /\ AddTo \subseteq AccountKinds /\ MaxCommands \in Nat
ASSUME HomesAssumption ==
    /\ Homes \union TmpHomes \subseteq STRING \ {None, Gone}
    /\ DefaultHome \in Homes /\ Homes \cap TmpHomes = {}
    /\ \A x \in Names \union Logins : SegmentHome[x] \in Homes
ASSUME NamesAssumption ==
    /\ Names \subseteq STRING /\ Masked # None
    /\ \A l \in Logins : EmailAlias[l] \in STRING

VARIABLES
    cfg,      \* the configuration file
    login,    \* login[h]: whose credentials the directory h holds, None without
    flow,     \* the interactive command: what it read, and where it is
    told,     \* told[x]: what the user was last told of account x
    commands

accountVars == << cfg, login, flow, told, commands >>

Labels == AddTo \X Names
EmptyConfig == [order |-> << >>, enabled |-> << >>, legacy |-> << >>, listed |-> << >>]
Closed == [at |-> "closed", cfg |-> EmptyConfig, login |-> None, tmp |-> None]

-----------------------------------------------------------------------------
(* The accounts key.                                                       *)

\* Grouped by provider, as the file is read back.
accountEntriesForConfig(entries) ==
    FlattenSeq([i \in 1 .. 4 |->
        LET p == << "codex", "grok", "kimi", "qwen" >>[i]
        IN  Among(entries, {e \in ToSet(entries) : e.provider = p})])

Same(e, p, n) == e.provider = p /\ e.name = n

ValidateAccountAlias(n) == n # Masked

upsertAccount(c, p, n, h) ==
    LET entries == AccountConfigEntries(c)
        there   == {i \in DOMAIN entries : Same(entries[i], p, n)}
        new     == [provider |-> p, name |-> n, home |-> h, token |-> FALSE]
    IN  [c EXCEPT !.listed = accountEntriesForConfig(
            IF there = {} THEN Append(entries, new)
            ELSE [i \in DOMAIN entries |->
                     IF i \in there THEN [entries[i] EXCEPT !.home = h] ELSE entries[i]])]

\* Only the accounts key is written: codex_accounts stays as it is.
withoutAccount(c, p, n) ==
    LET entries == AccountConfigEntries(c)
    IN  [c EXCEPT !.listed = accountEntriesForConfig(
            Among(entries, {e \in ToSet(entries) : ~Same(e, p, n)}))]

Registered(c, p, n) == \E e \in ToSet(AccountConfigEntries(c)) : Same(e, p, n)

-----------------------------------------------------------------------------
(* The picker.                                                             *)

\* newConfigModel: what is checked, all of it when nothing is enabled.
Checked(c) ==
    {t \in ToSet(Tools) : c.enabled = << >> \/
        \E n \in ToSet(c.enabled) : Len(n) = 1 /\ NormalizeToolName(n[1]) = t}

appendStandaloneEntries(dst, raw) ==
    LET named(n) == IF LookupStandalone(n) = None THEN << >> ELSE << << LookupStandalone(n) >> >>
    IN  Distinct(dst \o FlattenSeq([i \in DOMAIN raw |-> named(raw[i])]))

\* Mutant: the old order's standalone providers are not carried over.
orderOfTools(newOrder, oldOrder) == newOrder

\* The old order with its standalone providers, then the tools it left out.
mergeStandaloneIntoOrder(newOrder, oldOrder) ==
    LET kept(n) ==
            IF LookupStandalone(n) # None THEN << << LookupStandalone(n) >> >>
            ELSE IF Len(n) = 1 /\ << NormalizeToolName(n[1]) >> \in ToSet(newOrder)
                 THEN << << NormalizeToolName(n[1]) >> >>
            ELSE << >>
    IN  Distinct(FlattenSeq([i \in DOMAIN oldOrder |-> kept(oldOrder[i])]) \o newOrder)

\* Confirm with the tools of S checked.
Picked(c, S) ==
    LET tools   == GetOrderedTools(c.order)
        checked == Among(tools, S)
        names(ts) == [i \in DOMAIN ts |-> << ts[i] >>]
    IN  [c EXCEPT
            !.enabled = appendStandaloneEntries(
                            appendStandaloneEntries(names(checked), c.enabled), c.order),
            !.order = mergeStandaloneIntoOrder(names(tools), c.order)]

-----------------------------------------------------------------------------
(* The quick commands.                                                     *)

AccountInit ==
    /\ cfg \in Configs
    /\ login = [h \in Homes \union TmpHomes |-> None]
    /\ flow = Closed
    /\ told = [x \in Labels |-> None]
    /\ commands = 0

Command == commands < MaxCommands /\ commands' = commands + 1

configAccountAdd(p, n, h) ==
    /\ Command
    /\ cfg' = upsertAccount(cfg, p, n, h)
    /\ told' = [told EXCEPT ![<< p, n >>] = h]
    /\ UNCHANGED << login, flow >>

configAccountRemove(p, n) ==
    /\ Command
    /\ Registered(cfg, p, n)
    /\ cfg' = withoutAccount(cfg, p, n)
    /\ told' = [told EXCEPT ![<< p, n >>] = Gone]
    /\ UNCHANGED << login, flow >>

\* codex login, by the user and in a directory of his.
codexLogin(h, l) ==
    /\ Command
    /\ login' = [login EXCEPT ![h] = l]
    /\ UNCHANGED << cfg, flow, told >>

-----------------------------------------------------------------------------
(* The interactive oct config.                                             *)

OpenPicker ==
    /\ flow.at = "closed"
    /\ Command
    /\ flow' = [Closed EXCEPT !.at = "picker", !.cfg = cfg]
    /\ UNCHANGED << cfg, login, told >>

ClosePicker ==
    /\ flow.at = "picker"
    /\ flow' = Closed
    /\ UNCHANGED << cfg, login, told, commands >>

\* What was told of the accounts is void when the file is written from a
\* configuration read before another command's change.
Overwrite(c, newTold) ==
    /\ cfg' = c
    /\ told' = IF flow.cfg = cfg THEN newTold ELSE [x \in Labels |-> None]
    /\ flow' = Closed

ConfirmPicker(S) ==
    /\ flow.at = "picker"
    /\ Overwrite(Picked(flow.cfg, S), told)
    /\ UNCHANGED << login, commands >>

runDisconnectCodexAccountFlow(n) ==
    /\ flow.at = "picker"
    /\ n \in {e.name : e \in ToSet(AccountsForProvider(flow.cfg, "codex"))}
    /\ Overwrite(withoutAccount(flow.cfg, "codex", n), [told EXCEPT ![<< "codex", n >>] = Gone])
    /\ UNCHANGED << login, commands >>

\* The login runs in the account's home, made if need be.
runReconnectCodexAccountFlow(n, l) ==
    /\ flow.at = "picker"
    /\ \E e \in ToSet(AccountsForProvider(flow.cfg, "codex")) :
          e.name = n /\ login' = [login EXCEPT ![e.home] = l]
    /\ flow' = Closed
    /\ UNCHANGED << cfg, told, commands >>

Unused == {t \in TmpHomes : login[t] = None}

runAddCodexAccountFlow(l) ==
    /\ flow.at = "picker" /\ Unused # {}
    /\ \E t \in Unused :
          /\ login' = [login EXCEPT ![t] = l]
          /\ flow' = [flow EXCEPT !.at = "loggedIn", !.login = l, !.tmp = t]
    /\ UNCHANGED << cfg, told, commands >>

\* The masked e-mail, or the name the user is asked for.
AliasOf(l, n) == IF EmailAlias[l] = NoEmail THEN n ELSE EmailAlias[l]
HomeOf(l, n)  == IF EmailAlias[l] = NoEmail THEN SegmentHome[n] ELSE SegmentHome[l]

\* The login gave an account that is there already, or no name was entered.
NothingToAdd(n) ==
    /\ flow.at = "loggedIn"
    /\ \/ EmailAlias[flow.login] = NoEmail /\ n = None
       \/ \E e \in ToSet(AccountsForProvider(flow.cfg, "codex")) : e.name = AliasOf(flow.login, n)
    /\ login' = [login EXCEPT ![flow.tmp] = None]
    /\ flow' = Closed
    /\ UNCHANGED << cfg, told, commands >>

\* Mutant: a directory that is already there is taken for the new account's.
HomeAfterRenameBlind(l, n) == HomeOf(l, n)

\* os.Rename onto a directory with something in it fails: the login stays
\* where it was made.
HomeAfterRename(l, n) == IF login[HomeOf(l, n)] = None THEN HomeOf(l, n) ELSE flow.tmp

\* The directory has its final place when the name is found invalid, or the
\* configuration cannot be written.
Register(n, saved) ==
    LET l == flow.login
        alias == AliasOf(l, n)
        home  == HomeAfterRename(l, n)
    IN  /\ flow.at = "loggedIn"
        /\ alias # None
        /\ alias \notin {e.name : e \in ToSet(AccountsForProvider(flow.cfg, "codex"))}
        /\ login' = IF login[HomeOf(l, n)] = None
                    THEN [login EXCEPT ![flow.tmp] = None, ![HomeOf(l, n)] = l] ELSE login
        /\ IF ValidateAccountAlias(alias) /\ saved
           THEN Overwrite(upsertAccount(flow.cfg, "codex", alias, home),
                          [told EXCEPT ![<< "codex", alias >>] = home])
           ELSE flow' = Closed /\ UNCHANGED << cfg, told >>
        /\ UNCHANGED << commands >>

NextPicker ==
    \/ OpenPicker \/ ClosePicker
    \/ \E T \in Toggles : ConfirmPicker((Checked(flow.cfg) \ T) \union (T \ Checked(flow.cfg)))
    \/ \E n \in Names : runDisconnectCodexAccountFlow(n)
    \/ \E n \in Names, l \in Logins : runReconnectCodexAccountFlow(n, l)
    \/ \E l \in Logins : runAddCodexAccountFlow(l)
    \/ \E n \in Names \union {None} : NothingToAdd(n)
    \/ \E n \in Names \union {None}, saved \in BOOLEAN : Register(n, saved)

AccountNext ==
    \/ \E p \in AddTo, n \in Names, h \in Homes \ {DefaultHome} :
          ValidateAccountAlias(n) /\ configAccountAdd(p, n, h)
    \/ \E p \in AddTo, n \in Names : configAccountRemove(p, n)
    \/ \E h \in Homes, l \in Logins : codexLogin(h, l)
    \/ NextPicker

AccountSpec == AccountInit /\ [][AccountNext]_accountVars

-----------------------------------------------------------------------------
(* Spending a reset credit.                                                *)

\* Mutant: the account is not looked up.
defaultCodexHome(c, label) == None

\* None is the default directory; an account that is not there is an error.
resolveCodexAccountHome(c, label) ==
    IF label = << "codex" >> THEN None
    ELSE LET accounts == AccountsForProvider(c, "codex")
             mine == Among(accounts, {e \in ToSet(accounts) : e.name = label[2]})
         IN  IF mine = << >> THEN "error" ELSE mine[1].home

LabelsOf(c) == [i \in DOMAIN Jobs(c) |-> Jobs(c)[i].label]

-----------------------------------------------------------------------------
(* Properties.                                                             *)

\* The type invariant.
AccountTypeOK ==
    /\ cfg \in Configurations
    /\ login \in [Homes \union TmpHomes -> Logins \union {None}]
    /\ flow \in [at : {"closed", "picker", "loggedIn"}, cfg : Configurations,
                 login : Logins \union {None}, tmp : TmpHomes \union {None}]
    /\ flow.at = "loggedIn" =>
          /\ flow.tmp \in TmpHomes /\ flow.login \in Logins
          /\ login[flow.tmp] = flow.login
    /\ told \in [Labels -> Homes \union TmpHomes \union {Gone, None}]
    /\ commands \in 0 .. MaxCommands

\* An account the user was told is registered in a directory is read from that
\* directory, and one he was told is removed is not read, whatever commands
\* came between (cmd/config.go:1041-1065, 1117-1138, 1343-1363).  The second
\* half is only so of accounts the codex_accounts key does not list.
AccountsAreAsTold ==
    \A x \in Labels :
        LET homes == {e.home : e \in {f \in ToSet(AccountConfigEntries(cfg)) : Same(f, x[1], x[2])}}
        IN  /\ told[x] \in Homes \union TmpHomes => homes = {told[x]}
            /\ told[x] = Gone /\ (\A e \in ToSet(cfg.legacy) : ~Same(e, x[1], x[2])) => homes = {}

\* The account a login registers shows that login, also when the directory it
\* should have had was taken (cmd/config.go:1257-1271).  It has no row when a
\* token entry holds its name: that entry is updated and stays one.
NewAccountShowsItsLogin ==
    [][\A n \in Names \union {None} :
          /\ Register(n, TRUE)
          /\ ValidateAccountAlias(AliasOf(flow.login, n))
          /\ ~Registered(flow.cfg, "codex", AliasOf(flow.login, n))
          => \E e \in ToSet(AccountsForProvider(cfg', "codex")) :
                e.name = AliasOf(flow.login, n) /\ login'[e.home] = flow.login]_accountVars

\* With several accounts, or none, a reset credit is spent on the login whose
\* numbers the row shows (cmd/usage_reset_credit.go:136-158).
CreditGoesToItsRow ==
    Len(AccountsForProvider(cfg, "codex")) # 1 =>
        \A i \in DOMAIN Jobs(cfg) :
            Jobs(cfg)[i].provider = "codex" =>
                resolveCodexAccountHome(cfg, Jobs(cfg)[i].label) = Jobs(cfg)[i].home

Before(seq, x, y) == \E i, j \in DOMAIN seq : i < j /\ seq[i] = x /\ seq[j] = y

\* The picker checks the tools of the report, which it does not where
\* enabled_tools has an alias (tools.go:27-38, cmd/config.go:171), and all the
\* standalone providers agent_order lists are on.
PickerAgrees(c) ==
    /\ Checked(c) = ToSet(SelectedTools(c)) /\ Jobs(c) # << >>
    /\ \A n \in ToSet(c.order) :
          LookupStandalone(n) # None => LookupStandalone(n) \in standaloneAllowedNames(c)

\* The rows of the names in agent_order.
Placed(c) == {l \in ToSet(LabelsOf(c)) : \E n \in ToSet(c.order) :
                  l[1] \in {NormalizeToolName(n[1]), LookupStandalone(n)}}

\* Confirming the picker as it opened changes no row, and the rows agent_order
\* names stay in their order; an account label in it loses its place
\* (cmd/config.go:842-880, 911-918).
UnchangedPickerKeepsRows ==
    [][ConfirmPicker(Checked(flow.cfg)) /\ flow.cfg = cfg /\ PickerAgrees(cfg) =>
          /\ ToSet(LabelsOf(cfg')) = ToSet(LabelsOf(cfg))
          /\ (\A n \in ToSet(cfg.order) : Len(n) = 1) =>
                \A l, m \in Placed(cfg) :
                    Before(LabelsOf(cfg'), l, m) <=> Before(LabelsOf(cfg), l, m)]_accountVars

=============================================================================
