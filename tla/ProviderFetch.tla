---------------------------- MODULE ProviderFetch ----------------------------
(***************************************************************************)
(* How each provider's row is made (internal/usage).  A fetcher looks for  *)
(* a credential, asks its endpoints one after the other, and falls back to *)
(* what it finds on the machine.  It is written here as one operator per   *)
(* provider, of the world it finds and the answers heard so far: the next  *)
(* call, or the row.  Claude and Antigravity have modules of their own and *)
(* are taken here as answered.                                             *)
(*                                                                         *)
(* A world w is a record:                                                  *)
(*   home  the account home of the job, None for the default row           *)
(*   has   the sources of credentials and of local data that are there     *)
(* An answer is "full" (numbers), "exhausted" (numbers, a window or the    *)
(* account out of service), "odd" (a payload whose numbers cannot be       *)
(* used), "hollow" (a payload without any), or "bad" (no 200, no answer,   *)
(* or not JSON).                                                           *)
(***************************************************************************)
EXTENDS UsageRows

Answer == {"full", "exhausted", "odd", "hollow", "bad"}

\* `used` is what the row shows; `why` is whether SourceDetail or Message
\* says that a call failed; `login` is the source the numbers come from, and
\* whose they are.
Row(status, source, used, login) ==
    [status |-> status, source |-> source, used |-> used, login |-> login, why |-> FALSE]
Why(row) == [row EXCEPT !.why = TRUE]
NoLogin == [from |-> None, of |-> << >>]
Ask == Row("ask", None, None, NoLogin)

First(chain, has) ==
    LET there == {i \in DOMAIN chain : chain[i] \in has}
    IN  IF there = {} THEN None ELSE chain[CHOOSE i \in there : \A j \in there : i <= j]

\* A credential of the environment or of oct's own configuration is one login
\* whatever the row; a file is its home's.
Login(w, source) ==
    [from |-> source,
     of |-> IF source \in {"env", "env2", "anthropic", "config", "gh"} THEN << source >>
            ELSE << "file", w.home >>]

Heard(heard, n) == Len(heard) >= n

-----------------------------------------------------------------------------
(* Codex: the backend when there is a token or an endpoint override, else  *)
(* the session logs, with the reason of a failed call kept in the row.     *)

\* Mutant: the reason of the failure is dropped.
codexLogsSilent(w, failed) ==
    Row("ok", "local", IF "logs" \in w.has THEN "percent" ELSE "zero", Login(w, "logs"))

\* Without a log, or without a reading in the last one, the row is ok with 0.
codexLogs(w, failed) ==
    LET row == Row("ok", "local", IF "logs" \in w.has THEN "percent" ELSE "zero", Login(w, "logs"))
    IN  IF failed THEN Why(row) ELSE row

fetchCodexBackendUsage(w, a) ==
    CASE a \in {"full", "exhausted"} -> Row("ok", "backend", "percent", Login(w, "auth"))
      [] a = "odd" -> Row("ok", "backend", "zero", Login(w, "auth"))  \* a plan and no window
      [] OTHER -> codexLogs(w, TRUE)

FetchCodexUsageForHome(w, heard) ==
    IF w.has \cap {"auth", "custom"} = {} THEN codexLogs(w, FALSE)
    ELSE IF ~Heard(heard, 1) THEN Ask
    ELSE fetchCodexBackendUsage(w, heard[1])

describeCodexCredential(w) == First(<< "auth", "logs" >>, w.has)

-----------------------------------------------------------------------------
(* Cursor: a custom endpoint, else the API with the local token, else the  *)
(* count of workspaces, which is always a warning.                         *)

cursorLocal(w) ==
    Row("warn", "local", IF "sessions" \in w.has THEN "count" ELSE "zero", Login(w, "sessions"))

fetchCursorCustomEndpoint(w, a) ==
    IF a = "bad" THEN Why(cursorLocal(w)) ELSE Row("ok", "remote", "percent", Login(w, "custom"))

fetchCursorAPIUsage(w, a) ==
    IF a = "bad" THEN Why([cursorLocal(w) EXCEPT !.source = "local-auth"])
    ELSE Row("ok", "local-auth", "count", Login(w, "auth"))

FetchCursorUsage(w, heard) ==
    IF "custom" \in w.has
    THEN IF Heard(heard, 1) THEN fetchCursorCustomEndpoint(w, heard[1]) ELSE Ask
    ELSE IF "auth" \in w.has
    THEN IF Heard(heard, 1) THEN fetchCursorAPIUsage(w, heard[1]) ELSE Ask
    ELSE cursorLocal(w)

\* CURSOR_API_KEY is the source "env": only the custom endpoint reads it.
describeCursorCredential(w) == First(<< "custom", "env", "auth", "sessions" >>, w.has)

-----------------------------------------------------------------------------
(* Copilot: the quota of the user, else the billing usage of the account   *)
(* whose name is configured or asked for; without a token, local logs.     *)

copilotSource(w) == First(<< "config", "env", "env2", "gh", "logs" >>, w.has)
describeCopilotCredential(w) == First(<< "config", "env", "env2", "gh", "logs" >>, w.has)

FetchCopilotLocalUsage(w) ==
    Row("ok", "local", IF "logs" \in w.has THEN "count" ELSE "zero", Login(w, "logs"))

fetchCopilotQuotaUsage(w, a) == a \in {"full", "exhausted"}

\* The calls are the quota, /user unless the user is configured, and billing.
copilotBilling(w, a) ==
    CASE a = "bad" -> Why(Row("error", "api", "n/a", Login(w, copilotSource(w))))
      [] a = "hollow" -> Row("ok", "api", "zero", Login(w, copilotSource(w)))
      [] OTHER -> Row("ok", "api", "count", Login(w, copilotSource(w)))

FetchCopilotUsage(w, heard) ==
    LET named == "user" \in w.has
    IN  IF w.has \cap {"config", "env", "env2", "gh"} = {} THEN FetchCopilotLocalUsage(w)
        ELSE IF ~Heard(heard, 1) THEN Ask
        ELSE IF fetchCopilotQuotaUsage(w, heard[1])
             THEN Row("ok", "quota", "count", Login(w, copilotSource(w)))
        ELSE IF ~Heard(heard, 2) THEN Ask
        ELSE IF named THEN copilotBilling(w, heard[2])
        ELSE IF heard[2] \notin {"full", "exhausted"}
             THEN Why(Row("error", "api", "n/a", Login(w, copilotSource(w))))
        ELSE IF ~Heard(heard, 3) THEN Ask
        ELSE copilotBilling(w, heard[3])

-----------------------------------------------------------------------------
(* Command Code: two calls that must succeed, and two that only add to the *)
(* row.                                                                    *)

resolveCommandCodeAPIKey(w) == First(<< "env", "auth" >>, w.has)
describeCommandCodeCredential(w) == First(<< "env", "auth" >>, w.has)

\* The buckets come from the credits; where these hold no window and no plan,
\* the plan of the subscription or a cost in the summary makes the monthly one.
commandCodeBuckets(credits, subscription, summary) ==
    \/ credits \in {"full", "exhausted"}
    \/ credits = "odd" /\ {subscription, summary} \cap {"full", "exhausted"} # {}

FetchCommandCodeUsage(w, heard) ==
    LET login == Login(w, resolveCommandCodeAPIKey(w))
        failed == \E i \in 1 .. Len(heard) : i <= 2 /\ heard[i] = "bad"
    IN  IF resolveCommandCodeAPIKey(w) = None THEN Row("warn", "remote", "n/a", NoLogin)
        ELSE IF failed THEN Why(Row("error", "remote", "n/a", login))
        ELSE IF ~Heard(heard, 4) THEN Ask
        ELSE IF commandCodeBuckets(heard[2], heard[3], heard[4]) THEN Row("ok", "remote", "percent", login)
        ELSE Why(Row("warn", "remote", "zero", login))

-----------------------------------------------------------------------------
(* Kimi: an account row does not read the key of the environment, and an   *)
(* expired file is not tried.                                              *)

\* Mutant: every row reads the environment first.
resolveKimiTokenAnywhere(w) == First(<< "env", "static", "rotated" >>, w.has)

resolveKimiTokenForHome(w) ==
    First(IF w.home = None THEN << "env", "static", "rotated" >> ELSE << "static", "rotated" >>,
          w.has)

\* Mutant: the probe looks at the rotated file before the static one.
describeKimiRotatedFirst(w) ==
    First(IF w.home = None THEN << "env", "rotated", "static" >> ELSE << "rotated", "static" >>,
          w.has)

describeKimiCredentialForHome(w) ==
    First(IF w.home = None THEN << "env", "static", "rotated" >> ELSE << "static", "rotated" >>,
          w.has)

fetchKimiUsageForHome(w, heard) ==
    LET source == resolveKimiTokenForHome(w)
        login  == Login(w, source)
    IN  IF source = None THEN Row("warn", "remote", "n/a", NoLogin)
        ELSE IF source = "rotated" /\ "expired" \in w.has THEN Why(Row("warn", "remote", "n/a", login))
        ELSE IF ~Heard(heard, 1) THEN Ask
        ELSE CASE heard[1] = "bad" -> Why(Row("error", "remote", "n/a", login))
               [] heard[1] = "hollow" -> Why(Row("warn", "remote", "n/a", login))
               [] heard[1] = "odd" -> Row("ok", "remote", "n/a", login)
               [] OTHER -> Row("ok", "remote", "percent", login)

-----------------------------------------------------------------------------
(* Qwen: a count of today's local records against a configured limit.      *)

describeQwenCredentialForHome(w) == First(<< "records" >>, w.has)

fetchQwenUsageForHome(w, heard) ==
    IF "records" \notin w.has THEN Row("warn", "local", "n/a", NoLogin)
    ELSE Row(IF "spent" \in w.has THEN "warn" ELSE "ok", "local", "percent", Login(w, "records"))

-----------------------------------------------------------------------------
(* MiniMax, OpenCode Go, Z.ai, Grok, DeepSeek and OpenRouter: one call.    *)

resolveMinimaxToken(w) == First(<< "env", "env2" >>, w.has)
describeMinimaxCredential(w) == First(<< "env", "env2" >>, w.has)

FetchMinimaxUsage(w, heard) ==
    LET login == Login(w, resolveMinimaxToken(w))
    IN  IF resolveMinimaxToken(w) = None THEN Row("warn", "remote", "n/a", NoLogin)
        ELSE IF ~Heard(heard, 1) THEN Ask
        ELSE CASE heard[1] = "bad" -> Why(Row("error", "remote", "n/a", login))
               [] heard[1] = "hollow" -> Why(Row("warn", "remote", "n/a", login))
               [] heard[1] = "exhausted" -> Row("warn", "remote", "percent", login)
               [] heard[1] = "odd" -> Row("ok", "remote", "n/a", login)
               [] OTHER -> Row("ok", "remote", "percent", login)

\* How the probes read OpenCode's auth.json: as strings throughout, so that a
\* number in any entry (the expiry of an OAuth login, "dated") makes them find
\* none; and an entry with a token under a name that only they know ("access")
\* passes for a credential.  `file` stands for the entry the fetcher can use.
credentialJSONEntryKeyPresent(w, file) ==
    "dated" \notin w.has /\ w.has \cap {file, "access"} # {}

Probed(w, file) ==
    IF credentialJSONEntryKeyPresent(w, file) THEN w.has \cup {file} ELSE w.has \ {file}

resolveOpenCodeGoAPIKey(w) == First(<< "env", "auth" >>, w.has)
describeOpenCodeCredential(w) == First(<< "env", "auth" >>, Probed(w, "auth"))

FetchOpenCodeUsage(w, heard) ==
    LET login == Login(w, resolveOpenCodeGoAPIKey(w))
    IN  IF resolveOpenCodeGoAPIKey(w) = None THEN Row("warn", "remote", "zero", NoLogin)
        ELSE IF ~Heard(heard, 1) THEN Ask
        ELSE CASE heard[1] \in {"bad", "hollow"} -> Why(Row("error", "remote", "n/a", login))
               [] heard[1] = "exhausted" -> Row("warn", "remote", "percent", login)
               [] heard[1] = "odd" -> Row("ok", "remote", "zero", login)
               [] OTHER -> Row("ok", "remote", "percent", login)

\* "anthropic" stands for an Anthropic token whose base URL is a Z.ai host.
resolveZaiCredential(w) == First(<< "env", "env2", "anthropic", "entry" >>, w.has)

describeZaiCredential(w) ==
    First(<< "env", "env2", "anthropic", "entry" >>, Probed(w, "entry"))

FetchZaiUsage(w, heard) ==
    LET login == Login(w, resolveZaiCredential(w))
    IN  IF resolveZaiCredential(w) = None THEN Row("warn", "remote", "n/a", NoLogin)
        ELSE IF ~Heard(heard, 1) THEN Ask
        ELSE CASE heard[1] = "bad" -> Why(Row("error", "remote", "n/a", login))
               [] heard[1] \in {"odd", "hollow"} -> Why(Row("warn", "remote", "n/a", login))
               [] OTHER -> Row("ok", "remote", "percent", login)

resolveGrokTokenForHome(w) == First(IF w.home = None THEN << "env", "auth" >> ELSE << "auth" >>, w.has)
describeGrokCredentialForHome(w) ==
    First(IF w.home = None THEN << "env", "auth" >> ELSE << "auth" >>, w.has)

\* The second call only adds the plan.
fetchGrokUsageForHome(w, heard) ==
    LET login == Login(w, resolveGrokTokenForHome(w))
    IN  IF resolveGrokTokenForHome(w) = None THEN Row("warn", "remote", "n/a", NoLogin)
        ELSE IF ~Heard(heard, 1) THEN Ask
        ELSE CASE heard[1] = "bad" -> Why(Row("error", "remote", "n/a", login))
               [] heard[1] \in {"odd", "hollow"} -> Why(Row("warn", "remote", "n/a", login))
               [] OTHER -> IF Heard(heard, 2) THEN Row("ok", "remote", "percent", login) ELSE Ask

describeDeepseekCredential(w) == First(<< "env" >>, w.has)

FetchDeepseekUsage(w, heard) ==
    IF "env" \notin w.has THEN Row("warn", "remote", "n/a", NoLogin)
    ELSE IF ~Heard(heard, 1) THEN Ask
    ELSE CASE heard[1] = "bad" -> Why(Row("error", "remote", "n/a", Login(w, "env")))
           [] heard[1] = "hollow" -> Why(Row("warn", "remote", "n/a", Login(w, "env")))
           [] heard[1] = "exhausted" -> Row("warn", "remote", "amount", Login(w, "env"))
           [] OTHER -> Row("ok", "remote", "amount", Login(w, "env"))

describeOpenRouterCredential(w) == First(<< "env" >>, w.has)

FetchOpenRouterUsage(w, heard) ==
    IF "env" \notin w.has THEN Row("warn", "remote", "n/a", NoLogin)
    ELSE IF ~Heard(heard, 1) THEN Ask
    ELSE IF heard[1] = "bad" THEN Why(Row("error", "remote", "n/a", Login(w, "env")))
    ELSE Row("ok", "remote", "amount", Login(w, "env"))

-----------------------------------------------------------------------------
\* providerFetchers: what the fetcher of p does next.
Fetch(p, w, heard) ==
    CASE p = "codex"        -> FetchCodexUsageForHome(w, heard)
      [] p = "cursor-agent" -> FetchCursorUsage(w, heard)
      [] p = "copilot"      -> FetchCopilotUsage(w, heard)
      [] p = "commandcode"  -> FetchCommandCodeUsage(w, heard)
      [] p = "kimi"         -> fetchKimiUsageForHome(w, heard)
      [] p = "qwen"         -> fetchQwenUsageForHome(w, heard)
      [] p = "minimax"      -> FetchMinimaxUsage(w, heard)
      [] p = "opencode"     -> FetchOpenCodeUsage(w, heard)
      [] p = "zai"          -> FetchZaiUsage(w, heard)
      [] p = "grok"         -> fetchGrokUsageForHome(w, heard)
      [] p = "deepseek"     -> FetchDeepseekUsage(w, heard)
      [] p = "openrouter"   -> FetchOpenRouterUsage(w, heard)
      [] p \in {"claude", "agy"} -> Row("ok", "remote", "percent", Login(w, "auth"))

\* The source `oct doctor` says "would actually be used".
DescribeProviderCredentials(p, w) ==
    CASE p = "codex"        -> describeCodexCredential(w)
      [] p = "cursor-agent" -> describeCursorCredential(w)
      [] p = "copilot"      -> describeCopilotCredential(w)
      [] p = "commandcode"  -> describeCommandCodeCredential(w)
      [] p = "kimi"         -> describeKimiCredentialForHome(w)
      [] p = "qwen"         -> describeQwenCredentialForHome(w)
      [] p = "minimax"      -> describeMinimaxCredential(w)
      [] p = "opencode"     -> describeOpenCodeCredential(w)
      [] p = "zai"          -> describeZaiCredential(w)
      [] p = "grok"         -> describeGrokCredentialForHome(w)
      [] p = "deepseek"     -> describeDeepseekCredential(w)
      [] p = "openrouter"   -> describeOpenRouterCredential(w)
      [] p \in {"claude", "agy"} -> "auth"
=============================================================================
