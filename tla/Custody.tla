------------------------------ MODULE Custody -------------------------------
(* Who may use up a refresh token: internal/reporting's usage collection,    *)
(* internal/oauth's refresh, and internal/session's launch of Claude Code    *)
(* under a profile of its own.                                               *)
(*                                                                           *)
(* A refresh token works once: the server answers with its successor and     *)
(* the old one is spent.  Copies of one token lie in the live login, in the  *)
(* slot's backup and in the session profile, and four parties refresh:       *)
(* Claude Code on the live login, Claude Code in a session, a collector for  *)
(* the usage display, and a launcher preparing a profile.  A collector talks *)
(* to the server without locks and persists under them; a launcher holds the *)
(* store FileLock across its refresh.  Claims on the usage rows expire, so   *)
(* two collectors may work on one account.                                   *)
(*                                                                           *)
(* The roster is fixed (Roster models its changes) and each account is its   *)
(* slot; a switch and a re-add are one step each (Switch, Roster).           *)
EXTENDS Integers, FiniteSets

CONSTANTS Account, Collector, Launcher, None,
          MaxMint,      \* tokens the server issues per account
          MaxEvents     \* what happens in a behaviour: passes, launches, faults, and
                        \* steps of Claude Code, the user and time

Token == Account \X (0 .. MaxMint)
Owner(t) == t[1]

ASSUME CustodyAssumption ==
  /\ None \notin Account \cup Collector \cup Launcher \cup Token
  /\ Collector \cap Launcher = {}
  /\ {MaxMint, MaxEvents} \subseteq Nat /\ MaxMint > 0

VARIABLES live, cfg,  \* the live credential, and the account its config names
          bk,         \* each account's backup credential
          prof,       \* each session profile: credential, login identity, stale marker
          cc,         \* is a Claude Code registered on the live login
          lock,       \* holder of the store FileLock
          row,        \* usage_cache.json: claimed or not due; authDeadStrikes reached
          minted, spent, expired,  \* the server's tokens; access tokens past expiresAt
          pass,       \* per collector: progress, IsActive as read, credentials as read
          fetch,      \* per collector and account: one TryFetchUsageForAccount
          run,        \* per launcher: progress, account, the credential to seed
          events      \* how much has happened

vars == <<live, cfg, bk, prof, cc, lock, row, minted, spent, expired, pass, fetch, run, events>>
server == <<minted, spent, expired>>

NoFetch == [st |-> "none", tok |-> None, orig |-> None, active |-> FALSE, may |-> FALSE,
            skipped |-> FALSE, out |-> "none", owned |-> {}]
NoPass == [st |-> "idle", active |-> None, creds |-> [a \in Account |-> None], moved |-> FALSE]
NoRun == [st |-> "idle", acct |-> None, cred |-> None]
NoProfile == [cred |-> None, ident |-> None, stale |-> FALSE]

Init ==
  /\ cfg \in Account
  /\ minted = [a \in Account |-> IF a = cfg THEN 1 ELSE 0]
  /\ spent = {<<cfg, 0>>}
  /\ live = <<cfg, 1>>
  \* The active slot's backup is current, or Claude Code has rotated past it.
  /\ bk \in {[a \in Account |-> IF a = cfg THEN <<a, n>> ELSE <<a, 0>>] : n \in {0, 1}}
  /\ expired \in SUBSET {<<a, minted[a]>> : a \in Account}
  /\ prof = [a \in Account |-> NoProfile]
  /\ cc = FALSE /\ lock = None
  /\ row = [a \in Account |-> [busy |-> FALSE, dead |-> FALSE]]
  /\ pass = [c \in Collector |-> NoPass]
  /\ fetch = [c \in Collector |-> [a \in Account |-> NoFetch]]
  /\ run = [l \in Launcher |-> NoRun]
  /\ events = 0

Event == events < MaxEvents /\ events' = events + 1
Fault == Event
Keep == UNCHANGED events

-----------------------------------------------------------------------------
(* The server, the profiles and the guards.                                  *)

IsOAuthTokenExpired(t) == t \in expired
Next1(t) == <<Owner(t), minted[Owner(t)] + 1>>

\* The server exchanges t for its successor.
Rotate(t) ==
  /\ t \notin spent /\ minted[Owner(t)] < MaxMint
  /\ minted' = [minted EXCEPT ![Owner(t)] = @ + 1]
  /\ spent' = spent \cup {t}
  /\ UNCHANGED expired

\* A sign-in at the server starts a new family for a.
SignIn(a) == minted[a] < MaxMint /\ minted' = [minted EXCEPT ![a] = @ + 1] /\ UNCHANGED <<spent, expired>>

\* Registrations of running instances: on the live login, and in a profile.  A scan
\* of the first kind that fails counts as an owner.
InstancesRunning == cc
ActiveCCRunning(scanFails) == InstancesRunning \/ scanFails
LiveSession(a) == \E l \in Launcher : run[l].st = "live" /\ run[l].acct = a
SessionIdentityDrifted(a) == prof[a].ident \notin {None, a}
MarkStale(p, a) == [p EXCEPT ![a].stale = TRUE]
InvalidateSessionCredentials(p, a) == [p EXCEPT ![a].cred = None, ![a].stale = FALSE]

\* What the registered instances of Claude Code hold.  A profile in which a bootstrap
\* failed between its two writes has the slot's credential under another's login: what
\* the session there held is gone.
LoginHolds(a) == prof[a].cred # None /\ prof[a].ident = Owner(prof[a].cred)
OwnedTokens ==
  (IF InstancesRunning THEN {live} ELSE {})
    \cup {prof[a].cred : a \in {b \in Account : LiveSession(b) /\ LoginHolds(b)}}

\* postBackupWrite: a live session keeps its credential and is marked stale.
PostBackupWriteBug(p, a) == InvalidateSessionCredentials(p, a)

PostBackupWrite(p, a) ==
  IF p[a].ident = None THEN p
  ELSE IF LiveSession(a) THEN MarkStale(p, a) ELSE InvalidateSessionCredentials(p, a)

WriteAccountCredentials(a, t) ==
  /\ bk' = [bk EXCEPT ![a] = t]
  /\ prof' = PostBackupWrite(prof, a)

-----------------------------------------------------------------------------
(* CollectUsageEntries.                                                      *)

\* BuildAccountsInfo, first read: the roster and which account is current.
ReadCurrent(c) ==
  /\ pass[c].st = "idle"
  /\ pass' = [pass EXCEPT ![c] = [NoPass EXCEPT !.st = "current", !.active = cfg]]
  /\ Event
  /\ UNCHANGED <<live, cfg, bk, prof, cc, lock, row, server, fetch, run>>

\* BuildAccountsInfo, second read: the live credential for it, backups for the rest.
ReadCredentials(c) ==
  /\ pass[c].st = "current"
  /\ pass' = [pass EXCEPT ![c].st = "info",
                          ![c].creds = [a \in Account |-> IF a = pass[c].active THEN live ELSE bk[a]]]
  /\ Keep /\ UNCHANGED <<live, cfg, bk, prof, cc, lock, row, server, fetch, run>>

StaticUsageSentinel(c, a) ==
  LET t == pass[c].creds[a]
  IN  \/ t = None
      \/ a = pass[c].active /\ IsOAuthTokenExpired(t) /\ (ActiveCCRunning(FALSE) \/ LiveSession(a))
RowEligible(a) == ~row[a].dead /\ ~row[a].busy

\* Sentinels, the quarantine and the atomic Reserve.  fetch = nil or a set: some
\* of the eligible accounts are asked for.
Reserve(c) ==
  /\ pass[c].st = "info"
  /\ \E asked \in SUBSET {a \in Account : RowEligible(a) /\ ~StaticUsageSentinel(c, a)} :
       /\ row' = [a \in Account |-> IF a \in asked THEN [row[a] EXCEPT !.busy = TRUE] ELSE row[a]]
       /\ fetch' = [fetch EXCEPT ![c] = [a \in Account |->
                       IF a \in asked THEN [NoFetch EXCEPT !.st = "won"] ELSE NoFetch]]
       /\ pass' = IF asked = {} THEN [pass EXCEPT ![c] = NoPass] ELSE [pass EXCEPT ![c].st = "fetching"]
  /\ Keep /\ UNCHANGED <<live, cfg, bk, prof, cc, lock, server, run>>

SetFetch(c, a, f) == fetch' = [fetch EXCEPT ![c][a] = f]
Done(f, out) == [f EXCEPT !.st = "done", !.out = out]

\* TryFetchUsageForAccount with credential t; may: isActive is false.
Start(c, a, t, may, active) ==
  SetFetch(c, a, [st |-> IF may /\ IsOAuthTokenExpired(t) THEN "refresh1" ELSE "usage1",
                  tok |-> t, orig |-> t, active |-> active, may |-> may, skipped |-> FALSE,
                  out |-> "none", owned |-> OwnedTokens])
UnattributedBug(a, t) == FALSE

Unattributed(a, t) == bk[a] # t

\* fetchActiveUsage up to its request: only the owner of the live login may
\* refresh it, and nobody refreshes what is not known to be this slot's.
FetchActiveUsage(c, a, t, scanFails) ==
  LET readOnly == ActiveCCRunning(scanFails) \/ LiveSession(a) \/ Unattributed(a, t)
  IN  IF readOnly /\ IsOAuthTokenExpired(t)
      THEN SetFetch(c, a, Done(NoFetch, "sentinel"))
      ELSE Start(c, a, t, ~readOnly, TRUE)

\* fetchAccountUsage for an inactive account: the profile's credential read-only
\* while it is fresh, else the backup, not refreshed while a session is live.
FetchInactiveUsageBug(c, a) ==
  IF prof[a].cred # None /\ ~IsOAuthTokenExpired(prof[a].cred)
  THEN Start(c, a, prof[a].cred, FALSE, FALSE)
  ELSE Start(c, a, pass[c].creds[a], TRUE, FALSE)

FetchInactiveUsage(c, a) ==
  LET own == prof[a].cred # None /\ ~SessionIdentityDrifted(a)
      session == LiveSession(a) /\ ~(prof[a].cred # None /\ SessionIdentityDrifted(a))
  IN  IF own /\ ~IsOAuthTokenExpired(prof[a].cred) THEN Start(c, a, prof[a].cred, FALSE, FALSE)
      ELSE IF own /\ session THEN SetFetch(c, a, Done(NoFetch, "sentinel"))
      ELSE Start(c, a, pass[c].creds[a], ~session, FALSE)

Route(c, a) ==
  /\ fetch[c][a].st = "won"
  /\ \/ a = pass[c].active /\ Keep /\ FetchActiveUsage(c, a, pass[c].creds[a], FALSE)
     \/ a = pass[c].active /\ Fault /\ FetchActiveUsage(c, a, pass[c].creds[a], TRUE)
     \/ a # pass[c].active /\ Keep /\ FetchInactiveUsage(c, a)
  /\ UNCHANGED <<live, cfg, bk, prof, cc, lock, row, server, pass, run>>

Refreshing(c, a) == fetch[c][a].st \in {"refresh1", "refresh2"}

\* Client.Refresh answers with the successor.
RefreshOk(c, a) ==
  LET f == fetch[c][a]
  IN  /\ Refreshing(c, a) /\ Rotate(f.tok)
      /\ SetFetch(c, a, [f EXCEPT !.tok = Next1(f.tok),
                                  !.st = IF f.st = "refresh1" THEN "persist1" ELSE "persist2"])
      /\ Keep /\ UNCHANGED <<live, cfg, bk, prof, cc, lock, row, pass, run>>

\* invalid_grant: the token was spent before.
RefreshInvalid(c, a) ==
  /\ Refreshing(c, a) /\ fetch[c][a].tok \in spent
  /\ SetFetch(c, a, Done(fetch[c][a], "invalid_grant"))
  /\ Keep /\ UNCHANGED <<live, cfg, bk, prof, cc, lock, row, server, pass, run>>

\* No answer: the request was lost, or the server acted and its answer was.
RefreshLost(c, a) ==
  LET f == fetch[c][a]
  IN  /\ Refreshing(c, a) /\ Fault
      /\ Rotate(f.tok) \/ UNCHANGED server
      /\ SetFetch(c, a, IF f.st = "refresh1" THEN [f EXCEPT !.st = "usage1"] ELSE Done(f, "error"))
      /\ UNCHANGED <<live, cfg, bk, prof, cc, lock, row, pass, run>>

Persisted(f, skip) == [f EXCEPT !.st = IF f.st = "persist1" THEN "usage1" ELSE "usage2",
                                !.skipped = skip]

\* persist of fetchActiveUsage, under the triple lock: the live credential and
\* then the backup, unless an owner or another credential has appeared.
PersistActive(c, a) ==
  LET f == fetch[c][a]
      mine == ~ActiveCCRunning(FALSE) /\ ~LiveSession(a) /\ live = f.orig
  IN  \/ ~mine /\ SetFetch(c, a, Persisted(f, TRUE)) /\ Keep /\ UNCHANGED <<live, bk, prof>>
      \/ mine /\ live' = f.tok /\ WriteAccountCredentials(a, f.tok)
         /\ SetFetch(c, a, Persisted(f, FALSE)) /\ Keep
      \/ mine /\ Fault /\ live' \in {live, f.tok} /\ UNCHANGED <<bk, prof>>
         /\ SetFetch(c, a, Persisted(f, TRUE))

\* persist of an inactive account: PersistBackupCredentials.
PersistInactive(c, a) ==
  LET f == fetch[c][a]
  IN  /\ \/ WriteAccountCredentials(a, f.tok) /\ Keep
         \/ Fault /\ UNCHANGED <<bk, prof>>
      /\ SetFetch(c, a, Persisted(f, FALSE)) /\ UNCHANGED live

Persist(c, a) ==
  /\ fetch[c][a].st \in {"persist1", "persist2"} /\ lock = None
  /\ IF fetch[c][a].active THEN PersistActive(c, a) ELSE PersistInactive(c, a)
  /\ UNCHANGED <<cfg, cc, lock, row, server, pass, run>>

\* A lock was not had in time: the callback fails.
PersistTimesOut(c, a) ==
  /\ fetch[c][a].st \in {"persist1", "persist2"} /\ Fault
  /\ SetFetch(c, a, Persisted(fetch[c][a], fetch[c][a].active))
  /\ UNCHANGED <<live, cfg, bk, prof, cc, lock, row, server, pass, run>>

\* fetchActiveUsage's last word: nothing is shown for a credential not kept.
Outcome(f, out) ==
  Done(f, IF f.active /\ (f.skipped \/ (out # "ok" /\ f.orig \in expired)) THEN "sentinel" ELSE out)

\* The usage request is answered: the token is unexpired.
UsageOk(c, a) ==
  /\ fetch[c][a].st \in {"usage1", "usage2"} /\ fetch[c][a].tok \notin expired
  /\ SetFetch(c, a, Outcome(fetch[c][a], "ok"))
  /\ Keep /\ UNCHANGED <<live, cfg, bk, prof, cc, lock, row, server, pass, run>>

\* 401 for an expired or a superseded token: one retry after a refresh.
Usage401(c, a) ==
  LET f == fetch[c][a]
  IN  /\ f.st \in {"usage1", "usage2"} /\ f.tok \in expired \cup spent
      /\ SetFetch(c, a, IF f.st = "usage1" /\ f.may THEN [f EXCEPT !.st = "refresh2"]
                        ELSE Outcome(f, "error"))
      /\ Keep /\ UNCHANGED <<live, cfg, bk, prof, cc, lock, row, server, pass, run>>

\* Another HTTP error, a timeout, no network.
UsageFails(c, a) ==
  /\ fetch[c][a].st \in {"usage1", "usage2"} /\ Fault
  /\ SetFetch(c, a, Outcome(fetch[c][a], "error"))
  /\ UNCHANGED <<live, cfg, bk, prof, cc, lock, row, server, pass, run>>

\* Record: a success clears the strikes, invalid_grant is a strike, any other
\* error only backs off, a sentinel leaves the row.
Recorded(r, out) ==
  IF out \in {"none", "sentinel"} THEN r
  ELSE [busy |-> TRUE, dead |-> out # "ok" /\ (r.dead \/ out = "invalid_grant")]

Record(c) ==
  /\ pass[c].st = "fetching" /\ \A a \in Account : fetch[c][a].st \in {"none", "done"}
  /\ \/ row' = [a \in Account |-> Recorded(row[a], fetch[c][a].out)] /\ Keep
     \/ Fault /\ UNCHANGED row
  /\ pass' = [pass EXCEPT ![c] = NoPass]
  /\ fetch' = [fetch EXCEPT ![c] = [a \in Account |-> NoFetch]]
  /\ UNCHANGED <<live, cfg, bk, prof, cc, lock, server, run>>

\* The collector's process dies.
CollectorDies(c) ==
  /\ pass[c].st # "idle" /\ Fault
  /\ pass' = [pass EXCEPT ![c] = NoPass]
  /\ fetch' = [fetch EXCEPT ![c] = [a \in Account |-> NoFetch]]
  /\ UNCHANGED <<live, cfg, bk, prof, cc, lock, row, server, run>>

-----------------------------------------------------------------------------
(* cswap run.                                                                *)

SetRun(l, r) == run' = [run EXCEPT ![l] = r]
StaleAppliesBug(a) == prof[a].stale

StaleApplies(a) == prof[a].stale /\ ~LiveSession(a)
\* `claude auth status` in the profile; the probe itself may fail.
IsSessionValid(a) == prof[a].cred # None /\ prof[a].ident = a
ProbeFails == Fault

\* setupPreamble: the current default account is run as plain claude (StartClaude).
Launch(l, a) ==
  /\ run[l].st = "idle" /\ a # cfg
  /\ SetRun(l, [NoRun EXCEPT !.st = "check", !.acct = a]) /\ Event
  /\ UNCHANGED <<live, cfg, bk, prof, cc, lock, row, server, pass, fetch>>

\* SetupSession's check without the lock.
CheckProfile(l) ==
  LET a == run[l].acct
      ok == ~StaleApplies(a) /\ IsSessionValid(a)
  IN  /\ run[l].st = "check"
      /\ \/ SetRun(l, [run[l] EXCEPT !.st = IF ok THEN "exec" ELSE "wait"]) /\ Keep
         \/ ok /\ ProbeFails /\ SetRun(l, [run[l] EXCEPT !.st = "wait"])
      /\ UNCHANGED <<live, cfg, bk, prof, cc, lock, row, server, pass, fetch>>

LockTimesOut(l) ==
  /\ run[l].st = "wait" /\ lock # None
  /\ SetRun(l, NoRun) /\ Keep
  /\ UNCHANGED <<live, cfg, bk, prof, cc, lock, row, server, pass, fetch>>

\* Under the lock: the marker again, validity again, then the backup is read.
SetupLocked(l) ==
  LET a == run[l].acct
      p == IF StaleApplies(a) THEN InvalidateSessionCredentials(prof, a) ELSE prof
      ok == p[a].cred # None /\ p[a].ident = a
      begin == [run[l] EXCEPT !.st = "refresh", !.cred = bk[a]]
  IN  /\ run[l].st = "wait" /\ lock = None /\ prof' = p
      /\ \/ ok /\ SetRun(l, [run[l] EXCEPT !.st = "exec"]) /\ Keep /\ UNCHANGED lock
         \/ ~ok /\ bk[a] # None /\ SetRun(l, begin) /\ lock' = l /\ Keep
         \/ ~ok /\ bk[a] = None /\ SetRun(l, NoRun) /\ Keep /\ UNCHANGED lock
         \/ ok /\ bk[a] # None /\ ProbeFails /\ SetRun(l, begin) /\ lock' = l
      /\ UNCHANGED <<live, cfg, bk, cc, row, server, pass, fetch>>

\* bootstrap's one refresh: any failure keeps the stored credential.  A rotated
\* one goes to the backup first; if that fails the launch is given up.
BootstrapRefresh(l) ==
  LET r == run[l]
      seed == [r EXCEPT !.st = "seed"]
  IN  /\ r.st = "refresh"
      /\ \/ /\ Rotate(r.cred) /\ WriteAccountCredentials(r.acct, Next1(r.cred)) /\ Keep
            /\ SetRun(l, [seed EXCEPT !.cred = Next1(r.cred)]) /\ UNCHANGED lock
         \/ /\ Rotate(r.cred) /\ Fault
            /\ SetRun(l, NoRun) /\ lock' = None /\ UNCHANGED <<bk, prof>>
         \/ r.cred \in spent /\ SetRun(l, seed) /\ Keep /\ UNCHANGED <<bk, prof, lock, server>>
         \/ Fault /\ SetRun(l, seed)
            /\ (Rotate(r.cred) \/ UNCHANGED server) /\ UNCHANGED <<bk, prof, lock>>
      /\ UNCHANGED <<live, cfg, cc, row, pass, fetch>>

\* The launch goes on with the lock still held.
SeedBug(l) ==
  /\ run[l].st = "seed"
  /\ prof' = [prof EXCEPT ![run[l].acct].cred = run[l].cred, ![run[l].acct].ident = run[l].acct]
  /\ SetRun(l, [run[l] EXCEPT !.st = "exec"]) /\ Keep
  /\ UNCHANGED <<live, cfg, bk, cc, lock, row, server, pass, fetch>>

\* The credential and the identity are written and the profile is probed again;
\* a failed write gives up, a failed probe also removes the profile.
Seed(l) ==
  LET r == run[l]
      a == r.acct
  IN  /\ r.st = "seed" /\ lock' = None
      /\ \/ /\ prof' = [prof EXCEPT ![a].cred = r.cred, ![a].ident = a]
            /\ SetRun(l, [r EXCEPT !.st = "exec"]) /\ Keep
         \/ /\ Fault /\ SetRun(l, NoRun)
            /\ prof' \in {prof, [prof EXCEPT ![a] = NoProfile]}
                 \cup (IF prof[a].ident = None THEN {} ELSE {[prof EXCEPT ![a].cred = r.cred]})
      /\ UNCHANGED <<live, cfg, bk, cc, row, server, pass, fetch>>

\* exec: from here on the process is Claude Code, and registers itself.
Register(l) ==
  /\ run[l].st = "exec" /\ prof[run[l].acct].ident # None
  /\ SetRun(l, [run[l] EXCEPT !.st = "live", !.cred = None]) /\ Keep
  /\ UNCHANGED <<live, cfg, bk, prof, cc, lock, row, server, pass, fetch>>

\* The launcher dies, or the session's user leaves.
Gone(l) ==
  /\ run[l].st # "idle" /\ SetRun(l, NoRun) /\ Event
  /\ lock' = IF lock = l THEN None ELSE lock
  /\ UNCHANGED <<live, cfg, bk, prof, cc, row, server, pass, fetch>>

-----------------------------------------------------------------------------
(* Claude Code, the user and time.                                           *)

Rest == UNCHANGED <<row, pass, fetch, run>>
\* Passes under way were begun under another live login.
Moved == pass' = [c \in Collector |-> [pass[c] EXCEPT !.moved = pass[c].st # "idle"]]

\* Claude Code starts and stops on the live login, and refreshes it.
ClaudeToggles ==
  /\ cc' = ~cc /\ Event /\ Rest
  /\ UNCHANGED <<live, cfg, bk, prof, lock, server>>
ClaudeRefreshes ==
  /\ cc /\ Rotate(live) /\ live' = Next1(live)
  /\ Event /\ Rest /\ UNCHANGED <<cfg, bk, prof, cc, lock>>

\* In a session: a refresh, or a /login as any account.
SessionRefreshes(a) ==
  /\ LiveSession(a) /\ prof[a].cred # None /\ Rotate(prof[a].cred)
  /\ prof' = [prof EXCEPT ![a].cred = Next1(prof[a].cred)]
  /\ Event /\ Rest /\ UNCHANGED <<live, cfg, bk, cc, lock>>
SessionLogin(a, b) ==
  /\ LiveSession(a) /\ Event /\ SignIn(b)
  /\ prof' = [prof EXCEPT ![a].cred = <<b, minted[b] + 1>>, ![a].ident = b]
  /\ Rest /\ UNCHANGED <<live, cfg, bk, cc, lock>>

\* /login in Claude Code, alone or followed by cswap add (which lifts the quarantine).
Login(a) ==
  /\ Event /\ SignIn(a)
  /\ live' = <<a, minted[a] + 1>> /\ cfg' = a /\ Moved
  /\ UNCHANGED <<bk, prof, cc, lock, row, fetch, run>>
Add ==
  /\ lock = None /\ bk[cfg] # live
  /\ WriteAccountCredentials(cfg, live)
  /\ row' = [row EXCEPT ![cfg] = [busy |-> FALSE, dead |-> FALSE]]
  /\ Event /\ UNCHANGED <<live, cfg, cc, lock, server, pass, fetch, run>>

\* A switch to b: backs up the outgoing login and activates b's backup.
SwitchTo(b) ==
  /\ lock = None /\ b # cfg /\ bk[b] # None
  /\ Event
  /\ WriteAccountCredentials(cfg, live)
  /\ live' = bk[b] /\ cfg' = b /\ Moved
  /\ UNCHANGED <<cc, lock, row, server, fetch, run>>

\* Time: an access token runs out; a claim, a backoff or a poll plan falls due.
TokenExpires(t) ==
  /\ t \in Token \ expired /\ t[2] <= minted[Owner(t)]
  /\ Event
  /\ expired' = expired \cup {t}
  /\ Rest /\ UNCHANGED <<live, cfg, bk, prof, cc, lock, minted, spent>>
RowFallsDue(a) ==
  /\ row[a].busy /\ row' = [row EXCEPT ![a].busy = FALSE]
  /\ Event /\ UNCHANGED <<live, cfg, bk, prof, cc, lock, server, pass, fetch, run>>

CollectorNext(c) ==
  \/ ReadCurrent(c) \/ ReadCredentials(c) \/ Reserve(c) \/ Record(c) \/ CollectorDies(c)
  \/ \E a \in Account :
       \/ Route(c, a) \/ RefreshOk(c, a) \/ RefreshInvalid(c, a) \/ RefreshLost(c, a)
       \/ Persist(c, a) \/ PersistTimesOut(c, a)
       \/ UsageOk(c, a) \/ Usage401(c, a) \/ UsageFails(c, a)
LauncherNext(l) ==
  \/ \E a \in Account : Launch(l, a)
  \/ CheckProfile(l) \/ LockTimesOut(l) \/ SetupLocked(l) \/ BootstrapRefresh(l)
  \/ Seed(l) \/ Register(l) \/ Gone(l)
Environment ==
  \/ ClaudeToggles \/ ClaudeRefreshes \/ Add
  \/ \E a \in Account : SessionRefreshes(a) \/ Login(a) \/ SwitchTo(a) \/ RowFallsDue(a)
  \/ \E a, b \in Account : SessionLogin(a, b)
  \/ \E t \in Token : TokenExpires(t)

Next ==
  \/ \E c \in Collector : CollectorNext(c)
  \/ \E l \in Launcher : LauncherNext(l)
  \/ Environment
Spec == Init /\ [][Next]_vars

-----------------------------------------------------------------------------
(* Properties.                                                               *)

\* Every variable has its type, and only issued tokens are held.
TypeOK ==
  /\ live \in Token /\ cfg \in Account
  /\ bk \in [Account -> Token \cup {None}]
  /\ prof \in [Account -> [cred : Token \cup {None}, ident : Account \cup {None}, stale : BOOLEAN]]
  /\ cc \in BOOLEAN /\ lock \in Launcher \cup {None}
  /\ row \in [Account -> [busy : BOOLEAN, dead : BOOLEAN]]
  /\ minted \in [Account -> 0 .. MaxMint] /\ spent \subseteq Token /\ expired \subseteq Token
  /\ \A t \in spent \cup expired \cup {live} : t[2] <= minted[Owner(t)]
  /\ \A l \in Launcher : (lock = l) = (run[l].st \in {"refresh", "seed"})

\* A collector never asks the server to rotate a token that a registered Claude
\* Code held when the fetch was routed (fetchAccountUsage, fetchActiveUsage: "only
\* an owner may refresh this credential").  Not promised after a switch or a /login between
\* the collector's read of the accounts and its fetch: it then still takes the new
\* live account for inactive, or the old one's credential for the live one; nor in a
\* profile that a failed bootstrap left with another's login (LoginHolds).
OwnersKeepTheirToken ==
  \A c \in Collector, a \in Account :
    Refreshing(c, a) /\ ~pass[c].moved => fetch[c][a].tok \notin fetch[c][a].owned

\* A slot's backup is a token of the slot's own account, whatever reads were torn
\* by a switch or a login between them.
SlotsHoldOwnTokens == \A a \in Account : bk[a] # None => Owner(bk[a]) = a

\* While Claude Code is registered in a profile, cswap changes the credential there
\* only when it bootstraps a profile that it found invalid (postBackupWrite marks the
\* profile stale instead, staleApplies defers the invalidation).
LiveSessionKeepsCredential ==
  [][\A a \in Account :
       LiveSession(a) /\ prof'[a].cred # prof[a].cred =>
         \/ server' # server /\ prof'[a].cred # None
         \/ \E l \in Launcher : run[l].st = "seed" /\ run[l].acct = a]_vars

\* An account shown as "re-login needed - refresh token dead" has no usable token in
\* its backup (TokenDead: "the credential's refresh-token lineage is provably dead").
QuarantineIsTrue == \A a \in Account : row[a].dead => bk[a] \in spent \cup {None}
=============================================================================
