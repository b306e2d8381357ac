------------------------------ MODULE Polling -------------------------------
(***************************************************************************)
(* Who fetches the usage of an account, and when: the collectors of        *)
(* internal/reporting over the rows of usage.json (internal/usage), one of *)
(* them the auto-switch engine's scheduled collection                      *)
(* (internal/autoswitch/collect.go).                                       *)
(*                                                                         *)
(* A collector reads the rows, reserves what it may fetch under            *)
(* .usage.lock, fetches without it, and records the outcome and the next   *)
(* poll plan in two further critical sections; each is one step here.  The *)
(* plan is made for the role the account had when the pass began, and a    *)
(* /login changes roles behind cswap's back.                               *)
(*                                                                         *)
(* Every account keeps its slot, and the accounts have usable credentials  *)
(* (Roster, Custody).  The engine has no idle hold.                        *)
(***************************************************************************)
EXTENDS PollPolicy

CONSTANTS Acct,           \* account numbers
          Responses,      \* what the usage endpoint may answer
          Limit,          \* the threshold
          Start, Horizon, \* bounds: the time now, when the rows are from 0, and the last
          Passes, Faults, \* passes per collector; failed writes and logins
          FetchTime       \* how long the fetches of a pass may take

\* A percentage stays below the number that stands for an unknown headroom.
ASSUME PollingAssumption ==
  /\ Acct \subseteq Nat \ {0} /\ IsFiniteSet(Acct) /\ Acct # {}
  /\ {Limit, Start, Horizon, Passes, Faults, FetchTime} \subseteq Nat /\ Start <= Horizon
  /\ \A raw \in Responses : \A w \in BuildUsageResult(raw) :
       w.pct \in Nil .. NoHeadroom - 1 /\ w.reset \in Nat \cup {Nil}

Collectors == {"engine", "display"}

VARIABLES clk,       \* time
          rows,      \* usage.json
          inUse,     \* the active account
          coll,      \* per collector: its pass
          bad,       \* failed writes and logins so far
          unsaved    \* history: the accounts whose last reading, or the plan made for it,
                     \* could not be saved

pollVars == <<clk, rows, inUse, coll, bad, unsaved>>

Resting(n) ==
  [st |-> "idle", phase |-> "A", began |-> 0, since |-> 0, active |-> Nil,
   pre |-> [a \in {} |-> FreshRow], ask |-> {}, unserved |-> FALSE, passes |-> n]

Values == {BuildUsageResult(raw) : raw \in Responses}
Planned(i, at) == [FreshRow EXCEPT !.fetchedAt = 0, !.lastAttemptAt = 0, !.pollInterval = i,
                                   !.nextPollAt = at]

PollInit ==
  /\ clk = Start
  /\ inUse = Min(Acct)
  \* Every account was fetched under a plan of the role it had, or not at all.
  /\ \E u \in Values \ {NoUsage} :
       rows \in [Acct -> {FreshRow} \cup
                   {[Planned(i, at) EXCEPT !.lastGood = u] :
                      i \in {MinInterval, CandidateMax}, at \in {MinInterval, CandidateMax + 2}}]
  /\ \A a \in Acct : rows[a].fetchedAt # Nil =>
       rows[a].nextPollAt \in Jittered(0, rows[a].pollInterval)
  /\ coll = [c \in Collectors |-> Resting(0)]
  /\ bad = 0 /\ unsaved = {}

Bad == bad < Faults /\ bad' = bad + 1
Set(c, r) == coll' = [coll EXCEPT ![c] = r]

-----------------------------------------------------------------------------
(* A pass *)

\* The engine's first phase: the active account when its reading is missing,
\* due, or on a plan slower than any active one, and one due candidate.
StaleCandidatePlan(r) ==
  /\ r.fetchedAt # Nil /\ AgeOf(r, clk) >= ActiveMaxInterval
  /\ r.pollInterval > ActiveMaxInterval
  /\ BindingPct(r.lastGood, {}) \notin 100 .. NoHeadroom - 1

NominateBug(r) ==
  \/ r.fetchedAt = Nil
  \/ r.nextPollAt # Nil /\ clk >= r.nextPollAt
  \/ r.nextPollAt = Nil /\ AgeOf(r, clk) >= MinInterval
Nominate(r) ==
  \/ r.fetchedAt = Nil
  \/ StaleCandidatePlan(r)
  \/ r.nextPollAt # Nil /\ clk >= r.nextPollAt
  \/ r.nextPollAt = Nil /\ AgeOf(r, clk) >= MinInterval

EnginePlan ==
  {a \in {inUse} : Nominate(rows[a])} \cup DueCandidate(Acct \ {inUse}, rows, clk)

\* CollectUsageEntries: the rows and the roles are read; a dead token is not
\* asked.  The engine remembers that it could not ask for the active account.
Read(c, ask, r) ==
  Set(c, [r EXCEPT !.st = "reserve", !.active = inUse, !.pre = rows,
                   !.ask = {a \in ask : ~TokenDead(rows[a])},
                   !.unserved = @ \/ (c = "engine" /\ TokenDead(rows[inUse]))])

Begin(c) ==
  /\ coll[c].st = "idle" /\ coll[c].passes < Passes
  /\ Read(c, IF c = "engine" THEN EnginePlan ELSE Acct,
          [Resting(coll[c].passes + 1) EXCEPT !.began = clk])
  /\ UNCHANGED <<clk, rows, inUse, bad, unsaved>>

\* After a pass, the engine's second phase: a switch may be near, so everyone
\* is fetched.
Escalates(r) ==
  LET h == AccountHeadroom(DecisionValue(r, clk), {})
  IN  Cardinality(Acct) > 1 /\ (h = NoHeadroom \/ 100 - h >= Limit - EscalationMargin)

GoOn(c, unserved) ==
  LET r    == coll[c]
      rest == [Resting(r.passes) EXCEPT !.began = r.began, !.unserved = unserved]
  IN  IF c = "engine" /\ r.phase = "A" /\ Escalates(rows[r.active])
      THEN Read(c, Acct, [rest EXCEPT !.phase = "B"])
      ELSE Set(c, IF c = "engine" THEN [rest EXCEPT !.st = "decide", !.active = r.active]
                                  ELSE Resting(r.passes))

\* Reserve: under the lock, who is eligible now is claimed.
Reserve(c) ==
  LET won == {a \in coll[c].ask : RowEligible(rows[a], clk, c # "engine")}
      mine == rows[coll[c].active]
      unserved == coll[c].unserved \/ TokenDead(mine) \/ InBackoff(mine, clk)
  IN  /\ coll[c].st = "reserve"
      /\ rows' = [a \in Acct |-> IF a \in won THEN [rows[a] EXCEPT !.lastAttemptAt = clk]
                                 ELSE rows[a]]
      /\ IF won = {} THEN GoOn(c, unserved)
         ELSE Set(c, [coll[c] EXCEPT !.ask = won, !.since = clk, !.st = "fetch",
                                     !.unserved = c = "engine" /\ unserved])
      /\ UNCHANGED <<clk, inUse, bad, unsaved>>

\* The lock or the file fails: nothing is fetched.
ReserveFails(c) ==
  /\ coll[c].st = "reserve" /\ coll[c].ask # {} /\ Bad
  /\ GoOn(c, TRUE)
  /\ UNCHANGED <<clk, rows, inUse, unsaved>>

Outcomes ==
  [error : {""}, usage : Values, retryAfter : {Nil}]
    \cup [error : {"http-429"}, usage : {NoUsage}, retryAfter : {0}]
    \cup [error : {"invalid_grant"}, usage : {NoUsage}, retryAfter : {Nil}]

\* Record, after the fetches of the pass.  A failed write is not noticed.
Record(c, out) ==
  /\ coll[c].st = "fetch" /\ DOMAIN out = coll[c].ask
  /\ \/ /\ rows' = [a \in Acct |-> IF a \in coll[c].ask THEN RecordOutcome(rows[a], out[a], clk)
                                   ELSE rows[a]]
        /\ unsaved' = unsaved \ {a \in coll[c].ask : out[a].error = ""}
        /\ UNCHANGED bad
     \/ Bad /\ unsaved' = unsaved \cup coll[c].ask /\ UNCHANGED rows
  /\ Set(c, [coll[c] EXCEPT !.st = "plan", !.since = 0,
                            !.ask = {a \in coll[c].ask : out[a].error = ""}])
  /\ UNCHANGED <<clk, inUse>>

\* persistPollPlans: a plan for every success, from the rows before and after.
PlanInput(c, a) ==
  LET before == coll[c].pre[a]
  IN  [before |-> before, usage |-> rows[a].lastGood, isActive |-> a = coll[c].active,
       threshold |-> Limit, models |-> {}, now |-> clk,
       recent429 |-> before.last429At # Nil /\ clk - before.last429At < Recent429Window]

SetPollPlan(c) ==
  LET due == {a \in coll[c].ask : rows[a].fetchedAt # Nil}
  IN  /\ coll[c].st = "plan"
      /\ \E plans \in [due -> UNION {PlanAfterFetch(PlanInput(c, a)) : a \in due}] :
           /\ \A a \in due : plans[a] \in PlanAfterFetch(PlanInput(c, a))
           /\ rows' = [a \in Acct |->
                IF a \in due THEN [rows[a] EXCEPT !.nextPollAt = plans[a].nextPollAt,
                                                  !.pollInterval = plans[a].pollInterval]
                ELSE rows[a]]
      /\ GoOn(c, coll[c].unserved)
      /\ UNCHANGED <<clk, inUse, bad, unsaved>>

SetPollPlanFails(c) ==
  /\ coll[c].st = "plan" /\ coll[c].ask # {} /\ Bad
  /\ GoOn(c, coll[c].unserved)
  /\ unsaved' = unsaved \cup coll[c].ask
  /\ UNCHANGED <<clk, rows, inUse>>

\* The engine has decided; it may switch, and the new account is planned anew.
Decided ==
  /\ coll["engine"].st = "decide"
  /\ Set("engine", Resting(coll["engine"].passes))
  /\ \E a \in Acct : /\ inUse' = a
                     /\ rows' = IF a = inUse THEN rows
                                ELSE [rows EXCEPT ![a] = ReplanNewActive(@, clk)]
  /\ UNCHANGED <<clk, bad, unsaved>>

\* /login: another account is active and nobody plans it anew.
LoginElsewhere ==
  /\ Bad /\ inUse' \in Acct \ {inUse}
  /\ UNCHANGED <<clk, rows, coll, unsaved>>

\* The account is added again: its dead token is forgiven.
ClearDeadToken(a) ==
  /\ Bad /\ TokenDead(rows[a])
  /\ rows' = [rows EXCEPT ![a] = ClearedDeadToken(@)]
  /\ UNCHANGED <<clk, inUse, coll, unsaved>>

\* Time passes between passes and while a fetch is out.
TimeGoesOn ==
  /\ clk < Horizon
  /\ \A c \in Collectors : \/ coll[c].st = "idle"
                           \/ coll[c].st = "fetch" /\ clk < coll[c].since + FetchTime
  /\ clk' = clk + 1
  /\ UNCHANGED <<rows, inUse, coll, bad, unsaved>>

PollNext ==
  \/ \E c \in Collectors :
       \/ Begin(c) \/ Reserve(c) \/ ReserveFails(c) \/ SetPollPlan(c) \/ SetPollPlanFails(c)
       \/ \E out \in [coll[c].ask -> Outcomes] : Record(c, out)
  \/ Decided \/ LoginElsewhere \/ TimeGoesOn
  \/ \E a \in Acct : ClearDeadToken(a)

PollSpec == PollInit /\ [][PollNext]_pollVars

-----------------------------------------------------------------------------
(* Properties *)

PollTypeOK ==
  /\ clk \in 0 .. Horizon /\ inUse \in Acct /\ bad \in 0 .. Faults
  /\ \A a \in Acct : /\ DOMAIN rows[a] = DOMAIN FreshRow
                     /\ rows[a].fetchedAt \in Nil .. clk /\ rows[a].lastAttemptAt \in Nil .. clk
                     /\ rows[a].failures \in Nat /\ rows[a].strikes \in Nat
                     /\ rows[a].pollInterval = Nil \/ rows[a].pollInterval > 0
  /\ \A c \in Collectors : coll[c].ask \subseteq Acct
  /\ unsaved \subseteq Acct

\* Whatever plan an earlier role or another collector left behind, a tick
\* never decides on an active account whose last good reading was older than
\* an active plan allows when the tick began, unless the account was asked for
\* meanwhile, could not be (a dead token, a backoff, no reservation) or is at
\* its limit, or its last reading or the plan made for it could not be saved
\* (collect.go collectScheduledUsage, pollpolicy.go PlanAfterFetch).
ActiveIsPolled ==
  [][LET e == coll'["engine"]
         r == rows[e.active]
     IN  coll["engine"].st # "decide" /\ e.st = "decide" =>
           \/ r.fetchedAt # Nil /\ e.began - r.fetchedAt <= (11 * ActiveMaxInterval + 9) \div 10
           \/ r.lastAttemptAt > e.began - ClaimTTL
           \/ e.unserved \/ e.active \in unsaved
           \/ BindingPct(r.lastGood, {}) \in 100 .. NoHeadroom - 1]_pollVars
=============================================================================
