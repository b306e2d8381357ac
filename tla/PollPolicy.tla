----------------------------- MODULE PollPolicy -----------------------------
(***************************************************************************)
(* The arithmetic of cswap's usage cache: the windows of a usage reading,  *)
(* the headroom a switch is decided on, when a reading may be trusted,     *)
(* who may fetch it, how a failure backs off and how the next poll is      *)
(* planned (internal/oauth/windows.go, internal/usage).                    *)
(*                                                                         *)
(* Time is counted in half minutes, which makes every constant of          *)
(* usage/consts.go exact except ClaimTTL (10 s, rounded up to one unit).   *)
(* A deadline is the first unit at which now >= deadline holds.            *)
(*                                                                         *)
(* A reading is a set of windows [label, pct, reset], pct Nil when it is   *)
(* no number; the labels other than "5h" and "7d" are model-scoped.  Spend *)
(* is not a decision axis and is left out.                                 *)
(***************************************************************************)
EXTENDS Integers, FiniteSets, FiniteSetsExt

Nil == -1              \* no time, no plan, no reset: never a real time
NoHeadroom == 1000     \* unknown headroom: a real one is at most 100
NoWindow == [null |-> TRUE]

StaleOK == 10
ClaimTTL == 1
TrustMaxAge == 120
BackoffBase == 1
BackoffCap == 20
RetryAfterFloorCap == 30
AuthDeadStrikes == 1
ServeTTL == 6
MinInterval == 6
UrgentInterval == 2
ActiveMaxInterval == 10
CandidateDefault == 10
CandidateMax == 20
MovementDelta == 1
EdgeBackoff == 10
Post429MinInterval == 12
Recent429Window == 120
EscalationMargin == 15
ResetSlack == 2

-----------------------------------------------------------------------------
(* Windows and headroom *)

NoUsage == {}

\* BuildUsageResult, of the server's answer: a window that is null is left out,
\* and so is a limit without a model or a percentage.
SimpleWindow(label, w) ==
  IF w = NoWindow THEN {} ELSE {[label |-> label, pct |-> w.utilization, reset |-> w.resets_at]}
ScopedEntries(limits) ==
  {[label |-> l.model, pct |-> l.percent, reset |-> l.resets_at] :
     l \in {x \in limits : x.model # "" /\ x.percent # Nil}}
BuildUsageResult(raw) ==
  SimpleWindow("5h", raw.five_hour) \cup SimpleWindow("7d", raw.seven_day)
    \cup ScopedEntries(raw.limits)

\* A window without a usable percentage is kept and never decided on.
NewUsage(u) == {w \in u : w.pct # Nil}

RelevantWindows(u, models) ==
  {w \in NewUsage(u) : \/ w.label \in {"5h", "7d"}
                       \/ models # {} /\ ("all" \in models \/ w.label \in models)}

AccountHeadroom(u, models) ==
  LET ws == RelevantWindows(u, models)
  IN  IF ws = {} THEN NoHeadroom ELSE 100 - Max({w.pct : w \in ws})

BindingPct(u, models) ==
  LET h == AccountHeadroom(u, models)
  IN  IF h = NoHeadroom THEN NoHeadroom ELSE 100 - h

LatestOf(ts) == IF ts = {} THEN Nil ELSE Max(ts)
EarliestOf(ts) == IF ts = {} THEN Nil ELSE Min(ts)

\* The weekly windows' latest known reset.
RenewalTS(u, models) ==
  LatestOf({w.reset : w \in {x \in RelevantWindows(u, models) :
                               x.label # "5h" /\ x.reset # Nil}})

\* When the last of the exhausted windows resets.
LimitingResetTS(u, models) ==
  LatestOf({w.reset : w \in {x \in RelevantWindows(u, models) :
                               x.pct >= 100 /\ x.reset # Nil}})

EarliestFutureResetTS(u, t, models) ==
  EarliestOf({w.reset : w \in {x \in RelevantWindows(u, models) : x.reset > t}})

-----------------------------------------------------------------------------
(* Rows of usage.json *)

FreshRow ==
  [lastGood |-> NoUsage, fetchedAt |-> Nil, lastAttemptAt |-> Nil,
   failures |-> 0, backoffUntil |-> Nil, nextPollAt |-> Nil,
   pollInterval |-> Nil, last429At |-> Nil, strikes |-> 0]

AgeOf(r, t) == t - r.fetchedAt

Claimed(r, t) == r.lastAttemptAt # Nil /\ t - r.lastAttemptAt < ClaimTTL
InBackoff(r, t) == r.backoffUntil # Nil /\ t < r.backoffUntil
TokenDead(r) == r.strikes >= AuthDeadStrikes

TrustExtended(r, t) ==
  /\ r.fetchedAt # Nil /\ AgeOf(r, t) <= TrustMaxAge
  /\ r.failures > 0 \/ (r.nextPollAt # Nil /\ t < r.nextPollAt) \/ Claimed(r, t)

\* The reading a decision runs on: the last good one while it may be trusted.
DecisionValue(r, t) ==
  IF r.fetchedAt # Nil /\ (AgeOf(r, t) <= StaleOK \/ TrustExtended(r, t))
  THEN r.lastGood ELSE NoUsage

RowEligible(r, t, respectPlans) ==
  LET stale   == r.fetchedAt = Nil \/ AgeOf(r, t) > ServeTTL
      pollDue == r.nextPollAt # Nil /\ t >= r.nextPollAt
  IN  /\ ~TokenDead(r)
      /\ ~InBackoff(r, t)
      /\ ~Claimed(r, t)
      /\ IF respectPlans THEN stale /\ (pollDue \/ r.nextPollAt = Nil)
                         ELSE pollDue \/ stale

MaxOf(x, y) == IF x >= y THEN x ELSE y
MinOf(x, y) == IF x <= y THEN x ELSE y

\* Thirty seconds doubled per failure, with the server's Retry-After a floor.
FailureBackoff(failures, retryAfter) ==
  LET computed == MinOf(BackoffBase * 2^(failures - 1), BackoffCap)
  IN  CASE retryAfter = Nil -> computed
        [] retryAfter = 0   -> MinOf(MaxOf(computed, EdgeBackoff), BackoffCap)
        [] OTHER            -> MaxOf(MinOf(retryAfter, RetryAfterFloorCap), computed)

\* Record: a success resets the failure fields, a failure keeps the reading.
RecordOutcome(r, o, t) ==
  IF o.error = "" THEN
    [r EXCEPT !.lastAttemptAt = t, !.lastGood = o.usage, !.fetchedAt = t,
              !.failures = 0, !.backoffUntil = Nil, !.strikes = 0]
  ELSE
    LET n == r.failures + 1
    IN  [r EXCEPT !.lastAttemptAt = t, !.failures = n,
                  !.last429At = IF o.error = "http-429" THEN t ELSE @,
                  !.backoffUntil = t + FailureBackoff(n, o.retryAfter),
                  !.strikes = IF o.error = "invalid_grant" THEN @ + 1 ELSE @]

ClearedDeadToken(r) ==
  [r EXCEPT !.strikes = 0, !.failures = 0, !.backoffUntil = Nil]

-----------------------------------------------------------------------------
(* Planning *)

\* The candidate to poll: one never fetched, else the one fetched longest ago.
DueCandidate(cands, rows, t) ==
  LET due  == {s \in cands : /\ ~TokenDead(rows[s])
                             /\ ~InBackoff(rows[s], t)
                             /\ rows[s].nextPollAt = Nil \/ t >= rows[s].nextPollAt}
      Before(x, y) == \/ rows[x].fetchedAt < rows[y].fetchedAt
                      \/ rows[x].fetchedAt = rows[y].fetchedAt /\ x <= y
  IN  {s \in due : \A o \in due : Before(s, o)}

\* The times a scheduled interval may fall due: ten per cent either way.
Jittered(t, interval) ==
  (t + (9 * interval + 9) \div 10) .. (t + (11 * interval + 9) \div 10)

\* PlanAfterFetch: the cadence of an account just fetched.  in.before is the
\* row before the fetch, in.usage the reading; the result is the set of plans
\* the jitter allows.
PlanInterval(in) ==
  LET def     == IF in.isActive THEN MinInterval ELSE CandidateDefault
      ceiling == IF in.isActive THEN ActiveMaxInterval ELSE CandidateMax
      base    == IF in.before.pollInterval \in {Nil, 0} THEN def ELSE in.before.pollInterval
      prev    == BindingPct(in.before.lastGood, in.models)
      new     == BindingPct(in.usage, in.models)
      known   == prev # NoHeadroom /\ new # NoHeadroom
      moving  == known /\ (new - prev >= MovementDelta \/ prev - new >= MovementDelta)
      paced   == IF ~known THEN def
                 ELSE IF moving THEN MaxOf(MinInterval, base \div 2)
                 ELSE MinOf(ceiling, MaxOf(MinInterval, (3 * base) \div 2))
      urgent  == /\ in.isActive /\ moving /\ ~in.recent429
                 /\ new >= in.threshold - EscalationMargin
      chosen  == IF urgent THEN UrgentInterval ELSE paced
  IN  IF in.recent429 THEN MaxOf(chosen, Post429MinInterval) ELSE chosen

ClippedToReset(next, in) ==
  LET h     == AccountHeadroom(in.usage, in.models)
      limit == LimitingResetTS(in.usage, in.models)
      soon  == EarliestFutureResetTS(in.usage, in.now, in.models)
  IN  IF h # NoHeadroom /\ h <= 0
      THEN IF limit > next THEN limit ELSE next
      ELSE IF soon # Nil THEN MinOf(next, soon + ResetSlack) ELSE next

PlanAfterFetch(in) ==
  {[nextPollAt |-> ClippedToReset(next, in), pollInterval |-> PlanInterval(in)] :
     next \in Jittered(in.now, PlanInterval(in))}

\* A switch pulls the new active account's plan to the active floor.
ReplanNewActive(r, t) ==
  LET next == MaxOf(r.fetchedAt + MinInterval, t)
  IN  IF r.fetchedAt = Nil \/ (r.nextPollAt # Nil /\ r.nextPollAt <= next) THEN r
      ELSE [r EXCEPT !.nextPollAt = next, !.pollInterval = MinInterval]
=============================================================================
