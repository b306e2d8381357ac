--------------------------- MODULE ReportingProofs --------------------------
(* TLAPS proofs about Polling, Dashboard and AutoSwitch: what is collected   *)
(* of the accounts' usage, what is shown, and what a switch is decided on;   *)
(* and the type of all the services together.                                *)
EXTENDS MCServices, ServiceProofs, SequenceTheorems, FiniteSetTheorems

-----------------------------------------------------------------------------
(* Polling: the readings, and the plan made for one.                         *)

\* What a row may hold. An unknown backoff or plan is Nil; a plan at the limit falls due
\* when a window resets.
KnownUsage == Values \cup {NoUsage}
Backoffs == {t + FailureBackoff(n, x) : t \in Nat, n \in Nat, x \in {Nil, 0}} \cup {Nil}
Dues == Int \cup {LimitingResetTS(u, {}) : u \in KnownUsage}
UsageRows == [lastGood : KnownUsage, fetchedAt : Int, lastAttemptAt : Int, failures : Nat, backoffUntil : Backoffs,
         nextPollAt : Dues, pollInterval : Int, last429At : Int, strikes : Nat]

AtLimit(u) == BindingPct(u, {}) \in 100 .. NoHeadroom - 1

LEMMA ReadingFacts ==
  ASSUME NEW u \in KnownUsage, NEW w \in u
  PROVE  w.pct \in Nil .. NoHeadroom - 1 /\ w.reset \in Nat \cup {Nil}
<1>1. CASE u = NoUsage
  BY <1>1 DEF NoUsage
<1>2. CASE u \in Values
  <2>1. PICK raw \in Responses : u = BuildUsageResult(raw)
    BY <1>2 DEF Values
  <2> QED
    BY <2>1, PollingAssumption
<1> QED
  BY <1>1, <1>2 DEF KnownUsage

LEMMA LeastNat ==
  ASSUME NEW S, S \subseteq Nat, S # {}
  PROVE  Min(S) \in S /\ \A y \in S : Min(S) <= y
<1> DEFINE R == OpToRel(<, Nat)
<1>1. \E x \in S : \A y \in S : ~(<<y, x>> \in R)
  BY WFMin, NatLessThanWellFounded
<1>2. ASSUME NEW x \in Nat, NEW y \in Nat, y < x PROVE <<y, x>> \in R
  BY <1>2 DEF OpToRel
<1> HIDE DEF R
<1>3. PICK x \in S : \A y \in S : ~(<<y, x>> \in R)
  BY <1>1
<1>4. \A y \in S : x <= y
  <2> SUFFICES ASSUME NEW y \in S PROVE x <= y
    OBVIOUS
  <2>1. x \in Nat /\ y \in Nat
    OBVIOUS
  <2>2. ~(y < x)
    BY <1>2, <1>3, <2>1
  <2> QED
    BY <2>1, <2>2
<1> QED
  BY <1>4 DEF Min

\* The greatest of a bounded set, by the least distance from the bound.
LEMMA GreatestBelow ==
  ASSUME NEW N \in Nat, NEW S, S \subseteq Nil .. N, S # {}
  PROVE  Max(S) \in S /\ \A y \in S : y <= Max(S)
<1> DEFINE T == {N - x : x \in S}
<1>0. \A x \in S : x \in Int /\ x <= N
  BY DEF Nil
<1>1. T \subseteq Nat /\ T # {}
  <2>1. \A x \in S : N - x \in Nat
    BY <1>0
  <2> QED
    BY <2>1
<1>2. Min(T) \in T /\ \A y \in T : Min(T) <= y
  BY <1>1, LeastNat
<1>3. PICK x \in S : Min(T) = N - x
  BY <1>2
<1>4. \A y \in S : N - x <= N - y
  BY <1>2, <1>3
<1>5. \A y \in S : x >= y
  BY <1>0, <1>4
<1>6. Max(S) \in S /\ \A y \in S : Max(S) >= y
  BY <1>5 DEF Max
<1>7. \A y \in S : y <= Max(S)
  BY <1>0, <1>6
<1> QED
  BY <1>6, <1>7

\* R orders the elements of S; S listed in that order.
Orders(S, R) ==
  /\ \A a, b \in S : a # b => <<a, b>> \in R \/ <<b, a>> \in R
  /\ \A a, b, c \in S : <<a, b>> \in R /\ <<b, c>> \in R => <<a, c>> \in R
Listings(S, R) ==
  {q \in [1 .. Cardinality(S) -> S] :
     /\ \A i, j \in 1 .. Cardinality(S) : i < j => <<q[i], q[j]>> \in R
     /\ \A x \in S : \E i \in 1 .. Cardinality(S) : q[i] = x}

\* Any finite set can be listed in a given total order: least size it cannot, and one element
\* put into the list of the others.
LEMMA SortedExists ==
  ASSUME NEW D, IsFiniteSet(D), NEW R, Orders(D, R)
  PROVE  Listings(D, R) # {}
<1>0. /\ \A a, b \in D : a # b => <<a, b>> \in R \/ <<b, a>> \in R
      /\ \A a, b, c \in D : <<a, b>> \in R /\ <<b, c>> \in R => <<a, c>> \in R
  BY DEF Orders
<1> DEFINE Lists(S, n, q) == /\ q \in [1 .. n -> S]
                             /\ \A i, j \in 1 .. n : i < j => <<q[i], q[j]>> \in R
                             /\ \A x \in S : \E i \in 1 .. n : q[i] = x
           Unlisted == {n \in Nat : \E S \in SUBSET D : Cardinality(S) = n /\ \A q : ~Lists(S, n, q)}
<1>1. SUFFICES Unlisted = {}
  <2>1. Cardinality(D) \in Nat /\ D \in SUBSET D
    BY FS_CardinalityType
  <2>2. \E q : Lists(D, Cardinality(D), q)
    <3>1. SUFFICES ASSUME \A q : ~Lists(D, Cardinality(D), q) PROVE FALSE
      OBVIOUS
    <3>2. Cardinality(D) \in Unlisted
      BY <2>1, <3>1
    <3> QED
      BY <1>1, <3>2
  <2> QED
    BY <2>2 DEF Listings
<1>2. SUFFICES ASSUME Unlisted # {} PROVE FALSE
  OBVIOUS
<1> DEFINE n == Min(Unlisted)
<1>3. n \in Unlisted /\ \A m \in Unlisted : n <= m
  <2>1. Unlisted \subseteq Nat
    OBVIOUS
  <2> HIDE DEF Unlisted
  <2> QED
    BY <1>2, <2>1, LeastNat
<1> HIDE DEF n
<1>4. n \in Nat
  BY <1>3
<1>5. PICK S \in SUBSET D : Cardinality(S) = n /\ \A q : ~Lists(S, n, q)
  BY <1>3
<1>6. IsFiniteSet(S)
  BY FS_Subset
<1>7. S # {}
  <2>1. SUFFICES ASSUME S = {} PROVE FALSE
    OBVIOUS
  <2>2. n = 0
    BY <1>5, <2>1, FS_EmptySet
  <2>3. Lists(S, 0, [i \in 1 .. 0 |-> i])
    BY <2>1
  <2> QED
    BY <1>5, <2>2, <2>3
<1>8. PICK x : x \in S
  BY <1>7
<1>9. IsFiniteSet(S \ {x}) /\ Cardinality(S \ {x}) = n - 1
  BY <1>5, <1>6, <1>8, FS_RemoveElement
<1>10. n - 1 \in Nat
  BY <1>9, FS_CardinalityType
<1>11. PICK q : Lists(S \ {x}, n - 1, q)
  <2>1. n - 1 \notin Unlisted
    BY <1>3, <1>4
  <2>2. S \ {x} \in SUBSET D
    OBVIOUS
  <2>3. SUFFICES ASSUME \A q : ~Lists(S \ {x}, n - 1, q) PROVE FALSE
    OBVIOUS
  <2> HIDE DEF Lists
  <2>4. n - 1 \in Unlisted
    BY <1>9, <1>10, <2>2, <2>3
  <2> QED
    BY <2>1, <2>4
<1> DEFINE B == {i \in 1 .. n - 1 : <<q[i], x>> \in R} \cup {0}
           k == Max(B)
<1>12. k \in B /\ \A i \in B : i <= k
  <2>1. B \subseteq Nil .. n - 1 /\ B # {}
    BY <1>10 DEF Nil
  <2> HIDE DEF B
  <2> QED
    BY <1>10, <2>1, GreatestBelow
<1>13. k \in 0 .. n - 1 /\ (k > 0 => <<q[k], x>> \in R)
  BY <1>10, <1>12
<1>14. \A i \in 1 .. n - 1 : i > k => <<x, q[i]>> \in R
  <2> SUFFICES ASSUME NEW i \in 1 .. n - 1, i > k PROVE <<x, q[i]>> \in R
    OBVIOUS
  <2>1. i \notin B
    <3> HIDE DEF B, k
    <3> QED
      BY <1>12, <1>13
  <2>2. q[i] \in S \ {x}
    BY <1>11
  <2> QED
    BY <1>0, <1>8, <2>1, <2>2
<1> HIDE DEF B, k
<1>15. \A i \in 1 .. n - 1 : i <= k => <<q[i], x>> \in R
  <2> SUFFICES ASSUME NEW i \in 1 .. n - 1, i <= k PROVE <<q[i], x>> \in R
    OBVIOUS
  <2>1. CASE i = k
    BY <1>13, <2>1
  <2>2. CASE i < k
    <3>1. <<q[i], q[k]>> \in R /\ <<q[k], x>> \in R /\ q[i] \in D /\ q[k] \in D
      BY <1>10, <1>11, <1>13, <2>2
    <3> QED
      BY <1>0, <1>8, <3>1
  <2> QED
    BY <1>13, <2>1, <2>2
<1> DEFINE g == [i \in 1 .. n |-> IF i <= k THEN q[i] ELSE IF i = k + 1 THEN x ELSE q[i - 1]]
<1>16. g \in [1 .. n -> S]
  <2> SUFFICES ASSUME NEW i \in 1 .. n PROVE g[i] \in S
    BY Zenon
  <2>1. i <= k => i \in 1 .. n - 1
    BY <1>4, <1>13
  <2>2. i > k + 1 => i - 1 \in 1 .. n - 1
    BY <1>4, <1>13
  <2>3. \A m \in 1 .. n - 1 : q[m] \in S
    BY <1>11
  <2> QED
    BY <1>8, <1>13, <2>1, <2>2, <2>3
<1>17. ASSUME NEW i \in 1 .. n, NEW j \in 1 .. n, i < j PROVE <<g[i], g[j]>> \in R
  <2>1. \A m \in 1 .. n : /\ m <= k => m \in 1 .. n - 1 /\ g[m] = q[m]
                          /\ m = k + 1 => g[m] = x
                          /\ m > k + 1 => m - 1 \in 1 .. n - 1 /\ g[m] = q[m - 1] /\ m - 1 > k
    BY <1>4, <1>13
  <2>2. \A a, b \in 1 .. n - 1 : a < b => <<q[a], q[b]>> \in R
    BY <1>11
  <2> HIDE DEF g
  <2>3. CASE j <= k
    BY <1>13, <1>17, <2>1, <2>2, <2>3
  <2>4. CASE j = k + 1
    <3>1. i <= k
      BY <1>13, <1>17, <2>4
    <3> QED
      BY <1>15, <2>1, <2>4, <3>1
  <2>5. CASE j > k + 1 /\ i <= k
    BY <1>13, <2>1, <2>2, <2>5
  <2>6. CASE j > k + 1 /\ i = k + 1
    BY <1>14, <2>1, <2>6
  <2>7. CASE j > k + 1 /\ i > k + 1
    <3>1. i - 1 < j - 1
      BY <1>17
    <3> QED
      BY <2>1, <2>2, <2>7, <3>1
  <2> QED
    BY <1>13, <2>3, <2>4, <2>5, <2>6, <2>7
<1>18. ASSUME NEW y \in S PROVE \E i \in 1 .. n : g[i] = y
  <2>1. CASE y = x
    <3>1. k + 1 \in 1 .. n /\ g[k + 1] = x
      BY <1>4, <1>13
    <3> QED
      BY <2>1, <3>1
  <2>2. CASE y # x
    <3>1. PICK m \in 1 .. n - 1 : q[m] = y
      BY <1>11, <2>2
    <3>2. m <= k => m \in 1 .. n /\ g[m] = y
      BY <1>4, <1>13, <3>1
    <3>3. m > k => m + 1 \in 1 .. n /\ g[m + 1] = y
      BY <1>4, <1>13, <3>1
    <3>4. m <= k \/ m > k
      BY <1>13
    <3> QED
      BY <3>2, <3>3, <3>4
  <2> QED
    BY <2>1, <2>2
<1>19. Lists(S, n, g)
  BY <1>16, <1>17, <1>18
<1> QED
  BY <1>5, <1>19

LEMMA HeadroomIs ==
  ASSUME NEW u, \A w \in u : w.pct \in Nil .. NoHeadroom - 1
  PROVE  /\ AccountHeadroom(u, {}) \in Int
         /\ AccountHeadroom(u, {}) # NoHeadroom /\ AccountHeadroom(u, {}) <= 0 => AtLimit(u)
<1> DEFINE ws == RelevantWindows(u, {})
           P == {w.pct : w \in ws}
<1>1. CASE ws = {}
  BY <1>1 DEF AccountHeadroom, NoHeadroom
<1>2. CASE ws # {}
  <2>1. \A w \in ws : w.pct \in 0 .. 999
    BY DEF RelevantWindows, NewUsage, NoHeadroom, Nil
  <2>2. P \subseteq 0 .. 999 /\ P # {}
    BY <1>2, <2>1
  <2>3. Max(P) \in 0 .. 999
    <3> HIDE DEF P
    <3>0. \A N \in Nat : 0 .. N \subseteq Nil .. N
      BY DEF Nil
    <3>1. \A N \in Nat : P \subseteq 0 .. N => Max(P) \in P
      BY <2>2, <3>0, GreatestBelow, Zenon
    <3>2. Max(P) \in P
      <4>1. 999 \in Nat
        OBVIOUS
      <4> QED
        BY <2>2, <3>1, <4>1, Zenon
    <3> QED
      BY <2>2, <3>2
  <2>4. AccountHeadroom(u, {}) = 100 - Max(P)
    BY <1>2 DEF AccountHeadroom
  <2> HIDE DEF P, ws
  <2> QED
    BY <2>3, <2>4 DEF AtLimit, BindingPct, NoHeadroom
<1> QED
  BY <1>1, <1>2

LEMMA HeadroomFacts ==
  ASSUME NEW u \in KnownUsage
  PROVE  /\ AccountHeadroom(u, {}) \in Int
         /\ AccountHeadroom(u, {}) # NoHeadroom /\ AccountHeadroom(u, {}) <= 0 => AtLimit(u)
BY ReadingFacts, HeadroomIs

\* The cadence of a plan, and when the plan falls due.
LEMMA IntervalFacts ==
  ASSUME NEW in, in.before.pollInterval \in Int
  PROVE  PlanInterval(in) \in Int /\ (in.before.pollInterval = Nil \/ in.before.pollInterval > 0 => PlanInterval(in) > 0)
<1> DEFINE def  == IF in.isActive THEN MinInterval ELSE CandidateDefault
           top  == IF in.isActive THEN ActiveMaxInterval ELSE CandidateMax
           base == IF in.before.pollInterval \in {Nil, 0} THEN def ELSE in.before.pollInterval
<1>1. def \in Int /\ def > 0 /\ top \in Int /\ top >= 10 /\ base \in Int
  BY DEF MinInterval, CandidateDefault, ActiveMaxInterval, CandidateMax
<1>2. MaxOf(MinInterval, base \div 2) \in Int /\ MaxOf(MinInterval, base \div 2) > 0
  BY <1>1 DEF MaxOf, MinInterval
<1>3. MaxOf(MinInterval, (3 * base) \div 2) \in Int /\ MaxOf(MinInterval, (3 * base) \div 2) >= 6
  BY <1>1 DEF MaxOf, MinInterval
<1>4. MinOf(top, MaxOf(MinInterval, (3 * base) \div 2)) \in Int /\ MinOf(top, MaxOf(MinInterval, (3 * base) \div 2)) > 0
  BY <1>1, <1>3 DEF MinOf
<1> DEFINE up   == MaxOf(MinInterval, base \div 2)
           down == MinOf(top, MaxOf(MinInterval, (3 * base) \div 2))
<1>5. up \in Int /\ up > 0 /\ down \in Int /\ down > 0
  BY <1>2, <1>4
<1> HIDE DEF up, down, def
<1>6. \A x \in Int : MaxOf(x, Post429MinInterval) \in Int /\ MaxOf(x, Post429MinInterval) > 0
  BY DEF MaxOf, Post429MinInterval
<1>7. \E x \in {def, up, down, UrgentInterval} : PlanInterval(in) \in {x, MaxOf(x, Post429MinInterval)}
  BY DEF PlanInterval, def, up, down
<1>8. UrgentInterval \in Int /\ UrgentInterval > 0
  BY DEF UrgentInterval
<1> QED
  BY <1>1, <1>5, <1>6, <1>7, <1>8

LEMMA JitterBound ==
  ASSUME NEW t \in Nat, NEW i \in Int, NEW next \in Jittered(t, i)
  PROVE  next \in Int /\ (i <= ActiveMaxInterval => next <= t + 11)
BY DEF Jittered, ActiveMaxInterval

LEMMA ClipBound ==
  ASSUME NEW in, NEW next \in Int, in.usage \in KnownUsage, in.now \in Nat, in.models = {}
  PROVE  /\ ClippedToReset(next, in) \in Dues
         /\ AtLimit(in.usage) \/ (ClippedToReset(next, in) \in Int /\ ClippedToReset(next, in) <= next)
<1> DEFINE h == AccountHeadroom(in.usage, {})
           S == {w.reset : w \in {x \in RelevantWindows(in.usage, {}) : x.reset > in.now}}
           soon == EarliestFutureResetTS(in.usage, in.now, {})
<1>1. CASE h # NoHeadroom /\ h <= 0
  <2>1. AtLimit(in.usage)
    BY <1>1, HeadroomFacts
  <2>2. ClippedToReset(next, in) \in {next, LimitingResetTS(in.usage, {})}
    BY <1>1 DEF ClippedToReset
  <2> QED
    BY <2>1, <2>2 DEF Dues
<1>2. CASE ~ (h # NoHeadroom /\ h <= 0)
  <2>1. \A w \in RelevantWindows(in.usage, {}) : w.reset \in Nat \cup {Nil}
    BY ReadingFacts DEF RelevantWindows, NewUsage
  <2>2. S \subseteq Nat
    BY <2>1 DEF Nil
  <2>3. soon \in Int
    <3>1. CASE S = {}
      BY <3>1 DEF EarliestFutureResetTS, EarliestOf, Nil
    <3>2. CASE S # {}
      <4>1. Min(S) \in Nat
        BY <2>2, <3>2, LeastNat
      <4> QED
        BY <3>2, <4>1 DEF EarliestFutureResetTS, EarliestOf
    <3> QED
      BY <3>1, <3>2
  <2>4. ClippedToReset(next, in) = IF soon # Nil THEN MinOf(next, soon + ResetSlack) ELSE next
    BY <1>2 DEF ClippedToReset
  <2> HIDE DEF soon
  <2> QED
    BY <2>3, <2>4 DEF MinOf, ResetSlack, Dues
<1> QED
  BY <1>1, <1>2

-----------------------------------------------------------------------------
(* Polling: the invariant.                                                   *)

Pass == [st : {"idle", "reserve", "fetch", "plan", "decide"}, phase : {"A", "B"}, began : Nat, since : Nat,
         active : Acct \cup {Nil}, pre : [Acct -> UsageRows] \cup {[a \in {} |-> FreshRow]}, ask : SUBSET Acct,
         unserved : BOOLEAN, passes : Nat]

GoodRow(r, t) ==
  r.fetchedAt \in Nil .. t /\ r.lastAttemptAt \in Nil .. t /\ (r.pollInterval = Nil \/ r.pollInterval > 0)
GoodPass(q, t) ==
  /\ q \in Pass
  /\ q.st # "idle" => q.active \in Acct /\ q.began <= t
  /\ q.st \in {"reserve", "fetch", "plan"} =>
       q.pre \in [Acct -> UsageRows] /\ \A a \in Acct : q.pre[a].pollInterval = Nil \/ q.pre[a].pollInterval > 0

PollTyped ==
  /\ clk \in 0 .. Horizon /\ inUse \in Acct /\ bad \in 0 .. Faults /\ unsaved \subseteq Acct
  /\ rows \in [Acct -> UsageRows] /\ coll \in [Collectors -> Pass]
  /\ \A a \in Acct : GoodRow(rows[a], clk)
  /\ \A c \in Collectors : GoodPass(coll[c], clk)

\* A plan as fast as an active one is due within its jitter of the reading, or is due now,
\* or the reading is at its limit.
Planned10(r, t) ==
  r.fetchedAt # Nil /\ r.nextPollAt # Nil /\ r.pollInterval <= ActiveMaxInterval =>
    \/ r.nextPollAt \in Int /\ (r.nextPollAt <= r.fetchedAt + 11 \/ r.nextPollAt <= t)
    \/ AtLimit(r.lastGood)

\* A reading just recorded, for which a collector has the plan still to make.
Pending(a) == rows[a].fetchedAt = clk /\ \E c \in Collectors : coll[c].st = "plan" /\ a \in coll[c].ask
PlansOK == \A a \in Acct : a \in unsaved \/ Planned10(rows[a], clk) \/ Pending(a)
PendingOK ==
  \A c \in Collectors : \A a \in coll[c].ask : coll[c].st = "plan" => rows[a].fetchedAt = clk \/ a \in unsaved

\* What excuses the engine from asking for the account it found active.
Covered(e, R, U) ==
  \/ R[e.active].fetchedAt # Nil /\ e.began - R[e.active].fetchedAt <= 11
  \/ R[e.active].lastAttemptAt > e.began - ClaimTTL
  \/ e.unserved \/ e.active \in U
  \/ AtLimit(R[e.active].lastGood)

EngineServed(e, R, U) ==
  /\ e.st = "reserve" => e.active \in e.ask \/ Covered(e, R, U)
  /\ e.st \in {"fetch", "plan", "decide"} => Covered(e, R, U)
EngineOK == EngineServed(coll["engine"], rows, unsaved)

PollInv == PollTyped /\ PlansOK /\ PendingOK /\ EngineOK

-----------------------------------------------------------------------------
(* Polling: what one row goes through.                                       *)

\* A row is recorded at t, or keeps its reading.
RowStep(r, q, t) ==
  /\ q \in UsageRows
  /\ q.lastAttemptAt \in {r.lastAttemptAt, t}
  /\ q.fetchedAt = t \/ (q.fetchedAt = r.fetchedAt /\ q.lastGood = r.lastGood)
  /\ q.pollInterval = Nil \/ q.pollInterval > 0

LEMMA RowFacts ==
  ASSUME NEW r \in UsageRows
  PROVE  /\ r.lastGood \in KnownUsage /\ r.fetchedAt \in Int /\ r.lastAttemptAt \in Int /\ r.failures \in Nat
         /\ r.backoffUntil \in Backoffs /\ r.nextPollAt \in Dues /\ r.pollInterval \in Int /\ r.last429At \in Int
         /\ r.strikes \in Nat /\ DOMAIN r = DOMAIN FreshRow
         /\ (r.pollInterval = Nil \/ r.pollInterval > 0 => \A t : RowStep(r, r, t))
BY DEF UsageRows, FreshRow, RowStep

LEMMA FreshRowFacts == FreshRow \in UsageRows /\ TokenDead(FreshRow) = FALSE
BY DEF FreshRow, UsageRows, KnownUsage, Backoffs, Dues, Nil, TokenDead, AuthDeadStrikes

LEMMA OutcomeFacts ==
  ASSUME NEW o \in Outcomes
  PROVE  /\ o.error \in {"", "http-429", "invalid_grant"} /\ o.usage \in KnownUsage
         /\ o.error # "" => o.retryAfter \in {Nil, 0}
BY DEF Outcomes, KnownUsage

\* A row with a success or a failure recorded, and with a plan.
Succeeded(r, u, t) == [r EXCEPT !.lastAttemptAt = t, !.lastGood = u, !.fetchedAt = t,
                                !.failures = 0, !.backoffUntil = Nil, !.strikes = 0]
Missed(r, t, n, l, b, k) == [r EXCEPT !.lastAttemptAt = t, !.failures = n, !.last429At = l,
                                      !.backoffUntil = b, !.strikes = k]
Scheduled(r, n, i) == [r EXCEPT !.nextPollAt = n, !.pollInterval = i]

LEMMA NilBackoff == Nil \in Backoffs
BY DEF Backoffs

LEMMA WithGood ==
  ASSUME NEW r \in UsageRows, NEW v \in KnownUsage, NEW q, q = [r EXCEPT !.lastGood = v]
  PROVE  /\ q \in UsageRows /\ q.lastGood = v
         /\ q.fetchedAt = r.fetchedAt /\ q.lastAttemptAt = r.lastAttemptAt /\ q.nextPollAt = r.nextPollAt
         /\ q.pollInterval = r.pollInterval
BY DEF UsageRows

LEMMA WithFetched ==
  ASSUME NEW r \in UsageRows, NEW v \in Int, NEW q, q = [r EXCEPT !.fetchedAt = v]
  PROVE  /\ q \in UsageRows /\ q.fetchedAt = v
         /\ q.lastGood = r.lastGood /\ q.lastAttemptAt = r.lastAttemptAt /\ q.nextPollAt = r.nextPollAt
         /\ q.pollInterval = r.pollInterval
BY DEF UsageRows

LEMMA WithAttempt ==
  ASSUME NEW r \in UsageRows, NEW v \in Int, NEW q, q = [r EXCEPT !.lastAttemptAt = v]
  PROVE  /\ q \in UsageRows /\ q.lastAttemptAt = v
         /\ q.lastGood = r.lastGood /\ q.fetchedAt = r.fetchedAt /\ q.nextPollAt = r.nextPollAt
         /\ q.pollInterval = r.pollInterval
BY DEF UsageRows

LEMMA WithFailures ==
  ASSUME NEW r \in UsageRows, NEW v \in Nat, NEW q, q = [r EXCEPT !.failures = v]
  PROVE  /\ q \in UsageRows /\ q.failures = v
         /\ q.lastGood = r.lastGood /\ q.fetchedAt = r.fetchedAt /\ q.lastAttemptAt = r.lastAttemptAt
         /\ q.nextPollAt = r.nextPollAt /\ q.pollInterval = r.pollInterval
BY DEF UsageRows

LEMMA WithBackoff ==
  ASSUME NEW r \in UsageRows, NEW v \in Backoffs, NEW q, q = [r EXCEPT !.backoffUntil = v]
  PROVE  /\ q \in UsageRows /\ q.backoffUntil = v
         /\ q.lastGood = r.lastGood /\ q.fetchedAt = r.fetchedAt /\ q.lastAttemptAt = r.lastAttemptAt
         /\ q.nextPollAt = r.nextPollAt /\ q.pollInterval = r.pollInterval
BY DEF UsageRows

LEMMA With429 ==
  ASSUME NEW r \in UsageRows, NEW v \in Int, NEW q, q = [r EXCEPT !.last429At = v]
  PROVE  /\ q \in UsageRows /\ q.last429At = v
         /\ q.lastGood = r.lastGood /\ q.fetchedAt = r.fetchedAt /\ q.lastAttemptAt = r.lastAttemptAt
         /\ q.nextPollAt = r.nextPollAt /\ q.pollInterval = r.pollInterval
BY DEF UsageRows

LEMMA WithStrikes ==
  ASSUME NEW r \in UsageRows, NEW v \in Nat, NEW q, q = [r EXCEPT !.strikes = v]
  PROVE  /\ q \in UsageRows /\ q.strikes = v
         /\ q.lastGood = r.lastGood /\ q.fetchedAt = r.fetchedAt /\ q.lastAttemptAt = r.lastAttemptAt
         /\ q.nextPollAt = r.nextPollAt /\ q.pollInterval = r.pollInterval
BY DEF UsageRows

LEMMA SuccessRow ==
  ASSUME NEW r \in UsageRows, NEW u \in KnownUsage, NEW t \in Nat
  PROVE  Succeeded(r, u, t) \in UsageRows /\ Succeeded(r, u, t).lastAttemptAt = t /\ Succeeded(r, u, t).fetchedAt = t /\ Succeeded(r, u, t).pollInterval = r.pollInterval
<1> DEFINE q1 == [r EXCEPT !.lastAttemptAt = t]
           q2 == [q1 EXCEPT !.lastGood = u]
           q3 == [q2 EXCEPT !.fetchedAt = t]
           q4 == [q3 EXCEPT !.failures = 0]
           q5 == [q4 EXCEPT !.backoffUntil = Nil]
           q6 == [q5 EXCEPT !.strikes = 0]
<1>0. Succeeded(r, u, t) = q6
  BY Zenon DEF Succeeded
<1>1. q1 \in UsageRows /\ q1.lastAttemptAt = t /\ q1.lastGood = r.lastGood /\ q1.fetchedAt = r.fetchedAt /\ q1.nextPollAt = r.nextPollAt /\ q1.pollInterval = r.pollInterval
  BY WithAttempt
<1> HIDE DEF q1
<1>2. q2 \in UsageRows /\ q2.lastGood = u /\ q2.fetchedAt = q1.fetchedAt /\ q2.lastAttemptAt = q1.lastAttemptAt /\ q2.nextPollAt = q1.nextPollAt /\ q2.pollInterval = q1.pollInterval
  BY <1>1, WithGood
<1> HIDE DEF q2
<1>3. q3 \in UsageRows /\ q3.fetchedAt = t /\ q3.lastGood = q2.lastGood /\ q3.lastAttemptAt = q2.lastAttemptAt /\ q3.nextPollAt = q2.nextPollAt /\ q3.pollInterval = q2.pollInterval
  BY <1>2, WithFetched
<1> HIDE DEF q3
<1>4. q4 \in UsageRows /\ q4.lastGood = q3.lastGood /\ q4.fetchedAt = q3.fetchedAt /\ q4.lastAttemptAt = q3.lastAttemptAt /\ q4.nextPollAt = q3.nextPollAt /\ q4.pollInterval = q3.pollInterval
  BY <1>3, WithFailures
<1> HIDE DEF q4
<1>5. q5 \in UsageRows /\ q5.lastGood = q4.lastGood /\ q5.fetchedAt = q4.fetchedAt /\ q5.lastAttemptAt = q4.lastAttemptAt /\ q5.nextPollAt = q4.nextPollAt /\ q5.pollInterval = q4.pollInterval
  BY <1>4, NilBackoff, WithBackoff
<1> HIDE DEF q5
<1>6. q6 \in UsageRows /\ q6.lastGood = q5.lastGood /\ q6.fetchedAt = q5.fetchedAt /\ q6.lastAttemptAt = q5.lastAttemptAt /\ q6.nextPollAt = q5.nextPollAt /\ q6.pollInterval = q5.pollInterval
  BY <1>5, WithStrikes
<1> HIDE DEF q6
<1> QED
  BY <1>0, <1>1, <1>2, <1>3, <1>4, <1>5, <1>6

LEMMA FailureRow ==
  ASSUME NEW r \in UsageRows, NEW t \in Nat, NEW n \in Nat, NEW l \in Int, NEW b \in Backoffs, NEW k \in Nat
  PROVE  /\ Missed(r, t, n, l, b, k) \in UsageRows /\ Missed(r, t, n, l, b, k).lastAttemptAt = t /\ Missed(r, t, n, l, b, k).fetchedAt = r.fetchedAt /\ Missed(r, t, n, l, b, k).pollInterval = r.pollInterval
         /\ Missed(r, t, n, l, b, k).nextPollAt = r.nextPollAt /\ Missed(r, t, n, l, b, k).lastGood = r.lastGood
<1> DEFINE q1 == [r EXCEPT !.lastAttemptAt = t]
           q2 == [q1 EXCEPT !.failures = n]
           q3 == [q2 EXCEPT !.last429At = l]
           q4 == [q3 EXCEPT !.backoffUntil = b]
           q5 == [q4 EXCEPT !.strikes = k]
<1>0. Missed(r, t, n, l, b, k) = q5
  BY Zenon DEF Missed
<1>1. q1 \in UsageRows /\ q1.lastAttemptAt = t /\ q1.lastGood = r.lastGood /\ q1.fetchedAt = r.fetchedAt /\ q1.nextPollAt = r.nextPollAt /\ q1.pollInterval = r.pollInterval
  BY WithAttempt
<1> HIDE DEF q1
<1>2. q2 \in UsageRows /\ q2.lastGood = q1.lastGood /\ q2.fetchedAt = q1.fetchedAt /\ q2.lastAttemptAt = q1.lastAttemptAt /\ q2.nextPollAt = q1.nextPollAt /\ q2.pollInterval = q1.pollInterval
  BY <1>1, WithFailures
<1> HIDE DEF q2
<1>3. q3 \in UsageRows /\ q3.lastGood = q2.lastGood /\ q3.fetchedAt = q2.fetchedAt /\ q3.lastAttemptAt = q2.lastAttemptAt /\ q3.nextPollAt = q2.nextPollAt /\ q3.pollInterval = q2.pollInterval
  BY <1>2, With429
<1> HIDE DEF q3
<1>4. q4 \in UsageRows /\ q4.lastGood = q3.lastGood /\ q4.fetchedAt = q3.fetchedAt /\ q4.lastAttemptAt = q3.lastAttemptAt /\ q4.nextPollAt = q3.nextPollAt /\ q4.pollInterval = q3.pollInterval
  BY <1>3, WithBackoff
<1> HIDE DEF q4
<1>5. q5 \in UsageRows /\ q5.lastGood = q4.lastGood /\ q5.fetchedAt = q4.fetchedAt /\ q5.lastAttemptAt = q4.lastAttemptAt /\ q5.nextPollAt = q4.nextPollAt /\ q5.pollInterval = q4.pollInterval
  BY <1>4, WithStrikes
<1> HIDE DEF q5
<1> QED
  BY <1>0, <1>1, <1>2, <1>3, <1>4, <1>5

LEMMA Recorded ==
  ASSUME NEW r \in UsageRows, NEW o \in Outcomes, NEW t \in Nat, r.pollInterval = Nil \/ r.pollInterval > 0
  PROVE  /\ RowStep(r, RecordOutcome(r, o, t), t)
         /\ o.error = "" => RecordOutcome(r, o, t).fetchedAt = t
         /\ o.error # "" => /\ RecordOutcome(r, o, t).fetchedAt = r.fetchedAt
                            /\ RecordOutcome(r, o, t).nextPollAt = r.nextPollAt
                            /\ RecordOutcome(r, o, t).pollInterval = r.pollInterval
                            /\ RecordOutcome(r, o, t).lastGood = r.lastGood
<1> DEFINE q == RecordOutcome(r, o, t)
<1>1. CASE o.error = ""
  <2>1. q = Succeeded(r, o.usage, t)
    BY <1>1 DEF RecordOutcome, Succeeded
  <2> HIDE DEF q
  <2>2. o.usage \in KnownUsage
    BY OutcomeFacts
  <2>5. q \in UsageRows /\ q.lastAttemptAt = t /\ q.fetchedAt = t /\ q.pollInterval = r.pollInterval
    BY <2>1, <2>2, SuccessRow
  <2> QED
    BY <1>1, <2>5 DEF RowStep, q
<1>2. CASE o.error # ""
  <2> DEFINE n == r.failures + 1
             b == t + FailureBackoff(n, o.retryAfter)
             l == IF o.error = "http-429" THEN t ELSE r.last429At
             s == IF o.error = "invalid_grant" THEN r.strikes + 1 ELSE r.strikes
  <2>1. q = Missed(r, t, n, l, b, s)
    BY <1>2 DEF RecordOutcome, Missed
  <2>2. n \in Nat /\ l \in Int /\ s \in Nat
    BY RowFacts
  <2>3. b \in Backoffs
    <3>1. o.retryAfter \in {Nil, 0}
      BY <1>2, OutcomeFacts
    <3> HIDE DEF n
    <3> QED
      BY <2>2, <3>1 DEF Backoffs
  <2> HIDE DEF q, n, b, l, s
  <2>4. q \in UsageRows /\ q.lastAttemptAt = t /\ q.fetchedAt = r.fetchedAt /\ q.pollInterval = r.pollInterval
           /\ q.nextPollAt = r.nextPollAt /\ q.lastGood = r.lastGood
    <3> DEFINE m == Missed(r, t, n, l, b, s)
    <3>1. m \in UsageRows /\ m.lastAttemptAt = t /\ m.fetchedAt = r.fetchedAt /\ m.pollInterval = r.pollInterval
             /\ m.nextPollAt = r.nextPollAt /\ m.lastGood = r.lastGood
      BY <2>2, <2>3, FailureRow
    <3> QED
      BY <2>1, <3>1
  <2> QED
    BY <1>2, <2>4 DEF RowStep, q
<1> QED
  BY <1>1, <1>2

LEMMA PlanIn ==
  ASSUME NEW r \in UsageRows, NEW n \in Dues, NEW i \in Int, i > 0, NEW t
  PROVE  /\ RowStep(r, Scheduled(r, n, i), t)
         /\ Scheduled(r, n, i).fetchedAt = r.fetchedAt
         /\ Scheduled(r, n, i).lastGood = r.lastGood
         /\ Scheduled(r, n, i).nextPollAt = n
         /\ Scheduled(r, n, i).pollInterval = i
BY DEF UsageRows, RowStep, Scheduled

LEMMA Replanned ==
  ASSUME NEW r \in UsageRows, NEW t \in Nat, r.pollInterval = Nil \/ r.pollInterval > 0
  PROVE  /\ RowStep(r, ReplanNewActive(r, t), t)
         /\ ReplanNewActive(r, t).fetchedAt = r.fetchedAt
         /\ Planned10(r, t) => Planned10(ReplanNewActive(r, t), t)
<1> DEFINE next == MaxOf(r.fetchedAt + MinInterval, t)
<1>1. CASE ReplanNewActive(r, t) = r
  BY <1>1, RowFacts
<1>2. CASE ReplanNewActive(r, t) = Scheduled(r, next, MinInterval)
  <2>1. next \in Int /\ (next <= r.fetchedAt + 11 \/ next <= t)
    BY RowFacts DEF MaxOf, MinInterval
  <2>2. MinInterval \in Int /\ MinInterval > 0 /\ next \in Dues
    BY <2>1 DEF MinInterval, Dues
  <2> HIDE DEF next
  <2>3. /\ RowStep(r, ReplanNewActive(r, t), t) /\ ReplanNewActive(r, t).fetchedAt = r.fetchedAt
        /\ ReplanNewActive(r, t).nextPollAt = next
    BY <1>2, <2>2, PlanIn
  <2> QED
    BY <2>1, <2>3, RowFacts DEF Planned10
<1> QED
  BY <1>1, <1>2 DEF ReplanNewActive, Scheduled

LEMMA Cleared ==
  ASSUME NEW r \in UsageRows, NEW t \in Nat, r.pollInterval = Nil \/ r.pollInterval > 0
  PROVE  /\ RowStep(r, ClearedDeadToken(r), t)
         /\ ClearedDeadToken(r).fetchedAt = r.fetchedAt
         /\ Planned10(r, t) => Planned10(ClearedDeadToken(r), t)
<1> DEFINE q == [r EXCEPT !.strikes = 0, !.failures = 0, !.backoffUntil = Nil]
<1>1. Nil \in Backoffs
  BY DEF Backoffs
<1>2. q \in UsageRows /\ q.lastAttemptAt = r.lastAttemptAt /\ q.fetchedAt = r.fetchedAt /\ q.lastGood = r.lastGood
        /\ q.pollInterval = r.pollInterval /\ q.nextPollAt = r.nextPollAt
  BY <1>1 DEF UsageRows
<1> HIDE DEF q
<1> QED
  BY <1>2 DEF RowStep, Planned10, ClearedDeadToken, q

\* What a pass that goes on has: done, a decision on the account it served, or everyone asked.
Went(c, u) ==
  \E q \in Pass :
    /\ coll' = [coll EXCEPT ![c] = q]
    /\ \/ q.st = "idle"
       \/ /\ q.st = "decide" /\ c = "engine" /\ q.began = coll[c].began /\ q.active = coll[c].active
          /\ q.unserved = u
       \/ /\ q.st = "reserve" /\ c = "engine" /\ q.began = coll[c].began /\ q.active = inUse /\ q.pre = rows
          /\ inUse \in q.ask \/ q.unserved

LEMMA RestFacts ==
  ASSUME NEW n \in Nat
  PROVE  Resting(n) \in Pass /\ Resting(n).st = "idle" /\ Resting(n).passes = n
<1> DEFINE e == [a \in {} |-> FreshRow]
<1>1. e \in [Acct -> UsageRows] \cup {e}
  OBVIOUS
<1> HIDE DEF e
<1> QED
  BY <1>1 DEF Resting, Pass, e

LEMMA PassFacts ==
  ASSUME NEW q \in Pass
  PROVE  /\ q.st \in {"idle", "reserve", "fetch", "plan", "decide"} /\ q.began \in Nat /\ q.since \in Nat
         /\ q.active \in Acct \cup {Nil} /\ q.ask \subseteq Acct /\ q.unserved \in BOOLEAN /\ q.passes \in Nat
         /\ q.phase \in {"A", "B"}
BY DEF Pass

\* The row and role a pass starts from.
LEMMA ReadFacts ==
  ASSUME PollTyped, NEW c \in Collectors, NEW ask, ask \subseteq Acct, NEW r \in Pass, Read(c, ask, r)
  PROVE  \E q \in Pass :
           /\ coll' = [coll EXCEPT ![c] = q]
           /\ q.st = "reserve" /\ q.began = r.began /\ q.active = inUse /\ q.pre = rows
           /\ q.ask = {a \in ask : ~TokenDead(rows[a])}
           /\ q.unserved = (r.unserved \/ (c = "engine" /\ TokenDead(rows[inUse])))
<1> DEFINE A == {a \in ask : ~TokenDead(rows[a])}
           u == r.unserved \/ (c = "engine" /\ TokenDead(rows[inUse]))
           q == [r EXCEPT !.st = "reserve", !.active = inUse, !.pre = rows, !.ask = A, !.unserved = u]
<1>1. coll' = [coll EXCEPT ![c] = q]
  BY DEF Read, Set
<1>2. A \in SUBSET Acct /\ u \in BOOLEAN /\ inUse \in Acct \cup {Nil}
  BY DEF PollTyped, TokenDead
<1>3. rows \in [Acct -> UsageRows] \cup {[a \in {} |-> FreshRow]}
  BY DEF PollTyped
<1> HIDE DEF A, u
<1>4. q \in Pass /\ q.st = "reserve" /\ q.began = r.began /\ q.active = inUse /\ q.pre = rows /\ q.ask = A /\ q.unserved = u
  BY <1>2, <1>3 DEF Pass
<1> HIDE DEF q
<1> QED
  BY <1>1, <1>4 DEF A, u

LEMMA GoOnFacts ==
  ASSUME PollTyped, NEW c \in Collectors, NEW u \in BOOLEAN, GoOn(c, u)
  PROVE  Went(c, u)
<1> DEFINE r == coll[c]
           rest == [Resting(r.passes) EXCEPT !.began = r.began, !.unserved = u]
<1>1. r \in Pass /\ r.passes \in Nat /\ r.began \in Nat /\ r.active \in Acct \cup {Nil}
  BY PassFacts DEF PollTyped
<1>2. Resting(r.passes) \in Pass
  BY <1>1, RestFacts
<1> HIDE DEF r
<1>3. rest \in Pass /\ rest.began = r.began /\ rest.unserved = u
  BY <1>1, <1>2 DEF Pass
<1>4. CASE Read(c, Acct, [rest EXCEPT !.phase = "B"]) /\ c = "engine"
  <2> DEFINE b == [rest EXCEPT !.phase = "B"]
  <2>0. Read(c, Acct, b)
    BY <1>4
  <2>1. b \in Pass /\ b.began = r.began
    <3> HIDE DEF rest
    <3> QED
      BY <1>3 DEF Pass
  <2> HIDE DEF b, rest
  <2>2. \E q \in Pass :
           /\ coll' = [coll EXCEPT ![c] = q]
           /\ q.st = "reserve" /\ q.began = b.began /\ q.active = inUse /\ q.pre = rows
           /\ q.ask = {a \in Acct : ~TokenDead(rows[a])}
           /\ q.unserved = (b.unserved \/ (c = "engine" /\ TokenDead(rows[inUse])))
    BY <2>0, <2>1, ReadFacts
  <2>3. inUse \in Acct
    BY DEF PollTyped
  <2> QED
    BY <1>4, <2>1, <2>2, <2>3 DEF Went, r
<1>5. CASE Set(c, IF c = "engine" THEN [rest EXCEPT !.st = "decide", !.active = r.active] ELSE Resting(r.passes))
  <2>1. CASE c = "engine"
    <3> DEFINE q == [rest EXCEPT !.st = "decide", !.active = r.active]
    <3>1. coll' = [coll EXCEPT ![c] = q]
      BY <1>5, <2>1 DEF Set
    <3>2. q \in Pass /\ q.st = "decide" /\ q.began = r.began /\ q.active = r.active /\ q.unserved = u
      <4> HIDE DEF rest
      <4> QED
        BY <1>1, <1>3 DEF Pass
    <3> HIDE DEF q, rest
    <3> QED
      BY <2>1, <3>1, <3>2 DEF Went, r
  <2>2. CASE c # "engine"
    <3>1. coll' = [coll EXCEPT ![c] = Resting(r.passes)]
      BY <1>5, <2>2 DEF Set
    <3> QED
      BY <1>1, <1>2, <3>1, RestFacts DEF Went
  <2> QED
    BY <2>1, <2>2
<1> QED
  BY <1>4, <1>5 DEF GoOn, r

-----------------------------------------------------------------------------
(* Polling: what a step of a collector, or of the world, keeps.              *)

LEMMA CoveredKept ==
  ASSUME NEW e \in Pass, NEW f, f.active = e.active, f.began = e.began, e.unserved => f.unserved,
         NEW t \in Nat, e.active \in Acct, e.began <= t, NEW R, NEW R2, R[e.active] \in UsageRows,
         GoodRow(R[e.active], t), RowStep(R[e.active], R2[e.active], t), NEW U, NEW U2,
         e.active \in U => e.active \in U2 \/ R2[e.active].fetchedAt = t, Covered(e, R, U)
  PROVE  Covered(f, R2, U2)
<1> DEFINE r == R[e.active]
           q == R2[e.active]
<1>1. /\ e.began \in Nat /\ r.fetchedAt \in Int /\ r.lastAttemptAt \in Int /\ r.lastAttemptAt <= t
      /\ q.fetchedAt \in Int /\ q.lastAttemptAt \in Int
  BY RowFacts, PassFacts DEF GoodRow, RowStep, Nil
<1>2. q.lastAttemptAt >= r.lastAttemptAt
  BY <1>1 DEF RowStep
<1>3. q.fetchedAt = t \/ (q.fetchedAt = r.fetchedAt /\ q.lastGood = r.lastGood)
  BY DEF RowStep
<1>4. CASE q.fetchedAt = t
  BY <1>1, <1>4 DEF Covered, Nil
<1>5. CASE q.fetchedAt # t
  BY <1>1, <1>2, <1>3, <1>5 DEF Covered, ClaimTTL
<1> QED
  BY <1>4, <1>5

\* A plan stays good unless its row is recorded or planned anew.
SamePlan(a) ==
  /\ Planned10(rows[a], clk) => Planned10(rows'[a], clk)
  /\ a \in unsaved => a \in unsaved'
  /\ rows'[a].fetchedAt = rows[a].fetchedAt
LEMMA PlansMove ==
  ASSUME PollInv, NEW c \in Collectors, NEW q, coll' = [coll EXCEPT ![c] = q], clk' = clk,
         \A a \in Acct : \/ a \in unsaved' \/ Planned10(rows'[a], clk) \/ SamePlan(a)
                         \/ rows'[a].fetchedAt = clk /\ q.st = "plan" /\ a \in q.ask,
         coll[c].st = "plan" => \A a \in coll[c].ask : a \in unsaved' \/ Planned10(rows'[a], clk)
  PROVE  PlansOK'
<1> SUFFICES ASSUME NEW a \in Acct PROVE a \in unsaved' \/ Planned10(rows'[a], clk) \/ Pending(a)'
  BY DEF PlansOK
<1>0. coll'[c] = q /\ \A d \in Collectors : d # c => coll'[d] = coll[d]
  BY DEF PollInv, PollTyped
<1>1. CASE rows'[a].fetchedAt = clk /\ q.st = "plan" /\ a \in q.ask
  BY <1>0, <1>1 DEF Pending
<1>2. CASE SamePlan(a)
  <2>1. a \in unsaved \/ Planned10(rows[a], clk) \/ Pending(a)
    BY DEF PollInv, PlansOK
  <2>2. CASE Pending(a)
    <3>1. PICK d \in Collectors : coll[d].st = "plan" /\ a \in coll[d].ask
      BY <2>2 DEF Pending
    <3>2. CASE d = c
      BY <3>1, <3>2
    <3>3. CASE d # c
      BY <1>0, <1>2, <2>2, <3>1, <3>3 DEF Pending, SamePlan
    <3> QED
      BY <3>2, <3>3
  <2> QED
    BY <1>2, <2>1, <2>2 DEF SamePlan
<1> QED
  BY <1>1, <1>2

LEMMA Moved ==
  ASSUME PollInv, NEW c \in Collectors, NEW q, GoodPass(q, clk), coll' = [coll EXCEPT ![c] = q], clk' = clk,
         inUse' \in Acct, bad' \in 0 .. Faults, unsaved' \subseteq Acct, rows' \in [Acct -> UsageRows], PlansOK',
         \A a \in Acct : RowStep(rows[a], rows'[a], clk),
         \A a \in Acct : a \in unsaved => a \in unsaved' \/ rows'[a].fetchedAt = clk,
         q.st = "plan" => \A a \in q.ask : rows'[a].fetchedAt = clk \/ a \in unsaved',
         c = "engine" => EngineServed(q, rows', unsaved')
  PROVE  PollInv'
<1>0. coll'[c] = q /\ (\A d \in Collectors : d # c => coll'[d] = coll[d]) /\ "engine" \in Collectors
  BY DEF PollInv, PollTyped, Collectors
<1>1. clk \in Nat /\ q \in Pass
  BY PollingAssumption DEF PollInv, PollTyped, GoodPass
<1>2. PollTyped'
  <2>1. coll' \in [Collectors -> Pass] /\ \A d \in Collectors : GoodPass(coll'[d], clk)
    BY <1>0, <1>1 DEF PollInv, PollTyped
  <2>2. \A a \in Acct : GoodRow(rows'[a], clk)
    <3> SUFFICES ASSUME NEW a \in Acct PROVE GoodRow(rows'[a], clk)
      OBVIOUS
    <3>1. GoodRow(rows[a], clk) /\ RowStep(rows[a], rows'[a], clk)
      BY DEF PollInv, PollTyped
    <3> QED
      BY <1>1, <3>1 DEF GoodRow, RowStep, Nil
  <2> QED
    BY <2>1, <2>2 DEF PollInv, PollTyped
<1>3. PendingOK'
  <2> SUFFICES ASSUME NEW d \in Collectors, NEW a \in coll'[d].ask, coll'[d].st = "plan"
               PROVE  rows'[a].fetchedAt = clk \/ a \in unsaved'
    BY DEF PendingOK
  <2>1. CASE d = c
    BY <1>0, <2>1
  <2>2. CASE d # c
    <3>1. a \in coll[d].ask /\ coll[d].st = "plan"
      BY <1>0, <2>2
    <3>2. a \in Acct
      BY <3>1, PassFacts DEF PollInv, PollTyped
    <3>3. rows[a].fetchedAt = clk \/ a \in unsaved
      BY <3>1 DEF PollInv, PendingOK
    <3>4. RowStep(rows[a], rows'[a], clk)
      BY <3>2
    <3> QED
      BY <3>2, <3>3, <3>4 DEF RowStep
  <2> QED
    BY <2>1, <2>2
<1>4. EngineOK'
  <2>1. CASE c = "engine"
    BY <1>0, <2>1 DEF EngineOK
  <2>2. CASE c # "engine"
    <3> DEFINE e == coll["engine"]
    <3>1. coll'["engine"] = e /\ e \in Pass /\ GoodPass(e, clk) /\ EngineServed(e, rows, unsaved)
      BY <1>0, <2>2 DEF PollInv, PollTyped, EngineOK
    <3> HIDE DEF e
    <3>2. ASSUME e.st # "idle", Covered(e, rows, unsaved) PROVE Covered(e, rows', unsaved')
      <4>1. e.active \in Acct /\ e.began <= clk
        BY <3>1, <3>2 DEF GoodPass
      <4>2. rows[e.active] \in UsageRows /\ GoodRow(rows[e.active], clk) /\ RowStep(rows[e.active], rows'[e.active], clk)
        BY <4>1 DEF PollInv, PollTyped
      <4>3. e.active \in unsaved => e.active \in unsaved' \/ rows'[e.active].fetchedAt = clk
        BY <4>1
      <4> QED
        BY <1>1, <3>1, <3>2, <4>1, <4>2, <4>3, CoveredKept
    <3>3. EngineServed(e, rows', unsaved')
      BY <3>1, <3>2 DEF EngineServed
    <3> QED
      BY <3>1, <3>3 DEF EngineOK
  <2> QED
    BY <2>1, <2>2
<1> QED
  BY <1>2, <1>3, <1>4 DEF PollInv

LEMMA PollFacts ==
  ASSUME PollInv
  PROVE  /\ clk \in Nat /\ inUse \in Acct /\ unsaved \subseteq Acct /\ rows \in [Acct -> UsageRows] /\ "engine" \in Collectors
         /\ \A a \in Acct : rows[a] \in UsageRows /\ GoodRow(rows[a], clk) /\ RowStep(rows[a], rows[a], clk)
         /\ \A c \in Collectors : coll[c] \in Pass /\ GoodPass(coll[c], clk) /\ coll[c].ask \subseteq Acct
<1>1. \A a \in Acct : rows[a] \in UsageRows /\ GoodRow(rows[a], clk)
  BY DEF PollInv, PollTyped
<1>2. \A a \in Acct : RowStep(rows[a], rows[a], clk)
  BY <1>1, RowFacts DEF GoodRow
<1>3. \A c \in Collectors : coll[c] \in Pass /\ GoodPass(coll[c], clk)
  BY DEF PollInv, PollTyped
<1>4. \A c \in Collectors : coll[c].ask \subseteq Acct
  BY <1>3, PassFacts
<1> QED
  BY <1>1, <1>2, <1>3, <1>4, PollingAssumption DEF PollInv, PollTyped, Collectors

LEMMA CoveredSame ==
  ASSUME NEW e, NEW f, f.active = e.active, f.began = e.began, e.unserved => f.unserved, NEW R, NEW U, Covered(e, R, U)
  PROVE  Covered(f, R, U)
BY DEF Covered

\* The active account is asked for, or there is nothing to ask for.
LEMMA NominatedOrFine ==
  ASSUME PollInv, ~Nominate(rows[inUse]), NEW q, q.active = inUse, q.began = clk
  PROVE  Covered(q, rows, unsaved)
<1> DEFINE r == rows[inUse]
<1>0. r \in UsageRows /\ GoodRow(r, clk) /\ clk \in Nat /\ inUse \in Acct
  BY PollFacts
<1>1. r.fetchedAt # Nil /\ r.fetchedAt \in Int /\ r.fetchedAt <= clk
  BY <1>0, RowFacts DEF Nominate, GoodRow
<1> SUFFICES ASSUME ~(clk - r.fetchedAt <= 11), inUse \notin unsaved, ~AtLimit(r.lastGood) PROVE FALSE
  BY <1>1 DEF Covered
<1>2. r.nextPollAt # Nil /\ ~(clk >= r.nextPollAt)
  BY <1>0, <1>1 DEF Nominate, AgeOf, MinInterval
<1>3. ~(r.pollInterval > ActiveMaxInterval)
  BY <1>0, <1>1 DEF Nominate, StaleCandidatePlan, AgeOf, ActiveMaxInterval, AtLimit
<1>4. r.pollInterval <= ActiveMaxInterval
  BY <1>0, <1>3, RowFacts DEF ActiveMaxInterval
<1>5. ~Pending(inUse)
  BY <1>0, <1>1 DEF Pending
<1>6. Planned10(r, clk)
  BY <1>0, <1>5 DEF PollInv, PlansOK
<1> HIDE DEF r
<1>7. r.nextPollAt \in Int /\ (r.nextPollAt <= r.fetchedAt + 11 \/ r.nextPollAt <= clk)
  BY <1>1, <1>2, <1>4, <1>6 DEF Planned10, r
<1> QED
  BY <1>0, <1>1, <1>2, <1>7

LEMMA BeginOK ==
  ASSUME PollInv, NEW c \in Collectors, Begin(c)
  PROVE  PollInv'
<1> DEFINE ask == IF c = "engine" THEN EnginePlan ELSE Acct
           r == [Resting(coll[c].passes + 1) EXCEPT !.began = clk]
<1>0. /\ clk \in Nat /\ inUse \in Acct /\ unsaved \subseteq Acct /\ rows \in [Acct -> UsageRows]
      /\ \A a \in Acct : rows[a] \in UsageRows /\ GoodRow(rows[a], clk) /\ RowStep(rows[a], rows[a], clk)
      /\ coll[c] \in Pass /\ GoodPass(coll[c], clk) /\ coll[c].ask \subseteq Acct
  BY PollFacts
<1>1. coll[c].passes + 1 \in Nat
  BY <1>0, PassFacts
<1>2. r \in Pass /\ r.began = clk
  <2> DEFINE z == Resting(coll[c].passes + 1)
  <2>1. z \in Pass
    BY <1>1, RestFacts
  <2> HIDE DEF z
  <2>2. [z EXCEPT !.began = clk] \in Pass /\ [z EXCEPT !.began = clk].began = clk
    BY <1>0, <2>1 DEF Pass
  <2> QED
    BY <2>2 DEF z
<1>3. ask \subseteq Acct
  BY <1>0 DEF EnginePlan, DueCandidate
<1>4. Read(c, ask, r)
  BY DEF Begin
<1>5. PollTyped
  BY DEF PollInv
<1> HIDE DEF r, ask
<1>6. PICK q \in Pass : /\ coll' = [coll EXCEPT ![c] = q]
                        /\ q.st = "reserve" /\ q.began = clk /\ q.active = inUse /\ q.pre = rows
                        /\ q.ask = {a \in ask : ~TokenDead(rows[a])}
                        /\ q.unserved = (r.unserved \/ (c = "engine" /\ TokenDead(rows[inUse])))
  BY <1>2, <1>3, <1>4, <1>5, ReadFacts
<1>7. UNCHANGED <<clk, rows, inUse, bad, unsaved>> /\ coll[c].st = "idle"
  BY DEF Begin
<1>8. GoodPass(q, clk)
  BY <1>0, <1>6 DEF GoodPass, GoodRow
<1>9. c = "engine" => EngineServed(q, rows', unsaved')
  <2> SUFFICES ASSUME c = "engine", ~TokenDead(rows[inUse]), inUse \notin q.ask PROVE Covered(q, rows, unsaved)
    BY <1>6, <1>7 DEF EngineServed, Covered
  <2>1. inUse \notin ask
    BY <1>6
  <2>2. ~Nominate(rows[inUse])
    BY <2>1 DEF ask, EnginePlan
  <2> QED
    BY <1>6, <2>2, NominatedOrFine
<1>10. PlansOK'
  <2>1. \A a \in Acct : SamePlan(a)
    BY <1>7 DEF SamePlan
  <2> QED
    BY <1>6, <1>7, <2>1, PlansMove
<1> QED
  <2>1. bad' \in 0 .. Faults
    BY <1>7 DEF PollInv, PollTyped
  <2> QED
    BY <1>0, <1>6, <1>7, <1>8, <1>9, <1>10, <2>1, Moved

\* A pass goes on: what is left to see to is its rows, and the engine's account.
LEMMA Continues ==
  ASSUME PollInv, NEW c \in Collectors, coll[c].st # "idle", NEW u \in BOOLEAN, GoOn(c, u), clk' = clk, inUse' = inUse,
         bad' \in 0 .. Faults, unsaved' \subseteq Acct, rows' \in [Acct -> UsageRows],
         \A a \in Acct : RowStep(rows[a], rows'[a], clk),
         \A a \in Acct : a \in unsaved => a \in unsaved',
         \A a \in Acct : a \in unsaved' \/ Planned10(rows'[a], clk) \/ SamePlan(a),
         coll[c].st = "plan" => \A a \in coll[c].ask : a \in unsaved' \/ Planned10(rows'[a], clk),
         c = "engine" => Covered([active |-> coll[c].active, began |-> coll[c].began, unserved |-> u], rows', unsaved')
  PROVE  PollInv'
<1>0. /\ clk \in Nat /\ inUse \in Acct /\ unsaved \subseteq Acct /\ rows \in [Acct -> UsageRows]
      /\ \A a \in Acct : rows[a] \in UsageRows /\ GoodRow(rows[a], clk) /\ RowStep(rows[a], rows[a], clk)
      /\ coll[c] \in Pass /\ GoodPass(coll[c], clk) /\ coll[c].ask \subseteq Acct
  BY PollFacts
<1>1. Went(c, u)
  BY GoOnFacts DEF PollInv
<1>2. PICK q \in Pass :
        /\ coll' = [coll EXCEPT ![c] = q]
        /\ \/ q.st = "idle"
           \/ /\ q.st = "decide" /\ c = "engine" /\ q.began = coll[c].began /\ q.active = coll[c].active
              /\ q.unserved = u
           \/ /\ q.st = "reserve" /\ c = "engine" /\ q.began = coll[c].began /\ q.active = inUse /\ q.pre = rows
              /\ inUse \in q.ask \/ q.unserved
  BY <1>1 DEF Went
<1>3. coll[c].active \in Acct /\ coll[c].began <= clk
  BY <1>0 DEF GoodPass
<1>4. GoodPass(q, clk)
  BY <1>0, <1>2, <1>3 DEF GoodPass, GoodRow
<1>5. q.st # "plan"
  BY <1>2
<1>6. c = "engine" => EngineServed(q, rows', unsaved')
  <2> SUFFICES ASSUME c = "engine" PROVE EngineServed(q, rows', unsaved')
    OBVIOUS
  <2> DEFINE f == [active |-> coll[c].active, began |-> coll[c].began, unserved |-> u]
  <2>1. Covered(f, rows', unsaved') /\ f.active = coll[c].active /\ f.began = coll[c].began /\ f.unserved = u
    OBVIOUS
  <2> HIDE DEF f
  <2>2. CASE q.st = "idle"
    BY <2>2 DEF EngineServed
  <2>3. CASE q.st = "decide"
    <3>1. Covered(q, rows', unsaved')
      BY <1>2, <2>1, <2>3, CoveredSame
    <3> QED
      BY <2>3, <3>1 DEF EngineServed
  <2>4. CASE q.st = "reserve"
    BY <1>2, <2>4 DEF EngineServed, Covered
  <2> QED
    BY <1>2, <2>2, <2>3, <2>4
<1>7. PlansOK'
  BY <1>2, PlansMove
<1> QED
  BY <1>0, <1>2, <1>4, <1>5, <1>6, <1>7, Moved

\* An account that is not fetched although the engine asks was fetched, or asked, lately.
LEMMA NotEligible ==
  ASSUME NEW r \in UsageRows, NEW t \in Nat, ~RowEligible(r, t, FALSE), ~TokenDead(r), ~InBackoff(r, t), NEW b \in Nat, b <= t
  PROVE  (r.fetchedAt # Nil /\ b - r.fetchedAt <= 11) \/ r.lastAttemptAt > b - ClaimTTL
<1>0. r.fetchedAt \in Int /\ r.lastAttemptAt \in Int
  BY RowFacts
<1>1. CASE Claimed(r, t)
  BY <1>0, <1>1 DEF Claimed, ClaimTTL
<1>2. CASE ~Claimed(r, t)
  BY <1>0, <1>2 DEF RowEligible, AgeOf, ServeTTL
<1> QED
  BY <1>1, <1>2

LEMMA Claiming ==
  ASSUME NEW r \in UsageRows, NEW t \in Nat, r.pollInterval = Nil \/ r.pollInterval > 0
  PROVE  /\ RowStep(r, [r EXCEPT !.lastAttemptAt = t], t)
         /\ [r EXCEPT !.lastAttemptAt = t].fetchedAt = r.fetchedAt
         /\ [r EXCEPT !.lastAttemptAt = t].lastAttemptAt = t
         /\ Planned10(r, t) => Planned10([r EXCEPT !.lastAttemptAt = t], t)
<1> DEFINE q == [r EXCEPT !.lastAttemptAt = t]
<1>1. q \in UsageRows /\ q.lastAttemptAt = t /\ q.fetchedAt = r.fetchedAt /\ q.lastGood = r.lastGood
        /\ q.pollInterval = r.pollInterval /\ q.nextPollAt = r.nextPollAt
  BY WithAttempt
<1> HIDE DEF q
<1>2. RowStep(r, q, t) /\ (Planned10(r, t) => Planned10(q, t))
  BY <1>1 DEF RowStep, Planned10
<1> QED
  BY <1>1, <1>2 DEF q

LEMMA ReserveOK ==
  ASSUME PollInv, NEW c \in Collectors, Reserve(c)
  PROVE  PollInv'
<1> DEFINE won == {a \in coll[c].ask : RowEligible(rows[a], clk, c # "engine")}
           activeRow == rows[coll[c].active]
           uns == coll[c].unserved \/ TokenDead(activeRow) \/ InBackoff(activeRow, clk)
           me == [active |-> coll[c].active, began |-> coll[c].began, unserved |-> uns]
<1>0. /\ clk \in Nat /\ inUse \in Acct /\ unsaved \subseteq Acct /\ rows \in [Acct -> UsageRows]
      /\ \A a \in Acct : rows[a] \in UsageRows /\ GoodRow(rows[a], clk) /\ RowStep(rows[a], rows[a], clk)
      /\ coll[c] \in Pass /\ GoodPass(coll[c], clk) /\ coll[c].ask \subseteq Acct
  BY PollFacts
<1>1. /\ coll[c].st = "reserve" /\ UNCHANGED <<clk, inUse, bad, unsaved>>
      /\ rows' = [a \in Acct |-> IF a \in won THEN [rows[a] EXCEPT !.lastAttemptAt = clk] ELSE rows[a]]
  BY DEF Reserve
<1>2. won \subseteq Acct /\ uns \in BOOLEAN
  BY <1>0 DEF TokenDead, InBackoff
<1>3. \A a \in Acct : /\ RowStep(rows[a], rows'[a], clk) /\ SamePlan(a)
                      /\ a \in won => rows'[a].lastAttemptAt = clk
  <2> SUFFICES ASSUME NEW a \in Acct
               PROVE  RowStep(rows[a], rows'[a], clk) /\ SamePlan(a) /\ (a \in won => rows'[a].lastAttemptAt = clk)
    OBVIOUS
  <2>1. rows[a] \in UsageRows /\ (rows[a].pollInterval = Nil \/ rows[a].pollInterval > 0) /\ RowStep(rows[a], rows[a], clk)
    BY <1>0 DEF GoodRow
  <2>2. CASE a \in won
    <3>1. rows'[a] = [rows[a] EXCEPT !.lastAttemptAt = clk]
      BY <1>1, <2>2
    <3> DEFINE q == [rows[a] EXCEPT !.lastAttemptAt = clk]
    <3>2. RowStep(rows[a], q, clk) /\ q.fetchedAt = rows[a].fetchedAt /\ q.lastAttemptAt = clk
            /\ (Planned10(rows[a], clk) => Planned10(q, clk))
      BY <1>0, <2>1, Claiming
    <3> HIDE DEF q
    <3> QED
      BY <1>1, <3>1, <3>2 DEF SamePlan, q
  <2>3. CASE a \notin won
    <3>1. rows'[a] = rows[a]
      BY <1>1, <2>3
    <3> QED
      BY <1>1, <2>1, <2>3, <3>1 DEF SamePlan
  <2> QED
    BY <2>2, <2>3
<1>4. rows' \in [Acct -> UsageRows] /\ bad' \in 0 .. Faults
  <2>1. \A a \in Acct : rows'[a] \in UsageRows
    BY <1>3 DEF RowStep
  <2> HIDE DEF won
  <2> QED
    BY <1>1, <2>1 DEF PollInv, PollTyped
<1>5. coll[c].active \in Acct /\ coll[c].began <= clk /\ coll[c].began \in Nat
  BY <1>0, <1>1, PassFacts DEF GoodPass
<1>6. me.active = coll[c].active /\ me.began = coll[c].began /\ me.unserved = uns
  OBVIOUS
<1> HIDE DEF me
\* The engine's account was covered, or is won, or there is a reason that it is not.
<1>7. ASSUME c = "engine" PROVE Covered(me, rows', unsaved')
  <2> DEFINE e == coll[c]
             a == coll[c].active
  <2>0. rows[a] \in UsageRows /\ GoodRow(rows[a], clk) /\ RowStep(rows[a], rows'[a], clk)
    BY <1>0, <1>3, <1>5
  <2>1. CASE Covered(e, rows, unsaved)
    <3>1. e.unserved => me.unserved
      BY <1>6
    <3>2. a \in unsaved => a \in unsaved' \/ rows'[a].fetchedAt = clk
      BY <1>1
    <3> QED
      BY <1>0, <1>5, <1>6, <2>0, <2>1, <3>1, <3>2, CoveredKept
  <2>2. CASE a \in coll[c].ask
    <3>1. CASE a \in won
      <4>1. rows'[a].lastAttemptAt = clk
        BY <1>3, <1>5, <3>1
      <4> QED
        BY <1>0, <1>5, <1>6, <4>1 DEF Covered, ClaimTTL
    <3>2. CASE a \notin won
      <4>1. ~RowEligible(rows[a], clk, FALSE)
        BY <1>7, <2>2, <3>2
      <4>2. rows'[a] = rows[a]
        BY <1>1, <1>5, <3>2
      <4>3. CASE uns
        BY <1>6, <4>3 DEF Covered
      <4>4. CASE ~uns
        <5>1. ~TokenDead(rows[a]) /\ ~InBackoff(rows[a], clk)
          BY <4>4
        <5>2. (rows[a].fetchedAt # Nil /\ e.began - rows[a].fetchedAt <= 11) \/ rows[a].lastAttemptAt > e.began - ClaimTTL
          BY <1>0, <1>5, <2>0, <4>1, <5>1, NotEligible
        <5> QED
          BY <1>6, <4>2, <5>2 DEF Covered
      <4> QED
        BY <4>3, <4>4
    <3> QED
      BY <3>1, <3>2
  <2>3. Covered(e, rows, unsaved) \/ a \in coll[c].ask
    BY <1>1, <1>7 DEF PollInv, EngineOK, EngineServed
  <2> QED
    BY <2>1, <2>2, <2>3
<1>8. CASE won = {} /\ GoOn(c, uns)
  <2>1. coll[c].st # "idle" /\ coll[c].st # "plan"
    BY <1>1
  <2>2. \A a \in Acct : a \in unsaved => a \in unsaved'
    BY <1>1
  <2>3. clk' = clk /\ inUse' = inUse /\ unsaved' \subseteq Acct /\ GoOn(c, uns)
    BY <1>0, <1>1, <1>8
  <2>4. c = "engine" => Covered([active |-> coll[c].active, began |-> coll[c].began, unserved |-> uns], rows', unsaved')
    BY <1>7 DEF me
  <2> HIDE DEF won, uns
  <2> QED
    BY <1>2, <1>3, <1>4, <2>1, <2>2, <2>3, <2>4, Continues
<1>9. CASE Set(c, [coll[c] EXCEPT !.ask = won, !.since = clk, !.st = "fetch", !.unserved = c = "engine" /\ uns])
  <2> DEFINE v == c = "engine" /\ uns
             q == [coll[c] EXCEPT !.ask = won, !.since = clk, !.st = "fetch", !.unserved = v]
  <2>1. coll' = [coll EXCEPT ![c] = q]
    BY <1>9 DEF Set
  <2>2. v \in BOOLEAN
    OBVIOUS
  <2>3. q \in Pass /\ q.st = "fetch" /\ q.active = coll[c].active /\ q.began = coll[c].began /\ q.unserved = v
          /\ q.pre = coll[c].pre
    <3> HIDE DEF won, v
    <3> QED
      BY <1>0, <1>2, <2>2 DEF Pass
  <2> HIDE DEF q
  <2>4. GoodPass(q, clk)
    BY <1>0, <1>1, <1>5, <2>3 DEF GoodPass
  <2>5. c = "engine" => EngineServed(q, rows', unsaved')
    <3> SUFFICES ASSUME c = "engine" PROVE EngineServed(q, rows', unsaved')
      OBVIOUS
    <3>1. Covered(me, rows', unsaved') /\ (me.unserved => q.unserved)
      BY <1>6, <1>7, <2>3
    <3>2. Covered(q, rows', unsaved')
      BY <1>6, <2>3, <3>1, CoveredSame
    <3> QED
      BY <2>3, <3>2 DEF EngineServed
  <2>6. PlansOK'
    <3>1. coll[c].st # "plan"
      BY <1>1
    <3> QED
      BY <1>1, <1>3, <2>1, <3>1, PlansMove
  <2>7. clk' = clk /\ inUse' \in Acct /\ unsaved' \subseteq Acct /\ q.st # "plan"
          /\ \A a \in Acct : a \in unsaved => a \in unsaved' \/ rows'[a].fetchedAt = clk
    BY <1>0, <1>1, <2>3
  <2> HIDE DEF won, uns, v
  <2> QED
    BY <1>3, <1>4, <2>1, <2>4, <2>5, <2>6, <2>7, Moved
<1> QED
  BY <1>8, <1>9 DEF Reserve

\* Going on without any write to the rows.
LEMMA NothingWritten ==
  ASSUME PollInv, NEW c \in Collectors, coll[c].st # "idle", NEW u \in BOOLEAN, GoOn(c, u), UNCHANGED <<clk, rows, inUse>>,
         bad' \in 0 .. Faults, unsaved' \subseteq Acct, \A a \in Acct : a \in unsaved => a \in unsaved',
         coll[c].st = "plan" => \A a \in coll[c].ask : a \in unsaved',
         c = "engine" => u \/ (coll[c].st = "plan" /\ u = coll[c].unserved)
  PROVE  PollInv'
<1>0. /\ clk \in Nat /\ inUse \in Acct /\ unsaved \subseteq Acct /\ rows \in [Acct -> UsageRows]
      /\ \A a \in Acct : rows[a] \in UsageRows /\ GoodRow(rows[a], clk) /\ RowStep(rows[a], rows[a], clk)
      /\ coll[c] \in Pass /\ GoodPass(coll[c], clk) /\ coll[c].ask \subseteq Acct
  BY PollFacts
<1>1. \A a \in Acct : SamePlan(a)
  BY DEF SamePlan
<1> DEFINE me == [active |-> coll[c].active, began |-> coll[c].began, unserved |-> u]
<1>2. me.active = coll[c].active /\ me.began = coll[c].began /\ me.unserved = u
  OBVIOUS
<1> HIDE DEF me
<1>3. ASSUME c = "engine" PROVE Covered(me, rows', unsaved')
  <2>1. CASE u
    BY <1>2, <2>1 DEF Covered
  <2>2. CASE coll[c].st = "plan" /\ u = coll[c].unserved
    <3>1. Covered(coll[c], rows, unsaved)
      BY <1>3, <2>2 DEF PollInv, EngineOK, EngineServed
    <3>2. coll[c].active \in Acct
      BY <1>0, <2>2 DEF GoodPass
    <3>3. Covered(coll[c], rows, unsaved')
      BY <3>1, <3>2 DEF Covered
    <3>4. coll[c].unserved => me.unserved
      BY <1>2, <2>2
    <3>5. Covered(me, rows, unsaved')
      BY <1>2, <3>3, <3>4, CoveredSame
    <3> QED
      BY <3>5
  <2> QED
    BY <1>3, <2>1, <2>2
<1>4. c = "engine" => Covered([active |-> coll[c].active, began |-> coll[c].began, unserved |-> u], rows', unsaved')
  BY <1>3 DEF me
<1>5. rows' \in [Acct -> UsageRows] /\ clk' = clk /\ inUse' = inUse /\ \A a \in Acct : RowStep(rows[a], rows'[a], clk)
  BY <1>0
<1> QED
  BY <1>1, <1>4, <1>5, Continues

LEMMA BadFacts == ASSUME PollInv PROVE /\ Bad => bad' \in 0 .. Faults
                                       /\ UNCHANGED bad => bad' \in 0 .. Faults
BY PollingAssumption DEF PollInv, PollTyped, Bad

LEMMA ReserveFailsOK == ASSUME PollInv, NEW c \in Collectors, ReserveFails(c) PROVE PollInv'
<1>1. coll[c].st = "reserve" /\ GoOn(c, TRUE) /\ UNCHANGED <<clk, rows, inUse, unsaved>> /\ bad' \in 0 .. Faults
  BY BadFacts DEF ReserveFails
<1>2. unsaved' \subseteq Acct /\ coll[c].st # "idle" /\ coll[c].st # "plan"
  BY <1>1, PollFacts
<1> QED
  BY <1>1, <1>2, NothingWritten

LEMMA SetPollPlanFailsOK == ASSUME PollInv, NEW c \in Collectors, SetPollPlanFails(c) PROVE PollInv'
<1>1. /\ coll[c].st = "plan" /\ GoOn(c, coll[c].unserved) /\ UNCHANGED <<clk, rows, inUse>>
      /\ unsaved' = unsaved \cup coll[c].ask /\ bad' \in 0 .. Faults
  BY BadFacts DEF SetPollPlanFails
<1>2. coll[c] \in Pass /\ coll[c].ask \subseteq Acct /\ unsaved \subseteq Acct
  BY PollFacts
<1>3. coll[c].unserved \in BOOLEAN /\ unsaved' \subseteq Acct
  BY <1>1, <1>2, PassFacts
<1> QED
  BY <1>1, <1>3, NothingWritten

\* Whether a fetch succeeded.
Answered(o) == o.error = ""

LEMMA RecordedRow ==
  ASSUME NEW r \in UsageRows, NEW o \in Outcomes, NEW t \in Nat, r.pollInterval = Nil \/ r.pollInterval > 0,
         NEW q, q = RecordOutcome(r, o, t)
  PROVE  /\ RowStep(r, q, t)
         /\ Answered(o) => q.fetchedAt = t
         /\ ~Answered(o) => /\ q.fetchedAt = r.fetchedAt /\ q.nextPollAt = r.nextPollAt
                        /\ q.pollInterval = r.pollInterval /\ q.lastGood = r.lastGood
BY Recorded, Zenon DEF Answered

LEMMA RecordStepOK ==
  ASSUME PollInv, NEW c \in Collectors, NEW out \in [coll[c].ask -> Outcomes], Record(c, out)
  PROVE  PollInv'
<1> DEFINE ask == coll[c].ask
           good == {a \in ask : Answered(out[a])}
           q == [coll[c] EXCEPT !.st = "plan", !.since = 0, !.ask = good]
<1>0. /\ clk \in Nat /\ inUse \in Acct /\ unsaved \subseteq Acct /\ rows \in [Acct -> UsageRows]
      /\ \A a \in Acct : rows[a] \in UsageRows /\ GoodRow(rows[a], clk) /\ RowStep(rows[a], rows[a], clk)
      /\ coll[c] \in Pass /\ GoodPass(coll[c], clk) /\ ask \subseteq Acct
  BY PollFacts
<1>1. coll[c].st = "fetch" /\ coll' = [coll EXCEPT ![c] = q] /\ UNCHANGED <<clk, inUse>>
  BY Zenon DEF Record, Set, Answered
<1>2. good \subseteq ask
  OBVIOUS
<1>3. q \in Pass /\ q.st = "plan" /\ q.active = coll[c].active /\ q.began = coll[c].began
        /\ q.unserved = coll[c].unserved /\ q.pre = coll[c].pre /\ q.ask = good
  <2> HIDE DEF good
  <2>1. good \in SUBSET Acct
    BY <1>0, <1>2
  <2> QED
    BY <1>0, <2>1 DEF Pass
<1> HIDE DEF q
<1>4. GoodPass(q, clk)
  BY <1>0, <1>1, <1>3 DEF GoodPass
\* The rows written, or the accounts asked noted as not saved.
<1>5. /\ bad' \in 0 .. Faults /\ unsaved' \subseteq Acct
      /\ \A a \in Acct : /\ RowStep(rows[a], rows'[a], clk)
                         /\ a \in unsaved => a \in unsaved' \/ rows'[a].fetchedAt = clk
                         /\ a \in good => a \in unsaved' \/ rows'[a].fetchedAt = clk
                         /\ a \in unsaved' \/ SamePlan(a) \/ (rows'[a].fetchedAt = clk /\ a \in good)
  <2>1. CASE /\ rows' = [a \in Acct |-> IF a \in ask THEN RecordOutcome(rows[a], out[a], clk) ELSE rows[a]]
             /\ unsaved' = unsaved \ good /\ UNCHANGED bad
    <3>1. bad' \in 0 .. Faults /\ unsaved' \subseteq Acct
      BY <1>0, <2>1, BadFacts
    <3> SUFFICES ASSUME NEW a \in Acct
                 PROVE  /\ RowStep(rows[a], rows'[a], clk)
                        /\ a \in unsaved => a \in unsaved' \/ rows'[a].fetchedAt = clk
                        /\ a \in good => a \in unsaved' \/ rows'[a].fetchedAt = clk
                        /\ a \in unsaved' \/ SamePlan(a) \/ (rows'[a].fetchedAt = clk /\ a \in good)
      BY <3>1
    <3>2. rows[a] \in UsageRows /\ (rows[a].pollInterval = Nil \/ rows[a].pollInterval > 0) /\ RowStep(rows[a], rows[a], clk)
      BY <1>0 DEF GoodRow
    <3>3. CASE a \in ask
      <4>1. rows'[a] = RecordOutcome(rows[a], out[a], clk) /\ out[a] \in Outcomes
        BY <2>1, <3>3
      <4>2. CASE Answered(out[a])
        <5>1. RowStep(rows[a], rows'[a], clk) /\ rows'[a].fetchedAt = clk
          BY <1>0, <3>2, <4>1, <4>2, RecordedRow
        <5> QED
          BY <3>3, <4>2, <5>1
      <4>3. CASE ~Answered(out[a])
        <5>1. /\ RowStep(rows[a], rows'[a], clk) /\ rows'[a].fetchedAt = rows[a].fetchedAt
              /\ rows'[a].nextPollAt = rows[a].nextPollAt /\ rows'[a].pollInterval = rows[a].pollInterval
              /\ rows'[a].lastGood = rows[a].lastGood
          BY <1>0, <3>2, <4>1, <4>3, RecordedRow
        <5>2. a \notin good /\ (a \in unsaved => a \in unsaved')
          BY <2>1, <4>3
        <5>3. SamePlan(a)
          BY <5>1, <5>2 DEF SamePlan, Planned10
        <5> QED
          BY <5>1, <5>2, <5>3
      <4> QED
        BY <4>2, <4>3
    <3>4. CASE a \notin ask
      <4>1. rows'[a] = rows[a] /\ a \notin good /\ (a \in unsaved => a \in unsaved')
        BY <2>1, <3>4
      <4> QED
        BY <3>2, <4>1 DEF SamePlan
    <3> QED
      BY <3>3, <3>4
  <2>2. CASE Bad /\ unsaved' = unsaved \cup ask /\ UNCHANGED rows
    BY <1>0, <1>2, <2>2, BadFacts DEF SamePlan
  <2> QED
    BY <2>1, <2>2, Zenon DEF Record, Answered
<1> HIDE DEF good
<1>6. rows' \in [Acct -> UsageRows]
  <2>1. \A a \in Acct : rows'[a] \in UsageRows
    BY <1>5 DEF RowStep
  <2>2. CASE rows' = [a \in Acct |-> IF a \in ask THEN RecordOutcome(rows[a], out[a], clk) ELSE rows[a]]
    <3>1. rows' = [a \in Acct |-> rows'[a]]
      BY <2>2, Zenon
    <3> QED
      BY <2>1, <3>1
  <2>3. CASE rows' = rows
    BY <1>0, <2>3
  <2> QED
    BY <2>2, <2>3, Zenon DEF Record
<1>7. c = "engine" => EngineServed(q, rows', unsaved')
  <2> SUFFICES ASSUME c = "engine" PROVE Covered(q, rows', unsaved')
    BY <1>3 DEF EngineServed
  <2> DEFINE e == coll[c]
  <2>1. Covered(e, rows, unsaved)
    BY <1>1 DEF PollInv, EngineOK, EngineServed
  <2>2. e \in Pass /\ e.active \in Acct /\ e.began <= clk
    BY <1>0, <1>1 DEF GoodPass
  <2>3. /\ rows[e.active] \in UsageRows /\ GoodRow(rows[e.active], clk) /\ RowStep(rows[e.active], rows'[e.active], clk)
        /\ e.active \in unsaved => e.active \in unsaved' \/ rows'[e.active].fetchedAt = clk
    BY <1>0, <1>5, <2>2
  <2>4. q.active = e.active /\ q.began = e.began /\ (e.unserved => q.unserved)
    BY <1>3
  <2> HIDE DEF e
  <2> QED
    BY <1>0, <2>1, <2>2, <2>3, <2>4, CoveredKept
<1>8. PlansOK'
  <2>1. \A a \in Acct : \/ a \in unsaved' \/ Planned10(rows'[a], clk) \/ SamePlan(a)
                        \/ rows'[a].fetchedAt = clk /\ q.st = "plan" /\ a \in q.ask
    BY <1>3, <1>5
  <2>2. coll[c].st # "plan"
    BY <1>1
  <2> QED
    BY <1>1, <2>1, <2>2, PlansMove
<1>9. q.st = "plan" => \A a \in q.ask : rows'[a].fetchedAt = clk \/ a \in unsaved'
  BY <1>0, <1>2, <1>3, <1>5
<1>10. /\ \A a \in Acct : RowStep(rows[a], rows'[a], clk)
       /\ \A a \in Acct : a \in unsaved => a \in unsaved' \/ rows'[a].fetchedAt = clk
       /\ inUse' \in Acct /\ clk' = clk
  BY <1>0, <1>1, <1>5
<1> QED
  BY <1>1, <1>4, <1>5, <1>6, <1>7, <1>8, <1>9, <1>10, Moved

LEMMA DueSoon ==
  ASSUME NEW t \in Nat, NEW s, NEW u, s.fetchedAt = t, s.lastGood = u, NEW next \in Int,
         s.pollInterval <= ActiveMaxInterval => next <= t + 11,
         AtLimit(u) \/ (s.nextPollAt \in Int /\ s.nextPollAt <= next)
  PROVE  Planned10(s, t)
BY DEF Planned10

\* A plan just made for a reading is due within its jitter, when it is a fast one.
LEMMA PlanMade ==
  ASSUME PollInv, NEW c \in Collectors, coll[c].st = "plan", NEW a \in Acct, rows[a].fetchedAt # Nil,
         NEW p \in PlanAfterFetch(PlanInput(c, a))
  PROVE  /\ p.nextPollAt \in Dues /\ p.pollInterval \in Int /\ p.pollInterval > 0
         /\ rows[a].fetchedAt = clk => Planned10(Scheduled(rows[a], p.nextPollAt, p.pollInterval), clk)
<1> DEFINE in == PlanInput(c, a)
           i == PlanInterval(in)
<1>0. clk \in Nat /\ rows[a] \in UsageRows /\ coll[c] \in Pass /\ GoodPass(coll[c], clk)
  BY PollFacts
<1>1. /\ coll[c].pre \in [Acct -> UsageRows]
      /\ coll[c].pre[a].pollInterval = Nil \/ coll[c].pre[a].pollInterval > 0
  BY <1>0 DEF GoodPass
<1>2. /\ in.before.pollInterval \in Int /\ (in.before.pollInterval = Nil \/ in.before.pollInterval > 0)
      /\ in.usage = rows[a].lastGood /\ in.usage \in KnownUsage /\ in.now = clk /\ in.models = {}
  BY <1>0, <1>1, RowFacts DEF PlanInput
<1> HIDE DEF in
<1>3. i \in Int /\ i > 0
  BY <1>2, IntervalFacts
<1>4. PICK next \in Jittered(clk, i) : p = [nextPollAt |-> ClippedToReset(next, in), pollInterval |-> i]
  BY <1>2 DEF PlanAfterFetch, in
<1> HIDE DEF i
<1>5. next \in Int /\ (i <= ActiveMaxInterval => next <= clk + 11)
  BY <1>0, <1>3, <1>4, JitterBound
<1>6. /\ ClippedToReset(next, in) \in Dues
      /\ AtLimit(in.usage) \/ (ClippedToReset(next, in) \in Int /\ ClippedToReset(next, in) <= next)
  BY <1>0, <1>2, <1>5, ClipBound
<1>7. p.nextPollAt = ClippedToReset(next, in) /\ p.pollInterval = i
  BY <1>4
<1>8. ASSUME rows[a].fetchedAt = clk PROVE Planned10(Scheduled(rows[a], p.nextPollAt, p.pollInterval), clk)
  <2> DEFINE s == Scheduled(rows[a], p.nextPollAt, p.pollInterval)
  <2>1. s.fetchedAt = clk /\ s.lastGood = in.usage /\ s.nextPollAt = p.nextPollAt /\ s.pollInterval = i
    <3> DEFINE n == p.nextPollAt
               k == p.pollInterval
    <3>1. n \in Dues /\ k \in Int /\ k > 0 /\ rows[a] \in UsageRows
      BY <1>0, <1>3, <1>6, <1>7
    <3>2. k = i
      BY <1>7
    <3> HIDE DEF n, k
    <3>3. LET z == Scheduled(rows[a], n, k)
          IN  z.fetchedAt = rows[a].fetchedAt /\ z.lastGood = rows[a].lastGood /\ z.nextPollAt = n /\ z.pollInterval = k
      BY <3>1, PlanIn
    <3> QED
      BY <1>2, <1>8, <3>2, <3>3 DEF n, k
  <2> HIDE DEF s
  <2>2. AtLimit(in.usage) \/ (p.nextPollAt \in Int /\ p.nextPollAt <= next)
    BY <1>6, <1>7
  <2> QED
    BY <1>0, <1>5, <2>1, <2>2, DueSoon DEF s
<1> QED
  BY <1>3, <1>6, <1>7, <1>8

LEMMA SetPollPlanOK == ASSUME PollInv, NEW c \in Collectors, SetPollPlan(c) PROVE PollInv'
<1> DEFINE due == {a \in coll[c].ask : rows[a].fetchedAt # Nil}
<1>0. /\ clk \in Nat /\ inUse \in Acct /\ unsaved \subseteq Acct /\ rows \in [Acct -> UsageRows]
      /\ \A a \in Acct : rows[a] \in UsageRows /\ GoodRow(rows[a], clk) /\ RowStep(rows[a], rows[a], clk)
      /\ coll[c] \in Pass /\ GoodPass(coll[c], clk) /\ coll[c].ask \subseteq Acct
  BY PollFacts
<1>1. coll[c].st = "plan" /\ GoOn(c, coll[c].unserved) /\ UNCHANGED <<clk, inUse, bad, unsaved>>
  BY DEF SetPollPlan
<1>2. PICK plans \in [due -> UNION {PlanAfterFetch(PlanInput(c, a)) : a \in due}] :
        /\ \A a \in due : plans[a] \in PlanAfterFetch(PlanInput(c, a))
        /\ rows' = [a \in Acct |-> IF a \in due THEN [rows[a] EXCEPT !.nextPollAt = plans[a].nextPollAt,
                                                                     !.pollInterval = plans[a].pollInterval]
                                   ELSE rows[a]]
  BY DEF SetPollPlan
<1>3. \A a \in Acct : a \in due =>
        /\ rows'[a] = Scheduled(rows[a], plans[a].nextPollAt, plans[a].pollInterval)
        /\ RowStep(rows[a], rows'[a], clk)
        /\ rows[a].fetchedAt = clk => Planned10(rows'[a], clk)
  <2> SUFFICES ASSUME NEW a \in Acct, a \in due
               PROVE  /\ rows'[a] = Scheduled(rows[a], plans[a].nextPollAt, plans[a].pollInterval)
                      /\ RowStep(rows[a], rows'[a], clk)
                      /\ rows[a].fetchedAt = clk => Planned10(rows'[a], clk)
    OBVIOUS
  <2> DEFINE p == plans[a]
  <2>1. rows'[a] = Scheduled(rows[a], p.nextPollAt, p.pollInterval)
    BY <1>2 DEF Scheduled
  <2>2. p \in PlanAfterFetch(PlanInput(c, a)) /\ rows[a].fetchedAt # Nil
    BY <1>2
  <2> HIDE DEF p, due
  <2>3. /\ p.nextPollAt \in Dues /\ p.pollInterval \in Int /\ p.pollInterval > 0
        /\ rows[a].fetchedAt = clk => Planned10(Scheduled(rows[a], p.nextPollAt, p.pollInterval), clk)
    BY <1>1, <2>2, PlanMade
  <2>4. RowStep(rows[a], Scheduled(rows[a], p.nextPollAt, p.pollInterval), clk)
    BY <1>0, <2>3, PlanIn
  <2> QED
    BY <2>1, <2>3, <2>4 DEF p
<1>4. \A a \in Acct : a \notin due => rows'[a] = rows[a]
  BY <1>2
<1>5. \A a \in Acct : RowStep(rows[a], rows'[a], clk)
  BY <1>0, <1>3, <1>4
<1>6. \A a \in Acct : a \in due => a \in unsaved \/ Planned10(rows'[a], clk)
  BY <1>1, <1>3 DEF PollInv, PendingOK
<1>7. \A a \in coll[c].ask : a \in unsaved' \/ Planned10(rows'[a], clk)
  <2> SUFFICES ASSUME NEW a \in coll[c].ask PROVE a \in unsaved \/ Planned10(rows'[a], clk)
    BY <1>1
  <2>1. CASE a \in due
    BY <1>0, <1>6, <2>1
  <2>2. CASE a \notin due
    <3>1. rows'[a] = rows[a] /\ rows[a].fetchedAt = Nil
      BY <1>0, <1>4, <2>2
    <3> QED
      BY <3>1 DEF Planned10
  <2> QED
    BY <2>1, <2>2
<1>8. \A a \in Acct : a \in unsaved' \/ Planned10(rows'[a], clk) \/ SamePlan(a)
  BY <1>1, <1>4, <1>6 DEF SamePlan
<1>9. rows' \in [Acct -> UsageRows]
  <2>1. \A a \in Acct : rows'[a] \in UsageRows
    BY <1>5 DEF RowStep
  <2>2. rows' = [a \in Acct |-> rows'[a]]
    BY <1>2
  <2> QED
    BY <2>1, <2>2
<1> HIDE DEF due
<1> DEFINE me == [active |-> coll[c].active, began |-> coll[c].began, unserved |-> coll[c].unserved]
<1>10. c = "engine" => Covered(me, rows', unsaved')
  <2> SUFFICES ASSUME c = "engine" PROVE Covered(me, rows', unsaved')
    OBVIOUS
  <2> DEFINE e == coll[c]
  <2>1. Covered(e, rows, unsaved)
    BY <1>1 DEF PollInv, EngineOK, EngineServed
  <2>2. e \in Pass /\ e.active \in Acct /\ e.began <= clk
    BY <1>0, <1>1 DEF GoodPass
  <2>3. /\ rows[e.active] \in UsageRows /\ GoodRow(rows[e.active], clk) /\ RowStep(rows[e.active], rows'[e.active], clk)
        /\ e.active \in unsaved => e.active \in unsaved' \/ rows'[e.active].fetchedAt = clk
    BY <1>0, <1>1, <1>5, <2>2
  <2>4. me.active = e.active /\ me.began = e.began /\ (e.unserved => me.unserved)
    OBVIOUS
  <2> HIDE DEF e, me
  <2> QED
    BY <1>0, <2>1, <2>2, <2>3, <2>4, CoveredKept
<1>11. coll[c].unserved \in BOOLEAN /\ bad' \in 0 .. Faults /\ coll[c].st # "idle"
         /\ \A a \in Acct : a \in unsaved => a \in unsaved'
  BY <1>0, <1>1, BadFacts, PassFacts
<1>12. clk' = clk /\ inUse' = inUse /\ unsaved' \subseteq Acct /\ GoOn(c, coll[c].unserved)
  BY <1>0, <1>1
<1> QED
  BY <1>5, <1>7, <1>8, <1>9, <1>10, <1>11, <1>12, Continues

-----------------------------------------------------------------------------
(* Polling: the invariant holds.                                             *)

\* The world moves, and the collectors rest.
LEMMA WorldMoves ==
  ASSUME PollInv, UNCHANGED <<clk, coll, unsaved>>, inUse' \in Acct, bad' \in 0 .. Faults, rows' \in [Acct -> UsageRows],
         \A a \in Acct : RowStep(rows[a], rows'[a], clk) /\ SamePlan(a)
  PROVE  PollInv'
<1> DEFINE q == coll["display"]
<1>0. "display" \in Collectors /\ "display" # "engine" /\ coll \in [Collectors -> Pass]
  BY DEF Collectors, PollInv, PollTyped
<1>1. /\ clk \in Nat /\ unsaved \subseteq Acct /\ q \in Pass /\ GoodPass(q, clk) /\ q.ask \subseteq Acct
  BY <1>0, PollFacts
<1>2. coll' = [coll EXCEPT !["display"] = q] /\ clk' = clk
  BY <1>0
<1>3. PlansOK'
  <2> SUFFICES ASSUME NEW a \in Acct PROVE a \in unsaved \/ Planned10(rows'[a], clk) \/ Pending(a)'
    BY DEF PlansOK
  <2>1. (a \in unsaved \/ Planned10(rows[a], clk) \/ Pending(a)) /\ SamePlan(a)
    BY DEF PollInv, PlansOK
  <2> QED
    BY <2>1 DEF SamePlan, Pending
<1>4. q.st = "plan" => \A a \in q.ask : rows'[a].fetchedAt = clk \/ a \in unsaved'
  <2>1. \A a \in Acct : rows'[a].fetchedAt = rows[a].fetchedAt
    BY DEF SamePlan
  <2> QED
    BY <1>0, <1>1, <2>1 DEF PollInv, PendingOK
<1>5. /\ unsaved' \subseteq Acct
      /\ \A a \in Acct : RowStep(rows[a], rows'[a], clk)
      /\ \A a \in Acct : a \in unsaved => a \in unsaved' \/ rows'[a].fetchedAt = clk
  BY <1>1
<1> HIDE DEF q
<1> QED
  BY <1>0, <1>1, <1>2, <1>3, <1>4, <1>5, Moved

LEMMA LoginElsewhereOK == PollInv /\ LoginElsewhere => PollInv'
<1> SUFFICES ASSUME PollInv, LoginElsewhere PROVE PollInv'
  OBVIOUS
<1>1. UNCHANGED <<clk, rows, coll, unsaved>> /\ inUse' \in Acct /\ bad' \in 0 .. Faults
  BY BadFacts DEF LoginElsewhere
<1>2. rows \in [Acct -> UsageRows] /\ \A a \in Acct : RowStep(rows[a], rows[a], clk)
  BY PollFacts
<1>3. \A a \in Acct : SamePlan(a)
  BY <1>1 DEF SamePlan
<1> QED
  BY <1>1, <1>2, <1>3, WorldMoves

LEMMA ClearDeadTokenOK == ASSUME PollInv, NEW b \in Acct, ClearDeadToken(b) PROVE PollInv'
<1>0. /\ clk \in Nat /\ rows \in [Acct -> UsageRows] /\ inUse \in Acct
      /\ \A a \in Acct : rows[a] \in UsageRows /\ GoodRow(rows[a], clk) /\ RowStep(rows[a], rows[a], clk)
  BY PollFacts
<1>1. UNCHANGED <<clk, inUse, coll, unsaved>> /\ bad' \in 0 .. Faults /\ rows' = [rows EXCEPT ![b] = ClearedDeadToken(@)]
  BY BadFacts DEF ClearDeadToken
<1>2. \A a \in Acct : RowStep(rows[a], rows'[a], clk) /\ SamePlan(a)
  <2> SUFFICES ASSUME NEW a \in Acct PROVE RowStep(rows[a], rows'[a], clk) /\ SamePlan(a)
    OBVIOUS
  <2>1. CASE a = b
    <3>1. rows'[a] = ClearedDeadToken(rows[a])
      BY <1>0, <1>1, <2>1
    <3>2. rows[a] \in UsageRows /\ (rows[a].pollInterval = Nil \/ rows[a].pollInterval > 0)
      BY <1>0 DEF GoodRow
    <3> QED
      BY <1>0, <1>1, <3>1, <3>2, Cleared DEF SamePlan
  <2>2. CASE a # b
    <3>1. rows'[a] = rows[a]
      BY <1>0, <1>1, <2>2
    <3> QED
      BY <1>0, <1>1, <3>1 DEF SamePlan
  <2> QED
    BY <2>1, <2>2
<1>3. rows' \in [Acct -> UsageRows]
  <2>1. \A a \in Acct : rows'[a] \in UsageRows
    BY <1>2 DEF RowStep
  <2>2. rows' = [a \in Acct |-> rows'[a]]
    BY <1>0, <1>1
  <2> QED
    BY <2>1, <2>2
<1> QED
  BY <1>0, <1>1, <1>2, <1>3, WorldMoves

LEMMA DecidedOK == PollInv /\ Decided => PollInv'
<1> SUFFICES ASSUME PollInv, Decided PROVE PollInv'
  OBVIOUS
<1> DEFINE q == Resting(coll["engine"].passes)
<1>0. /\ clk \in Nat /\ rows \in [Acct -> UsageRows] /\ inUse \in Acct /\ unsaved \subseteq Acct
      /\ \A a \in Acct : rows[a] \in UsageRows /\ GoodRow(rows[a], clk) /\ RowStep(rows[a], rows[a], clk)
      /\ "engine" \in Collectors /\ coll["engine"] \in Pass
  BY PollFacts
<1>1. /\ coll["engine"].st = "decide" /\ UNCHANGED <<clk, bad, unsaved>> /\ coll' = [coll EXCEPT !["engine"] = q]
  BY DEF Decided, Set
<1>2. PICK b \in Acct : /\ inUse' = b
                        /\ rows' = IF b = inUse THEN rows ELSE [rows EXCEPT ![b] = ReplanNewActive(@, clk)]
  BY DEF Decided
<1>3. q \in Pass /\ q.st = "idle"
  BY <1>0, PassFacts, RestFacts
<1> HIDE DEF q
<1>4. GoodPass(q, clk) /\ EngineServed(q, rows', unsaved')
  BY <1>3 DEF GoodPass, EngineServed
<1>5. \A a \in Acct : RowStep(rows[a], rows'[a], clk) /\ SamePlan(a)
  <2> SUFFICES ASSUME NEW a \in Acct PROVE RowStep(rows[a], rows'[a], clk) /\ SamePlan(a)
    OBVIOUS
  <2>1. CASE rows'[a] = ReplanNewActive(rows[a], clk)
    <3>1. rows[a] \in UsageRows /\ (rows[a].pollInterval = Nil \/ rows[a].pollInterval > 0)
      BY <1>0 DEF GoodRow
    <3> QED
      BY <1>0, <1>1, <2>1, <3>1, Replanned DEF SamePlan
  <2>2. CASE rows'[a] = rows[a]
    BY <1>0, <1>1, <2>2 DEF SamePlan
  <2> QED
    BY <1>0, <1>2, <2>1, <2>2
<1>6. rows' \in [Acct -> UsageRows]
  <2>1. \A a \in Acct : rows'[a] \in UsageRows
    BY <1>5 DEF RowStep
  <2>2. rows' = [a \in Acct |-> rows'[a]]
    BY <1>0, <1>2
  <2> QED
    BY <2>1, <2>2
<1>7. PlansOK'
  <2>1. coll["engine"].st # "plan" /\ clk' = clk
    BY <1>1
  <2> QED
    BY <1>0, <1>1, <1>5, <2>1, PlansMove
<1>8. /\ bad' \in 0 .. Faults /\ inUse' \in Acct /\ unsaved' \subseteq Acct /\ clk' = clk /\ q.st # "plan"
      /\ \A a \in Acct : RowStep(rows[a], rows'[a], clk)
      /\ \A a \in Acct : a \in unsaved => a \in unsaved' \/ rows'[a].fetchedAt = clk
  BY <1>0, <1>1, <1>2, <1>3, <1>5, BadFacts
<1> QED
  BY <1>0, <1>1, <1>4, <1>6, <1>7, <1>8, Moved

LEMMA TimeGoesOnOK == PollInv /\ TimeGoesOn => PollInv'
<1> SUFFICES ASSUME PollInv, TimeGoesOn PROVE PollInv'
  OBVIOUS
<1>0. /\ clk \in Nat /\ rows \in [Acct -> UsageRows] /\ Horizon \in Nat
      /\ \A a \in Acct : rows[a] \in UsageRows /\ GoodRow(rows[a], clk)
      /\ \A c \in Collectors : coll[c] \in Pass /\ GoodPass(coll[c], clk)
  BY PollFacts, PollingAssumption
<1>1. clk < Horizon /\ clk' = clk + 1 /\ UNCHANGED <<rows, inUse, coll, bad, unsaved>>
  BY DEF TimeGoesOn
<1>2. \A c \in Collectors : coll[c].st # "plan"
  BY DEF TimeGoesOn
<1>3. PollTyped'
  <2>1. \A a \in Acct : GoodRow(rows[a], clk + 1)
    <3> SUFFICES ASSUME NEW a \in Acct PROVE GoodRow(rows[a], clk + 1)
      OBVIOUS
    <3>1. GoodRow(rows[a], clk)
      BY <1>0
    <3> QED
      BY <1>0, <3>1 DEF GoodRow, Nil
  <2>2. \A c \in Collectors : GoodPass(coll[c], clk + 1)
    <3> SUFFICES ASSUME NEW c \in Collectors PROVE GoodPass(coll[c], clk + 1)
      OBVIOUS
    <3>1. GoodPass(coll[c], clk) /\ coll[c].began \in Nat
      BY <1>0, PassFacts
    <3> QED
      BY <1>0, <3>1 DEF GoodPass
  <2>3. clk + 1 \in 0 .. Horizon
    BY <1>0, <1>1
  <2> QED
    BY <1>1, <2>1, <2>2, <2>3 DEF PollInv, PollTyped
<1>4. PlansOK'
  <2> SUFFICES ASSUME NEW a \in Acct PROVE a \in unsaved \/ Planned10(rows[a], clk + 1)
    BY <1>1 DEF PlansOK
  <2>1. a \in unsaved \/ Planned10(rows[a], clk)
    BY <1>2 DEF PollInv, PlansOK, Pending
  <2>2. rows[a] \in UsageRows /\ rows[a].fetchedAt \in Int
    BY <1>0, RowFacts
  <2> QED
    BY <1>0, <2>1, <2>2 DEF Planned10
<1>5. PendingOK' /\ EngineOK'
  BY <1>1, <1>2 DEF PollInv, PendingOK, EngineOK
<1> QED
  BY <1>3, <1>4, <1>5 DEF PollInv

\* A row as an earlier session of cswap left it.
LEMMA EarlierRow ==
  ASSUME NEW u \in Values, NEW i \in {MinInterval, CandidateMax}, NEW at \in {MinInterval, CandidateMax + 2},
         NEW r, r = [Planned(i, at) EXCEPT !.lastGood = u]
  PROVE  r \in UsageRows /\ r.fetchedAt = 0 /\ r.lastAttemptAt = 0 /\ r.pollInterval = i /\ r.nextPollAt = at
<1> DEFINE r1 == [FreshRow EXCEPT !.fetchedAt = 0]
           r2 == [r1 EXCEPT !.lastAttemptAt = 0]
           r3 == Scheduled(r2, at, i)
<1>1. r1 \in UsageRows /\ r1.fetchedAt = 0
  BY FreshRowFacts, WithFetched
<1> HIDE DEF r1
<1>2. r2 \in UsageRows /\ r2.fetchedAt = 0 /\ r2.lastAttemptAt = 0
  BY <1>1, WithAttempt
<1> HIDE DEF r2
<1>3. i \in Int /\ i > 0 /\ at \in Dues
  BY DEF MinInterval, CandidateMax, Dues
<1>4. r3 \in UsageRows /\ r3.fetchedAt = 0 /\ r3.lastAttemptAt = 0 /\ r3.pollInterval = i /\ r3.nextPollAt = at
  BY <1>2, <1>3 DEF UsageRows, Scheduled
<1>5. Planned(i, at) = r3
  BY DEF Planned, Scheduled, r1, r2, FreshRow
<1> HIDE DEF r3
<1>6. u \in KnownUsage
  BY DEF KnownUsage
<1> QED
  BY <1>4, <1>5, <1>6, WithGood

LEMMA PollStart == PollInit => PollInv
<1> SUFFICES ASSUME PollInit PROVE PollInv
  OBVIOUS
<1>0. clk = Start /\ Start \in Nat /\ Start <= Horizon /\ Horizon \in Nat /\ Faults \in Nat /\ bad = 0 /\ unsaved = {}
  BY PollingAssumption DEF PollInit
<1>1. inUse \in Acct
  BY PollingAssumption, LeastNat DEF PollInit
<1>2. coll = [c \in Collectors |-> Resting(0)] /\ Resting(0) \in Pass /\ Resting(0).st = "idle"
  BY RestFacts DEF PollInit
<1>3. PICK u \in Values \ {NoUsage} :
        rows \in [Acct -> {FreshRow} \cup
                    {[Planned(i, at) EXCEPT !.lastGood = u] :
                       i \in {MinInterval, CandidateMax}, at \in {MinInterval, CandidateMax + 2}}]
  BY DEF PollInit
<1>4. \A a \in Acct : rows[a] \in UsageRows /\ GoodRow(rows[a], clk) /\ Planned10(rows[a], clk)
  <2> SUFFICES ASSUME NEW a \in Acct PROVE rows[a] \in UsageRows /\ GoodRow(rows[a], clk) /\ Planned10(rows[a], clk)
    OBVIOUS
  <2>1. CASE rows[a] = FreshRow
    <3>1. FreshRow.fetchedAt = Nil /\ FreshRow.lastAttemptAt = Nil /\ FreshRow.pollInterval = Nil
      BY DEF FreshRow
    <3> QED
      BY <1>0, <2>1, <3>1, FreshRowFacts DEF GoodRow, Planned10, Nil
  <2>2. CASE rows[a] # FreshRow
    <3>1. PICK i \in {MinInterval, CandidateMax}, at \in {MinInterval, CandidateMax + 2} :
            rows[a] = [Planned(i, at) EXCEPT !.lastGood = u]
      BY <1>3, <2>2
    <3>2. /\ rows[a] \in UsageRows /\ rows[a].fetchedAt = 0 /\ rows[a].lastAttemptAt = 0
          /\ rows[a].pollInterval = i /\ rows[a].nextPollAt = at
      <4> DEFINE r == rows[a]
      <4>1. r = [Planned(i, at) EXCEPT !.lastGood = u]
        BY <3>1
      <4>2. u \in Values
        OBVIOUS
      <4> HIDE DEF r
      <4>3. r \in UsageRows /\ r.fetchedAt = 0 /\ r.lastAttemptAt = 0 /\ r.pollInterval = i /\ r.nextPollAt = at
        BY <4>1, <4>2, EarlierRow
      <4> QED
        BY <4>3 DEF r
    <3>3. rows[a].nextPollAt \in Jittered(0, i)
      BY <3>2 DEF PollInit, Nil
    <3>4. at \in Int /\ i \in Int /\ i > 0 /\ (i <= ActiveMaxInterval => at <= 11)
      BY <3>2, <3>3, JitterBound DEF MinInterval, CandidateMax
    <3> QED
      BY <1>0, <3>2, <3>4 DEF GoodRow, Planned10, Nil
  <2> QED
    BY <2>1, <2>2
<1>5. rows \in [Acct -> UsageRows]
  BY <1>3, <1>4
<1>6. \A c \in Collectors : coll[c] \in Pass /\ coll[c].st = "idle" /\ GoodPass(coll[c], clk)
  BY <1>2 DEF GoodPass
<1>7. coll \in [Collectors -> Pass] /\ "engine" \in Collectors
  BY <1>2 DEF Collectors
<1>8. PollTyped
  BY <1>0, <1>1, <1>4, <1>5, <1>6, <1>7 DEF PollTyped
<1>9. PlansOK /\ PendingOK /\ EngineOK
  BY <1>4, <1>6, <1>7 DEF PlansOK, PendingOK, EngineOK, EngineServed
<1> QED
  BY <1>8, <1>9 DEF PollInv

LEMMA PollStep == PollInv /\ [PollNext]_pollVars => PollInv'
<1> SUFFICES ASSUME PollInv, [PollNext]_pollVars PROVE PollInv'
  OBVIOUS
<1>1. ASSUME NEW c \in Collectors, Begin(c) \/ Reserve(c) \/ ReserveFails(c) \/ SetPollPlan(c) \/ SetPollPlanFails(c)
      PROVE  PollInv'
  BY <1>1, BeginOK, ReserveOK, ReserveFailsOK, SetPollPlanOK, SetPollPlanFailsOK
<1>2. ASSUME NEW c \in Collectors, NEW out \in [coll[c].ask -> Outcomes], Record(c, out) PROVE PollInv'
  BY <1>2, RecordStepOK
<1>3. ASSUME NEW a \in Acct, ClearDeadToken(a) PROVE PollInv'
  BY <1>3, ClearDeadTokenOK
<1>4. CASE UNCHANGED pollVars
  <2>1. UNCHANGED <<clk, rows, inUse, coll, bad, unsaved>>
    BY <1>4 DEF pollVars
  <2>2. /\ inUse' \in Acct /\ bad' \in 0 .. Faults /\ rows' \in [Acct -> UsageRows]
        /\ \A a \in Acct : RowStep(rows[a], rows'[a], clk) /\ SamePlan(a)
    BY <2>1, PollFacts, BadFacts DEF SamePlan
  <2> QED
    BY <2>1, <2>2, WorldMoves
<1> QED
  BY <1>1, <1>2, <1>3, <1>4, DecidedOK, LoginElsewhereOK, TimeGoesOnOK DEF PollNext

LEMMA PollIInv == PollSpec => []PollInv
<1>1. PollInit => PollInv
  BY PollStart
<1>2. PollInv /\ [PollNext]_pollVars => PollInv'
  BY PollStep
<1> QED
  BY <1>1, <1>2, PTL DEF PollSpec

\* THEOREM. The rows of usage.json and the passes over them keep their types, and no row is
\* dated after the time it is read at, whoever records, plans or fails (usage/store.go
\* Reserve, Record, SetPollPlan).
THEOREM PollingTyped == PollSpec => []PollTypeOK
<1>1. PollInv => PollTypeOK
  <2> SUFFICES ASSUME PollInv PROVE PollTypeOK
    OBVIOUS
  <2>1. \A a \in Acct : /\ DOMAIN rows[a] = DOMAIN FreshRow
                        /\ rows[a].fetchedAt \in Nil .. clk /\ rows[a].lastAttemptAt \in Nil .. clk
                        /\ rows[a].failures \in Nat /\ rows[a].strikes \in Nat
                        /\ rows[a].pollInterval = Nil \/ rows[a].pollInterval > 0
    BY PollFacts, RowFacts DEF GoodRow
  <2> QED
    BY <2>1, PollFacts DEF PollTypeOK, PollInv, PollTyped
<1> QED
  BY <1>1, PollIInv, PTL

\* How a pass comes to its decision: from the plan, with what it knew, or with nothing written.
LEMMA ComesToDecide ==
  ASSUME PollInv, [PollNext]_pollVars, coll["engine"].st # "decide", coll'["engine"].st = "decide"
  PROVE  \/ rows' = rows /\ unsaved' = unsaved
         \/ /\ coll["engine"].st = "plan" /\ coll'["engine"].active = coll["engine"].active
            /\ coll'["engine"].began = coll["engine"].began
            /\ coll'["engine"].unserved = coll["engine"].unserved
<1>0. /\ PollTyped /\ "engine" \in Collectors /\ coll \in [Collectors -> Pass]
      /\ \A c \in Collectors : coll[c] \in Pass /\ coll[c].ask \subseteq Acct
  BY PollFacts DEF PollInv, PollTyped
<1>1. ASSUME NEW c \in Collectors, Begin(c) PROVE rows' = rows /\ unsaved' = unsaved
  BY <1>1 DEF Begin
<1>2. ASSUME NEW c \in Collectors, Reserve(c) PROVE rows' = rows /\ unsaved' = unsaved
  <2> DEFINE won == {a \in coll[c].ask : RowEligible(rows[a], clk, c # "engine")}
  <2>1. CASE won = {}
    <3>1. rows' = [a \in Acct |-> rows[a]]
      BY <1>2, <2>1 DEF Reserve
    <3> QED
      BY <1>2, <3>1 DEF Reserve, PollInv, PollTyped
  <2>2. CASE won # {}
    <3>1. PICK v : coll' = [coll EXCEPT ![c] = [coll[c] EXCEPT !.ask = won, !.since = clk, !.st = "fetch", !.unserved = v]]
      BY <1>2, <2>2 DEF Reserve, Set
    <3>2. coll'[c] = [coll[c] EXCEPT !.ask = won, !.since = clk, !.st = "fetch", !.unserved = v]
            /\ \A d \in Collectors : d # c => coll'[d] = coll[d]
      BY <1>0, <3>1
    <3>3. coll'[c].st = "fetch"
      <4> HIDE DEF won
      <4> QED
        BY <1>0, <3>2 DEF Pass
    <3> QED
      BY <1>0, <3>2, <3>3
  <2> QED
    BY <2>1, <2>2
<1>3. ASSUME NEW c \in Collectors, ReserveFails(c) PROVE rows' = rows /\ unsaved' = unsaved
  BY <1>3 DEF ReserveFails
<1>4. ASSUME NEW c \in Collectors, NEW out \in [coll[c].ask -> Outcomes], Record(c, out) PROVE FALSE
  <2>1. PICK good : coll' = [coll EXCEPT ![c] = [coll[c] EXCEPT !.st = "plan", !.since = 0, !.ask = good]]
    BY <1>4, Zenon DEF Record, Set
  <2>2. coll'[c] = [coll[c] EXCEPT !.st = "plan", !.since = 0, !.ask = good]
          /\ \A d \in Collectors : d # c => coll'[d] = coll[d]
    BY <1>0, <2>1
  <2>3. coll'[c].st = "plan"
    BY <1>0, <2>2 DEF Pass
  <2> QED
    BY <1>0, <2>2, <2>3
<1>5. ASSUME NEW c \in Collectors, coll[c].st = "plan", GoOn(c, coll[c].unserved)
      PROVE  /\ coll["engine"].st = "plan" /\ coll'["engine"].active = coll["engine"].active
             /\ coll'["engine"].began = coll["engine"].began
             /\ coll'["engine"].unserved = coll["engine"].unserved
  <2>1. coll[c].unserved \in BOOLEAN
    BY <1>0, PassFacts
  <2>2. Went(c, coll[c].unserved)
    BY <1>0, <1>5, <2>1, GoOnFacts
  <2>3. PICK q \in Pass :
          /\ coll' = [coll EXCEPT ![c] = q]
          /\ \/ q.st = "idle"
             \/ /\ q.st = "decide" /\ c = "engine" /\ q.began = coll[c].began /\ q.active = coll[c].active
                /\ q.unserved = coll[c].unserved
             \/ q.st = "reserve"
    BY <2>2 DEF Went
  <2>4. coll'[c] = q /\ \A d \in Collectors : d # c => coll'[d] = coll[d]
    BY <1>0, <2>3
  <2> QED
    BY <1>0, <1>5, <2>3, <2>4
<1>6. ASSUME NEW c \in Collectors, SetPollPlan(c) \/ SetPollPlanFails(c)
      PROVE  coll[c].st = "plan" /\ GoOn(c, coll[c].unserved)
  BY <1>6 DEF SetPollPlan, SetPollPlanFails
<1>7. CASE Decided
  <2>1. coll'["engine"] = Resting(coll["engine"].passes)
    BY <1>0, <1>7 DEF Decided, Set
  <2> QED
    BY <2>1 DEF Resting
<1>8. CASE LoginElsewhere \/ TimeGoesOn \/ (\E a \in Acct : ClearDeadToken(a)) \/ UNCHANGED pollVars
  <2>1. UNCHANGED coll
    BY <1>8 DEF LoginElsewhere, TimeGoesOn, ClearDeadToken, pollVars
  <2> QED
    BY <2>1
<1> QED
  BY <1>1, <1>2, <1>3, <1>4, <1>5, <1>6, <1>7, <1>8 DEF PollNext

\* THEOREM. Whatever plan an earlier role or another collector left behind, no tick of the
\* engine decides on an active account whose reading is older than an active plan allows, but
\* for the excuses named by the property (autoswitch/collect.go collectScheduledUsage,
\* usage/pollpolicy.go PlanAfterFetch): an account that is not nominated has a plan as fast
\* as an active one, and every such plan is due within its jitter of the reading.
THEOREM ActiveAlwaysPolled == PollSpec => ActiveIsPolled
<1> DEFINE Polled == LET e == coll'["engine"]
                         r == rows[e.active]
                     IN  coll["engine"].st # "decide" /\ e.st = "decide" =>
                           \/ r.fetchedAt # Nil /\ e.began - r.fetchedAt <= (11 * ActiveMaxInterval + 9) \div 10
                           \/ r.lastAttemptAt > e.began - ClaimTTL
                           \/ e.unserved \/ e.active \in unsaved
                           \/ BindingPct(r.lastGood, {}) \in 100 .. NoHeadroom - 1
<1>1. PollInv /\ [PollNext]_pollVars => [Polled]_pollVars
  <2> SUFFICES ASSUME PollInv, [PollNext]_pollVars, coll["engine"].st # "decide", coll'["engine"].st = "decide"
               PROVE  Polled
    OBVIOUS
  <2> DEFINE e == coll'["engine"]
  <2>1. Covered(e, rows, unsaved)
    <3>1. CASE rows' = rows /\ unsaved' = unsaved
      <4>1. EngineOK'
        BY PollStep DEF PollInv
      <4> QED
        BY <3>1, <4>1 DEF EngineOK, EngineServed
    <3>2. CASE /\ coll["engine"].st = "plan" /\ e.active = coll["engine"].active
               /\ e.began = coll["engine"].began /\ e.unserved = coll["engine"].unserved
      <4>1. Covered(coll["engine"], rows, unsaved)
        BY <3>2 DEF PollInv, EngineOK, EngineServed
      <4> HIDE DEF e
      <4> QED
        BY <3>2, <4>1, CoveredSame
    <3> QED
      BY <3>1, <3>2, ComesToDecide
  <2>2. (11 * ActiveMaxInterval + 9) \div 10 = 11
    BY DEF ActiveMaxInterval
  <2> QED
    BY <2>1, <2>2 DEF Covered, AtLimit
<1> QED
  BY <1>1, PollIInv, PTL DEF PollSpec, ActiveIsPolled

-----------------------------------------------------------------------------
(* Dashboard: the state of a session.                                        *)

Book == [who : [Place -> Person \cup {NoOne}], off : SUBSET Place, live : Place \cup {0}, ver : Nat]
Refresh == [st : {"asked", "listed", "taken"}, snap : Book]
Action == [op : {"idle", "switch", "best", "disable", "enable", "remove", "add"},
           slot : Place \cup {0}, who : Person \cup {NoOne}, done : BOOLEAN, ok : BOOLEAN]
OnScreen == [kind : {"switch", "watch", "confirm", "form", "output", "auto"},
             op : {"none", "remove", "add", "live"}, slot : Place \cup {0}, who : Person \cup {NoOne}]
AutoFields == [gen : Nat, engine : Nat, threshold : Nat, adjusting : BOOLEAN, entry : Nat, net : BOOLEAN]
Loop == [st : {"top", "tick", "asleep", "gone"}, stop : BOOLEAN, wake : BOOLEAN, dry : BOOLEAN,
         threshold : Nat, used : Nat, gen : Nat]

-----------------------------------------------------------------------------
(* Types, and that the roster's versions only grow.                          *)

Typed ==
  /\ book \in Book /\ shown \in Book /\ act \in Action
  /\ refreshes \subseteq Refresh /\ screens \in Seq(OnScreen)

LEMMA Constants ==
  /\ Unread \in Book /\ Asked \in Refresh /\ Asked.st = "asked" /\ Idle \in Action
  /\ \A s \in Book : s.ver \in Nat
<1>1. Unread \in Book
  BY DEF Unread, Book
<1> QED
  BY <1>1 DEF Asked, Refresh, Idle, Action, Book

LEMMA InitTyped == DashInit => Typed
<1> SUFFICES ASSUME DashInit PROVE Typed
  OBVIOUS
<1>1. book \in Book
  BY DEF DashInit, Book
<1> QED
  BY <1>1, Constants DEF DashInit, Typed

\* The versions are numbered from 1, within the bound.
Numbered == book'.ver \in {book.ver} \cup 1 .. MaxChanges

\* Every change of the roster is a new version of it.
LEMMA ChangeTypes ==
  ASSUME NEW b \in Book, b.ver = book.ver, book \in Book, Change(b)
  PROVE  book' \in Book /\ book.ver <= book'.ver /\ Numbered
  BY DashboardAssumption DEF Change, Book, Numbered

LEMMA EffectTypes ==
  ASSUME book \in Book, act \in Action, NEW b \in Effect(book)
  PROVE  b \in Book /\ b.ver = book.ver
<1> DEFINE n == act.slot
           in == n # 0 /\ book.who[n] # NoOne
<1>1. (n \in Place \cup {0}) /\ (in => n \in Place)
  BY DEF Action
<1>2. CASE act.op = "switch"
  <2>1. Effect(book) = IF in THEN {[book EXCEPT !.live = n]} ELSE {}
    BY <1>2 DEF Effect
  <2>2. b = [book EXCEPT !.live = n] /\ n \in Place
    BY <1>1, <2>1
  <2> QED
    BY <2>2 DEF Book
<1>3. CASE act.op = "best"
  <2>1. \E k \in Place : b = [book EXCEPT !.live = k]
    BY <1>3 DEF Effect
  <2> QED
    BY <2>1 DEF Book
<1>4. CASE act.op = "disable"
  <2>1. Effect(book) = IF in THEN {[book EXCEPT !.off = @ \cup {n}]} ELSE {}
    BY <1>4 DEF Effect
  <2>2. b = [book EXCEPT !.off = @ \cup {n}] /\ n \in Place
    BY <1>1, <2>1
  <2> QED
    BY <2>2 DEF Book
<1>5. CASE act.op = "enable"
  <2>1. Effect(book) = IF in THEN {[book EXCEPT !.off = @ \ {n}]} ELSE {}
    BY <1>5 DEF Effect
  <2>2. b = [book EXCEPT !.off = @ \ {n}] /\ n \in Place
    BY <1>1, <2>1
  <2> QED
    BY <2>2 DEF Book
<1>6. CASE act.op = "remove"
  <2>1. Effect(book) = IF in THEN {[book EXCEPT !.who[n] = NoOne, !.off = @ \ {n}]} ELSE {}
    BY <1>6 DEF Effect
  <2>2. b = [book EXCEPT !.who[n] = NoOne, !.off = @ \ {n}] /\ n \in Place
    BY <1>1, <2>1
  <2> QED
    BY <2>2 DEF Book
<1>7. CASE act.op = "add"
  <2>1. \A k \in (IF n = 0 THEN Place ELSE {n}) : k \in Place
    BY <1>1
  <2>2. \E k \in (IF n = 0 THEN Place ELSE {n}), p \in Person : b = [book EXCEPT !.who[k] = p]
    BY <1>7 DEF Effect
  <2> QED
    BY <2>1, <2>2 DEF Book
<1>8. CASE act.op = "idle"
  BY <1>8 DEF Effect
<1> QED
  BY <1>2, <1>3, <1>4, <1>5, <1>6, <1>7, <1>8 DEF Action

LEMMA StartActionTypes ==
  ASSUME act \in Action, NEW op \in {"switch", "best", "disable", "enable", "remove", "add"},
         NEW n \in Place \cup {0}, NEW who \in Person \cup {NoOne}, StartAction(op, n, who)
  PROVE  act' \in Action
  BY DEF StartAction, Action

\* The screens after a push or a pop.
LEMMA ScreenTypes ==
  ASSUME Typed
  PROVE  /\ \A k \in {"switch", "watch", "confirm", "form", "output", "auto"},
               op \in {"none", "remove", "add", "live"}, n \in Place \cup {0},
               who \in Person \cup {NoOne} :
              Screen(k, op, n, who) \in OnScreen /\ Append(screens, Screen(k, op, n, who)) \in Seq(OnScreen)
         /\ Top.kind # "dashboard" =>
              Len(screens) > 0 /\ Top \in OnScreen /\ Popped \in Seq(OnScreen)
         /\ Top.kind = "dashboard" => screens = <<>>
<1>1. ASSUME NEW k \in {"switch", "watch", "confirm", "form", "output", "auto"},
             NEW op \in {"none", "remove", "add", "live"}, NEW n \in Place \cup {0},
             NEW who \in Person \cup {NoOne}
      PROVE  Screen(k, op, n, who) \in OnScreen
  BY DEF Screen, OnScreen
<1>2. ASSUME screens # <<>> PROVE Len(screens) > 0 /\ Top \in OnScreen /\ Popped \in Seq(OnScreen)
  BY <1>2 DEF Typed, Top, Popped
<1>3. screens = <<>> => Top.kind = "dashboard"
  BY DEF Top, Screen
<1>4. \A s \in OnScreen : s.kind # "dashboard"
  BY DEF OnScreen
<1> QED
  BY <1>1, <1>2, <1>3, <1>4 DEF Typed

\* The roster changes only through an action, another process or an engine's switch.
LEMMA BookForward ==
  ASSUME Typed, [DashNext]_dashVars
  PROVE  book' \in Book /\ book.ver <= book'.ver /\ Numbered
<1>1. book \in Book /\ act \in Action /\ book.ver \in Nat
  BY Constants DEF Typed
<1>2. ASSUME UNCHANGED book PROVE book' \in Book /\ book.ver <= book'.ver /\ Numbered
  BY <1>1, <1>2 DEF Numbered
<1>3. ASSUME NEW b \in Effect(book), Change(b) PROVE book' \in Book /\ book.ver <= book'.ver /\ Numbered
  BY <1>1, <1>3, EffectTypes, ChangeTypes
<1>4. ASSUME NEW n \in Place, Change([book EXCEPT !.live = n])
      PROVE  book' \in Book /\ book.ver <= book'.ver /\ Numbered
  <2>1. [book EXCEPT !.live = n] \in Book /\ [book EXCEPT !.live = n].ver = book.ver
    BY <1>1 DEF Book
  <2> QED
    BY <1>1, <1>4, <2>1, ChangeTypes
<1>5. ASSUME NEW n \in Place, NEW p \in Person \cup {NoOne},
             Change([book EXCEPT !.who[n] = p, !.off = @ \ {n}])
      PROVE  book' \in Book /\ book.ver <= book'.ver /\ Numbered
  <2> DEFINE b == [book EXCEPT !.who[n] = p, !.off = @ \ {n}]
  <2>1. b \in Book /\ b.ver = book.ver
    BY <1>1 DEF Book
  <2>2. Change(b)
    BY <1>5
  <2> HIDE DEF b
  <2> QED
    BY <1>1, <2>1, <2>2, ChangeTypes
<1>6. ASSUME \E e \in DOMAIN engines : LoopTick(e) PROVE book' \in Book /\ book.ver <= book'.ver /\ Numbered
  BY <1>2, <1>4, <1>6 DEF LoopTick
<1> QED
  BY <1>2, <1>3, <1>5, <1>6 DEF DashNext, dashVars, PollTick, BuildAccountsInfo, TakeSnapshot, ApplySnapshot,
     RunAction, ActionDone, Elsewhere, LoopTop, LoopWakes, EngineEvent, OpenMenu, OpenScreen,
     ChooseRemove, ChooseDisable, ChooseSwitch, ChooseAdd, ChooseBest, Confirm, Back, SubmitForm,
     OpenAuto, StepThreshold, BeginAdjust, EndAdjust, ToggleLive, CloseAuto

\* An action is started from a key, runs and ends.
LEMMA ActionTyped ==
  ASSUME Typed, [DashNext]_dashVars
  PROVE  act' \in Action
<1>1. act \in Action /\ Idle \in Action /\ Numbers \subseteq Place
  BY Constants DEF Typed, Numbers
<1>2. CASE RunAction \/ ActionDone
  BY <1>1, <1>2 DEF RunAction, ActionDone, Action
<1>3. ASSUME NEW n \in Place, ChooseDisable(n) \/ ChooseSwitch(n) \/ SubmitForm(n)
      PROVE  act' \in Action
  BY <1>1, <1>3, StartActionTypes DEF ChooseDisable, ChooseSwitch, SubmitForm
<1>4. CASE ChooseBest
  BY <1>1, <1>4, StartActionTypes DEF ChooseBest
<1>5. CASE Confirm
  <2>1. Top \in OnScreen
    BY <1>5, ScreenTypes DEF Confirm
  <2>2. Top.slot \in Place \cup {0} /\ Top.who \in Person \cup {NoOne}
    BY <2>1 DEF OnScreen
  <2> QED
    BY <1>1, <1>5, <2>2, StartActionTypes DEF Confirm
<1> QED
  BY <1>1, <1>2, <1>3, <1>4, <1>5 DEF DashNext, dashVars, PollTick, BuildAccountsInfo, TakeSnapshot,
     ApplySnapshot, Elsewhere, LoopTop, LoopTick, LoopWakes, EngineEvent, OpenMenu, OpenScreen,
     ChooseRemove, ChooseAdd, Back, OpenAuto, StepThreshold, BeginAdjust, EndAdjust, ToggleLive,
     CloseAuto

-----------------------------------------------------------------------------
(* The stack of screens.                                                     *)

\* The auto screen is only ever the first above the dashboard, and a confirmation to
\* go live only above it.
StackOK ==
  /\ \A i \in DOMAIN screens : screens[i].kind = "auto" => i = 1
  /\ \A i \in DOMAIN screens : screens[i].op = "live" => i # 1 /\ screens[1].kind = "auto"

LEMMA MountedFirst ==
  ASSUME Typed, StackOK
  PROVE  Mounted <=> Len(screens) > 0 /\ screens[1].kind = "auto"
  BY DEF Typed, StackOK, Mounted

\* A screen that is neither the auto screen nor asks to go live is pushed; a
\* confirmation to go live is pushed on the auto screen.
LEMMA PushKeepsStack ==
  ASSUME Typed, StackOK, NEW s \in OnScreen, screens' = Append(screens, s), s.kind # "auto",
         s.op = "live" => Mounted
  PROVE  screens' \in Seq(OnScreen) /\ StackOK' /\ (Mounted' <=> Mounted)
<1>1. /\ screens \in Seq(OnScreen) /\ screens' \in Seq(OnScreen) /\ Len(screens') = Len(screens) + 1
      /\ \A i \in DOMAIN screens : screens'[i] = screens[i]
      /\ screens'[Len(screens) + 1] = s /\ DOMAIN screens' = 1 .. Len(screens) + 1
      /\ DOMAIN screens = 1 .. Len(screens) /\ Len(screens) \in Nat
  BY DEF Typed
<1>2. Mounted => Len(screens) > 0 /\ screens[1].kind = "auto"
  BY MountedFirst
<1>3. StackOK'
  <2>1. \A i \in DOMAIN screens' : i \in DOMAIN screens \/ i = Len(screens) + 1
    BY <1>1
  <2> QED
    BY <1>1, <1>2, <2>1 DEF StackOK
<1>4. Mounted' <=> Mounted
  BY <1>1 DEF Mounted
<1> QED
  BY <1>1, <1>3, <1>4

\* What is left when a screen is popped.
LEMMA PoppedFacts ==
  ASSUME Typed, Len(screens) > 0
  PROVE  /\ Popped \in Seq(OnScreen) /\ Len(Popped) = Len(screens) - 1
         /\ DOMAIN Popped = 1 .. Len(screens) - 1
         /\ \A i \in 1 .. Len(screens) - 1 : Popped[i] = screens[i]
<1> DEFINE n == Len(screens) - 1
<1>1. n \in Nat /\ \A i \in 1 .. n : screens[i] \in OnScreen
  BY DEF Typed
<1> HIDE DEF n
<1>2. /\ SubSeq(screens, 1, n) \in Seq(OnScreen)
      /\ Len(SubSeq(screens, 1, n)) = IF 1 <= n THEN n - 1 + 1 ELSE 0
      /\ \A i \in 1 .. n - 1 + 1 : SubSeq(screens, 1, n)[i] = screens[1 + i - 1]
  BY <1>1, SubSeqProperties
<1>3. Popped = SubSeq(screens, 1, n)
  BY DEF Popped, n
<1>4. /\ n - 1 + 1 = n /\ (~(1 <= n) => n = 0) /\ \A i \in 1 .. n : 1 + i - 1 = i
  BY <1>1
<1>5. Popped \in Seq(OnScreen) /\ Len(Popped) = n /\ \A i \in 1 .. n : Popped[i] = screens[i]
  BY <1>2, <1>3, <1>4
<1>6. DOMAIN Popped = 1 .. Len(Popped)
  BY <1>5
<1> QED
  BY <1>5, <1>6 DEF n

\* A screen other than the auto screen is popped.
LEMMA PopKeepsStack ==
  ASSUME Typed, StackOK, Top.kind \notin {"auto", "dashboard"}, screens' = Popped
  PROVE  screens' \in Seq(OnScreen) /\ StackOK' /\ (Mounted' <=> Mounted)
<1>1. Len(screens) > 0 /\ screens' \in Seq(OnScreen) /\ Top = screens[Len(screens)]
  BY ScreenTypes DEF Top
<1>2. /\ screens \in Seq(OnScreen) /\ Len(screens) \in Nat /\ Len(screens') = Len(screens) - 1
      /\ DOMAIN screens = 1 .. Len(screens) /\ DOMAIN screens' = 1 .. Len(screens) - 1
      /\ \A i \in DOMAIN screens' : screens'[i] = screens[i]
  BY <1>1, PoppedFacts DEF Typed
<1>3. StackOK'
  BY <1>2 DEF StackOK
<1>4. Mounted' => Mounted
  BY <1>2 DEF Mounted
<1>5. Mounted => Mounted'
  <2> SUFFICES ASSUME Mounted PROVE Mounted'
    OBVIOUS
  <2>1. screens[1].kind = "auto"
    BY MountedFirst
  <2>2. Len(screens) # 1
    BY <1>1, <2>1
  <2>3. 1 \in DOMAIN screens'
    BY <1>1, <1>2, <2>2
  <2> QED
    BY <1>2, <2>1, <2>3 DEF Mounted
<1> QED
  BY <1>1, <1>3, <1>4, <1>5

\* Leaving the form for a confirmation.
LEMMA ReplaceKeepsStack ==
  ASSUME Typed, StackOK, Top.kind \notin {"auto", "dashboard"}, NEW s \in OnScreen,
         s.kind # "auto", s.op # "live", screens' = Append(Popped, s)
  PROVE  screens' \in Seq(OnScreen) /\ StackOK' /\ (Mounted' <=> Mounted)
<1>1. Len(screens) > 0 /\ Popped \in Seq(OnScreen) /\ Top = screens[Len(screens)]
  BY ScreenTypes DEF Top
<1>2. /\ screens \in Seq(OnScreen) /\ Len(screens) \in Nat /\ Len(Popped) = Len(screens) - 1
      /\ DOMAIN screens = 1 .. Len(screens)
      /\ \A i \in 1 .. Len(screens) - 1 : Popped[i] = screens[i]
  BY <1>1, PoppedFacts DEF Typed
<1>3. /\ screens' \in Seq(OnScreen) /\ DOMAIN screens' = 1 .. Len(screens)
      /\ \A i \in 1 .. Len(screens) - 1 : screens'[i] = screens[i]
      /\ screens'[Len(screens)] = s
  <2> HIDE DEF Popped
  <2> QED
    BY <1>1, <1>2
<1>4. \A i \in DOMAIN screens : i # Len(screens) => i \in 1 .. Len(screens) - 1
  BY <1>2
<1>5. StackOK'
  BY <1>2, <1>3, <1>4 DEF StackOK
<1>6. Mounted' => Mounted
  BY <1>2, <1>3, <1>4 DEF Mounted
<1>7. Mounted => Mounted'
  BY <1>1, <1>2, <1>3, <1>4 DEF Mounted
<1> QED
  BY <1>3, <1>5, <1>6, <1>7

\* Opening the auto screen, and closing it.
LEMMA OpenAndClose ==
  ASSUME Typed, StackOK
  PROVE  /\ \A l : OpenAuto(l) => screens' \in Seq(OnScreen) /\ StackOK' /\ ~Mounted /\ Mounted'
         /\ CloseAuto => screens' \in Seq(OnScreen) /\ StackOK' /\ Mounted /\ ~Mounted'
<1>1. ASSUME NEW l, OpenAuto(l)
      PROVE  screens' \in Seq(OnScreen) /\ StackOK' /\ ~Mounted /\ Mounted'
  <2> DEFINE s == Screen("auto", "none", 0, NoOne)
  <2>1. s \in OnScreen /\ s.kind = "auto" /\ s.op = "none"
    BY DEF Screen, OnScreen
  <2>2. screens = <<>> /\ screens' = Append(screens, s)
    BY <1>1, ScreenTypes DEF OpenAuto, Here, Push
  <2> HIDE DEF s
  <2>3. screens' = <<s>>
    BY <2>2
  <2> QED
    BY <2>1, <2>2, <2>3 DEF StackOK, Mounted
<1>2. ASSUME CloseAuto PROVE screens' \in Seq(OnScreen) /\ StackOK' /\ Mounted /\ ~Mounted'
  <2>1. Top.kind = "auto" /\ screens' = Popped
    BY <1>2 DEF CloseAuto, Here
  <2>2. Len(screens) > 0 /\ Top = screens[Len(screens)] /\ Len(screens) \in DOMAIN screens
    BY <2>1, ScreenTypes DEF Top, Typed
  <2>3. Len(screens) = 1 /\ Mounted
    BY <2>1, <2>2 DEF StackOK, Mounted
  <2>4. screens' = <<>>
    BY <2>1, <2>3 DEF Popped, Typed
  <2> QED
    BY <2>3, <2>4 DEF StackOK, Mounted
<1> QED
  BY <1>1, <1>2

\* No other step mounts or unmounts the auto screen.
LEMMA StackStep ==
  ASSUME Typed, StackOK, [DashNext]_dashVars, ~(\E l \in Levels : OpenAuto(l)), ~CloseAuto
  PROVE  screens' \in Seq(OnScreen) /\ StackOK' /\ (Mounted' <=> Mounted)
<1> DEFINE Stack == screens' \in Seq(OnScreen) /\ StackOK' /\ (Mounted' <=> Mounted)
<1>1. ASSUME UNCHANGED screens PROVE Stack
  BY <1>1 DEF Typed, StackOK, Mounted
<1>2. /\ \A k \in {"switch", "watch"} : Screen(k, "none", 0, NoOne) \in OnScreen
      /\ \A k \in {"switch", "watch"} : Screen(k, "none", 0, NoOne).kind = k
      /\ \A k \in {"switch", "watch"} : Screen(k, "none", 0, NoOne).op = "none"
      /\ Screen("output", "none", 0, NoOne) \in OnScreen
      /\ Screen("output", "none", 0, NoOne).kind = "output"
      /\ Screen("output", "none", 0, NoOne).op = "none"
      /\ Screen("form", "none", 0, NoOne) \in OnScreen
      /\ Screen("form", "none", 0, NoOne).kind = "form"
      /\ Screen("form", "none", 0, NoOne).op = "none"
      /\ Screen("confirm", "live", 0, NoOne) \in OnScreen
      /\ Screen("confirm", "live", 0, NoOne).kind = "confirm"
  BY DEF Screen, OnScreen
<1>3. \A n \in Place \cup {0} : /\ Screen("confirm", "add", n, NoOne) \in OnScreen
                                /\ Screen("confirm", "add", n, NoOne).kind = "confirm"
                                /\ Screen("confirm", "add", n, NoOne).op = "add"
  BY DEF Screen, OnScreen
<1>4. ASSUME NEW n \in Place, ChooseRemove(n) PROVE Stack
  <2> DEFINE s == Screen("confirm", "remove", n, shown.who[n])
  <2>1. s \in OnScreen /\ s.kind = "confirm" /\ s.op = "remove"
    BY DEF Screen, OnScreen, Typed, Book
  <2>2. screens' = Append(screens, s)
    BY <1>4 DEF ChooseRemove, Push
  <2> HIDE DEF s
  <2> QED
    BY <2>1, <2>2, PushKeepsStack
<1>5. ASSUME ActionDone PROVE Stack
  BY <1>1, <1>2, <1>5, PushKeepsStack DEF ActionDone
<1>6. ASSUME NEW k \in {"switch", "watch"}, OpenScreen(k) PROVE Stack
  BY <1>2, <1>6, PushKeepsStack DEF OpenScreen, Push
<1>7. ASSUME ChooseAdd PROVE Stack
  BY <1>2, <1>3, <1>7, PushKeepsStack DEF ChooseAdd, Push
<1>8. ASSUME ToggleLive PROVE Stack
  <2>1. Mounted
    <3>1. Top.kind = "auto"
      BY <1>8 DEF ToggleLive, Here
    <3>2. Len(screens) > 0 /\ Top = screens[Len(screens)] /\ Len(screens) \in DOMAIN screens
      BY <3>1, ScreenTypes DEF Top, Typed
    <3> QED
      BY <3>1, <3>2 DEF Mounted
  <2> QED
    BY <1>1, <1>2, <1>8, <2>1, PushKeepsStack DEF ToggleLive, Push
<1>9. ASSUME NEW n \in Place, ChooseSwitch(n) PROVE Stack
  BY <1>1, <1>9, PopKeepsStack DEF ChooseSwitch, Here
<1>10. ASSUME NEW n \in Place, SubmitForm(n) PROVE Stack
  BY <1>3, <1>10, PopKeepsStack, ReplaceKeepsStack DEF SubmitForm, Here
<1>11. ASSUME Confirm \/ Back PROVE Stack
  BY <1>1, <1>11, PopKeepsStack DEF Confirm, Back
<1> HIDE DEF Stack
<1>12. Stack
  BY <1>1, <1>4, <1>5, <1>6, <1>7, <1>8, <1>9, <1>10, <1>11 DEF DashNext, dashVars, PollTick,
     RunAction, ChooseBest, BeginAdjust, EndAdjust, BuildAccountsInfo, TakeSnapshot, ApplySnapshot,
     Elsewhere, LoopTop, LoopTick, LoopWakes, EngineEvent, OpenMenu, ChooseDisable, StepThreshold
<1> QED
  BY <1>12 DEF Stack

-----------------------------------------------------------------------------
(* Snapshots.                                                                *)

\* One pass at a time; what it read is no older than what is shown.
PassInOrder ==
  /\ \A r, q \in refreshes : r = q
  /\ shown.ver <= book.ver
  /\ \A r \in refreshes : r.st # "asked" => shown.ver <= r.snap.ver /\ r.snap.ver <= book.ver

\* The pass's own steps.
LEMMA PassSteps ==
  ASSUME Typed, PassInOrder, NEW r \in refreshes,
         BuildAccountsInfo(r) \/ TakeSnapshot(r) \/ ApplySnapshot(r)
  PROVE  refreshes' \subseteq Refresh /\ shown' \in Book /\ PassInOrder' /\ shown.ver <= shown'.ver
<1>1. /\ book \in Book /\ shown \in Book /\ r \in Refresh /\ r.snap \in Book /\ refreshes = {r}
      /\ UNCHANGED book /\ shown.ver \in Nat /\ book.ver \in Nat
  BY DEF Typed, PassInOrder, Refresh, Book, BuildAccountsInfo, TakeSnapshot, ApplySnapshot
<1>2. CASE BuildAccountsInfo(r)
  <2> DEFINE s == [book EXCEPT !.off = {}]
             q == [st |-> "listed", snap |-> s]
  <2>1. s \in Book /\ s.ver = book.ver
    BY <1>1 DEF Book
  <2>2. refreshes' = {q} /\ shown' = shown
    BY <1>1, <1>2 DEF BuildAccountsInfo
  <2> HIDE DEF s
  <2>3. q \in Refresh /\ q.snap.ver = book.ver
    BY <2>1 DEF Refresh
  <2> HIDE DEF q
  <2> QED
    BY <1>1, <2>2, <2>3 DEF PassInOrder
<1>3. CASE TakeSnapshot(r)
  <2> DEFINE s == [r.snap EXCEPT !.off = book.off]
             q == [st |-> "taken", snap |-> s]
  <2>1. s \in Book /\ s.ver = r.snap.ver
    BY <1>1 DEF Book
  <2>2. refreshes' = {q} /\ shown' = shown /\ r.st = "listed"
    BY <1>1, <1>3 DEF TakeSnapshot
  <2> HIDE DEF s
  <2>3. q \in Refresh /\ q.snap.ver = r.snap.ver
    BY <2>1 DEF Refresh
  <2> HIDE DEF q
  <2> QED
    BY <1>1, <2>2, <2>3 DEF PassInOrder
<1>4. CASE ApplySnapshot(r)
  BY <1>1, <1>4 DEF ApplySnapshot, PassInOrder
<1> QED
  BY <1>2, <1>3, <1>4

\* Every step keeps the passes in order; a request while one is under way is dropped.
LEMMA SnapshotStep ==
  ASSUME Typed, PassInOrder, [DashNext]_dashVars
  PROVE  refreshes' \subseteq Refresh /\ shown' \in Book /\ PassInOrder' /\ shown.ver <= shown'.ver
<1> DEFINE Good == refreshes' \subseteq Refresh /\ shown' \in Book /\ PassInOrder' /\ shown.ver <= shown'.ver
<1>1. ASSUME TickRefresh \/ UNCHANGED refreshes, UNCHANGED shown PROVE Good
  <2>1. book' \in Book /\ book.ver <= book'.ver /\ book \in Book /\ shown \in Book
    BY BookForward DEF Typed
  <2>2. /\ refreshes' \subseteq Refresh /\ \A r, q \in refreshes' : r = q
        /\ \A r \in refreshes' : r.st # "asked" => r \in refreshes
    BY <1>1, Constants DEF Typed, PassInOrder, TickRefresh
  <2>3. \A r \in Refresh : r.snap.ver \in Nat
    BY Constants DEF Refresh
  <2>4. book.ver \in Nat /\ book'.ver \in Nat /\ shown.ver \in Nat
    BY <2>1, Constants
  <2> QED
    BY <1>1, <2>1, <2>2, <2>3, <2>4 DEF PassInOrder, Typed
<1>2. ASSUME NEW r \in refreshes, BuildAccountsInfo(r) \/ TakeSnapshot(r) \/ ApplySnapshot(r)
      PROVE  Good
  BY <1>2, PassSteps
<1> HIDE DEF Good
<1>3. Good
  BY <1>1, <1>2 DEF DashNext, dashVars, PollTick, RunAction, ActionDone, Elsewhere, LoopTop, LoopTick,
     LoopWakes, EngineEvent, OpenMenu, OpenScreen, ChooseRemove, ChooseDisable, ChooseSwitch,
     ChooseAdd, ChooseBest, Confirm, Back, SubmitForm, OpenAuto, StepThreshold, BeginAdjust,
     EndAdjust, ToggleLive, CloseAuto
<1> QED
  BY <1>3 DEF Good

LEMMA ShownIInv == DashSpec => [](Typed /\ StackOK /\ PassInOrder)
<1>1. DashInit => Typed /\ StackOK /\ PassInOrder
  <2> SUFFICES ASSUME DashInit PROVE Typed /\ StackOK /\ PassInOrder
    OBVIOUS
  <2>1. book.ver = 1 /\ Unread.ver = 0
    BY DEF DashInit, Unread
  <2> QED
    BY <2>1, InitTyped, Constants DEF DashInit, StackOK, PassInOrder
<1>2. Typed /\ StackOK /\ PassInOrder /\ [DashNext]_dashVars => Typed' /\ StackOK' /\ PassInOrder'
  <2> SUFFICES ASSUME Typed, StackOK, PassInOrder, [DashNext]_dashVars PROVE Typed' /\ StackOK' /\ PassInOrder'
    OBVIOUS
  <2>1. screens' \in Seq(OnScreen) /\ StackOK'
    BY StackStep, OpenAndClose
  <2> QED
    BY <2>1, BookForward, ActionTyped, SnapshotStep DEF Typed
<1> QED
  BY <1>1, <1>2, PTL DEF DashSpec

\* What is on screen never goes back in time, however many passes are asked for and
\* whatever changes the roster meanwhile.
THEOREM ShownMovesForward == DashSpec => SnapshotsInOrder
<1>1. Typed /\ PassInOrder /\ [DashNext]_dashVars => [shown'.ver >= shown.ver]_dashVars
  <2> SUFFICES ASSUME Typed, PassInOrder, [DashNext]_dashVars PROVE shown'.ver >= shown.ver
    OBVIOUS
  <2>1. shown.ver <= shown'.ver /\ shown \in Book /\ shown' \in Book
    BY SnapshotStep DEF Typed
  <2> QED
    BY <2>1, Constants
<1> QED
  BY <1>1, ShownIInv, PTL DEF DashSpec, SnapshotsInOrder

-----------------------------------------------------------------------------
(* The engines of the auto screen.                                           *)

\* The mounted screen's engine runs on its threshold, every other engine has been told
\* to stop, and an ended adjustment was seen or is still to be seen.
EnginesOK ==
  /\ auto \in AutoFields /\ engines \in Seq(Loop)
  /\ Mounted => auto.engine \in DOMAIN engines
  /\ ~Mounted => auto.engine = 0
  /\ OneEngine
  /\ \A e \in DOMAIN engines :
       /\ Mounted /\ e = auto.engine
       /\ engines[e].st \in {"tick", "asleep"} /\ ~engines[e].wake /\ ~auto.adjusting /\ auto.net
       => engines[e].used = engines[e].threshold

LEMMA InitEngines == DashInit => EnginesOK
<1> SUFFICES ASSUME DashInit PROVE EnginesOK
  OBVIOUS
<1>1. auto \in AutoFields /\ auto.engine = 0 /\ ~Mounted /\ engines = <<>>
  BY DEF DashInit, NoAuto, AutoFields, Mounted
<1> QED
  BY <1>1 DEF EnginesOK, OneEngine

\* A new engine is started over engines of which none but the old one is going on,
\* and the old one is told to stop.
LEMMA StartStep ==
  ASSUME NEW a \in AutoFields, NEW es \in Seq(Loop), NEW dry \in BOOLEAN, StartEngine(a, es, dry), Mounted',
         \A e \in DOMAIN es : es[e].stop
  PROVE  EnginesOK'
<1> DEFINE n == Len(es) + 1
           new == [st |-> "top", stop |-> FALSE, wake |-> FALSE, dry |-> dry,
                   threshold |-> a.threshold, used |-> a.threshold, gen |-> a.gen + 1]
<1>1. new \in Loop /\ new.st = "top"
  BY DEF AutoFields, Loop
<1>2. n \in Nat /\ a.gen + 1 \in Nat
  BY DEF AutoFields
<1>3. auto' \in AutoFields /\ auto'.engine = n
  BY <1>2 DEF StartEngine, AutoFields
<1>4. engines' = Append(es, new)
  BY DEF StartEngine
<1> HIDE DEF new
<1>5. /\ engines' \in Seq(Loop) /\ DOMAIN engines' = 1 .. n /\ engines'[n] = new
      /\ \A e \in DOMAIN es : engines'[e] = es[e]
      /\ \A e \in 1 .. n : e = n \/ e \in DOMAIN es
  BY <1>1, <1>4
<1> QED
  BY <1>1, <1>2, <1>3, <1>5 DEF EnginesOK, OneEngine

\* The mounted screen's engine is told to stop: then all have been.
LEMMA AllStopped ==
  ASSUME EnginesOK
  PROVE  /\ StoppedOf(engines, auto.engine) \in Seq(Loop)
         /\ \A e \in DOMAIN StoppedOf(engines, auto.engine) : StoppedOf(engines, auto.engine)[e].stop
         /\ ~Mounted => \A e \in DOMAIN engines : engines[e].stop
<1> DEFINE k == auto.engine
<1>1. ~Mounted => \A e \in DOMAIN engines : engines[e].stop
  BY DEF EnginesOK, OneEngine
<1>2. CASE k = 0
  <2>1. ~Mounted
    BY <1>2 DEF EnginesOK
  <2> QED
    BY <1>1, <1>2, <2>1 DEF EnginesOK, StoppedOf
<1>3. CASE k # 0
  <2>1. k \in DOMAIN engines /\ engines \in Seq(Loop) /\ StoppedOf(engines, k) = Told(engines, k)
    BY <1>3 DEF EnginesOK, StoppedOf
  <2> DEFINE n == [engines[k] EXCEPT !.stop = TRUE, !.wake = TRUE]
  <2>2. engines[k] \in Loop
    BY <2>1
  <2>3. n \in Loop /\ n.stop
    BY <2>2 DEF Loop
  <2>4. Told(engines, k) = [engines EXCEPT ![k] = n]
    BY <2>1, <2>2 DEF Told, Loop
  <2> HIDE DEF n, k
  <2>5. /\ Told(engines, k) \in Seq(Loop) /\ DOMAIN Told(engines, k) = DOMAIN engines
        /\ Told(engines, k)[k] = n /\ \A e \in DOMAIN engines : e # k => Told(engines, k)[e] = engines[e]
    BY <2>1, <2>3, <2>4
  <2>6. \A e \in DOMAIN engines : e # k => engines[e].stop
    BY DEF EnginesOK, OneEngine, k
  <2> QED
    BY <1>1, <2>1, <2>3, <2>5, <2>6 DEF k
<1> QED
  BY <1>2, <1>3

\* One engine moves or is adjusted; the screen's fields change only with its own engine.
LEMMA EngineMoves ==
  ASSUME EnginesOK, NEW e \in DOMAIN engines, NEW n \in Loop, n.stop = engines[e].stop,
         engines' = [engines EXCEPT ![e] = n], Mounted' <=> Mounted,
         auto' \in AutoFields, auto'.engine = auto.engine, auto' = auto \/ e = auto.engine,
         /\ Mounted /\ e = auto.engine
         /\ n.st \in {"tick", "asleep"} /\ ~n.wake /\ ~auto'.adjusting /\ auto'.net
         => n.used = n.threshold
  PROVE  EnginesOK'
<1>1. /\ engines \in Seq(Loop) /\ engines' \in Seq(Loop) /\ DOMAIN engines' = DOMAIN engines
      /\ engines'[e] = n /\ \A d \in DOMAIN engines : d # e => engines'[d] = engines[d]
  BY DEF EnginesOK
<1>2. OneEngine'
  BY <1>1 DEF EnginesOK, OneEngine
<1> QED
  BY <1>1, <1>2 DEF EnginesOK

LEMMA LoopSteps ==
  ASSUME Typed, EnginesOK, NEW e \in DOMAIN engines, LoopTop(e) \/ LoopTick(e) \/ LoopWakes(e)
  PROVE  EnginesOK'
<1> DEFINE l == engines[e]
<1>1. l \in Loop /\ auto \in AutoFields /\ UNCHANGED <<auto, screens>> /\ (Mounted' <=> Mounted)
      /\ engines \in Seq(Loop)
  BY DEF EnginesOK, LoopTop, LoopTick, LoopWakes, Mounted
<1>2. (/\ l.st \in {"tick", "asleep"} /\ ~l.wake /\ ~auto.adjusting /\ auto.net
       /\ Mounted /\ e = auto.engine) => l.used = l.threshold
  BY DEF EnginesOK
<1>3. CASE LoopTop(e)
  <2> DEFINE n == IF l.stop THEN [l EXCEPT !.st = "gone", !.wake = FALSE]
                  ELSE [l EXCEPT !.st = "tick", !.wake = FALSE, !.used = l.threshold]
  <2>1. engines' = [engines EXCEPT ![e] = n]
    BY <1>1, <1>3 DEF LoopTop
  <2>2. n \in Loop /\ n.stop = l.stop /\ (n.st \in {"tick", "asleep"} => n.used = n.threshold)
    BY <1>1 DEF Loop
  <2> HIDE DEF n
  <2> QED
    BY <1>1, <2>1, <2>2, EngineMoves
<1>4. CASE LoopTick(e)
  <2> DEFINE n == [l EXCEPT !.st = "asleep"]
  <2>1. engines' = [engines EXCEPT ![e] = n] /\ l.st = "tick"
    BY <1>1, <1>4 DEF LoopTick
  <2>2. n \in Loop /\ n.stop = l.stop /\ n.used = l.used /\ n.threshold = l.threshold /\ n.wake = l.wake
    BY <1>1 DEF Loop
  <2> HIDE DEF n
  <2> QED
    BY <1>1, <1>2, <2>1, <2>2, EngineMoves
<1>5. CASE LoopWakes(e)
  <2>1. PICK w \in {l.wake, FALSE} : engines' = [engines EXCEPT ![e] = [l EXCEPT !.st = "top", !.wake = w]]
    <3>1. [l EXCEPT !.st = "top"] = [l EXCEPT !.st = "top", !.wake = l.wake]
      BY <1>1 DEF Loop
    <3>2. \/ engines' = [engines EXCEPT ![e] = [l EXCEPT !.st = "top"]]
          \/ engines' = [engines EXCEPT ![e] = [l EXCEPT !.st = "top", !.wake = FALSE]]
      BY <1>5 DEF LoopWakes
    <3> QED
      BY <3>1, <3>2
  <2> DEFINE n == [l EXCEPT !.st = "top", !.wake = w]
  <2>2. n \in Loop /\ n.stop = l.stop /\ n.st = "top"
    BY <1>1 DEF Loop
  <2>3. engines' = [engines EXCEPT ![e] = n]
    BY <2>1
  <2> HIDE DEF n
  <2> QED
    BY <1>1, <2>2, <2>3, EngineMoves
<1> QED
  BY <1>3, <1>4, <1>5

\* The user adjusts the threshold.
LEMMA AdjustSteps ==
  ASSUME Typed, StackOK, EnginesOK,
         BeginAdjust \/ EndAdjust \/ \E l \in Levels : StepThreshold(l)
  PROVE  EnginesOK'
<1> DEFINE k == auto.engine
           l == engines[k]
<1>1. /\ UNCHANGED screens /\ (Mounted' <=> Mounted) /\ Top.kind = "auto"
  BY DEF BeginAdjust, EndAdjust, StepThreshold, Mounted, Here
<1>2. Mounted
  <2>1. Len(screens) > 0 /\ Top = screens[Len(screens)] /\ Len(screens) \in DOMAIN screens
    BY <1>1, ScreenTypes DEF Top, Typed
  <2> QED
    BY <1>1, <2>1 DEF Mounted
<1>3. /\ auto \in AutoFields /\ k \in DOMAIN engines /\ l \in Loop /\ engines \in Seq(Loop)
      /\ engines = [engines EXCEPT ![k] = l]
  BY <1>2 DEF EnginesOK
<1>4. CASE BeginAdjust
  <2>1. auto' \in AutoFields /\ auto'.engine = k /\ auto'.adjusting
    BY <1>3, <1>4 DEF BeginAdjust, AutoFields
  <2>2. engines' = [engines EXCEPT ![k] = l]
    BY <1>3, <1>4 DEF BeginAdjust
  <2> QED
    BY <1>1, <1>3, <2>1, <2>2, EngineMoves
<1>5. CASE EndAdjust
  <2>1. /\ auto' \in AutoFields /\ auto'.engine = k /\ auto'.net = (auto.threshold # auto.entry)
    BY <1>3, <1>5 DEF EndAdjust, Adjusted, AutoFields
  <2>2. CASE auto.threshold = auto.entry
    <3>1. engines' = [engines EXCEPT ![k] = l]
      BY <1>3, <1>5, <2>2 DEF EndAdjust
    <3> QED
      BY <1>1, <1>3, <2>1, <2>2, <3>1, EngineMoves
  <2>3. CASE auto.threshold # auto.entry
    <3> DEFINE n == [l EXCEPT !.wake = TRUE]
    <3>1. n \in Loop /\ n.stop = l.stop /\ n.wake
      BY <1>3 DEF Loop
    <3>2. engines' = [engines EXCEPT ![k] = n]
      BY <1>3, <1>5, <2>3 DEF EndAdjust
    <3> HIDE DEF n
    <3> QED
      BY <1>1, <1>3, <2>1, <3>1, <3>2, EngineMoves
  <2> QED
    BY <2>2, <2>3
<1>6. ASSUME NEW v \in Levels, StepThreshold(v) PROVE EnginesOK'
  <2> DEFINE n == [l EXCEPT !.threshold = v]
  <2>1. v \in Nat
    BY DashboardAssumption
  <2>2. auto' \in AutoFields /\ auto'.engine = k /\ auto'.adjusting
    BY <1>3, <1>6, <2>1 DEF StepThreshold, AutoFields
  <2>3. n \in Loop /\ n.stop = l.stop
    BY <1>3, <2>1 DEF Loop
  <2>4. engines' = [engines EXCEPT ![k] = n]
    BY <1>3, <1>6 DEF StepThreshold
  <2> HIDE DEF n
  <2> QED
    BY <1>1, <1>3, <2>2, <2>3, <2>4, EngineMoves
<1> QED
  BY <1>4, <1>5, <1>6

LEMMA EnginesStep ==
  ASSUME Typed, StackOK, EnginesOK, [DashNext]_dashVars
  PROVE  EnginesOK'
<1>1. ASSUME UNCHANGED <<auto, engines>>, Mounted' <=> Mounted PROVE EnginesOK'
  BY <1>1 DEF EnginesOK, OneEngine
<1>2. ~(\E l \in Levels : OpenAuto(l)) /\ ~CloseAuto => (Mounted' <=> Mounted)
  BY StackStep
<1>3. ASSUME NEW e \in DOMAIN engines, LoopTop(e) \/ LoopTick(e) \/ LoopWakes(e) PROVE EnginesOK'
  BY <1>3, LoopSteps
<1>4. ASSUME BeginAdjust \/ EndAdjust \/ \E l \in Levels : StepThreshold(l) PROVE EnginesOK'
  BY <1>4, AdjustSteps
<1>5. ASSUME NEW v \in Levels, OpenAuto(v) PROVE EnginesOK'
  <2> DEFINE a == [NoAuto EXCEPT !.threshold = v]
  <2>1. a \in AutoFields
    BY DashboardAssumption DEF NoAuto, AutoFields
  <2>2. ~Mounted /\ Mounted' /\ StartEngine(a, engines, TRUE)
    BY <1>5, OpenAndClose DEF OpenAuto
  <2>3. engines \in Seq(Loop) /\ \A e \in DOMAIN engines : engines[e].stop
    BY <2>2, AllStopped DEF EnginesOK
  <2> HIDE DEF a
  <2> QED
    BY <2>1, <2>2, <2>3, StartStep
<1>6. ASSUME CloseAuto PROVE EnginesOK'
  <2>1. ~Mounted' /\ engines' = StoppedOf(engines, auto.engine) /\ auto' = NoAuto
    BY <1>6, OpenAndClose DEF CloseAuto
  <2>2. NoAuto \in AutoFields /\ NoAuto.engine = 0
    BY DEF NoAuto, AutoFields
  <2> QED
    BY <2>1, <2>2, AllStopped DEF EnginesOK, OneEngine
<1>7. ASSUME NEW dry \in BOOLEAN, RestartEngine(dry), Mounted' PROVE EnginesOK'
  BY <1>7, AllStopped, StartStep DEF RestartEngine, EnginesOK
<1>8. ASSUME ToggleLive PROVE EnginesOK'
  <2>1. Top.kind = "auto" /\ ~(\E l \in Levels : OpenAuto(l))
    BY <1>8 DEF ToggleLive, OpenAuto, Here
  <2>2. CASE UNCHANGED <<auto, engines>>
    BY <1>1, <1>2, <1>6, <2>1, <2>2
  <2>3. CASE RestartEngine(TRUE) /\ UNCHANGED screens
    <3>1. Len(screens) > 0 /\ Top = screens[Len(screens)] /\ Len(screens) \in DOMAIN screens
      BY <2>1, ScreenTypes DEF Top, Typed
    <3>2. Mounted'
      BY <2>1, <2>3, <3>1 DEF Mounted
    <3> QED
      BY <1>7, <2>3, <3>2
  <2> QED
    BY <1>8, <2>2, <2>3 DEF ToggleLive
<1>9. ASSUME Confirm PROVE EnginesOK'
  <2>1. Top.kind = "confirm" /\ screens' = Popped
    BY <1>9 DEF Confirm
  <2>2. Mounted' <=> Mounted
    BY <2>1, PopKeepsStack
  <2>3. CASE UNCHANGED <<auto, engines>>
    BY <1>1, <2>2, <2>3
  <2>4. CASE Top.op = "live" /\ RestartEngine(FALSE)
    <3>1. Len(screens) > 0 /\ Top = screens[Len(screens)] /\ Len(screens) \in DOMAIN screens
      BY <2>1, ScreenTypes DEF Top, Typed
    <3>2. Mounted
      BY <2>4, <3>1, MountedFirst DEF StackOK
    <3> QED
      BY <1>7, <2>2, <2>4, <3>2
  <2> QED
    BY <1>9, <2>3, <2>4 DEF Confirm
<1>10. ASSUME UNCHANGED <<auto, engines>>, ~(\E l \in Levels : OpenAuto(l)), ~CloseAuto
       PROVE  EnginesOK'
  BY <1>1, <1>2, <1>10
<1> QED
  BY <1>3, <1>4, <1>5, <1>6, <1>8, <1>9, <1>10 DEF DashNext, dashVars, PollTick, BuildAccountsInfo,
     TakeSnapshot, ApplySnapshot, RunAction, ActionDone, Elsewhere, EngineEvent, OpenMenu, OpenScreen,
     ChooseRemove, ChooseDisable, ChooseSwitch, ChooseAdd, ChooseBest, Back, SubmitForm

LEMMA EnginesIInv == DashSpec => []EnginesOK
<1>1. Typed /\ StackOK /\ EnginesOK /\ [DashNext]_dashVars => EnginesOK'
  BY EnginesStep
<1> QED
  BY <1>1, InitEngines, ShownIInv, PTL DEF DashSpec

\* However the auto screen is opened, restarted and left, every engine but the mounted
\* screen's has been told to stop.
THEOREM OneEngineOnly == DashSpec => []OneEngine
<1>1. EnginesOK => OneEngine
  BY DEF EnginesOK
<1> QED
  BY <1>1, EnginesIInv, PTL

\* An engine that sleeps with no wake pending has decided on the threshold that is set,
\* once an adjustment that changed it was ended: no adjustment is slept through.
THEOREM ThresholdIsSeen == DashSpec => []ThresholdSeen
<1>1. EnginesOK => ThresholdSeen
  BY DEF EnginesOK, ThresholdSeen
<1> QED
  BY <1>1, EnginesIInv, PTL

\* What the types need beside: the version, an asked pass has read nothing, store-only
\* polling goes with the auto screen, and no engine is started past the bound.
RestOK ==
  /\ book.ver \in 1 .. MaxChanges
  /\ \A r \in refreshes : r.st = "asked" => r = Asked
  /\ storeOnly = Mounted
  /\ Len(engines) <= MaxEngines

LEMMA InitRest == DashInit => RestOK
<1> SUFFICES ASSUME DashInit PROVE RestOK
  OBVIOUS
<1>1. book.ver = 1 /\ refreshes = {Asked} /\ storeOnly = FALSE /\ screens = <<>> /\ engines = <<>>
  BY DEF DashInit
<1>2. Mounted = FALSE
  BY <1>1 DEF Mounted
<1>3. 1 \in 1 .. MaxChanges /\ Len(engines) = 0 /\ MaxEngines \in Nat
  BY <1>1, DashboardAssumption
<1>4. book.ver \in 1 .. MaxChanges /\ Len(engines) <= MaxEngines
  BY <1>1, <1>3
<1>5. \A r \in refreshes : r = Asked
  BY <1>1
<1>6. storeOnly = Mounted
  BY <1>1, <1>2
<1> QED
  BY <1>4, <1>5, <1>6 DEF RestOK

\* Only opening and closing the auto screen change how the dashboard polls.
LEMMA PollingStep ==
  ASSUME Typed, StackOK, storeOnly = Mounted, [DashNext]_dashVars
  PROVE  storeOnly' = Mounted'
<1>1. CASE \E l \in Levels : OpenAuto(l)
  BY <1>1, OpenAndClose DEF OpenAuto
<1>2. CASE CloseAuto
  <2>1. ~Mounted' /\ storeOnly' = FALSE
    BY <1>2, OpenAndClose DEF CloseAuto
  <2> QED
    BY <2>1 DEF Mounted
<1>3. CASE ~(\E l \in Levels : OpenAuto(l)) /\ ~CloseAuto
  <2>1. Mounted' <=> Mounted
    BY <1>3, StackStep
  <2>2. UNCHANGED storeOnly
    BY <1>3 DEF DashNext, dashVars, PollTick, BuildAccountsInfo, TakeSnapshot, ApplySnapshot,
       RunAction, ActionDone, Elsewhere, LoopTop, LoopTick, LoopWakes, EngineEvent, OpenMenu, OpenScreen,
       ChooseRemove, ChooseDisable, ChooseSwitch, ChooseAdd, ChooseBest, Confirm, Back, SubmitForm,
       StepThreshold, BeginAdjust, EndAdjust, ToggleLive
  <2>3. Mounted \in BOOLEAN /\ Mounted' \in BOOLEAN
    BY DEF Mounted
  <2> QED
    BY <2>1, <2>2, <2>3
<1> QED
  BY <1>1, <1>2, <1>3

\* A pass asked for has read nothing yet.
LEMMA AskedStep ==
  ASSUME \A r \in refreshes : r.st = "asked" => r = Asked, [DashNext]_dashVars
  PROVE  \A r \in refreshes' : r.st = "asked" => r = Asked
<1>1. CASE TickRefresh \/ UNCHANGED refreshes
  BY <1>1 DEF TickRefresh
<1>2. ASSUME NEW r \in refreshes, BuildAccountsInfo(r) \/ TakeSnapshot(r) \/ ApplySnapshot(r)
      PROVE  \A q \in refreshes' : q.st = "asked" => q = Asked
  <2>1. \A x : [st |-> "listed", snap |-> x].st # "asked" /\ [st |-> "taken", snap |-> x].st # "asked"
    OBVIOUS
  <2> QED
    BY <1>2, <2>1 DEF BuildAccountsInfo, TakeSnapshot, ApplySnapshot
<1> QED
  BY <1>1, <1>2 DEF DashNext, dashVars, PollTick, RunAction, ActionDone, Elsewhere, LoopTop, LoopTick,
     LoopWakes, EngineEvent, OpenMenu, OpenScreen, ChooseRemove, ChooseDisable, ChooseSwitch,
     ChooseAdd, ChooseBest, Confirm, Back, SubmitForm, OpenAuto, StepThreshold, BeginAdjust,
     EndAdjust, ToggleLive, CloseAuto

\* Engines are only ever added, up to the bound.
LEMMA BoundedEngines ==
  ASSUME EnginesOK, EnginesOK', Len(engines) <= MaxEngines, [DashNext]_dashVars
  PROVE  Len(engines') <= MaxEngines
<1>0. engines \in Seq(Loop) /\ MaxEngines \in Nat /\ Len(engines) \in Nat
  BY DashboardAssumption DEF EnginesOK
<1>1. ASSUME NEW es \in Seq(Loop), NEW a, NEW dry, StartEngine(a, es, dry) PROVE Len(engines') <= MaxEngines
  <2>1. Len(engines') = Len(es) + 1 /\ Len(es) < MaxEngines /\ Len(es) \in Nat
    BY <1>1 DEF StartEngine
  <2> QED
    BY <1>0, <2>1
<1>2. StoppedOf(engines, auto.engine) \in Seq(Loop) /\ Len(StoppedOf(engines, auto.engine)) = Len(engines)
  <2>1. DOMAIN StoppedOf(engines, auto.engine) = DOMAIN engines
    BY DEF StoppedOf, Told
  <2> QED
    BY <1>0, <2>1, AllStopped
<1>3. ASSUME NEW dry, RestartEngine(dry) PROVE Len(engines') <= MaxEngines
  BY <1>1, <1>2, <1>3 DEF RestartEngine
<1>4. ASSUME NEW l, OpenAuto(l) PROVE Len(engines') <= MaxEngines
  BY <1>0, <1>1, <1>4 DEF OpenAuto
<1>5. ASSUME DOMAIN engines' = DOMAIN engines PROVE Len(engines') <= MaxEngines
  <2>1. engines' \in Seq(Loop)
    BY DEF EnginesOK
  <2>2. Len(engines') = Len(engines)
    BY <1>0, <1>5, <2>1
  <2> QED
    BY <1>0, <2>2
<1>6. CASE CloseAuto
  BY <1>0, <1>2, <1>6 DEF CloseAuto
<1>7. ASSUME NEW e, LoopTop(e) \/ LoopTick(e) \/ LoopWakes(e) PROVE DOMAIN engines' = DOMAIN engines
  BY <1>7 DEF LoopTop, LoopTick, LoopWakes
<1>8. ASSUME NEW l, BeginAdjust \/ EndAdjust \/ StepThreshold(l) PROVE DOMAIN engines' = DOMAIN engines
  BY <1>8 DEF BeginAdjust, EndAdjust, StepThreshold
<1>9. CASE UNCHANGED engines
  BY <1>0, <1>9
<1> QED
  BY <1>3, <1>4, <1>5, <1>6, <1>7, <1>8, <1>9 DEF DashNext, dashVars, PollTick, BuildAccountsInfo,
     TakeSnapshot, ApplySnapshot, RunAction, ActionDone, Elsewhere, EngineEvent, OpenMenu, OpenScreen,
     ChooseRemove, ChooseDisable, ChooseSwitch, ChooseAdd, ChooseBest, Confirm, Back, SubmitForm, ToggleLive

LEMMA RestIInv == DashSpec => []RestOK
<1>1. Typed /\ StackOK /\ EnginesOK /\ EnginesOK' /\ RestOK /\ [DashNext]_dashVars => RestOK'
  <2> SUFFICES ASSUME Typed, StackOK, EnginesOK, EnginesOK', RestOK, [DashNext]_dashVars PROVE RestOK'
    OBVIOUS
  <2>1. book'.ver \in 1 .. MaxChanges
    BY BookForward DEF Numbered, RestOK
  <2>2. \A r \in refreshes' : r.st = "asked" => r = Asked
    BY AskedStep DEF RestOK
  <2>3. storeOnly' = Mounted'
    BY PollingStep DEF RestOK
  <2>4. Len(engines') <= MaxEngines
    BY BoundedEngines DEF RestOK
  <2> QED
    BY <2>1, <2>2, <2>3, <2>4 DEF RestOK
<1> QED
  BY <1>1, InitRest, ShownIInv, EnginesIInv, PTL DEF DashSpec

\* THEOREM. The dashboard's state keeps its type: no snapshot is of a version of the roster
\* that does not exist yet, and polling is store-only exactly while the auto screen is
\* mounted, whatever is stacked on it (tui/autoview.go onMount, onExit).
THEOREM DashboardTyped == DashSpec => []DashTypeOK
<1>1. Typed /\ PassInOrder /\ EnginesOK /\ RestOK => DashTypeOK
  <2> SUFFICES ASSUME Typed, PassInOrder, EnginesOK, RestOK PROVE DashTypeOK
    OBVIOUS
  <2>1. /\ book.who \in [Place -> Person \cup {NoOne}] /\ book.off \subseteq Place
        /\ book.live \in Place \cup {0} /\ book.ver \in 1 .. MaxChanges
    BY DEF Typed, Book, RestOK
  <2>2. shown.ver \in 0 .. book.ver
    BY <2>1, Constants DEF Typed, PassInOrder
  <2>3. \A r \in refreshes : r.snap.ver \in 0 .. book.ver
    <3> SUFFICES ASSUME NEW r \in refreshes PROVE r.snap.ver \in 0 .. book.ver
      OBVIOUS
    <3>1. r.snap.ver \in Nat
      BY Constants DEF Typed, Refresh
    <3>2. CASE r.st = "asked"
      <4>1. r.snap.ver = 0
        BY <3>2 DEF RestOK, Asked, Unread
      <4> QED
        BY <2>1, <4>1
    <3>3. CASE r.st # "asked"
      BY <2>1, <3>1, <3>3 DEF PassInOrder
    <3> QED
      BY <3>2, <3>3
  <2>4. /\ act.op \in {"idle", "switch", "best", "disable", "enable", "remove", "add"}
        /\ \A i \in DOMAIN screens : screens[i].kind \in {"switch", "watch", "confirm", "form", "output", "auto"}
    <3>1. \A i \in DOMAIN screens : screens[i] \in OnScreen
      BY DEF Typed
    <3> QED
      BY <3>1 DEF Typed, Action, OnScreen
  <2>5. auto.engine \in 0 .. Len(engines)
    BY DEF EnginesOK
  <2>6. \A e \in DOMAIN engines : engines[e].st \in {"top", "tick", "asleep", "gone"}
    <3>1. \A e \in DOMAIN engines : engines[e] \in Loop
      BY DEF EnginesOK
    <3> QED
      BY <3>1 DEF Loop
  <2> QED
    BY <2>1, <2>2, <2>3, <2>4, <2>5, <2>6 DEF DashTypeOK, RestOK
<1> QED
  BY <1>1, ShownIInv, EnginesIInv, RestIInv, PTL

-----------------------------------------------------------------------------
(* AutoSwitch: the order of the candidates, and the type of the engine's state. *)

LEMMA GreatestOf ==
  ASSUME NEW S, S \subseteq Int, IsFiniteSet(S), S # {}
  PROVE  Max(S) \in S /\ \A y \in S : y <= Max(S)
<1> DEFINE R == {p \in S \X S : p[1] < p[2]}
           n == Cardinality(S)
<1>1. PICK q \in [1 .. n -> S] :
        /\ \A i, j \in 1 .. n : i < j => <<q[i], q[j]>> \in R
        /\ \A x \in S : \E i \in 1 .. n : q[i] = x
  <2>1. Orders(S, R)
    BY DEF Orders
  <2>2. Listings(S, R) # {}
    BY <2>1, SortedExists
  <2> QED
    BY <2>2 DEF Listings
<1>2. n \in Nat /\ n # 0
  BY FS_CardinalityType, FS_EmptySet
<1>3. n \in 1 .. n /\ q[n] \in S
  BY <1>1, <1>2
<1>4. ASSUME NEW y \in S PROVE q[n] >= y
  <2>1. PICK i \in 1 .. n : q[i] = y
    BY <1>1
  <2>2. CASE i = n
    BY <1>3, <2>1, <2>2
  <2>3. CASE i # n
    <3>1. <<q[i], q[n]>> \in R
      <4>1. i < n
        BY <1>2, <2>3
      <4> QED
        BY <1>1, <1>3, <4>1
    <3>2. q[i] < q[n] /\ q[i] \in Int /\ q[n] \in Int
      BY <1>3, <2>1, <3>1
    <3> HIDE DEF n, R
    <3> QED
      BY <2>1, <3>2
  <2> QED
    BY <2>2, <2>3
<1>5. Max(S) \in S /\ \A y \in S : Max(S) >= y
  BY <1>3, <1>4 DEF Max
<1> QED
  BY <1>5

\* What a reading of the engine says: its headroom, and when its weekly windows reset.
LEMMA EngineReading ==
  ASSUME NEW u \in Readings
  PROVE  AccountHeadroom(u, {}) \in Int /\ RenewalTS(u, {}) \in Int
<1>1. /\ IsFiniteSet(u)
      /\ \A w \in u : w.pct \in Nil .. NoHeadroom - 1 /\ w.reset \in Nat \cup {Nil}
  BY AutoSwitchAssumption
<1>2. AccountHeadroom(u, {}) \in Int
  BY <1>1, HeadroomIs
<1> DEFINE W == {x \in RelevantWindows(u, {}) : x.label # "5h" /\ x.reset # Nil}
           T == {w.reset : w \in W}
           f == [w \in W |-> w.reset]
<1>3. W \subseteq u
  BY DEF RelevantWindows, NewUsage
<1>4. IsFiniteSet(T)
  <2>1. IsFiniteSet(W)
    BY <1>1, <1>3, FS_Subset
  <2>2. f \in Surjection(W, T)
    BY DEF Surjection
  <2> HIDE DEF W, T, f
  <2> QED
    BY <2>1, <2>2, FS_Surjection
<1>5. T \subseteq Int
  BY <1>1, <1>3 DEF Nil
<1>6. RenewalTS(u, {}) = LatestOf(T)
  BY DEF RenewalTS
<1>7. LatestOf(T) \in Int
  <2> HIDE DEF T
  <2>1. T # {} => Max(T) \in T
    BY <1>4, <1>5, GreatestOf
  <2>2. CASE T = {}
    BY <2>2 DEF LatestOf, Nil
  <2>3. CASE T # {}
    BY <1>5, <2>1, <2>3 DEF LatestOf
  <2> QED
    BY <2>2, <2>3
<1> QED
  BY <1>2, <1>6, <1>7

\* The order of the candidates is a strict total order, under both strategies
\* (candidates.go sortQualifying): no cycle among accounts, no tie.
THEOREM PrecedesIsOrder ==
  ASSUME NEW u \in [Slot -> Readings], NEW a \in Slot, NEW b \in Slot, NEW c \in Slot
  PROVE  /\ ~Precedes(u, a, a)
         /\ a # b => Precedes(u, a, b) \/ Precedes(u, b, a)
         /\ Precedes(u, a, b) /\ Precedes(u, b, c) => Precedes(u, a, c)
<1>1. \A s \in Slot : /\ AccountHeadroom(u[s], {}) \in Int /\ RenewalTS(u[s], {}) \in Int
                       /\ s \in Nat
  BY EngineReading, AutoSwitchAssumption
<1>2. Threshold \in Nat
  BY AutoSwitchAssumption
<1> QED
  BY <1>1, <1>2, SMTT(60) DEF Precedes

\* So there is one list of them in that order, without a repetition.
LEMMA SortedFacts ==
  ASSUME NEW S \in SUBSET Slot, NEW R, Orders(S, R), \A a \in S : <<a, a>> \notin R
  PROVE  SortedBy(S, R) \in Seq(Slot) /\ IsInjective(SortedBy(S, R))
<1> DEFINE q == SortedBy(S, R)
           n == Cardinality(S)
<1>1. IsFiniteSet(S)
  BY AutoSwitchAssumption, FS_Subset
<1>2. Listings(S, R) # {}
  BY <1>1, SortedExists
<1>3. q \in [1 .. n -> S] /\ \A i, j \in 1 .. n : i < j => <<q[i], q[j]>> \in R
  BY <1>2 DEF Listings, SortedBy
<1>4. n \in Nat
  BY <1>1, FS_CardinalityType
<1> HIDE DEF n, q
<1>5. q \in Seq(Slot)
  <2>1. q \in [1 .. n -> Slot]
    BY <1>3
  <2> QED
    BY <1>4, <2>1, SeqDef
<1>6. IsInjective(q)
  <2> SUFFICES ASSUME NEW i \in 1 .. n, NEW j \in 1 .. n, q[i] = q[j], i # j PROVE FALSE
    BY <1>3 DEF IsInjective
  <2>1. q[i] \in S /\ (i < j \/ j < i)
    BY <1>3, <1>4
  <2>2. <<q[i], q[i]>> \in R
    BY <1>3, <2>1
  <2> QED
    BY <2>1, <2>2
<1> QED
  BY <1>5, <1>6 DEF q

LEMMA InPreference ==
  ASSUME NEW u \in [Slot -> Readings], NEW S \in SUBSET Slot
  PROVE  Orders(S, Preference(u)) /\ \A a \in S : <<a, a>> \notin Preference(u)
<1>0. \A a, b \in S : <<a, b>> \in Preference(u) <=> Precedes(u, a, b)
  BY DEF Preference
<1>1. \A a, b \in S : a # b => Precedes(u, a, b) \/ Precedes(u, b, a)
  BY PrecedesIsOrder
<1>2. \A a, b, c \in S : Precedes(u, a, b) /\ Precedes(u, b, c) => Precedes(u, a, c)
  BY PrecedesIsOrder
<1>3. \A a \in S : ~Precedes(u, a, a)
  BY PrecedesIsOrder
<1> QED
  BY <1>0, <1>1, <1>2, <1>3 DEF Orders

LEMMA InRosterOrder ==
  ASSUME NEW S \in SUBSET Slot
  PROVE  Orders(S, RosterOrder) /\ \A a \in S : <<a, a>> \notin RosterOrder
<1>0. \A a, b \in S : <<a, b>> \in RosterOrder <=> a < b
  BY DEF RosterOrder
<1>1. S \subseteq Nat
  BY AutoSwitchAssumption
<1>2. \A a, b \in S : a # b => a < b \/ b < a
  BY <1>1
<1>3. \A a, b, c \in S : a < b /\ b < c => a < c
  BY <1>1
<1>4. \A a \in S : ~(a < a)
  BY <1>1
<1> QED
  BY <1>0, <1>2, <1>3, <1>4 DEF Orders

\* The engine's candidates are slots, each once.
LEMMA OrderedFacts ==
  ASSUME NEW e, NEW u \in [Slot -> Readings], NEW trigger
  PROVE  Ordered(e, u, trigger) \in Seq(Slot) /\ IsInjective(Ordered(e, u, trigger))
<1> DEFINE fit == {s \in Candidates(e) \ ApiKey :
                     Qualifies(u, s, trigger, AccountHeadroom(u[eng[e].cur], {}))}
<1>1. Candidates(e) \subseteq Slot
  BY DEF Candidates, SwitchableAccountNumbers
<1>2. fit \in SUBSET Slot /\ ApiKeyCandidates(e) \in SUBSET Slot
  BY <1>1 DEF ApiKeyCandidates
<1>3. Ordered(e, u, trigger) = IF fit # {} THEN SortedBy(fit, Preference(u))
                               ELSE SortedBy(ApiKeyCandidates(e), RosterOrder)
  BY DEF Ordered
<1> HIDE DEF fit
<1>4. CASE fit # {}
  BY <1>2, <1>3, <1>4, InPreference, SortedFacts
<1>5. CASE fit = {}
  BY <1>2, <1>3, <1>5, InRosterOrder, SortedFacts
<1> QED
  BY <1>4, <1>5

\* What a user's switch chooses: a slot, or nothing to switch to.
LEMMA NextAfterIs ==
  ASSUME NEW n \in Slot, NEW fit \in SUBSET Slot
  PROVE  NextAfter(n, fit) \in Slot \cup {Nil}
<1> DEFINE far == Max(Slot)
           dist(s) == IF s > n THEN s - n ELSE s - n + far
           rest == fit \ {n}
<1>0. Slot \subseteq Nat /\ Slot # {} /\ IsFiniteSet(Slot)
  BY AutoSwitchAssumption
<1>1. far \in Nat /\ n <= far
  <2>1. Slot \subseteq Int
    BY <1>0
  <2> QED
    BY <1>0, <2>1, GreatestOf
<1> HIDE DEF far
<1>2. \A s \in Slot : dist(s) \in Nat
  BY <1>0, <1>1
<1>3. ASSUME rest # {} PROVE \E s \in rest : \A t \in rest : dist(s) <= dist(t)
  <2> DEFINE D == {dist(s) : s \in rest}
  <2>1. D \subseteq Nat /\ D # {}
    BY <1>2, <1>3
  <2>2. Min(D) \in D /\ \A y \in D : Min(D) <= y
    <3> HIDE DEF D
    <3> QED
      BY <2>1, LeastNat
  <2>3. PICK s \in rest : Min(D) = dist(s)
    BY <2>2
  <2>4. \A t \in rest : dist(s) <= dist(t)
    BY <2>2, <2>3
  <2> QED
    BY <2>4
<1>4. NextAfter(n, fit) = IF rest = {} THEN Nil
                          ELSE CHOOSE s \in rest : \A t \in rest : dist(s) <= dist(t)
  BY DEF NextAfter, far
<1> HIDE DEF dist
<1> QED
  BY <1>3, <1>4

LEMMA BestIs ==
  ASSUME NEW u \in [Slot -> Readings], listed \in Slot
  PROVE  BestTarget(u) \in Slot \cup {Nil}
<1> DEFINE h(s) == HeadroomOf(u, s)
           others == SwitchableAccountNumbers \ {active}
           known  == {s \in others : h(s) # NoHeadroom}
           best   == {s \in known : \A t \in known : h(s) > h(t) \/ (h(s) = h(t) /\ s <= t)}
<1>1. SwitchableAccountNumbers \in SUBSET Slot
  BY DEF SwitchableAccountNumbers
<1>2. \A s \in Slot : h(s) \in Int /\ s \in Nat
  BY EngineReading, AutoSwitchAssumption DEF HeadroomOf
<1>3. RotationTarget \in Slot \cup {Nil}
  BY <1>1, NextAfterIs DEF RotationTarget
<1> HIDE DEF h
<1>4. known \subseteq Slot
  BY <1>1
<1> HIDE DEF known
<1>5. ASSUME known # {} PROVE best # {}
  <2> DEFINE R == {p \in known \X known : \/ h(p[1]) > h(p[2])
                                          \/ h(p[1]) = h(p[2]) /\ p[1] < p[2]}
             n == Cardinality(known)
  <2>0. \A a, b \in known : <<a, b>> \in R <=> h(a) > h(b) \/ (h(a) = h(b) /\ a < b)
    OBVIOUS
  <2>1. Orders(known, R)
    <3>0. \A a \in known : h(a) \in Int /\ a \in Nat
      BY <1>2, <1>4
    <3>1. \A a, b \in known : a # b => \/ h(a) > h(b) \/ (h(a) = h(b) /\ a < b)
                                       \/ h(b) > h(a) \/ (h(b) = h(a) /\ b < a)
      BY <3>0
    <3>2. \A a, b, c \in known : /\ h(a) > h(b) \/ (h(a) = h(b) /\ a < b)
                                 /\ h(b) > h(c) \/ (h(b) = h(c) /\ b < c)
                                 => h(a) > h(c) \/ (h(a) = h(c) /\ a < c)
      BY <3>0
    <3> HIDE DEF R
    <3> QED
      BY <2>0, <3>1, <3>2 DEF Orders
  <2>2. IsFiniteSet(known)
    BY <1>4, AutoSwitchAssumption, FS_Subset
  <2>3. Listings(known, R) # {}
    BY <2>1, <2>2, SortedExists
  <2> HIDE DEF R
  <2>4. PICK q \in [1 .. n -> known] :
          /\ \A i, j \in 1 .. n : i < j => <<q[i], q[j]>> \in R
          /\ \A x \in known : \E i \in 1 .. n : q[i] = x
    BY <2>3 DEF Listings
  <2>5. n \in Nat /\ n # 0
    BY <1>5, <2>2, FS_CardinalityType, FS_EmptySet
  <2> HIDE DEF n
  <2>6. 1 \in 1 .. n /\ q[1] \in known
    BY <2>4, <2>5
  <2>7. \A t \in known : h(q[1]) > h(t) \/ (h(q[1]) = h(t) /\ q[1] <= t)
    <3> SUFFICES ASSUME NEW t \in known PROVE h(q[1]) > h(t) \/ (h(q[1]) = h(t) /\ q[1] <= t)
      OBVIOUS
    <3>0. t \in Nat /\ q[1] \in Nat
      BY <1>2, <1>4, <2>6
    <3>1. PICK i \in 1 .. n : q[i] = t
      BY <2>4
    <3>2. CASE i = 1
      BY <3>0, <3>1, <3>2
    <3>3. CASE i # 1
      <4>1. 1 < i
        BY <2>5, <3>3
      <4>2. <<q[1], t>> \in R
        BY <2>4, <2>6, <3>1, <4>1
      <4> QED
        BY <2>0, <2>6, <3>0, <4>2
    <3> QED
      BY <3>2, <3>3
  <2> QED
    BY <2>6, <2>7
<1>6. best \subseteq known
  OBVIOUS
<1>7. BestTarget(u) = IF others = {} THEN RotationTarget
                      ELSE IF h(active) = NoHeadroom \/ known = {} THEN Nil
                      ELSE IF h(Min(best)) > h(active) THEN Min(best) ELSE Nil
  BY DEF BestTarget, h, known
<1> HIDE DEF best, others
<1>8. known # {} => Min(best) \in Slot
  <2> SUFFICES ASSUME known # {} PROVE Min(best) \in Slot
    OBVIOUS
  <2>1. best \subseteq Nat /\ best # {}
    BY <1>4, <1>5, <1>6, AutoSwitchAssumption
  <2>2. Min(best) \in best
    BY <2>1, LeastNat
  <2> QED
    BY <1>4, <1>6, <2>2
<1> QED
  BY <1>3, <1>7, <1>8

LEMMA UserChoice ==
  ASSUME UserChooses, usage \in [Slot -> Readings], listed \in Slot,
         active \in Slot \cup {Nil, Unmanaged}
  PROVE  user' \in Slot \cup {Nil}
<1>1. SwitchableAccountNumbers \in SUBSET Slot
  BY DEF SwitchableAccountNumbers
<1>2. \A S \in SUBSET Slot : EarliestOf(S) \in Slot \cup {Nil}
  <2> SUFFICES ASSUME NEW S \in SUBSET Slot, S # {} PROVE Min(S) \in Slot
    BY DEF EarliestOf
  <2>1. S \subseteq Nat
    BY AutoSwitchAssumption
  <2> QED
    BY <2>1, LeastNat
<1>3. CASE active = Nil
  <2>1. user' = FreshMachineTarget
    BY <1>3 DEF UserChooses
  <2>2. listed \in SwitchableAccountNumbers => FreshMachineTarget = listed
    BY DEF FreshMachineTarget
  <2>3. listed \notin SwitchableAccountNumbers =>
          FreshMachineTarget = EarliestOf(SwitchableAccountNumbers)
    BY DEF FreshMachineTarget
  <2> QED
    BY <1>1, <1>2, <2>1, <2>2, <2>3
<1>4. CASE active # Nil
  <2>1. active \in Slot
    BY <1>4 DEF UserChooses
  <2>2. user' \in {RotationTarget, NextAvailableTarget(usage), BestTarget(usage)}
    BY <1>4 DEF UserChooses
  <2>3. RotationTarget \in Slot \cup {Nil}
    BY <1>1, NextAfterIs DEF RotationTarget
  <2>4. NextAvailableTarget(usage) \in Slot \cup {Nil}
    <3> DEFINE fit == {s \in SwitchableAccountNumbers : HeadroomOf(usage, s) > 0}
    <3>1. fit \in SUBSET Slot
      BY <1>1
    <3> HIDE DEF fit
    <3>2. NextAfter(active, fit) \in Slot \cup {Nil}
      BY <2>1, <3>1, NextAfterIs
    <3> QED
      BY <3>2 DEF NextAvailableTarget, fit
  <2>5. BestTarget(usage) \in Slot \cup {Nil}
    BY BestIs
  <2> QED
    BY <2>2, <2>3, <2>4, <2>5
<1> QED
  BY <1>3, <1>4

\* An engine: its candidates are slots, each once, and it has one to work on from its choice
\* to the end of its tick; the token it refreshes is a real one.
Working == {"try", "refresh", "persist", "quarantine", "noting", "perform", "switch", "record"}
EngineTyped(r) ==
  /\ {"st", "todo", "token", "who"} \subseteq DOMAIN r
  /\ r.st \in Stages
  /\ r.todo \in Seq(Slot) /\ IsInjective(r.todo)
  /\ r.st \in Working => r.todo # <<>>
  /\ r.token \in Nil .. MaxToken /\ (r.st \in {"refresh", "persist"} => r.token # Nil /\ r.token # NotOAuth)
  /\ r.who \in {0, 1}

\* What the engines share.
Entries == [owner : {Nil, 0, 1}, token : Nil .. MaxToken]
AutoWorld ==
  /\ active \in Slot \cup {Nil, Unmanaged} /\ listed \in Slot
  /\ held \in [Slot -> Nil .. MaxToken] /\ owner \in [Slot -> {0, 1}]
  /\ away \subseteq Slot /\ near \subseteq Slot /\ sessions \subseteq Slot
  /\ usage \in [Slot -> Readings]
  /\ refused \cup foreign \subseteq 1 .. MaxToken
  /\ {"lastSwitchAt", "quarantine"} \subseteq DOMAIN stateFile
  /\ stateFile.lastSwitchAt \in Nil .. MaxTime
  /\ stateFile.quarantine \in [Slot -> Entries]
  /\ stateLock \in Engine \cup {Nobody}
  /\ user \in Slot \cup {Nil} /\ policy \in Policies
  /\ now \in 0 .. MaxTime /\ faults \in 0 .. MaxFaults /\ recorded \in Nil .. MaxTime

EnginesTyped == DOMAIN eng = Engine /\ \A e \in Engine : EngineTyped(eng[e])

AutoInv == AutoWorld /\ EnginesTyped

Limits ==
  /\ Slot \subseteq Nat \ {0} /\ Slot # {} /\ IsFiniteSet(Slot)
  /\ \A s \in Slot : s < MaxToken
  /\ MaxTime \in Nat /\ MaxToken \in Nat /\ MaxFaults \in Nat
LEMMA HaveLimits == Limits
BY AutoSwitchAssumption DEF Limits

LEMMA AsleepTyped ==
  /\ \A x, y, z, w : EngineTyped([Asleep EXCEPT !.unhealthy = x, !.idleSince = y, !.dry = z, !.wakeAt = w])
  /\ \A d : EngineTyped([Asleep EXCEPT !.dry = d])
  /\ EngineTyped([Asleep EXCEPT !.st = "dead"])
<1>1. <<>> \in Seq(Slot) /\ IsInjective(<<>>)
  BY DEF IsInjective
<1>2. Nil \in Nil .. MaxToken
  BY HaveLimits DEF Limits, Nil
<1> QED
  BY <1>1, <1>2 DEF Asleep, EngineTyped, Stages, Working

LEMMA StartTyped ==
  AutoInit => AutoInv
<1> SUFFICES ASSUME AutoInit PROVE AutoInv
  OBVIOUS
<1>1. Limits
  BY HaveLimits
<1>2. Max(Slot) \in Slot /\ Min(Slot) \in Slot
  <2>1. Slot \subseteq Int /\ Slot \subseteq Nat
    BY <1>1 DEF Limits
  <2> QED
    BY <1>1, <2>1, GreatestOf, LeastNat DEF Limits
<1>3. active \in Slot /\ listed \in Slot
  BY <1>2 DEF AutoInit
<1>4. held \in [Slot -> Nil .. MaxToken]
  <2>1. held = [s \in Slot |-> s] \/ \E odd : held = [s \in Slot |-> IF s = odd THEN NotOAuth ELSE s]
    BY DEF AutoInit
  <2>2. NotOAuth \in Nil .. MaxToken /\ \A s \in Slot : s \in Nil .. MaxToken
    BY <1>1 DEF Limits, Nil, NotOAuth
  <2> QED
    BY <2>1, <2>2
<1>5. near \subseteq Slot /\ foreign \subseteq {active + 1}
  BY DEF AutoInit
<1>6. active + 1 \in 1 .. MaxToken
  BY <1>1, <1>3 DEF Limits
<1>7. usage \in [Slot -> Readings]
  BY AutoSwitchAssumption DEF AutoInit
<1>8. NoEntry \in Entries /\ Nil \in Nil .. MaxTime
  BY <1>1 DEF Limits, NoEntry, Entries, Nil
<1>9. stateFile.quarantine \in [Slot -> Entries] /\ stateFile.lastSwitchAt \in Nil .. MaxTime
      /\ {"lastSwitchAt", "quarantine"} \subseteq DOMAIN stateFile
  BY <1>8 DEF AutoInit
<1>10. AutoWorld
  <2>1. owner \in [Slot -> {0, 1}] /\ away = {} /\ sessions = {} /\ refused = {}
        /\ stateLock = Nobody /\ user = Nil /\ policy \in Policies
        /\ now = 0 /\ faults = 0 /\ recorded = Nil
    BY DEF AutoInit
  <2>2. 0 \in 0 .. MaxTime /\ 0 \in 0 .. MaxFaults
    BY <1>1 DEF Limits
  <2>3. refused \cup foreign \subseteq 1 .. MaxToken
    BY <1>5, <1>6, <2>1
  <2> QED
    BY <1>3, <1>4, <1>5, <1>7, <1>8, <1>9, <2>1, <2>2, <2>3 DEF AutoWorld
<1>11. \A d \in BOOLEAN : EngineTyped([Asleep EXCEPT !.dry = d])
  BY AsleepTyped
<1>12. EnginesTyped
  <2>1. eng \in [Engine -> {[Asleep EXCEPT !.dry = d] : d \in BOOLEAN}]
    BY DEF AutoInit
  <2> QED
    BY <1>11, <2>1 DEF EnginesTyped
<1> QED
  BY <1>10, <1>12 DEF AutoInv

\* An engine's own step: one engine moves, to a state of its type.
EngineGoes(e) == \E n : EngineTyped(n) /\ Put(e, n)

LEMMA OneMoves ==
  ASSUME EnginesTyped, NEW e \in Engine, EngineGoes(e)
  PROVE  EnginesTyped'
BY DEF EnginesTyped, EngineGoes, Put

LEMMA TickEnds == ASSUME NEW e, NEW r, NEW how, EndTick(e, r, how) PROVE EngineGoes(e)
BY AsleepTyped DEF EndTick, EngineGoes

LEMMA TickBreaks == ASSUME NEW e, TickFails(e) PROVE EngineGoes(e)
BY TickEnds DEF TickFails

LEMMA ReadsCurrent ==
  ASSUME NEW e, NEW r, EngineTyped(r), ReadCurrentAccount(e, r)
  PROVE  EngineGoes(e)
<1>1. CASE CurrentAccountNumber = Nil
  BY <1>1, TickEnds DEF ReadCurrentAccount
<1>2. CASE CurrentAccountNumber # Nil
  <2> DEFINE n == [r EXCEPT !.st = "poll", !.cur = CurrentAccountNumber]
  <2>1. Put(e, n)
    BY <1>2 DEF ReadCurrentAccount
  <2>2. EngineTyped(n)
    BY DEF EngineTyped, Stages, Working
  <2> QED
    BY <2>1, <2>2 DEF EngineGoes
<1> QED
  BY <1>1, <1>2

LEMMA TriesNext ==
  ASSUME NEW e, NEW r, EngineTyped(r), r.todo # <<>>, TryNext(e, r)
  PROVE  EngineGoes(e)
<1>1. CASE Tail(r.todo) = <<>>
  BY <1>1, TickEnds DEF TryNext
<1>2. CASE Tail(r.todo) # <<>>
  <2> DEFINE n == [r EXCEPT !.st = "try", !.todo = Tail(r.todo), !.token = Nil]
  <2>1. Put(e, n)
    BY <1>2 DEF TryNext
  <2>2. Tail(r.todo) \in Seq(Slot)
    BY DEF EngineTyped
  <2>3. IsInjective(Tail(r.todo))
    <3>1. r.todo \in Seq(Slot) /\ IsInjective(r.todo) /\ r.todo # <<>>
      BY DEF EngineTyped
    <3>2. /\ DOMAIN Tail(r.todo) = 1 .. Len(r.todo) - 1
          /\ DOMAIN r.todo = 1 .. Len(r.todo) /\ Len(r.todo) \in Nat
          /\ \A i \in 1 .. Len(r.todo) - 1 : Tail(r.todo)[i] = r.todo[i + 1]
      BY <3>1
    <3>3. \A i, j \in 1 .. Len(r.todo) - 1 : Tail(r.todo)[i] = Tail(r.todo)[j] => i = j
      <4> SUFFICES ASSUME NEW i \in 1 .. Len(r.todo) - 1, NEW j \in 1 .. Len(r.todo) - 1,
                          Tail(r.todo)[i] = Tail(r.todo)[j]
                   PROVE  i = j
        OBVIOUS
      <4>1. i + 1 \in DOMAIN r.todo /\ j + 1 \in DOMAIN r.todo /\ r.todo[i + 1] = r.todo[j + 1]
        BY <3>2
      <4>2. i + 1 = j + 1
        BY <3>1, <4>1 DEF IsInjective
      <4> QED
        BY <3>2, <4>2
    <3> QED
      BY <3>2, <3>3 DEF IsInjective
  <2>4. Nil \in Nil .. MaxToken
    BY HaveLimits DEF Limits, Nil
  <2>5. EngineTyped(n)
    BY <1>2, <2>2, <2>3, <2>4 DEF EngineTyped, Stages
  <2> QED
    BY <2>1, <2>5 DEF EngineGoes
<1> QED
  BY <1>1, <1>2

LEMMA Chooses ==
  ASSUME NEW e, NEW u \in [Slot -> Readings], NEW trigger, NEW r, EngineTyped(r),
         Choose(e, u, trigger, r)
  PROVE  EngineGoes(e)
<1> DEFINE todo == Ordered(e, u, trigger)
           n == [r EXCEPT !.st = "try", !.trigger = trigger, !.todo = todo,
                          !.quarantined = {}, !.last = Nil, !.cur = Nil]
<1>1. (\E how : EndTick(e, r, how)) \/ (todo # <<>> /\ Put(e, n))
  BY DEF Choose
<1>2. CASE \E how : EndTick(e, r, how)
  BY <1>2, TickEnds
<1>3. CASE todo # <<>> /\ Put(e, n)
  <2>1. todo \in Seq(Slot) /\ IsInjective(todo)
    BY OrderedFacts
  <2> HIDE DEF todo
  <2>2. EngineTyped(n)
    BY <1>3, <2>1 DEF EngineTyped, Stages
  <2> HIDE DEF n
  <2> QED
    BY <1>3, <2>2 DEF EngineGoes
<1> QED
  BY <1>1, <1>2, <1>3

\* What a step leaves of the world, besides the locks, the state file, the faults and the
\* history.
SameAccounts == UNCHANGED <<active, listed, accounts, user, policy, now>>

LEMMA WorldStays ==
  ASSUME AutoWorld, SameAccounts,
         {"lastSwitchAt", "quarantine"} \subseteq DOMAIN stateFile',
         stateFile'.lastSwitchAt \in Nil .. MaxTime,
         stateFile'.quarantine \in [Slot -> Entries],
         stateLock' \in Engine \cup {Nobody},
         faults' = faults \/ Fault, recorded' \in Nil .. MaxTime
  PROVE  AutoWorld'
<1>1. faults' \in 0 .. MaxFaults
  BY HaveLimits DEF AutoWorld, Fault, Limits
<1> QED
  BY <1>1 DEF AutoWorld, SameAccounts, accounts

LEMMA WorldSame ==
  ASSUME AutoWorld, SameAccounts, stateFile' = stateFile, faults' = faults \/ Fault,
         recorded' = recorded, stateLock' \in Engine \cup {Nobody}
  PROVE  AutoWorld'
BY WorldStays DEF AutoWorld

\* The steps that read and decide.
LEMMA DecidingTyped ==
  ASSUME AutoInv, NEW e \in Engine,
         \/ ReadState(e) \/ CheckQuarantines(e) \/ ReleaseQuarantines(e) \/ StateUnavailable(e)
         \/ \E expired \in BOOLEAN : Decide(e, expired)
  PROVE  AutoInv'
<1> DEFINE r == eng[e]
<1>0. EngineTyped(r) /\ AutoWorld /\ EnginesTyped /\ stateLock \in Engine \cup {Nobody}
  BY DEF AutoInv, EnginesTyped, AutoWorld
<1>1. ASSUME ReadState(e) PROVE AutoWorld' /\ EngineGoes(e)
  <2>1. AutoWorld'
    BY <1>0, <1>1, WorldSame DEF ReadState, SameAccounts
  <2> DEFINE in == {s \in Slot : stateFile.quarantine[s] # NoEntry}
             read == [r EXCEPT !.quarantined = in, !.last = stateFile.lastSwitchAt]
             n == [read EXCEPT !.st = "read"]
  <2>2. ReadCurrentAccount(e, read) \/ Put(e, n)
    BY <1>1 DEF ReadState
  <2>3. EngineTyped(read) /\ EngineTyped(n)
    BY <1>0 DEF EngineTyped, Stages, Working
  <2> HIDE DEF n, read
  <2> QED
    BY <2>1, <2>2, <2>3, ReadsCurrent DEF EngineGoes
<1>2. ASSUME CheckQuarantines(e) PROVE AutoWorld' /\ EngineGoes(e)
  <2>1. AutoWorld'
    BY <1>0, <1>2, WorldSame DEF CheckQuarantines, SameAccounts
  <2> DEFINE n(gone) == [r EXCEPT !.release = gone, !.st = "releasing"]
  <2>2. ReadCurrentAccount(e, r) \/ \E gone : Put(e, n(gone))
    BY <1>2 DEF CheckQuarantines
  <2>3. \A gone : EngineTyped(n(gone))
    BY <1>0 DEF EngineTyped, Stages, Working
  <2> HIDE DEF n
  <2> QED
    BY <1>0, <2>1, <2>2, <2>3, ReadsCurrent DEF EngineGoes
<1>3. ASSUME ReleaseQuarantines(e) PROVE AutoWorld' /\ EngineGoes(e)
  <2> DEFINE next == WithoutEntries(stateFile, r.release)
             n(x, y, z) == [r EXCEPT !.release = x, !.last = y, !.quarantined = z]
  <2>1. stateFile' = next /\ stateLock' = stateLock /\ SameAccounts /\ faults' = faults
        /\ recorded' = recorded
    BY <1>3 DEF ReleaseQuarantines, MutateState, SameAccounts
  <2>2. /\ {"lastSwitchAt", "quarantine"} \subseteq DOMAIN next
        /\ next.lastSwitchAt \in Nil .. MaxTime /\ next.quarantine \in [Slot -> Entries]
    <3>1. NoEntry \in Entries
      BY HaveLimits DEF NoEntry, Entries, Limits, Nil
    <3>2. /\ {"lastSwitchAt", "quarantine"} \subseteq DOMAIN stateFile
          /\ stateFile.lastSwitchAt \in Nil .. MaxTime /\ stateFile.quarantine \in [Slot -> Entries]
      BY <1>0 DEF AutoWorld
    <3> QED
      BY <3>1, <3>2 DEF WithoutEntries
  <2>3. AutoWorld'
    <3> HIDE DEF next
    <3>1. recorded' \in Nil .. MaxTime
      BY <1>0, <2>1 DEF AutoWorld
    <3> QED
      BY <1>0, <2>1, <2>2, <3>1, WorldStays
  <2>4. \E x, y, z : ReadCurrentAccount(e, n(x, y, z))
    BY <1>3 DEF ReleaseQuarantines
  <2>5. \A x, y, z : EngineTyped(n(x, y, z))
    BY <1>0 DEF EngineTyped, Stages, Working
  <2> HIDE DEF n
  <2> QED
    BY <2>3, <2>4, <2>5, ReadsCurrent
<1>4. ASSUME StateUnavailable(e) PROVE AutoWorld' /\ EngineGoes(e)
  <2>1. AutoWorld'
    BY <1>0, <1>4, WorldSame DEF StateUnavailable, SameAccounts
  <2> QED
    BY <1>4, <2>1, TickBreaks DEF StateUnavailable
<1>5. ASSUME NEW expired \in BOOLEAN, Decide(e, expired) PROVE AutoWorld' /\ EngineGoes(e)
  <2>1. AutoWorld'
    BY <1>0, <1>5, WorldSame DEF Decide, SameAccounts
  <2> DEFINE n(x, y) == [r EXCEPT !.unhealthy = x, !.idleSince = y]
             m(x, y) == [n(x, y) EXCEPT !.unhealthy = UnhealthyTicks]
  <2>2. \/ \E x, how : EndTick(e, x, how)
        \/ \E t, x, y : Choose(e, usage, t, n(x, y))
        \/ \E t, x, y : Choose(e, usage, t, m(x, y))
    BY <1>5, Zenon DEF Decide
  <2>3. \A x, y : EngineTyped(n(x, y)) /\ EngineTyped(m(x, y))
    BY <1>0 DEF EngineTyped
  <2>4. usage \in [Slot -> Readings]
    BY <1>0 DEF AutoWorld
  <2> HIDE DEF n, m
  <2> QED
    BY <2>1, <2>2, <2>3, <2>4, TickEnds, Chooses
<1>6. AutoWorld' /\ EngineGoes(e)
  BY <1>1, <1>2, <1>3, <1>4, <1>5
<1> QED
  BY <1>0, <1>6, OneMoves DEF AutoInv

\* The new token is greater than every other.
LEMMA FreshIs ==
  ASSUME AutoInv
  PROVE  FreshToken \in Int /\ FreshToken >= 0 /\ \A e \in Engine : FreshToken > eng[e].token
<1> DEFINE S == {held[s] : s \in Slot} \cup refused \cup {eng[e].token : e \in Engine}
<1>1. S \subseteq Nil .. MaxToken
  BY DEF AutoInv, AutoWorld, EnginesTyped, EngineTyped, Nil
<1>2. S # {} /\ MaxToken \in Nat
  BY HaveLimits DEF Limits
<1>3. \A e \in Engine : eng[e].token \in S
  OBVIOUS
<1>4. FreshToken = Max(S) + 1
  BY DEF FreshToken
<1> HIDE DEF S
<1>5. Max(S) \in S /\ \A y \in S : y <= Max(S)
  BY <1>1, <1>2, GreatestBelow
<1>6. Max(S) \in Nil .. MaxToken
  BY <1>1, <1>5
<1>7. Max(S) \in Int /\ Max(S) + 1 >= 0
  BY <1>2, <1>6 DEF Nil
<1>8. ASSUME NEW e \in Engine PROVE Max(S) + 1 > eng[e].token
  <2>1. eng[e].token \in S /\ eng[e].token <= Max(S)
    BY <1>3, <1>5
  <2>2. eng[e].token \in Nil .. MaxToken
    BY <1>1, <2>1, Zenon
  <2>3. eng[e].token \in Int
    BY <1>2, <2>2 DEF Nil
  <2> QED
    BY <1>7, <2>1, <2>3
<1> QED
  BY <1>4, <1>7, <1>8

\* The steps that make the target's token fresh.
LEMMA FresheningTyped ==
  ASSUME AutoInv, NEW e \in Engine,
         \/ FreshenTarget(e) \/ RefreshSucceeds(e) \/ RefreshRefused(e) \/ RefreshLost(e)
         \/ PersistFreshened(e) \/ PersistFails(e) \/ ReadFingerprint(e) \/ Quarantine(e)
  PROVE  AutoInv'
<1> DEFINE r == eng[e]
           s == Head(r.todo)
<1>0. EngineTyped(r) /\ AutoWorld /\ EnginesTyped /\ stateLock \in Engine \cup {Nobody}
  BY DEF AutoInv, EnginesTyped, AutoWorld
<1>w. r.st \in Working => r.todo # <<>> /\ s \in Slot
  BY <1>0 DEF EngineTyped
<1>t. /\ held \in [Slot -> Nil .. MaxToken] /\ owner \in [Slot -> {0, 1}]
      /\ refused \subseteq 1 .. MaxToken /\ foreign \subseteq 1 .. MaxToken
  BY <1>0 DEF AutoWorld
<1>l. MaxToken \in Nat
  BY HaveLimits DEF Limits
<1>1. ASSUME FreshenTarget(e) PROVE AutoWorld' /\ EngineGoes(e)
  <2>1. AutoWorld' /\ r.st = "try"
    BY <1>0, <1>1, WorldSame DEF FreshenTarget, SameAccounts
  <2>2. r.todo # <<>> /\ s \in Slot
    BY <1>w, <2>1 DEF Working
  <2> DEFINE done == [r EXCEPT !.st = "perform"]
             barred == [r EXCEPT !.st = "quarantine", !.who = owner[s]]
             go == [r EXCEPT !.st = "refresh", !.token = held[s], !.who = owner[s]]
  <2>3. \/ EndTick(e, r, Sleeps) \/ TryNext(e, r) \/ Put(e, done) \/ Put(e, barred)
        \/ held[s] # Nil /\ held[s] # NotOAuth /\ Put(e, go)
    BY <1>1 DEF FreshenTarget
  <2>4. EngineTyped(done)
    BY <1>0, <2>2 DEF EngineTyped, Stages
  <2>5. EngineTyped(barred)
    BY <1>0, <1>t, <2>2 DEF EngineTyped, Stages
  <2>6. held[s] # Nil /\ held[s] # NotOAuth => EngineTyped(go)
    BY <1>0, <1>t, <2>2 DEF EngineTyped, Stages
  <2> HIDE DEF done, barred, go
  <2> QED
    BY <1>0, <2>1, <2>2, <2>3, <2>4, <2>5, <2>6, TickEnds, TriesNext DEF EngineGoes
<1>2. ASSUME RefreshSucceeds(e) PROVE AutoWorld' /\ EngineGoes(e)
  <2> DEFINE t == FreshToken
             n == [r EXCEPT !.st = "persist", !.token = t]
  <2>1. r.st = "refresh" /\ t <= MaxToken /\ Put(e, n)
    BY <1>2 DEF RefreshSucceeds
  <2>2. r.todo # <<>> /\ r.token \in 1 .. MaxToken
    BY <1>0, <1>w, <1>l, <2>1 DEF Working, EngineTyped, Nil, NotOAuth
  <2>3. t \in 1 .. MaxToken
    <3>1. t \in Int /\ t > r.token
      BY FreshIs
    <3> HIDE DEF t
    <3> QED
      BY <1>l, <2>1, <2>2, <3>1
  <2>4. EngineTyped(n)
    <3> HIDE DEF t
    <3>1. t \in Nil .. MaxToken /\ t # Nil /\ t # NotOAuth
      BY <1>l, <2>3 DEF Nil, NotOAuth
    <3> QED
      BY <1>0, <2>2, <3>1 DEF EngineTyped, Stages
  <2>5. AutoWorld'
    <3>1. refused' \cup foreign' \subseteq 1 .. MaxToken
      <4>1. refused' = refused \cup {r.token}
        BY <1>2 DEF RefreshSucceeds
      <4>2. foreign' = foreign \/ foreign' = foreign \cup {t}
        BY <1>2 DEF RefreshSucceeds
      <4> HIDE DEF t
      <4> QED
        BY <1>t, <2>2, <2>3, <4>1, <4>2
    <3>2. UNCHANGED <<active, listed, held, owner, away, near, sessions, usage, stateFile, stateLock,
                      user, policy, now, faults, recorded>>
      BY <1>2 DEF RefreshSucceeds
    <3> QED
      BY <1>0, <3>1, <3>2 DEF AutoWorld
  <2> HIDE DEF n
  <2> QED
    BY <2>1, <2>4, <2>5 DEF EngineGoes
<1>3. ASSUME RefreshRefused(e) PROVE AutoWorld' /\ EngineGoes(e)
  <2>1. AutoWorld' /\ r.st = "refresh"
    BY <1>0, <1>3, WorldSame DEF RefreshRefused, SameAccounts
  <2> DEFINE n == [r EXCEPT !.st = "quarantine"]
  <2>2. Put(e, n)
    BY <1>3 DEF RefreshRefused
  <2>3. EngineTyped(n)
    BY <1>0, <1>w, <2>1 DEF EngineTyped, Stages, Working
  <2> HIDE DEF n
  <2> QED
    BY <2>1, <2>2, <2>3 DEF EngineGoes
<1>4. ASSUME RefreshLost(e) PROVE AutoWorld' /\ EngineGoes(e)
  <2>1. r.st = "refresh" /\ TryNext(e, r) /\ Fault
        /\ (refused' = refused \/ refused' = refused \cup {r.token})
    BY <1>4 DEF RefreshLost
  <2>2. r.todo # <<>> /\ r.token \in 1 .. MaxToken
    BY <1>0, <1>w, <1>l, <2>1 DEF Working, EngineTyped, Nil, NotOAuth
  <2>3. EngineGoes(e)
    BY <1>0, <2>1, <2>2, TriesNext
  <2>4. AutoWorld'
    <3>1. refused' \cup foreign \subseteq 1 .. MaxToken
      BY <1>t, <2>1, <2>2
    <3>2. UNCHANGED <<active, listed, held, owner, away, near, sessions, usage, foreign, stateFile,
                      stateLock, user, policy, now, recorded>>
      BY <1>4 DEF RefreshLost
    <3>3. faults' \in 0 .. MaxFaults
      BY <1>0, <2>1, HaveLimits DEF AutoWorld, Fault, Limits
    <3> QED
      BY <1>0, <3>1, <3>2, <3>3 DEF AutoWorld
  <2> QED
    BY <2>3, <2>4
<1>5. ASSUME PersistFreshened(e) PROVE AutoWorld' /\ EngineGoes(e)
  <2>1. r.st = "persist"
    BY <1>5 DEF PersistFreshened
  <2>2. r.todo # <<>> /\ s \in Slot /\ r.token \in Nil .. MaxToken
    BY <1>0, <1>w, <2>1 DEF Working, EngineTyped
  <2>3. held' \in [Slot -> Nil .. MaxToken] /\ near' \subseteq near
    <3>1. /\ held' = held \/ held' = [held EXCEPT ![s] = r.token]
          /\ near' = near \/ near' = near \ {s}
      BY <1>5 DEF PersistFreshened
    <3> QED
      BY <1>t, <2>2, <3>1
  <2>4. UNCHANGED <<active, listed, owner, away, sessions, usage, refused, foreign, stateFile, stateLock,
                    user, policy, now, faults, recorded>>
    BY <1>5 DEF PersistFreshened
  <2>5. AutoWorld'
    BY <1>0, <2>3, <2>4 DEF AutoWorld
  <2> DEFINE n(x) == [r EXCEPT !.st = x]
  <2>6. \E x \in {"perform", "quarantine"} : Put(e, n(x))
    BY <1>5 DEF PersistFreshened
  <2>7. \A x \in {"perform", "quarantine"} : EngineTyped(n(x))
    BY <1>0, <2>2 DEF EngineTyped, Stages, Working
  <2> HIDE DEF n
  <2> QED
    BY <2>5, <2>6, <2>7 DEF EngineGoes
<1>6. ASSUME PersistFails(e) PROVE AutoWorld' /\ EngineGoes(e)
  <2>1. AutoWorld'
    BY <1>0, <1>6, WorldSame DEF PersistFails, SameAccounts
  <2> QED
    BY <1>6, <2>1, TickBreaks DEF PersistFails
<1>7. ASSUME ReadFingerprint(e) PROVE AutoWorld' /\ EngineGoes(e)
  <2>1. AutoWorld' /\ r.st = "quarantine"
    BY <1>0, <1>7, WorldSame DEF ReadFingerprint, SameAccounts
  <2>2. r.todo # <<>> /\ s \in Slot
    BY <1>w, <2>1 DEF Working
  <2> DEFINE n(x) == [r EXCEPT !.st = "noting", !.token = x]
  <2>3. \E x \in {held[s], r.token} : Put(e, n(x))
    BY <1>7 DEF ReadFingerprint
  <2>4. \A x \in {held[s], r.token} : EngineTyped(n(x))
    <3>1. held[s] \in Nil .. MaxToken /\ r.token \in Nil .. MaxToken
      BY <1>0, <1>t, <2>2 DEF EngineTyped
    <3> QED
      BY <1>0, <2>2, <3>1 DEF EngineTyped, Stages
  <2> HIDE DEF n
  <2> QED
    BY <2>1, <2>3, <2>4 DEF EngineGoes
<1>8. ASSUME Quarantine(e) PROVE AutoWorld' /\ EngineGoes(e)
  <2> DEFINE entry == [owner |-> r.who, token |-> r.token]
             next == [stateFile EXCEPT !.quarantine[s] = entry]
  <2>1. /\ r.st = "noting" /\ TryNext(e, r) /\ stateFile' = next /\ stateLock' = stateLock
        /\ SameAccounts /\ faults' = faults /\ recorded' = recorded
    BY <1>8 DEF Quarantine, MutateState, SameAccounts
  <2>2. r.todo # <<>> /\ s \in Slot
    BY <1>w, <2>1 DEF Working
  <2>3. EngineGoes(e)
    BY <1>0, <2>1, <2>2, TriesNext
  <2>4. /\ {"lastSwitchAt", "quarantine"} \subseteq DOMAIN next
        /\ next.lastSwitchAt \in Nil .. MaxTime /\ next.quarantine \in [Slot -> Entries]
    <3>1. entry \in Entries
      BY <1>0 DEF EngineTyped, Entries
    <3>2. /\ {"lastSwitchAt", "quarantine"} \subseteq DOMAIN stateFile
          /\ stateFile.lastSwitchAt \in Nil .. MaxTime /\ stateFile.quarantine \in [Slot -> Entries]
      BY <1>0 DEF AutoWorld
    <3> HIDE DEF entry, s
    <3> QED
      BY <2>2, <3>1, <3>2
  <2>5. recorded' \in Nil .. MaxTime
    BY <1>0, <2>1 DEF AutoWorld
  <2> HIDE DEF next
  <2> QED
    BY <1>0, <2>1, <2>3, <2>4, <2>5, WorldStays
<1>9. AutoWorld' /\ EngineGoes(e)
  BY <1>1, <1>2, <1>3, <1>4, <1>5, <1>6, <1>7, <1>8
<1> QED
  BY <1>0, <1>9, OneMoves DEF AutoInv

\* The steps of the switch, and the death of an engine.
LEMMA SwitchingTyped ==
  ASSUME AutoInv, NEW e \in Engine,
         \/ Perform(e) \/ EngineSwitch(e) \/ EngineSwitchFails(e) \/ RecordSwitch(e)
         \/ RecordFails(e) \/ EngineDies(e)
  PROVE  AutoInv'
<1> DEFINE r == eng[e]
           s == Head(r.todo)
           n(x) == [r EXCEPT !.st = x]
<1>0. EngineTyped(r) /\ AutoWorld /\ EnginesTyped /\ stateLock \in Engine \cup {Nobody}
  BY DEF AutoInv, EnginesTyped, AutoWorld
<1>w. r.st \in Working => r.todo # <<>> /\ s \in Slot
  BY <1>0 DEF EngineTyped
<1>1. ASSUME Perform(e) PROVE AutoWorld' /\ EngineGoes(e)
  <2>1. AutoWorld' /\ r.st = "perform"
    BY <1>0, <1>1, WorldSame DEF Perform, SameAccounts
  <2>2. EndTick(e, r, Sleeps) \/ Put(e, n("switch"))
    BY <1>1 DEF Perform
  <2>3. EngineTyped(n("switch"))
    BY <1>0, <1>w, <2>1 DEF EngineTyped, Stages, Working
  <2> HIDE DEF n
  <2> QED
    BY <2>1, <2>2, <2>3, TickEnds DEF EngineGoes
<1>2. ASSUME EngineSwitch(e) PROVE AutoWorld' /\ EngineGoes(e)
  <2>1. r.st = "switch"
    BY <1>2 DEF EngineSwitch
  <2>2. r.todo # <<>> /\ s \in Slot
    BY <1>w, <2>1 DEF Working
  <2>3. EndTick(e, r, Sleeps) \/ Put(e, n("record"))
    BY <1>2 DEF EngineSwitch
  <2>4. EngineTyped(n("record"))
    BY <1>0, <2>2 DEF EngineTyped, Stages
  <2>5. /\ active' \in {active, s} /\ listed' \in {listed, s}
        /\ stateLock' \in {stateLock, Nobody}
        /\ UNCHANGED <<accounts, stateFile, user, policy, now, faults, recorded>>
    BY <1>2 DEF EngineSwitch
  <2>6. AutoWorld'
    <3> HIDE DEF s
    <3> QED
      BY <1>0, <2>2, <2>5 DEF AutoWorld, accounts
  <2> HIDE DEF n
  <2> QED
    BY <2>3, <2>4, <2>6, TickEnds DEF EngineGoes
<1>3. ASSUME EngineSwitchFails(e) PROVE AutoWorld' /\ EngineGoes(e)
  <2>1. AutoWorld'
    BY <1>0, <1>3, WorldSame DEF EngineSwitchFails, SameAccounts
  <2> QED
    BY <1>3, <2>1, TickBreaks DEF EngineSwitchFails
<1>4. ASSUME RecordSwitch(e) PROVE AutoWorld' /\ EngineGoes(e)
  <2> DEFINE next == [stateFile EXCEPT !.lastSwitchAt = now]
  <2>1. /\ EndTick(e, r, Sleeps) /\ stateFile' = next /\ stateLock' = Nobody
        /\ SameAccounts /\ faults' = faults /\ recorded' = now
    BY <1>4 DEF RecordSwitch, SameAccounts
  <2>2. now \in Nil .. MaxTime
    BY <1>0, HaveLimits DEF AutoWorld, Nil, Limits
  <2>3. /\ {"lastSwitchAt", "quarantine"} \subseteq DOMAIN next
        /\ next.lastSwitchAt \in Nil .. MaxTime /\ next.quarantine \in [Slot -> Entries]
    <3>1. /\ {"lastSwitchAt", "quarantine"} \subseteq DOMAIN stateFile
          /\ stateFile.quarantine \in [Slot -> Entries]
      BY <1>0 DEF AutoWorld
    <3> QED
      BY <2>2, <3>1
  <2> HIDE DEF next
  <2>4. AutoWorld'
    BY <1>0, <2>1, <2>2, <2>3, WorldStays
  <2> QED
    BY <2>1, <2>4, TickEnds
<1>5. ASSUME RecordFails(e) PROVE AutoWorld' /\ EngineGoes(e)
  <2>1. AutoWorld'
    BY <1>0, <1>5, WorldSame DEF RecordFails, SameAccounts
  <2> QED
    BY <1>5, <2>1, TickBreaks DEF RecordFails
<1>6. ASSUME EngineDies(e) PROVE AutoWorld' /\ EngineGoes(e)
  <2>1. AutoWorld'
    BY <1>0, <1>6, WorldSame DEF EngineDies, SameAccounts
  <2> QED
    BY <1>6, <2>1, AsleepTyped DEF EngineDies, EngineGoes
<1>7. AutoWorld' /\ EngineGoes(e)
  BY <1>1, <1>2, <1>3, <1>4, <1>5, <1>6
<1> QED
  BY <1>0, <1>7, OneMoves DEF AutoInv

\* The user and the accounts.
LEMMA OthersTyped ==
  ASSUME AutoInv,
         \/ UserChooses \/ UserSwitches
         \/ \E a \in Slot \cup {Nil, Unmanaged} : Login(a)
         \/ \E s \in Slot \ ApiKey, who \in {0, 1}, t \in Nil .. MaxToken : ReAdd(s, who, t)
         \/ \E s \in Slot \ ApiKey : Disturb(s)
         \/ TimePasses \/ UNCHANGED autoVars
  PROVE  AutoInv'
<1>0. AutoWorld /\ EnginesTyped
  BY DEF AutoInv
<1>c. Fault => faults' \in 0 .. MaxFaults
  BY <1>0, HaveLimits DEF AutoWorld, Fault, Limits
<1>1. CASE UserChooses
  <2>1. user' \in Slot \cup {Nil}
    BY <1>0, <1>1, UserChoice DEF AutoWorld
  <2>2. Fault /\ UNCHANGED <<active, listed, accounts, stateFile, stateLock, eng, policy, now, recorded>>
    BY <1>1 DEF UserChooses
  <2> QED
    BY <1>0, <1>c, <2>1, <2>2 DEF AutoInv, AutoWorld, EnginesTyped, accounts
<1>2. CASE UserSwitches
  <2>1. /\ user # Nil /\ user' = Nil
        /\ active' \in {active, user} /\ listed' \in {listed, user}
        /\ UNCHANGED <<accounts, stateFile, stateLock, eng, policy, now, faults, recorded>>
    BY <1>2 DEF UserSwitches
  <2> QED
    BY <1>0, <2>1 DEF AutoInv, AutoWorld, EnginesTyped, accounts
<1>3. ASSUME NEW a \in Slot \cup {Nil, Unmanaged}, Login(a) PROVE AutoInv'
  <2>1. /\ Fault /\ active' = a
        /\ UNCHANGED <<listed, accounts, stateFile, stateLock, eng, user, policy, now, recorded>>
    BY <1>3 DEF Login
  <2> QED
    BY <1>0, <1>3, <1>c, <2>1 DEF AutoInv, AutoWorld, EnginesTyped, accounts
<1>4. ASSUME NEW s \in Slot, NEW who \in {0, 1}, NEW t \in Nil .. MaxToken, ReAdd(s, who, t)
      PROVE  AutoInv'
  <2>1. /\ Fault /\ held' = [held EXCEPT ![s] = t] /\ owner' = [owner EXCEPT ![s] = who]
        /\ near' = near \ {s}
        /\ UNCHANGED <<active, listed, away, sessions, usage, refused, foreign, stateFile, stateLock,
                       eng, user, policy, now, recorded>>
    BY <1>4 DEF ReAdd
  <2> QED
    BY <1>0, <1>c, <2>1 DEF AutoInv, AutoWorld, EnginesTyped
<1>5. ASSUME NEW s \in Slot, Disturb(s) PROVE AutoInv'
  <2>0. held[s] \in Nil .. MaxToken /\ MaxToken \in Nat
    BY <1>0, HaveLimits DEF AutoWorld, Limits
  <2>1. refused' = refused \/ (held[s] > 0 /\ refused' = refused \cup {held[s]})
    BY <1>5 DEF Disturb
  <2>2. refused' \cup foreign \subseteq 1 .. MaxToken
    BY <1>0, <2>0, <2>1 DEF AutoWorld, Nil
  <2>3. near' \subseteq near \cup {s} /\ away' \subseteq away \cup {s} /\ sessions' \subseteq sessions \cup {s}
    BY <1>5 DEF Disturb
  <2>4. usage' = usage \/ \E u \in Readings : usage' = [usage EXCEPT ![s] = u]
    BY <1>5 DEF Disturb
  <2>5. usage' \in [Slot -> Readings]
    BY <1>0, <2>4 DEF AutoWorld
  <2>6. Fault /\ UNCHANGED <<active, listed, held, owner, foreign, stateFile, stateLock, eng, user,
                             policy, now, recorded>>
    BY <1>5 DEF Disturb
  <2> QED
    BY <1>0, <1>c, <2>2, <2>3, <2>5, <2>6 DEF AutoInv, AutoWorld, EnginesTyped
<1>6. CASE TimePasses
  <2>1. /\ now < MaxTime /\ now' = now + 1
        /\ UNCHANGED <<active, listed, accounts, stateFile, stateLock, eng, user, policy, faults,
                       recorded>>
    BY <1>6 DEF TimePasses
  <2>2. now' \in 0 .. MaxTime
    BY <1>0, <2>1, HaveLimits DEF AutoWorld, Limits
  <2> QED
    BY <1>0, <2>1, <2>2 DEF AutoInv, AutoWorld, EnginesTyped, accounts
<1>7. CASE UNCHANGED autoVars
  BY <1>0, <1>7 DEF AutoInv, AutoWorld, EnginesTyped, autoVars
<1> QED
  BY <1>1, <1>2, <1>3, <1>4, <1>5, <1>6, <1>7

LEMMA AutoStep == ASSUME AutoInv, [AutoNext]_autoVars PROVE AutoInv'
<1>1. CASE \E e \in Engine : EngineStep(e)
  BY <1>1, DecidingTyped, FresheningTyped, SwitchingTyped DEF EngineStep
<1>2. CASE ~\E e \in Engine : EngineStep(e)
  BY <1>2, OthersTyped, Zenon DEF AutoNext
<1> QED
  BY <1>1, <1>2

\* Whatever the engines, the user and the accounts do, the state of the automatic switch has
\* its type: an engine never works on a slot that is not on the roster, or twice on one
\* in a tick, and the state lock is held by the engine that switches and by no other.
THEOREM AutoTyped == AutoSpec => []AutoTypeOK
<1>1. AutoInv /\ CooldownInv => AutoTypeOK
  <2> SUFFICES ASSUME AutoInv, CooldownInv PROVE AutoTypeOK
    OBVIOUS
  <2>1. \A e \in Engine : /\ eng[e].st \in Stages
                          /\ eng[e].todo \in Seq(Slot) /\ IsInjective(eng[e].todo)
                          /\ eng[e].st \in {"switch", "record"} <=> stateLock = e
    BY DEF AutoInv, EnginesTyped, EngineTyped, CooldownInv, CooldownFor, Switching
  <2>2. \A q \in Seq(Slot) : ToSet(q) \subseteq Slot
    BY DEF ToSet
  <2>3. \A s \in Slot : stateFile.quarantine[s].token \in Nil .. MaxToken
    BY DEF AutoInv, AutoWorld, Entries
  <2> QED
    BY <2>1, <2>2, <2>3 DEF AutoInv, AutoWorld, AutoTypeOK
<1>2. AutoInv /\ [AutoNext]_autoVars => AutoInv'
  BY AutoStep
<1>3. CooldownInv /\ [AutoNext]_autoVars => CooldownInv'
  BY NextCooldown
<1> QED
  BY <1>1, <1>2, <1>3, StartTyped, InitCooldown, PTL DEF AutoSpec

-----------------------------------------------------------------------------
(* The services together.                                                    *)

\* Each service moves by its own steps, and stands still while another moves.
LEMMA EachMovesAlone ==
  ASSUME [Next]_<<part, serviceVars>>
  PROVE  /\ [AutoNext]_autoVars /\ [PollNext]_pollVars /\ [DashNext]_dashVars
         /\ [VaultNext]_vaultVars /\ [TransferNext]_transferVars
         /\ [SharingNext]_sharingVars /\ [SettingsNext]_settingsVars
BY Zenon DEF Next, serviceVars

LEMMA EachIsItself ==
  Spec => /\ AutoSpec /\ PollSpec /\ DashSpec /\ VaultSpec /\ TransferSpec
          /\ SharingSpec /\ SettingsSpec
<1>1. Init => /\ AutoInit /\ PollInit /\ DashInit /\ VaultInit /\ TransferInit
              /\ SharingInit /\ SettingsInit
  BY DEF Init
<1>2. [Next]_<<part, serviceVars>> =>
        /\ [AutoNext]_autoVars /\ [PollNext]_pollVars /\ [DashNext]_dashVars
        /\ [VaultNext]_vaultVars /\ [TransferNext]_transferVars
        /\ [SharingNext]_sharingVars /\ [SettingsNext]_settingsVars
  BY EachMovesAlone
<1> QED
  BY <1>1, <1>2, PTL DEF Spec, AutoSpec, PollSpec, DashSpec, VaultSpec, TransferSpec, SharingSpec,
                         SettingsSpec

\* The state of every service has its type whatever happens in any of them, and the settings
\* in force lie in their ranges (settings.go clampValue).
THEOREM ServicesTyped == Spec => []TypeOK
<1>1. (/\ AutoTypeOK /\ PollTypeOK /\ DashTypeOK /\ VaultTypeOK /\ TransferTypeOK
       /\ SharingTypeOK /\ SettingsTypeOK) => TypeOK
  BY DEF TypeOK
<1> QED
  BY <1>1, EachIsItself, AutoTyped, PollingTyped, DashboardTyped, VaultTyped, TransferTyped,
     SharingTyped, SettingsInRange, PTL
=============================================================================
