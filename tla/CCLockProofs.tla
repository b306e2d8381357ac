---------------------------- MODULE CCLockProofs ----------------------------
(* TLAPS proofs about CCLock, for any set of actors and any timing constants *)
(* in which a touch interval, and one unit for Release's join, fit into the  *)
(* staleness window.  What they say of exclusion is about behaviours in which  *)
(* no fault has orphaned a lock or stopped its toucher.                      *)
EXTENDS CCLock, TLAPS

\* The directory exists exactly while the actor that made it holds the lock.
DirIsHeld ==
  \A p \in Actor : dir = p <=> pc[p] \in {"held", "stopped"}

\* The age of the directory is bounded by the holder's touch timer, which
\* the holder never lets run past its interval.
TimerBoundsAge ==
  \A p \in Actor :
    /\ touching[p] <=> pc[p] = "held"
    /\ pc[p] = "held" => sinceTouch[p] <= TouchEvery[p]
    /\ pc[p] = "stopped" => sinceTouch[p] <= TouchEvery[p] + 1
    /\ dir = p => age <= sinceTouch[p]

\* Nobody ever decides to remove a lock.
NobodyRemoves == \A p \in Actor : pc[p] # "remove"

\* The inductive invariant: exclusion depends on the age of the directory,
\* and that on the holder's timer.
IInv == TypeOK /\ (lapses = 0 => DirIsHeld /\ TimerBoundsAge /\ NobodyRemoves)

\* Initially there is no directory and nobody is waiting.
LEMMA InitIInv == Init => IInv
  BY TimingAssumption DEF Init, IInv, TypeOK, DirIsHeld, TimerBoundsAge, NobodyRemoves, Label

\* Until a fault orphans a lock, a directory that exists is not stale.
LEMMA Fresh == IInv /\ lapses = 0 => (dir # Free => age <= Stale)
<1> SUFFICES ASSUME IInv, lapses = 0, dir # Free PROVE age <= Stale
  OBVIOUS
<1>1. dir \in Actor /\ pc[dir] \in {"held", "stopped"}
  BY DEF IInv, TypeOK, DirIsHeld
<1>2. age <= sinceTouch[dir] /\ sinceTouch[dir] <= TouchEvery[dir] + 1
  BY <1>1, TimingAssumption DEF IInv, TypeOK, TimerBoundsAge
<1> QED
  BY <1>1, <1>2, TimingAssumption DEF IInv, TypeOK

\* Every step of an actor, and the passing of time, preserves the invariant.
LEMMA NextIInv == IInv /\ [Next]_vars => IInv'
<1> SUFFICES ASSUME IInv, [Next]_vars PROVE IInv'
  OBVIOUS
<1> USE TimingAssumption DEF IInv, TypeOK, DirIsHeld, TimerBoundsAge, NobodyRemoves, Label,
                            Goto, ResetTimer
<1>1. ASSUME NEW p \in Actor, MkdirWins(p) PROVE IInv'
  BY <1>1 DEF MkdirWins, Tries
<1>2. ASSUME NEW p \in Actor, MkdirExists(p) PROVE IInv'
  BY <1>2 DEF MkdirExists, Tries
<1>3. ASSUME NEW p \in Actor, TimedOut(p) PROVE IInv'
  BY <1>3 DEF TimedOut
<1>4. ASSUME NEW p \in Actor, Stat(p) PROVE IInv'
  BY <1>4, Fresh DEF Stat
<1>5. ASSUME NEW p \in Actor, RemoveStale(p) PROVE IInv'
  BY <1>5 DEF RemoveStale
<1>6. ASSUME NEW p \in Actor, BackoffEnds(p) PROVE IInv'
  BY <1>6 DEF BackoffEnds
<1>7. ASSUME NEW p \in Actor, SyscallFails(p) PROVE IInv'
  BY <1>7 DEF SyscallFails, Fault
<1>8. ASSUME NEW p \in Actor, Touch(p) PROVE IInv'
  BY <1>8 DEF Touch
<1>9. ASSUME NEW p \in Actor, Release(p) PROVE IInv'
  BY <1>9 DEF Release
<1>10. ASSUME NEW p \in Actor, RemoveOwn(p) PROVE IInv'
  BY <1>10 DEF RemoveOwn
<1>11. CASE Tick
  <2>1. TypeOK' /\ lapses' = lapses /\ (lapses = 0 => DirIsHeld' /\ NobodyRemoves')
    BY <1>11 DEF Tick, Waiting
  <2>2. ASSUME NEW p \in Actor, lapses = 0
        PROVE /\ touching'[p] <=> pc'[p] = "held"
              /\ pc'[p] = "held" => sinceTouch'[p] <= TouchEvery[p]
              /\ pc'[p] = "stopped" => sinceTouch'[p] <= TouchEvery[p] + 1
    BY <1>11, <2>2 DEF Tick, Timely
  <2>3. ASSUME NEW p \in Actor, lapses = 0, dir' = p PROVE age' <= sinceTouch'[p]
    BY <1>11, <2>3 DEF Tick, Timely
  <2> QED
    BY <2>1, <2>2, <2>3
<1>12. ASSUME NEW p \in Actor, Crash(p) PROVE IInv'
  BY <1>12 DEF Crash, Fault
<1>13. CASE UNCHANGED vars
  BY <1>13 DEF vars
<1>14. ASSUME NEW p \in Actor, RemoveFails(p) PROVE IInv'
  BY <1>14 DEF RemoveFails, Fault
<1>15. ASSUME NEW p \in Actor, TouchFails(p) PROVE IInv'
  BY <1>15 DEF TouchFails, Fault
<1> QED
  BY <1>1, <1>2, <1>3, <1>4, <1>5, <1>6, <1>7, <1>8, <1>9, <1>10, <1>11, <1>12, <1>13, <1>14, <1>15
     DEF Next, Step

\* The type invariant and the timing invariant hold of every reachable state.
THEOREM Invariance == Spec => []IInv
  BY InitIInv, NextIInv, PTL DEF Spec

\* Every variable keeps its type: the saturating clocks stay within their windows.
THEOREM TypeCorrect == Spec => []TypeOK
<1>1. IInv => TypeOK
  BY DEF IInv
<1> QED
  BY <1>1, Invariance, PTL

\* Until a fault orphans a lock or stops its toucher, at most one actor holds it.
THEOREM Exclusion == Spec => []MutualExclusion
<1>1. IInv => MutualExclusion
  BY TimingAssumption DEF IInv, TypeOK, DirIsHeld, MutualExclusion, Exclusive
<1> QED
  BY <1>1, Invariance, PTL

\* Until such a fault no waiter ever finds a live holder's directory stale:
\* touching beats the staleness window, Release's join of the toucher included.
THEOREM StaysFresh == Spec => []LiveLockStaysFresh
<1>1. IInv => LiveLockStaysFresh
  BY Fresh, TimingAssumption DEF IInv, DirIsHeld, LiveLockStaysFresh
<1> QED
  BY <1>1, Invariance, PTL
=============================================================================
