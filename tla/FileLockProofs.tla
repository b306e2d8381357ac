--------------------------- MODULE FileLockProofs ---------------------------
(* TLAPS proofs about FileLock, for any number of processes, FileLock        *)
(* objects and goroutines and for any timeout.                               *)
EXTENDS FileLock, TLAPS

\* Only the descriptor the kernel granted lets a goroutine into the span, and
\* the object's fields, its mutex and the goroutine's place in the code agree.
Ownership ==
  \A g \in Goroutine :
    /\ pc[g] \in {"open", "poll", "held", "unlock", "unhold"} => hold[LockOf[g]] = g
    /\ pc[g] \in {"held", "unlock"} => flock = g
    /\ pc[g] = "held" => file[LockOf[g]] = g
    /\ pc[g] = "unlock" => closing[g] = g

\* hold is owned only from inside the span (HoldIsAccountedFor), the flock only
\* between the grant and the unlock.
Accounting ==
  /\ HoldIsAccountedFor
  /\ flock # NoOne => pc[flock] \in {"held", "unlock"}

\* The inductive invariant: mutual exclusion alone does not say that the field
\* Release reads still names the holder's descriptor.
IInv == TypeOK /\ Ownership /\ Accounting

\* In the initial state nothing is held.
LEMMA InitIInv == Init => IInv
  BY LockAssumption DEF Init, IInv, TypeOK, Ownership, Accounting, HoldIsAccountedFor, Label

\* Every step of a goroutine, and the death of a process, preserves the invariant.
LEMMA NextIInv == IInv /\ [Next]_vars => IInv'
<1> SUFFICES ASSUME IInv, [Next]_vars PROVE IInv'
  OBVIOUS
<1> USE LockAssumption DEF IInv, TypeOK, Ownership, Accounting, HoldIsAccountedFor, Label,
                          Goto, Unhold, ResetPolls
<1>1. ASSUME NEW g \in Goroutine, CallAcquire(g) PROVE IInv'
  BY <1>1 DEF CallAcquire
<1>2. ASSUME NEW g \in Goroutine, TakeHold(g) PROVE IInv'
  BY <1>2 DEF TakeHold
<1>3. ASSUME NEW g \in Goroutine, OpenFails(g) PROVE IInv'
  BY <1>3 DEF OpenFails
<1>4. ASSUME NEW g \in Goroutine, OpenFile(g) PROVE IInv'
  BY <1>4 DEF OpenFile
<1>5. ASSUME NEW g \in Goroutine, TryLockGrants(g) PROVE IInv'
  BY <1>5 DEF TryLockGrants
<1>6. ASSUME NEW g \in Goroutine, TryLockBusy(g) PROVE IInv'
  BY <1>6 DEF TryLockBusy
<1>7. ASSUME NEW g \in Goroutine, TimedOut(g) PROVE IInv'
  BY <1>7 DEF TimedOut
<1>8. ASSUME NEW g \in Goroutine, TryLockFails(g) PROVE IInv'
  BY <1>8 DEF TryLockFails
<1>9. ASSUME NEW g \in Goroutine, Release(g) PROVE IInv'
  BY <1>9 DEF Release
<1>10. ASSUME NEW g \in Goroutine, Unlock(g) PROVE IInv'
  BY <1>10 DEF Unlock
<1>11. ASSUME NEW g \in Goroutine, GiveHoldBack(g) PROVE IInv'
  BY <1>11 DEF GiveHoldBack
<1>12. ASSUME NEW p \in Process, Crash(p) PROVE IInv'
  BY <1>12 DEF Crash, InProcess
<1>13. CASE UNCHANGED vars
  BY <1>13 DEF vars
<1> QED
  BY <1>1, <1>2, <1>3, <1>4, <1>5, <1>6, <1>7, <1>8, <1>9, <1>10, <1>11, <1>12, <1>13
     DEF Next, Step

\* The type invariant and the ownership invariant hold of every reachable state.
THEOREM Invariance == Spec => []IInv
  BY InitIInv, NextIInv, PTL DEF Spec

\* No two goroutines, whatever processes and FileLock objects they use, are
\* between Acquire and Release at once.
THEOREM Exclusion == Spec => []MutualExclusion
<1>1. IInv => MutualExclusion
  BY DEF IInv, Ownership, MutualExclusion
<1> QED
  BY <1>1, Invariance, PTL

\* Every variable keeps its type; polls stays below its bound by TryLockBusy's guard.
THEOREM TypeCorrect == Spec => []TypeOK
<1>1. IInv => TypeOK
  BY DEF IInv
<1> QED
  BY <1>1, Invariance, PTL

\* Release closes the caller's own descriptor, although it finds it in a field
\* that every goroutine of the process shares.
THEOREM ReleaseIsOwn == Spec => []ReleasesOwnDescriptor
<1>1. IInv => ReleasesOwnDescriptor
  BY DEF IInv, Ownership, ReleasesOwnDescriptor
<1> QED
  BY <1>1, Invariance, PTL

\* Every early return of Acquire gives hold back: its owner, if there is one, is
\* still between Acquire and Release of that object.
THEOREM HoldAccounted == Spec => []HoldIsAccountedFor
<1>1. IInv => HoldIsAccountedFor
  BY DEF IInv, Accounting
<1> QED
  BY <1>1, Invariance, PTL

\* The lock implements the abstract exclusive lock Mutex: whoever enters finds
\* nobody inside, and a step of the lock changes the holders by at most one.
THEOREM Refinement == Spec => ImplementsMutex
<1>1. Init => M!Init
  BY DEF Init, M!Init, Holders
<1>2. IInv /\ [Next]_vars => [M!Next]_Holders
  <2> SUFFICES ASSUME IInv, [Next]_vars PROVE [M!Next]_Holders
    OBVIOUS
  <2> USE DEF IInv, TypeOK, Ownership, Holders, Goto, Label
  <2>1. ASSUME NEW g \in Goroutine, TryLockGrants(g) PROVE M!Enter(g)
    BY <2>1, LockAssumption DEF TryLockGrants, M!Enter
  <2>2. ASSUME NEW g \in Goroutine, Release(g) PROVE M!Leave(g)
    BY <2>2 DEF Release, M!Leave
  <2>3. ASSUME NEW g \in Goroutine,
               \/ CallAcquire(g) \/ TakeHold(g) \/ OpenFails(g) \/ OpenFile(g) \/ TryLockBusy(g)
               \/ TimedOut(g) \/ TryLockFails(g) \/ Unlock(g) \/ GiveHoldBack(g)
        PROVE UNCHANGED Holders
    BY <2>3 DEF CallAcquire, TakeHold, OpenFails, OpenFile, TryLockBusy,
                TimedOut, TryLockFails, Unlock, GiveHoldBack
  <2>4. ASSUME NEW p \in Process, Crash(p)
        PROVE UNCHANGED Holders \/ \E g \in Goroutine : M!Leave(g)
    <3>1. CASE \E g \in Holders : InProcess(g, p)
      <4>1. PICK g \in Holders : InProcess(g, p)
        BY <3>1
      <4>2. Holders = {g} /\ Holders' = {}
        BY <2>4, <4>1 DEF Crash
      <4> QED BY <4>2 DEF M!Leave
    <3>2. CASE ~ \E g \in Holders : InProcess(g, p)
      BY <2>4, <3>2 DEF Crash
    <3> QED BY <3>1, <3>2
  <2>5. CASE UNCHANGED vars
    BY <2>5 DEF vars
  <2> QED
    BY <2>1, <2>2, <2>3, <2>4, <2>5 DEF Next, Step, M!Next
<1> QED
  BY <1>1, <1>2, Invariance, PTL DEF Spec, ImplementsMutex, M!Spec
=============================================================================
