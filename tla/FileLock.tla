------------------------------ MODULE FileLock ------------------------------
(* internal/filelock: the advisory lock cswap takes around every change of   *)
(* its own files.  Several FileLock objects, in one process or in several,   *)
(* name the same path; goroutines of one process may share one object.       *)
(*                                                                           *)
(* Acquire first takes the object's in-process mutex `hold' (no timeout),    *)
(* then opens a descriptor of its own and polls flock(LOCK_EX|LOCK_NB) until *)
(* it is granted or the timeout has passed.  Release clears the file/locked  *)
(* fields under `mu', unlocks and closes the descriptor it found there, and  *)
(* only then gives `hold' back.  The kernel drops the flock of a dead process. *)
EXTENDS Naturals

CONSTANTS Goroutine,   \* goroutines, of every process
          Lock,        \* FileLock objects: all of them name one path
          Process,
          NoOne,
          LockOf,      \* the object a goroutine acquires through
          ProcOf,      \* the process an object lives in
          MaxPolls     \* timeout / pollInterval

ASSUME LockAssumption ==
  /\ NoOne \notin Goroutine
  /\ LockOf \in [Goroutine -> Lock]
  /\ ProcOf \in [Lock -> Process]
  /\ MaxPolls \in Nat

VARIABLES pc,      \* where each goroutine is in Acquire ... Release
          hold,    \* owner of each object's in-process mutex
          file,    \* the object's file/locked fields: whose descriptor, if any
          flock,   \* whose descriptor the kernel has granted the lock
          polls,   \* failed tries so far: the elapsed time in poll intervals
          closing  \* the descriptor Release found in the fields

vars == <<pc, hold, file, flock, polls, closing>>

Label == {"idle", "wantHold", "open", "poll", "held", "unlock", "unhold"}

Init ==
  /\ pc = [g \in Goroutine |-> "idle"]
  /\ hold = [l \in Lock |-> NoOne]
  /\ file = [l \in Lock |-> NoOne]
  /\ flock = NoOne
  /\ polls = [g \in Goroutine |-> 0]
  /\ closing = [g \in Goroutine |-> NoOne]

Goto(g, label) == pc' = [pc EXCEPT ![g] = label]

Unhold(g) == hold' = [hold EXCEPT ![LockOf[g]] = NoOne]

ResetPolls(g) == polls' = [polls EXCEPT ![g] = 0]

CallAcquire(g) ==
  /\ pc[g] = "idle"
  /\ Goto(g, "wantHold")
  /\ UNCHANGED <<hold, file, flock, polls, closing>>

TakeHold(g) ==
  /\ pc[g] = "wantHold"
  /\ hold[LockOf[g]] = NoOne
  /\ hold' = [hold EXCEPT ![LockOf[g]] = g]
  /\ Goto(g, "open")
  /\ UNCHANGED <<file, flock, polls, closing>>

OpenFailsBug(g) ==
  /\ pc[g] = "open"
  /\ Goto(g, "idle")
  /\ UNCHANGED <<hold, file, flock, polls, closing>>

\* MkdirAll or OpenFile fails: hold is returned and Acquire reports the error.
OpenFails(g) ==
  /\ pc[g] = "open"
  /\ Unhold(g)
  /\ Goto(g, "idle")
  /\ UNCHANGED <<file, flock, polls, closing>>

OpenFile(g) ==
  /\ pc[g] = "open"
  /\ Goto(g, "poll")
  /\ UNCHANGED <<hold, file, flock, polls, closing>>

TryLockGrantsBug(g) ==
  /\ pc[g] = "poll"
  /\ flock' = g
  /\ file' = [file EXCEPT ![LockOf[g]] = g]
  /\ Goto(g, "held")
  /\ ResetPolls(g)
  /\ UNCHANGED <<hold, closing>>

TryLockGrants(g) ==
  /\ pc[g] = "poll"
  /\ flock = NoOne
  /\ flock' = g
  /\ file' = [file EXCEPT ![LockOf[g]] = g]
  /\ Goto(g, "held")
  /\ ResetPolls(g)
  /\ UNCHANGED <<hold, closing>>

TryLockBusyBug(g) ==
  /\ pc[g] = "poll"
  /\ flock # NoOne
  /\ polls' = [polls EXCEPT ![g] = @ + 1]
  /\ UNCHANGED <<pc, hold, file, flock, closing>>

TryLockBusy(g) ==
  /\ pc[g] = "poll"
  /\ flock # NoOne
  /\ polls[g] <= MaxPolls
  /\ polls' = [polls EXCEPT ![g] = @ + 1]
  /\ UNCHANGED <<pc, hold, file, flock, closing>>

TimedOutBug(g) ==
  /\ pc[g] = "poll"
  /\ flock # NoOne
  /\ polls[g] > MaxPolls
  /\ Goto(g, "idle")
  /\ ResetPolls(g)
  /\ UNCHANGED <<hold, file, flock, closing>>

\* One more refused try after the timeout has passed: close, give hold back, report false.
TimedOut(g) ==
  /\ pc[g] = "poll"
  /\ flock # NoOne
  /\ polls[g] > MaxPolls
  /\ Unhold(g)
  /\ Goto(g, "idle")
  /\ ResetPolls(g)
  /\ UNCHANGED <<file, flock, closing>>

TryLockFails(g) ==
  /\ pc[g] = "poll"
  /\ Unhold(g)
  /\ Goto(g, "idle")
  /\ ResetPolls(g)
  /\ UNCHANGED <<file, flock, closing>>

\* The caller's deferred Release.  A Release that finds nothing held returns
\* without touching hold.
Release(g) ==
  /\ pc[g] = "held"
  /\ closing' = [closing EXCEPT ![g] = file[LockOf[g]]]
  /\ file' = [file EXCEPT ![LockOf[g]] = NoOne]
  /\ Goto(g, IF file[LockOf[g]] = NoOne THEN "idle" ELSE "unlock")
  /\ UNCHANGED <<hold, flock, polls>>

Unlock(g) ==
  /\ pc[g] = "unlock"
  /\ flock' = IF flock = closing[g] THEN NoOne ELSE flock
  /\ Goto(g, "unhold")
  /\ UNCHANGED <<hold, file, polls, closing>>

GiveHoldBack(g) ==
  /\ pc[g] = "unhold"
  /\ Unhold(g)
  /\ closing' = [closing EXCEPT ![g] = NoOne]
  /\ Goto(g, "idle")
  /\ UNCHANGED <<file, flock, polls>>

InProcess(g, p) == ProcOf[LockOf[g]] = p

\* The process dies and is started again: its objects are new and the kernel
\* drops the locks of its descriptors.
Crash(p) ==
  /\ pc' = [g \in Goroutine |-> IF InProcess(g, p) THEN "idle" ELSE pc[g]]
  /\ hold' = [l \in Lock |-> IF ProcOf[l] = p THEN NoOne ELSE hold[l]]
  /\ file' = [l \in Lock |-> IF ProcOf[l] = p THEN NoOne ELSE file[l]]
  /\ flock' = IF flock \in Goroutine /\ InProcess(flock, p) THEN NoOne ELSE flock
  /\ polls' = [g \in Goroutine |-> IF InProcess(g, p) THEN 0 ELSE polls[g]]
  /\ closing' = [g \in Goroutine |-> IF InProcess(g, p) THEN NoOne ELSE closing[g]]

Step(g) ==
  \/ OpenFails(g) \/ OpenFile(g)
  \/ TryLockGrants(g) \/ TryLockBusy(g) \/ TimedOut(g) \/ TryLockFails(g)
  \/ Release(g) \/ Unlock(g) \/ GiveHoldBack(g)

Next ==
  \/ \E g \in Goroutine : CallAcquire(g) \/ TakeHold(g) \/ Step(g)
  \/ \E p \in Process : Crash(p)

Spec == Init /\ [][Next]_vars

\* A running goroutine keeps running (the spans under the lock do bounded work
\* and never prompt), and sync.Mutex, in starvation mode, hands hold to a
\* goroutine that keeps asking for it.
FairSpec ==
  /\ Spec
  /\ \A g \in Goroutine : WF_vars(Step(g)) /\ SF_vars(TakeHold(g))

---------------------------------------------------------------------------
TypeOK ==
  /\ pc \in [Goroutine -> Label]
  /\ hold \in [Lock -> Goroutine \cup {NoOne}]
  /\ file \in [Lock -> Goroutine \cup {NoOne}]
  /\ flock \in Goroutine \cup {NoOne}
  /\ polls \in [Goroutine -> 0 .. MaxPolls + 1]
  /\ closing \in [Goroutine -> Goroutine \cup {NoOne}]

\* At most one goroutine, of any process and through any FileLock object, is
\* between a successful Acquire and its Release.
MutualExclusion ==
  \A g, h \in Goroutine : pc[g] = "held" /\ pc[h] = "held" => g = h

\* The file/locked fields of a held object name the holder's own descriptor,
\* and a Release under way closes its own descriptor: Release never drops
\* somebody else's flock, although it reads a field every goroutine shares.
ReleasesOwnDescriptor ==
  \A g \in Goroutine :
    /\ pc[g] = "held" => file[LockOf[g]] = g
    /\ pc[g] = "unlock" => closing[g] = g /\ flock = g

\* Whoever owns an object's mutex is inside its Acquire ... Release span: every
\* early return of Acquire has given hold back, so no caller is blocked by a
\* goroutine that has gone on.
HoldIsAccountedFor ==
  \A l \in Lock : hold[l] # NoOne =>
    LockOf[hold[l]] = l /\ pc[hold[l]] \notin {"idle", "wantHold"}

\* Every call of Acquire returns: with the lock, or with the timeout or an
\* error, even though waiting for hold has no timeout of its own.
AcquireReturns ==
  \A g \in Goroutine : pc[g] = "wantHold" ~> pc[g] \in {"held", "idle"}

\* The goroutines inside the locked span behave as the holders of one abstract
\* exclusive lock.
Holders == {g \in Goroutine : pc[g] = "held"}
M == INSTANCE Mutex WITH Actor <- Goroutine, holders <- Holders
ImplementsMutex == M!Spec
=============================================================================
