------------------------------- MODULE CCLock -------------------------------
(* internal/cclock: the proper-lockfile directory lock cswap shares with     *)
(* Claude Code.  mkdir is the mutex; a holder bumps the directory's mtime    *)
(* every TouchEvery time units; a waiter that finds the mtime more than      *)
(* Stale old removes the directory and starts over.  mkdir, stat and rmdir   *)
(* are separate system calls: other actors run between them.                 *)
EXTENDS Naturals

CONSTANTS Actor,       \* cswap and Claude Code processes
          Free,        \* no lock directory
          TouchEvery,  \* touch interval of each actor (cswap 3s, Claude Code 5s)
          Stale,       \* StalenessS
          Timeout,     \* DefaultTimeoutS
          MaxFaults    \* bound: deaths and failing system calls in a behaviour

ASSUME TimingAssumption ==
  /\ Free \notin Actor
  /\ Stale \in Nat /\ Timeout \in Nat /\ MaxFaults \in Nat
  /\ TouchEvery \in [Actor -> Nat \ {0}]
  /\ \A p \in Actor : TouchEvery[p] + 1 <= Stale  \* one unit more: Release's join

VARIABLES pc,          \* where each actor is in Acquire ... Release
          dir,         \* the lock directory: the actor whose mkdir made it, or Free
          age,         \* now - mtime, saturating just past Stale
          waited,      \* time since Acquire's start, saturating just past Timeout
          sinceTouch,  \* time since the toucher's ticker last fired
          touching,    \* the toucher goroutine is running
          lapses,      \* history: locks orphaned, or no longer kept fresh, by a fault
          faults       \* faults so far

vars == <<pc, dir, age, waited, sinceTouch, touching, lapses, faults>>

Label == {"idle", "mkdir", "stat", "remove", "sleep", "held", "stopped"}

Init ==
  /\ pc = [p \in Actor |-> "idle"]
  /\ dir = Free
  /\ age = 0
  /\ waited = [p \in Actor |-> 0]
  /\ sinceTouch = [p \in Actor |-> 0]
  /\ touching = [p \in Actor |-> FALSE]
  /\ lapses = 0
  /\ faults = 0

Goto(p, label) == pc' = [pc EXCEPT ![p] = label]

ResetTimer(p) == waited' = [waited EXCEPT ![p] = 0]

Fault == faults < MaxFaults /\ faults' = faults + 1

\* Acquire tries to make the directory as soon as it is called, and again
\* after each wait.
Tries(p) == pc[p] \in {"idle", "mkdir"}

MkdirWins(p) ==
  /\ Tries(p)
  /\ dir = Free
  /\ dir' = p
  /\ age' = 0
  /\ sinceTouch' = [sinceTouch EXCEPT ![p] = 0]
  /\ touching' = [touching EXCEPT ![p] = TRUE]
  /\ ResetTimer(p)
  /\ Goto(p, "held")
  /\ UNCHANGED <<lapses, faults>>

MkdirExists(p) ==
  /\ Tries(p)
  /\ dir # Free
  /\ waited[p] <= Timeout
  /\ Goto(p, "stat")
  /\ UNCHANGED <<dir, age, waited, sinceTouch, touching, lapses, faults>>

TimedOutBug(p) ==
  /\ pc[p] = "mkdir"
  /\ dir # Free
  /\ waited[p] > Timeout
  /\ Goto(p, "sleep")
  /\ UNCHANGED <<dir, age, waited, sinceTouch, touching, lapses, faults>>

\* The directory exists and the timeout has passed: ClaudeCodeLockTimeout.
TimedOut(p) ==
  /\ pc[p] = "mkdir"
  /\ dir # Free
  /\ waited[p] > Timeout
  /\ ResetTimer(p)
  /\ Goto(p, "idle")
  /\ UNCHANGED <<dir, age, sinceTouch, touching, lapses, faults>>

\* What Acquire does with the answer of os.Stat: retry at once, decide that the
\* holder is dead, or back off.
Stat(p) ==
  /\ pc[p] = "stat"
  /\ Goto(p, IF dir = Free THEN "mkdir" ELSE IF age > Stale THEN "remove" ELSE "sleep")
  /\ UNCHANGED <<dir, age, waited, sinceTouch, touching, lapses, faults>>

RemoveStaleBug(p) ==
  /\ pc[p] = "remove"
  /\ UNCHANGED dir
  /\ Goto(p, "mkdir")
  /\ UNCHANGED <<age, waited, sinceTouch, touching, lapses, faults>>

\* os.Remove takes away whatever directory is there now.
RemoveStale(p) ==
  /\ pc[p] = "remove"
  /\ dir' = Free
  /\ age' = 0
  /\ Goto(p, "mkdir")
  /\ UNCHANGED <<waited, sinceTouch, touching, lapses, faults>>

\* os.Remove fails: a waiter sleeps and tries again, Release swallows the error
\* and leaves the directory behind.
RemoveFails(p) ==
  /\ pc[p] \in {"remove", "stopped"}
  /\ dir # Free
  /\ Fault
  /\ lapses' = IF pc[p] = "stopped" THEN lapses + 1 ELSE lapses
  /\ Goto(p, IF pc[p] = "stopped" THEN "idle" ELSE "sleep")
  /\ UNCHANGED <<dir, age, waited, sinceTouch, touching>>

BackoffEnds(p) ==
  /\ pc[p] = "sleep"
  /\ Goto(p, "mkdir")
  /\ UNCHANGED <<dir, age, waited, sinceTouch, touching, lapses, faults>>

\* mkdir or stat fails for any other reason: Acquire returns the error.
SyscallFails(p) ==
  /\ pc[p] \in {"idle", "mkdir", "stat"}
  /\ Fault
  /\ ResetTimer(p)
  /\ Goto(p, "idle")
  /\ UNCHANGED <<dir, age, sinceTouch, touching, lapses>>

TouchBug(p) ==
  /\ touching[p]
  /\ sinceTouch[p] = TouchEvery[p]
  /\ sinceTouch' = [sinceTouch EXCEPT ![p] = 0]
  /\ UNCHANGED <<pc, dir, waited, age, touching, lapses, faults>>

TouchByIntervalBug(p) ==
  /\ touching[p]
  /\ sinceTouch[p] = TouchEvery[p]
  /\ sinceTouch' = [sinceTouch EXCEPT ![p] = 0]
  /\ age' = age - TouchEvery[p] - 1
  /\ touching' = [touching EXCEPT ![p] = dir # Free]
  /\ UNCHANGED <<pc, dir, waited, lapses, faults>>

\* One turn of touchLoop: it stops for good when there is no directory to touch.
Touch(p) ==
  /\ touching[p]
  /\ sinceTouch[p] = TouchEvery[p]
  /\ sinceTouch' = [sinceTouch EXCEPT ![p] = 0]
  /\ age' = 0
  /\ touching' = [touching EXCEPT ![p] = dir # Free]
  /\ UNCHANGED <<pc, dir, waited, lapses, faults>>

\* Chtimes fails although the directory is there: the toucher gives up.
TouchFails(p) ==
  /\ touching[p]
  /\ sinceTouch[p] = TouchEvery[p]
  /\ Fault
  /\ touching' = [touching EXCEPT ![p] = FALSE]
  /\ lapses' = lapses + 1
  /\ UNCHANGED <<pc, dir, age, waited, sinceTouch>>

\* Release: stop the toucher, then remove the directory, whoever made it.
Release(p) ==
  /\ pc[p] = "held"
  /\ touching' = [touching EXCEPT ![p] = FALSE]
  /\ Goto(p, "stopped")
  /\ UNCHANGED <<dir, age, waited, sinceTouch, lapses, faults>>

RemoveOwn(p) ==
  /\ pc[p] = "stopped"
  /\ dir' = Free
  /\ age' = 0
  /\ Goto(p, "idle")
  /\ UNCHANGED <<waited, sinceTouch, touching, lapses, faults>>

\* The process dies; a directory it made stays behind.
Crash(p) ==
  /\ pc[p] # "idle"
  /\ Fault
  /\ lapses' = IF pc[p] \in {"held", "stopped"} THEN lapses + 1 ELSE lapses
  /\ Goto(p, "idle")
  /\ touching' = [touching EXCEPT ![p] = FALSE]
  /\ ResetTimer(p)
  /\ UNCHANGED <<dir, age, sinceTouch>>

\* Running processes are scheduled in time: the ticker is served before time
\* goes past it, and Release's join of the toucher takes at most one unit.
Timely ==
  \A p \in Actor :
    /\ touching[p] => sinceTouch[p] < TouchEvery[p]
    /\ pc[p] = "stopped" => sinceTouch[p] <= TouchEvery[p]

Waiting(p) == pc[p] \in {"mkdir", "stat", "remove", "sleep"}

Tick ==
  /\ Timely
  /\ age' = IF dir # Free /\ age <= Stale THEN age + 1 ELSE age
  /\ waited' = [p \in Actor |->
                  IF Waiting(p) /\ waited[p] <= Timeout THEN waited[p] + 1 ELSE waited[p]]
  /\ sinceTouch' = [p \in Actor |->
                      IF touching[p] \/ pc[p] = "stopped" THEN sinceTouch[p] + 1
                                                          ELSE sinceTouch[p]]
  /\ UNCHANGED <<pc, dir, touching, lapses, faults>>

Step(p) ==
  \/ MkdirWins(p) \/ MkdirExists(p) \/ TimedOut(p) \/ Stat(p) \/ RemoveStale(p)
  \/ BackoffEnds(p) \/ Release(p) \/ RemoveOwn(p)

Next ==
  \/ Tick
  \/ \E p \in Actor : Step(p) \/ Touch(p) \/ SyscallFails(p) \/ RemoveFails(p) \/ TouchFails(p)
                       \/ Crash(p)

Spec == Init /\ [][Next]_vars

\* Time passes, a toucher's ticker fires, and an actor keeps running: inside
\* Acquire and Release, and in coming back for the lock.
FairSpec ==
  /\ Spec
  /\ SF_vars(Tick)
  /\ \A p \in Actor : WF_vars(Step(p)) /\ WF_vars(Touch(p))

---------------------------------------------------------------------------
TypeOK ==
  /\ pc \in [Actor -> Label]
  /\ dir \in Actor \cup {Free}
  /\ age \in 0 .. Stale + 1
  /\ waited \in [Actor -> 0 .. Timeout + 1]
  /\ sinceTouch \in [Actor -> Nat]
  /\ touching \in [Actor -> BOOLEAN]
  /\ lapses \in 0 .. faults
  /\ faults \in 0 .. MaxFaults

Exclusive == \A p, q \in Actor : pc[p] = "held" /\ pc[q] = "held" => p = q

\* Unless a fault has orphaned a lock or stopped its toucher, at most one actor
\* believes that it holds it: no waiter takes a live holder's lock over.
MutualExclusion == lapses = 0 => Exclusive

\* Until such a fault a holder's directory exists and is never old enough for a waiter
\* to declare it dead: touching every TouchEvery units beats the
\* staleness window, Release's join included.
LiveLockStaysFresh ==
  lapses = 0 => \A p \in Actor : pc[p] \in {"held", "stopped"} => dir = p /\ age <= Stale

\* Acquire returns, with the lock, a timeout or an error, however often other
\* actors take the lock, die with it or take it over.
AcquireReturns ==
  \A p \in Actor : pc[p] = "stat" ~> pc[p] \in {"held", "idle"}

\* A lock left behind by its holder does not stay forever, although one Acquire gives up
\* (after Timeout) before the directory is stale: once faults end, a later call
\* takes it over.
OrphanIsReclaimed ==
  \A p \in Actor : dir = p /\ pc[p] = "idle" ~> (dir # p \/ pc[p] = "held")

\* The comment of the takeover: "Losing the rmdir/mkdir race to another waiter
\* just means looping again", so a takeover never makes a second holder beside
\* one that is alive and touching its lock.
TakeoverIsExclusive ==
  \A p, q \in Actor : pc[p] = "held" /\ touching[p] /\ pc[q] = "held" /\ touching[q] => p = q
=============================================================================
