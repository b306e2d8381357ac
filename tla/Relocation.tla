------------------------------ MODULE Relocation ------------------------------
(***************************************************************************)
(* MigrateLegacyBackupDir (internal/paths): the whole backup directory is  *)
(* moved from its old place to the XDG one by the first cswap that starts  *)
(* on Linux, before there is a directory to put a lock in.                 *)
(*                                                                         *)
(* A flag file beside the target tells an interrupted move from a          *)
(* directory that was there before.  The move is a rename, or across       *)
(* devices a copy followed by the removal of the original, file by file.   *)
(* Two processes may start at once, a process may die at any step, and     *)
(* every call may fail: an error ends the start of the program.            *)
(***************************************************************************)
EXTENDS Naturals, FiniteSets

CONSTANTS Files,       \* the user's files
          Proc,        \* processes that start
          MaxDeaths    \* bound: deaths and failed calls

VARIABLES
  old, new,            \* the two trees: the directory and the files in it, or nothing
  junk,                \* the target holds throwaway artifacts (a cache, a log)
  flag,                \* the .migrating file
  sameFS,              \* the rename can work
  step,                \* process -> where it is
  deaths

vars == <<old, new, junk, flag, sameFS, step, deaths>>

Dir == "."
Absent == {}
InTree(t) == t \ {Dir}

Init ==
  /\ old = Files \cup {Dir} /\ new \in {Absent, {Dir}} /\ junk \in {FALSE, new # Absent} /\ flag = FALSE
  /\ sameFS \in BOOLEAN
  /\ step = [p \in Proc |-> "start"] /\ deaths = 0

Go(p, s) == step' = [step EXCEPT ![p] = s]

\* Nothing to move: a flag left by a run that died after the move goes.
NoLegacy(p) ==
  /\ step[p] = "start" /\ old = Absent
  /\ flag' = FALSE /\ Go(p, "done")
  /\ UNCHANGED <<old, new, junk, sameFS, deaths>>

SeesLegacy(p) ==
  /\ step[p] = "start" /\ old # Absent
  /\ Go(p, "flag?")
  /\ UNCHANGED <<old, new, junk, flag, sameFS, deaths>>

\* An interrupted run: its target is discarded.  Otherwise a target with data
\* is a collision, and one with throwaway artifacts only is wiped.
SeesFlag(p) ==
  /\ step[p] = "flag?" /\ flag
  /\ Go(p, IF new = Absent THEN "touch" ELSE "discard")
  /\ UNCHANGED <<old, new, junk, flag, sameFS, deaths>>

TargetHasMeaningfulData == InTree(new) # {}

SeesNoFlag(p) ==
  /\ step[p] = "flag?" /\ ~flag
  /\ Go(p, IF new = Absent THEN "touch" ELSE IF TargetHasMeaningfulData THEN "failed" ELSE "wipe")
  /\ UNCHANGED <<old, new, junk, flag, sameFS, deaths>>

Discard(p) ==
  /\ step[p] = "discard"
  /\ new' = Absent /\ junk' = FALSE
  /\ Go(p, "touch")
  /\ UNCHANGED <<old, flag, sameFS, deaths>>

\* Every entry that is there by now, then the directory.
WipeThrowawayArtifacts(p) ==
  /\ step[p] = "wipe"
  /\ new' = Absent /\ junk' = FALSE
  /\ Go(p, IF new = Absent THEN "failed" ELSE "touch")
  /\ UNCHANGED <<old, flag, sameFS, deaths>>

Touch(p) ==
  /\ step[p] = "touch"
  /\ flag' = TRUE /\ Go(p, "rename")
  /\ UNCHANGED <<old, new, junk, sameFS, deaths>>

\* A rename replaces nothing but an empty directory.
Rename(p) ==
  /\ step[p] = "rename"
  /\ IF sameFS /\ old # Absent /\ (new = Absent \/ (new = {Dir} /\ ~junk))
     THEN new' = old /\ old' = Absent /\ Go(p, "unflag")
     ELSE Go(p, IF old = Absent THEN "failed" ELSE "copy") /\ UNCHANGED <<old, new>>
  /\ UNCHANGED <<junk, flag, sameFS, deaths>>

\* copyTree, one file at a time; a source that is gone is an error.
CopyFile(p, f) ==
  /\ step[p] = "copy" /\ f \in InTree(old) \ InTree(new)
  /\ new' = new \cup {f, Dir}
  /\ UNCHANGED <<old, junk, flag, sameFS, step, deaths>>

CopyEnds(p) ==
  /\ step[p] = "copy"
  /\ IF old = Absent THEN Go(p, "failed") ELSE old \subseteq new /\ Go(p, "remove")
  /\ UNCHANGED <<old, new, junk, flag, sameFS, deaths>>

RemoveFile(p, f) ==
  /\ step[p] = "remove" /\ f \in InTree(old)
  /\ old' = old \ {f}
  /\ UNCHANGED <<new, junk, flag, sameFS, step, deaths>>

RemoveEnds(p) ==
  /\ step[p] = "remove" /\ InTree(old) = {}
  /\ old' = Absent /\ Go(p, "unflag")
  /\ UNCHANGED <<new, junk, flag, sameFS, deaths>>

Unflag(p) ==
  /\ step[p] = "unflag"
  /\ flag' = FALSE /\ Go(p, "done")
  /\ UNCHANGED <<old, new, junk, sameFS, deaths>>

\* A call fails or the process dies; the user starts cswap again.
Stops(p) ==
  /\ step[p] \notin {"start", "done", "failed"} /\ deaths < MaxDeaths
  /\ deaths' = deaths + 1 /\ Go(p, "failed")
  /\ UNCHANGED <<old, new, junk, flag, sameFS>>

StartsAgain(p) ==
  /\ step[p] = "failed" /\ Go(p, "start")
  /\ UNCHANGED <<old, new, junk, flag, sameFS, deaths>>

Next ==
  \E p \in Proc :
    \/ NoLegacy(p) \/ SeesLegacy(p) \/ SeesFlag(p) \/ SeesNoFlag(p) \/ Discard(p)
    \/ WipeThrowawayArtifacts(p) \/ Touch(p) \/ Rename(p) \/ CopyEnds(p) \/ RemoveEnds(p)
    \/ Unflag(p) \/ Stops(p) \/ StartsAgain(p)
    \/ \E f \in Files : CopyFile(p, f) \/ RemoveFile(p, f)

Spec == Init /\ [][Next]_vars

-----------------------------------------------------------------------------

\* Every file of the old directory is in one of the two trees, whoever moves it
\* and wherever a move is cut short: the data "is rescued" (docs/DESIGN.md 771).
DataSurvives == \A f \in Files : f \in InTree(old) \cup InTree(new)
=============================================================================
