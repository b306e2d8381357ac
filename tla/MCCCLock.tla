------------------------------ MODULE MCCCLock ------------------------------
(* One cswap process or two, and Claude Code.  The unit is about 2.5s, so    *)
(* that touch intervals 3s / 5s, timeout 9s and staleness 10s keep their     *)
(* order: 1, 2, 3, 4.                                                        *)
EXTENDS CCLock

MCTouchEvery == [p \in Actor |-> IF p = "claude" THEN 2 ELSE 1]
=============================================================================
