----------------------------- MODULE MCFileLock -----------------------------
(* Two cswap processes.  The first has two goroutines sharing the store's    *)
(* FileLock and one that uses a second object for the same path (as import   *)
(* does); the second process has one goroutine.                              *)
EXTENDS FileLock

MCLockOf == [g \in Goroutine |->
               CASE g \in {"fetch1", "fetch2"} -> "store"
                 [] g = "import" -> "importLock"
                 [] OTHER -> "otherStore"]
MCProcOf == [l \in Lock |-> IF l = "otherStore" THEN "other" ELSE "first"]
=============================================================================
