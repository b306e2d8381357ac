------------------------------ MODULE MCSwitch ------------------------------
(* Two managed accounts, "ann" in an organization and the personal "bob"     *)
(* (whose slot has no uuid yet), and the unmanaged "ann2", a different       *)
(* account with ann's recycled email address.                                *)
EXTENDS Switch, TLC

ProcessSymmetry == Permutations(Process)

MCOwnerOf == [s \in Slot |-> IF s = 1 THEN "ann" ELSE "bob"]
MCEmailOf == [a \in Account |-> IF a = "ann2" THEN "ann" ELSE a]
MCOrgOf == [a \in Account |-> IF a = "bob" THEN None ELSE "org"]

\* ann's slot knows her uuid and is the live one; bob's was added from a token,
\* without one, until an identified backup records it.
MCInit == Init /\ active = 1 /\ uuid[1] = "ann" /\ uuid[2] = None
MCSpec == MCInit /\ [][Next]_vars
=============================================================================
