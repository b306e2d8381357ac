------------------------------- MODULE Mutex -------------------------------
(* What an exclusive lock promises its callers, with nothing said about how: *)
(* at any time at most one actor is inside the protected span, it enters     *)
(* only while nobody is inside, and it leaves by releasing or by dying.      *)
CONSTANT Actor
VARIABLE holders

Init == holders = {}

Enter(a) == holders = {} /\ holders' = {a}

Leave(a) == a \in holders /\ holders' = holders \ {a}

Next == \E a \in Actor : Enter(a) \/ Leave(a)

Spec == Init /\ [][Next]_holders
=============================================================================
