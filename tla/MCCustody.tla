------------------------------ MODULE MCCustody -----------------------------
(* Custody for TLC: two accounts, two collectors and two launchers.           *)
EXTENDS Custody, TLC

ActorSymmetry == Permutations(Account) \cup Permutations(Collector) \cup Permutations(Launcher)
=============================================================================
