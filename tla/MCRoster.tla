------------------------------ MODULE MCRoster ------------------------------
(* Roster for TLC: ann has a personal and a work account under one email.     *)
EXTENDS Roster, TLC

MCSlot == 1 .. 3
MCAccount == {"ann", "annWork", "bob", "key"}
MCToken == {"key"}
MCEmailOf == [a \in MCAccount |-> IF a \in {"ann", "annWork"} THEN "ann@" ELSE a]
MCOrgOf == [a \in MCAccount |-> IF a = "annWork" THEN "work" ELSE None]

\* Slots 1 and 2 taken: by one email, and by two.
MCInitial == {[n \in MCSlot |-> CASE n = 1 -> "ann" [] n = 2 -> b [] OTHER -> None] :
                b \in {"annWork", "bob"}}

\* With two emails the live login is managed, with one it is not; a slot without
\* backups is tried with one email, where a swap must clear what it overwrites.
MCInit ==
  /\ Init
  /\ (seq.acct[2].email = "bob") = (login = "ann")
  /\ seq.acct[2].email = "bob" => bk[<<"creds", <<2, "bob">>>>] # None
MCSpec == MCInit /\ [][Next]_vars

\* A roster written before v0.6.0.
MCLegacyInit == Init /\ NeedsBackfill(seq)
MCLegacySpec == MCLegacyInit /\ [][Next]_vars

ProcessSymmetry == Permutations(Process)
=============================================================================
