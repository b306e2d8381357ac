------------------------- MODULE RosterBackupProofs -------------------------
(* TLAPS proofs about what Roster's commands do to the credentials: a failed *)
(* move is undone, backups stay their account's own, none is lost.           *)
EXTENDS RosterProofs
-----------------------------------------------------------------------------
(* What a list of instructions has, and in which order.                      *)

Has(s) == {s[i] : i \in 1 .. Len(s)}
Ordered(R, s) == \A i, j \in 1 .. Len(s) : i < j => <<s[i], s[j]>> \in R

LEMMA HasShort ==
  /\ Has(<<>>) = {}
  /\ \A x : Has(<<x>>) = {x}
  /\ \A x, y : Has(<<x, y>>) = {x, y}
  /\ \A c, x : Has(When(c, x)) \subseteq {x} /\ (c => Has(When(c, x)) = {x})
<1>1. Has(<<>>) = {}
  BY DEF Has
<1>2. \A x : Has(<<x>>) = {x}
  BY DEF Has
<1>3. ASSUME NEW x, NEW y PROVE Has(<<x, y>>) = {x, y}
  <2>1. 1 .. Len(<<x, y>>) = {1, 2}
    OBVIOUS
  <2>2. <<x, y>>[1] = x /\ <<x, y>>[2] = y
    OBVIOUS
  <2> QED
    BY <2>1, <2>2 DEF Has
<1> QED
  BY <1>1, <1>2, <1>3 DEF When

LEMMA HasTail ==
  ASSUME NEW S, NEW s \in Seq(S), s # <<>>
  PROVE  /\ Has(s) = {Head(s)} \cup Has(Tail(s)) /\ Has(s) \subseteq S
         /\ \A R : Ordered(R, s) => Ordered(R, Tail(s)) /\ \A x \in Has(Tail(s)) : <<Head(s), x>> \in R
<1>1. Len(Tail(s)) = Len(s) - 1 /\ Len(s) \in Nat /\ Len(s) > 0 /\ Head(s) = s[1]
      /\ \A i \in 1 .. Len(Tail(s)) : Tail(s)[i] = s[i + 1]
  BY HeadTailProperties
<1>2. \A i \in 1 .. Len(Tail(s)) : i + 1 \in 1 .. Len(s) /\ 1 < i + 1
  BY <1>1
<1>3. \A i \in 1 .. Len(s) : i = 1 \/ (i - 1 \in 1 .. Len(Tail(s)) /\ Tail(s)[i - 1] = s[i])
  BY <1>1
<1>4. 1 \in 1 .. Len(s)
  BY <1>1
<1>5. Has(s) \subseteq {Head(s)} \cup Has(Tail(s))
  BY <1>1, <1>3 DEF Has
<1>6. {Head(s)} \cup Has(Tail(s)) \subseteq Has(s)
  BY <1>1, <1>2, <1>4 DEF Has
<1>7. Has(s) \subseteq S
  BY DEF Has
<1>8. ASSUME NEW R, Ordered(R, s)
      PROVE  Ordered(R, Tail(s)) /\ \A x \in Has(Tail(s)) : <<Head(s), x>> \in R
  <2>1. ASSUME NEW i \in 1 .. Len(Tail(s)), NEW j \in 1 .. Len(Tail(s)), i < j
        PROVE  <<Tail(s)[i], Tail(s)[j]>> \in R
    <3>1. i + 1 < j + 1
      BY <1>1, <2>1
    <3> QED
      BY <1>1, <1>2, <1>8, <3>1 DEF Ordered
  <2>2. ASSUME NEW j \in 1 .. Len(Tail(s)) PROVE <<Head(s), Tail(s)[j]>> \in R
    BY <1>1, <1>2, <1>4, <1>8 DEF Ordered
  <2> QED
    BY <2>1, <2>2 DEF Ordered, Has
<1> QED
  BY <1>5, <1>6, <1>7, <1>8

LEMMA HasJoin ==
  ASSUME NEW S, NEW s \in Seq(S), NEW t \in Seq(S)
  PROVE  /\ s \o t \in Seq(S) /\ Has(s \o t) = Has(s) \cup Has(t)
         /\ \A R : Ordered(R, s) /\ Ordered(R, t) /\ (\A x \in Has(s), y \in Has(t) : <<x, y>> \in R) =>
              Ordered(R, s \o t)
<1> DEFINE u == s \o t
<1>1. Len(s) \in Nat /\ Len(t) \in Nat /\ Len(u) = Len(s) + Len(t)
      /\ \A i \in 1 .. Len(u) : u[i] = IF i <= Len(s) THEN s[i] ELSE t[i - Len(s)]
  BY ConcatProperties
<1>2. u \in Seq(S)
  OBVIOUS
<1> HIDE DEF u
<1>3. \A i \in 1 .. Len(u) : \/ i \in 1 .. Len(s) /\ u[i] = s[i]
                             \/ i - Len(s) \in 1 .. Len(t) /\ u[i] = t[i - Len(s)]
  BY <1>1
<1>4. \A i \in 1 .. Len(s) : i \in 1 .. Len(u) /\ u[i] = s[i]
  BY <1>1
<1>5. \A i \in 1 .. Len(t) : i + Len(s) \in 1 .. Len(u) /\ u[i + Len(s)] = t[i]
  BY <1>1
<1>6. Has(u) = Has(s) \cup Has(t)
  BY <1>3, <1>4, <1>5 DEF Has
<1>7. ASSUME NEW R, Ordered(R, s), Ordered(R, t), \A x \in Has(s), y \in Has(t) : <<x, y>> \in R
      PROVE  Ordered(R, u)
  <2> SUFFICES ASSUME NEW i \in 1 .. Len(u), NEW j \in 1 .. Len(u), i < j PROVE <<u[i], u[j]>> \in R
    BY DEF Ordered
  <2>1. CASE j <= Len(s)
    <3>1. i \in 1 .. Len(s) /\ j \in 1 .. Len(s) /\ u[i] = s[i] /\ u[j] = s[j]
      BY <1>1, <2>1
    <3> QED
      BY <1>7, <3>1 DEF Ordered
  <2>2. CASE ~(j <= Len(s)) /\ i <= Len(s)
    <3>1. i \in 1 .. Len(s) /\ j - Len(s) \in 1 .. Len(t) /\ u[i] = s[i] /\ u[j] = t[j - Len(s)]
      BY <1>1, <2>2
    <3>2. u[i] \in Has(s) /\ u[j] \in Has(t)
      BY <3>1 DEF Has
    <3> QED
      BY <1>7, <3>2
  <2>3. CASE ~(j <= Len(s)) /\ ~(i <= Len(s))
    <3> DEFINE k == i - Len(s)
               l == j - Len(s)
    <3>1. k \in 1 .. Len(t) /\ l \in 1 .. Len(t) /\ u[i] = t[k] /\ u[j] = t[l] /\ k < l
      BY <1>1, <2>3
    <3> HIDE DEF k, l
    <3> QED
      BY <1>7, <3>1 DEF Ordered
  <2> QED
    BY <2>1, <2>2, <2>3
<1> QED
  BY <1>2, <1>6, <1>7 DEF u

LEMMA OrderedShort ==
  /\ \A R : Ordered(R, <<>>)
  /\ \A R, x : Ordered(R, <<x>>)
  /\ \A R, x, y : <<x, y>> \in R => Ordered(R, <<x, y>>)
  /\ \A R, c, x : Ordered(R, When(c, x))
<1>1. \A R : Ordered(R, <<>>)
  BY DEF Ordered
<1>2. \A R, x : Ordered(R, <<x>>)
  BY DEF Ordered
<1>3. ASSUME NEW R, NEW x, NEW y, <<x, y>> \in R PROVE Ordered(R, <<x, y>>)
  <2>1. \A i, j \in 1 .. 2 : i < j => i = 1 /\ j = 2
    OBVIOUS
  <2>2. Len(<<x, y>>) = 2 /\ <<x, y>>[1] = x /\ <<x, y>>[2] = y
    OBVIOUS
  <2> QED
    BY <1>3, <2>1, <2>2 DEF Ordered
<1> QED
  BY <1>1, <1>2, <1>3 DEF When

-----------------------------------------------------------------------------
(* What an instruction does to the locals of its command, o becoming u, to   *)
(* the backup files F, the staging files T and the roster d.                 *)

Advanced(o, u) ==
  /\ Same(o, u) /\ u.bk0 = o.bk0 /\ u.data = o.data /\ u.undo = o.undo /\ u.staged = o.staged
  /\ u.failed = o.failed /\ u.failures = o.failures /\ u.todo = Tail(o.todo)
Skipped(o, u) ==
  /\ Same(o, u) /\ u.bk0 = o.bk0 /\ u.data = o.data /\ u.undo = o.undo /\ u.staged = o.staged
  /\ u.failed = o.failed /\ u.failures = o.failures + 1 /\ u.todo = Tail(o.todo)
Aborted(o, u) ==
  /\ Same(o, u) /\ u.bk0 = o.bk0 /\ u.data = o.data /\ u.undo = <<>> /\ u.staged = o.staged
  /\ u.failed /\ u.failures = o.failures /\ u.todo = o.undo
Committed(o, u) ==
  /\ Same(o, u) /\ u.bk0 = o.bk0 /\ u.data = Head(o.todo).data /\ u.undo = <<>> /\ u.staged = o.staged
  /\ u.failed = o.failed /\ u.failures = o.failures /\ u.todo = Tail(o.todo)
StagedOne(o, u) ==
  /\ Same(o, u) /\ u.bk0 = o.bk0 /\ u.data = o.data /\ u.undo = o.undo
  /\ u.staged = o.staged \cup {Head(o.todo).file}
  /\ u.failed = o.failed /\ u.failures = o.failures /\ u.todo = Tail(o.todo)
StageFailed(o, u) ==
  /\ Same(o, u) /\ u.bk0 = o.bk0 /\ u.data = o.data /\ u.undo = <<>> /\ u.staged = {}
  /\ u.failed /\ u.failures = o.failures /\ u.todo = o.undo
Quits(o, u) == IF Head(o.todo).must THEN Aborted(o, u) ELSE Skipped(o, u)

Dropped(T, out) == [g \in DOMAIN T |-> IF g \in out THEN None ELSE T[g]]

DoesPut(o, u, F, G) ==
  Head(o.todo).do = "put" /\ Advanced(o, u) /\ G = [F EXCEPT ![Head(o.todo).file] = Head(o.todo).val]
DoesFail(o, u, F, G) == Head(o.todo).do \in {"put", "commit"} /\ Quits(o, u) /\ G = F
DoesDelete(o, u, F, G) ==
  /\ Head(o.todo).do = "delete" /\ (Advanced(o, u) \/ Quits(o, u))
  /\ \A f \in Kind \X Key : G[f] = F[f] \/ (G[f] = None /\ f[2] = Head(o.todo).key)
DoesCommit(o, u) == Head(o.todo).do = "commit" /\ Committed(o, u)
DoesStage(o, u, T, U) ==
  LET f == Head(o.todo).file IN
  /\ Head(o.todo).do = "stage"
  /\ \/ StagedOne(o, u) /\ T[f] = None /\ U = [T EXCEPT ![f] = Head(o.todo).val]
     \/ /\ StageFailed(o, u)
        /\ \A g \in Kind \X Slot : \/ U[g] = IF g \in o.staged THEN None ELSE T[g]
                                   \/ g = f /\ T[g] = None
DoesPass(o, u) == Head(o.todo).do \in {"move", "exchange"} /\ Advanced(o, u)
DoesDiscard(o, u, T, U) ==
  /\ Head(o.todo).do = "discard" /\ Advanced(o, u)
  /\ U = T \/ (U = Dropped(T, o.staged) /\ ~(o.failed /\ o.failures > 0))

Does(o, u, F, G, T, U, d, e) ==
  \/ (DoesPut(o, u, F, G) \/ DoesFail(o, u, F, G) \/ DoesDelete(o, u, F, G)) /\ U = T /\ e = d
  \/ DoesCommit(o, u) /\ G = F /\ U = T /\ e = Head(o.todo).data
  \/ (DoesStage(o, u, T, U) \/ DoesDiscard(o, u, T, U)) /\ G = F /\ e = d
  \/ DoesPass(o, u) /\ G = F /\ U = T /\ e = d

LEMMA LocalsAfter ==
  ASSUME Typed, NEW p \in Process, pc[p] = "run", op[p].todo # <<>>
  PROVE  /\ Advance(p) => Advanced(op[p], op'[p])
         /\ Failed(p) => Quits(op[p], op'[p])
         /\ op' = [op EXCEPT ![p].todo = Tail(@), ![p].undo = <<>>, ![p].data = Now(p).data] =>
              Committed(op[p], op'[p])
         /\ op' = [op EXCEPT ![p].todo = Tail(@), ![p].staged = @ \cup {Now(p).file}] =>
              StagedOne(op[p], op'[p])
         /\ op' = [op EXCEPT ![p].todo = op[p].undo, ![p].undo = <<>>, ![p].failed = TRUE,
                             ![p].staged = {}, ![p].refused = TRUE] => StageFailed(op[p], op'[p])
<1> DEFINE o == op[p]
           t == Tail(op[p].todo)
           w == op[p].undo
           k == op[p].failures + 1
           x == Now(p).data
           g == op[p].staged \cup {Now(p).file}
<1>0. op \in [Process -> Locals] /\ o \in Locals
  BY DEF Typed
<1>1. Advance(p) => op'[p] = [o EXCEPT !.todo = t]
  BY <1>0 DEF Advance
<1>2. Abort(p) => op'[p] = [o EXCEPT !.todo = w, !.undo = <<>>, !.failed = TRUE]
  BY <1>0 DEF Abort
<1>3. op' = [op EXCEPT ![p].todo = Tail(@), ![p].failures = @ + 1] =>
        op'[p] = [o EXCEPT !.todo = t, !.failures = k]
  BY <1>0
<1>4. op' = [op EXCEPT ![p].todo = Tail(@), ![p].undo = <<>>, ![p].data = Now(p).data] =>
        op'[p] = [o EXCEPT !.todo = t, !.undo = <<>>, !.data = x]
  BY <1>0
<1>5. op' = [op EXCEPT ![p].todo = Tail(@), ![p].staged = @ \cup {Now(p).file}] =>
        op'[p] = [o EXCEPT !.todo = t, !.staged = g]
  BY <1>0
<1>6. op' = [op EXCEPT ![p].todo = op[p].undo, ![p].undo = <<>>, ![p].failed = TRUE,
                       ![p].staged = {}, ![p].refused = TRUE] =>
        op'[p] = [o EXCEPT !.todo = w, !.undo = <<>>, !.failed = TRUE, !.staged = {}, !.refused = TRUE]
  BY <1>0
<1>7. t = Tail(o.todo) /\ w = o.undo /\ k = o.failures + 1 /\ x = Head(o.todo).data
      /\ g = o.staged \cup {Head(o.todo).file} /\ Now(p) = Head(o.todo)
  BY DEF Now
<1> HIDE DEF o, t, w, k, x, g
<1>8. o = op[p]
  BY DEF o
<1>9. Advance(p) => Advanced(o, op'[p])
  BY <1>0, <1>1, <1>7 DEF Advanced, Same, Locals
<1>10. Abort(p) => Aborted(o, op'[p])
  BY <1>0, <1>2, <1>7 DEF Aborted, Same, Locals
<1>11. op' = [op EXCEPT ![p].todo = Tail(@), ![p].failures = @ + 1] => Skipped(o, op'[p])
  BY <1>0, <1>3, <1>7 DEF Skipped, Same, Locals
<1>12. op'[p] = [o EXCEPT !.todo = t, !.undo = <<>>, !.data = x] => Committed(o, op'[p])
  BY <1>0, <1>7 DEF Committed, Same, Locals
<1>13. op'[p] = [o EXCEPT !.todo = t, !.staged = g] => StagedOne(o, op'[p])
  BY <1>0, <1>7 DEF StagedOne, Same, Locals
<1>14. op'[p] = [o EXCEPT !.todo = w, !.undo = <<>>, !.failed = TRUE, !.staged = {}, !.refused = TRUE] =>
         StageFailed(o, op'[p])
  BY <1>0, <1>7 DEF StageFailed, Same, Locals
<1>15. Failed(p) => Quits(o, op'[p])
  BY <1>7, <1>10, <1>11 DEF Failed, Quits
<1> QED
  BY <1>4, <1>5, <1>6, <1>8, <1>9, <1>12, <1>13, <1>14, <1>15

LEMMA WorkDone ==
  ASSUME Typed, NEW p \in Process, Working(p)
  PROVE  Does(op[p], op'[p], bk, bk', stage, stage', seq, seq')
<1>0. pc[p] = "run" /\ op[p].todo # <<>> /\ bk \in Files /\ stage \in Stagers /\ Now(p) = Head(op[p].todo)
      /\ Now(p) \in Instr(Filled)
  BY WorkedOK, NowFacts DEF Typed, Stagers, Now
<1>1. CASE WriteFile(p)
  BY <1>0, <1>1, LocalsAfter DEF WriteFile, Doing, Does, DoesPut
<1>2. CASE DeleteFiles(p)
  <2> DEFINE k == Now(p).key
  <2>1. Advanced(op[p], op'[p]) \/ Quits(op[p], op'[p])
    BY <1>0, <1>2, LocalsAfter DEF DeleteFiles
  <2>2. k \in Key
    BY <1>0, <1>2, InstrFacts DEF DeleteFiles, Doing
  <2>3. \/ bk' = bk \/ bk' = [bk EXCEPT ![<<"creds", k>>] = None, ![<<"config", k>>] = None]
        \/ bk' = [bk EXCEPT ![<<"config", k>>] = None] \/ bk' = [bk EXCEPT ![<<"creds", k>>] = None]
    BY <1>2 DEF DeleteFiles
  <2> HIDE DEF k
  <2>4. \A f \in Kind \X Key : bk'[f] = bk[f] \/ (bk'[f] = None /\ f[2] = k)
    BY <1>0, <2>2, <2>3 DEF Files
  <2> QED
    BY <1>0, <1>2, <2>1, <2>4 DEF DeleteFiles, Doing, Does, DoesDelete, k
<1>3. CASE Commit(p)
  BY <1>0, <1>3, LocalsAfter DEF Commit, Doing, Does, DoesCommit
<1>4. CASE Stage(p)
  <2> DEFINE f == Now(p).file
             dropped == Dropped(stage, op[p].staged)
  <2>1. f \in Kind \X Slot
    BY <1>0, <1>4, InstrFacts DEF Stage, Doing
  <2>2. \/ /\ stage[f] = None /\ stage' = [stage EXCEPT ![f] = Now(p).val]
           /\ op' = [op EXCEPT ![p].todo = Tail(@), ![p].staged = @ \cup {Now(p).file}]
        \/ /\ stage' = dropped \/ (stage[f] = None /\ stage' = [dropped EXCEPT ![f] = Partial])
           /\ op' = [op EXCEPT ![p].todo = op[p].undo, ![p].undo = <<>>, ![p].failed = TRUE,
                               ![p].staged = {}, ![p].refused = TRUE]
    BY <1>4 DEF Stage, Dropped
  <2>3. dropped = [g \in Kind \X Slot |-> IF g \in op[p].staged THEN None ELSE stage[g]]
    BY <1>0 DEF Dropped, Stagers
  <2> HIDE DEF f, dropped
  <2>4. CASE stage' = dropped \/ (stage[f] = None /\ stage' = [dropped EXCEPT ![f] = Partial])
    <3>1. \A g \in Kind \X Slot : \/ stage'[g] = IF g \in op[p].staged THEN None ELSE stage[g]
                                  \/ g = f /\ stage[g] = None
      BY <2>1, <2>3, <2>4
    <3> QED
      BY <1>0, <1>4, <2>2, <3>1, LocalsAfter DEF Stage, Doing, Does, DoesStage, f
  <2>5. CASE stage[f] = None /\ stage' = [stage EXCEPT ![f] = Now(p).val]
             /\ op' = [op EXCEPT ![p].todo = Tail(@), ![p].staged = @ \cup {Now(p).file}]
    BY <1>0, <1>4, <2>5, LocalsAfter DEF Stage, Doing, Does, DoesStage, f
  <2> QED
    BY <2>2, <2>4, <2>5
<1>5. CASE RelocateProfile(p) \/ SwapSessionDirs(p)
  BY <1>0, <1>5, LocalsAfter DEF RelocateProfile, SwapSessionDirs, Doing, Does, DoesPass
<1>6. CASE DiscardStaging(p)
  BY <1>0, <1>6, LocalsAfter DEF DiscardStaging, Doing, Does, DoesDiscard, Dropped
<1>7. CASE WriteFails(p)
  BY <1>0, <1>7, LocalsAfter DEF WriteFails, Doing, Does, DoesFail
<1> QED
  BY <1>1, <1>2, <1>3, <1>4, <1>5, <1>6, <1>7 DEF Working

-----------------------------------------------------------------------------
(* Moves and swaps.  The backup files of a slot are its home; a move carries *)
(* them to a goal, which with one email is the home of the other slot.       *)

Home(d, kind, n) == <<kind, <<n, d.acct[n].email>>>>
IsHome(d, f) == \E n \in Used(d), kind \in Kind : f = Home(d, kind, n)
PutOn(s, f) == \E x \in Has(s) : x.do = "put" /\ x.file = f

Cross(o, n) == IF n = o.slot THEN o.to ELSE IF n = o.to THEN o.slot ELSE n
Crossing(o) == {o.slot, o.to} \cap Used(o.data)
Overlap(o) == Crossing(o) = {o.slot, o.to} /\ o.data.acct[o.slot].email = o.data.acct[o.to].email
Goal(o, kind, n) == <<kind, <<Cross(o, n), o.data.acct[n].email>>>>

\* A home holds nothing, its own account's, or something of which a staging file that is
\* not in out has a copy.
Own(rec, v) == v = None \/ AccountId(v) = IdOf(rec)
Good(rec, kind, v, T, out) == Own(rec, v) \/ \E m \in Slot : <<kind, m>> \notin out /\ T[<<kind, m>>] = v
Sound(d, F, T, out) ==
  \A n \in Used(d), kind \in Kind : Good(d.acct[n], kind, F[Home(d, kind, n)], T, out)
Held(o, kind, v, T) == \E g \in o.staged : g[1] = kind /\ T[g] = v

\* First the copies, then the writes, the commit, the clean-up, and the copies go.
Rank(x) == CASE x.do = "stage" -> 1 [] x.do \in {"put", "move", "exchange"} -> 2 [] x.do = "commit" -> 3
             [] x.do = "delete" -> 4 [] x.do = "discard" -> 5
MoveOrder == {w \in Instr(Filled) \X Instr(Filled) :
                \/ Rank(w[1]) < Rank(w[2])
                \/ Rank(w[1]) = Rank(w[2]) /\ w[1].do \notin {"commit", "discard"}}

\* s restores every home it writes.
Restores(o, s) ==
  /\ Ordered(MoveOrder, s)
  /\ \A x \in Has(s) : /\ x.do \in {"put", "move", "exchange", "discard"} /\ ~x.must
                       /\ x.do = "put" /\ IsHome(o.data, x.file) => x.val = o.bk0[x.file]

\* What is left to do before the commit.
StepOf(o, x) ==
  \/ x.do = "put" /\ x.must /\ \E n \in Crossing(o), kind \in Kind :
                       x.file = Goal(o, kind, n) /\ x.val = o.bk0[Home(o.data, kind, n)]
  \/ x.do = "commit" /\ x.must /\ x.data = Renumbered(o.data, o.slot, o.to)
  \/ x.do = "stage" /\ x.must /\ Overlap(o) /\ \E n \in Crossing(o), kind \in Kind :
                       x.file = <<kind, n>> /\ x.val = o.bk0[Home(o.data, kind, n)]
  \/ x.do = "delete" /\ ~x.must /\ ~Overlap(o) /\ \E n \in Crossing(o) : x.key = <<n, o.data.acct[n].email>>
  \/ x.do \in {"move", "exchange", "discard"}
Ahead(o) ==
  /\ ~o.failed /\ o.slot # o.to
  /\ Ordered(MoveOrder, o.todo) /\ (\E x \in Has(o.todo) : x.do = "commit")
  /\ \A x \in Has(o.todo) : StepOf(o, x)
  /\ Restores(o, o.undo)
  /\ Overlap(o) => \A n \in Crossing(o), kind \in Kind : PutOn(o.undo, Home(o.data, kind, n))
\* The homes: as they were, or with one email overwritten from what is staged.
Displaced(o, F, T) ==
  \A n \in Used(o.data), kind \in Kind : LET f == Home(o.data, kind, n) IN
    F[f] = o.bk0[f] \/ (Overlap(o) /\ n \in Crossing(o) /\ (F[f] = None \/ Held(o, kind, F[f], T)))
\* The goals: what was at home has been carried there, or will be.
Carried(o, F) ==
  \A n \in Crossing(o), kind \in Kind :
    F[Goal(o, kind, n)] = o.bk0[Home(o.data, kind, n)] \/ PutOn(o.todo, Goal(o, kind, n))
\* The copies: made with one email only, of what was at home, all before the first write.
Copied(o, F, T) ==
  /\ \A g \in o.staged : /\ Overlap(o) /\ g \in Kind \X Slot /\ g[2] \in Crossing(o)
                         /\ T[g] = o.bk0[Home(o.data, g[1], g[2])]
  /\ Overlap(o) => \A n \in Crossing(o), kind \in Kind :
       \/ o.bk0[Home(o.data, kind, n)] = None \/ <<kind, n>> \in o.staged
       \/ \E x \in Has(o.todo) : x.do = "stage" /\ x.file = <<kind, n>>
  /\ (\E x \in Has(o.todo) : x.do = "stage") => F = o.bk0

\* Before the commit, after it, and after a failure.
Moving(o, F, T) ==
  Ahead(o) /\ Displaced(o, F, T) /\ Carried(o, F) /\ Copied(o, F, T) /\ Sound(o.data, o.bk0, T, o.staged)
Settled(o, F, T) ==
  /\ ~o.failed /\ o.undo = <<>> /\ o.slot # o.to
  /\ \A x \in Has(o.todo) :
       \/ x.do = "discard"
       \/ x.do = "delete" /\ ~x.must /\ \A n \in Used(o.data) : x.key # <<n, o.data.acct[n].email>>
  /\ Sound(o.data, F, T, o.staged)
  /\ \A g \in o.staged : /\ g \in Kind \X Slot
                         /\ T[g] = None \/ (/\ Cross(o, g[2]) \in Used(o.data)
                                            /\ T[g] = F[Home(o.data, g[1], Cross(o, g[2]))])
Undone(o, F, T) ==
  /\ o.failed /\ o.undo = <<>> /\ Restores(o, o.todo)
  /\ \A n \in Used(o.data), kind \in Kind : LET f == Home(o.data, kind, n) IN
       /\ o.failures = 0 => F[f] = o.bk0[f] \/ PutOn(o.todo, f)
       /\ F[f] = o.bk0[f] \/ F[f] = None \/ Held(o, kind, F[f], T)
  /\ Sound(o.data, o.bk0, T, o.staged)
  /\ \A g \in o.staged : /\ g \in Kind \X Slot
                         /\ T[g] = None \/ (/\ g[2] \in Used(o.data)
                                            /\ T[g] = o.bk0[Home(o.data, g[1], g[2])])
Refusing(o) == ~o.failed /\ o.todo = <<>> /\ o.undo = <<>> /\ o.staged = {}
Relocating(o, F, T) == Refusing(o) \/ Moving(o, F, T) \/ Settled(o, F, T) \/ Undone(o, F, T)

\* A move's command, and its files.
Mover(o, F, T) ==
  /\ o \in Locals /\ o.kind = "move" /\ o.slot \in Slot /\ o.to \in Slot /\ o.data \in Filled
  /\ o.bk0 \in Files /\ F \in Files /\ T \in Stagers

LEMMA OrderFacts ==
  ASSUME NEW x, NEW y, <<x, y>> \in MoveOrder
  PROVE  /\ x.do = "put" => y.do # "stage"
         /\ x.do = "commit" => y.do \in {"delete", "discard"}
         /\ x.do = "delete" => y.do \in {"delete", "discard"}
         /\ x.do # "discard"
<1>1. x \in Instr(Filled) /\ y \in Instr(Filled)
  BY DEF MoveOrder
<1>2. \A z \in Instr(Filled) : z.do \in {"stage", "put", "move", "exchange", "commit", "delete", "discard"}
  BY DEF Instr, Puts, Deletes, Commits, Stages, Moves, Exchanges, Discards
<1>3. \A z \in Instr(Filled) : /\ z.do = "stage" => Rank(z) = 1
                               /\ z.do \in {"put", "move", "exchange"} => Rank(z) = 2
                               /\ z.do = "commit" => Rank(z) = 3
                               /\ z.do = "delete" => Rank(z) = 4
                               /\ z.do = "discard" => Rank(z) = 5
  BY DEF Rank
<1>4. Rank(x) < Rank(y) \/ (Rank(x) = Rank(y) /\ x.do \notin {"commit", "discard"})
  BY DEF MoveOrder
<1> QED
  BY <1>1, <1>2, <1>3, <1>4

LEMMA InOrder ==
  ASSUME NEW x \in Instr(Filled), NEW y \in Instr(Filled)
  PROVE  /\ x.do = "stage" => <<x, y>> \in MoveOrder
         /\ x.do \in {"put", "move", "exchange"} /\ y.do # "stage" => <<x, y>> \in MoveOrder
         /\ x.do = "commit" /\ y.do \in {"delete", "discard"} => <<x, y>> \in MoveOrder
         /\ x.do = "delete" /\ y.do \in {"delete", "discard"} => <<x, y>> \in MoveOrder
<1>2. \A z \in Instr(Filled) : z.do \in {"stage", "put", "move", "exchange", "commit", "delete", "discard"}
  BY DEF Instr, Puts, Deletes, Commits, Stages, Moves, Exchanges, Discards
<1>3. \A z \in Instr(Filled) : /\ z.do = "stage" => Rank(z) = 1
                               /\ z.do \in {"put", "move", "exchange"} => Rank(z) = 2
                               /\ z.do = "commit" => Rank(z) = 3
                               /\ z.do = "delete" => Rank(z) = 4
                               /\ z.do = "discard" => Rank(z) = 5
  BY DEF Rank
<1>4. Rank(x) < Rank(y) \/ (Rank(x) = Rank(y) /\ x.do \notin {"commit", "discard"}) => <<x, y>> \in MoveOrder
  BY DEF MoveOrder
<1> QED
  BY <1>2, <1>3, <1>4

\* A command with the same arguments, roster and files at its start sees a move alike.
LEMMA SameMove ==
  ASSUME NEW o, NEW u, Same(o, u), u.data = o.data, u.bk0 = o.bk0
  PROVE  /\ \A n : Cross(u, n) = Cross(o, n)
         /\ Crossing(u) = Crossing(o) /\ Overlap(u) = Overlap(o)
         /\ \A kind, n : Goal(u, kind, n) = Goal(o, kind, n)
         /\ \A x : StepOf(u, x) = StepOf(o, x)
         /\ \A s : Restores(u, s) = Restores(o, s)
<1>1. \A n : Cross(u, n) = Cross(o, n)
  BY DEF Same, Cross
<1>2. Crossing(u) = Crossing(o)
  BY DEF Same, Crossing
<1>3. Overlap(u) = Overlap(o)
  BY <1>2 DEF Same, Overlap
<1>4. \A kind, n : Goal(u, kind, n) = Goal(o, kind, n)
  BY <1>1 DEF Goal
<1>5. \A x : StepOf(u, x) = StepOf(o, x)
  BY <1>2, <1>3, <1>4 DEF Same, StepOf
<1>6. \A s : Restores(u, s) = Restores(o, s)
  BY DEF Restores
<1> QED
  BY <1>1, <1>2, <1>3, <1>4, <1>5, <1>6

LEMMA HomeFacts ==
  ASSUME NEW d \in Filled
  PROVE  /\ \A n \in Used(d), kind \in Kind : n \in Slot /\ d.acct[n] \in Record /\ Home(d, kind, n) \in Kind \X Key
         /\ \A n, m \in Used(d), k, j \in Kind : Home(d, k, n) = Home(d, j, m) => k = j /\ n = m
<1>1. ASSUME NEW n \in Used(d), NEW kind \in Kind
      PROVE  n \in Slot /\ d.acct[n] \in Record /\ Home(d, kind, n) \in Kind \X Key
  <2>1. n \in Slot /\ d.acct[n] \in Record
    BY DataFacts DEF Used, Filled
  <2> QED
    BY <2>1, RecordFacts DEF Home, Key
<1> QED
  BY <1>1 DEF Home

LEMMA GoalFacts ==
  ASSUME NEW o, o.slot \in Slot, o.to \in Slot, o.slot # o.to, o.data \in Filled
  PROVE  /\ \A n \in Slot : Cross(o, n) \in Slot /\ Cross(o, Cross(o, n)) = n
         /\ \A n \in Crossing(o), kind \in Kind : n \in Used(o.data) /\ Goal(o, kind, n) \in Kind \X Key
         /\ \A n, m \in Crossing(o), k, j \in Kind : Goal(o, k, n) = Goal(o, j, m) => k = j /\ n = m
         \* A goal that is a home overlaps it.
         /\ \A n \in Crossing(o), m \in Used(o.data), k, j \in Kind :
              Goal(o, k, n) = Home(o.data, j, m) => Overlap(o) /\ k = j /\ m = Cross(o, n) /\ m \in Crossing(o)
<1>1. \A n \in Slot : Cross(o, n) \in Slot /\ Cross(o, Cross(o, n)) = n
  BY DEF Cross
<1>2. ASSUME NEW n \in Crossing(o), NEW kind \in Kind
      PROVE  n \in Used(o.data) /\ n \in Slot /\ Goal(o, kind, n) \in Kind \X Key
  <2>1. n \in Used(o.data)
    BY DEF Crossing
  <2>2. n \in Slot /\ o.data.acct[n] \in Record
    BY <2>1, <1>2, HomeFacts
  <2> QED
    BY <1>1, <2>1, <2>2, RecordFacts DEF Goal, Key
<1>3. ASSUME NEW n \in Crossing(o), NEW m \in Crossing(o), NEW k \in Kind, NEW j \in Kind, Goal(o, k, n) = Goal(o, j, m)
      PROVE  k = j /\ n = m
  <2>1. k = j /\ Cross(o, n) = Cross(o, m)
    BY <1>3 DEF Goal
  <2> QED
    BY <1>1, <1>2, <2>1
<1>4. ASSUME NEW n \in Crossing(o), NEW m \in Used(o.data), NEW k \in Kind, NEW j \in Kind,
             Goal(o, k, n) = Home(o.data, j, m)
      PROVE  Overlap(o) /\ k = j /\ m = Cross(o, n) /\ m \in Crossing(o)
  <2>1. k = j /\ m = Cross(o, n) /\ o.data.acct[n].email = o.data.acct[m].email
    BY <1>4 DEF Goal, Home
  <2>2. n \in {o.slot, o.to} /\ n \in Used(o.data)
    BY DEF Crossing
  <2>3. m \in {o.slot, o.to} /\ {n, m} = {o.slot, o.to}
    BY <2>1, <2>2 DEF Cross
  <2>4. Crossing(o) = {o.slot, o.to}
    BY <2>2, <2>3 DEF Crossing
  <2> QED
    BY <2>1, <2>3, <2>4 DEF Overlap
<1> QED
  BY <1>1, <1>2, <1>3, <1>4

LEMMA RenumberedIs ==
  ASSUME NEW o, o.slot \in Slot, o.to \in Slot, o.slot # o.to, NEW d \in Filled
  PROVE  /\ \A m \in Slot : Renumbered(d, o.slot, o.to).acct[m] = d.acct[Cross(o, m)]
         /\ \A m \in Used(Renumbered(d, o.slot, o.to)) : Cross(o, m) \in Used(d)
         /\ \A n \in Used(d) : Cross(o, n) \in Used(Renumbered(d, o.slot, o.to))
<1> DEFINE e == Renumbered(d, o.slot, o.to)
<1>1. d.acct \in [Slot -> Record \cup {None}]
  BY DataFacts DEF Filled
<1>2. \A m \in Slot : e.acct[m] = d.acct[Cross(o, m)]
  BY <1>1 DEF Renumbered, Cross
<1>3. \A n \in Slot : Cross(o, n) \in Slot /\ Cross(o, Cross(o, n)) = n
  BY DEF Cross
<1> QED
  BY <1>2, <1>3 DEF Used

\* What comes first before the commit, and what then remains.
LEMMA AheadFacts ==
  ASSUME NEW o \in Locals, Ahead(o), o.todo # <<>>
  PROVE  LET h == Head(o.todo)
             t == Tail(o.todo) IN
         /\ h \in Instr(Filled) /\ StepOf(o, h) /\ Has(o.todo) = {h} \cup Has(t) /\ Ordered(MoveOrder, t)
         /\ h.do \in {"stage", "put", "move", "exchange", "commit"} /\ (h.do \in {"put", "commit"} => h.must)
         /\ h.do = "commit" => \A x \in Has(t) : x.do \in {"delete", "discard"}
         /\ h.do # "commit" => \E x \in Has(t) : x.do = "commit"
         /\ h.do = "put" => ~ \E x \in Has(t) : x.do = "stage"
<1> DEFINE h == Head(o.todo)
           t == Tail(o.todo)
<1>1. o.todo \in Todos
  BY DEF Locals
<1>2. h \in Instr(Filled)
  BY <1>1, TailSeq DEF Todos
<1>3. Has(o.todo) = {h} \cup Has(t) /\ Ordered(MoveOrder, t) /\ \A x \in Has(t) : <<h, x>> \in MoveOrder
  BY <1>1, HasTail DEF Todos, Ahead
<1>4. StepOf(o, h) /\ \E x \in Has(o.todo) : x.do = "commit"
  BY <1>3 DEF Ahead
<1> HIDE DEF h, t
<1>5. h.do # "commit" => \E x \in Has(t) : x.do = "commit"
  BY <1>3, <1>4
<1>6. h.do \notin {"delete", "discard"}
  BY <1>3, <1>5, OrderFacts
<1>7. h.do \in {"stage", "put", "move", "exchange", "commit"} /\ (h.do \in {"put", "commit"} => h.must)
  BY <1>4, <1>6 DEF StepOf
<1>8. /\ h.do = "commit" => \A x \in Has(t) : x.do \in {"delete", "discard"}
      /\ h.do = "put" => ~ \E x \in Has(t) : x.do = "stage"
  BY <1>3, OrderFacts
<1> QED
  BY <1>2, <1>3, <1>4, <1>5, <1>7, <1>8 DEF h, t

\* Before the commit, an instruction other than the commit leaves the rest ahead.
LEMMA AheadOn ==
  ASSUME NEW o \in Locals, NEW u, Ahead(o), o.todo # <<>>, Head(o.todo).do # "commit",
         Same(o, u), u.data = o.data, u.bk0 = o.bk0, u.undo = o.undo, u.failed = o.failed, u.todo = Tail(o.todo)
  PROVE  Ahead(u)
<1>1. Ordered(MoveOrder, u.todo) /\ (\E x \in Has(u.todo) : x.do = "commit") /\ Has(u.todo) \subseteq Has(o.todo)
  BY AheadFacts
<1>2. Crossing(u) = Crossing(o) /\ Overlap(u) = Overlap(o) /\ (\A x : StepOf(u, x) = StepOf(o, x))
      /\ Restores(u, u.undo) = Restores(o, o.undo)
  BY SameMove
<1> QED
  BY <1>1, <1>2 DEF Ahead, Same

\* A home that is not as it was, or that a failed move must restore, has a write in the undo.
LEMMA AbortUndoes ==
  ASSUME NEW o, NEW u, NEW F, NEW T, NEW U, Mover(o, F, T), Ahead(o), Same(o, u), u.data = o.data, u.bk0 = o.bk0,
         u.failed, u.undo = <<>>, u.todo = o.undo, Displaced(o, F, T),
         \/ U = T /\ u.staged = o.staged
         \/ F = o.bk0 /\ u.staged = {},
         Sound(o.data, o.bk0, U, u.staged),
         \A g \in u.staged : /\ g \in Kind \X Slot /\ g[2] \in Crossing(o)
                             /\ U[g] = o.bk0[Home(o.data, g[1], g[2])]
  PROVE  Undone(u, F, U)
<1>1. Restores(u, u.todo)
  BY SameMove DEF Ahead
<1>2. ASSUME NEW n \in Used(o.data), NEW kind \in Kind
      PROVE  LET f == Home(o.data, kind, n) IN
             /\ F[f] = o.bk0[f] \/ PutOn(u.todo, f)
             /\ F[f] = o.bk0[f] \/ F[f] = None \/ Held(u, kind, F[f], U)
  <2> DEFINE f == Home(o.data, kind, n)
  <2>1. F[f] = o.bk0[f] \/ (Overlap(o) /\ n \in Crossing(o) /\ (F[f] = None \/ Held(o, kind, F[f], T)))
    BY DEF Displaced
  <2>2. Overlap(o) /\ n \in Crossing(o) => PutOn(u.todo, f)
    BY DEF Ahead
  <2>3. F = o.bk0 \/ (Held(o, kind, F[f], T) => Held(u, kind, F[f], U))
    BY DEF Held
  <2> QED
    BY <2>1, <2>2, <2>3
<1>3. \A n \in Crossing(o) : n \in Used(o.data)
  BY DEF Crossing
<1> QED
  BY <1>1, <1>2, <1>3 DEF Undone

LEMMA MovingPut ==
  ASSUME NEW o, NEW u, NEW F, NEW G, NEW T, Mover(o, F, T), Moving(o, F, T), o.todo # <<>>, DoesPut(o, u, F, G)
  PROVE  Moving(u, G, T)
<1> DEFINE h == Head(o.todo)
<1>0. /\ o \in Locals /\ Ahead(o) /\ h.do = "put" /\ Advanced(o, u) /\ G = [F EXCEPT ![h.file] = h.val]
      /\ o.data \in Filled /\ F \in Files /\ o.slot \in Slot /\ o.to \in Slot /\ o.slot # o.to
  BY DEF Mover, Moving, Ahead, DoesPut
<1>1. /\ StepOf(o, h) /\ Has(o.todo) = {h} \cup Has(u.todo) /\ ~ \E x \in Has(o.todo) : x.do = "stage"
  BY <1>0, AheadFacts DEF Advanced
<1>2. /\ Crossing(u) = Crossing(o) /\ Overlap(u) = Overlap(o) /\ u.data = o.data /\ u.bk0 = o.bk0 /\ u.staged = o.staged
      /\ \A kind, n : Goal(u, kind, n) = Goal(o, kind, n)
  BY <1>0, SameMove DEF Advanced
<1>3. Ahead(u)
  BY <1>0, AheadOn DEF Advanced
<1> HIDE DEF h
<1>4. PICK n \in Crossing(o), kind \in Kind : h.file = Goal(o, kind, n) /\ h.val = o.bk0[Home(o.data, kind, n)]
  BY <1>0, <1>1 DEF StepOf
<1>5. h.file \in Kind \X Key /\ G[h.file] = h.val /\ \A f \in Kind \X Key : f # h.file => G[f] = F[f]
  BY <1>0, <1>4, GoalFacts DEF Files
<1>6. Displaced(u, G, T)
  <2> SUFFICES ASSUME NEW m \in Used(o.data), NEW j \in Kind
               PROVE  LET f == Home(o.data, j, m) IN
                      G[f] = o.bk0[f] \/ (Overlap(o) /\ m \in Crossing(o) /\ (G[f] = None \/ Held(u, j, G[f], T)))
    BY <1>2 DEF Displaced
  <2> DEFINE f == Home(o.data, j, m)
  <2>1. f \in Kind \X Key
    BY <1>0, HomeFacts
  <2>2. CASE f # h.file
    <3>1. G[f] = F[f]
      BY <1>5, <2>1, <2>2
    <3>2. F[f] = o.bk0[f] \/ (Overlap(o) /\ m \in Crossing(o) /\ (F[f] = None \/ Held(o, j, F[f], T)))
      BY DEF Moving, Displaced
    <3> QED
      BY <1>2, <3>1, <3>2 DEF Held
  <2>3. CASE f = h.file
    <3>1. Overlap(o) /\ kind = j /\ m \in Crossing(o)
      BY <1>0, <1>4, <2>3, GoalFacts
    <3>2. G[f] = o.bk0[Home(o.data, j, n)]
      BY <1>4, <1>5, <2>3, <3>1
    <3>3. G[f] = None \/ <<j, n>> \in o.staged
      BY <1>1, <3>1, <3>2 DEF Moving, Copied
    <3>4. <<j, n>> \in o.staged => T[<<j, n>>] = o.bk0[Home(o.data, j, n)]
      BY DEF Moving, Copied
    <3>5. <<j, n>> \in o.staged => Held(u, j, G[f], T)
      BY <1>2, <3>2, <3>4 DEF Held
    <3> QED
      BY <3>1, <3>3, <3>5
  <2> QED
    BY <2>2, <2>3
<1>7. Carried(u, G)
  <2> SUFFICES ASSUME NEW m \in Crossing(o), NEW j \in Kind
               PROVE  G[Goal(o, j, m)] = o.bk0[Home(o.data, j, m)] \/ PutOn(u.todo, Goal(o, j, m))
    BY <1>2 DEF Carried
  <2>1. CASE Goal(o, j, m) = h.file
    <3>1. j = kind /\ m = n
      BY <1>0, <1>4, <2>1, GoalFacts
    <3> QED
      BY <1>4, <1>5, <3>1
  <2>2. CASE Goal(o, j, m) # h.file
    <3>1. G[Goal(o, j, m)] = F[Goal(o, j, m)]
      BY <1>0, <1>5, <2>2, GoalFacts
    <3>2. F[Goal(o, j, m)] = o.bk0[Home(o.data, j, m)] \/ PutOn(o.todo, Goal(o, j, m))
      BY DEF Moving, Carried
    <3>3. PutOn(o.todo, Goal(o, j, m)) => PutOn(u.todo, Goal(o, j, m))
      BY <1>1, <2>2 DEF PutOn
    <3> QED
      BY <3>1, <3>2, <3>3
  <2> QED
    BY <2>1, <2>2
<1>8. Copied(u, G, T)
  BY <1>1, <1>2 DEF Moving, Copied
<1>9. Sound(u.data, u.bk0, T, u.staged)
  BY <1>2 DEF Moving
<1> QED
  BY <1>3, <1>6, <1>7, <1>8, <1>9 DEF Moving

LEMMA MovingFail ==
  ASSUME NEW o, NEW u, NEW F, NEW G, NEW T, Mover(o, F, T), Moving(o, F, T), o.todo # <<>>, DoesFail(o, u, F, G)
  PROVE  Undone(u, G, T)
<1>1. Aborted(o, u) /\ G = F /\ Ahead(o)
  BY AheadFacts DEF DoesFail, Quits, Moving, Mover
<1>2. Displaced(o, F, T) /\ Sound(o.data, o.bk0, T, o.staged)
  BY DEF Moving
<1>3. \A g \in o.staged : /\ g \in Kind \X Slot /\ g[2] \in Crossing(o)
                          /\ T[g] = o.bk0[Home(o.data, g[1], g[2])]
  BY DEF Moving, Copied
<1> QED
  BY <1>1, <1>2, <1>3, AbortUndoes DEF Aborted

LEMMA MovingPass ==
  ASSUME NEW o, NEW u, NEW F, NEW T, Mover(o, F, T), Moving(o, F, T), o.todo # <<>>, DoesPass(o, u)
  PROVE  Moving(u, F, T)
<1> DEFINE h == Head(o.todo)
<1>0. o \in Locals /\ Ahead(o) /\ h.do \in {"move", "exchange"} /\ Advanced(o, u)
  BY DEF Mover, Moving, DoesPass
<1>1. Has(o.todo) = {h} \cup Has(u.todo)
  BY <1>0, AheadFacts DEF Advanced
<1>2. /\ Crossing(u) = Crossing(o) /\ Overlap(u) = Overlap(o) /\ u.data = o.data /\ u.bk0 = o.bk0 /\ u.staged = o.staged
      /\ \A kind, n : Goal(u, kind, n) = Goal(o, kind, n)
  BY <1>0, SameMove DEF Advanced
<1>3. Ahead(u)
  BY <1>0, AheadOn DEF Advanced
<1> HIDE DEF h
<1>4. Displaced(u, F, T)
  BY <1>2 DEF Moving, Displaced, Held
<1>5. \A f : PutOn(o.todo, f) => PutOn(u.todo, f)
  BY <1>0, <1>1 DEF PutOn
<1>6. Carried(u, F)
  BY <1>2, <1>5 DEF Moving, Carried
<1>7. \A f : (\E x \in Has(o.todo) : x.do = "stage" /\ x.file = f) => \E x \in Has(u.todo) : x.do = "stage" /\ x.file = f
  BY <1>0, <1>1
<1>8. (\E x \in Has(u.todo) : x.do = "stage") => \E x \in Has(o.todo) : x.do = "stage"
  BY <1>1
<1>9. Copied(u, F, T)
  BY <1>2, <1>7, <1>8 DEF Moving, Copied
<1> QED
  BY <1>2, <1>3, <1>4, <1>6, <1>9 DEF Moving

\* The commit: every home of the new roster is the goal of its account's files.
LEMMA MovingCommit ==
  ASSUME NEW o, NEW u, NEW F, NEW T, Mover(o, F, T), Moving(o, F, T), o.todo # <<>>, DoesCommit(o, u)
  PROVE  Settled(u, F, T)
<1> DEFINE h == Head(o.todo)
           d == o.data
           e == u.data
<1>0. o \in Locals /\ Ahead(o) /\ h.do = "commit" /\ Committed(o, u)
      /\ d \in Filled /\ o.slot \in Slot /\ o.to \in Slot /\ o.slot # o.to
  BY DEF Mover, Moving, Ahead, DoesCommit
<1>1. /\ StepOf(o, h) /\ Has(o.todo) = {h} \cup Has(u.todo) /\ \A x \in Has(u.todo) : x.do \in {"delete", "discard"}
  BY <1>0, AheadFacts DEF Committed
<1>2. /\ ~u.failed /\ u.undo = <<>> /\ u.slot = o.slot /\ u.to = o.to /\ u.staged = o.staged /\ u.bk0 = o.bk0
      /\ \A n : Cross(u, n) = Cross(o, n)
  BY <1>0 DEF Ahead, Committed, Same, Cross
<1>3. e = Renumbered(d, o.slot, o.to)
  BY <1>0, <1>1 DEF StepOf, Committed
<1>4. /\ \A m \in Slot : e.acct[m] = d.acct[Cross(o, m)]
      /\ \A m \in Used(e) : m \in Slot /\ Cross(o, m) \in Used(d)
      /\ \A n \in Used(d) : Cross(o, n) \in Used(e)
  BY <1>0, <1>3, RenumberedIs DEF Used
<1>5. \A f : ~PutOn(o.todo, f)
  BY <1>0, <1>1 DEF PutOn
<1>6. \A n \in Slot : Cross(o, n) \in Slot /\ Cross(o, Cross(o, n)) = n
  BY <1>0, GoalFacts
<1>7. \A n \in Crossing(o), kind \in Kind : F[Goal(o, kind, n)] = o.bk0[Home(d, kind, n)]
  BY <1>5 DEF Moving, Carried
<1> HIDE DEF h, d, e
<1>8. ASSUME NEW n \in Crossing(o), NEW kind \in Kind
      PROVE  n \in Used(d) /\ Cross(o, n) \in Used(e) /\ Home(e, kind, Cross(o, n)) = Goal(o, kind, n)
  <2>1. n \in Used(d) /\ n \in Slot
    BY DEF Crossing, Used, d
  <2> QED
    BY <1>4, <1>6, <2>1 DEF Home, Goal, d
<1>9. ASSUME NEW x \in Has(u.todo), x.do # "discard"
      PROVE  x.do = "delete" /\ ~x.must /\ \A n \in Used(e) : x.key # <<n, e.acct[n].email>>
  <2>1. x.do = "delete" /\ StepOf(o, x)
    BY <1>0, <1>1, <1>9 DEF Ahead
  <2>2. PICK n \in Crossing(o) : x.key = <<n, d.acct[n].email>>
    BY <2>1 DEF StepOf, d
  <2>3. ~x.must /\ ~Overlap(o)
    BY <2>1 DEF StepOf
  <2>4. ASSUME NEW m \in Used(e), x.key = <<m, e.acct[m].email>> PROVE FALSE
    <3>1. m = n /\ n \in {o.slot, o.to} /\ n \in Used(d)
      BY <2>2, <2>4 DEF Crossing, d
    <3>2. Cross(o, n) \in Used(d) /\ e.acct[n] = d.acct[Cross(o, n)] /\ e.acct[n].email = d.acct[n].email
      BY <1>4, <2>2, <2>4, <3>1
    <3>3. {n, Cross(o, n)} = {o.slot, o.to}
      BY <1>0, <3>1 DEF Cross
    <3>4. d.acct[o.slot].email = d.acct[o.to].email
      BY <3>2, <3>3
    <3>5. Crossing(o) = {o.slot, o.to}
      BY <3>1, <3>2, <3>3 DEF Crossing, d
    <3> QED
      BY <2>3, <3>4, <3>5 DEF Overlap, d
  <2> QED
    BY <2>1, <2>3, <2>4
<1>10. Sound(e, F, T, u.staged)
  <2> SUFFICES ASSUME NEW m \in Used(e), NEW kind \in Kind
               PROVE  Good(e.acct[m], kind, F[Home(e, kind, m)], T, o.staged)
    BY <1>2 DEF Sound
  <2> DEFINE n == Cross(o, m)
  <2>1. n \in Used(d) /\ e.acct[m] = d.acct[n] /\ m = Cross(o, n)
    BY <1>4, <1>6
  <2> HIDE DEF n
  <2>2. Good(d.acct[n], kind, o.bk0[Home(d, kind, n)], T, o.staged)
    BY <2>1 DEF Moving, Sound, d
  <2>3. CASE n \in Crossing(o)
    BY <1>7, <1>8, <2>1, <2>2, <2>3
  <2>4. CASE n \notin Crossing(o)
    <3>1. m = n
      BY <2>1, <2>4 DEF Crossing, Cross, d
    <3>2. Home(e, kind, m) = Home(d, kind, n)
      BY <2>1, <3>1 DEF Home
    <3>3. F[Home(d, kind, n)] = o.bk0[Home(d, kind, n)]
      BY <2>1, <2>4 DEF Moving, Displaced, d
    <3> QED
      BY <2>1, <2>2, <3>2, <3>3
  <2> QED
    BY <2>3, <2>4
<1>11. ASSUME NEW g \in u.staged
       PROVE  g \in Kind \X Slot /\ Cross(u, g[2]) \in Used(e) /\ T[g] = F[Home(e, g[1], Cross(u, g[2]))]
  <2>1. g \in Kind \X Slot /\ g[2] \in Crossing(o) /\ T[g] = o.bk0[Home(d, g[1], g[2])]
    BY <1>2 DEF Moving, Copied, d
  <2> QED
    BY <1>2, <1>7, <1>8, <2>1
<1> QED
  BY <1>0, <1>2, <1>9, <1>10, <1>11 DEF Settled, e

\* A copy is made, or the move fails before its first write.
LEMMA MovingStage ==
  ASSUME NEW o, NEW u, NEW F, NEW T, NEW U, Mover(o, F, T), Moving(o, F, T), o.todo # <<>>, DoesStage(o, u, T, U)
  PROVE  Moving(u, F, U) \/ Undone(u, F, U)
<1> DEFINE h == Head(o.todo)
           f == h.file
<1>0. o \in Locals /\ Ahead(o) /\ h.do = "stage" /\ Same(o, u) /\ u.data = o.data /\ u.bk0 = o.bk0 /\ T \in Stagers
  BY DEF Mover, Moving, DoesStage, StagedOne, StageFailed
<1>1. Has(o.todo) = {h} \cup Has(Tail(o.todo)) /\ StepOf(o, h)
  BY <1>0, AheadFacts
<1>2. /\ Crossing(u) = Crossing(o) /\ Overlap(u) = Overlap(o)
      /\ \A kind, n : Goal(u, kind, n) = Goal(o, kind, n)
  BY <1>0, SameMove
<1>3. F = o.bk0
  BY <1>0, <1>1 DEF Moving, Copied
<1>4. Displaced(o, F, T) /\ Displaced(u, F, U)
  BY <1>0, <1>3 DEF Displaced
<1>5. \/ StagedOne(o, u) /\ T[f] = None /\ U = [T EXCEPT ![f] = h.val]
      \/ /\ StageFailed(o, u)
         /\ \A g \in Kind \X Slot : \/ U[g] = IF g \in o.staged THEN None ELSE T[g]
                                    \/ g = f /\ T[g] = None
  BY DEF DoesStage
<1>6. Overlap(o) /\ f \in Kind \X Slot /\ f[2] \in Crossing(o) /\ h.val = o.bk0[Home(o.data, f[1], f[2])]
  <2>1. PICK n \in Crossing(o), kind \in Kind : f = <<kind, n>> /\ h.val = o.bk0[Home(o.data, kind, n)]
    BY <1>0, <1>1 DEF StepOf
  <2>2. n \in Slot /\ Overlap(o)
    BY <1>0, <1>1 DEF Crossing, Used, StepOf
  <2> HIDE DEF h, f
  <2>3. f \in Kind \X Slot /\ f[1] = kind /\ f[2] = n
    BY <2>1, <2>2
  <2> QED
    BY <2>1, <2>2, <2>3
<1> HIDE DEF h, f
<1>7. CASE StagedOne(o, u) /\ T[f] = None /\ U = [T EXCEPT ![f] = h.val]
  <2>0. u.staged = o.staged \cup {f} /\ u.todo = Tail(o.todo) /\ u.undo = o.undo /\ u.failed = o.failed
    BY <1>7 DEF StagedOne, f, h
  <2>1. U[f] = h.val /\ \A g \in Kind \X Slot : g # f => U[g] = T[g]
    BY <1>0, <1>6, <1>7 DEF Stagers
  <2>2. Ahead(u)
    BY <1>0, <2>0, AheadOn DEF h
  <2>3. \A a : PutOn(o.todo, a) => PutOn(u.todo, a)
    BY <1>0, <1>1, <2>0 DEF PutOn
  <2>4. Carried(u, F)
    BY <1>0, <1>2, <2>3 DEF Moving, Carried
  <2>5. Copied(u, F, U)
    <3>1. \A g \in u.staged : g \in Kind \X Slot /\ g[2] \in Crossing(o) /\ U[g] = o.bk0[Home(o.data, g[1], g[2])]
      BY <1>6, <2>0, <2>1 DEF Moving, Copied
    <3>2. ASSUME NEW x \in Has(o.todo), x.do = "stage" PROVE x.file \in u.staged \/ x \in Has(u.todo)
      BY <1>1, <2>0, <3>2 DEF f
    <3>3. \A n \in Crossing(o), kind \in Kind :
            \/ o.bk0[Home(o.data, kind, n)] = None \/ <<kind, n>> \in u.staged
            \/ \E x \in Has(u.todo) : x.do = "stage" /\ x.file = <<kind, n>>
      <4> SUFFICES ASSUME NEW n \in Crossing(o), NEW kind \in Kind, <<kind, n>> \notin u.staged,
                          o.bk0[Home(o.data, kind, n)] # None
                   PROVE  \E x \in Has(u.todo) : x.do = "stage" /\ x.file = <<kind, n>>
        OBVIOUS
      <4>1. <<kind, n>> \notin o.staged
        BY <2>0
      <4>2. \E x \in Has(o.todo) : x.do = "stage" /\ x.file = <<kind, n>>
        BY <1>6, <4>1 DEF Moving, Copied
      <4> QED
        BY <3>2, <4>2
    <3> QED
      BY <1>0, <1>2, <1>3, <1>6, <3>1, <3>3 DEF Copied
  <2>6. Sound(u.data, u.bk0, U, u.staged)
    <3> SUFFICES ASSUME NEW n \in Used(o.data), NEW kind \in Kind
                 PROVE  Good(o.data.acct[n], kind, o.bk0[Home(o.data, kind, n)], U, u.staged)
      BY <1>0 DEF Sound
    <3> DEFINE v == o.bk0[Home(o.data, kind, n)]
    <3>1. Good(o.data.acct[n], kind, v, T, o.staged)
      BY DEF Moving, Sound
    <3> HIDE DEF v
    <3>2. ASSUME v # None, NEW m \in Slot, <<kind, m>> \notin o.staged, T[<<kind, m>>] = v
          PROVE  <<kind, m>> \notin u.staged /\ U[<<kind, m>>] = v
      BY <1>7, <2>0, <2>1, <3>2
    <3>3. Good(o.data.acct[n], kind, v, U, u.staged)
      BY <3>1, <3>2 DEF Good, Own
    <3> QED
      BY <3>3 DEF v
  <2> QED
    BY <1>4, <2>2, <2>4, <2>5, <2>6 DEF Moving
<1>8. CASE /\ StageFailed(o, u)
           /\ \A g \in Kind \X Slot : \/ U[g] = IF g \in o.staged THEN None ELSE T[g]
                                      \/ g = f /\ T[g] = None
  <2>0. u.staged = {} /\ u.todo = o.undo /\ u.undo = <<>> /\ u.failed
    BY <1>8 DEF StageFailed
  <2>1. Sound(o.data, o.bk0, U, u.staged)
    <3> SUFFICES ASSUME NEW n \in Used(o.data), NEW kind \in Kind
                 PROVE  Good(o.data.acct[n], kind, o.bk0[Home(o.data, kind, n)], U, {})
      BY <2>0 DEF Sound
    <3> DEFINE v == o.bk0[Home(o.data, kind, n)]
    <3>1. Good(o.data.acct[n], kind, v, T, o.staged)
      BY DEF Moving, Sound
    <3> HIDE DEF v
    <3>2. ASSUME v # None, NEW m \in Slot, <<kind, m>> \notin o.staged, T[<<kind, m>>] = v
          PROVE  U[<<kind, m>>] = v
      <4>1. <<kind, m>> \in Kind \X Slot
        OBVIOUS
      <4> QED
        BY <1>8, <3>2, <4>1
    <3>3. Good(o.data.acct[n], kind, v, U, {})
      BY <3>1, <3>2 DEF Good, Own
    <3> QED
      BY <3>3 DEF v
  <2> QED
    BY <1>0, <1>3, <1>4, <2>0, <2>1, AbortUndoes
<1> QED
  BY <1>5, <1>7, <1>8

LEMMA MovingStep ==
  ASSUME NEW o, NEW u, NEW F, NEW G, NEW T, NEW U, NEW d, NEW e, Mover(o, F, T), Moving(o, F, T), o.todo # <<>>,
         Does(o, u, F, G, T, U, d, e)
  PROVE  Moving(u, G, U) \/ Settled(u, G, U) \/ Undone(u, G, U)
<1>1. Head(o.todo).do \notin {"delete", "discard"}
  BY AheadFacts DEF Mover, Moving
<1>2. \/ DoesPut(o, u, F, G) /\ U = T
      \/ DoesFail(o, u, F, G) /\ U = T
      \/ DoesCommit(o, u) /\ G = F /\ U = T
      \/ DoesStage(o, u, T, U) /\ G = F
      \/ DoesPass(o, u) /\ G = F /\ U = T
  BY <1>1 DEF Does, DoesDelete, DoesDiscard
<1> QED
  BY <1>2, MovingPut, MovingFail, MovingCommit, MovingStage, MovingPass

LEMMA SettledStep ==
  ASSUME NEW o, NEW u, NEW F, NEW G, NEW T, NEW U, NEW d, NEW e, Mover(o, F, T), Settled(o, F, T), o.todo # <<>>,
         Does(o, u, F, G, T, U, d, e)
  PROVE  Settled(u, G, U)
<1> DEFINE h == Head(o.todo)
<1>0. o \in Locals /\ o.todo \in Todos /\ o.data \in Filled /\ F \in Files /\ T \in Stagers
  BY DEF Mover, Locals
<1>1. Has(o.todo) = {h} \cup Has(Tail(o.todo))
  BY <1>0, HasTail DEF Todos
<1>2. \/ h.do = "discard"
      \/ h.do = "delete" /\ ~h.must /\ \A n \in Used(o.data) : h.key # <<n, o.data.acct[n].email>>
  BY <1>1 DEF Settled
<1>3. \/ DoesDelete(o, u, F, G) /\ U = T
      \/ DoesDiscard(o, u, T, U) /\ G = F
  BY <1>2 DEF Does, DoesPut, DoesFail, DoesCommit, DoesStage, DoesPass
<1>4. /\ Same(o, u) /\ u.data = o.data /\ u.bk0 = o.bk0 /\ ~u.failed /\ u.undo = <<>> /\ u.staged = o.staged
      /\ u.todo = Tail(o.todo)
  BY <1>2, <1>3 DEF DoesDelete, DoesDiscard, Advanced, Quits, Skipped, Settled
<1>5. u.slot # u.to /\ \A n : Cross(u, n) = Cross(o, n)
  BY <1>4, SameMove DEF Same, Settled
<1> HIDE DEF h
<1>6. \A n \in Used(o.data), kind \in Kind : G[Home(o.data, kind, n)] = F[Home(o.data, kind, n)]
  <2> SUFFICES ASSUME NEW n \in Used(o.data), NEW kind \in Kind
               PROVE  G[Home(o.data, kind, n)] = F[Home(o.data, kind, n)]
    OBVIOUS
  <2>1. Home(o.data, kind, n) \in Kind \X Key
    BY <1>0, HomeFacts
  <2>2. DoesDelete(o, u, F, G) => Home(o.data, kind, n)[2] # h.key
    BY <1>2 DEF DoesDelete, Home, h
  <2> QED
    BY <1>3, <2>1, <2>2 DEF DoesDelete, h
<1>7. \A g \in Kind \X Slot : U[g] = T[g] \/ (g \in o.staged /\ U[g] = None)
  BY <1>0, <1>3 DEF DoesDiscard, Dropped, Stagers
<1>8. Sound(u.data, G, U, u.staged)
  <2> SUFFICES ASSUME NEW n \in Used(o.data), NEW kind \in Kind
               PROVE  Good(o.data.acct[n], kind, F[Home(o.data, kind, n)], U, o.staged)
    BY <1>4, <1>6 DEF Sound
  <2>1. Good(o.data.acct[n], kind, F[Home(o.data, kind, n)], T, o.staged)
    BY DEF Settled, Sound
  <2>2. \A m \in Slot : <<kind, m>> \notin o.staged => U[<<kind, m>>] = T[<<kind, m>>]
    BY <1>7
  <2> QED
    BY <2>1, <2>2 DEF Good
<1>9. ASSUME NEW g \in u.staged
      PROVE  g \in Kind \X Slot /\ (U[g] = None \/ (/\ Cross(u, g[2]) \in Used(u.data)
                                                    /\ U[g] = G[Home(u.data, g[1], Cross(u, g[2]))]))
  <2>1. g \in Kind \X Slot /\ g[1] \in Kind
        /\ (T[g] = None \/ (Cross(o, g[2]) \in Used(o.data) /\ T[g] = F[Home(o.data, g[1], Cross(o, g[2]))]))
    BY <1>4 DEF Settled
  <2> QED
    BY <1>4, <1>5, <1>6, <1>7, <2>1
<1>10. \A x \in Has(u.todo) :
         \/ x.do = "discard"
         \/ x.do = "delete" /\ ~x.must /\ \A n \in Used(u.data) : x.key # <<n, u.data.acct[n].email>>
  BY <1>1, <1>4 DEF Settled
<1> QED
  BY <1>4, <1>5, <1>8, <1>9, <1>10 DEF Settled

\* The copies are discarded last, and only when every write of the undo succeeded.
LEMMA UndoneStep ==
  ASSUME NEW o, NEW u, NEW F, NEW G, NEW T, NEW U, NEW d, NEW e, Mover(o, F, T), Undone(o, F, T), o.todo # <<>>,
         Does(o, u, F, G, T, U, d, e)
  PROVE  Undone(u, G, U)
<1> DEFINE h == Head(o.todo)
<1>0. o \in Locals /\ o.todo \in Todos /\ o.data \in Filled /\ F \in Files /\ T \in Stagers /\ o.failures \in Nat
  BY DEF Mover, Locals
<1>1. /\ Has(o.todo) = {h} \cup Has(Tail(o.todo)) /\ h \in Instr(Filled)
      /\ Ordered(MoveOrder, Tail(o.todo)) /\ \A x \in Has(Tail(o.todo)) : <<h, x>> \in MoveOrder
  BY <1>0, HasTail, TailSeq DEF Todos, Undone, Restores
<1>2. /\ h.do \in {"put", "move", "exchange", "discard"} /\ ~h.must
      /\ h.do = "put" /\ IsHome(o.data, h.file) => h.val = o.bk0[h.file]
  BY <1>1 DEF Undone, Restores
<1>3. \/ DoesPut(o, u, F, G) /\ U = T
      \/ h.do = "put" /\ Skipped(o, u) /\ G = F /\ U = T
      \/ DoesPass(o, u) /\ G = F /\ U = T
      \/ DoesDiscard(o, u, T, U) /\ G = F
  BY <1>2 DEF Does, DoesFail, DoesDelete, DoesCommit, DoesStage, Quits
<1>4. /\ Same(o, u) /\ u.data = o.data /\ u.bk0 = o.bk0 /\ u.failed /\ u.undo = <<>> /\ u.staged = o.staged
      /\ u.todo = Tail(o.todo) /\ (u.failures = 0 => o.failures = 0 /\ ~(h.do = "put" /\ Skipped(o, u)))
  <2>1. Advanced(o, u) \/ Skipped(o, u)
    BY <1>3 DEF DoesPut, DoesPass, DoesDiscard
  <2>2. Skipped(o, u) => u.failures # 0
    BY <1>0 DEF Skipped
  <2>3. Advanced(o, u) => u.failures = o.failures
    BY DEF Advanced
  <2>4. u.failures = 0 => o.failures = 0 /\ ~(h.do = "put" /\ Skipped(o, u))
    BY <2>1, <2>2, <2>3
  <2> QED
    BY <2>1, <2>4 DEF Advanced, Skipped, Undone
<1>5. Restores(u, u.todo)
  <2>1. Restores(o, Tail(o.todo))
    BY <1>1 DEF Undone, Restores
  <2> QED
    BY <1>4, <2>1, SameMove
<1> HIDE DEF h
<1>6. h.do = "discard" => \A f : ~PutOn(o.todo, f)
  BY <1>1, OrderFacts DEF PutOn
<1>7. h.do # "put" => \A f : PutOn(o.todo, f) => PutOn(u.todo, f)
  BY <1>1, <1>4 DEF PutOn
<1>8. \A g \in Kind \X Slot : U[g] = T[g] \/ (g \in o.staged /\ U[g] = None /\ h.do = "discard" /\ o.failures = 0)
  <2>1. \/ U = T
        \/ h.do = "discard" /\ U = Dropped(T, o.staged) /\ ~(o.failed /\ o.failures > 0)
    BY <1>3 DEF DoesDiscard, h
  <2>2. ~(o.failed /\ o.failures > 0) => o.failures = 0
    BY <1>0 DEF Undone
  <2> QED
    BY <1>0, <2>1, <2>2 DEF Dropped, Stagers
<1>9. ASSUME NEW n \in Used(o.data), NEW kind \in Kind
      PROVE  LET f == Home(o.data, kind, n) IN
             /\ u.failures = 0 => G[f] = o.bk0[f] \/ PutOn(u.todo, f)
             /\ G[f] = o.bk0[f] \/ G[f] = None \/ Held(u, kind, G[f], U)
  <2> DEFINE f == Home(o.data, kind, n)
  <2>0. f \in Kind \X Key /\ IsHome(o.data, f)
    BY <1>0, HomeFacts DEF IsHome
  <2>1. /\ o.failures = 0 => F[f] = o.bk0[f] \/ PutOn(o.todo, f)
        /\ F[f] = o.bk0[f] \/ F[f] = None \/ Held(o, kind, F[f], T)
    BY DEF Undone
  <2> HIDE DEF f
  <2>2. CASE DoesPut(o, u, F, G) /\ U = T
    <3>1. h.do = "put" /\ G = [F EXCEPT ![h.file] = h.val]
      BY <2>2 DEF DoesPut, h
    <3>2. CASE f = h.file
      <4>1. G[f] = o.bk0[f]
        BY <1>0, <1>2, <2>0, <3>1, <3>2 DEF Files
      <4> QED
        BY <4>1 DEF f
    <3>3. CASE f # h.file
      <4>1. G[f] = F[f]
        BY <1>0, <2>0, <3>1, <3>3 DEF Files
      <4>2. PutOn(o.todo, f) => PutOn(u.todo, f)
        BY <1>1, <1>4, <3>3 DEF PutOn
      <4>3. Held(o, kind, F[f], T) => Held(u, kind, G[f], U)
        BY <1>4, <2>2, <4>1 DEF Held
      <4> QED
        BY <1>4, <2>1, <4>1, <4>2, <4>3 DEF f
    <3> QED
      BY <3>2, <3>3
  <2>3. CASE h.do = "put" /\ Skipped(o, u) /\ G = F /\ U = T
    <3>1. Held(o, kind, F[f], T) => Held(u, kind, G[f], U)
      BY <1>4, <2>3 DEF Held
    <3> QED
      BY <1>4, <2>1, <2>3, <3>1 DEF f
  <2>4. CASE h.do # "put" /\ G = F /\ U = T
    <3>1. Held(o, kind, F[f], T) => Held(u, kind, G[f], U)
      BY <1>4, <2>4 DEF Held
    <3> QED
      BY <1>4, <1>7, <2>1, <2>4, <3>1 DEF f
  <2>5. CASE h.do = "discard" /\ G = F
    <3>1. CASE o.failures = 0
      BY <1>6, <2>1, <2>5, <3>1 DEF f
    <3>2. CASE o.failures # 0
      <4>1. \A g \in Kind \X Slot : U[g] = T[g]
        BY <1>8, <3>2
      <4>2. \A g \in o.staged : g \in Kind \X Slot
        BY DEF Undone
      <4>3. Held(o, kind, F[f], T) => Held(u, kind, G[f], U)
        BY <1>4, <2>5, <4>1, <4>2 DEF Held
      <4> QED
        BY <1>4, <2>1, <2>5, <3>2, <4>3 DEF f
    <3> QED
      BY <3>1, <3>2
  <2> QED
    BY <1>2, <1>3, <2>2, <2>3, <2>4, <2>5 DEF DoesPass, DoesDiscard, h
<1>10. Sound(u.data, u.bk0, U, u.staged)
  <2> SUFFICES ASSUME NEW n \in Used(o.data), NEW kind \in Kind
               PROVE  Good(o.data.acct[n], kind, o.bk0[Home(o.data, kind, n)], U, o.staged)
    BY <1>4 DEF Sound
  <2>1. Good(o.data.acct[n], kind, o.bk0[Home(o.data, kind, n)], T, o.staged)
    BY DEF Undone, Sound
  <2>2. \A m \in Slot : <<kind, m>> \notin o.staged => U[<<kind, m>>] = T[<<kind, m>>]
    BY <1>8
  <2> QED
    BY <2>1, <2>2 DEF Good
<1>11. ASSUME NEW g \in u.staged
       PROVE  g \in Kind \X Slot /\ (U[g] = None \/ (/\ g[2] \in Used(u.data)
                                                     /\ U[g] = u.bk0[Home(u.data, g[1], g[2])]))
  <2>1. g \in Kind \X Slot
        /\ (T[g] = None \/ (g[2] \in Used(o.data) /\ T[g] = o.bk0[Home(o.data, g[1], g[2])]))
    BY <1>4 DEF Undone
  <2> QED
    BY <1>4, <1>8, <2>1
<1> QED
  BY <1>4, <1>5, <1>9, <1>10, <1>11 DEF Undone

LEMMA RelocatingStep ==
  ASSUME NEW o, NEW u, NEW F, NEW G, NEW T, NEW U, NEW d, NEW e, Mover(o, F, T), Relocating(o, F, T), o.todo # <<>>,
         Does(o, u, F, G, T, U, d, e)
  PROVE  Relocating(u, G, U)
BY MovingStep, SettledStep, UndoneStep DEF Relocating, Refusing

-----------------------------------------------------------------------------
(* What a move keeps: every home sound, and a copy of every account.         *)

Copy(d, F, T, a) ==
  \/ \E n \in Used(d) : IdOf(d.acct[n]) = AccountId(a) /\ F[Home(d, "creds", n)] = a
  \/ \E m \in Slot : T[<<"creds", m>>] = a

LEMMA CopyIs == ASSUME NEW a \in Account PROVE HasCopy(a) <=> login = a \/ Copy(seq, bk, stage, a)
<1>1. \A n : n \in SlotsOf(seq, AccountId(a)) <=> n \in Used(seq) /\ IdOf(seq.acct[n]) = AccountId(a)
  BY DEF SlotsOf, Used, Holds
<1>2. \A n : IdOf(seq.acct[n]) = AccountId(a) => seq.acct[n].email = EmailOf[a]
  BY DEF IdOf, AccountId
<1>3. \A n : n \in SlotsOf(seq, AccountId(a)) => Stored("creds", n, EmailOf[a]) = bk[Home(seq, "creds", n)]
  BY <1>1, <1>2 DEF Stored, Home
<1> QED
  BY <1>1, <1>3 DEF HasCopy, Copy

LEMMA SoundFewer == ASSUME NEW d, NEW F, NEW T, NEW out, Sound(d, F, T, out) PROVE Sound(d, F, T, {})
BY DEF Sound, Good

LEMMA RelocatingSound ==
  ASSUME NEW o, NEW F, NEW T, Mover(o, F, T), Moving(o, F, T) \/ Settled(o, F, T) \/ Undone(o, F, T)
  PROVE  Sound(o.data, F, T, {})
<1>1. CASE Settled(o, F, T)
  BY <1>1, SoundFewer DEF Settled
<1>2. CASE Moving(o, F, T) \/ Undone(o, F, T)
  <2>1. Sound(o.data, o.bk0, T, {})
    BY <1>2, SoundFewer DEF Moving, Undone
  <2>2. \A g \in o.staged : g \in Kind \X Slot
    BY <1>2 DEF Moving, Copied, Undone
  <2> SUFFICES ASSUME NEW n \in Used(o.data), NEW kind \in Kind
               PROVE  Good(o.data.acct[n], kind, F[Home(o.data, kind, n)], T, {})
    BY DEF Sound
  <2> DEFINE v == F[Home(o.data, kind, n)]
  <2>3. v = o.bk0[Home(o.data, kind, n)] \/ v = None \/ Held(o, kind, v, T)
    BY <1>2 DEF Moving, Displaced, Undone
  <2>4. Good(o.data.acct[n], kind, o.bk0[Home(o.data, kind, n)], T, {})
    BY <2>1 DEF Sound
  <2> HIDE DEF v
  <2>5. ASSUME Held(o, kind, v, T) PROVE Good(o.data.acct[n], kind, v, T, {})
    <3>1. PICK g \in o.staged : g[1] = kind /\ T[g] = v
      BY <2>5 DEF Held
    <3>2. g[2] \in Slot /\ T[<<kind, g[2]>>] = v
      BY <2>2, <3>1
    <3> QED
      BY <3>2 DEF Good
  <2>6. Good(o.data.acct[n], kind, v, T, {})
    BY <2>3, <2>4, <2>5 DEF Good, Own, v
  <2> QED
    BY <2>6 DEF v
<1> QED
  BY <1>1, <1>2

\* What is staged of an account's credential survives the copies' discarding: it is the
\* account's own home's, or another staging file has it.
LEMMA DiscardKeeps ==
  ASSUME NEW o, NEW d \in Filled, NEW F, NEW T, NEW U, NEW a \in Account, Sound(d, F, T, o.staged), Copy(d, F, T, a),
         \A m \in Slot : <<"creds", m>> \notin o.staged /\ T[<<"creds", m>>] # None =>
                           U[<<"creds", m>>] = T[<<"creds", m>>],
         \A m \in Slot : <<"creds", m>> \in o.staged /\ T[<<"creds", m>>] # None =>
                           \E n \in Used(d) : T[<<"creds", m>>] = F[Home(d, "creds", n)]
  PROVE  Copy(d, F, U, a)
<1>0. a # None /\ "creds" \in Kind
  BY RosterAssumption DEF Kind
<1>1. ASSUME NEW n \in Used(d), F[Home(d, "creds", n)] = a PROVE Copy(d, F, U, a)
  <2>1. Good(d.acct[n], "creds", a, T, o.staged)
    BY <1>0, <1>1 DEF Sound
  <2>2. CASE Own(d.acct[n], a)
    BY <1>0, <1>1, <2>2 DEF Own, Copy
  <2>3. CASE \E m \in Slot : <<"creds", m>> \notin o.staged /\ T[<<"creds", m>>] = a
    BY <1>0, <2>3 DEF Copy
  <2> QED
    BY <2>1, <2>2, <2>3 DEF Good
<1>2. ASSUME NEW m \in Slot, T[<<"creds", m>>] = a PROVE Copy(d, F, U, a)
  <2>1. CASE <<"creds", m>> \in o.staged
    BY <1>0, <1>1, <1>2, <2>1
  <2>2. CASE <<"creds", m>> \notin o.staged
    BY <1>0, <1>2, <2>2 DEF Copy
  <2> QED
    BY <2>1, <2>2
<1> QED
  BY <1>1, <1>2 DEF Copy

\* A write of a move, or of its undo, over a home spares what a staging file does not have.
LEMMA PutKeeps ==
  ASSUME NEW o, NEW F, NEW G, NEW T, NEW a \in Account, Mover(o, F, T), Copy(o.data, F, T, a),
         \A g \in o.staged : g \in Kind \X Slot,
         \A n \in Used(o.data) : LET f == Home(o.data, "creds", n) IN
           F[f] = a => G[f] = F[f] \/ Held(o, "creds", F[f], T)
  PROVE  Copy(o.data, G, T, a)
<1>1. ASSUME Held(o, "creds", a, T) PROVE Copy(o.data, G, T, a)
  <2>1. PICK g \in o.staged : g[1] = "creds" /\ T[g] = a
    BY <1>1 DEF Held
  <2>2. g[2] \in Slot /\ T[<<"creds", g[2]>>] = a
    BY <2>1
  <2> QED
    BY <2>2 DEF Copy
<1> QED
  BY <1>1 DEF Copy

LEMMA MovingCopy ==
  ASSUME NEW o, NEW u, NEW F, NEW G, NEW T, NEW U, NEW e, Mover(o, F, T), Moving(o, F, T), o.todo # <<>>,
         Does(o, u, F, G, T, U, o.data, e), NEW a \in Account, Copy(o.data, F, T, a)
  PROVE  Copy(e, G, U, a)
<1> DEFINE h == Head(o.todo)
           d == o.data
<1>0. /\ o \in Locals /\ Ahead(o) /\ d \in Filled /\ F \in Files /\ T \in Stagers /\ a # None /\ "creds" \in Kind
      /\ o.slot \in Slot /\ o.to \in Slot /\ o.slot # o.to
  BY RosterAssumption DEF Mover, Moving, Ahead, Kind
<1>1. /\ h.do \notin {"delete", "discard"} /\ StepOf(o, h) /\ Has(o.todo) = {h} \cup Has(Tail(o.todo))
      /\ h.do = "put" => ~ \E x \in Has(Tail(o.todo)) : x.do = "stage"
      /\ h.do = "commit" => \A x \in Has(Tail(o.todo)) : x.do \in {"delete", "discard"}
  BY <1>0, AheadFacts
<1>2. \/ DoesPut(o, u, F, G) /\ U = T /\ e = d
      \/ DoesFail(o, u, F, G) /\ U = T /\ e = d
      \/ DoesCommit(o, u) /\ G = F /\ U = T /\ e = h.data
      \/ DoesStage(o, u, T, U) /\ G = F /\ e = d
      \/ DoesPass(o, u) /\ G = F /\ U = T /\ e = d
  BY <1>1 DEF Does, DoesDelete, DoesDiscard
<1>3. \A g \in o.staged : g \in Kind \X Slot /\ g[2] \in Crossing(o) /\ T[g] = o.bk0[Home(d, g[1], g[2])]
  BY DEF Moving, Copied
<1>4. \A n \in Used(d) : LET f == Home(d, "creds", n) IN
        F[f] = o.bk0[f] \/ (Overlap(o) /\ n \in Crossing(o) /\ (F[f] = None \/ Held(o, "creds", F[f], T)))
  BY <1>0 DEF Moving, Displaced
<1>5. \A v : Held(o, "creds", v, T) => \E m \in Slot : T[<<"creds", m>>] = v
  <2> SUFFICES ASSUME NEW g \in o.staged, g[1] = "creds" PROVE \E m \in Slot : T[<<"creds", m>>] = T[g]
    BY DEF Held
  <2>1. g[2] \in Slot /\ g = <<"creds", g[2]>>
    BY <1>3
  <2> QED
    BY <2>1
<1> HIDE DEF h, d
<1>6. CASE DoesPut(o, u, F, G) /\ U = T /\ e = d
  <2>1. h.do = "put" /\ G = [F EXCEPT ![h.file] = h.val] /\ ~ \E x \in Has(o.todo) : x.do = "stage"
    BY <1>1, <1>6 DEF DoesPut, h
  <2>2. PICK n0 \in Crossing(o), k0 \in Kind : h.file = Goal(o, k0, n0)
    BY <1>1, <2>1 DEF StepOf
  <2>3. ASSUME NEW n \in Used(d), F[Home(d, "creds", n)] = a
        PROVE  G[Home(d, "creds", n)] = F[Home(d, "creds", n)] \/ Held(o, "creds", F[Home(d, "creds", n)], T)
    <3> DEFINE f == Home(d, "creds", n)
    <3>1. CASE f = h.file
      <4>1. Overlap(o) /\ n \in Crossing(o)
        BY <1>0, <2>2, <3>1, GoalFacts DEF d
      <4>2. CASE Held(o, "creds", F[f], T)
        BY <4>2
      <4>3. CASE F[f] = o.bk0[f]
        <5>1. <<"creds", n>> \in o.staged
          BY <1>0, <2>1, <2>3, <4>1, <4>3 DEF Moving, Copied, d
        <5>2. T[<<"creds", n>>] = F[f]
          BY <1>3, <4>3, <5>1
        <5> QED
          BY <5>1, <5>2 DEF Held
      <4> QED
        BY <1>0, <1>4, <2>3, <4>2, <4>3
    <3>2. CASE f # h.file
      <4>1. f \in Kind \X Key
        BY <1>0, HomeFacts
      <4> QED
        BY <1>0, <2>1, <3>2, <4>1 DEF Files
    <3> QED
      BY <3>1, <3>2
  <2> QED
    BY <1>3, <1>6, <2>3, PutKeeps DEF d
<1>7. CASE G = F /\ U = T /\ e = d
  BY <1>7 DEF d
<1>8. CASE DoesStage(o, u, T, U) /\ G = F /\ e = d
  <2> DEFINE f == h.file
  <2>1. F = o.bk0
    BY <1>1, <1>8 DEF DoesStage, Moving, Copied, h
  <2>2. \/ T[f] = None /\ U = [T EXCEPT ![f] = h.val]
        \/ \A g \in Kind \X Slot : \/ U[g] = IF g \in o.staged THEN None ELSE T[g]
                                   \/ g = f /\ T[g] = None
    BY <1>8 DEF DoesStage, h
  <2> HIDE DEF f
  <2>3. \A g \in Kind \X Slot : g \notin o.staged /\ T[g] # None => U[g] = T[g]
    BY <1>0, <2>2 DEF Stagers
  <2>4. \A m \in Slot : <<"creds", m>> \in Kind \X Slot
    BY <1>0
  <2>5. \A m \in Slot : <<"creds", m>> \in o.staged /\ T[<<"creds", m>>] # None =>
          \E n \in Used(d) : T[<<"creds", m>>] = F[Home(d, "creds", n)]
    <3> SUFFICES ASSUME NEW m \in Slot, <<"creds", m>> \in o.staged
                 PROVE  m \in Used(d) /\ T[<<"creds", m>>] = F[Home(d, "creds", m)]
      OBVIOUS
    <3>1. m \in Crossing(o) /\ T[<<"creds", m>>] = o.bk0[Home(d, "creds", m)]
      BY <1>3
    <3> QED
      BY <2>1, <3>1 DEF Crossing, d
  <2>6. Sound(d, F, T, o.staged)
    BY <2>1 DEF Moving, d
  <2>7. Copy(d, F, T, a)
    BY DEF d
  <2>8. \A m \in Slot : <<"creds", m>> \notin o.staged /\ T[<<"creds", m>>] # None =>
                          U[<<"creds", m>>] = T[<<"creds", m>>]
    BY <2>3, <2>4
  <2>9. d \in Filled
    BY <1>0
  <2>10. Copy(d, F, U, a)
    BY <2>5, <2>6, <2>7, <2>8, <2>9, DiscardKeeps
  <2> QED
    BY <1>8, <2>10
<1>9. CASE DoesCommit(o, u) /\ G = F /\ U = T /\ e = h.data
  <2>1. h.do = "commit" /\ e = Renumbered(d, o.slot, o.to)
    BY <1>1, <1>9 DEF DoesCommit, StepOf, h, d
  <2>2. /\ \A m \in Slot : e.acct[m] = d.acct[Cross(o, m)] /\ Cross(o, m) \in Slot /\ Cross(o, Cross(o, m)) = m
        /\ \A n \in Used(d) : n \in Slot /\ Cross(o, n) \in Used(e)
    BY <1>0, <2>1, RenumberedIs, GoalFacts DEF Used, d
  <2>3. \A f : ~PutOn(o.todo, f)
    BY <1>1, <2>1 DEF PutOn
  <2>4. ASSUME NEW n \in Used(d), IdOf(d.acct[n]) = AccountId(a), F[Home(d, "creds", n)] = a
        PROVE  Copy(e, F, T, a)
    <3> DEFINE m == Cross(o, n)
    <3>1. m \in Used(e) /\ e.acct[m] = d.acct[n]
      BY <2>2
    <3>2. CASE n \in Crossing(o) /\ F[Home(d, "creds", n)] = o.bk0[Home(d, "creds", n)]
      <4>1. Home(e, "creds", m) = Goal(o, "creds", n)
        BY <3>1 DEF Home, Goal, d
      <4>2. F[Goal(o, "creds", n)] = a
        BY <1>0, <2>3, <2>4, <3>2 DEF Moving, Carried, d
      <4> QED
        BY <2>4, <3>1, <4>1, <4>2 DEF Copy
    <3>3. CASE Held(o, "creds", a, T)
      BY <1>5, <3>3 DEF Copy
    <3>4. CASE n \notin Crossing(o)
      <4>1. m = n
        BY <3>4 DEF Crossing, Cross, d
      <4>2. Home(e, "creds", m) = Home(d, "creds", n)
        BY <3>1, <4>1 DEF Home
      <4> QED
        BY <2>4, <3>1, <4>2 DEF Copy
    <3> QED
      BY <1>0, <1>4, <2>4, <3>2, <3>3, <3>4
  <2>5. ASSUME NEW m \in Slot, T[<<"creds", m>>] = a PROVE Copy(e, F, T, a)
    BY <2>5 DEF Copy
  <2>6. Copy(d, F, T, a)
    BY DEF d
  <2> QED
    BY <1>9, <2>4, <2>5, <2>6 DEF Copy
<1> QED
  BY <1>2, <1>6, <1>7, <1>8, <1>9 DEF DoesFail

LEMMA SettledCopy ==
  ASSUME NEW o, NEW u, NEW F, NEW G, NEW T, NEW U, NEW e, Mover(o, F, T), Settled(o, F, T), o.todo # <<>>,
         Does(o, u, F, G, T, U, o.data, e), NEW a \in Account, Copy(o.data, F, T, a)
  PROVE  Copy(e, G, U, a)
<1> DEFINE h == Head(o.todo)
           d == o.data
<1>0. o.todo \in Todos /\ d \in Filled /\ F \in Files /\ T \in Stagers /\ "creds" \in Kind
  BY DEF Mover, Locals, Kind
<1>1. h \in Has(o.todo)
  BY <1>0, HasTail DEF Todos
<1>2. \/ h.do = "discard"
      \/ h.do = "delete" /\ \A n \in Used(d) : h.key # <<n, d.acct[n].email>>
  BY <1>1 DEF Settled
<1>3. \/ DoesDelete(o, u, F, G) /\ U = T /\ e = d
      \/ DoesDiscard(o, u, T, U) /\ G = F /\ e = d
  BY <1>2 DEF Does, DoesPut, DoesFail, DoesCommit, DoesStage, DoesPass
<1> HIDE DEF h, d
<1>4. CASE DoesDelete(o, u, F, G) /\ U = T /\ e = d
  <2>1. ASSUME NEW n \in Used(d) PROVE G[Home(d, "creds", n)] = F[Home(d, "creds", n)]
    <3>1. Home(d, "creds", n) \in Kind \X Key
      BY <1>0, HomeFacts
    <3>2. Home(d, "creds", n)[2] # h.key
      BY <1>2, <1>4 DEF DoesDelete, Home, h
    <3> QED
      BY <1>4, <3>1, <3>2 DEF DoesDelete, h
  <2> QED
    BY <1>4, <2>1 DEF Copy, d
<1>5. CASE DoesDiscard(o, u, T, U) /\ G = F /\ e = d
  <2>1. \A g \in Kind \X Slot : g \notin o.staged => U[g] = T[g]
    BY <1>0, <1>5 DEF DoesDiscard, Dropped, Stagers
  <2>2. \A m \in Slot : <<"creds", m>> \in Kind \X Slot
    BY <1>0
  <2>3. \A m \in Slot : <<"creds", m>> \notin o.staged /\ T[<<"creds", m>>] # None =>
                          U[<<"creds", m>>] = T[<<"creds", m>>]
    BY <2>1, <2>2
  <2>4. \A m \in Slot : <<"creds", m>> \in o.staged /\ T[<<"creds", m>>] # None =>
          \E n \in Used(d) : T[<<"creds", m>>] = F[Home(d, "creds", n)]
    <3> SUFFICES ASSUME NEW m \in Slot, <<"creds", m>> \in o.staged, T[<<"creds", m>>] # None
                 PROVE  \E n \in Used(d) : T[<<"creds", m>>] = F[Home(d, "creds", n)]
      OBVIOUS
    <3>1. LET g == <<"creds", m>> IN Cross(o, g[2]) \in Used(d) /\ T[g] = F[Home(d, g[1], Cross(o, g[2]))]
      BY DEF Settled, d
    <3> QED
      BY <3>1
  <2>5. Sound(d, F, T, o.staged) /\ Copy(d, F, T, a)
    BY DEF Settled, d
  <2>6. Copy(d, F, U, a)
    BY <1>0, <2>3, <2>4, <2>5, DiscardKeeps
  <2> QED
    BY <1>5, <2>6
<1> QED
  BY <1>3, <1>4, <1>5

LEMMA UndoneCopy ==
  ASSUME NEW o, NEW u, NEW F, NEW G, NEW T, NEW U, NEW e, Mover(o, F, T), Undone(o, F, T), o.todo # <<>>,
         Does(o, u, F, G, T, U, o.data, e), NEW a \in Account, Copy(o.data, F, T, a)
  PROVE  Copy(e, G, U, a)
<1> DEFINE h == Head(o.todo)
           d == o.data
<1>0. /\ o.todo \in Todos /\ d \in Filled /\ F \in Files /\ T \in Stagers /\ "creds" \in Kind
      /\ a # None /\ o.failures \in Nat
  BY RosterAssumption DEF Mover, Locals, Kind
<1>1. /\ Has(o.todo) = {h} \cup Has(Tail(o.todo)) /\ \A x \in Has(Tail(o.todo)) : <<h, x>> \in MoveOrder
  BY <1>0, HasTail DEF Todos, Undone, Restores
<1>2. /\ h.do \in {"put", "move", "exchange", "discard"} /\ ~h.must
      /\ h.do = "put" /\ IsHome(d, h.file) => h.val = o.bk0[h.file]
  BY <1>1 DEF Undone, Restores
<1>3. \/ DoesPut(o, u, F, G) /\ U = T /\ e = d
      \/ G = F /\ U = T /\ e = d
      \/ DoesDiscard(o, u, T, U) /\ G = F /\ e = d
  BY <1>2 DEF Does, DoesFail, DoesDelete, DoesCommit, DoesStage, DoesPass
<1>4. \A n \in Used(d) : LET f == Home(d, "creds", n) IN
        /\ o.failures = 0 => F[f] = o.bk0[f] \/ PutOn(o.todo, f)
        /\ F[f] = o.bk0[f] \/ F[f] = None \/ Held(o, "creds", F[f], T)
  BY <1>0 DEF Undone
<1>5. \A g \in o.staged : g \in Kind \X Slot /\ (T[g] = None \/ (g[2] \in Used(d) /\ T[g] = o.bk0[Home(d, g[1], g[2])]))
  BY DEF Undone
<1> HIDE DEF h, d
<1>6. CASE DoesPut(o, u, F, G) /\ U = T /\ e = d
  <2>1. h.do = "put" /\ G = [F EXCEPT ![h.file] = h.val]
    BY <1>6 DEF DoesPut, h
  <2>2. ASSUME NEW n \in Used(d), F[Home(d, "creds", n)] = a
        PROVE  G[Home(d, "creds", n)] = F[Home(d, "creds", n)] \/ Held(o, "creds", F[Home(d, "creds", n)], T)
    <3> DEFINE f == Home(d, "creds", n)
    <3>1. f \in Kind \X Key /\ IsHome(d, f)
      BY <1>0, HomeFacts DEF IsHome
    <3>2. F[f] = o.bk0[f] \/ Held(o, "creds", F[f], T)
      BY <1>0, <1>4, <2>2
    <3> HIDE DEF f
    <3>3. G[f] = F[f] \/ G[f] = o.bk0[f]
      BY <1>0, <1>2, <2>1, <3>1 DEF Files
    <3>4. G[f] = F[f] \/ Held(o, "creds", F[f], T)
      BY <3>2, <3>3
    <3> QED
      BY <3>4 DEF f
  <2> QED
    BY <1>5, <1>6, <2>2, PutKeeps DEF d
<1>7. CASE G = F /\ U = T /\ e = d
  BY <1>7 DEF d
<1>8. CASE DoesDiscard(o, u, T, U) /\ U # T /\ G = F /\ e = d
  <2>1. h.do = "discard" /\ U = Dropped(T, o.staged) /\ o.failures = 0
    BY <1>0, <1>8 DEF DoesDiscard, Undone, h
  <2>2. \A m \in Slot : <<"creds", m>> \in Kind \X Slot
    BY <1>0
  <2>3. \A m \in Slot : <<"creds", m>> \notin o.staged /\ T[<<"creds", m>>] # None =>
                          U[<<"creds", m>>] = T[<<"creds", m>>]
    BY <1>0, <2>1, <2>2 DEF Dropped, Stagers
  <2>4. \A f : ~PutOn(o.todo, f)
    BY <1>1, <2>1, OrderFacts DEF PutOn
  <2>5. \A n \in Used(d) : F[Home(d, "creds", n)] = o.bk0[Home(d, "creds", n)]
    BY <1>4, <2>1, <2>4
  <2>6. ASSUME NEW m \in Slot, <<"creds", m>> \in o.staged, T[<<"creds", m>>] # None
        PROVE  \E n \in Used(d) : T[<<"creds", m>>] = F[Home(d, "creds", n)]
    <3>1. m \in Used(d) /\ T[<<"creds", m>>] = o.bk0[Home(d, "creds", m)]
      BY <1>5, <2>6
    <3> QED
      BY <2>5, <3>1
  <2>7. Sound(d, o.bk0, T, o.staged) /\ Copy(d, F, T, a)
    BY DEF Undone, d
  <2>8. Copy(d, o.bk0, T, a)
    BY <2>5, <2>7 DEF Copy
  <2>9. \A m \in Slot : <<"creds", m>> \in o.staged /\ T[<<"creds", m>>] # None =>
          \E n \in Used(d) : T[<<"creds", m>>] = o.bk0[Home(d, "creds", n)]
    BY <2>5, <2>6
  <2>10. Copy(d, o.bk0, U, a)
    BY <1>0, <2>3, <2>7, <2>8, <2>9, DiscardKeeps
  <2>11. Copy(d, F, U, a)
    BY <2>5, <2>10 DEF Copy
  <2> QED
    BY <1>8, <2>11
<1> QED
  BY <1>3, <1>6, <1>7, <1>8

LEMMA RelocatingCopy ==
  ASSUME NEW o, NEW u, NEW F, NEW G, NEW T, NEW U, NEW e, Mover(o, F, T), Relocating(o, F, T), o.todo # <<>>,
         Does(o, u, F, G, T, U, o.data, e), NEW a \in Account, Copy(o.data, F, T, a)
  PROVE  Copy(e, G, U, a)
BY MovingCopy, SettledCopy, UndoneCopy DEF Relocating, Refusing

-----------------------------------------------------------------------------
(* What a move plans: its writes are in order and carry every home to its    *)
(* goal, with one email from copies; its undo restores every home it writes. *)

\* A list in order whose instructions have the ranks j to k.
Spans(s, j, k) == s \in Todos /\ Ordered(MoveOrder, s) /\ \A x \in Has(s) : j <= Rank(x) /\ Rank(x) <= k

LEMMA RankIs ==
  ASSUME NEW x \in Instr(Filled)
  PROVE  /\ Rank(x) \in 1 .. 5
         /\ x.do = "stage" => Rank(x) = 1
         /\ x.do \in {"put", "move", "exchange"} => Rank(x) = 2
         /\ x.do = "commit" => Rank(x) = 3
         /\ x.do = "delete" => Rank(x) = 4
         /\ x.do = "discard" => Rank(x) = 5
         /\ Rank(x) = 3 <=> x.do = "commit"
         /\ Rank(x) = 5 <=> x.do = "discard"
<1>1. x.do \in {"stage", "put", "move", "exchange", "commit", "delete", "discard"}
  BY DEF Instr, Puts, Deletes, Commits, Stages, Moves, Exchanges, Discards
<1>2. /\ x.do = "stage" => Rank(x) = 1
      /\ x.do \in {"put", "move", "exchange"} => Rank(x) = 2
      /\ x.do = "commit" => Rank(x) = 3
      /\ x.do = "delete" => Rank(x) = 4
      /\ x.do = "discard" => Rank(x) = 5
  BY DEF Rank
<1> QED
  BY <1>1, <1>2

LEMMA SpansWider ==
  ASSUME NEW s, NEW i \in 1 .. 5, NEW j \in 1 .. 5, NEW k \in 1 .. 5, NEW l \in 1 .. 5, Spans(s, j, k), i <= j, k <= l
  PROVE  Spans(s, i, l)
<1>1. ASSUME NEW x \in Has(s) PROVE i <= Rank(x) /\ Rank(x) <= l
  <2>1. x \in Instr(Filled)
    BY DEF Spans, Has, Todos
  <2>2. Rank(x) \in 1 .. 5 /\ j <= Rank(x) /\ Rank(x) <= k
    BY <2>1, RankIs DEF Spans
  <2> QED
    BY <2>2
<1> QED
  BY <1>1 DEF Spans

Cat(s, t) == s \o t

LEMMA SpansJoin ==
  ASSUME NEW s, NEW t, NEW j \in 1 .. 5, NEW k \in {1, 2, 4}, NEW l \in 1 .. 5, Spans(s, j, k), Spans(t, k, l), j <= k, k <= l
  PROVE  Spans(Cat(s, t), j, l) /\ Has(Cat(s, t)) = Has(s) \cup Has(t)
<1>1. s \in Todos /\ t \in Todos
  BY DEF Spans
<1>2. /\ s \o t \in Todos /\ Has(s \o t) = Has(s) \cup Has(t)
      /\ \A R : Ordered(R, s) /\ Ordered(R, t) /\ (\A x \in Has(s), y \in Has(t) : <<x, y>> \in R) =>
           Ordered(R, s \o t)
  BY <1>1, HasJoin DEF Todos
<1>3. \A x \in Has(s) \cup Has(t) : x \in Instr(Filled)
  BY <1>1 DEF Has, Todos
<1>4. ASSUME NEW x \in Has(s), NEW y \in Has(t) PROVE <<x, y>> \in MoveOrder
  <2>1. Rank(x) \in 1 .. 5 /\ Rank(y) \in 1 .. 5 /\ Rank(x) <= k /\ k <= Rank(y)
    BY <1>3, RankIs DEF Spans
  <2>2. Rank(x) < Rank(y) \/ (Rank(x) = Rank(y) /\ Rank(x) # 3 /\ Rank(x) # 5)
    BY <2>1
  <2>3. x.do \in {"commit", "discard"} => Rank(x) = 3 \/ Rank(x) = 5
    BY <1>3, RankIs
  <2> QED
    BY <1>3, <2>2, <2>3 DEF MoveOrder
<1>5. \A x \in Has(s) \cup Has(t) : j <= Rank(x) /\ Rank(x) <= l
  <2>1. \A x \in Has(s) \cup Has(t) : Rank(x) \in 1 .. 5
    BY <1>3, RankIs
  <2> QED
    BY <2>1 DEF Spans
<1>6. Spans(s \o t, j, l)
  BY <1>2, <1>4, <1>5 DEF Spans
<1> QED
  BY <1>2, <1>6 DEF Cat

LEMMA SpansShort ==
  /\ \A j, k \in 1 .. 5 : Spans(<<>>, j, k)
  /\ \A x \in Instr(Filled) : Spans(<<x>>, Rank(x), Rank(x))
  /\ \A x, y \in Instr(Filled) : <<x, y>> \in MoveOrder => Spans(<<x, y>>, Rank(x), Rank(y))
  /\ \A c \in BOOLEAN, x \in Instr(Filled) : Spans(When(c, x), Rank(x), Rank(x))
<1>1. \A j, k \in 1 .. 5 : Spans(<<>>, j, k)
  BY HasShort, OrderedShort, EmptySeq DEF Spans, Todos
<1>2. ASSUME NEW x \in Instr(Filled) PROVE Spans(<<x>>, Rank(x), Rank(x))
  <2>1. <<x>> \in Todos /\ Ordered(MoveOrder, <<x>>) /\ Has(<<x>>) = {x}
    BY HasShort, OrderedShort, OneSeq DEF Todos
  <2>2. Rank(x) \in 1 .. 5
    BY RankIs
  <2> QED
    BY <2>1, <2>2 DEF Spans
<1>3. ASSUME NEW x \in Instr(Filled), NEW y \in Instr(Filled), <<x, y>> \in MoveOrder
      PROVE  Spans(<<x, y>>, Rank(x), Rank(y))
  <2>1. <<x, y>> \in Todos /\ Ordered(MoveOrder, <<x, y>>) /\ Has(<<x, y>>) = {x, y}
    BY <1>3, HasShort, OrderedShort, TwoSeq DEF Todos
  <2>2. Rank(x) \in 1 .. 5 /\ Rank(y) \in 1 .. 5
    BY RankIs
  <2>3. Rank(x) <= Rank(y)
    BY <1>3, <2>2 DEF MoveOrder
  <2> QED
    BY <2>1, <2>2, <2>3 DEF Spans
<1>4. ASSUME NEW c \in BOOLEAN, NEW x \in Instr(Filled) PROVE Spans(When(c, x), Rank(x), Rank(x))
  <2>1. Rank(x) \in 1 .. 5
    BY RankIs
  <2> QED
    BY <1>1, <1>2, <2>1 DEF When
<1> QED
  BY <1>1, <1>2, <1>3, <1>4

\* The two writes of one account's files.
Writes(x, kind, n, e, v) == x.do = "put" /\ x.file = <<kind, <<n, e>>>> /\ x.val = v

PutsTwo(t, n, e, v, w, k) ==
  Spans(t, 2, 2) /\ \E y, z : /\ Has(t) = {y, z} /\ Writes(y, "creds", n, e, v) /\ Writes(z, "config", n, e, w)
                              /\ (y.must <=> k) /\ (z.must <=> k)

LEMMA PutBothMust ==
  ASSUME NEW n \in Slot, NEW e \in Email, NEW v \in Account \cup {None}, NEW w \in Account \cup {None}, NEW t,
         t = PutBoth(n, e, v, w, TRUE)
  PROVE  PutsTwo(t, n, e, v, w, TRUE)
<1> DEFINE y == [do |-> "put", file |-> <<"creds", <<n, e>>>>, val |-> v, must |-> TRUE]
           z == [do |-> "put", file |-> <<"config", <<n, e>>>>, val |-> w, must |-> TRUE]
<1>1. y \in Instr(Filled) /\ z \in Instr(Filled)
  BY DEF Instr, Puts, Key, Kind
<1>2. y.do = "put" /\ z.do = "put" /\ Writes(y, "creds", n, e, v) /\ Writes(z, "config", n, e, w)
      /\ y.must /\ z.must
  BY DEF Writes
<1>3. t = <<y, z>>
  BY DEF Put, PutBoth
<1> HIDE DEF y, z
<1>4. Spans(<<y, z>>, 2, 2) /\ Has(<<y, z>>) = {y, z}
  BY <1>1, <1>2, RankIs, InOrder, SpansShort, HasShort
<1> QED
  BY <1>2, <1>3, <1>4 DEF PutsTwo

LEMMA PutBothMay ==
  ASSUME NEW n \in Slot, NEW e \in Email, NEW v \in Account \cup {None}, NEW w \in Account \cup {None}, NEW t,
         t = PutBoth(n, e, v, w, FALSE)
  PROVE  PutsTwo(t, n, e, v, w, FALSE)
<1> DEFINE y == [do |-> "put", file |-> <<"creds", <<n, e>>>>, val |-> v, must |-> FALSE]
           z == [do |-> "put", file |-> <<"config", <<n, e>>>>, val |-> w, must |-> FALSE]
<1>1. y \in Instr(Filled) /\ z \in Instr(Filled)
  BY DEF Instr, Puts, Key, Kind
<1>2. y.do = "put" /\ z.do = "put" /\ Writes(y, "creds", n, e, v) /\ Writes(z, "config", n, e, w)
      /\ ~y.must /\ ~z.must
  BY DEF Writes
<1>3. t = <<y, z>>
  BY DEF Put, PutBoth
<1> HIDE DEF y, z
<1>4. Spans(<<y, z>>, 2, 2) /\ Has(<<y, z>>) = {y, z}
  BY <1>1, <1>2, RankIs, InOrder, SpansShort, HasShort
<1> QED
  BY <1>2, <1>3, <1>4 DEF PutsTwo

LEMMA PlannedMoves ==
  ASSUME NEW u, NEW F, NEW T, Mover(u, F, T), Fresh(u), u.slot # u.to, u.bk0 = F, Sound(u.data, F, T, {}),
         Ordered(MoveOrder, u.todo), \E x \in Has(u.todo) : x.do = "commit", \A x \in Has(u.todo) : StepOf(u, x),
         Restores(u, u.undo),
         Overlap(u) => \A n \in Crossing(u), kind \in Kind : PutOn(u.undo, Home(u.data, kind, n)),
         \A n \in Crossing(u), kind \in Kind : PutOn(u.todo, Goal(u, kind, n)),
         Overlap(u) => \A n \in Crossing(u), kind \in Kind :
           \/ F[Home(u.data, kind, n)] = None
           \/ \E x \in Has(u.todo) : x.do = "stage" /\ x.file = <<kind, n>>
  PROVE  Moving(u, F, T)
<1>1. Ahead(u)
  BY DEF Ahead, Fresh
<1>2. Displaced(u, F, T) /\ Carried(u, F)
  BY DEF Displaced, Carried
<1>3. Copied(u, F, T)
  BY DEF Copied, Fresh
<1>4. Sound(u.data, u.bk0, T, u.staged)
  BY DEF Fresh
<1> QED
  BY <1>1, <1>2, <1>3, <1>4 DEF Moving

LEMMA PlanIs == \A t, w : Plan(t, w).todo = t /\ Plan(t, w).undo = w
BY DEF Plan

LEMMA OneStep ==
  ASSUME NEW x \in Instr(Filled), NEW t, t = <<x>>
  PROVE  Spans(t, Rank(x), Rank(x)) /\ Has(t) = {x}
BY SpansShort, HasShort

LEMMA MoveIs ==
  ASSUME NEW k \in Key, NEW l \in Key, NEW x, x = MoveProfile(k, l) \/ x = SwapProfiles(k, l) \/ x = Discard
  PROVE  /\ x \in Instr(Filled) /\ ~x.must /\ x.do \in {"move", "exchange", "discard"}
         /\ x.do = "discard" <=> x = Discard
<1>1. x \in Instr(Filled)
  BY MoveOK, MildFacts
<1>2. /\ MoveProfile(k, l).do = "move" /\ ~MoveProfile(k, l).must
      /\ SwapProfiles(k, l).do = "exchange" /\ ~SwapProfiles(k, l).must
      /\ Discard.do = "discard" /\ ~Discard.must
  BY DEF MoveProfile, SwapProfiles, Discard
<1> QED
  BY <1>1, <1>2

LEMMA CommitIs ==
  ASSUME NEW d \in Filled, NEW x, x = WriteSequence(d)
  PROVE  x \in Instr(Filled) /\ x.do = "commit" /\ x.must /\ x.data = d /\ Rank(x) = 3
<1>1. x \in Instr(Filled)
  BY CommitOK, MildFacts
<1>2. x.do = "commit" /\ x.must /\ x.data = d
  BY DEF WriteSequence
<1> QED
  BY <1>1, <1>2, RankIs

LEMMA CleanIs ==
  ASSUME NEW n \in Slot, NEW e \in Email, NEW x, x = DeleteAccountFiles(n, e, FALSE)
  PROVE  x \in Instr(Filled) /\ x.do = "delete" /\ ~x.must /\ x.key = <<n, e>> /\ Rank(x) = 4
<1>1. x \in Instr(Filled)
  BY DeleteOK, MildFacts
<1>2. x.do = "delete" /\ ~x.must /\ x.key = <<n, e>>
  BY DEF DeleteAccountFiles
<1> QED
  BY <1>1, <1>2, RankIs

LEMMA StageIs ==
  ASSUME NEW kind \in Kind, NEW n \in Slot, NEW v \in Account \cup {None}, NEW x, x = StageFile(kind, n, v)
  PROVE  x \in Instr(Filled) /\ x.do = "stage" /\ x.must /\ x.file = <<kind, n>> /\ x.val = v /\ Rank(x) = 1
<1>1. x \in Instr(Filled)
  BY StageOK, MildFacts
<1>2. x.do = "stage" /\ x.must /\ x.file = <<kind, n>> /\ x.val = v
  BY DEF StageFile
<1> QED
  BY <1>1, <1>2, RankIs

LEMMA JoinThree ==
  ASSUME NEW s, NEW t, NEW w, NEW i \in 1 .. 5, NEW j \in {1, 2, 4}, NEW k \in {1, 2, 4}, NEW l \in 1 .. 5,
         Spans(s, i, j), Spans(t, j, k), Spans(w, k, l), i <= j, j <= k, k <= l
  PROVE  Spans(Cat(Cat(s, t), w), i, l) /\ Has(Cat(Cat(s, t), w)) = Has(s) \cup Has(t) \cup Has(w)
<1>1. Spans(Cat(s, t), i, k) /\ Has(Cat(s, t)) = Has(s) \cup Has(t)
  BY SpansJoin
<1>2. Spans(Cat(Cat(s, t), w), i, l) /\ Has(Cat(Cat(s, t), w)) = Has(Cat(s, t)) \cup Has(w)
  BY <1>1, SpansJoin
<1> QED
  BY <1>1, <1>2

Carries(s, a, b, e, v, w, r) ==
  \E x, y, z, f, g :
       /\ Spans(s, 2, 4) /\ Has(s) = {x, y, z, f, g} /\ x.do \in {"move", "exchange", "discard"}
       /\ y.do = "commit" /\ y.must /\ y.data = r /\ z.do = "delete" /\ ~z.must /\ z.key = <<a, e>>
       /\ Writes(f, "creds", b, e, v) /\ f.must /\ Writes(g, "config", b, e, w) /\ g.must

LEMMA RelocateTodo ==
  ASSUME NEW a \in Slot, NEW b \in Slot, NEW e \in Email, NEW v \in Account \cup {None},
         NEW w \in Account \cup {None}, NEW r \in Filled, NEW s,
         s = Cat(Cat(<<MoveProfile(<<a, e>>, <<b, e>>)>>, PutBoth(b, e, v, w, TRUE)),
                 <<WriteSequence(r), DeleteAccountFiles(a, e, FALSE)>>)
  PROVE  Carries(s, a, b, e, v, w, r)
<1> DEFINE x == MoveProfile(<<a, e>>, <<b, e>>)
           y == WriteSequence(r)
           z == DeleteAccountFiles(a, e, FALSE)
           t1 == <<x>>
           t2 == PutBoth(b, e, v, w, TRUE)
           t3 == <<y, z>>
<1>1. s = Cat(Cat(t1, t2), t3)
  OBVIOUS
<1>2. <<a, e>> \in Key /\ <<b, e>> \in Key
  BY DEF Key
<1>3. x \in Instr(Filled) /\ x.do = "move"
  BY <1>2, MoveOK, MildFacts DEF MoveProfile
<1>4. y \in Instr(Filled) /\ y.do = "commit" /\ y.must /\ y.data = r /\ Rank(y) = 3
  BY CommitIs
<1>5. z \in Instr(Filled) /\ z.do = "delete" /\ ~z.must /\ z.key = <<a, e>> /\ Rank(z) = 4
  BY CleanIs
<1> HIDE DEF x, y, z
<1>6. Spans(t1, 2, 2) /\ Has(t1) = {x}
  BY <1>3, RankIs, OneStep
<1>7. <<y, z>> \in MoveOrder
  BY <1>4, <1>5 DEF MoveOrder
<1>8. Spans(t3, 3, 4) /\ Has(t3) = {y, z}
  BY <1>4, <1>5, <1>7, SpansShort, HasShort
<1>9. PICK f, g : /\ Spans(t2, 2, 2) /\ Has(t2) = {f, g} /\ Writes(f, "creds", b, e, v)
                  /\ Writes(g, "config", b, e, w) /\ f.must /\ g.must
  <2>1. t2 = PutBoth(b, e, v, w, TRUE)
    OBVIOUS
  <2> HIDE DEF t2
  <2>2. PutsTwo(t2, b, e, v, w, TRUE)
    BY <2>1, PutBothMust
  <2> QED
    BY <2>2 DEF PutsTwo
<1> HIDE DEF t1, t2, t3
<1>10. Spans(t3, 2, 4)
  BY <1>8, SpansWider
<1>11. Spans(Cat(Cat(t1, t2), t3), 2, 4) /\ Has(Cat(Cat(t1, t2), t3)) = Has(t1) \cup Has(t2) \cup Has(t3)
  BY <1>6, <1>9, <1>10, JoinThree
<1>12. Has(s) = {x, y, z, f, g}
  BY <1>1, <1>6, <1>8, <1>9, <1>11
<1> QED
  BY <1>1, <1>3, <1>4, <1>5, <1>9, <1>11, <1>12 DEF Carries

Clears(s, b, e) ==
  /\ Spans(s, 2, 2)
  /\ \A x \in Has(s) : x.do \in {"put", "move"} /\ ~x.must /\ (x.do = "put" => x.file[2] = <<b, e>>)

LEMMA RelocateUndo ==
  ASSUME NEW a \in Slot, NEW b \in Slot, NEW e \in Email, NEW s,
         s = Cat(PutBoth(b, e, None, None, FALSE), <<MoveProfile(<<b, e>>, <<a, e>>)>>)
  PROVE  Clears(s, b, e)
<1> DEFINE x == MoveProfile(<<b, e>>, <<a, e>>)
           t1 == PutBoth(b, e, None, None, FALSE)
           t2 == <<x>>
<1>1. s = Cat(t1, t2)
  OBVIOUS
<1>2. <<a, e>> \in Key /\ <<b, e>> \in Key
  BY DEF Key
<1>3. x \in Instr(Filled) /\ x.do = "move" /\ ~x.must
  BY <1>2, MoveOK, MildFacts DEF MoveProfile
<1> HIDE DEF x
<1>4. Spans(t2, 2, 2) /\ Has(t2) = {x}
  BY <1>3, RankIs, OneStep
<1>5. PICK f, g : /\ Spans(t1, 2, 2) /\ Has(t1) = {f, g} /\ Writes(f, "creds", b, e, None)
                  /\ Writes(g, "config", b, e, None) /\ ~f.must /\ ~g.must
  <2>1. t1 = PutBoth(b, e, None, None, FALSE)
    OBVIOUS
  <2> HIDE DEF t1
  <2>2. PutsTwo(t1, b, e, None, None, FALSE)
    BY <2>1, PutBothMay
  <2> QED
    BY <2>2 DEF PutsTwo
<1> HIDE DEF t1, t2
<1>6. Spans(Cat(t1, t2), 2, 2) /\ Has(Cat(t1, t2)) = Has(t1) \cup Has(t2)
  BY <1>4, <1>5, SpansJoin
<1>7. \A y \in {x, f, g} : y.do \in {"put", "move"} /\ ~y.must /\ (y.do = "put" => y.file[2] = <<b, e>>)
  BY <1>3, <1>5 DEF Writes
<1> QED
  BY <1>1, <1>4, <1>5, <1>6, <1>7 DEF Clears

LEMMA RelocateMoves ==
  ASSUME NEW u, NEW F, NEW T, Mover(u, F, T), Fresh(u), u.slot # u.to, u.bk0 = F, Sound(u.data, F, T, {}),
         u.data.acct[u.slot] # None, u.data.acct[u.to] = None, NEW e, e = u.data.acct[u.slot].email,
         Carries(u.todo, u.slot, u.to, e, F[Home(u.data, "creds", u.slot)], F[Home(u.data, "config", u.slot)],
                 Renumbered(u.data, u.slot, u.to)),
         Clears(u.undo, u.to, e)
  PROVE  Moving(u, F, T)
<1> DEFINE d == u.data
           a == u.slot
           b == u.to
           v == F[Home(d, "creds", a)]
           w == F[Home(d, "config", a)]
           r == Renumbered(d, a, b)
           s == u.todo
           q == u.undo
<1>1. d \in Filled /\ a \in Slot /\ b \in Slot /\ a # b /\ Kind = {"creds", "config"} /\ d.acct[a] # None /\ d.acct[b] = None
  BY DEF Mover, Kind
<1>2. e \in Email
  BY <1>1, DataFacts, RecordFacts DEF Filled
<1>3. r \in Filled
  BY <1>1, RenumberedOK
<1>4. v \in Account \cup {None} /\ w \in Account \cup {None} /\ a \in Used(d) /\ b \notin Used(d)
  <2>1. a \in Used(d) /\ b \notin Used(d)
    BY <1>1 DEF Used
  <2>2. F[Home(d, "creds", a)] \in Account \cup {None} /\ F[Home(d, "config", a)] \in Account \cup {None}
    BY <1>1, <2>1, HomeFacts DEF Mover, Files
  <2> QED
    BY <2>1, <2>2
<1>5. Carries(s, a, b, e, v, w, r)
  OBVIOUS
<1>6. Clears(q, b, e)
  OBVIOUS
<1>7. v = F[Home(d, "creds", a)] /\ w = F[Home(d, "config", a)] /\ r = Renumbered(d, a, b)
      /\ u.bk0 = F /\ u.data = d /\ u.slot = a /\ u.to = b /\ u.todo = s /\ u.undo = q
  OBVIOUS
<1> HIDE DEF d, a, b, v, w, r, s, q
<1>8. Spans(q, 2, 2) /\ \A x \in Has(q) : x.do \in {"put", "move"} /\ ~x.must /\ (x.do = "put" => x.file[2] = <<b, e>>)
  BY <1>6 DEF Clears
<1>9. PICK x, y, z, f, g :
        /\ Spans(s, 2, 4) /\ Has(s) = {x, y, z, f, g} /\ x.do \in {"move", "exchange", "discard"}
        /\ y.do = "commit" /\ y.must /\ y.data = r /\ z.do = "delete" /\ ~z.must /\ z.key = <<a, e>>
        /\ Writes(f, "creds", b, e, v) /\ f.must /\ Writes(g, "config", b, e, w) /\ g.must
  BY <1>5 DEF Carries
<1>10. Crossing(u) = {a} /\ ~Overlap(u)
  BY <1>1, <1>4, <1>7 DEF Crossing, Overlap
<1>11. \A kind \in Kind : Goal(u, kind, a) = <<kind, <<b, e>>>>
  BY <1>7 DEF Goal, Cross
<1>12. f.do = "put" /\ f.file = Goal(u, "creds", a) /\ f.val = v /\ g.do = "put" /\ g.file = Goal(u, "config", a) /\ g.val = w
  BY <1>1, <1>9, <1>11 DEF Writes
<1>13. \A i \in Has(s) : StepOf(u, i)
  <2>1. StepOf(u, x)
    BY <1>9 DEF StepOf
  <2>2. StepOf(u, y)
    BY <1>7, <1>9 DEF StepOf
  <2>3. StepOf(u, z)
    BY <1>7, <1>9, <1>10 DEF StepOf
  <2>4. StepOf(u, f) /\ StepOf(u, g)
    BY <1>1, <1>7, <1>9, <1>10, <1>12 DEF StepOf
  <2> QED
    BY <1>9, <2>1, <2>2, <2>3, <2>4
<1>14. Restores(u, q)
  <2>1. Ordered(MoveOrder, q)
    BY <1>8 DEF Spans
  <2>2. ASSUME NEW i \in Has(q), i.do = "put" PROVE ~IsHome(d, i.file)
    <3>1. i.file[2] = <<b, e>>
      BY <1>8, <2>2
    <3> QED
      BY <1>4, <3>1 DEF IsHome, Home
  <2> QED
    BY <1>7, <1>8, <2>1, <2>2 DEF Restores
<1>15. \A n \in Crossing(u), kind \in Kind : PutOn(s, Goal(u, kind, n))
  BY <1>1, <1>9, <1>10, <1>12 DEF PutOn
<1>16. Ordered(MoveOrder, s) /\ \E i \in Has(s) : i.do = "commit"
  BY <1>9 DEF Spans
<1> QED
  BY <1>7, <1>10, <1>13, <1>14, <1>15, <1>16, PlannedMoves

\* The pieces of a swap: the copies, the exchange of profiles, the commit, the clean-up, the end.
Copying(x, kind, n, e, F) == x.do = "stage" /\ x.must /\ x.file = <<kind, n>> /\ x.val = F[<<kind, <<n, e>>>>]
StagedOn(s, g) == \E x \in Has(s) : x.do = "stage" /\ x.file = g
CopiesOne(t, kind, n, e, F) ==
  /\ Spans(t, 1, 1) /\ \A x \in Has(t) : Copying(x, kind, n, e, F)
  /\ F[<<kind, <<n, e>>>>] = None \/ StagedOn(t, <<kind, n>>)
CopiesAll(t, a, b, e, F) ==
  /\ Spans(t, 1, 1) /\ \A x \in Has(t) : \E kind \in Kind, n \in {a, b} : Copying(x, kind, n, e, F)
  /\ \A kind \in Kind, n \in {a, b} : F[<<kind, <<n, e>>>>] = None \/ StagedOn(t, <<kind, n>>)
Slides(t) == Spans(t, 2, 2) /\ \A x \in Has(t) : x.do \in {"move", "exchange"} /\ ~x.must
Commits1(t, r) == Spans(t, 3, 3) /\ \E y : Has(t) = {y} /\ y.do = "commit" /\ y.must /\ y.data = r
Cleans(t, a, ea, b, eb) ==
  Spans(t, 4, 4) /\ \A x \in Has(t) : ea # eb /\ x.do = "delete" /\ ~x.must /\ x.key \in {<<a, ea>>, <<b, eb>>}
Drops(t) == Spans(t, 5, 5) /\ \A x \in Has(t) : x.do = "discard" /\ ~x.must
Trades(s, a, ea, b, eb, F, r) ==
  /\ Spans(s, 1, 5)
  /\ \E x \in Has(s) : x.do = "commit"
  /\ \A x \in Has(s) :
       \/ x.do = "put" /\ x.must /\ \E kind \in Kind : x.file = <<kind, <<b, ea>>>> /\ x.val = F[<<kind, <<a, ea>>>>]
       \/ x.do = "put" /\ x.must /\ \E kind \in Kind : x.file = <<kind, <<a, eb>>>> /\ x.val = F[<<kind, <<b, eb>>>>]
       \/ x.do = "commit" /\ x.must /\ x.data = r
       \/ x.do \in {"move", "exchange", "discard"}
       \/ ea = eb /\ \E kind \in Kind, n \in {a, b} : Copying(x, kind, n, ea, F)
       \/ ea # eb /\ x.do = "delete" /\ ~x.must /\ x.key \in {<<a, ea>>, <<b, eb>>}
  /\ \A kind \in Kind : PutOn(s, <<kind, <<b, ea>>>>) /\ PutOn(s, <<kind, <<a, eb>>>>)
  /\ ea = eb => \A kind \in Kind, n \in {a, b} : F[<<kind, <<n, ea>>>>] = None \/ StagedOn(s, <<kind, n>>)

LEMMA StageOne ==
  ASSUME NEW kind \in Kind, NEW n \in Slot, NEW e \in Email, NEW F \in Files, NEW t,
         t = When(F[<<kind, <<n, e>>>>] # None, StageFile(kind, n, F[<<kind, <<n, e>>>>]))
  PROVE  CopiesOne(t, kind, n, e, F)
<1> DEFINE v == F[<<kind, <<n, e>>>>]
           x == StageFile(kind, n, v)
           c == v # None
<1>1. v \in Account \cup {None}
  BY DEF Files, Key
<1>2. t = When(c, x) /\ c \in BOOLEAN /\ v = F[<<kind, <<n, e>>>>] /\ (c <=> v # None)
  OBVIOUS
<1> HIDE DEF v, c
<1>3. x \in Instr(Filled) /\ x.do = "stage" /\ x.must /\ x.file = <<kind, n>> /\ x.val = v /\ Rank(x) = 1
  BY <1>1, StageIs
<1> HIDE DEF x
<1>4. Spans(When(c, x), 1, 1) /\ Has(When(c, x)) \subseteq {x} /\ (c => Has(When(c, x)) = {x})
  BY <1>2, <1>3, SpansShort, HasShort
<1>5. Copying(x, kind, n, e, F)
  BY <1>2, <1>3 DEF Copying
<1>6. \A y \in Has(t) : Copying(y, kind, n, e, F)
  BY <1>2, <1>4, <1>5
<1>7. v # None => StagedOn(t, <<kind, n>>)
  BY <1>2, <1>3, <1>4 DEF StagedOn
<1> QED
  BY <1>2, <1>4, <1>6, <1>7 DEF CopiesOne

LEMMA StageAll ==
  ASSUME NEW a \in Slot, NEW b \in Slot, NEW e \in Email, NEW F \in Files, NEW t1, NEW t2, NEW t3, NEW t4,
         CopiesOne(t1, "creds", a, e, F), CopiesOne(t2, "config", a, e, F),
         CopiesOne(t3, "creds", b, e, F), CopiesOne(t4, "config", b, e, F)
  PROVE  CopiesAll(Cat(Cat(Cat(t1, t2), t3), t4), a, b, e, F)
<1>1. Spans(t1, 1, 1) /\ Spans(t2, 1, 1) /\ Spans(t3, 1, 1) /\ Spans(t4, 1, 1)
  BY DEF CopiesOne
<1>2. Spans(Cat(Cat(t1, t2), t3), 1, 1) /\ Has(Cat(Cat(t1, t2), t3)) = Has(t1) \cup Has(t2) \cup Has(t3)
  BY <1>1, JoinThree
<1> DEFINE s == Cat(Cat(Cat(t1, t2), t3), t4)
<1>3. Spans(s, 1, 1) /\ Has(s) = Has(Cat(Cat(t1, t2), t3)) \cup Has(t4)
  BY <1>1, <1>2, SpansJoin
<1> HIDE DEF s
<1>4. Has(s) = Has(t1) \cup Has(t2) \cup Has(t3) \cup Has(t4) /\ Kind = {"creds", "config"}
  BY <1>2, <1>3 DEF Kind
<1>5. \A x \in Has(s) : \E kind \in Kind, n \in {a, b} : Copying(x, kind, n, e, F)
  BY <1>4 DEF CopiesOne
<1>6. \A kind \in Kind, n \in {a, b} : F[<<kind, <<n, e>>>>] = None \/ StagedOn(s, <<kind, n>>)
  BY <1>4 DEF CopiesOne, StagedOn
<1> QED
  BY <1>3, <1>5, <1>6 DEF CopiesAll, s

LEMMA TradeTodo ==
  ASSUME NEW a \in Slot, NEW b \in Slot, NEW ea \in Email, NEW eb \in Email, NEW F \in Files, NEW r \in Filled,
         NEW t1, NEW t2, NEW t3, NEW t4, NEW t5, NEW t6, NEW t7,
         IF ea = eb THEN CopiesAll(t1, a, b, ea, F) ELSE t1 = <<>>, Slides(t2),
         PutsTwo(t3, b, ea, F[<<"creds", <<a, ea>>>>], F[<<"config", <<a, ea>>>>], TRUE),
         PutsTwo(t4, a, eb, F[<<"creds", <<b, eb>>>>], F[<<"config", <<b, eb>>>>], TRUE),
         Commits1(t5, r), Cleans(t6, a, ea, b, eb), Drops(t7)
  PROVE  Trades(Cat(Cat(Cat(Cat(Cat(Cat(t1, t2), t3), t4), t5), t6), t7), a, ea, b, eb, F, r)
<1>1. Spans(t1, 1, 1)
  BY SpansShort DEF CopiesAll
<1>2. Spans(t2, 2, 2) /\ Spans(t3, 2, 2) /\ Spans(t4, 2, 2) /\ Spans(t5, 3, 3) /\ Spans(t6, 4, 4) /\ Spans(t7, 5, 5)
  BY DEF Slides, PutsTwo, Commits1, Cleans, Drops
<1>3. Spans(t1, 1, 2) /\ Spans(t5, 2, 4) /\ Spans(t7, 4, 5)
  BY <1>1, <1>2, SpansWider
<1> DEFINE s1 == Cat(Cat(t1, t2), t3)
           s2 == Cat(Cat(s1, t4), t5)
           s == Cat(Cat(s2, t6), t7)
<1>4. Spans(s1, 1, 2) /\ Has(s1) = Has(t1) \cup Has(t2) \cup Has(t3)
  BY <1>2, <1>3, JoinThree
<1> HIDE DEF s1
<1>5. Spans(s2, 1, 4) /\ Has(s2) = Has(s1) \cup Has(t4) \cup Has(t5)
  BY <1>2, <1>3, <1>4, JoinThree
<1> HIDE DEF s2
<1>6. Spans(s, 1, 5) /\ Has(s) = Has(s2) \cup Has(t6) \cup Has(t7)
  BY <1>2, <1>3, <1>5, JoinThree
<1> HIDE DEF s
<1>7. Has(s) = Has(t1) \cup Has(t2) \cup Has(t3) \cup Has(t4) \cup Has(t5) \cup Has(t6) \cup Has(t7)
  BY <1>4, <1>5, <1>6
<1>8. Kind = {"creds", "config"}
  BY DEF Kind
<1>9. \A x \in Has(t1) : ea = eb /\ \E kind \in Kind, n \in {a, b} : Copying(x, kind, n, ea, F)
  BY HasShort DEF CopiesAll
<1>10. ea = eb => \A kind \in Kind, n \in {a, b} : F[<<kind, <<n, ea>>>>] = None \/ StagedOn(s, <<kind, n>>)
  <2>1. \A g : StagedOn(t1, g) => StagedOn(s, g)
    BY <1>7 DEF StagedOn
  <2> QED
    BY <2>1 DEF CopiesAll
<1>11. ASSUME NEW t, NEW m \in Slot, NEW n \in Slot, NEW e \in Email,
              PutsTwo(t, m, e, F[<<"creds", <<n, e>>>>], F[<<"config", <<n, e>>>>], TRUE)
       PROVE  /\ \A x \in Has(t) : x.do = "put" /\ x.must /\ \E kind \in Kind : x.file = <<kind, <<m, e>>>> /\ x.val = F[<<kind, <<n, e>>>>]
              /\ \A kind \in Kind : PutOn(t, <<kind, <<m, e>>>>)
  BY <1>8, <1>11 DEF PutsTwo, Writes, PutOn
<1>12. /\ \A x \in Has(t3) : x.do = "put" /\ x.must /\ \E kind \in Kind : x.file = <<kind, <<b, ea>>>> /\ x.val = F[<<kind, <<a, ea>>>>]
       /\ \A kind \in Kind : PutOn(t3, <<kind, <<b, ea>>>>)
  BY <1>11
<1>13. /\ \A x \in Has(t4) : x.do = "put" /\ x.must /\ \E kind \in Kind : x.file = <<kind, <<a, eb>>>> /\ x.val = F[<<kind, <<b, eb>>>>]
       /\ \A kind \in Kind : PutOn(t4, <<kind, <<a, eb>>>>)
  BY <1>11
<1>14. \A kind \in Kind : PutOn(s, <<kind, <<b, ea>>>>) /\ PutOn(s, <<kind, <<a, eb>>>>)
  BY <1>7, <1>12, <1>13 DEF PutOn
<1>15. /\ \A x \in Has(t5) : x.do = "commit" /\ x.must /\ x.data = r
       /\ \E x \in Has(s) : x.do = "commit"
  BY <1>7 DEF Commits1
<1>16. /\ \A x \in Has(t2) \cup Has(t7) : x.do \in {"move", "exchange", "discard"}
       /\ \A x \in Has(t6) : ea # eb /\ x.do = "delete" /\ ~x.must /\ x.key \in {<<a, ea>>, <<b, eb>>}
  BY DEF Slides, Drops, Cleans
<1>17. Trades(s, a, ea, b, eb, F, r)
  BY <1>6, <1>7, <1>9, <1>10, <1>12, <1>13, <1>14, <1>15, <1>16 DEF Trades
<1> QED
  BY <1>17 DEF s, s1, s2

LEMMA SlidesIs ==
  ASSUME NEW k \in Key, NEW l \in Key, NEW t, t = <<SwapProfiles(k, l)>>
  PROVE  Slides(t)
<1> DEFINE x == SwapProfiles(k, l)
<1>1. x \in Instr(Filled) /\ ~x.must
  BY MoveIs
<1>2. x.do = "exchange"
  BY DEF SwapProfiles
<1> HIDE DEF x
<1>3. Spans(<<x>>, 2, 2) /\ Has(<<x>>) = {x}
  BY <1>1, <1>2, RankIs, OneStep
<1>4. t = <<x>>
  BY DEF x
<1> QED
  BY <1>1, <1>2, <1>3, <1>4 DEF Slides

LEMMA CommitsIs ==
  ASSUME NEW r \in Filled, NEW t, t = <<WriteSequence(r)>>
  PROVE  Commits1(t, r)
<1> DEFINE x == WriteSequence(r)
<1>1. x \in Instr(Filled) /\ x.do = "commit" /\ x.must /\ x.data = r /\ Rank(x) = 3
  BY CommitIs
<1> HIDE DEF x
<1>2. Spans(<<x>>, 3, 3) /\ Has(<<x>>) = {x}
  BY <1>1, OneStep
<1>3. t = <<x>>
  BY DEF x
<1> QED
  BY <1>1, <1>2, <1>3 DEF Commits1

LEMMA CleansIs ==
  ASSUME NEW a \in Slot, NEW b \in Slot, NEW ea \in Email, NEW eb \in Email, NEW t,
         t = IF ea = eb THEN <<>> ELSE <<DeleteAccountFiles(a, ea, FALSE), DeleteAccountFiles(b, eb, FALSE)>>
  PROVE  Cleans(t, a, ea, b, eb)
<1> DEFINE x == DeleteAccountFiles(a, ea, FALSE)
           y == DeleteAccountFiles(b, eb, FALSE)
<1>1. x \in Instr(Filled) /\ x.do = "delete" /\ ~x.must /\ x.key = <<a, ea>> /\ Rank(x) = 4
  BY CleanIs
<1>2. y \in Instr(Filled) /\ y.do = "delete" /\ ~y.must /\ y.key = <<b, eb>> /\ Rank(y) = 4
  BY CleanIs
<1>3. t = IF ea = eb THEN <<>> ELSE <<x, y>>
  OBVIOUS
<1> HIDE DEF x, y
<1>4. <<x, y>> \in MoveOrder
  BY <1>1, <1>2 DEF MoveOrder
<1>5. Spans(<<x, y>>, 4, 4) /\ Has(<<x, y>>) = {x, y} /\ Spans(<<>>, 4, 4) /\ Has(<<>>) = {}
  BY <1>1, <1>2, <1>4, SpansShort, HasShort
<1> QED
  BY <1>1, <1>2, <1>3, <1>5 DEF Cleans

LEMMA DropsIs ==
  ASSUME NEW t, t = <<Discard>>
  PROVE  Drops(t)
<1> DEFINE x == Discard
<1>1. x \in Instr(Filled)
  BY DEF Discard, Discards, Instr
<1>2. x.do = "discard" /\ ~x.must
  BY DEF Discard
<1> HIDE DEF x
<1>3. Spans(<<x>>, 5, 5) /\ Has(<<x>>) = {x}
  BY <1>1, <1>2, RankIs, OneStep
<1>4. t = <<x>>
  BY DEF x
<1> QED
  BY <1>2, <1>3, <1>4 DEF Drops

\* The undo of a swap: what it writes of the slots' homes is what was there.
RestoresOne(t, kind, n, e, F, c) ==
  /\ Spans(t, 2, 2) /\ \A x \in Has(t) : x.do = "put" /\ ~x.must /\ x.val = F[x.file]
  /\ c => PutOn(t, <<kind, <<n, e>>>>)
RestoresTwo(t, n, e, F, c) ==
  /\ Spans(t, 2, 2) /\ \A x \in Has(t) : x.do = "put" /\ ~x.must /\ x.val = F[x.file]
  /\ c => \A kind \in Kind : PutOn(t, <<kind, <<n, e>>>>)
Empties(t, a, ea, b, eb) ==
  Spans(t, 2, 2) /\ \A x \in Has(t) : ea # eb /\ x.do = "put" /\ ~x.must /\ x.file[2] \in {<<b, ea>>, <<a, eb>>}
Reverses(s, a, ea, b, eb, F) ==
  /\ Spans(s, 2, 5)
  /\ \A x \in Has(s) : /\ x.do \in {"put", "move", "exchange", "discard"} /\ ~x.must
                       /\ x.do = "put" => x.val = F[x.file] \/ (ea # eb /\ x.file[2] \in {<<b, ea>>, <<a, eb>>})
  /\ ea = eb => \A kind \in Kind : PutOn(s, <<kind, <<a, ea>>>>) /\ PutOn(s, <<kind, <<b, eb>>>>)

LEMMA RestoreOne ==
  ASSUME NEW kind \in Kind, NEW n \in Slot, NEW e \in Email, NEW F \in Files, NEW c \in BOOLEAN, NEW t,
         t = When(F[<<kind, <<n, e>>>>] # None \/ c, Put(kind, n, e, F[<<kind, <<n, e>>>>], FALSE))
  PROVE  RestoresOne(t, kind, n, e, F, c)
<1> DEFINE v == F[<<kind, <<n, e>>>>]
           x == Put(kind, n, e, v, FALSE)
           k == (v # None \/ c)
<1>1. v \in Account \cup {None}
  BY DEF Files, Key
<1>2. t = When(k, x) /\ k \in BOOLEAN /\ v = F[<<kind, <<n, e>>>>] /\ (c => k)
  OBVIOUS
<1> HIDE DEF v, k
<1>3. x \in Instr(Filled)
  BY <1>1, PutOK, MildFacts
<1>4. x.do = "put" /\ ~x.must /\ x.file = <<kind, <<n, e>>>> /\ x.val = v
  BY DEF Put
<1> HIDE DEF x
<1>5. Spans(When(k, x), 2, 2) /\ Has(When(k, x)) \subseteq {x} /\ (k => Has(When(k, x)) = {x})
  BY <1>2, <1>3, <1>4, RankIs, SpansShort, HasShort
<1>6. c => PutOn(t, <<kind, <<n, e>>>>)
  BY <1>2, <1>4, <1>5 DEF PutOn
<1>7. \A y \in Has(t) : y.do = "put" /\ ~y.must /\ y.val = F[y.file]
  BY <1>2, <1>4, <1>5
<1> QED
  BY <1>2, <1>5, <1>6, <1>7 DEF RestoresOne

LEMMA RestoreTwo ==
  ASSUME NEW n \in Slot, NEW e \in Email, NEW F \in Files, NEW c \in BOOLEAN, NEW t1, NEW t2,
         RestoresOne(t1, "creds", n, e, F, c), RestoresOne(t2, "config", n, e, F, c)
  PROVE  RestoresTwo(Cat(t1, t2), n, e, F, c)
<1>1. Spans(t1, 2, 2) /\ Spans(t2, 2, 2) /\ Kind = {"creds", "config"}
  BY DEF RestoresOne, Kind
<1>2. Spans(Cat(t1, t2), 2, 2) /\ Has(Cat(t1, t2)) = Has(t1) \cup Has(t2)
  BY <1>1, SpansJoin
<1>3. c => \A kind \in Kind : PutOn(Cat(t1, t2), <<kind, <<n, e>>>>)
  BY <1>1, <1>2 DEF RestoresOne, PutOn
<1> QED
  BY <1>2, <1>3 DEF RestoresOne, RestoresTwo

LEMMA EmptiesIs ==
  ASSUME NEW a \in Slot, NEW b \in Slot, NEW ea \in Email, NEW eb \in Email, NEW t1, NEW t2, NEW t,
         PutsTwo(t1, b, ea, None, None, FALSE), PutsTwo(t2, a, eb, None, None, FALSE),
         t = IF ea = eb THEN <<>> ELSE Cat(t1, t2)
  PROVE  Empties(t, a, ea, b, eb)
<1>1. Spans(t1, 2, 2) /\ \A x \in Has(t1) : x.do = "put" /\ ~x.must /\ x.file[2] = <<b, ea>>
  BY DEF PutsTwo, Writes
<1>2. Spans(t2, 2, 2) /\ \A x \in Has(t2) : x.do = "put" /\ ~x.must /\ x.file[2] = <<a, eb>>
  BY DEF PutsTwo, Writes
<1>3. Spans(Cat(t1, t2), 2, 2) /\ Has(Cat(t1, t2)) = Has(t1) \cup Has(t2)
  BY <1>1, <1>2, SpansJoin
<1>4. Spans(<<>>, 2, 2) /\ Has(<<>>) = {}
  BY SpansShort, HasShort
<1> QED
  BY <1>1, <1>2, <1>3, <1>4 DEF Empties

LEMMA TradeUndo ==
  ASSUME NEW a \in Slot, NEW b \in Slot, NEW ea \in Email, NEW eb \in Email, NEW F \in Files,
         NEW t1, NEW t2, NEW t3, NEW t4, NEW t5,
         Slides(t1), RestoresTwo(t2, a, ea, F, ea = eb), RestoresTwo(t3, b, eb, F, ea = eb),
         Empties(t4, a, ea, b, eb), Drops(t5)
  PROVE  Reverses(Cat(Cat(Cat(Cat(t1, t2), t3), t4), t5), a, ea, b, eb, F)
<1>1. Spans(t1, 2, 2) /\ Spans(t2, 2, 2) /\ Spans(t3, 2, 2) /\ Spans(t4, 2, 2) /\ Spans(t5, 5, 5)
  BY DEF Slides, RestoresTwo, Empties, Drops
<1>2. Spans(t5, 2, 5)
  BY <1>1, SpansWider
<1> DEFINE s1 == Cat(Cat(t1, t2), t3)
           s == Cat(Cat(s1, t4), t5)
<1>3. Spans(s1, 2, 2) /\ Has(s1) = Has(t1) \cup Has(t2) \cup Has(t3)
  BY <1>1, JoinThree
<1> HIDE DEF s1
<1>4. Spans(s, 2, 5) /\ Has(s) = Has(s1) \cup Has(t4) \cup Has(t5)
  BY <1>1, <1>2, <1>3, JoinThree
<1> HIDE DEF s
<1>5. Has(s) = Has(t1) \cup Has(t2) \cup Has(t3) \cup Has(t4) \cup Has(t5)
  BY <1>3, <1>4
<1>6. ea = eb => \A kind \in Kind : PutOn(s, <<kind, <<a, ea>>>>) /\ PutOn(s, <<kind, <<b, eb>>>>)
  BY <1>5 DEF RestoresTwo, PutOn
<1>7. \A x \in Has(s) : /\ x.do \in {"put", "move", "exchange", "discard"} /\ ~x.must
                        /\ x.do = "put" => x.val = F[x.file] \/ (ea # eb /\ x.file[2] \in {<<b, ea>>, <<a, eb>>})
  BY <1>5 DEF RestoresTwo, Slides, Empties, Drops
<1>8. Reverses(s, a, ea, b, eb, F)
  BY <1>4, <1>6, <1>7 DEF Reverses
<1> QED
  BY <1>8 DEF s, s1

LEMMA SwapMoves ==
  ASSUME NEW u, NEW F, NEW T, Mover(u, F, T), Fresh(u), u.slot # u.to, u.bk0 = F, Sound(u.data, F, T, {}),
         u.data.acct[u.slot] # None, u.data.acct[u.to] # None,
         NEW ea, ea = u.data.acct[u.slot].email, NEW eb, eb = u.data.acct[u.to].email,
         Trades(u.todo, u.slot, ea, u.to, eb, F, Renumbered(u.data, u.slot, u.to)),
         Reverses(u.undo, u.slot, ea, u.to, eb, F)
  PROVE  Moving(u, F, T)
<1> DEFINE d == u.data
           a == u.slot
           b == u.to
           r == Renumbered(d, a, b)
           s == u.todo
           q == u.undo
<1>1. d \in Filled /\ a \in Slot /\ b \in Slot /\ a # b /\ d.acct[a] # None /\ d.acct[b] # None
  BY DEF Mover
<1>2. a \in Used(d) /\ b \in Used(d)
  BY <1>1 DEF Used
<1>3. /\ u.bk0 = F /\ u.data = d /\ u.slot = a /\ u.to = b /\ u.todo = s /\ u.undo = q /\ r = Renumbered(d, a, b)
      /\ Trades(s, a, ea, b, eb, F, r) /\ Reverses(q, a, ea, b, eb, F)
      /\ ea = d.acct[a].email /\ eb = d.acct[b].email
  OBVIOUS
<1> HIDE DEF d, a, b, r, s, q
<1>4. Crossing(u) = {a, b} /\ (Overlap(u) <=> ea = eb)
  BY <1>2, <1>3 DEF Crossing, Overlap
<1>5. \A kind \in Kind : /\ Goal(u, kind, a) = <<kind, <<b, ea>>>> /\ Goal(u, kind, b) = <<kind, <<a, eb>>>>
                         /\ Home(d, kind, a) = <<kind, <<a, ea>>>> /\ Home(d, kind, b) = <<kind, <<b, eb>>>>
  BY <1>1, <1>3 DEF Goal, Cross, Home
<1>6. ASSUME NEW x \in Has(s) PROVE StepOf(u, x)
  <2>1. CASE x.do = "put" /\ x.must /\ \E kind \in Kind : x.file = <<kind, <<b, ea>>>> /\ x.val = F[<<kind, <<a, ea>>>>]
    <3>1. \E kind \in Kind : x.file = Goal(u, kind, a) /\ x.val = u.bk0[Home(u.data, kind, a)]
      BY <1>3, <1>5, <2>1
    <3> QED
      BY <1>4, <2>1, <3>1 DEF StepOf
  <2>2. CASE x.do = "put" /\ x.must /\ \E kind \in Kind : x.file = <<kind, <<a, eb>>>> /\ x.val = F[<<kind, <<b, eb>>>>]
    <3>1. \E kind \in Kind : x.file = Goal(u, kind, b) /\ x.val = u.bk0[Home(u.data, kind, b)]
      BY <1>3, <1>5, <2>2
    <3> QED
      BY <1>4, <2>2, <3>1 DEF StepOf
  <2>3. CASE x.do = "commit" /\ x.must /\ x.data = r
    BY <1>3, <2>3 DEF StepOf
  <2>4. CASE x.do \in {"move", "exchange", "discard"}
    BY <2>4 DEF StepOf
  <2>5. CASE ea = eb /\ \E kind \in Kind, n \in {a, b} : Copying(x, kind, n, ea, F)
    <3>1. PICK kind \in Kind, n \in {a, b} : Copying(x, kind, n, ea, F)
      BY <2>5
    <3>2. Home(u.data, kind, n) = <<kind, <<n, ea>>>>
      BY <1>3, <1>5, <2>5
    <3>3. x.do = "stage" /\ x.must /\ x.file = <<kind, n>> /\ x.val = u.bk0[Home(u.data, kind, n)]
      BY <1>3, <3>1, <3>2 DEF Copying
    <3> QED
      BY <1>4, <2>5, <3>3 DEF StepOf
  <2>6. CASE ea # eb /\ x.do = "delete" /\ ~x.must /\ x.key \in {<<a, ea>>, <<b, eb>>}
    BY <1>3, <1>4, <2>6 DEF StepOf
  <2> QED
    BY <1>3, <2>1, <2>2, <2>3, <2>4, <2>5, <2>6 DEF Trades
<1>7. Restores(u, q)
  <2>1. Ordered(MoveOrder, q)
    BY <1>3 DEF Reverses, Spans
  <2>2. ASSUME NEW x \in Has(q), x.do = "put", IsHome(d, x.file) PROVE x.val = F[x.file]
    <3>1. CASE ea # eb /\ x.file[2] \in {<<b, ea>>, <<a, eb>>}
      <4>1. PICK n \in Used(d), kind \in Kind : x.file = Home(d, kind, n)
        BY <2>2 DEF IsHome
      <4>2. x.file[2] = <<n, d.acct[n].email>>
        BY <4>1 DEF Home
      <4> QED
        BY <1>3, <3>1, <4>2
    <3> QED
      BY <1>3, <2>2, <3>1 DEF Reverses
  <2>3. \A x \in Has(q) : x.do \in {"put", "move", "exchange", "discard"} /\ ~x.must
    BY <1>3 DEF Reverses
  <2> QED
    BY <1>3, <2>1, <2>2, <2>3 DEF Restores
<1>8. Overlap(u) => \A n \in Crossing(u), kind \in Kind : PutOn(q, Home(d, kind, n))
  BY <1>3, <1>4, <1>5 DEF Reverses
<1>9. \A n \in Crossing(u), kind \in Kind : PutOn(s, Goal(u, kind, n))
  BY <1>3, <1>4, <1>5 DEF Trades
<1>10. Overlap(u) => \A n \in Crossing(u), kind \in Kind :
         \/ F[Home(d, kind, n)] = None
         \/ \E x \in Has(s) : x.do = "stage" /\ x.file = <<kind, n>>
  <2> SUFFICES ASSUME ea = eb, NEW n \in {a, b}, NEW kind \in Kind
               PROVE  F[Home(d, kind, n)] = None \/ StagedOn(s, <<kind, n>>)
    BY <1>4 DEF StagedOn
  <2>1. Home(d, kind, n) = <<kind, <<n, ea>>>>
    BY <1>5
  <2> QED
    BY <1>3, <2>1 DEF Trades
<1>11. Ordered(MoveOrder, s) /\ \E x \in Has(s) : x.do = "commit"
  BY <1>3 DEF Trades, Spans
<1> QED
  BY <1>3, <1>6, <1>7, <1>8, <1>9, <1>10, <1>11, PlannedMoves

LEMMA SwapPlanIs ==
  ASSUME bk \in Files, NEW d \in Filled, NEW a \in Slot, NEW b \in Slot, d.acct[a] # None, d.acct[b] # None,
         NEW r, r = Renumbered(d, a, b), r \in Filled,
         NEW ea, ea = d.acct[a].email, NEW eb, eb = d.acct[b].email
  PROVE  \/ SwapPlan(d, a, b) = Refused
         \/ /\ Trades(SwapPlan(d, a, b).todo, a, ea, b, eb, bk, r)
            /\ Reverses(SwapPlan(d, a, b).undo, a, ea, b, eb, bk)
<1> DEFINE copy(kind, n) == When(Stored(kind, n, ea) # None, StageFile(kind, n, Stored(kind, n, ea)))
           put(kind, n, e) == When(Stored(kind, n, e) # None \/ ea = eb, Put(kind, n, e, Stored(kind, n, e), FALSE))
           t1 == IF ea = eb THEN Cat(Cat(Cat(copy("creds", a), copy("config", a)), copy("creds", b)), copy("config", b))
                 ELSE <<>>
           t2 == <<SwapProfiles(<<a, ea>>, <<b, eb>>)>>
           t3 == PutBoth(b, ea, Stored("creds", a, ea), Stored("config", a, ea), TRUE)
           t4 == PutBoth(a, eb, Stored("creds", b, eb), Stored("config", b, eb), TRUE)
           t5 == <<WriteSequence(r)>>
           t6 == IF ea = eb THEN <<>>
                 ELSE <<DeleteAccountFiles(a, ea, FALSE), DeleteAccountFiles(b, eb, FALSE)>>
           t7 == <<Discard>>
           q1 == <<SwapProfiles(<<b, ea>>, <<a, eb>>)>>
           q2 == Cat(put("creds", a, ea), put("config", a, ea))
           q3 == Cat(put("creds", b, eb), put("config", b, eb))
           e1 == PutBoth(b, ea, None, None, FALSE)
           e2 == PutBoth(a, eb, None, None, FALSE)
           q4 == IF ea = eb THEN <<>> ELSE Cat(e1, e2)
           s == Cat(Cat(Cat(Cat(Cat(Cat(t1, t2), t3), t4), t5), t6), t7)
           q == Cat(Cat(Cat(Cat(q1, q2), q3), q4), t7)
<1>1. SwapPlan(d, a, b) = Refused \/ SwapPlan(d, a, b) = Plan(s, q)
  BY DEF SwapPlan, StagePlan, RollbackSwap, Cat
<1>2. ea \in Email /\ eb \in Email
  BY DataFacts, RecordFacts DEF Filled
<1>3. <<a, ea>> \in Key /\ <<b, eb>> \in Key /\ <<b, ea>> \in Key /\ <<a, eb>> \in Key
  BY <1>2 DEF Key
<1>4. \A kind, n, e : Stored(kind, n, e) = bk[<<kind, <<n, e>>>>]
  BY DEF Stored
<1>5. Slides(t2) /\ Slides(q1)
  BY <1>3, SlidesIs
<1>6. \A kind \in Kind, n \in Slot, e \in Email : Stored(kind, n, e) \in Account \cup {None}
  BY StoredOK DEF BackupsTyped, Files
<1>7. Commits1(t5, r) /\ Drops(t7) /\ Cleans(t6, a, ea, b, eb)
  BY <1>2, CommitsIs, DropsIs, CleansIs
<1>8. "creds" \in Kind /\ "config" \in Kind /\ (ea = eb) \in BOOLEAN
  BY DEF Kind
<1>9. /\ PutsTwo(t3, b, ea, bk[<<"creds", <<a, ea>>>>], bk[<<"config", <<a, ea>>>>], TRUE)
      /\ PutsTwo(t4, a, eb, bk[<<"creds", <<b, eb>>>>], bk[<<"config", <<b, eb>>>>], TRUE)
  BY <1>2, <1>4, <1>6, <1>8, PutBothMust
<1>10. PutsTwo(e1, b, ea, None, None, FALSE) /\ PutsTwo(e2, a, eb, None, None, FALSE)
  BY <1>2, PutBothMay
<1> HIDE DEF t2, t3, t4, t5, t6, t7, q1, e1, e2
<1>11. \A kind \in Kind, n \in Slot : CopiesOne(copy(kind, n), kind, n, ea, bk)
  BY <1>2, <1>4, StageOne
<1>12. \A kind \in Kind, n \in Slot, e \in Email : RestoresOne(put(kind, n, e), kind, n, e, bk, ea = eb)
  BY <1>4, <1>8, RestoreOne
<1> HIDE DEF copy, put
<1>13. IF ea = eb THEN CopiesAll(t1, a, b, ea, bk) ELSE t1 = <<>>
  BY <1>2, <1>8, <1>11, StageAll
<1>14. RestoresTwo(q2, a, ea, bk, ea = eb) /\ RestoresTwo(q3, b, eb, bk, ea = eb)
  BY <1>2, <1>8, <1>12, RestoreTwo
<1>15. Empties(q4, a, ea, b, eb)
  BY <1>2, <1>10, EmptiesIs
<1> HIDE DEF t1, q2, q3, q4
<1>16. Trades(s, a, ea, b, eb, bk, r)
  BY <1>2, <1>5, <1>7, <1>9, <1>13, TradeTodo
<1>17. Reverses(q, a, ea, b, eb, bk)
  BY <1>2, <1>5, <1>7, <1>14, <1>15, TradeUndo
<1> HIDE DEF s, q
<1> QED
  BY <1>1, <1>16, <1>17, PlanIs

LEMMA RelocatePlanIs ==
  ASSUME bk \in Files, NEW d \in Filled, NEW a \in Slot, NEW b \in Slot, d.acct[a] # None,
         NEW r, r = Renumbered(d, a, b), r \in Filled, NEW e, e = d.acct[a].email
  PROVE  \/ RelocatePlan(d, a, b) = Refused
         \/ /\ Carries(RelocatePlan(d, a, b).todo, a, b, e, bk[<<"creds", <<a, e>>>>], bk[<<"config", <<a, e>>>>], r)
            /\ Clears(RelocatePlan(d, a, b).undo, b, e)
<1> DEFINE v == bk[<<"creds", <<a, e>>>>]
           w == bk[<<"config", <<a, e>>>>]
           s == Cat(Cat(<<MoveProfile(<<a, e>>, <<b, e>>)>>, PutBoth(b, e, v, w, TRUE)),
                    <<WriteSequence(r), DeleteAccountFiles(a, e, FALSE)>>)
           q == Cat(PutBoth(b, e, None, None, FALSE), <<MoveProfile(<<b, e>>, <<a, e>>)>>)
<1>1. RelocatePlan(d, a, b) = Refused \/ RelocatePlan(d, a, b) = Plan(s, q)
  BY DEF RelocatePlan, Stored, Cat
<1>2. e \in Email
  BY DataFacts, RecordFacts DEF Filled
<1>3. v \in Account \cup {None} /\ w \in Account \cup {None}
  BY <1>2 DEF Files, Key, Kind
<1>4. Carries(s, a, b, e, v, w, r)
  BY <1>2, <1>3, RelocateTodo
<1>5. Clears(q, b, e)
  BY <1>2, RelocateUndo
<1> HIDE DEF s, q
<1> QED
  BY <1>1, <1>4, <1>5, PlanIs

LEMMA MovePlanned ==
  ASSUME bk \in Files, NEW u, NEW T, Mover(u, bk, T), Fresh(u), u.bk0 = bk, Sound(u.data, bk, T, {}),
         u.todo = MovePlan(u, u.data).todo, u.undo = MovePlan(u, u.data).undo
  PROVE  Relocating(u, bk, T)
<1> DEFINE d == u.data
           a == u.slot
           b == u.to
           r == Renumbered(d, a, b)
<1>1. d \in Filled /\ a \in Slot /\ b \in Slot
  BY DEF Mover
<1>2. CASE MovePlan(u, d) = Refused
  <2>1. u.todo = <<>> /\ u.undo = <<>>
    BY <1>2 DEF Refused
  <2> QED
    BY <2>1 DEF Relocating, Refusing, Fresh
<1>3. CASE d.acct[a] # None /\ a # b /\ d.acct[b] = None /\ RelocatePlan(d, a, b) # Refused
  <2>1. MovePlan(u, d) = RelocatePlan(d, a, b)
    BY <1>3 DEF MovePlan
  <2>2. r \in Filled
    BY <1>1, <1>3, RenumberedOK
  <2>3. /\ Carries(u.todo, a, b, d.acct[a].email, bk[<<"creds", <<a, d.acct[a].email>>>>],
                   bk[<<"config", <<a, d.acct[a].email>>>>], r)
        /\ Clears(u.undo, b, d.acct[a].email)
    BY <1>1, <1>3, <2>1, <2>2, RelocatePlanIs
  <2>4. /\ Home(d, "creds", a) = <<"creds", <<a, d.acct[a].email>>>>
        /\ Home(d, "config", a) = <<"config", <<a, d.acct[a].email>>>>
    BY DEF Home
  <2>5. Moving(u, bk, T)
    BY <1>3, <2>3, <2>4, RelocateMoves
  <2> QED
    BY <2>5 DEF Relocating
<1>4. CASE d.acct[a] # None /\ a # b /\ d.acct[b] # None /\ SwapPlan(d, a, b) # Refused
  <2>1. MovePlan(u, d) = SwapPlan(d, a, b)
    BY <1>4 DEF MovePlan
  <2>2. r \in Filled
    BY <1>1, <1>4, RenumberedOK
  <2>3. /\ Trades(u.todo, a, d.acct[a].email, b, d.acct[b].email, bk, r)
        /\ Reverses(u.undo, a, d.acct[a].email, b, d.acct[b].email, bk)
    BY <1>1, <1>4, <2>1, <2>2, SwapPlanIs
  <2>4. Moving(u, bk, T)
    BY <1>4, <2>3, SwapMoves
  <2> QED
    BY <2>4 DEF Relocating
<1> QED
  BY <1>2, <1>3, <1>4 DEF MovePlan

-----------------------------------------------------------------------------
(* The other commands.  At most one slot n comes to name anybody it did not: *)
(* the account w that is added; its two files are written before that.       *)

Filer(n, id, kind) == <<kind, <<n, id[1]>>>>
Names(n, d) == n \in Slot /\ d.acct[n] # None
\* c names, at the other slots, nobody but those that d names there.
Thin(d, c, n) ==
  \A m \in Slot \ {n} : c.acct[m] # None => d.acct[m] # None /\ IdOf(c.acct[m]) = IdOf(d.acct[m])
SlimOrder(n) ==
  {z \in Instr(Filled) \X Instr(Filled) :
     /\ z[1].do = "put" => z[2].do # "delete" /\ (z[2].do = "commit" => Names(n, z[2].data))
     /\ z[1].do = "commit" /\ z[2].do = "commit" => Thin(z[1].data, z[2].data, n)
     /\ z[1].do = "commit" /\ Names(n, z[1].data) => z[2].do # "put"}
SlimStep(o, x, n, w, F, d) ==
  \/ /\ x.do = "put" /\ x.must /\ n \in Slot /\ x.val = w /\ w \in Account /\ AccountId(w) = o.id
     /\ \E kind \in Kind : x.file = Filer(n, o.id, kind)
  \/ /\ x.do = "commit" /\ x.must /\ Thin(d, x.data, n)
     /\ Names(n, x.data) =>
          /\ w \in Account /\ AccountId(w) = o.id /\ IdOf(x.data.acct[n]) = o.id
          /\ \A kind \in Kind : PutOn(o.todo, Filer(n, o.id, kind)) \/ F[Filer(n, o.id, kind)] = w
  \/ x.do = "delete" /\ x.must
Slim(o, n, w, F, d) ==
  /\ o.undo = <<>> /\ Ordered(SlimOrder(n), o.todo)
  /\ \A x \in Has(o.todo) : SlimStep(o, x, n, w, F, d)
  /\ (\E x \in Has(o.todo) : x.do = "put") /\ Names(n, d) /\ IdOf(d.acct[n]) # o.id =>
       \E x \in Has(o.todo) : x.do = "commit" /\ ~Names(n, x.data)
  /\ (\E x \in Has(o.todo) : x.do = "delete") /\ (\E x \in Has(o.todo) : x.do = "commit" /\ Names(n, x.data)) =>
       \A kind \in Kind : PutOn(o.todo, Filer(n, o.id, kind))

\* From d with the files F to e with G, every home stays sound.
Upholds(d, F, e, G) == \A T : Sound(d, F, T, {}) => Sound(e, G, T, {})
\* What is written is w, in its files at n, where no other account is.
Writing(o, n, w, F, G, d) ==
  \A f \in Kind \X Key : G[f] # F[f] =>
    /\ w \in Account /\ AccountId(w) = o.id /\ G[f] = w
    /\ \E kind \in Kind : f = Filer(n, o.id, kind)
    /\ d.acct[n] # None => IdOf(d.acct[n]) = o.id
\* If n names anybody, then w, whose files are there.
Naming(o, n, w, F, e) ==
  Names(n, e) => /\ w \in Account /\ AccountId(w) = o.id /\ IdOf(e.acct[n]) = o.id
                 /\ \A kind \in Kind : F[Filer(n, o.id, kind)] = w

LEMMA SlimEmpty ==
  ASSUME NEW u, NEW n, NEW w, NEW F, NEW d, u.todo = <<>>, u.undo = <<>>
  PROVE  Slim(u, n, w, F, d)
BY HasShort, OrderedShort DEF Slim

LEMMA HomeOf ==
  ASSUME NEW d \in Filled, NEW m \in Slot, d.acct[m] # None, NEW kind
  PROVE  Home(d, kind, m) = Filer(m, IdOf(d.acct[m]), kind) /\ m \in Used(d)
BY DEF Home, Filer, IdOf, Used

LEMMA SlimPut ==
  ASSUME NEW o \in Locals, NEW u, NEW n, NEW w, NEW F \in Files, NEW G, NEW d \in Filled, o.todo # <<>>,
         Slim(o, n, w, F, d), DoesPut(o, u, F, G)
  PROVE  /\ Slim(u, n, w, G, d)
         /\ Upholds(d, F, d, G) /\ Writing(o, n, w, F, G, d)
<1> DEFINE x == Head(o.todo)
           t == Tail(o.todo)
<1>0. o.todo \in Todos /\ Advanced(o, u) /\ x.do = "put" /\ G = [F EXCEPT ![x.file] = x.val]
  BY DEF Locals, DoesPut
<1>1. /\ Has(o.todo) = {x} \cup Has(t) /\ Ordered(SlimOrder(n), t)
      /\ \A y \in Has(t) : <<x, y>> \in SlimOrder(n)
  BY <1>0, HasTail DEF Todos, Slim
<1>2. u.todo = t /\ u.undo = <<>> /\ u.id = o.id
  BY <1>0 DEF Advanced, Same, Slim
<1> HIDE DEF x, t
<1>3. /\ n \in Slot /\ x.val = w /\ w \in Account /\ AccountId(w) = o.id
      /\ \E kind \in Kind : x.file = Filer(n, o.id, kind)
  BY <1>0, <1>1 DEF Slim, SlimStep
<1>4. \A y \in Has(t) : y.do # "delete" /\ (y.do = "commit" => Names(n, y.data))
  BY <1>0, <1>1 DEF SlimOrder
<1>5. d.acct[n] # None => IdOf(d.acct[n]) = o.id
  BY <1>0, <1>1, <1>3, <1>4 DEF Slim, Names
<1>6. \A f \in Kind \X Key : G[f] = F[f] \/ (f = x.file /\ G[f] = w)
  BY <1>0, <1>3 DEF Files
<1>7. \A kind \in Kind : PutOn(o.todo, Filer(n, o.id, kind)) \/ F[Filer(n, o.id, kind)] = w =>
                           PutOn(t, Filer(n, o.id, kind)) \/ G[Filer(n, o.id, kind)] = w
  <2> SUFFICES ASSUME NEW kind \in Kind, PutOn(o.todo, Filer(n, o.id, kind)) \/ F[Filer(n, o.id, kind)] = w,
                      ~PutOn(t, Filer(n, o.id, kind))
               PROVE  G[Filer(n, o.id, kind)] = w
    OBVIOUS
  <2>1. o.id[1] \in Email
    BY <1>3, AccountIdOK, IdentFacts
  <2>2. Filer(n, o.id, kind) \in Kind \X Key
    BY <1>3, <2>1 DEF Filer, Key
  <2>3. PutOn(o.todo, Filer(n, o.id, kind)) => x.file = Filer(n, o.id, kind)
    BY <1>1 DEF PutOn
  <2> QED
    BY <1>0, <1>3, <1>6, <2>2, <2>3 DEF Files
<1>8. \A y \in Has(t) : SlimStep(u, y, n, w, G, d)
  BY <1>1, <1>2, <1>7 DEF Slim, SlimStep
<1>9. Slim(u, n, w, G, d)
  <2>1. ~\E y \in Has(t) : y.do = "delete"
    BY <1>4
  <2>2. Names(n, d) => IdOf(d.acct[n]) = o.id
    BY <1>5 DEF Names
  <2> QED
    BY <1>1, <1>2, <1>8, <2>1, <2>2 DEF Slim
<1>10. ASSUME NEW T, Sound(d, F, T, {}) PROVE Sound(d, G, T, {})
  <2> SUFFICES ASSUME NEW m \in Used(d), NEW kind \in Kind PROVE Good(d.acct[m], kind, G[Home(d, kind, m)], T, {})
    BY DEF Sound
  <2>1. m \in Slot /\ d.acct[m] # None /\ Home(d, kind, m) \in Kind \X Key
    BY HomeFacts DEF Used
  <2>2. CASE G[Home(d, kind, m)] = F[Home(d, kind, m)]
    BY <1>10, <2>2 DEF Sound
  <2>3. CASE Home(d, kind, m) = x.file /\ G[Home(d, kind, m)] = w
    <3>1. m = n
      BY <1>3, <2>3 DEF Home, Filer
    <3> QED
      BY <1>3, <1>5, <2>1, <2>3, <3>1 DEF Good, Own
  <2> QED
    BY <1>6, <2>1, <2>2, <2>3
<1> QED
  BY <1>3, <1>5, <1>6, <1>9, <1>10 DEF Upholds, Writing

LEMMA SlimQuit ==
  ASSUME NEW o \in Locals, NEW u, NEW n, NEW w, NEW F, NEW G, NEW d, NEW e, o.todo # <<>>, Slim(o, n, w, F, d), Quits(o, u)
  PROVE  Slim(u, n, w, G, e)
<1>1. o.todo \in Todos
  BY DEF Locals
<1>2. Head(o.todo) \in Has(o.todo)
  BY <1>1, HasTail DEF Todos
<1>3. Head(o.todo).must
  BY <1>2 DEF Slim, SlimStep
<1>4. u.todo = <<>> /\ u.undo = <<>>
  BY <1>3 DEF Quits, Aborted, Slim
<1> QED
  BY <1>4, SlimEmpty

LEMMA SlimDelete ==
  ASSUME NEW o \in Locals, NEW u, NEW n, NEW w, NEW F \in Files, NEW G, NEW d \in Filled, o.todo # <<>>,
         Slim(o, n, w, F, d), DoesDelete(o, u, F, G)
  PROVE  Slim(u, n, w, G, d) /\ Upholds(d, F, d, G)
<1> DEFINE x == Head(o.todo)
           t == Tail(o.todo)
<1>0. o.todo \in Todos /\ (Advanced(o, u) \/ Quits(o, u)) /\ x.do = "delete" 
      /\ \A f \in Kind \X Key : G[f] = F[f] \/ G[f] = None
  BY DEF Locals, DoesDelete
<1>1. /\ Has(o.todo) = {x} \cup Has(t) /\ Ordered(SlimOrder(n), t)
      /\ \A y \in Has(t) : <<x, y>> \in SlimOrder(n)
  BY <1>0, HasTail DEF Todos, Slim
<1>2. ASSUME Advanced(o, u) PROVE Slim(u, n, w, G, d)
  <2>1. u.todo = t /\ u.undo = <<>> /\ u.id = o.id
    BY <1>2 DEF Advanced, Same, Slim
  <2> HIDE DEF x, t
  <2>2. \A f : PutOn(o.todo, f) => PutOn(t, f)
    BY <1>0, <1>1 DEF PutOn
  <2>3. \A y \in Has(t) : SlimStep(u, y, n, w, G, d)
    <3> SUFFICES ASSUME NEW y \in Has(t) PROVE SlimStep(u, y, n, w, G, d)
      OBVIOUS
    <3>1. SlimStep(o, y, n, w, F, d)
      BY <1>1 DEF Slim
    <3>2. y.do = "commit" /\ Names(n, y.data) => \A kind \in Kind : PutOn(o.todo, Filer(n, o.id, kind))
      BY <1>0, <1>1 DEF Slim
    <3> QED
      BY <2>1, <2>2, <3>1, <3>2 DEF SlimStep
  <2>4. (\E y \in Has(t) : y.do = "put") /\ Names(n, d) /\ IdOf(d.acct[n]) # o.id =>
          \E y \in Has(t) : y.do = "commit" /\ ~Names(n, y.data)
    BY <1>0, <1>1 DEF Slim
  <2>5. (\E y \in Has(t) : y.do = "delete") /\ (\E y \in Has(t) : y.do = "commit" /\ Names(n, y.data)) =>
          \A kind \in Kind : PutOn(t, Filer(n, o.id, kind))
    BY <1>1, <2>2 DEF Slim
  <2> QED
    BY <1>1, <2>1, <2>3, <2>4, <2>5 DEF Slim
<1>3. Slim(u, n, w, G, d)
  BY <1>0, <1>2, SlimQuit
<1>4. ASSUME NEW T, Sound(d, F, T, {}) PROVE Sound(d, G, T, {})
  <2> SUFFICES ASSUME NEW m \in Used(d), NEW kind \in Kind PROVE Good(d.acct[m], kind, G[Home(d, kind, m)], T, {})
    BY DEF Sound
  <2>1. Home(d, kind, m) \in Kind \X Key
    BY HomeFacts
  <2> QED
    BY <1>0, <1>4, <2>1 DEF Sound, Good, Own
<1> QED
  BY <1>3, <1>4 DEF Upholds

LEMMA SlimCommit ==
  ASSUME NEW o \in Locals, NEW u, NEW n, NEW w, NEW F \in Files, NEW d \in Filled, NEW e \in Filled, o.todo # <<>>,
         Slim(o, n, w, F, d), DoesCommit(o, u), e = Head(o.todo).data
  PROVE  /\ Slim(u, n, w, F, e)
         /\ Upholds(d, F, e, F) /\ Thin(d, e, n) /\ Naming(o, n, w, F, e)
<1> DEFINE x == Head(o.todo)
           t == Tail(o.todo)
<1>0. o.todo \in Todos /\ Committed(o, u) /\ x.do = "commit"
  BY DEF Locals, DoesCommit
<1>1. /\ Has(o.todo) = {x} \cup Has(t) /\ Ordered(SlimOrder(n), t)
      /\ \A y \in Has(t) : <<x, y>> \in SlimOrder(n)
  BY <1>0, HasTail DEF Todos, Slim
<1>2. u.todo = t /\ u.undo = <<>> /\ u.id = o.id /\ x.data = e
  BY <1>0 DEF Committed, Same, Slim
<1> HIDE DEF x, t
<1>3. /\ Thin(d, e, n)
      /\ Names(n, e) => /\ w \in Account /\ AccountId(w) = o.id /\ IdOf(e.acct[n]) = o.id
                        /\ \A kind \in Kind : PutOn(o.todo, Filer(n, o.id, kind)) \/ F[Filer(n, o.id, kind)] = w
  BY <1>0, <1>1, <1>2 DEF Slim, SlimStep
<1>4. \A y \in Has(t) : /\ y.do = "commit" => Thin(e, y.data, n)
                        /\ Names(n, e) => y.do # "put"
  BY <1>0, <1>1, <1>2 DEF SlimOrder
<1>5. Names(n, e) => \A kind \in Kind : F[Filer(n, o.id, kind)] = w
  BY <1>0, <1>1, <1>3, <1>4 DEF PutOn
<1>6. \A f : PutOn(o.todo, f) => PutOn(t, f)
  BY <1>0, <1>1 DEF PutOn
<1>7. \A y \in Has(t) : SlimStep(u, y, n, w, F, e)
  <2> SUFFICES ASSUME NEW y \in Has(t) PROVE SlimStep(u, y, n, w, F, e)
    OBVIOUS
  <2>1. SlimStep(o, y, n, w, F, d)
    BY <1>1 DEF Slim
  <2> QED
    BY <1>2, <1>4, <1>6, <2>1 DEF SlimStep
<1>8. Slim(u, n, w, F, e)
  <2>1. ~((\E y \in Has(t) : y.do = "put") /\ Names(n, e))
    BY <1>4
  <2>2. (\E y \in Has(t) : y.do = "delete") /\ (\E y \in Has(t) : y.do = "commit" /\ Names(n, y.data)) =>
          \A kind \in Kind : PutOn(t, Filer(n, o.id, kind))
    BY <1>1, <1>6 DEF Slim
  <2> QED
    BY <1>1, <1>2, <1>7, <2>1, <2>2 DEF Slim
<1>9. ASSUME NEW T, Sound(d, F, T, {}) PROVE Sound(e, F, T, {})
  <2> SUFFICES ASSUME NEW m \in Used(e), NEW kind \in Kind PROVE Good(e.acct[m], kind, F[Home(e, kind, m)], T, {})
    BY DEF Sound
  <2>1. m \in Slot /\ e.acct[m] # None
    BY DEF Used
  <2>2. CASE m # n
    <3>1. d.acct[m] # None /\ IdOf(e.acct[m]) = IdOf(d.acct[m])
      BY <1>3, <2>1, <2>2 DEF Thin
    <3>2. Home(e, kind, m) = Home(d, kind, m) /\ m \in Used(d)
      BY <2>1, <3>1, HomeOf
    <3>3. Good(d.acct[m], kind, F[Home(d, kind, m)], T, {})
      BY <1>9, <3>2 DEF Sound
    <3> QED
      BY <3>1, <3>2, <3>3 DEF Good, Own
  <2>3. CASE m = n
    <3>1. Names(n, e)
      BY <2>1, <2>3 DEF Names
    <3>2. F[Home(e, kind, m)] = w
      BY <1>3, <1>5, <2>1, <2>3, <3>1, HomeOf
    <3> QED
      BY <1>3, <2>3, <3>1, <3>2 DEF Good, Own
  <2> QED
    BY <2>2, <2>3
<1> QED
  BY <1>3, <1>5, <1>8, <1>9 DEF Upholds, Naming

LEMMA SameAccount ==
  ASSUME NEW a \in Account, NEW b \in Account, AccountId(a) = AccountId(b)
  PROVE  a = b
BY RosterAssumption DEF AccountId

LEMMA SlimWork ==
  ASSUME NEW o \in Locals, NEW u, NEW n, NEW w, NEW F \in Files, NEW G, NEW d \in Filled, NEW e \in Filled, NEW T, NEW U,
         o.todo # <<>>, Slim(o, n, w, F, d), Does(o, u, F, G, T, U, d, e)
  PROVE  U = T /\ Slim(u, n, w, G, e) /\ Upholds(d, F, e, G)
<1>1. Head(o.todo) \in Has(o.todo)
  <2>1. o.todo \in Todos
    BY DEF Locals
  <2> QED
    BY <2>1, HasTail DEF Todos
<1>2. Head(o.todo).do \in {"put", "commit", "delete"}
  BY <1>1 DEF Slim, SlimStep
<1>3. CASE DoesPut(o, u, F, G) /\ U = T /\ e = d
  BY <1>3, SlimPut
<1>4. CASE DoesFail(o, u, F, G) /\ U = T /\ e = d
  <2>1. Quits(o, u) /\ G = F
    BY <1>4 DEF DoesFail
  <2>2. Slim(u, n, w, G, e)
    BY <2>1, SlimQuit
  <2>3. Upholds(d, F, e, G)
    BY <1>4, <2>1 DEF Upholds
  <2> QED
    BY <1>4, <2>2, <2>3
<1>5. CASE DoesDelete(o, u, F, G) /\ U = T /\ e = d
  BY <1>5, SlimDelete
<1>6. CASE DoesCommit(o, u) /\ G = F /\ U = T /\ e = Head(o.todo).data
  <2>1. DoesCommit(o, u) /\ e = Head(o.todo).data
    BY <1>6
  <2>2. Slim(u, n, w, F, e) /\ Upholds(d, F, e, F)
    BY <2>1, SlimCommit
  <2> QED
    BY <1>6, <2>2
<1> QED
  BY <1>2, <1>3, <1>4, <1>5, <1>6 DEF Does, DoesStage, DoesDiscard, DoesPass

LEMMA SlimCopy ==
  ASSUME NEW o \in Locals, NEW u, NEW n, NEW w, NEW F \in Files, NEW G, NEW d \in Filled, NEW e \in Filled, NEW T, NEW U,
         o.todo # <<>>, Slim(o, n, w, F, d), Does(o, u, F, G, T, U, d, e), Head(o.todo).do # "delete",
         Unique(d), NEW a \in Account, Copy(d, F, T, a), \E k \in Used(e) : IdOf(e.acct[k]) = AccountId(a)
  PROVE  Copy(e, G, U, a)
<1>a. Head(o.todo).do \in {"put", "commit"}
  <2>1. o.todo \in Todos
    BY DEF Locals
  <2>2. Head(o.todo) \in Has(o.todo)
    BY <2>1, HasTail DEF Todos
  <2> QED
    BY <2>2 DEF Slim, SlimStep
<1>0. U = T
  BY <1>a DEF Does, DoesStage, DoesDiscard, DoesPass
<1>1. CASE \E m \in Slot : T[<<"creds", m>>] = a
  BY <1>0, <1>1 DEF Copy
<1>2. ASSUME NEW m \in Used(d), IdOf(d.acct[m]) = AccountId(a), F[Home(d, "creds", m)] = a
      PROVE  Copy(e, G, U, a)
  <2>0. m \in Slot /\ d.acct[m] # None /\ "creds" \in Kind /\ Home(d, "creds", m) \in Kind \X Key
    BY HomeFacts DEF Used, Kind
  <2>2. CASE DoesPut(o, u, F, G) /\ e = d
    <3> DEFINE f == Home(d, "creds", m)
    <3>1. CASE G[f] = F[f]
      BY <1>2, <2>2, <3>1 DEF Copy
    <3>2. CASE w \in Account /\ AccountId(w) = o.id /\ G[f] = w /\ (\E kind \in Kind : f = Filer(n, o.id, kind))
               /\ (d.acct[n] # None => IdOf(d.acct[n]) = o.id)
      <4>1. m = n
        BY <3>2 DEF Home, Filer
      <4>2. a = w
        BY <1>2, <2>0, <3>2, <4>1, SameAccount
      <4> QED
        BY <1>2, <2>2, <3>2, <4>2 DEF Copy
    <3>3. Writing(o, n, w, F, G, d)
      BY <2>2, SlimPut
    <3>4. f \in Kind \X Key
      BY <2>0
    <3> HIDE DEF f
    <3> QED
      BY <3>1, <3>2, <3>3, <3>4 DEF Writing
  <2>3. CASE DoesFail(o, u, F, G) /\ e = d
    BY <1>2, <2>3 DEF Copy, DoesFail
  <2>4. CASE DoesCommit(o, u) /\ G = F /\ e = Head(o.todo).data
    <3>0. PICK k \in Used(e) : IdOf(e.acct[k]) = AccountId(a)
      OBVIOUS
    <3>1. k \in Slot /\ e.acct[k] # None
      BY DEF Used
    <3>2. Thin(d, e, n) /\ Naming(o, n, w, F, e)
      BY <2>4, SlimCommit
    <3>3. CASE k # n
      <4>1. d.acct[k] # None /\ IdOf(d.acct[k]) = AccountId(a)
        BY <3>0, <3>1, <3>2, <3>3 DEF Thin
      <4>2. k = m
        BY <1>2, <2>0, <3>1, <4>1 DEF Unique
      <4>3. Home(e, "creds", k) = Home(d, "creds", k)
        BY <3>0, <3>1, <4>1, HomeOf
      <4> QED
        BY <1>2, <2>4, <3>0, <4>2, <4>3 DEF Copy
    <3>4. CASE k = n
      <4>1. Names(n, e)
        BY <3>1, <3>4 DEF Names
      <4>2. a = w
        BY <3>0, <3>2, <3>4, <4>1, SameAccount DEF Naming
      <4>3. Home(e, "creds", k) = Filer(n, o.id, "creds")
        BY <3>0, <3>1, <3>2, <3>4, <4>1, HomeOf DEF Naming
      <4> QED
        BY <2>0, <2>4, <3>0, <3>2, <4>1, <4>2, <4>3 DEF Copy, Naming
    <3> QED
      BY <3>3, <3>4
  <2> QED
    BY <1>a, <2>2, <2>3, <2>4 DEF Does, DoesDelete, DoesStage, DoesDiscard, DoesPass
<1> QED
  BY <1>1, <1>2 DEF Copy

-----------------------------------------------------------------------------
(* What the other commands plan is slim.                                     *)

LEMMA CatJoin ==
  ASSUME NEW R, NEW s \in Todos, NEW t \in Todos, Ordered(R, s), Ordered(R, t),
         \A x \in Has(s), y \in Has(t) : <<x, y>> \in R
  PROVE  Cat(s, t) \in Todos /\ Has(Cat(s, t)) = Has(s) \cup Has(t) /\ Ordered(R, Cat(s, t))
BY HasJoin DEF Cat, Todos

\* s deletes, and commits rosters between d and c in which n names nobody.
Vacating(x, n, d, c) ==
  /\ x \in Instr(Filled) /\ x.must
  /\ x.do = "delete" \/ (x.do = "commit" /\ Thin(d, x.data, n) /\ Thin(x.data, c, n) /\ ~Names(n, x.data))
Vacates(s, n, d, c) ==
  s \in Todos /\ Ordered(SlimOrder(n), s) /\ \A x \in Has(s) : Vacating(x, n, d, c)

\* s commits nothing but b.
Only(s, b) == \A x \in Has(s) : x.do = "commit" => x.data = b

LEMMA VacatesNone ==
  /\ \A n, d, c : Vacates(<<>>, n, d, c)
  /\ \A b : Only(<<>>, b)
BY HasShort, OrderedShort, EmptySeq DEF Vacates, Todos, Only

LEMMA VacatesPair ==
  ASSUME NEW k \in Slot, NEW e \in Email, NEW b \in Filled, NEW n, NEW d, NEW c, NEW s,
         s = <<DeleteAccountFiles(k, e, TRUE), WriteSequence(b)>>,
         Thin(d, b, n), Thin(b, c, n), ~Names(n, b)
  PROVE  Vacates(s, n, d, c) /\ Only(s, b)
<1> DEFINE x == DeleteAccountFiles(k, e, TRUE)
           y == WriteSequence(b)
<1>1. x \in Instr(Filled) /\ x.must /\ x.do = "delete"
  BY DeleteOK DEF DeleteAccountFiles
<1>2. y \in Instr(Filled) /\ y.must /\ y.do = "commit" /\ y.data = b
  BY CommitIs
<1> HIDE DEF x, y
<1>3. <<x, y>> \in SlimOrder(n)
  BY <1>1, <1>2 DEF SlimOrder
<1>4. <<x, y>> \in Todos /\ Ordered(SlimOrder(n), <<x, y>>) /\ Has(<<x, y>>) = {x, y}
  BY <1>1, <1>2, <1>3, TwoSeq, HasShort, OrderedShort DEF Todos
<1>5. Vacates(<<x, y>>, n, d, c) /\ Only(<<x, y>>, b)
  BY <1>1, <1>2, <1>4 DEF Vacates, Vacating, Only
<1> QED
  BY <1>5 DEF x, y

LEMMA VacatesJoin ==
  ASSUME NEW s, NEW t, NEW n, NEW d, NEW c, Vacates(s, n, d, c), Vacates(t, n, d, c),
         \A x \in Has(s), y \in Has(t) : x.do = "commit" /\ y.do = "commit" => Thin(x.data, y.data, n)
  PROVE  Vacates(Cat(s, t), n, d, c) /\ Has(Cat(s, t)) = Has(s) \cup Has(t)
<1>1. s \in Todos /\ t \in Todos /\ Ordered(SlimOrder(n), s) /\ Ordered(SlimOrder(n), t)
      /\ \A x \in Has(s) \cup Has(t) : Vacating(x, n, d, c)
  BY DEF Vacates
<1>2. ASSUME NEW x \in Has(s), NEW y \in Has(t) PROVE <<x, y>> \in SlimOrder(n)
  BY <1>1 DEF Vacating, SlimOrder
<1>3. Cat(s, t) \in Todos /\ Has(Cat(s, t)) = Has(s) \cup Has(t) /\ Ordered(SlimOrder(n), Cat(s, t))
  BY <1>1, <1>2, CatJoin
<1> QED
  BY <1>1, <1>3 DEF Vacates

\* The instructions of an add: s, the account's two files, and the commit of c.
Stores(t, s, n, e, w, c) == t = Cat(Cat(s, PutBoth(n, e, w, w, TRUE)), <<WriteSequence(c)>>)

LEMMA StoresSlim ==
  ASSUME NEW u, NEW n \in Slot, NEW w \in Account, AccountId(w) = u.id, NEW d \in Filled, NEW c \in Filled, NEW s, NEW F,
         Vacates(s, n, d, c), Thin(d, c, n), Names(n, c), IdOf(c.acct[n]) = u.id,
         Names(n, d) /\ IdOf(d.acct[n]) # u.id => \E x \in Has(s) : x.do = "commit",
         Stores(u.todo, s, n, u.id[1], w, c), u.undo = <<>>
  PROVE  Slim(u, n, w, F, d)
<1> DEFINE t == PutBoth(n, u.id[1], w, w, TRUE)
           k == WriteSequence(c)
<1>1. u.id[1] \in Email
  BY AccountIdOK, IdentFacts
<1>2. PutsTwo(t, n, u.id[1], w, w, TRUE)
  BY <1>1, PutBothMust
<1>3. k \in Instr(Filled) /\ k.do = "commit" /\ k.must /\ k.data = c
  BY CommitIs
<1>4. u.todo = Cat(Cat(s, t), <<k>>)
  BY DEF Stores
<1> HIDE DEF t, k
<1>5. PICK y, z : /\ Has(t) = {y, z} /\ Writes(y, "creds", n, u.id[1], w) /\ Writes(z, "config", n, u.id[1], w)
                  /\ (y.must <=> TRUE) /\ (z.must <=> TRUE)
  BY <1>2 DEF PutsTwo
<1>6. t \in Todos /\ y \in Instr(Filled) /\ z \in Instr(Filled)
  <2>1. t \in Todos
    BY <1>2 DEF PutsTwo, Spans
  <2>2. \A x \in Has(t) : x \in Instr(Filled)
    BY <2>1 DEF Has, Todos
  <2> QED
    BY <1>5, <2>1, <2>2
<1>7. /\ y.do = "put" /\ y.must /\ y.val = w /\ y.file = Filer(n, u.id, "creds")
      /\ z.do = "put" /\ z.must /\ z.val = w /\ z.file = Filer(n, u.id, "config")
  BY <1>5 DEF Writes, Filer
<1>8. s \in Todos /\ Ordered(SlimOrder(n), s) /\ \A x \in Has(s) : Vacating(x, n, d, c)
  BY DEF Vacates
<1>9. Ordered(SlimOrder(n), t)
  <2>1. \A i, j \in Has(t) : <<i, j>> \in SlimOrder(n)
    BY <1>5, <1>6, <1>7 DEF SlimOrder
  <2> QED
    BY <2>1 DEF Ordered, Has
<1>10. \A i \in Has(s), j \in Has(t) : <<i, j>> \in SlimOrder(n)
  BY <1>5, <1>6, <1>7, <1>8 DEF SlimOrder, Vacating
<1>11. Cat(s, t) \in Todos /\ Has(Cat(s, t)) = Has(s) \cup Has(t) /\ Ordered(SlimOrder(n), Cat(s, t))
  BY <1>6, <1>8, <1>9, <1>10, CatJoin
<1>12. <<k>> \in Todos /\ Has(<<k>>) = {k} /\ Ordered(SlimOrder(n), <<k>>)
  BY <1>3, OneSeq, HasShort, OrderedShort DEF Todos
<1>13. \A i \in Has(s) : <<i, k>> \in SlimOrder(n)
  BY <1>3, <1>8 DEF SlimOrder, Vacating
<1>14. \A i \in Has(t) : <<i, k>> \in SlimOrder(n)
  BY <1>3, <1>5, <1>6, <1>7 DEF SlimOrder
<1>15. Has(u.todo) = Has(s) \cup {y, z, k} /\ Ordered(SlimOrder(n), u.todo)
  <2>1. \A i \in Has(Cat(s, t)), j \in Has(<<k>>) : <<i, j>> \in SlimOrder(n)
    BY <1>11, <1>12, <1>13, <1>14
  <2>2. Has(Cat(Cat(s, t), <<k>>)) = Has(Cat(s, t)) \cup Has(<<k>>) /\ Ordered(SlimOrder(n), Cat(Cat(s, t), <<k>>))
    BY <1>11, <1>12, <2>1, CatJoin
  <2> QED
    BY <1>4, <1>5, <1>11, <1>12, <2>2
<1>16. \A kind \in Kind : PutOn(u.todo, Filer(n, u.id, kind))
  BY <1>7, <1>15 DEF PutOn, Kind
<1>17. ASSUME NEW x \in Has(u.todo) PROVE SlimStep(u, x, n, w, F, d)
  <2>1. CASE x \in Has(s)
    BY <1>8, <2>1 DEF Vacating, SlimStep
  <2>2. CASE x \in {y, z}
    BY <1>7, <2>2 DEF SlimStep, Kind
  <2>3. CASE x = k
    BY <1>3, <1>16, <2>3 DEF SlimStep
  <2> QED
    BY <1>15, <1>17, <2>1, <2>2, <2>3
<1>18. Names(n, d) /\ IdOf(d.acct[n]) # u.id => \E x \in Has(u.todo) : x.do = "commit" /\ ~Names(n, x.data)
  BY <1>8, <1>15 DEF Vacating
<1> QED
  BY <1>15, <1>16, <1>17, <1>18 DEF Slim

LEMMA VacatesSlim ==
  ASSUME NEW u, NEW n, NEW w, NEW d, NEW c, NEW F, Vacates(u.todo, n, d, c), u.undo = <<>>
  PROVE  Slim(u, n, w, F, d)
<1>1. Ordered(SlimOrder(n), u.todo) /\ \A x \in Has(u.todo) : Vacating(x, n, d, c)
  BY DEF Vacates
<1>2. \A x \in Has(u.todo) : SlimStep(u, x, n, w, F, d) /\ x.do # "put" /\ ~(x.do = "commit" /\ Names(n, x.data))
  BY <1>1 DEF Vacating, SlimStep
<1> QED
  BY <1>1, <1>2 DEF Slim

\* A change of a record that leaves its account.
LEMMA CommitSlim ==
  ASSUME NEW u, NEW n \in Slot, NEW d \in Filled, NEW c \in Filled, u.undo = <<>>, u.todo = <<WriteSequence(c)>>,
         d.acct[n] # None, IdOf(c.acct[n]) = IdOf(d.acct[n]), \A m \in Slot \ {n} : c.acct[m] = d.acct[m], NEW F
  PROVE  Slim(u, None, None, F, d)
<1> DEFINE k == WriteSequence(c)
<1>1. k \in Instr(Filled) /\ k.do = "commit" /\ k.must /\ k.data = c
  BY CommitIs
<1>2. u.todo = <<k>>
  OBVIOUS
<1> HIDE DEF k
<1>3. <<k>> \in Todos /\ Has(<<k>>) = {k} /\ Ordered(SlimOrder(None), <<k>>)
  BY <1>1, OneSeq, HasShort, OrderedShort DEF Todos
<1>4. Thin(d, c, None) /\ Thin(c, c, None) /\ ~Names(None, c)
  BY RosterAssumption DEF Thin, Names
<1>5. Vacates(u.todo, None, d, c)
  BY <1>1, <1>2, <1>3, <1>4 DEF Vacates, Vacating
<1> QED
  BY <1>5, VacatesSlim

LEMMA RemoveSlim ==
  ASSUME NEW u, NEW n \in Slot, NEW e \in Email, NEW d \in Filled, u.undo = <<>>,
         u.todo = <<DeleteAccountFiles(n, e, TRUE), WriteSequence(Without(d, n))>>, NEW F
  PROVE  Slim(u, n, None, F, d)
<1> DEFINE c == Without(d, n)
<1>1. c \in Filled /\ c.acct[n] = None /\ \A m \in Slot \ {n} : c.acct[m] = d.acct[m]
  BY WithRecordOK DEF Without
<1>2. u.todo = <<DeleteAccountFiles(n, e, TRUE), WriteSequence(c)>>
  OBVIOUS
<1> HIDE DEF c
<1>3. Thin(d, c, n) /\ Thin(c, c, n) /\ ~Names(n, c)
  BY <1>1 DEF Thin, Names
<1>4. Vacates(u.todo, n, d, c)
  BY <1>1, <1>2, <1>3, VacatesPair
<1> QED
  BY <1>4, VacatesSlim

LEMMA RefreshSlim ==
  ASSUME NEW o, NEW u, NEW n, NEW who, NEW d, Adds(o, d, n, who), o.id = AccountId(who), Holds(d.acct[n], o.id),
         u.id = o.id, u.undo = <<>>, u.todo = AddRefreshInPlace(o, d, n, who).todo, NEW F
  PROVE  Slim(u, n, who, F, d)
<1> DEFINE c == RefreshedFinal(o, d, n)
           s == PutBoth(n, o.id[1], who, who, TRUE) \o <<WriteSequence(c)>>
<1>0. d \in Filled /\ n \in Slot /\ who \in Account /\ o.alias \in Alias \cup {None} /\ d.acct[n] # None
      /\ IdOf(d.acct[n]) = o.id
  BY DEF Adds, Holds
<1>1. CASE AliasInUse(d, o.alias, n)
  <2>1. u.todo = <<>>
    BY <1>1 DEF AddRefreshInPlace, Refused
  <2> QED
    BY <2>1, SlimEmpty
<1>2. CASE ~AliasInUse(d, o.alias, n)
  <2>1. AddRefreshInPlace(o, d, n, who) = Plan(s, <<>>)
    BY <1>2 DEF AddRefreshInPlace, RefreshedFinal, RefreshedMark
  <2>2. u.todo = s
    BY <2>1, PlanIs
  <2>3. Stores(u.todo, <<>>, n, u.id[1], who, c)
    <3>1. <<>> \o PutBoth(n, o.id[1], who, who, TRUE) = PutBoth(n, o.id[1], who, who, TRUE)
      BY DEF PutBoth
    <3> QED
      BY <2>2, <3>1 DEF Stores, Cat
  <2>4. c \in Filled /\ c.acct = RefreshedMark(o, d, n).acct
    BY <1>0, RefreshDataOK
  <2>5. c.acct[n] # None /\ IdOf(c.acct[n]) = o.id /\ \A m \in Slot \ {n} : c.acct[m] = d.acct[m]
    <3>1. CASE o.alias = None
      BY <1>0, <2>4, <3>1 DEF RefreshedMark
    <3>2. CASE o.alias # None
      <4> DEFINE e == [d EXCEPT !.acct[n].alias = o.alias]
                 rec == [d.acct[n] EXCEPT !.alias = o.alias]
      <4>1. e.acct[n] = rec /\ \A m \in Slot \ {n} : e.acct[m] = d.acct[m]
        BY <1>0, AliasSetOK
      <4>2. d.acct[n] \in Record
        BY <1>0, DataFacts DEF Filled
      <4>3. rec \in Record /\ rec.email = d.acct[n].email /\ rec.org = d.acct[n].org
        BY <1>0, <4>2 DEF Record
      <4>4. c.acct = e.acct
        BY <2>4, <3>2 DEF RefreshedMark
      <4> HIDE DEF e, rec
      <4>5. IdOf(rec) = o.id /\ rec # None
        BY <1>0, <4>3, RosterAssumption DEF IdOf
      <4> QED
        BY <4>1, <4>4, <4>5
    <3> QED
      BY <3>1, <3>2
  <2> HIDE DEF c, s
  <2>6. Vacates(<<>>, n, d, c) /\ Thin(d, c, n) /\ Names(n, c)
    BY <1>0, <2>5, VacatesNone DEF Thin, Names
  <2> QED
    BY <1>0, <2>3, <2>4, <2>5, <2>6, StoresSlim
<1> QED
  BY <1>1, <1>2

\* The rosters an add commits name, outside n, nobody new; n first nobody, and then the account.
LEMMA AddThins ==
  ASSUME NEW o, NEW n, NEW who, NEW d \in Whole, Adds(o, d, n, who), o.id = AccountId(who)
  PROVE  /\ Thin(d, AddCleared(o, d, n), n) /\ Thin(d, AddMoved(o, d, n), n) /\ Thin(AddCleared(o, d, n), AddMoved(o, d, n), n)
         /\ Thin(d, AddFinal(o, d, n, who), n) /\ Thin(AddCleared(o, d, n), AddFinal(o, d, n, who), n)
         /\ Thin(AddMoved(o, d, n), AddFinal(o, d, n, who), n)
         /\ SlotOccupant(d, n, o.id) # None => ~Names(n, AddCleared(o, d, n))
         /\ AddFrom(o, d, n) # None => ~Names(n, AddMoved(o, d, n))
         /\ Names(n, AddFinal(o, d, n, who)) /\ IdOf(AddFinal(o, d, n, who).acct[n]) = o.id
<1> DEFINE from == AddFrom(o, d, n)
           cleared == AddCleared(o, d, n)
           moved == AddMoved(o, d, n)
           rec == AddRecord(o, d, n, who)
           c == AddFinal(o, d, n, who)
<1>0. d \in Filled /\ Unique(d) /\ n \in Slot /\ who \in Account /\ o.id = <<o.id[1], o.id[2]>>
  BY IdentFacts DEF Whole, Adds
<1>1. cleared \in Filled /\ moved \in Filled /\ (from # None => from \in SlotsOf(d, o.id) /\ from # n /\ from \in Slot)
  BY AddDataOK
<1>2. \A m \in Slot \ {n} : cleared.acct[m] = d.acct[m]
  BY <1>0, WithRecordOK DEF AddCleared, Without
<1>3. SlotOccupant(d, n, o.id) # None => cleared.acct[n] = None
  BY <1>0, WithRecordOK DEF AddCleared, Without
<1>4. from # None => moved.acct[from] = None /\ \A m \in Slot \ {from} : moved.acct[m] = cleared.acct[m]
  BY <1>1, WithRecordOK DEF AddMoved, Without
<1>5. from = None => moved = cleared
  BY DEF AddMoved
<1>6. rec \in Record /\ IdOf(rec) = o.id /\ rec.org # Unset
  <2>1. rec \in Record /\ rec.org = OrgOf[who] /\ rec.email = o.id[1]
    BY AddDataOK DEF AddRecord, NewRecord
  <2>2. OrgOf[who] # Unset
    BY <1>0, RosterAssumption
  <2> QED
    BY <1>0, <2>1, <2>2 DEF IdOf, AccountId
<1>7. c.acct[n] = rec /\ \A m \in Slot \ {n} : c.acct[m] = moved.acct[m]
  <2>1. c.acct = AddAdded(o, d, n, who).acct
    BY AddDataOK
  <2> QED
    BY <1>0, <1>1, <1>6, <2>1, WithRecordOK DEF AddAdded
<1>8. from # None => moved.acct[n] = None
  <2> SUFFICES ASSUME from # None PROVE moved.acct[n] = None
    OBVIOUS
  <2>1. moved.acct[n] = cleared.acct[n]
    BY <1>0, <1>1, <1>4
  <2>2. CASE SlotOccupant(d, n, o.id) # None
    BY <1>3, <2>1, <2>2
  <2>3. CASE SlotOccupant(d, n, o.id) = None
    <3>1. cleared = d
      BY <2>3 DEF AddCleared
    <3>2. d.acct[from] # None /\ IdOf(d.acct[from]) = o.id
      BY <1>1 DEF SlotsOf, Holds
    <3>3. d.acct[n] # None => IdOf(d.acct[n]) # o.id
      BY <1>0, <1>1, <3>2 DEF Unique
    <3>4. d.acct[n] # None => IdOf(d.acct[n]) \in Idents
      BY <1>0, DataFacts, RecordFacts DEF Filled
    <3>5. None \notin Idents
      BY RosterAssumption
    <3> QED
      BY <2>1, <2>3, <3>1, <3>3, <3>4, <3>5 DEF SlotOccupant
  <2> QED
    BY <2>2, <2>3
<1> HIDE DEF from, cleared, moved, rec, c
<1>9. \A m \in Slot \ {n} : moved.acct[m] # None => moved.acct[m] = d.acct[m]
  BY <1>1, <1>2, <1>4, <1>5
<1>10. Thin(d, cleared, n) /\ Thin(d, moved, n) /\ Thin(cleared, moved, n)
       /\ Thin(d, c, n) /\ Thin(cleared, c, n) /\ Thin(moved, c, n)
  BY <1>2, <1>7, <1>9 DEF Thin
<1>11. Names(n, c) /\ IdOf(c.acct[n]) = o.id
  BY <1>0, <1>6, <1>7, RosterAssumption DEF Names
<1> QED
  BY <1>3, <1>8, <1>10, <1>11 DEF Names, from, cleared, moved, rec, c

LEMMA AddSlim ==
  ASSUME NEW o, NEW u, NEW n, NEW who, NEW d \in Whole, Adds(o, d, n, who), o.id = AccountId(who),
         u.id = o.id, u.undo = <<>>, u.todo = AddToSlot(o, d, n, who).todo, NEW F
  PROVE  Slim(u, n, who, F, d)
<1> DEFINE from == AddFrom(o, d, n)
           cleared == AddCleared(o, d, n)
           moved == AddMoved(o, d, n)
           c == AddFinal(o, d, n, who)
           occupant == SlotOccupant(d, n, o.id)
           s1 == AddDisplaces(o, d, n)
           s2 == AddLeaves(o, d, n)
           t == PutBoth(n, o.id[1], who, who, TRUE)
           k == <<WriteSequence(c)>>
<1>0. d \in Filled /\ n \in Slot /\ who \in Account /\ o.id[1] \in Email
  BY IdentFacts DEF Whole, Adds
<1>1. /\ cleared \in Filled /\ moved \in Filled /\ c \in Filled
      /\ from # None => from \in Slot
      /\ occupant # None => occupant[1] \in Email
  BY AddDataOK, IdentFacts
<1>2. /\ Thin(d, cleared, n) /\ Thin(d, moved, n) /\ Thin(cleared, moved, n)
      /\ Thin(d, c, n) /\ Thin(cleared, c, n) /\ Thin(moved, c, n)
      /\ occupant # None => ~Names(n, cleared)
      /\ from # None => ~Names(n, moved)
      /\ Names(n, c) /\ IdOf(c.acct[n]) = o.id
  BY AddThins
<1>3. CASE AddToSlot(o, d, n, who) = Refused
  <2>1. u.todo = <<>>
    BY <1>3 DEF Refused
  <2> QED
    BY <2>1, SlimEmpty
<1>4. CASE AddToSlot(o, d, n, who) = Plan(s1 \o s2 \o t \o k, <<>>)
  <2>1. u.todo = s1 \o s2 \o t \o k
    BY <1>4, PlanIs
  <2>2. s1 = IF occupant = None THEN <<>>
             ELSE <<DeleteAccountFiles(n, occupant[1], TRUE), WriteSequence(cleared)>>
    BY DEF AddDisplaces
  <2>3. s2 = IF from = None THEN <<>>
             ELSE <<DeleteAccountFiles(from, o.id[1], TRUE), WriteSequence(moved)>>
    BY DEF AddLeaves
  <2>4. d.acct[n] # None /\ IdOf(d.acct[n]) # o.id => occupant # None
    <3>1. d.acct[n] # None => IdOf(d.acct[n]) \in Idents
      BY <1>0, DataFacts, RecordFacts DEF Filled
    <3> QED
      BY <3>1, RosterAssumption DEF SlotOccupant
  <2>5. occupant # None => \E x \in Has(s1) : x.do = "commit"
    <3>1. Has(<<DeleteAccountFiles(n, occupant[1], TRUE), WriteSequence(cleared)>>) =
            {DeleteAccountFiles(n, occupant[1], TRUE), WriteSequence(cleared)}
      BY HasShort
    <3>2. WriteSequence(cleared).do = "commit"
      BY DEF WriteSequence
    <3> QED
      BY <2>2, <3>1, <3>2
  <2> HIDE DEF occupant, from, cleared, moved, c, s1, s2
  <2>6. Vacates(s1, n, d, c) /\ Only(s1, cleared)
    <3>1. CASE occupant = None
      BY <2>2, <3>1, VacatesNone
    <3>2. CASE occupant # None
      BY <1>0, <1>1, <1>2, <2>2, <3>2, VacatesPair
    <3> QED
      BY <3>1, <3>2
  <2>7. Vacates(s2, n, d, c) /\ Only(s2, moved)
    <3>1. CASE from = None
      BY <2>3, <3>1, VacatesNone
    <3>2. CASE from # None
      BY <1>0, <1>1, <1>2, <2>3, <3>2, VacatesPair
    <3> QED
      BY <3>1, <3>2
  <2>8. Vacates(Cat(s1, s2), n, d, c) /\ Has(Cat(s1, s2)) = Has(s1) \cup Has(s2)
    <3>1. \A x \in Has(s1), y \in Has(s2) : x.do = "commit" /\ y.do = "commit" => Thin(x.data, y.data, n)
      BY <1>2, <2>6, <2>7 DEF Only
    <3> QED
      BY <2>6, <2>7, <3>1, VacatesJoin
  <2>9. Names(n, d) /\ IdOf(d.acct[n]) # u.id => \E x \in Has(Cat(s1, s2)) : x.do = "commit"
    BY <2>4, <2>5, <2>8 DEF Names
  <2>10. Stores(u.todo, Cat(s1, s2), n, u.id[1], who, c)
    BY <2>1 DEF Stores, Cat, c
  <2> QED
    BY <1>0, <1>1, <1>2, <2>8, <2>9, <2>10, StoresSlim
<1> QED
  BY <1>3, <1>4, AddToSlotIs

\* Whatever is planned for a command that is not a move is slim.
LEMMA PlanSlim ==
  ASSUME NEW o \in Locals, Called(o), o.kind # "move", NEW d \in Whole, login \in Account \cup {None},
         NextAccountNumber(d) \in Slot \/ o.slot # None,
         o.kind \in {"add", "token"} => o.id = AccountId(Adding(o)),
         NEW u, u.id = o.id, u.todo = PlanOf(o, d).todo, u.undo = PlanOf(o, d).undo, NEW F
  PROVE  \E n, w : Slim(u, n, w, F, d)
<1>0. /\ o.id \in Idents \cup {None} /\ o.who \in Account \cup {None} /\ o.slot \in Slot \cup {None}
      /\ o.yes \in BOOLEAN /\ o.alias \in Alias \cup {None} /\ d \in Filled
  BY DEF Locals, Whole
<1>1. ASSUME u.todo = <<>>, u.undo = <<>> PROVE \E n, w : Slim(u, n, w, F, d)
  BY <1>1, SlimEmpty
<1>2. Refused.todo = <<>> /\ Refused.undo = <<>>
  BY DEF Refused
<1>3. CASE o.kind \in {"add", "token"}
  <2> DEFINE who == Adding(o)
             old == FindAccountSlot(d, o.id)
             n == IF o.slot = None THEN NextAccountNumber(d) ELSE o.slot
  <2>1. PlanOf(o, d) = AddPlan(o, d)
    BY <1>3 DEF PlanOf
  <2>2. AddPlan(o, d) = IF who = None THEN Refused
                        ELSE IF o.slot = None /\ old # None THEN AddRefreshInPlace(o, d, old, who)
                        ELSE AddToSlot(o, d, n, who)
    BY DEF AddPlan, Adding
  <2>3. who \in Account \cup {None} /\ n \in Slot
    BY <1>0 DEF Adding
  <2>4. old # None => old \in Slot /\ Holds(d.acct[old], o.id)
    BY FoundSlot DEF SlotsOf
  <2>5. o.id \in Idents /\ o.id = AccountId(who)
    BY <1>3 DEF Called
  <2> HIDE DEF who, old, n
  <2>6. CASE PlanOf(o, d) = Refused
    BY <1>1, <1>2, <2>6
  <2>7. CASE who # None /\ old # None /\ PlanOf(o, d) = AddRefreshInPlace(o, d, old, who)
    <3>1. Adds(o, d, old, who)
      BY <1>0, <2>3, <2>4, <2>5, <2>7 DEF Adds
    <3>2. u.undo = <<>>
      BY <2>7 DEF AddRefreshInPlace, Refused, Plan
    <3> QED
      BY <2>4, <2>5, <2>7, <3>1, <3>2, RefreshSlim
  <2>8. CASE who # None /\ PlanOf(o, d) = AddToSlot(o, d, n, who)
    <3>1. Adds(o, d, n, who)
      BY <1>0, <2>3, <2>5, <2>8 DEF Adds
    <3>2. u.undo = <<>>
      <4>1. AddToSlot(o, d, n, who) = Refused \/ \E t : AddToSlot(o, d, n, who) = Plan(t, <<>>)
        BY AddToSlotIs
      <4>2. AddToSlot(o, d, n, who).undo = <<>>
        BY <1>2, <4>1, PlanIs
      <4> QED
        BY <2>8, <4>2
    <3> QED
      BY <2>5, <2>8, <3>1, <3>2, AddSlim
  <2> QED
    BY <2>1, <2>2, <2>6, <2>7, <2>8
<1>4. CASE o.kind = "remove"
  <2> DEFINE t == <<DeleteAccountFiles(o.slot, o.id[1], TRUE), WriteSequence(Without(d, o.slot))>>
  <2>1. PlanOf(o, d) = RemovePlan(o, d)
    BY <1>4 DEF PlanOf
  <2>2. o.slot \in Slot /\ o.id[1] \in Email
    BY <1>4, IdentFacts DEF Called
  <2>3. RemovePlan(o, d) = Refused \/ RemovePlan(o, d) = Plan(t, <<>>)
    BY DEF RemovePlan
  <2> HIDE DEF t
  <2>4. CASE RemovePlan(o, d) = Plan(t, <<>>)
    <3>1. u.todo = t /\ u.undo = <<>>
      BY <2>1, <2>4, PlanIs
    <3> QED
      BY <1>0, <2>2, <3>1, RemoveSlim DEF t
  <2> QED
    BY <1>1, <1>2, <2>1, <2>3, <2>4
<1>5. CASE o.kind \in {"alias", "disable"}
  <2>0. o.slot \in Slot
    BY <1>5 DEF Called
  <2>1. ASSUME d.acct[o.slot] # None, NEW c \in Filled, IdOf(c.acct[o.slot]) = IdOf(d.acct[o.slot]),
               \A m \in Slot \ {o.slot} : c.acct[m] = d.acct[m], PlanOf(o, d) = Plan(<<WriteSequence(c)>>, <<>>)
        PROVE  \E n, w : Slim(u, n, w, F, d)
    <3>1. u.todo = <<WriteSequence(c)>> /\ u.undo = <<>>
      BY <2>1, PlanIs
    <3> QED
      BY <1>0, <2>0, <2>1, <3>1, CommitSlim
  <2>2. ASSUME d.acct[o.slot] # None PROVE d.acct[o.slot] \in Record
    BY <1>0, <2>0, <2>2, DataFacts DEF Filled
  <2>3. Plan(<<>>, <<>>).todo = <<>> /\ Plan(<<>>, <<>>).undo = <<>>
    BY PlanIs
  <2>4. CASE o.kind = "alias"
    <3> DEFINE c == [d EXCEPT !.acct[o.slot].alias = o.alias]
               rec == [d.acct[o.slot] EXCEPT !.alias = o.alias]
    <3>1. PlanOf(o, d) = AliasPlan(o, d)
      BY <2>4 DEF PlanOf
    <3>2. PlanOf(o, d) \in {Refused, Plan(<<>>, <<>>)}
          \/ (d.acct[o.slot] # None /\ PlanOf(o, d) = Plan(<<WriteSequence(c)>>, <<>>))
      BY <3>1 DEF AliasPlan
    <3>3. ASSUME d.acct[o.slot] # None
          PROVE  /\ c \in Filled /\ c.acct[o.slot] = rec /\ \A m \in Slot \ {o.slot} : c.acct[m] = d.acct[m]
                 /\ rec.email = d.acct[o.slot].email /\ rec.org = d.acct[o.slot].org
      <4>1. c \in Filled /\ c.acct[o.slot] = rec /\ \A m \in Slot \ {o.slot} : c.acct[m] = d.acct[m]
        BY <1>0, <2>0, <3>3, AliasSetOK
      <4>2. rec.email = d.acct[o.slot].email /\ rec.org = d.acct[o.slot].org
        BY <2>2, <3>3 DEF Record
      <4> QED
        BY <4>1, <4>2
    <3> HIDE DEF c, rec
    <3>4. d.acct[o.slot] # None => IdOf(c.acct[o.slot]) = IdOf(d.acct[o.slot])
      BY <3>3 DEF IdOf
    <3> QED
      BY <1>1, <1>2, <2>1, <2>3, <3>2, <3>3, <3>4
  <2>5. CASE o.kind = "disable"
    <3> DEFINE c == [d EXCEPT !.acct[o.slot].off = o.yes]
               rec == [d.acct[o.slot] EXCEPT !.off = o.yes]
    <3>1. PlanOf(o, d) = DisablePlan(o, d)
      BY <2>5 DEF PlanOf
    <3>2. PlanOf(o, d) \in {Refused, Plan(<<>>, <<>>)}
          \/ (d.acct[o.slot] # None /\ PlanOf(o, d) = Plan(<<WriteSequence(c)>>, <<>>))
      BY <3>1 DEF DisablePlan
    <3>3. ASSUME d.acct[o.slot] # None
          PROVE  /\ c \in Filled /\ c.acct[o.slot] = rec /\ \A m \in Slot \ {o.slot} : c.acct[m] = d.acct[m]
                 /\ rec.email = d.acct[o.slot].email /\ rec.org = d.acct[o.slot].org
      <4>1. c \in Filled /\ c.acct[o.slot] = rec /\ \A m \in Slot \ {o.slot} : c.acct[m] = d.acct[m]
        BY <1>0, <2>0, <3>3, OffSetOK
      <4>2. rec.email = d.acct[o.slot].email /\ rec.org = d.acct[o.slot].org
        BY <2>2, <3>3 DEF Record
      <4> QED
        BY <4>1, <4>2
    <3> HIDE DEF c, rec
    <3>4. d.acct[o.slot] # None => IdOf(c.acct[o.slot]) = IdOf(d.acct[o.slot])
      BY <3>3 DEF IdOf
    <3> QED
      BY <1>1, <1>2, <2>1, <2>3, <3>2, <3>3, <3>4
  <2> QED
    BY <1>5, <2>4, <2>5
<1> QED
  BY <1>3, <1>4, <1>5 DEF Called

-----------------------------------------------------------------------------
(* The invariant of the backup files: the homes are sound at every moment,   *)
(* and the command under the lock is in a phase of a move, or slim.          *)

Filed ==
  /\ Sound(seq, bk, stage, {})
  /\ \A p \in Process : pc[p] # "run" => Fresh(op[p])
  /\ \A p \in Process : pc[p] = "run" /\ op[p].kind = "move" => op[p].bk0 \in Files /\ Relocating(op[p], bk, stage)
  /\ \A p \in Process : pc[p] = "run" /\ op[p].kind # "move" => \E n, w : Slim(op[p], n, w, bk, seq)

LEMMA FiledInit == ASSUME Reader = {}, Init PROVE Filed
<1>1. PICK r \in Initial, org \in {TRUE, FALSE}, empty \in SUBSET {2} :
       /\ org \/ (Reader # {} /\ \A m, n \in Slot : m # n /\ r[m] # None /\ r[n] # None =>
                                   EmailOf[r[m]] # EmailOf[r[n]])
       /\ seq = [acct |-> [n \in Slot |->
                   IF r[n] = None THEN None
                   ELSE NewRecord(EmailOf[r[n]], IF org THEN OrgOf[r[n]] ELSE Unset, None)],
                 active |-> 1]
       /\ bk = [f \in Kind \X Key |->
                  IF f[2][1] \notin empty /\ r[f[2][1]] # None /\ EmailOf[r[f[2][1]]] = f[2][2]
                  THEN r[f[2][1]] ELSE None]
       /\ sess = [k \in Key |-> IF r[k[1]] # None /\ EmailOf[r[k[1]]] = k[2] THEN r[k[1]] ELSE None]
       /\ login \in {r[1]} \cup {a \in Account \ TokenAccount : \A n \in Slot : r[n] # a}
  BY DEF Init
<1>2. org = TRUE
  BY <1>1
<1>3. \A n \in Slot : seq.acct[n] = IF r[n] = None THEN None ELSE NewRecord(EmailOf[r[n]], OrgOf[r[n]], None)
  BY <1>1, <1>2
<1>4. r \in [Slot -> Account \cup {None}] /\ Unset \notin {OrgOf[a] : a \in Account}
  BY RosterAssumption
<1>5. ASSUME NEW n \in Slot, seq.acct[n] # None PROVE IdOf(seq.acct[n]) = AccountId(r[n])
  <2>1. r[n] \in Account /\ seq.acct[n] = NewRecord(EmailOf[r[n]], OrgOf[r[n]], None)
    BY <1>3, <1>4, <1>5
  <2>2. seq.acct[n].org = OrgOf[r[n]] /\ seq.acct[n].email = EmailOf[r[n]]
    BY <2>1 DEF NewRecord
  <2> QED
    BY <1>4, <2>1, <2>2 DEF IdOf, AccountId
<1>6. seq \in Filled
  BY CurrentInit DEF Current
<1>7. \A f \in Kind \X Key : bk[f] = None \/ bk[f] = r[f[2][1]]
  BY <1>1
<1>8. Sound(seq, bk, stage, {})
  <2> SUFFICES ASSUME NEW n \in Used(seq), NEW kind \in Kind PROVE Own(seq.acct[n], bk[Home(seq, kind, n)])
    BY DEF Sound, Good
  <2>1. n \in Slot /\ seq.acct[n] # None /\ Home(seq, kind, n) \in Kind \X Key
    BY <1>6, HomeFacts DEF Used
  <2>2. Home(seq, kind, n)[2][1] = n
    BY DEF Home
  <2>3. bk[Home(seq, kind, n)] = None \/ bk[Home(seq, kind, n)] = r[n]
    BY <1>7, <2>1, <2>2
  <2> QED
    BY <1>5, <2>1, <2>3 DEF Own
<1>9. \A p \in Process : pc[p] = "idle" /\ Fresh(op[p])
  BY DEF Init, NoOp, Fresh
<1> QED
  BY <1>8, <1>9 DEF Filed

\* An instruction leaves the files a move began from.
LEMMA StartKept ==
  ASSUME NEW o, NEW u, NEW F, NEW G, NEW T, NEW U, NEW d, NEW e, Does(o, u, F, G, T, U, d, e)
  PROVE  u.bk0 = o.bk0
BY DEF Does, DoesPut, DoesFail, DoesDelete, DoesCommit, DoesStage, DoesPass, DoesDiscard,
       Quits, Advanced, Skipped, Aborted, Committed, StagedOne, StageFailed

LEMMA RunsMove ==
  ASSUME RInv, Current, NEW p \in Process, pc[p] = "run", op[p].kind = "move", op[p].bk0 \in Files
  PROVE  Mover(op[p], bk, stage) /\ op[p].data = seq
BY DEF RInv, Typed, Begun, Called, Current, Mover, Stagers

LEMMA FiledWork ==
  ASSUME Reader = {}, NoRelogin, RInv, Current, Filed, RInv', Current', NEW p \in Process, Working(p)
  PROVE  Filed'
<1>0. /\ Typed /\ Locked /\ Worked(p) /\ pc[p] = "run" /\ op[p].todo # <<>> /\ lock = p
      /\ op[p] \in Locals /\ seq \in Filled /\ seq' \in Filled /\ bk \in Files
  BY WorkedOK DEF Locked, RInv, Typed, Current
<1>1. Does(op[p], op'[p], bk, bk', stage, stage', seq, seq')
  BY <1>0, WorkDone
<1>2. pc' = pc /\ op'[p].kind = op[p].kind /\ \A q \in Process : q # p => op'[q] = op[q] /\ pc[q] # "run"
  BY <1>0 DEF Worked, Same, Typed, Locked
<1>3. \A q \in Process : pc'[q] # "run" => Fresh(op'[q])
  BY <1>0, <1>2 DEF Filed
<1>4. CASE op[p].kind = "move"
  <2>1. op[p].bk0 \in Files /\ Relocating(op[p], bk, stage)
    BY <1>0, <1>4 DEF Filed
  <2>2. Mover(op[p], bk, stage)
    BY <1>0, <1>4, <2>1, RunsMove
  <2>3. ~Refusing(op[p])
    BY <1>0 DEF Refusing
  <2>4. Moving(op'[p], bk', stage') \/ Settled(op'[p], bk', stage') \/ Undone(op'[p], bk', stage')
    BY <1>0, <1>1, <2>1, <2>2, <2>3, MovingStep, SettledStep, UndoneStep DEF Relocating
  <2>5. op'[p].bk0 \in Files
    BY <1>1, <2>1, StartKept
  <2>6. Mover(op'[p], bk', stage') /\ op'[p].data = seq'
    BY <1>0, <1>2, <1>4, <2>5 DEF RInv, Typed, Begun, Called, Current, Mover, Stagers
  <2>7. Sound(seq', bk', stage', {})
    BY <2>4, <2>6, RelocatingSound
  <2>8. Relocating(op'[p], bk', stage')
    BY <2>4 DEF Relocating
  <2> QED
    BY <1>2, <1>3, <1>4, <2>5, <2>7, <2>8 DEF Filed
<1>5. CASE op[p].kind # "move"
  <2>1. PICK n, w : Slim(op[p], n, w, bk, seq)
    BY <1>0, <1>5 DEF Filed
  <2>2. stage' = stage /\ Slim(op'[p], n, w, bk', seq') /\ Upholds(seq, bk, seq', bk')
    BY <1>0, <1>1, <2>1, SlimWork
  <2>3. Sound(seq', bk', stage', {})
    BY <2>2 DEF Filed, Upholds
  <2> QED
    BY <1>2, <1>3, <1>5, <2>2, <2>3 DEF Filed
<1> QED
  BY <1>4, <1>5

LEMMA FiledEnter ==
  ASSUME Reader = {}, NoRelogin, RInv, Current, Distinct, Filed, NEW p \in Process, Enters(p)
  PROVE  Filed'
<1> DEFINE o == op[p]
           u == op'[p]
<1>0. /\ Typed /\ Begun /\ Locked /\ bk \in Files /\ stage \in Stagers /\ login \in Account \cup {None}
      /\ None \notin Process /\ seq \in Whole /\ seq \in Filled /\ BackupsTyped
  BY RosterAssumption DEF RInv, Typed, Stagers, Current, Distinct, BackupsTyped, Files
<1>1. seq' = seq
  BY <1>0, BackfilledOK DEF Enters, Current, Typed
<1>2. /\ o \in Locals /\ Called(o) /\ pc[p] = "enter" /\ lock = None /\ bk' = bk /\ stage' = stage
      /\ pc' = [pc EXCEPT ![p] = "run"] /\ (NextAccountNumber(seq) \in Slot \/ o.slot # None)
      /\ u \in Locals /\ Same(o, u) /\ u.data = seq /\ u.bk0 = bk
      /\ u.todo = PlanOf(o, seq).todo /\ u.undo = PlanOf(o, seq).undo /\ (Fresh(o) => Fresh(u))
  BY <1>0, <1>1 DEF Enters, Begun, Typed
<1>3. \A q \in Process : q # p => op'[q] = op[q] /\ pc'[q] = pc[q] /\ pc[q] # "run"
  BY <1>0, <1>2 DEF Enters, Typed, Locked
<1>4. pc'[p] = "run"
  BY <1>0, <1>2 DEF Typed
<1>5. Fresh(o) /\ Sound(seq, bk, stage, {})
  BY <1>2 DEF Filed
<1>6. \A q \in Process : pc'[q] # "run" => Fresh(op'[q])
  BY <1>3, <1>4 DEF Filed
<1> HIDE DEF o, u
<1>7. CASE o.kind = "move"
  <2>1. u.kind = "move" /\ u.slot \in Slot /\ u.to \in Slot /\ u.slot = o.slot /\ u.to = o.to
    BY <1>2, <1>7 DEF Same, Called
  <2>2. Mover(u, bk, stage)
    BY <1>0, <1>2, <2>1 DEF Mover
  <2>3. PlanOf(o, seq) = MovePlan(u, u.data)
    BY <1>2, <1>7, <2>1 DEF PlanOf, MovePlan
  <2>4. Relocating(u, bk, stage)
    BY <1>0, <1>2, <1>5, <2>2, <2>3, MovePlanned
  <2>5. u.bk0 \in Files
    BY <1>0, <1>2
  <2> QED
    BY <1>1, <1>2, <1>3, <1>4, <1>5, <1>6, <2>1, <2>4, <2>5 DEF Filed, u
<1>8. CASE o.kind # "move"
  <2>1. o.kind \in {"add", "token"} => o.id = AccountId(Adding(o))
    BY <1>2 DEF Distinct, Adding, Called, o
  <2>2. u.id = o.id /\ u.kind # "move"
    BY <1>2, <1>8 DEF Same
  <2>3. \E n, w : Slim(u, n, w, bk, seq)
    BY <1>0, <1>2, <1>8, <2>1, <2>2, PlanSlim
  <2> QED
    BY <1>1, <1>2, <1>3, <1>4, <1>5, <1>6, <2>2, <2>3 DEF Filed, u
<1> QED
  BY <1>7, <1>8

LEMMA FiledStep ==
  ASSUME Reader = {}, NoRelogin, RInv, Current, Distinct, Filed, [Next]_vars
  PROVE  Filed'
<1>0. Typed /\ Begun /\ Locked /\ BackupsTyped /\ login \in Account \cup {None} /\ None \notin Process
  BY RosterAssumption DEF RInv, Typed, BackupsTyped, Files
<1>1. ASSUME NEW p \in Process, Working(p) PROVE Filed'
  <2>1. RInv' /\ Current'
    BY StepKeeps, CurrentStep
  <2> QED
    BY <1>1, <2>1, FiledWork
<1>2. ASSUME NEW p \in Process, Enters(p) PROVE Filed'
  BY <1>2, FiledEnter
<1>a. ASSUME UNCHANGED <<seq, bk, stage>>,
             \A q \in Process : \/ pc'[q] # "run" /\ Fresh(op'[q])
                                \/ pc'[q] = pc[q] /\ op'[q] = op[q]
      PROVE  Filed'
  <2>1. Sound(seq', bk', stage', {})
    BY <1>a DEF Filed
  <2>2. ASSUME NEW q \in Process
        PROVE  /\ pc'[q] # "run" => Fresh(op'[q])
               /\ pc'[q] = "run" /\ op'[q].kind = "move" => op'[q].bk0 \in Files /\ Relocating(op'[q], bk', stage')
               /\ pc'[q] = "run" /\ op'[q].kind # "move" => \E n, w : Slim(op'[q], n, w, bk', seq')
    BY <1>a DEF Filed
  <2> QED
    BY <2>1, <2>2 DEF Filed
<1>3. ASSUME NEW p \in Process, Asks(p) PROVE Filed'
  <2>1. UNCHANGED <<seq, bk, stage>>
    BY <1>0, <1>3, BackfilledOK DEF Asks, Current, Typed
  <2>2. pc'[p] # "run" /\ Fresh(op'[p])
    BY <1>0, <1>3 DEF Asks, Typed, Filed
  <2>3. \A q \in Process : q # p => pc'[q] = pc[q] /\ op'[q] = op[q]
    BY <1>0, <1>3 DEF Asks, Typed
  <2> QED
    BY <1>a, <2>1, <2>2, <2>3
<1>4. ASSUME NEW p \in Process, Ends(p) PROVE Filed'
  <2>1. UNCHANGED <<seq, bk, stage>>
    BY <1>0, <1>4, BackfilledOK DEF Ends, Current, Typed
  <2>2. pc'[p] # "run" /\ Fresh(op'[p])
    BY <1>0, <1>4 DEF Ends, Typed, NoOp, Fresh
  <2>3. \A q \in Process : q # p => pc'[q] = pc[q] /\ op'[q] = op[q]
    BY <1>0, <1>4 DEF Ends, Typed
  <2> QED
    BY <1>a, <2>1, <2>2, <2>3
<1>5. ASSUME NEW p \in Process, NEW o, NEW next, Given(o, next), Begin(p, o, next) PROVE Filed'
  <2>1. UNCHANGED <<seq, bk, stage>>
    BY <1>5 DEF Begin
  <2>2. pc'[p] # "run" /\ Fresh(op'[p])
    BY <1>0, <1>5 DEF Begin, Given, Typed
  <2>3. \A q \in Process : q # p => pc'[q] = pc[q] /\ op'[q] = op[q]
    BY <1>0, <1>5 DEF Begin, Typed
  <2> QED
    BY <1>a, <2>1, <2>2, <2>3
<1>6. CASE Outside
  <2>1. UNCHANGED <<op, pc, bk>> /\ seq' = seq
    BY <1>6, OutsideKeeps
  <2>2. stage' = stage
    BY <1>6 DEF Outside, BackfillRead, BackfillWrite, Login, Launch, Exit
  <2> QED
    BY <1>a, <2>1, <2>2
<1>7. CASE UNCHANGED vars
  BY <1>7, <1>a DEF vars
<1> QED
  BY <1>1, <1>2, <1>3, <1>4, <1>5, <1>6, <1>7, NextCases

LEMMA AlwaysFiled ==
  ASSUME Reader = {}, NoRelogin PROVE Spec => [](RInv /\ Current /\ Distinct /\ Filed)
<1>1. Init => RInv /\ Current /\ Distinct /\ Filed
  BY InitHolds, CurrentInit, DistinctInit, FiledInit
<1>2. RInv /\ Current /\ Distinct /\ Filed /\ [Next]_vars => (RInv /\ Current /\ Distinct /\ Filed)'
  BY StepKeeps, CurrentStep, DistinctStep, FiledStep
<1> QED
  BY <1>1, <1>2, PTL DEF Spec

\* Whatever moves, swaps, adds and failures there were, and wherever a command died: a slot's
\* backup files are its own account's, or a staging file has a copy of what is there (without
\* readers that write an old roster back, and logins while an add waits).
THEOREM BackupsAreOwnOrStaged == ASSUME Reader = {}, NoRelogin PROVE Spec => []StoredIsOwnOrStaged
<1>1. RInv /\ Current /\ Filed => StoredIsOwnOrStaged
  <2> SUFFICES ASSUME RInv, Current, Filed, NEW n \in Used(seq), NEW kind \in Kind, NEW a \in Account,
                      AccountId(a) = IdOf(seq.acct[n]), Stored(kind, n, EmailOf[a]) \notin {a, None}
               PROVE  \E m \in Slot : stage[<<kind, m>>] \in {a, Stored(kind, n, EmailOf[a])}
    BY DEF StoredIsOwnOrStaged
  <2> DEFINE v == Stored(kind, n, EmailOf[a])
  <2>1. seq \in Filled /\ bk \in Files /\ Sound(seq, bk, stage, {})
    BY DEF RInv, Typed, Current, Filed
  <2>2. EmailOf[a] = seq.acct[n].email
    BY DEF AccountId, IdOf
  <2>3. v = bk[Home(seq, kind, n)] /\ Home(seq, kind, n) \in Kind \X Key
    BY <2>1, <2>2, HomeFacts DEF Stored, Home
  <2>4. v \in Account \cup {None}
    BY <2>1, <2>3 DEF Files
  <2>5. Good(seq.acct[n], kind, v, stage, {})
    BY <2>1, <2>3 DEF Sound
  <2> HIDE DEF v
  <2>6. v \notin {a, None}
    BY DEF v
  <2>7. ~Own(seq.acct[n], v)
    BY <2>4, <2>6, SameAccount DEF Own
  <2>8. \E m \in Slot : stage[<<kind, m>>] = v
    BY <2>5, <2>7 DEF Good
  <2> QED
    BY <2>8 DEF v
<1> QED
  BY <1>1, AlwaysFiled, PTL

\* A move or swap that failed, and could undo every step, has put every slot's record and backup
\* files back, whichever write failed.
THEOREM MovesAreUndone == ASSUME Reader = {}, NoRelogin PROVE Spec => []FailedMoveIsUndone
<1>1. RInv /\ Current /\ Filed => FailedMoveIsUndone
  <2> SUFFICES ASSUME RInv, Current, Filed, NEW p \in Process, Ended(p), op[p].kind = "move", op[p].failed,
                      op[p].failures = 0
               PROVE  /\ seq = op[p].data
                      /\ \A n \in Used(seq), kind \in Kind :
                           LET f == <<kind, <<n, seq.acct[n].email>>>> IN bk[f] = op[p].bk0[f]
    BY DEF FailedMoveIsUndone
  <2>1. pc[p] = "run" /\ op[p].todo = <<>>
    BY DEF Ended
  <2>2. op[p].data = seq
    BY <2>1 DEF Current
  <2>3. Relocating(op[p], bk, stage)
    BY <2>1 DEF Filed
  <2>4. Undone(op[p], bk, stage)
    BY <2>3 DEF Relocating, Refusing, Moving, Ahead, Settled
  <2>5. \A f : ~PutOn(op[p].todo, f)
    BY <2>1, HasShort DEF PutOn
  <2>6. \A n \in Used(seq), kind \in Kind : bk[Home(seq, kind, n)] = op[p].bk0[Home(seq, kind, n)]
    BY <2>2, <2>4, <2>5 DEF Undone
  <2> QED
    BY <2>2, <2>6 DEF Home
<1> QED
  BY <1>1, AlwaysFiled, PTL

\* No write, commit, rollback, cleanup or discarded copy of a command takes from a managed account
\* the last copy of its credential that serves it: only the deletions the user asked for may.
THEOREM CredentialsKept == ASSUME Reader = {}, NoRelogin PROVE Spec => NoCredentialLost
<1> DEFINE A == \A p \in Process : pc[p] = "run" /\ ~ (Doing(p, "delete") /\ Now(p).must) /\ UNCHANGED login =>
                  \A a \in Account : SlotsOf(seq, AccountId(a)) # {} /\ HasCopy(a) /\ SlotsOf(seq', AccountId(a)) # {} =>
                                       HasCopy(a)'
<1>1. RInv /\ Current /\ Distinct /\ Filed /\ (RInv /\ Current)' /\ [Next]_vars => A
  <2> SUFFICES ASSUME RInv, Current, Distinct, Filed, RInv', Current', [Next]_vars,
                      NEW p \in Process, pc[p] = "run", ~ (Doing(p, "delete") /\ Now(p).must), UNCHANGED login,
                      NEW a \in Account, HasCopy(a), SlotsOf(seq', AccountId(a)) # {}
               PROVE  HasCopy(a)'
    OBVIOUS
  <2>0. seq \in Filled /\ seq' \in Filled /\ Typed /\ Locked /\ bk \in Files /\ Unique(seq) /\ lock = p /\ None \notin Process
    BY RosterAssumption DEF Current, RInv, Typed, Locked, Distinct, Whole
  <2>1. HasCopy(a)' <=> login' = a \/ Copy(seq', bk', stage', a)
    <3>1. \A n : n \in SlotsOf(seq', AccountId(a)) <=> n \in Used(seq') /\ IdOf(seq'.acct[n]) = AccountId(a)
      BY DEF SlotsOf, Used, Holds
    <3>2. \A n : IdOf(seq'.acct[n]) = AccountId(a) => seq'.acct[n].email = EmailOf[a]
      BY DEF IdOf, AccountId
    <3>3. \A n : n \in SlotsOf(seq', AccountId(a)) => Stored("creds", n, EmailOf[a])' = bk'[Home(seq', "creds", n)]
      BY <3>1, <3>2 DEF Stored, Home
    <3> QED
      BY <3>1, <3>3 DEF HasCopy, Copy
  <2>2. CASE login = a
    BY <2>1, <2>2
  <2>3. CASE Copy(seq, bk, stage, a)
    <3>1. CASE UNCHANGED <<seq, bk, stage>>
      BY <2>1, <2>3, <3>1
    <3>2. ASSUME NEW q \in Process, Working(q) PROVE Copy(seq', bk', stage', a)
      <4>1. pc[q] = "run" /\ op[q].todo # <<>>
        BY <2>0, <3>2, WorkedOK
      <4>2. q = p
        BY <2>0, <4>1 DEF Locked
      <4>3. Does(op[p], op'[p], bk, bk', stage, stage', seq, seq')
        BY <2>0, <3>2, <4>2, WorkDone
      <4>4. CASE op[p].kind = "move"
        <5>1. op[p].bk0 \in Files /\ Relocating(op[p], bk, stage)
          BY <4>4 DEF Filed
        <5>2. Mover(op[p], bk, stage) /\ op[p].data = seq
          BY <4>4, <5>1, RunsMove
        <5> QED
          BY <2>3, <4>1, <4>2, <4>3, <5>1, <5>2, RelocatingCopy
      <4>5. CASE op[p].kind # "move"
        <5>1. PICK n, w : Slim(op[p], n, w, bk, seq)
          BY <4>5 DEF Filed
        <5>2. op[p] \in Locals /\ op[p].todo \in Todos
          BY <2>0 DEF Typed, Locals
        <5>3. Head(op[p].todo).do = "delete" => Head(op[p].todo).must
          <6>1. Head(op[p].todo) \in Has(op[p].todo)
            BY <4>1, <4>2, <5>2, HasTail DEF Todos
          <6> QED
            BY <5>1, <6>1 DEF Slim, SlimStep
        <5>4. Head(op[p].todo).do # "delete"
          BY <4>1, <4>2, <5>3 DEF Doing, Now
        <5>5. \E k \in Used(seq') : IdOf(seq'.acct[k]) = AccountId(a)
          BY DEF SlotsOf, Used, Holds
        <5> QED
          BY <2>0, <2>3, <4>1, <4>2, <4>3, <5>1, <5>2, <5>4, <5>5, SlimCopy
      <4> QED
        BY <4>4, <4>5
    <3>3. ASSUME NEW q \in Process, Enters(q) \/ Asks(q) PROVE FALSE
      BY <2>0, <3>3 DEF Enters, Asks
    <3>4. ASSUME NEW q \in Process, Ends(q) PROVE UNCHANGED <<seq, bk, stage>>
      BY <2>0, <3>4 DEF Ends
    <3>5. ASSUME NEW q \in Process, NEW o, NEW next, Begin(q, o, next) PROVE UNCHANGED <<seq, bk, stage>>
      BY <3>5 DEF Begin
    <3>6. ASSUME Outside PROVE UNCHANGED <<seq, bk, stage>>
      <4>1. UNCHANGED bk /\ seq' = seq
        BY <3>6, OutsideKeeps
      <4>2. stage' = stage
        BY <3>6 DEF Outside, BackfillRead, BackfillWrite, Login, Launch, Exit
      <4> QED
        BY <4>1, <4>2
    <3>7. UNCHANGED vars => UNCHANGED <<seq, bk, stage>>
      BY DEF vars
    <3>8. Copy(seq', bk', stage', a)
      BY <2>3, <3>1, <3>2, <3>3, <3>4, <3>5, <3>6, <3>7, NextCases
    <3> QED
      BY <2>1, <3>8
  <2> QED
    BY <2>2, <2>3, CopyIs
<1>2. Spec => [][A]_vars
  BY <1>1, AlwaysFiled, PTL DEF Spec
<1> QED
  BY <1>2 DEF NoCredentialLost

=============================================================================
