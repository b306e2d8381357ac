---------------------------- MODULE RosterProofs ----------------------------
(* TLAPS proofs about Roster, for any number of commands, readers, slots and *)
(* accounts, any set of operations, and any bounds.                          *)
EXTENDS Roster, FiniteSetTheorems, SequenceTheorems, WellFoundedInduction, TLAPS

-----------------------------------------------------------------------------
(* Rosters, and the instructions of a command.                               *)

Orgs == {OrgOf[a] : a \in Account} \cup {None}

\* A roster whose records all have their organization, and one that names nothing twice.
Filled == {d \in Data : \A n \in Slot : d.acct[n] # None => d.acct[n].org # Unset}
Unique(d) ==
  \A m, n \in Slot : d.acct[m] # None /\ d.acct[n] # None /\ m # n =>
    /\ IdOf(d.acct[m]) # IdOf(d.acct[n])
    /\ d.acct[m].alias # None => d.acct[m].alias # d.acct[n].alias

\* The instructions, those of them that commit a roster of G; and the ones that undo.
Puts == [do : {"put"}, file : Kind \X Key, val : Account \cup {None}, must : BOOLEAN]
Deletes == [do : {"delete"}, key : Key, must : BOOLEAN]
Commits(G) == [do : {"commit"}, data : G, must : {TRUE}]
Stages == [do : {"stage"}, file : Kind \X Slot, val : Account \cup {None}, must : {TRUE}]
Moves == [do : {"move"}, from : Key, to : Key, must : {FALSE}]
Exchanges == [do : {"exchange"}, a : Key, b : Key, must : {FALSE}]
Discards == [do : {"discard"}, must : {FALSE}]
Instr(G) == Puts \cup Deletes \cup Commits(G) \cup Stages \cup Moves \cup Exchanges \cup Discards
\* Those that delete no account's files for good.
Mild(G) == {i \in Instr(G) : i.do = "delete" => ~i.must}
Undoing == {i \in Puts \cup Moves \cup Exchanges \cup Discards : ~i.must}

LEMMA InstrFacts ==
  ASSUME NEW G, NEW i \in Instr(G)
  PROVE  /\ i.must \in BOOLEAN
         /\ i.do = "put" => i.file \in Kind \X Key /\ i.val \in Account \cup {None}
         /\ i.do = "delete" => i.key \in Key
         /\ i.do = "commit" => i.data \in G /\ i.must
         /\ i.do = "stage" => i.file \in Kind \X Slot /\ i.val \in Account \cup {None} /\ i.must
         /\ i.do = "move" => i.from \in Key /\ i.to \in Key /\ ~i.must
         /\ i.do = "exchange" => i.a \in Key /\ i.b \in Key /\ ~i.must
BY DEF Instr, Puts, Deletes, Commits, Stages, Moves, Exchanges, Discards

LEMMA UndoFacts == \A G : Undoing \subseteq Instr(G)
BY DEF Undoing, Instr

\* Rosters of one slot changed.
LEMMA DataFacts ==
  ASSUME NEW d \in Data
  PROVE  /\ d = [acct |-> d.acct, active |-> d.active]
         /\ d.acct \in [Slot -> Record \cup {None}] /\ d.active \in Slot
         /\ \A n \in Slot : d.acct[n] # None => d.acct[n] \in Record
BY DEF Data

LEMMA RecordFacts ==
  ASSUME NEW r \in Record
  PROVE  /\ r.email \in Email /\ r.org \in Orgs \cup {Unset} /\ r.alias \in Alias \cup {None}
         /\ r.off \in BOOLEAN /\ IdOf(r) \in Idents
         /\ \A x \in Alias \cup {None} : [r EXCEPT !.alias = x] \in Record
         /\ \A x \in BOOLEAN : [r EXCEPT !.off = x] \in Record
         /\ \A x \in Orgs : [r EXCEPT !.org = x] \in Record
BY DEF Record, Orgs, IdOf, Idents

LEMMA WithRecordOK ==
  ASSUME NEW d \in Filled, NEW n \in Slot, NEW r \in Record \cup {None}, r # None => r.org # Unset
  PROVE  /\ WithRecord(d, n, r) \in Filled /\ WithRecord(d, n, r).acct[n] = r
         /\ \A m \in Slot \ {n} : WithRecord(d, n, r).acct[m] = d.acct[m]
         /\ WithRecord(d, n, r).active = d.active
<1>0. d \in Data
  BY DEF Filled
<1>1. d = [acct |-> d.acct, active |-> d.active] /\ d.acct \in [Slot -> Record \cup {None}] /\ d.active \in Slot
  BY <1>0, DataFacts
<1> DEFINE a == [m \in Slot |-> IF m = n THEN r ELSE d.acct[m]]
<1>2. a \in [Slot -> Record \cup {None}] /\ a[n] = r /\ \A m \in Slot \ {n} : a[m] = d.acct[m]
  BY <1>1
<1>3. WithRecord(d, n, r) = [d EXCEPT !.acct = a]
  BY DEF WithRecord
<1> HIDE DEF a
<1>4. WithRecord(d, n, r) = [acct |-> a, active |-> d.active]
  BY <1>1, <1>3
<1>5. WithRecord(d, n, r) \in Data
  BY <1>1, <1>2, <1>4 DEF Data
<1> QED
  BY <1>2, <1>4, <1>5 DEF Filled

LEMMA ActiveOK ==
  ASSUME NEW d \in Filled, NEW n \in Slot
  PROVE  [d EXCEPT !.active = n] \in Filled /\ [d EXCEPT !.active = n].acct = d.acct
BY DEF Filled, Data

\* Setting a field of one record is writing another record there.
LEMMA AliasSetOK ==
  ASSUME NEW d \in Filled, NEW n \in Slot, d.acct[n] # None, NEW x \in Alias \cup {None}
  PROVE  /\ [d EXCEPT !.acct[n].alias = x] \in Filled
         /\ [d EXCEPT !.acct[n].alias = x].acct[n] = [d.acct[n] EXCEPT !.alias = x]
         /\ \A m \in Slot \ {n} : [d EXCEPT !.acct[n].alias = x].acct[m] = d.acct[m]
<1>0. d \in Data
  BY DEF Filled
<1>1. d = [acct |-> d.acct, active |-> d.active] /\ d.acct \in [Slot -> Record \cup {None}] /\ d.active \in Slot
      /\ d.acct[n] \in Record
  BY <1>0, DataFacts
<1> DEFINE a == [d.acct EXCEPT ![n] = [d.acct[n] EXCEPT !.alias = x]]
           e == [d EXCEPT !.acct[n].alias = x]
<1>2. [d.acct[n] EXCEPT !.alias = x] \in Record /\ [d.acct[n] EXCEPT !.alias = x].org = d.acct[n].org
  BY <1>1 DEF Record
<1>3. e = [acct |-> a, active |-> d.active]
  BY <1>1
<1>4. a \in [Slot -> Record \cup {None}] /\ a[n] = [d.acct[n] EXCEPT !.alias = x]
      /\ \A m \in Slot \ {n} : a[m] = d.acct[m]
  BY <1>1, <1>2
<1> HIDE DEF a, e
<1>5. e \in Data
  BY <1>1, <1>3, <1>4 DEF Data
<1>6. e \in Filled
  BY <1>2, <1>3, <1>4, <1>5 DEF Filled
<1> QED
  BY <1>3, <1>4, <1>6 DEF e

LEMMA OffSetOK ==
  ASSUME NEW d \in Filled, NEW n \in Slot, d.acct[n] # None, NEW x \in BOOLEAN
  PROVE  /\ [d EXCEPT !.acct[n].off = x] \in Filled
         /\ [d EXCEPT !.acct[n].off = x].acct[n] = [d.acct[n] EXCEPT !.off = x]
         /\ \A m \in Slot \ {n} : [d EXCEPT !.acct[n].off = x].acct[m] = d.acct[m]
<1>0. d \in Data
  BY DEF Filled
<1>1. d = [acct |-> d.acct, active |-> d.active] /\ d.acct \in [Slot -> Record \cup {None}] /\ d.active \in Slot
      /\ d.acct[n] \in Record
  BY <1>0, DataFacts
<1> DEFINE a == [d.acct EXCEPT ![n] = [d.acct[n] EXCEPT !.off = x]]
           e == [d EXCEPT !.acct[n].off = x]
<1>2. [d.acct[n] EXCEPT !.off = x] \in Record /\ [d.acct[n] EXCEPT !.off = x].org = d.acct[n].org
  BY <1>1 DEF Record
<1>3. e = [acct |-> a, active |-> d.active]
  BY <1>1
<1>4. a \in [Slot -> Record \cup {None}] /\ a[n] = [d.acct[n] EXCEPT !.off = x]
      /\ \A m \in Slot \ {n} : a[m] = d.acct[m]
  BY <1>1, <1>2
<1> HIDE DEF a, e
<1>5. e \in Data
  BY <1>1, <1>3, <1>4 DEF Data
<1>6. e \in Filled
  BY <1>2, <1>3, <1>4, <1>5 DEF Filled
<1> QED
  BY <1>3, <1>4, <1>6 DEF e

LEMMA RenumberedOK ==
  ASSUME NEW d \in Filled, NEW a \in Slot, NEW b \in Slot
  PROVE  /\ Renumbered(d, a, b) \in Filled
         /\ Renumbered(d, a, b).acct = [d.acct EXCEPT ![a] = d.acct[b], ![b] = d.acct[a]]
<1>0. d \in Data
  BY DEF Filled
<1>1. d.acct \in [Slot -> Record \cup {None}] /\ d.active \in Slot
  BY <1>0, DataFacts
<1>2. Renumbered(d, a, b) \in Data
  BY <1>1 DEF Renumbered, Data
<1> QED
  BY <1>1, <1>2 DEF Filled, Renumbered

LEMMA FoundSlot ==
  ASSUME NEW d, NEW id
  PROVE  /\ FindAccountSlot(d, id) \in SlotsOf(d, id) \cup {None}
         /\ SlotsOf(d, id) # {} => FindAccountSlot(d, id) \in SlotsOf(d, id)
<1>1. CASE SlotsOf(d, id) = {}
  BY <1>1 DEF FindAccountSlot
<1>2. CASE SlotsOf(d, id) # {}
  <2> DEFINE S == SlotsOf(d, id)
             R == OpToRel(<, Nat)
  <2>0. Cardinality(Slot) \in Nat /\ Slot = 1 .. Cardinality(Slot)
    BY RosterAssumption, FS_CardinalityType
  <2>1. S \subseteq Slot /\ Slot \subseteq Int /\ \A n \in Slot : n >= 1
    BY <2>0 DEF SlotsOf
  <2> HIDE DEF S
  <2>2. S \subseteq Nat
    BY <2>1
  <2>3. \E x \in S : \A y \in S : ~(<<y, x>> \in R)
    BY <1>2, <2>2, WFMin, NatLessThanWellFounded DEF S
  <2>4. ASSUME NEW x \in Nat, NEW y \in Nat, y < x PROVE <<y, x>> \in R
    BY <2>4 DEF OpToRel
  <2> HIDE DEF R
  <2>5. PICK x \in S : \A y \in S : ~(<<y, x>> \in R)
    BY <2>3
  <2>6. ASSUME NEW y \in S PROVE x <= y
    <3>1. x \in Nat /\ y \in Nat
      BY <2>2
    <3>2. ~(y < x)
      BY <2>4, <2>5, <3>1
    <3> QED
      BY <3>1, <3>2
  <2>7. Min(S) \in S
    BY <2>6 DEF Min
  <2> QED
    BY <1>2, <2>7 DEF S, FindAccountSlot
<1> QED
  BY <1>1, <1>2

-----------------------------------------------------------------------------
(* What the commands plan.                                                   *)

LEMMA OneSeq == ASSUME NEW S, NEW x \in S PROVE <<x>> \in Seq(S)
OBVIOUS

LEMMA TwoSeq == ASSUME NEW S, NEW x \in S, NEW y \in S PROVE <<x, y>> \in Seq(S)
OBVIOUS

LEMMA WhenSeq == ASSUME NEW S, NEW c \in BOOLEAN, NEW x, c => x \in S PROVE When(c, x) \in Seq(S)
BY OneSeq, EmptySeq DEF When

LEMMA JoinSeq == ASSUME NEW S, NEW s \in Seq(S), NEW t \in Seq(S) PROVE s \o t \in Seq(S)
BY ConcatProperties

LEMMA PutOK ==
  ASSUME NEW kind \in Kind, NEW n \in Slot, NEW e \in Email, NEW v \in Account \cup {None}, NEW must \in BOOLEAN
  PROVE  /\ Put(kind, n, e, v, must) \in Puts /\ (~must => Put(kind, n, e, v, must) \in Undoing)
         /\ \A G : Put(kind, n, e, v, must) \in Mild(G)
BY DEF Put, Puts, Undoing, Instr, Mild, Key

LEMMA DeleteOK ==
  ASSUME NEW n \in Slot, NEW e \in Email, NEW must \in BOOLEAN, NEW G
  PROVE  /\ DeleteAccountFiles(n, e, must) \in Instr(G)
         /\ ~must => DeleteAccountFiles(n, e, must) \in Mild(G)
BY DEF DeleteAccountFiles, Deletes, Instr, Mild, Key

LEMMA CommitOK == ASSUME NEW G, NEW d \in G PROVE WriteSequence(d) \in Mild(G)
BY DEF WriteSequence, Commits, Instr, Mild

LEMMA StageOK ==
  ASSUME NEW kind \in Kind, NEW n \in Slot, NEW v \in Account \cup {None}, NEW G
  PROVE  StageFile(kind, n, v) \in Mild(G)
BY DEF StageFile, Stages, Instr, Mild

LEMMA MoveOK ==
  ASSUME NEW a \in Key, NEW b \in Key
  PROVE  /\ MoveProfile(a, b) \in Undoing /\ SwapProfiles(a, b) \in Undoing /\ Discard \in Undoing
         /\ \A G : MoveProfile(a, b) \in Mild(G) /\ SwapProfiles(a, b) \in Mild(G) /\ Discard \in Mild(G)
BY DEF MoveProfile, SwapProfiles, Discard, Moves, Exchanges, Discards, Undoing, Instr, Mild

LEMMA PutBothOK ==
  ASSUME NEW n \in Slot, NEW e \in Email, NEW v \in Account \cup {None}, NEW w \in Account \cup {None},
         NEW must \in BOOLEAN
  PROVE  /\ ~must => PutBoth(n, e, v, w, must) \in Seq(Undoing)
         /\ \A G : PutBoth(n, e, v, w, must) \in Seq(Mild(G))
<1>1. "creds" \in Kind /\ "config" \in Kind
  BY DEF Kind
<1>2. ~must => Put("creds", n, e, v, must) \in Undoing /\ Put("config", n, e, w, must) \in Undoing
  BY <1>1, PutOK
<1>3. \A G : Put("creds", n, e, v, must) \in Mild(G) /\ Put("config", n, e, w, must) \in Mild(G)
  BY <1>1, PutOK
<1> QED
  BY <1>2, <1>3, TwoSeq DEF PutBoth

Planned(plan, G) ==
  plan.todo \in Seq(Instr(G)) /\ plan.undo \in Seq(Undoing) /\ plan.refused \in BOOLEAN

LEMMA RefusedOK == \A G : Planned(Refused, G)
BY EmptySeq DEF Planned, Refused

LEMMA PlanOK ==
  ASSUME NEW G, NEW t \in Seq(Instr(G)), NEW u \in Seq(Undoing)
  PROVE  Planned(Plan(t, u), G) /\ Plan(t, u).todo = t
BY DEF Planned, Plan

LEMMA MildFacts == \A G : Mild(G) \subseteq Instr(G) /\ Seq(Mild(G)) \subseteq Seq(Instr(G))
BY DEF Mild

LEMMA MildPlan ==
  ASSUME NEW G, NEW t \in Seq(Mild(G)), NEW u \in Seq(Undoing)
  PROVE  Planned(Plan(t, u), G) /\ Plan(t, u).todo \in Seq(Mild(G))
BY MildFacts, PlanOK

LEMMA MildRefused == \A G : Planned(Refused, G) /\ Refused.todo \in Seq(Mild(G))
BY RefusedOK, EmptySeq DEF Refused

\* A command that only writes a roster, or nothing.
LEMMA OnlyCommits ==
  ASSUME NEW G, NEW d \in G
  PROVE  /\ Planned(Plan(<<WriteSequence(d)>>, <<>>), G)
         /\ Plan(<<WriteSequence(d)>>, <<>>).todo \in Seq(Mild(G))
BY CommitOK, OneSeq, EmptySeq, MildPlan

LEMMA NothingToDo == \A G : Planned(Plan(<<>>, <<>>), G) /\ Plan(<<>>, <<>>).todo \in Seq(Mild(G))
BY EmptySeq, MildPlan

BackupsTyped == bk \in [Kind \X Key -> Account \cup {None}]

LEMMA StoredOK ==
  ASSUME BackupsTyped, NEW kind \in Kind, NEW n \in Slot, NEW e \in Email
  PROVE  Stored(kind, n, e) \in Account \cup {None}
BY DEF BackupsTyped, Stored, Key

LEMMA RelocateOK ==
  ASSUME BackupsTyped, NEW d \in Filled, NEW src \in Slot, NEW dst \in Slot, d.acct[src] # None,
         NEW G, Renumbered(d, src, dst) \in G
  PROVE  Planned(RelocatePlan(d, src, dst), G) /\ RelocatePlan(d, src, dst).todo \in Seq(Mild(G))
<1> DEFINE e == d.acct[src].email
           t1 == <<MoveProfile(<<src, e>>, <<dst, e>>)>>
           t2 == PutBoth(dst, e, Stored("creds", src, e), Stored("config", src, e), TRUE)
           t3 == <<WriteSequence(Renumbered(d, src, dst)), DeleteAccountFiles(src, e, FALSE)>>
           u1 == PutBoth(dst, e, None, None, FALSE)
           u2 == <<MoveProfile(<<dst, e>>, <<src, e>>)>>
<1>1. e \in Email
  BY DataFacts, RecordFacts DEF Filled
<1>2. RelocatePlan(d, src, dst) = IF LiveSession(<<src, e>>) THEN Refused ELSE Plan(t1 \o t2 \o t3, u1 \o u2)
  BY DEF RelocatePlan
<1> HIDE DEF e
<1>3. <<src, e>> \in Key /\ <<dst, e>> \in Key /\ "creds" \in Kind /\ "config" \in Kind
  BY <1>1 DEF Key, Kind
<1>4. t1 \in Seq(Mild(G)) /\ u2 \in Seq(Undoing)
  BY <1>3, MoveOK, OneSeq
<1>5. t2 \in Seq(Mild(G)) /\ u1 \in Seq(Undoing)
  BY <1>1, <1>3, StoredOK, PutBothOK
<1>6. t3 \in Seq(Mild(G))
  BY <1>1, CommitOK, DeleteOK, TwoSeq
<1> HIDE DEF t1, t2, t3, u1, u2
<1>7. t1 \o t2 \o t3 \in Seq(Mild(G)) /\ u1 \o u2 \in Seq(Undoing)
  BY <1>4, <1>5, <1>6, JoinSeq
<1> QED
  BY <1>2, <1>7, MildRefused, MildPlan

LEMMA StagePlanOK ==
  ASSUME BackupsTyped, NEW a \in Slot, NEW b \in Slot, NEW e \in Email, NEW G
  PROVE  StagePlan(a, b, e) \in Seq(Mild(G))
<1> DEFINE copy(kind, n) == When(Stored(kind, n, e) # None, StageFile(kind, n, Stored(kind, n, e)))
<1>1. ASSUME NEW kind \in Kind, NEW n \in Slot PROVE copy(kind, n) \in Seq(Mild(G))
  BY StoredOK, StageOK, WhenSeq
<1>2. StagePlan(a, b, e) = copy("creds", a) \o copy("config", a) \o copy("creds", b) \o copy("config", b)
  BY DEF StagePlan
<1> HIDE DEF copy
<1> QED
  BY <1>1, <1>2, JoinSeq DEF Kind

LEMMA RollbackOK ==
  ASSUME BackupsTyped, NEW a \in Slot, NEW b \in Slot, NEW ea \in Email, NEW eb \in Email
  PROVE  RollbackSwap(a, ea, b, eb) \in Seq(Undoing)
<1> DEFINE put(kind, n, e) == When(Stored(kind, n, e) # None \/ ea = eb,
                                   Put(kind, n, e, Stored(kind, n, e), FALSE))
           restore(n, e) == put("creds", n, e) \o put("config", n, e)
           t1 == <<SwapProfiles(<<b, ea>>, <<a, eb>>)>>
           t4 == IF ea = eb THEN <<>>
                 ELSE PutBoth(b, ea, None, None, FALSE) \o PutBoth(a, eb, None, None, FALSE)
           t5 == <<Discard>>
<1>1. ASSUME NEW kind \in Kind, NEW n \in Slot, NEW e \in Email PROVE put(kind, n, e) \in Seq(Undoing)
  BY StoredOK, PutOK, WhenSeq
<1> HIDE DEF put
<1>2. ASSUME NEW n \in Slot, NEW e \in Email PROVE restore(n, e) \in Seq(Undoing)
  BY <1>1, JoinSeq DEF Kind
<1>3. RollbackSwap(a, ea, b, eb) = t1 \o restore(a, ea) \o restore(b, eb) \o t4 \o t5
  BY DEF RollbackSwap, put
<1> HIDE DEF restore
<1>4. <<b, ea>> \in Key /\ <<a, eb>> \in Key
  BY DEF Key
<1>5. t1 \in Seq(Undoing) /\ t5 \in Seq(Undoing)
  BY <1>4, MoveOK, OneSeq
<1>6. t4 \in Seq(Undoing)
  BY PutBothOK, JoinSeq, EmptySeq
<1> HIDE DEF t1, t4, t5
<1> QED
  BY <1>2, <1>3, <1>5, <1>6, JoinSeq

LEMMA SwapOK ==
  ASSUME BackupsTyped, NEW d \in Filled, NEW a \in Slot, NEW b \in Slot, d.acct[a] # None,
         d.acct[b] # None, NEW G, Renumbered(d, a, b) \in G
  PROVE  Planned(SwapPlan(d, a, b), G) /\ SwapPlan(d, a, b).todo \in Seq(Mild(G))
<1> DEFINE ea == d.acct[a].email
           eb == d.acct[b].email
           t1 == IF ea = eb THEN StagePlan(a, b, ea) ELSE <<>>
           t2 == <<SwapProfiles(<<a, ea>>, <<b, eb>>)>>
           t3 == PutBoth(b, ea, Stored("creds", a, ea), Stored("config", a, ea), TRUE)
           t4 == PutBoth(a, eb, Stored("creds", b, eb), Stored("config", b, eb), TRUE)
           t5 == <<WriteSequence(Renumbered(d, a, b))>>
           t6 == IF ea = eb THEN <<>>
                 ELSE <<DeleteAccountFiles(a, ea, FALSE), DeleteAccountFiles(b, eb, FALSE)>>
           t7 == <<Discard>>
<1>1. ea \in Email /\ eb \in Email
  BY DataFacts, RecordFacts DEF Filled
<1>2. SwapPlan(d, a, b) = IF LiveSession(<<a, ea>>) \/ LiveSession(<<b, eb>>) THEN Refused
                          ELSE Plan(t1 \o t2 \o t3 \o t4 \o t5 \o t6 \o t7, RollbackSwap(a, ea, b, eb))
  BY DEF SwapPlan
<1> HIDE DEF ea, eb
<1>3. <<a, ea>> \in Key /\ <<b, eb>> \in Key /\ "creds" \in Kind /\ "config" \in Kind
  BY <1>1 DEF Key, Kind
<1>4. t1 \in Seq(Mild(G))
  BY <1>1, StagePlanOK, EmptySeq
<1>5. t2 \in Seq(Mild(G)) /\ t7 \in Seq(Mild(G))
  BY <1>3, MoveOK, OneSeq
<1>6. t3 \in Seq(Mild(G)) /\ t4 \in Seq(Mild(G))
  BY <1>1, <1>3, StoredOK, PutBothOK
<1>7. t5 \in Seq(Mild(G))
  BY CommitOK, OneSeq
<1>8. t6 \in Seq(Mild(G))
  BY <1>1, DeleteOK, TwoSeq, EmptySeq
<1> HIDE DEF t1, t2, t3, t4, t5, t6, t7
<1>9. t1 \o t2 \o t3 \o t4 \o t5 \o t6 \o t7 \in Seq(Mild(G))
  BY <1>4, <1>5, <1>6, <1>7, <1>8, JoinSeq
<1>10. RollbackSwap(a, ea, b, eb) \in Seq(Undoing)
  BY <1>1, RollbackOK
<1> QED
  BY <1>2, <1>9, <1>10, MildRefused, MildPlan

\* The rosters AddToSlot writes: the occupant of n gone, the account's old slot given up, the
\* new record in place.
AddFrom(o, d, n) ==
  LET old == FindAccountSlot(d, o.id) IN IF o.slot # None /\ old # None /\ old # n THEN old ELSE None
AddCleared(o, d, n) == IF SlotOccupant(d, n, o.id) = None THEN d ELSE Without(d, n)
AddMoved(o, d, n) ==
  IF AddFrom(o, d, n) = None THEN AddCleared(o, d, n)
  ELSE Without(AddCleared(o, d, n), AddFrom(o, d, n))
AddCarried(o, d, n) ==
  IF o.slot = None \/ o.kind = "token" THEN None
  ELSE IF AddFrom(o, d, n) # None /\ d.acct[AddFrom(o, d, n)].alias # None THEN d.acct[AddFrom(o, d, n)].alias
  ELSE IF Holds(d.acct[n], o.id) THEN d.acct[n].alias ELSE None
AddRecord(o, d, n, who) ==
  NewRecord(o.id[1], OrgOf[who], IF o.alias # None THEN o.alias ELSE AddCarried(o, d, n))
AddAdded(o, d, n, who) == WithRecord(AddMoved(o, d, n), n, AddRecord(o, d, n, who))
AddFinal(o, d, n, who) ==
  IF o.kind = "token" THEN AddAdded(o, d, n, who) ELSE [AddAdded(o, d, n, who) EXCEPT !.active = n]

\* The parts of its instructions.
AddDisplaces(o, d, n) ==
  IF SlotOccupant(d, n, o.id) = None THEN <<>>
  ELSE <<DeleteAccountFiles(n, SlotOccupant(d, n, o.id)[1], TRUE), WriteSequence(AddCleared(o, d, n))>>
AddLeaves(o, d, n) ==
  IF AddFrom(o, d, n) = None THEN <<>>
  ELSE <<DeleteAccountFiles(AddFrom(o, d, n), o.id[1], TRUE), WriteSequence(AddMoved(o, d, n))>>

LEMMA AddToSlotIs ==
  ASSUME NEW o, NEW d, NEW n, NEW who
  PROVE  AddToSlot(o, d, n, who) =
           IF ~ RevalidateDisplacement(o, SlotOccupant(d, n, o.id)) \/ AliasInUse(d, o.alias, n) THEN Refused
           ELSE Plan(AddDisplaces(o, d, n) \o AddLeaves(o, d, n) \o PutBoth(n, o.id[1], who, who, TRUE)
                     \o <<WriteSequence(AddFinal(o, d, n, who))>>, <<>>)
BY DEF AddToSlot, AddDisplaces, AddLeaves, AddFinal, AddAdded, AddRecord, AddCarried, AddMoved,
       AddCleared, AddFrom

\* A slot and an account to add there.
Adds(o, d, n, who) ==
  /\ d \in Filled /\ n \in Slot /\ who \in Account
  /\ o.id \in Idents /\ o.slot \in Slot \cup {None} /\ o.alias \in Alias \cup {None}

LEMMA IdentFacts ==
  ASSUME NEW id \in Idents
  PROVE  id[1] \in Email /\ id[2] \in Orgs /\ id = <<id[1], id[2]>>
BY DEF Idents, Orgs

LEMMA AddDataOK ==
  ASSUME NEW o, NEW d, NEW n, NEW who, Adds(o, d, n, who)
  PROVE  /\ AddFrom(o, d, n) \in Slot \cup {None}
         /\ AddFrom(o, d, n) # None => /\ AddFrom(o, d, n) \in SlotsOf(d, o.id) /\ AddFrom(o, d, n) # n
                                       /\ AddFrom(o, d, n) \in Slot
         /\ AddCleared(o, d, n) \in Filled /\ AddMoved(o, d, n) \in Filled
         /\ AddRecord(o, d, n, who) \in Record /\ AddRecord(o, d, n, who).org = OrgOf[who]
         /\ AddAdded(o, d, n, who) \in Filled /\ AddFinal(o, d, n, who) \in Filled
         /\ AddFinal(o, d, n, who).acct = AddAdded(o, d, n, who).acct
         /\ SlotOccupant(d, n, o.id) # None =>
              d.acct[n] # None /\ SlotOccupant(d, n, o.id) = IdOf(d.acct[n]) /\ SlotOccupant(d, n, o.id) \in Idents
<1>0. d \in Filled /\ d \in Data /\ n \in Slot /\ who \in Account /\ o.id \in Idents
      /\ o.slot \in Slot \cup {None} /\ o.alias \in Alias \cup {None}
  BY DEF Adds, Filled
<1>1. \A i \in SlotsOf(d, o.id) : i \in Slot /\ d.acct[i] # None
  BY DEF SlotsOf, Holds
<1>2. AddFrom(o, d, n) # None => /\ AddFrom(o, d, n) \in SlotsOf(d, o.id) /\ AddFrom(o, d, n) # n
                                 /\ AddFrom(o, d, n) \in Slot
  BY <1>1, FoundSlot DEF AddFrom
<1>3. AddCleared(o, d, n) \in Filled
  BY <1>0, WithRecordOK DEF AddCleared, Without
<1>4. AddMoved(o, d, n) \in Filled
  BY <1>2, <1>3, WithRecordOK DEF AddMoved, Without
<1>5. AddCarried(o, d, n) \in Alias \cup {None}
  <2>1. ASSUME NEW i \in Slot, d.acct[i] # None PROVE d.acct[i].alias \in Alias \cup {None}
    BY <1>0, <2>1, DataFacts, RecordFacts
  <2> QED
    BY <1>0, <1>1, <1>2, <2>1 DEF AddCarried, Holds
<1>6. AddRecord(o, d, n, who) \in Record /\ AddRecord(o, d, n, who).org = OrgOf[who]
  BY <1>0, <1>5, IdentFacts DEF AddRecord, NewRecord, Record
<1>7. OrgOf[who] # Unset
  BY <1>0, RosterAssumption
<1>8. AddAdded(o, d, n, who) \in Filled
  BY <1>0, <1>4, <1>6, <1>7, WithRecordOK DEF AddAdded
<1>9. AddFinal(o, d, n, who) \in Filled /\ AddFinal(o, d, n, who).acct = AddAdded(o, d, n, who).acct
  BY <1>0, <1>8, ActiveOK DEF AddFinal
<1>10. SlotOccupant(d, n, o.id) # None =>
         d.acct[n] # None /\ SlotOccupant(d, n, o.id) = IdOf(d.acct[n]) /\ SlotOccupant(d, n, o.id) \in Idents
  BY <1>0, DataFacts, RecordFacts DEF SlotOccupant
<1> QED
  BY <1>2, <1>3, <1>4, <1>6, <1>8, <1>9, <1>10

LEMMA AddToSlotOK ==
  ASSUME NEW o, NEW d, NEW n, NEW who, Adds(o, d, n, who), NEW G,
         AddCleared(o, d, n) \in G, AddMoved(o, d, n) \in G,
         ~AliasInUse(d, o.alias, n) => AddFinal(o, d, n, who) \in G
  PROVE  Planned(AddToSlot(o, d, n, who), G)
<1>0. n \in Slot /\ who \in Account /\ o.id \in Idents /\ o.id[1] \in Email
  BY IdentFacts DEF Adds
<1>1. AddDisplaces(o, d, n) \in Seq(Instr(G))
  <2>1. SlotOccupant(d, n, o.id) # None => SlotOccupant(d, n, o.id)[1] \in Email
    BY AddDataOK, IdentFacts
  <2> QED
    BY <1>0, <2>1, DeleteOK, CommitOK, MildFacts, TwoSeq, EmptySeq DEF AddDisplaces
<1>2. AddLeaves(o, d, n) \in Seq(Instr(G))
  BY <1>0, AddDataOK, DeleteOK, CommitOK, MildFacts, TwoSeq, EmptySeq DEF AddLeaves
<1>3. PutBoth(n, o.id[1], who, who, TRUE) \in Seq(Instr(G))
  BY <1>0, PutBothOK, MildFacts
<1>4. CASE AliasInUse(d, o.alias, n)
  BY <1>4, AddToSlotIs, RefusedOK
<1>5. CASE ~AliasInUse(d, o.alias, n)
  <2>1. <<WriteSequence(AddFinal(o, d, n, who))>> \in Seq(Instr(G))
    BY <1>5, CommitOK, OneSeq, MildFacts
  <2>2. AddDisplaces(o, d, n) \o AddLeaves(o, d, n) \o PutBoth(n, o.id[1], who, who, TRUE)
          \o <<WriteSequence(AddFinal(o, d, n, who))>> \in Seq(Instr(G))
    BY <1>1, <1>2, <1>3, <2>1, JoinSeq
  <2> QED
    BY <2>2, AddToSlotIs, RefusedOK, PlanOK, EmptySeq
<1> QED
  BY <1>4, <1>5

\* The roster AddRefreshInPlace writes.
RefreshedMark(o, d, n) == IF o.alias = None THEN d ELSE [d EXCEPT !.acct[n].alias = o.alias]
RefreshedFinal(o, d, n) ==
  IF o.kind = "token" THEN RefreshedMark(o, d, n) ELSE [RefreshedMark(o, d, n) EXCEPT !.active = n]

LEMMA RefreshDataOK ==
  ASSUME NEW o, NEW d, NEW n, NEW who, Adds(o, d, n, who), d.acct[n] # None
  PROVE  /\ RefreshedFinal(o, d, n) \in Filled
         /\ RefreshedFinal(o, d, n).acct = RefreshedMark(o, d, n).acct
<1>1. RefreshedMark(o, d, n) \in Filled
  BY AliasSetOK DEF RefreshedMark, Adds
<1> QED
  BY <1>1, ActiveOK DEF RefreshedFinal, Adds

LEMMA RefreshOK ==
  ASSUME NEW o, NEW d, NEW n, NEW who, Adds(o, d, n, who), NEW G,
         ~AliasInUse(d, o.alias, n) => RefreshedFinal(o, d, n) \in G
  PROVE  /\ Planned(AddRefreshInPlace(o, d, n, who), G)
         /\ AddRefreshInPlace(o, d, n, who).todo \in Seq(Mild(G))
<1>1. AddRefreshInPlace(o, d, n, who) =
        IF AliasInUse(d, o.alias, n) THEN Refused
        ELSE Plan(PutBoth(n, o.id[1], who, who, TRUE) \o <<WriteSequence(RefreshedFinal(o, d, n))>>, <<>>)
  BY DEF AddRefreshInPlace, RefreshedFinal, RefreshedMark
<1>2. PutBoth(n, o.id[1], who, who, TRUE) \in Seq(Mild(G))
  BY IdentFacts, PutBothOK DEF Adds
<1>0. CASE AliasInUse(d, o.alias, n)
  BY <1>0, <1>1, MildRefused
<1>5. CASE ~AliasInUse(d, o.alias, n)
  <2>3. <<WriteSequence(RefreshedFinal(o, d, n))>> \in Seq(Mild(G))
    BY <1>5, CommitOK, OneSeq
  <2>4. PutBoth(n, o.id[1], who, who, TRUE) \o <<WriteSequence(RefreshedFinal(o, d, n))>> \in Seq(Mild(G))
    BY <1>2, <2>3, JoinSeq
  <2> QED
    BY <1>1, <1>5, <2>4, MildPlan, EmptySeq
<1> QED
  BY <1>0, <1>5

-----------------------------------------------------------------------------
(* The calls, and what they are planned from.                                *)

LEMMA BackfilledOK ==
  ASSUME NEW d \in Data, BackupsTyped, login \in Account \cup {None}
  PROVE  /\ Backfilled(d) \in Filled /\ Used(Backfilled(d)) = Used(d)
         /\ d \in Filled => Backfilled(d) = d
<1> DEFINE org(n) ==
             LET e == d.acct[n].email
                 backup == bk[<<"config", <<n, e>>>>]
             IN  IF login # None /\ EmailOf[login] = e THEN OrgOf[login]
                 ELSE IF backup = None THEN None ELSE OrgOf[backup]
           row(n) == IF d.acct[n] # None /\ d.acct[n].org = Unset
                     THEN [d.acct[n] EXCEPT !.org = org(n)] ELSE d.acct[n]
           a == [n \in Slot |-> row(n)]
<1>0. d = [acct |-> d.acct, active |-> d.active] /\ d.acct \in [Slot -> Record \cup {None}] /\ d.active \in Slot
  BY DataFacts
<1>1. Backfilled(d) = [d EXCEPT !.acct = a]
  BY DEF Backfilled
<1>2. ASSUME NEW n \in Slot, d.acct[n] # None PROVE org(n) \in Orgs
  <2>1. d.acct[n].email \in Email
    BY <1>2, DataFacts, RecordFacts
  <2>2. <<"config", <<n, d.acct[n].email>>>> \in Kind \X Key
    BY <2>1 DEF Kind, Key
  <2>3. bk[<<"config", <<n, d.acct[n].email>>>>] \in Account \cup {None}
    BY <2>2 DEF BackupsTyped
  <2> QED
    BY <2>3 DEF Orgs
<1> HIDE DEF org
<1>3. Unset \notin Orgs
  BY RosterAssumption DEF Orgs
<1>4. None \notin Record
  BY RosterAssumption
<1>5. ASSUME NEW n \in Slot
      PROVE  /\ row(n) \in Record \cup {None}
             /\ row(n) # None => row(n).org # Unset
             /\ d.acct[n] # None => row(n) \in Record
             /\ d.acct[n] = None => row(n) = None
             /\ (d.acct[n] # None => d.acct[n].org # Unset) => row(n) = d.acct[n]
  <2>1. CASE d.acct[n] # None /\ d.acct[n].org = Unset
    <3>1. d.acct[n] \in Record /\ org(n) \in Orgs
      BY <1>2, <2>1, DataFacts
    <3>2. [d.acct[n] EXCEPT !.org = org(n)] \in Record /\ [d.acct[n] EXCEPT !.org = org(n)].org = org(n)
      BY <3>1, RecordFacts DEF Record
    <3> QED
      BY <1>3, <2>1, <3>1, <3>2
  <2>2. CASE ~(d.acct[n] # None /\ d.acct[n].org = Unset)
    BY <2>2, DataFacts
  <2> QED
    BY <2>1, <2>2
<1> HIDE DEF row
<1>6. a \in [Slot -> Record \cup {None}]
  BY <1>5
<1>7. \A n \in Slot : a[n] = row(n)
  OBVIOUS
<1> HIDE DEF a
<1>8. Backfilled(d) = [acct |-> a, active |-> d.active]
  BY <1>0, <1>1
<1>9. Backfilled(d) \in Data
  BY <1>0, <1>6, <1>8 DEF Data
<1>10. Backfilled(d).acct = a
  BY <1>8
<1>11. Backfilled(d) \in Filled
  BY <1>5, <1>7, <1>9, <1>10 DEF Filled
<1>12. Used(Backfilled(d)) = Used(d)
  BY <1>4, <1>5, <1>7, <1>10 DEF Used
<1>13. ASSUME d \in Filled PROVE Backfilled(d) = d
  <2>1. \A n \in Slot : a[n] = d.acct[n]
    BY <1>5, <1>7, <1>13 DEF Filled
  <2>2. a = d.acct
    BY <1>0, <1>6, <2>1
  <2> QED
    BY <1>0, <1>8, <2>2
<1> QED
  BY <1>11, <1>12, <1>13

\* The locals of a command, and what the command line gave it.
Files == [Kind \X Key -> Account \cup {None}]
Profiles == [Key -> Account \cup {None}]
Todos == Seq(Instr(Filled))
Undos == Seq(Undoing)
Stagings == SUBSET (Kind \X Slot)
Locals ==
  [kind : {None, "add", "token", "remove", "move", "alias", "disable"}, id : Idents \cup {None},
   who : Account \cup {None}, slot : Slot \cup {None}, to : Slot \cup {None}, yes : BOOLEAN,
   alias : Alias \cup {None}, confirmed : Idents \cup {None}, data : Data \cup {None},
   todo : Todos, undo : Undos, staged : Stagings, failed : BOOLEAN,
   failures : Nat, refused : BOOLEAN, bk0 : Files \cup {None}, sess0 : Profiles \cup {None}]

Called(o) ==
  /\ o.kind \in {"add", "token", "remove", "move", "alias", "disable"}
  /\ o.kind \in {"add", "token", "remove"} => o.id \in Idents
  /\ o.kind \notin {"add", "token"} => o.slot \in Slot
  /\ o.kind = "move" => o.to \in Slot
  /\ o.kind = "token" => o.who \in TokenAccount /\ o.id = AccountId(o.who)

LEMMA NextSlotOK ==
  ASSUME NEW d, NEW e, Used(d) = Used(e)
  PROVE  NextAccountNumber(d) = NextAccountNumber(e)
BY DEF NextAccountNumber

\* Whom an add adds.  The rosters a command may commit are in G.
Adding(o) == IF o.kind = "token" THEN o.who ELSE login
Admits(o, d, G) ==
  /\ o.kind \in {"add", "token"} => \A n : Adds(o, d, n, Adding(o)) =>
       /\ (IF o.slot = None THEN SlotsOf(d, o.id) = {} ELSE n = o.slot) =>
            /\ AddCleared(o, d, n) \in G /\ AddMoved(o, d, n) \in G
            /\ ~AliasInUse(d, o.alias, n) => AddFinal(o, d, n, Adding(o)) \in G
       /\ n \in SlotsOf(d, o.id) /\ ~AliasInUse(d, o.alias, n) => RefreshedFinal(o, d, n) \in G
  /\ o.kind = "remove" => Without(d, o.slot) \in G
  /\ o.kind = "move" => Renumbered(d, o.slot, o.to) \in G
  /\ o.kind = "alias" /\ d.acct[o.slot] # None /\ ~AliasInUse(d, o.alias, o.slot) =>
       [d EXCEPT !.acct[o.slot].alias = o.alias] \in G
  /\ o.kind = "disable" /\ d.acct[o.slot] # None => [d EXCEPT !.acct[o.slot].off = o.yes] \in G

LEMMA FilledAdmits ==
  ASSUME NEW o \in Locals, Called(o), NEW d \in Filled
  PROVE  Admits(o, d, Filled)
<1>0. o.slot \in Slot \cup {None} /\ o.yes \in BOOLEAN /\ o.alias \in Alias \cup {None}
  BY DEF Locals
<1>1. ASSUME o.kind \in {"add", "token"}, NEW n, Adds(o, d, n, Adding(o))
      PROVE  /\ AddCleared(o, d, n) \in Filled /\ AddMoved(o, d, n) \in Filled
             /\ AddFinal(o, d, n, Adding(o)) \in Filled
             /\ n \in SlotsOf(d, o.id) => RefreshedFinal(o, d, n) \in Filled
  BY <1>1, AddDataOK, RefreshDataOK DEF SlotsOf, Holds
<1>2. o.kind = "remove" => Without(d, o.slot) \in Filled
  BY WithRecordOK DEF Without, Called
<1>3. o.kind = "move" => Renumbered(d, o.slot, o.to) \in Filled
  BY RenumberedOK DEF Called
<1>4. o.kind = "alias" /\ d.acct[o.slot] # None => [d EXCEPT !.acct[o.slot].alias = o.alias] \in Filled
  BY <1>0, AliasSetOK DEF Called
<1>5. o.kind = "disable" /\ d.acct[o.slot] # None => [d EXCEPT !.acct[o.slot].off = o.yes] \in Filled
  BY <1>0, OffSetOK DEF Called
<1> QED
  BY <1>1, <1>2, <1>3, <1>4, <1>5 DEF Admits

\* Whatever is planned from a filled roster consists of instructions that commit the rosters
\* the command may commit.
LEMMA PlanOfOK ==
  ASSUME NEW o \in Locals, Called(o), NEW d \in Filled, BackupsTyped, login \in Account \cup {None},
         NextAccountNumber(d) \in Slot \/ o.slot # None, NEW G, Admits(o, d, G)
  PROVE  Planned(PlanOf(o, d), G)
<1>0. /\ o.id \in Idents \cup {None} /\ o.who \in Account \cup {None} /\ o.slot \in Slot \cup {None}
      /\ o.to \in Slot \cup {None} /\ o.yes \in BOOLEAN /\ o.alias \in Alias \cup {None}
  BY DEF Locals
<1>1. CASE o.kind \in {"add", "token"}
  <2> DEFINE who == Adding(o)
             old == FindAccountSlot(d, o.id)
             n == IF o.slot = None THEN NextAccountNumber(d) ELSE o.slot
  <2>1. PlanOf(o, d) = AddPlan(o, d)
    BY <1>1 DEF PlanOf
  <2>2. AddPlan(o, d) = IF who = None THEN Refused
                        ELSE IF o.slot = None /\ old # None THEN AddRefreshInPlace(o, d, old, who)
                        ELSE AddToSlot(o, d, n, who)
    BY DEF AddPlan, Adding
  <2>3. who \in Account \cup {None} /\ n \in Slot
    BY <1>0 DEF Adding
  <2>4. old # None => old \in Slot /\ old \in SlotsOf(d, o.id)
    BY FoundSlot DEF SlotsOf
  <2>8. old = None => SlotsOf(d, o.id) = {}
    BY FoundSlot, RosterAssumption DEF SlotsOf
  <2>9. o.slot # None => n = o.slot
    OBVIOUS
  <2>5. o.id \in Idents
    BY <1>1 DEF Called
  <2> HIDE DEF who, old, n
  <2>6. ASSUME who # None, old # None PROVE Planned(AddRefreshInPlace(o, d, old, who), G)
    <3>1. Adds(o, d, old, who)
      BY <1>0, <2>3, <2>4, <2>5, <2>6 DEF Adds
    <3>2. ~AliasInUse(d, o.alias, old) => RefreshedFinal(o, d, old) \in G
      BY <1>1, <2>4, <2>6, <3>1 DEF Admits, who
    <3> QED
      BY <3>1, <3>2, RefreshOK
  <2>7. ASSUME who # None, ~(o.slot = None /\ old # None) PROVE Planned(AddToSlot(o, d, n, who), G)
    <3>1. Adds(o, d, n, who)
      BY <1>0, <2>3, <2>5, <2>7 DEF Adds
    <3>2. /\ AddCleared(o, d, n) \in G /\ AddMoved(o, d, n) \in G
          /\ ~AliasInUse(d, o.alias, n) => AddFinal(o, d, n, who) \in G
      BY <1>1, <2>7, <2>8, <2>9, <3>1 DEF Admits, who
    <3> QED
      BY <3>1, <3>2, AddToSlotOK
  <2> QED
    BY <2>1, <2>2, <2>6, <2>7, RefusedOK
<1>2. CASE o.kind = "remove"
  <2>1. PlanOf(o, d) = RemovePlan(o, d)
    BY <1>2 DEF PlanOf
  <2>2. o.slot \in Slot /\ o.id \in Idents /\ o.id[1] \in Email
    BY <1>2, IdentFacts DEF Called
  <2> DEFINE t == <<DeleteAccountFiles(o.slot, o.id[1], TRUE), WriteSequence(Without(d, o.slot))>>
  <2>3. Without(d, o.slot) \in G
    BY <1>2 DEF Admits
  <2>4. t \in Seq(Instr(G))
    BY <2>2, <2>3, DeleteOK, CommitOK, MildFacts, TwoSeq
  <2>5. RemovePlan(o, d) = IF ~ Holds(d.acct[o.slot], o.id) \/ LiveSession(<<o.slot, o.id[1]>>) THEN Refused
                           ELSE Plan(t, <<>>)
    BY DEF RemovePlan
  <2> HIDE DEF t
  <2>6. Planned(Plan(t, <<>>), G) /\ Planned(Refused, G)
    BY <2>4, PlanOK, RefusedOK, EmptySeq
  <2> QED
    BY <2>1, <2>5, <2>6
<1>3. CASE o.kind = "move"
  <2>1. PlanOf(o, d) = MovePlan(o, d)
    BY <1>3 DEF PlanOf
  <2>2. o.slot \in Slot /\ o.to \in Slot
    BY <1>3 DEF Called
  <2>3. Renumbered(d, o.slot, o.to) \in G
    BY <1>3 DEF Admits
  <2> QED
    BY <2>1, <2>2, <2>3, RefusedOK, RelocateOK, SwapOK DEF MovePlan
<1>4. CASE o.kind = "alias"
  <2>1. PlanOf(o, d) = AliasPlan(o, d)
    BY <1>4 DEF PlanOf
  <2>2. o.slot \in Slot
    BY <1>4 DEF Called
  <2>3. d.acct[o.slot] # None /\ ~AliasInUse(d, o.alias, o.slot) =>
          [d EXCEPT !.acct[o.slot].alias = o.alias] \in G
    BY <1>4 DEF Admits
  <2> QED
    BY <2>1, <2>3, RefusedOK, OnlyCommits, NothingToDo DEF AliasPlan
<1>5. CASE o.kind = "disable"
  <2>1. PlanOf(o, d) = DisablePlan(o, d)
    BY <1>5 DEF PlanOf
  <2>2. o.slot \in Slot
    BY <1>5 DEF Called
  <2>3. d.acct[o.slot] # None => [d EXCEPT !.acct[o.slot].off = o.yes] \in G
    BY <1>5 DEF Admits
  <2> QED
    BY <2>1, <2>3, RefusedOK, OnlyCommits, NothingToDo DEF DisablePlan
<1> QED
  BY <1>1, <1>2, <1>3, <1>4, <1>5 DEF Called

-----------------------------------------------------------------------------
(* The invariant.  Types, with the instructions a command has left to do; a  *)
(* command that has begun was given its arguments, and one that carries out  *)
(* its instructions holds the lock and decided from a filled roster.         *)

Typed ==
  /\ seq \in Data /\ bk \in Files /\ sess \in Profiles
  /\ stage \in [Kind \X Slot -> Account \cup {None, Partial}]
  /\ live \subseteq Account /\ login \in Account \cup {None} /\ lock \in Process \cup {None}
  /\ pc \in [Process -> {"idle", "ask", "enter", "run"}]
  /\ op \in [Process -> Locals]
  /\ snap \in [Reader -> Data \cup {None}]

Begun ==
  \A p \in Process :
    /\ pc[p] # "idle" => Called(op[p])
    /\ pc[p] = "ask" => op[p].slot \in Slot /\ op[p].kind \in {"add", "token"}
    /\ pc[p] = "run" => op[p].data \in Filled

Locked == \A p \in Process : pc[p] = "run" <=> lock = p

RInv == Typed /\ Begun /\ Locked

\* What the command line gave a command does not change.
Same(o, u) ==
  /\ u.kind = o.kind /\ u.id = o.id /\ u.who = o.who /\ u.slot = o.slot /\ u.to = o.to
  /\ u.yes = o.yes /\ u.alias = o.alias

LEMMA NoOpFacts == NoOp \in Locals
<1>1. <<>> \in Todos /\ <<>> \in Undos
  BY EmptySeq DEF Todos, Undos
<1>2. 0 \in Nat /\ {} \in Stagings
  BY DEF Stagings
<1> QED
  BY <1>1, <1>2 DEF NoOp, Locals

LEMMA UndoSeq == Undos \subseteq Todos
BY UndoFacts DEF Todos, Undos

LEMMA TailSeq ==
  ASSUME NEW S, NEW s \in Seq(S), s # <<>>
  PROVE  Head(s) \in S /\ Tail(s) \in Seq(S)
BY HeadTailProperties

-----------------------------------------------------------------------------
(* One instruction.                                                          *)

\* What carrying out an instruction, or failing to, does to the command and the roster.
Worked(p) ==
  /\ pc' = pc /\ lock' = lock /\ UNCHANGED <<login, live, snap, count>>
  /\ op' = [op EXCEPT ![p] = op'[p]] /\ op'[p] \in Locals /\ Same(op[p], op'[p])
  /\ op'[p].confirmed = op[p].confirmed
  /\ op'[p].undo \in {op[p].undo, <<>>}
  /\ \/ /\ Doing(p, "commit") /\ seq' = Now(p).data
        /\ op'[p].todo = Tail(op[p].todo) /\ op'[p].data = Now(p).data
     \/ /\ seq' = seq /\ op'[p].data = op[p].data
        /\ op'[p].todo \in {Tail(op[p].todo), op[p].undo}

Working(p) ==
  \/ WriteFile(p) \/ DeleteFiles(p) \/ Commit(p) \/ Stage(p) \/ RelocateProfile(p)
  \/ SwapSessionDirs(p) \/ DiscardStaging(p) \/ WriteFails(p)

LEMMA NowFacts ==
  ASSUME Typed, NEW p \in Process, pc[p] = "run", op[p].todo # <<>>
  PROVE  /\ op[p] \in Locals /\ op[p].todo \in Todos /\ op[p].undo \in Undos /\ op[p].undo \in Todos
         /\ Now(p) \in Instr(Filled) /\ Tail(op[p].todo) \in Todos /\ <<>> \in Undos
         /\ op[p].staged \in Stagings /\ op[p].failures \in Nat
<1>1. op[p] \in Locals
  BY DEF Typed
<1>2. op[p].todo \in Todos /\ op[p].undo \in Undos /\ op[p].staged \in Stagings /\ op[p].failures \in Nat
  BY <1>1 DEF Locals
<1>3. Now(p) \in Instr(Filled) /\ Tail(op[p].todo) \in Todos
  BY <1>2, TailSeq DEF Now, Todos
<1>4. <<>> \in Undos
  BY EmptySeq DEF Undos
<1> QED
  BY <1>1, <1>2, <1>3, <1>4, UndoSeq

\* The three ways most instructions end.
LEMMA EndsOK ==
  ASSUME Typed, NEW p \in Process, pc[p] = "run", op[p].todo # <<>>,
         Advance(p) \/ Abort(p) \/ Failed(p)
  PROVE  /\ op' = [op EXCEPT ![p] = op'[p]] /\ op'[p] \in Locals /\ Same(op[p], op'[p])
         /\ op'[p].confirmed = op[p].confirmed /\ op'[p].undo \in {op[p].undo, <<>>}
         /\ op'[p].data = op[p].data /\ op'[p].todo \in {Tail(op[p].todo), op[p].undo}
<1>0. op \in [Process -> Locals]
  BY DEF Typed
<1> DEFINE o == op[p]
           t == Tail(op[p].todo)
           w == op[p].undo
           k == op[p].failures + 1
<1>a. o \in Locals /\ t \in Todos /\ w \in Todos /\ <<>> \in Undos /\ k \in Nat
  BY NowFacts
<1>1. CASE Advance(p)
  <2> DEFINE u == [o EXCEPT !.todo = t]
  <2>1. op' = [op EXCEPT ![p] = u]
    BY <1>1 DEF Advance
  <2> HIDE DEF o, t, w, k
  <2>2. u \in Locals
    BY <1>a DEF Locals
  <2>3. Same(o, u) /\ u.todo = t /\ u.undo = o.undo
        /\ u.data = o.data /\ u.confirmed = o.confirmed
    BY <1>a DEF Locals, Same
  <2> HIDE DEF u
  <2> USE DEF o, t, w
  <2> QED
    BY <1>0, <2>1, <2>2, <2>3
<1>2. CASE Abort(p)
  <2> DEFINE u == [o EXCEPT !.todo = w, !.undo = <<>>, !.failed = TRUE]
  <2>1. op' = [op EXCEPT ![p] = u]
    BY <1>2 DEF Abort
  <2> HIDE DEF o, t, w, k
  <2>2. u \in Locals
    BY <1>a DEF Locals
  <2>3. Same(o, u) /\ u.todo = w /\ u.undo = <<>>
        /\ u.data = o.data /\ u.confirmed = o.confirmed
    BY <1>a DEF Locals, Same
  <2> HIDE DEF u
  <2> USE DEF o, t, w
  <2> QED
    BY <1>0, <2>1, <2>2, <2>3
<1>3. CASE op' = [op EXCEPT ![p].todo = Tail(@), ![p].failures = @ + 1]
  <2> DEFINE u == [o EXCEPT !.todo = t, !.failures = k]
  <2>1. op' = [op EXCEPT ![p] = u]
    BY <1>0, <1>3
  <2> HIDE DEF o, t, w, k
  <2>2. u \in Locals
    BY <1>a DEF Locals
  <2>3. Same(o, u) /\ u.todo = t /\ u.undo = o.undo
        /\ u.data = o.data /\ u.confirmed = o.confirmed
    BY <1>a DEF Locals, Same
  <2> HIDE DEF u
  <2> USE DEF o, t, w
  <2> QED
    BY <1>0, <2>1, <2>2, <2>3
<1> QED
  BY <1>1, <1>2, <1>3 DEF Failed

LEMMA WorkedOK ==
  ASSUME Typed, NEW p \in Process, Working(p)
  PROVE  Worked(p) /\ pc[p] = "run" /\ op[p].todo # <<>>
<1>0. op \in [Process -> Locals]
  BY DEF Typed
<1>1. pc[p] = "run" /\ op[p].todo # <<>>
  BY DEF Working, WriteFile, DeleteFiles, Commit, Stage, RelocateProfile, SwapSessionDirs, DiscardStaging,
         WriteFails, Doing
<1>2. CASE (Advance(p) \/ Abort(p) \/ Failed(p))
           /\ UNCHANGED <<seq, pc, lock, login, live, snap, count>>
  BY <1>1, <1>2, EndsOK DEF Worked
<1>3. CASE Commit(p)
  <2> DEFINE o == op[p]
             t == Tail(op[p].todo)
             d == Now(p).data
             u == [o EXCEPT !.todo = t, !.undo = <<>>, !.data = d]
  <2>1. op' = [op EXCEPT ![p] = u]
    BY <1>0, <1>3 DEF Commit
  <2>2. o \in Locals /\ t \in Todos /\ <<>> \in Undos
    BY <1>1, NowFacts
  <2>3. d \in Data
    BY <1>1, <1>3, NowFacts, InstrFacts DEF Commit, Doing, Now, Filled
  <2> HIDE DEF o, t, d
  <2>4. u \in Locals
    BY <2>2, <2>3 DEF Locals
  <2>5. Same(o, u) /\ u.todo = t /\ u.undo = <<>> /\ u.data = d /\ u.confirmed = o.confirmed
    BY <2>2 DEF Locals, Same
  <2> HIDE DEF u
  <2>6. seq' = d /\ Doing(p, "commit") /\ UNCHANGED <<pc, lock, login, live, snap, count>>
    BY <1>3 DEF Commit, d
  <2> USE DEF o, t, d
  <2> QED
    BY <1>0, <1>1, <2>1, <2>4, <2>5, <2>6 DEF Worked
<1>4. CASE Stage(p) /\ op' = [op EXCEPT ![p].todo = Tail(@), ![p].staged = @ \cup {Now(p).file}]
  <2> DEFINE o == op[p]
             t == Tail(op[p].todo)
             g == op[p].staged \cup {Now(p).file}
             u == [o EXCEPT !.todo = t, !.staged = g]
  <2>1. op' = [op EXCEPT ![p] = u]
    BY <1>0, <1>4
  <2>2. o \in Locals /\ t \in Todos
    BY <1>1, NowFacts
  <2>3. g \in Stagings
    BY <1>1, <1>4, NowFacts, InstrFacts DEF Stage, Doing, Now, Stagings
  <2> HIDE DEF o, t, g
  <2>4. u \in Locals
    BY <2>2, <2>3 DEF Locals
  <2>5. Same(o, u) /\ u.todo = t /\ u.undo = o.undo /\ u.data = o.data /\ u.confirmed = o.confirmed
    BY <2>2 DEF Locals, Same
  <2> HIDE DEF u
  <2>6. UNCHANGED <<seq, pc, lock, login, live, snap, count>>
    BY <1>4 DEF Stage
  <2> USE DEF o, t
  <2> QED
    BY <1>0, <1>1, <2>1, <2>4, <2>5, <2>6 DEF Worked
<1>5. CASE Stage(p) /\ op' = [op EXCEPT ![p].todo = op[p].undo, ![p].undo = <<>>, ![p].failed = TRUE,
                                        ![p].staged = {}, ![p].refused = TRUE]
  <2> DEFINE o == op[p]
             w == op[p].undo
             u == [o EXCEPT !.todo = w, !.undo = <<>>, !.failed = TRUE, !.staged = {}, !.refused = TRUE]
  <2>1. op' = [op EXCEPT ![p] = u]
    BY <1>0, <1>5
  <2>2. o \in Locals /\ w \in Todos /\ <<>> \in Undos /\ {} \in Stagings
    BY <1>1, NowFacts DEF Stagings
  <2> HIDE DEF o, w
  <2>4. u \in Locals
    BY <2>2 DEF Locals
  <2>5. Same(o, u) /\ u.todo = w /\ u.undo = <<>> /\ u.data = o.data /\ u.confirmed = o.confirmed
    BY <2>2 DEF Locals, Same
  <2> HIDE DEF u
  <2>6. UNCHANGED <<seq, pc, lock, login, live, snap, count>>
    BY <1>5 DEF Stage
  <2> USE DEF o, w
  <2> QED
    BY <1>0, <1>1, <2>1, <2>4, <2>5, <2>6 DEF Worked
<1>6. CASE WriteFile(p) \/ WriteFails(p)
  BY <1>2, <1>6 DEF WriteFile, WriteFails
<1>7. CASE DeleteFiles(p)
  BY <1>2, <1>7 DEF DeleteFiles
<1>8. CASE RelocateProfile(p) \/ SwapSessionDirs(p) \/ DiscardStaging(p)
  BY <1>2, <1>8 DEF RelocateProfile, SwapSessionDirs, DiscardStaging
<1>9. Stage(p) => \/ op' = [op EXCEPT ![p].todo = Tail(@), ![p].staged = @ \cup {Now(p).file}]
                  \/ op' = [op EXCEPT ![p].todo = op[p].undo, ![p].undo = <<>>, ![p].failed = TRUE,
                                      ![p].staged = {}, ![p].refused = TRUE]
  BY DEF Stage
<1> QED
  BY <1>1, <1>3, <1>4, <1>5, <1>6, <1>7, <1>8, <1>9 DEF Working

LEMMA ExchangedOK ==
  ASSUME sess \in Profiles, NEW a \in Key, NEW b \in Key, NEW landed \in BOOLEAN
  PROVE  Exchanged(a, b, landed) \in Profiles
<1> DEFINE newA == <<b[1], a[2]>>
           newB == <<a[1], b[2]>>
           aside == [sess EXCEPT ![a] = None]
           crossed == IF aside[b] # None /\ aside[newB] = None
                      THEN [aside EXCEPT ![newB] = aside[b], ![b] = None] ELSE aside
<1>1. newA \in Key /\ newB \in Key
  BY DEF Key
<1>2. aside \in Profiles
  BY DEF Profiles
<1>3. Exchanged(a, b, landed) = IF landed /\ crossed[newA] = None THEN [crossed EXCEPT ![newA] = sess[a]]
                                ELSE IF crossed[a] = None THEN [crossed EXCEPT ![a] = sess[a]] ELSE crossed
  BY DEF Exchanged
<1> HIDE DEF newA, newB, aside
<1>4. crossed \in Profiles
  BY <1>1, <1>2 DEF Profiles
<1> HIDE DEF crossed
<1> QED
  BY <1>1, <1>3, <1>4 DEF Profiles

Stagers == [Kind \X Slot -> Account \cup {None, Partial}]

\* No instruction writes anything that is not a file, a profile or a filled roster.
LEMMA WrittenOK ==
  ASSUME Typed, NEW p \in Process, Working(p)
  PROVE  bk' \in Files /\ sess' \in Profiles /\ stage' \in Stagers /\ (seq' = seq \/ seq' \in Filled)
<1>0. bk \in Files /\ sess \in Profiles /\ stage \in Stagers /\ pc[p] = "run" /\ op[p].todo # <<>>
  BY WorkedOK DEF Typed, Stagers
<1>1. Now(p) \in Instr(Filled)
  BY <1>0, NowFacts
<1>2. CASE WriteFile(p)
  <2>1. Now(p).file \in Kind \X Key /\ Now(p).val \in Account \cup {None}
    BY <1>1, <1>2, InstrFacts DEF WriteFile, Doing, Now
  <2>2. bk' \in Files
    BY <1>0, <1>2, <2>1 DEF WriteFile, Files
  <2> QED
    BY <1>0, <1>2, <2>2 DEF WriteFile
<1>3. CASE DeleteFiles(p)
  <2> DEFINE k == Now(p).key
  <2>1. k \in Key
    BY <1>1, <1>3, InstrFacts DEF DeleteFiles, Doing, Now
  <2>2. /\ \/ bk' = bk \/ bk' = [bk EXCEPT ![<<"creds", k>>] = None, ![<<"config", k>>] = None]
           \/ bk' = [bk EXCEPT ![<<"config", k>>] = None] \/ bk' = [bk EXCEPT ![<<"creds", k>>] = None]
        /\ sess' = sess \/ sess' = [sess EXCEPT ![k] = None]
        /\ seq' = seq /\ stage' = stage
    BY <1>3 DEF DeleteFiles
  <2> HIDE DEF k
  <2>3. bk' \in Files
    BY <1>0, <2>2 DEF Files
  <2>4. sess' \in Profiles
    BY <1>0, <2>2 DEF Profiles
  <2> QED
    BY <1>0, <2>2, <2>3, <2>4
<1>4. CASE Commit(p)
  <2>1. Now(p).data \in Filled
    BY <1>1, <1>4, InstrFacts DEF Commit, Doing, Now
  <2> QED
    BY <1>0, <1>4, <2>1 DEF Commit
<1>5. CASE Stage(p)
  <2> DEFINE f == Now(p).file
             v == Now(p).val
             dropped == [g \in DOMAIN stage |-> IF g \in op[p].staged THEN None ELSE stage[g]]
  <2>1. f \in Kind \X Slot /\ v \in Account \cup {None}
    BY <1>1, <1>5, InstrFacts DEF Stage, Doing, Now
  <2>2. dropped \in Stagers
    BY <1>0 DEF Stagers
  <2>3. UNCHANGED <<seq, bk, sess>>
        /\ (stage' = [stage EXCEPT ![f] = v] \/ stage' = dropped \/ stage' = [dropped EXCEPT ![f] = Partial])
    BY <1>5 DEF Stage
  <2> HIDE DEF f, v, dropped
  <2>4. stage' \in Stagers
    BY <1>0, <2>1, <2>2, <2>3 DEF Stagers
  <2> QED
    BY <1>0, <2>3, <2>4
<1>6. CASE RelocateProfile(p)
  <2> DEFINE a == Now(p).from
             b == Now(p).to
  <2>1. a \in Key /\ b \in Key
    BY <1>1, <1>6, InstrFacts DEF RelocateProfile, Doing, Now
  <2>2. sess' = sess \/ sess' = [sess EXCEPT ![b] = sess[a], ![a] = None]
    BY <1>6 DEF RelocateProfile
  <2> HIDE DEF a, b
  <2>3. sess' \in Profiles
    BY <1>0, <2>1, <2>2 DEF Profiles
  <2> QED
    BY <1>0, <1>6, <2>3 DEF RelocateProfile
<1>7. CASE SwapSessionDirs(p)
  <2>1. Now(p).a \in Key /\ Now(p).b \in Key
    BY <1>1, <1>7, InstrFacts DEF SwapSessionDirs, Doing, Now
  <2>2. \A l \in BOOLEAN : Exchanged(Now(p).a, Now(p).b, l) \in Profiles
    BY <1>0, <2>1, ExchangedOK
  <2>3. sess' \in Profiles
    BY <1>0, <1>7, <2>2 DEF SwapSessionDirs
  <2> QED
    BY <1>0, <1>7, <2>3 DEF SwapSessionDirs
<1>8. CASE DiscardStaging(p)
  <2> DEFINE dropped == [g \in DOMAIN stage |-> IF g \in op[p].staged THEN None ELSE stage[g]]
  <2>1. dropped \in Stagers
    BY <1>0 DEF Stagers
  <2>2. stage' = stage \/ stage' = dropped
    BY <1>8 DEF DiscardStaging
  <2> HIDE DEF dropped
  <2> QED
    BY <1>0, <1>8, <2>1, <2>2 DEF DiscardStaging
<1>9. CASE WriteFails(p)
  BY <1>0, <1>9 DEF WriteFails
<1> QED
  BY <1>2, <1>3, <1>4, <1>5, <1>6, <1>7, <1>8, <1>9 DEF Working

-----------------------------------------------------------------------------
(* The other steps of a command.                                             *)

LEMMA AccountIdOK == ASSUME NEW a \in Account PROVE AccountId(a) \in Idents
BY DEF AccountId, Idents, Email

\* Nothing has failed yet, and nothing is staged.
Fresh(o) == ~o.failed /\ o.failures = 0 /\ o.staged = {}

\* A call is given its arguments; an add has the identity of the live login.
Given(o, next) ==
  /\ o \in Locals /\ Fresh(o) /\ Called(o) /\ next \in {"ask", "enter"}
  /\ next = "ask" => o.slot \in Slot /\ o.kind \in {"add", "token"}
  /\ o.kind = "add" => "add" \in Ops /\ login # None /\ o.id = AccountId(login)

LEMMA CallOK ==
  ASSUME Typed, NEW p \in Process, Call(p)
  PROVE  \E o, next : Given(o, next) /\ Begin(p, o, next)
<1>0. <<>> \in Todos /\ <<>> \in Undos /\ {} \in Stagings /\ 0 \in Nat
  BY EmptySeq DEF Todos, Undos, Stagings
<1>1. ASSUME NEW slot \in Slot \cup {None}, NEW yes \in BOOLEAN, NEW alias \in Alias \cup {None},
             CallAdd(p, slot, yes, alias)
      PROVE  \E o, next : Given(o, next) /\ Begin(p, o, next)
  <2> DEFINE id == AccountId(login)
             o == [NoOp EXCEPT !.kind = "add", !.id = id, !.slot = slot, !.yes = yes, !.alias = alias]
             next == IF slot # None /\ ~ yes THEN "ask" ELSE "enter"
  <2>1. login # None /\ Begin(p, o, next)
    BY <1>1 DEF CallAdd
  <2>2. id \in Idents
    BY <2>1, AccountIdOK DEF Typed
  <2>3. "add" \in Ops
    BY <2>1 DEF Begin, NoOp
  <2> HIDE DEF id
  <2>4. o \in Locals /\ Fresh(o) /\ o.kind = "add" /\ o.id = id /\ o.slot = slot
    BY <1>0, <2>2 DEF NoOp, Locals, Fresh
  <2> HIDE DEF o
  <2>5. Given(o, next)
    BY <2>1, <2>2, <2>3, <2>4 DEF Given, Called, id
  <2> QED
    BY <2>1, <2>5
<1>2. ASSUME NEW who \in TokenAccount, NEW slot \in Slot \cup {None}, NEW yes \in BOOLEAN,
             CallAddToken(p, who, slot, yes)
      PROVE  \E o, next : Given(o, next) /\ Begin(p, o, next)
  <2> DEFINE id == AccountId(who)
             o == [NoOp EXCEPT !.kind = "token", !.id = id, !.who = who, !.slot = slot, !.yes = yes]
             next == IF slot # None /\ ~ yes THEN "ask" ELSE "enter"
  <2>1. Begin(p, o, next)
    BY <1>2 DEF CallAddToken
  <2>2. id \in Idents /\ who \in Account
    BY AccountIdOK, RosterAssumption
  <2> HIDE DEF id
  <2>4. o \in Locals /\ Fresh(o) /\ o.kind = "token" /\ o.id = id /\ o.slot = slot /\ o.who = who
    BY <1>0, <2>2 DEF NoOp, Locals, Fresh
  <2> HIDE DEF o
  <2>5. Given(o, next)
    BY <2>1, <2>2, <2>4 DEF Given, Called, id
  <2> QED
    BY <2>1, <2>5
<1>3. ASSUME NEW n \in Slot, CallRemove(p, n)
      PROVE  \E o, next : Given(o, next) /\ Begin(p, o, next)
  <2> DEFINE id == IdOf(seq.acct[n])
             o == [NoOp EXCEPT !.kind = "remove", !.id = id, !.slot = n]
  <2>1. seq.acct[n] # None /\ Begin(p, o, "enter")
    BY <1>3 DEF CallRemove
  <2>2. id \in Idents
    BY <2>1, DataFacts, RecordFacts DEF Typed
  <2> HIDE DEF id
  <2>4. o \in Locals /\ Fresh(o) /\ o.kind = "remove" /\ o.id = id /\ o.slot = n
    BY <1>0, <2>2 DEF NoOp, Locals, Fresh
  <2> HIDE DEF o
  <2>5. Given(o, "enter")
    BY <2>1, <2>2, <2>4 DEF Given, Called
  <2> QED
    BY <2>1, <2>5
<1>4. ASSUME NEW n \in Slot, NEW to \in Slot, CallMove(p, n, to)
      PROVE  \E o, next : Given(o, next) /\ Begin(p, o, next)
  <2> DEFINE o == [NoOp EXCEPT !.kind = "move", !.slot = n, !.to = to]
  <2>1. Begin(p, o, "enter")
    BY <1>4 DEF CallMove
  <2>4. o \in Locals /\ Fresh(o) /\ o.kind = "move" /\ o.slot = n /\ o.to = to
    BY <1>0 DEF NoOp, Locals, Fresh
  <2> HIDE DEF o
  <2>5. Given(o, "enter")
    BY <2>1, <2>4 DEF Given, Called
  <2> QED
    BY <2>1, <2>5
<1>5. ASSUME NEW n \in Slot, NEW alias \in Alias \cup {None}, CallAlias(p, n, alias)
      PROVE  \E o, next : Given(o, next) /\ Begin(p, o, next)
  <2> DEFINE o == [NoOp EXCEPT !.kind = "alias", !.slot = n, !.alias = alias]
  <2>1. Begin(p, o, "enter")
    BY <1>5 DEF CallAlias
  <2>4. o \in Locals /\ Fresh(o) /\ o.kind = "alias" /\ o.slot = n
    BY <1>0 DEF NoOp, Locals, Fresh
  <2> HIDE DEF o
  <2>5. Given(o, "enter")
    BY <2>1, <2>4 DEF Given, Called
  <2> QED
    BY <2>1, <2>5
<1>6. ASSUME NEW n \in Slot, NEW off \in BOOLEAN, CallDisable(p, n, off)
      PROVE  \E o, next : Given(o, next) /\ Begin(p, o, next)
  <2> DEFINE o == [NoOp EXCEPT !.kind = "disable", !.slot = n, !.yes = off]
  <2>1. Begin(p, o, "enter")
    BY <1>6 DEF CallDisable
  <2>4. o \in Locals /\ Fresh(o) /\ o.kind = "disable" /\ o.slot = n
    BY <1>0 DEF NoOp, Locals, Fresh
  <2> HIDE DEF o
  <2>5. Given(o, "enter")
    BY <2>1, <2>4 DEF Given, Called
  <2> QED
    BY <2>1, <2>5
<1> QED
  BY <1>1, <1>2, <1>3, <1>4, <1>5, <1>6 DEF Call

\* Entering: what is decided under the lock, from the roster read there.
Enters(p) ==
  /\ pc[p] = "enter" /\ lock = None /\ lock' = p /\ pc' = [pc EXCEPT ![p] = "run"]
  /\ seq' = Backfilled(seq) /\ seq' \in Filled
  /\ NextAccountNumber(seq') \in Slot \/ op[p].slot # None
  /\ op' = [op EXCEPT ![p] = op'[p]] /\ op'[p] \in Locals /\ Same(op[p], op'[p])
  /\ op'[p].confirmed = op[p].confirmed /\ op'[p].data = seq'
  /\ op'[p].todo = PlanOf(op[p], seq').todo /\ op'[p].undo = PlanOf(op[p], seq').undo
  /\ op'[p].undo \in Undos /\ op'[p].bk0 = bk /\ (Fresh(op[p]) => Fresh(op'[p]))
  /\ UNCHANGED <<bk, stage, sess, live, login, snap, count, faults>>

LEMMA EnterOK ==
  ASSUME Typed, Begun, NEW p \in Process, WithRosterLocked(p)
  PROVE  Enters(p)
<1> DEFINE o == op[p]
           d == Backfilled(seq)
           plan == PlanOf(o, d)
           t == plan.todo
           w == plan.undo
           r == plan.refused
           u == [o EXCEPT !.data = d, !.todo = t, !.undo = w, !.refused = r, !.bk0 = bk, !.sess0 = sess]
<1>0. op \in [Process -> Locals] /\ o \in Locals /\ Called(o) /\ bk \in Files /\ sess \in Profiles
      /\ seq \in Data /\ BackupsTyped /\ login \in Account \cup {None}
  BY DEF Typed, Begun, WithRosterLocked, BackupsTyped, Files
<1>1. op' = [op EXCEPT ![p] = u]
  BY <1>0 DEF WithRosterLocked
<1>2. /\ pc[p] = "enter" /\ lock = None /\ lock' = p /\ pc' = [pc EXCEPT ![p] = "run"]
      /\ seq' = d /\ (NextAccountNumber(seq) \in Slot \/ o.slot # None)
      /\ UNCHANGED <<bk, stage, sess, live, login, snap, count, faults>>
  BY DEF WithRosterLocked
<1>3. d \in Filled /\ d \in Data /\ NextAccountNumber(d) = NextAccountNumber(seq)
  BY <1>0, BackfilledOK, NextSlotOK DEF Filled
<1> HIDE DEF o, d
<1>4. Planned(plan, Filled)
  BY <1>0, <1>2, <1>3, PlanOfOK, FilledAdmits
<1>5. t \in Todos /\ w \in Undos /\ r \in BOOLEAN
  BY <1>4 DEF Planned, Todos, Undos
<1> HIDE DEF plan, t, w, r
<1>6. u \in Locals
  BY <1>0, <1>3, <1>5 DEF Locals
<1>7. Same(o, u) /\ u.todo = t /\ u.undo = w /\ u.data = d /\ u.confirmed = o.confirmed
      /\ u.bk0 = bk /\ (Fresh(o) => Fresh(u))
  BY <1>0 DEF Locals, Same, Fresh
<1> HIDE DEF u
<1>8. op'[p] = u
  BY <1>0, <1>1
<1> USE DEF o, d, plan, t, w
<1> QED
  BY <1>1, <1>2, <1>3, <1>5, <1>6, <1>7, <1>8 DEF Enters

\* Asking: the roster is filled in, and its occupant shown.
Asks(p) ==
  /\ pc[p] = "ask" /\ lock = None /\ lock' = None /\ pc' = [pc EXCEPT ![p] = "enter"]
  /\ seq' = Backfilled(seq) /\ seq' \in Filled
  /\ op' = [op EXCEPT ![p] = op'[p]] /\ op'[p] \in Locals /\ Same(op[p], op'[p])
  /\ (Fresh(op[p]) => Fresh(op'[p]))
  /\ UNCHANGED <<bk, stage, sess, live, login, snap, count, faults>>

\* Ending, or giving up.
Ends(p) ==
  /\ pc' = [pc EXCEPT ![p] = "idle"] /\ op' = [op EXCEPT ![p] = NoOp]
  /\ lock' = IF lock = p THEN None ELSE lock
  /\ seq' = seq \/ (lock = None /\ seq' = Backfilled(seq) /\ seq' \in Filled)
  /\ UNCHANGED <<bk, stage, sess, live, login, snap, count>>

LEMMA AskOK ==
  ASSUME Typed, Begun, NEW p \in Process, ConfirmDisplacement(p)
  PROVE  Asks(p) \/ Ends(p)
<1> DEFINE o == op[p]
           d == Backfilled(seq)
           c == SlotOccupant(d, op[p].slot, op[p].id)
           u == [o EXCEPT !.confirmed = c]
<1>0. op \in [Process -> Locals] /\ o \in Locals /\ o.slot \in Slot /\ seq \in Data /\ BackupsTyped
      /\ login \in Account \cup {None}
  BY DEF Typed, Begun, ConfirmDisplacement, BackupsTyped, Files
<1>1. d \in Filled /\ d \in Data
  BY <1>0, BackfilledOK DEF Filled
<1>2. /\ pc[p] = "ask" /\ lock = None /\ lock' = None /\ seq' = d
      /\ UNCHANGED <<bk, stage, sess, live, login, snap, count, faults>>
      /\ \/ op' = [op EXCEPT ![p] = u] /\ pc' = [pc EXCEPT ![p] = "enter"]
         \/ op' = [op EXCEPT ![p] = NoOp] /\ pc' = [pc EXCEPT ![p] = "idle"]
  BY <1>0 DEF ConfirmDisplacement
<1>3. c \in Idents \cup {None}
  BY <1>0, <1>1, DataFacts, RecordFacts DEF SlotOccupant
<1> HIDE DEF o, d, c
<1>4. u \in Locals
  BY <1>0, <1>3 DEF Locals
<1>5. Same(o, u) /\ (Fresh(o) => Fresh(u))
  BY <1>0 DEF Locals, Same, Fresh
<1> HIDE DEF u
<1> USE DEF o, d
<1>6. CASE op' = [op EXCEPT ![p] = u] /\ pc' = [pc EXCEPT ![p] = "enter"]
  BY <1>0, <1>1, <1>2, <1>4, <1>5, <1>6 DEF Asks
<1>7. CASE op' = [op EXCEPT ![p] = NoOp] /\ pc' = [pc EXCEPT ![p] = "idle"]
  BY <1>1, <1>2, <1>7 DEF Ends
<1> QED
  BY <1>2, <1>6, <1>7

LEMMA EndOK ==
  ASSUME Locked, NEW p \in Process,
         RosterUnreadable(p) \/ LockTimeout(p) \/ Return(p) \/ Crash(p)
  PROVE  Ends(p)
<1>1. CASE RosterUnreadable(p) \/ LockTimeout(p)
  <2>1. pc[p] # "run"
    BY <1>1 DEF RosterUnreadable, LockTimeout
  <2>2. lock # p
    BY <2>1 DEF Locked
  <2> QED
    BY <1>1, <2>2 DEF RosterUnreadable, LockTimeout, Ends
<1>2. CASE Return(p) \/ Crash(p)
  BY <1>2 DEF Return, Crash, Unlock, Ends
<1> QED
  BY <1>1, <1>2

-----------------------------------------------------------------------------
(* Every step keeps the invariant.                                           *)

\* Nothing a command holds changes.
Outside ==
  \/ \E r \in Reader : BackfillRead(r) \/ BackfillWrite(r)
  \/ \E a \in Account \ TokenAccount : Login(a)
  \/ \E k \in Key : Launch(k)
  \/ \E a \in Account : Exit(a)

LEMMA NextCases ==
  ASSUME RInv, Next
  PROVE  \/ \E p \in Process : Working(p)
         \/ \E p \in Process : Enters(p)
         \/ \E p \in Process : Asks(p)
         \/ \E p \in Process : Ends(p)
         \/ \E p \in Process : \E o, next : Given(o, next) /\ Begin(p, o, next)
         \/ Outside
<1>1. ASSUME NEW p \in Process, Step(p) PROVE Working(p) \/ Enters(p) \/ Asks(p) \/ Ends(p)
  BY <1>1, EnterOK, AskOK, EndOK DEF RInv, Step, Working
<1>2. ASSUME NEW p \in Process, Call(p) PROVE \E o, next : Given(o, next) /\ Begin(p, o, next)
  BY <1>2, CallOK DEF RInv
<1> QED
  BY <1>1, <1>2 DEF Next, Outside

\* A command's own step.
LEMMA WorkingKeeps ==
  ASSUME RInv, NEW p \in Process, Working(p)
  PROVE  RInv'
<1>0. Typed /\ Begun /\ Locked /\ Worked(p) /\ pc[p] = "run" /\ op[p].todo # <<>>
  BY WorkedOK DEF RInv
<1>1. bk' \in Files /\ sess' \in Profiles /\ stage' \in Stagers /\ seq' \in Data
  BY <1>0, WrittenOK DEF Typed, Filled
<1>2. op' \in [Process -> Locals]
  BY <1>0 DEF Typed, Worked
<1>3. Typed'
  BY <1>0, <1>1, <1>2 DEF Typed, Worked, Stagers
<1>4. op'[p].data \in Filled
  <2>1. Doing(p, "commit") => Now(p).data \in Filled
    BY <1>0, NowFacts, InstrFacts DEF Doing, Now
  <2> QED
    BY <1>0, <2>1 DEF Worked, Begun
<1>5. Begun'
  <2> SUFFICES ASSUME NEW q \in Process
               PROVE  /\ pc'[q] # "idle" => Called(op'[q])
                      /\ pc'[q] = "ask" => op'[q].slot \in Slot /\ op'[q].kind \in {"add", "token"}
                      /\ pc'[q] = "run" => op'[q].data \in Filled
    BY DEF Begun
  <2>1. pc' = pc
    BY <1>0 DEF Worked
  <2>2. CASE q = p
    BY <1>0, <1>4, <2>1, <2>2 DEF Worked, Same, Called, Begun
  <2>3. CASE q # p
    <3>1. op'[q] = op[q]
      BY <1>0, <2>3 DEF Worked, Typed
    <3> QED
      BY <1>0, <2>1, <3>1 DEF Begun
  <2> QED
    BY <2>2, <2>3
<1>6. Locked'
  BY <1>0 DEF Worked, Locked
<1> QED
  BY <1>3, <1>5, <1>6 DEF RInv

LEMMA EntersKeeps ==
  ASSUME RInv, NEW p \in Process, Enters(p)
  PROVE  RInv'
<1>0. Typed /\ Begun /\ Locked /\ None \notin Process
  BY RosterAssumption DEF RInv
<1>1. op' \in [Process -> Locals] /\ pc' \in [Process -> {"idle", "ask", "enter", "run"}] /\ seq' \in Data
  BY <1>0 DEF Typed, Enters, Filled
<1>2. Typed'
  BY <1>0, <1>1 DEF Typed, Enters
<1>3. Begun'
  <2> SUFFICES ASSUME NEW q \in Process
               PROVE  /\ pc'[q] # "idle" => Called(op'[q])
                      /\ pc'[q] = "ask" => op'[q].slot \in Slot /\ op'[q].kind \in {"add", "token"}
                      /\ pc'[q] = "run" => op'[q].data \in Filled
    BY DEF Begun
  <2>1. CASE q = p
    <3>1. pc[p] = "enter" /\ pc'[p] = "run" /\ op'[p].data \in Filled /\ Same(op[p], op'[p])
      BY <1>0 DEF Enters, Typed
    <3>2. Called(op[p])
      BY <1>0, <3>1 DEF Begun
    <3> QED
      BY <2>1, <3>1, <3>2 DEF Same, Called
  <2>2. CASE q # p
    <3>1. op'[q] = op[q] /\ pc'[q] = pc[q]
      BY <1>0, <2>2 DEF Enters, Typed
    <3> QED
      BY <1>0, <3>1 DEF Begun
  <2> QED
    BY <2>1, <2>2
<1>4. Locked'
  BY <1>0 DEF Enters, Locked, Typed
<1> QED
  BY <1>2, <1>3, <1>4 DEF RInv

LEMMA AsksKeeps ==
  ASSUME RInv, NEW p \in Process, Asks(p)
  PROVE  RInv'
<1>0. Typed /\ Begun /\ Locked /\ None \notin Process
  BY RosterAssumption DEF RInv
<1>1. op' \in [Process -> Locals] /\ pc' \in [Process -> {"idle", "ask", "enter", "run"}] /\ seq' \in Data
  BY <1>0 DEF Typed, Asks, Filled
<1>2. Typed'
  BY <1>0, <1>1 DEF Typed, Asks
<1>3. Begun'
  <2> SUFFICES ASSUME NEW q \in Process
               PROVE  /\ pc'[q] # "idle" => Called(op'[q])
                      /\ pc'[q] = "ask" => op'[q].slot \in Slot /\ op'[q].kind \in {"add", "token"}
                      /\ pc'[q] = "run" => op'[q].data \in Filled
    BY DEF Begun
  <2>1. CASE q = p
    <3>1. pc[p] = "ask" /\ pc'[p] = "enter" /\ Same(op[p], op'[p])
      BY <1>0 DEF Asks, Typed
    <3>2. Called(op[p])
      BY <1>0, <3>1 DEF Begun
    <3> QED
      BY <2>1, <3>1, <3>2 DEF Same, Called
  <2>2. CASE q # p
    <3>1. op'[q] = op[q] /\ pc'[q] = pc[q]
      BY <1>0, <2>2 DEF Asks, Typed
    <3> QED
      BY <1>0, <3>1 DEF Begun
  <2> QED
    BY <2>1, <2>2
<1>4. Locked'
  BY <1>0 DEF Asks, Locked, Typed
<1> QED
  BY <1>2, <1>3, <1>4 DEF RInv

LEMMA EndsKeeps ==
  ASSUME RInv, NEW p \in Process, Ends(p)
  PROVE  RInv'
<1>0. Typed /\ Begun /\ Locked /\ None \notin Process
  BY RosterAssumption DEF RInv
<1>1. op' \in [Process -> Locals] /\ pc' \in [Process -> {"idle", "ask", "enter", "run"}] /\ seq' \in Data
  BY <1>0, NoOpFacts DEF Typed, Ends, Filled
<1>2. Typed'
  BY <1>0, <1>1 DEF Typed, Ends
<1>3. Begun'
  <2> SUFFICES ASSUME NEW q \in Process
               PROVE  /\ pc'[q] # "idle" => Called(op'[q])
                      /\ pc'[q] = "ask" => op'[q].slot \in Slot /\ op'[q].kind \in {"add", "token"}
                      /\ pc'[q] = "run" => op'[q].data \in Filled
    BY DEF Begun
  <2>1. CASE q = p
    BY <1>0, <2>1 DEF Ends, Typed
  <2>2. CASE q # p
    <3>1. op'[q] = op[q] /\ pc'[q] = pc[q]
      BY <1>0, <2>2 DEF Ends, Typed
    <3> QED
      BY <1>0, <3>1 DEF Begun
  <2> QED
    BY <2>1, <2>2
<1>4. Locked'
  <2> SUFFICES ASSUME NEW q \in Process PROVE pc'[q] = "run" <=> lock' = q
    BY DEF Locked
  <2>1. pc'[p] = "idle" /\ lock' # p
    BY <1>0 DEF Ends, Typed
  <2>2. q # p => pc'[q] = pc[q]
    BY <1>0 DEF Ends, Typed
  <2>3. q # p => (lock' = q <=> lock = q)
    BY <1>0 DEF Ends
  <2> QED
    BY <1>0, <2>1, <2>2, <2>3 DEF Locked
<1> QED
  BY <1>2, <1>3, <1>4 DEF RInv

LEMMA BeginKeeps ==
  ASSUME RInv, NEW p \in Process, NEW o, NEW next, Given(o, next), Begin(p, o, next)
  PROVE  RInv'
<1>0. Typed /\ Begun /\ Locked /\ None \notin Process
  BY RosterAssumption DEF RInv
<1>1. op' \in [Process -> Locals] /\ pc' \in [Process -> {"idle", "ask", "enter", "run"}]
  BY <1>0 DEF Typed, Begin, Given
<1>2. Typed'
  BY <1>0, <1>1 DEF Typed, Begin
<1>3. Begun'
  <2> SUFFICES ASSUME NEW q \in Process
               PROVE  /\ pc'[q] # "idle" => Called(op'[q])
                      /\ pc'[q] = "ask" => op'[q].slot \in Slot /\ op'[q].kind \in {"add", "token"}
                      /\ pc'[q] = "run" => op'[q].data \in Filled
    BY DEF Begun
  <2>1. CASE q = p
    <3>1. op'[p] = o /\ pc'[p] = next
      BY <1>0 DEF Begin, Typed
    <3> QED
      BY <2>1, <3>1 DEF Given
  <2>2. CASE q # p
    <3>1. op'[q] = op[q] /\ pc'[q] = pc[q]
      BY <1>0, <2>2 DEF Begin, Typed
    <3> QED
      BY <1>0, <3>1 DEF Begun
  <2> QED
    BY <2>1, <2>2
<1>4. Locked'
  BY <1>0 DEF Begin, Locked, Typed, Given
<1> QED
  BY <1>2, <1>3, <1>4 DEF RInv

LEMMA OutsideKeeps ==
  ASSUME RInv, Outside
  PROVE  RInv' /\ UNCHANGED <<op, pc, lock, bk, sess>> /\ (seq' = seq \/ seq' \in Filled)
         /\ (Reader = {} => seq' = seq) /\ (~(logins < MaxLogins) => UNCHANGED <<login, logins>>)
<1>0. Typed /\ Begun /\ Locked /\ BackupsTyped /\ login \in Account \cup {None}
  BY DEF RInv, Typed, BackupsTyped, Files
<1>1. UNCHANGED <<op, pc, lock, bk, sess, stage>>
  BY DEF Outside, BackfillRead, BackfillWrite, Login, Launch, Exit
<1>2. ASSUME NEW r \in Reader, BackfillRead(r) PROVE Typed' /\ seq' = seq /\ UNCHANGED <<login, logins>>
  BY <1>0, <1>1, <1>2 DEF Typed, BackfillRead, count
<1>3. ASSUME NEW r \in Reader, BackfillWrite(r) PROVE Typed' /\ seq' \in Filled /\ UNCHANGED <<login, logins>>
  <2>1. snap[r] \in Data
    BY <1>0, <1>3 DEF Typed, BackfillWrite
  <2>2. seq' \in Filled /\ seq' \in Data
    BY <1>0, <1>3, <2>1, BackfilledOK DEF BackfillWrite, Filled
  <2> QED
    BY <1>0, <1>1, <1>3, <2>2 DEF Typed, BackfillWrite, count
<1>4. ASSUME NEW a \in Account \ TokenAccount, Login(a)
      PROVE  Typed' /\ seq' = seq /\ (~(logins < MaxLogins) => UNCHANGED <<login, logins>>)
  <2>1. logins < MaxLogins
    BY <1>4 DEF Login
  <2>2. Typed' /\ seq' = seq
    BY <1>0, <1>1, <1>4 DEF Typed, Login
  <2> QED
    BY <2>1, <2>2
<1>5. ASSUME NEW k \in Key, Launch(k) PROVE Typed' /\ seq' = seq /\ UNCHANGED <<login, logins>>
  <2>1. sess[k] \in Account
    BY <1>0, <1>5 DEF Typed, Launch, Profiles
  <2> QED
    BY <1>0, <1>1, <1>5, <2>1 DEF Typed, Launch
<1>6. ASSUME NEW a \in Account, Exit(a) PROVE Typed' /\ seq' = seq /\ UNCHANGED <<login, logins>>
  BY <1>0, <1>1, <1>6 DEF Typed, Exit, count
<1>7. Begun' /\ Locked'
  BY <1>0, <1>1 DEF Begun, Locked
<1> QED
  BY <1>1, <1>2, <1>3, <1>4, <1>5, <1>6, <1>7 DEF Outside, RInv

LEMMA StutterKeeps == ASSUME RInv, UNCHANGED vars PROVE RInv'
BY DEF RInv, Typed, Begun, Locked, vars

LEMMA InitHolds == ASSUME Init PROVE RInv /\ login \in Account \cup {None}
<1> PICK r \in Initial, org \in {TRUE, FALSE}, empty \in SUBSET {2} :
       /\ org \/ (Reader # {} /\ \A m, n \in Slot : m # n /\ r[m] # None /\ r[n] # None =>
                                   EmailOf[r[m]] # EmailOf[r[n]])
       /\ seq = [acct |-> [n \in Slot |->
                   IF r[n] = None THEN None
                   ELSE NewRecord(EmailOf[r[n]], IF org THEN OrgOf[r[n]] ELSE Unset, None)],
                 active |-> 1]
       /\ bk = [f \in Kind \X Key |->
                  IF f[2][1] \notin empty /\ r[f[2][1]] # None /\ EmailOf[r[f[2][1]]] = f[2][2]
                  THEN r[f[2][1]] ELSE None]
       /\ sess = [k \in Key |-> IF r[k[1]] # None /\ EmailOf[r[k[1]]] = k[2] THEN r[k[1]] ELSE None]
       /\ login \in {r[1]} \cup {a \in Account \ TokenAccount : \A n \in Slot : r[n] # a}
  BY DEF Init
<1>1. r \in [Slot -> Account \cup {None}] /\ 1 \in Slot /\ None \notin Process
  BY RosterAssumption
<1> DEFINE row(n) == IF r[n] = None THEN None
                     ELSE NewRecord(EmailOf[r[n]], IF org THEN OrgOf[r[n]] ELSE Unset, None)
<1>2. \A n \in Slot : row(n) \in Record \cup {None}
  BY <1>1 DEF NewRecord, Record, Email
<1>3. seq = [acct |-> [n \in Slot |-> row(n)], active |-> 1]
  OBVIOUS
<1> HIDE DEF row
<1>4. seq \in Data
  BY <1>1, <1>2, <1>3 DEF Data
<1>5. bk \in Files
  BY <1>1 DEF Files, Key
<1>6. sess \in Profiles
  BY <1>1 DEF Profiles, Key
<1>7. login \in Account \cup {None}
  BY <1>1
<1>8. op \in [Process -> Locals]
  BY NoOpFacts DEF Init
<1>9. Typed
  BY <1>4, <1>5, <1>6, <1>7, <1>8 DEF Typed, Init
<1>10. Begun /\ Locked
  BY <1>1 DEF Begun, Locked, Init
<1> QED
  BY <1>7, <1>9, <1>10 DEF RInv

LEMMA StepKeeps == ASSUME RInv, [Next]_vars PROVE RInv'
BY NextCases, WorkingKeeps, EntersKeeps, AsksKeeps, EndsKeeps, BeginKeeps, OutsideKeeps, StutterKeeps

LEMMA AlwaysRInv == Spec => []RInv
BY InitHolds, StepKeeps, PTL DEF Spec

\* Every state of the roster, its backups and the commands is of its type, whatever the
\* commands, readers, logins and failures.
THEOREM TypeCorrect == Spec => []TypeOK
<1>1. RInv => TypeOK
  <2> SUFFICES ASSUME RInv PROVE TypeOK
    OBVIOUS
  <2>1. \A p \in Process : op[p].data \in Data \cup {None} /\ op[p].id \in Idents \cup {None}
    BY DEF RInv, Typed, Locals
  <2> QED
    BY <2>1 DEF RInv, Typed, TypeOK, Files, Profiles
<1> QED
  BY <1>1, AlwaysRInv, PTL

\* A roster that has its organizations keeps them: whatever a command, or a reader's late
\* write, puts in the file was filled in first (store/migrateOrgFields).
LEMMA FilledStays == ASSUME RInv, [Next]_vars PROVE seq' = seq \/ seq' \in Filled
<1>1. ASSUME NEW p \in Process, Working(p) PROVE seq' = seq \/ seq' \in Filled
  BY <1>1, WrittenOK DEF RInv
<1>2. ASSUME NEW p \in Process, Enters(p) \/ Asks(p) \/ Ends(p) PROVE seq' = seq \/ seq' \in Filled
  BY <1>2 DEF Enters, Asks, Ends
<1>3. ASSUME NEW p \in Process, NEW o, NEW next, Begin(p, o, next) PROVE seq' = seq
  BY <1>3 DEF Begin
<1>4. UNCHANGED vars => seq' = seq
  BY DEF vars
<1> QED
  BY <1>1, <1>2, <1>3, <1>4, NextCases, OutsideKeeps

\* The lazy org backfill is never undone, with any number of readers that write back what
\* they read without the lock.
THEOREM BackfillStays == Spec => BackfillNotReverted
<1>1. ASSUME RInv, [Next]_vars PROVE ~NeedsBackfill(seq) => ~NeedsBackfill(seq')
  BY <1>1, FilledStays DEF NeedsBackfill, Used, Filled
<1> QED
  BY <1>1, AlwaysRInv, PTL DEF Spec, BackfillNotReverted

\* A session directory changes only by an instruction of the one command under the lock, and
\* DeleteAccountFiles leaves a live one alone.
THEOREM LiveProfilesStay == Spec => LiveProfileNotDeleted
<1> DEFINE P == \A p \in Process, k \in Key : Doing(p, "delete") /\ LiveSession(k) => sess'[k] = sess[k]
<1>1. ASSUME RInv, [Next]_vars, NEW p \in Process, NEW k \in Key, Doing(p, "delete"), LiveSession(k)
      PROVE  sess'[k] = sess[k]
  <2>0. Typed /\ Locked /\ pc[p] = "run" /\ sess \in Profiles
    BY <1>1 DEF RInv, Typed, Doing
  <2>1. ASSUME NEW q \in Process, Working(q) PROVE sess'[k] = sess[k]
    <3>1. pc[q] = "run"
      BY <2>0, <2>1, WorkedOK
    <3>2. q = p
      BY <2>0, <3>1 DEF Locked
    <3>3. ~Doing(p, "move") /\ ~Doing(p, "exchange")
      BY <1>1 DEF Doing
    <3>4. CASE DeleteFiles(p)
      <4>1. sess' = sess \/ (~LiveSession(Now(p).key) /\ sess' = [sess EXCEPT ![Now(p).key] = None])
        BY <3>4 DEF DeleteFiles
      <4> QED
        BY <1>1, <2>0, <4>1 DEF Profiles
    <3>5. CASE ~DeleteFiles(p)
      BY <2>1, <3>2, <3>3, <3>5 DEF Working, WriteFile, Commit, Stage, RelocateProfile, SwapSessionDirs,
                                    DiscardStaging, WriteFails
    <3> QED
      BY <3>4, <3>5
  <2>2. ASSUME NEW q \in Process, Enters(q) \/ Asks(q) \/ Ends(q) PROVE sess' = sess
    BY <2>2 DEF Enters, Asks, Ends
  <2>3. ASSUME NEW q \in Process, NEW o, NEW next, Begin(q, o, next) PROVE sess' = sess
    BY <2>3 DEF Begin
  <2>4. UNCHANGED vars => sess' = sess
    BY DEF vars
  <2>5. Outside => sess' = sess
    BY <1>1, OutsideKeeps
  <2> QED
    BY <1>1, <2>1, <2>2, <2>3, <2>4, <2>5, NextCases
<1>2. ASSUME RInv, [Next]_vars PROVE P
  BY <1>1, <1>2
<1> QED
  BY <1>2, AlwaysRInv, PTL DEF Spec, LiveProfileNotDeleted

-----------------------------------------------------------------------------
(* Without readers that write back what they read, nobody changes the roster *)
(* between the read and the commits of the command under the lock; and what  *)
(* is deleted for good is an account it may delete, in the roster of then.   *)

MayDelete(o, d, n) == d.acct[n] # None /\ (IdOf(d.acct[n]) \in {o.id, o.confirmed} \/ o.yes)

\* Whatever s deletes for good may be deleted in d and in every roster s commits before.
Fine(o, d, s) ==
  \A i \in 1 .. Len(s) : s[i].do = "delete" /\ s[i].must =>
    /\ MayDelete(o, d, s[i].key[1])
    /\ \A j \in 1 .. Len(s) : j < i /\ s[j].do = "commit" => MayDelete(o, s[j].data, s[i].key[1])

LEMMA FineMild ==
  ASSUME NEW o, NEW d, NEW G, NEW s \in Seq(Mild(G))
  PROVE  Fine(o, d, s)
<1>1. \A i \in 1 .. Len(s) : s[i] \in Mild(G)
  OBVIOUS
<1> QED
  BY <1>1 DEF Fine, Mild

LEMMA FineUndo ==
  ASSUME NEW o, NEW d, NEW s \in Undos
  PROVE  Fine(o, d, s)
<1>1. \A i \in 1 .. Len(s) : s[i] \in Undoing
  BY DEF Undos
<1> QED
  BY <1>1 DEF Fine, Undoing

LEMMA FineTail ==
  ASSUME NEW o, NEW d, NEW S, NEW s \in Seq(S), s # <<>>, Fine(o, d, s)
  PROVE  Fine(o, d, Tail(s)) /\ (Head(s).do = "commit" => Fine(o, Head(s).data, Tail(s)))
<1>1. Len(Tail(s)) = Len(s) - 1 /\ Len(s) \in Nat /\ Len(s) > 0 /\ Head(s) = s[1]
      /\ \A i \in 1 .. Len(Tail(s)) : Tail(s)[i] = s[i + 1]
  BY HeadTailProperties
<1>2. ASSUME NEW i \in 1 .. Len(Tail(s)), Tail(s)[i].do = "delete", Tail(s)[i].must
      PROVE  /\ MayDelete(o, d, Tail(s)[i].key[1])
             /\ Head(s).do = "commit" => MayDelete(o, Head(s).data, Tail(s)[i].key[1])
             /\ \A j \in 1 .. Len(Tail(s)) : j < i /\ Tail(s)[j].do = "commit" =>
                  MayDelete(o, Tail(s)[j].data, Tail(s)[i].key[1])
  <2>1. i + 1 \in 1 .. Len(s) /\ 1 \in 1 .. Len(s) /\ 1 < i + 1 /\ Tail(s)[i] = s[i + 1]
    BY <1>1
  <2>2. ASSUME NEW j \in 1 .. Len(Tail(s)), j < i PROVE j + 1 \in 1 .. Len(s) /\ j + 1 < i + 1 /\ Tail(s)[j] = s[j + 1]
    BY <1>1, <2>2
  <2> QED
    BY <1>1, <1>2, <2>1, <2>2 DEF Fine
<1> QED
  BY <1>2 DEF Fine

LEMMA FineJoin ==
  ASSUME NEW o, NEW d, NEW S, NEW s \in Seq(S), NEW t \in Seq(S), Fine(o, d, s), Fine(o, d, t),
         \A j \in 1 .. Len(s) : s[j].do = "commit" => Fine(o, s[j].data, t)
  PROVE  Fine(o, d, s \o t)
<1> DEFINE u == s \o t
<1>1. Len(s) \in Nat /\ Len(t) \in Nat /\ Len(u) = Len(s) + Len(t)
      /\ \A i \in 1 .. Len(u) : u[i] = IF i <= Len(s) THEN s[i] ELSE t[i - Len(s)]
  BY ConcatProperties
<1> HIDE DEF u
<1>2. ASSUME NEW i \in 1 .. Len(u), u[i].do = "delete", u[i].must
      PROVE  /\ MayDelete(o, d, u[i].key[1])
             /\ \A j \in 1 .. Len(u) : j < i /\ u[j].do = "commit" => MayDelete(o, u[j].data, u[i].key[1])
  <2>1. CASE i <= Len(s)
    <3>1. i \in 1 .. Len(s) /\ u[i] = s[i]
      BY <1>1, <2>1
    <3>2. ASSUME NEW j \in 1 .. Len(u), j < i PROVE j \in 1 .. Len(s) /\ u[j] = s[j]
      BY <1>1, <2>1, <3>2
    <3> QED
      BY <1>2, <3>1, <3>2 DEF Fine
  <2>2. CASE ~(i <= Len(s))
    <3> DEFINE k == i - Len(s)
    <3>1. k \in 1 .. Len(t) /\ u[i] = t[k]
      BY <1>1, <2>2
    <3> HIDE DEF k
    <3>2. MayDelete(o, d, u[i].key[1])
      BY <1>2, <3>1 DEF Fine
    <3>3. ASSUME NEW j \in 1 .. Len(u), j < i, u[j].do = "commit" PROVE MayDelete(o, u[j].data, u[i].key[1])
      <4>1. CASE j <= Len(s)
        <5>1. j \in 1 .. Len(s) /\ u[j] = s[j]
          BY <1>1, <4>1
        <5>2. Fine(o, s[j].data, t)
          BY <3>3, <5>1
        <5> QED
          BY <1>2, <3>1, <5>1, <5>2 DEF Fine
      <4>2. CASE ~(j <= Len(s))
        <5> DEFINE l == j - Len(s)
        <5>1. l \in 1 .. Len(t) /\ u[j] = t[l] /\ l < k
          BY <1>1, <2>2, <3>3, <4>2 DEF k
        <5> HIDE DEF l
        <5> QED
          BY <1>2, <3>1, <3>3, <5>1 DEF Fine
      <4> QED
        BY <4>1, <4>2
    <3> QED
      BY <3>2, <3>3
  <2> QED
    BY <2>1, <2>2
<1> QED
  BY <1>2 DEF Fine, u

\* The files of one account deleted, and the roster without it written.
LEMMA FinePair ==
  ASSUME NEW o, NEW d, NEW n, NEW e, NEW c, MayDelete(o, d, n)
  PROVE  Fine(o, d, <<DeleteAccountFiles(n, e, TRUE), WriteSequence(c)>>)
<1> DEFINE s == <<DeleteAccountFiles(n, e, TRUE), WriteSequence(c)>>
<1>1. Len(s) = 2 /\ s[1] = DeleteAccountFiles(n, e, TRUE) /\ s[2] = WriteSequence(c)
  OBVIOUS
<1>2. s[1].key[1] = n /\ s[1].do = "delete" /\ s[2].do = "commit"
  BY <1>1 DEF DeleteAccountFiles, WriteSequence
<1> HIDE DEF s
<1>3. \A i \in 1 .. Len(s) : s[i].do = "delete" => i = 1
  BY <1>1, <1>2
<1>4. \A j \in 1 .. Len(s) : ~(j < 1)
  BY <1>1
<1>5. Fine(o, d, s)
  BY <1>2, <1>3, <1>4 DEF Fine
<1> QED
  BY <1>5 DEF s

LEMMA AddFine ==
  ASSUME NEW o, NEW d, NEW n, NEW who, Adds(o, d, n, who)
  PROVE  Fine(o, d, AddToSlot(o, d, n, who).todo)
<1> DEFINE s1 == AddDisplaces(o, d, n)
           s2 == AddLeaves(o, d, n)
           s3 == PutBoth(n, o.id[1], who, who, TRUE)
           s4 == <<WriteSequence(AddFinal(o, d, n, who))>>
           from == AddFrom(o, d, n)
           cleared == AddCleared(o, d, n)
           occupant == SlotOccupant(d, n, o.id)
<1>0. d \in Filled /\ n \in Slot /\ o.id[1] \in Email /\ who \in Account
  BY IdentFacts DEF Adds
<1>1. CASE AddToSlot(o, d, n, who) = Refused
  <2>1. Refused.todo \in Seq(Mild(Filled))
    BY MildRefused
  <2> QED
    BY <1>1, <2>1, FineMild
<1>2. CASE RevalidateDisplacement(o, occupant) /\ ~AliasInUse(d, o.alias, n)
  <2>1. AddToSlot(o, d, n, who).todo = s1 \o s2 \o s3 \o s4
    BY <1>2, AddToSlotIs DEF Plan
  <2>2. s3 \in Seq(Mild(Filled)) /\ s4 \in Seq(Mild(Filled))
    BY <1>0, AddDataOK, PutBothOK, CommitOK, OneSeq
  <2>3. s1 \in Seq(Instr(Filled)) /\ s2 \in Seq(Instr(Filled))
    <3>1. occupant # None => occupant[1] \in Email
      BY AddDataOK, IdentFacts
    <3>2. s1 \in Seq(Instr(Filled))
      BY <1>0, <3>1, AddDataOK, DeleteOK, CommitOK, MildFacts, TwoSeq, EmptySeq DEF AddDisplaces
    <3>3. s2 \in Seq(Instr(Filled))
      BY <1>0, AddDataOK, DeleteOK, CommitOK, MildFacts, TwoSeq, EmptySeq DEF AddLeaves
    <3> QED
      BY <3>2, <3>3
  <2>4. \A x : Fine(o, x, s3) /\ Fine(o, x, s4) /\ Fine(o, x, <<>>)
    BY <2>2, FineMild, EmptySeq
  <2>5. occupant # None => MayDelete(o, d, n)
    BY <1>2, AddDataOK DEF RevalidateDisplacement, MayDelete
  <2>6. Fine(o, d, s1)
    BY <2>4, <2>5, FinePair DEF AddDisplaces
  <2>7. from # None => from \in SlotsOf(d, o.id) /\ from # n /\ from \in Slot
    BY AddDataOK
  <2>8. from # None => cleared.acct[from] = d.acct[from]
    BY <1>0, <2>7, WithRecordOK DEF AddCleared, Without
  <2>9. from # None => MayDelete(o, d, from) /\ MayDelete(o, cleared, from)
    BY <2>7, <2>8 DEF MayDelete, SlotsOf, Holds
  <2>10. Fine(o, d, s2) /\ Fine(o, cleared, s2)
    BY <2>4, <2>9, FinePair DEF AddLeaves
  <2>11. \A j \in 1 .. Len(s1) : s1[j].do = "commit" => s1[j].data = cleared
    BY DEF AddDisplaces, DeleteAccountFiles, WriteSequence
  <2> HIDE DEF s1, s2, s3, s4, cleared
  <2>12. Fine(o, d, s1 \o s2)
    BY <2>3, <2>6, <2>10, <2>11, FineJoin
  <2>13. s1 \o s2 \in Seq(Instr(Filled)) /\ s3 \in Seq(Instr(Filled)) /\ s4 \in Seq(Instr(Filled))
    BY <2>2, <2>3, JoinSeq, MildFacts
  <2>14. Fine(o, d, s1 \o s2 \o s3) /\ s1 \o s2 \o s3 \in Seq(Instr(Filled))
    BY <2>4, <2>12, <2>13, FineJoin, JoinSeq
  <2>15. Fine(o, d, s1 \o s2 \o s3 \o s4)
    BY <2>4, <2>13, <2>14, FineJoin
  <2> QED
    BY <2>1, <2>15
<1> QED
  BY <1>1, <1>2, AddToSlotIs

\* What is planned is fine.
LEMMA PlanFine ==
  ASSUME NEW o \in Locals, Called(o), NEW d \in Filled, BackupsTyped, login \in Account \cup {None},
         NextAccountNumber(d) \in Slot \/ o.slot # None
  PROVE  Fine(o, d, PlanOf(o, d).todo)
<1>0. /\ o.id \in Idents \cup {None} /\ o.who \in Account \cup {None} /\ o.slot \in Slot \cup {None}
      /\ o.to \in Slot \cup {None} /\ o.yes \in BOOLEAN /\ o.alias \in Alias \cup {None}
  BY DEF Locals
<1>1. CASE o.kind \in {"add", "token"}
  <2> DEFINE who == Adding(o)
             old == FindAccountSlot(d, o.id)
             n == IF o.slot = None THEN NextAccountNumber(d) ELSE o.slot
  <2>1. PlanOf(o, d) = AddPlan(o, d)
    BY <1>1 DEF PlanOf
  <2>2. AddPlan(o, d) = IF who = None THEN Refused
                        ELSE IF o.slot = None /\ old # None THEN AddRefreshInPlace(o, d, old, who)
                        ELSE AddToSlot(o, d, n, who)
    BY DEF AddPlan, Adding
  <2>3. who \in Account \cup {None} /\ n \in Slot
    BY <1>0 DEF Adding
  <2>4. old # None => old \in Slot /\ d.acct[old] # None
    BY FoundSlot DEF SlotsOf, Holds
  <2>5. o.id \in Idents
    BY <1>1 DEF Called
  <2> HIDE DEF who, old, n
  <2>6. ASSUME who # None, old # None PROVE Fine(o, d, AddRefreshInPlace(o, d, old, who).todo)
    <3>1. Adds(o, d, old, who)
      BY <1>0, <2>3, <2>4, <2>5, <2>6 DEF Adds
    <3>2. RefreshedFinal(o, d, old) \in Filled
      BY <2>4, <2>6, <3>1, RefreshDataOK
    <3>3. AddRefreshInPlace(o, d, old, who).todo \in Seq(Mild(Filled))
      BY <3>1, <3>2, RefreshOK
    <3> QED
      BY <3>3, FineMild
  <2>7. ASSUME who # None PROVE Fine(o, d, AddToSlot(o, d, n, who).todo)
    <3>1. Adds(o, d, n, who)
      BY <1>0, <2>3, <2>5, <2>7 DEF Adds
    <3> QED
      BY <3>1, AddFine
  <2>8. Fine(o, d, Refused.todo)
    <3>1. Refused.todo \in Seq(Mild(Filled))
      BY MildRefused
    <3> QED
      BY <3>1, FineMild
  <2> QED
    BY <2>1, <2>2, <2>6, <2>7, <2>8
<1>2. CASE o.kind = "remove"
  <2> DEFINE t == <<DeleteAccountFiles(o.slot, o.id[1], TRUE), WriteSequence(Without(d, o.slot))>>
  <2>1. PlanOf(o, d) = RemovePlan(o, d)
    BY <1>2 DEF PlanOf
  <2>2. CASE ~ Holds(d.acct[o.slot], o.id) \/ LiveSession(<<o.slot, o.id[1]>>)
    <3>1. PlanOf(o, d) = Refused
      BY <2>1, <2>2 DEF RemovePlan
    <3>2. Refused.todo \in Seq(Mild(Filled))
      BY MildRefused
    <3> QED
      BY <3>1, <3>2, FineMild
  <2>3. CASE Holds(d.acct[o.slot], o.id) /\ ~LiveSession(<<o.slot, o.id[1]>>)
    <3>0. RemovePlan(o, d) = Plan(t, <<>>)
      BY <2>3 DEF RemovePlan
    <3>4. Plan(t, <<>>).todo = t
      BY DEF Plan
    <3>1. PlanOf(o, d).todo = t
      BY <2>1, <3>0, <3>4
    <3>2. MayDelete(o, d, o.slot)
      BY <2>3 DEF MayDelete, Holds
    <3>3. Fine(o, d, t)
      BY <3>2, FinePair
    <3> QED
      BY <3>1, <3>3
  <2> QED
    BY <2>2, <2>3
<1>3. CASE o.kind \in {"move", "alias", "disable"}
  <2>1. Admits(o, d, Filled)
    BY FilledAdmits
  <2>2. o.slot \in Slot /\ (o.kind = "move" => o.to \in Slot)
    BY <1>3 DEF Called
  <2>3. PlanOf(o, d).todo \in Seq(Mild(Filled))
    <3>1. CASE o.kind = "move"
      BY <2>1, <2>2, <3>1, MildRefused, RelocateOK, SwapOK DEF PlanOf, MovePlan, Admits
    <3>2. CASE o.kind = "alias"
      BY <2>1, <3>2, MildRefused, OnlyCommits, NothingToDo DEF PlanOf, AliasPlan, Admits
    <3>3. CASE o.kind = "disable"
      BY <2>1, <3>3, MildRefused, OnlyCommits, NothingToDo DEF PlanOf, DisablePlan, Admits
    <3> QED
      BY <1>3, <3>1, <3>2, <3>3
  <2> QED
    BY <2>3, FineMild
<1> QED
  BY <1>1, <1>2, <1>3 DEF Called

\* The roster of a command under the lock is the one in the file, and the rest of its
\* instructions is fine there.
Current ==
  /\ seq \in Filled
  /\ \A p \in Process : pc[p] = "run" => op[p].data = seq /\ Fine(op[p], seq, op[p].todo)

LEMMA FineSame ==
  ASSUME NEW o, NEW u, Same(o, u), u.confirmed = o.confirmed, NEW d, NEW s, Fine(o, d, s)
  PROVE  Fine(u, d, s)
BY DEF Same, Fine, MayDelete

LEMMA CurrentInit == ASSUME Reader = {}, Init PROVE Current
<1>1. PICK r \in Initial, org \in {TRUE, FALSE}, empty \in SUBSET {2} :
       /\ org \/ (Reader # {} /\ \A m, n \in Slot : m # n /\ r[m] # None /\ r[n] # None =>
                                   EmailOf[r[m]] # EmailOf[r[n]])
       /\ seq = [acct |-> [n \in Slot |->
                   IF r[n] = None THEN None
                   ELSE NewRecord(EmailOf[r[n]], IF org THEN OrgOf[r[n]] ELSE Unset, None)],
                 active |-> 1]
       /\ bk = [f \in Kind \X Key |->
                  IF f[2][1] \notin empty /\ r[f[2][1]] # None /\ EmailOf[r[f[2][1]]] = f[2][2]
                  THEN r[f[2][1]] ELSE None]
       /\ sess = [k \in Key |-> IF r[k[1]] # None /\ EmailOf[r[k[1]]] = k[2] THEN r[k[1]] ELSE None]
       /\ login \in {r[1]} \cup {a \in Account \ TokenAccount : \A n \in Slot : r[n] # a}
  BY DEF Init
<1>2. org = TRUE
  BY <1>1
<1>3. \A n \in Slot : seq.acct[n] = IF r[n] = None THEN None ELSE NewRecord(EmailOf[r[n]], OrgOf[r[n]], None)
  BY <1>1, <1>2
<1>4. r \in [Slot -> Account \cup {None}] /\ Unset \notin {OrgOf[a] : a \in Account}
  BY RosterAssumption
<1>5. ASSUME NEW n \in Slot, seq.acct[n] # None PROVE seq.acct[n].org # Unset
  <2>1. r[n] \in Account /\ seq.acct[n] = NewRecord(EmailOf[r[n]], OrgOf[r[n]], None)
    BY <1>3, <1>4, <1>5
  <2>2. seq.acct[n].org = OrgOf[r[n]]
    BY <2>1 DEF NewRecord
  <2> QED
    BY <1>4, <2>1, <2>2
<1>6. seq \in Data
  BY InitHolds DEF RInv, Typed
<1>7. \A p \in Process : pc[p] # "run"
  BY DEF Init
<1> QED
  BY <1>5, <1>6, <1>7 DEF Current, Filled

LEMMA CurrentStep == ASSUME Reader = {}, RInv, Current, [Next]_vars PROVE Current'
<1>0. Typed /\ Begun /\ Locked /\ BackupsTyped /\ login \in Account \cup {None} /\ None \notin Process
  BY RosterAssumption DEF RInv, Typed, BackupsTyped, Files
<1>1. ASSUME NEW p \in Process, Working(p) PROVE Current'
  <2>0. Worked(p) /\ pc[p] = "run" /\ op[p].todo # <<>> /\ lock = p
    BY <1>0, <1>1, WorkedOK DEF Locked
  <2>1. seq' \in Filled
    BY <1>0, <1>1, WrittenOK DEF Current
  <2>2. op[p].data = seq /\ Fine(op[p], seq, op[p].todo)
    BY <2>0 DEF Current
  <2>3. op[p].todo \in Todos /\ op[p].undo \in Undos
    BY <1>0, <2>0, NowFacts
  <2>4. Fine(op[p], seq, Tail(op[p].todo)) /\ Fine(op[p], seq, op[p].undo)
        /\ (Now(p).do = "commit" => Fine(op[p], Now(p).data, Tail(op[p].todo)))
    BY <2>0, <2>2, <2>3, FineTail, FineUndo DEF Now, Todos
  <2>5. Fine(op[p], seq', op'[p].todo) /\ op'[p].data = seq'
    BY <2>0, <2>2, <2>4 DEF Worked, Doing, Now
  <2>6. Fine(op'[p], seq', op'[p].todo)
    BY <2>0, <2>5, FineSame DEF Worked
  <2>7. ASSUME NEW q \in Process, pc'[q] = "run" PROVE q = p
    BY <1>0, <2>0, <2>7 DEF Worked, Locked
  <2> QED
    BY <2>1, <2>5, <2>6, <2>7 DEF Current
<1>2. ASSUME NEW p \in Process, Enters(p) PROVE Current'
  <2>1. Called(op[p]) /\ op[p] \in Locals
    BY <1>0, <1>2 DEF Begun, Typed, Enters
  <2>2. Fine(op[p], seq', PlanOf(op[p], seq').todo)
    BY <1>0, <1>2, <2>1, PlanFine DEF Enters
  <2>3. Fine(op[p], seq', op'[p].todo)
    BY <1>2, <2>2 DEF Enters
  <2>4. Fine(op'[p], seq', op'[p].todo) /\ op'[p].data = seq' /\ seq' \in Filled
    BY <1>2, <2>3, FineSame DEF Enters
  <2>5. ASSUME NEW q \in Process, pc'[q] = "run" PROVE q = p
    BY <1>0, <1>2, <2>5 DEF Enters, Locked, Typed
  <2> QED
    BY <2>4, <2>5 DEF Current
<1>3. ASSUME NEW p \in Process, Asks(p) PROVE Current'
  <2>1. seq' \in Filled
    BY <1>3 DEF Asks
  <2>2. \A q \in Process : pc'[q] # "run"
    BY <1>0, <1>3 DEF Asks, Locked, Typed
  <2> QED
    BY <2>1, <2>2 DEF Current
<1>4. ASSUME NEW p \in Process, Ends(p) PROVE Current'
  <2>1. seq' = seq
    BY <1>0, <1>4, BackfilledOK DEF Ends, Current, Typed
  <2>2. \A q \in Process : pc'[q] = "run" => pc[q] = "run" /\ op'[q] = op[q]
    BY <1>0, <1>4 DEF Ends, Typed
  <2> QED
    BY <2>1, <2>2 DEF Current
<1>5. ASSUME NEW p \in Process, NEW o, NEW next, Given(o, next), Begin(p, o, next) PROVE Current'
  <2>1. seq' = seq
    BY <1>5 DEF Begin
  <2>2. \A q \in Process : pc'[q] = "run" => pc[q] = "run" /\ op'[q] = op[q]
    BY <1>0, <1>5 DEF Begin, Given, Typed
  <2> QED
    BY <2>1, <2>2 DEF Current
<1>6. CASE Outside
  BY <1>6, OutsideKeeps DEF Current
<1>7. CASE UNCHANGED vars
  BY <1>7 DEF Current, vars
<1> QED
  BY <1>1, <1>2, <1>3, <1>4, <1>5, <1>6, <1>7, NextCases

LEMMA AlwaysCurrent == ASSUME Reader = {} PROVE Spec => [](RInv /\ Current)
<1>1. Init => RInv /\ Current
  BY InitHolds, CurrentInit
<1>2. RInv /\ Current /\ [Next]_vars => (RInv /\ Current)'
  BY StepKeeps, CurrentStep
<1> QED
  BY <1>1, <1>2, PTL DEF Spec

\* With no reader that writes back an old roster, the roster a command decided from is the one in the
\* file until its last commit: nobody else writes it while the command holds the store lock
\* (withRosterLocked).
THEOREM DecidesFromTheFile == ASSUME Reader = {} PROVE Spec => []RosterIsCurrent
<1>1. RInv /\ Current => RosterIsCurrent
  BY DEF Current, RosterIsCurrent
<1> QED
  BY <1>1, AlwaysCurrent, PTL

\* The account whose files are deleted for good is, at that moment and in the roster in the file, the
\* one the user confirmed, or the one being added or removed, or anybody with --yes.
THEOREM DeletesConfirmed == ASSUME Reader = {} PROVE Spec => DeletesOnlyConfirmed
<1> DEFINE P == \A p \in Process : Doing(p, "delete") /\ Now(p).must /\ bk' # bk =>
                  LET rec == seq.acct[Now(p).key[1]] IN
                  rec # None /\ (IdOf(rec) \in {op[p].id, op[p].confirmed} \/ op[p].yes)
<1>1. ASSUME RInv, Current, NEW p \in Process, Doing(p, "delete"), Now(p).must
      PROVE  MayDelete(op[p], seq, Now(p).key[1])
  <2>1. pc[p] = "run" /\ op[p].todo # <<>> /\ Fine(op[p], seq, op[p].todo) /\ op[p].todo \in Todos
    BY <1>1, NowFacts DEF RInv, Current, Doing
  <2>2. 1 \in 1 .. Len(op[p].todo) /\ op[p].todo[1] = Now(p)
    BY <2>1, HeadTailProperties DEF Now, Todos
  <2> QED
    BY <1>1, <2>1, <2>2 DEF Fine, Doing, Now
<1>2. RInv /\ Current /\ [Next]_vars => P
  BY <1>1 DEF MayDelete
<1> QED
  BY <1>2, AlwaysCurrent, PTL DEF Spec, DeletesOnlyConfirmed

-----------------------------------------------------------------------------
(* Unique names.  Besides, every roster committed names each account and     *)
(* each alias once, if the login an add stores is the one it looked for.     *)

Whole == {d \in Filled : Unique(d)}

\* One slot given another record, which has nobody else's identity or alias.
LEMMA UniqueReplace ==
  ASSUME NEW d \in Whole, NEW e \in Filled, NEW n \in Slot,
         \A m \in Slot \ {n} : e.acct[m] = d.acct[m],
         e.acct[n] # None => \A m \in Slot \ {n} : d.acct[m] # None =>
           /\ IdOf(e.acct[n]) # IdOf(d.acct[m])
           /\ e.acct[n].alias # None => e.acct[n].alias # d.acct[m].alias
  PROVE  e \in Whole
<1>1. Unique(d)
  BY DEF Whole
<1> SUFFICES ASSUME NEW i \in Slot, NEW j \in Slot, e.acct[i] # None, e.acct[j] # None, i # j
             PROVE  /\ IdOf(e.acct[i]) # IdOf(e.acct[j])
                    /\ e.acct[i].alias # None => e.acct[i].alias # e.acct[j].alias
  BY DEF Whole, Unique
<1>2. CASE i = n
  BY <1>2
<1>3. CASE j = n
  BY <1>3
<1>4. CASE i # n /\ j # n
  <2>1. e.acct[i] = d.acct[i] /\ e.acct[j] = d.acct[j]
    BY <1>4
  <2> QED
    BY <1>1, <2>1 DEF Unique
<1> QED
  BY <1>2, <1>3, <1>4

LEMMA UniqueWithout == ASSUME NEW d \in Whole, NEW n \in Slot PROVE Without(d, n) \in Whole
<1>1. d \in Filled
  BY DEF Whole
<1>2. Without(d, n) \in Filled /\ Without(d, n).acct[n] = None
      /\ \A m \in Slot \ {n} : Without(d, n).acct[m] = d.acct[m]
  BY <1>1, WithRecordOK DEF Without
<1> QED
  BY <1>2, UniqueReplace

LEMMA UniqueActive == ASSUME NEW d \in Whole, NEW n \in Slot PROVE [d EXCEPT !.active = n] \in Whole
<1>1. d \in Filled
  BY DEF Whole
<1>2. [d EXCEPT !.active = n] \in Filled /\ [d EXCEPT !.active = n].acct = d.acct
  BY <1>1, ActiveOK
<1> QED
  BY <1>2 DEF Whole, Unique

LEMMA UniqueAlias ==
  ASSUME NEW d \in Whole, NEW n \in Slot, d.acct[n] # None, NEW x \in Alias \cup {None}, ~AliasInUse(d, x, n)
  PROVE  [d EXCEPT !.acct[n].alias = x] \in Whole
<1> DEFINE e == [d EXCEPT !.acct[n].alias = x]
           rec == [d.acct[n] EXCEPT !.alias = x]
<1>0. d \in Filled /\ d \in Data /\ Unique(d)
  BY DEF Whole, Filled
<1>1. e \in Filled /\ e.acct[n] = rec /\ \A m \in Slot \ {n} : e.acct[m] = d.acct[m]
  BY <1>0, AliasSetOK
<1>2. d.acct[n] \in Record
  BY <1>0, DataFacts
<1>3. rec.email = d.acct[n].email /\ rec.org = d.acct[n].org /\ rec.alias = x
  BY <1>2 DEF Record
<1> HIDE DEF e, rec
<1>4. IdOf(rec) = IdOf(d.acct[n])
  BY <1>3 DEF IdOf
<1>5. \A m \in Slot \ {n} : d.acct[m] # None =>
        IdOf(rec) # IdOf(d.acct[m]) /\ (rec.alias # None => rec.alias # d.acct[m].alias)
  BY <1>0, <1>3, <1>4 DEF Unique, AliasInUse
<1>6. e \in Whole
  BY <1>1, <1>5, UniqueReplace
<1> QED
  BY <1>6 DEF e

LEMMA UniqueOff ==
  ASSUME NEW d \in Whole, NEW n \in Slot, d.acct[n] # None, NEW x \in BOOLEAN
  PROVE  [d EXCEPT !.acct[n].off = x] \in Whole
<1> DEFINE e == [d EXCEPT !.acct[n].off = x]
           rec == [d.acct[n] EXCEPT !.off = x]
<1>0. d \in Filled /\ d \in Data /\ Unique(d)
  BY DEF Whole, Filled
<1>1. e \in Filled /\ e.acct[n] = rec /\ \A m \in Slot \ {n} : e.acct[m] = d.acct[m]
  BY <1>0, OffSetOK
<1>2. d.acct[n] \in Record
  BY <1>0, DataFacts
<1>3. rec.email = d.acct[n].email /\ rec.org = d.acct[n].org /\ rec.alias = d.acct[n].alias
  BY <1>2 DEF Record
<1> HIDE DEF e, rec
<1>4. IdOf(rec) = IdOf(d.acct[n])
  BY <1>3 DEF IdOf
<1>5. \A m \in Slot \ {n} : d.acct[m] # None =>
        IdOf(rec) # IdOf(d.acct[m]) /\ (rec.alias # None => rec.alias # d.acct[m].alias)
  BY <1>0, <1>3, <1>4 DEF Unique
<1>6. e \in Whole
  BY <1>1, <1>5, UniqueReplace
<1> QED
  BY <1>6 DEF e

LEMMA UniqueRenumbered ==
  ASSUME NEW d \in Whole, NEW a \in Slot, NEW b \in Slot
  PROVE  Renumbered(d, a, b) \in Whole
<1> DEFINE e == Renumbered(d, a, b)
           at(n) == IF n = b THEN a ELSE IF n = a THEN b ELSE n
<1>0. d \in Filled /\ d \in Data /\ Unique(d) /\ d.acct \in [Slot -> Record \cup {None}]
  BY DataFacts DEF Whole, Filled
<1>1. e \in Filled /\ e.acct = [d.acct EXCEPT ![a] = d.acct[b], ![b] = d.acct[a]]
  BY <1>0, RenumberedOK
<1>2. \A n \in Slot : at(n) \in Slot /\ e.acct[n] = d.acct[at(n)]
  BY <1>0, <1>1
<1>3. \A m, n \in Slot : m # n => at(m) # at(n)
  OBVIOUS
<1> HIDE DEF e, at
<1>4. Unique(e)
  BY <1>0, <1>2, <1>3 DEF Unique
<1> QED
  BY <1>1, <1>4 DEF Whole, e

\* The account is added once: its old slot, if any, was given up or is the one it stays in.
LEMMA UniqueAdd ==
  ASSUME NEW o, NEW d \in Whole, NEW n, NEW who, Adds(o, d, n, who), o.id = AccountId(who),
         IF o.slot = None THEN SlotsOf(d, o.id) = {} ELSE n = o.slot
  PROVE  /\ AddCleared(o, d, n) \in Whole /\ AddMoved(o, d, n) \in Whole
         /\ ~AliasInUse(d, o.alias, n) => AddFinal(o, d, n, who) \in Whole
<1> DEFINE from == AddFrom(o, d, n)
           cleared == AddCleared(o, d, n)
           moved == AddMoved(o, d, n)
           rec == AddRecord(o, d, n, who)
           added == AddAdded(o, d, n, who)
<1>0. d \in Filled /\ Unique(d) /\ n \in Slot /\ who \in Account /\ o.id = <<o.id[1], o.id[2]>>
  BY IdentFacts DEF Whole, Adds
<1>1. cleared \in Whole
  BY <1>0, UniqueWithout DEF AddCleared
<1>2. from # None => from \in SlotsOf(d, o.id) /\ from # n /\ from \in Slot
  BY AddDataOK
<1>3. moved \in Whole
  BY <1>1, <1>2, UniqueWithout DEF AddMoved
<1>4. \A m \in Slot \ {n} : cleared.acct[m] = d.acct[m]
  BY <1>0, WithRecordOK DEF AddCleared, Without
<1>5. cleared \in Filled /\ moved \in Filled
  BY <1>1, <1>3 DEF Whole
<1>6. from # None => moved.acct[from] = None /\ \A m \in Slot \ {from} : moved.acct[m] = cleared.acct[m]
  BY <1>2, <1>5, WithRecordOK DEF AddMoved, Without
<1>7. from = None => moved = cleared
  BY DEF AddMoved
<1>8. \A m \in Slot \ {n} : moved.acct[m] # None => moved.acct[m] = d.acct[m] /\ m # from
  <2>1. None \notin Slot
    BY RosterAssumption
  <2> HIDE DEF from, moved, cleared
  <2> QED
    BY <1>2, <1>4, <1>6, <1>7, <2>1
<1>9. rec \in Record /\ IdOf(rec) = o.id
  <2>1. rec \in Record /\ rec.org = OrgOf[who] /\ rec.email = o.id[1]
    BY AddDataOK DEF AddRecord, NewRecord
  <2>2. OrgOf[who] # Unset
    BY <1>0, RosterAssumption
  <2> QED
    BY <1>0, <2>1, <2>2 DEF IdOf, AccountId
<1>10. ASSUME NEW m \in Slot \ {n}, moved.acct[m] # None PROVE IdOf(moved.acct[m]) # o.id
  <2>1. moved.acct[m] = d.acct[m] /\ m # from
    BY <1>8, <1>10
  <2>2. SUFFICES ASSUME IdOf(d.acct[m]) = o.id PROVE FALSE
    BY <2>1
  <2>3. m \in SlotsOf(d, o.id)
    BY <1>10, <2>1, <2>2 DEF SlotsOf, Holds
  <2>4. o.slot # None /\ n = o.slot
    BY <2>3
  <2>5. FindAccountSlot(d, o.id) \in SlotsOf(d, o.id)
    BY <2>3, FoundSlot
  <2>6. FindAccountSlot(d, o.id) = m
    BY <1>0, <2>3, <2>5 DEF SlotsOf, Holds, Unique
  <2>7. from = m
    BY <2>4, <2>6, RosterAssumption DEF AddFrom
  <2> QED
    BY <2>1, <2>7
<1>11. ASSUME ~AliasInUse(d, o.alias, n), NEW m \in Slot \ {n}, moved.acct[m] # None, rec.alias # None
       PROVE  rec.alias # moved.acct[m].alias
  <2>1. moved.acct[m] = d.acct[m] /\ m # from /\ d.acct[m] # None
    BY <1>8, <1>11
  <2>2. rec.alias = IF o.alias # None THEN o.alias ELSE AddCarried(o, d, n)
    BY DEF AddRecord, NewRecord
  <2>3. CASE o.alias # None
    BY <1>11, <2>1, <2>2, <2>3 DEF AliasInUse
  <2>4. CASE o.alias = None
    <3>1. \/ from # None /\ rec.alias = d.acct[from].alias
          \/ d.acct[n] # None /\ rec.alias = d.acct[n].alias
      BY <1>11, <2>2, <2>4 DEF AddCarried, Holds
    <3>2. from # None => d.acct[from] # None
      BY <1>2 DEF SlotsOf, Holds
    <3> QED
      BY <1>0, <1>2, <1>11, <2>1, <3>1, <3>2 DEF Unique
  <2> QED
    BY <2>3, <2>4
<1>12. added \in Filled /\ added.acct[n] = rec /\ \A m \in Slot \ {n} : added.acct[m] = moved.acct[m]
  <2>1. rec.org # Unset
    BY <1>0, AddDataOK, RosterAssumption
  <2> QED
    BY <1>0, <1>5, <1>9, <2>1, WithRecordOK DEF AddAdded
<1>13. ASSUME ~AliasInUse(d, o.alias, n) PROVE added \in Whole
  <2> HIDE DEF rec, moved, added
  <2>1. \A m \in Slot \ {n} : moved.acct[m] # None =>
          IdOf(rec) # IdOf(moved.acct[m]) /\ (rec.alias # None => rec.alias # moved.acct[m].alias)
    BY <1>9, <1>10, <1>11, <1>13
  <2> QED
    BY <1>0, <1>3, <1>12, <2>1, UniqueReplace
<1>14. ~AliasInUse(d, o.alias, n) => AddFinal(o, d, n, who) \in Whole
  BY <1>0, <1>13, UniqueActive DEF AddFinal
<1> QED
  BY <1>1, <1>3, <1>14

LEMMA UniqueAdmits ==
  ASSUME NEW o \in Locals, Called(o), NEW d \in Whole,
         o.kind \in {"add", "token"} => o.id = AccountId(Adding(o))
  PROVE  Admits(o, d, Whole)
<1>0. o.slot \in Slot \cup {None} /\ o.yes \in BOOLEAN /\ o.alias \in Alias \cup {None}
  BY DEF Locals
<1>1. ASSUME o.kind \in {"add", "token"}, NEW n, Adds(o, d, n, Adding(o))
      PROVE  /\ (IF o.slot = None THEN SlotsOf(d, o.id) = {} ELSE n = o.slot) =>
                  /\ AddCleared(o, d, n) \in Whole /\ AddMoved(o, d, n) \in Whole
                  /\ ~AliasInUse(d, o.alias, n) => AddFinal(o, d, n, Adding(o)) \in Whole
             /\ n \in SlotsOf(d, o.id) /\ ~AliasInUse(d, o.alias, n) => RefreshedFinal(o, d, n) \in Whole
  <2>1. (IF o.slot = None THEN SlotsOf(d, o.id) = {} ELSE n = o.slot) =>
          /\ AddCleared(o, d, n) \in Whole /\ AddMoved(o, d, n) \in Whole
          /\ ~AliasInUse(d, o.alias, n) => AddFinal(o, d, n, Adding(o)) \in Whole
    BY <1>1, UniqueAdd
  <2>2. ASSUME n \in SlotsOf(d, o.id), ~AliasInUse(d, o.alias, n) PROVE RefreshedFinal(o, d, n) \in Whole
    <3>1. n \in Slot /\ d.acct[n] # None
      BY <2>2 DEF SlotsOf, Holds
    <3>2. RefreshedMark(o, d, n) \in Whole
      BY <1>0, <2>2, <3>1, UniqueAlias DEF RefreshedMark
    <3> QED
      BY <3>1, <3>2, UniqueActive DEF RefreshedFinal
  <2> QED
    BY <2>1, <2>2
<1>2. o.kind = "remove" => Without(d, o.slot) \in Whole
  BY UniqueWithout DEF Called
<1>3. o.kind = "move" => Renumbered(d, o.slot, o.to) \in Whole
  BY UniqueRenumbered DEF Called
<1>4. o.kind = "alias" /\ d.acct[o.slot] # None /\ ~AliasInUse(d, o.alias, o.slot) =>
        [d EXCEPT !.acct[o.slot].alias = o.alias] \in Whole
  BY <1>0, UniqueAlias DEF Called
<1>5. o.kind = "disable" /\ d.acct[o.slot] # None => [d EXCEPT !.acct[o.slot].off = o.yes] \in Whole
  BY <1>0, UniqueOff DEF Called
<1> QED
  BY <1>1, <1>2, <1>3, <1>4, <1>5 DEF Admits

\* Only wholes are committed, and an add looks for the account of the login it will store.
Distinct ==
  /\ seq \in Whole /\ logins \in Nat
  /\ \A p \in Process : pc[p] = "run" => op[p].todo \in Seq(Instr(Whole))
  /\ \A p \in Process : pc[p] # "idle" /\ op[p].kind = "add" => "add" \in Ops /\ op[p].id = AccountId(login)

\* No login replaces another while an add waits.
NoRelogin == "add" \notin Ops \/ MaxLogins = 0

LEMMA DistinctInit == ASSUME Reader = {}, Init PROVE Distinct
<1>1. PICK r \in Initial, org \in {TRUE, FALSE}, empty \in SUBSET {2} :
       /\ org \/ (Reader # {} /\ \A m, n \in Slot : m # n /\ r[m] # None /\ r[n] # None =>
                                   EmailOf[r[m]] # EmailOf[r[n]])
       /\ seq = [acct |-> [n \in Slot |->
                   IF r[n] = None THEN None
                   ELSE NewRecord(EmailOf[r[n]], IF org THEN OrgOf[r[n]] ELSE Unset, None)],
                 active |-> 1]
       /\ bk = [f \in Kind \X Key |->
                  IF f[2][1] \notin empty /\ r[f[2][1]] # None /\ EmailOf[r[f[2][1]]] = f[2][2]
                  THEN r[f[2][1]] ELSE None]
       /\ sess = [k \in Key |-> IF r[k[1]] # None /\ EmailOf[r[k[1]]] = k[2] THEN r[k[1]] ELSE None]
       /\ login \in {r[1]} \cup {a \in Account \ TokenAccount : \A n \in Slot : r[n] # a}
  BY DEF Init
<1>2. org = TRUE
  BY <1>1
<1>3. \A n \in Slot : seq.acct[n] = IF r[n] = None THEN None ELSE NewRecord(EmailOf[r[n]], OrgOf[r[n]], None)
  BY <1>1, <1>2
<1>4. r \in [Slot -> Account \cup {None}] /\ Unset \notin {OrgOf[a] : a \in Account}
      /\ (\A m, n \in Slot : r[m] = r[n] /\ r[m] # None => m = n)
      /\ (\A a, b \in Account : EmailOf[a] = EmailOf[b] /\ OrgOf[a] = OrgOf[b] => a = b)
  BY RosterAssumption
<1>5. ASSUME NEW n \in Slot, seq.acct[n] # None
      PROVE  r[n] \in Account /\ IdOf(seq.acct[n]) = AccountId(r[n]) /\ seq.acct[n].alias = None
  <2>1. r[n] \in Account /\ seq.acct[n] = NewRecord(EmailOf[r[n]], OrgOf[r[n]], None)
    BY <1>3, <1>4, <1>5
  <2>2. seq.acct[n].org = OrgOf[r[n]] /\ seq.acct[n].email = EmailOf[r[n]] /\ seq.acct[n].alias = None
    BY <2>1 DEF NewRecord
  <2> QED
    BY <1>4, <2>1, <2>2 DEF IdOf, AccountId
<1>6. ASSUME NEW m \in Slot, NEW n \in Slot, seq.acct[m] # None, seq.acct[n] # None, m # n
      PROVE  IdOf(seq.acct[m]) # IdOf(seq.acct[n])
  <2>1. r[m] \in Account /\ r[n] \in Account /\ r[m] # None /\ r[m] # r[n]
    BY <1>4, <1>5, <1>6, RosterAssumption
  <2>2. AccountId(r[m]) # AccountId(r[n])
    BY <1>4, <2>1 DEF AccountId
  <2> QED
    BY <1>5, <1>6, <2>2
<1>7. Unique(seq)
  BY <1>5, <1>6 DEF Unique
<1>8. seq \in Whole
  BY <1>7, CurrentInit DEF Current, Whole
<1>9. logins \in Nat /\ \A p \in Process : pc[p] = "idle"
  BY DEF Init
<1> QED
  BY <1>8, <1>9 DEF Distinct

LEMMA DistinctStep ==
  ASSUME Reader = {}, NoRelogin, RInv, Current, Distinct, [Next]_vars
  PROVE  Distinct'
<1>0. Typed /\ Begun /\ Locked /\ BackupsTyped /\ login \in Account \cup {None} /\ None \notin Process
  BY RosterAssumption DEF RInv, Typed, BackupsTyped, Files
<1>1. ASSUME NEW p \in Process, Working(p) PROVE Distinct'
  <2>0. Worked(p) /\ pc[p] = "run" /\ op[p].todo # <<>> /\ lock = p
    BY <1>0, <1>1, WorkedOK DEF Locked
  <2>1. op[p].todo \in Seq(Instr(Whole)) /\ op[p].undo \in Undos
    BY <1>0, <2>0, NowFacts DEF Distinct
  <2>2. Now(p) \in Instr(Whole) /\ Tail(op[p].todo) \in Seq(Instr(Whole)) /\ op[p].undo \in Seq(Instr(Whole))
    BY <2>0, <2>1, TailSeq, UndoFacts DEF Now, Undos
  <2>3. Doing(p, "commit") => Now(p).data \in Whole
    BY <2>2, InstrFacts DEF Doing, Now
  <2>4. seq' \in Whole /\ op'[p].todo \in Seq(Instr(Whole)) /\ logins' = logins /\ login' = login
    BY <2>0, <2>2, <2>3 DEF Worked, Distinct, count
  <2>5. ASSUME NEW q \in Process, pc'[q] = "run" PROVE q = p
    BY <1>0, <2>0, <2>5 DEF Worked, Locked
  <2>6. \A q \in Process : pc'[q] = pc[q] /\ op'[q].kind = op[q].kind /\ op'[q].id = op[q].id
    BY <1>0, <2>0 DEF Worked, Same, Typed
  <2> QED
    BY <2>4, <2>5, <2>6 DEF Distinct
<1>2. ASSUME NEW p \in Process, Enters(p) PROVE Distinct'
  <2>1. Called(op[p]) /\ op[p] \in Locals /\ pc[p] = "enter"
    BY <1>0, <1>2 DEF Begun, Typed, Enters
  <2>2. seq' = seq
    BY <1>0, <1>2, BackfilledOK DEF Enters, Current, Typed
  <2>3. op[p].kind \in {"add", "token"} => op[p].id = AccountId(Adding(op[p]))
    BY <2>1 DEF Distinct, Adding, Called
  <2>4. seq \in Whole /\ seq \in Filled
    BY DEF Distinct, Whole
  <2>5. Planned(PlanOf(op[p], seq), Whole)
    BY <1>0, <1>2, <2>1, <2>2, <2>3, <2>4, UniqueAdmits, PlanOfOK DEF Enters
  <2>6. op'[p].todo \in Seq(Instr(Whole))
    BY <1>2, <2>2, <2>5 DEF Enters, Planned
  <2>7. ASSUME NEW q \in Process, pc'[q] = "run" PROVE q = p
    BY <1>0, <1>2, <2>7 DEF Enters, Locked, Typed
  <2>8. \A q \in Process : op'[q].kind = op[q].kind /\ op'[q].id = op[q].id /\ (pc'[q] # "idle" => pc[q] # "idle")
    BY <1>0, <1>2 DEF Enters, Same, Typed
  <2>9. logins' = logins /\ login' = login
    BY <1>2 DEF Enters, count
  <2> QED
    BY <2>2, <2>6, <2>7, <2>8, <2>9 DEF Distinct
<1>3. ASSUME NEW p \in Process, Asks(p) PROVE Distinct'
  <2>1. seq' = seq
    BY <1>0, <1>3, BackfilledOK DEF Asks, Current, Typed
  <2>2. \A q \in Process : pc'[q] # "run"
    BY <1>0, <1>3 DEF Asks, Locked, Typed
  <2>3. \A q \in Process : op'[q].kind = op[q].kind /\ op'[q].id = op[q].id /\ (pc'[q] # "idle" => pc[q] # "idle")
    BY <1>0, <1>3 DEF Asks, Same, Typed
  <2>4. logins' = logins /\ login' = login
    BY <1>3 DEF Asks, count
  <2> QED
    BY <2>1, <2>2, <2>3, <2>4 DEF Distinct
<1>4. ASSUME NEW p \in Process, Ends(p) PROVE Distinct'
  <2>1. seq' = seq
    BY <1>0, <1>4, BackfilledOK DEF Ends, Current, Typed
  <2>2. \A q \in Process : pc'[q] # "idle" => pc'[q] = pc[q] /\ op'[q] = op[q]
    BY <1>0, <1>4 DEF Ends, Typed
  <2>3. logins' = logins /\ login' = login
    BY <1>4 DEF Ends, count
  <2> QED
    BY <2>1, <2>2, <2>3 DEF Distinct
<1>5. ASSUME NEW p \in Process, NEW o, NEW next, Given(o, next), Begin(p, o, next) PROVE Distinct'
  <2>1. seq' = seq /\ logins' = logins /\ login' = login
    BY <1>5 DEF Begin
  <2>2. pc'[p] = next /\ op'[p] = o /\ next # "run"
    BY <1>0, <1>5 DEF Begin, Given, Typed
  <2>3. \A q \in Process : q # p => pc'[q] = pc[q] /\ op'[q] = op[q]
    BY <1>0, <1>5 DEF Begin, Typed
  <2> QED
    BY <1>5, <2>1, <2>2, <2>3 DEF Distinct, Given
<1>6. CASE Outside
  <2>1. UNCHANGED <<op, pc>> /\ seq' = seq /\ (~(logins < MaxLogins) => UNCHANGED <<login, logins>>)
    BY <1>6, OutsideKeeps
  <2>2. logins' \in Nat
    <3>1. logins' = logins \/ logins' = logins + 1
      BY <1>6 DEF Outside, BackfillRead, BackfillWrite, Login, Launch, Exit, count
    <3> QED
      BY <3>1 DEF Distinct
  <2>3. "add" \in Ops => login' = login
    <3>1. MaxLogins = 0 => ~(logins < MaxLogins)
      BY DEF Distinct
    <3> QED
      BY <2>1, <3>1 DEF NoRelogin
  <2> QED
    BY <2>1, <2>2, <2>3 DEF Distinct
<1>7. CASE UNCHANGED vars
  BY <1>7 DEF Distinct, vars, count
<1> QED
  BY <1>1, <1>2, <1>3, <1>4, <1>5, <1>6, <1>7, NextCases

\* No identity and no alias is in two slots, whatever adds, moves, swaps, removals and failures
\* overlap, if no reader writes an old roster back and no login changes while an add waits at its
\* prompt or for the lock (without that it is false: an add does not compare the two logins).
THEOREM NamesStayUnique == ASSUME Reader = {}, NoRelogin PROVE Spec => []UniqueNames
<1>1. Init => RInv /\ Current /\ Distinct
  BY InitHolds, CurrentInit, DistinctInit
<1>2. RInv /\ Current /\ Distinct /\ [Next]_vars => (RInv /\ Current /\ Distinct)'
  BY StepKeeps, CurrentStep, DistinctStep
<1>3. Distinct => UniqueNames
  BY DEF Distinct, Whole, Unique, UniqueNames, Used
<1> QED
  BY <1>1, <1>2, <1>3, PTL DEF Spec
=============================================================================
