---------------------------- MODULE SwitchProofs ----------------------------
(* TLAPS proofs about Switch: any number of processes, slots and accounts,   *)
(* any bounds. The first part is about the lock order and the transaction;   *)
(* the second about the credentials a switch moves: it never silently files  *)
(* one account's credential under another account's slot, and never destroys *)
(* an account's last usable credential.                                      *)
EXTENDS Switch, TLAPS

Locked == {"locked", "displace", "backupConfig", "activate", "splice", "record",
           "undoConfig", "undoCreds", "done"}

\* Who is in withTripleLock's span owns all three locks, taken in order.
LockOwners ==
  \A p \in Process :
    /\ pc[p] \in Locked \cup {"cred", "config"} => lock.file = p
    /\ pc[p] \in Locked \cup {"config"} => lock.cred = p
    /\ pc[p] \in Locked => lock.config = p

\* How far process p's switch has got, and what the ledger says about it.
InFlight(p) ==
  /\ pc[p] # "idle" => tx[p].target \in Slot
  /\ pc[p] \in {"displace", "backupConfig", "activate"} => live = tx[p].orig
  /\ pc[p] \in {"displace", "backupConfig", "activate", "splice"} => cfg = tx[p].origCfg
  /\ pc[p] = "displace" => live # None
  /\ pc[p] = "backupConfig" => tx[p].cur \in Slot
  /\ pc[p] \in {"displace", "backupConfig", "activate", "splice", "record"} =>
       (tx[p].backfill => tx[p].resolved # None)
  /\ pc[p] \in {"splice", "record"} => live = bk[tx[p].target]
  /\ pc[p] = "record" => cfg.id = IdOf(OwnerOf[tx[p].target])
  /\ pc[p] \in {"record", "undoConfig", "undoCreds"} =>
       tx[p].origCfg \in Config /\ cfg.rev = tx[p].origCfg.rev
  /\ pc[p] = "undoCreds" /\ tx[p].result = "rolledBack" => cfg = tx[p].origCfg
  /\ pc[p] \in {"undoConfig", "undoCreds"} => tx[p].result # "switched"
  /\ pc[p] = "done" /\ tx[p].result = "rolledBack" => live = tx[p].orig /\ cfg = tx[p].origCfg
  /\ pc[p] = "done" /\ tx[p].result = "switched" =>
       /\ live = bk[tx[p].target]
       /\ cfg.id = IdOf(OwnerOf[tx[p].target])
       /\ active = tx[p].target

Progress == \A p \in Process : InFlight(p)

\* The inductive invariant: types, lock ownership, and the progress of the one
\* process that is inside the locks.
IInv == TypeOK /\ LockOwners /\ Progress

\* The slot a live identity names is a slot.
LEMMA FindSlotType == \A id : FindAccountSlot(id) \in Slot \cup {None}
  BY DEF FindAccountSlot

\* Two values of the locals that differ in none of the fields the ledger uses.
SameLedger(t, u) ==
  /\ t.target = u.target /\ t.cur = u.cur /\ t.backfill = u.backfill
  /\ t.orig = u.orig /\ t.origCfg = u.origCfg

\* The locals stay well typed when one of their fields is assigned, and the
\* other fields keep their values.
LEMMA NoTxType == NoTx \in Tx
  BY DEF NoTx, Tx

\* The locals of a new call.
LEMMA TxCalled ==
  ASSUME NEW t \in Slot, NEW f \in BOOLEAN
  PROVE  /\ [NoTx EXCEPT !.target = t, !.force = f] \in Tx
         /\ [NoTx EXCEPT !.target = t, !.force = f].target = t
         /\ [NoTx EXCEPT !.target = t, !.force = f].resolved = None
         /\ [NoTx EXCEPT !.target = t, !.force = f].backfill = FALSE
  BY DEF NoTx, Tx

\* The live bytes read by prefetchLiveIdentity.
LEMMA TxSeen ==
  ASSUME NEW t \in Tx, NEW c \in Cred \cup {None}
  PROVE  /\ [t EXCEPT !.seen = c] \in Tx
         /\ SameLedger([t EXCEPT !.seen = c], t)
         /\ [t EXCEPT !.seen = c].seen = c
         /\ [t EXCEPT !.seen = c].resolved = t.resolved
  BY DEF Tx, SameLedger

\* The answer of the profile endpoint.
LEMMA TxResolved ==
  ASSUME NEW t \in Tx, NEW r \in Identity \cup {None}
  PROVE  /\ [t EXCEPT !.resolved = r] \in Tx
         /\ SameLedger([t EXCEPT !.resolved = r], t)
         /\ [t EXCEPT !.resolved = r].seen = t.seen
         /\ [t EXCEPT !.resolved = r].resolved = r
  BY DEF Tx, SameLedger

\* The outcome of the switch.
LEMMA TxResult ==
  ASSUME NEW t \in Tx, NEW x \in {None, "switched", "rolledBack", "undoFailed", "failed"}
  PROVE  /\ [t EXCEPT !.result = x] \in Tx
         /\ SameLedger([t EXCEPT !.result = x], t)
         /\ [t EXCEPT !.result = x].seen = t.seen
         /\ [t EXCEPT !.result = x].resolved = t.resolved
         /\ [t EXCEPT !.result = x].result = x
  BY DEF Tx, SameLedger

\* What the snapshot of the live login does to the locals.
LEMMA SnapshotTx ==
  ASSUME TypeOK, NEW p \in Process, NEW next, Snapshot(p, next)
  PROVE  /\ tx' \in [Process -> Tx]
         /\ \A q \in Process \ {p} : tx'[q] = tx[q] /\ pc'[q] = pc[q]
         /\ pc'[p] = next
         /\ tx'[p].target = tx[p].target /\ tx'[p].force = tx[p].force
         /\ tx'[p].seen = tx[p].seen /\ tx'[p].resolved = tx[p].resolved
         /\ tx'[p].cur = LiveSlot /\ tx'[p].orig = live /\ tx'[p].origCfg = cfg
         /\ tx'[p].result = tx[p].result /\ tx'[p].had = (~ Direct(p) \/ cfg.id # None)
         /\ tx'[p].backfill = (~ Direct(p) /\ ClassifyOutgoing(LiveSlot, tx[p]) = "own-rotated")
<1> DEFINE b == ~ Direct(p) /\ ClassifyOutgoing(LiveSlot, tx[p]) = "own-rotated"
<1> DEFINE h == ~ Direct(p) \/ cfg.id # None
<1>1. tx[p] \in Tx /\ live \in Cred \cup {None} /\ cfg \in Config
      /\ LiveSlot \in Slot \cup {None} /\ b \in BOOLEAN /\ h \in BOOLEAN
  BY FindSlotType DEF TypeOK, LiveSlot
<1> HIDE DEF b, h
<1> DEFINE n == [tx[p] EXCEPT !.cur = LiveSlot, !.orig = live, !.origCfg = cfg, !.had = h,
                              !.backfill = b]
<1>2. n \in Tx
  BY <1>1 DEF Tx
<1>3. tx' = [tx EXCEPT ![p] = n] /\ pc' = [pc EXCEPT ![p] = next]
  BY DEF Snapshot, Goto, b, h
<1>4. /\ n.target = tx[p].target /\ n.force = tx[p].force /\ n.seen = tx[p].seen
      /\ n.resolved = tx[p].resolved /\ n.cur = LiveSlot /\ n.orig = live /\ n.origCfg = cfg
      /\ n.result = tx[p].result /\ n.backfill = b /\ n.had = h
  BY <1>1 DEF Tx
<1> HIDE DEF n
<1>5. tx' \in [Process -> Tx] /\ tx'[p] = n /\ pc'[p] = next
      /\ \A q \in Process \ {p} : tx'[q] = tx[q] /\ pc'[q] = pc[q]
  BY <1>2, <1>3 DEF TypeOK
<1> QED
  BY <1>4, <1>5 DEF b, h

\* At most one process is inside the locked span.
LEMMA OneLocked ==
  LockOwners => \A p, q \in Process : pc[p] \in Locked /\ pc[q] \in Locked => p = q
  BY DEF LockOwners

\* Nothing is locked initially, and everything is well typed.
LEMMA InitIInv == Init => IInv
<1> SUFFICES ASSUME Init PROVE IInv
  OBVIOUS
<1> USE SwitchAssumption DEF Init
<1>1. bk \in [Slot -> Cred \cup {None}]
  BY DEF Cred
<1>2. live \in Cred \cup {None} /\ cfg \in Config /\ active \in Slot
  BY <1>1 DEF Config, Id
<1>3. tx \in [Process -> Tx] /\ pc \in [Process -> Label]
  BY NoTxType DEF Label
<1>4. lock \in [{"file", "cred", "config"} -> Process \cup {None}]
  OBVIOUS
<1>5. TypeOK
  BY <1>1, <1>2, <1>3, <1>4 DEF TypeOK
<1>6. LockOwners /\ Progress
  BY DEF LockOwners, Progress, InFlight, Locked
<1> QED
  BY <1>5, <1>6 DEF IInv

\* A step of p that leaves the live login and the stored backups alone.
LEMMA QuietFrame ==
  ASSUME IInv, NEW p \in Process, UNCHANGED <<live, cfg, bk, active>>,
         \A q \in Process \ {p} : tx'[q] = tx[q] /\ pc'[q] = pc[q],
         InFlight(p)'
  PROVE  Progress'
  BY DEF IInv, Progress, InFlight

\* A step of p inside the locks: nobody else has a switch under way there.
LEMMA LockedFrame ==
  ASSUME IInv, NEW p \in Process, pc[p] \in Locked,
         \A q \in Process \ {p} : tx'[q] = tx[q] /\ pc'[q] = pc[q],
         InFlight(p)'
  PROVE  Progress'
<1>1. \A q \in Process \ {p} : pc[q] \notin Locked
  BY OneLocked DEF IInv
<1>2. ASSUME NEW q \in Process \ {p} PROVE InFlight(q)'
  BY <1>1 DEF IInv, Progress, InFlight, Locked
<1> QED
  BY <1>2 DEF Progress

\* A step of Claude Code, which finds one of its locks free.
LEMMA FreeFrame ==
  ASSUME IInv, lock.cred = None \/ lock.config = None, UNCHANGED <<pc, tx, lock>>
  PROVE  Progress' /\ LockOwners'
<1>1. \A q \in Process : pc[q] \notin Locked
  BY SwitchAssumption DEF IInv, LockOwners
<1>2. Progress'
  BY <1>1 DEF IInv, Progress, InFlight, Locked
<1>3. LockOwners'
  BY DEF IInv, LockOwners
<1> QED
  BY <1>2, <1>3

\* Lock ownership while p moves on inside the locked span.
LEMMA StaysLocked ==
  ASSUME IInv, NEW p \in Process, pc[p] \in Locked, pc'[p] \in Locked, lock' = lock,
         \A q \in Process \ {p} : pc'[q] = pc[q]
  PROVE  LockOwners'
  BY DEF IInv, LockOwners

\* Leaving the locked span, from wherever.
LEMMA LeaveStep ==
  ASSUME IInv, NEW p \in Process, Leave(p), faults' \in 0 .. MaxFaults
  PROVE  IInv'
<1>1. tx' = [tx EXCEPT ![p] = NoTx] /\ pc' = [pc EXCEPT ![p] = "idle"] /\ lock' = Unlocked(p)
      /\ UNCHANGED <<live, cfg, store, env, failedOpen>>
  BY DEF Leave, Goto
<1>2. tx' \in [Process -> Tx]
  BY <1>1, NoTxType DEF IInv, TypeOK
<1>3. lock' \in [{"file", "cred", "config"} -> Process \cup {None}]
  BY <1>1 DEF IInv, TypeOK, Unlocked
<1>4. TypeOK'
  BY <1>1, <1>2, <1>3 DEF IInv, TypeOK, Label, store, env
<1>5. \A q \in Process \ {p} : tx'[q] = tx[q] /\ pc'[q] = pc[q]
  BY <1>1 DEF IInv, TypeOK
<1>6. pc'[p] = "idle"
  BY <1>1 DEF IInv, TypeOK
<1>7. InFlight(p)'
  BY <1>6 DEF InFlight
<1>8. Progress'
  BY <1>1, <1>5, <1>7, QuietFrame DEF store
<1>9. LockOwners'
  BY <1>1, <1>5, <1>6 DEF IInv, TypeOK, LockOwners, Unlocked, Locked
<1> QED
  BY <1>4, <1>8, <1>9 DEF IInv

\* The steps before the locks.
LEMMA BeforeLocks ==
  ASSUME IInv, NEW p \in Process,
         \/ \E t \in Slot, force \in BOOLEAN : Call(p, t, force)
         \/ ReadLive(p) \/ Resolve(p)
  PROVE  IInv'
<1>1. CASE \E t \in Slot, force \in BOOLEAN : Call(p, t, force)
  <2>1. PICK t \in Slot, force \in BOOLEAN : Call(p, t, force)
    BY <1>1
  <2> DEFINE n == [NoTx EXCEPT !.target = t, !.force = force]
  <2>2. n \in Tx /\ n.target = t
    BY TxCalled
  <2>b. calls < MaxCalls /\ calls' = calls + 1
    BY <2>1 DEF Call
  <2>d. calls \in 0 .. MaxCalls
    BY DEF IInv, TypeOK
  <2>c. calls' \in 0 .. MaxCalls
    BY <2>b, <2>d, SwitchAssumption
  <2>3. tx' = [tx EXCEPT ![p] = n] /\ pc' = [pc EXCEPT ![p] = IF force THEN "file" ELSE "prefetch"]
        /\ UNCHANGED <<live, cfg, store, lock, login, fam, dead, faults, failedOpen>>
        /\ pc[p] = "idle"
    BY <2>1 DEF Call, Goto
  <2> HIDE DEF n
  <2>4. TypeOK'
    BY <2>2, <2>c, <2>3 DEF IInv, TypeOK, Label, store
  <2>5. Progress'
    BY <2>2, <2>3, QuietFrame DEF IInv, TypeOK, InFlight, store
  <2>6. LockOwners'
    BY <2>3 DEF IInv, TypeOK, LockOwners, Locked
  <2> QED
    BY <2>4, <2>5, <2>6 DEF IInv
<1>2. CASE ReadLive(p)
  <2> DEFINE n == [tx[p] EXCEPT !.seen = live]
  <2>0. tx[p] \in Tx /\ live \in Cred \cup {None}
    BY DEF IInv, TypeOK
  <2>1. n \in Tx /\ n.target = tx[p].target
    BY <2>0, TxSeen DEF SameLedger
  <2>2. (tx' = [tx EXCEPT ![p] = n] \/ tx' = tx) /\ pc' = [pc EXCEPT ![p] = "resolve"]
        /\ UNCHANGED <<live, cfg, store, lock, env, failedOpen>>
        /\ faults' \in 0 .. MaxFaults /\ pc[p] = "prefetch"
    BY <1>2, SwitchAssumption DEF ReadLive, Goto, Fault, IInv, TypeOK
  <2> HIDE DEF n
  <2>3. TypeOK'
    BY <2>1, <2>2 DEF IInv, TypeOK, Label, store, env
  <2>4. Progress'
    BY <2>1, <2>2, QuietFrame DEF IInv, TypeOK, Progress, InFlight, store
  <2>5. LockOwners'
    BY <2>2 DEF IInv, TypeOK, LockOwners, Locked
  <2> QED
    BY <2>3, <2>4, <2>5 DEF IInv
<1>3. CASE Resolve(p)
  <2>1. PICK n \in Tx, label \in {"idle", "file"} :
          /\ tx' = [tx EXCEPT ![p] = n] /\ pc' = [pc EXCEPT ![p] = label]
          /\ label = "file" => n.target = tx[p].target
    <3>0. tx[p] \in Tx
      BY DEF IInv, TypeOK
    <3>1. \A r \in (IF tx[p].seen # None THEN Answers(tx[p].seen.acct) ELSE {}) \cup {None} :
            [tx[p] EXCEPT !.resolved = r] \in Tx
            /\ [tx[p] EXCEPT !.resolved = r].target = tx[p].target
      <4>1. \A a \in Account : Answers(a) \subseteq Identity
        BY DEF Answers, Identity
      <4>2. tx[p].seen # None => tx[p].seen.acct \in Account
        BY <3>0 DEF Tx, Cred
      <4>3. ASSUME NEW r \in Identity \cup {None}
            PROVE  [tx[p] EXCEPT !.resolved = r] \in Tx
                   /\ [tx[p] EXCEPT !.resolved = r].target = tx[p].target
        BY <3>0, TxResolved DEF SameLedger
      <4> QED
        BY <4>1, <4>2, <4>3
    <3>2. CASE tx' = [tx EXCEPT ![p] = NoTx] /\ pc' = [pc EXCEPT ![p] = "idle"]
      BY <3>2, NoTxType
    <3>3. CASE \E r \in (IF tx[p].seen # None THEN Answers(tx[p].seen.acct) ELSE {}) \cup {None} :
                 tx' = [tx EXCEPT ![p].resolved = r] /\ pc' = [pc EXCEPT ![p] = "file"]
      BY <3>1, <3>3
    <3> QED
      BY <1>3, <3>2, <3>3 DEF Resolve, Goto
  <2>2. pc[p] = "resolve" /\ UNCHANGED <<live, cfg, store, lock, env, faults, failedOpen>>
    BY <1>3 DEF Resolve
  <2>3. TypeOK'
    BY <2>1, <2>2 DEF IInv, TypeOK, Label, store, env
  <2>4. Progress'
    BY <2>1, <2>2, QuietFrame DEF IInv, TypeOK, Progress, InFlight, store
  <2>5. LockOwners'
    BY <2>1, <2>2 DEF IInv, TypeOK, LockOwners, Locked
  <2> QED
    BY <2>3, <2>4, <2>5 DEF IInv
<1> QED
  BY <1>1, <1>2, <1>3

\* withTripleLock's three acquisitions.
LEMMA TakeStep ==
  ASSUME IInv, NEW p \in Process, AcquireFile(p) \/ AcquireCred(p) \/ AcquireConfig(p)
  PROVE  IInv'
<1> USE DEF AcquireFile, AcquireCred, AcquireConfig, Take, Goto
<1>1. TypeOK'
  BY DEF IInv, TypeOK, Label, store, env
<1>2. pc'[p] \in {"cred", "config", "locked"} /\ pc[p] # "idle"
      /\ \A q \in Process \ {p} : tx'[q] = tx[q] /\ pc'[q] = pc[q]
  BY DEF IInv, TypeOK
<1>3. InFlight(p)'
  BY <1>2 DEF IInv, Progress, InFlight
<1>4. Progress'
  BY <1>2, <1>3, QuietFrame DEF store
<1>5. LockOwners'
  BY SwitchAssumption DEF IInv, TypeOK, LockOwners, Locked
<1> QED
  BY <1>1, <1>4, <1>5 DEF IInv

\* A step of p inside the locked span preserves the invariant if it is well
\* typed and its own progress is as recorded.
LEMMA LockedStep ==
  ASSUME IInv, NEW p \in Process, pc[p] \in Locked, pc'[p] \in Locked, lock' = lock,
         \A q \in Process \ {p} : tx'[q] = tx[q] /\ pc'[q] = pc[q],
         TypeOK', InFlight(p)'
  PROVE  IInv'
<1>1. Progress'
  BY LockedFrame
<1>2. LockOwners'
  BY StaysLocked
<1> QED
  BY <1>1, <1>2 DEF IInv

\* The steps that deal with the outgoing credential and take the snapshot.
LEMMA SnapshotStep ==
  ASSUME IInv, NEW p \in Process, NEW next \in {"displace", "backupConfig", "activate"},
         pc[p] = "locked", Snapshot(p, next),
         UNCHANGED <<live, cfg, uuid, active, lock, env>>,
         bk' \in [Slot -> Cred \cup {None}], prev' \in [Slot -> Cred \cup {None}],
         bkCfg' \subseteq Slot, stash' \subseteq Cred, failedOpen' \subseteq Slot,
         faults' \in 0 .. MaxFaults,
         next = "displace" => live # None,
         next = "backupConfig" => LiveSlot \in Slot
  PROVE  IInv'
<1> TypeOK
  BY DEF IInv
<1>1. /\ tx' \in [Process -> Tx]
      /\ \A q \in Process \ {p} : tx'[q] = tx[q] /\ pc'[q] = pc[q]
      /\ pc'[p] = next /\ tx'[p].target = tx[p].target
      /\ tx'[p].cur = LiveSlot /\ tx'[p].orig = live /\ tx'[p].origCfg = cfg
      /\ tx'[p].backfill => tx'[p].resolved # None
  BY SnapshotTx DEF ClassifyOutgoing
<1>2. pc' \in [Process -> Label]
  BY DEF Snapshot, Goto, TypeOK, Label
<1>3. TypeOK'
  BY <1>1, <1>2 DEF TypeOK, env
<1>4. tx[p].target \in Slot
  BY DEF IInv, Progress, InFlight
<1>5. InFlight(p)'
  BY <1>1, <1>4 DEF InFlight
<1> QED
  BY <1>1, <1>3, <1>5, LockedStep DEF Locked

\* A fault stays within its bound.
LEMMA FaultType == TypeOK /\ (Fault \/ UNCHANGED faults) => faults' \in 0 .. MaxFaults
  BY SwitchAssumption DEF TypeOK, Fault

\* Each step that deals with the outgoing credential is a SnapshotStep.
LEMMA OutgoingSteps ==
  ASSUME IInv, NEW p \in Process,
         \/ DirectSnapshot(p) \/ StashForeign(p) \/ LeaveForeign(p)
         \/ BackUpConfigOnly(p) \/ BackUpLive(p)
  PROVE  IInv'
<1> TypeOK
  BY DEF IInv
<1>1. LiveSlot \in Slot \cup {None}
  BY FindSlotType DEF LiveSlot
<1>2. \A kinds : Normal(p, kinds) => pc[p] = "locked" /\ LiveSlot \in Slot /\ live \in Cred
  BY <1>1 DEF Normal, Direct, TypeOK
<1>3. CASE DirectSnapshot(p)
  <2>1. PICK next \in {"displace", "activate"} : Snapshot(p, next) /\ (next = "displace" => live # None)
    BY <1>3 DEF DirectSnapshot
  <2> QED
    BY <1>3, <2>1, SnapshotStep DEF DirectSnapshot, store, env, TypeOK
<1>4. CASE StashForeign(p)
  <2>1. pc[p] = "locked" /\ Snapshot(p, "activate") /\ stash' \subseteq Cred
        /\ UNCHANGED <<live, cfg, bk, prev, bkCfg, uuid, active, lock, env, faults, failedOpen>>
    BY <1>2, <1>4 DEF StashForeign, TypeOK
  <2> QED
    BY <2>1, SnapshotStep DEF TypeOK
<1>5. CASE LeaveForeign(p)
  <2>1. pc[p] = "locked" /\ Snapshot(p, "activate")
        /\ UNCHANGED <<live, cfg, bk, prev, bkCfg, stash, uuid, active, lock, env, faults, failedOpen>>
    BY <1>2, <1>5 DEF LeaveForeign, store
  <2> QED
    BY <2>1, SnapshotStep DEF TypeOK
<1>6. CASE BackUpConfigOnly(p)
  <2>1. pc[p] = "locked" /\ Snapshot(p, "activate") /\ bkCfg' \subseteq Slot
        /\ UNCHANGED <<live, cfg, bk, prev, stash, uuid, active, lock, env, faults, failedOpen>>
    BY <1>2, <1>6 DEF BackUpConfigOnly, TypeOK
  <2> QED
    BY <2>1, SnapshotStep DEF TypeOK
<1>7. CASE BackUpLive(p)
  <2>1. pc[p] = "locked" /\ LiveSlot \in Slot /\ live \in Cred
    BY <1>2, <1>7 DEF BackUpLive
  <2>2. Snapshot(p, "backupConfig") /\ WriteBackup(LiveSlot, live)
        /\ UNCHANGED <<live, cfg, bkCfg, stash, uuid, active, lock, env>>
    BY <1>7 DEF BackUpLive
  <2>3. failedOpen' \subseteq Slot
    BY <1>7, <2>1 DEF BackUpLive, TypeOK
  <2>4. bk' \in [Slot -> Cred \cup {None}] /\ prev' \in [Slot -> Cred \cup {None}]
    BY <2>1, <2>2 DEF WriteBackup, TypeOK
  <2>5. faults' \in 0 .. MaxFaults
    BY <2>2, FaultType DEF WriteBackup
  <2> QED
    BY <2>1, <2>2, <2>3, <2>4, <2>5, SnapshotStep DEF TypeOK
<1> QED
  BY <1>3, <1>4, <1>5, <1>6, <1>7

\* The steps of the locked span that only move on: p's locals are unchanged.
LEMMA PlainSteps ==
  ASSUME IInv, NEW p \in Process,
         StashDisplaced(p) \/ BackUpConfig(p) \/ Activate(p) \/ Splice(p)
  PROVE  IInv'
<1> TypeOK
  BY DEF IInv
<1> InFlight(p)
  BY DEF IInv, Progress
<1> SUFFICES /\ pc[p] \in Locked /\ lock' = lock /\ tx' = tx
             /\ \E l \in Locked : pc' = [pc EXCEPT ![p] = l]
             /\ TypeOK' /\ InFlight(p)'
  <2>1. pc'[p] \in Locked /\ \A q \in Process \ {p} : tx'[q] = tx[q] /\ pc'[q] = pc[q]
    BY DEF TypeOK
  <2> QED
    BY <2>1, LockedStep
<1>1. CASE StashDisplaced(p)
  <2>1. pc[p] = "displace" /\ pc' = [pc EXCEPT ![p] = "activate"]
        /\ UNCHANGED <<live, cfg, bk, prev, bkCfg, uuid, active, lock, tx, env, failedOpen>>
    BY <1>1 DEF StashDisplaced, Goto
  <2>2. stash' \subseteq Cred
    BY <1>1, <2>1 DEF StashDisplaced, TypeOK, InFlight
  <2>3. faults' \in 0 .. MaxFaults
    BY <1>1, FaultType DEF StashDisplaced
  <2>4. TypeOK'
    BY <2>1, <2>2, <2>3 DEF TypeOK, Label, env
  <2>5. pc'[p] = "activate"
    BY <2>1 DEF TypeOK
  <2>6. InFlight(p)'
    BY <2>1, <2>5 DEF InFlight
  <2> QED
    BY <2>1, <2>4, <2>6 DEF Locked
<1>2. CASE BackUpConfig(p)
  <2>1. pc[p] = "backupConfig" /\ pc' = [pc EXCEPT ![p] = "activate"]
        /\ UNCHANGED <<live, cfg, bk, prev, stash, uuid, active, lock, tx, env, faults, failedOpen>>
    BY <1>2 DEF BackUpConfig, Goto
  <2>2. bkCfg' \subseteq Slot
    BY <1>2, <2>1 DEF BackUpConfig, TypeOK, InFlight
  <2>4. TypeOK'
    BY <2>1, <2>2 DEF TypeOK, Label, env
  <2>5. pc'[p] = "activate"
    BY <2>1 DEF TypeOK
  <2>6. InFlight(p)'
    BY <2>1, <2>5 DEF InFlight
  <2> QED
    BY <2>1, <2>4, <2>6 DEF Locked
<1>3. CASE Activate(p)
  <2>1. pc[p] = "activate" /\ pc' = [pc EXCEPT ![p] = "splice"] /\ live' = bk[tx[p].target]
        /\ UNCHANGED <<cfg, store, lock, tx, env, faults, failedOpen>>
    BY <1>3 DEF Activate, Goto
  <2>2. live' \in Cred \cup {None}
    BY <2>1 DEF TypeOK, InFlight
  <2>4. TypeOK'
    BY <2>1, <2>2 DEF TypeOK, Label, env, store
  <2>5. pc'[p] = "splice"
    BY <2>1 DEF TypeOK
  <2>6. InFlight(p)'
    BY <2>1, <2>5 DEF InFlight, store
  <2> QED
    BY <2>1, <2>4, <2>6 DEF Locked
<1>4. CASE Splice(p)
  <2>1. pc[p] = "splice" /\ pc' = [pc EXCEPT ![p] = "record"]
        /\ cfg' = [cfg EXCEPT !.id = IdOf(OwnerOf[tx[p].target])]
        /\ UNCHANGED <<live, store, lock, tx, env, faults, failedOpen>>
    BY <1>4 DEF Splice, Goto
  <2>2. tx[p].target \in Slot /\ OwnerOf[tx[p].target] \in Account
    BY <2>1, SwitchAssumption DEF InFlight
  <2>3. cfg' \in Config /\ cfg'.rev = cfg.rev /\ cfg'.id = IdOf(OwnerOf[tx[p].target])
    BY <2>1, <2>2 DEF TypeOK, Config, Id
  <2>4. TypeOK'
    BY <2>1, <2>3 DEF TypeOK, Label, env, store
  <2>5. pc'[p] = "record"
    BY <2>1 DEF TypeOK
  <2>7. cfg = tx[p].origCfg /\ cfg \in Config
    BY <2>1 DEF InFlight, TypeOK
  <2>6. InFlight(p)'
    BY <2>1, <2>3, <2>5, <2>7 DEF InFlight, store
  <2> QED
    BY <2>1, <2>4, <2>6 DEF Locked
<1> QED
  BY <1>1, <1>2, <1>3, <1>4

\* The steps of the locked span that set the outcome, and the undo steps.
LEMMA OutcomeSteps ==
  ASSUME IInv, NEW p \in Process,
         Record(p) \/ FailLate(p) \/ UndoConfig(p) \/ UndoCreds(p)
  PROVE  IInv'
<1> TypeOK
  BY DEF IInv
<1> InFlight(p) /\ tx[p] \in Tx
  BY DEF IInv, Progress, TypeOK
<1> DEFINE Result == {None, "switched", "rolledBack", "undoFailed", "failed"}
<1>a. ASSUME NEW x \in Result
      PROVE  [tx[p] EXCEPT !.result = x] \in Tx /\ SameLedger([tx[p] EXCEPT !.result = x], tx[p])
             /\ [tx[p] EXCEPT !.result = x].result = x
  BY TxResult
<1>b. SUFFICES /\ pc[p] \in Locked /\ lock' = lock
               /\ \E l \in Locked : pc' = [pc EXCEPT ![p] = l]
               /\ \E t \in Tx : tx' = [tx EXCEPT ![p] = t]
               /\ TypeOK' /\ InFlight(p)'
  <2>1. pc'[p] \in Locked /\ \A q \in Process \ {p} : tx'[q] = tx[q] /\ pc'[q] = pc[q]
    BY <1>b DEF TypeOK
  <2> QED
    BY <1>b, <2>1, LockedStep
<1>1. CASE Record(p)
  <2> DEFINE n == [tx[p] EXCEPT !.result = "switched"]
  <2>0. n \in Tx /\ SameLedger(n, tx[p]) /\ n.result = "switched"
    BY <1>a
  <2>1. pc[p] = "record" /\ pc' = [pc EXCEPT ![p] = "done"] /\ tx' = [tx EXCEPT ![p] = n]
        /\ active' = tx[p].target
        /\ UNCHANGED <<live, cfg, bk, prev, bkCfg, stash, lock, env, faults, failedOpen>>
    BY <1>1 DEF Record, Goto
  <2> HIDE DEF n
  <2>2. uuid' \in [Slot -> Account \cup {None}]
    <3>1. tx[p].resolved # None => tx[p].resolved.uuid \in Account
      BY DEF Tx, Identity
    <3>2. tx[p].backfill => tx[p].resolved # None
      BY <2>1 DEF InFlight
    <3> QED
      BY <1>1, <3>1, <3>2 DEF Record, TypeOK
  <2>3. active' \in Slot
    BY <2>1 DEF InFlight
  <2>4. TypeOK'
    BY <2>0, <2>1, <2>2, <2>3 DEF TypeOK, Label, env
  <2>5. pc'[p] = "done" /\ tx'[p] = n
    BY <2>1 DEF TypeOK
  <2>6. InFlight(p)'
    BY <2>0, <2>1, <2>5 DEF InFlight, SameLedger
  <2> QED
    BY <2>0, <2>1, <2>4, <2>6 DEF Locked
<1>2. CASE FailLate(p)
  <2>1. PICK x \in Result, l \in {"done", "undoConfig", "undoCreds"} :
          /\ tx' = [tx EXCEPT ![p].result = x] /\ pc' = [pc EXCEPT ![p] = l]
          /\ x \in {"rolledBack", "failed"}
          /\ l = "done" => x = "failed"
          /\ l = "undoConfig" => pc[p] = "record"
          /\ l = "undoCreds" => pc[p] = "splice"
    BY <1>2 DEF FailLate, Goto
  <2> DEFINE n == [tx[p] EXCEPT !.result = x]
  <2>0. n \in Tx /\ SameLedger(n, tx[p]) /\ n.result = x /\ tx' = [tx EXCEPT ![p] = n]
    BY <1>a, <2>1
  <2> HIDE DEF n
  <2>2. pc[p] \in {"splice", "record"} /\ UNCHANGED <<live, cfg, store, lock, env, failedOpen>>
        /\ faults' \in 0 .. MaxFaults
    BY <1>2, FaultType DEF FailLate
  <2>4. TypeOK'
    BY <2>0, <2>1, <2>2 DEF TypeOK, Label, env, store
  <2>5. pc'[p] = l /\ tx'[p] = n
    BY <2>0, <2>1 DEF TypeOK
  <2>7. cfg \in Config
    BY DEF TypeOK
  <2>6. InFlight(p)'
    BY <2>0, <2>1, <2>2, <2>5, <2>7 DEF InFlight, SameLedger, store
  <2> QED
    BY <2>0, <2>1, <2>2, <2>4, <2>6 DEF Locked
<1>3. CASE UndoConfig(p)
  <2> DEFINE n == [tx[p] EXCEPT !.result = "undoFailed"]
  <2>0. n \in Tx /\ SameLedger(n, tx[p]) /\ n.result = "undoFailed"
    BY <1>a
  <2>1. pc[p] = "undoConfig" /\ pc' = [pc EXCEPT ![p] = "undoCreds"]
        /\ UNCHANGED <<live, store, lock, env, failedOpen>> /\ faults' \in 0 .. MaxFaults
        /\ \/ cfg' = tx[p].origCfg /\ tx' = tx
           \/ tx' = [tx EXCEPT ![p] = n] /\ cfg' = cfg
    BY <1>3, FaultType DEF UndoConfig, Goto
  <2> HIDE DEF n
  <2>2. cfg' \in Config /\ tx[p].origCfg \in Config /\ cfg'.rev = tx[p].origCfg.rev
    BY <2>1 DEF InFlight, TypeOK
  <2>3. pc'[p] = "undoCreds" /\ tx[p].result # "switched"
        /\ ((tx'[p] = tx[p] /\ cfg' = tx[p].origCfg) \/ tx'[p] = n)
    BY <2>1 DEF TypeOK, InFlight
  <2>4. TypeOK'
    BY <2>0, <2>1, <2>2 DEF TypeOK, Label, env, store
  <2>6. InFlight(p)'
    BY <2>0, <2>1, <2>2, <2>3 DEF InFlight, SameLedger, store
  <2> QED
    BY <2>0, <2>1, <2>4, <2>6 DEF Locked, TypeOK
<1>4. CASE UndoCreds(p)
  <2> DEFINE n == [tx[p] EXCEPT !.result = "undoFailed"]
  <2>0. n \in Tx /\ SameLedger(n, tx[p]) /\ n.result = "undoFailed"
    BY <1>a
  <2>1. pc[p] = "undoCreds" /\ pc' = [pc EXCEPT ![p] = "done"]
        /\ UNCHANGED <<cfg, store, lock, env, failedOpen>> /\ faults' \in 0 .. MaxFaults
        /\ \/ live' = tx[p].orig /\ tx' = tx
           \/ tx' = [tx EXCEPT ![p] = n] /\ live' = live
    BY <1>4, FaultType DEF UndoCreds, Goto
  <2> HIDE DEF n
  <2>2. live' \in Cred \cup {None}
    BY <2>1 DEF TypeOK, Tx
  <2>3. pc'[p] = "done" /\ tx[p].result # "switched"
        /\ ((tx'[p] = tx[p] /\ live' = tx[p].orig) \/ tx'[p] = n)
    BY <2>1 DEF TypeOK, InFlight
  <2>4. TypeOK'
    BY <2>0, <2>1, <2>2 DEF TypeOK, Label, env, store
  <2>6. InFlight(p)'
    BY <2>0, <2>1, <2>3 DEF InFlight, SameLedger, store
  <2> QED
    BY <2>0, <2>1, <2>4, <2>6 DEF Locked, TypeOK
<1> QED
  BY <1>1, <1>2, <1>3, <1>4

\* The steps that leave the locked span.
LEMMA LeaveSteps ==
  ASSUME IInv, NEW p \in Process,
         LockTimeout(p) \/ Refuse(p) \/ FailEarly(p) \/ Return(p) \/ Crash(p)
  PROVE  IInv'
<1>1. Leave(p) /\ (Fault \/ UNCHANGED faults)
  BY DEF LockTimeout, Refuse, FailEarly, Return, Crash
<1> QED
  BY <1>1, FaultType, LeaveStep DEF IInv

\* Claude Code's own writes, under the lock it takes for each.
LEMMA ClaudeSteps == ASSUME IInv, Claude PROVE IInv'
<1> TypeOK
  BY DEF IInv
<1> USE DEF ClaudeUnchanged
<1>1. UNCHANGED <<store, lock, pc, tx, faults, failedOpen>>
  BY DEF Claude, RefreshAccess, Rotate, LoginToken, LoginConfig, WriteOwnConfig, Logout
<1>2. lock.cred = None \/ lock.config = None
  BY DEF Claude, RefreshAccess, Rotate, LoginToken, LoginConfig, WriteOwnConfig, Logout
<1>3. Progress' /\ LockOwners'
  BY <1>1, <1>2, FreeFrame
<1> SUFFICES /\ live' \in Cred \cup {None} /\ cfg' \in Config
             /\ login' \in Account \cup {None} /\ fam' \in 1 .. MaxFam
             /\ dead' \subseteq Account \X (1 .. MaxFam) /\ calls' = calls
  BY <1>1, <1>3 DEF IInv, TypeOK, store
<1> USE SwitchAssumption DEF TypeOK, env
<1>4. CASE RefreshAccess
  <2>1. live \in Cred /\ live' \in Cred
    BY <1>4 DEF RefreshAccess, Accepted, Cred
  <2> QED
    BY <1>4, <2>1 DEF RefreshAccess
<1>5. CASE Rotate
  <2>1. live \in Cred /\ live' \in Cred /\ fam' \in 1 .. MaxFam /\ <<live.acct, live.fam>> \in Account \X (1 .. MaxFam)
    BY <1>5 DEF Rotate, Accepted, Cred
  <2> QED
    BY <1>5, <2>1 DEF Rotate
<1>6. CASE \E a \in Account : LoginToken(a)
  <2>1. live' \in Cred /\ fam' \in 1 .. MaxFam
    BY <1>6 DEF LoginToken, Cred
  <2> QED
    BY <1>6, <2>1 DEF LoginToken
<1>7. CASE LoginConfig
  BY <1>7 DEF LoginConfig, Config, Id
<1>8. CASE WriteOwnConfig
  BY <1>8 DEF WriteOwnConfig, Config
<1>9. CASE Logout
  BY <1>9 DEF Logout, Config
<1> QED
  BY <1>4, <1>5, <1>6, <1>7, <1>8, <1>9 DEF Claude

\* Every step preserves the inductive invariant.
LEMMA NextIInv == IInv /\ [Next]_vars => IInv'
<1> SUFFICES ASSUME IInv, [Next]_vars PROVE IInv'
  OBVIOUS
<1>1. CASE UNCHANGED vars
  BY <1>1 DEF vars, store, env, IInv, TypeOK, LockOwners, Progress, InFlight
<1>2. CASE Claude
  BY <1>2, ClaudeSteps
<1>3. ASSUME NEW p \in Process, Step(p) \/ \E t \in Slot, force \in BOOLEAN : Call(p, t, force)
      PROVE  IInv'
  BY <1>3, BeforeLocks, TakeStep, OutgoingSteps, PlainSteps, OutcomeSteps, LeaveSteps DEF Step
<1> QED
  BY <1>1, <1>2, <1>3 DEF Next

---------------------------------------------------------------------------
\* The locks work: a process inside the locked span owns all three, and the
\* ledger of its switch is accurate at every step (IInv).
THEOREM Invariance == Spec => []IInv
<1>1. Init => IInv
  BY InitIInv
<1>2. IInv /\ [Next]_vars => IInv'
  BY NextIInv
<1> QED
  BY <1>1, <1>2, PTL DEF Spec

\* Every variable keeps its type, the locals of each switch included.
THEOREM TypeCorrect == Spec => []TypeOK
<1>1. IInv => TypeOK
  BY DEF IInv
<1> QED
  BY <1>1, Invariance, PTL

\* performSwitch reports "rolled back" only when the credential and the config
\* are those found when the locks were taken.
THEOREM Rollback == Spec => []RolledBackIsOriginal
<1>1. IInv => RolledBackIsOriginal
  BY DEF IInv, Progress, InFlight, RolledBackIsOriginal
<1> QED
  BY <1>1, Invariance, PTL

\* performSwitch reports success only with all three writes in place.
THEOREM Success == Spec => []SwitchedIsTarget
<1>1. IInv => SwitchedIsTarget
  BY DEF IInv, Progress, InFlight, SwitchedIsTarget
<1> QED
  BY <1>1, Invariance, PTL

\* No step of cswap, the splice of oauthAccount and the restore of the whole
\* config text included, undoes a config write of Claude Code.
THEOREM ConfigKept == Spec => ConfigUpdatesKept
<1> DEFINE Kept == \A p \in Process : pc'[p] # pc[p] => cfg'.rev = cfg.rev
<1>1. IInv /\ [Next]_vars => [Kept]_vars
  <2> SUFFICES ASSUME IInv, [Next]_vars, NEW p \in Process, pc'[p] # pc[p]
               PROVE  cfg'.rev = cfg.rev
    OBVIOUS
  <2>1. CASE UNCHANGED vars
    BY <2>1 DEF vars
  <2>2. CASE Claude
    BY <2>2 DEF Claude, RefreshAccess, Rotate, LoginToken, LoginConfig, WriteOwnConfig, Logout,
                ClaudeUnchanged
  <2>3. ASSUME NEW q \in Process, Splice(q) PROVE cfg'.rev = cfg.rev
    BY <2>3 DEF Splice, IInv, TypeOK, Config
  <2>4. ASSUME NEW q \in Process, UndoConfig(q) PROVE cfg'.rev = cfg.rev
    BY <2>4 DEF UndoConfig, IInv, Progress, InFlight
  <2>5. ASSUME NEW q \in Process, Step(q) \/ \E t \in Slot, force \in BOOLEAN : Call(q, t, force),
               ~ Splice(q), ~ UndoConfig(q)
        PROVE  cfg' = cfg
    BY <2>5 DEF Step, Call, ReadLive, Resolve, AcquireFile, AcquireCred, AcquireConfig, Take,
         LockTimeout, Refuse, DirectSnapshot, StashDisplaced, StashForeign, LeaveForeign,
         BackUpConfigOnly, BackUpLive, BackUpConfig, Activate, Record, FailEarly, FailLate,
         UndoCreds, Return, Crash, Leave
  <2> QED
    BY <2>1, <2>2, <2>3, <2>4, <2>5 DEF Next
<1> QED
  BY <1>1, Invariance, PTL DEF Spec, ConfigUpdatesKept

-----------------------------------------------------------------------------
(* The credentials a switch moves *)

\* A recorded uuid is the owner's, unless the slot was ever backed up on trust.
UuidOwners == \A s \in Slot : uuid[s] \in {None, OwnerOf[s]} \/ s \in failedOpen

AfterSnapshot == {"displace", "backupConfig", "activate", "splice", "record"}

\* What process p knows of the live token's owner is true of the bytes it asked
\* about, and it records a new uuid only for a slot it backed up on trust.
Honest(p) ==
  /\ pc[p] = "prefetch" => tx[p].resolved = None
  /\ tx[p].resolved # None => tx[p].seen # None /\ tx[p].resolved.uuid = tx[p].seen.acct
  /\ pc[p] \in AfterSnapshot /\ tx[p].backfill =>
       tx[p].cur \in Slot /\ (uuid[tx[p].cur] # None \/ tx[p].cur \in failedOpen)

\* The inductive strengthening of NoSilentContamination.
OwnerInv == NoSilentContamination /\ UuidOwners /\ \A p \in Process : Honest(p)

\* Every stored credential is its owner's at the start, and nothing has been asked.
LEMMA InitOwner == Init => OwnerInv
<1> SUFFICES ASSUME Init PROVE OwnerInv
  OBVIOUS
<1>1. NoSilentContamination /\ UuidOwners
  BY DEF Init, NoSilentContamination, UuidOwners
<1>2. \A p \in Process : Honest(p)
  BY DEF Init, Honest, NoTx, AfterSnapshot
<1> QED
  BY <1>1, <1>2 DEF OwnerInv

\* A step of p that changes no backup and no uuid.
LEMMA OwnerFrame ==
  ASSUME OwnerInv, NEW p \in Process, UNCHANGED <<bk, uuid, failedOpen>>,
         \A q \in Process \ {p} : tx'[q] = tx[q] /\ pc'[q] = pc[q],
         Honest(p)'
  PROVE  OwnerInv'
<1>1. NoSilentContamination' /\ UuidOwners'
  BY DEF OwnerInv, NoSilentContamination, UuidOwners
<1>2. ASSUME NEW q \in Process \ {p} PROVE Honest(q)'
  BY DEF OwnerInv, Honest
<1> QED
  BY <1>1, <1>2 DEF OwnerInv

\* Only a positive answer about the very bytes that are live makes an outgoing
\* credential own-rotated in a slot with a recorded uuid.
LEMMA OwnRotatedIsProved ==
  ASSUME NEW cur \in Slot, NEW t, ClassifyOutgoing(cur, t) = "own-rotated",
         uuid[cur] # None
  PROVE  t.resolved # None /\ t.seen = live /\ uuid[cur] = t.resolved.uuid
<1>1. t.resolved # None /\ t.seen = live /\ ClassifyResolved(t.resolved, cur) = "own-rotated"
  BY DEF ClassifyOutgoing
<1>2. CASE uuid[cur] = t.resolved.uuid
  BY <1>1, <1>2
<1>3. CASE uuid[cur] # t.resolved.uuid
  <2> DEFINE N == SlotsNamed(t.resolved)
  <2>1. N # {} /\ (CHOOSE s \in N : TRUE) = cur
    BY <1>1, <1>3 DEF ClassifyResolved
  <2>2. cur \in N
    BY <2>1
  <2> QED
    BY <1>3, <2>2 DEF SlotsNamed, SlotsByUuid
<1> QED
  BY <1>2, <1>3

\* The one step that files a live credential in a slot.
LEMMA BackUpOwner ==
  ASSUME IInv, OwnerInv, NEW p \in Process, BackUpLive(p)
  PROVE  OwnerInv'
<1> TypeOK
  BY DEF IInv
<1> DEFINE cur == LiveSlot
           kind == ClassifyOutgoing(cur, tx[p])
           trust == kind = "unresolved" \/ (kind = "own-rotated" /\ uuid[cur] = None)
<1>1. cur \in Slot /\ live \in Cred /\ kind \in {"own-family", "own-rotated", "unresolved"}
      /\ ~ Direct(p)
  <2>1. LiveSlot \in Slot \cup {None}
    BY FindSlotType DEF LiveSlot
  <2> QED
    BY <2>1 DEF BackUpLive, Normal, Direct, TypeOK
<1>2. /\ bk' = [bk EXCEPT ![cur] = live]
      /\ failedOpen' = IF trust THEN failedOpen \cup {cur} ELSE failedOpen
      /\ Snapshot(p, "backupConfig") /\ UNCHANGED <<live, uuid>>
  BY DEF BackUpLive, WriteBackup
<1>3. /\ \A q \in Process \ {p} : tx'[q] = tx[q] /\ pc'[q] = pc[q]
      /\ pc'[p] = "backupConfig"
      /\ tx'[p].seen = tx[p].seen /\ tx'[p].resolved = tx[p].resolved
      /\ tx'[p].cur = cur /\ tx'[p].backfill = (kind = "own-rotated")
  BY <1>1, <1>2, SnapshotTx
<1>4. trust \/ live.acct = OwnerOf[cur] \/ cur \in failedOpen
  <2>1. CASE kind = "own-family"
    <3>1. MatchesBackup(live, cur)
      BY <2>1 DEF ClassifyOutgoing, ClassifyResolved
    <3>2. bk[cur] # None /\ bk[cur].acct = live.acct
      BY <3>1 DEF MatchesBackup, FingerprintEqual
    <3> QED
      BY <1>1, <3>2 DEF OwnerInv, NoSilentContamination
  <2>2. CASE kind = "own-rotated" /\ uuid[cur] # None
    <3>1. tx[p].resolved # None /\ tx[p].seen = live /\ uuid[cur] = tx[p].resolved.uuid
      BY <1>1, <2>2, OwnRotatedIsProved
    <3>2. tx[p].resolved.uuid = live.acct
      BY <3>1 DEF OwnerInv, Honest
    <3> QED
      BY <1>1, <2>2, <3>1, <3>2 DEF OwnerInv, UuidOwners
  <2> QED
    BY <1>1, <2>1, <2>2
<1> HIDE DEF cur, kind
<1>5. NoSilentContamination'
  BY <1>1, <1>2, <1>4 DEF OwnerInv, NoSilentContamination, TypeOK
<1>6. UuidOwners'
  BY <1>2 DEF OwnerInv, UuidOwners
<1>7. Honest(p)'
  <2>1. tx[p].resolved # None => tx[p].seen # None /\ tx[p].resolved.uuid = tx[p].seen.acct
    BY DEF OwnerInv, Honest
  <2> QED
    BY <1>1, <1>2, <1>3, <2>1 DEF Honest
<1>8. ASSUME NEW q \in Process \ {p} PROVE Honest(q)'
  BY <1>2, <1>3 DEF OwnerInv, Honest
<1> QED
  BY <1>5, <1>6, <1>7, <1>8 DEF OwnerInv

\* The sequence write, the one step that records a uuid.
LEMMA RecordOwner ==
  ASSUME IInv, OwnerInv, NEW p \in Process, Record(p)
  PROVE  OwnerInv'
<1> TypeOK
  BY DEF IInv
<1>1. pc[p] = "record" /\ pc' = [pc EXCEPT ![p] = "done"] /\ UNCHANGED <<bk, failedOpen>>
      /\ tx' = [tx EXCEPT ![p].result = "switched"]
      /\ uuid' = IF tx[p].backfill /\ uuid[tx[p].cur] = None
                 THEN [uuid EXCEPT ![tx[p].cur] = tx[p].resolved.uuid] ELSE uuid
  BY DEF Record, Goto
<1>2. \A q \in Process \ {p} : tx'[q] = tx[q] /\ pc'[q] = pc[q]
  BY <1>1 DEF TypeOK
<1>3. pc'[p] = "done" /\ tx'[p].resolved = tx[p].resolved /\ tx'[p].seen = tx[p].seen
  <2>1. tx[p] \in Tx
    BY DEF TypeOK
  <2>2. pc'[p] = "done" /\ tx'[p] = [tx[p] EXCEPT !.result = "switched"]
    BY <1>1 DEF TypeOK
  <2> QED
    BY <2>1, <2>2, TxResult
<1>4. tx[p].backfill => tx[p].cur \in Slot
                        /\ (uuid[tx[p].cur] # None \/ tx[p].cur \in failedOpen)
  BY <1>1 DEF OwnerInv, Honest, AfterSnapshot
<1>5. UuidOwners'
  BY <1>1, <1>4 DEF OwnerInv, UuidOwners, TypeOK
<1>6. NoSilentContamination'
  BY <1>1 DEF OwnerInv, NoSilentContamination
<1>7. Honest(p)'
  BY <1>3 DEF OwnerInv, Honest, AfterSnapshot
<1>8. ASSUME NEW q \in Process \ {p} PROVE Honest(q)'
  <2>1. pc[q] \notin AfterSnapshot
    BY <1>1, OneLocked DEF IInv, Locked, AfterSnapshot
  <2> QED
    BY <1>2, <2>1 DEF OwnerInv, Honest
<1> QED
  BY <1>5, <1>6, <1>7, <1>8 DEF OwnerInv

\* The other steps that take the snapshot.
LEMMA SnapshotOwner ==
  ASSUME IInv, OwnerInv, NEW p \in Process,
         DirectSnapshot(p) \/ StashForeign(p) \/ LeaveForeign(p) \/ BackUpConfigOnly(p)
  PROVE  OwnerInv'
<1> TypeOK
  BY DEF IInv
<1>1. PICK next \in {"displace", "activate"} : Snapshot(p, next)
  BY DEF DirectSnapshot, StashForeign, LeaveForeign, BackUpConfigOnly
<1>2. /\ \A q \in Process \ {p} : tx'[q] = tx[q] /\ pc'[q] = pc[q]
      /\ pc'[p] = next /\ tx'[p].seen = tx[p].seen /\ tx'[p].resolved = tx[p].resolved
      /\ tx'[p].backfill = (~ Direct(p) /\ ClassifyOutgoing(LiveSlot, tx[p]) = "own-rotated")
  BY <1>1, SnapshotTx
<1>3. UNCHANGED <<bk, uuid, failedOpen>>
  BY DEF DirectSnapshot, StashForeign, LeaveForeign, BackUpConfigOnly, store
<1>4. Direct(p) \/ ClassifyOutgoing(LiveSlot, tx[p]) # "own-rotated"
  BY DEF DirectSnapshot, StashForeign, LeaveForeign, BackUpConfigOnly, Normal
<1>5. Honest(p)'
  BY <1>2, <1>4 DEF OwnerInv, Honest
<1> QED
  BY <1>2, <1>3, <1>5, OwnerFrame

\* Steps before the locks.
LEMMA PrefetchOwner ==
  ASSUME IInv, OwnerInv, NEW p \in Process,
         \/ \E t \in Slot, force \in BOOLEAN : Call(p, t, force)
         \/ ReadLive(p) \/ Resolve(p)
  PROVE  OwnerInv'
<1> TypeOK
  BY DEF IInv
<1>1. UNCHANGED <<bk, uuid, failedOpen>>
  BY DEF Call, ReadLive, Resolve, store
<1> SUFFICES ASSUME TRUE
             PROVE  /\ \A q \in Process \ {p} : tx'[q] = tx[q] /\ pc'[q] = pc[q]
                    /\ Honest(p)'
  BY <1>1, OwnerFrame
<1>2. ASSUME NEW t \in Slot, NEW force \in BOOLEAN, Call(p, t, force)
      PROVE  (\A q \in Process \ {p} : tx'[q] = tx[q] /\ pc'[q] = pc[q]) /\ Honest(p)'
  <2> DEFINE n == [NoTx EXCEPT !.target = t, !.force = force]
  <2>1. n.resolved = None /\ n.backfill = FALSE
    BY TxCalled
  <2>2. tx' = [tx EXCEPT ![p] = n] /\ pc' = [pc EXCEPT ![p] = IF force THEN "file" ELSE "prefetch"]
    BY <1>2 DEF Call, Goto
  <2> HIDE DEF n
  <2> QED
    BY <2>1, <2>2 DEF TypeOK, Honest
<1>3. CASE ReadLive(p)
  <2> DEFINE n == [tx[p] EXCEPT !.seen = live]
  <2>1. n.resolved = tx[p].resolved
    BY TxSeen DEF TypeOK
  <2>2. (tx' = [tx EXCEPT ![p] = n] \/ tx' = tx) /\ pc' = [pc EXCEPT ![p] = "resolve"]
        /\ pc[p] = "prefetch"
    BY <1>3 DEF ReadLive, Goto
  <2>3. tx[p].resolved = None
    BY <2>2 DEF OwnerInv, Honest
  <2> HIDE DEF n
  <2> QED
    BY <2>1, <2>2, <2>3 DEF TypeOK, Honest, AfterSnapshot
<1>4. CASE Resolve(p)
  <2>1. PICK r \in (IF tx[p].seen # None THEN Answers(tx[p].seen.acct) ELSE {}) \cup {None} :
          \/ tx' = [tx EXCEPT ![p] = NoTx] /\ pc' = [pc EXCEPT ![p] = "idle"]
          \/ tx' = [tx EXCEPT ![p].resolved = r] /\ pc' = [pc EXCEPT ![p] = "file"]
    BY <1>4 DEF Resolve, Goto
  <2>2. tx[p] \in Tx /\ (tx[p].seen # None => tx[p].seen.acct \in Account)
    BY DEF TypeOK, Tx, Cred
  <2>3. r # None => tx[p].seen # None /\ r.uuid = tx[p].seen.acct
    BY <2>1 DEF Answers
  <2>4. r \in Identity \cup {None}
    BY <2>1, <2>2 DEF Answers, Identity
  <2> DEFINE n == [tx[p] EXCEPT !.resolved = r]
  <2>5. n.seen = tx[p].seen /\ n.resolved = r
    BY <2>2, <2>4, TxResolved
  <2>6. CASE tx' = [tx EXCEPT ![p] = NoTx] /\ pc' = [pc EXCEPT ![p] = "idle"]
    BY <2>6 DEF TypeOK, Honest, NoTx, AfterSnapshot
  <2>7. CASE tx' = [tx EXCEPT ![p] = n] /\ pc' = [pc EXCEPT ![p] = "file"]
    <3> HIDE DEF n
    <3> QED
      BY <2>3, <2>5, <2>7 DEF TypeOK, Honest, AfterSnapshot
  <2> QED
    BY <2>1, <2>6, <2>7
<1> QED
  BY <1>2, <1>3, <1>4

\* Every other step of a switch leaves what p knows as it is, or drops it.
LEMMA RestOwner ==
  ASSUME IInv, OwnerInv, NEW p \in Process,
         \/ AcquireFile(p) \/ AcquireCred(p) \/ AcquireConfig(p)
         \/ StashDisplaced(p) \/ BackUpConfig(p) \/ Activate(p) \/ Splice(p)
         \/ FailLate(p) \/ UndoConfig(p) \/ UndoCreds(p)
         \/ LockTimeout(p) \/ Refuse(p) \/ FailEarly(p) \/ Return(p) \/ Crash(p)
  PROVE  OwnerInv'
<1> TypeOK
  BY DEF IInv
<1>1. UNCHANGED <<bk, uuid, failedOpen>>
  BY DEF AcquireFile, AcquireCred, AcquireConfig, Take, StashDisplaced, BackUpConfig, Activate,
         Splice, FailLate, UndoConfig, UndoCreds, LockTimeout, Refuse, FailEarly, Return, Crash,
         Leave, store
<1>2. PICK l : pc' = [pc EXCEPT ![p] = l] /\ l # "prefetch"
               /\ (l \in AfterSnapshot => pc[p] \in AfterSnapshot)
  BY DEF AcquireFile, AcquireCred, AcquireConfig, Take, StashDisplaced, BackUpConfig, Activate,
         Splice, FailLate, UndoConfig, UndoCreds, LockTimeout, Refuse, FailEarly, Return, Crash,
         Leave, Goto, AfterSnapshot
<1>3. PICK x \in {"rolledBack", "undoFailed", "failed"} :
        \/ tx' = tx
        \/ tx' = [tx EXCEPT ![p] = NoTx]
        \/ tx' = [tx EXCEPT ![p].result = x] /\ l \notin AfterSnapshot
  <2>1. CASE FailLate(p)
    BY <1>2, <2>1 DEF FailLate, Goto, AfterSnapshot, TypeOK
  <2>2. CASE UndoConfig(p) \/ UndoCreds(p)
    BY <1>2, <2>2 DEF UndoConfig, UndoCreds, Goto, AfterSnapshot, TypeOK
  <2>3. CASE LockTimeout(p) \/ Refuse(p) \/ FailEarly(p) \/ Return(p) \/ Crash(p)
    BY <2>3 DEF LockTimeout, Refuse, FailEarly, Return, Crash, Leave
  <2>4. CASE AcquireFile(p) \/ AcquireCred(p) \/ AcquireConfig(p)
             \/ StashDisplaced(p) \/ BackUpConfig(p) \/ Activate(p) \/ Splice(p)
    BY <2>4 DEF AcquireFile, AcquireCred, AcquireConfig, Take, StashDisplaced, BackUpConfig,
                Activate, Splice
  <2> QED
    BY <2>1, <2>2, <2>3, <2>4
<1>4. pc'[p] = l /\ \A q \in Process \ {p} : tx'[q] = tx[q] /\ pc'[q] = pc[q]
  BY <1>2, <1>3 DEF TypeOK
<1>5. Honest(p)
  BY DEF OwnerInv
<1>6. CASE tx' = tx
  BY <1>1, <1>2, <1>4, <1>5, <1>6, OwnerFrame DEF Honest
<1>7. CASE tx' = [tx EXCEPT ![p] = NoTx]
  <2>1. tx'[p].resolved = None /\ tx'[p].backfill = FALSE
    BY <1>7 DEF TypeOK, NoTx
  <2> QED
    BY <1>1, <1>2, <1>4, <2>1, OwnerFrame DEF Honest
<1>8. CASE tx' = [tx EXCEPT ![p].result = x] /\ l \notin AfterSnapshot
  <2>1. tx[p] \in Tx /\ tx'[p] = [tx[p] EXCEPT !.result = x]
    BY <1>8 DEF TypeOK
  <2>2. tx'[p].resolved = tx[p].resolved /\ tx'[p].seen = tx[p].seen
    BY <2>1, TxResult
  <2> QED
    BY <1>1, <1>2, <1>4, <1>5, <1>8, <2>2, OwnerFrame DEF Honest
<1> QED
  BY <1>3, <1>6, <1>7, <1>8

\* Every step preserves the strengthened invariant.
LEMMA NextOwner == IInv /\ OwnerInv /\ [Next]_vars => OwnerInv'
<1> SUFFICES ASSUME IInv, OwnerInv, [Next]_vars PROVE OwnerInv'
  OBVIOUS
<1>1. CASE UNCHANGED vars \/ Claude
  <2>1. UNCHANGED <<bk, uuid, failedOpen, pc, tx>>
    BY <1>1 DEF vars, store, Claude, RefreshAccess, Rotate, LoginToken, LoginConfig,
                WriteOwnConfig, Logout, ClaudeUnchanged
  <2> QED
    BY <2>1 DEF OwnerInv, NoSilentContamination, UuidOwners, Honest
<1>2. ASSUME NEW p \in Process, Step(p) \/ \E t \in Slot, force \in BOOLEAN : Call(p, t, force)
      PROVE  OwnerInv'
  BY <1>2, PrefetchOwner, RestOwner, SnapshotOwner, BackUpOwner, RecordOwner DEF Step
<1> QED
  BY <1>1, <1>2 DEF Next

\* A slot holds another account's credential only after a backup the code took
\* on trust: whatever the interleaving of switches, logins, rotations, crashes
\* and rollbacks, for any number of processes, slots and accounts.
THEOREM NoContamination == Spec => []NoSilentContamination
<1>1. Init => OwnerInv
  BY InitOwner
<1>2. IInv /\ OwnerInv /\ [Next]_vars => OwnerInv'
  BY NextOwner
<1>3. OwnerInv => NoSilentContamination
  BY DEF OwnerInv
<1> QED
  BY <1>1, <1>2, <1>3, Invariance, PTL DEF Spec
---------------------------------------------------------------------------
(* Nothing is lost.                                                          *)

\* There is a copy of the live credential's lineage besides the live one.
Kept == live \in stash \/ \E s \in Slot : bk[s] # None /\ FingerprintEqual(bk[s], live)

\* What process p may overwrite without loss.
Copied(p) ==
  /\ pc[p] = "backupConfig" => live = bk[tx[p].cur]
  /\ pc[p] = "activate" /\ tx[p].had /\ live # None => Kept \/ (tx[p].force /\ faults > 0)
  /\ pc[p] \in {"undoConfig", "undoCreds"} => live = bk[tx[p].target]

CopyInv == \A p \in Process : Copied(p)

LEMMA InitCopy == Init => CopyInv
  BY DEF Init, CopyInv, Copied

\* Outside the locks nobody touches a credential.
LEMMA UnlockedIsQuiet ==
  ASSUME NEW p \in Process, pc[p] \notin Locked,
         Step(p) \/ \E t \in Slot, force \in BOOLEAN : Call(p, t, force)
  PROVE  UNCHANGED <<live, bk, prev, stash, dead>>
  BY DEF Step, Locked, Call, ReadLive, Resolve, AcquireFile, AcquireCred, AcquireConfig, Take,
     LockTimeout, Refuse, DirectSnapshot, StashDisplaced, StashForeign, LeaveForeign,
     BackUpConfigOnly, BackUpLive, BackUpConfig, Normal, Activate, Splice, Record, FailEarly,
     BeforeCommit, FailLate, UndoConfig, UndoCreds, Return, Crash, Leave, store, env

\* A step of p leaves the others where they are.
LEMMA OthersWait ==
  ASSUME TypeOK, NEW p \in Process,
         Step(p) \/ \E t \in Slot, force \in BOOLEAN : Call(p, t, force)
  PROVE  \A q \in Process \ {p} : tx'[q] = tx[q] /\ pc'[q] = pc[q]
<1>1. CASE DirectSnapshot(p) \/ StashForeign(p) \/ LeaveForeign(p) \/ BackUpConfigOnly(p) \/ BackUpLive(p)
  BY <1>1, SnapshotTx DEF DirectSnapshot, StashForeign, LeaveForeign, BackUpConfigOnly, BackUpLive
<1>2. CASE \/ \E t \in Slot, force \in BOOLEAN : Call(p, t, force)
           \/ ReadLive(p) \/ Resolve(p)
           \/ AcquireFile(p) \/ AcquireCred(p) \/ AcquireConfig(p)
  BY <1>2 DEF Call, ReadLive, Resolve, AcquireFile, AcquireCred, AcquireConfig, Take, Goto, TypeOK
<1>3. CASE \/ StashDisplaced(p) \/ BackUpConfig(p) \/ Activate(p) \/ Splice(p)
           \/ Record(p) \/ FailLate(p) \/ UndoConfig(p) \/ UndoCreds(p)
  BY <1>3 DEF StashDisplaced, BackUpConfig, Activate, Splice, Record, FailLate, UndoConfig,
              UndoCreds, Goto, TypeOK
<1>4. CASE LockTimeout(p) \/ Refuse(p) \/ FailEarly(p) \/ Return(p) \/ Crash(p)
  BY <1>4 DEF LockTimeout, Refuse, FailEarly, Return, Crash, Leave, Goto, TypeOK
<1> QED
  BY <1>1, <1>2, <1>3, <1>4 DEF Step

\* Nobody wipes the stash, and faults are not forgotten.
LEMMA FaultsGrow ==
  ASSUME TypeOK, NEW p \in Process,
         Step(p) \/ \E t \in Slot, force \in BOOLEAN : Call(p, t, force)
  PROVE  faults' >= faults
<1>1. Fault \/ UNCHANGED faults
  BY DEF Step, Call, ReadLive, Resolve, AcquireFile, AcquireCred, AcquireConfig, Take,
     LockTimeout, Refuse, DirectSnapshot, StashDisplaced, StashForeign, LeaveForeign,
     BackUpConfigOnly, BackUpLive, WriteBackup, BackUpConfig, Activate, Splice, Record, FailEarly,
     FailLate, UndoConfig, UndoCreds, Return, Crash
<1> QED
  BY <1>1, SwitchAssumption DEF Fault, TypeOK

\* The outgoing credential has its copy when the snapshot is taken.
LEMMA SnapshotCopies ==
  ASSUME IInv, NEW p \in Process,
         \/ DirectSnapshot(p) \/ StashForeign(p) \/ LeaveForeign(p)
         \/ BackUpConfigOnly(p) \/ BackUpLive(p)
  PROVE  Copied(p)'
<1> TypeOK /\ tx[p].target \in Slot
  BY DEF IInv, Progress, InFlight, DirectSnapshot, StashForeign, LeaveForeign, BackUpConfigOnly,
         BackUpLive, Normal
<1>1. LiveSlot \in Slot \cup {None} /\ (~ Direct(p) => LiveSlot \in Slot)
  BY FindSlotType DEF LiveSlot, Direct
<1>2. ASSUME NEW next, Snapshot(p, next)
      PROVE  /\ pc'[p] = next /\ tx'[p].cur = LiveSlot
             /\ tx'[p].had = (~ Direct(p) \/ cfg.id # None)
  BY <1>2, SnapshotTx
<1>3. CASE DirectSnapshot(p)
  <2>1. CASE cfg.id # None /\ live # None /\ live # bk[tx[p].target]
    BY <1>2, <1>3, <2>1 DEF DirectSnapshot, Copied
  <2>2. CASE ~ (cfg.id # None /\ live # None /\ live # bk[tx[p].target])
    <3>1. pc'[p] = "activate" /\ (tx'[p].had /\ live # None => live = bk[tx[p].target])
      BY <1>2, <1>3, <2>2 DEF DirectSnapshot
    <3>2. UNCHANGED <<live, bk>>
      BY <1>3 DEF DirectSnapshot, store
    <3> QED
      BY <3>1, <3>2 DEF Copied, Kept, FingerprintEqual
  <2> QED
    BY <2>1, <2>2
<1>4. CASE StashForeign(p)
  BY <1>2, <1>4 DEF StashForeign, Copied, Kept
<1>5. CASE LeaveForeign(p) \/ BackUpConfigOnly(p)
  <2>1. pc'[p] = "activate" /\ UNCHANGED <<live, bk>> /\ ~ Direct(p) /\ live # None
    BY <1>2, <1>5 DEF LeaveForeign, BackUpConfigOnly, Normal, store
  <2>2. \E s \in Slot : MatchesBackup(live, s)
    <3>1. CASE BackUpConfigOnly(p)
      <4>1. bk[LiveSlot] = live
        BY <3>1 DEF BackUpConfigOnly, Normal, ClassifyOutgoing, ClassifyResolved
      <4> QED
        BY <1>1, <2>1, <4>1 DEF MatchesBackup
    <3>2. CASE LeaveForeign(p)
      <4>1. ClassifyOutgoing(LiveSlot, tx[p]) = "foreign-synced"
        BY <3>2 DEF LeaveForeign, Normal
      <4>2. ClassifyResolved(tx[p].resolved, LiveSlot) = "foreign-synced"
        BY <4>1 DEF ClassifyOutgoing
      <4> DEFINE N == SlotsNamed(tx[p].resolved)
      <4>3. N # {} /\ MatchesBackup(live, CHOOSE s \in N : TRUE)
        BY <4>2 DEF ClassifyResolved
      <4>4. N \subseteq Slot
        BY DEF SlotsNamed, SlotsByUuid
      <4> QED
        BY <4>3, <4>4
    <3> QED
      BY <1>5, <3>1, <3>2
  <2> QED
    BY <2>1, <2>2 DEF Copied, Kept, MatchesBackup, FingerprintEqual
<1>6. CASE BackUpLive(p)
  <2>1. pc'[p] = "backupConfig" /\ tx'[p].cur = LiveSlot /\ LiveSlot \in Slot
        /\ bk' = [bk EXCEPT ![LiveSlot] = live] /\ live' = live
    BY <1>1, <1>2, <1>6 DEF BackUpLive, Normal, WriteBackup
  <2> QED
    BY <2>1 DEF Copied, TypeOK
<1> QED
  BY <1>3, <1>4, <1>5, <1>6

\* A process keeps the copy it made, up to the end of its rollback.
LEMMA OwnCopies ==
  ASSUME IInv, CopyInv, NEW p \in Process,
         Step(p) \/ \E t \in Slot, force \in BOOLEAN : Call(p, t, force)
  PROVE  Copied(p)'
<1> TypeOK /\ InFlight(p) /\ Copied(p) /\ tx[p] \in Tx
  BY DEF IInv, Progress, CopyInv, TypeOK
<1> DEFINE Careful == {"backupConfig", "activate", "undoConfig", "undoCreds"}
<1>0. pc'[p] \notin Careful => Copied(p)'
  BY DEF Copied
<1>1. CASE \/ DirectSnapshot(p) \/ StashForeign(p) \/ LeaveForeign(p)
           \/ BackUpConfigOnly(p) \/ BackUpLive(p)
  BY <1>1, SnapshotCopies
<1>2. CASE StashDisplaced(p)
  <2>1. pc'[p] = "activate" /\ UNCHANGED <<live, bk, tx>>
        /\ (live \in stash' \/ (tx[p].force /\ faults' = faults + 1))
    BY <1>2 DEF StashDisplaced, Goto, Fault, TypeOK
  <2>2. faults + 1 > 0
    BY DEF TypeOK
  <2> QED
    BY <2>1, <2>2 DEF Copied, Kept
<1>3. CASE BackUpConfig(p)
  <2>1. pc'[p] = "activate" /\ UNCHANGED <<live, bk, tx, faults, stash>> /\ pc[p] = "backupConfig"
    BY <1>3 DEF BackUpConfig, Goto, TypeOK
  <2>2. live = bk[tx[p].cur] /\ tx[p].cur \in Slot
    BY <2>1 DEF Copied, InFlight
  <2> QED
    BY <2>1, <2>2 DEF Copied, Kept, FingerprintEqual
<1>4. CASE FailLate(p)
  <2>1. /\ pc[p] \in {"splice", "record"} /\ UNCHANGED <<live, bk>> /\ pc'[p] # "activate"
        /\ pc'[p] # "backupConfig"
    BY <1>4 DEF FailLate, Goto, store, TypeOK
  <2>2. tx'[p].target = tx[p].target
    BY <1>4, TxResult DEF FailLate, SameLedger, TypeOK
  <2> QED
    BY <2>1, <2>2 DEF Copied, InFlight
<1>5. CASE UndoConfig(p)
  <2>1. pc[p] = "undoConfig" /\ pc'[p] = "undoCreds" /\ UNCHANGED <<live, bk>>
    BY <1>5 DEF UndoConfig, Goto, store, TypeOK
  <2>2. tx'[p].target = tx[p].target
    <3>1. tx' = tx \/ tx' = [tx EXCEPT ![p].result = "undoFailed"]
      BY <1>5 DEF UndoConfig
    <3>2. tx'[p] = tx[p] \/ tx'[p] = [tx[p] EXCEPT !.result = "undoFailed"]
      BY <3>1 DEF TypeOK
    <3>3. "undoFailed" \in {None, "switched", "rolledBack", "undoFailed", "failed"}
      OBVIOUS
    <3>4. SameLedger([tx[p] EXCEPT !.result = "undoFailed"], tx[p])
      BY <3>3, TxResult
    <3> QED
      BY <3>2, <3>4 DEF SameLedger
  <2> QED
    BY <2>1, <2>2 DEF Copied
<1>6. CASE \/ \E t \in Slot, force \in BOOLEAN : Call(p, t, force)
           \/ ReadLive(p) \/ Resolve(p)
           \/ AcquireFile(p) \/ AcquireCred(p) \/ AcquireConfig(p)
  BY <1>0, <1>6 DEF Call, ReadLive, Resolve, AcquireFile, AcquireCred, AcquireConfig, Take, Goto, TypeOK
<1>7. CASE \/ Activate(p) \/ Splice(p) \/ Record(p) \/ UndoCreds(p)
           \/ LockTimeout(p) \/ Refuse(p) \/ FailEarly(p) \/ Return(p) \/ Crash(p)
  BY <1>0, <1>7 DEF Activate, Splice, Record, UndoCreds, LockTimeout, Refuse, FailEarly, Return,
                    Crash, Leave, Goto, TypeOK
<1> QED
  BY <1>1, <1>2, <1>3, <1>4, <1>5, <1>6, <1>7 DEF Step

LEMMA NextCopy == IInv /\ CopyInv /\ [Next]_vars => CopyInv'
<1> SUFFICES ASSUME IInv, CopyInv, [Next]_vars PROVE CopyInv'
  OBVIOUS
<1> TypeOK
  BY DEF IInv
<1>1. CASE UNCHANGED vars
  BY <1>1 DEF vars, store, CopyInv, Copied, Kept
<1>2. CASE Claude
  <2>1. UNCHANGED pc /\ (lock.cred = None \/ lock.config = None)
    BY <1>2 DEF Claude, RefreshAccess, Rotate, LoginToken, LoginConfig, WriteOwnConfig, Logout,
                ClaudeUnchanged
  <2>2. \A p \in Process : pc[p] \notin Locked
    BY <2>1, SwitchAssumption DEF IInv, LockOwners
  <2> QED
    BY <2>1, <2>2 DEF CopyInv, Copied, Locked
<1>3. ASSUME NEW p \in Process, Step(p) \/ \E t \in Slot, force \in BOOLEAN : Call(p, t, force)
      PROVE  CopyInv'
  <2>1. \A q \in Process \ {p} : tx'[q] = tx[q] /\ pc'[q] = pc[q]
    BY <1>3, OthersWait
  <2>2. ASSUME NEW q \in Process \ {p} PROVE Copied(q)'
    <3>1. CASE pc[p] \in Locked
      BY <2>1, <3>1, OneLocked DEF IInv, Copied, Locked
    <3>2. CASE pc[p] \notin Locked
      <4>1. UNCHANGED <<live, bk, stash>>
        BY <1>3, <3>2, UnlockedIsQuiet
      <4>2. faults' >= faults /\ faults \in Nat /\ faults' \in Nat
        <5>1. TypeOK'
          BY <1>3, NextIInv DEF IInv, Next
        <5> QED
          BY <1>3, <5>1, FaultsGrow DEF TypeOK
      <4> QED
        BY <2>1, <4>1, <4>2 DEF CopyInv, Copied, Kept
    <3> QED
      BY <3>1, <3>2
  <2> QED
    BY <1>3, <2>2, OwnCopies DEF CopyInv
<1> QED
  BY <1>1, <1>2, <1>3 DEF Next
\* What no step of a switch may lose, as a predicate of one step.
KeepsUsable ==
  \A p \in Process : pc'[p] # pc[p] /\ ~ LossAccepted(p) =>
    \A a \in Account : Usable(a) => Usable(a)'

\* A step under which every usable credential has a usable counterpart keeps them all.
LEMMA StillUsable ==
  ASSUME UNCHANGED dead, \A c \in Copies : Accepted(c) =>
                           \E d \in Copies' : d.acct = c.acct /\ Accepted(d)
  PROVE  \A a \in Account : Usable(a) => Usable(a)'
<1>1. \A d : Accepted(d)' <=> Accepted(d)
  BY DEF Accepted
<1> QED
  BY <1>1 DEF Usable

\* The backup of the outgoing credential pushes out at most the slot's .prev.
LEMMA BackUpKeeps ==
  ASSUME IInv, NEW p \in Process, BackUpLive(p), ~ LossAccepted(p)
  PROVE  \A a \in Account : Usable(a) => Usable(a)'
<1> TypeOK
  BY DEF IInv
<1> DEFINE s == LiveSlot
<1>1. /\ pc[p] = "locked" /\ ~ Direct(p) /\ s \in Slot /\ live # None
      /\ WriteBackup(s, live) /\ UNCHANGED <<live, stash, dead>>
  BY FindSlotType DEF BackUpLive, Normal, Direct, LiveSlot, env
<1>2. /\ faults' = faults /\ ~ Contaminated(s)
      /\ Accepted(bk[s]) \/ (Accepted(live) /\ live.acct = OwnerOf[s])
  BY <1>1 DEF LossAccepted
<1> HIDE DEF s
<1>3. /\ bk' = [bk EXCEPT ![s] = live]
      /\ prev' = IF bk[s] \in {None, live} THEN prev ELSE [prev EXCEPT ![s] = bk[s]]
  BY <1>1, <1>2 DEF WriteBackup, Fault, TypeOK
<1>4. live \in Copies' /\ \A z \in Slot \ {s} : bk'[z] = bk[z] /\ prev'[z] = prev[z]
  BY <1>1, <1>3 DEF Copies, TypeOK
<1>5. bk[s] # None => bk[s] \in Copies'
  BY <1>1, <1>3, <1>4 DEF Copies, TypeOK
<1>6. ASSUME NEW c \in Copies, Accepted(c)
      PROVE  \E d \in Copies' : d.acct = c.acct /\ Accepted(d)
  <2>1. CASE c = prev[s] /\ bk[s] \notin {None, live}
    <3>1. c.acct = OwnerOf[s] /\ bk[s].acct = OwnerOf[s]
      BY <1>2, <1>6, <2>1 DEF Contaminated, Accepted
    <3> QED
      BY <1>2, <1>4, <1>5, <2>1, <3>1
  <2>2. CASE c = bk[s]
    BY <1>5, <1>6, <2>2 DEF Accepted
  <2>3. CASE c = prev[s] /\ bk[s] \in {None, live}
    BY <1>1, <1>3, <1>6, <2>3 DEF Copies, Accepted
  <2>4. CASE c = live \/ c \in stash \/ \E z \in Slot \ {s} : c \in {bk[z], prev[z]}
    BY <1>1, <1>4, <1>6, <2>4 DEF Copies, Accepted
  <2> QED
    BY <2>1, <2>2, <2>3, <2>4 DEF Copies
<1> QED
  BY <1>1, <1>6, StillUsable

\* The activation overwrites a credential that has its copy.
LEMMA ActivateKeeps ==
  ASSUME IInv, CopyInv, NEW p \in Process, Activate(p), ~ LossAccepted(p)
  PROVE  \A a \in Account : Usable(a) => Usable(a)'
<1>1. /\ pc[p] = "activate" /\ UNCHANGED <<bk, prev, stash, dead>>
      /\ tx[p].had /\ ~ (tx[p].force /\ live \notin stash /\ faults > 0)
  BY DEF Activate, LossAccepted, store, env
<1>2. live = None \/ Kept
  BY <1>1 DEF CopyInv, Copied, Kept
<1>3. \A c \in Copies \ {live} : c \in Copies'
  BY <1>1 DEF Copies
<1>4. live # None => \E d \in Copies' : d.acct = live.acct /\ (Accepted(live) => Accepted(d))
  <2>1. CASE live \in stash
    BY <1>1, <2>1 DEF Copies
  <2>2. ASSUME NEW s \in Slot, bk[s] # None, FingerprintEqual(bk[s], live)
        PROVE  bk[s] \in Copies' /\ bk[s].acct = live.acct /\ (Accepted(live) => Accepted(bk[s]))
    BY <1>1, <2>2 DEF Copies, FingerprintEqual, Accepted
  <2> QED
    BY <1>2, <2>1, <2>2 DEF Kept
<1> QED
  BY <1>1, <1>3, <1>4, StillUsable DEF Accepted

\* No step of a switch, its rollback and its death included, destroys the last credential of
\* an account that the server still accepts, but for the losses the code accepts: for any
\* number of processes, slots, accounts, lineages and faults.
THEOREM NothingIsLost == Spec => NothingLost
<1>1. IInv /\ CopyInv /\ [Next]_vars => [KeepsUsable]_vars
  <2> SUFFICES ASSUME IInv, CopyInv, [Next]_vars, NEW p \in Process, pc'[p] # pc[p],
                      ~ LossAccepted(p)
               PROVE  \A a \in Account : Usable(a) => Usable(a)'
    BY DEF KeepsUsable
  <2> TypeOK
    BY DEF IInv
  <2>1. Step(p) \/ \E t \in Slot, force \in BOOLEAN : Call(p, t, force)
    <3>1. ~ UNCHANGED vars /\ ~ Claude
      BY DEF vars, Claude, RefreshAccess, Rotate, LoginToken, LoginConfig, WriteOwnConfig, Logout,
             ClaudeUnchanged
    <3> QED
      BY <3>1, OthersWait DEF Next
  <2>2. CASE BackUpLive(p)
    BY <2>2, BackUpKeeps
  <2>3. CASE Activate(p)
    BY <2>3, ActivateKeeps
  <2>4. CASE StashDisplaced(p) \/ StashForeign(p)
    <3>1. UNCHANGED <<live, bk, prev, dead>> /\ stash \subseteq stash'
      BY <2>4 DEF StashDisplaced, StashForeign, env
    <3>2. Copies \subseteq Copies'
      BY <3>1 DEF Copies
    <3> QED
      BY <3>1, <3>2, StillUsable
  <2>5. CASE UndoCreds(p)
    <3>1. UNCHANGED <<bk, prev, stash, dead>> /\ live = bk[tx[p].target] /\ tx[p].target \in Slot
      BY <2>5 DEF UndoCreds, store, env, CopyInv, Copied, IInv, Progress, InFlight
    <3>2. Copies \subseteq Copies'
      BY <3>1 DEF Copies
    <3> QED
      BY <3>1, <3>2, StillUsable
  <2>6. CASE ~ (BackUpLive(p) \/ Activate(p) \/ StashDisplaced(p) \/ StashForeign(p) \/ UndoCreds(p))
    <3>1. UNCHANGED <<live, bk, prev, stash, dead>>
      BY <2>1, <2>6 DEF Step, Call, ReadLive, Resolve, AcquireFile, AcquireCred, AcquireConfig, Take,
         LockTimeout, Refuse, DirectSnapshot, LeaveForeign, BackUpConfigOnly, BackUpConfig, Splice,
         Record, FailEarly, FailLate, UndoConfig, Return, Crash, Leave, store, env
    <3> QED
      BY <3>1, StillUsable DEF Copies
  <2> QED
    BY <2>2, <2>3, <2>4, <2>5, <2>6
<1>2. Spec => []CopyInv
  <2>1. Spec => []IInv
    BY Invariance
  <2> QED
    BY <2>1, InitCopy, NextCopy, PTL DEF Spec
<1> QED
  BY <1>1, <1>2, Invariance, PTL DEF Spec, NothingLost, KeepsUsable
=============================================================================
