------------------------------- MODULE Vault --------------------------------
(***************************************************************************)
(* Where credentials are kept (internal/credstore) and how they got there  *)
(* (internal/migrations): .enc files on every platform and the macOS       *)
(* Keychain while it can be used, which each process learns for itself.    *)
(*                                                                         *)
(* A backup is written, replaced and deleted under cswap's lock, one       *)
(* backend call at a time; it is read without it.  The migrations run in   *)
(* store.New, without the lock, in every process that starts.  The active  *)
(* credential is written in one step (Switch models its place).            *)
(*                                                                         *)
(* Credentials are numbers, 0 is none.  The Keychain is locked and         *)
(* unlocked by the user: every call fails while it is locked.  A file that *)
(* is there can be read.                                                   *)
(***************************************************************************)
EXTENDS Integers, FiniteSets

CONSTANTS Num,                \* slots
          Proc, Free,         \* processes; nobody
          MaxCred,            \* bounds: credentials, operations per process,
          MaxOps, MaxTrouble  \* failures (a call, a death, the Keychain's lock)

ASSUME VaultAssumption ==
  /\ Num \subseteq Nat \ {0} /\ IsFiniteSet(Num) /\ 1 \in Num /\ Free \notin Proc
  /\ {MaxCred, MaxOps, MaxTrouble} \subseteq Nat
  /\ 20 <= MaxCred /\ \A n \in Num : 10 + n <= MaxCred  \* what VaultInit starts from

Kinds == {<<"backup", n>> : n \in Num} \cup {<<"prev", n>> : n \in Num}
           \cup {<<"active", 1>>, <<"active", 2>>}
OAuth == <<"active", 1>>      \* .credentials.json, "Claude Code-credentials"
Key == <<"active", 2>>        \* primaryApiKey, "Claude Code"
Backup(n) == <<"backup", n>>
Prev(n) == <<"prev", n>>

VARIABLES
  mac,        \* macOS; otherwise Windows, without a Keychain
  disk, kc,   \* what the files and the Keychain hold, by kind
  legacy,     \* what the old program stored: <<"slot", n>>, <<"none", email>>
  mail,       \* slot -> email
  applied,    \* .migrations.json records the migration
  locked,     \* the Keychain is
  flock,      \* cswap's lock
  cache,      \* process -> what it knows of the Keychain
  proc,       \* process -> its operation
  trouble,
  acked,      \* history, by slot: what a reader may be given
  moved,      \* history: slots whose backup was written or deleted by a command
  mixed       \* history: a migration ran beside a command or another migration

vaultVars == <<mac, disk, kc, legacy, mail, applied, locked, flock, cache, proc, trouble,
               acked, moved, mixed>>
stores == <<disk, kc, legacy, applied>>
ghosts == <<acked, moved, mixed>>

At(st) == [st |-> st, n |-> 0, cred |-> 0, todo |-> {}, failed |-> FALSE, from |-> <<>>, ops |-> 0]

Sources == {<<"slot", n>> : n \in Num} \cup {<<"none", n>> : n \in Num}

VaultInit ==
  /\ mac \in BOOLEAN
  /\ mail \in {[n \in Num |-> n], [n \in Num |-> 1]}
  \* The old program's entry of slot n is credential n, an account-None one 10 + email.
  /\ legacy \in {[s \in Sources |-> IF s \in have THEN (IF s[1] = "none" THEN 10 ELSE 0) + s[2] ELSE 0] :
                   have \in {{<<"slot", n>> : n \in Num}, {<<"none", 1>>}, Sources}}
  /\ disk = [k \in Kinds |-> 0]
  /\ kc = [k \in Kinds |-> IF mac /\ k = OAuth THEN 20 ELSE 0]
  /\ applied = FALSE /\ locked \in {FALSE, mac} /\ flock = Free
  /\ cache = [p \in Proc |-> "unprobed"] /\ proc = [p \in Proc |-> At("new")]
  /\ trouble = 0
  /\ acked = [n \in Num |-> {0}] /\ moved = {} /\ mixed = FALSE

Trouble == trouble < MaxTrouble /\ trouble' = trouble + 1
Fine == UNCHANGED trouble
Now(p, r) == proc' = [proc EXCEPT ![p] = r]

\* Reads are .enc-wins on every platform.
Served(n) == IF disk[Backup(n)] # 0 THEN disk[Backup(n)] ELSE kc[Backup(n)]
ReadBackup(n) == IF disk[Backup(n)] = 0 /\ locked THEN 0 ELSE Served(n)

-----------------------------------------------------------------------------
(* What a process knows of the Keychain *)

UseKeychain(p) == mac /\ cache[p] \in {"unprobed", "yes"}

\* learn: a failure disables the Keychain until the cooldown is over, a success
\* only settles what was not known.
LearnedFrom(c) == IF locked THEN "no" ELSE IF c = "unprobed" THEN "yes" ELSE c
Learn(p) == cache' = [cache EXCEPT ![p] = LearnedFrom(@)]

\* The recheck cooldown: file mode pinned by a write has none.
CooldownElapses(p) ==
  /\ cache[p] = "no"
  /\ cache' = [cache EXCEPT ![p] = "unprobed"]
  /\ UNCHANGED <<mac, stores, mail, locked, flock, proc, trouble, ghosts>>

\* The user locks or unlocks the Keychain.
KeychainToggles ==
  /\ mac /\ Trouble /\ locked' = ~locked
  /\ UNCHANGED <<mac, stores, mail, flock, cache, proc, ghosts>>

-----------------------------------------------------------------------------
(* Backups, under the lock *)

Alone(p) == \A q \in Proc \ {p} : proc[q].st \in {"new", "idle", "dead"}

\* A credential that nobody holds or has in hand.
InUse(c) == \/ \E k \in Kinds : c \in {disk[k], kc[k]}
            \/ \E p \in Proc : c = proc[p].cred
Fresh == IF \A c \in 21 .. MaxCred : InUse(c) THEN MaxCred + 1
         ELSE CHOOSE c \in 21 .. MaxCred : ~InUse(c)

BeginOp(p, n, st, c) ==
  /\ proc[p].st = "idle" /\ proc[p].ops < MaxOps
  /\ flock = Free /\ flock' = p
  /\ Now(p, [At(st) EXCEPT !.n = n, !.cred = c, !.ops = proc[p].ops + 1])
  /\ mixed' = (mixed \/ ~Alone(p))
  /\ moved' = moved \cup {n}
  /\ UNCHANGED <<mac, stores, mail, locked, cache, trouble>>

\* The operation is over; a write that succeeded is what readers get from now on.
EndOp(p, result) ==
  /\ flock' = Free
  /\ Now(p, [At("idle") EXCEPT !.ops = proc[p].ops])
  /\ acked' = IF result = {} THEN acked ELSE [acked EXCEPT ![proc[p].n] = result]
  /\ UNCHANGED <<moved, mixed>>

BeginWrite(p, n) ==
  /\ Fresh <= MaxCred
  /\ BeginOp(p, n, "retain", Fresh)
  /\ acked' = [acked EXCEPT ![n] = @ \cup {Fresh}]

\* retainPreviousBackup: best effort, routed like the backup itself.
RetainPreviousBackup(p) ==
  LET n == proc[p].n
      asked == mac /\ disk[Backup(n)] = 0
      known == IF asked THEN LearnedFrom(cache[p]) ELSE cache[p]
      keep == ReadBackup(n) \notin {0, proc[p].cred}
      inKC == keep /\ mac /\ known \in {"unprobed", "yes"}
  IN  /\ proc[p].st = "retain"
      /\ cache' = [cache EXCEPT ![p] = IF inKC THEN LearnedFrom(known) ELSE known]
      /\ kc' = IF inKC /\ ~locked THEN [kc EXCEPT ![Prev(n)] = ReadBackup(n)] ELSE kc
      /\ disk' = IF keep /\ ~inKC THEN [disk EXCEPT ![Prev(n)] = ReadBackup(n)] ELSE disk
      /\ Now(p, [proc[p] EXCEPT !.st = "put"])
      /\ UNCHANGED <<mac, legacy, mail, applied, locked, flock, trouble, ghosts>>

\* WriteBackup: the Keychain when it is usable, the file when it is not or fails.
PutInKeychain(p) ==
  /\ proc[p].st = "put" /\ UseKeychain(p) /\ Learn(p)
  /\ kc' = IF locked THEN kc ELSE [kc EXCEPT ![Backup(proc[p].n)] = proc[p].cred]
  /\ Now(p, [proc[p] EXCEPT !.st = IF locked THEN "file" ELSE "reconcile"])
  /\ UNCHANGED <<mac, disk, legacy, mail, applied, locked, flock, trouble, ghosts>>

PutInFile(p) ==
  /\ proc[p].st = "file" \/ (proc[p].st = "put" /\ ~UseKeychain(p))
  /\ \/ /\ disk' = [disk EXCEPT ![Backup(proc[p].n)] = proc[p].cred]
        /\ IF mac THEN Now(p, [proc[p] EXCEPT !.st = "sweep"]) /\ UNCHANGED <<flock, ghosts>>
           ELSE EndOp(p, {proc[p].cred})
        /\ Fine
     \/ Trouble /\ EndOp(p, {}) /\ UNCHANGED disk
  /\ UNCHANGED <<mac, kc, legacy, mail, applied, locked, cache>>

\* The stale Keychain copy, best effort.
SweepKeychain(p) ==
  /\ proc[p].st = "sweep" /\ Learn(p)
  /\ kc' = IF locked THEN kc ELSE [kc EXCEPT ![Backup(proc[p].n)] = 0]
  /\ EndOp(p, {proc[p].cred})
  /\ UNCHANGED <<mac, disk, legacy, mail, applied, locked, trouble>>

\* reconcileEncAfterKeychainWrite: the file must not outlive the newer item.
ReconcileBug(p) ==
  /\ proc[p].st = "reconcile" /\ Fine /\ EndOp(p, {proc[p].cred})
  /\ UNCHANGED <<mac, disk, kc, legacy, mail, applied, locked, cache>>
Reconcile(p) ==
  LET b == Backup(proc[p].n)
  IN  /\ proc[p].st = "reconcile"
      /\ \/ disk' = [disk EXCEPT ![b] = 0] /\ Fine /\ EndOp(p, {proc[p].cred})
         \/ /\ disk[b] # 0 /\ Trouble
            /\ \/ disk' = [disk EXCEPT ![b] = proc[p].cred] /\ EndOp(p, {proc[p].cred})
               \/ UNCHANGED disk /\ EndOp(p, {})
      /\ UNCHANGED <<mac, kc, legacy, mail, applied, locked, cache>>

\* DeleteBackup sweeps and never fails; nothing is promised of the slot by then.
BeginDelete(p, n, strict) ==
  /\ BeginOp(p, n, "unlink", IF strict THEN 1 ELSE 0)
  /\ acked' = [acked EXCEPT ![n] = 0 .. MaxCred]

DeleteEnc(p) ==
  /\ proc[p].st = "unlink"
  /\ \/ disk' = [disk EXCEPT ![Backup(proc[p].n)] = 0, ![Prev(proc[p].n)] = 0] /\ Fine
     \/ disk[Backup(proc[p].n)] # 0 /\ Trouble /\ UNCHANGED disk
  /\ Now(p, [proc[p] EXCEPT !.st = "drop"])
  /\ UNCHANGED <<mac, kc, legacy, mail, applied, locked, flock, cache, ghosts>>

DropItem(p) ==
  /\ proc[p].st = "drop"
  /\ IF mac THEN Learn(p) ELSE UNCHANGED cache
  /\ kc' = IF locked THEN kc ELSE [kc EXCEPT ![Backup(proc[p].n)] = 0, ![Prev(proc[p].n)] = 0]
  /\ IF proc[p].cred = 0 THEN EndOp(p, {})
     ELSE Now(p, [proc[p] EXCEPT !.st = "strict"]) /\ UNCHANGED <<flock, ghosts>>
  /\ UNCHANGED <<mac, disk, legacy, mail, applied, locked, trouble>>

\* DeleteBackupStrict: then the file, the item and a read back must agree.
DeleteStrict(p) ==
  LET b == Backup(proc[p].n)
  IN  /\ proc[p].st = "strict"
      /\ \/ /\ disk' = [disk EXCEPT ![b] = 0] /\ Fine
            /\ kc' = IF mac /\ ~locked THEN [kc EXCEPT ![b] = 0] ELSE kc
            /\ IF mac THEN Learn(p) ELSE UNCHANGED cache
            /\ EndOp(p, IF mac /\ locked THEN {} ELSE {0})
         \/ disk[b] # 0 /\ Trouble /\ EndOp(p, {}) /\ UNCHANGED <<disk, kc, cache>>
      /\ UNCHANGED <<mac, legacy, mail, applied, locked>>

\* Any process reads a backup: the Keychain is asked even in file mode.
ReadsBackup(p, n) ==
  /\ proc[p].st = "idle" /\ mac /\ disk[Backup(n)] = 0
  /\ Learn(p) /\ cache' # cache
  /\ UNCHANGED <<mac, stores, mail, locked, flock, proc, trouble, ghosts>>

-----------------------------------------------------------------------------
(* The active credential *)

\* WriteActive stores one kind and clears the other.  In file mode the stale
\* Keychain item may survive, so file mode is pinned for the process.
WriteActive(p, kind) ==
  LET other == IF kind = OAuth THEN Key ELSE OAuth
      c == Fresh
      inKC == UseKeychain(p) /\ ~locked
      \* The kinds the Keychain may be cleared of, when it is not locked.
      cleared == (IF inKC \/ kind = Key THEN {other} ELSE {kind, other})
      shadow == kind = OAuth /\ disk[OAuth] # 0   \* refreshStaleCredentialsFile
  IN  /\ proc[p].st = "idle" /\ proc[p].ops < MaxOps /\ flock = Free /\ c <= MaxCred
      /\ kc' = [k \in Kinds |-> IF inKC /\ k = kind THEN c
                                ELSE IF mac /\ ~locked /\ k \in cleared THEN 0 ELSE kc[k]]
      /\ disk' = [disk EXCEPT ![other] = 0,
                              ![kind] = IF ~inKC \/ shadow THEN c ELSE 0]
      /\ cache' = [cache EXCEPT ![p] = IF ~mac THEN @ ELSE IF inKC THEN "yes" ELSE "pinned"]
      /\ Now(p, [proc[p] EXCEPT !.ops = @ + 1])
      /\ UNCHANGED <<mac, legacy, mail, applied, locked, flock, trouble, acked, moved, mixed>>

\* ReadActive asks the Keychain only where it is thought to be usable.
ReadsActive(p) ==
  /\ proc[p].st = "idle" /\ UseKeychain(p)
  /\ Learn(p) /\ cache' # cache
  /\ UNCHANGED <<mac, stores, mail, locked, flock, proc, trouble, ghosts>>

-----------------------------------------------------------------------------
(* Migrations, in every process that starts, without the lock *)

UniqueMail(n) == \A k \in Num \ {n} : mail[k] # mail[n]

\* The next pending slot, or the end: a run that failed nowhere is recorded.
NextPending(p, todo, failed) ==
  IF todo # {} THEN
    /\ Now(p, [At("legacy") EXCEPT !.n = CHOOSE n \in todo : \A k \in todo : n <= k,
                                   !.todo = todo, !.failed = failed])
    /\ UNCHANGED <<applied, trouble>>
  ELSE
    /\ Now(p, At("idle"))
    /\ IF failed THEN UNCHANGED <<applied, trouble>>
       ELSE (applied' = TRUE /\ Fine) \/ (Trouble /\ UNCHANGED applied)

\* Run: what the Keychain does not hold is pending on macOS, everything on Windows.
RunMigrations(p) ==
  LET pending == IF mac THEN {n \in Num : kc[Backup(n)] = 0} ELSE Num
  IN  /\ proc[p].st = "new"
      /\ IF applied THEN Now(p, At("idle")) /\ UNCHANGED <<applied, trouble, cache, mixed>>
         ELSE IF mac /\ locked
         THEN Learn(p) /\ Now(p, At("idle")) /\ UNCHANGED <<applied, trouble, mixed>>
         ELSE /\ IF mac THEN Learn(p) ELSE UNCHANGED cache
              /\ NextPending(p, pending, FALSE)
              /\ mixed' = (mixed \/ ~Alone(p))
      /\ UNCHANGED <<mac, disk, kc, legacy, mail, locked, flock, acked, moved>>

Rest(p) == proc[p].todo \ {proc[p].n}

\* relocate: the slot's own entry, or account-None when the email is one slot's.
ReadLegacy(p) ==
  LET n == proc[p].n
      one == <<"slot", n>>
      none == <<"none", mail[n]>>
      from == IF legacy[one] = 0 /\ UniqueMail(n) THEN none ELSE one
  IN  /\ proc[p].st = "legacy"
      /\ IF mac /\ locked THEN NextPending(p, Rest(p), TRUE)
         ELSE IF legacy[from] = 0 THEN NextPending(p, Rest(p), proc[p].failed)
         ELSE /\ Now(p, [proc[p] EXCEPT !.st = "relocate", !.cred = legacy[from], !.from = from])
              /\ UNCHANGED <<applied, trouble>>
      /\ UNCHANGED <<mac, disk, kc, legacy, mail, locked, flock, cache, ghosts>>

\* Written to the new backend; on Windows with WriteBackup, file and previous.
WriteNewThen(p, written, failed) ==
  LET n == proc[p].n
      c == proc[p].cred
      b == Backup(n)
  IN  /\ proc[p].st = "relocate"
      /\ \/ /\ mac /\ Learn(p) /\ Fine
            /\ kc' = IF locked THEN kc ELSE [kc EXCEPT ![b] = c]
            /\ Now(p, [proc[p] EXCEPT !.st = IF locked THEN failed ELSE written])
            /\ UNCHANGED disk
         \/ /\ ~mac /\ Fine
            /\ disk' = [disk EXCEPT ![Prev(n)] = IF disk[b] \in {0, c} THEN @ ELSE disk[b],
                                    ![b] = c]
            /\ Now(p, [proc[p] EXCEPT !.st = written])
            /\ UNCHANGED <<kc, cache>>
         \/ /\ ~mac /\ Trouble
            /\ Now(p, [proc[p] EXCEPT !.st = failed])
            /\ UNCHANGED <<disk, kc, cache>>
      \* On macOS nothing was stored, or a file that still wins.
      /\ acked' = IF mac /\ Served(n) # 0 THEN acked ELSE [acked EXCEPT ![n] = @ \cup {c}]
      /\ UNCHANGED <<mac, legacy, mail, applied, locked, flock, moved, mixed>>
WriteNewBug(p) == WriteNewThen(p, "forget", "forget")
WriteNew(p) == WriteNewThen(p, "verify", "discard")

\* The copy is read back before the only other one is deleted.
VerifyNew(p) ==
  LET seen == IF mac THEN (IF locked THEN 0 ELSE kc[Backup(proc[p].n)]) ELSE Served(proc[p].n)
  IN  /\ proc[p].st = "verify"
      /\ IF mac THEN Learn(p) ELSE UNCHANGED cache
      /\ Now(p, [proc[p] EXCEPT !.st = IF seen = proc[p].cred THEN "forget" ELSE "discard"])
      /\ UNCHANGED <<mac, stores, mail, locked, flock, trouble, ghosts>>

\* deleteBadNew: the Keychain item, or on Windows the whole backup; best effort.
DiscardNew(p) ==
  LET n == proc[p].n
  IN  /\ proc[p].st = "discard"
      /\ kc' = IF mac /\ ~locked THEN [kc EXCEPT ![Backup(n)] = 0] ELSE kc
      /\ disk' = IF mac THEN disk ELSE [disk EXCEPT ![Backup(n)] = 0, ![Prev(n)] = 0]
      /\ acked' = [acked EXCEPT ![n] = @ \cup {0}]
      /\ NextPending(p, Rest(p), TRUE)
      /\ UNCHANGED <<mac, legacy, mail, locked, flock, cache, moved, mixed>>

\* The source goes, and account-None with it, whatever it holds.
DeleteLegacy(p) ==
  LET gone == {proc[p].from, <<"none", mail[proc[p].n]>>}
  IN  /\ proc[p].st = "forget"
      /\ legacy' = [s \in Sources |-> IF s \in gone /\ ~(mac /\ locked) THEN 0 ELSE legacy[s]]
      /\ NextPending(p, Rest(p), proc[p].failed)
      /\ UNCHANGED <<mac, disk, kc, mail, locked, flock, cache, ghosts>>

-----------------------------------------------------------------------------

\* A process is killed; another may start in its place.
VaultDies(p) ==
  /\ proc[p].st # "dead" /\ Trouble
  /\ Now(p, [At("dead") EXCEPT !.ops = proc[p].ops])
  /\ flock' = IF flock = p THEN Free ELSE flock
  /\ cache' = [cache EXCEPT ![p] = "unprobed"]
  /\ UNCHANGED <<mac, stores, mail, locked, acked, moved, mixed>>

Restart(p) ==
  /\ proc[p].st = "dead"
  /\ Now(p, At("new"))
  /\ UNCHANGED <<mac, stores, mail, locked, flock, cache, trouble, ghosts>>

VaultNext ==
  \/ KeychainToggles
  \/ \E p \in Proc :
       \/ CooldownElapses(p) \/ VaultDies(p) \/ Restart(p)
       \/ RunMigrations(p) \/ ReadLegacy(p) \/ WriteNew(p) \/ VerifyNew(p) \/ DiscardNew(p)
       \/ DeleteLegacy(p)
       \/ RetainPreviousBackup(p) \/ PutInKeychain(p) \/ PutInFile(p) \/ SweepKeychain(p)
       \/ Reconcile(p) \/ DeleteEnc(p) \/ DropItem(p) \/ DeleteStrict(p)
       \/ \E n \in Num : \/ BeginWrite(p, n) \/ ReadsBackup(p, n)
                         \/ \E strict \in BOOLEAN : BeginDelete(p, n, strict)
       \/ ReadsActive(p) \/ WriteActive(p, OAuth) \/ WriteActive(p, Key)

VaultSpec == VaultInit /\ [][VaultNext]_vaultVars

-----------------------------------------------------------------------------
(* Properties *)

VaultStates == {"new", "idle", "dead", "retain", "put", "file", "sweep", "reconcile", "unlink",
                "drop", "strict", "legacy", "relocate", "verify", "discard", "forget"}

VaultTypeOK ==
  /\ disk \in [Kinds -> 0 .. MaxCred] /\ kc \in [Kinds -> 0 .. MaxCred]
  /\ ~mac => \A k \in Kinds : kc[k] = 0
  /\ cache \in [Proc -> {"unprobed", "yes", "no", "pinned"}]
  /\ \A p \in Proc : proc[p].st \in VaultStates /\ proc[p].todo \subseteq Num
  /\ flock \in Proc \cup {Free} /\ trouble \in 0 .. MaxTrouble

\* Whichever backend each write reached, whatever failed or died on the way, a
\* reader is given the last backup written successfully or one that was being
\* written since; a migration may put an older credential only where nothing is
\* stored, or on Windows, and none runs beside a command (backup.go WriteBackup,
\* reconcileEncAfterKeychainWrite, DeleteBackupStrict).
BackupReadIsCurrent == mixed \/ \A n \in Num : Served(n) \in acked[n]

\* The credential a slot is to inherit is never gone from everywhere: until a
\* command replaces the slot's backup it is in the old store or in the new one,
\* though migrations fail, die and are run again, as long as they run one at a
\* time (relocate.go relocate).
Copies(n) == {kc[Backup(n)], disk[Backup(n)]}
MigrationLosesNothing ==
  [][\A n \in Num :
       LET one == <<"slot", n>>
           none == <<"none", mail[n]>>
           c == IF legacy[one] = 0 /\ UniqueMail(n) THEN legacy[none] ELSE legacy[one]
       IN  (c # 0 /\ c \notin {legacy'[one], legacy'[none]})
             => mixed \/ n \in moved \/ c \in Copies(n)']_vaultVars
=============================================================================
