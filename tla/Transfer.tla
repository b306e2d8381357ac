------------------------------- MODULE Transfer -------------------------------
(***************************************************************************)
(* Moving accounts between machines and clearing them out: export and      *)
(* import (internal/transfer), purge and remove (internal/lifecycle) and   *)
(* the directory mappings (internal/mappings).                             *)
(*                                                                         *)
(* Import plans on one roster read under cswap's lock, and writes one      *)
(* account after the other, four writes each.  Export reads without a      *)
(* lock, the roster first and every backup later.  Purge takes no lock and *)
(* removes the directory the lock file is in: whoever holds it then holds  *)
(* a lock nobody else can see.  Mappings are loaded, changed and stored    *)
(* without a lock.                                                         *)
(*                                                                         *)
(* An account is an identity (email and organisation).  Credentials and    *)
(* configurations are present or not; Roster and Custody follow their      *)
(* contents.  A failed call or a death leaves what was written by then.    *)
(***************************************************************************)
EXTENDS Integers, Sequences, FiniteSets, SequencesExt

CONSTANTS Owner, NoOwner,          \* identities; none
          Alias, NoAlias,
          Current,                \* the identity Claude Code is logged in as, or NoOwner
          User, Unheld,           \* processes; nobody holds the lock
          Dirs,                   \* directories: sequences of names
          Envelopes,              \* export files made on other machines
          MaxSlot, MaxJobs, MaxMishaps  \* bounds: slots, commands, failures and deaths

SlotNum == 1 .. MaxSlot
Records == [id : Owner \cup {NoOwner}, alias : Alias \cup {NoAlias}]

\* An export file: the active number, and the accounts with the numbers they had.
Envelope == [active : 0 .. MaxSlot,
             accounts : Seq([id : Owner, num : SlotNum, alias : Alias \cup {NoAlias}])]

ASSUME TransferAssumption ==
  /\ NoOwner \notin Owner /\ NoAlias \notin Alias /\ Unheld \notin User
  /\ Current \in Owner \cup {NoOwner}
  /\ {MaxSlot, MaxJobs, MaxMishaps} \subseteq Nat /\ MaxSlot > 0
  /\ Envelopes \subseteq Envelope

VARIABLES
  roll,         \* sequence.json: slot -> [id, alias]
  lead,         \* its activeAccountNumber, or 0
  creds, confs, struck,  \* slot -> whose credentials, config and dead-token verdict are stored
  gate,         \* cswap's lock
  pack,         \* the export file: [active, accounts]
  job,          \* process -> its command
  maps,         \* mappings.json: directory -> identity
  live,         \* a session is running
  jobs, mishaps,
  torn          \* history: a purge is under way, ran beside an import or was cut short

transferVars == <<roll, lead, creds, confs, struck, gate, pack, job, maps, live, jobs, mishaps, torn>>
backups == <<creds, confs, struck>>

Vacant == [id |-> NoOwner, alias |-> NoAlias]
NoBook == [n \in SlotNum |-> Vacant]
NoJob == [st |-> "none", force |-> FALSE, env |-> [active |-> 0, accounts |-> <<>>],
          data |-> NoBook, lead |-> 0, k |-> 1, slot |-> 0, seed |-> 0, id |-> NoOwner,
          maps |-> [d \in Dirs |-> NoOwner]]

TransferInit ==
  /\ roll \in {NoBook} \cup {[NoBook EXCEPT ![1] = [id |-> o, alias |-> a]] :
                               o \in Owner, a \in Alias \cup {NoAlias}}
  /\ lead \in {0} \cup {n \in {1} : roll[n] # Vacant}
  /\ creds = [n \in SlotNum |-> {roll[n].id} \ {NoOwner}] /\ confs = creds /\ struck = creds
  /\ gate = Unheld /\ pack \in Envelopes
  /\ job = [u \in User |-> NoJob]
  /\ maps = [d \in Dirs |-> IF Len(d) = 1 THEN roll[1].id ELSE NoOwner]
  /\ live = FALSE /\ jobs = 0 /\ mishaps = 0 /\ torn = FALSE

-----------------------------------------------------------------------------
(* Roster helpers *)

Listed(b) == {n \in SlotNum : b[n] # Vacant}

FindAccountSlot(b, o) ==
  IF \E n \in SlotNum : b[n].id = o THEN CHOOSE n \in SlotNum : b[n].id = o ELSE 0

\* One above the highest slot: gaps are not filled.
NextAccountNumber(b) ==
  IF Listed(b) = {} THEN 1 ELSE 1 + CHOOSE n \in Listed(b) : \A k \in Listed(b) : k <= n

\* localAliasOwners: an alias another local account has is dropped.
AliasTaken(b, e) == \E n \in Listed(b) : b[n].alias = e.alias /\ b[n].id # e.id
KeptAliasBug(b, e) == e.alias
KeptAlias(b, e) == IF AliasTaken(b, e) THEN NoAlias ELSE e.alias

Mishap == mishaps < MaxMishaps /\ mishaps' = mishaps + 1
Starts(u, j) ==
  /\ job[u] = NoJob /\ jobs < MaxJobs /\ jobs' = jobs + 1
  /\ job' = [job EXCEPT ![u] = j]
Go(u, j) == job' = [job EXCEPT ![u] = j] /\ UNCHANGED <<jobs, mishaps>>
Release(u) == gate' = IF gate = u THEN Unheld ELSE gate

-----------------------------------------------------------------------------
(* Import *)

\* readSource: the file is read before the lock.
StartImport(u, force) ==
  /\ Starts(u, [NoJob EXCEPT !.st = "import", !.force = force, !.env = pack])
  /\ UNCHANGED <<roll, lead, backups, gate, pack, maps, live, mishaps, torn>>

\* Pass 1 refuses a file that names an identity or an alias twice.
Valid(env) ==
  /\ env.accounts # <<>>
  /\ \A i, j \in DOMAIN env.accounts :
       i # j => /\ env.accounts[i].id # env.accounts[j].id
                /\ env.accounts[i].alias = NoAlias \/ env.accounts[i].alias # env.accounts[j].alias

\* The one roster read, and pass 1.
ReadRoster(u) ==
  LET env == [job[u].env EXCEPT !.accounts =
                [i \in DOMAIN @ |-> [@[i] EXCEPT !.alias = KeptAlias(roll, job[u].env.accounts[i])]]]
  IN  /\ job[u].st = "import"
      /\ IF ~Valid(job[u].env) THEN Go(u, NoJob) /\ UNCHANGED gate
         ELSE /\ Go(u, [job[u] EXCEPT !.st = "next", !.env = env, !.data = roll, !.lead = lead])
              /\ gate' = u
      /\ UNCHANGED <<roll, lead, backups, pack, maps, live, torn>>

\* All of it under the lock.
LockImportBug(u) == ReadRoster(u)
LockImport(u) == gate = Unheld /\ ReadRoster(u)

Entry(u) == job[u].env.accounts[job[u].k]
\* The slot of the envelope's active account, once it is known.
Seed(u, n) == IF Entry(u).num = job[u].env.active THEN n ELSE job[u].seed

\* Without --force an account that is there is skipped.
SkipEntry(u) ==
  LET n == FindAccountSlot(job[u].data, Entry(u).id)
  IN  /\ job[u].st = "next" /\ job[u].k <= Len(job[u].env.accounts)
      /\ n # 0 /\ ~job[u].force
      /\ Go(u, [job[u] EXCEPT !.k = @ + 1, !.seed = Seed(u, n)])
      /\ UNCHANGED <<roll, lead, backups, gate, pack, maps, live, torn>>

\* Its own slot, the exported one if that is free, or the next.
TargetSlotBug(b, e) == IF FindAccountSlot(b, e.id) # 0 THEN FindAccountSlot(b, e.id) ELSE e.num
TargetSlot(b, e) ==
  IF FindAccountSlot(b, e.id) # 0 THEN FindAccountSlot(b, e.id)
  ELSE IF b[e.num] = Vacant THEN e.num ELSE NextAccountNumber(b)

PlanEntry(u) ==
  /\ job[u].st = "next" /\ job[u].k <= Len(job[u].env.accounts)
  /\ FindAccountSlot(job[u].data, Entry(u).id) = 0 \/ job[u].force
  /\ TargetSlot(job[u].data, Entry(u)) <= MaxSlot
  /\ Go(u, [job[u] EXCEPT !.st = "creds", !.slot = TargetSlot(job[u].data, Entry(u))])
  /\ UNCHANGED <<roll, lead, backups, gate, pack, maps, live, torn>>

WriteAccountCredentials(u) ==
  /\ job[u].st = "creds"
  /\ creds' = [creds EXCEPT ![job[u].slot] = @ \cup {Entry(u).id}]
  /\ Go(u, [job[u] EXCEPT !.st = "config"])
  /\ UNCHANGED <<roll, lead, confs, struck, gate, pack, maps, live, torn>>

WriteAccountConfig(u) ==
  /\ job[u].st = "config"
  /\ confs' = [confs EXCEPT ![job[u].slot] = @ \cup {Entry(u).id}]
  /\ Go(u, [job[u] EXCEPT !.st = "verdict"])
  /\ UNCHANGED <<roll, lead, creds, struck, gate, pack, maps, live, torn>>

LiftVerdict(u) ==
  /\ job[u].st = "verdict"
  /\ struck' = [struck EXCEPT ![job[u].slot] = @ \ {Entry(u).id}]
  /\ Go(u, [job[u] EXCEPT !.st = "record"])
  /\ UNCHANGED <<roll, lead, creds, confs, gate, pack, maps, live, torn>>

\* The record, and the whole roster with it: this account is committed.
WriteRecord(u) ==
  LET b == [job[u].data EXCEPT ![job[u].slot] = [id |-> Entry(u).id, alias |-> Entry(u).alias]]
  IN  /\ job[u].st = "record"
      /\ roll' = b /\ lead' = job[u].lead
      /\ Go(u, [job[u] EXCEPT !.st = "next", !.data = b, !.k = @ + 1, !.seed = Seed(u, job[u].slot)])
      /\ UNCHANGED <<backups, gate, pack, maps, live, torn>>

\* The active number is set only where there is none.
EndImport(u) ==
  LET seeds == job[u].lead = 0 /\ job[u].seed # 0
  IN  /\ job[u].st = "next" /\ job[u].k > Len(job[u].env.accounts)
      /\ roll' = IF seeds THEN job[u].data ELSE roll
      /\ lead' = IF seeds THEN job[u].seed ELSE lead
      /\ Go(u, NoJob) /\ Release(u)
      /\ UNCHANGED <<backups, pack, maps, live, torn>>

-----------------------------------------------------------------------------
(* Export *)

\* n is the one account asked for, or 0; the roster is read once.
StartExport(u, n) ==
  /\ Listed(roll) # {} /\ n \in Listed(roll) \cup {0}
  /\ Starts(u, [NoJob EXCEPT !.st = "export", !.data = roll, !.lead = lead, !.slot = n])
  /\ UNCHANGED <<roll, lead, backups, gate, pack, maps, live, mishaps, torn>>

\* The live credential of the current account, the backup of any other.  An
\* account without one is skipped, or an error when it was asked for.
ExportEntry(u) ==
  LET n == job[u].k
      r == job[u].data[n]
      wanted == r # Vacant /\ job[u].slot \in {0, n}
      found == r.id = Current \/ r.id \in creds[n] \cap confs[n]
  IN  /\ job[u].st = "export" /\ n <= MaxSlot
      /\ IF wanted /\ ~found /\ job[u].slot # 0 THEN Go(u, NoJob)
         ELSE Go(u, [job[u] EXCEPT !.k = n + 1,
                       !.env.accounts = IF wanted /\ found
                                        THEN Append(@, [id |-> r.id, num |-> n, alias |-> r.alias])
                                        ELSE @])
      /\ UNCHANGED <<roll, lead, backups, gate, pack, maps, live, torn>>

\* The active number goes along only with its account; the file is replaced whole.
WriteExport(u) ==
  LET got == job[u].env.accounts
      active == IF \E i \in DOMAIN got : got[i].num = job[u].lead THEN job[u].lead ELSE 0
  IN  /\ job[u].st = "export" /\ job[u].k > MaxSlot
      /\ pack' = IF got = <<>> THEN pack ELSE [active |-> active, accounts |-> got]
      /\ Go(u, NoJob)
      /\ UNCHANGED <<roll, lead, backups, gate, maps, live, torn>>

-----------------------------------------------------------------------------
(* Purge and remove *)

\* Live sessions are looked for once, before the prompt.
AskPurge(u) ==
  /\ ~live /\ Starts(u, [NoJob EXCEPT !.st = "asked"])
  /\ UNCHANGED <<roll, lead, backups, gate, pack, maps, live, mishaps, torn>>

ConfirmPurge(u) ==
  /\ job[u].st = "asked"
  /\ Go(u, [job[u] EXCEPT !.st = "sweep", !.data = roll])
  /\ torn' = TRUE
  /\ UNCHANGED <<roll, lead, backups, gate, pack, maps, live>>

SweepCredentials(u) ==
  /\ job[u].st = "sweep"
  /\ creds' = [n \in SlotNum |-> creds[n] \ {job[u].data[n].id}]
  /\ Go(u, [job[u] EXCEPT !.st = "rmdir"])
  /\ UNCHANGED <<roll, lead, confs, struck, gate, pack, maps, live, torn>>

\* Everything goes, the lock file included.
RemoveBackupDir(u) ==
  LET none == [n \in SlotNum |-> {}]
  IN  /\ job[u].st = "rmdir"
      /\ roll' = NoBook /\ lead' = 0 /\ creds' = none /\ confs' = none /\ struck' = none
      /\ maps' = [d \in Dirs |-> NoOwner]
      /\ gate' = Unheld
      /\ Go(u, NoJob)
      /\ torn' = \E v \in User \ {u} :
                    job[v].st \in {"next", "creds", "config", "verdict", "record", "sweep", "rmdir"}
      /\ UNCHANGED <<pack, live>>

\* In one step under the lock (Roster has its steps).
RemoveAccount(u, n) ==
  LET o == roll[n].id
  IN  /\ o # NoOwner /\ gate = Unheld /\ ~live
      /\ roll' = [roll EXCEPT ![n] = Vacant]
      /\ creds' = [creds EXCEPT ![n] = @ \ {o}] /\ confs' = [confs EXCEPT ![n] = @ \ {o}]
      /\ Starts(u, [NoJob EXCEPT !.st = "prune", !.id = o])
      /\ UNCHANGED <<lead, struck, gate, pack, maps, live, mishaps, torn>>

-----------------------------------------------------------------------------
(* Directory mappings *)

\* The deepest mapped directory at or above this one.
Resolve(d) ==
  LET hits == {e \in Dirs : maps[e] # NoOwner /\ IsPrefix(e, d)}
  IN  IF hits = {} THEN NoOwner ELSE maps[CHOOSE e \in hits : \A f \in hits : Len(f) <= Len(e)]

\* Set and Remove: the file is loaded, and stored one step later.
StartMap(u, d, o) ==
  /\ o = NoOwner \/ FindAccountSlot(roll, o) # 0
  /\ maps[d] # o
  /\ Starts(u, [NoJob EXCEPT !.st = "map", !.maps = [maps EXCEPT ![d] = o]])
  /\ UNCHANGED <<roll, lead, backups, gate, pack, maps, live, mishaps, torn>>

\* PruneAccount, after the removal and without its lock.
PruneAccount(u) ==
  /\ job[u].st = "prune"
  /\ IF \E d \in Dirs : maps[d] = job[u].id
     THEN Go(u, [NoJob EXCEPT !.st = "map",
                   !.maps = [d \in Dirs |-> IF maps[d] = job[u].id THEN NoOwner ELSE maps[d]]])
     ELSE Go(u, NoJob)
  /\ UNCHANGED <<roll, lead, backups, gate, pack, maps, live, torn>>

WriteMappings(u) ==
  /\ job[u].st = "map"
  /\ maps' = job[u].maps /\ Go(u, NoJob)
  /\ UNCHANGED <<roll, lead, backups, gate, pack, live, torn>>

\* cswap run in a mapped directory (SlotForDirectory), and the session's end.
RunIn(d) ==
  /\ ~live /\ FindAccountSlot(roll, Resolve(d)) # 0
  /\ live' = TRUE
  /\ UNCHANGED <<roll, lead, backups, gate, pack, job, maps, jobs, mishaps, torn>>
SessionEnds ==
  /\ live /\ live' = FALSE
  /\ UNCHANGED <<roll, lead, backups, gate, pack, job, maps, jobs, mishaps, torn>>

\* A call fails, the lock times out or the process dies: the kernel or the
\* deferred release frees the lock.
Stops(u) ==
  /\ job[u] # NoJob /\ Mishap
  /\ job' = [job EXCEPT ![u] = NoJob] /\ Release(u)
  /\ UNCHANGED <<roll, lead, backups, pack, maps, live, jobs, torn>>

TransferNext ==
  \/ SessionEnds
  \/ \E d \in Dirs : RunIn(d)
  \/ \E u \in User :
       \/ LockImport(u) \/ SkipEntry(u) \/ PlanEntry(u) \/ WriteAccountCredentials(u)
       \/ WriteAccountConfig(u) \/ LiftVerdict(u) \/ WriteRecord(u) \/ EndImport(u)
       \/ ExportEntry(u) \/ WriteExport(u)
       \/ AskPurge(u) \/ ConfirmPurge(u) \/ SweepCredentials(u) \/ RemoveBackupDir(u)
       \/ PruneAccount(u) \/ WriteMappings(u) \/ Stops(u)
       \/ \E force \in BOOLEAN : StartImport(u, force)
       \/ \E n \in 0 .. MaxSlot : StartExport(u, n)
       \/ \E n \in SlotNum : RemoveAccount(u, n)
       \/ \E d \in Dirs, o \in Owner \cup {NoOwner} : StartMap(u, d, o)

TransferSpec == TransferInit /\ [][TransferNext]_transferVars

-----------------------------------------------------------------------------
(* Properties *)

TransferTypeOK ==
  /\ roll \in [SlotNum -> Records] /\ lead \in 0 .. MaxSlot
  /\ \A n \in SlotNum : creds[n] \cup confs[n] \cup struck[n] \subseteq Owner
  /\ gate \in User \cup {Unheld} /\ maps \in [Dirs -> Owner \cup {NoOwner}]
  /\ \A u \in User : job[u].data \in [SlotNum -> Records] /\ job[u].slot \in 0 .. MaxSlot

\* What a step outside a torn purge keeps: an account leaves the roster only with its
\* backup, every account in it has both halves of its backup, no identity and no alias
\* is there twice, and a record that is new carries no old verdict.
KeepsWhole ==
  torn' \/
  \A n \in SlotNum :
    /\ roll[n] # Vacant /\ roll'[n].id # roll[n].id => roll[n].id \notin creds'[n]
    /\ roll'[n] # Vacant =>
         /\ roll'[n].id \in creds'[n] \cap confs'[n]
         /\ \A k \in SlotNum \ {n} : /\ roll'[k].id # roll'[n].id
                                  /\ roll'[n].alias # NoAlias => roll'[k].alias # roll'[n].alias
         /\ roll'[n].id # roll[n].id => roll'[n].id \notin struck'[n]

\* Imports, removals and whole purges, two at a time and cut short anywhere, keep the
\* roster whole (import.go Import).  Nothing is promised around a purge that meets an
\* import or dies.
RosterStaysWhole == [][KeepsWhole]_transferVars
=============================================================================
