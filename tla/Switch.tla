------------------------------- MODULE Switch -------------------------------
(* internal/switching: the physical account switch.                          *)
(*                                                                           *)
(* A switch replaces Claude Code's live credential and the oauthAccount of   *)
(* its config by the ones stored for the target slot.  First the outgoing    *)
(* credential is backed up, but only into the slot that provably owns it:    *)
(* its owner is looked up at the profile endpoint before the locks are taken *)
(* (prefetchLiveIdentity) and used under the locks only if the live bytes    *)
(* have not moved (classifyOutgoing).  Several cswap processes and Claude    *)
(* Code, which rotates tokens, logs in and writes its config under its own   *)
(* locks, run concurrently; any write may fail and any process may die       *)
(* between two writes.                                                       *)
EXTENDS Naturals, FiniteSets

CONSTANTS Process,    \* cswap processes
          Slot, Account,
          OwnerOf,    \* the account a slot was added for
          EmailOf, OrgOf,  \* an account's identity; OrgOf is None for a personal one
          None,
          MaxFam,     \* bound: refresh-token lineages issued
          MaxGen,     \* bound: access tokens of one lineage
          MaxRev,     \* bound: Claude Code's own config writes
          MaxFaults,  \* bound: failed writes and process deaths
          MaxCalls    \* bound: switches started

IdOf(a) == <<EmailOf[a], OrgOf[a]>>

ASSUME SwitchAssumption ==
  /\ OwnerOf \in [Slot -> Account]
  /\ None \notin Slot /\ None \notin Account
  /\ None \notin Process
  /\ \A a \in Account : EmailOf[a] # None
  /\ \A s, t \in Slot : IdOf(OwnerOf[s]) = IdOf(OwnerOf[t]) => s = t
  /\ MaxFam \in Nat /\ MaxGen \in Nat /\ MaxRev \in Nat /\ MaxFaults \in Nat
  /\ MaxFam > 0 /\ MaxCalls \in Nat

VARIABLES live,    \* Claude Code's active credential
          cfg,     \* ~/.claude.json: its oauthAccount and everything else in it
          active,  \* activeAccountNumber of sequence.json
          uuid,    \* the account uuid recorded for each slot, if any
          bk, prev,  \* backup credential of each slot and the one it replaced
          bkCfg,   \* the slots with a config backup
          stash,   \* unclaimed credentials
          lock,    \* cswap's FileLock and Claude Code's two lock directories
          pc, tx,  \* each process's place in performSwitch and its locals
          login,   \* a /login that has stored its token but not its oauthAccount
          fam,     \* lineages issued so far
          dead,    \* lineages the server has replaced by a rotation
          faults, calls,
          failedOpen  \* history: slots some backup of which was not uuid-verified

store == <<bk, prev, bkCfg, stash, uuid, active>>
env == <<login, fam, dead, calls>>
vars == <<live, cfg, store, lock, pc, tx, env, faults, failedOpen>>

Cred == [acct : Account, fam : 1 .. MaxFam, gen : 0 .. MaxGen]
Id == {IdOf(a) : a \in Account}
\* What the profile endpoint may say of a token: always the uuid, the rest if present.
Identity == [uuid : Account, email : {EmailOf[a] : a \in Account} \cup {None},
             org : {OrgOf[a] : a \in Account} \cup {None}]
Answers(a) == {[uuid |-> a, email |-> e, org |-> o] :
                 e \in {EmailOf[a], None}, o \in {OrgOf[a], None}}

Config == [id : Id \cup {None}, rev : 0 .. MaxRev]
NoTx == [target |-> None, force |-> FALSE, seen |-> None, resolved |-> None,
         cur |-> None, orig |-> None, origCfg |-> None, had |-> FALSE,
         backfill |-> FALSE, result |-> None]

Init ==
  /\ bk \in [Slot -> {[acct |-> a, fam |-> 1, gen |-> 0] : a \in Account}]
  /\ \A s \in Slot : bk[s].acct = OwnerOf[s]
  /\ prev = [s \in Slot |-> None]
  /\ bkCfg = Slot
  /\ stash = {}
  /\ \E s \in Slot : active = s /\ live = bk[s] /\ cfg = [id |-> IdOf(OwnerOf[s]), rev |-> 0]
  /\ uuid \in [Slot -> Account \cup {None}]
  /\ \A s \in Slot : uuid[s] \in {OwnerOf[s], None}
  /\ lock = [file |-> None, cred |-> None, config |-> None]
  /\ pc = [p \in Process |-> "idle"]
  /\ tx = [p \in Process |-> NoTx]
  /\ login = None
  /\ fam = 1
  /\ dead = {}
  /\ faults = 0
  /\ calls = 0
  /\ failedOpen = {}

---------------------------------------------------------------------------
(* Ownership of a credential *)

FindAccountSlot(id) ==
  IF \E s \in Slot : IdOf(OwnerOf[s]) = id
  THEN CHOOSE s \in Slot : IdOf(OwnerOf[s]) = id
  ELSE None

\* CredentialFingerprint: equal for credentials with one refresh token.
FingerprintEqual(c, d) == c.acct = d.acct /\ c.fam = d.fam

LiveSlot == IF cfg.id = None THEN None ELSE FindAccountSlot(cfg.id)

MatchesBackup(c, s) == bk[s] # None /\ (bk[s] = c \/ FingerprintEqual(bk[s], c))

SlotsByUuid(r) == {s \in Slot : uuid[s] = r.uuid /\ OrgOf[OwnerOf[s]] = r.org}

\* The slot a resolved identity names: by (email, org) unless the recorded
\* uuid contradicts it, else by uuid and org.
SlotsNamed(r) ==
  LET byEmail == {s \in Slot : IdOf(OwnerOf[s]) = <<r.email, r.org>>
                                /\ uuid[s] \in {None, r.uuid}}
  IN  IF byEmail # {} THEN byEmail ELSE SlotsByUuid(r)

OrgAgrees(r, s) == r.org = None \/ OrgOf[OwnerOf[s]] = None \/ r.org = OrgOf[OwnerOf[s]]

\* classifyOutgoing without its first two, local, answers.
ClassifyResolved(r, cur) ==
  IF uuid[cur] = r.uuid /\ OrgAgrees(r, cur) THEN "own-rotated"
  ELSE IF SlotsNamed(r) = {}
       THEN IF r.email # None /\ r.org # None THEN "alien" ELSE "unresolved"
  ELSE LET s == CHOOSE s \in SlotsNamed(r) : TRUE
       IN  IF s = cur THEN "own-rotated"
           ELSE IF uuid[s] # r.uuid THEN "alien"
           ELSE IF MatchesBackup(live, s) THEN "foreign-synced" ELSE "foreign"

ClassifyOutgoingBug(cur, t) ==
  IF bk[cur] = live THEN "own-bytes"
  ELSE IF MatchesBackup(live, cur) THEN "own-family"
  ELSE IF t.resolved = None THEN "unresolved"
  ELSE ClassifyResolved(t.resolved, cur)

ClassifyOutgoing(cur, t) ==
  IF bk[cur] = live THEN "own-bytes"
  ELSE IF MatchesBackup(live, cur) THEN "own-family"
  ELSE IF t.resolved = None \/ t.seen # live THEN "unresolved"
  ELSE ClassifyResolved(t.resolved, cur)

---------------------------------------------------------------------------
(* Before the locks *)

Goto(p, label) == pc' = [pc EXCEPT ![p] = label]

Fault == faults < MaxFaults /\ faults' = faults + 1

\* Switch and SwitchTo have chosen the target; --force resolves no identity.
Call(p, t, force) ==
  /\ pc[p] = "idle"
  /\ calls < MaxCalls
  /\ calls' = calls + 1
  /\ tx' = [tx EXCEPT ![p] = [NoTx EXCEPT !.target = t, !.force = force]]
  /\ Goto(p, IF force THEN "file" ELSE "prefetch")
  /\ UNCHANGED <<live, cfg, store, lock, login, fam, dead, faults, failedOpen>>

ReadLive(p) ==
  /\ pc[p] = "prefetch"
  /\ \/ tx' = [tx EXCEPT ![p].seen = live] /\ UNCHANGED faults
     \/ Fault /\ UNCHANGED tx   \* unreadable
  /\ Goto(p, "resolve")
  /\ UNCHANGED <<live, cfg, store, lock, env, failedOpen>>

\* Ask who owns the live token, if it differs from the slot's backup.  A switch
\* to the slot that is already live goes on only with an answer (reconcile).
Resolve(p) ==
  /\ pc[p] = "resolve"
  /\ LET seen == tx[p].seen
         ask == seen # None /\ LiveSlot # None /\ ~ MatchesBackup(seen, LiveSlot)
     IN  \E r \in (IF ask THEN Answers(seen.acct) ELSE {}) \cup {None} :
           IF r = None /\ LiveSlot = tx[p].target
           THEN Goto(p, "idle") /\ tx' = [tx EXCEPT ![p] = NoTx]
           ELSE Goto(p, "file") /\ tx' = [tx EXCEPT ![p].resolved = r]
  /\ UNCHANGED <<live, cfg, store, lock, env, faults, failedOpen>>

---------------------------------------------------------------------------
(* withTripleLock *)

Take(p, l, here, next) ==
  /\ pc[p] = here
  /\ lock[l] = None
  /\ lock' = [lock EXCEPT ![l] = p]
  /\ Goto(p, next)
  /\ UNCHANGED <<live, cfg, store, tx, env, faults, failedOpen>>

AcquireFile(p) == Take(p, "file", "file", "cred")
AcquireCred(p) == Take(p, "cred", "cred", "config")

AcquireConfigBug(p) ==
  /\ pc[p] = "config"
  /\ Goto(p, "locked")
  /\ UNCHANGED <<live, cfg, store, lock, tx, env, faults, failedOpen>>

AcquireConfig(p) == Take(p, "config", "config", "locked")

Unlocked(p) == [l \in DOMAIN lock |-> IF lock[l] = p THEN None ELSE lock[l]]

\* Leaving the locked span: the deferred releases.  With an acquisition timeout
\* nothing has been written.
Leave(p) ==
  /\ lock' = Unlocked(p)
  /\ tx' = [tx EXCEPT ![p] = NoTx]
  /\ Goto(p, "idle")
  /\ UNCHANGED <<live, cfg, store, env, failedOpen>>

\* The directory locks may be Claude Code's for longer than the timeout.
LockTimeout(p) ==
  /\ \/ pc[p] = "file" /\ lock.file # None
     \/ pc[p] \in {"cred", "config"}
  /\ Leave(p)
  /\ UNCHANGED faults

---------------------------------------------------------------------------
(* performSwitch under the locks: the outgoing credential *)

Direct(p) == tx[p].force \/ LiveSlot = None

Switchable(t) == bk[t] # None /\ t \in bkCfg

\* Refusals before anything is written: no stored target (direct path), or an
\* unreadable or empty live credential.
Refuse(p) ==
  /\ pc[p] = "locked"
  /\ IF Direct(p) THEN ~ Switchable(tx[p].target) ELSE live = None
  /\ Leave(p)
  /\ UNCHANGED faults

Snapshot(p, next) ==
  /\ tx' = [tx EXCEPT ![p].cur = LiveSlot, ![p].orig = live, ![p].origCfg = cfg,
                      ![p].had = ~ Direct(p) \/ cfg.id # None,
                      ![p].backfill = ~ Direct(p)
                        /\ ClassifyOutgoing(LiveSlot, tx[p]) = "own-rotated"]
  /\ Goto(p, next)

DirectSnapshot(p) ==
  /\ pc[p] = "locked"
  /\ Direct(p) /\ Switchable(tx[p].target)
  /\ Snapshot(p, IF cfg.id # None /\ live # None /\ live # bk[tx[p].target]
                 THEN "displace" ELSE "activate")
  /\ UNCHANGED <<live, cfg, store, lock, env, faults, failedOpen>>

StashDisplacedBug(p) ==
  /\ pc[p] = "displace"
  /\ Goto(p, "activate")
  /\ UNCHANGED <<live, cfg, store, lock, tx, env, faults, failedOpen>>

\* Direct activation keeps a copy of the login it displaces; only --force goes
\* on without one.
StashDisplaced(p) ==
  /\ pc[p] = "displace"
  /\ \/ stash' = stash \cup {live} /\ UNCHANGED faults
     \/ Fault /\ tx[p].force /\ UNCHANGED stash
  /\ Goto(p, "activate")
  /\ UNCHANGED <<live, cfg, bk, prev, bkCfg, uuid, active, lock, tx, env, failedOpen>>

Normal(p, kinds) ==
  /\ pc[p] = "locked"
  /\ ~ Direct(p) /\ live # None
  /\ ClassifyOutgoing(LiveSlot, tx[p]) \in kinds

\* foreign / alien: a safety copy, never a slot.
StashForeign(p) ==
  /\ Normal(p, {"foreign", "alien"})
  /\ stash' = stash \cup {live}
  /\ Snapshot(p, "activate")
  /\ UNCHANGED <<live, cfg, bk, prev, bkCfg, uuid, active, lock, env, faults, failedOpen>>

\* foreign-synced: its slot has this lineage already.
LeaveForeign(p) ==
  /\ Normal(p, {"foreign-synced"})
  /\ Snapshot(p, "activate")
  /\ UNCHANGED <<live, cfg, store, lock, env, faults, failedOpen>>

BackUpConfigOnly(p) ==
  /\ Normal(p, {"own-bytes"})
  /\ bkCfg' = bkCfg \cup {LiveSlot}
  /\ Snapshot(p, "activate")
  /\ UNCHANGED <<live, cfg, bk, prev, stash, uuid, active, lock, env, faults, failedOpen>>

\* The backup that is replaced is kept as .prev, if that can be written.
WriteBackup(s, c) ==
  /\ bk' = [bk EXCEPT ![s] = c]
  /\ \/ /\ prev' = IF bk[s] \in {None, c} THEN prev ELSE [prev EXCEPT ![s] = bk[s]]
        /\ UNCHANGED faults
     \/ Fault /\ UNCHANGED prev

\* own-family, own-rotated, and unresolved: the backup of the versions before
\* ownership was checked.
BackUpLive(p) ==
  /\ Normal(p, {"own-family", "own-rotated", "unresolved"})
  /\ WriteBackup(LiveSlot, live)
  /\ LET kind == ClassifyOutgoing(LiveSlot, tx[p]) IN
       failedOpen' = IF kind = "unresolved" \/ (kind = "own-rotated" /\ uuid[LiveSlot] = None)
                     THEN failedOpen \cup {LiveSlot} ELSE failedOpen
  /\ Snapshot(p, "backupConfig")
  /\ UNCHANGED <<live, cfg, bkCfg, stash, uuid, active, lock, env>>

BackUpConfig(p) ==
  /\ pc[p] = "backupConfig"
  /\ bkCfg' = bkCfg \cup {tx[p].cur}
  /\ Goto(p, "activate")
  /\ UNCHANGED <<live, cfg, bk, prev, stash, uuid, active, lock, tx, env, faults, failedOpen>>

---------------------------------------------------------------------------
(* The three writes of the switch, and their rollback *)

Activate(p) ==
  /\ pc[p] = "activate"
  /\ Switchable(tx[p].target)
  /\ live' = bk[tx[p].target]
  /\ Goto(p, "splice")
  /\ UNCHANGED <<cfg, store, lock, tx, env, faults, failedOpen>>

Splice(p) ==
  /\ pc[p] = "splice"
  /\ cfg' = [cfg EXCEPT !.id = IdOf(OwnerOf[tx[p].target])]
  /\ Goto(p, "record")
  /\ UNCHANGED <<live, store, lock, tx, env, faults, failedOpen>>

RecordBug(p) ==
  /\ pc[p] = "record"
  /\ active' = tx[p].cur
  /\ tx' = [tx EXCEPT ![p].result = "switched"]
  /\ Goto(p, "done")
  /\ UNCHANGED <<live, cfg, bk, prev, bkCfg, stash, uuid, lock, env, faults, failedOpen>>

\* The sequence write, with the uuid an own-rotated backup found missing.
Record(p) ==
  /\ pc[p] = "record"
  /\ active' = tx[p].target
  /\ uuid' = IF tx[p].backfill /\ uuid[tx[p].cur] = None
             THEN [uuid EXCEPT ![tx[p].cur] = tx[p].resolved.uuid] ELSE uuid
  /\ tx' = [tx EXCEPT ![p].result = "switched"]
  /\ Goto(p, "done")
  /\ UNCHANGED <<live, cfg, bk, prev, bkCfg, stash, lock, env, faults, failedOpen>>

BeforeCommit == {"locked", "displace", "backupConfig", "activate"}

\* A write fails (or the target turns out to have nothing stored) before the
\* live login is touched: the error is returned as it is.
FailEarly(p) ==
  /\ pc[p] \in BeforeCommit
  /\ \/ Fault
     \/ pc[p] = "activate" /\ ~ Switchable(tx[p].target) /\ UNCHANGED faults
  /\ Leave(p)

FailLateBug(p) ==
  /\ pc[p] \in {"splice", "record"}
  /\ Fault
  /\ Goto(p, IF tx[p].had THEN "undoCreds" ELSE "done")
  /\ tx' = [tx EXCEPT ![p].result = IF tx[p].had THEN "rolledBack" ELSE "failed"]
  /\ UNCHANGED <<live, cfg, store, lock, env, failedOpen>>

\* A write fails after the live credential was replaced: undo in reverse order.
\* Without a live identity there was nothing to snapshot, and nothing is undone.
FailLate(p) ==
  /\ pc[p] \in {"splice", "record"}
  /\ Fault
  /\ Goto(p, IF ~ tx[p].had THEN "done"
             ELSE IF pc[p] = "record" THEN "undoConfig" ELSE "undoCreds")
  /\ tx' = [tx EXCEPT ![p].result = IF tx[p].had THEN "rolledBack" ELSE "failed"]
  /\ UNCHANGED <<live, cfg, store, lock, env, failedOpen>>

\* An undo step is best effort: if it fails the next one still runs.
UndoConfig(p) ==
  /\ pc[p] = "undoConfig"
  /\ \/ cfg' = tx[p].origCfg /\ UNCHANGED <<faults, tx>>
     \/ Fault /\ tx' = [tx EXCEPT ![p].result = "undoFailed"] /\ UNCHANGED cfg
  /\ Goto(p, "undoCreds")
  /\ UNCHANGED <<live, store, lock, env, failedOpen>>

UndoCreds(p) ==
  /\ pc[p] = "undoCreds"
  /\ \/ live' = tx[p].orig /\ UNCHANGED <<faults, tx>>
     \/ Fault /\ tx' = [tx EXCEPT ![p].result = "undoFailed"] /\ UNCHANGED live
  /\ Goto(p, "done")
  /\ UNCHANGED <<cfg, store, lock, env, failedOpen>>

Return(p) == pc[p] = "done" /\ Leave(p) /\ UNCHANGED faults

\* Death of the process: the kernel frees the FileLock, and the directory locks
\* are taken over once stale.
Crash(p) == pc[p] # "idle" /\ Fault /\ Leave(p)

Step(p) ==
  \/ ReadLive(p) \/ Resolve(p)
  \/ AcquireFile(p) \/ AcquireCred(p) \/ AcquireConfig(p) \/ LockTimeout(p)
  \/ Refuse(p) \/ DirectSnapshot(p) \/ StashDisplaced(p)
  \/ StashForeign(p) \/ LeaveForeign(p) \/ BackUpConfigOnly(p) \/ BackUpLive(p) \/ BackUpConfig(p)
  \/ Activate(p) \/ Splice(p) \/ Record(p)
  \/ FailEarly(p) \/ FailLate(p) \/ UndoConfig(p) \/ UndoCreds(p) \/ Return(p) \/ Crash(p)

---------------------------------------------------------------------------
(* Claude Code and its user (external): each write under the lock it takes *)

ClaudeUnchanged == UNCHANGED <<store, lock, pc, tx, faults, failedOpen>>

\* The server accepts a refresh token that no rotation has replaced.
Accepted(c) == c # None /\ <<c.acct, c.fam>> \notin dead

RefreshAccess ==
  /\ lock.cred = None /\ Accepted(live) /\ live.gen < MaxGen
  /\ live' = [live EXCEPT !.gen = @ + 1]
  /\ UNCHANGED <<cfg, env>> /\ ClaudeUnchanged

Rotate ==
  /\ lock.cred = None /\ Accepted(live) /\ fam < MaxFam
  /\ live' = [acct |-> live.acct, fam |-> fam + 1, gen |-> 0]
  /\ fam' = fam + 1
  /\ dead' = dead \cup {<<live.acct, live.fam>>}
  /\ UNCHANGED <<cfg, login, calls>> /\ ClaudeUnchanged

LoginToken(a) ==
  /\ lock.cred = None /\ login = None /\ fam < MaxFam
  /\ live' = [acct |-> a, fam |-> fam + 1, gen |-> 0]
  /\ fam' = fam + 1
  /\ login' = a
  /\ UNCHANGED <<cfg, dead, calls>> /\ ClaudeUnchanged

LoginConfig ==
  /\ lock.config = None /\ login # None
  /\ cfg' = [cfg EXCEPT !.id = IdOf(login)]
  /\ login' = None
  /\ UNCHANGED <<live, fam, dead, calls>> /\ ClaudeUnchanged

WriteOwnConfig ==
  /\ lock.config = None /\ cfg.rev < MaxRev
  /\ cfg' = [cfg EXCEPT !.rev = @ + 1]
  /\ UNCHANGED <<live, env>> /\ ClaudeUnchanged

\* The user logs out, or loses ~/.claude.json while the credential stays.
Logout ==
  /\ lock.config = None /\ lock.cred = None /\ cfg.id # None
  /\ cfg' = [cfg EXCEPT !.id = None]
  /\ live' \in {live, None}
  /\ UNCHANGED env /\ ClaudeUnchanged

Claude ==
  \/ RefreshAccess \/ Rotate \/ (\E a \in Account : LoginToken(a)) \/ LoginConfig
  \/ WriteOwnConfig \/ Logout

Next ==
  \/ \E p \in Process : Step(p) \/ \E t \in Slot, force \in BOOLEAN : Call(p, t, force)
  \/ Claude

Spec == Init /\ [][Next]_vars

---------------------------------------------------------------------------
Label == {"idle", "prefetch", "resolve", "file", "cred", "config", "locked", "displace",
          "backupConfig", "activate", "splice", "record", "undoConfig", "undoCreds", "done"}

Tx == [target : Slot \cup {None}, force : BOOLEAN, seen : Cred \cup {None},
       resolved : Identity \cup {None}, cur : Slot \cup {None}, orig : Cred \cup {None},
       origCfg : Config \cup {None}, had : BOOLEAN, backfill : BOOLEAN,
       result : {None, "switched", "rolledBack", "undoFailed", "failed"}]

TypeOK ==
  /\ live \in Cred \cup {None}
  /\ cfg \in Config
  /\ active \in Slot
  /\ uuid \in [Slot -> Account \cup {None}]
  /\ bk \in [Slot -> Cred \cup {None}]
  /\ prev \in [Slot -> Cred \cup {None}]
  /\ bkCfg \subseteq Slot
  /\ stash \subseteq Cred
  /\ lock \in [{"file", "cred", "config"} -> Process \cup {None}]
  /\ pc \in [Process -> Label]
  /\ tx \in [Process -> Tx]
  /\ login \in Account \cup {None}
  /\ fam \in 1 .. MaxFam
  /\ dead \subseteq Account \X (1 .. MaxFam)
  /\ faults \in 0 .. MaxFaults
  /\ calls \in 0 .. MaxCalls
  /\ failedOpen \subseteq Slot

\* A slot's backup is another account's credential only if some backup of that
\* slot was taken without a uuid-positive answer (the fail-open "unresolved",
\* or an own-rotated slot that had no uuid to compare).  Tokens that change
\* hands during the prefetch, half-done logins, rolled back and crashed
\* switches never contaminate a slot that was always verified.
NoSilentContamination ==
  \A s \in Slot : bk[s] # None /\ bk[s].acct # OwnerOf[s] => s \in failedOpen

\* "Switch failed and was rolled back" is true: credential and config, Claude
\* Code's own fields included, are what they were when the locks were taken.
RolledBackIsOriginal ==
  \A p \in Process : pc[p] = "done" /\ tx[p].result = "rolledBack" =>
    live = tx[p].orig /\ cfg = tx[p].origCfg

\* A reported switch has installed the target's stored credential, its identity
\* and its slot number, all three.
SwitchedIsTarget ==
  \A p \in Process : pc[p] = "done" /\ tx[p].result = "switched" =>
    /\ live = bk[tx[p].target]
    /\ cfg.id = IdOf(OwnerOf[tx[p].target])
    /\ active = tx[p].target

Copies == ({live} \cup {bk[s] : s \in Slot} \cup {prev[s] : s \in Slot} \cup stash) \ {None}

\* Somewhere there is a credential of the account the server still accepts.
Usable(a) == \E c \in Copies : c.acct = a /\ Accepted(c)

Contaminated(s) == \E c \in {bk[s], prev[s]} \ {None} : c.acct # OwnerOf[s]

\* The losses the code accepts: a live credential without a live identity is
\* overwritten unseen, --force goes on when the safety copy failed, a slot
\* that holds two accounts' tokens keeps only the last two, .prev is best
\* effort, and it is one generation deep: a backup the server has already
\* refused takes its place when a credential of no use to the slot's account
\* is backed up on trust.
LossAccepted(p) ==
  \/ pc[p] = "activate" /\ ~ tx[p].had
  \/ pc[p] = "activate" /\ tx[p].force /\ live \notin stash /\ faults > 0
  \/ pc[p] = "locked" /\ ~ Direct(p) /\ Contaminated(LiveSlot)
  \/ /\ pc[p] = "locked" /\ ~ Direct(p) /\ ~ Accepted(bk[LiveSlot])
     /\ ~ (Accepted(live) /\ live.acct = OwnerOf[LiveSlot])
  \/ pc[p] = "locked" /\ faults' # faults

\* No step of a switch, rollback included, destroys the last usable credential
\* of any account, managed or not: so none can be lost by dying between steps.
NothingLost ==
  [][\A p \in Process : pc'[p] # pc[p] /\ ~ LossAccepted(p) =>
       \A a \in Account : Usable(a) => Usable(a)']_vars

\* cswap never undoes a config write of Claude Code, in the splice or when it
\* restores the whole text on rollback.
ConfigUpdatesKept ==
  [][\A p \in Process : pc'[p] # pc[p] => cfg'.rev = cfg.rev]_vars
=============================================================================
