------------------------------- MODULE Roster -------------------------------
(* internal/lifecycle over internal/store: the operations that change the    *)
(* roster sequence.json and the backups it names.                            *)
(*                                                                           *)
(* add, add-token, remove, move, swap, alias and disable read the roster     *)
(* once under the store FileLock, decide, and carry out their writes one by  *)
(* one; questions to the user are asked before the lock and re-validated     *)
(* under it.  A backup is keyed by (slot, email), so two accounts with one   *)
(* email overlap when their slots are traded: their material is staged       *)
(* first.  Each write may fail and the process may die between any two.      *)
(* Not under the lock: Claude Code's logins, `cswap run`, and the org        *)
(* backfill that read-only commands perform on an old roster.                *)
EXTENDS Integers, FiniteSets, Sequences, FiniteSetsExt

CONSTANTS Process, Reader,  \* cswap commands that change, or only read, the roster
          Slot,             \* slot numbers, 1 .. n
          Account,
          TokenAccount,     \* the accounts that are added by token, not by login
          EmailOf, OrgOf,   \* an account's identity; OrgOf is None for a personal one
          Alias, None,
          Unset,            \* the organizationUuid of a record older than v0.6.0
          Ops,              \* the operations of this instance
          Initial,          \* the possible initial rosters: slot -> account
          MaxCalls, MaxFaults, MaxLogins, MaxLaunches  \* bounds

Email == {EmailOf[a] : a \in Account}
Key == Slot \X Email
Kind == {"creds", "config"}
Partial == "partial"  \* a file whose write stopped half way

Idents == Email \X ({OrgOf[a] : a \in Account} \cup {None})
Record == [email : Email, org : {OrgOf[a] : a \in Account} \cup {None, Unset},
           alias : Alias \cup {None}, off : BOOLEAN]

ASSUME RosterAssumption ==
  /\ IsFiniteSet(Slot) /\ Slot = 1 .. Cardinality(Slot) /\ 1 \in Slot
  /\ TokenAccount \subseteq Account
  /\ \A r \in Initial : /\ r \in [Slot -> Account \cup {None}]
                        /\ \A m, n \in Slot : r[m] = r[n] /\ r[m] # None => m = n
  /\ \A a, b \in Account : EmailOf[a] = EmailOf[b] /\ OrgOf[a] = OrgOf[b] => a = b
  /\ \A a \in TokenAccount : OrgOf[a] = None
  /\ Partial \notin Account
  /\ None \notin Account /\ None \notin Slot /\ None \notin Alias /\ None \notin Process
  /\ None \notin Record /\ None \notin Idents
  /\ Unset \notin {OrgOf[a] : a \in Account} \cup {None}
  /\ {MaxCalls, MaxFaults, MaxLogins, MaxLaunches} \subseteq Nat

VARIABLES seq,    \* sequence.json: the records and activeAccountNumber
          bk,     \* whose credential or config each backup file holds
          stage,  \* .swap-staging files
          sess,   \* whose session profile each session directory is
          live,   \* the profiles (by owner) a running Claude Code is registered in
          login,  \* the account of Claude Code's live login
          lock,   \* holder of the store FileLock
          pc, op, \* each command's progress and locals
          snap,   \* the roster a reader is about to write back
          calls, faults, logins, launches

count == <<calls, logins, launches>>
vars == <<seq, bk, stage, sess, live, login, lock, pc, op, snap, count, faults>>

\* FindAccountSlot compares a missing organizationUuid as "".
IdOf(rec) == <<rec.email, IF rec.org = Unset THEN None ELSE rec.org>>
AccountId(a) == <<EmailOf[a], OrgOf[a]>>
Holds(rec, id) == rec # None /\ IdOf(rec) = id
SlotsOf(data, id) == {n \in Slot : Holds(data.acct[n], id)}
FindAccountSlotBug(data, id) == IF Holds(data.acct[1], id) THEN 1 ELSE None

FindAccountSlot(data, id) == IF SlotsOf(data, id) = {} THEN None ELSE Min(SlotsOf(data, id))
Used(data) == {n \in Slot : data.acct[n] # None}
NextAccountNumber(data) == Max(Used(data) \cup {0}) + 1
AliasInUse(data, alias, n) ==
  alias # None /\ \E m \in Slot \ {n} : data.acct[m] # None /\ data.acct[m].alias = alias

NewRecord(email, org, alias) == [email |-> email, org |-> org, alias |-> alias, off |-> FALSE]

\* migrateOrgFields: from the live config, else from the slot's config backup.
Backfilled(data) ==
  LET org(n) ==
        LET e == data.acct[n].email
            backup == bk[<<"config", <<n, e>>>>]
        IN  IF login # None /\ EmailOf[login] = e THEN OrgOf[login]
            ELSE IF backup = None THEN None ELSE OrgOf[backup]
  IN  [data EXCEPT !.acct = [n \in Slot |->
         IF data.acct[n] # None /\ data.acct[n].org = Unset
         THEN [data.acct[n] EXCEPT !.org = org(n)] ELSE data.acct[n]]]

NeedsBackfill(data) == \E n \in Used(data) : data.acct[n].org = Unset

NoOp == [kind |-> None, id |-> None, who |-> None, slot |-> None, to |-> None,
         yes |-> FALSE, alias |-> None, confirmed |-> None, data |-> None,
         todo |-> <<>>, undo |-> <<>>, staged |-> {}, failed |-> FALSE, failures |-> 0,
         refused |-> FALSE, bk0 |-> None, sess0 |-> None]

Init ==
  /\ \E r \in Initial, org \in {TRUE, FALSE}, empty \in SUBSET {2} :
       \* Before v0.6.0 there was one account per email.
       /\ org \/ (Reader # {} /\ \A m, n \in Slot : m # n /\ r[m] # None /\ r[n] # None =>
                                   EmailOf[r[m]] # EmailOf[r[n]])
       /\ seq = [acct |-> [n \in Slot |->
                   IF r[n] = None THEN None
                   ELSE NewRecord(EmailOf[r[n]], IF org THEN OrgOf[r[n]] ELSE Unset, None)],
                 active |-> 1]
       \* A slot may have lost its credential backup, and its config backup.
       /\ bk = [f \in Kind \X Key |->
                  IF f[2][1] \notin empty /\ r[f[2][1]] # None /\ EmailOf[r[f[2][1]]] = f[2][2]
                  THEN r[f[2][1]] ELSE None]
       /\ sess = [k \in Key |-> IF r[k[1]] # None /\ EmailOf[r[k[1]]] = k[2] THEN r[k[1]] ELSE None]
       /\ login \in {r[1]} \cup {a \in Account \ TokenAccount : \A n \in Slot : r[n] # a}
  /\ stage = [f \in Kind \X Slot |-> None]
  /\ live = {}
  /\ lock = None
  /\ pc = [p \in Process |-> "idle"]
  /\ op = [p \in Process |-> NoOp]
  /\ snap = [r \in Reader |-> None]
  /\ calls = 0 /\ faults = 0 /\ logins = 0 /\ launches = 0

---------------------------------------------------------------------------
(* The writes an operation carries out under the lock, as instructions.  A   *)
(* failed one ends the operation (and runs its undo) if it must succeed, and *)
(* is only logged otherwise.                                                 *)

Put(kind, n, e, v, must) == [do |-> "put", file |-> <<kind, <<n, e>>>>, val |-> v, must |-> must]
DeleteAccountFiles(n, e, must) == [do |-> "delete", key |-> <<n, e>>, must |-> must]
WriteSequence(data) == [do |-> "commit", data |-> data, must |-> TRUE]
StageFile(kind, n, v) == [do |-> "stage", file |-> <<kind, n>>, val |-> v, must |-> TRUE]
MoveProfile(from, to) == [do |-> "move", from |-> from, to |-> to, must |-> FALSE]
SwapProfiles(a, b) == [do |-> "exchange", a |-> a, b |-> b, must |-> FALSE]
Discard == [do |-> "discard", must |-> FALSE]

\* WriteAccountCredentials and WriteAccountConfig of one account, or what
\* clears both files when there is nothing to write.
PutBoth(n, e, creds, config, must) ==
  <<Put("creds", n, e, creds, must), Put("config", n, e, config, must)>>

When(c, instruction) == IF c THEN <<instruction>> ELSE <<>>

\* LiveSessionPIDs reads the registrations inside the directory, so a session
\* is live wherever its profile has been renamed to.
LiveSession(k) == sess[k] \in live

WithRecord(data, n, rec) ==
  [data EXCEPT !.acct = [m \in Slot |-> IF m = n THEN rec ELSE data.acct[m]]]
Without(data, n) == WithRecord(data, n, None)

Refused == [todo |-> <<>>, undo |-> <<>>, refused |-> TRUE]
Plan(todo, undo) == [todo |-> todo, undo |-> undo, refused |-> FALSE]

---------------------------------------------------------------------------
(* AddAccount and AddAccountFromToken *)

SlotOccupant(data, n, id) ==
  IF data.acct[n] = None \/ IdOf(data.acct[n]) = id THEN None ELSE IdOf(data.acct[n])

AddRefreshInPlace(o, data, n, who) ==
  IF AliasInUse(data, o.alias, n) THEN Refused
  ELSE LET marked == IF o.alias = None THEN data ELSE [data EXCEPT !.acct[n].alias = o.alias]
           final == IF o.kind = "token" THEN marked ELSE [marked EXCEPT !.active = n]
       IN  Plan(PutBoth(n, o.id[1], who, who, TRUE) \o <<WriteSequence(final)>>, <<>>)

\* Whether the occupant may be displaced: nobody, whoever is there (--yes), or
\* exactly the one the user was shown.
RevalidateDisplacementBug(o, occupant) == TRUE

RevalidateDisplacement(o, occupant) ==
  occupant = None \/ o.yes \/ o.confirmed = occupant

AddToSlot(o, data, n, who) ==
  LET occupant == SlotOccupant(data, n, o.id)
      old == FindAccountSlot(data, o.id)
      from == IF o.slot # None /\ old # None /\ old # n THEN old ELSE None
      cleared == IF occupant = None THEN data ELSE Without(data, n)
      moved == IF from = None THEN cleared ELSE Without(cleared, from)
      carried == IF o.slot = None \/ o.kind = "token" THEN None
                 ELSE IF from # None /\ data.acct[from].alias # None THEN data.acct[from].alias
                 ELSE IF Holds(data.acct[n], o.id) THEN data.acct[n].alias ELSE None
      record == NewRecord(o.id[1], OrgOf[who], IF o.alias # None THEN o.alias ELSE carried)
      added == WithRecord(moved, n, record)
      final == IF o.kind = "token" THEN added ELSE [added EXCEPT !.active = n]
  IN  IF ~ RevalidateDisplacement(o, occupant) \/ AliasInUse(data, o.alias, n) THEN Refused
      ELSE Plan((IF occupant = None THEN <<>>
                 ELSE <<DeleteAccountFiles(n, occupant[1], TRUE), WriteSequence(cleared)>>)
                \o (IF from = None THEN <<>>
                    ELSE <<DeleteAccountFiles(from, o.id[1], TRUE), WriteSequence(moved)>>)
                \o PutBoth(n, o.id[1], who, who, TRUE)
                \o <<WriteSequence(final)>>, <<>>)

\* What is stored is the login found under the lock (or the token).
AddPlan(o, data) ==
  LET who == IF o.kind = "token" THEN o.who ELSE login
      old == FindAccountSlot(data, o.id)
  IN  IF who = None THEN Refused
      ELSE IF o.slot = None /\ old # None THEN AddRefreshInPlace(o, data, old, who)
      ELSE AddToSlot(o, data, IF o.slot = None THEN NextAccountNumber(data) ELSE o.slot, who)

---------------------------------------------------------------------------
(* RemoveAccount *)

RemovePlanBug(o, data) ==
  LET n == o.slot IN
  IF data.acct[n] = None \/ data.acct[n].email # o.id[1] \/ LiveSession(<<n, o.id[1]>>)
  THEN Refused
  ELSE Plan(<<DeleteAccountFiles(n, o.id[1], TRUE), WriteSequence(Without(data, n))>>, <<>>)

\* Deletes nothing unless the slot still holds the account the user confirmed.
RemovePlan(o, data) ==
  LET n == o.slot IN
  IF ~ Holds(data.acct[n], o.id) \/ LiveSession(<<n, o.id[1]>>) THEN Refused
  ELSE Plan(<<DeleteAccountFiles(n, o.id[1], TRUE), WriteSequence(Without(data, n))>>, <<>>)

---------------------------------------------------------------------------
(* MoveAccount and SwapAccounts *)

RenumberedBug(data, a, b) ==
  [acct |-> [data.acct EXCEPT ![a] = data.acct[b], ![b] = data.acct[a]],
   active |-> IF data.active \in {a, b} THEN None ELSE data.active]

Renumbered(data, a, b) ==
  [acct |-> [data.acct EXCEPT ![a] = data.acct[b], ![b] = data.acct[a]],
   active |-> IF data.active = a THEN b ELSE IF data.active = b THEN a ELSE data.active]

Stored(kind, n, e) == bk[<<kind, <<n, e>>>>]

RelocatePlan(data, src, dst) ==
  LET e == data.acct[src].email IN
  IF LiveSession(<<src, e>>) THEN Refused
  ELSE Plan(<<MoveProfile(<<src, e>>, <<dst, e>>)>>
            \o PutBoth(dst, e, Stored("creds", src, e), Stored("config", src, e), TRUE)
            \o <<WriteSequence(Renumbered(data, src, dst)),
                 DeleteAccountFiles(src, e, FALSE)>>,
            PutBoth(dst, e, None, None, FALSE) \o <<MoveProfile(<<dst, e>>, <<src, e>>)>>)

\* stageOverlapMaterial: a copy of each file about to be overwritten.
StagePlanBug(a, b, e) == <<>>

StagePlan(a, b, e) ==
  LET copy(kind, n) == When(Stored(kind, n, e) # None, StageFile(kind, n, Stored(kind, n, e)))
  IN  copy("creds", a) \o copy("config", a) \o copy("creds", b) \o copy("config", b)

RollbackSwapBug(a, ea, b, eb) ==
  <<SwapProfiles(<<b, ea>>, <<a, eb>>)>>
  \o (IF ea = eb THEN <<>>
      ELSE PutBoth(b, ea, None, None, FALSE) \o PutBoth(a, eb, None, None, FALSE))
  \o <<Discard>>

\* rollbackSwap, every step of it best effort.
RollbackSwap(a, ea, b, eb) ==
  LET put(kind, n, e) == When(Stored(kind, n, e) # None \/ ea = eb,
                              Put(kind, n, e, Stored(kind, n, e), FALSE))
      restore(n, e) == put("creds", n, e) \o put("config", n, e)
  IN  <<SwapProfiles(<<b, ea>>, <<a, eb>>)>>
      \o restore(a, ea) \o restore(b, eb)
      \o (IF ea = eb THEN <<>>
          ELSE PutBoth(b, ea, None, None, FALSE) \o PutBoth(a, eb, None, None, FALSE))
      \o <<Discard>>

SwapPlan(data, a, b) ==
  LET ea == data.acct[a].email
      eb == data.acct[b].email
  IN  IF LiveSession(<<a, ea>>) \/ LiveSession(<<b, eb>>) THEN Refused
      ELSE Plan((IF ea = eb THEN StagePlan(a, b, ea) ELSE <<>>)
                \o <<SwapProfiles(<<a, ea>>, <<b, eb>>)>>
                \o PutBoth(b, ea, Stored("creds", a, ea), Stored("config", a, ea), TRUE)
                \o PutBoth(a, eb, Stored("creds", b, eb), Stored("config", b, eb), TRUE)
                \o <<WriteSequence(Renumbered(data, a, b))>>
                \o (IF ea = eb THEN <<>>
                    ELSE <<DeleteAccountFiles(a, ea, FALSE), DeleteAccountFiles(b, eb, FALSE)>>)
                \o <<Discard>>,
                RollbackSwap(a, ea, b, eb))

MovePlan(o, data) ==
  IF data.acct[o.slot] = None \/ o.slot = o.to THEN Refused
  ELSE IF data.acct[o.to] = None THEN RelocatePlan(data, o.slot, o.to)
  ELSE SwapPlan(data, o.slot, o.to)

---------------------------------------------------------------------------
(* SetAlias, UnsetAlias and SetAccountDisabled *)

AliasPlanBug(o, data) ==
  IF data.acct[o.slot] = None THEN Refused
  ELSE Plan(<<WriteSequence([data EXCEPT !.acct[o.slot].alias = o.alias])>>, <<>>)

AliasPlan(o, data) ==
  IF data.acct[o.slot] = None \/ AliasInUse(data, o.alias, o.slot) THEN Refused
  ELSE IF o.alias = None /\ data.acct[o.slot].alias = None THEN Plan(<<>>, <<>>)
  ELSE Plan(<<WriteSequence([data EXCEPT !.acct[o.slot].alias = o.alias])>>, <<>>)

DisablePlan(o, data) ==
  IF data.acct[o.slot] = None THEN Refused
  ELSE IF data.acct[o.slot].off = o.yes THEN Plan(<<>>, <<>>)
  ELSE Plan(<<WriteSequence([data EXCEPT !.acct[o.slot].off = o.yes])>>, <<>>)

PlanOf(o, data) ==
  CASE o.kind \in {"add", "token"} -> AddPlan(o, data)
    [] o.kind = "remove" -> RemovePlan(o, data)
    [] o.kind = "move" -> MovePlan(o, data)
    [] o.kind = "alias" -> AliasPlan(o, data)
    [] o.kind = "disable" -> DisablePlan(o, data)

---------------------------------------------------------------------------
(* The commands *)

Fault == faults < MaxFaults /\ faults' = faults + 1

Begin(p, o, next) ==
  /\ pc[p] = "idle"
  /\ o.kind \in Ops
  /\ calls < MaxCalls /\ calls' = calls + 1
  /\ op' = [op EXCEPT ![p] = o]
  /\ pc' = [pc EXCEPT ![p] = next]
  /\ UNCHANGED <<seq, bk, stage, sess, live, login, lock, snap, logins, launches, faults>>

\* The identity to add is read from the live config before the question.
CallAdd(p, slot, yes, alias) ==
  /\ login # None
  /\ slot = None => NextAccountNumber(seq) \in Slot  \* bound: slot numbers
  /\ Begin(p, [NoOp EXCEPT !.kind = "add", !.id = AccountId(login), !.slot = slot, !.yes = yes,
                           !.alias = alias],
           IF slot # None /\ ~ yes THEN "ask" ELSE "enter")

CallAddToken(p, who, slot, yes) ==
  /\ slot = None => NextAccountNumber(seq) \in Slot
  /\ Begin(p, [NoOp EXCEPT !.kind = "token", !.id = AccountId(who), !.who = who, !.slot = slot,
                           !.yes = yes],
           IF slot # None /\ ~ yes THEN "ask" ELSE "enter")

\* The account is resolved and confirmed against a roster read without the lock
\* (of an old roster once a Reader, which RemoveAccount also is, backfilled it).
CallRemove(p, n) ==
  /\ ~ NeedsBackfill(seq)
  /\ seq.acct[n] # None
  /\ ~ LiveSession(<<n, seq.acct[n].email>>)
  /\ Begin(p, [NoOp EXCEPT !.kind = "remove", !.id = IdOf(seq.acct[n]), !.slot = n], "enter")

CallMove(p, n, to) ==
  /\ n # to
  /\ Begin(p, [NoOp EXCEPT !.kind = "move", !.slot = n, !.to = to], "enter")

CallAlias(p, n, alias) ==
  Begin(p, [NoOp EXCEPT !.kind = "alias", !.slot = n, !.alias = alias], "enter")

CallDisable(p, n, off) ==
  Begin(p, [NoOp EXCEPT !.kind = "disable", !.slot = n, !.yes = off], "enter")

\* confirmDisplacement: the occupant is read under a short lock of its own; the
\* user then confirms overwriting it, or not.
ConfirmDisplacement(p) ==
  /\ pc[p] = "ask"
  /\ lock = None
  /\ seq' = Backfilled(seq)
  /\ LET occupant == SlotOccupant(Backfilled(seq), op[p].slot, op[p].id)
     IN  \/ op' = [op EXCEPT ![p].confirmed = occupant] /\ pc' = [pc EXCEPT ![p] = "enter"]
         \/ occupant # None /\ op' = [op EXCEPT ![p] = NoOp] /\ pc' = [pc EXCEPT ![p] = "idle"]
  /\ UNCHANGED <<bk, stage, sess, live, login, lock, snap, count, faults>>

WithRosterLockedBug(p) ==
  /\ pc[p] = "enter"
  /\ seq' = Backfilled(seq)
  /\ NextAccountNumber(seq) \in Slot \/ op[p].slot # None
  /\ LET plan == PlanOf(op[p], Backfilled(seq))
     IN  op' = [op EXCEPT ![p].data = Backfilled(seq), ![p].todo = plan.todo, ![p].undo = plan.undo,
                          ![p].refused = plan.refused, ![p].bk0 = bk, ![p].sess0 = sess]
  /\ pc' = [pc EXCEPT ![p] = "run"]
  /\ UNCHANGED <<bk, stage, sess, live, login, lock, snap, count, faults>>

WithRosterLockedStale(p) ==
  /\ pc[p] = "enter"
  /\ lock = None
  /\ lock' = p
  /\ seq' = Backfilled(seq)
  /\ NextAccountNumber(seq) \in Slot \/ op[p].slot # None
  /\ LET plan == PlanOf(op[p], seq)
     IN  op' = [op EXCEPT ![p].data = seq, ![p].todo = plan.todo, ![p].undo = plan.undo,
                          ![p].refused = plan.refused, ![p].bk0 = bk, ![p].sess0 = sess]
  /\ pc' = [pc EXCEPT ![p] = "run"]
  /\ UNCHANGED <<bk, stage, sess, live, login, snap, count, faults>>

\* The lock, the backfill, the one read of the roster, and what it decides.
WithRosterLocked(p) ==
  /\ pc[p] = "enter"
  /\ lock = None
  /\ lock' = p
  /\ seq' = Backfilled(seq)
  /\ NextAccountNumber(seq) \in Slot \/ op[p].slot # None  \* bound: slot numbers
  /\ LET plan == PlanOf(op[p], Backfilled(seq))
     IN  op' = [op EXCEPT ![p].data = Backfilled(seq), ![p].todo = plan.todo, ![p].undo = plan.undo,
                          ![p].refused = plan.refused, ![p].bk0 = bk, ![p].sess0 = sess]
  /\ pc' = [pc EXCEPT ![p] = "run"]
  /\ UNCHANGED <<bk, stage, sess, live, login, snap, count, faults>>

RosterUnreadableBug(p) ==
  LET none == [seq EXCEPT !.acct = [n \in Slot |-> None]]
      plan == PlanOf(op[p], none)
  IN  /\ pc[p] = "enter" /\ lock = None /\ Fault
      /\ lock' = p
      /\ op' = [op EXCEPT ![p].data = none, ![p].todo = plan.todo, ![p].undo = plan.undo,
                          ![p].refused = plan.refused, ![p].bk0 = bk, ![p].sess0 = sess]
      /\ pc' = [pc EXCEPT ![p] = "run"]
      /\ UNCHANGED <<seq, bk, stage, sess, live, login, snap, count>>

\* classifiedRoster: a roster that is there and cannot be read ends the command,
\* under either lock; it is not taken for an empty one.
RosterUnreadable(p) ==
  /\ pc[p] \in {"ask", "enter"} /\ lock = None /\ Fault
  /\ pc' = [pc EXCEPT ![p] = "idle"]
  /\ op' = [op EXCEPT ![p] = NoOp]
  /\ UNCHANGED <<seq, bk, stage, sess, live, login, lock, snap, count>>

LockTimeout(p) ==
  /\ pc[p] \in {"ask", "enter"}
  /\ lock # None
  /\ pc' = [pc EXCEPT ![p] = "idle"]
  /\ op' = [op EXCEPT ![p] = NoOp]
  /\ UNCHANGED <<seq, bk, stage, sess, live, login, lock, snap, count, faults>>

---------------------------------------------------------------------------
(* Carrying out the instructions *)

Doing(p, what) == pc[p] = "run" /\ op[p].todo # <<>> /\ Head(op[p].todo).do = what
Now(p) == Head(op[p].todo)
Advance(p) == op' = [op EXCEPT ![p].todo = Tail(@)]

\* The operation fails: its undo runs, and after the commit there is none.
Abort(p) ==
  op' = [op EXCEPT ![p].todo = op[p].undo, ![p].undo = <<>>, ![p].failed = TRUE]

\* A step that failed: fatal, or logged and counted.
Failed(p) ==
  IF Now(p).must THEN Abort(p)
  ELSE op' = [op EXCEPT ![p].todo = Tail(@), ![p].failures = @ + 1]

WriteFile(p) ==
  /\ Doing(p, "put")
  /\ bk' = [bk EXCEPT ![Now(p).file] = Now(p).val]
  /\ Advance(p)
  /\ UNCHANGED <<seq, stage, sess, live, login, lock, pc, snap, count, faults>>

DeleteFilesBug(p) ==
  /\ Doing(p, "delete")
  /\ LET k == Now(p).key IN
       /\ bk' = [bk EXCEPT ![<<"creds", k>>] = None, ![<<"config", k>>] = None]
       /\ sess' = [sess EXCEPT ![k] = None]
  /\ Advance(p)
  /\ UNCHANGED <<seq, stage, live, login, lock, pc, snap, count, faults>>

\* DeleteAccountFiles, the chokepoint: refuses while a session is live.  The
\* credential's deletion is best effort, the config's is not.
DeleteFiles(p) ==
  /\ Doing(p, "delete")
  /\ LET k == Now(p).key IN
       \/ /\ LiveSession(k)
          /\ Failed(p)
          /\ UNCHANGED <<bk, sess, faults>>
       \/ /\ ~ LiveSession(k)
          /\ bk' = [bk EXCEPT ![<<"creds", k>>] = None, ![<<"config", k>>] = None]
          /\ sess' = [sess EXCEPT ![k] = None]
          /\ Advance(p)
          /\ UNCHANGED faults
       \/ /\ ~ LiveSession(k) /\ Fault   \* the credential stays
          /\ bk' = [bk EXCEPT ![<<"config", k>>] = None]
          /\ sess' = [sess EXCEPT ![k] = None]
          /\ Advance(p)
       \/ /\ ~ LiveSession(k) /\ Fault   \* the config stays
          /\ bk' = [bk EXCEPT ![<<"creds", k>>] = None]
          /\ Failed(p)
          /\ UNCHANGED sess
  /\ UNCHANGED <<seq, stage, live, login, lock, pc, snap, count>>

\* The sequence write is the commit point: nothing is undone after it.
Commit(p) ==
  /\ Doing(p, "commit")
  /\ seq' = Now(p).data
  /\ op' = [op EXCEPT ![p].todo = Tail(@), ![p].undo = <<>>, ![p].data = Now(p).data]
  /\ UNCHANGED <<bk, stage, sess, live, login, lock, pc, snap, count, faults>>

\* One staging copy (O_EXCL).  If it cannot be made, or one is left over from an
\* interrupted swap, the finished copies are dropped (one whose write failed is
\* not) and the swap fails.
Stage(p) ==
  /\ Doing(p, "stage")
  /\ LET f == Now(p).file
         dropped == [g \in DOMAIN stage |-> IF g \in op[p].staged THEN None ELSE stage[g]]
     IN  \/ /\ stage[f] = None
            /\ stage' = [stage EXCEPT ![f] = Now(p).val]
            /\ op' = [op EXCEPT ![p].todo = Tail(@), ![p].staged = @ \cup {f}]
            /\ UNCHANGED faults
         \/ /\ \/ stage[f] # None /\ stage' = dropped /\ UNCHANGED faults
               \/ /\ stage[f] = None /\ Fault
                  /\ stage' \in {dropped, [dropped EXCEPT ![f] = Partial]}
            /\ op' = [op EXCEPT ![p].todo = op[p].undo, ![p].undo = <<>>, ![p].failed = TRUE,
                                ![p].staged = {}, ![p].refused = TRUE]
  /\ UNCHANGED <<seq, bk, sess, live, login, lock, pc, snap, count>>

RelocateProfile(p) ==
  /\ Doing(p, "move")
  /\ LET a == Now(p).from
         b == Now(p).to
     IN  \/ /\ sess' = IF sess[a] # None /\ sess[b] = None
                       THEN [sess EXCEPT ![b] = sess[a], ![a] = None] ELSE sess
            /\ UNCHANGED faults
         \/ Fault /\ UNCHANGED sess
  /\ Advance(p)
  /\ UNCHANGED <<seq, bk, stage, live, login, lock, pc, snap, count>>

\* swapSessionDirs of (numA, emailA) and (numB, emailB): A's profile steps
\* aside, B's moves to (numA, emailB), A's to (numB, emailA), or back.
Exchanged(a, b, landed) ==
  LET newA == <<b[1], a[2]>>
      newB == <<a[1], b[2]>>
      aside == [sess EXCEPT ![a] = None]
      crossed == IF aside[b] # None /\ aside[newB] = None
                 THEN [aside EXCEPT ![newB] = aside[b], ![b] = None] ELSE aside
  IN  IF landed /\ crossed[newA] = None THEN [crossed EXCEPT ![newA] = sess[a]]
      ELSE IF crossed[a] = None THEN [crossed EXCEPT ![a] = sess[a]] ELSE crossed

\* A rename that fails is logged: the exchange stops there.
SwapSessionDirs(p) ==
  /\ Doing(p, "exchange")
  /\ \/ sess' = Exchanged(Now(p).a, Now(p).b, TRUE) /\ UNCHANGED faults
     \/ Fault /\ sess' \in {sess, Exchanged(Now(p).a, Now(p).b, FALSE)}
  /\ Advance(p)
  /\ UNCHANGED <<seq, bk, stage, live, login, lock, pc, snap, count>>

\* After a clean rollback, or the commit, the staged copies go.
DiscardStaging(p) ==
  /\ Doing(p, "discard")
  /\ \/ /\ stage' = IF op[p].failed /\ op[p].failures > 0 THEN stage
                    ELSE [g \in DOMAIN stage |-> IF g \in op[p].staged THEN None ELSE stage[g]]
        /\ UNCHANGED faults
     \/ Fault /\ UNCHANGED stage
  /\ Advance(p)
  /\ UNCHANGED <<seq, bk, sess, live, login, lock, pc, snap, count>>

WriteFails(p) ==
  /\ Doing(p, "put") \/ Doing(p, "commit")
  /\ Fault
  /\ Failed(p)
  /\ UNCHANGED <<seq, bk, stage, sess, live, login, lock, pc, snap, count>>

Unlock(p) ==
  /\ lock' = IF lock = p THEN None ELSE lock
  /\ pc' = [pc EXCEPT ![p] = "idle"]
  /\ op' = [op EXCEPT ![p] = NoOp]
  /\ UNCHANGED <<seq, bk, stage, sess, live, login, snap, count>>

Return(p) == pc[p] = "run" /\ op[p].todo = <<>> /\ Unlock(p) /\ UNCHANGED faults

Crash(p) == pc[p] = "run" /\ op[p].todo # <<>> /\ Fault /\ Unlock(p)

Step(p) ==
  \/ ConfirmDisplacement(p) \/ WithRosterLocked(p) \/ RosterUnreadable(p) \/ LockTimeout(p)
  \/ WriteFile(p) \/ DeleteFiles(p) \/ Commit(p) \/ Stage(p) \/ RelocateProfile(p)
  \/ SwapSessionDirs(p) \/ DiscardStaging(p) \/ WriteFails(p) \/ Return(p) \/ Crash(p)

Call(p) ==
  \/ \E slot \in Slot \cup {None}, yes \in BOOLEAN, alias \in Alias \cup {None} :
       CallAdd(p, slot, yes, alias)
  \/ \E who \in TokenAccount, slot \in Slot \cup {None}, yes \in BOOLEAN :
       CallAddToken(p, who, slot, yes)
  \/ \E n \in Slot : CallRemove(p, n)
  \/ \E n, to \in Slot : CallMove(p, n, to)
  \/ \E n \in Slot, alias \in Alias \cup {None} : CallAlias(p, n, alias)
  \/ \E n \in Slot, off \in BOOLEAN : CallDisable(p, n, off)

---------------------------------------------------------------------------
(* What happens without the lock *)

\* SequenceMigrated in a read-only command: migrateOrgFields' read, and its write.
BackfillRead(r) ==
  /\ snap[r] = None /\ NeedsBackfill(seq)
  /\ snap' = [snap EXCEPT ![r] = seq]
  /\ UNCHANGED <<seq, bk, stage, sess, live, login, lock, pc, op, count, faults>>

BackfillWrite(r) ==
  /\ snap[r] # None
  /\ seq' = Backfilled(snap[r])
  /\ snap' = [snap EXCEPT ![r] = None]
  /\ UNCHANGED <<bk, stage, sess, live, login, lock, pc, op, count, faults>>

\* The user logs in to another account in Claude Code (external).
Login(a) ==
  /\ logins < MaxLogins /\ logins' = logins + 1
  /\ login' = a
  /\ UNCHANGED <<seq, bk, stage, sess, live, lock, pc, op, snap, calls, launches, faults>>

\* `cswap run` reuses a valid session profile without the lock; Claude Code
\* exits (external).
Launch(k) ==
  /\ sess[k] # None /\ ~ LiveSession(k)
  /\ launches < MaxLaunches /\ launches' = launches + 1
  /\ live' = live \cup {sess[k]}
  /\ UNCHANGED <<seq, bk, stage, sess, login, lock, pc, op, snap, calls, logins, faults>>

Exit(a) ==
  /\ a \in live
  /\ live' = live \ {a}
  /\ UNCHANGED <<seq, bk, stage, sess, login, lock, pc, op, snap, count, faults>>

Next ==
  \/ \E p \in Process : Step(p) \/ Call(p)
  \/ \E r \in Reader : BackfillRead(r) \/ BackfillWrite(r)
  \/ \E a \in Account \ TokenAccount : Login(a)
  \/ \E k \in Key : Launch(k)
  \/ \E a \in Account : Exit(a)

Spec == Init /\ [][Next]_vars

---------------------------------------------------------------------------
Data == [acct : [Slot -> Record \cup {None}], active : Slot]

TypeOK ==
  /\ seq \in Data
  /\ bk \in [Kind \X Key -> Account \cup {None}]
  /\ stage \in [Kind \X Slot -> Account \cup {None, Partial}]
  /\ sess \in [Key -> Account \cup {None}]
  /\ live \subseteq Account
  /\ login \in Account \cup {None}
  /\ lock \in Process \cup {None}
  /\ pc \in [Process -> {"idle", "ask", "enter", "run"}]
  /\ \A p \in Process : op[p].data \in Data \cup {None} /\ op[p].id \in Idents \cup {None}
  /\ snap \in [Reader -> Data \cup {None}]

Ended(p) == pc[p] = "run" /\ op[p].todo = <<>>

\* RULE 4: the roster an operation decides from is, until its last commit, the
\* roster in the file.
RosterIsCurrent == \A p \in Process : pc[p] = "run" => op[p].data = seq

\* No account is in two slots and no alias names two accounts, whatever adds,
\* moves and failures overlap: findAccountSlot and the alias checks look at a
\* roster nobody else can change (lifecycle/add.go, lifecycle/alias.go).
UniqueNames ==
  \A m, n \in Used(seq) : m # n =>
    /\ IdOf(seq.acct[m]) # IdOf(seq.acct[n])
    /\ seq.acct[m].alias # None => seq.acct[m].alias # seq.acct[n].alias

\* When no operation is under way, a slot's backup files are its own account's.
\* If a swap died, or its rollback failed, so that one is another's, a staging
\* file says so: it holds the account's own copy or the misfiled one.
StoredIsOwnOrStaged ==
  lock = None =>
    \A n \in Used(seq), kind \in Kind, a \in Account :
      LET stored == Stored(kind, n, EmailOf[a]) IN
      AccountId(a) = IdOf(seq.acct[n]) /\ stored \notin {a, None} =>
        \E m \in Slot : stage[<<kind, m>>] \in {a, stored}

\* A move or swap that failed, and could undo every step, leaves each account's
\* slot and backup files as they were.
FailedMoveIsUndone ==
  \A p \in Process : Ended(p) /\ op[p].kind = "move" /\ op[p].failed /\ op[p].failures = 0 =>
    /\ seq = op[p].data
    /\ \A n \in Used(seq), kind \in Kind :
         LET f == <<kind, <<n, seq.acct[n].email>>>> IN bk[f] = op[p].bk0[f]

\* A copy that serves the account: live, under its slot, or staged for its return.
HasCopy(a) ==
  \/ login = a
  \/ \E n \in SlotsOf(seq, AccountId(a)) : Stored("creds", n, EmailOf[a]) = a
  \/ \E n \in Slot : stage[<<"creds", n>>] = a

\* Only the deletion the user asked for (a removal, a displacement, or an add
\* that renumbers its own account), and a login, may take from a managed account
\* the last copy that serves it: no write, commit, rollback, cleanup or discarded
\* staging file of a command does.
NoCredentialLost ==
  [][\A p \in Process : pc[p] = "run" /\ ~ (Doing(p, "delete") /\ Now(p).must) /\ UNCHANGED login =>
       \A a \in Account :
         SlotsOf(seq, AccountId(a)) # {} /\ HasCopy(a) /\ SlotsOf(seq', AccountId(a)) # {} => HasCopy(a)']_vars

\* The lazy org backfill is never undone: an operation that reads an old roster
\* commits it filled in, and so does a reader's late write.
BackfillNotReverted == [][~ NeedsBackfill(seq) => ~ NeedsBackfill(seq')]_vars

\* What is deleted under the lock is the account the user confirmed (or the one
\* being added), though the slot may have changed hands at the prompt.
DeletesOnlyConfirmed ==
  [][\A p \in Process : Doing(p, "delete") /\ Now(p).must /\ bk' # bk =>
       LET rec == seq.acct[Now(p).key[1]] IN
       rec # None /\ (IdOf(rec) \in {op[p].id, op[p].confirmed} \/ op[p].yes)]_vars

\* The files of a live session are never deleted under it, not even by the
\* clean-up of a move that began before the session.
LiveProfileNotDeleted ==
  [][\A p \in Process, k \in Key : Doing(p, "delete") /\ LiveSession(k) => sess'[k] = sess[k]]_vars

\* "Could not stage swap material, nothing was changed": an operation that is
\* refused leaves the session profiles where they were.
RefusalChangesNothing ==
  \A p \in Process : Ended(p) /\ op[p].refused => sess = op[p].sess0
=============================================================================
