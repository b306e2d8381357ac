# TLA+ models of cswap

cswap switches Claude Code between several logged-in accounts. It keeps, for
every account ("slot"), a backup of the credential and of the config, and a
roster `sequence.json` of the slots; a switch exchanges Claude Code's live
credential and identity for a slot's. The hard part is that nothing of this is
private: several cswap processes, the Claude Code instances that use, refresh
and rewrite the same credential, and the user at a prompt all act at once, the
writes go to several files and keychains that cannot be changed together, and a
refresh token that is overwritten or rotated away is lost for good.

## The system

| part | state | operations | hard because |
|---|---|---|---|
| `filelock` | a `FileLock`: in-process mutex, descriptor, kernel flock | Acquire, Release, With | shared by goroutines, second objects for the same path, deaths, a wait outside the timeout |
| `cclock` | lock directory and its mtime, toucher goroutine | Acquire, touchLoop, Release | protocol shared with Claude Code; staleness instead of ownership; mkdir, stat, rmdir are separate |
| `switching` | live credential, `~/.claude.json`, roster, backups, stash | Switch, SwitchTo, performSwitch | identity resolved over the network before the locks, three writes, rollback, Claude Code's own writes |
| `lifecycle` + `store` | `sequence.json`, backup files, session profiles, staging files | add, add-token, remove, move, swap, alias, disable, purge, org backfill | prompts before the lock, backups keyed by (slot, email), failure and death between writes |
| `credstore` | keychain items, `.enc` files, `.prev`, unclaimed stash | Read/WriteActive, Read/Write/DeleteBackup | several backends that may each be stale |
| `oauth`, `reporting` | tokens in flight | refresh, usage, persist | a rotation consumed on the network and stored later |
| `usage` | usage table, poll plan, dead-token quarantine | reserve, fetch, merge | single flight across processes under a second lock |
| `autoswitch` | engine state, cooldown, quarantine | tick, loop | decisions from stale usage |
| `session`, `sessprofile` | session directories, stale markers, live pids | SetupSession, Run | lock-free reuse, launch before registration |
| `transfer`, `migrations`, `mappings`, `settings`, `update` | files | import/export, migrate, map, configure | interrupted migrations, partial imports |
| `tui`, `cli`, `core` | presentation, parsing | | |

The parts interact through files. Every change of cswap's own files is made
under the store `FileLock`; a switch also takes Claude Code's two directory
locks, credentials then config. `store.WithRosterLocked` gives a command one
classified read of the roster under the lock; `switching.withTripleLock` is the
stack of three. Claude Code is a party in its own right: it takes its two locks
for its own writes and knows nothing of cswap's.

`PROJECT.json` lists every part with what is modelled of it, and under
"hazards" the places where this goes wrong without a test noticing.

## Modules

| module | models | checked by | proved in |
|---|---|---|---|
| `FileLock` | `filelock` | `MCFileLock` | `FileLockProofs` |
| `Mutex` | what a lock promises (abstract) | as a property of `FileLock` | refinement in `FileLockProofs` |
| `CCLock` | `cclock` | `MCCCLock` | `CCLockProofs` |
| `Switch` | `switching`'s performSwitch | `MCSwitch` | `SwitchProofs` |
| `Roster` | `lifecycle` over `store` | `MCRoster` | `RosterProofs`, `RosterBackupProofs` |
| `Custody` | `reporting`, `oauth`, `session`: who may use up a refresh token | `MCCustody` | `CustodyProofs` |
| `PollPolicy` | `oauth/windows.go`, the arithmetic of `usage` | through the next two | lemmas in `ReportingProofs` |
| `Polling` | `usage`'s store and poll plan, the collection of `reporting` and `autoswitch` | `MCServices` | `ReportingProofs` |
| `AutoSwitch` | `autoswitch`, the choice of a target in `switching` | `MCServices` | `ServiceProofs`, `ReportingProofs` |
| `Dashboard` | `tui` | `MCServices` | `ReportingProofs` |
| `Vault` | `credstore`, the credential migrations of `migrations` | `MCServices` | `ServiceProofs` |
| `Transfer` | `transfer`, `mappings`, `lifecycle`'s purge | `MCServices` | `ServiceProofs` |
| `Sharing` | what `session` shares between a profile and `~/.claude` | `MCServices` | `ServiceProofs` |
| `Settings` | `settings` | `MCServices` | `ServiceProofs` |
| `Relocation` | `paths`' move of the backup directory | itself | |

The modules meet where one takes in a single step what another takes apart: a
switch is one step of `Custody`, `AutoSwitch` and `Dashboard`, the lock is a
variable with an owner everywhere but in `FileLock` and `CCLock`. `AutoSwitch`
and `Polling` build on the same `PollPolicy`.

### FileLock

A goroutine goes from `idle` through `wantHold` (the mutex `hold`), `open`,
`poll` (flock) to `held`, and back through `unlock` and `unhold`. `file` is the
object's shared `file`/`locked` pair, `flock` the kernel's grant, `closing` the
descriptor a Release took out of the fields. `polls` counts refused tries and
stands for the elapsed time; a timed-out Acquire gives `hold` back. A process
may die at any time and start again.

### CCLock

Discrete time: `age` is the directory's mtime age, `waited` and `sinceTouch`
the timers of a waiter and a toucher, `Tick` advances all of them and, by
`Timely`, never past a ticker that is due: a live process is assumed to be
scheduled within its touch interval. mkdir, stat and remove are separate
actions. Claude Code is an actor that follows the same protocol with its own
touch interval. `lapses` counts the faults after which exclusion is no longer
promised: a death with the lock, a removal that failed, a toucher that gave up.

### Switch

A credential is an account, a refresh-token lineage (`fam`) and an access-token
generation (`gen`); `dead` are the lineages the server has replaced. Two
credentials have one fingerprint when they share the lineage. A process goes
through `prefetch`, `resolve` (the profile endpoint may answer partly or not at
all), the three locks, `locked` (classification and backup or stash),
`activate`, `splice`, `record`, and after a failure the undo steps in reverse.
Claude Code's actions rotate, refresh, log in (token and identity in two
steps), write its config and log out, each only while the lock it takes is
free. Choosing the target is left out: any slot may be asked for, with or
without `--force`.

The server answers only for a lineage it has not replaced (`Accepted`); whether
the live one is dead is not known to cswap. `LossAccepted` names the losses the
code knowingly accepts (a live credential without a live identity, a forced
switch whose safety copy failed, a slot that already holds two accounts' tokens,
a `.prev` that could not be written, or that is taken by a backup already dead
when a live credential of no use to the slot's account is backed up on trust),
and `NothingLost` claims everything else.

### Roster

A command fixes its arguments (`Call...`), may ask the user
(`ConfirmDisplacement`, under a short lock of its own), and enters
`WithRosterLocked`, where one read decides the list of writes (`AddPlan`,
`RemovePlan`, `MovePlan`, ...). The writes are then carried out one action at a
time, so that a failure or a death can come between any two. A write that must
succeed ends the command and starts its undo list; a best-effort one is counted
in `failures`. A `sequence.json` that cannot be read refuses the command before
it writes anything (`RosterUnreadable`). `seq` is the roster, `bk` whose material each backup file holds,
`stage` the staging copies of a swap between accounts with one email, `sess`
and `live` the session profiles and the running sessions. A `Reader` is a
read-only command: its org backfill reads and writes the roster without the
lock. The live login may change while an add waits for its prompt or the lock.
`HasCopy(a)` counts the copies that serve account `a`: the live login, the
backup under its slot and email, a staging file for its return. A file that a
best-effort deletion left behind under an old slot is none of these, because no
command reads it again.

Abstracted: credential bytes (only the owner is kept), the slot order list, the
cap of 99 on a move's target, `.prev` copies, invalidation of session
credentials after a backup write (`Custody`), mappings (`Transfer`). Credential and config of the live
login are read in one step; the renames of `swapSessionDirs`, and the check and
deletion of `DeleteAccountFiles`, are one step each. Accounts added by token
are distinct from logins, and before v0.6.0 an email had one account. `purge`
is in `Transfer`.

### Custody

A refresh token works once: `minted` and `spent` are the server's, `live`, `bk`
and `prof` where copies lie. A collector reads the roster and the credentials
(`pass`), routes each account it claimed (`fetch`: live session, active,
stored), refreshes over the network without a lock, and persists under the
store lock and, for the active account, Claude Code's, if what is stored is
still what it read. A launcher (`run`) holds the store lock through
SetupSession: the login identity, the stale marker, a refresh and the seed.
Claude Code refreshes on the live login and in a session, and registers some
time after it was started. Answers may be lost after the server has rotated.
`owned`, a history field, holds the tokens a registered Claude Code had when the
collector looked, in the live login or in a profile whose own login still holds.

A switch and a re-add are one step each, the roster is fixed, claims expire at
any time.

### PollPolicy and Polling

`PollPolicy` has the arithmetic: what the server's answer becomes
(`BuildUsageResult`), relevant windows and headroom, staleness and
trust, eligibility, backoff after a failure or a 429, the interval of the next
poll and its jitter (a set of outcomes). Time is in half minutes, which keeps
every constant exact but `ClaimTTL`, 10 s, rounded up.

In `Polling` a collector, the display's or the engine's two-phase one, reads
the rows, reserves (`Reserve`), fetches, records and plans; the steps under
`.usage.lock` are one action each. A write may fail, and a `/login` changes the
active account between them. `unsaved` (history) has the accounts whose last
reading, or the plan made for it, could not be saved: such a plan is not the one
the code made, and `ActiveIsPolled` makes no claim about it.

### AutoSwitch

An engine's tick is one action per stretch between two network calls or lock
operations: read the state file, reconcile the quarantine, collect, decide,
make the target's token fresh, lock, recheck, switch, record, sleep. Two
engines, `cswap auto` and a dashboard's, work on one directory; the user
switches (rotation, best, next available, on a fresh machine), logs in, logs
out, disables and replaces accounts meanwhile. `policy` is what the engines were started with,
`recorded` (history) the time of the last recorded switch. Tokens are numbers,
`refused` those the server turns down. The candidates are tried in the order
of `Precedes`; `SortedBy` names the list in that order by what it is, and
`PrecedesIsOrder` proves that there is one.

### Dashboard

`shown` is the snapshot the screens draw, `book` the accounts as they are. A
snapshot is two reads, the accounts with the live one and then the disabled
flags, and a delivery, each a step of its own, one snapshot
at a time; an action's own refresh follows its end. `screens` is the stack of
dialogs, `auto` the fields of the auto-switch view, `engines` every engine
started. Keys are pressed only where the screen on top takes them. Layout,
tables, toasts and styles are left out.

### Vault

`disk` and `kc` hold, by kind and slot, the credential in the `.enc` files and
in the Keychain; `cache` is what each process believes of the Keychain
(untried, usable, unusable, pinned to files). Every backend call of a write,
a replacement and a deletion is a step, may fail, and fails while the user has
the Keychain locked; `acked` (history) is what a reader may be given: the last
backup written, and before a write is finished the one before as well.
The migrations from the old program's items run as each process starts,
without the lock.

`BackupReadIsCurrent` excludes behaviours in which a migration ran beside a
command or another migration (`mixed`): see "Known gaps". Failed writes of the
active credential are `Switch`'s.

### Transfer

An import plans on one roster read under the lock, then writes account after
account, credential, config, strike and roster, each a step that may fail or
be the last. Export reads the roster, and each backup later, without the lock.
`purge` takes no lock and deletes the directory with the lock file in it;
afterwards another process can take a new lock beside the holder of the old.
Mappings are loaded and stored without a lock. `torn` (history) marks
behaviours in which a purge ran beside an import or was cut short, which
`RosterStaysWhole` excludes.

### Sharing

A launch mirrors the MCP servers (adoption marker, stash of what it displaced),
removes the links the manifest owns and the flags no longer ask for, merges the
conversation history file by file into `~/.claude` and links it, and writes the
manifest last. One settings item, whose source exists, and one history
directory, on POSIX. `NothingIsLost` excludes two launches of one profile at
once (`raced`) and a manifest or stash that a death left out of date (`cut`).

### Settings

`config set` and `unset` read, change one key and write, without a lock; a hand
edit leaves anything. `Load` forgives, clamps and lays the flags over. Numbers
are integers. The only value out of range that can be in force is the NaN of
`--threshold nan`, which is in no range and outside none.

### Relocation

`MigrateLegacyBackupDir`: flag file, rename or copy, removal of the original,
removal of the flag, each a step of each starting process.

### MCServices

The seven services from `AutoSwitch` to `Settings` share no state in these
models, so one run checks them all: `part`, chosen at the start, is the one a
behaviour exercises, and the others stay in one initial state. The state space
is the sum of the seven, not their product. A behaviour of a part is one of the
component's own specification (`AutoSpec`, `PollSpec`, `DashSpec`, `VaultSpec`,
`TransferSpec`, `SharingSpec`, `SettingsSpec`), which is what the proofs are
about; `EachIsItself` proves it, and so carries their theorems over to `Spec`.

## Runs

| run | instance | shows |
|---|---|---|
| `filelock` | 4 goroutines, 3 objects, 2 processes, 1 poll before the timeout | exclusion, ownership of the descriptor, Acquire returns, implements `Mutex` |
| `cclock` | cswap and Claude Code, 2 faults | a touched lock is never taken over; an orphan is reclaimed |
| `cclock_race` | 2 cswap, Claude Code, 1 fault | expected violation, see Findings |
| `switch` | 2 processes, 2 slots, 3 accounts, 2 lineages, 2 generations, 1 fault, 2 switches | see Switch |
| `roster` | 2 processes, 3 slots, 4 accounts (two with one email, one token), 2 commands, 2 faults, 1 launch | see Roster |
| `roster_legacy` | 2 processes and a reader on an old roster, 1 login | the backfill is never reverted |
| `roster_backfill`, `roster_refusal` | the smallest instances that show them | expected violations, see Findings |
| `custody` | 2 accounts, 2 collectors, 2 launchers, 3 tokens per account, 4 events | nobody uses up a running Claude Code's token, a slot keeps its own account's tokens, a running session its credential |
| `custody_quarantine` | 1 collector | expected violation, see Findings |
| `services` | below | the cooldown, the poll of the active account, the dashboard's engines and snapshots, current backups, migrations, whole rosters, shared profiles, settings in range |
| `relocation` | 2 processes, 2 files, 1 death or failure | expected violation, see Findings |

What `services` checks, part by part:

| part | instance | property |
|---|---|---|
| `auto` | 2 engines, 3 slots, 4 first usages, time 0 to 2 with a cooldown of 2, 1 failure or act of the user | `CooldownHolds`: no proactive switch within the cooldown of any engine's last one, though the deciding tick read the state file before |
| `polling` | 2 collectors, 2 accounts, 1 pass each, 1 failed write or login | `ActiveIsPolled`: a tick never decides on an active account that an old plan kept from being asked |
| `dashboard` | 2 slots, 2 thresholds, 3 engines, 2 versions of the roster, 4 keys | `OneEngine`, `ThresholdSeen`, `SnapshotsInOrder` |
| `vault` | 2 processes, 2 slots with one email or two, macOS and Windows, 1 operation each, 1 failure | `BackupReadIsCurrent`, `MigrationLosesNothing` |
| `transfer` | 2 processes, 3 slots, 2 identities, 3 export files, 2 commands, 1 failure | `RosterStaysWhole` |
| `sharing` | 2 launches, 2 transcripts, 2 servers, 1 failure | `NothingIsLost` |
| `settings` | 2 processes, 5 files, 4 numerals, 3 words, 2 edits | `TypeOK`: the settings in force are in range |

Bounds. Two processes and two calls are what a race between two commands needs;
a third process would meet the same lock. Two slots and a third, unmanaged
account that has a managed one's email make every class of `classifyOutgoing`
occur; the other managed slot starts without a uuid, as one added by token does,
and gets it from an identified backup; a second lineage is a rotation or a login, and one fault is a failed
write, an unreadable store, a failed `.prev` or a death, at any step (with two
faults the second hits the rollback, which `roster` has and for `switch` is
covered by the proofs, which have no bound). Three slots are two to swap and a
free one to move to. In CCLock the unit is about 2.5s: 3s, 5s, 9s and 10s
become 1, 2, 3, 4, which keeps their order, and `age`, `waited` saturate just
past the threshold that matters. Symmetry of processes is used only in runs
without liveness. Custody's 4 events are, for one, a launch, a pass, a switch
and a lost answer; 3 tokens let two parties rotate one account's. Polling starts
at a time at which every plan of PollInit is due for one role and not for the
other. The engines' clock reaches exactly the end of one cooldown. Each part of
`services` starts from the states its `...Starts` names (`MCServices`): every kind
of policy with one usage table and every usage table with the plain policy, not
each with each. The three
export files are two accounts apart, two for one slot, and one alias twice. `CHECK_DEADLOCK FALSE` where the number of calls is bounded
and the system may come to rest.

Fairness. FileLock: a running goroutine keeps running, and `sync.Mutex` hands
itself to a waiter in turn (its starvation mode), so strong fairness of
`TakeHold`; the code under the lock never prompts and does bounded work. CCLock:
weak fairness of an actor's steps and of its ticker, and time passes. Deaths and
errors are never fair. The other modules state safety only and assume no
fairness. An orphaned directory is reclaimed only because somebody
comes back for the lock, which the fairness of `MkdirExists` says.

## Proofs

Every theorem but `PrecedesIsOrder`, which is about the engine's comparison, is of
the form `Spec => []Inv` or `Spec => [][A]_vars`, or a refinement, for every value of
the constants that the component's `ASSUME` admits; TLC evaluates the
same `ASSUME`s on every run. No theorem uses a bound of an MC module: fault,
call and event budgets are arbitrary.

| module | theorems |
|---|---|
| `FileLockProofs` | `TypeCorrect`, `Exclusion`, `ReleaseIsOwn`, `HoldAccounted`, `Refinement` |
| `CCLockProofs` | `TypeCorrect`, `Exclusion`, `StaysFresh` |
| `SwitchProofs` | `TypeCorrect`, `Rollback`, `Success`, `ConfigKept`, `NoContamination`, `NothingIsLost` |
| `RosterProofs` | `TypeCorrect`, `BackfillStays`, `LiveProfilesStay`, `DecidesFromTheFile`, `DeletesConfirmed`, `NamesStayUnique` |
| `RosterBackupProofs` | `BackupsAreOwnOrStaged`, `MovesAreUndone`, `CredentialsKept` |
| `CustodyProofs` | `TypeCorrect`, `SlotsStayOwn`, `OwnersKeep`, `LiveSessionKeeps` |
| `ReportingProofs` | `PollingTyped`, `ActiveAlwaysPolled`, `ShownMovesForward`, `OneEngineOnly`, `ThresholdIsSeen`, `DashboardTyped`, `PrecedesIsOrder`, `AutoTyped`, `ServicesTyped` |
| `ServiceProofs` | `CooldownIsKept`, `ReadsAreCurrent`, `VaultTyped`, `MigrationKeeps`, `RosterWhole`, `TransferTyped`, `SettingsInRange`, `SharingTyped`, `NothingLostInSharing` |

* `FileLockProofs`: for any goroutines, objects and processes. `Ownership` says
  who owns `hold`, `file` and `flock` at each label; exclusion alone is not
  inductive because Release acts on what the shared field says. That a Release
  closes the descriptor its own Acquire opened, and that a taken `hold` has a
  goroutine that will give it back, are read off the same invariant.
  `Refinement` maps the abstract holders to the goroutines at `held`.
* `CCLockProofs`: for any actors and timing with
  `TouchEvery[p] + 1 <= Stale`. Exclusion rests on freshness: the directory's
  age is bounded by the holder's touch timer, hence nobody ever decides to
  remove it. All of this is conditional on `lapses = 0`.
* `SwitchProofs`: for any accounts, slots, processes and bounds. `IInv` says
  which locks are held at which label, that nobody else moves the live
  credential or config while they are, and what each label implies of `live`,
  `cfg` and `active`; rollback, success and the preservation of Claude Code's
  config writes follow.
  `NoContamination` adds that a resolved identity is the owner of the bytes it
  was resolved for, which classifyOutgoing compares with the live ones.
  `NothingIsLost` needs `CopyInv`: what a process at `activate` may overwrite has
  another copy, in the stash or in a backup with the same fingerprint (`Kept`),
  or the loss is a forced one after a fault; and during an undo the live
  credential is the target's, which its backup still has.
* `RosterProofs`: for any finite set of slots, any accounts and any start
  roster in which no account stands twice. `RInv` is `Typed`, `Begun` (what a
  command at each label has fixed) and `Locked` (whoever is past its read holds
  the store lock); with it the backfill is never reverted and a live profile
  is never deleted. Two hypotheses appear where the
  statement is false without them. `Reader = {}`, for "a command decides from
  the file as it is" and "only what the user confirmed is deleted": a read-only
  command's backfill writes without the lock (`roster_backfill`). `Current`,
  the invariant for these, says that the data a command works on is `seq` and
  that its remaining instructions still fit it. `NoRelogin`, for
  `NamesStayUnique`: no add, or no login during one (see "Known gaps");
  `Distinct` says that only rosters without a repeated account or alias are
  written and that an add's identity is the login's. Each plan (`AddPlan`,
  `MovePlan`, ...) has one lemma about the instructions it returns, and one
  lemma per instruction says what carrying it out preserves.
* `RosterBackupProofs`: under the same two hypotheses, what the backup files and
  staging copies hold after every single write, so also after a death between
  any two. `Filed` says that every slot's two files are `Sound` (nothing, the
  account's own, or a copy of them is staged) and that the command under the
  lock is in one of these states. A move or swap is `Moving` (what is still to
  be done displaces a file only after it was copied, and its undo list restores
  what has changed), `Settled` (committed, the clean-up deletes no home of the
  new roster) or `Undone` (each file is what it was, or a restoring write for it
  is still to come, or the restore failed and the material is staged). The
  other commands are `Slim`: they write one account's material to one slot, and
  a commit that names that account there comes after the files it needs. From a
  phase and one more instruction follow the three theorems: `Sound` gives
  `BackupsAreOwnOrStaged`; an ended failed move can only be `Undone`, with an
  empty list, which is `MovesAreUndone`; and every instruction but an ordered
  deletion leaves a copy wherever there was one (`CredentialsKept`).
* `CustodyProofs`: for any accounts, collectors, launchers and token supply.
  The statement about one token needs to know where every token may lie:
  `Held` is an issued token other than one that a drifted session left behind,
  and `SlotsOK`, `ProfilesOK`, `RunsOK`, `PassesOK`, `FetchesOK` say which
  account's held tokens each place, each copy read earlier and each answer in
  flight may have, `ServerOK` that the server's are fresh, `LockOK` and
  `LoginOK` who may write. A copy that was read before the network call is
  written back only if the place still has what was read; the invariant shows
  that this comparison is enough.
* `ReportingProofs`, Polling: for any accounts, answers, jitter and number of
  failed writes. `PollInv` is inductive because it speaks of the plans of all
  accounts, not only of the active one's, which may change at any time: a plan as
  fast as an active one falls due within its jitter of the reading it was made
  for (`Planned10`), or a collector still has it to make (`Pending`), or it is in
  `unsaved`, or the reading is at its limit. From the moment the engine begins a
  pass, the account it found active is to be asked or one of these excuses holds
  (`Covered`), and no other collector's step takes the excuse away.
  `PollingAssumption` says that percentages stay below the number that stands
  for "unknown" and that resets are times or unknown.
* `ReportingProofs`, Dashboard: for any slots, thresholds and number of keys. At
  most one snapshot pass is under way, and what it has read is no older than what
  is shown and no newer than the accounts (`PassInOrder`); engines other than the
  view's have been told to stop, and the view's own runs on its threshold unless
  a wake is pending (`EnginesOK`); and `StackOK` says which dialogs may lie on
  which, so that a threshold committed in a dialog reaches the view below it.
  `RestOK` has what only the types need: an asked pass has read nothing,
  store-only polling goes with the auto screen.
* `ReportingProofs`, AutoSwitch: for any finite set of slots, any readings,
  engines and bounds. `PrecedesIsOrder` is a theorem about the code's comparison:
  both strategies give a strict total order, tiers, unknown renewals and ties
  included. A finite set can be listed in such an order (`SortedExists`, by the
  least size that could not), so the list `SortedBy` picks exists and has each
  candidate once. `AutoInv` then says that an engine with a target to freshen,
  quarantine or switch to has one in `todo`, that the token it sends to the server
  is a real one, and that what the engines share has its type; that the state lock
  is held by the engine that switches is `CooldownInv`'s. The proof of
  `UserChoice` shows on the way that the user's strategies end in a slot of the
  roster or in none. `ServicesTyped` is the sum: `Spec => []TypeOK` of
  `MCServices`, from the seven components' type theorems.
* `ServiceProofs`: `CooldownInv`: the engine that switches holds the state lock,
  the state file then has the time of the last recorded switch, and a proactive
  switch was let through only by the recheck made under that lock. `VaultInv`:
  unless a migration ran beside somebody (`mixed`), one process works on the
  backups at a time and what each backend holds at each step of a write or a
  deletion reads as one of the acknowledged credentials; stored credentials are
  bounded by `MaxCred`, whose assumption only leaves room for the numbers used.
  `Around` adds what a process knows of the Keychain, for `VaultTyped`.
  `TransferInv`, for any export files, identities and processes: unless a purge
  met an import or was cut short (`torn`), an import past its read is alone with
  the roster it read (`Sole`), the entries it has still to do name no identity
  and no alias twice and fit the roster (`Fits`), the slot it has chosen is its
  account's or free (`Placed`, with what is written at each label), so that each
  record it adds keeps the roster `Singular` and `Backed`. `TransferAssumption`
  says that an export file has the shape `readSource` accepts and numbers within
  `MaxSlot`; what it names twice is for `Valid` to refuse. `SettingsInv`: a file
  holds what JSON can hold, an edit under way may hold a NaN but is then not
  written, and `ClampInRange` says key by key that whatever JSON holds is
  brought into range, so only a flag's own NaN is ever in force. `SharingInv`:
  a launch past its marker is alone (`AloneAtWork`) unless two raced, the history
  merged so far is in `~/.claude` or still in the profile (`HistoryKept`), and
  the manifest and stash tell cswap's own items from the profile's
  (`ManifestTrue`, `SettingsKnown`, `StashTrue`) unless a death cut them short.

Only model-checked: the liveness properties of FileLock and CCLock
(`AcquireReturns`, `OrphanIsReclaimed`), which are out of TLAPS's reach. Every
invariant and action property that a passing run checks is a theorem, with the
hypotheses named above for `Roster` and `CCLock`.

## Findings

* `cclock_race`: taking over a stale directory lock can make two holders. The
  loser of the race does not just loop again: its `os.Remove` deletes the
  winner's directory (`internal/cclock/cclock.go:106-113`).
* `roster_backfill`: the org backfill of a read-only command writes
  `sequence.json` without the lock, so a concurrent commit can be overwritten
  (`internal/store/identity.go:36-48`). It needs a roster from before v0.6.0.
* `roster_refusal`: a swap that reports "nothing was changed" because staging
  failed has exchanged the two session profiles
  (`internal/lifecycle/moveswap.go:277-279, 415`).
* `custody_quarantine`: one invalid_grant strikes the slot, not the token: a
  collector that loses the race for a token quarantines an account whose backup
  then gets a usable successor, and only add, add-token or import lifts it
  (`internal/usage/store.go:262`, `internal/usage/entry.go:66-67`).
* `relocation`: the flag file does not tell an interrupted move from one under
  way. A second process that starts at the same time removes the directory the
  first has just moved; across file systems a death after the copy is complete
  makes the next start discard it in favour of what is left of the original
  (`internal/paths/paths.go:184-190`).

## Known gaps in the guarantees

What the properties exclude or the models leave out, because the code makes no
promise there:

* Credential migrations run without the lock: beside a command or another
  migration, a failed write's cleanup may delete what the other wrote, and a
  retry on Windows writes over a newer file. `relocate` deletes the
  `account-None` item also when it was not consulted
  (`internal/migrations/relocate.go:126-132`). A file that is there but
  cannot be read lets the Keychain's older copy through.
* A Keychain call that fails after `pinFileMode` schedules a re-probe and so
  undoes the pin (`internal/credstore/store.go:161-190`); `Vault` has it so.
* `purge` takes no lock; beside an import either may win.
* `mappings` and `settings` are read, changed and written without a lock: of
  two concurrent changes one may be lost.
* Two launches of one profile at once, a manifest that could not be written and
  then a real directory in place of a link, a stash that is written once.
* `SwitchTo` resolves an identifier to a slot before the lock; the dashboard
  asks for confirmation on a snapshot and then removes by number.
* A session whose login has drifted to another account keeps that account's
  token in its profile; a bootstrap of that profile which fails between the
  credential and the identity leaves the two apart
  (`internal/session/bootstrap.go:140`). `OwnersKeepTheirToken` counts only
  profiles whose login still holds.
* `add` looks for the slot of the account it saw before the prompt and the
  lock, and stores the credential, config and organization of the login it
  finds afterwards, without comparing the two
  (`internal/lifecycle/add.go:58, 142-153, 202`). After a `/login` in between
  another account's credential lies under the old email; if that is another
  organization of the same email, managed already, it now has two records.
  With `Ops = {"add"}`, `MaxCalls = 1` and `MaxLogins = 1` TLC shows it as a
  violation of `UniqueNames`.
* `.prev` is one generation deep: if the slot's backup is already refused by the
  server and the live credential, which cannot be identified, is backed up over
  it on trust and belongs to somebody else, the dead backup takes the place of
  the last usable copy in `.prev`. With one process, two accounts, `MaxFam = 4`,
  `MaxCalls = 3` and `MaxFaults = 1`, TLC shows it once the clause is taken out of
  `LossAccepted`; the proof of `NothingIsLost` found it.
* A best-effort deletion that fails after a move or an add leaves the account's
  material under the old slot, where no command looks for it; the proof of
  `CredentialsKept` is why `HasCopy` does not count it.
* The engine's state file may fail to be written after the switch is made: the
  cooldown is then not recorded. A fetch slower than `ClaimTTL` may be repeated
  by another collector. `staleCandidatePlan` does not keep the floor after a
  429.

## Not modelled

`update` (the version check and its cache, the upgrade command: network and
package managers, no shared state with the rest), `cli` and `core` (parsing and
wiring), rendering in `tui` and `reporting`, `logging`, `jsonout`, `printer`,
`cerr`, `version`, `platform`. The OS services behind `keychain`, `wincred` and
`procdetect` appear by their answers: a Keychain call works or fails, a scan
finds the instances or fails. Single-file writes (`atomicfile`, `ccfile`) are
one step.

## Plan

All that was planned is modelled; what could be added, most useful first:

1. `Roster` with purge and mappings, which `Transfer` has by itself;
2. the dashboard's confirmation on an old snapshot against a roster that other
   commands renumber.
