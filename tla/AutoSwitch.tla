----------------------------- MODULE AutoSwitch -----------------------------
(***************************************************************************)
(* The automatic switch engine (internal/autoswitch), several of which may *)
(* run over one backup directory (`cswap auto`, the dashboard), beside the *)
(* user's own switches (internal/switching).                               *)
(*                                                                         *)
(* A tick reads autoswitch_state.json without its lock, releases the       *)
(* quarantined slots whose credential was replaced, reads the usage of the *)
(* accounts (network), decides, makes the target's token fresh (network)   *)
(* and only then takes the state lock, rechecks the cooldown, switches and *)
(* records.  Everything read before the lock may be stale when it is used. *)
(*                                                                         *)
(* A refresh token is a number; refused is what the server turns down.     *)
(* A tick reads the usage there is (Polling models the cache between).     *)
(* A switch is one step of its own (Switch models it).                     *)
(***************************************************************************)
EXTENDS PollPolicy, Sequences, SequencesExt

CONSTANTS Slot,             \* account numbers
          Engine, Nobody,
          Readings,         \* usage an account may have, NoUsage when it cannot be read
          FirstUsage,       \* slot -> reading, at the start
          Threshold, HysteresisPct, UnhealthyTicks,
          Cooldown, Interval, IdleHoldMax, NoResetFallback, MaxSleep,
          MaxTime, MaxToken, MaxFaults  \* bounds of the model

ASSUME AutoSwitchAssumption ==
  /\ Slot \subseteq Nat \ {0} /\ Slot # {} /\ IsFiniteSet(Slot)
  /\ \A s \in Slot : s < MaxToken
  /\ \A u \in Readings :
       /\ IsFiniteSet(u)
       /\ \A w \in u : w.pct \in Nil .. NoHeadroom - 1 /\ w.reset \in Nat \cup {Nil}
  /\ FirstUsage \subseteq [Slot -> Readings]
  /\ Nobody \notin Engine
  /\ {Threshold, HysteresisPct, UnhealthyTicks, Cooldown, Interval, IdleHoldMax,
      NoResetFallback, MaxSleep, MaxTime, MaxToken, MaxFaults} \subseteq Nat

VARIABLES
  active,       \* the slot of the live login, Unmanaged, or Nil when logged out
  listed,       \* the roster's activeAccountNumber
  held,         \* slot -> its stored refresh token, Nil when there is none
  owner,        \* slot -> which account it holds (0, or 1 after it was replaced)
  away,         \* slots the user disabled
  near,         \* slots whose access token is about to expire
  sessions,     \* slots with a live session
  usage,        \* slot -> its usage
  refused, foreign,  \* tokens the server refuses; tokens of another account
  stateFile,    \* autoswitch_state.json
  stateLock,    \* holder of .autoswitch_state.lock
  eng,          \* per engine: its progress and the fields of Engine
  user,         \* a `cswap switch` under way: the slot it chose, or Nil
  policy,       \* the settings the engines were started with; which slots hold API keys
  now, faults,
  recorded      \* history: when the last recorded automatic switch happened

accounts == <<held, owner, away, near, sessions, usage, refused, foreign>>
autoVars == <<active, listed, held, owner, away, near, sessions, usage, refused, foreign, stateFile,
              stateLock, eng, user, policy, now, faults, recorded>>

Unmanaged == 0
NotOAuth == 0      \* a stored credential without OAuth data

NoEntry == [owner |-> Nil, token |-> Nil]

Asleep == [st |-> "asleep", quarantined |-> {}, last |-> Nil, release |-> {}, cur |-> Nil,
           trigger |-> "none", todo |-> <<>>, token |-> Nil, who |-> 0,
           unhealthy |-> 0, idleSince |-> Nil, wakeAt |-> 0, dry |-> FALSE]

Policies == [strategy : {"best", "soonest-reset"}, includeAPIKeyAccounts : BOOLEAN,
             apiKey : SUBSET Slot]
ApiKey == policy.apiKey

AutoInit ==
  /\ policy \in Policies
  /\ policy.apiKey \in {{}, {Max(Slot)}}
  /\ policy.apiKey = {} => ~policy.includeAPIKeyAccounts
  /\ policy.apiKey # {} => policy.strategy = "best"
  /\ active = Min(Slot) /\ listed = active
  /\ owner = [s \in Slot |-> 0]
  /\ away = {} /\ sessions = {} /\ refused = {}
  /\ usage \in FirstUsage /\ \A s \in ApiKey : usage[s] = NoUsage
  \* One stored credential may be another account's, or not OAuth at all.
  /\ LET odd == active + 1
     IN  \/ near = {} /\ foreign = {}
           /\ held \in {[s \in Slot |-> s], [s \in Slot |-> IF s = odd THEN NotOAuth ELSE s]}
         \/ near = Slot \ ApiKey /\ foreign \in {{}, {odd}} /\ held = [s \in Slot |-> s]
  /\ stateFile = [lastSwitchAt |-> Nil, quarantine |-> [s \in Slot |-> NoEntry]]
  /\ stateLock = Nobody
  /\ eng \in [Engine -> {[Asleep EXCEPT !.dry = d] : d \in BOOLEAN}]
  /\ \A e \in Engine : eng[e].dry => policy.strategy = "best" /\ policy.apiKey = {}
  /\ \E e \in Engine : ~eng[e].dry
  /\ user = Nil
  /\ now = 0 /\ faults = 0 /\ recorded = Nil

Fault == faults < MaxFaults /\ faults' = faults + 1
Put(e, r) == eng' = [eng EXCEPT ![e] = r]

\* Rotation takes a slot with something stored to activate, unless it is disabled.
AccountIsSwitchable(s) == held[s] # Nil
RotationEligible(s) == AccountIsSwitchable(s) /\ s \notin away
SwitchableAccountNumbers == {s \in Slot : RotationEligible(s)}

-----------------------------------------------------------------------------
(* The loop *)

\* nextDelay: what the engine sleeps after a tick; the jitter is left out.
NextDelay(how) ==
  CASE how.until # Nil -> MinOf(MaxOf(how.until - now, Interval), MaxSleep)
    [] how.long        -> MaxOf(Interval, NoResetFallback)
    [] OTHER           -> Interval

Sleeps == [until |-> Nil, long |-> FALSE]
SleepsLong == [until |-> Nil, long |-> TRUE]

\* The tick returns: the loop sleeps, and only these fields of r outlive it.
EndTick(e, r, how) ==
  Put(e, [Asleep EXCEPT !.unhealthy = r.unhealthy, !.idleSince = r.idleSince,
                        !.dry = r.dry, !.wakeAt = MinOf(now + NextDelay(how), MaxTime + 1)])

\* Tick turns an error, or a panic, into an event: the loop goes on.
TickFails(e) == EndTick(e, eng[e], Sleeps)

\* Nothing to do without a managed live login.
CurrentAccountNumber == IF active \in Slot THEN active ELSE Nil
ReadCurrentAccount(e, r) ==
  IF CurrentAccountNumber = Nil THEN EndTick(e, r, Sleeps)
  ELSE Put(e, [r EXCEPT !.st = "poll", !.cur = CurrentAccountNumber])

\* RunLoop, readState: the sleep is over and a tick reads the state file.  A dry
\* run leaves the quarantine as it is.
ReadState(e) ==
  LET in == {s \in Slot : stateFile.quarantine[s] # NoEntry}
      r  == [eng[e] EXCEPT !.quarantined = in, !.last = stateFile.lastSwitchAt]
  IN  /\ eng[e].st = "asleep" /\ now >= eng[e].wakeAt
      /\ IF eng[e].dry \/ in = {} THEN ReadCurrentAccount(e, r)
         ELSE Put(e, [r EXCEPT !.st = "read"])
      /\ UNCHANGED <<active, listed, accounts, stateFile, stateLock, user, policy, now, faults,
                     recorded>>

\* releaseRecoveredQuarantines: another account, or another credential.
Recovered(s) ==
  LET q == stateFile.quarantine[s]
  IN  q # NoEntry /\ (q.owner # owner[s] \/ q.token # held[s])

CheckQuarantines(e) ==
  LET gone == {s \in eng[e].quarantined : Recovered(s)}
  IN  /\ eng[e].st = "read"
      /\ IF gone = {} THEN ReadCurrentAccount(e, eng[e])
         ELSE Put(e, [eng[e] EXCEPT !.release = gone, !.st = "releasing"])
      /\ UNCHANGED <<active, listed, accounts, stateFile, stateLock, user, policy, now, faults,
                     recorded>>

\* mutateState: read, change and write under the state lock.
MutateState(e, file) == stateLock = Nobody /\ stateFile' = file /\ UNCHANGED stateLock

WithoutEntries(file, gone) ==
  [file EXCEPT !.quarantine = [s \in Slot |-> IF s \in gone THEN NoEntry ELSE @[s]]]

ReleaseQuarantines(e) ==
  LET file == WithoutEntries(stateFile, eng[e].release)
  IN  /\ eng[e].st = "releasing"
      /\ MutateState(e, file)
      /\ ReadCurrentAccount(e, [eng[e] EXCEPT !.release = {}, !.last = file.lastSwitchAt,
                                   !.quarantined = {s \in Slot : file.quarantine[s] # NoEntry}])
      /\ UNCHANGED <<active, listed, accounts, user, policy, now, faults, recorded>>

\* The state lock cannot be had in time, or the state file cannot be written.
StateUnavailable(e) ==
  /\ eng[e].st \in {"releasing", "noting", "perform"}
  /\ TickFails(e)
  /\ IF stateLock # Nobody THEN UNCHANGED faults ELSE Fault
  /\ UNCHANGED <<active, listed, accounts, stateFile, stateLock, user, policy, now, recorded>>

-----------------------------------------------------------------------------
(* The decision *)

\* earliestRecovery: the first account to recover, if every reset is known.
EarliestRecovery(u) ==
  LET blocked == {s \in DOMAIN u : \E w \in RelevantWindows(u[s], {}) : w.pct >= 100}
      at      == {LimitingResetTS(u[s], {}) : s \in blocked}
  IN  IF Nil \in at THEN Nil ELSE EarliestOf(at)

\* sortQualifying; ties fall to the lower slot, the order of the roster.
Precedes(u, a, b) ==
  LET ha == AccountHeadroom(u[a], {})
      hb == AccountHeadroom(u[b], {})
      ra == RenewalTS(u[a], {})
      rb == RenewalTS(u[b], {})
      belowA == 100 - ha < Threshold
      belowB == 100 - hb < Threshold
      more == ha > hb \/ (ha = hb /\ a < b)
  IN  IF policy.strategy = "best" \/ (~belowA /\ ~belowB) THEN more
      ELSE IF belowA # belowB THEN belowA
      ELSE IF (ra = Nil) # (rb = Nil) THEN ra # Nil
      ELSE IF ra # rb THEN ra < rb
      ELSE more

\* selectCandidates: what qualifies under the trigger.
Qualifies(u, s, trigger, activeHeadroom) ==
  LET h == AccountHeadroom(u[s], {})
  IN  /\ h # NoHeadroom /\ h > 0
      /\ trigger = "proactive" => 100 - h < Threshold /\ h - activeHeadroom >= HysteresisPct

Candidates(e) == (SwitchableAccountNumbers \ {eng[e].cur}) \ eng[e].quarantined
ApiKeyCandidates(e) ==
  IF policy.includeAPIKeyAccounts THEN Candidates(e) \cap ApiKey ELSE {}

Preference(u) == {p \in Slot \X Slot : Precedes(u, p[1], p[2])}
RosterOrder == {p \in Slot \X Slot : p[1] < p[2]}

\* The slots one after another, each before those it goes before.
SortedBy(slots, order) ==
  CHOOSE q \in [1 .. Cardinality(slots) -> slots] :
    \A i, j \in 1 .. Cardinality(slots) : i < j => <<q[i], q[j]>> \in order

Ordered(e, u, trigger) ==
  LET fit == {s \in Candidates(e) \ ApiKey :
                Qualifies(u, s, trigger, AccountHeadroom(u[eng[e].cur], {}))}
  IN  IF fit # {} THEN SortedBy(fit, Preference(u))
      ELSE SortedBy(ApiKeyCandidates(e), RosterOrder)

\* The tick's choice among its candidates, or why there is none.
Choose(e, u, trigger, r) ==
  LET oauth   == Candidates(e) \ ApiKey
      ordered == Ordered(e, u, trigger)
      none    == oauth = {} /\ ApiKeyCandidates(e) = {}
      spentAll == /\ \E s \in oauth : AccountHeadroom(u[s], {}) # NoHeadroom
                  /\ \A s \in oauth : AccountHeadroom(u[s], {}) <= 0
      back    == EarliestRecovery(u)
  IN  \/ none /\ EndTick(e, r, SleepsLong)
      \/ ~none /\ ordered # <<>>
         /\ Put(e, [r EXCEPT !.st = "try", !.trigger = trigger, !.todo = ordered,
                            !.quarantined = {}, !.last = Nil, !.cur = Nil])
      \/ ~none /\ ordered = <<>> /\ spentAll
         /\ EndTick(e, r, [until |-> IF back = Nil THEN Nil ELSE back + ResetSlack, long |-> TRUE])
      \/ ~none /\ ordered = <<>> /\ ~spentAll /\ EndTick(e, r, Sleeps)

InCooldown(last) == last # Nil /\ now - last < Cooldown

\* tickInner; the live token may be found expired while Claude Code owns it.
Decide(e, expired) ==
  LET r    == eng[e]
      u    == usage
      h    == AccountHeadroom(u[r.cur], {})
      known == [r EXCEPT !.unhealthy = 0, !.idleSince = Nil]
      idle == IF r.idleSince = Nil THEN now ELSE r.idleSince
      holding == expired /\ now - idle <= IdleHoldMax
      sick == [r EXCEPT !.unhealthy = @ + 1, !.idleSince = IF expired THEN idle ELSE Nil]
      trigger == IF h <= 0 THEN "at-limit" ELSE "proactive"
  IN  /\ r.st = "poll"
      /\ expired => u[r.cur] = NoUsage
      /\ \/ /\ r.cur \in ApiKey /\ ~policy.includeAPIKeyAccounts
            /\ EndTick(e, r, Sleeps)
         \/ /\ ~(r.cur \in ApiKey /\ ~policy.includeAPIKeyAccounts)
            /\ \/ /\ h # NoHeadroom /\ 100 - h < Threshold
                  /\ EndTick(e, known, Sleeps)
               \/ /\ h # NoHeadroom /\ 100 - h >= Threshold
                  /\ IF trigger = "proactive" /\ InCooldown(r.last)
                     THEN EndTick(e, known, Sleeps) ELSE Choose(e, u, trigger, known)
               \/ /\ h = NoHeadroom /\ holding
                  /\ EndTick(e, [r EXCEPT !.unhealthy = 0, !.idleSince = idle], SleepsLong)
               \/ /\ h = NoHeadroom /\ ~holding /\ sick.unhealthy < UnhealthyTicks
                  /\ EndTick(e, sick, Sleeps)
               \/ /\ h = NoHeadroom /\ ~holding /\ sick.unhealthy >= UnhealthyTicks
                  /\ Choose(e, u, "failover", [sick EXCEPT !.unhealthy = UnhealthyTicks])
      /\ UNCHANGED <<active, listed, accounts, stateFile, stateLock, user, policy, now, faults, recorded>>

-----------------------------------------------------------------------------
(* Freshening the target *)

\* The next candidate, or the end of the tick when there is none left.
TryNext(e, r) ==
  LET rest == Tail(r.todo)
  IN  IF rest = <<>> THEN EndTick(e, r, Sleeps)
      ELSE Put(e, [r EXCEPT !.st = "try", !.todo = rest, !.token = Nil])

\* freshenTarget up to its network call; a dry run only reports the switch.
FreshenTarget(e) ==
  LET r == eng[e]
      s == Head(r.todo)
  IN  /\ r.st = "try"
      /\ IF r.dry THEN EndTick(e, r, Sleeps)
         ELSE IF s \in ApiKey THEN Put(e, [r EXCEPT !.st = "perform"])
         ELSE IF s \in sessions \/ held[s] = Nil THEN TryNext(e, r)
         ELSE IF held[s] = NotOAuth THEN Put(e, [r EXCEPT !.st = "quarantine", !.who = owner[s]])
         ELSE IF s \notin near THEN Put(e, [r EXCEPT !.st = "perform"])
         ELSE Put(e, [r EXCEPT !.st = "refresh", !.token = held[s], !.who = owner[s]])
      /\ UNCHANGED <<active, listed, accounts, stateFile, stateLock, user, policy, now, faults, recorded>>

FreshToken == Max({held[s] : s \in Slot} \cup refused \cup {eng[e].token : e \in Engine}) + 1

\* The server exchanges the token.
RefreshSucceeds(e) ==
  LET t == FreshToken
  IN  /\ eng[e].st = "refresh" /\ eng[e].token \notin refused /\ t <= MaxToken
      /\ refused' = refused \cup {eng[e].token}
      /\ foreign' = IF eng[e].token \in foreign THEN foreign \cup {t} ELSE foreign
      /\ Put(e, [eng[e] EXCEPT !.st = "persist", !.token = t])
      /\ UNCHANGED <<active, listed, held, owner, away, near, sessions, usage, stateFile, stateLock, user,
                     policy, now, faults, recorded>>

\* It refuses a token that was used or revoked: the account is quarantined.
RefreshRefused(e) ==
  /\ eng[e].st = "refresh" /\ eng[e].token \in refused
  /\ Put(e, [eng[e] EXCEPT !.st = "quarantine"])
  /\ UNCHANGED <<active, listed, accounts, stateFile, stateLock, user, policy, now, faults, recorded>>

\* No answer; the server may have exchanged the token all the same.
RefreshLost(e) ==
  /\ eng[e].st = "refresh"
  /\ Fault
  /\ refused' \in {refused, refused \cup {eng[e].token}}
  /\ TryNext(e, eng[e])
  /\ UNCHANGED <<active, listed, held, owner, away, near, sessions, usage, foreign, stateFile, stateLock,
                 user, policy, now, recorded>>

\* PersistBackupCredentials under the name the slot had, then noteTokenIdentity:
\* a token that is not the slot's account's is quarantined.
PersistFreshened(e) ==
  LET r == eng[e]
      s == Head(r.todo)
      same == r.who = owner[s]
  IN  /\ r.st = "persist"
      /\ held' = IF same THEN [held EXCEPT ![s] = r.token] ELSE held
      /\ near' = IF same THEN near \ {s} ELSE near
      /\ Put(e, [r EXCEPT !.st = IF same /\ r.token \notin foreign THEN "perform" ELSE "quarantine"])
      /\ UNCHANGED <<active, listed, owner, away, sessions, usage, refused, foreign, stateFile, stateLock,
                     user, policy, now, faults, recorded>>

PersistFails(e) ==
  /\ eng[e].st = "persist" /\ Fault /\ TickFails(e)
  /\ UNCHANGED <<active, listed, accounts, stateFile, stateLock, user, policy, now, recorded>>

\* quarantine: the credential is read again for its fingerprint, then the entry
\* is written under the state lock.
ReadFingerprint(e) ==
  /\ eng[e].st = "quarantine"
  /\ LET s == Head(eng[e].todo)
     IN  Put(e, [eng[e] EXCEPT !.st = "noting",
                               !.token = IF eng[e].who = owner[s] THEN held[s] ELSE @])
  /\ UNCHANGED <<active, listed, accounts, stateFile, stateLock, user, policy, now, faults, recorded>>

Quarantine(e) ==
  LET s == Head(eng[e].todo)
  IN  /\ eng[e].st = "noting"
      /\ MutateState(e, [stateFile EXCEPT !.quarantine[s] =
                            [owner |-> eng[e].who, token |-> eng[e].token]])
      /\ TryNext(e, eng[e])
      /\ UNCHANGED <<active, listed, accounts, user, policy, now, faults, recorded>>

-----------------------------------------------------------------------------
(* The switch *)

\* perform takes the state lock and rechecks the cooldown on the file.
PerformBug(e) ==
  /\ eng[e].st = "perform" /\ stateLock = Nobody
  /\ stateLock' = e /\ Put(e, [eng[e] EXCEPT !.st = "switch"])
  /\ UNCHANGED <<active, listed, accounts, stateFile, user, policy, now, faults, recorded>>
Perform(e) ==
  /\ eng[e].st = "perform" /\ stateLock = Nobody
  /\ IF eng[e].trigger = "proactive" /\ InCooldown(stateFile.lastSwitchAt)
     THEN EndTick(e, eng[e], Sleeps) /\ UNCHANGED stateLock
     ELSE Put(e, [eng[e] EXCEPT !.st = "switch"]) /\ stateLock' = e
  /\ UNCHANGED <<active, listed, accounts, stateFile, user, policy, now, faults, recorded>>

\* SwitchTo under the state lock; the target may be the live account by now.
EngineSwitch(e) ==
  LET s == Head(eng[e].todo)
  IN  /\ eng[e].st = "switch" /\ held[s] # Nil
      /\ IF active = s
         THEN /\ EndTick(e, eng[e], Sleeps) /\ stateLock' = Nobody
              /\ UNCHANGED <<active, listed>>
         ELSE /\ Put(e, [eng[e] EXCEPT !.st = "record"]) /\ UNCHANGED stateLock
              /\ active' = s /\ listed' = s
      /\ UNCHANGED <<accounts, stateFile, user, policy, now, faults, recorded>>

EngineSwitchFails(e) ==
  /\ eng[e].st = "switch"
  /\ IF held[Head(eng[e].todo)] = Nil THEN UNCHANGED faults ELSE Fault
  /\ TickFails(e) /\ stateLock' = Nobody
  /\ UNCHANGED <<active, listed, accounts, stateFile, user, policy, now, recorded>>

\* writeState: the cooldown starts.
RecordSwitch(e) ==
  /\ eng[e].st = "record"
  /\ stateFile' = [stateFile EXCEPT !.lastSwitchAt = now]
  /\ stateLock' = Nobody /\ recorded' = now
  /\ EndTick(e, eng[e], Sleeps)
  /\ UNCHANGED <<active, listed, accounts, user, policy, now, faults>>

\* The write fails, or the process dies before it: the switch is not recorded.
RecordFails(e) ==
  /\ eng[e].st = "record" /\ Fault
  /\ TickFails(e) /\ stateLock' = Nobody
  /\ UNCHANGED <<active, listed, accounts, stateFile, user, policy, now, recorded>>

\* The process is killed: its lock goes with it.
EngineDies(e) ==
  /\ eng[e].st \notin {"asleep", "dead"} /\ Fault
  /\ Put(e, [Asleep EXCEPT !.st = "dead"])
  /\ stateLock' = IF stateLock = e THEN Nobody ELSE stateLock
  /\ UNCHANGED <<active, listed, accounts, stateFile, user, policy, now, recorded>>

-----------------------------------------------------------------------------
(* The user's switches, and what else changes the accounts *)

\* The first slot of fit after n, round the roster.
NextAfter(n, fit) ==
  LET dist(s) == IF s > n THEN s - n ELSE s - n + Max(Slot)
      rest == fit \ {n}
  IN  IF rest = {} THEN Nil ELSE CHOOSE s \in rest : \A t \in rest : dist(s) <= dist(t)

\* Rotation goes round from the roster's active account, next-available from
\* the live one, past the accounts known to be exhausted.
RotationTarget == NextAfter(listed, SwitchableAccountNumbers)
HeadroomOf(u, s) == AccountHeadroom(u[s], {})
NextAvailableTarget(u) ==
  NextAfter(active, {s \in SwitchableAccountNumbers : HeadroomOf(u, s) > 0})

\* selectBestSwitchable: strictly more headroom than the live account.
BestTarget(u) ==
  LET h(s) == HeadroomOf(u, s)
      others == SwitchableAccountNumbers \ {active}
      known  == {s \in others : h(s) # NoHeadroom}
      best   == {s \in known : \A t \in known : h(s) > h(t) \/ (h(s) = h(t) /\ s <= t)}
  IN  IF others = {} THEN RotationTarget
      ELSE IF h(active) = NoHeadroom \/ known = {} THEN Nil
      ELSE IF h(Min(best)) > h(active) THEN Min(best) ELSE Nil

\* switchFreshMachine: nobody is logged in; the roster's account first.
FreshMachineTarget ==
  IF listed \in SwitchableAccountNumbers THEN listed
  ELSE EarliestOf(SwitchableAccountNumbers)

\* Switch chooses without a lock, over the network for the usage.
UserChooses ==
  /\ user = Nil /\ Fault
  /\ active # Unmanaged
  /\ user' \in IF active = Nil THEN {FreshMachineTarget}
               ELSE {RotationTarget, NextAvailableTarget(usage), BestTarget(usage)} \ {active}
  /\ UNCHANGED <<active, listed, accounts, stateFile, stateLock, eng, policy, now, recorded>>

\* performSwitch, in one step; the slot may have lost its credential.
UserSwitches ==
  /\ user # Nil /\ user' = Nil
  /\ active' = IF held[user] # Nil THEN user ELSE active
  /\ listed' = IF held[user] # Nil THEN user ELSE listed
  /\ UNCHANGED <<accounts, stateFile, stateLock, eng, policy, now, faults, recorded>>

\* /login, /logout: the live login changes and the roster does not.
Login(a) ==
  /\ active # a /\ Fault /\ active' = a
  /\ UNCHANGED <<listed, accounts, stateFile, stateLock, eng, user, policy, now, recorded>>

\* A slot is added again, given to another account, or loses its credential.
ReAdd(s, who, t) ==
  /\ Fault /\ t \in {FreshToken, Nil} /\ t <= MaxToken /\ held[s] # t
  /\ held' = [held EXCEPT ![s] = t] /\ owner' = [owner EXCEPT ![s] = who]
  /\ near' = near \ {s}
  /\ UNCHANGED <<active, listed, away, sessions, usage, refused, foreign, stateFile, stateLock, eng,
                 user, policy, now, recorded>>

\* A token is revoked; a slot is disabled; a session starts or ends; quota is used.
Disturb(s) ==
  /\ Fault
  /\ \/ held[s] > 0 /\ refused' = refused \cup {held[s]} /\ near' = near \cup {s}
        /\ UNCHANGED <<away, sessions, usage>>
     \/ away' = (away \ {s}) \cup ({s} \ away) /\ UNCHANGED <<refused, near, sessions, usage>>
     \/ sessions' = (sessions \ {s}) \cup ({s} \ sessions) /\ UNCHANGED <<refused, near, away, usage>>
     \/ \E u \in Readings : /\ u # usage[s] /\ usage' = [usage EXCEPT ![s] = u]
                           /\ UNCHANGED <<refused, near, away, sessions>>
  /\ UNCHANGED <<active, listed, held, owner, foreign, stateFile, stateLock, eng, user, policy,
                 now, recorded>>

TimePasses ==
  /\ now < MaxTime /\ now' = now + 1
  /\ UNCHANGED <<active, listed, accounts, stateFile, stateLock, eng, user, policy, faults,
                 recorded>>

EngineStep(e) ==
  \/ ReadState(e) \/ CheckQuarantines(e) \/ ReleaseQuarantines(e) \/ StateUnavailable(e)
  \/ \E expired \in BOOLEAN : Decide(e, expired)
  \/ FreshenTarget(e) \/ RefreshSucceeds(e) \/ RefreshRefused(e) \/ RefreshLost(e)
  \/ PersistFreshened(e) \/ PersistFails(e) \/ ReadFingerprint(e) \/ Quarantine(e)
  \/ Perform(e) \/ EngineSwitch(e) \/ EngineSwitchFails(e) \/ RecordSwitch(e)
  \/ RecordFails(e) \/ EngineDies(e)

AutoNext ==
  \/ \E e \in Engine : EngineStep(e)
  \/ UserChooses \/ UserSwitches
  \/ \E a \in Slot \cup {Nil, Unmanaged} : Login(a)
  \/ \E s \in Slot \ ApiKey, who \in {0, 1}, t \in Nil .. MaxToken : ReAdd(s, who, t)
  \/ \E s \in Slot \ ApiKey : Disturb(s)
  \/ TimePasses

AutoSpec == AutoInit /\ [][AutoNext]_autoVars

-----------------------------------------------------------------------------
(* Properties *)

Stages == {"asleep", "read", "releasing", "poll", "try", "refresh", "persist",
           "quarantine", "noting", "perform", "switch", "record", "dead"}

AutoTypeOK ==
  /\ active \in Slot \cup {Nil, Unmanaged} /\ listed \in Slot
  /\ held \in [Slot -> Nil .. MaxToken] /\ owner \in [Slot -> {0, 1}]
  /\ away \subseteq Slot /\ near \subseteq Slot /\ sessions \subseteq Slot
  /\ usage \in [Slot -> Readings]
  /\ refused \cup foreign \subseteq 1 .. MaxToken
  /\ stateFile.lastSwitchAt \in Nil .. MaxTime
  /\ \A s \in Slot : stateFile.quarantine[s].token \in Nil .. MaxToken
  /\ stateLock \in Engine \cup {Nobody}
  /\ \A e \in Engine : /\ eng[e].st \in Stages
                        /\ ToSet(eng[e].todo) \subseteq Slot /\ IsInjective(eng[e].todo)
                        /\ eng[e].st \in {"switch", "record"} <=> stateLock = e
  /\ user \in Slot \cup {Nil} /\ policy \in Policies
  /\ now \in 0 .. MaxTime /\ faults \in 0 .. MaxFaults /\ recorded \in Nil .. MaxTime

\* The cooldown holds between engines: a switch below the limit comes no sooner
\* than Cooldown after the last recorded automatic switch of any engine, though
\* the tick that decided it read the state file long before and the quarantine
\* is rewritten in between (tick.go perform, state.go mutateState).
CooldownHolds ==
  [][\A e \in Engine : (/\ eng[e].st = "switch" /\ eng'[e].st = "record"
                        /\ eng[e].trigger = "proactive")
                       => recorded = Nil \/ now - recorded >= Cooldown]_autoVars
=============================================================================
