---------------------------- MODULE ServiceProofs ---------------------------
(* TLAPS proofs about AutoSwitch, Vault, Transfer, Settings and Sharing, for *)
(* any engines, processes, slots, files, launches and bounds.                *)
EXTENDS AutoSwitch, Vault, Transfer, Settings, Sharing, WellFoundedInduction, TLAPS

-----------------------------------------------------------------------------
(* The cooldown between engines.                                             *)

Switching == {"switch", "record"}

\* An engine has the fields of a record.
Engined(r) == "st" \in DOMAIN r /\ "trigger" \in DOMAIN r
\* It is not switching.
Calm(r) == Engined(r) /\ r.st \notin Switching

\* The lock's holder is the engine that switches; the state file has the time of the last
\* recorded switch; a switch below the limit was let through after the cooldown.
CooldownFor(state, lock, g, t, rec) ==
  /\ t \in Nat /\ rec \in Int /\ state.lastSwitchAt = rec
  /\ "lastSwitchAt" \in DOMAIN state /\ "quarantine" \in DOMAIN state
  /\ DOMAIN g = Engine
  /\ \A e \in Engine : Engined(g[e])
  /\ \A e \in Engine : g[e].st \in Switching <=> lock = e
  /\ \A e \in Engine : g[e].st = "switch" /\ g[e].trigger = "proactive" =>
       rec = Nil \/ t - rec >= Cooldown

CooldownInv == CooldownFor(stateFile, stateLock, eng, now, recorded)

LEMMA InitCooldown == AutoInit => CooldownInv
<1> SUFFICES ASSUME AutoInit PROVE CooldownInv
  OBVIOUS
<1>1. eng \in [Engine -> {[Asleep EXCEPT !.dry = d] : d \in BOOLEAN}]
  BY DEF AutoInit
<1>2. \A d \in BOOLEAN : Calm([Asleep EXCEPT !.dry = d])
  BY DEF Asleep, Calm, Engined, Switching
<1>3. \A e \in Engine : Calm(eng[e])
  BY <1>1, <1>2
<1>4. now \in Nat /\ recorded = Nil /\ stateFile = [lastSwitchAt |-> Nil, quarantine |-> [s \in Slot |-> NoEntry]]
      /\ stateLock = Nobody
  BY DEF AutoInit
<1> QED
  BY <1>1, <1>3, <1>4, AutoSwitchAssumption DEF CooldownInv, CooldownFor, Calm, Switching, Nil

\* An engine that does not switch, or gives up the lock, disturbs nothing.
LEMMA CalmStep ==
  ASSUME CooldownInv, NEW e \in Engine, NEW r, Calm(r), Put(e, r),
         now' = now, recorded' = recorded,
         "lastSwitchAt" \in DOMAIN stateFile', "quarantine" \in DOMAIN stateFile',
         stateFile'.lastSwitchAt = stateFile.lastSwitchAt,
         \/ stateLock' = stateLock /\ eng[e].st \notin Switching
         \/ stateLock' = Nobody /\ eng[e].st \in Switching
  PROVE  CooldownInv'
<1>1. eng' = [eng EXCEPT ![e] = r] /\ DOMAIN eng = Engine
  BY DEF Put, CooldownInv, CooldownFor
<1>2. eng'[e] = r /\ DOMAIN eng' = Engine /\ \A f \in Engine \ {e} : eng'[f] = eng[f]
  BY <1>1
<1>3. \A f \in Engine : Engined(eng'[f])
  BY <1>2 DEF CooldownInv, CooldownFor, Calm
<1>4. Nobody \notin Engine
  BY AutoSwitchAssumption
<1>5. \A f \in Engine : eng'[f].st \in Switching <=> stateLock' = f
  <2>1. \A f \in Engine : eng[f].st \in Switching <=> stateLock = f
    BY DEF CooldownInv, CooldownFor
  <2>2. r.st \notin Switching
    BY DEF Calm
  <2>3. CASE stateLock' = stateLock /\ eng[e].st \notin Switching
    BY <1>2, <2>1, <2>2, <2>3
  <2>4. CASE stateLock' = Nobody /\ eng[e].st \in Switching
    BY <1>2, <1>4, <2>1, <2>2, <2>4
  <2> QED
    BY <2>3, <2>4
<1>6. \A f \in Engine : eng'[f].st = "switch" /\ eng'[f].trigger = "proactive" =>
        recorded' = Nil \/ now' - recorded' >= Cooldown
  BY <1>2 DEF CooldownInv, CooldownFor, Calm, Switching
<1> QED
  BY <1>2, <1>3, <1>5, <1>6 DEF CooldownInv, CooldownFor

LEMMA EndTickIsCalm ==
  ASSUME NEW e, NEW r, NEW how, EndTick(e, r, how)
  PROVE  \E n : Calm(n) /\ Put(e, n)
<1> DEFINE n == [Asleep EXCEPT !.unhealthy = r.unhealthy, !.idleSince = r.idleSince,
                        !.dry = r.dry, !.wakeAt = MinOf(now + NextDelay(how), MaxTime + 1)]
<1>1. Put(e, n)
  BY DEF EndTick
<1>2. Calm(n)
  BY DEF Asleep, Calm, Engined, Switching
<1> QED
  BY <1>1, <1>2

LEMMA TickFailsIsCalm == ASSUME NEW e, TickFails(e) PROVE \E n : Calm(n) /\ Put(e, n)
BY EndTickIsCalm DEF TickFails

LEMMA ReadCurrentIsCalm ==
  ASSUME NEW e, NEW r, Engined(r), ReadCurrentAccount(e, r)
  PROVE  \E n : Calm(n) /\ Put(e, n)
<1>1. CASE CurrentAccountNumber = Nil
  BY <1>1, EndTickIsCalm DEF ReadCurrentAccount
<1>2. CASE CurrentAccountNumber # Nil
  <2>1. Put(e, [r EXCEPT !.st = "poll", !.cur = CurrentAccountNumber])
    BY <1>2 DEF ReadCurrentAccount
  <2> QED
    BY <2>1 DEF Calm, Engined, Switching
<1> QED
  BY <1>1, <1>2

LEMMA TryNextIsCalm ==
  ASSUME NEW e, NEW r, Engined(r), TryNext(e, r)
  PROVE  \E n : Calm(n) /\ Put(e, n)
<1>1. CASE Tail(r.todo) = <<>>
  BY <1>1, EndTickIsCalm DEF TryNext
<1>2. CASE Tail(r.todo) # <<>>
  <2>1. Put(e, [r EXCEPT !.st = "try", !.todo = Tail(r.todo), !.token = Nil])
    BY <1>2 DEF TryNext
  <2> QED
    BY <2>1 DEF Calm, Engined, Switching
<1> QED
  BY <1>1, <1>2

LEMMA ChooseIsCalm ==
  ASSUME NEW e, NEW u, NEW trigger, NEW r, Engined(r), Choose(e, u, trigger, r)
  PROVE  \E n : Calm(n) /\ Put(e, n)
<1>1. \/ \E how : EndTick(e, r, how)
      \/ Put(e, [r EXCEPT !.st = "try", !.trigger = trigger, !.todo = Ordered(e, u, trigger),
                            !.quarantined = {}, !.last = Nil, !.cur = Nil])
  BY DEF Choose
<1>2. CASE \E how : EndTick(e, r, how)
  BY <1>2, EndTickIsCalm
<1>3. CASE Put(e, [r EXCEPT !.st = "try", !.trigger = trigger, !.todo = Ordered(e, u, trigger),
                            !.quarantined = {}, !.last = Nil, !.cur = Nil])
  BY <1>3 DEF Calm, Engined, Switching
<1> QED
  BY <1>1, <1>2, <1>3

LEMMA DecideIsCalm ==
  ASSUME NEW e, Engined(eng[e]), NEW expired, Decide(e, expired)
  PROVE  \E n : Calm(n) /\ Put(e, n)
<1>1. \/ \E r, how : EndTick(e, r, how)
      \/ \E u, trigger, x, y : Choose(e, u, trigger, [eng[e] EXCEPT !.unhealthy = x, !.idleSince = y])
      \/ \E u, trigger, x, y : Choose(e, u, trigger, [[eng[e] EXCEPT !.unhealthy = x, !.idleSince = y]
                                                        EXCEPT !.unhealthy = UnhealthyTicks])
  BY Zenon DEF Decide
<1>2. \A x, y : /\ Engined([eng[e] EXCEPT !.unhealthy = x, !.idleSince = y])
                /\ Engined([[eng[e] EXCEPT !.unhealthy = x, !.idleSince = y]
                               EXCEPT !.unhealthy = UnhealthyTicks])
  BY DEF Engined
<1> QED
  BY <1>1, <1>2, EndTickIsCalm, ChooseIsCalm

\* One step of an engine that is not the switch itself.
LEMMA QuietEngineSteps ==
  ASSUME CooldownInv, NEW e \in Engine,
         \/ ReadState(e) \/ CheckQuarantines(e) \/ ReleaseQuarantines(e) \/ StateUnavailable(e)
         \/ \E expired \in BOOLEAN : Decide(e, expired)
         \/ FreshenTarget(e) \/ RefreshSucceeds(e) \/ RefreshRefused(e) \/ RefreshLost(e)
         \/ PersistFreshened(e) \/ PersistFails(e) \/ ReadFingerprint(e) \/ Quarantine(e)
  PROVE  CooldownInv'
<1>0. Engined(eng[e]) /\ "lastSwitchAt" \in DOMAIN stateFile /\ "quarantine" \in DOMAIN stateFile
  BY DEF CooldownInv, CooldownFor
<1> DEFINE Kept == /\ now' = now /\ recorded' = recorded /\ stateLock' = stateLock
                   /\ eng[e].st \notin Switching
                   /\ "lastSwitchAt" \in DOMAIN stateFile' /\ "quarantine" \in DOMAIN stateFile'
                   /\ stateFile'.lastSwitchAt = stateFile.lastSwitchAt
           Quiet == Kept /\ \E n : Calm(n) /\ Put(e, n)
<1>1. ASSUME ReadState(e) PROVE Quiet
  <2>1. Kept
    BY <1>0, <1>1 DEF ReadState, Switching
  <2> DEFINE in == {s \in Slot : stateFile.quarantine[s] # NoEntry}
             r == [eng[e] EXCEPT !.quarantined = in, !.last = stateFile.lastSwitchAt]
  <2>2. ReadCurrentAccount(e, r) \/ Put(e, [r EXCEPT !.st = "read"])
    BY <1>1 DEF ReadState
  <2>3. Engined(r) /\ Calm([r EXCEPT !.st = "read"])
    BY <1>0 DEF Engined, Calm, Switching
  <2> HIDE DEF r
  <2> QED
    BY <2>1, <2>2, <2>3, ReadCurrentIsCalm
<1>2. ASSUME CheckQuarantines(e) PROVE Quiet
  <2>1. Kept
    BY <1>0, <1>2 DEF CheckQuarantines, Switching
  <2>2. \/ ReadCurrentAccount(e, eng[e])
        \/ \E gone : Put(e, [eng[e] EXCEPT !.release = gone, !.st = "releasing"])
    BY <1>2 DEF CheckQuarantines
  <2>3. \A gone : Calm([eng[e] EXCEPT !.release = gone, !.st = "releasing"])
    BY <1>0 DEF Engined, Calm, Switching
  <2> QED
    BY <1>0, <2>1, <2>2, <2>3, ReadCurrentIsCalm
<1>3. ASSUME ReleaseQuarantines(e) PROVE Quiet
  <2>1. Kept
    BY <1>0, <1>3 DEF ReleaseQuarantines, MutateState, WithoutEntries, Switching
  <2>2. \E x, y, z : ReadCurrentAccount(e, [eng[e] EXCEPT !.release = x, !.last = y, !.quarantined = z])
    BY <1>3 DEF ReleaseQuarantines
  <2>3. \A x, y, z : Engined([eng[e] EXCEPT !.release = x, !.last = y, !.quarantined = z])
    BY <1>0 DEF Engined
  <2> QED
    BY <2>1, <2>2, <2>3, ReadCurrentIsCalm
<1>4. ASSUME StateUnavailable(e) PROVE Quiet
  <2>1. Kept
    BY <1>0, <1>4 DEF StateUnavailable, Switching
  <2> QED
    BY <1>4, <2>1, TickFailsIsCalm DEF StateUnavailable
<1>5. ASSUME NEW expired \in BOOLEAN, Decide(e, expired) PROVE Quiet
  <2>1. Kept
    BY <1>0, <1>5 DEF Decide, Switching
  <2> QED
    BY <1>0, <1>5, <2>1, DecideIsCalm
<1>6. ASSUME FreshenTarget(e) PROVE Quiet
  <2>1. Kept
    BY <1>0, <1>6 DEF FreshenTarget, Switching
  <2>2. \/ EndTick(e, eng[e], Sleeps) \/ TryNext(e, eng[e])
        \/ Put(e, [eng[e] EXCEPT !.st = "perform"])
        \/ \E w : Put(e, [eng[e] EXCEPT !.st = "quarantine", !.who = w])
        \/ \E t, w : Put(e, [eng[e] EXCEPT !.st = "refresh", !.token = t, !.who = w])
    BY <1>6 DEF FreshenTarget
  <2>3. /\ Calm([eng[e] EXCEPT !.st = "perform"])
        /\ \A w : Calm([eng[e] EXCEPT !.st = "quarantine", !.who = w])
        /\ \A t, w : Calm([eng[e] EXCEPT !.st = "refresh", !.token = t, !.who = w])
    BY <1>0 DEF Engined, Calm, Switching
  <2> QED
    BY <1>0, <2>1, <2>2, <2>3, EndTickIsCalm, TryNextIsCalm
<1>7. ASSUME RefreshSucceeds(e) PROVE Quiet
  <2>1. Kept
    BY <1>0, <1>7 DEF RefreshSucceeds, Switching
  <2>2. \E t : Put(e, [eng[e] EXCEPT !.st = "persist", !.token = t])
    BY <1>7 DEF RefreshSucceeds
  <2>3. \A t : Calm([eng[e] EXCEPT !.st = "persist", !.token = t])
    BY <1>0 DEF Engined, Calm, Switching
  <2> QED
    BY <2>1, <2>2, <2>3
<1>8. ASSUME RefreshRefused(e) PROVE Quiet
  <2>1. Kept
    BY <1>0, <1>8 DEF RefreshRefused, Switching
  <2>2. Calm([eng[e] EXCEPT !.st = "quarantine"])
    BY <1>0 DEF Engined, Calm, Switching
  <2> QED
    BY <1>8, <2>1, <2>2 DEF RefreshRefused
<1>9. ASSUME RefreshLost(e) PROVE Quiet
  <2>1. Kept
    BY <1>0, <1>9 DEF RefreshLost, Switching
  <2> QED
    BY <1>0, <1>9, <2>1, TryNextIsCalm DEF RefreshLost
<1>10. ASSUME PersistFreshened(e) PROVE Quiet
  <2>1. Kept
    BY <1>0, <1>10 DEF PersistFreshened, Switching
  <2>2. \E x \in {"perform", "quarantine"} : Put(e, [eng[e] EXCEPT !.st = x])
    BY <1>10 DEF PersistFreshened
  <2>3. \A x \in {"perform", "quarantine"} : Calm([eng[e] EXCEPT !.st = x])
    BY <1>0 DEF Engined, Calm, Switching
  <2> QED
    BY <2>1, <2>2, <2>3
<1>11. ASSUME PersistFails(e) PROVE Quiet
  <2>1. Kept
    BY <1>0, <1>11 DEF PersistFails, Switching
  <2> QED
    BY <1>11, <2>1, TickFailsIsCalm DEF PersistFails
<1>12. ASSUME ReadFingerprint(e) PROVE Quiet
  <2>1. Kept
    BY <1>0, <1>12 DEF ReadFingerprint, Switching
  <2>2. \E t : Put(e, [eng[e] EXCEPT !.st = "noting", !.token = t])
    BY <1>12 DEF ReadFingerprint
  <2>3. \A t : Calm([eng[e] EXCEPT !.st = "noting", !.token = t])
    BY <1>0 DEF Engined, Calm, Switching
  <2> QED
    BY <2>1, <2>2, <2>3
<1>13. ASSUME Quarantine(e) PROVE Quiet
  <2>1. Kept
    BY <1>0, <1>13 DEF Quarantine, MutateState, Switching
  <2> QED
    BY <1>0, <1>13, <2>1, TryNextIsCalm DEF Quarantine
<1>14. Quiet
  BY <1>1, <1>2, <1>3, <1>4, <1>5, <1>6, <1>7, <1>8, <1>9, <1>10, <1>11, <1>12, <1>13
<1> QED
  BY <1>14, CalmStep

\* The steps of the switch: the lock is taken with the cooldown over on the file, kept over the
\* switch, and given up with the time of it recorded.
LEMMA SwitchingSteps ==
  ASSUME CooldownInv, NEW e \in Engine,
         \/ Perform(e) \/ EngineSwitch(e) \/ EngineSwitchFails(e) \/ RecordSwitch(e)
         \/ RecordFails(e) \/ EngineDies(e)
  PROVE  CooldownInv'
<1>0. /\ Engined(eng[e]) /\ "lastSwitchAt" \in DOMAIN stateFile /\ "quarantine" \in DOMAIN stateFile
      /\ DOMAIN eng = Engine /\ now \in Nat /\ recorded \in Int /\ stateFile.lastSwitchAt = recorded
      /\ \A f \in Engine : Engined(eng[f])
      /\ \A f \in Engine : eng[f].st \in Switching <=> stateLock = f
      /\ \A f \in Engine : eng[f].st = "switch" /\ eng[f].trigger = "proactive" =>
            recorded = Nil \/ now - recorded >= Cooldown
  BY DEF CooldownInv, CooldownFor
<1>n. Nobody \notin Engine /\ Cooldown \in Nat
  BY AutoSwitchAssumption
<1>1. CASE Perform(e)
  <2>1. CASE eng[e].trigger = "proactive" /\ InCooldown(stateFile.lastSwitchAt)
    <3>1. EndTick(e, eng[e], Sleeps) /\ stateLock' = stateLock
          /\ now' = now /\ recorded' = recorded /\ stateFile' = stateFile
          /\ eng[e].st \notin Switching
      BY <1>1, <2>1 DEF Perform, Switching
    <3> QED
      BY <1>0, <3>1, EndTickIsCalm, CalmStep
  <2>2. CASE ~(eng[e].trigger = "proactive" /\ InCooldown(stateFile.lastSwitchAt))
    <3>1. /\ eng' = [eng EXCEPT ![e] = [eng[e] EXCEPT !.st = "switch"]]
          /\ stateLock = Nobody /\ stateLock' = e
          /\ now' = now /\ recorded' = recorded /\ stateFile' = stateFile
      BY <1>1, <2>2 DEF Perform, Put
    <3>2. /\ eng'[e].st = "switch" /\ eng'[e].trigger = eng[e].trigger /\ Engined(eng'[e])
          /\ DOMAIN eng' = Engine /\ \A f \in Engine \ {e} : eng'[f] = eng[f]
      BY <1>0, <3>1 DEF Engined
    <3>3. \A f \in Engine : Engined(eng'[f])
      BY <1>0, <3>2
    <3>4. \A f \in Engine : eng'[f].st \in Switching <=> stateLock' = f
      BY <1>0, <1>n, <3>1, <3>2 DEF Switching
    <3>5. \A f \in Engine : eng'[f].st = "switch" /\ eng'[f].trigger = "proactive" =>
            recorded' = Nil \/ now' - recorded' >= Cooldown
      <4>1. eng[e].trigger = "proactive" => recorded = Nil \/ now - recorded >= Cooldown
        BY <1>0, <1>n, <2>2 DEF InCooldown
      <4> QED
        BY <1>0, <3>1, <3>2, <4>1
    <3> QED
      BY <1>0, <3>1, <3>2, <3>3, <3>4, <3>5 DEF CooldownInv, CooldownFor
  <2> QED
    BY <2>1, <2>2
<1>2. CASE EngineSwitch(e)
  <2>0. /\ eng[e].st = "switch" /\ eng[e].st \in Switching
        /\ now' = now /\ recorded' = recorded /\ stateFile' = stateFile
    BY <1>2 DEF EngineSwitch, Switching
  <2>1. CASE EndTick(e, eng[e], Sleeps) /\ stateLock' = Nobody
    BY <1>0, <2>0, <2>1, EndTickIsCalm, CalmStep
  <2>2. CASE Put(e, [eng[e] EXCEPT !.st = "record"]) /\ stateLock' = stateLock
    <3>1. /\ eng'[e].st = "record" /\ Engined(eng'[e])
          /\ DOMAIN eng' = Engine /\ \A f \in Engine \ {e} : eng'[f] = eng[f]
      BY <1>0, <2>2 DEF Engined, Put
    <3> QED
      BY <1>0, <2>0, <2>2, <3>1 DEF CooldownInv, CooldownFor, Switching
  <2> QED
    BY <1>2, <2>1, <2>2 DEF EngineSwitch
<1>3. CASE EngineSwitchFails(e)
  <2>1. /\ TickFails(e) /\ stateLock' = Nobody /\ eng[e].st \in Switching
        /\ now' = now /\ recorded' = recorded /\ stateFile' = stateFile
    BY <1>3 DEF EngineSwitchFails, Switching
  <2> QED
    BY <1>0, <2>1, TickFailsIsCalm, CalmStep
<1>4. CASE RecordSwitch(e)
  <2>1. /\ EndTick(e, eng[e], Sleeps) /\ stateLock' = Nobody /\ eng[e].st \in Switching
        /\ now' = now /\ recorded' = now /\ stateFile' = [stateFile EXCEPT !.lastSwitchAt = now]
    BY <1>4 DEF RecordSwitch, Switching
  <2>2. PICK n : Calm(n) /\ Put(e, n)
    BY <2>1, EndTickIsCalm
  <2>3. eng'[e] = n /\ DOMAIN eng' = Engine /\ \A f \in Engine \ {e} : eng'[f] = eng[f]
    BY <1>0, <2>2 DEF Put
  <2>4. \A f \in Engine : Calm(eng'[f])
    BY <1>0, <2>1, <2>2, <2>3 DEF Calm
  <2>5. \A f \in Engine : Engined(eng'[f]) /\ eng'[f].st \notin Switching /\ eng'[f].st # "switch"
    BY <2>4 DEF Calm, Switching
  <2>6. /\ stateFile'.lastSwitchAt = recorded' /\ recorded' \in Int /\ now' \in Nat
        /\ "lastSwitchAt" \in DOMAIN stateFile' /\ "quarantine" \in DOMAIN stateFile'
    BY <1>0, <2>1
  <2> QED
    BY <1>n, <2>1, <2>3, <2>5, <2>6 DEF CooldownInv, CooldownFor
<1>5. CASE RecordFails(e)
  <2>1. /\ TickFails(e) /\ stateLock' = Nobody /\ eng[e].st \in Switching
        /\ now' = now /\ recorded' = recorded /\ stateFile' = stateFile
    BY <1>5 DEF RecordFails, Switching
  <2> QED
    BY <1>0, <2>1, TickFailsIsCalm, CalmStep
<1>6. CASE EngineDies(e)
  <2>1. /\ Put(e, [Asleep EXCEPT !.st = "dead"])
        /\ stateLock' = IF stateLock = e THEN Nobody ELSE stateLock
        /\ now' = now /\ recorded' = recorded /\ stateFile' = stateFile
    BY <1>6 DEF EngineDies
  <2>2. Calm([Asleep EXCEPT !.st = "dead"])
    BY DEF Asleep, Calm, Engined, Switching
  <2>3. \/ stateLock' = stateLock /\ eng[e].st \notin Switching
        \/ stateLock' = Nobody /\ eng[e].st \in Switching
    BY <1>0, <2>1
  <2> QED
    BY <1>0, <2>1, <2>2, <2>3, CalmStep
<1> QED
  BY <1>1, <1>2, <1>3, <1>4, <1>5, <1>6

LEMMA NextCooldown ==
  ASSUME CooldownInv, [AutoNext]_autoVars
  PROVE  CooldownInv'
<1>1. CASE \E e \in Engine : EngineStep(e)
  BY <1>1, QuietEngineSteps, SwitchingSteps DEF EngineStep
<1> DEFINE Untouched == /\ stateFile' = stateFile /\ stateLock' = stateLock /\ eng' = eng
                        /\ recorded' = recorded
<1>2. ASSUME Untouched, now' = now PROVE CooldownInv'
  BY <1>2 DEF CooldownInv
<1>3. CASE UserChooses
  BY <1>2, <1>3 DEF UserChooses
<1>4. CASE UserSwitches
  BY <1>2, <1>4 DEF UserSwitches
<1>5. ASSUME NEW a, Login(a) PROVE CooldownInv'
  BY <1>2, <1>5 DEF Login
<1>6. ASSUME NEW s, NEW who, NEW t, ReAdd(s, who, t) PROVE CooldownInv'
  BY <1>2, <1>6 DEF ReAdd
<1>7. ASSUME NEW s, Disturb(s) PROVE CooldownInv'
  BY <1>2, <1>7 DEF Disturb
<1>8. CASE TimePasses
  <2>1. Untouched /\ now' = now + 1
    BY <1>8 DEF TimePasses
  <2> QED
    BY <2>1, AutoSwitchAssumption DEF CooldownInv, CooldownFor
<1>9. CASE UNCHANGED autoVars
  BY <1>2, <1>9 DEF autoVars
<1> QED
  BY <1>1, <1>3, <1>4, <1>5, <1>6, <1>7, <1>8, <1>9 DEF AutoNext

\* However many engines run, and however stale what their ticks read, no switch below the
\* limit comes sooner than Cooldown after the last recorded automatic one (tick.go perform).
THEOREM CooldownIsKept == AutoSpec => CooldownHolds
<1>1. CooldownInv /\ [AutoNext]_autoVars =>
        [\A e \in Engine : (/\ eng[e].st = "switch" /\ eng'[e].st = "record"
                            /\ eng[e].trigger = "proactive")
                           => recorded = Nil \/ now - recorded >= Cooldown]_autoVars
  BY DEF CooldownInv, CooldownFor
<1>2. CooldownInv /\ [AutoNext]_autoVars => CooldownInv'
  BY NextCooldown
<1> QED
  BY <1>1, <1>2, InitCooldown, PTL DEF AutoSpec, CooldownHolds

-----------------------------------------------------------------------------
(* Backups and migrations.                                                   *)

Cred == 0 .. MaxCred
Work == [st : VaultStates, n : Num \cup {0}, cred : Cred, todo : SUBSET Num, failed : BOOLEAN,
         from : Sources \cup {<<>>}, ops : Nat]
Busy(r) == r.st \notin {"new", "idle", "dead"}

VaultTypes ==
  /\ mac \in BOOLEAN /\ mixed \in BOOLEAN
  /\ disk \in [Kinds -> Cred] /\ kc \in [Kinds -> Cred]
  /\ ~mac => \A k \in Kinds : kc[k] = 0
  /\ legacy \in [Sources -> Cred] /\ mail \in [Num -> Num]
  /\ acked \in [Num -> SUBSET Cred]
  /\ proc \in [Proc -> Work]
  /\ \A p \in Proc : Busy(proc[p]) => proc[p].n \in Num

\* What slot n is to inherit from the old store: its own entry, or account-None.
Heir(l, m, n) ==
  IF l[<<"slot", n>>] = 0 /\ \A k \in Num \ {n} : m[k] # m[n] THEN <<"none", m[n]>>
  ELSE <<"slot", n>>

Writes == {"retain", "put", "file", "sweep", "reconcile"}
Deletes == {"unlink", "drop", "strict"}
Moves == {"relocate", "verify", "discard", "forget"}

\* What an operation in progress may count on, when it runs alone.
OpOK(isMac, d, k, l, m, a, r) ==
  LET b == Backup(r.n)
  IN  /\ r.st \in Writes => r.cred # 0 /\ r.cred \in a[r.n]
      /\ r.st = "sweep" => d[b] = r.cred
      /\ r.st = "reconcile" => k[b] = r.cred
      /\ r.st \in Deletes => a[r.n] = Cred
      /\ r.st \in Moves \cup {"legacy"} => r.n \in r.todo
      /\ isMac /\ r.st \in Moves \cup {"legacy"} => \A i \in r.todo \ {r.n} : k[Backup(i)] = 0
      /\ isMac /\ r.st \in {"legacy", "relocate"} => k[b] = 0
      /\ r.st \in Moves => /\ r.from = Heir(l, m, r.n) /\ r.cred = l[r.from] /\ r.cred # 0
      /\ r.st = "forget" => r.cred \in {k[b], d[b]}

Given(d, k, n) == IF d[Backup(n)] # 0 THEN d[Backup(n)] ELSE k[Backup(n)]

\* Operations run one at a time, each with what it counts on, and readers get what they may.
OneAtATime ==
  /\ \A p, q \in Proc : Busy(proc[p]) /\ Busy(proc[q]) => p = q
  /\ \A n \in Num : Given(disk, kc, n) \in acked[n]
  /\ \A p \in Proc : OpOK(mac, disk, kc, legacy, mail, acked, proc[p])

VaultInv == VaultTypes /\ (mixed \/ OneAtATime)

LEMMA KindFacts ==
  /\ \A n \in Num : Backup(n) \in Kinds /\ Prev(n) \in Kinds
  /\ OAuth \in Kinds /\ Key \in Kinds /\ OAuth # Key
  /\ \A m, n : /\ Backup(m) = Backup(n) => m = n
               /\ Backup(m) # Prev(n) /\ Backup(m) # OAuth /\ Backup(m) # Key
BY DEF Backup, Prev, OAuth, Key, Kinds

LEMMA SourceFacts ==
  /\ \A n \in Num : <<"slot", n>> \in Sources /\ <<"none", n>> \in Sources
  /\ \A m, n : <<"slot", m>> # <<"none", n>>
  /\ \A m, n : <<"slot", m>> = <<"slot", n>> => m = n
  /\ \A m, n : <<"none", m>> = <<"none", n>> => m = n
BY DEF Sources

LEMMA CredFacts == /\ MaxCred \in Nat /\ 20 <= MaxCred /\ \A n \in Num : n \in Nat \ {0} /\ 10 + n \in Cred /\ n \in Cred
                   /\ 0 \in Cred /\ 1 \in Cred /\ 20 \in Cred
BY VaultAssumption DEF Cred

\* A record that is idle: nothing is asked of it.
LEMMA IdleWork ==
  ASSUME NEW st \in {"new", "idle", "dead"}, NEW k \in Nat
  PROVE  /\ At(st) \in Work /\ ~Busy(At(st))
         /\ [At(st) EXCEPT !.ops = k] \in Work /\ ~Busy([At(st) EXCEPT !.ops = k])
BY CredFacts DEF At, Work, Busy, VaultStates

LEMMA IdleOK ==
  ASSUME NEW isMac, NEW d, NEW k, NEW l, NEW m, NEW a, NEW r \in Work, ~Busy(r)
  PROVE  OpOK(isMac, d, k, l, m, a, r)
BY DEF OpOK, Busy, Writes, Deletes, Moves

LEMMA InitVault == VaultInit => VaultInv
<1> SUFFICES ASSUME VaultInit PROVE VaultInv
  OBVIOUS
<1>1. /\ mac \in BOOLEAN /\ mixed = FALSE /\ mail \in [Num -> Num]
      /\ disk = [k \in Kinds |-> 0] /\ kc = [k \in Kinds |-> IF mac /\ k = OAuth THEN 20 ELSE 0]
      /\ acked = [n \in Num |-> {0}] /\ proc = [p \in Proc |-> At("new")]
  BY VaultAssumption DEF VaultInit
<1>2. legacy \in [Sources -> Cred]
  <2>1. PICK have : legacy = [s \in Sources |-> IF s \in have THEN (IF s[1] = "none" THEN 10 ELSE 0) + s[2] ELSE 0]
    BY DEF VaultInit
  <2>2. \A s \in Sources : s[2] \in Num
    BY DEF Sources
  <2>3. \A s \in Sources : (IF s[1] = "none" THEN 10 ELSE 0) + s[2] \in Cred
    BY <2>2, CredFacts
  <2> QED
    BY <2>1, <2>3, CredFacts
<1>3. disk \in [Kinds -> Cred] /\ kc \in [Kinds -> Cred] /\ acked \in [Num -> SUBSET Cred]
      /\ (~mac => \A k \in Kinds : kc[k] = 0)
  BY <1>1, CredFacts
<1>4. proc \in [Proc -> Work] /\ \A p \in Proc : ~Busy(proc[p])
  BY <1>1, IdleWork
<1>5. VaultTypes
  BY <1>1, <1>2, <1>3, <1>4 DEF VaultTypes
<1>6. \A n \in Num : Given(disk, kc, n) \in acked[n]
  BY <1>1, KindFacts DEF Given
<1> QED
  BY <1>4, <1>5, <1>6, IdleOK DEF VaultInv, OneAtATime

\* One process acts, alone or while it is the one at work.
LEMMA OneActs ==
  ASSUME VaultInv, NEW p \in Proc, NEW r \in Work, Busy(r) => r.n \in Num, Now(p, r),
         mac' = mac, mail' = mail, disk' \in [Kinds -> Cred], kc' \in [Kinds -> Cred],
         ~mac => \A k \in Kinds : kc'[k] = 0,
         legacy' \in [Sources -> Cred], acked' \in [Num -> SUBSET Cred], mixed' \in BOOLEAN,
         ~mixed' => ~mixed /\ (Busy(proc[p]) \/ Alone(p)),
         ~mixed' => /\ OpOK(mac, disk', kc', legacy', mail, acked', r)
                    /\ \A n \in Num : Given(disk', kc', n) \in acked'[n]
  PROVE  VaultInv'
<1>0. VaultTypes /\ proc \in [Proc -> Work]
  BY DEF VaultInv, VaultTypes
<1>1. proc' \in [Proc -> Work] /\ proc'[p] = r /\ \A q \in Proc \ {p} : proc'[q] = proc[q]
  BY <1>0 DEF Now
<1>2. VaultTypes'
  <2>1. \A q \in Proc : Busy(proc'[q]) => proc'[q].n \in Num
    BY <1>0, <1>1 DEF VaultTypes
  <2> QED
    BY <1>0, <1>1, <2>1 DEF VaultTypes
<1>3. ASSUME ~mixed' PROVE OneAtATime'
  <2>1. \A q \in Proc \ {p} : ~Busy(proc[q])
    BY <1>3 DEF VaultInv, OneAtATime, Alone, Busy
  <2>2. \A q \in Proc \ {p} : ~Busy(proc'[q])
    BY <1>1, <2>1
  <2>3. \A q \in Proc : OpOK(mac', disk', kc', legacy', mail', acked', proc'[q])
    BY <1>1, <1>3, <2>2, IdleOK
  <2> QED
    BY <1>3, <2>2, <2>3 DEF OneAtATime
<1> QED
  BY <1>2, <1>3 DEF VaultInv

\* A process that is not at work changes nothing that the others count on.
LEMMA OneRests ==
  ASSUME VaultInv, NEW p \in Proc, NEW r \in Work, ~Busy(r), Now(p, r),
         mac' = mac, mail' = mail, disk' \in [Kinds -> Cred], kc' \in [Kinds -> Cred],
         ~mac => \A k \in Kinds : kc'[k] = 0,
         \A n \in Num : disk'[Backup(n)] = disk[Backup(n)] /\ kc'[Backup(n)] = kc[Backup(n)],
         legacy' = legacy, acked' = acked, mixed' = mixed
  PROVE  VaultInv'
<1>0. VaultTypes /\ proc \in [Proc -> Work]
  BY DEF VaultInv, VaultTypes
<1>1. proc' \in [Proc -> Work] /\ proc'[p] = r /\ \A q \in Proc \ {p} : proc'[q] = proc[q]
  BY <1>0 DEF Now
<1>2. VaultTypes'
  <2>1. \A q \in Proc : Busy(proc'[q]) => proc'[q].n \in Num
    BY <1>0, <1>1 DEF VaultTypes
  <2> QED
    BY <1>0, <1>1, <2>1 DEF VaultTypes
<1>3. ASSUME ~mixed' PROVE OneAtATime'
  <2>0. OneAtATime
    BY <1>3 DEF VaultInv
  <2>1. \A q, q1 \in Proc : Busy(proc'[q]) /\ Busy(proc'[q1]) => q = q1
    BY <1>1, <2>0 DEF OneAtATime
  <2>2. \A n \in Num : Given(disk', kc', n) \in acked'[n]
    BY <2>0 DEF OneAtATime, Given
  <2>3. ASSUME NEW q \in Proc PROVE OpOK(mac', disk', kc', legacy', mail', acked', proc'[q])
    <3>1. CASE ~Busy(proc'[q])
      BY <1>1, <3>1, IdleOK
    <3>2. CASE Busy(proc'[q])
      <4>1. proc'[q] = proc[q] /\ proc[q].n \in Num /\ proc[q].todo \subseteq Num
        BY <1>0, <1>1, <3>2 DEF VaultTypes, Work
      <4>2. OpOK(mac, disk, kc, legacy, mail, acked, proc[q])
        BY <2>0 DEF OneAtATime
      <4> QED
        BY <4>1, <4>2 DEF OpOK
    <3> QED
      BY <3>1, <3>2
  <2> QED
    BY <2>1, <2>2, <2>3 DEF OneAtATime
<1> QED
  BY <1>2, <1>3 DEF VaultInv

\* Nothing of this is touched.
LEMMA NoneActs ==
  ASSUME VaultInv, UNCHANGED <<mac, disk, kc, legacy, mail, acked, mixed, proc>>
  PROVE  VaultInv'
BY DEF VaultInv, VaultTypes, OneAtATime

LEMMA LeastPending ==
  ASSUME NEW todo \in SUBSET Num, todo # {}
  PROVE  (CHOOSE n \in todo : \A k \in todo : n <= k) \in todo
<1>1. todo \subseteq Nat
  BY VaultAssumption
<1> DEFINE R == OpToRel(<, Nat)
<1>2. \E x \in todo : \A y \in todo : ~(<<y, x>> \in R)
  BY <1>1, WFMin, NatLessThanWellFounded
<1>3. ASSUME NEW x \in Nat, NEW y \in Nat, y < x PROVE <<y, x>> \in R
  BY <1>3 DEF OpToRel
<1> HIDE DEF R
<1>4. PICK x \in todo : \A y \in todo : ~(<<y, x>> \in R)
  BY <1>2
<1>5. ASSUME NEW y \in todo PROVE x <= y
  <2>1. x \in Nat /\ y \in Nat
    BY <1>1
  <2>2. ~(y < x)
    BY <1>3, <1>4, <2>1
  <2> QED
    BY <2>1, <2>2
<1> QED
  BY <1>5

\* After a slot the migration goes to another one, or the process is idle.
LEMMA PendingNext ==
  ASSUME NEW p, NEW todo \in SUBSET Num, NEW failed \in BOOLEAN, NextPending(p, todo, failed)
  PROVE  \E r \in Work : /\ Now(p, r)
                         /\ \/ ~Busy(r)
                            \/ r.st = "legacy" /\ r.todo = todo /\ r.n \in todo /\ r.n \in Num
<1>1. CASE todo = {}
  <2>1. Now(p, At("idle"))
    BY <1>1 DEF NextPending
  <2> QED
    BY <2>1, IdleWork
<1>2. CASE todo # {}
  <2> DEFINE m == CHOOSE n \in todo : \A k \in todo : n <= k
             r == [At("legacy") EXCEPT !.n = m, !.todo = todo, !.failed = failed]
  <2>1. Now(p, r)
    BY <1>2 DEF NextPending
  <2>2. m \in todo /\ m \in Num
    BY <1>2, LeastPending
  <2> HIDE DEF m
  <2>3. r \in Work /\ r.st = "legacy" /\ r.todo = todo /\ r.n = m
    BY <2>2, CredFacts DEF At, Work, VaultStates
  <2> QED
    BY <2>1, <2>2, <2>3
<1> QED
  BY <1>1, <1>2

\* The end of an operation, with what it promises if anything.
LEMMA OpEnds ==
  ASSUME VaultInv, NEW p \in Proc, NEW result \in SUBSET Cred, EndOp(p, result), Busy(proc[p]),
         mac' = mac, mail' = mail, disk' \in [Kinds -> Cred], kc' \in [Kinds -> Cred],
         ~mac => \A k \in Kinds : kc'[k] = 0, legacy' = legacy,
         ~mixed => \A n \in Num \ {proc[p].n} : Given(disk', kc', n) \in acked[n],
         ~mixed => Given(disk', kc', proc[p].n) \in (IF result = {} THEN acked[proc[p].n] ELSE result)
  PROVE  VaultInv'
<1>0. VaultTypes /\ proc[p] \in Work /\ proc[p].n \in Num /\ proc[p].ops \in Nat
  BY DEF VaultInv, VaultTypes, Work
<1> DEFINE r == [At("idle") EXCEPT !.ops = proc[p].ops]
<1>1. Now(p, r) /\ mixed' = mixed
      /\ acked' = IF result = {} THEN acked ELSE [acked EXCEPT ![proc[p].n] = result]
  BY DEF EndOp
<1>2. r \in Work /\ ~Busy(r)
  BY <1>0, IdleWork
<1> HIDE DEF r
<1>3. acked \in [Num -> SUBSET Cred] /\ legacy \in [Sources -> Cred] /\ mixed \in BOOLEAN
  BY <1>0 DEF VaultTypes
<1>4. acked' \in [Num -> SUBSET Cred]
  BY <1>1, <1>3
<1>5. ~mixed => \A n \in Num : Given(disk', kc', n) \in acked'[n]
  BY <1>0, <1>1, <1>3
<1> QED
  BY <1>1, <1>2, <1>3, <1>4, <1>5, OneActs, IdleOK

LEMMA FreshFacts == Fresh <= MaxCred => Fresh \in Cred \ {0}
<1>1. CASE \A c \in 21 .. MaxCred : InUse(c)
  BY <1>1, CredFacts DEF Fresh
<1>2. CASE ~ \A c \in 21 .. MaxCred : InUse(c)
  <2>1. Fresh \in 21 .. MaxCred
    BY <1>2 DEF Fresh
  <2> QED
    BY <2>1, CredFacts DEF Cred
<1> QED
  BY <1>1, <1>2

LEMMA BeginWriteOK ==
  ASSUME VaultInv, NEW p \in Proc, NEW n \in Num, BeginWrite(p, n) PROVE VaultInv'
<1>0. VaultTypes /\ proc[p] \in Work /\ proc[p].ops \in Nat
  BY DEF VaultInv, VaultTypes, Work
<1> DEFINE k == proc[p].ops + 1
           r == [At("retain") EXCEPT !.n = n, !.cred = Fresh, !.ops = k]
<1>1. /\ Fresh \in Cred \ {0} /\ Now(p, r) /\ mixed' = (mixed \/ ~Alone(p))
      /\ acked' = [acked EXCEPT ![n] = @ \cup {Fresh}]
      /\ UNCHANGED <<mac, disk, kc, legacy, mail>>
  BY FreshFacts DEF BeginWrite, BeginOp, stores
<1>2. r \in Work /\ r.n = n /\ r.st = "retain" /\ r.cred = Fresh
  <2>1. k \in Nat /\ Fresh \in Cred
    BY <1>0, <1>1
  <2> HIDE DEF k
  <2> QED
    BY <2>1, CredFacts DEF At, Work, VaultStates
<1> HIDE DEF r
<1>3. /\ acked \in [Num -> SUBSET Cred] /\ legacy \in [Sources -> Cred] /\ mixed \in BOOLEAN
      /\ disk \in [Kinds -> Cred] /\ kc \in [Kinds -> Cred] /\ (~mac => \A j \in Kinds : kc[j] = 0)
  BY <1>0 DEF VaultTypes
<1>4. acked' \in [Num -> SUBSET Cred] /\ mixed' \in BOOLEAN
  BY <1>1, <1>3
<1>5. ASSUME ~mixed' PROVE /\ OpOK(mac, disk', kc', legacy', mail, acked', r)
                           /\ \A m \in Num : Given(disk', kc', m) \in acked'[m]
  <2>1. OneAtATime
    BY <1>1, <1>5 DEF VaultInv
  <2>2. \A m \in Num : Given(disk, kc, m) \in acked[m]
    BY <2>1 DEF OneAtATime
  <2>3. \A m \in Num : Given(disk', kc', m) \in acked'[m]
    BY <1>1, <1>3, <2>2
  <2>4. Fresh \in acked'[n] /\ Fresh # 0
    BY <1>1, <1>3
  <2> QED
    BY <1>2, <2>3, <2>4 DEF OpOK, Writes, Deletes, Moves
<1> QED
  BY <1>1, <1>2, <1>3, <1>4, <1>5, OneActs

LEMMA BeginDeleteOK ==
  ASSUME VaultInv, NEW p \in Proc, NEW n \in Num, NEW strict \in BOOLEAN, BeginDelete(p, n, strict)
  PROVE  VaultInv'
<1>0. VaultTypes /\ proc[p] \in Work /\ proc[p].ops \in Nat
  BY DEF VaultInv, VaultTypes, Work
<1> DEFINE c == IF strict THEN 1 ELSE 0
           k == proc[p].ops + 1
           r == [At("unlink") EXCEPT !.n = n, !.cred = c, !.ops = k]
<1>1. /\ Now(p, r) /\ mixed' = (mixed \/ ~Alone(p))
      /\ acked' = [acked EXCEPT ![n] = Cred]
      /\ UNCHANGED <<mac, disk, kc, legacy, mail>>
  BY DEF BeginDelete, BeginOp, stores, Cred
<1>2. r \in Work /\ r.n = n /\ r.st = "unlink"
  <2>1. k \in Nat /\ c \in Cred
    BY <1>0, CredFacts
  <2> HIDE DEF k, c
  <2> QED
    BY <2>1, CredFacts DEF At, Work, VaultStates
<1> HIDE DEF r
<1>3. /\ acked \in [Num -> SUBSET Cred] /\ legacy \in [Sources -> Cred] /\ mixed \in BOOLEAN
      /\ disk \in [Kinds -> Cred] /\ kc \in [Kinds -> Cred] /\ (~mac => \A j \in Kinds : kc[j] = 0)
  BY <1>0 DEF VaultTypes
<1>4. acked' \in [Num -> SUBSET Cred] /\ mixed' \in BOOLEAN
  BY <1>1, <1>3
<1>5. ASSUME ~mixed' PROVE /\ OpOK(mac, disk', kc', legacy', mail, acked', r)
                           /\ \A m \in Num : Given(disk', kc', m) \in acked'[m]
  <2>1. OneAtATime
    BY <1>1, <1>5 DEF VaultInv
  <2>2. \A m \in Num : Given(disk, kc, m) \in acked[m] /\ Given(disk, kc, m) \in Cred
    BY <1>3, <2>1, KindFacts DEF OneAtATime, Given
  <2>3. \A m \in Num : Given(disk', kc', m) \in acked'[m]
    BY <1>1, <1>3, <2>2
  <2>4. acked'[n] = Cred
    BY <1>1, <1>3
  <2> QED
    BY <1>2, <2>3, <2>4 DEF OpOK, Writes, Deletes, Moves
<1> QED
  BY <1>1, <1>2, <1>3, <1>4, <1>5, OneActs

\* What is known when the process p is at work.
LEMMA AtWork ==
  ASSUME VaultInv, NEW p \in Proc, Busy(proc[p])
  PROVE  /\ proc[p] \in Work /\ proc[p].n \in Num /\ proc[p].cred \in Cred
         /\ proc[p].todo \in SUBSET Num /\ proc[p].failed \in BOOLEAN
         /\ mac \in BOOLEAN /\ mixed \in BOOLEAN
         /\ disk \in [Kinds -> Cred] /\ kc \in [Kinds -> Cred]
         /\ ~mac => \A k \in Kinds : kc[k] = 0
         /\ legacy \in [Sources -> Cred] /\ mail \in [Num -> Num] /\ acked \in [Num -> SUBSET Cred]
         /\ ~mixed => /\ OpOK(mac, disk, kc, legacy, mail, acked, proc[p])
                      /\ \A n \in Num : Given(disk, kc, n) \in acked[n]
BY DEF VaultInv, VaultTypes, OneAtATime, Work

LEMMA RetainOK == ASSUME VaultInv, NEW p \in Proc, RetainPreviousBackup(p) PROVE VaultInv'
<1> DEFINE n == proc[p].n
           r == [proc[p] EXCEPT !.st = "put"]
<1>0. proc[p].st = "retain" /\ Busy(proc[p])
  BY DEF RetainPreviousBackup, Busy
<1>1. /\ Now(p, r) /\ UNCHANGED <<mac, mail, legacy, acked, mixed>>
      /\ kc' \in {kc, [kc EXCEPT ![Prev(n)] = ReadBackup(n)]}
      /\ disk' \in {disk, [disk EXCEPT ![Prev(n)] = ReadBackup(n)]}
      /\ ~mac => kc' = kc
  BY DEF RetainPreviousBackup, ghosts
<1>2. r \in Work /\ r.n = n /\ r.st = "put" /\ r.cred = proc[p].cred
  <2>1. proc[p] \in Work
    BY <1>0, AtWork
  <2> QED
    BY <2>1 DEF Work, VaultStates
<1> HIDE DEF r
<1>3. n \in Num
  BY <1>0, AtWork
<1>4. ReadBackup(n) \in Cred
  BY <1>0, <1>3, AtWork, KindFacts, CredFacts DEF ReadBackup, Served
<1>5. /\ disk' \in [Kinds -> Cred] /\ kc' \in [Kinds -> Cred] /\ (~mac => \A k \in Kinds : kc'[k] = 0)
      /\ \A m \in Num : disk'[Backup(m)] = disk[Backup(m)] /\ kc'[Backup(m)] = kc[Backup(m)]
  BY <1>0, <1>1, <1>3, <1>4, AtWork, KindFacts
<1>6. ASSUME ~mixed PROVE /\ OpOK(mac, disk', kc', legacy', mail, acked', r)
                          /\ \A m \in Num : Given(disk', kc', m) \in acked'[m]
  <2>1. OpOK(mac, disk, kc, legacy, mail, acked, proc[p]) /\ \A m \in Num : Given(disk, kc, m) \in acked[m]
    BY <1>0, <1>6, AtWork
  <2>2. \A m \in Num : Given(disk', kc', m) \in acked'[m]
    BY <1>1, <1>5, <2>1 DEF Given
  <2> QED
    BY <1>0, <1>1, <1>2, <2>1, <2>2 DEF OpOK, Writes, Deletes, Moves
<1> QED
  BY <1>0, <1>1, <1>2, <1>3, <1>5, <1>6, AtWork, OneActs

LEMMA PutInKeychainOK == ASSUME VaultInv, NEW p \in Proc, PutInKeychain(p) PROVE VaultInv'
<1> DEFINE n == proc[p].n
           b == Backup(n)
           st == IF locked THEN "file" ELSE "reconcile"
           r == [proc[p] EXCEPT !.st = st]
<1>0. proc[p].st = "put" /\ Busy(proc[p]) /\ mac
  BY DEF PutInKeychain, UseKeychain, Busy
<1>1. /\ Now(p, r) /\ UNCHANGED <<mac, disk, mail, legacy, acked, mixed>>
      /\ kc' = IF locked THEN kc ELSE [kc EXCEPT ![b] = proc[p].cred]
  BY DEF PutInKeychain, ghosts
<1>2. r \in Work /\ r.n = n /\ r.st = st /\ r.cred = proc[p].cred
  <2>1. proc[p] \in Work
    BY <1>0, AtWork
  <2> QED
    BY <2>1 DEF Work, VaultStates
<1> HIDE DEF r
<1>3. n \in Num /\ b \in Kinds /\ \A m \in Num : Backup(m) = b => m = n
  BY <1>0, AtWork, KindFacts
<1>4. kc' \in [Kinds -> Cred] /\ (~locked => kc'[b] = proc[p].cred)
      /\ \A m \in Num \ {n} : kc'[Backup(m)] = kc[Backup(m)]
  BY <1>0, <1>1, <1>3, AtWork, KindFacts
<1>6. ASSUME ~mixed PROVE /\ OpOK(mac, disk', kc', legacy', mail, acked', r)
                          /\ \A m \in Num : Given(disk', kc', m) \in acked'[m]
  <2>1. OpOK(mac, disk, kc, legacy, mail, acked, proc[p]) /\ \A m \in Num : Given(disk, kc, m) \in acked[m]
    BY <1>0, <1>6, AtWork
  <2>2. proc[p].cred # 0 /\ proc[p].cred \in acked[n]
    BY <1>0, <2>1 DEF OpOK, Writes
  <2>3. \A m \in Num : Given(disk', kc', m) \in acked'[m]
    BY <1>1, <1>3, <1>4, <2>1, <2>2 DEF Given
  <2>4. st = "reconcile" => kc'[b] = proc[p].cred
    BY <1>4
  <2> QED
    BY <1>0, <1>1, <1>2, <2>2, <2>3, <2>4 DEF OpOK, Writes, Deletes, Moves
<1> QED
  BY <1>0, <1>1, <1>2, <1>3, <1>4, <1>6, AtWork, OneActs

LEMMA PutInFileOK == ASSUME VaultInv, NEW p \in Proc, PutInFile(p) PROVE VaultInv'
<1> DEFINE n == proc[p].n
           b == Backup(n)
           r == [proc[p] EXCEPT !.st = "sweep"]
<1>0. proc[p].st \in {"put", "file"} /\ Busy(proc[p])
  BY DEF PutInFile, Busy
<1>1. UNCHANGED <<mac, kc, mail, legacy>>
  BY DEF PutInFile
<1>8. \/ /\ disk' = [disk EXCEPT ![b] = proc[p].cred]
         /\ (mac /\ Now(p, r) /\ UNCHANGED <<flock, ghosts>>) \/ EndOp(p, {proc[p].cred})
      \/ EndOp(p, {}) /\ disk' = disk
  BY DEF PutInFile
<1>2. r \in Work /\ r.n = n /\ r.st = "sweep" /\ r.cred = proc[p].cred
  <2>1. proc[p] \in Work
    BY <1>0, AtWork
  <2> QED
    BY <2>1 DEF Work, VaultStates
<1> HIDE DEF r
<1>3. n \in Num /\ b \in Kinds /\ \A m \in Num : Backup(m) = b => m = n
  BY <1>0, AtWork, KindFacts
<1>4. ASSUME ~mixed
      PROVE  /\ OpOK(mac, disk, kc, legacy, mail, acked, proc[p])
             /\ \A m \in Num : Given(disk, kc, m) \in acked[m]
             /\ proc[p].cred # 0 /\ proc[p].cred \in acked[n]
  BY <1>0, <1>4, AtWork DEF OpOK, Writes
<1>5. CASE disk' = [disk EXCEPT ![b] = proc[p].cred] /\ mac /\ Now(p, r) /\ UNCHANGED <<flock, ghosts>>
  <2>1. /\ disk' \in [Kinds -> Cred] /\ disk'[b] = proc[p].cred
        /\ \A m \in Num \ {n} : disk'[Backup(m)] = disk[Backup(m)]
    BY <1>0, <1>3, <1>5, AtWork, KindFacts
  <2>2. acked' = acked /\ mixed' = mixed
    BY <1>5 DEF ghosts
  <2>3. ASSUME ~mixed PROVE /\ OpOK(mac, disk', kc', legacy', mail, acked', r)
                            /\ \A m \in Num : Given(disk', kc', m) \in acked'[m]
    <3>1. \A m \in Num : Given(disk', kc', m) \in acked'[m]
      BY <1>1, <1>3, <1>4, <2>1, <2>2, <2>3 DEF Given
    <3> QED
      BY <1>0, <1>1, <1>2, <1>4, <2>1, <2>2, <2>3, <3>1 DEF OpOK, Writes, Deletes, Moves
  <2> QED
    BY <1>0, <1>1, <1>2, <1>3, <1>5, <2>1, <2>2, <2>3, AtWork, OneActs
<1>6. CASE disk' = [disk EXCEPT ![b] = proc[p].cred] /\ EndOp(p, {proc[p].cred})
  <2>1. /\ disk' \in [Kinds -> Cred] /\ disk'[b] = proc[p].cred
        /\ \A m \in Num \ {n} : disk'[Backup(m)] = disk[Backup(m)]
    BY <1>0, <1>3, <1>6, AtWork, KindFacts
  <2>2. ~mixed => \A m \in Num \ {n} : Given(disk', kc', m) \in acked[m]
    BY <1>1, <1>4, <2>1 DEF Given
  <2>3. ~mixed => Given(disk', kc', n) = proc[p].cred
    BY <1>4, <2>1 DEF Given
  <2>4. {proc[p].cred} \in SUBSET Cred /\ {proc[p].cred} # {}
    BY <1>0, AtWork
  <2> QED
    BY <1>0, <1>1, <1>6, <2>1, <2>2, <2>3, <2>4, AtWork, OpEnds
<1>7. CASE EndOp(p, {}) /\ disk' = disk
  BY <1>0, <1>1, <1>3, <1>4, <1>7, AtWork, OpEnds
<1> QED
  BY <1>5, <1>6, <1>7, <1>8

LEMMA SweepOK == ASSUME VaultInv, NEW p \in Proc, SweepKeychain(p) PROVE VaultInv'
<1> DEFINE n == proc[p].n
           b == Backup(n)
<1>0. proc[p].st = "sweep" /\ Busy(proc[p])
  BY DEF SweepKeychain, Busy
<1>1. /\ UNCHANGED <<mac, disk, mail, legacy>> /\ EndOp(p, {proc[p].cred})
      /\ kc' = IF locked THEN kc ELSE [kc EXCEPT ![b] = 0]
  BY DEF SweepKeychain
<1>2. n \in Num /\ b \in Kinds
  BY <1>0, AtWork, KindFacts
<1>3. /\ kc' \in [Kinds -> Cred] /\ \A m \in Num \ {n} : kc'[Backup(m)] = kc[Backup(m)]
      /\ ~mac => \A k \in Kinds : kc'[k] = 0
  BY <1>0, <1>1, <1>2, AtWork, KindFacts, CredFacts
<1>4. ASSUME ~mixed
      PROVE  /\ Given(disk', kc', n) = proc[p].cred
             /\ \A m \in Num \ {n} : Given(disk', kc', m) \in acked[m]
  <2>1. /\ OpOK(mac, disk, kc, legacy, mail, acked, proc[p])
        /\ \A m \in Num : Given(disk, kc, m) \in acked[m]
    BY <1>0, <1>4, AtWork
  <2>2. disk[b] = proc[p].cred /\ proc[p].cred # 0
    BY <1>0, <2>1 DEF OpOK, Writes
  <2> QED
    BY <1>1, <1>3, <2>1, <2>2 DEF Given
<1>5. {proc[p].cred} \in SUBSET Cred /\ {proc[p].cred} # {}
  BY <1>0, AtWork
<1> QED
  BY <1>0, <1>1, <1>3, <1>4, <1>5, AtWork, OpEnds

LEMMA ReconcileOK == ASSUME VaultInv, NEW p \in Proc, Reconcile(p) PROVE VaultInv'
<1> DEFINE n == proc[p].n
           b == Backup(n)
<1>0. proc[p].st = "reconcile" /\ Busy(proc[p])
  BY DEF Reconcile, Busy
<1>1. /\ UNCHANGED <<mac, kc, mail, legacy>>
      /\ \/ disk' = [disk EXCEPT ![b] = 0] /\ EndOp(p, {proc[p].cred})
         \/ disk' = [disk EXCEPT ![b] = proc[p].cred] /\ EndOp(p, {proc[p].cred})
         \/ disk' = disk /\ EndOp(p, {})
  BY DEF Reconcile
<1>2. n \in Num /\ b \in Kinds
  BY <1>0, AtWork, KindFacts
<1>3. /\ disk' \in [Kinds -> Cred] /\ \A m \in Num \ {n} : disk'[Backup(m)] = disk[Backup(m)]
  BY <1>0, <1>1, <1>2, AtWork, KindFacts, CredFacts
<1>4. ASSUME ~mixed
      PROVE  /\ OpOK(mac, disk, kc, legacy, mail, acked, proc[p])
             /\ \A m \in Num : Given(disk, kc, m) \in acked[m]
             /\ kc[b] = proc[p].cred /\ proc[p].cred # 0
  BY <1>0, <1>4, AtWork DEF OpOK, Writes
<1>5. ~mixed => \A m \in Num \ {n} : Given(disk', kc', m) \in acked[m]
  BY <1>1, <1>3, <1>4 DEF Given
<1>6. {proc[p].cred} \in SUBSET Cred /\ {proc[p].cred} # {}
  BY <1>0, AtWork
<1>7. CASE disk' = [disk EXCEPT ![b] = 0] /\ EndOp(p, {proc[p].cred})
  <2>1. disk'[b] = 0
    BY <1>0, <1>2, <1>7, AtWork
  <2>2. ~mixed => Given(disk', kc', n) = proc[p].cred
    BY <1>1, <1>4, <2>1 DEF Given
  <2> QED
    BY <1>0, <1>1, <1>3, <1>5, <1>6, <1>7, <2>2, AtWork, OpEnds
<1>8. CASE disk' = [disk EXCEPT ![b] = proc[p].cred] /\ EndOp(p, {proc[p].cred})
  <2>1. disk'[b] = proc[p].cred
    BY <1>0, <1>2, <1>8, AtWork
  <2>2. ~mixed => Given(disk', kc', n) = proc[p].cred
    BY <1>4, <2>1 DEF Given
  <2> QED
    BY <1>0, <1>1, <1>3, <1>5, <1>6, <1>8, <2>2, AtWork, OpEnds
<1>9. CASE disk' = disk /\ EndOp(p, {})
  BY <1>0, <1>1, <1>2, <1>4, <1>9, AtWork, OpEnds
<1> QED
  BY <1>1, <1>7, <1>8, <1>9

\* A step of a delete: nothing is promised of its slot.
LEMMA DeleteKeeps ==
  ASSUME VaultInv, NEW p \in Proc, proc[p].st \in Deletes, NEW d, NEW k,
         d \in [Kinds -> Cred], k \in [Kinds -> Cred],
         \A m \in Num \ {proc[p].n} : d[Backup(m)] = disk[Backup(m)] /\ k[Backup(m)] = kc[Backup(m)],
         ~mixed
  PROVE  acked[proc[p].n] = Cred /\ \A m \in Num : Given(d, k, m) \in acked[m]
<1>0. Busy(proc[p])
  BY DEF Busy, Deletes
<1>1. /\ OpOK(mac, disk, kc, legacy, mail, acked, proc[p])
      /\ \A m \in Num : Given(disk, kc, m) \in acked[m]
  BY <1>0, AtWork
<1>2. acked[proc[p].n] = Cred
  BY <1>1 DEF OpOK
<1>3. proc[p].n \in Num /\ Given(d, k, proc[p].n) \in Cred
  BY <1>0, AtWork, KindFacts DEF Given
<1> QED
  BY <1>1, <1>2, <1>3 DEF Given

LEMMA DeleteEncOK == ASSUME VaultInv, NEW p \in Proc, DeleteEnc(p) PROVE VaultInv'
<1> DEFINE n == proc[p].n
           r == [proc[p] EXCEPT !.st = "drop"]
<1>0. proc[p].st = "unlink" /\ Busy(proc[p]) /\ proc[p].st \in Deletes
  BY DEF DeleteEnc, Busy, Deletes
<1>1. /\ Now(p, r) /\ UNCHANGED <<mac, kc, mail, legacy, acked, mixed>>
      /\ disk' \in {disk, [disk EXCEPT ![Backup(n)] = 0, ![Prev(n)] = 0]}
  BY DEF DeleteEnc, ghosts
<1>2. r \in Work /\ r.n = n /\ r.st = "drop"
  <2>1. proc[p] \in Work
    BY <1>0, AtWork
  <2> QED
    BY <2>1 DEF Work, VaultStates
<1> HIDE DEF r
<1>3. n \in Num
  BY <1>0, AtWork
<1>4. disk' \in [Kinds -> Cred] /\ \A m \in Num \ {n} : disk'[Backup(m)] = disk[Backup(m)]
  BY <1>0, <1>1, <1>3, AtWork, KindFacts, CredFacts
<1>5. ASSUME ~mixed PROVE /\ OpOK(mac, disk', kc', legacy', mail, acked', r)
                          /\ \A m \in Num : Given(disk', kc', m) \in acked'[m]
  <2>1. acked[n] = Cred /\ \A m \in Num : Given(disk', kc', m) \in acked[m]
    BY <1>0, <1>1, <1>4, <1>5, AtWork, DeleteKeeps
  <2> QED
    BY <1>1, <1>2, <2>1 DEF OpOK, Writes, Deletes, Moves
<1> QED
  BY <1>0, <1>1, <1>2, <1>3, <1>4, <1>5, AtWork, OneActs

LEMMA DropItemOK == ASSUME VaultInv, NEW p \in Proc, DropItem(p) PROVE VaultInv'
<1> DEFINE n == proc[p].n
           r == [proc[p] EXCEPT !.st = "strict"]
<1>0. proc[p].st = "drop" /\ Busy(proc[p]) /\ proc[p].st \in Deletes
  BY DEF DropItem, Busy, Deletes
<1>1. /\ UNCHANGED <<mac, disk, mail, legacy>>
      /\ kc' \in {kc, [kc EXCEPT ![Backup(n)] = 0, ![Prev(n)] = 0]}
      /\ EndOp(p, {}) \/ (Now(p, r) /\ acked' = acked /\ mixed' = mixed)
  BY DEF DropItem, ghosts
<1>2. r \in Work /\ r.n = n /\ r.st = "strict"
  <2>1. proc[p] \in Work
    BY <1>0, AtWork
  <2> QED
    BY <2>1 DEF Work, VaultStates
<1> HIDE DEF r
<1>3. n \in Num
  BY <1>0, AtWork
<1>4. /\ kc' \in [Kinds -> Cred] /\ \A m \in Num \ {n} : kc'[Backup(m)] = kc[Backup(m)]
      /\ ~mac => \A k \in Kinds : kc'[k] = 0
  BY <1>0, <1>1, <1>3, AtWork, KindFacts, CredFacts
<1>5. ~mixed => acked[n] = Cred /\ \A m \in Num : Given(disk', kc', m) \in acked[m]
  BY <1>0, <1>1, <1>4, AtWork, DeleteKeeps
<1>6. CASE EndOp(p, {})
  BY <1>0, <1>1, <1>3, <1>4, <1>5, <1>6, AtWork, OpEnds
<1>7. CASE Now(p, r) /\ acked' = acked /\ mixed' = mixed
  <2>1. ~mixed => OpOK(mac, disk', kc', legacy', mail, acked', r)
    BY <1>2, <1>5, <1>7 DEF OpOK, Writes, Deletes, Moves
  <2> QED
    BY <1>0, <1>1, <1>2, <1>3, <1>4, <1>5, <1>7, <2>1, AtWork, OneActs
<1> QED
  BY <1>1, <1>6, <1>7

LEMMA DeleteStrictOK == ASSUME VaultInv, NEW p \in Proc, DeleteStrict(p) PROVE VaultInv'
<1> DEFINE n == proc[p].n
           b == Backup(n)
<1>0. proc[p].st = "strict" /\ Busy(proc[p]) /\ proc[p].st \in Deletes
  BY DEF DeleteStrict, Busy, Deletes
<1>1. /\ UNCHANGED <<mac, mail, legacy>>
      /\ \/ /\ disk' = [disk EXCEPT ![b] = 0]
            /\ kc' = IF mac /\ ~locked THEN [kc EXCEPT ![b] = 0] ELSE kc
            /\ EndOp(p, IF mac /\ locked THEN {} ELSE {0})
         \/ EndOp(p, {}) /\ disk' = disk /\ kc' = kc
  BY DEF DeleteStrict
<1>2. n \in Num /\ b \in Kinds
  BY <1>0, AtWork, KindFacts
<1>3. /\ kc' \in [Kinds -> Cred] /\ disk' \in [Kinds -> Cred]
      /\ \A m \in Num \ {n} : disk'[Backup(m)] = disk[Backup(m)] /\ kc'[Backup(m)] = kc[Backup(m)]
      /\ ~mac => \A k \in Kinds : kc'[k] = 0
  BY <1>0, <1>1, <1>2, AtWork, KindFacts, CredFacts
<1>4. ~mixed => \A m \in Num : Given(disk', kc', m) \in acked[m]
  BY <1>0, <1>3, AtWork, DeleteKeeps
<1>5. CASE EndOp(p, {})
  BY <1>0, <1>1, <1>2, <1>3, <1>4, <1>5, AtWork, OpEnds
<1>6. CASE /\ disk' = [disk EXCEPT ![b] = 0] /\ EndOp(p, {0})
           /\ kc' = IF mac /\ ~locked THEN [kc EXCEPT ![b] = 0] ELSE kc
           /\ ~(mac /\ locked)
  <2>1. disk'[b] = 0 /\ kc'[b] = 0
    BY <1>0, <1>2, <1>6, AtWork
  <2>2. Given(disk', kc', n) = 0
    BY <2>1 DEF Given
  <2> QED
    BY <1>0, <1>1, <1>2, <1>3, <1>4, <1>6, <2>2, AtWork, OpEnds, CredFacts
<1> QED
  BY <1>1, <1>5, <1>6

LEMMA RunMigrationsOK == ASSUME VaultInv, NEW p \in Proc, RunMigrations(p) PROVE VaultInv'
<1>0. VaultTypes /\ proc[p].st = "new" /\ UNCHANGED <<mac, disk, kc, legacy, mail, acked>>
  BY DEF VaultInv, RunMigrations
<1>1. /\ disk \in [Kinds -> Cred] /\ kc \in [Kinds -> Cred] /\ (~mac => \A k \in Kinds : kc[k] = 0)
      /\ legacy \in [Sources -> Cred] /\ acked \in [Num -> SUBSET Cred] /\ mixed \in BOOLEAN
  BY <1>0 DEF VaultTypes
<1>2. CASE Now(p, At("idle")) /\ mixed' = mixed
  BY <1>0, <1>1, <1>2, IdleWork, OneRests, 0 \in Nat
<1>3. ASSUME NEW pending \in SUBSET Num, mac => \A n \in pending : kc[Backup(n)] = 0,
             NextPending(p, pending, FALSE), mixed' = (mixed \/ ~Alone(p))
      PROVE  VaultInv'
  <2>1. PICK r \in Work : /\ Now(p, r)
                          /\ \/ ~Busy(r)
                             \/ r.st = "legacy" /\ r.todo = pending /\ r.n \in pending /\ r.n \in Num
    BY <1>3, PendingNext
  <2>2. OpOK(mac, disk, kc, legacy, mail, acked, r)
    <3>1. CASE ~Busy(r)
      BY <3>1, IdleOK
    <3>2. CASE r.st = "legacy" /\ r.todo = pending /\ r.n \in pending
      BY <1>3, <3>2 DEF OpOK, Writes, Deletes, Moves
    <3> QED
      BY <2>1, <3>1, <3>2
  <2>3. mixed' \in BOOLEAN
    BY <1>3, <1>1
  <2>4. ~mixed' => \A n \in Num : Given(disk, kc, n) \in acked[n]
    BY <1>3 DEF VaultInv, OneAtATime
  <2> QED
    BY <1>0, <1>1, <1>3, <2>1, <2>2, <2>3, <2>4, OneActs
<1> DEFINE pending == IF mac THEN {n \in Num : kc[Backup(n)] = 0} ELSE Num
<1>4. \/ Now(p, At("idle")) /\ mixed' = mixed
      \/ NextPending(p, pending, FALSE) /\ mixed' = (mixed \/ ~Alone(p))
  BY DEF RunMigrations
<1>5. pending \in SUBSET Num /\ (mac => \A n \in pending : kc[Backup(n)] = 0)
  OBVIOUS
<1> HIDE DEF pending
<1> QED
  BY <1>2, <1>3, <1>4, <1>5

\* The migration goes on to its next slot, with what it knows of it.
LEMMA MovesOn ==
  ASSUME VaultInv, NEW p \in Proc, proc[p].st \in Moves \cup {"legacy"},
         NEW failed \in BOOLEAN, NextPending(p, Rest(p), failed),
         mac' = mac, mail' = mail, mixed' = mixed,
         disk' \in [Kinds -> Cred], kc' \in [Kinds -> Cred], ~mac => \A k \in Kinds : kc'[k] = 0,
         legacy' \in [Sources -> Cred], acked' \in [Num -> SUBSET Cred],
         \A m \in Num \ {proc[p].n} : kc'[Backup(m)] = kc[Backup(m)],
         ~mixed => \A n \in Num : Given(disk', kc', n) \in acked'[n]
  PROVE  VaultInv'
<1>0. Busy(proc[p])
  BY DEF Busy, Moves
<1>1. Rest(p) \in SUBSET Num
  BY <1>0, AtWork DEF Rest
<1>2. PICK r \in Work : /\ Now(p, r)
                        /\ \/ ~Busy(r)
                           \/ r.st = "legacy" /\ r.todo = Rest(p) /\ r.n \in Rest(p) /\ r.n \in Num
  BY <1>1, PendingNext
<1>3. ~mixed => OpOK(mac, disk', kc', legacy', mail, acked', r)
  <2>1. CASE ~Busy(r)
    BY <2>1, IdleOK
  <2>2. ASSUME r.st = "legacy", r.todo = Rest(p), r.n \in Rest(p), ~mixed
        PROVE  OpOK(mac, disk', kc', legacy', mail, acked', r)
    <3>1. mac => \A i \in proc[p].todo \ {proc[p].n} : kc[Backup(i)] = 0
      BY <1>0, <2>2, AtWork DEF OpOK
    <3>2. mac => \A i \in Rest(p) : kc'[Backup(i)] = 0
      BY <1>1, <3>1 DEF Rest
    <3> QED
      BY <2>2, <3>2 DEF OpOK, Writes, Deletes, Moves
  <2> QED
    BY <1>2, <2>1, <2>2
<1> QED
  BY <1>0, <1>2, <1>3, AtWork, OneActs

LEMMA ReadLegacyOK == ASSUME VaultInv, NEW p \in Proc, ReadLegacy(p) PROVE VaultInv'
<1> DEFINE n == proc[p].n
           from == Heir(legacy, mail, n)
           r == [proc[p] EXCEPT !.st = "relocate", !.cred = legacy[from], !.from = from]
<1>0. proc[p].st = "legacy" /\ Busy(proc[p]) /\ proc[p].st \in Moves \cup {"legacy"}
  BY DEF ReadLegacy, Busy
<1>1. /\ UNCHANGED <<mac, disk, kc, legacy, mail, acked, mixed>>
      /\ \/ \E failed \in {TRUE, proc[p].failed} : NextPending(p, Rest(p), failed)
         \/ legacy[from] # 0 /\ Now(p, r)
  BY DEF ReadLegacy, Heir, UniqueMail, ghosts
<1>2. CASE \E failed \in {TRUE, proc[p].failed} : NextPending(p, Rest(p), failed)
  <2>1. PICK failed \in BOOLEAN : NextPending(p, Rest(p), failed)
    BY <1>0, <1>2, AtWork
  <2> QED
    BY <1>0, <1>1, <2>1, AtWork, MovesOn
<1>3. CASE legacy[from] # 0 /\ Now(p, r)
  <2>1. n \in Num /\ mail[n] \in Num /\ proc[p] \in Work
    BY <1>0, AtWork
  <2>2. from \in Sources
    BY <2>1, SourceFacts DEF Heir
  <2>3. legacy[from] \in Cred
    BY <1>0, <2>2, AtWork
  <2> HIDE DEF from
  <2>4. /\ r \in Work /\ r.n = n /\ r.st = "relocate" /\ r.cred = legacy[from] /\ r.from = from
        /\ r.todo = proc[p].todo
    BY <2>1, <2>2, <2>3 DEF Work, VaultStates
  <2> HIDE DEF r
  <2>5. ASSUME ~mixed PROVE OpOK(mac, disk, kc, legacy, mail, acked, r)
    <3>1. OpOK(mac, disk, kc, legacy, mail, acked, proc[p])
      BY <1>0, <2>5, AtWork
    <3>2. /\ n \in proc[p].todo /\ (mac => \A i \in proc[p].todo \ {n} : kc[Backup(i)] = 0)
          /\ mac => kc[Backup(n)] = 0
      BY <1>0, <3>1 DEF OpOK
    <3>3. from = Heir(legacy, mail, n)
      BY DEF from
    <3> QED
      BY <1>3, <2>4, <3>2, <3>3 DEF OpOK, Writes, Deletes, Moves
  <2> QED
    BY <1>0, <1>1, <1>3, <2>1, <2>4, <2>5, AtWork, OneActs
<1> QED
  BY <1>1, <1>2, <1>3

LEMMA VerifyNewOK == ASSUME VaultInv, NEW p \in Proc, VerifyNew(p) PROVE VaultInv'
<1> DEFINE n == proc[p].n
           b == Backup(n)
           seen == IF mac THEN (IF locked THEN 0 ELSE kc[b]) ELSE Served(n)
           st == IF seen = proc[p].cred THEN "forget" ELSE "discard"
           r == [proc[p] EXCEPT !.st = st]
<1>0. proc[p].st = "verify" /\ Busy(proc[p])
  BY DEF VerifyNew, Busy
<1>1. UNCHANGED <<mac, disk, kc, legacy, mail, acked, mixed>> /\ Now(p, r)
  BY DEF VerifyNew, ghosts, stores
<1>2. st \in {"forget", "discard"}
  OBVIOUS
<1>3. seen \in {0, kc[b], disk[b]}
  BY DEF Served
<1>4. st = "forget" => seen = proc[p].cred
  OBVIOUS
<1> HIDE DEF st, seen
<1>5. r \in Work /\ r.n = n /\ r.st = st /\ r.cred = proc[p].cred /\ r.from = proc[p].from /\ r.todo = proc[p].todo
  <2>1. proc[p] \in Work
    BY <1>0, AtWork
  <2> QED
    BY <1>2, <2>1 DEF Work, VaultStates
<1> HIDE DEF r
<1>6. ASSUME ~mixed PROVE OpOK(mac, disk, kc, legacy, mail, acked, r)
  <2>1. OpOK(mac, disk, kc, legacy, mail, acked, proc[p])
    BY <1>0, <1>6, AtWork
  <2>2. /\ n \in proc[p].todo /\ (mac => \A i \in proc[p].todo \ {n} : kc[Backup(i)] = 0)
        /\ proc[p].from = Heir(legacy, mail, n) /\ proc[p].cred = legacy[proc[p].from] /\ proc[p].cred # 0
    BY <1>0, <2>1 DEF OpOK, Moves
  <2>3. st = "forget" => proc[p].cred \in {kc[b], disk[b]}
    BY <1>3, <1>4, <2>2
  <2> QED
    BY <1>2, <1>5, <2>2, <2>3 DEF OpOK, Writes, Deletes, Moves
<1> QED
  BY <1>0, <1>1, <1>5, <1>6, AtWork, OneActs

LEMMA WriteNewOK == ASSUME VaultInv, NEW p \in Proc, WriteNew(p) PROVE VaultInv'
<1> DEFINE n == proc[p].n
           c == proc[p].cred
           b == Backup(n)
           R(st) == [proc[p] EXCEPT !.st = st]
<1>0. proc[p].st = "relocate" /\ Busy(proc[p])
  BY DEF WriteNew, WriteNewThen, Busy
<1>1. /\ UNCHANGED <<mac, legacy, mail, mixed>>
      /\ \E st \in {"verify", "discard"} : Now(p, R(st))
      /\ acked' = IF mac /\ Served(n) # 0 THEN acked ELSE [acked EXCEPT ![n] = @ \cup {c}]
  BY DEF WriteNew, WriteNewThen
<1>2. \/ mac /\ disk' = disk /\ kc' \in {kc, [kc EXCEPT ![b] = c]}
      \/ /\ ~mac /\ kc' = kc
         /\ disk' \in {disk, [disk EXCEPT ![Prev(n)] = IF disk[b] \in {0, c} THEN @ ELSE disk[b],
                                          ![b] = c]}
  BY DEF WriteNew, WriteNewThen
<1>3. PICK st \in {"verify", "discard"} : Now(p, R(st))
  BY <1>1
<1> DEFINE r == R(st)
<1>4. /\ r \in Work /\ r.n = n /\ r.st = st /\ r.cred = c /\ r.from = proc[p].from
      /\ r.todo = proc[p].todo
  <2>1. proc[p] \in Work
    BY <1>0, AtWork
  <2> QED
    BY <2>1 DEF Work, VaultStates
<1>5. Now(p, r)
  BY <1>3
<1> HIDE DEF r
<1>6. n \in Num /\ b \in Kinds /\ c \in Cred
  BY <1>0, AtWork, KindFacts
<1>7. /\ disk' \in [Kinds -> Cred] /\ kc' \in [Kinds -> Cred] /\ (~mac => \A k \in Kinds : kc'[k] = 0)
      /\ acked' \in [Num -> SUBSET Cred]
  BY <1>0, <1>1, <1>2, <1>6, AtWork, KindFacts
<1>8. /\ \A m \in Num \ {n} : disk'[Backup(m)] = disk[Backup(m)] /\ kc'[Backup(m)] = kc[Backup(m)]
      /\ disk'[b] \in {disk[b], c} /\ kc'[b] \in {kc[b], c} /\ (mac => disk'[b] = disk[b])
      /\ ~mac => kc'[b] = kc[b]
  BY <1>0, <1>2, <1>6, AtWork, KindFacts
<1>9. ASSUME ~mixed PROVE /\ OpOK(mac, disk', kc', legacy', mail, acked', r)
                          /\ \A m \in Num : Given(disk', kc', m) \in acked'[m]
  <2>1. /\ OpOK(mac, disk, kc, legacy, mail, acked, proc[p])
        /\ \A m \in Num : Given(disk, kc, m) \in acked[m]
    BY <1>0, <1>9, AtWork
  <2>2. /\ n \in proc[p].todo /\ (mac => \A i \in proc[p].todo \ {n} : kc[Backup(i)] = 0)
        /\ mac => kc[b] = 0
        /\ proc[p].from = Heir(legacy, mail, n) /\ c = legacy[proc[p].from] /\ c # 0
    BY <1>0, <2>1 DEF OpOK, Moves
  <2>3. mac => \A i \in proc[p].todo \ {n} : kc'[Backup(i)] = 0
    BY <1>0, <1>8, <2>2, AtWork
  <2>4. OpOK(mac, disk', kc', legacy', mail, acked', r)
    BY <1>1, <1>4, <2>2, <2>3 DEF OpOK, Writes, Deletes, Moves
  <2>5. \A m \in Num \ {n} : acked'[m] = acked[m] /\ Given(disk', kc', m) \in acked'[m]
    BY <1>0, <1>1, <1>8, <2>1, AtWork DEF Given
  <2>6. Given(disk', kc', n) \in acked'[n]
    <3>1. CASE mac /\ Served(n) # 0
      <4>1. disk[b] # 0
        BY <2>2, <3>1 DEF Served
      <4> QED
        BY <1>1, <1>6, <1>8, <2>1, <3>1, <4>1 DEF Given
    <3>2. CASE ~(mac /\ Served(n) # 0)
      <4>1. acked'[n] = acked[n] \cup {c}
        BY <1>0, <1>1, <1>6, <3>2, AtWork
      <4>2. Given(disk', kc', n) \in {Given(disk, kc, n), c}
        BY <1>8, <2>2 DEF Given
      <4> QED
        BY <1>6, <2>1, <4>1, <4>2
    <3> QED
      BY <3>1, <3>2
  <2> QED
    BY <2>4, <2>5, <2>6
<1> QED
  BY <1>0, <1>1, <1>4, <1>5, <1>6, <1>7, <1>9, AtWork, OneActs

LEMMA DiscardNewOK == ASSUME VaultInv, NEW p \in Proc, DiscardNew(p) PROVE VaultInv'
<1> DEFINE n == proc[p].n
           b == Backup(n)
<1>0. proc[p].st = "discard" /\ Busy(proc[p]) /\ proc[p].st \in Moves \cup {"legacy"}
  BY DEF DiscardNew, Busy, Moves
<1>1. /\ UNCHANGED <<mac, legacy, mail, mixed>> /\ NextPending(p, Rest(p), TRUE)
      /\ acked' = [acked EXCEPT ![n] = @ \cup {0}]
      /\ kc' = IF mac /\ ~locked THEN [kc EXCEPT ![b] = 0] ELSE kc
      /\ disk' = IF mac THEN disk ELSE [disk EXCEPT ![b] = 0, ![Prev(n)] = 0]
  BY DEF DiscardNew
<1>2. n \in Num /\ b \in Kinds
  BY <1>0, AtWork, KindFacts
<1>3. /\ disk' \in [Kinds -> Cred] /\ kc' \in [Kinds -> Cred] /\ (~mac => \A k \in Kinds : kc'[k] = 0)
      /\ acked' \in [Num -> SUBSET Cred]
  BY <1>0, <1>1, <1>2, AtWork, KindFacts, CredFacts
<1>4. /\ \A m \in Num \ {n} : disk'[Backup(m)] = disk[Backup(m)] /\ kc'[Backup(m)] = kc[Backup(m)]
      /\ disk'[b] \in {disk[b], 0} /\ kc'[b] \in {kc[b], 0} /\ (mac => disk'[b] = disk[b])
      /\ ~mac => kc'[b] = 0
  BY <1>0, <1>1, <1>2, AtWork, KindFacts
<1>5. /\ \A m \in Num \ {n} : acked'[m] = acked[m]
      /\ acked'[n] = acked[n] \cup {0}
  BY <1>0, <1>1, <1>2, AtWork
<1>6. Given(disk', kc', n) \in {Given(disk, kc, n), 0}
  BY <1>4 DEF Given
<1>7. ASSUME ~mixed PROVE \A m \in Num : Given(disk', kc', m) \in acked'[m]
  <2>1. \A m \in Num : Given(disk, kc, m) \in acked[m]
    BY <1>0, <1>7, AtWork
  <2>2. \A m \in Num \ {n} : Given(disk', kc', m) \in acked'[m]
    BY <1>4, <1>5, <2>1 DEF Given
  <2> QED
    BY <1>2, <1>5, <1>6, <2>1, <2>2
<1>8. legacy' \in [Sources -> Cred]
  BY <1>0, <1>1, AtWork
<1> QED
  BY <1>0, <1>1, <1>3, <1>4, <1>7, <1>8, AtWork, MovesOn

LEMMA DeleteLegacyOK == ASSUME VaultInv, NEW p \in Proc, DeleteLegacy(p) PROVE VaultInv'
<1>0. proc[p].st = "forget" /\ Busy(proc[p]) /\ proc[p].st \in Moves \cup {"legacy"}
  BY DEF DeleteLegacy, Busy, Moves
<1>1. /\ UNCHANGED <<mac, disk, kc, mail, mixed, acked>> /\ NextPending(p, Rest(p), proc[p].failed)
      /\ \E gone : legacy' = [s \in Sources |-> IF s \in gone /\ ~(mac /\ locked) THEN 0 ELSE legacy[s]]
  BY DEF DeleteLegacy, ghosts
<1>2. legacy' \in [Sources -> Cred]
  BY <1>0, <1>1, AtWork, CredFacts
<1> QED
  BY <1>0, <1>1, <1>2, AtWork, MovesOn

LEMMA WriteActiveOK ==
  ASSUME VaultInv, NEW p \in Proc, NEW kind \in {OAuth, Key}, WriteActive(p, kind)
  PROVE  VaultInv'
<1> DEFINE other == IF kind = OAuth THEN Key ELSE OAuth
           r == [proc[p] EXCEPT !.ops = @ + 1]
<1>0. /\ VaultTypes /\ proc[p] \in Work /\ mac \in BOOLEAN
      /\ disk \in [Kinds -> Cred] /\ kc \in [Kinds -> Cred] /\ (~mac => \A k \in Kinds : kc[k] = 0)
  BY DEF VaultInv, VaultTypes
<1>1. /\ UNCHANGED <<mac, legacy, mail, mixed, acked>> /\ Now(p, r) /\ proc[p].st = "idle"
      /\ Fresh <= MaxCred
  BY DEF WriteActive
<1>2. r \in Work /\ ~Busy(r)
  <2>1. proc[p].ops + 1 \in Nat
    BY <1>0 DEF Work
  <2> QED
    BY <1>0, <1>1, <2>1 DEF Work, Busy
<1> HIDE DEF r
<1>3. /\ \E x \in {0, Fresh} : disk' = [disk EXCEPT ![other] = 0, ![kind] = x]
  BY DEF WriteActive
<1>4. /\ DOMAIN kc' = Kinds
      /\ \A k \in Kinds : kc'[k] \in {Fresh, 0, kc[k]}
      /\ \A k \in Kinds \ {OAuth, Key} : kc'[k] = kc[k]
      /\ \A k \in Kinds : ~mac => kc'[k] = kc[k]
  <2> DEFINE inKC == UseKeychain(p) /\ ~locked
             cleared == (IF inKC \/ kind = Key THEN {other} ELSE {kind, other})
  <2>1. kc' = [k \in Kinds |-> IF inKC /\ k = kind THEN Fresh
                               ELSE IF mac /\ ~locked /\ k \in cleared THEN 0 ELSE kc[k]]
    BY DEF WriteActive
  <2>2. cleared \subseteq {OAuth, Key} /\ (inKC => mac)
    BY DEF UseKeychain
  <2> HIDE DEF inKC, cleared
  <2> QED
    BY <2>1, <2>2
<1>5. Fresh \in Cred /\ 0 \in Cred /\ kind \in Kinds /\ other \in Kinds /\ other \in {OAuth, Key}
  BY <1>1, FreshFacts, CredFacts, KindFacts
<1> HIDE DEF other
<1>6. /\ disk' \in [Kinds -> Cred] /\ \A m \in Num : disk'[Backup(m)] = disk[Backup(m)]
  BY <1>0, <1>3, <1>5, KindFacts
<1>7. kc' \in [Kinds -> Cred]
  <2>1. kc' = [k \in Kinds |-> kc'[k]]
    BY <1>4 DEF WriteActive
  <2> QED
    BY <1>0, <1>4, <1>5, <2>1
<1>8. (~mac => \A k \in Kinds : kc'[k] = 0) /\ \A m \in Num : kc'[Backup(m)] = kc[Backup(m)]
  BY <1>0, <1>4, KindFacts
<1> QED
  BY <1>1, <1>2, <1>6, <1>7, <1>8, OneRests

LEMMA DiesOrRestartsOK ==
  ASSUME VaultInv, NEW p \in Proc, VaultDies(p) \/ Restart(p)
  PROVE  VaultInv'
<1>0. proc[p].ops \in Nat
  BY DEF VaultInv, VaultTypes, Work
<1>1. /\ Now(p, [At("dead") EXCEPT !.ops = proc[p].ops]) \/ Now(p, At("new"))
      /\ UNCHANGED <<mac, disk, kc, legacy, mail, acked, mixed>>
  BY DEF VaultDies, Restart, stores, ghosts
<1>2. PICK r \in Work : ~Busy(r) /\ Now(p, r)
  BY <1>0, <1>1, IdleWork
<1>3. disk \in [Kinds -> Cred] /\ kc \in [Kinds -> Cred] /\ (~mac => \A k \in Kinds : kc[k] = 0)
  BY DEF VaultInv, VaultTypes
<1> QED
  BY <1>1, <1>2, <1>3, OneRests

LEMMA NextVault == ASSUME VaultInv, [VaultNext]_vaultVars PROVE VaultInv'
<1>1. CASE KeychainToggles
  BY <1>1, NoneActs DEF KeychainToggles, stores, ghosts
<1>2. ASSUME NEW p \in Proc, CooldownElapses(p) PROVE VaultInv'
  BY <1>2, NoneActs DEF CooldownElapses, stores, ghosts
<1>3. ASSUME NEW p \in Proc, NEW n \in Num, ReadsBackup(p, n) PROVE VaultInv'
  BY <1>3, NoneActs DEF ReadsBackup, stores, ghosts
<1>4. ASSUME NEW p \in Proc, ReadsActive(p) PROVE VaultInv'
  BY <1>4, NoneActs DEF ReadsActive, stores, ghosts
<1>5. CASE UNCHANGED vaultVars
  BY <1>5, NoneActs DEF vaultVars
<1> QED
  BY <1>1, <1>2, <1>3, <1>4, <1>5, DiesOrRestartsOK, RunMigrationsOK, ReadLegacyOK, WriteNewOK,
     VerifyNewOK, DiscardNewOK, DeleteLegacyOK, RetainOK, PutInKeychainOK, PutInFileOK, SweepOK,
     ReconcileOK, DeleteEncOK, DropItemOK, DeleteStrictOK, BeginWriteOK, BeginDeleteOK,
     WriteActiveOK
     DEF VaultNext

LEMMA VaultInvariant == VaultSpec => []VaultInv
<1>1. VaultInv /\ [VaultNext]_vaultVars => VaultInv'
  BY NextVault
<1> QED
  BY <1>1, InitVault, PTL DEF VaultSpec

\* Whichever backend a write reached, and whatever failed, was locked or died on the way, a
\* reader is given the last backup written successfully or one being written since, unless a
\* migration ran beside a command or another migration (backup.go WriteBackup,
\* reconcileEncAfterKeychainWrite, DeleteBackupStrict).
THEOREM ReadsAreCurrent == VaultSpec => []BackupReadIsCurrent
<1>1. VaultInv => BackupReadIsCurrent
  BY DEF VaultInv, OneAtATime, BackupReadIsCurrent, Given, Served
<1> QED
  BY <1>1, VaultInvariant, PTL

\* What a process may know of the Keychain, who holds the lock, and the count of failures.
Knowledge == {"unprobed", "yes", "no", "pinned"}
Around == /\ cache \in [Proc -> Knowledge] /\ flock \in Proc \cup {Free}
          /\ trouble \in 0 .. MaxTrouble

LEMMA LearnFacts ==
  ASSUME cache \in [Proc -> Knowledge], NEW p \in Proc
  PROVE  /\ LearnedFrom(cache[p]) \in Knowledge
         /\ Learn(p) => cache' \in [Proc -> Knowledge]
BY DEF Learn, LearnedFrom, Knowledge

LEMMA AroundStep ==
  ASSUME Around, [VaultNext]_vaultVars
  PROVE  Around'
<1>0. MaxTrouble \in Nat /\ trouble \in 0 .. MaxTrouble /\ cache \in [Proc -> Knowledge] /\ flock \in Proc \cup {Free}
  BY VaultAssumption DEF Around
<1> DEFINE Knows2 == cache' \in [Proc -> Knowledge]
           Locks == flock' \in Proc \cup {Free}
           Counts == trouble' \in 0 .. MaxTrouble
<1>1. Trouble \/ Fine \/ UNCHANGED trouble => Counts
  BY <1>0 DEF Trouble, Fine
<1>2. ASSUME UNCHANGED cache PROVE Knows2
  BY <1>0, <1>2
<1>3. ASSUME UNCHANGED flock PROVE Locks
  BY <1>0, <1>3
<1>4. ASSUME NEW p \in Proc, NEW result, EndOp(p, result) PROVE Locks
  BY <1>4 DEF EndOp
<1>5. ASSUME NEW p \in Proc, NEW v \in Knowledge, cache' = [cache EXCEPT ![p] = v] PROVE Knows2
  BY <1>0, <1>5
<1>6. ASSUME NEW p \in Proc, NEW todo, NEW failed, NextPending(p, todo, failed) PROVE Counts
  BY <1>1, <1>6 DEF NextPending
<1>7. CASE KeychainToggles
  BY <1>1, <1>2, <1>3, <1>7 DEF KeychainToggles, Around
<1>8. ASSUME NEW p \in Proc,
             CooldownElapses(p) \/ ReadsActive(p) \/ VerifyNew(p) \/ (\E n \in Num : ReadsBackup(p, n))
      PROVE  Around'
  <2>1. Counts /\ Locks
    BY <1>1, <1>3, <1>8 DEF CooldownElapses, ReadsActive, VerifyNew, ReadsBackup
  <2>2. Knows2
    BY <1>2, <1>5, <1>8, LearnFacts, <1>0 DEF CooldownElapses, ReadsActive, VerifyNew, ReadsBackup, Knowledge
  <2> QED
    BY <2>1, <2>2 DEF Around
<1>9. ASSUME NEW p \in Proc, VaultDies(p) \/ Restart(p) PROVE Around'
  <2>1. Counts /\ Locks
    BY <1>0, <1>1, <1>9 DEF VaultDies, Restart
  <2>2. Knows2
    BY <1>2, <1>5, <1>9 DEF VaultDies, Restart, Knowledge
  <2> QED
    BY <2>1, <2>2 DEF Around
<1>10. ASSUME NEW p \in Proc, RunMigrations(p) \/ ReadLegacy(p) \/ DiscardNew(p) \/ DeleteLegacy(p) PROVE Around'
  <2>1. Counts /\ Locks
    BY <1>1, <1>3, <1>6, <1>10 DEF RunMigrations, ReadLegacy, DiscardNew, DeleteLegacy
  <2>2. Knows2
    BY <1>2, <1>10, LearnFacts, <1>0 DEF RunMigrations, ReadLegacy, DiscardNew, DeleteLegacy
  <2> QED
    BY <2>1, <2>2 DEF Around
<1>11. ASSUME NEW p \in Proc, WriteNew(p) PROVE Around'
  <2>1. Counts /\ Locks
    BY <1>1, <1>3, <1>11 DEF WriteNew, WriteNewThen
  <2>2. Knows2
    BY <1>2, <1>11, LearnFacts, <1>0 DEF WriteNew, WriteNewThen
  <2> QED
    BY <2>1, <2>2 DEF Around
<1>12. ASSUME NEW p \in Proc, RetainPreviousBackup(p) PROVE Around'
  <2> DEFINE asked == mac /\ disk[Backup(proc[p].n)] = 0
             known == IF asked THEN LearnedFrom(cache[p]) ELSE cache[p]
  <2>1. Counts /\ Locks
    BY <1>1, <1>3, <1>12 DEF RetainPreviousBackup
  <2>2. known \in Knowledge /\ LearnedFrom(known) \in Knowledge
    BY <1>0 DEF LearnedFrom, Knowledge
  <2>3. cache' = [cache EXCEPT ![p] = known] \/ cache' = [cache EXCEPT ![p] = LearnedFrom(known)]
    BY <1>12 DEF RetainPreviousBackup
  <2> HIDE DEF known
  <2>4. Knows2
    BY <1>5, <2>2, <2>3
  <2> QED
    BY <2>1, <2>4 DEF Around
<1>13. ASSUME NEW p \in Proc, PutInKeychain(p) \/ PutInFile(p) \/ SweepKeychain(p) \/ Reconcile(p) PROVE Around'
  <2>1. Counts /\ Locks
    BY <1>1, <1>3, <1>4, <1>13 DEF PutInKeychain, PutInFile, SweepKeychain, Reconcile
  <2>2. Knows2
    BY <1>2, <1>13, LearnFacts, <1>0 DEF PutInKeychain, PutInFile, SweepKeychain, Reconcile
  <2> QED
    BY <2>1, <2>2 DEF Around
<1>14. ASSUME NEW p \in Proc, DeleteEnc(p) \/ DropItem(p) \/ DeleteStrict(p) PROVE Around'
  <2>1. Counts /\ Locks
    BY <1>1, <1>3, <1>4, <1>14 DEF DeleteEnc, DropItem, DeleteStrict
  <2>2. Knows2
    BY <1>2, <1>14, LearnFacts, <1>0 DEF DeleteEnc, DropItem, DeleteStrict
  <2> QED
    BY <2>1, <2>2 DEF Around
<1>15. ASSUME NEW p \in Proc, NEW n, NEW st, NEW c, BeginOp(p, n, st, c) PROVE Around'
  BY <1>0, <1>15 DEF BeginOp, Around
<1>16. ASSUME NEW p \in Proc, NEW kind, WriteActive(p, kind) PROVE Around'
  <2>1. Counts /\ Locks
    BY <1>1, <1>3, <1>16 DEF WriteActive
  <2>2. Knows2
    BY <1>0, <1>5, <1>16 DEF WriteActive, Knowledge
  <2> QED
    BY <2>1, <2>2 DEF Around
<1>17. CASE UNCHANGED vaultVars
  BY <1>17 DEF vaultVars, Around
<1> QED
  BY <1>7, <1>8, <1>9, <1>10, <1>11, <1>12, <1>13, <1>14, <1>15, <1>16, <1>17
     DEF VaultNext, BeginWrite, BeginDelete

\* THEOREM. Every backend holds known credentials, nothing is in a Keychain that does not
\* exist, and what a process thinks of the Keychain is one of the four states of the code
\* (credstore/store.go learn, pinFileMode).
THEOREM VaultTyped == VaultSpec => []VaultTypeOK
<1>1. VaultInit => Around
  BY VaultAssumption DEF VaultInit, Around, Knowledge
<1>2. Around /\ [VaultNext]_vaultVars => Around'
  BY AroundStep
<1>3. VaultInv /\ Around => VaultTypeOK
  BY DEF VaultInv, VaultTypes, Around, VaultTypeOK, Cred, Work, Knowledge
<1> QED
  BY <1>1, <1>2, <1>3, VaultInvariant, PTL DEF VaultSpec

\* Only the last step of relocate deletes from the old store, and the copy is in the new one.
LEMMA ForgetsOnlyCopied ==
  ASSUME VaultInv, [VaultNext]_vaultVars, ~mixed, NEW n \in Num,
         LET c == legacy[Heir(legacy, mail, n)]
         IN  c # 0 /\ c \notin {legacy'[<<"slot", n>>], legacy'[<<"none", mail[n]>>]}
  PROVE  legacy[Heir(legacy, mail, n)] \in Copies(n)'
<1> DEFINE from == Heir(legacy, mail, n)
<1>0. from \in {<<"slot", n>>, <<"none", mail[n]>>} /\ legacy' # legacy
  BY DEF Heir
<1>1. PICK p \in Proc : DeleteLegacy(p)
  <2>1. KeychainToggles \/ UNCHANGED vaultVars => UNCHANGED legacy
    BY DEF KeychainToggles, vaultVars, stores
  <2>2. ASSUME NEW p \in Proc
        PROVE  CooldownElapses(p) \/ VaultDies(p) \/ Restart(p) \/ RunMigrations(p) => UNCHANGED legacy
    BY DEF CooldownElapses, VaultDies, Restart, RunMigrations, stores
  <2>3. ASSUME NEW p \in Proc
        PROVE  ReadLegacy(p) \/ WriteNew(p) \/ VerifyNew(p) \/ DiscardNew(p) => UNCHANGED legacy
    BY DEF ReadLegacy, WriteNew, WriteNewThen, VerifyNew, DiscardNew, stores
  <2>4. ASSUME NEW p \in Proc
        PROVE  RetainPreviousBackup(p) \/ PutInKeychain(p) \/ PutInFile(p) \/ SweepKeychain(p)
                 => UNCHANGED legacy
    BY DEF RetainPreviousBackup, PutInKeychain, PutInFile, SweepKeychain, stores
  <2>5. ASSUME NEW p \in Proc
        PROVE  Reconcile(p) \/ DeleteEnc(p) \/ DropItem(p) \/ DeleteStrict(p) => UNCHANGED legacy
    BY DEF Reconcile, DeleteEnc, DropItem, DeleteStrict, stores
  <2>6. ASSUME NEW p \in Proc, NEW m \in Num, NEW strict \in BOOLEAN
        PROVE  BeginWrite(p, m) \/ ReadsBackup(p, m) \/ BeginDelete(p, m, strict) => UNCHANGED legacy
    BY DEF BeginWrite, BeginDelete, BeginOp, ReadsBackup, stores
  <2>7. ASSUME NEW p \in Proc, NEW c
        PROVE  ReadsActive(p) \/ WriteActive(p, c) => UNCHANGED legacy
    BY DEF ReadsActive, WriteActive, stores
  <2> QED
    BY <1>0, <2>1, <2>2, <2>3, <2>4, <2>5, <2>6, <2>7 DEF VaultNext
<1> DEFINE i == proc[p].n
<1>2. proc[p].st = "forget" /\ Busy(proc[p]) /\ disk' = disk /\ kc' = kc
      /\ legacy' = [s \in Sources |-> IF s \in {proc[p].from, <<"none", mail[i]>>} /\ ~(mac /\ locked)
                                      THEN 0 ELSE legacy[s]]
  BY <1>1 DEF DeleteLegacy, Busy
<1>3. i \in Num /\ mail \in [Num -> Num] /\ legacy \in [Sources -> Cred]
  BY <1>2, AtWork
<1>4. /\ proc[p].from = Heir(legacy, mail, i) /\ proc[p].cred = legacy[proc[p].from]
      /\ proc[p].cred \in {kc[Backup(i)], disk[Backup(i)]}
  BY <1>2, AtWork DEF OpOK, Moves
<1>5. from \in Sources
  BY <1>0, <1>3, SourceFacts
<1>6. legacy'[from] # legacy[from]
  BY <1>0
<1>7. from \in {proc[p].from, <<"none", mail[i]>>}
  BY <1>2, <1>5, <1>6
<1>8. n = i
  <2>1. proc[p].from \in {<<"slot", i>>, <<"none", mail[i]>>}
    BY <1>4 DEF Heir
  <2>2. CASE from = <<"slot", n>>
    BY <1>7, <2>1, <2>2, SourceFacts
  <2>3. CASE from # <<"slot", n>>
    <3>1. from = <<"none", mail[n]>> /\ \A k \in Num \ {n} : mail[k] # mail[n]
      BY <2>3 DEF Heir
    <3>2. from = <<"none", mail[i]>>
      BY <1>7, <2>1, <3>1, SourceFacts
    <3>3. mail[n] = mail[i]
      BY <3>1, <3>2, SourceFacts
    <3> QED
      BY <1>3, <3>1, <3>3
  <2> QED
    BY <2>2, <2>3
<1> QED
  BY <1>2, <1>4, <1>8 DEF Copies

\* The credential a slot is to inherit leaves the old store only when the new one has it, while
\* migrations fail, die and are run again, one at a time (relocate.go relocate).
THEOREM MigrationKeeps == VaultSpec => MigrationLosesNothing
<1> DEFINE Loses == \A n \in Num :
       LET one == <<"slot", n>>
           none == <<"none", mail[n]>>
           c == IF legacy[one] = 0 /\ UniqueMail(n) THEN legacy[none] ELSE legacy[one]
       IN  (c # 0 /\ c \notin {legacy'[one], legacy'[none]})
             => mixed \/ n \in moved \/ c \in Copies(n)'
<1>1. ASSUME VaultInv, [VaultNext]_vaultVars PROVE Loses
  <2> SUFFICES ASSUME NEW n \in Num, ~mixed,
                      LET c == legacy[Heir(legacy, mail, n)]
                      IN  c # 0 /\ c \notin {legacy'[<<"slot", n>>], legacy'[<<"none", mail[n]>>]}
               PROVE  legacy[Heir(legacy, mail, n)] \in Copies(n)'
    BY Zenon DEF Heir, UniqueMail
  <2> QED
    BY <1>1, ForgetsOnlyCopied
<1>2. VaultInv /\ [VaultNext]_vaultVars => [Loses]_vaultVars
  BY <1>1
<1> QED
  BY <1>2, VaultInvariant, PTL DEF VaultSpec, MigrationLosesNothing
-----------------------------------------------------------------------------
(* The roster under imports.                                                 *)

Stores == {"creds", "config", "verdict", "record"}
Importing == Stores \cup {"next"}
Sweeping == {"sweep", "rmdir"}

Rows == [id : Owner, alias : Alias \cup {NoAlias}] \cup {Vacant}
Books == [SlotNum -> Rows]
Accounts == [id : Owner, num : SlotNum, alias : Alias \cup {NoAlias}]
Mappings == [Dirs -> Owner \cup {NoOwner}]
Jobs == [st : Importing \cup Sweeping \cup {"none", "import", "export", "asked", "prune", "map"},
         force : BOOLEAN, env : Envelope, data : Books, lead : 0 .. MaxSlot,
         k : Nat \ {0}, slot : 0 .. MaxSlot, seed : 0 .. MaxSlot, id : Owner \cup {NoOwner},
         maps : Mappings]

\* Who writes an entry has one, and a slot for it.
InHand(j) == j.st \in Stores => j.k \in DOMAIN j.env.accounts /\ j.slot \in SlotNum

TransferTypes ==
  /\ roll \in Books /\ lead \in 0 .. MaxSlot
  /\ creds \in [SlotNum -> SUBSET Owner] /\ confs \in [SlotNum -> SUBSET Owner]
  /\ struck \in [SlotNum -> SUBSET Owner]
  /\ gate \in User \cup {Unheld} /\ pack \in Envelope /\ job \in [User -> Jobs]
  /\ \A u \in User : InHand(job[u])
  /\ maps \in Mappings /\ torn \in BOOLEAN

\* No identity and no alias is in the roster twice.
Singular(b) ==
  \A n \in SlotNum : b[n] # Vacant =>
    \A m \in SlotNum \ {n} : /\ b[m].id # b[n].id
                             /\ b[n].alias # NoAlias => b[m].alias # b[n].alias

\* Every account in it has both halves of its backup.
Backed(b, cr, cf) == \A n \in SlotNum : b[n] # Vacant => b[n].id \in cr[n] \cap cf[n]

\* The entries an import has still to do are apart, and no other account has their aliases.
Fits(j) ==
  LET es == j.env.accounts IN
  \A i \in DOMAIN es : i >= j.k =>
    /\ es[i].alias # NoAlias =>
         \A n \in SlotNum : j.data[n].alias = es[i].alias => j.data[n].id = es[i].id
    /\ \A h \in DOMAIN es : h # i =>
         es[h].id # es[i].id /\ (es[i].alias # NoAlias => es[h].alias # es[i].alias)

\* The slot an import has chosen is its account's, or free and nobody else has the account.
Chosen(b, o, n) == b[n].id = o \/ (b[n] = Vacant /\ \A m \in SlotNum : b[m].id # o)

\* What an import that writes an entry has of it: its place in the roster, and what is written.
Placed(j, cr, cf, bad) ==
  j.st \in Stores =>
    /\ Chosen(j.data, j.env.accounts[j.k].id, j.slot)
    /\ j.st # "creds" => j.env.accounts[j.k].id \in cr[j.slot]
    /\ j.st \in {"verdict", "record"} => j.env.accounts[j.k].id \in cf[j.slot]
    /\ j.st = "record" => j.env.accounts[j.k].id \notin bad[j.slot]

\* An import is alone with the roster, and knows it; nobody purges.
Sole(u, j, g, b) ==
  /\ j.st \notin Sweeping
  /\ j.st \in Importing => g = u /\ j.data = b /\ Fits(j)

RosterKept ==
  /\ Singular(roll) /\ Backed(roll, creds, confs)
  /\ \A u \in User : Sole(u, job[u], gate, roll) /\ Placed(job[u], creds, confs, struck)

TransferInv == TransferTypes /\ (torn \/ RosterKept)

LEMMA TransferConstants ==
  /\ MaxSlot \in Nat /\ SlotNum \subseteq 0 .. MaxSlot /\ SlotNum \subseteq Nat \ {0}
  /\ 0 \in 0 .. MaxSlot /\ 1 \in SlotNum /\ NoOwner \notin Owner
  /\ Vacant \in Rows /\ Rows \subseteq Records /\ NoBook \in Books /\ NoJob \in Jobs
<1>1. /\ MaxSlot \in Nat /\ SlotNum \subseteq 0 .. MaxSlot /\ SlotNum \subseteq Nat \ {0}
      /\ 0 \in 0 .. MaxSlot /\ 1 \in SlotNum /\ NoOwner \notin Owner
  BY TransferAssumption DEF SlotNum
<1>2. Vacant \in Rows /\ Rows \subseteq Records
  BY DEF Vacant, Rows, Records
<1>3. NoBook \in Books
  BY <1>2 DEF NoBook, Books
<1>4. <<>> \in Seq(Accounts)
  OBVIOUS
<1>5. [active |-> 0, accounts |-> <<>>] \in Envelope
  BY <1>1, <1>4 DEF Envelope, Accounts
<1>6. [d \in Dirs |-> NoOwner] \in Mappings
  BY DEF Mappings
<1>7. NoJob \in Jobs
  BY <1>1, <1>3, <1>5, <1>6 DEF NoJob, Jobs
<1> QED
  BY <1>1, <1>2, <1>3, <1>7

\* An entry of an export file is an account.
LEMMA EntryIs ==
  ASSUME NEW j \in Jobs, NEW i \in DOMAIN j.env.accounts
  PROVE  j.env.accounts[i] \in Accounts /\ j.env.accounts \in Seq(Accounts)
<1>1. j.env \in Envelope
  BY DEF Jobs
<1>2. j.env.accounts \in Seq(Accounts)
  BY <1>1 DEF Envelope, Accounts
<1> QED
  BY <1>2

LEMMA FindSlotIs ==
  ASSUME NEW b \in Books, NEW o \in Owner
  PROVE  /\ FindAccountSlot(b, o) \in 0 .. MaxSlot
         /\ FindAccountSlot(b, o) = 0 => \A n \in SlotNum : b[n].id # o
         /\ FindAccountSlot(b, o) # 0 => FindAccountSlot(b, o) \in SlotNum /\ b[FindAccountSlot(b, o)].id = o
<1>1. CASE \E n \in SlotNum : b[n].id = o
  <2>1. /\ FindAccountSlot(b, o) = CHOOSE n \in SlotNum : b[n].id = o
        /\ (CHOOSE n \in SlotNum : b[n].id = o) \in SlotNum
        /\ b[CHOOSE n \in SlotNum : b[n].id = o].id = o
    BY <1>1 DEF FindAccountSlot
  <2> QED
    BY <2>1, TransferConstants
<1>2. CASE ~ \E n \in SlotNum : b[n].id = o
  BY <1>2, TransferConstants DEF FindAccountSlot
<1> QED
  BY <1>1, <1>2

\* The next number is a slot above every account, so a free one.
LEMMA NextNumberIs ==
  ASSUME NEW b \in Books
  PROVE  NextAccountNumber(b) \in Nat \ {0} /\ \A n \in SlotNum : n >= NextAccountNumber(b) => b[n] = Vacant
<1>1. CASE Listed(b) = {}
  BY <1>1 DEF NextAccountNumber, Listed
<1>2. CASE Listed(b) # {}
  <2> DEFINE S == {MaxSlot - n : n \in Listed(b)}
  <2>1. Listed(b) \subseteq SlotNum /\ \A n \in Listed(b) : n \in Nat /\ MaxSlot - n \in Nat
    BY TransferAssumption DEF Listed, SlotNum
  <2>2. S \subseteq Nat /\ S # {}
    BY <1>2, <2>1
  <2> DEFINE R == OpToRel(<, Nat)
  <2>3a. \E x \in S : \A y \in S : ~(<<y, x>> \in R)
    BY <2>2, WFMin, NatLessThanWellFounded
  <2>3b. ASSUME NEW x \in Nat, NEW y \in Nat, y < x PROVE <<y, x>> \in R
    BY <2>3b DEF OpToRel
  <2> HIDE DEF R
  <2>3. PICK x \in S : \A y \in S : ~(<<y, x>> \in R)
    BY <2>3a
  <2>4. ASSUME NEW y \in S PROVE x <= y
    <3>1. x \in Nat /\ y \in Nat
      BY <2>2
    <3>2. ~(y < x)
      BY <2>3, <2>3b, <3>1
    <3> QED
      BY <3>1, <3>2
  <2>5. PICK n \in Listed(b) : x = MaxSlot - n
    BY <2>3
  <2>6. \A k \in Listed(b) : k <= n
    <3> SUFFICES ASSUME NEW k \in Listed(b) PROVE k <= n
      OBVIOUS
    <3>1. MaxSlot - k \in S
      OBVIOUS
    <3>2. MaxSlot - n <= MaxSlot - k
      BY <2>4, <2>5, <3>1
    <3> QED
      BY <2>1, <3>2, TransferConstants
  <2> DEFINE t == CHOOSE i \in Listed(b) : \A k \in Listed(b) : k <= i
  <2>7. t \in Listed(b) /\ \A k \in Listed(b) : k <= t
    BY <2>6
  <2>8. NextAccountNumber(b) = 1 + t
    BY <1>2 DEF NextAccountNumber
  <2> HIDE DEF t
  <2>9. ASSUME NEW i \in SlotNum, i >= 1 + t PROVE b[i] = Vacant
    <3>1. i \in Nat /\ t \in Nat /\ ~(i <= t)
      BY <2>1, <2>7, <2>9, TransferConstants
    <3> QED
      BY <2>7, <3>1 DEF Listed
  <2> QED
    BY <2>1, <2>7, <2>8, <2>9
<1> QED
  BY <1>1, <1>2

LEMMA TargetIs ==
  ASSUME NEW b \in Books, NEW e \in Accounts, TargetSlot(b, e) <= MaxSlot
  PROVE  TargetSlot(b, e) \in SlotNum /\ Chosen(b, e.id, TargetSlot(b, e))
<1>1. e.id \in Owner /\ e.num \in SlotNum
  BY DEF Accounts
<1>2. CASE FindAccountSlot(b, e.id) # 0
  BY <1>1, <1>2, FindSlotIs DEF TargetSlot, Chosen
<1>3. CASE FindAccountSlot(b, e.id) = 0
  <2>1. \A n \in SlotNum : b[n].id # e.id
    BY <1>1, <1>3, FindSlotIs
  <2>2. CASE b[e.num] = Vacant
    BY <1>1, <1>3, <2>1, <2>2 DEF TargetSlot, Chosen
  <2>3. CASE b[e.num] # Vacant
    <3>1. TargetSlot(b, e) = NextAccountNumber(b)
      BY <1>3, <2>3 DEF TargetSlot
    <3>2. NextAccountNumber(b) \in SlotNum
      BY <3>1, NextNumberIs, TransferConstants DEF SlotNum
    <3> QED
      BY <2>1, <3>1, <3>2, NextNumberIs, TransferConstants DEF Chosen
  <2> QED
    BY <2>2, <2>3
<1> QED
  BY <1>2, <1>3
LEMMA TransferStart == TransferInit => TransferInv
<1> SUFFICES ASSUME TransferInit PROVE TransferInv
  OBVIOUS
<1>1. roll \in Books /\ lead \in 0 .. MaxSlot
  <2>1. ASSUME NEW o \in Owner, NEW a \in Alias \cup {NoAlias}
        PROVE  [NoBook EXCEPT ![1] = [id |-> o, alias |-> a]] \in Books
    BY TransferConstants DEF Books, Rows
  <2>2. roll = NoBook \/ \E o \in Owner, a \in Alias \cup {NoAlias} :
                          roll = [NoBook EXCEPT ![1] = [id |-> o, alias |-> a]]
    BY DEF TransferInit
  <2>3. roll \in Books
    BY <2>1, <2>2, TransferConstants
  <2>4. lead \in {0, 1}
    BY DEF TransferInit
  <2>5. 1 \in 0 .. MaxSlot
    BY TransferConstants
  <2> QED
    BY <2>3, <2>4, <2>5, TransferConstants
<1>2. /\ creds = [n \in SlotNum |-> {roll[n].id} \ {NoOwner}] /\ confs = creds /\ struck = creds
      /\ creds \in [SlotNum -> SUBSET Owner]
  BY <1>1 DEF TransferInit, Books, Rows, Vacant
<1>3. pack \in Envelope /\ job = [u \in User |-> NoJob] /\ gate = Unheld /\ torn = FALSE
  BY TransferAssumption DEF TransferInit
<1>4. maps \in Mappings
  <2>1. roll[1].id \in Owner \cup {NoOwner}
    BY <1>1, TransferConstants DEF Books, Rows, Vacant
  <2> QED
    BY <2>1 DEF TransferInit, Mappings
<1>5. TransferTypes
  BY <1>1, <1>2, <1>3, <1>4, TransferConstants DEF TransferTypes, InHand, NoJob, Stores
<1>6. Singular(roll)
  <2>0. roll = NoBook \/ \E r : roll = [NoBook EXCEPT ![1] = r]
    BY DEF TransferInit
  <2>1. \A n \in SlotNum \ {1} : roll[n] = Vacant
    BY <2>0 DEF NoBook
  <2>2. roll[1] # Vacant => roll[1].id \in Owner
    BY <1>1, TransferConstants DEF Books, Rows
  <2>3. \A n \in SlotNum : roll[n] # Vacant => n = 1
    BY <2>1
  <2>4. Vacant.id = NoOwner /\ Vacant.alias = NoAlias
    BY DEF Vacant
  <2> QED
    BY <2>1, <2>2, <2>3, <2>4, TransferConstants DEF Singular
<1>7. Backed(roll, creds, confs)
  BY <1>1, <1>2, TransferConstants DEF Backed, Books, Rows
<1>8. ASSUME NEW u \in User PROVE Sole(u, job[u], gate, roll) /\ Placed(job[u], creds, confs, struck)
  BY <1>3 DEF NoJob, Sole, Placed, Sweeping, Importing, Stores
<1> QED
  BY <1>5, <1>6, <1>7, <1>8 DEF TransferInv, RosterKept

\* A step of one command, which has the lock if it changes the store, leaves the others alone.
LEMMA OthersRest ==
  ASSUME TransferTypes, RosterKept, NEW u \in User, NEW j, job' = [job EXCEPT ![u] = j],
         gate \in {u, Unheld} \/ UNCHANGED <<roll, creds, confs, struck, gate>>,
         Singular(roll'), Backed(roll', creds', confs'),
         Sole(u, j, gate', roll'), Placed(j, creds', confs', struck')
  PROVE  RosterKept'
<1>1. job'[u] = j /\ \A v \in User \ {u} : job'[v] = job[v]
  BY DEF TransferTypes
<1>2. ASSUME NEW v \in User \ {u}
      PROVE  Sole(v, job[v], gate', roll') /\ Placed(job[v], creds', confs', struck')
  <2>1. Sole(v, job[v], gate, roll) /\ Placed(job[v], creds, confs, struck)
    BY DEF RosterKept
  <2>2. CASE job[v].st \in Importing
    <3>1. gate \notin {u, Unheld}
      BY <2>1, <2>2, TransferAssumption DEF Sole
    <3> QED
      BY <2>1, <3>1
  <2>3. CASE job[v].st \notin Importing
    BY <2>1, <2>3 DEF Sole, Placed, Importing
  <2> QED
    BY <2>2, <2>3
<1> QED
  BY <1>1, <1>2 DEF RosterKept

\* A step that ends a command or keeps it away from the roster, and may free its lock.
LEMMA StaysAway ==
  ASSUME TransferInv, NEW u \in User, NEW j \in Jobs, job' = [job EXCEPT ![u] = j],
         j.st \notin Importing \cup Sweeping, lead' \in 0 .. MaxSlot,
         UNCHANGED <<creds, confs, struck, torn>>, gate' = gate \/ Release(u),
         roll' \in Books, RosterKept => roll' = roll,
         pack' \in Envelope, maps' \in Mappings
  PROVE  TransferInv'
<1>1. TransferTypes /\ (gate' = gate \/ (gate = u /\ gate' = Unheld))
  BY DEF TransferInv, Release
<1>2. job' \in [User -> Jobs] /\ gate' \in User \cup {Unheld} /\ \A v \in User : InHand(job'[v])
  BY <1>1 DEF TransferTypes, InHand, Importing
<1>3. TransferTypes'
  BY <1>1, <1>2 DEF TransferTypes
<1>4. ASSUME ~torn' PROVE RosterKept'
  <2>1. RosterKept
    BY <1>4 DEF TransferInv
  <2>2. Singular(roll') /\ Backed(roll', creds', confs')
    BY <2>1 DEF RosterKept
  <2>3. Sole(u, j, gate', roll') /\ Placed(j, creds', confs', struck')
    BY DEF Sole, Placed, Importing
  <2>4. gate \in {u, Unheld} \/ UNCHANGED <<roll, creds, confs, struck, gate>>
    BY <1>1, <2>1
  <2> QED
    BY <1>1, <2>1, <2>2, <2>3, <2>4, OthersRest
<1> QED
  BY <1>3, <1>4 DEF TransferInv

\* A step of an import under the lock.
LEMMA GoesOn ==
  ASSUME TransferInv, NEW u \in User, NEW j \in Jobs, job' = [job EXCEPT ![u] = j],
         job[u].st \in Importing, j.st \in Importing, InHand(j),
         roll' \in Books, lead' \in 0 .. MaxSlot, creds' \in [SlotNum -> SUBSET Owner],
         confs' \in [SlotNum -> SUBSET Owner], struck' \in [SlotNum -> SUBSET Owner],
         UNCHANGED <<gate, pack, maps, torn>>,
         RosterKept => /\ j.data = roll' /\ Fits(j) /\ Placed(j, creds', confs', struck')
                       /\ Singular(roll') /\ Backed(roll', creds', confs')
  PROVE  TransferInv'
<1>1. TransferTypes
  BY DEF TransferInv
<1>2. TransferTypes'
  BY <1>1 DEF TransferTypes
<1>3. ASSUME ~torn' PROVE RosterKept'
  <2>1. RosterKept
    BY <1>3 DEF TransferInv
  <2>2. gate = u
    BY <2>1 DEF RosterKept, Sole
  <2>3. Sole(u, j, gate', roll')
    BY <2>1, <2>2 DEF Sole, Importing, Stores, Sweeping
  <2> QED
    BY <1>1, <2>1, <2>2, <2>3, OthersRest
<1> QED
  BY <1>2, <1>3 DEF TransferInv

\* The entries that are left fit what the entries before them fitted.
LEMMA FitsNext ==
  ASSUME NEW j \in Jobs, NEW l \in Jobs, Fits(j), l.env = j.env, l.data = j.data,
         l.k \in {j.k, j.k + 1}
  PROVE  Fits(l)
<1>1. j.k \in Nat /\ j.env.accounts \in Seq(Accounts)
  BY DEF Jobs, Envelope, Accounts
<1>2. l.k \in Nat /\ l.k >= j.k
  BY <1>1
<1>3. \A i \in DOMAIN j.env.accounts : i \in Nat /\ (i >= l.k => i >= j.k)
  BY <1>1, <1>2
<1> QED
  BY <1>1, <1>2, <1>3 DEF Fits
\* What a step may change of the roster: an account goes only with its credential, and comes
\* without a verdict.
Changes ==
  \A n \in SlotNum : roll'[n].id # roll[n].id =>
    /\ roll[n] # Vacant => roll[n].id \notin creds'[n]
    /\ roll'[n] # Vacant => roll'[n].id \notin struck'[n]

\* The starts of commands, exports and mappings, and whatever stops.
LEMMA AwaySteps ==
  ASSUME TransferInv, NEW u \in User,
         \/ \E force \in BOOLEAN : StartImport(u, force)
         \/ \E n \in 0 .. MaxSlot : StartExport(u, n)
         \/ \E d \in Dirs, o \in Owner \cup {NoOwner} : StartMap(u, d, o)
         \/ ExportEntry(u) \/ WriteExport(u) \/ AskPurge(u) \/ PruneAccount(u)
         \/ WriteMappings(u) \/ Stops(u)
  PROVE  TransferInv' /\ Changes
<1>1. TransferTypes /\ job[u] \in Jobs
  BY DEF TransferInv, TransferTypes
<1>2. roll' = roll
  BY DEF StartImport, StartExport, StartMap, ExportEntry, WriteExport, AskPurge, PruneAccount,
         WriteMappings, Stops
<1>3. CASE \E force \in BOOLEAN : StartImport(u, force)
  <2>1. PICK force \in BOOLEAN : StartImport(u, force)
    BY <1>3
  <2> DEFINE j == [NoJob EXCEPT !.st = "import", !.force = force, !.env = pack]
  <2>2. j \in Jobs /\ j.st = "import"
    BY <1>1, TransferConstants DEF Jobs, TransferTypes, NoJob
  <2>3. job' = [job EXCEPT ![u] = j]
    BY <2>1 DEF StartImport, Starts
  <2> QED
    BY <1>1, <2>1, <2>2, <2>3, StaysAway DEF StartImport, backups, TransferTypes, Importing, Stores, Sweeping, Changes
<1>4. CASE \E n \in 0 .. MaxSlot : StartExport(u, n)
  <2>1. PICK n \in 0 .. MaxSlot : StartExport(u, n)
    BY <1>4
  <2> DEFINE j == [NoJob EXCEPT !.st = "export", !.data = roll, !.lead = lead, !.slot = n]
  <2>2. j \in Jobs /\ j.st = "export"
    BY <1>1, TransferConstants DEF Jobs, TransferTypes, NoJob
  <2>3. job' = [job EXCEPT ![u] = j]
    BY <2>1 DEF StartExport, Starts
  <2> QED
    BY <1>1, <2>1, <2>2, <2>3, StaysAway DEF StartExport, backups, TransferTypes, Importing, Stores, Sweeping, Changes
<1>5. CASE \E d \in Dirs, o \in Owner \cup {NoOwner} : StartMap(u, d, o)
  <2>1. PICK d \in Dirs, o \in Owner \cup {NoOwner} : StartMap(u, d, o)
    BY <1>5
  <2> DEFINE j == [NoJob EXCEPT !.st = "map", !.maps = [maps EXCEPT ![d] = o]]
  <2>2. j \in Jobs /\ j.st = "map"
    <3>1. [maps EXCEPT ![d] = o] \in Mappings
      BY <1>1 DEF TransferTypes, Mappings
    <3> QED
      BY <3>1, TransferConstants DEF Jobs, NoJob
  <2>3. job' = [job EXCEPT ![u] = j]
    BY <2>1 DEF StartMap, Starts
  <2> QED
    BY <1>1, <2>1, <2>2, <2>3, StaysAway DEF StartMap, backups, TransferTypes, Importing, Stores, Sweeping, Changes
<1>6. CASE ExportEntry(u)
  <2> DEFINE n == job[u].k
             r == job[u].data[n]
             as == job[u].env.accounts
             wanted == r # Vacant /\ job[u].slot \in {0, n}
             found == r.id = Current \/ r.id \in creds[n] \cap confs[n]
             bs == IF wanted /\ found THEN Append(as, [id |-> r.id, num |-> n, alias |-> r.alias]) ELSE as
             j == [job[u] EXCEPT !.k = n + 1, !.env.accounts = bs]
  <2>1. n \in SlotNum /\ n \in Nat /\ n > 0 /\ as \in Seq(Accounts) /\ job[u].st = "export"
    BY <1>1, <1>6, TransferConstants DEF ExportEntry, Jobs, Envelope, Accounts, SlotNum
  <2>2. r \in Rows
    BY <1>1, <2>1 DEF Jobs, Books
  <2>3. bs \in Seq(Accounts)
    <3>1. r # Vacant => [id |-> r.id, num |-> n, alias |-> r.alias] \in Accounts
      BY <2>1, <2>2 DEF Rows, Accounts
    <3> QED
      BY <2>1, <3>1
  <2>4. job' = [job EXCEPT ![u] = NoJob] \/ job' = [job EXCEPT ![u] = j]
    BY <1>6 DEF ExportEntry, Go
  <2>5. j \in Jobs /\ j.st = "export"
    <3> HIDE DEF bs
    <3>1. [job[u].env EXCEPT !.accounts = bs] \in Envelope
      BY <1>1, <2>3 DEF Jobs, Envelope, Accounts
    <3>2. j = [job[u] EXCEPT !.k = n + 1, !.env = [job[u].env EXCEPT !.accounts = bs]]
      BY <1>1 DEF Jobs
    <3>3. n + 1 \in Nat \ {0}
      BY <2>1
    <3>4. ASSUME NEW i \in Nat \ {0}, NEW e \in Envelope, job[u].st = "export"
          PROVE  /\ [job[u] EXCEPT !.k = i, !.env = e] \in Jobs
                 /\ [job[u] EXCEPT !.k = i, !.env = e].st = "export"
      BY <1>1, <3>4 DEF Jobs
    <3> HIDE DEF n
    <3> QED
      BY <2>1, <3>1, <3>2, <3>3, <3>4
  <2>6. NoJob \in Jobs /\ NoJob.st = "none"
    BY TransferConstants DEF NoJob
  <2>7. lead' \in 0 .. MaxSlot /\ pack' \in Envelope /\ maps' \in Mappings
        /\ UNCHANGED <<creds, confs, struck, torn>> /\ gate' = gate /\ roll \in Books
    BY <1>1, <1>6 DEF ExportEntry, backups, TransferTypes
  <2> HIDE DEF j
  <2> QED
    BY <1>2, <2>4, <2>5, <2>6, <2>7, StaysAway DEF Importing, Stores, Sweeping, Changes
<1>7. CASE WriteExport(u)
  <2>1. [active |-> IF \E i \in DOMAIN job[u].env.accounts : job[u].env.accounts[i].num = job[u].lead
                    THEN job[u].lead ELSE 0,
         accounts |-> job[u].env.accounts] \in Envelope
    BY <1>1, TransferConstants DEF Jobs, Envelope
  <2>2. pack' \in Envelope /\ job' = [job EXCEPT ![u] = NoJob]
    BY <1>1, <1>7, <2>1 DEF WriteExport, Go, TransferTypes
  <2>3. NoJob \in Jobs /\ NoJob.st = "none"
    BY TransferConstants DEF NoJob
  <2> QED
    BY <1>1, <1>2, <1>7, <2>2, <2>3, StaysAway
       DEF WriteExport, backups, TransferTypes, Importing, Stores, Sweeping, Changes
<1>8. CASE AskPurge(u)
  <2> DEFINE j == [NoJob EXCEPT !.st = "asked"]
  <2>1. j \in Jobs /\ j.st = "asked" /\ job' = [job EXCEPT ![u] = j]
    BY <1>8, TransferConstants DEF AskPurge, Starts, Jobs, NoJob
  <2> QED
    BY <1>1, <1>2, <1>8, <2>1, StaysAway
       DEF AskPurge, backups, TransferTypes, Importing, Stores, Sweeping, Changes
<1>9. CASE PruneAccount(u)
  <2> DEFINE m == [d \in Dirs |-> IF maps[d] = job[u].id THEN NoOwner ELSE maps[d]]
             j == [NoJob EXCEPT !.st = "map", !.maps = m]
  <2>1. m \in Mappings
    BY <1>1 DEF TransferTypes, Mappings
  <2>2. j \in Jobs /\ j.st = "map"
    BY <2>1, TransferConstants DEF Jobs, NoJob
  <2>3. job' = [job EXCEPT ![u] = NoJob] \/ job' = [job EXCEPT ![u] = j]
    BY <1>9 DEF PruneAccount, Go
  <2>4. NoJob \in Jobs /\ NoJob.st = "none"
    BY TransferConstants DEF NoJob
  <2> HIDE DEF j
  <2> QED
    BY <1>1, <1>2, <1>9, <2>2, <2>3, <2>4, StaysAway
       DEF PruneAccount, backups, TransferTypes, Importing, Stores, Sweeping, Changes
<1>10. CASE WriteMappings(u)
  <2>1. NoJob \in Jobs /\ NoJob.st = "none" /\ job' = [job EXCEPT ![u] = NoJob] /\ maps' \in Mappings
    BY <1>1, <1>10, TransferConstants DEF WriteMappings, Go, NoJob, Jobs
  <2> QED
    BY <1>1, <1>2, <1>10, <2>1, StaysAway
       DEF WriteMappings, backups, TransferTypes, Importing, Stores, Sweeping, Changes
<1>11. CASE Stops(u)
  <2>1. NoJob \in Jobs /\ NoJob.st = "none" /\ job' = [job EXCEPT ![u] = NoJob]
    BY <1>11, TransferConstants DEF Stops, NoJob
  <2> QED
    BY <1>1, <1>2, <1>11, <2>1, StaysAway
       DEF Stops, backups, TransferTypes, Importing, Stores, Sweeping, Changes
<1> QED
  BY <1>3, <1>4, <1>5, <1>6, <1>7, <1>8, <1>9, <1>10, <1>11
\* The one roster read: what it keeps of the file fits the roster.
LEMMA LockImportOK ==
  ASSUME TransferInv, NEW u \in User, LockImport(u)
  PROVE  TransferInv' /\ Changes
<1>1. /\ TransferTypes /\ job[u] \in Jobs /\ gate = Unheld /\ roll \in Books
      /\ UNCHANGED <<roll, lead, creds, confs, struck, pack, maps, torn>>
      /\ lead \in 0 .. MaxSlot /\ pack \in Envelope /\ maps \in Mappings
  BY DEF TransferInv, TransferTypes, LockImport, ReadRoster, backups
<1>2. NoJob \in Jobs /\ NoJob.st = "none"
  BY TransferConstants DEF NoJob
<1> DEFINE as == job[u].env.accounts
           bs == [i \in DOMAIN as |-> [as[i] EXCEPT !.alias = KeptAlias(roll, as[i])]]
           env == [job[u].env EXCEPT !.accounts = bs]
           j == [job[u] EXCEPT !.st = "next", !.env = env, !.data = roll, !.lead = lead]
<1>3. CASE ~Valid(job[u].env)
  <2>1. job' = [job EXCEPT ![u] = NoJob] /\ gate' = gate
    BY <1>3 DEF LockImport, ReadRoster, Go
  <2> QED
    BY <1>1, <1>2, <2>1, StaysAway DEF Importing, Stores, Sweeping, Changes
<1>4. CASE Valid(job[u].env)
  <2>1. job' = [job EXCEPT ![u] = j] /\ gate' = u
    BY <1>4 DEF LockImport, ReadRoster, Go
  <2>2. as \in Seq(Accounts) /\ job[u].env \in Envelope
    BY <1>1 DEF Jobs, Envelope, Accounts
  <2>3. ASSUME NEW i \in DOMAIN as
        PROVE  /\ as[i] \in Accounts /\ KeptAlias(roll, as[i]) \in {as[i].alias, NoAlias}
               /\ bs[i] \in Accounts /\ bs[i].id = as[i].id /\ bs[i].alias \in {as[i].alias, NoAlias}
               /\ bs[i].alias # NoAlias => ~AliasTaken(roll, as[i]) /\ bs[i].alias = as[i].alias
    <3>1. as[i] \in Accounts
      BY <2>2
    <3>2. /\ KeptAlias(roll, as[i]) \in {as[i].alias, NoAlias}
          /\ KeptAlias(roll, as[i]) # NoAlias => ~AliasTaken(roll, as[i])
      BY DEF KeptAlias
    <3> QED
      BY <3>1, <3>2 DEF Accounts
  <2>4. bs \in Seq(Accounts) /\ DOMAIN bs = DOMAIN as
    <3>1. Len(as) \in Nat /\ DOMAIN as = 1 .. Len(as)
      BY <2>2
    <3>2. bs \in [1 .. Len(as) -> Accounts] /\ DOMAIN bs = DOMAIN as
      BY <2>3, <3>1
    <3> HIDE DEF bs
    <3> QED
      BY <3>1, <3>2
  <2>5. env \in Envelope /\ env.accounts = bs
    <3> HIDE DEF bs
    <3> QED
      BY <2>2, <2>4 DEF Envelope, Accounts
  <2>6. j \in Jobs /\ j.st = "next" /\ j.env.accounts = bs /\ j.data = roll
    <3> HIDE DEF bs, env
    <3> QED
      <4>1. j \in Jobs /\ j.st = "next" /\ j.env = env /\ j.data = roll
        BY <1>1, <2>5 DEF Jobs, Importing
      <4> QED
        BY <2>5, <4>1
  <2>7. Fits(j)
    <3> HIDE DEF j
    <3> SUFFICES ASSUME NEW i \in DOMAIN bs
                 PROVE  /\ bs[i].alias # NoAlias =>
                              \A n \in SlotNum : roll[n].alias = bs[i].alias => roll[n].id = bs[i].id
                        /\ \A h \in DOMAIN bs : h # i =>
                              bs[h].id # bs[i].id /\ (bs[i].alias # NoAlias => bs[h].alias # bs[i].alias)
      <4> HIDE DEF bs
      <4> QED
        BY <2>6 DEF Fits
    <3>1. ASSUME bs[i].alias # NoAlias, NEW n \in SlotNum, roll[n].alias = bs[i].alias
          PROVE  roll[n].id = bs[i].id
      <4>1. roll[n] # Vacant
        BY <3>1 DEF Vacant
      <4>2. roll[n].alias = as[i].alias /\ bs[i].id = as[i].id /\ ~AliasTaken(roll, as[i])
        BY <2>3, <2>4, <3>1
      <4> QED
        BY <4>1, <4>2 DEF AliasTaken, Listed
    <3>2. ASSUME NEW h \in DOMAIN bs, h # i
          PROVE  bs[h].id # bs[i].id /\ (bs[i].alias # NoAlias => bs[h].alias # bs[i].alias)
      <4>1. /\ as[h].id # as[i].id
            /\ as[i].alias = NoAlias \/ as[i].alias # as[h].alias
        BY <1>4, <2>4, <3>2 DEF Valid
      <4>2. /\ bs[h].id = as[h].id /\ bs[h].alias \in {as[h].alias, NoAlias}
            /\ bs[i].id = as[i].id /\ bs[i].alias \in {as[i].alias, NoAlias}
        BY <2>3, <2>4
      <4> QED
        BY <4>1, <4>2
    <3> QED
      BY <3>1, <3>2
  <2> HIDE DEF j
  <2>8. TransferTypes'
    BY <1>1, <2>1, <2>6 DEF TransferTypes, InHand, Stores
  <2>9. ASSUME ~torn' PROVE RosterKept'
    <3>1. RosterKept
      BY <1>1, <2>9 DEF TransferInv
    <3>2. Sole(u, j, gate', roll') /\ Placed(j, creds', confs', struck')
      BY <1>1, <2>1, <2>6, <2>7 DEF Sole, Placed, Stores, Sweeping
    <3>3. Singular(roll') /\ Backed(roll', creds', confs')
      BY <1>1, <3>1 DEF RosterKept
    <3> QED
      BY <1>1, <2>1, <3>1, <3>2, <3>3, OthersRest
  <2> QED
    BY <1>1, <2>8, <2>9 DEF TransferInv, Changes
<1> QED
  BY <1>3, <1>4
\* What an import under the lock knows.
LEMMA ImportKnows ==
  ASSUME TransferInv, NEW u \in User, job[u].st \in Importing
  PROVE  /\ TransferTypes /\ job[u] \in Jobs /\ job[u].env \in Envelope /\ job[u].data \in Books
         /\ job[u].env.accounts \in Seq(Accounts) /\ job[u].k \in Nat \ {0} /\ InHand(job[u])
         /\ RosterKept => /\ job[u].data = roll /\ Fits(job[u]) /\ Placed(job[u], creds, confs, struck)
                          /\ Singular(roll) /\ Backed(roll, creds, confs)
<1>1. TransferTypes /\ job[u] \in Jobs
  BY DEF TransferInv, TransferTypes
<1>2. job[u].env.accounts \in Seq(Accounts)
  BY <1>1 DEF Jobs, Envelope, Accounts
<1> QED
  BY <1>1, <1>2 DEF RosterKept, Sole, Jobs, TransferTypes

\* An entry that is there is passed over; another gets its slot.
LEMMA EntryOK ==
  ASSUME TransferInv, NEW u \in User, SkipEntry(u) \/ PlanEntry(u)
  PROVE  TransferInv' /\ Changes
<1>1. job[u].st = "next" /\ job[u].st \in Importing /\ job[u].k <= Len(job[u].env.accounts)
  BY DEF SkipEntry, PlanEntry, Importing
<1>2. /\ TransferTypes /\ job[u] \in Jobs /\ job[u].data \in Books
      /\ job[u].env.accounts \in Seq(Accounts) /\ job[u].k \in Nat \ {0}
      /\ RosterKept => /\ job[u].data = roll /\ Fits(job[u])
                       /\ Singular(roll) /\ Backed(roll, creds, confs)
  BY <1>1, ImportKnows
<1>3. job[u].k \in DOMAIN job[u].env.accounts /\ Entry(u) \in Accounts
  BY <1>1, <1>2 DEF Entry
<1>4. /\ UNCHANGED <<roll, lead, creds, confs, struck, gate, pack, maps, torn>>
      /\ roll \in Books /\ lead \in 0 .. MaxSlot /\ creds \in [SlotNum -> SUBSET Owner]
      /\ confs \in [SlotNum -> SUBSET Owner] /\ struck \in [SlotNum -> SUBSET Owner]
  BY <1>2 DEF SkipEntry, PlanEntry, backups, TransferTypes
<1>5. Changes
  BY <1>4 DEF Changes
<1>6. CASE SkipEntry(u)
  <2> DEFINE n == FindAccountSlot(job[u].data, Entry(u).id)
             s == Seed(u, n)
             j == [job[u] EXCEPT !.k = job[u].k + 1, !.seed = s]
  <2>1. n \in 0 .. MaxSlot
    BY <1>2, <1>3, FindSlotIs DEF Accounts
  <2>2. s \in 0 .. MaxSlot /\ job[u].k + 1 \in Nat \ {0}
    BY <1>2, <2>1 DEF Seed, Jobs
  <2>3. job' = [job EXCEPT ![u] = j]
    BY <1>6 DEF SkipEntry, Go
  <2> HIDE DEF s
  <2>4. /\ j \in Jobs /\ j.st = "next" /\ j.env = job[u].env /\ j.data = job[u].data
        /\ j.k = job[u].k + 1
    BY <1>1, <1>2, <2>2 DEF Jobs
  <2> HIDE DEF j
  <2>5. RosterKept => /\ j.data = roll' /\ Fits(j) /\ Placed(j, creds', confs', struck')
                      /\ Singular(roll') /\ Backed(roll', creds', confs')
    BY <1>2, <1>4, <2>4, FitsNext DEF Placed, Stores
  <2>6. TransferInv'
    BY <1>1, <1>4, <2>3, <2>4, <2>5, GoesOn DEF InHand, Stores
  <2> QED
    BY <1>5, <2>6
<1>7. CASE PlanEntry(u)
  <2> DEFINE n == TargetSlot(job[u].data, Entry(u))
             j == [job[u] EXCEPT !.st = "creds", !.slot = n]
  <2>1. n \in SlotNum /\ Chosen(job[u].data, Entry(u).id, n)
    BY <1>2, <1>3, <1>7, TargetIs DEF PlanEntry
  <2>2. job' = [job EXCEPT ![u] = j]
    BY <1>7 DEF PlanEntry, Go
  <2>3. n \in 0 .. MaxSlot
    BY <2>1, TransferConstants
  <2> HIDE DEF n
  <2>4. /\ j \in Jobs /\ j.st = "creds" /\ j.env = job[u].env /\ j.data = job[u].data
        /\ j.k = job[u].k /\ j.slot = n
    BY <1>2, <2>3 DEF Jobs, Importing, Stores
  <2> HIDE DEF j
  <2>5. Placed(j, creds', confs', struck')
    BY <2>1, <2>4 DEF Placed, Entry
  <2>6. RosterKept => /\ j.data = roll' /\ Fits(j)
                      /\ Singular(roll') /\ Backed(roll', creds', confs')
    BY <1>2, <1>4, <2>4, FitsNext
  <2>7. TransferInv'
    BY <1>1, <1>3, <1>4, <2>1, <2>2, <2>4, <2>5, <2>6, GoesOn DEF Importing, Stores, InHand
  <2> QED
    BY <1>5, <2>7
<1> QED
  BY <1>6, <1>7

\* The writes of an entry's backup.
LEMMA BackupOK ==
  ASSUME TransferInv, NEW u \in User,
         WriteAccountCredentials(u) \/ WriteAccountConfig(u) \/ LiftVerdict(u)
  PROVE  TransferInv' /\ Changes
<1>1. job[u].st \in Stores /\ job[u].st \in Importing
  BY DEF WriteAccountCredentials, WriteAccountConfig, LiftVerdict, Importing, Stores
<1>2. /\ TransferTypes /\ job[u] \in Jobs
      /\ job[u].env.accounts \in Seq(Accounts) /\ job[u].k \in DOMAIN job[u].env.accounts
      /\ job[u].slot \in SlotNum
      /\ RosterKept => /\ job[u].data = roll /\ Fits(job[u]) /\ Placed(job[u], creds, confs, struck)
                       /\ Singular(roll) /\ Backed(roll, creds, confs)
  BY <1>1, ImportKnows DEF InHand
<1> DEFINE n == job[u].slot
           o == Entry(u).id
<1>3. /\ UNCHANGED <<roll, lead, gate, pack, maps, torn>>
      /\ roll \in Books /\ lead \in 0 .. MaxSlot /\ creds \in [SlotNum -> SUBSET Owner]
      /\ confs \in [SlotNum -> SUBSET Owner] /\ struck \in [SlotNum -> SUBSET Owner]
  BY <1>2 DEF WriteAccountCredentials, WriteAccountConfig, LiftVerdict, backups, TransferTypes
<1>4. Changes
  BY <1>3 DEF Changes
<1>5. PICK s \in {"config", "verdict", "record"} : job' = [job EXCEPT ![u] = [job[u] EXCEPT !.st = s]]
  BY DEF WriteAccountCredentials, WriteAccountConfig, LiftVerdict, Go
<1> DEFINE j == [job[u] EXCEPT !.st = s]
<1>6. /\ j \in Jobs /\ j.st = s /\ j.env = job[u].env /\ j.data = job[u].data /\ j.k = job[u].k
      /\ j.slot = n /\ job' = [job EXCEPT ![u] = j]
  BY <1>2, <1>5 DEF Jobs, Importing, Stores
<1>7. RosterKept => Fits(j)
  BY <1>2, <1>6, FitsNext
<1> HIDE DEF j
<1>8. \/ job[u].st = "creds" /\ s = "config" /\ creds' = [creds EXCEPT ![n] = @ \cup {o}]
         /\ UNCHANGED <<confs, struck>>
      \/ job[u].st = "config" /\ s = "verdict" /\ confs' = [confs EXCEPT ![n] = @ \cup {o}]
         /\ UNCHANGED <<creds, struck>>
      \/ job[u].st = "verdict" /\ s = "record" /\ struck' = [struck EXCEPT ![n] = @ \ {o}]
         /\ UNCHANGED <<creds, confs>>
  <2>1. job'[u].st = s
    BY <1>2, <1>6 DEF TransferTypes
  <2>2. \A x : job' = [job EXCEPT ![u] = [job[u] EXCEPT !.st = x]] => s = x
    BY <1>2, <2>1 DEF TransferTypes, Jobs
  <2> QED
    BY <2>2 DEF WriteAccountCredentials, WriteAccountConfig, LiftVerdict, Go
<1>9. ASSUME RosterKept
      PROVE  Placed(j, creds', confs', struck') /\ Backed(roll', creds', confs')
  <2>1. /\ Chosen(job[u].data, o, n) /\ o = job[u].env.accounts[job[u].k].id
        /\ job[u].st # "creds" => o \in creds[n]
        /\ job[u].st \in {"verdict", "record"} => o \in confs[n]
    BY <1>1, <1>2, <1>9 DEF Placed, Entry
  <2>3. \A m \in SlotNum : creds[m] \subseteq creds'[m] /\ confs[m] \subseteq confs'[m]
    BY <1>3, <1>8, <2>1
  <2>4. Backed(roll', creds', confs')
    BY <1>2, <1>3, <1>9, <2>3 DEF Backed
  <2>5. /\ s # "creds" => o \in creds'[n]
        /\ s \in {"verdict", "record"} => o \in confs'[n]
        /\ s = "record" => o \notin struck'[n]
    BY <1>2, <1>3, <1>8, <2>1, <2>3
  <2> QED
    BY <1>6, <2>1, <2>4, <2>5 DEF Placed
<1>10. /\ creds' \in [SlotNum -> SUBSET Owner] /\ confs' \in [SlotNum -> SUBSET Owner]
       /\ struck' \in [SlotNum -> SUBSET Owner]
  <2>1. o \in Owner
    BY <1>2, EntryIs DEF Entry, Accounts
  <2> HIDE DEF o
  <2> QED
    BY <1>2, <1>3, <1>8, <2>1
<1>11. TransferInv'
  BY <1>1, <1>2, <1>3, <1>6, <1>7, <1>9, <1>10, GoesOn DEF Importing, Stores, InHand
<1> QED
  BY <1>4, <1>11
\* The record of an entry is committed.
LEMMA RecordOK ==
  ASSUME TransferInv, NEW u \in User, WriteRecord(u)
  PROVE  TransferInv' /\ (torn' \/ Changes)
<1> DEFINE n == job[u].slot
           e == Entry(u)
           b == [job[u].data EXCEPT ![n] = [id |-> e.id, alias |-> e.alias]]
           s == Seed(u, n)
           j == [job[u] EXCEPT !.st = "next", !.data = b, !.k = job[u].k + 1, !.seed = s]
<1>1. job[u].st = "record" /\ job[u].st \in Stores /\ job[u].st \in Importing
  BY DEF WriteRecord, Importing, Stores
<1>2. /\ TransferTypes /\ job[u] \in Jobs /\ job[u].data \in Books
      /\ job[u].env.accounts \in Seq(Accounts) /\ job[u].k \in DOMAIN job[u].env.accounts
      /\ job[u].k \in Nat \ {0} /\ n \in SlotNum
      /\ RosterKept => /\ job[u].data = roll /\ Fits(job[u]) /\ Placed(job[u], creds, confs, struck)
                       /\ Singular(roll) /\ Backed(roll, creds, confs)
  BY <1>1, ImportKnows DEF InHand
<1>3. /\ UNCHANGED <<creds, confs, struck, gate, pack, maps, torn>> /\ roll' = b
      /\ lead' = job[u].lead /\ lead' \in 0 .. MaxSlot /\ creds \in [SlotNum -> SUBSET Owner]
      /\ confs \in [SlotNum -> SUBSET Owner] /\ struck \in [SlotNum -> SUBSET Owner]
  BY <1>2 DEF WriteRecord, backups, TransferTypes, Jobs
<1>4. e \in Accounts /\ e = job[u].env.accounts[job[u].k]
  BY <1>2, EntryIs DEF Entry
<1>5. /\ b \in Books /\ b[n].id = e.id /\ b[n].alias = e.alias
      /\ \A m \in SlotNum \ {n} : b[m] = job[u].data[m]
  BY <1>2, <1>4 DEF Books, Rows, Accounts
<1>6. s \in 0 .. MaxSlot /\ job[u].k + 1 \in Nat \ {0}
  BY <1>2, TransferConstants DEF Seed, Jobs
<1>7. job' = [job EXCEPT ![u] = j]
  BY DEF WriteRecord, Go
<1> HIDE DEF s, b
<1>8. /\ j \in Jobs /\ j.st = "next" /\ j.env = job[u].env /\ j.data = b /\ j.k = job[u].k + 1
  BY <1>2, <1>5, <1>6 DEF Jobs, Importing
<1> HIDE DEF j, e, n
<1>9. ASSUME RosterKept
      PROVE  /\ Fits(j) /\ Singular(b) /\ Backed(b, creds, confs)
             /\ e.id \notin struck[n] /\ (roll[n] # Vacant => roll[n].id = e.id)
  <2>1. /\ Chosen(roll, e.id, n) /\ e.id \in creds[n] \cap confs[n] /\ e.id \notin struck[n]
        /\ job[u].data = roll
    BY <1>1, <1>2, <1>4, <1>9 DEF Placed, n
  <2>2. \A m \in SlotNum \ {n} : b[m] = roll[m]
    BY <1>5, <2>1
  <2>3. \A m \in SlotNum \ {n} : roll[m].id # e.id
    <3>1. CASE roll[n] # Vacant
      BY <1>2, <1>9, <2>1, <3>1 DEF Chosen, Singular, n
    <3>2. CASE roll[n] = Vacant
      <4>1. e.id # NoOwner /\ Vacant.id = NoOwner
        BY <1>4, TransferConstants DEF Accounts, Vacant
      <4> QED
        BY <2>1, <3>2, <4>1 DEF Chosen
    <3> QED
      BY <3>1, <3>2
  <2>4. e.alias # NoAlias => \A m \in SlotNum \ {n} : roll[m].alias # e.alias
    <3>1. job[u].k >= job[u].k
      BY <1>2
    <3> QED
      BY <1>2, <1>4, <1>9, <2>1, <2>3, <3>1 DEF Fits
  <2>5. Singular(b)
    <3> SUFFICES ASSUME NEW i \in SlotNum, b[i] # Vacant, NEW m \in SlotNum \ {i}
                 PROVE  b[m].id # b[i].id /\ (b[i].alias # NoAlias => b[m].alias # b[i].alias)
      BY DEF Singular
    <3>1. CASE i = n
      BY <1>5, <2>2, <2>3, <2>4, <3>1
    <3>2. CASE m = n
      BY <1>5, <2>2, <2>3, <2>4, <3>2
    <3>3. CASE i # n /\ m # n
      BY <1>2, <1>9, <2>2, <3>3 DEF Singular
    <3> QED
      BY <3>1, <3>2, <3>3
  <2>6. Backed(b, creds, confs)
    BY <1>2, <1>5, <1>9, <2>1, <2>2 DEF Backed
  <2>7. Fits(j)
    <3> SUFFICES ASSUME NEW i \in DOMAIN job[u].env.accounts, i >= job[u].k + 1
                 PROVE  LET es == job[u].env.accounts IN
                        /\ es[i].alias # NoAlias =>
                             \A m \in SlotNum : b[m].alias = es[i].alias => b[m].id = es[i].id
                        /\ \A h \in DOMAIN es : h # i =>
                             es[h].id # es[i].id /\ (es[i].alias # NoAlias => es[h].alias # es[i].alias)
      BY <1>8 DEF Fits
    <3>1. i >= job[u].k /\ i # job[u].k
      BY <1>2
    <3>2. /\ job[u].env.accounts[i].alias # NoAlias =>
               \A m \in SlotNum : roll[m].alias = job[u].env.accounts[i].alias
                                  => roll[m].id = job[u].env.accounts[i].id
          /\ \A h \in DOMAIN job[u].env.accounts : h # i =>
               /\ job[u].env.accounts[h].id # job[u].env.accounts[i].id
               /\ job[u].env.accounts[i].alias # NoAlias =>
                    job[u].env.accounts[h].alias # job[u].env.accounts[i].alias
      BY <1>2, <1>9, <2>1, <3>1 DEF Fits
    <3>3. job[u].env.accounts[i].alias # NoAlias => b[n].alias # job[u].env.accounts[i].alias
      BY <1>2, <1>4, <1>5, <3>1, <3>2
    <3> QED
      BY <2>2, <3>2, <3>3
  <2>8. roll[n] # Vacant => roll[n].id = e.id
    BY <2>1 DEF Chosen
  <2> QED
    BY <2>1, <2>5, <2>6, <2>7, <2>8
<1>10. TransferInv'
  BY <1>1, <1>3, <1>5, <1>7, <1>8, <1>9, GoesOn DEF InHand, Placed, Importing, Stores
<1>11. ASSUME ~torn' PROVE Changes
  <2>1. RosterKept
    BY <1>3, <1>11 DEF TransferInv
  <2> QED
    BY <1>2, <1>3, <1>5, <1>9, <2>1 DEF Changes
<1> QED
  BY <1>10, <1>11

\* The end of an import: what it writes is the roster as it is.
LEMMA EndImportOK ==
  ASSUME TransferInv, NEW u \in User, EndImport(u)
  PROVE  TransferInv' /\ (torn' \/ Changes)
<1>1. job[u].st \in Importing
  BY DEF EndImport, Importing
<1>2. /\ TransferTypes /\ job[u] \in Jobs /\ job[u].data \in Books
      /\ RosterKept => job[u].data = roll
  BY <1>1, ImportKnows
<1>3. /\ UNCHANGED <<creds, confs, struck, pack, maps, torn>> /\ roll' \in {job[u].data, roll}
      /\ lead' \in {job[u].seed, lead} /\ job' = [job EXCEPT ![u] = NoJob] /\ Release(u)
  BY DEF EndImport, backups, Go
<1>4. /\ roll' \in Books /\ lead' \in 0 .. MaxSlot /\ pack' \in Envelope /\ maps' \in Mappings
      /\ RosterKept => roll' = roll
  BY <1>2, <1>3 DEF TransferTypes, Jobs
<1>5. NoJob \in Jobs /\ NoJob.st = "none"
  BY TransferConstants DEF NoJob
<1>6. TransferInv'
  BY <1>3, <1>4, <1>5, StaysAway DEF Importing, Stores, Sweeping
<1> QED
  BY <1>3, <1>4, <1>6 DEF TransferInv, Changes

\* A removal takes the account and its backup in one step, while nobody has the lock.
LEMMA RemoveOK ==
  ASSUME TransferInv, NEW u \in User, NEW n \in SlotNum, RemoveAccount(u, n)
  PROVE  TransferInv' /\ Changes
<1> DEFINE o == roll[n].id
           j == [NoJob EXCEPT !.st = "prune", !.id = o]
<1>1. /\ TransferTypes /\ roll \in Books /\ gate = Unheld /\ job' = [job EXCEPT ![u] = j]
      /\ roll' = [roll EXCEPT ![n] = Vacant] /\ creds' = [creds EXCEPT ![n] = @ \ {o}]
      /\ confs' = [confs EXCEPT ![n] = @ \ {o}]
      /\ UNCHANGED <<lead, struck, gate, pack, maps, torn>>
  BY DEF TransferInv, TransferTypes, RemoveAccount, Starts
<1>2. o \in Owner \cup {NoOwner}
  BY <1>1 DEF Books, Rows, Vacant
<1>3. j \in Jobs /\ j.st = "prune"
  BY <1>2, TransferConstants DEF Jobs, NoJob
<1> HIDE DEF j
<1>4. TransferTypes'
  <2>1. roll' \in Books /\ roll'[n] = Vacant /\ \A m \in SlotNum \ {n} : roll'[m] = roll[m]
    BY <1>1, TransferConstants DEF Books
  <2>2. creds' \in [SlotNum -> SUBSET Owner] /\ confs' \in [SlotNum -> SUBSET Owner]
    BY <1>1 DEF TransferTypes
  <2>3. job' \in [User -> Jobs] /\ \A v \in User : InHand(job'[v])
    BY <1>1, <1>3 DEF TransferTypes, InHand, Stores
  <2> QED
    BY <1>1, <2>1, <2>2, <2>3 DEF TransferTypes
<1>5. /\ roll'[n] = Vacant /\ roll[n].id \notin creds'[n]
      /\ \A m \in SlotNum \ {n} : roll'[m] = roll[m] /\ creds'[m] = creds[m] /\ confs'[m] = confs[m]
  BY <1>1 DEF TransferTypes, Books
<1>6. Changes
  BY <1>5 DEF Changes
<1>7. ASSUME ~torn' PROVE RosterKept'
  <2>1. RosterKept
    BY <1>1, <1>7 DEF TransferInv
  <2>2. Singular(roll')
    <3> SUFFICES ASSUME NEW i \in SlotNum, roll'[i] # Vacant, NEW m \in SlotNum \ {i}
                 PROVE  /\ roll'[m].id # roll'[i].id
                        /\ roll'[i].alias # NoAlias => roll'[m].alias # roll'[i].alias
      BY DEF Singular
    <3>1. i # n /\ roll'[i] = roll[i]
      BY <1>5
    <3>2. roll[i] \in Rows /\ roll[i].id # NoOwner
      BY <1>1, <1>5, <3>1, TransferConstants DEF Books, Rows
    <3>3. CASE m = n
      BY <1>5, <3>1, <3>2, <3>3 DEF Vacant
    <3>4. CASE m # n
      BY <1>5, <2>1, <3>1, <3>4 DEF RosterKept, Singular
    <3> QED
      BY <3>3, <3>4
  <2>3. Backed(roll', creds', confs')
    BY <1>5, <2>1 DEF RosterKept, Backed
  <2>4. Sole(u, j, gate', roll') /\ Placed(j, creds', confs', struck')
    BY <1>3 DEF Sole, Placed, Importing, Stores, Sweeping
  <2> QED
    BY <1>1, <2>1, <2>2, <2>3, <2>4, OthersRest
<1> QED
  BY <1>4, <1>6, <1>7 DEF TransferInv

\* The steps of a purge: nothing is promised until it ends with nobody else in the store.
LEMMA PurgeOK ==
  ASSUME TransferInv, NEW u \in User, ConfirmPurge(u) \/ SweepCredentials(u) \/ RemoveBackupDir(u)
  PROVE  TransferInv' /\ (torn' \/ Changes)
<1>1. TransferTypes /\ job[u] \in Jobs /\ roll \in Books
  BY DEF TransferInv, TransferTypes
<1>2. NoJob \in Jobs /\ NoJob.st = "none"
  BY TransferConstants DEF NoJob
<1>3. CASE ConfirmPurge(u)
  <2> DEFINE j == [job[u] EXCEPT !.st = "sweep", !.data = roll]
  <2>1. j \in Jobs /\ j.st = "sweep" /\ job' = [job EXCEPT ![u] = j]
    BY <1>1, <1>3 DEF ConfirmPurge, Go, Jobs, Sweeping
  <2> HIDE DEF j
  <2>2. job' \in [User -> Jobs] /\ \A v \in User : InHand(job'[v])
    BY <1>1, <2>1 DEF TransferTypes, InHand, Stores
  <2>3. TransferTypes' /\ torn'
    BY <1>1, <1>3, <2>2 DEF ConfirmPurge, backups, TransferTypes
  <2> QED
    BY <2>3 DEF TransferInv
<1>4. CASE SweepCredentials(u)
  <2> DEFINE j == [job[u] EXCEPT !.st = "rmdir"]
  <2>1. j \in Jobs /\ j.st = "rmdir" /\ job' = [job EXCEPT ![u] = j]
    BY <1>1, <1>4 DEF SweepCredentials, Go, Jobs, Sweeping
  <2> HIDE DEF j
  <2>2. job' \in [User -> Jobs] /\ \A v \in User : InHand(job'[v])
    BY <1>1, <2>1 DEF TransferTypes, InHand, Stores
  <2>3. creds' \in [SlotNum -> SUBSET Owner]
    BY <1>1, <1>4 DEF SweepCredentials, TransferTypes
  <2>4. TransferTypes' /\ torn' = torn
    BY <1>1, <1>4, <2>2, <2>3 DEF SweepCredentials, TransferTypes
  <2>5. torn
    BY <1>4 DEF TransferInv, RosterKept, Sole, Sweeping, SweepCredentials
  <2> QED
    BY <2>4, <2>5 DEF TransferInv
<1>5. CASE RemoveBackupDir(u)
  <2>1. /\ roll' = NoBook /\ lead' = 0 /\ creds' = [n \in SlotNum |-> {}] /\ confs' = creds'
        /\ struck' = creds' /\ maps' = [d \in Dirs |-> NoOwner] /\ gate' = Unheld /\ pack' = pack
        /\ job' = [job EXCEPT ![u] = NoJob]
        /\ torn' = \E v \in User \ {u} : job[v].st \in Importing \cup Sweeping
    BY <1>5 DEF RemoveBackupDir, Go, Importing, Stores, Sweeping
  <2>2. job' \in [User -> Jobs] /\ \A v \in User : InHand(job'[v])
    BY <1>1, <1>2, <2>1 DEF TransferTypes, InHand, Stores
  <2>3. creds' \in [SlotNum -> SUBSET Owner] /\ maps' \in Mappings /\ torn' \in BOOLEAN
    BY <2>1 DEF Mappings
  <2>4. TransferTypes'
    BY <1>1, <2>1, <2>2, <2>3, TransferConstants DEF TransferTypes
  <2>5. \A n \in SlotNum : roll'[n] = Vacant /\ creds'[n] = {}
    BY <2>1 DEF NoBook
  <2>6. Singular(roll') /\ Backed(roll', creds', confs') /\ Changes
    BY <2>5 DEF Singular, Backed, Changes
  <2>7. ASSUME ~torn' PROVE RosterKept'
    <3>1. \A v \in User : job'[v].st \notin Importing \cup Sweeping
      BY <1>1, <1>2, <2>1, <2>7 DEF TransferTypes, Importing, Stores, Sweeping
    <3>2. \A v \in User : Sole(v, job'[v], gate', roll') /\ Placed(job'[v], creds', confs', struck')
      BY <3>1 DEF Sole, Placed, Importing
    <3> QED
      BY <2>6, <3>2 DEF RosterKept
  <2> QED
    BY <2>4, <2>6, <2>7 DEF TransferInv
<1> QED
  BY <1>3, <1>4, <1>5

LEMMA TransferStep == TransferInv /\ [TransferNext]_transferVars => TransferInv' /\ (torn' \/ Changes)
<1> SUFFICES ASSUME TransferInv, [TransferNext]_transferVars PROVE TransferInv' /\ (torn' \/ Changes)
  OBVIOUS
<1>1. CASE UNCHANGED <<roll, lead, creds, confs, struck, gate, pack, job, maps, torn>>
  BY <1>1 DEF TransferInv, TransferTypes, RosterKept, Changes
<1>2. ASSUME NEW u \in User,
             \/ \E force \in BOOLEAN : StartImport(u, force)
             \/ \E n \in 0 .. MaxSlot : StartExport(u, n)
             \/ \E d \in Dirs, o \in Owner \cup {NoOwner} : StartMap(u, d, o)
             \/ ExportEntry(u) \/ WriteExport(u) \/ AskPurge(u) \/ PruneAccount(u)
             \/ WriteMappings(u) \/ Stops(u)
      PROVE  TransferInv' /\ Changes
  BY <1>2, AwaySteps
<1>3. CASE \E u \in User : LockImport(u)
  BY <1>3, LockImportOK
<1>4. CASE \E u \in User : SkipEntry(u) \/ PlanEntry(u)
  BY <1>4, EntryOK
<1>5. CASE \E u \in User : WriteAccountCredentials(u) \/ WriteAccountConfig(u) \/ LiftVerdict(u)
  BY <1>5, BackupOK
<1>6. CASE \E u \in User : WriteRecord(u)
  BY <1>6, RecordOK
<1>7. CASE \E u \in User : EndImport(u)
  BY <1>7, EndImportOK
<1>8. CASE \E u \in User, n \in SlotNum : RemoveAccount(u, n)
  BY <1>8, RemoveOK
<1>9. CASE \E u \in User : ConfirmPurge(u) \/ SweepCredentials(u) \/ RemoveBackupDir(u)
  BY <1>9, PurgeOK
<1>10. CASE SessionEnds \/ \E d \in Dirs : RunIn(d)
  BY <1>1, <1>10 DEF SessionEnds, RunIn, backups
<1>11. CASE UNCHANGED transferVars
  BY <1>1, <1>11 DEF transferVars
<1> QED
  BY <1>2, <1>3, <1>4, <1>5, <1>6, <1>7, <1>8, <1>9, <1>10, <1>11, Zenon DEF TransferNext

\* However imports, removals, exports and purges overlap, fail and die, and outside a purge that
\* meets an import or is cut short, the roster names no identity and no alias twice, has both
\* halves of every account's backup, loses an account only with its backup, and an imported
\* record carries no old verdict (import.go Import).
THEOREM RosterWhole == TransferSpec => RosterStaysWhole
<1>1. TransferInv' /\ (torn' \/ Changes) => KeepsWhole
  BY DEF TransferInv, RosterKept, Singular, Backed, Changes, KeepsWhole
<1>2. TransferInv /\ [TransferNext]_transferVars => [KeepsWhole]_transferVars
  BY <1>1, TransferStep
<1>3. TransferInv /\ [TransferNext]_transferVars => TransferInv'
  BY TransferStep
<1> QED
  BY <1>2, <1>3, TransferStart, PTL DEF TransferSpec, RosterStaysWhole

\* The transfer model's state has its types (transfer, purge.go, mappings.go).
THEOREM TransferTyped == TransferSpec => []TransferTypeOK
<1>1. TransferInv => TransferTypeOK
  BY TransferConstants DEF TransferInv, TransferTypes, TransferTypeOK, Books, Jobs, Mappings
<1>2. TransferInv /\ [TransferNext]_transferVars => TransferInv'
  BY TransferStep
<1> QED
  BY <1>1, <1>2, TransferStart, PTL DEF TransferSpec
-----------------------------------------------------------------------------
(* The settings in force.                                                    *)

\* In range, or the NaN that a flag is itself.
Permitted(k, v, flags) == InRange(SettingSpecs[k], v) \/ (v = NaN /\ k \in DOMAIN flags /\ flags[k] = NaN)

SettingsInv ==
  /\ DOMAIN edit = Setter /\ edits \in 0 .. MaxEdits /\ DOMAIN inForce = Setting
  /\ \A k \in DOMAIN Keys(file) : JSONValue(Keys(file)[k])
  /\ \A s \in Setter : \A k \in DOMAIN Keys(edit[s]) :
       Keys(edit[s])[k] = NaN \/ JSONValue(Keys(edit[s])[k])
  /\ \A k \in Setting : Permitted(k, inForce[k], given)

LEMMA SettingIs ==
  /\ Setting = {"threshold", "unhealthyTicks", "strategy", "includeApiKeyAccounts", "model"}
  /\ SettingSpecs["threshold"] = [kind |-> "float", lo |-> 50, hi |-> 99, default |-> Number(90)]
  /\ SettingSpecs["unhealthyTicks"] = [kind |-> "int", lo |-> 1, hi |-> 100, default |-> Number(3)]
  /\ SettingSpecs["strategy"] = [kind |-> "choice", choices |-> {"best", "soonest-reset"},
                                 default |-> Text("best")]
  /\ SettingSpecs["includeApiKeyAccounts"] = [kind |-> "bool", default |-> Bool(FALSE)]
  /\ SettingSpecs["model"] = [kind |-> "string", default |-> Null]
BY DEF Setting, SettingSpecs

\* Whatever JSON holds is brought into range, key by key.
LEMMA ClampInRange ==
  ASSUME NEW k \in Setting, NEW v, JSONValue(v)
  PROVE  InRange(SettingSpecs[k], ClampValue(SettingSpecs[k], v))
<1>1. CASE k = "threshold"
  <2>1. ClampValue(SettingSpecs[k], v) = ClampNumber(SettingSpecs[k], v)
    BY <1>1, SettingIs DEF ClampValue
  <2>2. CASE v[1] = "number" /\ v[2] \in Int
    BY <1>1, <2>1, <2>2, SettingIs DEF ClampNumber, InRange, Number
  <2>3. CASE v = Null \/ v[1] \in {"text", "bool"}
    BY <1>1, <2>1, <2>3, SettingIs DEF ClampNumber, InRange, Number, Null
  <2> QED
    BY <2>2, <2>3 DEF JSONValue
<1>2. CASE k = "unhealthyTicks"
  <2>1. ClampValue(SettingSpecs[k], v) = ClampNumber(SettingSpecs[k], v)
    BY <1>2, SettingIs DEF ClampValue
  <2>2. CASE v[1] = "number" /\ v[2] \in Int
    BY <1>2, <2>1, <2>2, SettingIs DEF ClampNumber, InRange, Number
  <2>3. CASE v = Null \/ v[1] \in {"text", "bool"}
    BY <1>2, <2>1, <2>3, SettingIs DEF ClampNumber, InRange, Number, Null
  <2> QED
    BY <2>2, <2>3 DEF JSONValue
<1>3. CASE k = "strategy"
  BY <1>3, SettingIs DEF ClampValue, InRange, Text
<1>4. CASE k = "includeApiKeyAccounts"
  BY <1>4, SettingIs DEF ClampValue, InRange, Bool
<1>5. CASE k = "model"
  <2> DEFINE c == IF v[1] = "text" /\ v # Text("") THEN v ELSE Null
  <2>1. ClampValue(SettingSpecs[k], v) = c
    BY <1>5, SettingIs DEF ClampValue
  <2>2. InRange(SettingSpecs[k], c) <=> c = Null \/ (c[1] = "text" /\ c # Text(""))
    BY <1>5, SettingIs DEF InRange
  <2> QED
    BY <2>1, <2>2
<1> QED
  BY <1>1, <1>2, <1>3, <1>4, <1>5, SettingIs

\* A value in range is one that JSON can hold.
LEMMA InRangeIsJSON ==
  ASSUME NEW k \in Setting, NEW v, InRange(SettingSpecs[k], v)
  PROVE  JSONValue(v)
<1>1. CASE k = "threshold"
  <2>1. v[1] = "number" /\ v[2] \in 50 .. 99
    BY <1>1, SettingIs DEF InRange
  <2> QED
    BY <2>1 DEF JSONValue
<1>2. CASE k = "unhealthyTicks"
  <2>1. v[1] = "number" /\ v[2] \in 1 .. 100
    BY <1>2, SettingIs DEF InRange
  <2> QED
    BY <2>1 DEF JSONValue
<1>3. CASE k = "strategy"
  <2>1. v[1] = "text"
    BY <1>3, SettingIs DEF InRange
  <2> QED
    BY <2>1 DEF JSONValue
<1>4. CASE k = "includeApiKeyAccounts"
  <2>1. v[1] = "bool"
    BY <1>4, SettingIs DEF InRange
  <2> QED
    BY <2>1 DEF JSONValue
<1>5. CASE k = "model"
  <2> DEFINE spec == SettingSpecs[k]
  <2>2. spec.kind = "string"
    BY <1>5, SettingIs
  <2>3. InRange(spec, v)
    OBVIOUS
  <2> HIDE DEF spec
  <2>1. v = Null \/ v[1] = "text"
    BY <2>2, <2>3 DEF InRange
  <2> QED
    BY <2>1 DEF JSONValue
<1> QED
  BY <1>1, <1>2, <1>3, <1>4, <1>5, SettingIs

LEMMA DefaultIs == DOMAIN Default = Setting /\ \A k \in Setting : InRange(SettingSpecs[k], Default[k])
BY DefaultsInRange DEF Default

\* Loading any file gives settings in range.
LEMMA LoadInRange ==
  ASSUME NEW f, \A k \in DOMAIN Keys(f) : JSONValue(Keys(f)[k])
  PROVE  DOMAIN Load(f) = Setting /\ \A k \in Setting : InRange(SettingSpecs[k], Load(f)[k])
<1>1. CASE f.state # "object"
  BY <1>1, DefaultIs DEF Load
<1>2. CASE f.state = "object"
  <2> DEFINE o == Overlaid(Default, Keys(f))
  <2>1. Load(f) = Clamp(o)
    BY <1>2 DEF Load
  <2>2. ASSUME NEW k \in Setting PROVE JSONValue(o[k])
    BY DefaultIs, InRangeIsJSON DEF Overlaid
  <2> QED
    BY <2>1, <2>2, ClampInRange DEF Clamp
<1> QED
  BY <1>1, <1>2

\* A flag brings nothing out of range but the NaN it may be itself.
LEMMA MergedInRange ==
  ASSUME NEW s, NEW flags,
         DOMAIN s = Setting, \A k \in Setting : InRange(SettingSpecs[k], s[k]),
         \A k \in DOMAIN flags : JSONValue(flags[k]) \/ (k = "threshold" /\ flags[k] = NaN)
  PROVE  /\ DOMAIN MergedWithCLI(s, flags) = Setting
         /\ \A k \in Setting : Permitted(k, MergedWithCLI(s, flags)[k], flags)
<1>1. CASE DOMAIN flags = {}
  BY <1>1 DEF MergedWithCLI, Permitted
<1>2. CASE DOMAIN flags # {}
  <2> DEFINE o == Overlaid(s, flags)
  <2>1. MergedWithCLI(s, flags) = Clamp(o)
    BY <1>2 DEF MergedWithCLI
  <2>2. ASSUME NEW k \in Setting
        PROVE  JSONValue(o[k]) \/ (k = "threshold" /\ o[k] = NaN /\ k \in DOMAIN flags /\ flags[k] = NaN)
    BY InRangeIsJSON DEF Overlaid
  <2>3. ClampValue(SettingSpecs["threshold"], NaN) = NaN
    BY SettingIs DEF ClampValue, ClampNumber, NaN
  <2> HIDE DEF o
  <2> QED
    BY <2>1, <2>2, <2>3, ClampInRange DEF Clamp, Permitted
<1> QED
  BY <1>1, <1>2

LEMMA SettingsStart == SettingsInit => SettingsInv
<1>1. Keys(Absent) = <<>> /\ Keys(Idling) = <<>> /\ DOMAIN <<>> = {}
  BY DEF Keys, Absent, Idling
<1> SUFFICES ASSUME SettingsInit PROVE SettingsInv
  OBVIOUS
<1>2. DOMAIN edit = Setter /\ edits \in 0 .. MaxEdits /\ \A s \in Setter : edit[s] = Idling
  BY SettingsAssumption DEF SettingsInit
<1>3. DOMAIN inForce = Setting /\ \A k \in Setting : InRange(SettingSpecs[k], inForce[k])
  BY DefaultIs DEF SettingsInit
<1>4. \A k \in DOMAIN Keys(file) : JSONValue(Keys(file)[k])
  BY <1>1 DEF SettingsInit
<1>5. \A s \in Setter : \A k \in DOMAIN Keys(edit[s]) :
        Keys(edit[s])[k] = NaN \/ JSONValue(Keys(edit[s])[k])
  BY <1>1, <1>2
<1>6. \A k \in Setting : Permitted(k, inForce[k], given)
  BY <1>3 DEF Permitted
<1> QED
  BY <1>2, <1>3, <1>4, <1>5, <1>6 DEF SettingsInv

\* What a command parses is NaN or can be in JSON, or is refused.
LEMMA ParsedIs ==
  ASSUME NEW k \in Setting, NEW t \in DOMAIN Numeral \cup Words,
         ParseSettingValue(SettingSpecs[k], t) # Refused
  PROVE  ParseSettingValue(SettingSpecs[k], t) = NaN \/ JSONValue(ParseSettingValue(SettingSpecs[k], t))
<1>1. CASE k \in {"threshold", "unhealthyTicks"}
  <2>1. t \in DOMAIN Numeral /\ ParseSettingValue(SettingSpecs[k], t) = Numeral[t]
    <3> DEFINE spec == SettingSpecs[k]
    <3>1. spec.kind \in {"float", "int"}
      BY <1>1, SettingIs
    <3> HIDE DEF spec
    <3>2. ParseSettingValue(spec, t) \in {Numeral[t], Refused}
          /\ (ParseSettingValue(spec, t) # Refused => t \in DOMAIN Numeral)
      BY <3>1 DEF ParseSettingValue
    <3> QED
      BY <3>2 DEF spec
  <2>2. Numeral[t] = NaN \/ (Numeral[t] = Number(Numeral[t][2]) /\ Numeral[t][2] \in Int)
    BY <2>1, SettingsAssumption
  <2>3. \A i \in Int : JSONValue(Number(i))
    BY DEF JSONValue, Number
  <2> QED
    BY <2>1, <2>2, <2>3
<1>2. CASE k = "strategy"
  <2>1. ParseSettingValue(SettingSpecs[k], t) = Text(t)
    BY <1>2, SettingIs DEF ParseSettingValue
  <2> QED
    BY <2>1 DEF JSONValue, Text
<1>3. CASE k = "includeApiKeyAccounts"
  <2>1. ParseSettingValue(SettingSpecs[k], t) = Bool(t \in TrueWords)
    BY <1>3, SettingIs DEF ParseSettingValue
  <2> QED
    BY <2>1 DEF JSONValue, Bool
<1>4. CASE k = "model"
  <2> DEFINE spec == SettingSpecs[k]
  <2>3. spec.kind = "string"
    BY <1>4, SettingIs
  <2>4. ParseSettingValue(SettingSpecs[k], t) = ParseSettingValue(spec, t)
    OBVIOUS
  <2> HIDE DEF spec
  <2>1. ParseSettingValue(SettingSpecs[k], t) = IF t = "" THEN Refused ELSE Text(t)
    BY <2>3, <2>4 DEF ParseSettingValue
  <2>2. ParseSettingValue(SettingSpecs[k], t) = Text(t)
    BY <2>1
  <2> QED
    BY <2>2 DEF JSONValue, Text
<1> QED
  BY <1>1, <1>2, <1>3, <1>4, SettingIs

LEMMA SettingsStep == SettingsInv /\ [SettingsNext]_settingsVars => SettingsInv'
<1> SUFFICES ASSUME SettingsInv, [SettingsNext]_settingsVars PROVE SettingsInv'
  OBVIOUS
<1> USE DEF SettingsInv
<1>1. ASSUME NEW s \in Setter, NEW keys, ReadRawForWrite(s, keys),
             \A k \in DOMAIN keys : keys[k] = NaN \/ JSONValue(keys[k])
      PROVE  SettingsInv'
  <2>1. /\ edit' = [edit EXCEPT ![s] = Section(keys)] /\ edits' \in 0 .. MaxEdits
        /\ UNCHANGED <<file, inForce, given>>
    BY <1>1, SettingsAssumption DEF ReadRawForWrite
  <2>0. DOMAIN <<>> = {}
    OBVIOUS
  <2>2. \A k \in DOMAIN Keys(Section(keys)) :
          Keys(Section(keys))[k] = NaN \/ JSONValue(Keys(Section(keys))[k])
    <3>1. DOMAIN keys = {} => Keys(Section(keys)) = <<>>
      BY DEF Keys, Section
    <3>2. DOMAIN keys # {} => Keys(Section(keys)) = keys
      BY DEF Keys, Section
    <3> QED
      BY <1>1, <3>1, <3>2, <2>0
  <2>3. \A z \in Setter : edit'[z] = IF z = s THEN Section(keys) ELSE edit[z]
    BY <2>1
  <2> QED
    BY <2>1, <2>2, <2>3
<1>2. ASSUME NEW s \in Setter, NEW k \in Setting, NEW t \in DOMAIN Numeral \cup Words,
             SetSetting(s, k, t)
      PROVE  SettingsInv'
  <2> DEFINE value == ParseSettingValue(SettingSpecs[k], t)
             keys == [i \in DOMAIN Keys(file) \cup {k} |-> IF i = k THEN value ELSE Keys(file)[i]]
  <2>1. value # Refused /\ ReadRawForWrite(s, keys)
    BY <1>2 DEF SetSetting
  <2>2. value = NaN \/ JSONValue(value)
    BY <2>1, ParsedIs
  <2> HIDE DEF value
  <2>3. \A i \in DOMAIN keys : keys[i] = NaN \/ JSONValue(keys[i])
    BY <2>2
  <2> QED
    BY <1>1, <2>1, <2>3
<1>3. ASSUME NEW s \in Setter, NEW k \in Setting, UnsetSetting(s, k) PROVE SettingsInv'
  <2> DEFINE keys == Restrict(Keys(file), DOMAIN Keys(file) \ {k})
  <2>1. ReadRawForWrite(s, keys)
    BY <1>3 DEF UnsetSetting
  <2>2. \A i \in DOMAIN keys : keys[i] = NaN \/ JSONValue(keys[i])
    BY DEF Restrict
  <2> QED
    BY <1>1, <2>1, <2>2
<1>4. ASSUME NEW s \in Setter, WriteSettings(s) \/ WriteSettingsFails(s) PROVE SettingsInv'
  <2>1. edit' = [edit EXCEPT ![s] = Idling] /\ UNCHANGED <<inForce, given, edits>>
    BY <1>4 DEF WriteSettings, WriteSettingsFails
  <2>2. Keys(Idling) = <<>> /\ DOMAIN <<>> = {}
    BY DEF Keys, Idling
  <2>3. \A z \in Setter : edit'[z] = IF z = s THEN Idling ELSE edit[z]
    BY <2>1
  <2>4. \A k \in DOMAIN Keys(file') : JSONValue(Keys(file')[k])
    BY <1>4 DEF WriteSettings, WriteSettingsFails
  <2> QED
    BY <2>1, <2>2, <2>3, <2>4
<1>5. CASE HandEdit
  BY <1>5, SettingsAssumption DEF HandEdit
<1>6. CASE RunAuto
  <2>1. PICK flags \in {<<>>} \cup {[k \in {"threshold"} |-> Numeral[t]] : t \in DOMAIN Numeral}
                       \cup {[k \in {"includeApiKeyAccounts"} |-> Bool(TRUE)]}
                       \cup {[k \in {"model"} |-> Text(w)] : w \in Words} :
               /\ given' = flags /\ inForce' = MergedWithCLI(Load(file), flags)
               /\ UNCHANGED <<file, edit, edits>>
    BY <1>6 DEF RunAuto
  <2>2. \A k \in DOMAIN flags : JSONValue(flags[k]) \/ (k = "threshold" /\ flags[k] = NaN)
    <3>1. \A i \in Int : JSONValue(Number(i))
      BY DEF JSONValue, Number
    <3>2. JSONValue(Bool(TRUE)) /\ \A w : JSONValue(Text(w))
      BY DEF JSONValue, Bool, Text
    <3>3. ASSUME NEW t \in DOMAIN Numeral PROVE Numeral[t] = NaN \/ JSONValue(Numeral[t])
      BY <3>1, SettingsAssumption
    <3>4. CASE flags = <<>>
      BY <3>4
    <3>5. CASE \E t \in DOMAIN Numeral : flags = [k \in {"threshold"} |-> Numeral[t]]
      BY <3>3, <3>5
    <3>6. CASE flags = [k \in {"includeApiKeyAccounts"} |-> Bool(TRUE)]
      BY <3>2, <3>6
    <3>7. CASE \E w \in Words : flags = [k \in {"model"} |-> Text(w)]
      BY <3>2, <3>7
    <3> QED
      BY <2>1, <3>4, <3>5, <3>6, <3>7
  <2>3. DOMAIN Load(file) = Setting /\ \A k \in Setting : InRange(SettingSpecs[k], Load(file)[k])
    BY LoadInRange
  <2>4. DOMAIN inForce' = Setting /\ \A k \in Setting : Permitted(k, inForce'[k], given')
    <3> DEFINE s == Load(file)
    <3> HIDE DEF s
    <3>1. DOMAIN s = Setting /\ \A k \in Setting : InRange(SettingSpecs[k], s[k])
      BY <2>3 DEF s
    <3>2. given' = flags /\ inForce' = MergedWithCLI(s, flags)
      BY <2>1 DEF s
    <3> QED
      BY <2>2, <3>1, <3>2, MergedInRange
  <2> QED
    BY <2>1, <2>4
<1>7. CASE UNCHANGED settingsVars
  BY <1>7 DEF settingsVars
<1> QED
  BY <1>2, <1>3, <1>4, <1>5, <1>6, <1>7 DEF SettingsNext

\* Whatever is in the file and on the command line, and whatever edits overlap, the settings in
\* force lie in the registry's ranges, but for the flag --threshold nan (settings.go clampValue).
THEOREM SettingsInRange == SettingsSpec => []SettingsTypeOK
<1>1. SettingsInv => SettingsTypeOK
  BY LoadInRange DEF SettingsInv, SettingsTypeOK, Permitted
<1> QED
  BY <1>1, SettingsStart, SettingsStep, PTL DEF SettingsSpec

-----------------------------------------------------------------------------
(* What profiles share with the live configuration: any transcripts, servers *)
(* and launches, any number of failures and deaths.                          *)

Items == {"settings", "projects"}
\* A launch that has pruned, and one that has looked at the profile's settings.
Pruning == {"settings", "history", "merge", "link", "manifest"}
Kept == Pruning \ {"settings"}
Runs == [st : Pruning \cup {"rest", "mcp", "splice", "mark", "read", "prune"},
         share : BOOLEAN, hist : BOOLEAN, managed : SUBSET Items, kept : SUBSET Items]

SharingTypes ==
  /\ told \subseteq Script /\ home \subseteq Script
  /\ prof \in [kind : {"none", "link", "real"}, has : SUBSET Script]
  /\ prof.kind # "real" => prof.has = {}
  /\ own \in {"none", "link", "file"} /\ man \subseteq Items
  /\ mine \subseteq Server /\ theirs \subseteq Server /\ marker \in BOOLEAN
  /\ stash = NoStash \/ stash \subseteq Server
  /\ run \in [Shell -> Runs] /\ claude \in [Shell -> {"no", "new", "live"}]
  /\ raced \in BOOLEAN /\ cut \in BOOLEAN

\* At most one launch is under way.
AloneAtWork == \A s, z \in Shell : s # z => run[s].st = "rest" \/ run[z].st = "rest"

\* Every conversation is somewhere, and none begins where the link is to go.
HistoryKept ==
  /\ told \subseteq home \cup prof.has
  /\ \A s \in Shell : run[s].st = "link" => prof.kind # "real"

\* What a launch knows of the profile's settings: what it read as managed, and
\* what it has kept, is a link.
SettingsKnown(r) ==
  /\ r.st = "prune" => r.managed = man
  /\ r.st = "settings" /\ r.share /\ "settings" \in r.managed => own = "link"
  /\ r.st \in Kept /\ "settings" \in r.kept => own = "link"
  /\ r.st \notin Kept => r.kept = {}

\* Between launches the manifest lists the settings only while they are a link.
ManifestTrue ==
  /\ "settings" \in man /\ (\A s \in Shell : run[s].st \notin Pruning) => own = "link"
  /\ \A s \in Shell : SettingsKnown(run[s])

\* What a splice that adopts the profile will displace is in the stash.
StashTrue == \A s \in Shell : run[s].st = "splice" => run[s].share /\ mine \ theirs \subseteq stash

SharingInv ==
  /\ SharingTypes
  /\ raced \/ (AloneAtWork /\ HistoryKept)
  /\ raced \/ cut \/ (ManifestTrue /\ StashTrue)

LEMMA SharingStart == SharingInit => SharingInv
<1> SUFFICES ASSUME SharingInit PROVE SharingInv
  OBVIOUS
<1> USE SharingAssumption DEF SharingInit
<1>1. NoRun \in Runs /\ NoRun.st = "rest" /\ NoRun.kept = {}
  BY DEF NoRun, Runs
<1>2. told \subseteq Script /\ theirs \subseteq Server
  OBVIOUS
<1>3. SharingTypes
  BY <1>1, <1>2 DEF SharingTypes
<1>4. AloneAtWork /\ HistoryKept
  BY <1>1 DEF AloneAtWork, HistoryKept
<1>5. ManifestTrue /\ StashTrue
  BY <1>1 DEF ManifestTrue, StashTrue, SettingsKnown, Pruning, Kept
<1> QED
  BY <1>3, <1>4, <1>5 DEF SharingInv

\* A launch that moves to another place in syncSharing.
LEMMA RunMoves ==
  ASSUME NEW r \in Runs, NEW st \in Pruning \cup {"rest", "mcp", "splice", "mark", "read", "prune"}
  PROVE  /\ [r EXCEPT !.st = st] \in Runs /\ [r EXCEPT !.st = st].st = st
         /\ [r EXCEPT !.st = st].share = r.share /\ [r EXCEPT !.st = st].hist = r.hist
         /\ [r EXCEPT !.st = st].managed = r.managed /\ [r EXCEPT !.st = st].kept = r.kept
  BY DEF Runs

\* One launch moves, the others stay.
LEMMA OneRunMoves ==
  ASSUME SharingTypes, NEW s \in Shell, NEW r \in Runs, To(s, r)
  PROVE  /\ run' \in [Shell -> Runs] /\ run'[s] = r
         /\ \A z \in Shell \ {s} : run'[z] = run[z]
  BY DEF SharingTypes, To

\* A launch that is under way is the only one.
LEMMA OtherLaunchesRest ==
  ASSUME AloneAtWork, NEW s \in Shell, run[s].st # "rest"
  PROVE  \A z \in Shell \ {s} : run[z].st = "rest"
  BY DEF AloneAtWork

\* A step of a launch under way preserves the invariant when it does for that launch.
LEMMA LaunchStep ==
  ASSUME SharingInv, NEW s \in Shell, run[s].st # "rest", NEW r \in Runs, To(s, r), SharingTypes',
         raced' = raced, cut => cut',
         raced \/ (told' \subseteq home' \cup prof'.has /\ (r.st = "link" => prof'.kind # "real")),
         raced \/ cut' \/ SettingsKnown(r)',
         raced \/ cut' \/ (r.st \notin Pruning /\ "settings" \in man' => own' = "link"),
         raced \/ cut' \/ (r.st = "splice" => r.share /\ mine' \ theirs' \subseteq stash')
  PROVE  SharingInv'
<1>1. run'[s] = r /\ \A z \in Shell \ {s} : run'[z] = run[z]
  BY OneRunMoves DEF SharingInv
<1>2. CASE ~ raced
  <2>1. \A z \in Shell \ {s} : run'[z].st = "rest"
    BY <1>1, <1>2, OtherLaunchesRest DEF SharingInv
  <2>2. AloneAtWork'
    BY <2>1 DEF AloneAtWork
  <2>3. HistoryKept'
    BY <1>1, <1>2, <2>1 DEF HistoryKept
  <2>4. cut' \/ (ManifestTrue' /\ StashTrue')
    <3> SUFFICES ASSUME ~ cut' PROVE ManifestTrue' /\ StashTrue'
      OBVIOUS
    <3>1. ManifestTrue
      BY <1>2 DEF SharingInv
    <3>2. \A z \in Shell \ {s} : run[z].kept = {}
      BY <1>1, <2>1, <3>1 DEF ManifestTrue, SettingsKnown, Kept, Pruning
    <3>3. \A z \in Shell \ {s} : SettingsKnown(run[z])'
      BY <1>1, <2>1, <3>2 DEF SettingsKnown, Kept, Pruning
    <3>4. ManifestTrue'
      BY <1>1, <1>2, <2>1, <3>3 DEF ManifestTrue
    <3>5. StashTrue'
      BY <1>1, <1>2, <2>1 DEF StashTrue
    <3> QED
      BY <3>4, <3>5
  <2> QED
    BY <2>2, <2>3, <2>4 DEF SharingInv
<1>3. CASE raced
  BY <1>3 DEF SharingInv
<1> QED
  BY <1>2, <1>3

\* What a launch under way knows while the model's other variables stay.
LEMMA Knows ==
  ASSUME SharingInv, NEW s \in Shell, run[s].st # "rest"
  PROVE  /\ SharingTypes /\ run[s] \in Runs
         /\ raced \/ (told \subseteq home \cup prof.has /\ (run[s].st = "link" => prof.kind # "real"))
         /\ raced \/ cut \/ /\ SettingsKnown(run[s])
                            /\ run[s].st \notin Pruning /\ "settings" \in man => own = "link"
                            /\ run[s].st = "splice" => run[s].share /\ mine \ theirs \subseteq stash
<1>1. SharingTypes /\ run[s] \in Runs
  BY DEF SharingInv, SharingTypes
<1>2. CASE ~ raced /\ ~ cut
  <2>1. ManifestTrue /\ StashTrue /\ \A z \in Shell \ {s} : run[z].st = "rest"
    BY <1>2, OtherLaunchesRest DEF SharingInv
  <2>2. \A z \in Shell \ {s} : run[z].st \notin Pruning
    BY <2>1 DEF Pruning
  <2> QED
    BY <1>1, <1>2, <2>1, <2>2 DEF SharingInv, HistoryKept, ManifestTrue, StashTrue
<1> QED
  BY <1>1, <1>2 DEF SharingInv, HistoryKept

\* The same for a launch that only moves to another place.
LEMMA ReachStep ==
  ASSUME SharingInv, NEW s \in Shell, run[s].st # "rest",
         NEW st \in Pruning \cup {"rest", "mcp", "splice", "mark", "read", "prune"},
         Reaches(s, st), SharingTypes', raced' = raced, cut => cut', man' = man,
         raced \/ told' \subseteq home' \cup prof'.has,
         st = "link" => prof'.kind # "real",
         st = "prune" => run[s].managed = man,
         raced \/ cut' \/ (st = "settings" /\ run[s].share /\ "settings" \in run[s].managed => own' = "link"),
         raced \/ cut' \/ (st \in Kept => run[s].kept = {} \/ own' = own),
         st \notin Kept => run[s].st \notin Kept,
         raced \/ cut' \/ (st \notin Pruning => run[s].st \notin Pruning /\ own' = own),
         raced \/ cut' \/ (st = "splice" => run[s].share /\ mine' \ theirs' \subseteq stash')
  PROVE  SharingInv'
<1>0. PICK r : r = [run[s] EXCEPT !.st = st]
  OBVIOUS
<1>1. run[s] \in Runs
  BY Knows
<1>2. /\ r \in Runs /\ To(s, r) /\ r.st = st /\ r.share = run[s].share
      /\ r.managed = run[s].managed /\ r.kept = run[s].kept
  BY <1>0, <1>1, RunMoves DEF Reaches
<1>3. raced \/ cut \/ /\ SettingsKnown(run[s])
                      /\ run[s].st \notin Pruning /\ "settings" \in man => own = "link"
  BY Knows
<1>4. raced \/ cut' \/ SettingsKnown(r)'
  <2> SUFFICES ASSUME ~ raced, ~ cut' PROVE SettingsKnown(r)'
    OBVIOUS
  <2>0. ~ cut /\ SettingsKnown(run[s])
    BY <1>3
  <2> QED
    BY <1>2, <2>0 DEF SettingsKnown
<1>5. raced \/ cut' \/ (r.st \notin Pruning /\ "settings" \in man' => own' = "link")
  BY <1>2, <1>3
<1> QED
  BY <1>2, <1>4, <1>5, LaunchStep

\* syncMCPServers.
LEMMA MCPSteps ==
  ASSUME SharingInv, NEW s \in Shell,
         MCPInSync(s) \/ StashDisplaced(s) \/ SpliceMCP(s) \/ EnsureMCPMarker(s) \/ MCPFails(s)
  PROVE  SharingInv'
<1> USE DEF itemVars, mcpVars
<1>1. run[s].st \in {"mcp", "splice", "mark"} /\ UNCHANGED <<itemVars, theirs, claude, raced>>
  BY DEF MCPInSync, StashDisplaced, SpliceMCP, EnsureMCPMarker, MCPFails
<1>2. SharingTypes /\ run[s] \in Runs /\ (raced \/ told \subseteq home \cup prof.has)
  BY <1>1, Knows
<1>3. CASE MCPInSync(s) \/ SpliceMCP(s) \/ EnsureMCPMarker(s) \/ MCPFails(s)
  <2>1. PICK st \in {"read", "mark"} : Reaches(s, st)
    BY <1>3 DEF MCPInSync, SpliceMCP, EnsureMCPMarker, MCPFails
  <2>2. cut' = cut /\ mine' \subseteq Server /\ stash' = stash /\ marker' \in BOOLEAN
    BY <1>2, <1>3 DEF MCPInSync, SpliceMCP, EnsureMCPMarker, MCPFails, SharingTypes
  <2>3. SharingTypes'
    BY <1>1, <1>2, <2>1, <2>2, RunMoves, OneRunMoves DEF Reaches, SharingTypes
  <2> QED
    BY <1>1, <1>2, <2>1, <2>2, <2>3, ReachStep DEF Pruning, Kept
<1>4. CASE StashDisplaced(s)
  <2>1. Reaches(s, "splice") /\ mine' = mine /\ marker' = marker /\ run[s].share
    BY <1>4 DEF StashDisplaced
  <2>2. /\ cut' \in BOOLEAN /\ (cut => cut') /\ (stash' = NoStash \/ stash' \subseteq Server)
        /\ cut' \/ mine' \ theirs' \subseteq stash'
    BY <1>1, <1>2, <1>4 DEF StashDisplaced, SharingTypes
  <2>3. SharingTypes'
    BY <1>1, <1>2, <2>1, <2>2, RunMoves, OneRunMoves DEF Reaches, SharingTypes
  <2> QED
    BY <1>1, <1>2, <2>1, <2>2, <2>3, ReachStep DEF Pruning, Kept
<1> QED
  BY <1>3, <1>4

\* The manifest is read.
LEMMA ReadStep == ASSUME SharingInv, NEW s \in Shell, ReadManifest(s) PROVE SharingInv'
<1>1. /\ run[s].st = "read" /\ To(s, [run[s] EXCEPT !.st = "prune", !.managed = man])
      /\ UNCHANGED <<itemVars, mcpVars, theirs, claude, launches, slips, raced, cut>>
  BY DEF ReadManifest
<1>2. SharingTypes /\ run[s] \in Runs /\ (raced \/ told \subseteq home \cup prof.has)
      /\ (raced \/ cut \/ (SettingsKnown(run[s]) /\ ("settings" \in man => own = "link")))
  BY <1>1, Knows DEF Pruning
<1>3. PICK r : r = [run[s] EXCEPT !.st = "prune", !.managed = man]
  OBVIOUS
<1>4. /\ r \in Runs /\ To(s, r) /\ r.st = "prune" /\ r.managed = man
      /\ r.kept = run[s].kept
  BY <1>1, <1>2, <1>3 DEF Runs, SharingTypes
<1>5. SharingTypes'
  BY <1>1, <1>2, <1>4, OneRunMoves DEF SharingTypes, itemVars, mcpVars
<1>6. raced \/ cut' \/ SettingsKnown(r)'
  BY <1>1, <1>2, <1>4 DEF SettingsKnown, Kept, Pruning, itemVars
<1> QED
  BY <1>1, <1>2, <1>4, <1>5, <1>6, LaunchStep DEF itemVars, mcpVars

\* Links of items that are no longer shared go.
LEMMA PruneStep == ASSUME SharingInv, NEW s \in Shell, Prune(s) PROVE SharingInv'
<1>1. /\ run[s].st = "prune"
      /\ own' = IF Pruned(s, "settings") THEN "none" ELSE own
      /\ prof' = IF Pruned(s, "projects") THEN [kind |-> "none", has |-> {}] ELSE prof
      /\ UNCHANGED <<told, home, man, mcpVars, theirs, claude, launches, slips, raced, cut>>
  BY DEF Prune
<1>2. PICK st \in {"manifest", "settings"} : Reaches(s, st)
  BY DEF Prune
<1>3. /\ SharingTypes /\ run[s] \in Runs /\ (raced \/ told \subseteq home \cup prof.has)
      /\ raced \/ cut \/ /\ SettingsKnown(run[s])
                         /\ "settings" \in man => own = "link"
  BY <1>1, Knows DEF Pruning
<1>4. prof'.has = prof.has
  BY <1>1, <1>3 DEF Pruned, SharingTypes
<1>5. SharingTypes'
  BY <1>1, <1>2, <1>3, RunMoves, OneRunMoves DEF Reaches, SharingTypes, mcpVars, Pruning
<1>6. raced \/ cut' \/ (run[s].share /\ "settings" \in run[s].managed => own' = "link")
  BY <1>1, <1>3 DEF SettingsKnown, Pruned, ActiveItems
<1>7. raced \/ cut' \/ run[s].kept = {}
  BY <1>1, <1>3 DEF SettingsKnown, Kept, Pruning
<1> QED
  BY <1>1, <1>2, <1>3, <1>4, <1>5, <1>6, <1>7, ReachStep DEF Pruning, Kept, mcpVars

\* An item is kept: its link is there and goes into the manifest.
LEMMA KeepStep ==
  ASSUME SharingInv, NEW s \in Shell, NEW item \in Items, NEW st \in Kept \ {"link"},
         run[s].st \in {"settings", "link"}, Keep(s, item, st), SharingTypes',
         UNCHANGED <<raced, cut, man>>,
         told' \subseteq home' \cup prof'.has \/ raced,
         item = "settings" => own' = "link", item # "settings" => own' = own
  PROVE  SharingInv'
<1>1. PICK r : r = [run[s] EXCEPT !.st = st, !.kept = @ \cup {item}, !.managed = @ \cup {item}]
  OBVIOUS
<1>2. run[s] \in Runs /\ (raced \/ cut \/ SettingsKnown(run[s]))
  BY Knows
<1>3. r \in Runs /\ To(s, r) /\ r.st = st /\ r.kept = run[s].kept \cup {item}
  BY <1>1, <1>2 DEF Runs, Keep, Kept
<1>4. raced \/ cut' \/ SettingsKnown(r)'
  <2>1. CASE item = "settings"
    BY <1>3, <2>1 DEF SettingsKnown, Kept, Pruning
  <2>2. CASE item # "settings"
    BY <1>2, <1>3, <2>2 DEF SettingsKnown, Kept, Pruning
  <2> QED
    BY <2>1, <2>2
<1> QED
  BY <1>3, <1>4, LaunchStep DEF Kept, Pruning

LEMMA SettingsItemStep == ASSUME SharingInv, NEW s \in Shell, ShareSettings(s) PROVE SharingInv'
<1>1. /\ run[s].st = "settings"
      /\ UNCHANGED <<told, home, prof, man, mcpVars, theirs, claude, launches, slips, raced, cut>>
      /\ \/ Reaches(s, "history") /\ UNCHANGED own
         \/ own' = "link" /\ Keep(s, "settings", "history")
  BY DEF ShareSettings
<1>2. /\ SharingTypes /\ run[s] \in Runs /\ (raced \/ told \subseteq home \cup prof.has)
      /\ raced \/ cut \/ SettingsKnown(run[s])
  BY <1>1, Knows
<1>3. CASE Reaches(s, "history") /\ UNCHANGED own
  <2>1. SharingTypes'
    BY <1>1, <1>2, <1>3, RunMoves, OneRunMoves DEF Reaches, SharingTypes, mcpVars, Pruning
  <2> QED
    BY <1>1, <1>2, <1>3, <2>1, ReachStep DEF Pruning, Kept, mcpVars
<1>4. CASE own' = "link" /\ Keep(s, "settings", "history")
  <2>0. run' \in [Shell -> Runs]
    BY <1>2, <1>4 DEF Keep, To, SharingTypes, Runs, Items, Pruning
  <2>1. SharingTypes'
    BY <1>1, <1>2, <1>4, <2>0 DEF SharingTypes, mcpVars
  <2> QED
    BY <1>1, <1>2, <1>4, <2>1, KeepStep DEF Items, Kept, Pruning
<1> QED
  BY <1>1, <1>3, <1>4

\* The conversation history.
LEMMA HistorySteps ==
  ASSUME SharingInv, NEW s \in Shell,
         PrepareHistory(s) \/ MergeEnds(s) \/ LinkHistory(s) \/ ItemFails(s)
  PROVE  SharingInv'
<1> USE DEF mcpVars, itemVars
<1>0. run[s].st \in {"history", "merge", "link", "settings"} /\ UNCHANGED <<told, home, own, man, mcpVars, theirs, claude, raced, cut>>
  BY DEF PrepareHistory, MergeEnds, LinkHistory, ItemFails
<1>2. /\ SharingTypes /\ run[s] \in Runs
      /\ raced \/ (told \subseteq home \cup prof.has /\ (run[s].st = "link" => prof.kind # "real"))
      /\ raced \/ cut \/ SettingsKnown(run[s])
  BY <1>0, Knows
<1>3. ASSUME NEW st \in Kept, Reaches(s, st), prof'.has = prof.has,
             prof' \in [kind : {"none", "link", "real"}, has : SUBSET Script],
             prof'.kind # "real" => prof'.has = {}, st = "link" => prof'.kind # "real"
      PROVE  SharingInv'
  <2>1. SharingTypes'
    BY <1>0, <1>2, <1>3, RunMoves, OneRunMoves DEF Reaches, SharingTypes, Kept
  <2>2. raced \/ cut' \/ run[s].kept = {} \/ own' = own
    BY <1>0
  <2> QED
    BY <1>0, <1>2, <1>3, <2>1, <2>2, ReachStep DEF Pruning, Kept
<1>4. CASE PrepareHistory(s)
  <2>1. prof' = prof /\ \E st \in {"manifest", "merge", "link"} : Reaches(s, st) /\ (st = "link" => prof.kind # "real")
    BY <1>4 DEF PrepareHistory
  <2> QED
    BY <1>2, <1>3, <2>1 DEF SharingTypes, Kept, Pruning
<1>5. CASE MergeEnds(s)
  <2>1. prof' = [kind |-> "none", has |-> {}] /\ prof.has = {} /\ \E st \in {"manifest", "link"} : Reaches(s, st)
    BY <1>2, <1>5 DEF MergeEnds, SharingTypes
  <2> QED
    BY <1>3, <2>1 DEF Kept, Pruning
<1>6. CASE ItemFails(s)
  <2>1. prof' = prof /\ \E st \in {"history", "manifest"} : Reaches(s, st)
    BY <1>6 DEF ItemFails
  <2> QED
    BY <1>2, <1>3, <2>1 DEF SharingTypes, Kept, Pruning
<1>7. CASE LinkHistory(s)
  <2>1. CASE Reaches(s, "manifest") /\ UNCHANGED prof
    BY <1>2, <1>3, <2>1 DEF SharingTypes, Kept, Pruning
  <2>2. CASE prof' = [kind |-> "link", has |-> {}] /\ Keep(s, "projects", "manifest")
    <3>1. run[s].st = "link" /\ (raced \/ prof.has = {})
      BY <1>2, <1>7 DEF LinkHistory, SharingTypes
    <3>0. run' \in [Shell -> Runs]
      BY <1>2, <2>2 DEF Keep, To, SharingTypes, Runs, Items, Pruning
    <3>2. SharingTypes'
      BY <1>0, <1>2, <2>2, <3>0 DEF SharingTypes
    <3> QED
      BY <1>0, <1>2, <2>2, <3>1, <3>2, KeepStep DEF Items, Kept, Pruning
  <2> QED
    BY <1>7, <2>1, <2>2 DEF LinkHistory
<1> QED
  BY <1>4, <1>5, <1>6, <1>7

\* A transcript is moved out of the profile, or written.
LEMMA TranscriptSteps ==
  ASSUME SharingInv, NEW s \in Shell, NEW t \in Script, MergeFile(s, t) \/ WritesTranscript(s, t)
  PROVE  SharingInv'
<1> USE DEF mcpVars
<1>1. SharingTypes
  BY DEF SharingInv
<1>2. /\ UNCHANGED <<own, man, mcpVars, theirs, run, claude, cut>> /\ raced' \in BOOLEAN /\ (raced => raced')
      /\ home' \subseteq Script /\ told' \subseteq Script
      /\ prof' \in [kind : {"none", "link", "real"}, has : SUBSET Script]
      /\ prof'.kind # "real" => prof'.has = {}
  <2>1. UNCHANGED <<own, man, mcpVars, theirs, run, claude, cut>> /\ raced' \in BOOLEAN /\ (raced => raced')
    BY <1>1 DEF MergeFile, WritesTranscript, SharingTypes
  <2>2. CASE MergeFile(s, t)
    <3>1. /\ prof' = [kind |-> prof.kind, has |-> prof.has \ {t}] /\ home' = home \cup {t} /\ told' = told
          /\ prof.kind = "real"
      BY <1>1, <2>2 DEF MergeFile, SharingTypes
    <3> QED
      BY <1>1, <2>1, <3>1 DEF SharingTypes
  <2>3. CASE WritesTranscript(s, t)
    <3>1. told' = told \cup {t}
      BY <2>3 DEF WritesTranscript
    <3>2. CASE home' = home \cup {t} /\ prof' = prof
      BY <1>1, <2>1, <3>1, <3>2 DEF SharingTypes
    <3>3. CASE prof' = [kind |-> "real", has |-> prof.has \cup {t}] /\ home' = home
      BY <1>1, <2>1, <3>1, <3>3 DEF SharingTypes
    <3> QED
      BY <2>3, <3>2, <3>3 DEF WritesTranscript
  <2> QED
    BY <2>2, <2>3
<1>3. /\ told \subseteq home \cup prof.has => told' \subseteq home' \cup prof'.has
      /\ raced' \/ \A z \in Shell : run[z].st = "link" => prof'.kind = prof.kind
  <2>1. CASE MergeFile(s, t)
    <3>1. /\ prof' = [kind |-> prof.kind, has |-> prof.has \ {t}] /\ home' = home \cup {t} /\ told' = told
      BY <1>1, <2>1 DEF MergeFile, SharingTypes
    <3> QED
      BY <3>1
  <2>2. CASE WritesTranscript(s, t)
    <3>1. told' = told \cup {t} /\ (raced' \/ \A z \in Shell : run[z].st # "link")
      BY <1>1, <2>2 DEF WritesTranscript, SharingTypes
    <3>2. CASE home' = home \cup {t} /\ prof' = prof
      BY <3>1, <3>2
    <3>3. CASE prof' = [kind |-> "real", has |-> prof.has \cup {t}] /\ home' = home
      BY <3>1, <3>3
    <3> QED
      BY <2>2, <3>2, <3>3 DEF WritesTranscript
  <2> QED
    BY <2>1, <2>2
<1>5. SharingTypes'
  BY <1>1, <1>2 DEF SharingTypes
<1>6. raced' \/ (AloneAtWork' /\ HistoryKept')
  BY <1>2, <1>3 DEF SharingInv, AloneAtWork, HistoryKept
<1>7. ManifestTrue /\ StashTrue => ManifestTrue' /\ StashTrue'
  BY <1>2 DEF ManifestTrue, StashTrue, SettingsKnown
<1> QED
  BY <1>2, <1>5, <1>6, <1>7 DEF SharingInv

\* A launch begins, ends or dies; Claude Code comes and goes; the user adds to the profile.
LEMMA LaunchBegins ==
  ASSUME SharingInv, NEW s \in Shell, NEW share \in BOOLEAN, NEW hist \in BOOLEAN, Launch(s, share, hist)
  PROVE  SharingInv'
<1> USE DEF mcpVars, itemVars
<1>1. PICK r : r = [NoRun EXCEPT !.st = "mcp", !.share = share, !.hist = hist]
  OBVIOUS
<1>2. /\ r \in Runs /\ r.st = "mcp" /\ r.kept = {} /\ To(s, r) /\ run[s].st = "rest"
      /\ raced' = (raced \/ \E z \in Shell : run[z].st # "rest" \/ claude[z] = "new")
      /\ UNCHANGED <<itemVars, mcpVars, theirs, claude, slips, cut>>
  BY <1>1 DEF Launch, NoRun, Runs
<1>3. SharingTypes /\ run' \in [Shell -> Runs] /\ run'[s] = r /\ \A z \in Shell \ {s} : run'[z] = run[z]
  BY <1>2, OneRunMoves DEF SharingInv
<1>4. SharingTypes'
  BY <1>2, <1>3 DEF SharingTypes
<1>5. CASE raced'
  BY <1>4, <1>5 DEF SharingInv
<1>6. CASE ~ raced'
  <2>1. ~ raced /\ \A z \in Shell \ {s} : run'[z].st = "rest"
    BY <1>2, <1>3, <1>6 DEF SharingTypes
  <2>2. AloneAtWork' /\ HistoryKept'
    BY <1>2, <1>3, <2>1 DEF SharingInv, AloneAtWork, HistoryKept
  <2>3. ManifestTrue /\ StashTrue => ManifestTrue' /\ StashTrue'
    BY <1>2, <1>3, <2>1 DEF ManifestTrue, StashTrue, SettingsKnown, Pruning, Kept
  <2> QED
    BY <1>2, <1>4, <2>1, <2>2, <2>3 DEF SharingInv
<1> QED
  BY <1>5, <1>6

LEMMA LaunchEnds ==
  ASSUME SharingInv, NEW s \in Shell, WriteManifest(s) \/ LaunchDies(s)
  PROVE  SharingInv'
<1> USE DEF mcpVars, itemVars
<1>1. /\ run[s].st # "rest" /\ To(s, NoRun) /\ UNCHANGED <<told, home, prof, own, mcpVars, theirs, raced>>
      /\ cut' \/ (cut' = cut /\ man' = run[s].kept /\ run[s].st = "manifest")
      /\ man' \in {man, run[s].kept} /\ cut' \in {cut, TRUE}
      /\ claude' \in {claude, [claude EXCEPT ![s] = "new"]}
  BY DEF WriteManifest, LaunchDies
<1>2. NoRun \in Runs /\ NoRun.st = "rest" /\ NoRun.kept = {}
  BY DEF NoRun, Runs
<1>3. /\ SharingTypes /\ run[s] \in Runs
      /\ raced \/ told \subseteq home \cup prof.has
      /\ raced \/ cut \/ SettingsKnown(run[s])
  BY <1>1, Knows
<1>4. SharingTypes'
  BY <1>1, <1>2, <1>3, OneRunMoves DEF SharingTypes, Runs
<1>5. raced \/ cut' \/ ("settings" \in man' => own' = "link")
  BY <1>1, <1>3 DEF SettingsKnown, Kept, Pruning, SharingTypes
<1> QED
  BY <1>1, <1>2, <1>3, <1>4, <1>5, LaunchStep DEF SettingsKnown, Kept, Pruning, SharingTypes

LEMMA ClaudeSteps ==
  ASSUME SharingInv, NEW s \in Shell,
         Registers(s) \/ Exits(s) \/ WritesSettings(s) \/ \E d \in Server : AddsServer(s, d)
  PROVE  SharingInv'
<1> USE DEF mcpVars, itemVars
<1>1. /\ UNCHANGED <<told, home, prof, man, marker, stash, theirs, run, raced, cut>>
      /\ own' = own \/ (own = "none" /\ own' = "file")
      /\ mine' = mine \/ (~ConfigLocked /\ mine' \subseteq mine \cup Server)
  BY DEF Registers, Exits, WritesSettings, AddsServer
<1>2. claude' \in [Shell -> {"no", "new", "live"}]
  BY DEF Registers, Exits, WritesSettings, AddsServer, SharingInv, SharingTypes
<1>3. SharingTypes'
  BY <1>1, <1>2 DEF SharingInv, SharingTypes
<1>4. AloneAtWork /\ HistoryKept => AloneAtWork' /\ HistoryKept'
  BY <1>1 DEF AloneAtWork, HistoryKept
<1>5. ManifestTrue => ManifestTrue'
  BY <1>1 DEF ManifestTrue, SettingsKnown
<1>6. StashTrue => StashTrue'
  BY <1>1 DEF StashTrue, ConfigLocked
<1> QED
  BY <1>1, <1>3, <1>4, <1>5, <1>6 DEF SharingInv

LEMMA SharingStep == SharingInv /\ [SharingNext]_sharingVars => SharingInv'
<1> SUFFICES ASSUME SharingInv, [SharingNext]_sharingVars PROVE SharingInv'
  OBVIOUS
<1>1. CASE UNCHANGED sharingVars
  BY <1>1 DEF sharingVars, SharingInv, SharingTypes, AloneAtWork, HistoryKept, ManifestTrue, SettingsKnown,
              StashTrue
<1>2. CASE SharingNext
  BY <1>2, MCPSteps, ReadStep, PruneStep, SettingsItemStep, HistorySteps, TranscriptSteps,
     LaunchBegins, LaunchEnds, ClaudeSteps DEF SharingNext
<1> QED
  BY <1>1, <1>2

\* Every variable of a profile and of its launches keeps its type.
THEOREM SharingTyped == SharingSpec => []SharingTypeOK
<1>1. SharingInv => SharingTypeOK
  BY DEF SharingInv, SharingTypes, SharingTypeOK, Items
<1> QED
  BY <1>1, SharingStart, SharingStep, PTL DEF SharingSpec

\* What one step may not lose.
KeepsAll ==
  raced' \/ /\ told' \subseteq home' \cup prof'.has
            /\ own = "file" /\ own' # "file" => cut
            /\ ~marker /\ ~cut => mine \ mine' \subseteq stash'

\* Settings of the profile's own are replaced only if a manifest could not be written.
LEMMA OwnSettingsStay ==
  ASSUME SharingInv, SharingNext, ~ raced, ~ cut, own = "file" PROVE own' = "file"
<1>1. PICK s \in Shell :
        \/ MCPInSync(s) \/ StashDisplaced(s) \/ SpliceMCP(s) \/ EnsureMCPMarker(s) \/ MCPFails(s)
        \/ ReadManifest(s) \/ Prune(s) \/ ShareSettings(s) \/ PrepareHistory(s) \/ MergeEnds(s)
        \/ LinkHistory(s) \/ ItemFails(s) \/ WriteManifest(s) \/ LaunchDies(s)
        \/ Registers(s) \/ Exits(s) \/ WritesSettings(s)
        \/ \E share, hist \in BOOLEAN : Launch(s, share, hist)
        \/ \E t \in Script : MergeFile(s, t) \/ WritesTranscript(s, t)
        \/ \E d \in Server : AddsServer(s, d)
  BY DEF SharingNext
<1>2. CASE Prune(s)
  <2>1. run[s].st = "prune" /\ own' = IF Pruned(s, "settings") THEN "none" ELSE own
    BY <1>2 DEF Prune
  <2>2. run[s].managed = man /\ "settings" \notin man
    BY <2>1, Knows DEF SettingsKnown, Pruning
  <2> QED
    BY <2>1, <2>2 DEF Pruned
<1>3. CASE ShareSettings(s)
  <2>1. run[s].st = "settings" /\ (run[s].share => "settings" \notin run[s].managed)
    BY <1>3, Knows DEF ShareSettings, SettingsKnown
  <2> QED
    BY <1>3, <2>1 DEF ShareSettings
<1>4. CASE ~ (Prune(s) \/ ShareSettings(s))
  BY <1>1, <1>4 DEF MCPInSync, StashDisplaced, SpliceMCP, EnsureMCPMarker, MCPFails, ReadManifest,
     PrepareHistory, MergeEnds, LinkHistory, ItemFails, WriteManifest, LaunchDies, Registers, Exits,
     WritesSettings, Launch, MergeFile, WritesTranscript, AddsServer, itemVars
<1> QED
  BY <1>2, <1>3, <1>4

\* Before the profile is adopted, a splice displaces only what is in the stash.
LEMMA DisplacedIsStashed ==
  ASSUME SharingInv, SharingNext, ~ raced, ~ cut, ~ marker PROVE mine \ mine' \subseteq stash'
<1>1. CASE \E s \in Shell : SpliceMCP(s)
  <2>1. PICK s \in Shell : SpliceMCP(s)
    BY <1>1
  <2>2. run[s].st = "splice" /\ mine' = (IF run[s].share THEN theirs ELSE {}) /\ stash' = stash
    BY <2>1 DEF SpliceMCP
  <2> QED
    BY <2>2, Knows
<1>2. CASE ~ \E s \in Shell : SpliceMCP(s)
  <2>1. mine \subseteq mine'
    BY <1>2 DEF SharingNext, MCPInSync, StashDisplaced, EnsureMCPMarker, MCPFails, ReadManifest,
       Prune, ShareSettings, PrepareHistory, MergeEnds, LinkHistory, ItemFails, WriteManifest,
       LaunchDies, Registers, Exits, WritesSettings, Launch, MergeFile, WritesTranscript,
       AddsServer, mcpVars
  <2> QED
    BY <2>1
<1> QED
  BY <1>1, <1>2

\* Whatever flags the launches of a profile have and wherever they fail or die, as long as
\* they do not overlap, no conversation is lost, the profile's own settings are replaced only
\* after a manifest could not be written, and a server definition is displaced only into the
\* stash: for any transcripts, servers, launches and failures.
THEOREM NothingLostInSharing == SharingSpec => NothingIsLost
<1>1. SharingInv /\ SharingInv' /\ [SharingNext]_sharingVars => [KeepsAll]_sharingVars
  <2> SUFFICES ASSUME SharingInv, SharingInv', SharingNext, ~ raced'
               PROVE  /\ told' \subseteq home' \cup prof'.has
                      /\ own = "file" /\ own' # "file" => cut
                      /\ ~marker /\ ~cut => mine \ mine' \subseteq stash'
    BY DEF KeepsAll
  <2>1. told' \subseteq home' \cup prof'.has
    BY DEF SharingInv, HistoryKept
  <2>2. ~ raced
    BY DEF SharingNext, MCPInSync, StashDisplaced, SpliceMCP, EnsureMCPMarker, MCPFails, ReadManifest,
       Prune, ShareSettings, PrepareHistory, MergeEnds, LinkHistory, ItemFails, WriteManifest,
       LaunchDies, Registers, Exits, WritesSettings, Launch, MergeFile, WritesTranscript, AddsServer
  <2> QED
    BY <2>1, <2>2, OwnSettingsStay, DisplacedIsStashed
<1>2. SharingInv /\ [SharingNext]_sharingVars => [KeepsAll]_sharingVars
  BY <1>1, SharingStep
<1> QED
  BY <1>2, SharingStart, SharingStep, PTL DEF SharingSpec, NothingIsLost, KeepsAll
=============================================================================
