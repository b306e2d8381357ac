------------------------------ MODULE Dashboard -----------------------------
(***************************************************************************)
(* The terminal dashboard (internal/tui): one Update loop that owns the    *)
(* screens, and what runs beside it: a snapshot being taken, an action on  *)
(* the accounts, and the engines of the auto-switch view.                  *)
(*                                                                         *)
(* What the user sees is the last snapshot, never the roster; keys act on  *)
(* what is shown, actions on the roster as it is by then, and other cswap  *)
(* processes change it meanwhile.  An action is one step (Roster, Switch). *)
(* The cursor may be on any row; drawing, toasts and flashes are left out. *)
(***************************************************************************)
EXTENDS Integers, Sequences, FiniteSets

CONSTANTS Place,        \* account numbers
          Person,       \* accounts
          NoOne,
          Levels,       \* thresholds
          MaxEngines, MaxChanges, MaxKeys  \* bounds: engines started, versions of the
                        \* roster, keys pressed

ASSUME DashboardAssumption ==
  /\ Place \subseteq Nat \ {0} /\ NoOne \notin Person
  /\ Levels \subseteq Nat /\ Levels # {} /\ {MaxEngines, MaxChanges, MaxKeys} \subseteq Nat
  /\ MaxChanges # 0

VARIABLES
  book,       \* the accounts: who is in each slot, which are disabled, the live one, a version
  shown,      \* the snapshot the screens draw; version 0 before the first
  refreshes,  \* snapshot passes under way, each with what it read so far
  storeOnly,
  act,        \* the action under way (busy), or Idle
  screens,    \* the stack above the dashboard
  menu,       \* the dashboard's open menu
  auto,       \* the auto screen's fields
  engines,    \* every engine ever started, in order
  news,       \* engines whose switch event has not been delivered
  keys        \* keys pressed

dashVars == <<book, shown, refreshes, storeOnly, act, screens, menu, auto, engines, news, keys>>

Idle == [op |-> "idle", slot |-> 0, who |-> NoOne, done |-> FALSE, ok |-> TRUE]
Unread == [who |-> [n \in Place |-> NoOne], off |-> {}, live |-> 0, ver |-> 0]
Asked == [st |-> "asked", snap |-> Unread]
NoAuto == [gen |-> 0, engine |-> 0, threshold |-> 0, adjusting |-> FALSE, entry |-> 0, net |-> TRUE]
Screen(kind, op, n, who) == [kind |-> kind, op |-> op, slot |-> n, who |-> who]

DashInit ==
  /\ book \in [who : [Place -> Person \cup {NoOne}], off : {{}}, live : {0}, ver : {1}]
  /\ \E n \in Place : book.who[n] # NoOne
  /\ \A n, k \in Place : n # k /\ book.who[n] # NoOne => book.who[n] # book.who[k]
  /\ shown = Unread
  /\ refreshes = {Asked}
  /\ storeOnly = FALSE /\ act = Idle /\ screens = <<>> /\ menu = "menu"
  /\ auto = NoAuto /\ engines = <<>> /\ news = {} /\ keys = 0

Top == IF screens = <<>> THEN Screen("dashboard", "none", 0, NoOne) ELSE screens[Len(screens)]
Popped == SubSeq(screens, 1, Len(screens) - 1)
Mounted == \E i \in DOMAIN screens : screens[i].kind = "auto"
Numbers == {n \in Place : shown.who[n] # NoOne}

-----------------------------------------------------------------------------
(* Snapshots *)

\* tickRefresh: one pass at a time; a request while one is under way is
\* dropped, and the periodic tick asks again.
TickRefreshBug == refreshes' = refreshes \cup {Asked}
TickRefresh ==
  refreshes' = IF refreshes # {} THEN refreshes ELSE {Asked}

\* pollTickMsg, always armed again; f asks for the same.
PollTick ==
  /\ TickRefresh
  /\ UNCHANGED <<book, shown, storeOnly, act, screens, menu, auto, engines, news, keys>>

\* take: outside the loop the accounts and the live one are read, and after the
\* usage was collected (network) the disabled flags, from a second read.
BuildAccountsInfo(r) ==
  /\ r \in refreshes /\ r.st = "asked"
  /\ refreshes' = (refreshes \ {r}) \cup {[st |-> "listed", snap |-> [book EXCEPT !.off = {}]]}
  /\ UNCHANGED <<book, shown, storeOnly, act, screens, menu, auto, engines, news, keys>>

TakeSnapshot(r) ==
  /\ r \in refreshes /\ r.st = "listed"
  /\ refreshes' = (refreshes \ {r}) \cup
                    {[st |-> "taken", snap |-> [r.snap EXCEPT !.off = book.off]]}
  /\ UNCHANGED <<book, shown, storeOnly, act, screens, menu, auto, engines, news, keys>>

\* refreshDoneMsg, applySnapshot: every screen sees the new snapshot.  The live
\* menus are rebuilt from it.
ApplySnapshot(r) ==
  /\ r \in refreshes /\ r.st = "taken"
  /\ refreshes' = refreshes \ {r}
  /\ shown' = r.snap
  /\ UNCHANGED <<book, storeOnly, act, screens, menu, auto, engines, news, keys>>

-----------------------------------------------------------------------------
(* Actions on the accounts *)

Change(b) == book.ver < MaxChanges /\ book' = [b EXCEPT !.ver = @ + 1]

\* startAction: at most one; a second is refused with a toast.
StartAction(op, n, who) ==
  act' = IF act # Idle THEN act
         ELSE [op |-> op, slot |-> n, who |-> who, done |-> FALSE, ok |-> TRUE]

\* runAction: the roster changes, or the operation is refused or fails.
Effect(b) ==
  LET n == act.slot
      in == n # 0 /\ b.who[n] # NoOne
      new == {p \in Person : \A k \in Place : b.who[k] # p}
  IN  CASE act.op = "switch"  -> IF in THEN {[b EXCEPT !.live = n]} ELSE {}
        [] act.op = "best"    -> {[b EXCEPT !.live = k] : k \in {j \in Place : b.who[j] # NoOne}}
        [] act.op = "disable" -> IF in THEN {[b EXCEPT !.off = @ \cup {n}]} ELSE {}
        [] act.op = "enable"  -> IF in THEN {[b EXCEPT !.off = @ \ {n}]} ELSE {}
        [] act.op = "remove"  -> IF in THEN {[b EXCEPT !.who[n] = NoOne, !.off = @ \ {n}]} ELSE {}
        [] act.op = "add"     -> {[b EXCEPT !.who[k] = p] :
                                    k \in IF n = 0 THEN Place ELSE {n}, p \in new}
        [] OTHER -> {}

RunAction ==
  /\ act # Idle /\ ~act.done
  /\ \/ \E b \in Effect(book) : Change(b) /\ act' = [act EXCEPT !.done = TRUE]
     \/ act' = [act EXCEPT !.done = TRUE, !.ok = FALSE] /\ UNCHANGED book
  /\ UNCHANGED <<shown, refreshes, storeOnly, screens, menu, auto, engines, news, keys>>

\* actionDone: free for the next, ask for a snapshot, show a failure on top.
ActionDone ==
  /\ act # Idle /\ act.done
  /\ act' = Idle
  /\ TickRefresh
  /\ screens' = IF act.ok THEN screens ELSE Append(screens, Screen("output", "none", 0, NoOne))
  /\ UNCHANGED <<book, shown, storeOnly, menu, auto, engines, news, keys>>

\* Another cswap process changes the roster.
Elsewhere(n, who) ==
  /\ book.who[n] # who
  /\ \A k \in Place : who # NoOne => book.who[k] # who
  /\ Change([book EXCEPT !.who[n] = who, !.off = @ \ {n}])
  /\ UNCHANGED <<shown, refreshes, storeOnly, act, screens, menu, auto, engines, news, keys>>

-----------------------------------------------------------------------------
(* Engines of the auto screen *)

Told(es, e) == [es EXCEPT ![e].stop = TRUE, ![e].wake = TRUE]
StoppedOf(es, e) == IF e = 0 THEN es ELSE Told(es, e)

\* startEngine: a new generation, from the screen's settings.
StartEngine(a, es, dry) ==
  /\ Len(es) < MaxEngines
  /\ auto' = [a EXCEPT !.gen = @ + 1, !.engine = Len(es) + 1]
  /\ engines' = Append(es, [st |-> "top", stop |-> FALSE, wake |-> FALSE, dry |-> dry,
                            threshold |-> a.threshold, used |-> a.threshold, gen |-> a.gen + 1])

\* restartEngine: the running engine is told to stop first.
RestartEngineBug(dry) == StartEngine(auto, engines, dry)
RestartEngine(dry) == StartEngine(auto, StoppedOf(engines, auto.engine), dry)

\* RunLoop: clear the wake signal, leave if stopped, tick on the settings now.
LoopTop(e) ==
  /\ engines[e].st = "top"
  /\ engines' = [engines EXCEPT ![e] =
       IF engines[e].stop THEN [@ EXCEPT !.st = "gone", !.wake = FALSE]
       ELSE [@ EXCEPT !.st = "tick", !.wake = FALSE, !.used = engines[e].threshold]]
  /\ UNCHANGED <<book, shown, refreshes, storeOnly, act, screens, menu, auto, news, keys>>

\* The tick ends; a live one may have switched, stopped or not.
LoopTickBug(e) ==
  /\ engines[e].st = "tick"
  /\ engines' = [engines EXCEPT ![e].st = "asleep", ![e].wake = FALSE]
  /\ \/ UNCHANGED <<book, news>>
     \/ /\ ~engines[e].dry
        /\ \E n \in Place : /\ book.who[n] # NoOne /\ book.live # n
                            /\ Change([book EXCEPT !.live = n])
        /\ news' = news \cup {e}
  /\ UNCHANGED <<shown, refreshes, storeOnly, act, screens, menu, auto, keys>>
LoopTick(e) ==
  /\ engines[e].st = "tick"
  /\ engines' = [engines EXCEPT ![e].st = "asleep"]
  /\ \/ UNCHANGED <<book, news>>
     \/ /\ ~engines[e].dry
        /\ \E n \in Place : /\ book.who[n] # NoOne /\ book.live # n
                            /\ Change([book EXCEPT !.live = n])
        /\ news' = news \cup {e}
  /\ UNCHANGED <<shown, refreshes, storeOnly, act, screens, menu, auto, keys>>

\* The timer, the wake signal or the stop signal ends the sleep.
LoopWakes(e) ==
  /\ engines[e].st = "asleep"
  /\ engines' \in {[engines EXCEPT ![e].st = "top"],
                   [engines EXCEPT ![e].st = "top", ![e].wake = FALSE]}
  /\ UNCHANGED <<book, shown, refreshes, storeOnly, act, screens, menu, auto, news, keys>>

\* engineEventMsg: only the mounted screen's generation is listened to.
EngineEvent(e) ==
  /\ e \in news
  /\ news' = news \ {e}
  /\ IF Mounted /\ engines[e].gen = auto.gen THEN TickRefresh ELSE UNCHANGED refreshes
  /\ UNCHANGED <<book, shown, storeOnly, act, screens, menu, auto, engines, keys>>

-----------------------------------------------------------------------------
(* Keys.  Each goes to the top screen. *)

Push(s) == screens' = Append(screens, s)
Press == keys < MaxKeys /\ keys' = keys + 1
Here(kind) == Top.kind = kind

\* The dashboard's menus: dispatch.
OpenMenu(title) ==
  /\ Press /\ Here("dashboard") /\ menu # title
  /\ menu' = title
  /\ UNCHANGED <<book, shown, refreshes, storeOnly, act, screens, auto, engines, news>>

OpenScreen(kind) ==
  /\ Press /\ Here("dashboard")
  /\ Push(Screen(kind, "none", 0, NoOne))
  /\ UNCHANGED <<book, shown, refreshes, storeOnly, act, menu, auto, engines, news>>

\* confirmRemove is asked about the account the snapshot shows.
ChooseRemove(n) ==
  /\ Press /\ Here("dashboard") /\ menu = "remove account" /\ n \in Numbers
  /\ Push(Screen("confirm", "remove", n, shown.who[n]))
  /\ UNCHANGED <<book, shown, refreshes, storeOnly, act, menu, auto, engines, news>>

\* toggleDisabled: the direction is the snapshot's.
ChooseDisable(n) ==
  /\ Press /\ Here("dashboard") /\ menu = "disable / enable" /\ n \in Numbers
  /\ StartAction(IF n \in shown.off THEN "enable" ELSE "disable", n, NoOne)
  /\ menu' = "menu"
  /\ UNCHANGED <<book, shown, refreshes, storeOnly, screens, auto, engines, news>>

\* addCurrent asks first; addToken opens a form.
ChooseAdd ==
  /\ Press /\ Here("dashboard") /\ menu = "add account"
  /\ Push(Screen("confirm", "add", 0, NoOne)) \/ Push(Screen("form", "none", 0, NoOne))
  /\ UNCHANGED <<book, shown, refreshes, storeOnly, act, menu, auto, engines, news>>

\* selectHighlighted, on the switch and the watch screen; b is switchBest.
ChooseSwitch(n) ==
  /\ Press /\ Top.kind \in {"switch", "watch"} /\ n \in Numbers
  /\ StartAction("switch", n, NoOne)
  /\ screens' = IF Here("switch") THEN Popped ELSE screens
  /\ UNCHANGED <<book, shown, refreshes, storeOnly, menu, auto, engines, news>>

ChooseBest ==
  /\ Press /\ Here("switch") /\ StartAction("best", 0, NoOne)
  /\ UNCHANGED <<book, shown, refreshes, storeOnly, screens, menu, auto, engines, news>>

\* The token form: submit with a slot the snapshot shows taken asks first.
SubmitForm(n) ==
  /\ Press /\ Here("form")
  /\ IF n \in Numbers
     THEN screens' = Append(Popped, Screen("confirm", "add", n, NoOne)) /\ UNCHANGED act
     ELSE screens' = Popped /\ StartAction("add", n, NoOne)
  /\ UNCHANGED <<book, shown, refreshes, storeOnly, menu, auto, engines, news>>

\* A confirmation is answered yes.  A removal is checked again, against the
\* snapshot of the moment.
Confirm ==
  LET c == Top
  IN  /\ Press /\ c.kind = "confirm" /\ screens' = Popped
      /\ \/ /\ c.op = "remove"
            /\ IF shown.who[c.slot] = c.who THEN StartAction("remove", c.slot, c.who)
               ELSE UNCHANGED act
            /\ UNCHANGED <<auto, engines>>
         \/ c.op = "add" /\ StartAction("add", c.slot, NoOne) /\ UNCHANGED <<auto, engines>>
         \/ c.op = "live" /\ RestartEngine(FALSE) /\ UNCHANGED act
      /\ UNCHANGED <<book, shown, refreshes, storeOnly, menu, news>>

\* esc: dismiss a modal or a form, leave a list, close a menu.
Back ==
  /\ Press
  /\ \/ Top.kind \in {"confirm", "form", "output", "switch", "watch"}
        /\ screens' = Popped /\ UNCHANGED menu
     \/ Here("dashboard") /\ menu # "menu" /\ menu' = "menu" /\ UNCHANGED screens
  /\ UNCHANGED <<book, shown, refreshes, storeOnly, act, auto, engines, news>>

\* onMount: store-only polling, the settings of the file, a dry engine.
OpenAuto(level) ==
  /\ Press /\ Here("dashboard")
  /\ Push(Screen("auto", "none", 0, NoOne))
  /\ storeOnly' = TRUE /\ TickRefresh
  /\ StartEngine([NoAuto EXCEPT !.threshold = level], engines, TRUE)
  /\ UNCHANGED <<book, shown, act, menu, news>>

\* endAdjust: a net change wakes the engine.
Adjusted(a) == [a EXCEPT !.adjusting = FALSE, !.net = a.threshold # a.entry]
EndAdjust ==
  /\ Press /\ Here("auto") /\ auto.adjusting
  /\ auto' = Adjusted(auto)
  /\ engines' = IF auto.threshold = auto.entry THEN engines
                ELSE [engines EXCEPT ![auto.engine].wake = TRUE]
  /\ UNCHANGED <<book, shown, refreshes, storeOnly, act, screens, menu, news>>

BeginAdjust ==
  /\ Press /\ Here("auto") /\ ~auto.adjusting
  /\ auto' = [auto EXCEPT !.adjusting = TRUE, !.entry = auto.threshold]
  /\ UNCHANGED <<book, shown, refreshes, storeOnly, act, screens, menu, engines, news>>

\* thresholdStep, ApplyThreshold: the engine decides on it from its next tick.
StepThreshold(level) ==
  /\ Press /\ Here("auto") /\ auto.adjusting /\ level # auto.threshold
  /\ auto' = [auto EXCEPT !.threshold = level]
  /\ engines' = [engines EXCEPT ![auto.engine].threshold = level]
  /\ UNCHANGED <<book, shown, refreshes, storeOnly, act, screens, menu, news>>

\* toggleLive: going live is confirmed, going dry is not.
ToggleLive ==
  /\ Press /\ Here("auto")
  /\ IF engines[auto.engine].dry
     THEN Push(Screen("confirm", "live", 0, NoOne)) /\ UNCHANGED <<auto, engines>>
     ELSE RestartEngine(TRUE) /\ UNCHANGED screens
  /\ UNCHANGED <<book, shown, refreshes, storeOnly, act, menu, news>>

\* back, popScreen, onExit: the engine is told to stop; it may be in a tick.
CloseAuto ==
  /\ Press /\ Here("auto") /\ ~auto.adjusting
  /\ screens' = Popped
  /\ engines' = StoppedOf(engines, auto.engine)
  /\ auto' = NoAuto
  /\ storeOnly' = FALSE /\ TickRefresh
  /\ UNCHANGED <<book, shown, act, menu, news>>

DashNext ==
  \/ PollTick
  \/ \E r \in refreshes : BuildAccountsInfo(r) \/ TakeSnapshot(r) \/ ApplySnapshot(r)
  \/ RunAction \/ ActionDone
  \/ \E n \in Place, p \in Person \cup {NoOne} : Elsewhere(n, p)
  \/ \E e \in DOMAIN engines : LoopTop(e) \/ LoopTick(e) \/ LoopWakes(e) \/ EngineEvent(e)
  \/ \E t \in {"add account", "remove account", "disable / enable"} : OpenMenu(t)
  \/ \E k \in {"switch", "watch"} : OpenScreen(k)
  \/ \E n \in Place : ChooseRemove(n) \/ ChooseDisable(n) \/ ChooseSwitch(n)
  \/ ChooseAdd \/ ChooseBest \/ Confirm \/ Back
  \/ \E n \in Place : SubmitForm(n)
  \/ \E l \in Levels : OpenAuto(l) \/ StepThreshold(l)
  \/ BeginAdjust \/ EndAdjust \/ ToggleLive \/ CloseAuto

DashSpec == DashInit /\ [][DashNext]_dashVars

-----------------------------------------------------------------------------
(* Properties *)

DashTypeOK ==
  /\ book.who \in [Place -> Person \cup {NoOne}] /\ book.off \subseteq Place
  /\ book.live \in Place \cup {0} /\ book.ver \in 1 .. MaxChanges
  /\ shown.ver \in 0 .. book.ver
  /\ \A r \in refreshes : r.snap.ver \in 0 .. book.ver
  /\ act.op \in {"idle", "switch", "best", "disable", "enable", "remove", "add"}
  /\ \A i \in DOMAIN screens : screens[i].kind \in
       {"switch", "watch", "confirm", "form", "output", "auto"}
  /\ storeOnly = Mounted
  /\ auto.engine \in 0 .. Len(engines) /\ Len(engines) <= MaxEngines
  /\ \A e \in DOMAIN engines : engines[e].st \in {"top", "tick", "asleep", "gone"}

\* What is on screen never goes back in time: a snapshot that was read earlier
\* is not applied after one that was read later, whatever asked for them
\* (app.go tickRefresh, applySnapshot).
SnapshotsInOrder == [][shown'.ver >= shown.ver]_dashVars

\* However the auto screen is opened, restarted and left, every engine but the
\* one the mounted screen shows has been told to stop, so two engines of one
\* dashboard never both go on switching (autoview.go restartEngine, onExit).
OneEngine ==
  \A e \in DOMAIN engines : ~engines[e].stop => Mounted /\ e = auto.engine

\* An engine that sleeps with no wake pending has decided on the threshold that
\* is set, once an adjustment that changed it was ended (loop.go RunLoop,
\* autoview.go endAdjust).
ThresholdSeen ==
  \A e \in DOMAIN engines :
    /\ Mounted /\ e = auto.engine
    /\ engines[e].st = "asleep" /\ ~engines[e].wake /\ ~auto.adjusting /\ auto.net
    => engines[e].used = engines[e].threshold
=============================================================================
