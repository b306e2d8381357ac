------------------------------ MODULE MCServices ------------------------------
(***************************************************************************)
(* The services around the switch, checked in one run.  They share no      *)
(* state in these models, so a behaviour exercises one of them, chosen at  *)
(* the start, and the others stay in one of their initial states.          *)
(***************************************************************************)
EXTENDS AutoSwitch, Polling, Dashboard, Vault, Transfer, Sharing, Settings, TLC

CONSTANTS ann, bob

VARIABLE part  \* the service this behaviour exercises

serviceVars == <<autoVars, pollVars, dashVars, vaultVars, transferVars, sharingVars,
                 settingsVars>>

Win(l, p, r) == [label |-> l, pct |-> p, reset |-> r]

\* Usage for the engine: idle, busy (above the threshold), spent, and unreadable.
IdleUse == {Win("5h", 20, 2), Win("7d", 30, 4)}
BusyUse == {Win("5h", 60, 1), Win("7d", 30, 3)}
MidUse == {Win("5h", 30, 2), Win("7d", 40, 3)}
SpentUse == {Win("5h", 100, 1)}
MCReadings == {NoUsage, IdleUse, BusyUse, MidUse, SpentUse}
MCFirstUsage == {<<BusyUse, IdleUse, MidUse>>, <<BusyUse, IdleUse, NoUsage>>,
                 <<SpentUse, BusyUse, NoUsage>>, <<NoUsage, SpentUse, IdleUse>>}

\* Answers to the collectors: little use, beside a window without a number and a limit
\* without a model; and a window at its limit.
Used(p, r) == [utilization |-> p, resets_at |-> r]
MCResponses ==
  {[five_hour |-> Used(20, 30), seven_day |-> Used(Nil, Nil),
    limits |-> {[model |-> "", percent |-> 20, resets_at |-> 30]}],
   [five_hour |-> Used(100, 9), seven_day |-> NoWindow,
    limits |-> {[model |-> "opus", percent |-> 40, resets_at |-> Nil]}]}

\* Export files: two accounts apart, two for one slot, one alias twice.
Exported(o, n, a) == [id |-> o, num |-> n, alias |-> a]
MCOwner == {ann, bob}
MCEnvelopes ==
  {[active |-> 1, accounts |-> <<Exported(ann, 1, "x"), Exported(bob, 2, NoAlias)>>],
   [active |-> 0, accounts |-> <<Exported(bob, 1, "x"), Exported(ann, 1, NoAlias)>>],
   [active |-> 2, accounts |-> <<Exported(bob, 2, "x"), Exported(ann, 1, "x")>>]}
MCDirs == {<<"w">>, <<"w", "v">>}

\* Texts for config set, and files a hand edit leaves.
MCNumeral == "1" :> Number(1) @@ "70" :> Number(70) @@ "200" :> Number(200) @@ "nan" :> NaN
MCFound ==
  {Absent, Broken, Flat,
   Section("threshold" :> Number(20) @@ "unhealthyTicks" :> Bool(TRUE)),
   Section("strategy" :> Text("worst") @@ "model" :> Number(1)
           @@ "includeApiKeyAccounts" :> Number(0))}

\* The one initial state a service keeps while another is exercised.
AutoParked == /\ policy.strategy = "best" /\ policy.apiKey = {}
              /\ usage[1] = NoUsage /\ near = {} /\ held = [s \in Slot |-> s]
              /\ \A e \in Engine : ~eng[e].dry
PollParked == \A a \in Acct : rows[a] = FreshRow
DashParked == book.who[1] = ann /\ \A n \in Place \ {1} : book.who[n] = NoOne
VaultParked == mac /\ ~locked /\ mail[2] = 2 /\ legacy[<<"slot", 1>>] = 0
TransferParked == roll = NoBook /\ pack.active = 0
SharingParked == told = {} /\ own = "none" /\ mine = {} /\ theirs = {}

\* The initial states it starts from when it is the one: every kind of account and policy
\* with the first usage, every usage with plain accounts; not every pair of poll plans; the
\* two accounts of the dashboard are interchangeable; a migration with a locked Keychain
\* where the accounts share an email; and a profile with settings of its own or with MCP
\* servers that a mirror displaces.
Plain == policy.strategy = "best" /\ policy.apiKey = {} /\ \A e \in Engine : ~eng[e].dry
AutoStarts ==
  \/ usage = <<BusyUse, IdleUse, MidUse>> /\ near = {}
  \/ usage = <<BusyUse, IdleUse, NoUsage>> /\ Plain /\ foreign # {}
  \/ usage[1] = BusyUse /\ policy.apiKey # {} /\ near = {} /\ held[2] = 2
  \/ usage[1] # BusyUse /\ Plain /\ near = {} /\ held[2] = 2
PollStarts == PollParked \/ \A a \in Acct : rows[a].pollInterval = CandidateMax
DashStarts == book.who[1] # bob /\ (book.who[1] = NoOne => book.who[2] = ann)
VaultStarts == mac => (locked <=> mail[2] = 1)
SharingStarts == IF own = "file" THEN mine \subseteq theirs
                 ELSE theirs # {} /\ (mine = {} <=> told # {})

Init ==
  /\ part \in {"auto", "polling", "dashboard", "vault", "transfer", "sharing", "settings"}
  /\ AutoInit /\ (IF part = "auto" THEN AutoStarts ELSE AutoParked)
  /\ PollInit /\ (IF part = "polling" THEN PollStarts ELSE PollParked)
  /\ DashInit /\ (IF part = "dashboard" THEN DashStarts ELSE DashParked)
  /\ VaultInit /\ (IF part = "vault" THEN VaultStarts ELSE VaultParked)
  /\ TransferInit /\ (part # "transfer" => TransferParked)
  /\ SharingInit /\ (IF part = "sharing" THEN SharingStarts ELSE SharingParked)
  /\ SettingsInit

Next ==
  /\ part' = part
  /\ \/ /\ part = "auto" /\ AutoNext
        /\ UNCHANGED <<pollVars, dashVars, vaultVars, transferVars, sharingVars, settingsVars>>
     \/ /\ part = "polling" /\ PollNext
        /\ UNCHANGED <<autoVars, dashVars, vaultVars, transferVars, sharingVars, settingsVars>>
     \/ /\ part = "dashboard" /\ DashNext
        /\ UNCHANGED <<autoVars, pollVars, vaultVars, transferVars, sharingVars, settingsVars>>
     \/ /\ part = "vault" /\ VaultNext
        /\ UNCHANGED <<autoVars, pollVars, dashVars, transferVars, sharingVars, settingsVars>>
     \/ /\ part = "transfer" /\ TransferNext
        /\ UNCHANGED <<autoVars, pollVars, dashVars, vaultVars, sharingVars, settingsVars>>
     \/ /\ part = "sharing" /\ SharingNext
        /\ UNCHANGED <<autoVars, pollVars, dashVars, vaultVars, transferVars, settingsVars>>
     \/ /\ part = "settings" /\ SettingsNext
        /\ UNCHANGED <<autoVars, pollVars, dashVars, vaultVars, transferVars, sharingVars>>

Spec == Init /\ [][Next]_<<part, serviceVars>>

\* The state of every service has its type, and the settings in force lie in their ranges
\* whatever settings.json and the command line hold (settings.go clampValue).
TypeOK ==
  /\ part = "auto" => AutoTypeOK
  /\ part = "polling" => PollTypeOK
  /\ part = "dashboard" => DashTypeOK
  /\ part = "vault" => VaultTypeOK
  /\ part = "transfer" => TransferTypeOK
  /\ part = "sharing" => SharingTypeOK
  /\ part = "settings" => SettingsTypeOK

Processes == Permutations(Engine)
=============================================================================
