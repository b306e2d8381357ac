------------------------------- MODULE Settings -------------------------------
(***************************************************************************)
(* settings.json and the settings in force (internal/settings).            *)
(*                                                                         *)
(* The file is edited by hand and by cswap config set and unset, each of   *)
(* which reads it, changes one key and writes it back without a lock.      *)
(* Every reader loads it anew and forgives whatever it finds; cswap auto   *)
(* lays its flags over what it loaded.                                     *)
(*                                                                         *)
(* A value is <<type, content>>.  Numbers are integers, and the formatting *)
(* of floats is left out; a section without keys is no section.            *)
(***************************************************************************)
EXTENDS Integers, Functions

CONSTANTS Setter,             \* cswap config processes
          Numeral,            \* function: text -> the value strconv reads from it
          Words,              \* the other texts
          Found,              \* what a hand edit may leave in the file
          MaxEdits            \* bound: hand edits and commands

NaN == <<"nan">>
Null == <<"null">>
Number(i) == <<"number", i>>
Text(s) == <<"text", s>>
Bool(b) == <<"bool", b>>

\* The registry; one float of the four, with its flag, stands for them all.
SettingSpecs == [
  threshold |-> [kind |-> "float", lo |-> 50, hi |-> 99, default |-> Number(90)],
  unhealthyTicks |-> [kind |-> "int", lo |-> 1, hi |-> 100, default |-> Number(3)],
  strategy |-> [kind |-> "choice", choices |-> {"best", "soonest-reset"}, default |-> Text("best")],
  includeApiKeyAccounts |-> [kind |-> "bool", default |-> Bool(FALSE)],
  model |-> [kind |-> "string", default |-> Null]]

Setting == DOMAIN SettingSpecs
Flags == {"threshold", "includeApiKeyAccounts", "model"}
Default == [k \in Setting |-> SettingSpecs[k].default]

Absent == [state |-> "absent"]
Broken == [state |-> "broken"]
Flat == [state |-> "flat"]
Section(s) == IF DOMAIN s = {} THEN [state |-> "empty"] ELSE [state |-> "object", keys |-> s]
Idling == [state |-> "idle"]

\* The keys of the section; none where there is no section.
Keys(f) == IF f.state = "object" THEN f.keys ELSE <<>>

\* What JSON can hold: everything but NaN.
JSONValue(v) == v = Null \/ v[1] \in {"text", "bool"} \/ (v[1] = "number" /\ v[2] \in Int)

ASSUME SettingsAssumption ==
  /\ MaxEdits \in Nat /\ DOMAIN Numeral \cap Words = {}
  /\ \A t \in DOMAIN Numeral : \/ Numeral[t] = NaN
                              \/ /\ Numeral[t] = Number(Numeral[t][2])
                                 /\ Numeral[t][2] \in Int
  /\ \A f \in Found : \A k \in DOMAIN Keys(f) : JSONValue(Keys(f)[k])

VARIABLES file,     \* settings.json: Absent, Broken, Flat (its section is no object) or a section
          edit,     \* setter -> the section it is about to write, or Idling
          inForce,  \* the settings cswap auto runs with
          given,    \* its flags
          edits

settingsVars == <<file, edit, inForce, given, edits>>

----------------------------------------------------------------------------
(* Reading *)

Truthy(v) == v \notin {Null, Bool(FALSE), Number(0), Text("")}

ClampNumberBug(spec, v) ==
  CASE v[1] = "nan" -> NaN
    [] v[1] = "number" -> Number(IF v[2] > spec.hi THEN spec.hi ELSE v[2])
    [] OTHER -> spec.default

ClampNumber(spec, v) ==
  CASE v[1] = "nan" -> NaN
    [] v[1] = "number" -> Number(IF v[2] < spec.lo THEN spec.lo
                                 ELSE IF v[2] > spec.hi THEN spec.hi ELSE v[2])
    [] OTHER -> spec.default

ClampValue(spec, v) ==
  CASE spec.kind \in {"float", "int"} -> ClampNumber(spec, v)
    [] spec.kind = "bool" -> Bool(Truthy(v))
    [] spec.kind = "string" -> IF v[1] = "text" /\ v # Text("") THEN v ELSE spec.default
    [] OTHER -> IF v[1] = "text" /\ v[2] \in spec.choices THEN v ELSE spec.default

\* Overlaid(under, over): over's values where it has the key.
Overlaid(under, over) == [k \in Setting |-> IF k \in DOMAIN over THEN over[k] ELSE under[k]]

Clamp(fields) == [k \in Setting |-> ClampValue(SettingSpecs[k], fields[k])]

\* Load: a missing or broken file, and a section that is no object, are the defaults.
Load(f) == IF f.state = "object" THEN Clamp(Overlaid(Default, Keys(f))) ELSE Default

MergedWithCLI(s, flags) == IF DOMAIN flags = {} THEN s ELSE Clamp(Overlaid(s, flags))

\* InRange(spec, v): a value the program can work with.
InRange(spec, v) ==
  CASE spec.kind \in {"float", "int"} -> v[1] = "number" /\ v[2] \in spec.lo..spec.hi
    [] spec.kind = "bool" -> v[1] = "bool"
    [] spec.kind = "string" -> v = Null \/ (v[1] = "text" /\ v # Text(""))
    [] OTHER -> v[1] = "text" /\ v[2] \in spec.choices

ASSUME DefaultsInRange == \A k \in Setting : InRange(SettingSpecs[k], Default[k])

----------------------------------------------------------------------------
(* config set and unset *)

Refused == <<"refused">>
TrueWords == {"true", "1", "yes"}
FalseWords == {"false", "0", "no"}

\* ParseSettingValue: NaN is in no range but outside none either.
ParseSettingValue(spec, t) ==
  CASE spec.kind = "bool" -> IF t \in TrueWords \cup FalseWords THEN Bool(t \in TrueWords) ELSE Refused
    [] spec.kind = "choice" -> IF t \in spec.choices THEN Text(t) ELSE Refused
    [] spec.kind = "string" -> IF t = "" THEN Refused ELSE Text(t)
    [] OTHER -> IF /\ t \in DOMAIN Numeral
                   /\ \/ Numeral[t] = NaN /\ spec.kind = "float"
                      \/ Numeral[t] # NaN /\ Numeral[t][2] \in spec.lo..spec.hi
                THEN Numeral[t] ELSE Refused

\* readRawForWrite: the file is read strictly, so a broken one is not replaced.
ReadRawForWrite(s, keys) ==
  /\ edit[s] = Idling /\ file # Broken /\ edits < MaxEdits
  /\ edit' = [edit EXCEPT ![s] = Section(keys)]
  /\ edits' = edits + 1
  /\ UNCHANGED <<file, inForce, given>>

SetSetting(s, k, t) ==
  LET value == ParseSettingValue(SettingSpecs[k], t)
  IN  /\ value # Refused
      /\ ReadRawForWrite(s, [i \in DOMAIN Keys(file) \cup {k} |-> IF i = k THEN value ELSE Keys(file)[i]])

UnsetSetting(s, k) ==
  /\ k \in DOMAIN Keys(file)
  /\ ReadRawForWrite(s, Restrict(Keys(file), DOMAIN Keys(file) \ {k}))

\* The write is atomic; JSON has no NaN, so a section with one is not written.
WriteSettings(s) ==
  /\ edit[s] # Idling
  /\ \A k \in DOMAIN Keys(edit[s]) : Keys(edit[s])[k] # NaN
  /\ file' = edit[s] /\ edit' = [edit EXCEPT ![s] = Idling]
  /\ UNCHANGED <<inForce, given, edits>>

\* The write fails, or the process dies before it.
WriteSettingsFails(s) ==
  /\ edit[s] # Idling /\ edit' = [edit EXCEPT ![s] = Idling]
  /\ UNCHANGED <<file, inForce, given, edits>>

----------------------------------------------------------------------------
(* The rest of the world *)

HandEdit ==
  /\ edits < MaxEdits /\ edits' = edits + 1
  /\ file' \in Found /\ UNCHANGED <<edit, inForce, given>>

\* cswap auto starts with at most one flag.
RunAuto ==
  \E flags \in {<<>>} \cup {[k \in {"threshold"} |-> Numeral[t]] : t \in DOMAIN Numeral}
              \cup {[k \in {"includeApiKeyAccounts"} |-> Bool(TRUE)]}
              \cup {[k \in {"model"} |-> Text(w)] : w \in Words} :
    /\ given' = flags /\ inForce' = MergedWithCLI(Load(file), flags)
    /\ UNCHANGED <<file, edit, edits>>

SettingsInit ==
  /\ file = Absent /\ edit = [s \in Setter |-> Idling]
  /\ inForce = Default /\ given = <<>> /\ edits = 0

SettingsNext ==
  \/ \E s \in Setter :
       \/ \E k \in Setting, t \in DOMAIN Numeral \cup Words : SetSetting(s, k, t)
       \/ \E k \in Setting : UnsetSetting(s, k)
       \/ WriteSettings(s) \/ WriteSettingsFails(s)
  \/ HandEdit \/ RunAuto

SettingsSpec == SettingsInit /\ [][SettingsNext]_settingsVars

\* Whatever is in the file and on the command line, the settings in force lie in the registry's
\* ranges: the engine can sleep, compare and count with them.  The one exception is the flag
\* --threshold nan, which math.Min and math.Max pass on (settings.go 277).
SettingsTypeOK ==
  /\ DOMAIN inForce = Setting /\ edits \in 0..MaxEdits
  /\ \A k \in Setting :
       \/ InRange(SettingSpecs[k], inForce[k])
       \/ inForce[k] = NaN /\ k \in DOMAIN given /\ given[k] = NaN
  /\ \A k \in Setting : InRange(SettingSpecs[k], Load(file)[k])
=============================================================================
