------------------------------ MODULE LogConfig ------------------------------
(***************************************************************************)
(* The configuration of the client's logging library: the list of settings *)
(* a file is parsed into (class Configurations), and the per-type maps it  *)
(* is compiled into (class TypedConfigurations).                           *)
(*                                                                         *)
(* Configurations is a registry: a sequence of <level, type, value> in the *)
(* order of first registration.  The order matters, because copying one    *)
(* registry into another replays it, and setting Level::Global overwrites  *)
(* every level.                                                            *)
(***************************************************************************)
EXTENDS Naturals, Sequences, SequencesExt, LogFormat

CONSTANTS LevelOrder,   \* the levels, in the order LevelHelper::forEachLevel visits them
          FormatText,   \* the formats a file may hold: name -> sequence of pieces
          Unopenable    \* the file names that cannot be opened for writing

Global  == "GLOBAL"
Unknown == "UNKNOWN"
Level   == ToSet(LevelOrder)

\* ToStandardOutput, SubsecondPrecision and PerformanceTracking take the same way and
\* decide nothing of what reaches the file.
Type == {"enabled", "to_file", "filename", "format", "max_log_file_size",
         "log_flush_threshold"}

ASSUME LogConfigAssumption ==
  /\ Global \notin Level /\ Unknown \notin Level
  /\ "default" \in DOMAIN FormatText
  /\ \A i, j \in DOMAIN LevelOrder : LevelOrder[i] = LevelOrder[j] => i = j

\* LevelHelper and ConfigurationTypeHelper::convertFromString: any other name is Unknown.
convertLevel(name) == IF name \in Level \cup {Global} THEN name ELSE Unknown
convertType(name)  == IF name \in Type THEN name ELSE Unknown

-----------------------------------------------------------------------------
(* class Configurations *)

\* Configuration::Predicate: the search for a setting of a level.
Predicate(e, l, t) == e.level = l /\ e.type = t

hasConfiguration(conf, l, t) == \E i \in DOMAIN conf : Predicate(conf[i], l, t)

\* Configuration's constructor.
Setting(l, t, v) == [level |-> l, type |-> t, value |-> v]

\* A plausible bug: a setting that is already there is registered again.
RegisterAgain(conf, l, t, v) == Append(conf, Setting(l, t, v))

\* RegistryWithPred::get, then setValue, or registerNew at the end.
Register(conf, l, t, v) ==
  IF hasConfiguration(conf, l, t)
  THEN [i \in DOMAIN conf |->
          IF Predicate(conf[i], l, t) THEN [conf[i] EXCEPT !.value = v] ELSE conf[i]]
  ELSE Append(conf, Setting(l, t, v))

\* Every level in turn: the ones that have the setting change it, the others register it.
unsafeSetGlobally(conf, t, v) ==
  LET missing == SelectSeq(LevelOrder, LAMBDA l : ~hasConfiguration(conf, l, t))
  IN  [i \in DOMAIN conf |-> IF conf[i].level \in Level /\ conf[i].type = t
                             THEN [conf[i] EXCEPT !.value = v] ELSE conf[i]]
      \o [i \in DOMAIN missing |-> Setting(missing[i], t, v)]

unsafeSet(conf, l, t, v) ==
  LET c == Register(conf, l, t, v)
  IN  IF l = Global THEN unsafeSetGlobally(c, t, v) ELSE c

unsafeSetIfNotExist(conf, l, t, v) ==
  IF hasConfiguration(conf, l, t) THEN conf ELSE unsafeSet(conf, l, t, v)

set(conf, l, t, v) ==
  LET c == unsafeSet(conf, l, t, v)
  IN  IF l = Global THEN unsafeSetGlobally(c, t, v) ELSE c

setGlobally(conf, t, v) ==
  unsafeSetGlobally(set(conf, Global, t, v), t, v)

\* A plausible bug: the list is replayed from its end.
setFromBaseBackwards(conf, base) ==
  FoldLeft(LAMBDA c, e : set(c, e.level, e.type, e.value), conf, Reverse(base))

setFromBase(conf, base) ==
  FoldLeft(LAMBDA c, e : set(c, e.level, e.type, e.value), conf, base)

\* The values of setToDefault, in its order.
Default ==
  <<[type |-> "enabled", value |-> "true"],
    [type |-> "filename", value |-> "default"],
    [type |-> "to_file", value |-> "true"],
    [type |-> "max_log_file_size", value |-> "0"],
    [type |-> "log_flush_threshold", value |-> "0"],
    [type |-> "format", value |-> "default"]>>

setToDefault == FoldLeft(LAMBDA c, e : setGlobally(c, e.type, e.value), <<>>, Default)

\* The same values for Level::Global where it has none; where and how often the
\* buffered lines are written is not among them.
setRemainingToDefault(conf) ==
  FoldLeft(LAMBDA c, e : unsafeSetIfNotExist(c, Global, e.type, e.value), conf,
           SelectSeq(Default, LAMBDA e : e.type \notin {"to_file", "log_flush_threshold"}))

(***************************************************************************)
(* Configurations::Parser::parseLine.  "* NAME:" opens a section; a        *)
(* setting of an unknown section or an unknown type is refused, and        *)
(* parsing goes on with the next line.                                     *)
(***************************************************************************)
parseLine(parser, line) ==
  IF line.kind = "level"
  THEN [parser EXCEPT !.level = convertLevel(line.name)]
  ELSE IF parser.level = Unknown \/ convertType(line.type) = Unknown
  THEN parser
  ELSE [parser EXCEPT !.conf = set(@, parser.level, line.type, line.value)]

-----------------------------------------------------------------------------
(* class TypedConfigurations *)

getBool(v) == v \in {"true", "TRUE", "1"}

Numeral == ("0" :> 0) @@ ("1" :> 1) @@ ("2" :> 2) @@ ("3" :> 3) @@ ("4" :> 4)

\* A value that is not a number is 0.
getULong(v) == IF v \in DOMAIN Numeral THEN Numeral[v] ELSE 0

\* The first value of a map is stored for Level::Global, whatever its level, and a
\* value that Level::Global already has is not stored again.
setValue(map, l, v) ==
  IF DOMAIN map = {} THEN Global :> v
  ELSE IF Global \in DOMAIN map /\ map[Global] = v THEN map
  ELSE (l :> v) @@ map

\* unsafeGetConfigByVal and unsafeGetConfigByRef.
getConfig(map, l) == IF l \in DOMAIN map THEN map[l] ELSE map[Global]

NoTyped == [t \in Type |-> <<>>]

Typed(e) ==
  CASE e.type \in {"enabled", "to_file"} -> getBool(e.value)
    [] e.type = "format" -> parseFromFormat(e.level, FormatText[e.value])
    [] OTHER -> getULong(e.value)

\* The file of the day: "log" stands for a name with a %datetime, which the clock resolves.
resolveFilename(name, hour) ==
  IF name = "log" THEN IF hour = 0 THEN "log0" ELSE "log1" ELSE name

\* One entry of the first loop of build(): file names wait for the second loop.
BuildEntry(typed, e) ==
  IF e.type = "filename" THEN typed
  ELSE [typed EXCEPT ![e.type] = setValue(@, e.level, Typed(e))]

(***************************************************************************)
(* insertFile.  opened maps every name the program ever opened to whether  *)
(* that worked: the streams are shared, a failed one too.  The first name  *)
(* goes to Level::Global, insert() never replaces one, and a name that     *)
(* cannot be opened turns TO_FILE off for its level.                       *)
(***************************************************************************)
insertFile(build_, e, hour) ==
  LET f == resolveFilename(e.value, hour)
      l == IF DOMAIN build_.typed.filename = {} THEN Global ELSE e.level
      named == IF l \in DOMAIN build_.typed.filename THEN build_.typed
               ELSE [build_.typed EXCEPT !.filename = (l :> f) @@ @]
  IN  [opened |-> build_.opened \cup {f},
       typed  |-> IF f \in Unopenable
                  THEN [named EXCEPT !.to_file = setValue(@, l, FALSE)]
                  ELSE named]

\* TypedConfigurations::build, but for the rolling of files that are already too long.
BuildTyped(conf, opened, hour) ==
  LET maps == FoldLeft(BuildEntry, NoTyped, conf)
  IN  FoldLeft(LAMBDA b, e : insertFile(b, e, hour),
               [opened |-> opened, typed |-> maps],
               SelectSeq(conf, LAMBDA e : e.type = "filename"))

enabled(typed, l)           == getConfig(typed.enabled, l)
toFile(typed, l)            == getConfig(typed.to_file, l)
filename(typed, l)          == getConfig(typed.filename, l)
maxLogFileSize(typed, l)    == getConfig(typed.max_log_file_size, l)
logFlushThreshold(typed, l) == getConfig(typed.log_flush_threshold, l)
logFormat(typed, l)         == getConfig(typed.format, l)
=============================================================================
