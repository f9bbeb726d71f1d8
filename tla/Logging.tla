------------------------------- MODULE Logging -------------------------------
(***************************************************************************)
(* The client's log: reading the configuration file, configuring the one   *)
(* logger, and the LOG statements of the parent process, of its SIGALRM    *)
(* handler, and of the child process it forks.                             *)
(*                                                                         *)
(* The library is built without ELPP_THREAD_SAFE, so its locks are empty.  *)
(* The handler's LOG may fall between any two steps of the main program's  *)
(* LOG and runs to its end there: both use the logger's one string stream  *)
(* and the dispatch callback's one m_data pointer.  The child inherits the *)
(* open files: until one process rolls a file, both write through the same *)
(* file offset; after that each has its own.                               *)
(*                                                                         *)
(* A line is the set of the messages whose text is in it, and every line   *)
(* has size 1.  A message is a number, fresh in every LOG statement.       *)
(***************************************************************************)
EXTENDS Naturals, Sequences, FiniteSets, LogConfig, Functions, FiniteSetsExt

CONSTANTS ConfLine,   \* the lines a configuration file may hold
          MaxLines,   \* bound on the lines of the file
          MaxLogs,    \* bound on the LOG statements that are executed
          OldLines    \* how many lines an earlier run may have left in the files

Process == {"parent", "child"}
File    == {"default", "log0", "log1"} \cup Unopenable
Message == 1..MaxLogs

ASSUME LoggingAssumption ==
  /\ MaxLines \in Nat /\ MaxLogs \in Nat /\ OldLines \subseteq Nat
  /\ Unopenable \cap {"default", "log0", "log1"} = {}

VARIABLES
  pc,          \* how far main() is: "parse", "first", "second", "start", "run"
  parser,      \* the Configurations main() builds, and the section being read
  lines,       \* history: the lines read so far
  registry,    \* the logger's m_configurations
  typed,       \* the logger's m_typedConfigurations
  opened,      \* the names in the map of shared streams
  disk,        \* the files
  stream,      \* per process and file: the fstream
  unflushed,   \* per process and level: m_unflushedCount
  text,        \* per process: the logger's string stream
  writer,      \* per process: the LOG statement the main program is in
  mData,       \* per process: whose dispatch data m_data points to
  logs,        \* LOG statements executed so far
  done,        \* history: messages whose LOG statement ended and should be in a file
  rolled,      \* history: messages in lines that a roll threw away
  strayed,     \* history: messages another LOG statement or a crash interfered with
  parted       \* history: files one process rolled while the other held them open

confVars == <<parser, lines, registry, typed, opened>>
logVars  == <<unflushed, text, writer, mData, logs>>
history  == <<done, rolled, strayed, parted>>
vars == <<pc, confVars, disk, stream, logVars, history>>

NotOpen == [app |-> FALSE, pos |-> 0, shared |-> FALSE, buf |-> <<>>]

\* File::newFileStream opens a file for appending.  Where the position is before the
\* first write is up to the C library; glibc's fopen() puts it at the end.
newFileStream(content) == [NotOpen EXCEPT !.app = TRUE, !.pos = Len(content)]

Idle == [at |-> "idle", level |-> Unknown, msg |-> 0, line |-> {}, file |-> "default",
         roll |-> Unknown]

\* RegisteredLoggers::get creates a logger with the default settings.
DefaultRegistry == setFromBase(<<>>, setToDefault)

\* Logger's constructor has compiled them.
DefaultTyped == BuildTyped(DefaultRegistry, {}, 0).typed

initUnflushedCount == [l \in Level |-> 0]

\* Storage's constructor has registered the default logger.
Init ==
  /\ pc = "parse"
  /\ parser = [conf |-> <<>>, level |-> Unknown]
  /\ lines = <<>>
  /\ registry = DefaultRegistry /\ typed = DefaultTyped
  /\ opened = {"default"}
  /\ \E old \in OldLines :
       disk = [f \in File |-> IF f \in Unopenable THEN <<>> ELSE [i \in 1..old |-> {}]]
  /\ stream = [p \in Process |->
                [f \in File |-> IF f = "default" /\ p = "parent" THEN newFileStream(disk[f])
                                ELSE NotOpen]]
  /\ unflushed = [p \in Process |-> initUnflushedCount]
  /\ text = [p \in Process |-> {}]
  /\ writer = [p \in Process |-> Idle]
  /\ mData = [p \in Process |-> "own"]
  /\ logs = 0
  /\ done = {} /\ rolled = {} /\ strayed = {} /\ parted = {}

-----------------------------------------------------------------------------
(* main(): reading log.conf and configuring the logger *)

\* A file is taken to open a section first: a setting before that is refused like one
\* of an unknown section.
ParseLine(line) ==
  /\ pc = "parse"
  /\ lines = <<>> => line.kind = "level"
  /\ Len(lines) < MaxLines
  /\ parser' = parseLine(parser, line)
  /\ lines' = Append(lines, line)
  /\ UNCHANGED <<pc, registry, typed, opened, disk, stream, logVars, history>>

ParseEnd ==
  /\ pc = "parse"
  /\ parser' = [parser EXCEPT !.conf = setRemainingToDefault(@)]
  /\ pc' = "first"
  /\ UNCHANGED <<lines, registry, typed, opened, disk, stream, logVars, history>>

\* The size of a file as the library sees it: tellg(), which counts buffered lines.
getSizeOfFile(s) == s.pos + Len(s.buf)

Texts(seq) == UNION ToSet(seq)

\* What flush() does to a file: appended, or written over what stands at the position.
Written(content, s) ==
  IF s.app THEN content \o s.buf
  ELSE [i \in 1..Max({Len(content), s.pos + Len(s.buf)}) |->
          IF i \in (s.pos + 1)..(s.pos + Len(s.buf)) THEN s.buf[i - s.pos]
          ELSE IF i \in DOMAIN content THEN content[i] ELSE {}]

\* The files and streams after flush() of process p's stream of f.  An offset that is
\* still shared moves for both processes.
FlushFile(io, p, f) ==
  LET s   == io.stream[p][f]
      new == IF s.buf = <<>> THEN io.disk[f] ELSE Written(io.disk[f], s)
      pos == IF s.buf = <<>> THEN s.pos
             ELSE IF s.app THEN Len(new) ELSE s.pos + Len(s.buf)
  IN  [io EXCEPT !.disk[f] = new,
                 !.stream = [q \in Process |->
                   [@[q] EXCEPT ![f] = IF q = p THEN [s EXCEPT !.pos = pos, !.buf = <<>>]
                                       ELSE IF s.shared THEN [@ EXCEPT !.pos = pos] ELSE @]]]

\* A plausible bug: a file of exactly the limit is kept.
validateFileRollingLate(io, p, l, typed_) ==
  LET f == filename(typed_, l)
      s == io.stream[p][f]
      max == maxLogFileSize(typed_, l)
  IN  IF f \in Unopenable \/ max = 0 \/ getSizeOfFile(s) <= max THEN io
      ELSE [disk   |-> [io.disk EXCEPT ![f] = <<>>],
            stream |-> [q \in Process |->
              [io.stream[q] EXCEPT ![f] = IF q = p THEN NotOpen ELSE [@ EXCEPT !.shared = FALSE]]],
            rolled |-> io.rolled \cup Texts(io.disk[f]) \cup Texts(s.buf),
            parted |-> IF s.shared THEN io.parted \cup {f} ELSE io.parted]

\* unsafeValidateFileRolling: the file is closed and opened again, truncated and no
\* longer for appending.
validateFileRolling(io, p, l, typed_) ==
  LET f == filename(typed_, l)
      s == io.stream[p][f]
      max == maxLogFileSize(typed_, l)
  IN  IF f \in Unopenable \/ max = 0 \/ getSizeOfFile(s) < max THEN io
      ELSE [disk   |-> [io.disk EXCEPT ![f] = <<>>],
            stream |-> [q \in Process |->
              [io.stream[q] EXCEPT ![f] = IF q = p THEN NotOpen ELSE [@ EXCEPT !.shared = FALSE]]],
            rolled |-> io.rolled \cup Texts(io.disk[f]) \cup Texts(s.buf),
            parted |-> IF s.shared THEN io.parted \cup {f} ELSE io.parted]

FileState == [disk |-> disk, stream |-> stream, rolled |-> rolled, parted |-> parted]

SetFileState(io) ==
  /\ disk' = io.disk
  /\ stream' = io.stream
  /\ rolled' = io.rolled
  /\ parted' = io.parted

\* Logger::flush(): every level that has a file.
FlushAll(io, p) ==
  LET flush(x, l) ==
        IF toFile(typed, l)
        THEN validateFileRolling(FlushFile(x, p, filename(typed, l)), p, l, typed)
        ELSE x
  IN  FoldLeft(flush, io, LevelOrder)

\* Logger::configure.  Files that were opened stay open.
configure(hour) ==
  LET conf  == setFromBase(registry, parser.conf)
      built == BuildTyped(conf, opened, hour)
      fresh == built.opened \ (opened \cup Unopenable)
      open  == [FlushAll(FileState, "parent") EXCEPT
                  !.stream["parent"] = [f \in File |-> IF f \in fresh THEN newFileStream(disk[f])
                                                  ELSE @[f]]]
      limited == SelectSeq(conf, LAMBDA e : e.type = "max_log_file_size" /\ getULong(e.value) # 0)
  IN  /\ registry' = conf
      /\ typed' = [built.typed EXCEPT !.format =
                     [l \in DOMAIN @ |-> IF l = Global THEN @[l] ELSE resolveLoggerFormatSpec(@[l])]]
      /\ opened' = built.opened
      /\ SetFileState(FoldLeft(LAMBDA x, e : validateFileRolling(x, "parent", e.level, built.typed),
                               open, limited))
      /\ unflushed' = [unflushed EXCEPT !["parent"] = initUnflushedCount]
      /\ UNCHANGED <<parser, lines, text, writer, mData, logs, done, strayed>>

reconfigureLogger == pc = "first" /\ pc' = "second" /\ configure(0)

\* The one logger again.  The hour may have changed in between.
reconfigureAllLoggers(hour) == pc = "second" /\ pc' = "start" /\ configure(hour)

\* Client::start(): the child has a copy of everything, buffered lines included, and
\* shares the open files.  What main() built the configuration from is not read again.
Fork ==
  /\ pc = "start"
  /\ writer["parent"].at = "idle"
  /\ pc' = "run"
  /\ stream' = [p \in Process |->
                 [f \in File |-> [stream["parent"][f] EXCEPT !.shared = f \in opened \ Unopenable]]]
  /\ unflushed' = [p \in Process |-> unflushed["parent"]]
  /\ parser' = [conf |-> <<>>, level |-> Unknown]
  /\ lines' = <<>> /\ registry' = <<>>
  /\ UNCHANGED <<typed, opened, disk, text, writer, mData, logs, history>>

-----------------------------------------------------------------------------
(* LOG(level) << message *)

Running(p) == pc = "run" \/ (pc = "start" /\ p = "parent")

\* The messages of this level are meant to be found in a file.
Recorded(l) ==
  /\ enabled(typed, l)
  /\ toFile(typed, l)
  /\ "msg" \in logFormat(typed, l).flags

\* operator<< of a Writer, for an enabled level.
AddText(p, m) == text[p] \cup {m}

\* Writer's constructor asks whether the level is enabled; << then adds the text to the
\* logger's stream.  The destructor of a disabled Writer clears that stream.
Log(p, l) ==
  /\ Running(p)
  /\ writer[p].at = "idle"
  /\ logs < MaxLogs
  /\ logs' = logs + 1
  /\ IF enabled(typed, l)
     THEN /\ text' = [text EXCEPT ![p] = AddText(p, logs + 1)]
          /\ writer' = [writer EXCEPT ![p] = [Idle EXCEPT !.at = "copy", !.level = l, !.msg = logs + 1]]
     ELSE /\ text' = [text EXCEPT ![p] = {}]
          /\ UNCHANGED writer
  /\ UNCHANGED <<pc, confVars, disk, stream, unflushed, mData, history>>

\* LogMessage's constructor copies the stream.
CopyText(p) ==
  /\ writer[p].at = "copy"
  /\ writer' = [writer EXCEPT ![p].at = "handle", ![p].line = text[p]]
  /\ UNCHANGED <<pc, confVars, disk, stream, unflushed, text, mData, logs, history>>

\* DefaultLogDispatchCallback::handle remembers the data and builds the line.
HandleData(p) ==
  /\ writer[p].at = "handle"
  /\ mData' = [mData EXCEPT ![p] = "own"]
  /\ writer' = [writer EXCEPT ![p].at = "write",
                              ![p].line = IF "msg" \in logFormat(typed, writer[p].level).flags
                                          THEN @ ELSE {}]
  /\ UNCHANGED <<pc, confVars, disk, stream, unflushed, text, logs, history>>

\* The level read through m_data.  When the handler's LOG came in between, m_data points
\* into a stack frame that is gone, and any level may be read there.
SeenLevels(p) == IF mData[p] = "own" THEN {writer[p].level} ELSE Level

\* A plausible bug: the buffer keeps the last line only.
WriteOver(io, p, f, line) == [io EXCEPT !.stream[p][f].buf = <<line>>]

\* A line that process p writes is buffered.
WriteTo(io, p, f, line) == [io EXCEPT !.stream[p][f].buf = Append(@, line)]

\* fs->write(): a buffer that is full goes to the file at once, and nothing checks the
\* file's size then.  When that is depends on the lengths of the lines.
Writes(io, p, f, line) ==
  LET kept == WriteTo(io, p, f, line)
  IN  {kept, FlushFile(kept, p, f)}

isFlushNeeded(p, l) == unflushed[p][l] + 1 >= logFlushThreshold(typed, l)

WriteLine(p, l) ==
  /\ writer[p].at = "write"
  /\ l \in SeenLevels(p)
  /\ IF toFile(typed, l)
     THEN /\ \E io \in Writes(FileState, p, filename(typed, l), writer[p].line) :
               SetFileState(io)
          /\ unflushed' = [unflushed EXCEPT ![p][l] = @ + 1]
          /\ writer' = [writer EXCEPT ![p].at = IF isFlushNeeded(p, l) THEN "flush" ELSE "clear",
                                      ![p].file = filename(typed, l)]
     ELSE /\ writer' = [writer EXCEPT ![p].at = "clear"]
          /\ UNCHANGED <<disk, stream, rolled, parted, unflushed>>
  /\ UNCHANGED <<pc, confVars, text, mData, logs, done, strayed>>

\* Logger::flush(level, fs), up to the check of the size.
FlushLine(p, l) ==
  /\ writer[p].at = "flush"
  /\ l \in SeenLevels(p)
  /\ SetFileState(FlushFile(FileState, p, writer[p].file))
  /\ unflushed' = [unflushed EXCEPT ![p][l] = 0]
  /\ writer' = [writer EXCEPT ![p].at = "roll", ![p].roll = l]
  /\ UNCHANGED <<pc, confVars, text, mData, logs, done, strayed>>

RollFile(p) ==
  /\ writer[p].at = "roll"
  /\ SetFileState(validateFileRolling(FileState, p, writer[p].roll, typed))
  /\ writer' = [writer EXCEPT ![p].at = "clear"]
  /\ UNCHANGED <<pc, confVars, unflushed, text, mData, logs, done, strayed>>

\* The end of Writer::triggerDispatch.
ClearText(p) ==
  /\ writer[p].at = "clear"
  /\ text' = [text EXCEPT ![p] = {}]
  /\ writer' = [writer EXCEPT ![p] = Idle]
  /\ mData' = [mData EXCEPT ![p] = "own"]
  /\ done' = IF Recorded(writer[p].level) THEN done \cup {writer[p].msg} ELSE done
  /\ UNCHANGED <<pc, confVars, disk, stream, unflushed, logs, rolled, strayed, parted>>

-----------------------------------------------------------------------------
(* The SIGALRM handler of the parent, and the ends of a process *)

\* A level at which the handler's LOG loses the text the main program has just added:
\* the stream is cleared, and the line that holds it goes to no file.
TakesAway(l) == ~Recorded(l)

\* The whole LOG of the handler, between two steps of the main program.
HandlerLog(l) ==
  LET p    == "parent"
      m    == logs + 1
      line == AddText(p, m)
      f    == filename(typed, l)
      kept == Writes(FileState, p, f,
                     IF "msg" \in logFormat(typed, l).flags THEN line ELSE {})
      full == isFlushNeeded(p, l)
      busy == writer[p].at
  IN  /\ pc = "run"
      /\ busy # "dead"
      /\ logs < MaxLogs
      /\ logs' = m
      /\ text' = [text EXCEPT ![p] = {}]
      /\ IF enabled(typed, l) /\ toFile(typed, l)
         THEN /\ \E io \in kept :
                   SetFileState(IF full THEN validateFileRolling(FlushFile(io, p, f), p, l, typed)
                                ELSE io)
              /\ unflushed' = [unflushed EXCEPT ![p][l] = IF full THEN 0 ELSE @ + 1]
         ELSE UNCHANGED <<disk, stream, rolled, parted, unflushed>>
      /\ mData' = [mData EXCEPT ![p] =
                     IF enabled(typed, l) /\ busy \in {"write", "flush", "roll", "clear"}
                     THEN "gone" ELSE @]
      /\ done' = IF Recorded(l) THEN done \cup {m} ELSE done
      /\ strayed' = IF \/ busy = "copy" /\ TakesAway(l)
                       \/ busy = "write" /\ enabled(typed, l)
                    THEN strayed \cup {writer[p].msg} ELSE strayed
      /\ UNCHANGED <<pc, confVars, writer>>

\* m_data is read through a pointer into a frame that is gone: for the level of the
\* line, and at the end to ask whether the line also goes to the terminal.
Crash(p) ==
  /\ writer[p].at \in {"write", "flush", "clear"}
  /\ mData[p] = "gone"
  /\ writer' = [writer EXCEPT ![p] = [Idle EXCEPT !.at = "dead"]]
  /\ strayed' = strayed \cup UNION {Texts(stream[p][f].buf) : f \in File}
  /\ stream' = [stream EXCEPT ![p] = [f \in File |-> [@[f] EXCEPT !.buf = <<>>]]]
  /\ UNCHANGED <<pc, confVars, disk, unflushed, text, mData, logs, done, rolled, parted>>

\* Storage's destructor closes the streams, which writes what they hold.
Closed(io, p) == FoldSet(LAMBDA f, x : FlushFile(x, p, f), io, opened \ Unopenable)

\* exit() in the child.
ChildExits ==
  /\ pc = "run"
  /\ writer["child"].at = "idle"
  /\ SetFileState(Closed(FileState, "child"))
  /\ writer' = [writer EXCEPT !["child"].at = "dead"]
  /\ UNCHANGED <<pc, confVars, unflushed, text, mData, logs, done, strayed>>

WriterStep(p) ==
  \/ CopyText(p)
  \/ HandleData(p)
  \/ \E l \in Level : WriteLine(p, l) \/ FlushLine(p, l)
  \/ RollFile(p)
  \/ ClearText(p)

Next ==
  \/ \E line \in ConfLine : ParseLine(line)
  \/ ParseEnd
  \/ reconfigureLogger
  \/ \E hour \in 0..1 : reconfigureAllLoggers(hour)
  \/ Fork
  \/ \E p \in Process :
       \/ \E l \in Level : Log(p, l)
       \/ WriterStep(p)
       \/ Crash(p)
  \/ \E l \in Level : HandlerLog(l)
  \/ ChildExits

Spec == Init /\ [][Next]_vars

-----------------------------------------------------------------------------
(* Properties *)

\* The shape of every variable: the registries hold each setting once, a level's
\* counter stays at its threshold or below (a handler may push it one further), and a
\* stream's position is never behind what it wrote.
TypeOK ==
  /\ pc \in {"parse", "first", "second", "start", "run"}
  /\ \A c \in {registry, parser.conf} :
       /\ \A i \in DOMAIN c : c[i].level \in Level \cup {Global} /\ c[i].type \in Type
       /\ \A i, j \in DOMAIN c : c[i].level = c[j].level /\ c[i].type = c[j].type => i = j
  /\ \A t \in Type : DOMAIN typed[t] \subseteq Level \cup {Global} /\ Global \in DOMAIN typed[t]
  /\ opened \subseteq File
  /\ \A f \in File, p \in Process :
       /\ disk[f] \in Seq(SUBSET Message)
       /\ stream[p][f].buf \in Seq(SUBSET Message)
       /\ stream[p][f] # NotOpen => f \in opened \ Unopenable
  /\ \A p \in Process, l \in Level : unflushed[p][l] <= Max({1, logFlushThreshold(typed, l)}) + 1
  /\ \A p \in Process : text[p] \subseteq Message /\ mData[p] \in {"own", "gone"}

\* What line i of the file says, in which section.
SectionOf(i) ==
  LET heads == {j \in 1..(i - 1) : lines[j].kind = "level"}
  IN  IF heads = {} THEN Unknown ELSE convertLevel(lines[Max(heads)].name)

Settings(t) ==
  {i \in DOMAIN lines : /\ lines[i].kind = "set"
                        /\ lines[i].type = t
                        /\ SectionOf(i) # Unknown}

\* What the file says of type t for level l: the last line for the level or for all.
Said(l, t) ==
  LET own == {i \in Settings(t) : SectionOf(i) \in {Global, l}}
  IN  IF own # {} THEN lines[Max(own)].value
      ELSE (CHOOSE e \in ToSet(Default) : e.type = t).value

GlobalFirst(t) == Settings(t) # {} => SectionOf(Min(Settings(t))) = Global

\* Once the logger is configured, every level works with what the file said last for it
\* (or with the default), for each type whose first setting is in the GLOBAL section:
\* through the parser, the defaults for what is missing, two copies into the logger's
\* registry, and the compiled maps that leave out what equals GLOBAL.  A level writes to
\* a file only if it could be opened, and a format gives the line it describes.
ConfigIsHonoured ==
  pc = "start" =>
    \A l \in Level :
      /\ GlobalFirst("enabled") => enabled(typed, l) = getBool(Said(l, "enabled"))
      /\ GlobalFirst("max_log_file_size") =>
           maxLogFileSize(typed, l) = getULong(Said(l, "max_log_file_size"))
      /\ GlobalFirst("log_flush_threshold") =>
           logFlushThreshold(typed, l) = getULong(Said(l, "log_flush_threshold"))
      /\ GlobalFirst("filename") =>
           \E hour \in 0..1 : filename(typed, l) = resolveFilename(Said(l, "filename"), hour)
      /\ toFile(typed, l) => filename(typed, l) \in opened \ Unopenable
      /\ (opened \cap Unopenable = {} /\ GlobalFirst("to_file")) =>
           toFile(typed, l) = getBool(Said(l, "to_file"))
      /\ (GlobalFirst("format") /\ EscapesResolve(FormatText[Said(l, "format")], l)) =>
           build(logFormat(typed, l), l) = ExpectedLine(FormatText[Said(l, "format")], l)

\* A message whose LOG statement has ended is in a file or in a buffer that will be
\* written, unless its line was rolled away.  It may stand in the line of another
\* message, because the handler's LOG uses the same stream.  Two things lose a message,
\* and are excluded here: a LOG of the handler that meets the main program's text and
\* goes to no file, or that takes its m_data away; and a file that one of the two
\* processes rolled, because the other one goes on at its old position.
LinesSurvive ==
  parted = {} =>
    done \ (rolled \cup strayed) \subseteq
      UNION {Texts(disk[f]) \cup UNION {Texts(stream[p][f].buf) : p \in Process} : f \in File}

\* Lines whose writing no check of the size has followed, as the levels count them.
Unchecked == SumFunction([pl \in Process \X Level |-> unflushed[pl[1]][pl[2]]])

\* Lines that one process may have written when one of its levels finds the file full.
Round == SumFunction([l \in Level |-> Max({1, logFlushThreshold(typed, l)}) - 1]) + 2

\* When all levels write to one file and each has a limit, the lines that make that file
\* as long as the largest limit are ones that no check has followed yet: from the start,
\* though the file may have been too long when it was opened; while each level counts
\* its own lines, the buffer spills when it is full, and two processes write; and when
\* the child has written what it held without a check.  Once one process has rolled the
\* file, the other goes on at its old position, a round beyond the limit at most.  A
\* process between writing and checking is excluded.
FileIsBounded ==
  \A f \in File :
    /\ \A l \in Level : /\ toFile(typed, l) /\ filename(typed, l) = f
                        /\ maxLogFileSize(typed, l) > 0
    /\ \A p \in Process : writer[p].at # "roll"
    => Len(disk[f]) < Max({maxLogFileSize(typed, l) : l \in Level}) + Unchecked +
                        (IF f \in parted THEN Round ELSE 0)
=============================================================================
