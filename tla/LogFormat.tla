------------------------------ MODULE LogFormat ------------------------------
(***************************************************************************)
(* How the client's logging library (easylogging++) reads a FORMAT and     *)
(* makes a line from it.  A format is a sequence of pieces:                *)
(*   <<"%", s>>   the specifier s                                          *)
(*   <<"%%", s>>  the specifier s escaped by a second percent sign         *)
(*   <<"=", x>>   plain text, or the value a specifier was replaced by     *)
(* A piece whose escape was taken away cannot be told from a specifier any *)
(* more: the library works on the string, and so does this module.         *)
(***************************************************************************)
EXTENDS Naturals, Sequences, SequencesExt

\* The specifiers that name something of the message or of the process, and the
\* order in which DefaultLogBuilder::build replaces them: the message comes last.
Specifier == {"app", "level", "levshort", "logger", "thread", "file", "fbase",
              "line", "loc", "func", "user", "host", "msg", "vlevel", "datetime"}

BuildOrder == <<"app", "thread", "datetime", "func", "file", "fbase", "line",
                "loc", "vlevel", "msg">>

\* The first place where s stands unescaped, one past the end when there is none.
FirstOf(fmt, s) ==
  Min({i \in DOMAIN fmt : fmt[i] = <<"%", s>>} \cup {Len(fmt) + 1})

\* Takes the escape from the pieces of s that stand before the first unescaped one,
\* and puts the value there.
replaceFirstWithEscape(fmt, s, value) ==
  [i \in DOMAIN fmt |->
     IF i < FirstOf(fmt, s) /\ fmt[i] = <<"%%", s>> THEN <<"%", s>>
     ELSE IF i = FirstOf(fmt, s) THEN <<"=", value>>
     ELSE fmt[i]]

\* A specifier has its flag when it stands somewhere unescaped.
Flags(fmt) == {s \in Specifier : FirstOf(fmt, s) <= Len(fmt)}

\* The escapes behind the first unescaped piece are taken away at once, because
\* only the first one will be replaced.  The date is not scanned this way.
conditionalAddFlags(fmt) ==
  [i \in DOMAIN fmt |->
     IF /\ fmt[i][1] = "%%"
        /\ fmt[i][2] # "datetime"
        /\ FirstOf(fmt, fmt[i][2]) < i
     THEN <<"%", fmt[i][2]>>
     ELSE fmt[i]]

\* The level's name is put in when the format is read, whether or not its flag is
\* set; the format of Level::Global keeps the specifier.
updateFormatSpec(fmt, flags, l) ==
  LET named == IF l = "GLOBAL" THEN fmt
               ELSE replaceFirstWithEscape(
                      replaceFirstWithEscape(fmt, "level", l), "levshort", l)
  IN  FoldLeft(LAMBDA f, s : IF s \in flags THEN replaceFirstWithEscape(f, s, s) ELSE f,
               named, <<"user", "host">>)

parseFromFormat(l, fmt) ==
  [level |-> l, flags |-> Flags(fmt),
   format |-> updateFormatSpec(conditionalAddFlags(fmt), Flags(fmt), l)]

\* Logger::resolveLoggerFormatSpec: the logger's name, in the format of every level.
resolveLoggerFormatSpec(logFormat) ==
  [logFormat EXCEPT !.format = replaceFirstWithEscape(@, "logger", "logger")]

\* DefaultLogBuilder::build for a message of level l.
build(logFormat, l) ==
  FoldLeft(LAMBDA line, s :
             IF s \in logFormat.flags /\ (s = "vlevel" => l = "VERBOSE")
             THEN replaceFirstWithEscape(line, s, s)
             ELSE line,
           logFormat.format, BuildOrder)

(***************************************************************************)
(* What a reader of a format expects of it: an escaped specifier is        *)
(* printed, the first unescaped one of a kind is replaced, a later one is  *)
(* printed.                                                                *)
(***************************************************************************)
ValueOf(s, l) == IF s \in {"level", "levshort"} THEN l ELSE s

ExpectedLine(fmt, l) ==
  [i \in DOMAIN fmt |->
     CASE fmt[i][1] = "%%" -> <<"%", fmt[i][2]>>
       [] fmt[i][1] = "%" /\ FirstOf(fmt, fmt[i][2]) = i -> <<"=", ValueOf(fmt[i][2], l)>>
       [] OTHER -> fmt[i]]

\* The formats for which that is what comes out.  An escaped specifier that never
\* stands unescaped keeps both percent signs, and so does an escaped date; a verbose
\* level is only put in at Level::Verbose.
EscapesResolve(fmt, l) ==
  /\ \A i \in DOMAIN fmt :
       fmt[i][1] = "%%" =>
         /\ fmt[i][2] # "datetime"
         /\ fmt[i][2] \in Flags(fmt) \cup {"level", "levshort", "logger"}
  /\ "vlevel" \in Flags(fmt) => l = "VERBOSE"
=============================================================================
