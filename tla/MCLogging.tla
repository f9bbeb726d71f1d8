------------------------------ MODULE MCLogging ------------------------------
EXTENDS Logging

\* The two levels the client logs at, in the order of the enumeration.
MCLevelOrder == <<"ERROR", "INFO">>

\* The library's default format, and one with every case of the escape.
MCFormatText ==
  ("default" :> <<<<"%", "datetime">>, <<"%", "level">>, <<"%", "logger">>,
                  <<"%", "msg">>>>) @@
  ("escaped" :> <<<<"%%", "msg">>, <<"%", "level">>, <<"%", "msg">>, <<"%%", "level">>,
                  <<"%%", "msg">>, <<"%", "msg">>, <<"%%", "logger">>>>)

Section(name)    == [kind |-> "level", name |-> name]
SetLine(t, v)    == [kind |-> "set", type |-> t, value |-> v]

MCConfLine ==
  {Section("GLOBAL"), Section("INFO"),
   SetLine("max_log_file_size", "2"), SetLine("log_flush_threshold", "2"),
   SetLine("enabled", "false"), SetLine("format", "escaped"),
   SetLine("filename", "log"), SetLine("filename", "bad")}
=============================================================================
