------------------------------- MODULE Logging -------------------------------
(***************************************************************************)
(* The logger of the process (logging).  Logging keeps one logger, behind  *)
(* which there may be a file and the console, and remembers which console  *)
(* logger it made itself, to pass the verbosity on to it.  A logger is an  *)
(* object others may hold as well: it has a number, and its verbosity is   *)
(* kept apart from it.                                                     *)
(***************************************************************************)
EXTENDS Integers, Sequences, FiniteSets, SequencesExt

CONSTANTS Verbosities,   \* the levels a caller may ask the console for
          MaxLoggers     \* bound: loggers made

\* LogLevel.
Error == 1
Warning == 2
Info == 3
Debug4 == 8
Level == 0 .. Debug4

ASSUME LoggingAssumption == Verbosities \subseteq Level /\ MaxLoggers \in Nat \ {0}

VARIABLES loggers,            \* kind, verbosity and parts of each logger made so far
          myLogger,           \* the number of the logger of the process, 0: null
          consoleLogger,      \* the number of _consoleLogger, 0: null
          consoleVerbosity,   \* what the console was asked to show
          logged              \* the message logged last and where it went

log == <<loggers, myLogger, consoleLogger, consoleVerbosity, logged>>

Nowhere == [level |-> 0, sinks |-> {}]

\* File and user's loggers and splitters let everything pass, the console what
\* is a warning at least.
ConsoleLogger(verbosity) == [kind |-> "console", verbosity |-> verbosity, parts |-> <<>>]
FileLogger == [kind |-> "file", verbosity |-> Debug4, parts |-> <<>>]
UserLogger == [kind |-> "user", verbosity |-> Debug4, parts |-> <<>>]
LogSplitter(parts) == [kind |-> "splitter", verbosity |-> Debug4, parts |-> parts]

LoggingInit ==
  /\ loggers = <<ConsoleLogger(Warning)>> /\ myLogger = 1 /\ consoleLogger = 1
  /\ consoleVerbosity = Warning /\ logged = Nowhere

\* Bound: a logger more is made.
CanMake(n) == Len(loggers) + n <= MaxLoggers

\* LogToFile and LogToStream: a file and a new console logger behind a splitter.
\* If the file cannot be created that throws before anything is changed.
\* Slip: the new console logger is left as its constructor makes it.
LogToNewConsole ==
  LET n == Len(loggers) IN
  /\ CanMake(3)
  /\ loggers' = loggers \o <<FileLogger, ConsoleLogger(Warning), LogSplitter(<<n + 1, n + 2>>)>>
  /\ myLogger' = n + 3 /\ consoleLogger' = n + 2
  /\ UNCHANGED <<consoleVerbosity, logged>>

LogToFile ==
  LET n == Len(loggers) IN
  /\ CanMake(3)
  /\ loggers' = loggers \o <<FileLogger, ConsoleLogger(consoleVerbosity), LogSplitter(<<n + 1, n + 2>>)>>
  /\ myLogger' = n + 3 /\ consoleLogger' = n + 2
  /\ UNCHANGED <<consoleVerbosity, logged>>

LogToConsole ==
  /\ CanMake(1)
  /\ loggers' = Append(loggers, ConsoleLogger(consoleVerbosity))
  /\ myLogger' = Len(loggers) + 1 /\ consoleLogger' = Len(loggers) + 1
  /\ UNCHANGED <<consoleVerbosity, logged>>

\* A logger of the user's, or the one there is, or none.
SetLogger ==
  /\ \/ CanMake(1) /\ loggers' = Append(loggers, UserLogger) /\ myLogger' = Len(loggers) + 1
     \/ myLogger' \in {0, myLogger} /\ UNCHANGED loggers
  /\ consoleLogger' = 0
  /\ UNCHANGED <<consoleVerbosity, logged>>

SetConsoleVerbosity ==
  /\ consoleVerbosity' \in Verbosities
  /\ loggers' = [i \in DOMAIN loggers |->
                   IF i = consoleLogger THEN [loggers[i] EXCEPT !.verbosity = consoleVerbosity']
                   ELSE loggers[i]]
  /\ UNCHANGED <<myLogger, consoleLogger, logged>>

-----------------------------------------------------------------------------
\* Where a message goes; without a logger it is printed whatever its level is.
Console(level) == IF level \in {Error, Warning} THEN "stderr" ELSE "stdout"

SinksOf(logger, level) ==
  IF level > logger.verbosity THEN {}
  ELSE CASE logger.kind = "console" -> {Console(level)}
         [] logger.kind \in {"file", "user"} -> {logger.kind}

Sinks(level) ==
  IF myLogger = 0 THEN {Console(level)}
  ELSE LET l == loggers[myLogger] IN
       IF l.kind # "splitter" THEN SinksOf(l, level)
       ELSE IF level > l.verbosity THEN {}
       ELSE UNION {SinksOf(loggers[i], level) : i \in ToSet(l.parts)}

LOG(level) == logged' = [level |-> level, sinks |-> Sinks(level)]

LogMessage(level) == LOG(level) /\ UNCHANGED <<loggers, myLogger, consoleLogger, consoleVerbosity>>

LoggingNext ==
  \/ LogToFile \/ LogToConsole \/ SetLogger \/ SetConsoleVerbosity
  \/ \E level \in {Error, Info} : LogMessage(level)

-----------------------------------------------------------------------------
\* From when loggers are made anew until SetLogger forgets them, even if it is
\* given the one there is, the console shows just what it was asked to show last,
\* whatever was made since for a file or a stream, and a file gets every message.
ConsoleFollowsTheSettings ==
  consoleLogger # 0 =>
    \A level \in {Error, Warning, Info, Debug4} :
      /\ Console(level) \in Sinks(level) <=> level <= consoleVerbosity
      /\ loggers[myLogger].kind = "splitter" => "file" \in Sinks(level)
=============================================================================
