---------------------------- MODULE ExchangeProofs ----------------------------
(***************************************************************************)
(* Whatever is written, read and set, and however many loggers were made:  *)
(* the console of the process shows what it was asked to show last, and a  *)
(* STEP or IGES file has every face of the shapes of its exporter, in the  *)
(* groups and on the levels asked for.                                     *)
(*                                                                         *)
(* A file is one sequence of entities, joined from those of the groups of  *)
(* the shapes.  Joining keeps sums: of a measure of the entities, the      *)
(* total over the whole is the total of the totals over the parts.  With   *)
(* 1 for every entity that counts the groups, and with 1 for every face of *)
(* a name it counts the faces.                                             *)
(***************************************************************************)
EXTENDS Exchange, OrderLemmas

-----------------------------------------------------------------------------
(***************************************************************************)
(* The invariant of the log.  The console logger that Logging remembers is *)
(* the one messages come to: it is the logger of the process itself, or    *)
(* one of the two behind a splitter; and it has the verbosity asked for.   *)
(***************************************************************************)
Logger == [kind : {"console", "file", "user", "splitter"}, verbosity : Level, parts : Seq(Nat)]

LoggingTypeOK ==
  /\ loggers \in Seq(Logger)
  /\ myLogger \in 0 .. Len(loggers) /\ consoleLogger \in 0 .. Len(loggers)
  /\ consoleVerbosity \in Level

ConsoleIsSet ==
  consoleLogger # 0 => /\ loggers[consoleLogger].kind = "console"
                       /\ loggers[consoleLogger].verbosity = consoleVerbosity

\* The parts of a splitter that Logging makes: a file and its console.
IsFile(l) == l.kind = "file" /\ l.verbosity = Debug4

SplitsTo(l, file1, console) ==
  l.kind = "splitter" /\ l.verbosity = Debug4 /\ l.parts = <<file1, console>>

ConsoleIsReached ==
  consoleLogger # 0 =>
    \/ myLogger = consoleLogger
    \/ /\ myLogger # 0
       /\ \E f \in 1 .. Len(loggers) :
            IsFile(loggers[f]) /\ SplitsTo(loggers[myLogger], f, consoleLogger)

LogInv == LoggingTypeOK /\ ConsoleIsSet /\ ConsoleIsReached

-----------------------------------------------------------------------------
(***************************************************************************)
(* The loggers, and where a message goes.                                  *)
(***************************************************************************)
LEMMA LevelsAreNumbers == Level \subseteq Nat /\ Verbosities \subseteq Level
BY LoggingAssumption DEF Level, Debug4

LEMMA LoggersMade ==
  ASSUME NEW v \in Level, NEW a \in Nat, NEW b \in Nat
  PROVE  /\ ConsoleLogger(v) \in Logger /\ FileLogger \in Logger /\ UserLogger \in Logger
         /\ LogSplitter(<<a, b>>) \in Logger
BY DEF Logger, ConsoleLogger, FileLogger, UserLogger, LogSplitter, Level, Debug4

LEMMA PartsOfTwo == ASSUME NEW a, NEW b PROVE ToSet(<<a, b>>) = {a, b}
BY DEF ToSet

\* What a splitter with a file and a console lets through, each of them decides.
LEMMA SinksOfOneConsole ==
  ASSUME NEW l \in Logger, NEW level \in Level
  PROVE  /\ l.kind = "console" => (Console(level) \in SinksOf(l, level) <=> level <= l.verbosity)
         /\ IsFile(l) => SinksOf(l, level) = {"file"}
BY DEF Logger, SinksOf, Console, IsFile, Level, Debug4

\* The invariant is what the console is asked for.
LEMMA LogInvSuffices == LogInv => ConsoleFollowsTheSettings
<1> SUFFICES ASSUME LogInv, consoleLogger # 0, NEW level \in {Error, Warning, Info, Debug4}
             PROVE  /\ Console(level) \in Sinks(level) <=> level <= consoleVerbosity
                    /\ loggers[myLogger].kind = "splitter" => "file" \in Sinks(level)
  BY DEF ConsoleFollowsTheSettings
<1>1. level \in Level /\ level <= Debug4
  BY DEF Level, Error, Warning, Info, Debug4
<1>2. /\ consoleLogger \in 1 .. Len(loggers) /\ loggers[consoleLogger] \in Logger
      /\ loggers[consoleLogger].kind = "console"
      /\ loggers[consoleLogger].verbosity = consoleVerbosity
  BY DEF LogInv, LoggingTypeOK, ConsoleIsSet
<1>3. Console(level) \in SinksOf(loggers[consoleLogger], level) <=> level <= consoleVerbosity
  BY <1>1, <1>2, SinksOfOneConsole
<1>4. CASE myLogger = consoleLogger
  <2>1. Sinks(level) = SinksOf(loggers[consoleLogger], level)
    BY <1>2, <1>4 DEF Sinks
  <2> QED
    BY <1>2, <1>3, <1>4, <2>1
<1>5. CASE myLogger # consoleLogger
  <2>1. PICK f \in 1 .. Len(loggers) :
          IsFile(loggers[f]) /\ SplitsTo(loggers[myLogger], f, consoleLogger)
    BY <1>5 DEF LogInv, ConsoleIsReached
  <2>2. myLogger # 0
    BY <1>5 DEF LogInv, ConsoleIsReached
  <2>3. loggers[f] \in Logger
    BY DEF LogInv, LoggingTypeOK
  <2>4. SinksOf(loggers[f], level) = {"file"}
    BY <1>1, <2>1, <2>3, SinksOfOneConsole
  <2>5. ToSet(loggers[myLogger].parts) = {f, consoleLogger}
    BY <2>1, PartsOfTwo DEF SplitsTo
  <2>6. ~ level > loggers[myLogger].verbosity
    BY <1>1, <2>1 DEF SplitsTo, Level, Debug4
  <2>7. Sinks(level) = UNION {SinksOf(loggers[i], level) : i \in ToSet(loggers[myLogger].parts)}
    BY <2>1, <2>2, <2>6 DEF Sinks, SplitsTo
  <2>8. Sinks(level) = {"file"} \cup SinksOf(loggers[consoleLogger], level)
    BY <2>4, <2>5, <2>7
  <2>9. Console(level) # "file"
    BY DEF Console
  <2> QED
    BY <1>3, <2>8, <2>9
<1> QED
  BY <1>4, <1>5

-----------------------------------------------------------------------------
(***************************************************************************)
(* The steps that set the loggers.                                         *)
(***************************************************************************)
LEMMA InitLogInv == Init => LogInv
<1> SUFFICES ASSUME LoggingInit PROVE LogInv
  BY DEF Init
<1>1. Warning \in Level
  BY DEF Warning, Level, Debug4
<1>2. ConsoleLogger(Warning) \in Logger
  BY <1>1 DEF Logger, ConsoleLogger
<1>3. loggers = <<ConsoleLogger(Warning)>>
  BY DEF LoggingInit
<1>4. loggers \in Seq(Logger) /\ Len(loggers) = 1 /\ loggers[1] = ConsoleLogger(Warning)
  BY <1>2, <1>3
<1> QED
  BY <1>1, <1>4 DEF LoggingInit, LogInv, LoggingTypeOK, ConsoleIsSet, ConsoleIsReached, ConsoleLogger

LEMMA ToFileLogInv == LogInv /\ LogToFile => LogInv'
<1> SUFFICES ASSUME LogInv, LogToFile PROVE LogInv'
  OBVIOUS
<1> DEFINE n == Len(loggers)
           console == ConsoleLogger(consoleVerbosity)
           splitter == LogSplitter(<<n + 1, n + 2>>)
<1>1. n \in Nat /\ loggers \in Seq(Logger) /\ consoleVerbosity \in Level
  BY DEF LogInv, LoggingTypeOK
<1>2. console \in Logger /\ FileLogger \in Logger /\ splitter \in Logger
  BY <1>1, LoggersMade
<1>3. /\ console.kind = "console" /\ console.verbosity = consoleVerbosity
      /\ IsFile(FileLogger) /\ SplitsTo(splitter, n + 1, n + 2)
  BY DEF ConsoleLogger, FileLogger, LogSplitter, IsFile, SplitsTo
<1>4. loggers' = loggers \o <<FileLogger, console, splitter>>
  BY DEF LogToFile
<1>5. /\ myLogger' = n + 3 /\ consoleLogger' = n + 2 /\ consoleVerbosity' = consoleVerbosity
  BY DEF LogToFile
<1> HIDE DEF console, splitter
<1>6. /\ loggers' \in Seq(Logger) /\ Len(loggers') = n + 3
      /\ loggers'[n + 1] = FileLogger /\ loggers'[n + 2] = console /\ loggers'[n + 3] = splitter
  BY <1>1, <1>2, <1>4
<1>7. LoggingTypeOK'
  BY <1>1, <1>5, <1>6 DEF LoggingTypeOK
<1>8. ConsoleIsSet'
  BY <1>1, <1>3, <1>5, <1>6 DEF ConsoleIsSet
<1>9. ConsoleIsReached'
  <2>1. n + 1 \in 1 .. Len(loggers') /\ IsFile(loggers'[n + 1])
    BY <1>1, <1>3, <1>6
  <2>2. myLogger' # 0 /\ SplitsTo(loggers'[myLogger'], n + 1, consoleLogger')
    BY <1>1, <1>3, <1>5, <1>6
  <2> QED
    BY <2>1, <2>2 DEF ConsoleIsReached
<1> QED
  BY <1>7, <1>8, <1>9 DEF LogInv

LEMMA ToConsoleLogInv == LogInv /\ LogToConsole => LogInv'
<1> SUFFICES ASSUME LogInv, LogToConsole PROVE LogInv'
  OBVIOUS
<1> DEFINE n == Len(loggers)
           console == ConsoleLogger(consoleVerbosity)
<1>1. n \in Nat /\ loggers \in Seq(Logger) /\ consoleVerbosity \in Level
  BY DEF LogInv, LoggingTypeOK
<1>2. console \in Logger /\ console.kind = "console" /\ console.verbosity = consoleVerbosity
  BY <1>1, LoggersMade DEF ConsoleLogger
<1>3. /\ loggers' = Append(loggers, console) /\ myLogger' = n + 1 /\ consoleLogger' = n + 1
      /\ consoleVerbosity' = consoleVerbosity
  BY DEF LogToConsole
<1> HIDE DEF console
<1>4. loggers' \in Seq(Logger) /\ Len(loggers') = n + 1 /\ loggers'[n + 1] = console
  BY <1>1, <1>2, <1>3
<1> QED
  BY <1>1, <1>2, <1>3, <1>4 DEF LogInv, LoggingTypeOK, ConsoleIsSet, ConsoleIsReached

LEMMA SetLoggerLogInv == LogInv /\ SetLogger => LogInv'
<1> SUFFICES ASSUME LogInv, SetLogger PROVE LogInv'
  OBVIOUS
<1>1. 0 \in Level
  BY DEF Level, Debug4
<1>2. /\ loggers' \in Seq(Logger) /\ myLogger' \in 0 .. Len(loggers')
      /\ consoleLogger' = 0 /\ consoleVerbosity' = consoleVerbosity
  <2>1. UserLogger \in Logger
    BY <1>1, LoggersMade
  <2> HIDE DEF Logger
  <2>2. CASE loggers' = Append(loggers, UserLogger) /\ myLogger' = Len(loggers) + 1
    BY <2>1, <2>2 DEF LogInv, LoggingTypeOK, SetLogger
  <2>3. CASE myLogger' \in {0, myLogger} /\ UNCHANGED loggers
    BY <2>3 DEF LogInv, LoggingTypeOK, SetLogger
  <2> QED
    BY <2>2, <2>3 DEF SetLogger
<1> QED
  BY <1>2 DEF LogInv, LoggingTypeOK, ConsoleIsSet, ConsoleIsReached

LEMMA SetVerbosityLogInv == LogInv /\ SetConsoleVerbosity => LogInv'
<1> SUFFICES ASSUME LogInv, SetConsoleVerbosity PROVE LogInv'
  OBVIOUS
<1> DEFINE set(i) == IF i = consoleLogger THEN [loggers[i] EXCEPT !.verbosity = consoleVerbosity']
                     ELSE loggers[i]
<1>1. /\ loggers \in Seq(Logger) /\ Len(loggers) \in Nat /\ DOMAIN loggers = 1 .. Len(loggers)
      /\ \A i \in 1 .. Len(loggers) : loggers[i] \in Logger
  BY DEF LogInv, LoggingTypeOK
<1>2. /\ consoleVerbosity' \in Level /\ myLogger' = myLogger /\ consoleLogger' = consoleLogger
      /\ loggers' = [i \in 1 .. Len(loggers) |-> set(i)]
  BY <1>1, LevelsAreNumbers DEF SetConsoleVerbosity
<1>3. \A i \in 1 .. Len(loggers) :
        /\ set(i) \in Logger /\ set(i).kind = loggers[i].kind
        /\ i = consoleLogger => set(i).verbosity = consoleVerbosity'
        /\ i # consoleLogger => set(i) = loggers[i]
  BY <1>1, <1>2 DEF Logger
<1> HIDE DEF set
<1>4. loggers' \in Seq(Logger) /\ Len(loggers') = Len(loggers)
  BY <1>1, <1>2, <1>3
<1>5. \A i \in 1 .. Len(loggers) :
        /\ loggers'[i].kind = loggers[i].kind
        /\ i = consoleLogger => loggers'[i].verbosity = consoleVerbosity'
        /\ i # consoleLogger => loggers'[i] = loggers[i]
  BY <1>2, <1>3
<1>6. LoggingTypeOK'
  BY <1>2, <1>4 DEF LogInv, LoggingTypeOK
<1>7. ConsoleIsSet'
  BY <1>2, <1>5 DEF LogInv, LoggingTypeOK, ConsoleIsSet
<1>8. ConsoleIsReached'
  <2>1. CASE consoleLogger = 0 \/ myLogger = consoleLogger
    BY <1>2, <2>1 DEF ConsoleIsReached
  <2>2. CASE consoleLogger # 0 /\ myLogger # consoleLogger
    <3>1. PICK f \in 1 .. Len(loggers) :
            IsFile(loggers[f]) /\ SplitsTo(loggers[myLogger], f, consoleLogger)
      BY <2>2 DEF LogInv, ConsoleIsReached
    <3>2. f # consoleLogger /\ myLogger # 0 /\ myLogger \in 1 .. Len(loggers)
      BY <2>2, <3>1 DEF LogInv, LoggingTypeOK, ConsoleIsSet, ConsoleIsReached, IsFile
    <3>3. loggers'[f] = loggers[f] /\ loggers'[myLogger] = loggers[myLogger]
      BY <1>5, <2>2, <3>2
    <3> QED
      BY <1>2, <1>4, <3>1, <3>2, <3>3 DEF ConsoleIsReached
  <2> QED
    BY <2>1, <2>2
<1> QED
  BY <1>6, <1>7, <1>8 DEF LogInv

\* Every other step leaves the loggers alone.
LEMMA NextLogInv == LogInv /\ [Next]_vars => LogInv'
<1> SUFFICES ASSUME LogInv, [Next]_vars PROVE LogInv'
  OBVIOUS
<1> DEFINE kept == <<loggers, myLogger, consoleLogger, consoleVerbosity>>
<1>1. ASSUME UNCHANGED kept PROVE LogInv'
  BY <1>1 DEF LogInv, LoggingTypeOK, ConsoleIsSet, ConsoleIsReached
<1>2. CASE UNCHANGED vars
  BY <1>1, <1>2 DEF vars, log
<1>3. CASE RegisterExporter \/ SetConfig \/ SetOption \/ Create \/ Construct \/ AddShape
  BY <1>1, <1>3 DEF RegisterExporter, SetConfig, SetOption, Create, Construct, AddShape, log
<1>4. CASE WriteStep \/ WriteIges \/ WriteBrep \/ WriteStl
  BY <1>1, <1>4 DEF WriteStep, WriteIges, WriteBrep, WriteStl, log
<1>5. CASE CannotWrite \/ Read
  BY <1>1, <1>5 DEF CannotWrite, Read
<1>6. CASE SetLogging
  <2>1. CASE LogToFile
    BY <2>1, ToFileLogInv
  <2>2. CASE LogToConsole
    BY <2>2, ToConsoleLogInv
  <2>3. CASE SetLogger
    BY <2>3, SetLoggerLogInv
  <2>4. CASE SetConsoleVerbosity
    BY <2>4, SetVerbosityLogInv
  <2>5. CASE \E level \in {Error, Info} : LogMessage(level)
    BY <1>1, <2>5 DEF LogMessage
  <2> QED
    BY <1>6, <2>1, <2>2, <2>3, <2>4, <2>5 DEF SetLogging, LoggingNext
<1> QED
  BY <1>2, <1>3, <1>4, <1>5, <1>6 DEF Next

\* Logging passes the verbosity of the console on to every logger it makes for
\* it: whatever is set, in whichever order, and whatever the writers and
\* readers log meanwhile, the console shows what it was asked to show last, and
\* a file gets every message.
THEOREM ConsoleIsAsSet == Spec => []ConsoleFollowsTheSettings
<1>1. Init => LogInv
  BY InitLogInv
<1>2. LogInv /\ [Next]_vars => LogInv'
  BY NextLogInv
<1>3. LogInv => ConsoleFollowsTheSettings
  BY LogInvSuffices
<1> QED
  BY <1>1, <1>2, <1>3, PTL DEF Spec
-----------------------------------------------------------------------------
(***************************************************************************)
(* Sums and joined sequences.                                              *)
(***************************************************************************)
\* t holds the sums of w, term by term.
Sums(t, w) == t \in [0 .. Len(w) -> Nat] /\ t[0] = 0 /\ \A k \in 1 .. Len(w) : t[k] = t[k - 1] + w[k]

\* What the recursion in Total computes are sums.
LEMMA TotalSums ==
  ASSUME NEW w \in Seq(Nat)
  PROVE  \E t : Sums(t, w) /\ Total(w) = t[Len(w)]
<1> DEFINE n == Len(w)
           T == 0 .. n
           Runs(t) == t = [k \in T |-> IF k = 0 THEN 0 ELSE t[k - 1] + w[k]]
           rank == [k \in T |-> k]
           F == [g \in [T -> Nat] |-> [k \in T |-> IF k = 0 THEN 0 ELSE g[k - 1] + w[k]]]
           sum == CHOOSE t : Runs(t)
<1>1. n \in Nat /\ rank \in [T -> 0 .. n]
  OBVIOUS
<1>2. F \in [[T -> Nat] -> [T -> Nat]]
  <2> SUFFICES ASSUME NEW g \in [T -> Nat], NEW k \in T
               PROVE  (IF k = 0 THEN 0 ELSE g[k - 1] + w[k]) \in Nat
    OBVIOUS
  <2>1. CASE k # 0
    <3>1. k \in 1 .. n /\ k - 1 \in T
      BY <2>1
    <3>2. g[k - 1] \in Nat /\ w[k] \in Nat
      BY <3>1
    <3> QED
      BY <2>1, <3>2
  <2> QED
    BY <2>1
<1>3. ASSUME NEW k \in T, NEW g \in [T -> Nat], NEW h \in [T -> Nat],
             \A u \in T : rank[u] < rank[k] => g[u] = h[u]
      PROVE  F[g][k] = F[h][k]
  <2>1. k # 0 => k - 1 \in T /\ rank[k - 1] < rank[k]
    OBVIOUS
  <2> QED
    BY <1>3, <2>1
<1>4. PICK f \in [T -> Nat] : F[f] = f
  <2> HIDE DEF T, F, rank
  <2>1. Recursion(F, T, Nat, rank, n)
    BY <1>1, <1>2, <1>3 DEF Recursion
  <2>2. HasSolution(F, T, Nat)
    BY <2>1, RecursionRuns
  <2> QED
    BY <2>2 DEF HasSolution
<1>5. Runs(f)
  BY <1>4
<1>6. Runs(sum)
  <2> HIDE DEF Runs
  <2> QED
    BY <1>5
<1>7. Total(w) = sum[n]
  BY DEF Total
<1> HIDE DEF sum
<1> DEFINE Known == {k \in T : sum[k] \in Nat}
<1>8. 0 \in Known
  BY <1>6
<1>9. ASSUME NEW k \in 0 .. n - 1, k \in Known PROVE k + 1 \in Known
  <2>1. k + 1 \in T /\ k + 1 # 0 /\ (k + 1) - 1 = k /\ w[k + 1] \in Nat /\ sum[k] \in Nat
    BY <1>9
  <2>2. sum[k + 1] = sum[k] + w[k + 1]
    BY <1>6, <2>1
  <2> QED
    BY <2>1, <2>2
<1>10. 0 .. n \subseteq Known
  <2> HIDE DEF Known, n
  <2> QED
    BY <1>1, <1>8, <1>9, Climb, Zenon
<1>11. sum \in [0 .. n -> Nat]
  BY <1>6, <1>10
<1>12. sum[0] = 0 /\ \A k \in 1 .. n : sum[k] = sum[k - 1] + w[k]
  <2>1. 0 \in T /\ \A k \in 1 .. n : k \in T /\ k # 0
    OBVIOUS
  <2>2. \A k \in T : sum[k] = IF k = 0 THEN 0 ELSE sum[k - 1] + w[k]
    BY <1>6
  <2> HIDE DEF T
  <2> QED
    BY <2>1, <2>2
<1> QED
  BY <1>7, <1>11, <1>12 DEF Sums

LEMMA TotalIsNumber == ASSUME NEW w \in Seq(Nat) PROVE Total(w) \in Nat
<1>1. PICK t : Sums(t, w) /\ Total(w) = t[Len(w)]
  BY TotalSums
<1> QED
  BY <1>1 DEF Sums

LEMMA TotalOfNone == Total(<<>>) = 0
<1>1. <<>> \in Seq(Nat) /\ Len(<<>>) = 0
  OBVIOUS
<1>2. PICK t : Sums(t, <<>>) /\ Total(<<>>) = t[Len(<<>>)]
  BY <1>1, TotalSums
<1> QED
  BY <1>1, <1>2 DEF Sums

LEMMA TotalJoined ==
  ASSUME NEW v \in Seq(Nat), NEW w \in Seq(Nat)
  PROVE  Total(v \o w) = Total(v) + Total(w)
<1>1. PICK a : Sums(a, v) /\ Total(v) = a[Len(v)]
  BY TotalSums
<1>2. PICK b : Sums(b, w) /\ Total(w) = b[Len(w)]
  BY TotalSums
<1>3. v \o w \in Seq(Nat) /\ Len(v \o w) = Len(v) + Len(w)
  OBVIOUS
<1>4. PICK c : Sums(c, v \o w) /\ Total(v \o w) = c[Len(v \o w)]
  BY <1>3, TotalSums
<1> DEFINE m == Len(v)
           n == Len(w)
           Same == {k \in 0 .. m : c[k] = a[k]}
           More == {k \in 0 .. n : c[m + k] = a[m] + b[k]}
<1>5. m \in Nat /\ n \in Nat
  OBVIOUS
<1>60. a[m] \in Nat /\ b[0] = 0 /\ \A k \in 0 .. n : b[k] \in Nat
  <2>1. m \in 0 .. Len(v)
    OBVIOUS
  <2> QED
    BY <1>1, <1>2, <2>1 DEF Sums
<1>6. m \in Same
  <2>1. 0 \in Same
    BY <1>1, <1>4 DEF Sums
  <2>2. ASSUME NEW k \in 0 .. m - 1, k \in Same PROVE k + 1 \in Same
    <3>1. k + 1 \in 1 .. Len(v) /\ k + 1 \in 1 .. Len(v \o w) /\ (k + 1) - 1 = k
      BY <1>3
    <3>2. (v \o w)[k + 1] = v[k + 1]
      BY <3>1
    <3>3. a[k + 1] = a[k] + v[k + 1] /\ c[k + 1] = c[k] + v[k + 1]
      BY <1>1, <1>4, <3>1, <3>2 DEF Sums
    <3> QED
      BY <2>2, <3>1, <3>3
  <2>3. 0 .. m \subseteq Same
    <3> HIDE DEF Same, m
    <3> QED
      BY <1>5, <2>1, <2>2, Climb, Zenon
  <2> QED
    BY <1>5, <2>3
<1> HIDE DEF m
<1>7. n \in More
  <2>1. 0 \in More
    BY <1>6, <1>60
  <2>2. ASSUME NEW k \in 0 .. n - 1, k \in More PROVE k + 1 \in More
    <3>1. /\ k + 1 \in 1 .. Len(w) /\ m + (k + 1) \in 1 .. Len(v \o w) /\ (k + 1) - 1 = k
          /\ (m + (k + 1)) - 1 = m + k
      BY <1>3 DEF m
    <3>2. (v \o w)[m + (k + 1)] = w[k + 1]
      BY <3>1 DEF m
    <3>3. b[k + 1] = b[k] + w[k + 1]
      <4>1. \A q \in 1 .. Len(w) : b[q] = b[q - 1] + w[q]
        BY <1>2 DEF Sums
      <4>2. b[k + 1] = b[(k + 1) - 1] + w[k + 1]
        BY <3>1, <4>1, Zenon
      <4> QED
        BY <3>1, <4>2, Zenon
    <3>30. c[m + (k + 1)] = c[m + k] + w[k + 1]
      <4>1. \A q \in 1 .. Len(v \o w) : c[q] = c[q - 1] + (v \o w)[q]
        BY <1>4 DEF Sums
      <4>2. c[m + (k + 1)] = c[(m + (k + 1)) - 1] + (v \o w)[m + (k + 1)]
        BY <3>1, <4>1, Zenon
      <4> QED
        BY <3>1, <3>2, <4>2, Zenon
    <3>4. a[m] \in Nat /\ b[k] \in Nat /\ w[k + 1] \in Nat
      BY <1>60, <3>1
    <3>5. k + 1 \in 0 .. n /\ c[m + k] = a[m] + b[k]
      BY <2>2, <3>1
    <3> HIDE DEF n
    <3> QED
      BY <3>3, <3>30, <3>4, <3>5
  <2>3. 0 .. n \subseteq More
    <3> HIDE DEF More, n
    <3> QED
      BY <1>5, <2>1, <2>2, Climb, Zenon
  <2>4. n \in 0 .. n
    BY <1>5
  <2> QED
    BY <2>3, <2>4, Zenon
<1>8. c[Len(v \o w)] = a[m] + b[n]
  <2>1. c[m + n] = a[m] + b[n]
    BY <1>7, Zenon
  <2> QED
    BY <1>3, <2>1, Zenon DEF m
<1> QED
  BY <1>1, <1>2, <1>4, <1>8, Zenon DEF m

LEMMA TotalOfOne == ASSUME NEW x \in Nat PROVE Total(<<x>>) = x
<1>1. <<x>> \in Seq(Nat) /\ Len(<<x>>) = 1 /\ <<x>>[1] = x /\ 1 \in 1 .. 1 /\ 1 - 1 = 0
  OBVIOUS
<1>2. PICK t : Sums(t, <<x>>) /\ Total(<<x>>) = t[Len(<<x>>)]
  BY <1>1, TotalSums
<1>3. t[0] = 0 /\ t[1] = t[0] + x
  BY <1>1, <1>2 DEF Sums
<1> QED
  BY <1>1, <1>2, <1>3

\* A term more.
LEMMA TotalOfMore ==
  ASSUME NEW k \in Nat, NEW w, \A i \in 1 .. k + 1 : w[i] \in Nat
  PROVE  /\ Total([i \in 1 .. k + 1 |-> w[i]]) = Total([i \in 1 .. k |-> w[i]]) + w[k + 1]
         /\ Total([i \in 1 .. k |-> w[i]]) \in Nat
<1> DEFINE v == [i \in 1 .. k |-> w[i]]
           u == [i \in 1 .. k + 1 |-> w[i]]
<1>1. v \in Seq(Nat) /\ w[k + 1] \in Nat /\ <<w[k + 1]>> \in Seq(Nat)
  OBVIOUS
<1>2. u = v \o <<w[k + 1]>>
  <2>1. u \in Seq(Nat) /\ Len(u) = k + 1 /\ Len(v) = k /\ v \o <<w[k + 1]>> \in Seq(Nat) /\ Len(v \o <<w[k + 1]>>) = k + 1
    OBVIOUS
  <2>2. \A i \in 1 .. k + 1 : u[i] = (v \o <<w[k + 1]>>)[i]
    OBVIOUS
  <2> QED
    BY <2>1, <2>2
<1> HIDE DEF u, v
<1>3. Total(u) = Total(v) + w[k + 1] /\ Total(v) \in Nat
  BY <1>1, <1>2, TotalJoined, TotalOfOne, TotalIsNumber
<1> QED
  BY <1>3 DEF u, v

-----------------------------------------------------------------------------
\* What a joined sequence looks like.
Follows(c, a, b) ==
  /\ Len(a) \in Nat /\ Len(b) \in Nat /\ Len(c) = Len(a) + Len(b)
  /\ \A i \in 1 .. Len(a) + Len(b) : c[i] = IF i <= Len(a) THEN a[i] ELSE b[i - Len(a)]

LEMMA JoinedFollows ==
  ASSUME NEW S, NEW a \in Seq(S), NEW b \in Seq(S)
  PROVE  a \o b \in Seq(S) /\ Follows(a \o b, a, b)
BY ConcatProperties DEF Follows

\* What is summed up over joined sequences is summed up over each of them.
Weigh(seq, m) == Total([k \in DOMAIN seq |-> m[seq[k]]])

LEMMA WeighIsNumber ==
  ASSUME NEW E, NEW m \in [E -> Nat], NEW u \in Seq(E)
  PROVE  [k \in DOMAIN u |-> m[u[k]]] \in Seq(Nat) /\ Weigh(u, m) \in Nat
<1>1. [k \in DOMAIN u |-> m[u[k]]] \in Seq(Nat)
  OBVIOUS
<1> QED
  BY <1>1, TotalIsNumber DEF Weigh

LEMMA WeighOfNone == ASSUME NEW m PROVE Weigh(<<>>, m) = 0
<1>1. [k \in DOMAIN <<>> |-> m[<<>>[k]]] = <<>>
  OBVIOUS
<1> QED
  BY <1>1, TotalOfNone DEF Weigh

LEMMA WeighJoined ==
  ASSUME NEW E, NEW m \in [E -> Nat], NEW u \in Seq(E), NEW v \in Seq(E)
  PROVE  Weigh(u \o v, m) = Weigh(u, m) + Weigh(v, m)
<1> DEFINE on(s) == [k \in DOMAIN s |-> m[s[k]]]
<1>1. on(u) \in Seq(Nat) /\ on(v) \in Seq(Nat)
  OBVIOUS
<1>2. on(u \o v) = on(u) \o on(v)
  <2>1. /\ u \o v \in Seq(E) /\ Len(u \o v) = Len(u) + Len(v) /\ DOMAIN (u \o v) = 1 .. Len(u \o v)
        /\ \A i \in 1 .. Len(u) + Len(v) :
             (u \o v)[i] = IF i <= Len(u) THEN u[i] ELSE v[i - Len(u)]
    BY ConcatProperties, LenProperties
  <2>2. Len(on(u)) = Len(u) /\ Len(on(v)) = Len(v)
    OBVIOUS
  <2>3. /\ on(u) \o on(v) \in Seq(Nat) /\ Len(on(u) \o on(v)) = Len(u) + Len(v)
        /\ \A i \in 1 .. Len(u) + Len(v) :
             (on(u) \o on(v))[i] = IF i <= Len(u) THEN on(u)[i] ELSE on(v)[i - Len(u)]
    <3> HIDE DEF on
    <3>1. on(u) \o on(v) \in Seq(Nat) /\ Follows(on(u) \o on(v), on(u), on(v))
      BY <1>1, JoinedFollows, Zenon
    <3> DEFINE c == on(u) \o on(v)
    <3> HIDE DEF c
    <3>2. c \in Seq(Nat) /\ Follows(c, on(u), on(v))
      BY <3>1, Zenon DEF c
    <3>3. /\ c \in Seq(Nat) /\ Len(c) = Len(u) + Len(v)
          /\ \A i \in 1 .. Len(u) + Len(v) :
               c[i] = IF i <= Len(u) THEN on(u)[i] ELSE on(v)[i - Len(u)]
      BY <2>2, <3>2 DEF Follows
    <3> QED
      BY <3>3, Zenon DEF c
  <2>4. \A i \in 1 .. Len(u \o v) : (u \o v)[i] \in E
    BY <2>1, ElementOfSeq
  <2>5. on(u \o v) \in Seq(Nat) /\ Len(on(u \o v)) = Len(u) + Len(v)
    <3>1. on(u \o v) = [k \in 1 .. Len(u \o v) |-> m[(u \o v)[k]]]
      BY <2>1
    <3>2. Len(u \o v) \in Nat /\ \A i \in 1 .. Len(u \o v) : m[(u \o v)[i]] \in Nat
      BY <2>1, <2>4
    <3> HIDE DEF on
    <3> QED
      BY <2>1, <3>1, <3>2
  <2>6. \A i \in 1 .. Len(u) + Len(v) : on(u \o v)[i] = (on(u) \o on(v))[i]
    <3> SUFFICES ASSUME NEW i \in 1 .. Len(u) + Len(v)
                 PROVE  on(u \o v)[i] = (on(u) \o on(v))[i]
      OBVIOUS
    <3>1. on(u \o v)[i] = m[(u \o v)[i]]
      BY <2>1
    <3>2. i <= Len(u) => i \in DOMAIN u /\ on(u)[i] = m[u[i]]
      OBVIOUS
    <3>3. ~ i <= Len(u) => i - Len(u) \in DOMAIN v /\ on(v)[i - Len(u)] = m[v[i - Len(u)]]
      OBVIOUS
    <3> HIDE DEF on
    <3> QED
      BY <2>1, <2>3, <3>1, <3>2, <3>3
  <2> HIDE DEF on
  <2> QED
    BY <2>3, <2>5, <2>6, SeqEqual
<1> HIDE DEF on
<1>3. Total(on(u \o v)) = Total(on(u)) + Total(on(v))
  BY <1>1, <1>2, TotalJoined
<1> QED
  BY <1>3 DEF Weigh, on

WeighsAll(u, ss, m) == Weigh(u, m) = Total([i \in DOMAIN ss |-> Weigh(ss[i], m)])

LEMMA FlattenWeighs ==
  ASSUME NEW E, NEW ss \in Seq(Seq(E)), NEW m \in [E -> Nat] PROVE WeighsAll(FlattenSeq(ss), ss, m)
<1> DEFINE n == Len(ss)
           w == [i \in 1 .. n |-> Weigh(ss[i], m)]
<1>1. PICK f : Joins(f, ss, E) /\ FlattenSeq(ss) = f[n]
  BY FlattenJoins
<1> DEFINE Good == {k \in 0 .. n : Weigh(f[k], m) = Total([i \in 1 .. k |-> w[i]])}
<1>2. n \in Nat /\ \A i \in 1 .. n : ss[i] \in Seq(E) /\ w[i] \in Nat
  <2>1. n \in Nat /\ \A i \in 1 .. n : ss[i] \in Seq(E)
    OBVIOUS
  <2> QED
    BY <2>1, WeighIsNumber
<1>3. \A i \in 1 .. n : w[i] = Weigh(ss[i], m)
  OBVIOUS
<1>4. /\ \A k \in 0 .. n : f[k] \in Seq(E)
      /\ f[0] = <<>>
      /\ \A k \in 1 .. n : f[k] = f[k - 1] \o ss[k]
  BY <1>1 DEF Joins
<1> HIDE DEF w, n
<1>5. 0 \in Good
  <2>1. [i \in 1 .. 0 |-> w[i]] = <<>>
    OBVIOUS
  <2> QED
    BY <1>2, <1>4, <2>1, WeighOfNone, TotalOfNone
<1>6. ASSUME NEW k \in 0 .. n - 1, k \in Good PROVE k + 1 \in Good
  <2>1. k \in Nat /\ k + 1 \in 1 .. n /\ k \in 0 .. n /\ k + 1 \in 0 .. n /\ (k + 1) - 1 = k
    BY <1>2
  <2>2. f[k + 1] = f[k] \o ss[k + 1] /\ f[k] \in Seq(E) /\ ss[k + 1] \in Seq(E)
    BY <1>2, <1>4, <2>1
  <2>3. Weigh(f[k + 1], m) = Weigh(f[k], m) + w[k + 1]
    <3>1. Weigh(f[k] \o ss[k + 1], m) = Weigh(f[k], m) + Weigh(ss[k + 1], m)
      BY <2>2, WeighJoined
    <3> QED
      BY <1>3, <2>1, <2>2, <3>1
  <2>4. \A i \in 1 .. k + 1 : w[i] \in Nat
    BY <1>2
  <2>5. Total([i \in 1 .. k + 1 |-> w[i]]) = Total([i \in 1 .. k |-> w[i]]) + w[k + 1]
    BY <2>1, <2>4, TotalOfMore
  <2>6. Weigh(f[k], m) = Total([i \in 1 .. k |-> w[i]])
    BY <1>6
  <2> QED
    BY <2>1, <2>3, <2>5, <2>6
<1>7. n \in Good
  <2>1. 0 .. n \subseteq Good
    <3> HIDE DEF Good
    <3> QED
      BY <1>2, <1>5, <1>6, Climb, Zenon
  <2> QED
    BY <1>2, <2>1
<1>8. [i \in DOMAIN ss |-> Weigh(ss[i], m)] = [i \in 1 .. n |-> w[i]]
  BY DEF n, w
<1> QED
  BY <1>1, <1>7, <1>8 DEF WeighsAll

\* Where the members of a sequence are found in the joined one.
Before(ss, i) == Total([k \in 1 .. i - 1 |-> Len(ss[k])])

Placed(u, ss) ==
  /\ Len(u) = Total([i \in DOMAIN ss |-> Len(ss[i])])
  /\ \A i \in DOMAIN ss : \A j \in DOMAIN ss[i] : u[Before(ss, i) + j] = ss[i][j]

LEMMA FlattenPlaces == ASSUME NEW E, NEW ss \in Seq(Seq(E)) PROVE Placed(FlattenSeq(ss), ss)
<1> DEFINE n == Len(ss)
           w == [i \in 1 .. n |-> Len(ss[i])]
<1>1. PICK f : Joins(f, ss, E) /\ FlattenSeq(ss) = f[n]
  BY FlattenJoins
<1> DEFINE Good == {k \in 0 .. n : Len(f[k]) = Total([i \in 1 .. k |-> w[i]])}
<1>2. n \in Nat /\ \A i \in 1 .. n : ss[i] \in Seq(E) /\ w[i] \in Nat /\ w[i] = Len(ss[i])
  OBVIOUS
<1>3. DOMAIN ss = 1 .. n
  OBVIOUS
<1>4. /\ \A k \in 0 .. n : f[k] \in Seq(E)
      /\ f[0] = <<>>
      /\ \A k \in 1 .. n : f[k] = f[k - 1] \o ss[k]
  BY <1>1 DEF Joins
<1>5. [i \in DOMAIN ss |-> Len(ss[i])] = [i \in 1 .. n |-> w[i]]
  OBVIOUS
<1>6. \A i \in 1 .. n : [k \in 1 .. i - 1 |-> Len(ss[k])] = [k \in 1 .. i - 1 |-> w[k]]
  OBVIOUS
<1> HIDE DEF w, n
<1>7. 0 \in Good
  <2>1. [i \in 1 .. 0 |-> w[i]] = <<>>
    OBVIOUS
  <2> QED
    BY <1>2, <1>4, <2>1, TotalOfNone
<1>8. ASSUME NEW k \in 0 .. n - 1, k \in Good PROVE k + 1 \in Good
  <2>1. k \in Nat /\ k + 1 \in 1 .. n /\ k \in 0 .. n /\ k + 1 \in 0 .. n /\ (k + 1) - 1 = k
    BY <1>2
  <2>2. f[k + 1] = f[k] \o ss[k + 1] /\ f[k] \in Seq(E) /\ ss[k + 1] \in Seq(E)
    BY <1>2, <1>4, <2>1
  <2>3. Len(f[k + 1]) = Len(f[k]) + w[k + 1]
    <3>1. Len(f[k] \o ss[k + 1]) = Len(f[k]) + Len(ss[k + 1])
      BY <2>2, ConcatProperties
    <3> QED
      BY <1>2, <2>1, <2>2, <3>1
  <2>4. \A i \in 1 .. k + 1 : w[i] \in Nat
    BY <1>2
  <2>5. Total([i \in 1 .. k + 1 |-> w[i]]) = Total([i \in 1 .. k |-> w[i]]) + w[k + 1]
    BY <2>1, <2>4, TotalOfMore
  <2>6. Len(f[k]) = Total([i \in 1 .. k |-> w[i]])
    BY <1>8
  <2> QED
    BY <2>1, <2>3, <2>5, <2>6
<1>9. \A k \in 0 .. n : Len(f[k]) = Total([i \in 1 .. k |-> w[i]])
  <2>1. 0 .. n \subseteq Good
    <3> HIDE DEF Good
    <3> QED
      BY <1>2, <1>7, <1>8, Climb, Zenon
  <2> QED
    BY <2>1
<1>10. Len(FlattenSeq(ss)) = Total([i \in DOMAIN ss |-> Len(ss[i])])
  <2>1. n \in 0 .. n
    BY <1>2
  <2>2. Len(f[n]) = Total([i \in 1 .. n |-> w[i]])
    BY <1>9, <2>1
  <2> QED
    BY <1>1, <1>5, <2>2
<1>11. ASSUME NEW i \in 1 .. n, NEW j \in DOMAIN ss[i]
       PROVE  FlattenSeq(ss)[Before(ss, i) + j] = ss[i][j]
  <2> DEFINE at == Len(f[i - 1]) + j
             Kept == {k \in 0 .. n : k >= i => at \in 1 .. Len(f[k]) /\ f[k][at] = ss[i][j]}
  <2>1. i - 1 \in 0 .. n /\ i \in 0 .. n
    BY <1>2
  <2>2. at = Before(ss, i) + j
    BY <1>6, <1>9, <2>1 DEF Before
  <2>3. f[i - 1] \in Seq(E) /\ ss[i] \in Seq(E) /\ f[i] = f[i - 1] \o ss[i]
    BY <1>2, <1>4, <2>1, Zenon
  <2>31. Len(f[i - 1]) \in Nat /\ j \in 1 .. Len(ss[i]) /\ Len(ss[i]) \in Nat
    BY <2>3, LenProperties
  <2>32. Follows(f[i], f[i - 1], ss[i])
    BY <2>3, JoinedFollows, Zenon
  <2>4. at \in 1 .. Len(f[i]) /\ f[i][at] = ss[i][j]
    <3>1. PICK l : l = Len(f[i - 1])
      OBVIOUS
    <3>2. PICK o : o = Len(ss[i])
      OBVIOUS
    <3>3. /\ at \in 1 .. l + o /\ ~ at <= l /\ at - l = j
      <4>1. at = l + j
        BY <3>1, Zenon
      <4>2. l \in Nat /\ o \in Nat /\ j \in 1 .. o
        BY <2>31, <3>1, <3>2, Zenon
      <4> HIDE DEF at
      <4> QED
        BY <4>1, <4>2
    <3>4. Len(f[i]) = l + o /\ f[i][at] = IF at <= l THEN f[i - 1][at] ELSE ss[i][at - l]
      <4> HIDE DEF at
      <4> QED
        BY <2>32, <3>1, <3>2, <3>3, Zenon DEF Follows
    <3> HIDE DEF at
    <3> QED
      BY <3>3, <3>4
  <2> HIDE DEF at
  <2>5. 0 \in Kept
    BY <1>2
  <2>6. ASSUME NEW k \in 0 .. n - 1, k \in Kept PROVE k + 1 \in Kept
    <3>1. k + 1 \in 1 .. n /\ k \in 0 .. n /\ k + 1 \in 0 .. n /\ (k + 1) - 1 = k
      BY <1>2
    <3>2. f[k + 1] = f[k] \o ss[k + 1] /\ f[k] \in Seq(E) /\ ss[k + 1] \in Seq(E)
      BY <1>2, <1>4, <3>1
    <3>3. CASE k >= i
      <4>1. at \in 1 .. Len(f[k]) /\ f[k][at] = ss[i][j]
        BY <2>6, <3>3
      <4>2. Follows(f[k + 1], f[k], ss[k + 1])
        BY <3>2, JoinedFollows, Zenon
      <4>3. PICK l : l = Len(f[k])
        OBVIOUS
      <4>4. PICK o : o = Len(ss[k + 1])
        OBVIOUS
      <4>5. l \in Nat /\ o \in Nat /\ Len(f[k + 1]) = l + o
        BY <4>2, <4>3, <4>4, Zenon DEF Follows
      <4>6. at \in 1 .. l /\ at \in 1 .. l + o /\ at <= l
        BY <4>1, <4>3, <4>5
      <4>7. f[k + 1][at] = f[k][at]
        BY <4>2, <4>3, <4>4, <4>6, Zenon DEF Follows
      <4>8. at \in 1 .. Len(f[k + 1]) /\ f[k + 1][at] = ss[i][j]
        BY <4>1, <4>5, <4>6, <4>7
      <4> QED
        BY <3>1, <4>8
    <3>4. CASE k < i
      BY <2>4, <3>1, <3>4
    <3> QED
      BY <3>3, <3>4
  <2>7. 0 .. n \subseteq Kept
    <3> HIDE DEF Kept
    <3> QED
      BY <1>2, <2>5, <2>6, Climb, Zenon
  <2>8. n \in Kept /\ n >= i
    BY <1>2, <2>7
  <2>9. f[n][at] = ss[i][j]
    BY <2>8
  <2> QED
    BY <1>1, <2>2, <2>9
<1> QED
  BY <1>3, <1>10, <1>11 DEF Placed

\* The members of disjoint sets are those of one of them and of the others.
LEMMA TotalOfDisjoint ==
  ASSUME NEW n \in Nat, NEW A, \A i \in 1 .. n : IsFiniteSet(A[i]),
         \A i, j \in 1 .. n : i # j => A[i] \cap A[j] = {}
  PROVE  /\ Total([i \in 1 .. n |-> Cardinality(A[i])]) = Cardinality(UNION {A[i] : i \in 1 .. n})
         /\ \A i \in 1 .. n : Cardinality(A[i]) \in Nat
<1> DEFINE w == [i \in 1 .. n |-> Cardinality(A[i])]
           All(k) == UNION {A[i] : i \in 1 .. k}
           Good == {k \in 0 .. n : IsFiniteSet(All(k)) /\ Total([i \in 1 .. k |-> w[i]]) = Cardinality(All(k))}
<1>1. \A i \in 1 .. n : w[i] \in Nat /\ w[i] = Cardinality(A[i])
  BY FS_CardinalityType
<1> HIDE DEF w
<1>2. 0 \in Good
  <2>1. [i \in 1 .. 0 |-> w[i]] = <<>> /\ All(0) = {}
    OBVIOUS
  <2> HIDE DEF All
  <2> QED
    BY <2>1, TotalOfNone, FS_EmptySet
<1>3. ASSUME NEW k \in 0 .. n - 1, k \in Good PROVE k + 1 \in Good
  <2>1. k \in Nat /\ k + 1 \in 1 .. n /\ k + 1 \in 0 .. n
    OBVIOUS
  <2>2. All(k + 1) = All(k) \cup A[k + 1]
    <3>1. \A i : i \in 1 .. k + 1 <=> i \in 1 .. k \/ i = k + 1
      BY <2>1
    <3>2. {A[i] : i \in 1 .. k + 1} = {A[i] : i \in 1 .. k} \cup {A[k + 1]}
      BY <3>1
    <3> QED
      BY <3>2
  <2>3. All(k) \cap A[k + 1] = {}
    <3>1. \A i \in 1 .. k : i \in 1 .. n /\ i # k + 1
      BY <2>1
    <3> QED
      BY <2>1, <3>1
  <2> HIDE DEF All
  <2>4. IsFiniteSet(All(k)) /\ IsFiniteSet(A[k + 1])
    BY <1>3, <2>1
  <2>5. IsFiniteSet(All(k + 1)) /\ Cardinality(All(k + 1)) = Cardinality(All(k)) + Cardinality(A[k + 1])
    <3>1. Cardinality({}) = 0
      BY FS_EmptySet
    <3>2. Cardinality(All(k)) \in Nat /\ Cardinality(A[k + 1]) \in Nat
      BY <2>4, FS_CardinalityType
    <3> QED
      <4>1. /\ IsFiniteSet(All(k) \cup A[k + 1])
            /\ Cardinality(All(k) \cup A[k + 1])
                 = Cardinality(All(k)) + Cardinality(A[k + 1]) - Cardinality(All(k) \cap A[k + 1])
        BY <2>4, FS_Union, Zenon
      <4>2. /\ IsFiniteSet(All(k + 1))
            /\ Cardinality(All(k + 1)) = Cardinality(All(k)) + Cardinality(A[k + 1]) - 0
        BY <2>2, <2>3, <3>1, <4>1, Zenon
      <4> QED
        BY <3>2, <4>2
  <2>6. \A i \in 1 .. k + 1 : w[i] \in Nat
    BY <1>1, <2>1
  <2>7. Total([i \in 1 .. k + 1 |-> w[i]]) = Total([i \in 1 .. k |-> w[i]]) + w[k + 1]
    BY <2>1, <2>6, TotalOfMore
  <2> QED
    BY <1>1, <1>3, <2>1, <2>5, <2>7
<1>4. n \in Good
  <2>1. 0 .. n \subseteq Good
    <3> HIDE DEF Good
    <3> QED
      BY <1>2, <1>3, Climb, Zenon
  <2> QED
    BY <2>1
<1>5. [i \in 1 .. n |-> Cardinality(A[i])] = [i \in 1 .. n |-> w[i]]
  BY DEF w
<1>6. Total([i \in 1 .. n |-> w[i]]) = Cardinality(All(n))
  BY <1>4
<1> QED
  BY <1>1, <1>5, <1>6
\* Counting one by one.
LEMMA TotalOfOnes ==
  ASSUME NEW n \in Nat, NEW A
  PROVE  Total([i \in 1 .. n |-> IF i \in A THEN 1 ELSE 0]) = Cardinality({i \in 1 .. n : i \in A})
<1> DEFINE B == [i \in 1 .. n |-> IF i \in A THEN {i} ELSE {}]
<1>1. \A i \in 1 .. n : /\ IsFiniteSet(B[i])
                        /\ Cardinality(B[i]) = IF i \in A THEN 1 ELSE 0
  <2> SUFFICES ASSUME NEW i \in 1 .. n
               PROVE  IsFiniteSet(B[i]) /\ Cardinality(B[i]) = IF i \in A THEN 1 ELSE 0
    OBVIOUS
  <2>1. CASE i \in A
    <3>1. B[i] = {i}
      BY <2>1
    <3> QED
      BY <2>1, <3>1, FS_Singleton
  <2>2. CASE i \notin A
    <3>1. B[i] = {}
      BY <2>2
    <3> QED
      BY <2>2, <3>1, FS_EmptySet
  <2> QED
    BY <2>1, <2>2
<1>2. \A i, j \in 1 .. n : i # j => B[i] \cap B[j] = {}
  OBVIOUS
<1>3. UNION {B[i] : i \in 1 .. n} = {i \in 1 .. n : i \in A}
  OBVIOUS
<1> HIDE DEF B
<1>4. Total([i \in 1 .. n |-> Cardinality(B[i])]) = Cardinality(UNION {B[i] : i \in 1 .. n})
  BY <1>1, <1>2, TotalOfDisjoint
<1>5. [i \in 1 .. n |-> Cardinality(B[i])] = [i \in 1 .. n |-> IF i \in A THEN 1 ELSE 0]
  BY <1>1
<1> QED
  BY <1>3, <1>4, <1>5

LEMMA TotalOfNothing ==
  ASSUME NEW n \in Nat PROVE Total([i \in 1 .. n |-> 0]) = 0
<1>1. Total([i \in 1 .. n |-> IF i \in {} THEN 1 ELSE 0]) = Cardinality({i \in 1 .. n : i \in {}})
  BY TotalOfOnes
<1>2. /\ [i \in 1 .. n |-> IF i \in {} THEN 1 ELSE 0] = [i \in 1 .. n |-> 0]
      /\ {i \in 1 .. n : i \in {}} = {}
  OBVIOUS
<1> QED
  BY <1>1, <1>2, FS_EmptySet

LEMMA TotalOfEach ==
  ASSUME NEW n \in Nat PROVE Total([i \in 1 .. n |-> 1]) = n
<1> DEFINE D == 1 .. n
<1>1. Total([i \in 1 .. n |-> IF i \in D THEN 1 ELSE 0]) = Cardinality({i \in 1 .. n : i \in D})
  BY TotalOfOnes
<1>2. /\ [i \in 1 .. n |-> IF i \in D THEN 1 ELSE 0] = [i \in 1 .. n |-> 1]
      /\ {i \in 1 .. n : i \in D} = 1 .. n
  OBVIOUS
<1>3. Cardinality(1 .. n) = n
  BY FS_Interval
<1> QED
  BY <1>1, <1>2, <1>3

\* How many members of a sequence are in a set.
Marks(E, P) == [e \in E |-> IF e \in P THEN 1 ELSE 0]

LEMMA MarksWeigh ==
  ASSUME NEW E, NEW P, NEW u \in Seq(E)
  PROVE  Weigh(u, Marks(E, P)) = Cardinality({k \in DOMAIN u : u[k] \in P})
<1> DEFINE A == {k \in 1 .. Len(u) : u[k] \in P}
<1>1. /\ Len(u) \in Nat /\ DOMAIN u = 1 .. Len(u)
      /\ \A k \in 1 .. Len(u) : u[k] \in E
  OBVIOUS
<1>2. Total([k \in 1 .. Len(u) |-> IF k \in A THEN 1 ELSE 0]) = Cardinality({k \in 1 .. Len(u) : k \in A})
  <2> HIDE DEF A
  <2> QED
    BY <1>1, TotalOfOnes
<1>3. \A k \in 1 .. Len(u) : Marks(E, P)[u[k]] = IF k \in A THEN 1 ELSE 0
  BY <1>1 DEF Marks
<1>4. [k \in DOMAIN u |-> Marks(E, P)[u[k]]] = [k \in 1 .. Len(u) |-> IF k \in A THEN 1 ELSE 0]
  <2> HIDE DEF A
  <2> QED
    BY <1>1, <1>3
<1>5. {k \in 1 .. Len(u) : k \in A} = {k \in DOMAIN u : u[k] \in P}
  BY <1>1
<1> HIDE DEF A
<1> QED
  BY <1>2, <1>4, <1>5 DEF Weigh

-----------------------------------------------------------------------------
(***************************************************************************)
(* Groups.  GroupFaces takes every face of a shape once.                   *)
(***************************************************************************)
LEMMA ShapeFaces ==
  ASSUME NEW s, IsShape(s)
  PROVE  /\ Len(s.faces) \in Nat /\ DOMAIN s.faces = 1 .. Len(s.faces) /\ s.wires \in Nat
         /\ s.faces \in Seq(ToSet(s.faces))
         /\ \A j \in 1 .. Len(s.faces) : s.faces[j] \in ToSet(s.faces)
         /\ s.faces = <<>> <=> Len(s.faces) = 0
<1>1. s.faces \in Seq(ToSet(s.faces)) /\ s.wires \in Nat
  BY DEF IsShape
<1> DEFINE E == ToSet(s.faces)
<1> HIDE DEF E
<1>2. s.faces \in Seq(E)
  BY <1>1 DEF E
<1>3. /\ Len(s.faces) \in Nat /\ DOMAIN s.faces = 1 .. Len(s.faces)
      /\ \A j \in 1 .. Len(s.faces) : s.faces[j] \in E
      /\ s.faces = <<>> <=> Len(s.faces) = 0
  BY <1>2
<1> QED
  BY <1>1, <1>3 DEF E

\* F has the faces of an origin: as many as the shape has, of any kind P.
Picks(F, s, o, P) ==
  /\ F \in Seq(ToSet(s.faces))
  /\ Cardinality({k \in DOMAIN F : F[k] \in P})
       = Cardinality({j \in DOMAIN s.faces : s.faces[j].origin = o /\ s.faces[j] \in P})

LEMMA FacesOfAnOrigin ==
  ASSUME NEW s, IsShape(s), NEW o, NEW P
  PROVE  Picks(FacesOf(s, o), s, o, P)
<1> DEFINE E == ToSet(s.faces)
           n == Len(s.faces)
           F == FacesOf(s, o)
           ss == [j \in DOMAIN s.faces |-> IF s.faces[j].origin = o THEN <<s.faces[j]>> ELSE <<>>]
           A == {j \in 1 .. n : s.faces[j].origin = o /\ s.faces[j] \in P}
<1>1. n \in Nat /\ DOMAIN s.faces = 1 .. n /\ \A j \in 1 .. n : s.faces[j] \in E
  BY ShapeFaces
<1>2. F = FlattenSeq(ss)
  BY DEF FacesOf
<1> HIDE DEF E, F, n
<1>3. \A j \in 1 .. n : ss[j] = IF s.faces[j].origin = o THEN <<s.faces[j]>> ELSE <<>>
  BY <1>1
<1>4. ss \in Seq(Seq(E)) /\ DOMAIN ss = 1 .. n
  <2>1. \A j \in 1 .. n : (IF s.faces[j].origin = o THEN <<s.faces[j]>> ELSE <<>>) \in Seq(E)
    BY <1>1
  <2> QED
    BY <1>1, <2>1
<1> HIDE DEF ss
<1>5. F \in Seq(E)
  BY <1>2, <1>4, FlattenIsSequence
<1>6. Marks(E, P) \in [E -> Nat]
  BY DEF Marks
<1>7. Weigh(F, Marks(E, P)) = Total([j \in DOMAIN ss |-> Weigh(ss[j], Marks(E, P))])
  BY <1>2, <1>4, <1>6, FlattenWeighs DEF WeighsAll
<1>8. \A j \in 1 .. n : Weigh(ss[j], Marks(E, P)) = IF j \in A THEN 1 ELSE 0
  <2> SUFFICES ASSUME NEW j \in 1 .. n
               PROVE  Weigh(ss[j], Marks(E, P)) = IF j \in A THEN 1 ELSE 0
    OBVIOUS
  <2>1. CASE s.faces[j].origin = o
    <3> DEFINE f == s.faces[j]
               x == Marks(E, P)[f]
    <3>1. ss[j] = <<f>> /\ f \in E
      BY <1>1, <1>3, <2>1
    <3>2. x = IF f \in P THEN 1 ELSE 0
      BY <3>1 DEF Marks
    <3> HIDE DEF f
    <3>3. [k \in DOMAIN <<f>> |-> Marks(E, P)[<<f>>[k]]] = <<x>>
      OBVIOUS
    <3>4. Weigh(ss[j], Marks(E, P)) = x
      <4>1. x \in Nat
        BY <3>2
      <4> HIDE DEF x
      <4> QED
        BY <3>1, <3>3, <4>1, TotalOfOne DEF Weigh
    <3> QED
      BY <2>1, <3>2, <3>4 DEF f
  <2>2. CASE s.faces[j].origin # o
    <3>1. ss[j] = <<>> /\ j \notin A
      BY <1>3, <2>2
    <3> QED
      BY <3>1, WeighOfNone
  <2> QED
    BY <2>1, <2>2
<1> HIDE DEF A
<1>9. [j \in DOMAIN ss |-> Weigh(ss[j], Marks(E, P))] = [j \in 1 .. n |-> IF j \in A THEN 1 ELSE 0]
  BY <1>4, <1>8
<1>10. Total([j \in 1 .. n |-> IF j \in A THEN 1 ELSE 0]) = Cardinality({j \in 1 .. n : j \in A})
  BY <1>1, TotalOfOnes
<1>11. {j \in 1 .. n : j \in A} = {j \in DOMAIN s.faces : s.faces[j].origin = o /\ s.faces[j] \in P}
  BY <1>1 DEF A
<1>12. Weigh(F, Marks(E, P)) = Cardinality({k \in DOMAIN F : F[k] \in P})
  BY <1>5, MarksWeigh
<1> QED
  BY <1>5, <1>7, <1>9, <1>10, <1>11, <1>12 DEF E, F, Picks

LEMMA OriginsAreFinite ==
  ASSUME NEW s, IsShape(s)
  PROVE  /\ IsFiniteSet(Origins(s))
         /\ Origins(s) = {s.faces[q].origin : q \in DOMAIN s.faces}
<1> DEFINE S == Origins(s)
           n == Len(s.faces)
           f == [q \in 1 .. n |-> s.faces[q].origin]
<1>1. n \in Nat /\ DOMAIN s.faces = 1 .. n /\ \A j \in 1 .. n : s.faces[j] \in ToSet(s.faces)
  BY ShapeFaces
<1>2. S = {s.faces[q].origin : q \in 1 .. n}
  <2>1. ToSet(s.faces) = {s.faces[q] : q \in 1 .. n}
    BY <1>1 DEF ToSet
  <2> QED
    BY <2>1 DEF Origins
<1>3. f \in Surjection(1 .. n, S)
  BY <1>2 DEF Surjection
<1>4. IsFiniteSet(1 .. n)
  BY <1>1, FS_Interval
<1> HIDE DEF f, n, S
<1>5. IsFiniteSet(S)
  BY <1>3, <1>4, FS_Surjection
<1> QED
  BY <1>1, <1>2, <1>5 DEF S

\* An order has every origin once.
LEMMA OriginsAreOrdered ==
  ASSUME NEW s, IsShape(s), NEW p \in Orders(Origins(s))
  PROVE  /\ Cardinality(Origins(s)) \in Nat /\ DOMAIN p = 1 .. Cardinality(Origins(s))
         /\ \A i \in DOMAIN p : p[i] \in Origins(s)
         /\ \A i, j \in DOMAIN p : p[i] = p[j] => i = j
         /\ \A q \in DOMAIN s.faces : \E i \in DOMAIN p : p[i] = s.faces[q].origin
<1> DEFINE S == Origins(s)
<1>2. S = {s.faces[q].origin : q \in DOMAIN s.faces}
  BY OriginsAreFinite
<1>5. IsFiniteSet(S) /\ Cardinality(S) \in Nat
  BY OriginsAreFinite, FS_CardinalityType
<1> HIDE DEF S
<1>6. /\ p \in [1 .. Cardinality(S) -> S]
      /\ \A i, j \in DOMAIN p : p[i] = p[j] => i = j
  BY DEF Orders, S
<1> DEFINE m == Cardinality(S)
<1>61. p \in [1 .. m -> S] /\ \A i, j \in 1 .. m : p[i] = p[j] => i = j
  BY <1>6
<1>8. IsFiniteSet(1 .. m) /\ Cardinality(1 .. m) = Cardinality(S)
  BY <1>5, FS_Interval
<1> HIDE DEF m
<1>7. p \in Injection(1 .. m, S)
  BY <1>61 DEF Injection, IsInjective
<1>9. p \in Surjection(1 .. m, S)
  BY <1>5, <1>7, <1>8, FS_Injection
<1>10. \A q \in DOMAIN s.faces : \E i \in 1 .. m : p[i] = s.faces[q].origin
  BY <1>2, <1>9 DEF Surjection
<1> QED
  BY <1>5, <1>6, <1>10 DEF S, m
-----------------------------------------------------------------------------
(***************************************************************************)
(* Entities.  A group is written as one entity with a label for each of    *)
(* its faces; without faces, as one for each of its wires.                 *)
(***************************************************************************)
\* What the file says of a face: of STEP, or of IGES with the names asked for.
FaceOf(group, face, settings) ==
  IF settings = "STEP" THEN StepFace(face) ELSE IgesFace(group, face, settings)

Written(e, group, settings) ==
  /\ group.faces # <<>> =>
       Len(e) = 1 /\ e[1].faces = [i \in DOMAIN group.faces |-> FaceOf(group, group.faces[i], settings)]
  /\ group.faces = <<>> => Len(e) = group.wires /\ \A k \in DOMAIN e : e[k].faces = <<>>

\* The label a face gets from the name of its group and as the only face there.
LabelBy(name, alone, face, settings) ==
  IF settings = "STEP" THEN StepFace(face)
  ELSE LET names == LongName(ExportedLongFaceName([name |-> name], face, settings)) IN
       IF alone THEN [label |-> name, names |-> names \o LongName(name)]
       ELSE [label |-> face.name, names |-> names]

Label(s, mode, settings, face) ==
  LabelBy(IF mode = "WHOLE_SHAPE" THEN s.name ELSE NameOfOrigin(s, face.origin),
          IsAlone(s, face, mode), face, settings)

Labels(s, mode, settings) == [j \in DOMAIN s.faces |-> Label(s, mode, settings, s.faces[j])]

\* How often each entity has a label.
Occurrences(E, x) == [e \in E |-> Count(e.faces, x)]

HaveFaces(E) == \A e \in E : e.faces \in Seq(ToSet(e.faces))

\* The entities of a shape have the labels of its faces, and there is one for each group.
Tells(es, E, s, mode, settings) ==
  /\ es \in Seq(E) /\ Len(es) = NbGroups(s, mode)
  /\ \A x : Weigh(es, Occurrences(E, x)) = Count(Labels(s, mode, settings), x)

LEMMA CountIsNumber ==
  ASSUME NEW seq, NEW x, seq \in Seq(ToSet(seq)) PROVE Count(seq, x) \in Nat
<1> DEFINE E == ToSet(seq)
<1> HIDE DEF E
<1>1. seq \in Seq(E)
  BY DEF E
<1>2. DOMAIN seq = 1 .. Len(seq) /\ Len(seq) \in Nat
  BY <1>1
<1>3. IsFiniteSet({i \in 1 .. Len(seq) : seq[i] = x})
  <2>1. IsFiniteSet(1 .. Len(seq))
    BY <1>2, FS_Interval
  <2>2. {i \in 1 .. Len(seq) : seq[i] = x} \in SUBSET (1 .. Len(seq))
    OBVIOUS
  <2> QED
    BY <2>1, <2>2, FS_Subset
<1> QED
  BY <1>2, <1>3, FS_CardinalityType DEF Count

LEMMA OccurrencesAreNumbers ==
  ASSUME NEW E, HaveFaces(E), NEW x
  PROVE  Occurrences(E, x) \in [E -> Nat] /\ \A e \in E : Occurrences(E, x)[e] = Count(e.faces, x)
<1>1. \A e \in E : Count(e.faces, x) \in Nat
  BY CountIsNumber DEF HaveFaces
<1> QED
  BY <1>1 DEF Occurrences

LEMMA CountOfNone == ASSUME NEW x PROVE Count(<<>>, x) = 0
<1>1. {i \in DOMAIN <<>> : <<>>[i] = x} = {}
  OBVIOUS
<1> QED
  BY <1>1, FS_EmptySet DEF Count

\* The faces of a group that get a label.
Named(group, settings, x) ==
  {i \in DOMAIN group.faces : FaceOf(group, group.faces[i], settings) = x}

\* A group with faces.
LEMMA OneEntity ==
  ASSUME NEW E, HaveFaces(E), NEW e \in Seq(E), NEW group, NEW settings, NEW x,
         Written(e, group, settings), group.faces # <<>>
  PROVE  /\ Len(e) = 1
         /\ Weigh(e, Occurrences(E, x)) = Cardinality(Named(group, settings, x))
<1>1. Len(e) = 1 /\ e[1].faces = [i \in DOMAIN group.faces |-> FaceOf(group, group.faces[i], settings)]
  BY DEF Written
<1>2. e[1] \in E
  BY <1>1
<1>3. Occurrences(E, x)[e[1]] = Count(e[1].faces, x) /\ Count(e[1].faces, x) \in Nat
  BY <1>2, OccurrencesAreNumbers, CountIsNumber DEF HaveFaces
<1>4. [k \in DOMAIN e |-> Occurrences(E, x)[e[k]]] = <<Count(e[1].faces, x)>>
  <2> DEFINE m == Occurrences(E, x)
             y == Count(e[1].faces, x)
  <2> HIDE DEF m, y
  <2>1. DOMAIN e = 1 .. 1 /\ m[e[1]] = y
    BY <1>1, <1>3 DEF m, y
  <2>2. [k \in DOMAIN e |-> m[e[k]]] = <<y>>
    BY <2>1
  <2> QED
    BY <2>2 DEF m, y
<1>5. Weigh(e, Occurrences(E, x)) = Count(e[1].faces, x)
  BY <1>3, <1>4, TotalOfOne DEF Weigh
<1>6. Count(e[1].faces, x)
        = Cardinality({i \in DOMAIN group.faces : FaceOf(group, group.faces[i], settings) = x})
  <2> DEFINE l == [i \in DOMAIN group.faces |-> FaceOf(group, group.faces[i], settings)]
  <2>1. {i \in DOMAIN l : l[i] = x}
          = {i \in DOMAIN group.faces : FaceOf(group, group.faces[i], settings) = x}
    OBVIOUS
  <2> HIDE DEF l
  <2> QED
    BY <1>1, <2>1 DEF Count, l
<1> QED
  BY <1>1, <1>5, <1>6 DEF Named

LEMMA LabelOfGroup ==
  ASSUME NEW group, NEW face, NEW settings
  PROVE  FaceOf(group, face, settings) = LabelBy(group.name, Len(group.faces) = 1, face, settings)
<1> DEFINE g == [name |-> group.name]
<1>1. g.name = group.name
  OBVIOUS
<1>2. ExportedLongFaceName(group, face, settings) = ExportedLongFaceName(g, face, settings)
  BY <1>1 DEF ExportedLongFaceName
<1> QED
  BY <1>2 DEF FaceOf, LabelBy, IgesFace

\* A face is alone with its origin if there is one face of it.
LEMMA OriginsAlone ==
  ASSUME NEW s, IsShape(s), NEW face \in ToSet(s.faces)
  PROVE  (Len(FacesOf(s, face.origin)) = 1) <=> IsAlone(s, face, "NAMED_COMPOUNDS")
<1> DEFINE o == face.origin
           F == FacesOf(s, o)
           T == ToSet(s.faces)
           D == DOMAIN s.faces
<1>1. /\ F \in Seq(T)
      /\ Cardinality({k \in DOMAIN F : F[k] \in T})
           = Cardinality({q \in D : s.faces[q].origin = o /\ s.faces[q] \in T})
  <2>1. Picks(F, s, o, T)
    BY FacesOfAnOrigin
  <2> QED
    BY <2>1 DEF Picks
<1>2. {q \in D : s.faces[q].origin = o /\ s.faces[q] \in T} = {q \in D : s.faces[q].origin = o}
  <2>1. \A q \in D : s.faces[q] \in T
    BY DEF ToSet
  <2> HIDE DEF T
  <2> QED
    BY <2>1
<1> HIDE DEF F, T
<1>3. DOMAIN F = 1 .. Len(F) /\ Len(F) \in Nat /\ \A k \in DOMAIN F : F[k] \in T
  BY <1>1
<1>4. {k \in DOMAIN F : F[k] \in T} = 1 .. Len(F)
  BY <1>3
<1>5. Cardinality(1 .. Len(F)) = Len(F)
  BY <1>3, FS_Interval
<1>6. Len(F) = Cardinality({q \in D : s.faces[q].origin = o})
  BY <1>1, <1>2, <1>4, <1>5
<1> QED
  BY <1>6 DEF F, IsAlone

\* The shape is one group.
LEMMA WholeShapeTells ==
  ASSUME NEW E, HaveFaces(E), NEW s, IsShape(s), NEW mode, NEW settings,
         mode = "WHOLE_SHAPE" \/ s.faces = <<>>, NEW ents, ents = <<ents[1]>>, ents[1] \in Seq(E),
         Written(ents[1], s, settings)
  PROVE  Tells(FlattenSeq(ents), E, s, mode, settings)
<1>1. PICK e \in Seq(E) : ents = <<e>>
  OBVIOUS
<1>2. e = ents[1] /\ <<e>> \in Seq(Seq(E)) /\ Len(<<e>>) = 1
  BY <1>1
<1>3. FlattenSeq(<<e>>) = e
  <2>1. PICK f : Joins(f, <<e>>, E) /\ FlattenSeq(<<e>>) = f[Len(<<e>>)]
    BY <1>2, FlattenJoins
  <2>2. f[0] = <<>> /\ f[1] = f[0] \o e
    <3>1. 1 \in 1 .. Len(<<e>>) /\ 1 - 1 = 0 /\ <<e>>[1] = e
      BY <1>2
    <3> QED
      BY <2>1, <3>1 DEF Joins
  <2>3. <<>> \o e = e
    OBVIOUS
  <2> QED
    BY <1>2, <2>1, <2>2, <2>3
<1>4. Written(e, s, settings)
  BY <1>2
<1>5. CASE s.faces # <<>>
  <2>1. mode = "WHOLE_SHAPE" /\ NbGroups(s, mode) = 1
    BY <1>5 DEF NbGroups
  <2>2. Len(e) = 1
    BY <1>4, <1>5, OneEntity
  <2>3. ASSUME NEW x
        PROVE  Weigh(e, Occurrences(E, x)) = Count(Labels(s, mode, settings), x)
    <3>1. Weigh(e, Occurrences(E, x))
            = Cardinality({i \in DOMAIN s.faces : FaceOf(s, s.faces[i], settings) = x})
      BY <1>4, <1>5, OneEntity DEF Named
    <3>2. \A i \in DOMAIN s.faces : Labels(s, mode, settings)[i] = FaceOf(s, s.faces[i], settings)
      <4> SUFFICES ASSUME NEW i \in DOMAIN s.faces
                   PROVE  Labels(s, mode, settings)[i] = FaceOf(s, s.faces[i], settings)
        OBVIOUS
      <4>1. FaceOf(s, s.faces[i], settings) = LabelBy(s.name, Len(s.faces) = 1, s.faces[i], settings)
        BY LabelOfGroup
      <4>2. IsAlone(s, s.faces[i], mode) = (Len(s.faces) = 1)
        BY <2>1 DEF IsAlone
      <4> QED
        BY <2>1, <4>1, <4>2 DEF Labels, Label
    <3>3. DOMAIN Labels(s, mode, settings) = DOMAIN s.faces
      BY DEF Labels
    <3>4. {i \in DOMAIN Labels(s, mode, settings) : Labels(s, mode, settings)[i] = x}
            = {i \in DOMAIN s.faces : FaceOf(s, s.faces[i], settings) = x}
      BY <3>2, <3>3
    <3> QED
      BY <3>1, <3>4 DEF Count
  <2> QED
    BY <1>1, <1>3, <2>1, <2>2, <2>3 DEF Tells
<1>6. CASE s.faces = <<>>
  <2>1. NbGroups(s, mode) = s.wires /\ Len(e) = s.wires /\ \A k \in DOMAIN e : e[k].faces = <<>>
    BY <1>4, <1>6 DEF NbGroups, Written
  <2>2. ASSUME NEW x
        PROVE  Weigh(e, Occurrences(E, x)) = Count(Labels(s, mode, settings), x)
    <3>1. \A k \in DOMAIN e : Occurrences(E, x)[e[k]] = 0
      <4> SUFFICES ASSUME NEW k \in DOMAIN e PROVE Occurrences(E, x)[e[k]] = 0
        OBVIOUS
      <4>1. e[k] \in E
        OBVIOUS
      <4>2. Occurrences(E, x)[e[k]] = Count(e[k].faces, x)
        BY <4>1, OccurrencesAreNumbers, Zenon
      <4> QED
        BY <2>1, <4>2, CountOfNone
    <3>2. [k \in DOMAIN e |-> Occurrences(E, x)[e[k]]] = [k \in 1 .. Len(e) |-> 0]
      BY <3>1
    <3>3. Weigh(e, Occurrences(E, x)) = 0
      <4>1. Len(e) \in Nat
        OBVIOUS
      <4> QED
        BY <3>2, <4>1, TotalOfNothing DEF Weigh
    <3>4. Labels(s, mode, settings) = <<>>
      BY <1>6 DEF Labels
    <3> QED
      BY <3>3, <3>4, CountOfNone
  <2> QED
    BY <1>1, <1>3, <2>1, <2>2 DEF Tells
<1> QED
  BY <1>5, <1>6
\* Several groups with faces.
EachWritten(ents, E, g, n, settings) ==
  /\ ents \in Seq(Seq(E)) /\ Len(ents) = n
  /\ \A j \in 1 .. n : g[j].faces # <<>> /\ Written(ents[j], g[j], settings)

\* So there is one entity for each, with the labels its group gives.
AllLabelled(es, E, g, n, settings) ==
  /\ es \in Seq(E) /\ Len(es) = n
  /\ \A x : Weigh(es, Occurrences(E, x)) = Total([j \in 1 .. n |-> Cardinality(Named(g[j], settings, x))])

LEMMA EntitiesOfGroups ==
  ASSUME NEW E, HaveFaces(E), NEW n \in Nat, NEW ents, NEW g, NEW settings,
         EachWritten(ents, E, g, n, settings)
  PROVE  AllLabelled(FlattenSeq(ents), E, g, n, settings)
<1>0. /\ ents \in Seq(Seq(E)) /\ Len(ents) = n
      /\ \A j \in 1 .. n : g[j].faces # <<>> /\ Written(ents[j], g[j], settings)
  BY DEF EachWritten
<1>1. DOMAIN ents = 1 .. n /\ \A j \in 1 .. n : ents[j] \in Seq(E)
  BY <1>0
<1>2. FlattenSeq(ents) \in Seq(E)
  BY <1>0, FlattenIsSequence
<1>3. \A j \in 1 .. n : Len(ents[j]) = 1
  BY <1>0, <1>1, OneEntity
<1>4. Len(FlattenSeq(ents)) = n
  <2>1. [j \in DOMAIN ents |-> Len(ents[j])] = [j \in 1 .. n |-> 1]
    BY <1>1, <1>3
  <2> QED
    BY <1>0, <2>1, FlattenPlaces, TotalOfEach DEF Placed
<1>5. ASSUME NEW x
      PROVE  Weigh(FlattenSeq(ents), Occurrences(E, x)) = Total([j \in 1 .. n |-> Cardinality(Named(g[j], settings, x))])
  <2>1. Occurrences(E, x) \in [E -> Nat]
    BY OccurrencesAreNumbers
  <2>2. Weigh(FlattenSeq(ents), Occurrences(E, x)) = Total([j \in DOMAIN ents |-> Weigh(ents[j], Occurrences(E, x))])
    BY <1>0, <2>1, FlattenWeighs DEF WeighsAll
  <2>3. ASSUME NEW j \in 1 .. n
        PROVE  Weigh(ents[j], Occurrences(E, x)) = Cardinality(Named(g[j], settings, x))
    <3>1. ents[j] \in Seq(E) /\ g[j].faces # <<>> /\ Written(ents[j], g[j], settings)
      BY <1>0, <1>1, Zenon
    <3> QED
      BY <3>1, OneEntity
  <2>4. [j \in DOMAIN ents |-> Weigh(ents[j], Occurrences(E, x))] =
          [j \in 1 .. n |-> Cardinality(Named(g[j], settings, x))]
    BY <1>1, <2>3
  <2> QED
    BY <2>2, <2>4
<1> QED
  BY <1>2, <1>4, <1>5 DEF AllLabelled

\* Every face is a group.
LEMMA FacesTell ==
  ASSUME NEW E, HaveFaces(E), NEW s, IsShape(s), NEW settings, s.faces # <<>>,
         NEW g, g = [i \in DOMAIN s.faces |-> [name |-> NameOfOrigin(s, s.faces[i].origin),
                                                faces |-> <<s.faces[i]>>, wires |-> 0]],
         NEW ents \in Seq(Seq(E)), DOMAIN ents = DOMAIN g,
         \A j \in DOMAIN g : Written(ents[j], g[j], settings)
  PROVE  Tells(FlattenSeq(ents), E, s, "FACES", settings)
<1> DEFINE n == Len(s.faces)
           D == DOMAIN s.faces
<1>1. n \in Nat /\ D = 1 .. n
  BY ShapeFaces
<1>2. /\ DOMAIN g = 1 .. n
      /\ \A j \in 1 .. n : g[j].name = NameOfOrigin(s, s.faces[j].origin) /\ g[j].faces = <<s.faces[j]>>
  BY <1>1
<1>3. Len(ents) = n
  BY <1>1, <1>2
<1>4. \A j \in 1 .. n : g[j].faces # <<>> /\ Written(ents[j], g[j], settings)
  BY <1>2
<1>5. NbGroups(s, "FACES") = n
  BY DEF NbGroups
<1> HIDE DEF n, D
<1>6. AllLabelled(FlattenSeq(ents), E, g, n, settings)
  <2>1. EachWritten(ents, E, g, n, settings)
    BY <1>3, <1>4 DEF EachWritten
  <2> QED
    BY <1>1, <2>1, EntitiesOfGroups
<1>7. ASSUME NEW x
      PROVE  Weigh(FlattenSeq(ents), Occurrences(E, x)) = Count(Labels(s, "FACES", settings), x)
  <2> DEFINE A == {j \in 1 .. n : Label(s, "FACES", settings, s.faces[j]) = x}
             C(j) == Named(g[j], settings, x)
  <2>1. \A j \in 1 .. n : Cardinality(C(j)) = IF j \in A THEN 1 ELSE 0
    <3> SUFFICES ASSUME NEW j \in 1 .. n
                 PROVE  Cardinality(C(j)) = IF j \in A THEN 1 ELSE 0
      OBVIOUS
    <3>1. FaceOf(g[j], s.faces[j], settings) = Label(s, "FACES", settings, s.faces[j])
      <4>0. Len(g[j].faces) = 1
        BY <1>2
      <4>1. FaceOf(g[j], s.faces[j], settings) = LabelBy(g[j].name, TRUE, s.faces[j], settings)
        BY <4>0, LabelOfGroup
      <4>2. Label(s, "FACES", settings, s.faces[j])
              = LabelBy(NameOfOrigin(s, s.faces[j].origin), TRUE, s.faces[j], settings)
        BY DEF Label, IsAlone
      <4>3. g[j].name = NameOfOrigin(s, s.faces[j].origin)
        BY <1>2
      <4> QED
        BY <4>1, <4>2, <4>3, Zenon
    <3>2. DOMAIN g[j].faces = {1} /\ g[j].faces[1] = s.faces[j]
      <4>1. g[j].faces = <<s.faces[j]>>
        BY <1>2
      <4>2. DOMAIN <<s.faces[j]>> = {1} /\ <<s.faces[j]>>[1] = s.faces[j]
        OBVIOUS
      <4> QED
        BY <4>1, <4>2
    <3>3. CASE j \in A
      <4>1. C(j) = {1}
        BY <3>1, <3>2, <3>3 DEF Named
      <4> QED
        BY <3>3, <4>1, FS_Singleton
    <3>4. CASE j \notin A
      <4>1. C(j) = {}
        BY <3>1, <3>2, <3>4 DEF Named
      <4> QED
        BY <3>4, <4>1, FS_EmptySet
    <3> QED
      BY <3>3, <3>4
  <2>2. {j \in 1 .. n : j \in A} = {j \in DOMAIN Labels(s, "FACES", settings) : Labels(s, "FACES", settings)[j] = x}
    <3>1. DOMAIN Labels(s, "FACES", settings) = 1 .. n
      BY <1>1 DEF Labels, D
    <3>2. \A j \in 1 .. n : Labels(s, "FACES", settings)[j] = Label(s, "FACES", settings, s.faces[j])
      BY <1>1 DEF Labels, D
    <3> DEFINE M == Labels(s, "FACES", settings)
               l(j) == Label(s, "FACES", settings, s.faces[j])
    <3>3. DOMAIN M = 1 .. n /\ \A j \in 1 .. n : M[j] = l(j)
      BY <3>1, <3>2
    <3> HIDE DEF M, l
    <3>4. {j \in 1 .. n : l(j) = x} = {j \in DOMAIN M : M[j] = x}
      BY <3>3
    <3>5. A = {j \in 1 .. n : l(j) = x}
      BY DEF l
    <3>6. {j \in 1 .. n : j \in A} = A
      OBVIOUS
    <3> HIDE DEF A
    <3> QED
      BY <3>4, <3>5, <3>6 DEF M
  <2> HIDE DEF A
  <2>3. [j \in 1 .. n |-> Cardinality(C(j))] = [j \in 1 .. n |-> IF j \in A THEN 1 ELSE 0]
    BY <2>1
  <2>4. Total([j \in 1 .. n |-> IF j \in A THEN 1 ELSE 0]) = Cardinality({j \in 1 .. n : j \in A})
    BY <1>1, TotalOfOnes
  <2>5. Count(Labels(s, "FACES", settings), x) = Cardinality({j \in 1 .. n : j \in A})
    BY <2>2 DEF Count
  <2>6. Weigh(FlattenSeq(ents), Occurrences(E, x)) = Total([j \in 1 .. n |-> Cardinality(C(j))])
    BY <1>6 DEF AllLabelled
  <2> HIDE DEF C
  <2> QED
    BY <2>3, <2>4, <2>5, <2>6
<1> QED
  BY <1>5, <1>6, <1>7 DEF Tells, AllLabelled

\* The faces of an origin are a group.
LEMMA OriginsTell ==
  ASSUME NEW E, HaveFaces(E), NEW s, IsShape(s), NEW settings, s.faces # <<>>,
         NEW p \in Orders(Origins(s)), NEW g \in NamedCompounds(s, p),
         NEW ents \in Seq(Seq(E)), DOMAIN ents = DOMAIN g,
         \A j \in DOMAIN g : Written(ents[j], g[j], settings)
  PROVE  Tells(FlattenSeq(ents), E, s, "NAMED_COMPOUNDS", settings)
<1> DEFINE n == Cardinality(Origins(s))
           D == DOMAIN s.faces
           L(q) == Label(s, "NAMED_COMPOUNDS", settings, s.faces[q])
<1>1. /\ n \in Nat /\ DOMAIN p = 1 .. n /\ \A i \in DOMAIN p : p[i] \in Origins(s)
      /\ \A i, j \in DOMAIN p : p[i] = p[j] => i = j
      /\ \A q \in D : \E i \in DOMAIN p : p[i] = s.faces[q].origin
  BY OriginsAreOrdered
<1>2. /\ DOMAIN g = 1 .. n
      /\ \A j \in 1 .. n : g[j].name = NameOfOrigin(s, p[j]) /\ g[j].faces = FacesOf(s, p[j])
  <2>1. g = [i \in DOMAIN p |-> [name |-> NameOfOrigin(s, p[i]), faces |-> FacesOf(s, p[i]), wires |-> 0]]
    BY DEF NamedCompounds
  <2>2. \A i \in DOMAIN p : /\ g[i].name = NameOfOrigin(s, p[i])
                            /\ g[i].faces = FacesOf(s, p[i])
    BY <2>1
  <2>3. DOMAIN g = DOMAIN p
    BY <2>1
  <2>4. DOMAIN p = 1 .. n
    BY <1>1
  <2> HIDE DEF n
  <2> QED
    BY <2>2, <2>3, <2>4, Zenon
<1>3. NbGroups(s, "NAMED_COMPOUNDS") = n
  BY DEF NbGroups
<1>4. IsFiniteSet(D)
  BY ShapeFaces, FS_Interval
<1> HIDE DEF n, D, L
<1>5. Len(ents) = n
  BY <1>1, <1>2
<1>6. ASSUME NEW j \in 1 .. n PROVE g[j].faces # <<>>
  <2> DEFINE F == FacesOf(s, p[j])
             P == ToSet(s.faces)
             A == {q \in D : s.faces[q].origin = p[j] /\ s.faces[q] \in P}
  <2>1. Cardinality({k \in DOMAIN F : F[k] \in P}) = Cardinality(A)
    <3>1. Picks(F, s, p[j], P)
      BY FacesOfAnOrigin
    <3> QED
      BY <3>1 DEF Picks, D
  <2>2. A # {} /\ IsFiniteSet(A)
    <3>1. p[j] \in Origins(s)
      BY <1>1
    <3>2. PICK f \in ToSet(s.faces) : f.origin = p[j]
      BY <3>1 DEF Origins
    <3>3. PICK q \in D : s.faces[q] = f
      BY <3>2 DEF ToSet, D
    <3>4. A \in SUBSET D
      OBVIOUS
    <3> QED
      BY <1>4, <3>2, <3>3, <3>4, FS_Subset
  <2> HIDE DEF A
  <2>3. Cardinality(A) # 0
    BY <2>2, FS_EmptySet
  <2>4. F = <<>> => {k \in DOMAIN F : F[k] \in P} = {}
    OBVIOUS
  <2> HIDE DEF F, P
  <2>5. F # <<>>
    BY <2>1, <2>3, <2>4, FS_EmptySet
  <2> QED
    BY <1>2, <2>5 DEF F
<1>7. AllLabelled(FlattenSeq(ents), E, g, n, settings)
  <2>1. EachWritten(ents, E, g, n, settings)
    BY <1>2, <1>5, <1>6 DEF EachWritten
  <2>2. n \in Nat
    BY <1>1
  <2> QED
    BY <2>1, <2>2, EntitiesOfGroups
<1>8. ASSUME NEW x
      PROVE  Weigh(FlattenSeq(ents), Occurrences(E, x)) = Count(Labels(s, "NAMED_COMPOUNDS", settings), x)
  <2> DEFINE A == [j \in 1 .. n |-> {q \in D : s.faces[q].origin = p[j] /\ L(q) = x}]
             C(j) == Named(g[j], settings, x)
  <2>1. \A j \in 1 .. n : Cardinality(C(j)) = Cardinality(A[j])
    <3> SUFFICES ASSUME NEW j \in 1 .. n
                 PROVE  Cardinality(C(j)) = Cardinality(A[j])
      OBVIOUS
    <3> DEFINE F == FacesOf(s, p[j])
               P == {f \in ToSet(s.faces) : FaceOf(g[j], f, settings) = x}
    <3>1. /\ F \in Seq(ToSet(s.faces))
          /\ Cardinality({k \in DOMAIN F : F[k] \in P})
               = Cardinality({q \in D : s.faces[q].origin = p[j] /\ s.faces[q] \in P})
      <4> HIDE DEF P
      <4>1. Picks(F, s, p[j], P)
        BY FacesOfAnOrigin
      <4> QED
        BY <4>1 DEF Picks, D
    <3>2. \A k \in DOMAIN F : F[k] \in ToSet(s.faces)
      <4> DEFINE T == ToSet(s.faces)
      <4> HIDE DEF F, T
      <4>1. F \in Seq(T)
        BY <3>1 DEF T
      <4>2. \A k \in DOMAIN F : F[k] \in T
        BY <4>1
      <4> QED
        BY <4>2 DEF T
    <3>3. {k \in DOMAIN F : F[k] \in P} = C(j)
      <4>1. g[j].faces = F
        BY <1>2
      <4> HIDE DEF F
      <4> QED
        BY <3>2, <4>1 DEF Named
    <3>4. ASSUME NEW q \in D, s.faces[q].origin = p[j]
          PROVE  L(q) = FaceOf(g[j], s.faces[q], settings)
      <4> DEFINE f == s.faces[q]
                 alone == IsAlone(s, f, "NAMED_COMPOUNDS")
      <4>0. f \in ToSet(s.faces)
        BY DEF ToSet, D
      <4>1. FaceOf(g[j], f, settings) = LabelBy(g[j].name, Len(g[j].faces) = 1, f, settings)
        BY LabelOfGroup
      <4>2. L(q) = LabelBy(NameOfOrigin(s, f.origin), alone, f, settings)
        BY DEF Label, L
      <4>3. (Len(g[j].faces) = 1) = alone
        <5>1. g[j].faces = FacesOf(s, f.origin)
          BY <1>2, <3>4
        <5>2. alone \in BOOLEAN
          BY DEF IsAlone
        <5> QED
          BY <4>0, <5>1, <5>2, OriginsAlone
      <4>4. g[j].name = NameOfOrigin(s, f.origin)
        BY <1>2, <3>4
      <4> HIDE DEF f, alone
      <4> QED
        BY <4>1, <4>2, <4>3, <4>4 DEF f
    <3>5. \A q \in D : s.faces[q] \in ToSet(s.faces)
      BY DEF D, ToSet
    <3>6. {q \in D : s.faces[q].origin = p[j] /\ s.faces[q] \in P} = A[j]
      BY <3>4, <3>5
    <3> HIDE DEF F, P, C, A
    <3> QED
      BY <3>1, <3>3, <3>6
  <2>2. \A j \in 1 .. n : IsFiniteSet(A[j])
    <3> SUFFICES ASSUME NEW j \in 1 .. n PROVE IsFiniteSet(A[j])
      OBVIOUS
    <3>1. A[j] \in SUBSET D
      OBVIOUS
    <3> HIDE DEF A
    <3> QED
      BY <1>4, <3>1, FS_Subset
  <2>3. \A i, j \in 1 .. n : i # j => A[i] \cap A[j] = {}
    BY <1>1
  <2>4. UNION {A[j] : j \in 1 .. n} = {q \in D : L(q) = x}
    <3>1. \A q \in D : L(q) = x => \E j \in 1 .. n : q \in A[j]
      BY <1>1
    <3>2. \A j \in 1 .. n : \A q \in A[j] : q \in D /\ L(q) = x
      OBVIOUS
    <3> HIDE DEF A
    <3> QED
      BY <3>1, <3>2
  <2>5. {q \in D : L(q) = x} = {q \in DOMAIN Labels(s, "NAMED_COMPOUNDS", settings) :
                                  Labels(s, "NAMED_COMPOUNDS", settings)[q] = x}
    BY DEF Labels, D, L
  <2> HIDE DEF A, C
  <2>6. Total([j \in 1 .. n |-> Cardinality(A[j])]) = Cardinality(UNION {A[j] : j \in 1 .. n})
    <3>1. n \in Nat
      BY <1>1
    <3> QED
      BY <2>2, <2>3, <3>1, TotalOfDisjoint, Zenon
  <2>7. [j \in 1 .. n |-> Cardinality(C(j))] = [j \in 1 .. n |-> Cardinality(A[j])]
    BY <2>1
  <2>8. Total([j \in 1 .. n |-> Cardinality(C(j))]) = Count(Labels(s, "NAMED_COMPOUNDS", settings), x)
    BY <2>4, <2>5, <2>6, <2>7 DEF Count
  <2> QED
    BY <1>7, <2>8 DEF C, AllLabelled
<1> QED
  BY <1>3, <1>7, <1>8 DEF Tells, AllLabelled
\* Groups are shapes again.
LEMMA GroupsAreShapes ==
  ASSUME NEW s, IsShape(s), NEW mode \in ShapeGroupMode, NEW g \in Groups(s, mode)
  PROVE  \E n \in Nat : DOMAIN g = 1 .. n /\ \A j \in 1 .. n : IsShape(g[j])
<1>1. CASE mode = "WHOLE_SHAPE" \/ s.faces = <<>>
  <2>1. g = <<s>>
    BY <1>1 DEF Groups
  <2>2. DOMAIN g = 1 .. 1 /\ g[1] = s
    BY <2>1
  <2> QED
    BY <2>2
<1>2. CASE mode = "NAMED_COMPOUNDS" /\ s.faces # <<>>
  <2>1. PICK p \in Orders(Origins(s)) : g \in NamedCompounds(s, p)
    BY <1>2 DEF Groups
  <2>2. g = [i \in DOMAIN p |-> [name |-> NameOfOrigin(s, p[i]), faces |-> FacesOf(s, p[i]), wires |-> 0]]
    BY <2>1 DEF NamedCompounds
  <2>3. Cardinality(Origins(s)) \in Nat /\ DOMAIN p = 1 .. Cardinality(Origins(s))
    BY OriginsAreOrdered
  <2>4. ASSUME NEW j \in DOMAIN p PROVE IsShape(g[j])
    <3>1. g[j].faces = FacesOf(s, p[j]) /\ g[j].wires = 0
      BY <2>2
    <3> DEFINE T == ToSet(s.faces)
    <3>2. g[j].faces \in Seq(T)
      <4>1. Picks(FacesOf(s, p[j]), s, p[j], {})
        BY FacesOfAnOrigin
      <4> QED
        BY <3>1, <4>1 DEF Picks
    <3> HIDE DEF T
    <3>3. g[j].faces \in Seq(ToSet(g[j].faces))
      BY <3>2, SequenceOfItsOwn
    <3> QED
      BY <3>1, <3>3 DEF IsShape
  <2>5. DOMAIN g = DOMAIN p
    BY <2>2
  <2> QED
    BY <2>3, <2>4, <2>5
<1>3. CASE mode = "FACES" /\ s.faces # <<>>
  <2>1. g = [i \in DOMAIN s.faces |-> [name |-> NameOfOrigin(s, s.faces[i].origin),
                                       faces |-> <<s.faces[i]>>, wires |-> 0]]
    BY <1>3 DEF Groups
  <2>2. Len(s.faces) \in Nat /\ DOMAIN g = 1 .. Len(s.faces)
    BY <2>1, ShapeFaces
  <2>3. ASSUME NEW j \in DOMAIN g PROVE IsShape(g[j])
    <3>1. PICK f : f = s.faces[j]
      OBVIOUS
    <3>2. g[j].faces = <<f>> /\ g[j].wires = 0
      BY <2>1, <3>1
    <3>3. <<f>> \in Seq({f})
      OBVIOUS
    <3>4. g[j].faces \in Seq(ToSet(g[j].faces))
      BY <3>2, <3>3, SequenceOfItsOwn
    <3> QED
      BY <3>2, <3>4 DEF IsShape
  <2> QED
    BY <2>2, <2>3
<1> QED
  BY <1>1, <1>2, <1>3 DEF ShapeGroupMode

LEMMA GroupsTell ==
  ASSUME NEW E, HaveFaces(E), NEW s, IsShape(s), NEW mode \in ShapeGroupMode, NEW settings,
         NEW g \in Groups(s, mode), NEW ents \in Seq(Seq(E)), DOMAIN ents = DOMAIN g,
         \A j \in DOMAIN g : Written(ents[j], g[j], settings)
  PROVE  Tells(FlattenSeq(ents), E, s, mode, settings)
<1>1. CASE mode = "WHOLE_SHAPE" \/ s.faces = <<>>
  <2>1. g = <<s>>
    BY <1>1 DEF Groups
  <2>2. DOMAIN g = {1} /\ g[1] = s
    BY <2>1
  <2>3. DOMAIN ents = {1} /\ Written(ents[1], s, settings)
    BY <2>2
  <2>4. ents = <<ents[1]>> /\ ents[1] \in Seq(E)
    BY <2>3
  <2> QED
    BY <1>1, <2>3, <2>4, WholeShapeTells
<1>2. CASE mode = "NAMED_COMPOUNDS" /\ s.faces # <<>>
  <2>1. PICK p \in Orders(Origins(s)) : g \in NamedCompounds(s, p)
    BY <1>2 DEF Groups
  <2> QED
    BY <1>2, <2>1, OriginsTell
<1>3. CASE mode = "FACES" /\ s.faces # <<>>
  <2>1. g = [i \in DOMAIN s.faces |-> [name |-> NameOfOrigin(s, s.faces[i].origin),
                                       faces |-> <<s.faces[i]>>, wires |-> 0]]
    BY <1>3 DEF Groups
  <2> QED
    BY <1>3, <2>1, FacesTell
<1> QED
  BY <1>1, <1>2, <1>3 DEF ShapeGroupMode

-----------------------------------------------------------------------------
(***************************************************************************)
(* Files.  The entities of all groups of all shapes, one behind the other. *)
(***************************************************************************)
Entities(e, group, settings) ==
  e \in Seq(ToSet(e)) /\ HaveFaces(ToSet(e)) /\ Written(e, group, settings)

AllEntities(ents, shapes, c, n, mode, settings) ==
  /\ DOMAIN ents = 1 .. n
  /\ \A i \in 1 .. n :
       /\ IsShape(shapes[i]) /\ c[i] \in Groups(shapes[i], mode)
       /\ ents[i] = [j \in DOMAIN c[i] |-> ents[i][j]]
       /\ \A j \in DOMAIN c[i] : Entities(ents[i][j], c[i][j], settings)

\* The groups in a file are as many as those of its shapes, and so are the labels.
FileTells(groups, shapes, n, mode, settings) ==
  /\ Len(groups) = Total([i \in 1 .. n |-> NbGroups(shapes[i], mode)])
  /\ \A x : Total([k \in DOMAIN groups |-> Count(groups[k].faces, x)])
              = Total([i \in 1 .. n |-> Count(Labels(shapes[i], mode, settings), x)])

IsFileOfGroups(groups) == groups \in Seq(ToSet(groups)) /\ HaveFaces(ToSet(groups))

\* The groups of a shape are behind those of the shapes before it.
InPlace(groups, shapes, n, mode, es) ==
  \A i \in 1 .. n : \A j \in 1 .. NbGroups(shapes[i], mode) :
    j \in DOMAIN es[i] /\ groups[Total([k \in 1 .. i - 1 |-> NbGroups(shapes[k], mode)]) + j] = es[i][j]

\* All entities there are.
Every(ents) == UNION {UNION {ToSet(ents[i][j]) : j \in DOMAIN ents[i]} : i \in DOMAIN ents}

LEMMA EntitiesAreThere ==
  ASSUME NEW n \in Nat, NEW ents, NEW shapes, NEW c, NEW mode \in ShapeGroupMode, NEW settings,
         AllEntities(ents, shapes, c, n, mode, settings)
  PROVE  HaveFaces(Every(ents)) /\ \A i \in 1 .. n : ents[i] \in Seq(Seq(Every(ents)))
<1>1. \A i \in 1 .. n : \A j \in DOMAIN ents[i] : ToSet(ents[i][j]) \subseteq Every(ents)
  BY DEF Every, AllEntities
<1>2. ASSUME NEW e \in Every(ents) PROVE e.faces \in Seq(ToSet(e.faces))
  <2>1. PICK i \in 1 .. n : \E j \in DOMAIN ents[i] : e \in ToSet(ents[i][j])
    BY DEF Every, AllEntities
  <2>2. PICK j \in DOMAIN ents[i] : e \in ToSet(ents[i][j])
    BY <2>1
  <2>3. HaveFaces(ToSet(ents[i][j]))
    BY DEF AllEntities, Entities
  <2> QED
    BY <2>2, <2>3 DEF HaveFaces
<1>3. ASSUME NEW i \in 1 .. n PROVE ents[i] \in Seq(Seq(Every(ents)))
  <2> DEFINE E == Every(ents)
  <2>1. PICK m \in Nat : DOMAIN c[i] = 1 .. m
    BY GroupsAreShapes DEF AllEntities
  <2>2. DOMAIN ents[i] = 1 .. m
    BY <2>1 DEF AllEntities
  <2>3. ASSUME NEW j \in 1 .. m PROVE ents[i][j] \in Seq(E)
    <3>1. ents[i][j] \in Seq(ToSet(ents[i][j]))
      BY <2>1, <2>2 DEF AllEntities, Entities
    <3>2. ToSet(ents[i][j]) \subseteq E
      BY <1>1, <2>2
    <3> HIDE DEF E
    <3> QED
      BY <3>1, <3>2, SeqMonotonic
  <2> HIDE DEF E
  <2>4. ents[i] = [j \in 1 .. m |-> ents[i][j]]
    BY <2>1, Zenon DEF AllEntities
  <2> QED
    BY <2>3, <2>4 DEF E
<1> QED
  BY <1>2, <1>3 DEF HaveFaces
LEMMA FileOfGroups ==
  ASSUME NEW n \in Nat, NEW ents, NEW shapes, NEW c, NEW mode \in ShapeGroupMode, NEW settings,
         AllEntities(ents, shapes, c, n, mode, settings),
         NEW es, es = [i \in 1 .. n |-> FlattenSeq(ents[i])]
  PROVE  /\ IsFileOfGroups(FlattenSeq(es))
         /\ FileTells(FlattenSeq(es), shapes, n, mode, settings)
         /\ InPlace(FlattenSeq(es), shapes, n, mode, es)
<1> DEFINE E == Every(ents)
           groups == FlattenSeq(es)
<1>1. HaveFaces(E) /\ \A i \in 1 .. n : ents[i] \in Seq(Seq(E))
  BY EntitiesAreThere
<1> HIDE DEF E
<1>2. ASSUME NEW i \in 1 .. n PROVE Tells(es[i], E, shapes[i], mode, settings)
  <2>1. /\ IsShape(shapes[i]) /\ c[i] \in Groups(shapes[i], mode) /\ DOMAIN ents[i] = DOMAIN c[i]
        /\ \A j \in DOMAIN c[i] : Written(ents[i][j], c[i][j], settings)
    BY DEF AllEntities, Entities
  <2>2. Tells(FlattenSeq(ents[i]), E, shapes[i], mode, settings)
    BY <1>1, <2>1, GroupsTell
  <2> QED
    BY <2>2
<1>3. es \in Seq(Seq(E)) /\ Len(es) = n /\ DOMAIN es = 1 .. n
  <2>1. \A i \in 1 .. n : es[i] \in Seq(E)
    BY <1>2 DEF Tells
  <2>2. es = [i \in 1 .. n |-> es[i]]
    OBVIOUS
  <2> QED
    BY <2>1, <2>2
<1>4. \A i \in 1 .. n : es[i] \in Seq(E) /\ Len(es[i]) = NbGroups(shapes[i], mode)
  BY <1>2 DEF Tells
<1>5. groups \in Seq(E)
  BY <1>3, FlattenIsSequence
<1>6. Placed(groups, es)
  BY <1>3, FlattenPlaces
<1>7. ASSUME NEW x
      PROVE  Total([k \in DOMAIN groups |-> Count(groups[k].faces, x)])
               = Total([i \in 1 .. n |-> Count(Labels(shapes[i], mode, settings), x)])
  <2> DEFINE m == Occurrences(E, x)
  <2>1. m \in [E -> Nat] /\ \A e \in E : m[e] = Count(e.faces, x)
    BY <1>1, OccurrencesAreNumbers
  <2> HIDE DEF m, groups
  <2>2. [k \in DOMAIN groups |-> m[groups[k]]] = [k \in DOMAIN groups |-> Count(groups[k].faces, x)]
    BY <1>5, <2>1
  <2>3. Weigh(groups, m) = Total([i \in DOMAIN es |-> Weigh(es[i], m)])
    <3>1. WeighsAll(FlattenSeq(es), es, m)
      BY <1>3, <2>1, FlattenWeighs
    <3> QED
      BY <3>1 DEF WeighsAll, groups
  <2>4. ASSUME NEW i \in 1 .. n PROVE Weigh(es[i], m) = Count(Labels(shapes[i], mode, settings), x)
    <3>1. Tells(es[i], E, shapes[i], mode, settings)
      BY <1>2, Zenon
    <3> QED
      BY <3>1, Zenon DEF Tells, m
  <2>5. [i \in DOMAIN es |-> Weigh(es[i], m)] = [i \in 1 .. n |-> Count(Labels(shapes[i], mode, settings), x)]
    BY <1>3, <2>4
  <2> QED
    BY <2>2, <2>3, <2>5 DEF Weigh
<1>8. FileTells(groups, shapes, n, mode, settings)
  <2>1. [i \in DOMAIN es |-> Len(es[i])] = [i \in 1 .. n |-> NbGroups(shapes[i], mode)]
    BY <1>3, <1>4
  <2> HIDE DEF groups
  <2> QED
    BY <1>6, <1>7, <2>1 DEF FileTells, Placed
<1>9. InPlace(groups, shapes, n, mode, es)
  <2> SUFFICES ASSUME NEW i \in 1 .. n, NEW j \in 1 .. NbGroups(shapes[i], mode)
               PROVE  /\ j \in DOMAIN es[i]
                      /\ groups[Total([k \in 1 .. i - 1 |-> NbGroups(shapes[k], mode)]) + j] = es[i][j]
    BY DEF InPlace
  <2>1. es[i] \in Seq(E) /\ Len(es[i]) = NbGroups(shapes[i], mode)
    BY <1>4
  <2>2. j \in DOMAIN es[i]
    BY <2>1
  <2>3. [k \in 1 .. i - 1 |-> Len(es[k])] = [k \in 1 .. i - 1 |-> NbGroups(shapes[k], mode)]
    BY <1>4
  <2> HIDE DEF groups
  <2>4. groups[Before(es, i) + j] = es[i][j]
    BY <1>3, <1>6, <2>2, Zenon DEF Placed
  <2>5. Before(es, i) = Total([k \in 1 .. i - 1 |-> NbGroups(shapes[k], mode)])
    BY <2>3 DEF Before
  <2> QED
    BY <2>2, <2>4, <2>5
<1>10. IsFileOfGroups(groups)
  <2> HIDE DEF groups
  <2>1. groups \in Seq(ToSet(groups))
    BY <1>5, SequenceOfItsOwn
  <2>2. ToSet(groups) \subseteq E
    BY <1>5 DEF ToSet
  <2> QED
    BY <1>1, <2>1, <2>2 DEF IsFileOfGroups, HaveFaces
<1> QED
  BY <1>8, <1>9, <1>10

-----------------------------------------------------------------------------
\* What AddToStep and AddToIges make of a group.
LEMMA WiresAreWritten ==
  ASSUME NEW group, IsShape(group), group.faces = <<>>, NEW settings, NEW entity, entity.faces = <<>>
  PROVE  /\ Entities(PerWire(group, entity), group, settings)
         /\ \A k \in DOMAIN PerWire(group, entity) : PerWire(group, entity)[k] = entity
<1> DEFINE e == PerWire(group, entity)
<1>1. group.wires \in Nat
  BY DEF IsShape
<1>2. e \in Seq({entity}) /\ Len(e) = group.wires /\ \A k \in DOMAIN e : e[k] = entity
  BY <1>1 DEF PerWire
<1> HIDE DEF e
<1>3. e \in Seq(ToSet(e))
  BY <1>2, SequenceOfItsOwn
<1>4. \A x \in ToSet(e) : x.faces = <<>>
  BY <1>2 DEF ToSet
<1>5. <<>> \in Seq(ToSet(<<>>))
  OBVIOUS
<1>6. HaveFaces(ToSet(e))
  BY <1>4, <1>5 DEF HaveFaces
<1>7. Written(e, group, settings)
  BY <1>2 DEF Written
<1> QED
  BY <1>2, <1>3, <1>6, <1>7 DEF Entities, e

LEMMA FacesAreWritten ==
  ASSUME NEW group, IsShape(group), group.faces # <<>>, NEW settings, NEW entity,
         entity.faces = [i \in DOMAIN group.faces |-> FaceOf(group, group.faces[i], settings)]
  PROVE  Entities(<<entity>>, group, settings)
<1>1. /\ <<entity>> \in Seq({entity}) /\ Len(<<entity>>) = 1 /\ <<entity>>[1] = entity
      /\ ToSet(<<entity>>) = {entity}
  BY DEF ToSet
<1>2. entity.faces \in Seq(ToSet(entity.faces))
  <2> DEFINE l == [i \in DOMAIN group.faces |-> FaceOf(group, group.faces[i], settings)]
             T == {l[i] : i \in DOMAIN l}
  <2>1. DOMAIN group.faces = 1 .. Len(group.faces) /\ Len(group.faces) \in Nat
    BY ShapeFaces
  <2>2. \A i \in 1 .. Len(group.faces) : l[i] \in T
    BY <2>1
  <2>3. l = [i \in 1 .. Len(group.faces) |-> l[i]]
    BY <2>1
  <2> HIDE DEF l, T
  <2>4. [i \in 1 .. Len(group.faces) |-> l[i]] \in Seq(T)
    BY <2>1, <2>2
  <2>5. l \in Seq(T)
    BY <2>3, <2>4, Zenon
  <2>6. l \in Seq(ToSet(l))
    BY <2>5, SequenceOfItsOwn
  <2> QED
    BY <2>6 DEF l
<1>3. Written(<<entity>>, group, settings)
  BY <1>1 DEF Written
<1>4. <<entity>> \in Seq(ToSet(<<entity>>))
  BY <1>1
<1> QED
  BY <1>1, <1>2, <1>3, <1>4 DEF Entities, HaveFaces

LEMMA StepEntitiesOfGroup ==
  ASSUME NEW group, IsShape(group)
  PROVE  Entities(StepEntities(group), group, "STEP")
<1>1. CASE group.faces = <<>>
  <2>1. PICK entity : entity = [name |-> group.name, faces |-> <<>>]
    OBVIOUS
  <2>2. StepEntities(group) = PerWire(group, entity) /\ entity.faces = <<>>
    BY <1>1, <2>1 DEF StepEntities
  <2> QED
    BY <1>1, <2>2, WiresAreWritten
<1>2. CASE group.faces # <<>>
  <2>1. PICK entity : entity = [name |-> group.name, faces |-> [i \in DOMAIN group.faces |-> StepFace(group.faces[i])]]
    OBVIOUS
  <2>2. StepEntities(group) = <<entity>>
    BY <1>2, <2>1, Zenon DEF StepEntities
  <2>3. \A i \in DOMAIN group.faces :
          StepFace(group.faces[i]) = FaceOf(group, group.faces[i], "STEP")
    BY DEF FaceOf
  <2>4. entity.faces = [i \in DOMAIN group.faces |-> StepFace(group.faces[i])]
    BY <2>1
  <2>5. entity.faces = [i \in DOMAIN group.faces |-> FaceOf(group, group.faces[i], "STEP")]
    BY <2>3, <2>4
  <2> QED
    BY <1>2, <2>2, <2>5, FacesAreWritten
<1> QED
  BY <1>1, <1>2

LEMMA IgesEntitiesOfGroup ==
  ASSUME NEW group, IsShape(group), NEW level, NEW settings \in FaceNameSettings
  PROVE  /\ Entities(IgesEntities(group, level, settings), group, settings)
         /\ \A e \in ToSet(IgesEntities(group, level, settings)) : e.level = level
<1>1. CASE group.faces = <<>>
  <2>1. PICK entity : entity = [name |-> group.name, level |-> level, faces |-> <<>>]
    OBVIOUS
  <2>2. /\ IgesEntities(group, level, settings) = PerWire(group, entity)
        /\ entity.faces = <<>> /\ entity.level = level
    BY <1>1, <2>1 DEF IgesEntities
  <2>3. /\ Entities(PerWire(group, entity), group, settings)
        /\ \A k \in DOMAIN PerWire(group, entity) : PerWire(group, entity)[k] = entity
    BY <1>1, <2>2, WiresAreWritten
  <2> QED
    BY <2>2, <2>3 DEF ToSet
<1>2. CASE group.faces # <<>>
  <2>1. PICK entity : entity =
          [name |-> group.name, level |-> level,
           faces |-> [i \in DOMAIN group.faces |-> IgesFace(group, group.faces[i], settings)]]
    OBVIOUS
  <2>2. IgesEntities(group, level, settings) = <<entity>>
    BY <1>2, <2>1, Zenon DEF IgesEntities
  <2>6. \A i \in DOMAIN group.faces :
          IgesFace(group, group.faces[i], settings) = FaceOf(group, group.faces[i], settings)
    BY DEF FaceOf, FaceNameSettings
  <2>3. /\ entity.faces = [i \in DOMAIN group.faces |-> FaceOf(group, group.faces[i], settings)]
        /\ entity.level = level
    BY <2>1, <2>6
  <2>4. ToSet(<<entity>>) = {entity}
    BY DEF ToSet
  <2>5. Entities(<<entity>>, group, settings)
    BY <1>2, <2>3, FacesAreWritten
  <2> QED
    BY <2>2, <2>3, <2>4, <2>5
<1> QED
  BY <1>1, <1>2

LEMMA GroupsAreCounted ==
  ASSUME NEW s, IsShape(s), NEW mode \in ShapeGroupMode PROVE NbGroups(s, mode) \in Nat
<1>1. s.wires \in Nat /\ Len(s.faces) \in Nat
  BY ShapeFaces
<1>2. Cardinality(Origins(s)) \in Nat
  <2>1. IsFiniteSet(Origins(s))
    BY OriginsAreFinite
  <2> QED
    BY <2>1, FS_CardinalityType
<1> QED
  BY <1>1, <1>2 DEF NbGroups, ShapeGroupMode

-----------------------------------------------------------------------------
(***************************************************************************)
(* The invariant.  An exporter works with the options it was asked for,    *)
(* now or when it first needs them; and a file is what the exporter made   *)
(* of its shapes, whatever becomes of the exporter afterwards.             *)
(***************************************************************************)
RegistryOK ==
  /\ configs \in Seq(ToSet(configs)) /\ \A i \in DOMAIN configs : IsOptions(configs[i])
  /\ DOMAIN builders = DOMAIN indexOf
  /\ \A t \in DOMAIN indexOf : indexOf[t] \in DOMAIN configs /\ builders[t] \in Classes

\* The options an exporter has are those it was asked for, or default ones that will be.
IsExporter(e) ==
  /\ e = [class |-> e.class, options |-> e.options, shapes |-> e.shapes, asked |-> e.asked]
  /\ e.class \in Classes /\ IsOptions(e.asked)
  /\ e.asked = IF e.options.default THEN DefaultOptions(e.class) ELSE e.options
  /\ e.shapes \in Seq(ToSet(e.shapes))
  /\ \A s \in ToSet(e.shapes) : IsShape(s.shape) /\ IsShapeOption(s.options)

ExporterOK == exporter = NoExporter \/ IsExporter(exporter)

ShapesOf(e) == [i \in DOMAIN e.shapes |-> e.shapes[i].shape]

Settings(class, options) == IF class = "step" THEN "STEP" ELSE FaceNames(options)

\* The groups of a shape are on its level.
OnLevels(groups, shapes, n, mode, levels) ==
  \A i \in 1 .. n : \A j \in 1 .. NbGroups(shapes[i], mode) :
    groups[Total([k \in 1 .. i - 1 |-> NbGroups(shapes[k], mode)]) + j].level = levels[i]

WrittenBy(f, e) ==
  /\ IsExporter(e) /\ IsFileOfGroups(f.groups)
  /\ FileTells(f.groups, ShapesOf(e), Len(e.shapes), e.asked.mode, Settings(f.class, e.asked))
  /\ f.class = "iges" => OnLevels(f.groups, ShapesOf(e), Len(e.shapes), e.asked.mode, Levels(e.shapes))

FileOK == file.class \in {"step", "iges"} => WrittenBy(file, file.by)

ImportedOK == \A s \in ToSet(imported.shapes) : IsShape(s)

ExchangeInv == RegistryOK /\ ExporterOK /\ FileOK /\ ImportedOK

-----------------------------------------------------------------------------
\* The invariant is what is asked of files.
LEMMA ShapesOfExporter ==
  ASSUME NEW e, IsExporter(e)
  PROVE  /\ Len(e.shapes) \in Nat /\ DOMAIN e.shapes = 1 .. Len(e.shapes)
         /\ \A i \in 1 .. Len(e.shapes) : /\ IsShape(e.shapes[i].shape) /\ IsShapeOption(e.shapes[i].options)
                                          /\ ShapesOf(e)[i] = e.shapes[i].shape
<1> DEFINE T == ToSet(e.shapes)
<1>1. e.shapes \in Seq(T) /\ \A s \in T : IsShape(s.shape) /\ IsShapeOption(s.options)
  BY DEF IsExporter
<1> HIDE DEF T
<1>2. /\ Len(e.shapes) \in Nat /\ DOMAIN e.shapes = 1 .. Len(e.shapes)
      /\ \A i \in 1 .. Len(e.shapes) : e.shapes[i] \in T
  BY <1>1
<1> QED
  BY <1>1, <1>2 DEF ShapesOf

LEMMA FacesAreLabels ==
  ASSUME NEW s, NEW face, NEW asked, IsOptions(asked)
  PROVE  FaceAskedFor(s, face, asked) = Label(s, asked.mode, Settings(file.class, asked), face)
<1>1. FaceNames(asked) \in FaceNameSettings
  BY DEF IsOptions, FaceNames, FaceNameSettings
<1> DEFINE g == IF asked.mode = "WHOLE_SHAPE" THEN s.name ELSE NameOfOrigin(s, face.origin)
           long == CASE FaceNames(asked) = "FaceNameOnly" -> face.name
                     [] FaceNames(asked) = "UIDOnly" -> g
                     [] FaceNames(asked) = "UIDandFaceName" -> g \o face.name
                     [] FaceNames(asked) = "None" -> <<>>
           alone == IsAlone(s, face, asked.mode)
<1>2. CASE file.class = "step"
  BY <1>2 DEF FaceAskedFor, Label, LabelBy, Settings
<1>3. CASE file.class # "step"
  <2>1. Settings(file.class, asked) = FaceNames(asked) /\ FaceNames(asked) # "STEP"
    BY <1>1, <1>3 DEF Settings, FaceNameSettings
  <2>2. long = ExportedLongFaceName([name |-> g], face, FaceNames(asked))
    <3> HIDE DEF g
    <3>1. [name |-> g].name = g
      OBVIOUS
    <3> QED
      BY <1>1, <3>1 DEF ExportedLongFaceName, FaceNameSettings
  <2>3. FaceAskedFor(s, face, asked) =
          IF alone THEN [label |-> g, names |-> LongName(long) \o LongName(g)]
          ELSE [label |-> face.name, names |-> LongName(long)]
    BY <1>3, Zenon DEF FaceAskedFor
  <2>4. Label(s, asked.mode, FaceNames(asked), face) = LabelBy(g, alone, face, FaceNames(asked))
    BY DEF Label
  <2> HIDE DEF g, long, alone
  <2> QED
    BY <2>1, <2>2, <2>3, <2>4 DEF LabelBy
<1> QED
  BY <1>2, <1>3

LEMMA FilesFollowTheMode == FileOK => GroupsFollowTheMode
<1> SUFFICES ASSUME FileOK, file.class \in {"step", "iges"} PROVE GroupsFollowTheMode
  BY DEF GroupsFollowTheMode
<1> DEFINE e == file.by
           n == Len(e.shapes)
           asked == e.asked
           shapes == [i \in DOMAIN file.by.shapes |-> file.by.shapes[i].shape]
           faces(i) == [j \in DOMAIN shapes[i].faces |-> FaceAskedFor(shapes[i], shapes[i].faces[j], asked)]
           settings == Settings(file.class, asked)
<1>1. WrittenBy(file, e)
  BY DEF FileOK
<1>2. IsExporter(e) /\ IsOptions(asked)
  BY <1>1 DEF WrittenBy, IsExporter
<1>3. n \in Nat /\ DOMAIN e.shapes = 1 .. n
  BY <1>2, ShapesOfExporter
<1>4. shapes = ShapesOf(e) /\ DOMAIN shapes = 1 .. n
  BY <1>3 DEF ShapesOf
<1>5. FileTells(file.groups, shapes, n, asked.mode, settings)
  BY <1>1, <1>4 DEF WrittenBy
<1> HIDE DEF n, settings, shapes, asked
<1>6. ASSUME NEW i \in 1 .. n PROVE faces(i) = Labels(shapes[i], asked.mode, settings)
  BY <1>2, FacesAreLabels DEF Labels, settings
<1>7. ASSUME NEW x
      PROVE  Total([i \in DOMAIN shapes |-> Count(faces(i), x)])
               = Total([k \in DOMAIN file.groups |-> Count(file.groups[k].faces, x)])
  <2>1. [i \in DOMAIN shapes |-> Count(faces(i), x)]
          = [i \in 1 .. n |-> Count(Labels(shapes[i], asked.mode, settings), x)]
    <3> HIDE DEF faces
    <3> QED
      BY <1>4, <1>6
  <2> HIDE DEF faces
  <2> QED
    BY <1>5, <2>1 DEF FileTells
<1>8. Len(file.groups) = Total([i \in DOMAIN shapes |-> NbGroups(shapes[i], asked.mode)])
  BY <1>4, <1>5 DEF FileTells
<1> QED
  BY <1>7, <1>8 DEF GroupsFollowTheMode, shapes, asked

\* Levels are numbers, and without a layer one more than the level before.
LEMMA LevelsClimb ==
  ASSUME NEW e, IsExporter(e), NEW i \in DOMAIN e.shapes
  PROVE  /\ Levels(e.shapes)[i] \in Int
         /\ Levels(e.shapes)[i] = IF HasLayer(e.shapes[i].options) THEN e.shapes[i].options.layer
                                  ELSE IF i = 1 THEN 0 ELSE Levels(e.shapes)[i - 1] + 1
         /\ i > 1 => i - 1 \in DOMAIN e.shapes /\ Levels(e.shapes)[i - 1] \in Int
<1> DEFINE n == Len(e.shapes)
           T == 1 .. n
           layer(k) == e.shapes[k].options.layer
           has(k) == HasLayer(e.shapes[k].options)
           next(g, k) == IF has(k) THEN layer(k) ELSE IF k = 1 THEN 0 ELSE g[k - 1] + 1
           Runs(g) == g = [k \in T |-> next(g, k)]
           rank == [k \in T |-> k]
           F == [g \in [T -> Int] |-> [k \in T |-> next(g, k)]]
           level == CHOOSE g : g = [k \in DOMAIN e.shapes |-> next(g, k)]
<1>1. /\ n \in Nat /\ DOMAIN e.shapes = T
      /\ \A k \in T : has(k) => layer(k) \in Int
  BY ShapesOfExporter DEF IsShapeOption, HasLayer
<1>2. Levels(e.shapes) = level
  BY DEF Levels
<1>3. level = CHOOSE g : Runs(g)
  BY <1>1
<1> HIDE DEF level, layer, has, n
<1>4. rank \in [T -> 0 .. n]
  BY <1>1
<1>5. \A k \in T : k # 1 => k - 1 \in T
  BY <1>1
<1>6. F \in [[T -> Int] -> [T -> Int]]
  <2>1. ASSUME NEW g \in [T -> Int], NEW k \in T PROVE next(g, k) \in Int
    <3>1. k # 1 => g[k - 1] \in Int
      BY <1>5
    <3> QED
      BY <1>1, <3>1
  <2> HIDE DEF next
  <2> QED
    BY <2>1
<1>7. ASSUME NEW k \in T, NEW g \in [T -> Int], NEW h \in [T -> Int],
             \A u \in T : rank[u] < rank[k] => g[u] = h[u]
      PROVE  F[g][k] = F[h][k]
  <2>1. k # 1 => k - 1 \in T /\ rank[k - 1] < rank[k]
    BY <1>1, <1>5
  <2>2. k # 1 => g[k - 1] = h[k - 1]
    BY <1>7, <2>1
  <2>3. next(g, k) = next(h, k)
    BY <2>2
  <2> HIDE DEF next
  <2> QED
    BY <2>3
<1>8. PICK f \in [T -> Int] : F[f] = f
  <2> HIDE DEF T, F, rank
  <2>1. Int # {}
    OBVIOUS
  <2>2. Recursion(F, T, Int, rank, n)
    BY <1>1, <1>4, <1>6, <1>7, <2>1 DEF Recursion
  <2>3. HasSolution(F, T, Int)
    BY <2>2, RecursionRuns
  <2> QED
    BY <2>3 DEF HasSolution
<1>9. Runs(f)
  BY <1>8
<1>10. Runs(level)
  <2> HIDE DEF Runs
  <2> QED
    BY <1>3, <1>9
<1>11. DOMAIN level = T /\ \A k \in T : level[k] = next(level, k)
  <2> HIDE DEF next
  <2> QED
    BY <1>10
<1> DEFINE Known == {k \in 0 .. n : k # 0 => level[k] \in Int}
<1>12. 0 \in Known
  BY <1>1
<1>13. ASSUME NEW k \in 0 .. n - 1, k \in Known PROVE k + 1 \in Known
  <2>1. k + 1 \in T /\ (k + 1) - 1 = k /\ k + 1 \in 0 .. n
    BY <1>1
  <2>2. k + 1 # 1 => level[k] \in Int
    BY <1>13
  <2>3. level[k + 1] = next(level, k + 1)
    BY <1>11, <2>1
  <2>4. level[k + 1] \in Int
    BY <1>1, <2>1, <2>2, <2>3
  <2> QED
    BY <2>1, <2>4
<1>14. 0 .. n \subseteq Known
  <2> HIDE DEF Known
  <2> QED
    BY <1>1, <1>12, <1>13, Climb, Zenon
<1>15. \A k \in T : level[k] \in Int
  BY <1>1, <1>14
<1>16. i \in T /\ (i > 1 => i - 1 \in T)
  BY <1>1
<1>17. level[i] = next(level, i)
  BY <1>11, <1>16
<1> QED
  BY <1>1, <1>2, <1>15, <1>16, <1>17 DEF layer, has

LEMMA FilesFollowTheLayers == FileOK => LevelsFollowTheLayers
<1> SUFFICES ASSUME FileOK, file.class = "iges",
                    NEW i \in DOMAIN file.by.shapes, NEW k \in GroupsOf(file.by.shapes, i)
             PROVE  /\ HasLayer(file.by.shapes[i].options) =>
                         file.groups[k].level = file.by.shapes[i].options.layer
                    /\ ~HasLayer(file.by.shapes[i].options) /\ i > 1 =>
                         \A m \in GroupsOf(file.by.shapes, i - 1) : file.groups[k].level # file.groups[m].level
  BY DEF LevelsFollowTheLayers
<1> DEFINE e == file.by
           n == Len(e.shapes)
           mode == e.asked.mode
           shapes == ShapesOf(e)
           before(p) == Total([q \in 1 .. p - 1 |-> NbGroups(shapes[q], mode)])
           level == Levels(e.shapes)
<1>1. WrittenBy(file, e)
  BY DEF FileOK
<1>2. IsExporter(e) /\ OnLevels(file.groups, shapes, n, mode, level)
  BY <1>1 DEF WrittenBy
<1>3. n \in Nat /\ DOMAIN e.shapes = 1 .. n /\ \A p \in 1 .. n : shapes[p] = e.shapes[p].shape
  BY <1>2, ShapesOfExporter
<1>31. \A p \in 1 .. n : NbGroups(shapes[p], mode) \in Nat
  <2>1. mode \in ShapeGroupMode
    BY <1>2 DEF IsExporter, IsOptions
  <2>2. \A p \in 1 .. n : IsShape(shapes[p])
    BY <1>2, <1>3, ShapesOfExporter
  <2> HIDE DEF n, shapes, mode
  <2> QED
    BY <2>1, <2>2, GroupsAreCounted
<1> HIDE DEF n, shapes, level, mode
<1>4. ASSUME NEW p \in 1 .. n, NEW m \in GroupsOf(e.shapes, p)
      PROVE  file.groups[m].level = level[p]
  <2>1. [q \in 1 .. p - 1 |-> NbGroups(e.shapes[q].shape, mode)] = [q \in 1 .. p - 1 |-> NbGroups(shapes[q], mode)]
    BY <1>3
  <2>2. GroupsOf(e.shapes, p) = before(p) + 1 .. before(p) + NbGroups(shapes[p], mode)
    BY <1>3, <2>1 DEF GroupsOf, mode
  <2>3. \A q \in 1 .. p - 1 : NbGroups(shapes[q], mode) \in Nat
    BY <1>3, <1>31
  <2>4. before(p) \in Nat /\ NbGroups(shapes[p], mode) \in Nat
    <3>1. [q \in 1 .. p - 1 |-> NbGroups(shapes[q], mode)] \in Seq(Nat)
      BY <1>3, <2>3
    <3> QED
      BY <1>31, <3>1, TotalIsNumber
  <2> DEFINE j == m - before(p)
  <2>5. j \in 1 .. NbGroups(shapes[p], mode) /\ before(p) + j = m
    <3> HIDE DEF before
    <3> QED
      BY <2>2, <2>4
  <2> HIDE DEF j
  <2>6. file.groups[before(p) + j].level = level[p]
    BY <1>2, <2>5 DEF OnLevels
  <2> QED
    BY <2>5, <2>6
<1>5. /\ level[i] \in Int
      /\ level[i] = IF HasLayer(e.shapes[i].options) THEN e.shapes[i].options.layer
                    ELSE IF i = 1 THEN 0 ELSE level[i - 1] + 1
      /\ i > 1 => i - 1 \in DOMAIN e.shapes /\ level[i - 1] \in Int
  BY <1>2, LevelsClimb DEF level
<1>6. file.groups[k].level = level[i]
  BY <1>3, <1>4
<1>7. i > 1 => i # 1 /\ \A m \in GroupsOf(e.shapes, i - 1) : file.groups[m].level = level[i - 1]
  BY <1>3, <1>4, <1>5
<1> QED
  BY <1>5, <1>6, <1>7
-----------------------------------------------------------------------------
(***************************************************************************)
(* What is registered.                                                     *)
(***************************************************************************)
LEMMA DefaultsAreOptions ==
  ASSUME NEW class \in Classes PROVE IsOptions(DefaultOptions(class))
BY DEF Classes, DefaultOptions, IsOptions, IgesOptions, ExporterOptions, HasOption, ShapeGroupMode, FaceNameSettings

IsRegistry(reg) ==
  /\ reg.configs \in Seq(ToSet(reg.configs)) /\ \A i \in DOMAIN reg.configs : IsOptions(reg.configs[i])
  /\ DOMAIN reg.builders = DOMAIN reg.indexOf
  /\ \A t \in DOMAIN reg.indexOf : reg.indexOf[t] \in DOMAIN reg.configs /\ reg.builders[t] \in Classes

LEMMA RegisteredAt ==
  ASSUME NEW reg, IsRegistry(reg), NEW types, NEW class \in Classes, NEW options, IsOptions(options)
  PROVE  IsRegistry(RegisterAt(reg, types, class, options))
<1> DEFINE new == RegisterAt(reg, types, class, options)
           n == Len(reg.configs)
           T == ToSet(reg.configs) \cup {options}
           c == Append(reg.configs, options)
<1>1. /\ new.configs = c
      /\ new.indexOf = [t \in DOMAIN reg.indexOf \cup ToSet(types) |-> IF t \in ToSet(types) THEN n + 1 ELSE reg.indexOf[t]]
      /\ new.builders = [t \in DOMAIN reg.builders \cup ToSet(types) |-> IF t \in ToSet(types) THEN class ELSE reg.builders[t]]
  BY DEF RegisterAt
<1>2. reg.configs \in Seq(T) /\ options \in T
  <2>1. ToSet(reg.configs) \subseteq T /\ reg.configs \in Seq(ToSet(reg.configs))
    BY DEF IsRegistry
  <2> QED
    BY <2>1, SeqMonotonic
<1> HIDE DEF T
<1>3. /\ c \in Seq(T) /\ n \in Nat /\ DOMAIN c = 1 .. n + 1 /\ DOMAIN reg.configs = 1 .. n
      /\ c[n + 1] = options /\ \A i \in 1 .. n : c[i] = reg.configs[i]
  BY <1>2
<1>4. c \in Seq(ToSet(c))
  BY <1>3, SequenceOfItsOwn
<1> HIDE DEF new, n, c
<1>5. \A i \in DOMAIN c : IsOptions(c[i])
  <2> SUFFICES ASSUME NEW i \in 1 .. n + 1 PROVE IsOptions(c[i])
    BY <1>3
  <2>1. CASE i = n + 1
    BY <1>3, <2>1
  <2>2. CASE i \in 1 .. n
    BY <1>3, <2>2 DEF IsRegistry
  <2> QED
    BY <1>3, <2>1, <2>2
<1>6. ASSUME NEW t \in DOMAIN new.indexOf
      PROVE  new.indexOf[t] \in DOMAIN c /\ new.builders[t] \in Classes
  <2>1. DOMAIN new.builders = DOMAIN new.indexOf
    BY <1>1 DEF IsRegistry
  <2>2. CASE t \in ToSet(types)
    BY <1>1, <1>3, <2>1, <2>2
  <2>3. CASE t \notin ToSet(types)
    <3>1. t \in DOMAIN reg.indexOf /\ t \in DOMAIN reg.builders
      BY <1>1, <2>3 DEF IsRegistry
    <3>2. reg.indexOf[t] \in 1 .. n /\ reg.builders[t] \in Classes
      BY <1>3, <3>1 DEF IsRegistry
    <3>3. new.indexOf[t] = reg.indexOf[t] /\ new.builders[t] = reg.builders[t]
      BY <1>1, <2>3, <3>1
    <3> QED
      BY <1>3, <3>2, <3>3
  <2> QED
    BY <2>2, <2>3
<1>7. DOMAIN new.builders = DOMAIN new.indexOf
  BY <1>1 DEF IsRegistry
<1>8. IsRegistry(new)
  BY <1>1, <1>4, <1>5, <1>6, <1>7 DEF IsRegistry
<1> QED
  BY <1>8 DEF new

LEMMA AutorunRegisters == IsRegistry(Autorun)
<1> DEFINE nothing == [configs |-> <<>>, indexOf |-> <<>>, builders |-> <<>>]
<1>1. IsRegistry(nothing)
  <2>1. <<>> \in Seq(ToSet(<<>>)) /\ DOMAIN <<>> = {}
    OBVIOUS
  <2> QED
    BY <2>1 DEF IsRegistry
<1>2. ASSUME NEW reg, IsRegistry(reg), NEW c \in Classes PROVE IsRegistry(RegisterClass(reg, c))
  BY <1>2, RegisteredAt, DefaultsAreOptions DEF RegisterClass
<1>3. {"step", "iges", "stl", "brep"} \subseteq Classes
  BY DEF Classes
<1> DEFINE a == RegisterClass(nothing, "step")
           b == RegisterClass(a, "iges")
           c == RegisterClass(b, "stl")
           d == RegisterClass(c, "brep")
<1>4. Autorun = d
  BY DEF Autorun
<1> HIDE DEF nothing
<1>5. IsRegistry(a)
  BY <1>1, <1>2, <1>3
<1> HIDE DEF a
<1>6. IsRegistry(b)
  BY <1>2, <1>3, <1>5
<1> HIDE DEF b
<1>7. IsRegistry(c)
  BY <1>2, <1>3, <1>6
<1> HIDE DEF c
<1>8. IsRegistry(d)
  BY <1>2, <1>3, <1>7
<1> HIDE DEF d
<1> QED
  BY <1>4, <1>8

LEMMA RegistryIsOK ==
  RegistryOK <=> IsRegistry([configs |-> configs, indexOf |-> indexOf, builders |-> builders])
BY DEF RegistryOK, IsRegistry

LEMMA RegistryIsOKAfter ==
  RegistryOK' <=> IsRegistry([configs |-> configs', indexOf |-> indexOf', builders |-> builders'])
BY DEF RegistryOK, IsRegistry

\* Another config for a type there is.
LEMMA ConfigIsSet ==
  ASSUME RegistryOK, NEW t \in DOMAIN indexOf, NEW o, IsOptions(o),
         configs' = [configs EXCEPT ![indexOf[t]] = o], UNCHANGED <<indexOf, builders>>
  PROVE  RegistryOK'
<1> DEFINE T == ToSet(configs) \cup {o}
<1>1. configs \in Seq(T) /\ o \in T /\ indexOf[t] \in DOMAIN configs
  <2>1. ToSet(configs) \subseteq T /\ configs \in Seq(ToSet(configs))
    BY DEF RegistryOK
  <2> QED
    BY <2>1, SeqMonotonic DEF RegistryOK
<1> HIDE DEF T
<1>2. configs' \in Seq(T) /\ DOMAIN configs' = DOMAIN configs
  BY <1>1
<1>3. configs' \in Seq(ToSet(configs'))
  BY <1>2, SequenceOfItsOwn
<1>4. \A i \in DOMAIN configs' : IsOptions(configs'[i])
  BY <1>1, <1>2 DEF RegistryOK
<1> QED
  BY <1>2, <1>3, <1>4 DEF RegistryOK
-----------------------------------------------------------------------------
(***************************************************************************)
(* What is written and read.                                               *)
(***************************************************************************)
LEMMA EffectiveOptions ==
  ASSUME IsExporter(exporter) PROVE GlobalExportOptions = exporter.asked
BY DEF IsExporter, GlobalExportOptions

\* The groups chosen for the shapes, with what is written of each.
LEMMA EntitiesOfShapes ==
  ASSUME IsExporter(exporter), NEW c \in Groupings, NEW ents, NEW settings,
         DOMAIN ents = DOMAIN c, \A i \in DOMAIN c : ents[i] = [j \in DOMAIN c[i] |-> ents[i][j]],
         \A i \in DOMAIN c : \A j \in DOMAIN c[i] : IsShape(c[i][j]) => Entities(ents[i][j], c[i][j], settings)
  PROVE  /\ AllEntities(ents, ShapesOf(exporter), c, Len(exporter.shapes), exporter.asked.mode, settings)
         /\ DOMAIN c = 1 .. Len(exporter.shapes) /\ Len(exporter.shapes) \in Nat
         /\ exporter.asked.mode \in ShapeGroupMode
<1> DEFINE n == Len(exporter.shapes)
           mode == exporter.asked.mode
           shapes == ShapesOf(exporter)
<1>1. /\ n \in Nat /\ DOMAIN exporter.shapes = 1 .. n
      /\ \A i \in 1 .. n : IsShape(exporter.shapes[i].shape) /\ shapes[i] = exporter.shapes[i].shape
  BY ShapesOfExporter
<1>2. mode \in ShapeGroupMode
  BY DEF IsExporter, IsOptions
<1>3. DOMAIN c = 1 .. n /\ \A i \in 1 .. n : c[i] \in Groups(exporter.shapes[i].shape, mode)
  <2>1. GlobalExportOptions.mode = mode
    BY EffectiveOptions
  <2> HIDE DEF mode, n
  <2>2. /\ DOMAIN c = DOMAIN exporter.shapes
        /\ \A i \in DOMAIN exporter.shapes : c[i] \in Groups(exporter.shapes[i].shape, mode)
    <3> DEFINE choice == [i \in DOMAIN exporter.shapes |-> Groups(exporter.shapes[i].shape, mode)]
               D == DOMAIN exporter.shapes
    <3>1. \A i \in D : choice[i] = Groups(exporter.shapes[i].shape, mode)
      OBVIOUS
    <3>2. c \in {d \in [D -> UNION {choice[i] : i \in D}] : \A i \in D : d[i] \in choice[i]}
      BY <2>1 DEF Groupings
    <3> HIDE DEF choice, D
    <3>3. DOMAIN c = D /\ \A i \in D : c[i] \in choice[i]
      BY <3>2
    <3> QED
      BY <3>1, <3>3, Zenon DEF D
  <2> QED
    BY <1>1, <2>2
<1> HIDE DEF n, mode, shapes
<1>4. ASSUME NEW i \in 1 .. n, NEW j \in DOMAIN c[i] PROVE Entities(ents[i][j], c[i][j], settings)
  <2>1. IsShape(c[i][j])
    BY <1>1, <1>2, <1>3, GroupsAreShapes
  <2> QED
    BY <1>3, <2>1
<1>5. AllEntities(ents, shapes, c, n, mode, settings)
  BY <1>1, <1>3, <1>4 DEF AllEntities
<1> QED
  BY <1>1, <1>2, <1>3, <1>5 DEF n, mode, shapes

LEMMA StepFileIsWritten ==
  ASSUME IsExporter(exporter), exporter.class = "step", NEW c \in Groupings, NEW f,
         f.class = "step", f.groups = StepFile(c)
  PROVE  WrittenBy(f, exporter)
<1> DEFINE n == Len(exporter.shapes)
           mode == exporter.asked.mode
           shapes == ShapesOf(exporter)
           ents == [i \in DOMAIN c |-> [j \in DOMAIN c[i] |-> StepEntities(c[i][j])]]
           es == [i \in DOMAIN c |-> FlattenSeq([j \in DOMAIN c[i] |-> StepEntities(c[i][j])])]
<1>1. /\ DOMAIN ents = DOMAIN c
      /\ \A i \in DOMAIN c : ents[i] = [j \in DOMAIN c[i] |-> StepEntities(c[i][j])]
      /\ \A i \in DOMAIN c : \A j \in DOMAIN c[i] : ents[i][j] = StepEntities(c[i][j])
  OBVIOUS
<1>2. f.groups = FlattenSeq(es)
  BY DEF StepFile
<1> HIDE DEF ents
<1>3. es = [i \in DOMAIN c |-> FlattenSeq(ents[i])]
  BY <1>1
<1> HIDE DEF es
<1>4. \A i \in DOMAIN c : ents[i] = [j \in DOMAIN c[i] |-> ents[i][j]]
  BY <1>1
<1>5. \A i \in DOMAIN c : \A j \in DOMAIN c[i] : IsShape(c[i][j]) => Entities(ents[i][j], c[i][j], "STEP")
  BY <1>1, StepEntitiesOfGroup
<1>6. AllEntities(ents, shapes, c, n, mode, "STEP") /\ DOMAIN c = 1 .. n /\ n \in Nat /\ mode \in ShapeGroupMode
  BY <1>1, <1>4, <1>5, EntitiesOfShapes
<1> HIDE DEF n, mode, shapes
<1>7. es = [i \in 1 .. n |-> FlattenSeq(ents[i])]
  BY <1>3, <1>6
<1>8. IsFileOfGroups(f.groups) /\ FileTells(f.groups, shapes, n, mode, "STEP")
  BY <1>2, <1>6, <1>7, FileOfGroups
<1>9. Settings(f.class, exporter.asked) = "STEP" /\ f.class # "iges"
  BY DEF Settings
<1> QED
  BY <1>8, <1>9 DEF WrittenBy, n, mode, shapes

LEMMA IgesFileIsWritten ==
  ASSUME IsExporter(exporter), exporter.class = "iges", NEW c \in Groupings, NEW f,
         f.class = "iges", f.groups = IgesFile(c)
  PROVE  WrittenBy(f, exporter)
<1> DEFINE n == Len(exporter.shapes)
           mode == exporter.asked.mode
           shapes == ShapesOf(exporter)
           levels == Levels(exporter.shapes)
           settings == FaceNames(exporter.asked)
           E(i, j) == IgesEntities(c[i][j], levels[i], settings)
           ents == [i \in DOMAIN c |-> [j \in DOMAIN c[i] |-> E(i, j)]]
           es == [i \in DOMAIN c |-> FlattenSeq([j \in DOMAIN c[i] |-> E(i, j)])]
<1>1. f.groups = FlattenSeq(es)
  <2>1. FaceNames(GlobalExportOptions) = settings
    BY EffectiveOptions
  <2> HIDE DEF settings
  <2> QED
    BY <2>1 DEF IgesFile
<1> HIDE DEF E
<1>2. /\ DOMAIN ents = DOMAIN c
      /\ \A i \in DOMAIN c : ents[i] = [j \in DOMAIN c[i] |-> E(i, j)]
      /\ \A i \in DOMAIN c : \A j \in DOMAIN c[i] : ents[i][j] = E(i, j)
  OBVIOUS
<1> HIDE DEF ents
<1>3. es = [i \in DOMAIN c |-> FlattenSeq(ents[i])]
  BY <1>2
<1> HIDE DEF es
<1>4. \A i \in DOMAIN c : ents[i] = [j \in DOMAIN c[i] |-> ents[i][j]]
  BY <1>2
<1>5. ASSUME NEW i \in DOMAIN c, NEW j \in DOMAIN c[i], IsShape(c[i][j])
      PROVE  Entities(ents[i][j], c[i][j], settings) /\ \A e \in ToSet(ents[i][j]) : e.level = levels[i]
  <2>1. Entities(E(i, j), c[i][j], settings) /\ \A e \in ToSet(E(i, j)) : e.level = levels[i]
    <3>1. settings \in FaceNameSettings
      BY DEF IsExporter, IsOptions, FaceNames, FaceNameSettings
    <3> HIDE DEF levels, settings
    <3> QED
      BY <1>5, <3>1, IgesEntitiesOfGroup DEF E
  <2> HIDE DEF levels, settings
  <2> QED
    BY <1>2, <2>1
<1> HIDE DEF levels, settings
<1>6. AllEntities(ents, shapes, c, n, mode, settings) /\ DOMAIN c = 1 .. n /\ n \in Nat /\ mode \in ShapeGroupMode
  BY <1>2, <1>4, <1>5, EntitiesOfShapes
<1> HIDE DEF n, mode, shapes
<1>7. es = [i \in 1 .. n |-> FlattenSeq(ents[i])]
  BY <1>3, <1>6
<1>8. /\ IsFileOfGroups(f.groups) /\ FileTells(f.groups, shapes, n, mode, settings)
      /\ InPlace(f.groups, shapes, n, mode, es)
  BY <1>1, <1>6, <1>7, FileOfGroups
<1>9. ASSUME NEW i \in 1 .. n, NEW q \in DOMAIN es[i] PROVE es[i][q].level = levels[i]
  <2> DEFINE L == {e \in Every(ents) : e.level = levels[i]}
  <2>1. ents[i] \in Seq(Seq(Every(ents)))
    BY <1>6, EntitiesAreThere
  <2>2. \A j \in DOMAIN ents[i] : ents[i][j] \in Seq(L)
    <3> SUFFICES ASSUME NEW j \in DOMAIN ents[i] PROVE ents[i][j] \in Seq(L)
      OBVIOUS
    <3>1. i \in DOMAIN c /\ j \in DOMAIN c[i] /\ i \in DOMAIN ents
      BY <1>2, <1>6
    <3>2. IsShape(c[i][j])
      <4>1. IsShape(shapes[i]) /\ c[i] \in Groups(shapes[i], mode)
        BY <1>6 DEF AllEntities
      <4> QED
        BY <1>6, <3>1, <4>1, GroupsAreShapes
    <3>3. \A e \in ToSet(ents[i][j]) : e.level = levels[i]
      BY <1>5, <3>1, <3>2
    <3>4. ToSet(ents[i][j]) \subseteq Every(ents)
      BY <3>1 DEF Every
    <3>5. ToSet(ents[i][j]) \subseteq L
      BY <3>3, <3>4
    <3>6. ents[i][j] \in Seq(ToSet(ents[i][j]))
      BY <1>5, <3>1, <3>2 DEF Entities
    <3> HIDE DEF L
    <3> QED
      BY <3>5, <3>6, SeqMonotonic
  <2> HIDE DEF L
  <2>3. ents[i] \in Seq(Seq(L))
    <3>1. Len(ents[i]) \in Nat /\ ents[i] = [j \in 1 .. Len(ents[i]) |-> ents[i][j]] /\ DOMAIN ents[i] = 1 .. Len(ents[i])
      BY <2>1
    <3>2. [j \in 1 .. Len(ents[i]) |-> ents[i][j]] \in Seq(Seq(L))
      BY <2>2, <3>1
    <3> QED
      BY <3>1, <3>2, Zenon
  <2>4. es[i] \in Seq(L)
    BY <1>7, <2>3, FlattenIsSequence
  <2>5. es[i][q] \in L
    BY <2>4
  <2> QED
    BY <2>5 DEF L
<1>10. OnLevels(f.groups, shapes, n, mode, levels)
  BY <1>8, <1>9 DEF OnLevels, InPlace
<1>11. Settings(f.class, exporter.asked) = settings
  BY DEF Settings, settings
<1> QED
  BY <1>8, <1>10, <1>11 DEF WrittenBy, n, mode, shapes, levels
-----------------------------------------------------------------------------
(***************************************************************************)
(* The steps.                                                              *)
(***************************************************************************)
LEMMA InitExchange == Init => ExchangeInv
<1> SUFFICES ASSUME Init PROVE ExchangeInv
  OBVIOUS
<1>1. RegistryOK
  <2>1. configs = Autorun.configs /\ indexOf = Autorun.indexOf /\ builders = Autorun.builders
    BY DEF Init
  <2> QED
    BY <2>1, AutorunRegisters DEF RegistryOK, IsRegistry
<1>2. ExporterOK /\ FileOK
  BY DEF Init, ExporterOK, FileOK, NoFile
<1>3. ImportedOK
  <2>1. imported.shapes = <<>>
    BY DEF Init, NothingRead
  <2>2. ToSet(imported.shapes) = {}
    BY <2>1 DEF ToSet
  <2> QED
    BY <2>2 DEF ImportedOK
<1> QED
  BY <1>1, <1>2, <1>3 DEF ExchangeInv

\* Another exporter is registered.
LEMMA RegisterKeepsRegistry == RegistryOK /\ RegisterExporter => RegistryOK'
<1> SUFFICES ASSUME RegistryOK, RegisterExporter PROVE RegistryOK'
  OBVIOUS
<1> DEFINE reg == [configs |-> configs, indexOf |-> indexOf, builders |-> builders]
<1>1. PICK r \in Registered :
        LET new == RegisterAt(reg, r.types, r.class, r.options)
        IN  configs' = new.configs /\ indexOf' = new.indexOf /\ builders' = new.builders
  BY DEF RegisterExporter
<1>2. IsRegistry(reg) /\ r.class \in Classes /\ IsOptions(r.options)
  BY RegistryIsOK, ExchangeAssumption
<1> HIDE DEF reg
<1>3. IsRegistry(RegisterAt(reg, r.types, r.class, r.options))
  BY <1>2, RegisteredAt
<1> DEFINE new == RegisterAt(reg, r.types, r.class, r.options)
<1>4. configs' = new.configs /\ indexOf' = new.indexOf /\ builders' = new.builders
  BY <1>1
<1>5. IsRegistry(new)
  BY <1>3
<1> HIDE DEF new
<1> QED
  BY <1>4, <1>5 DEF IsRegistry, RegistryOK

\* A setting of its own leaves an option an option.
LEMMA OptionIsSet ==
  ASSUME NEW options, IsOptions(options), NEW o \in OptionSet(options) PROVE IsOptions(o)
<1>1. PICK name \in DOMAIN Values : HasOption(options, name) /\ \E v \in Values[name] : o = [options EXCEPT ![name] = v]
  BY DEF OptionSet
<1>2. name \in {"mode", "faceNames"}
  BY DEF Values
<1>3. PICK v \in Values[name] : o = [options EXCEPT ![name] = v]
  BY <1>1
<1>4. DOMAIN o = DOMAIN options /\ \A x \in DOMAIN options : o[x] = IF x = name THEN v ELSE options[x]
  BY <1>3
<1>5. {"default", "mode"} \subseteq DOMAIN options /\ options.default = FALSE /\ options.mode \in ShapeGroupMode
  BY DEF IsOptions
<1>6. o.default = FALSE
  BY <1>2, <1>4, <1>5
<1>7. o.mode \in ShapeGroupMode
  BY <1>2, <1>4, <1>5 DEF Values
<1>8. HasOption(o, "faceNames") => o.faceNames \in FaceNameSettings
  BY <1>2, <1>4 DEF Values, HasOption, IsOptions
<1> QED
  BY <1>4, <1>5, <1>6, <1>7, <1>8 DEF IsOptions

LEMMA SettingsKeepRegistry == RegistryOK /\ (SetConfig \/ SetOption) => RegistryOK'
<1> SUFFICES ASSUME RegistryOK, SetConfig \/ SetOption PROVE RegistryOK'
  OBVIOUS
<1>1. PICK t \in DOMAIN indexOf :
        \E o \in OptionsFor \cup OptionSet(configs[indexOf[t]]) : configs' = [configs EXCEPT ![indexOf[t]] = o]
  BY DEF SetConfig, SetOption
<1>2. PICK o \in OptionsFor \cup OptionSet(configs[indexOf[t]]) : configs' = [configs EXCEPT ![indexOf[t]] = o]
  BY <1>1
<1>3. IsOptions(configs[indexOf[t]])
  BY DEF RegistryOK
<1>4. IsOptions(o)
  BY <1>2, <1>3, OptionIsSet, ExchangeAssumption
<1>5. UNCHANGED <<indexOf, builders>>
  BY DEF SetConfig, SetOption
<1> QED
  BY <1>2, <1>4, <1>5, ConfigIsSet

\* An exporter is made, by the factory or by the caller.
LEMMA MadeWithOptions ==
  ASSUME NEW class \in Classes, NEW options, NEW asked, IsOptions(asked),
         asked = IF options.default THEN DefaultOptions(class) ELSE options,
         NewExporter(class, options, asked)
  PROVE  ExporterOK'
<1>1. exporter' = [class |-> class, options |-> options, shapes |-> <<>>, asked |-> asked]
  BY DEF NewExporter
<1>2. <<>> \in Seq(ToSet(<<>>)) /\ ToSet(<<>>) = {}
  BY DEF ToSet
<1>3. IsExporter(exporter')
  BY <1>1, <1>2 DEF IsExporter
<1> QED
  BY <1>3 DEF ExporterOK

LEMMA CreatedIsExporter == RegistryOK /\ Create => ExporterOK'
<1> SUFFICES ASSUME RegistryOK, Create PROVE ExporterOK'
  OBVIOUS
<1>1. PICK t \in DOMAIN builders, o \in OptionsFor \cup {DefaultExporterOption} :
        NewExporter(builders[t], CreateOptions(t, o), IF o.default THEN configs[indexOf[t]] ELSE o)
  BY DEF Create
<1>2. IsOptions(configs[indexOf[t]]) /\ builders[t] \in Classes
  BY DEF RegistryOK
<1>3. CASE o.default
  <2>1. NewExporter(builders[t], configs[indexOf[t]], configs[indexOf[t]])
    BY <1>1, <1>3 DEF CreateOptions
  <2>2. configs[indexOf[t]].default = FALSE
    BY <1>2 DEF IsOptions
  <2> QED
    BY <1>2, <2>1, <2>2, MadeWithOptions
<1>4. CASE ~o.default
  <2>1. NewExporter(builders[t], o, o)
    BY <1>1, <1>4 DEF CreateOptions
  <2>2. o \in OptionsFor
    BY <1>4 DEF DefaultExporterOption, ExporterOptions
  <2>3. IsOptions(o)
    BY <2>2, ExchangeAssumption
  <2> QED
    BY <1>2, <1>4, <2>1, <2>3, MadeWithOptions
<1> QED
  BY <1>3, <1>4

LEMMA ConstructedIsExporter == Construct => ExporterOK'
<1> SUFFICES ASSUME Construct PROVE ExporterOK'
  OBVIOUS
<1>1. PICK c \in Classes, o \in OptionsFor \cup {DefaultExporterOption} :
        NewExporter(c, o, IF o.default THEN DefaultOptions(c) ELSE o)
  BY DEF Construct
<1>2. IsOptions(IF o.default THEN DefaultOptions(c) ELSE o)
  <2>1. CASE o.default
    BY <2>1, DefaultsAreOptions
  <2>2. CASE ~o.default
    <3>1. o \in OptionsFor
      BY <2>2 DEF DefaultExporterOption, ExporterOptions
    <3> QED
      BY <2>2, <3>1, ExchangeAssumption
  <2> QED
    BY <2>1, <2>2
<1> QED
  BY <1>1, <1>2, MadeWithOptions

\* A shape more.
LEMMA AddedToExporter == ExporterOK /\ ImportedOK /\ AddShape => ExporterOK'
<1> SUFFICES ASSUME ExporterOK, ImportedOK, AddShape PROVE ExporterOK'
  OBVIOUS
<1> DEFINE e == exporter
<1>1. IsExporter(e)
  BY DEF ExporterOK, AddShape
<1>2. PICK s \in Shapes \cup ToSet(imported.shapes), o \in ShapeOptions \cup {DefaultShapeExportOptions} :
        e' = [e EXCEPT !.shapes = Append(@, [shape |-> s, options |->
               IF o = DefaultShapeExportOptions THEN DefaultShapeOptions(e.class) ELSE o])]
  BY DEF AddShape
<1>3. PICK p : p = [shape |-> s, options |-> IF o = DefaultShapeExportOptions THEN DefaultShapeOptions(e.class) ELSE o]
  OBVIOUS
<1>4. IsShape(s)
  BY <1>2, ExchangeAssumption DEF ImportedOK
<1>5. IsShapeOption(IF o = DefaultShapeExportOptions THEN DefaultShapeOptions(e.class) ELSE o)
  <2>1. IsShapeOption(DefaultShapeOptions(e.class))
    BY DEF DefaultShapeOptions, IsShapeOption, NoLayer
  <2> QED
    BY <1>2, <2>1, ExchangeAssumption
<1>6. IsShape(p.shape) /\ IsShapeOption(p.options)
  BY <1>3, <1>4, <1>5
<1> DEFINE T == ToSet(e.shapes) \cup {p}
           w == Append(e.shapes, p)
<1>7. e.shapes \in Seq(T) /\ p \in T
  <2>1. ToSet(e.shapes) \subseteq T /\ e.shapes \in Seq(ToSet(e.shapes))
    BY <1>1 DEF IsExporter
  <2> QED
    BY <2>1, SeqMonotonic
<1>8. \A x \in T : IsShape(x.shape) /\ IsShapeOption(x.options)
  BY <1>1, <1>6 DEF IsExporter
<1> HIDE DEF T
<1>9. w \in Seq(T)
  BY <1>7
<1>10. w \in Seq(ToSet(w)) /\ ToSet(w) \subseteq T
  <2> HIDE DEF w
  <2> QED
    BY <1>9, SequenceOfItsOwn DEF ToSet
<1>11. e' = [class |-> e.class, options |-> e.options, shapes |-> w, asked |-> e.asked]
  <2>1. e' = [e EXCEPT !.shapes = w]
    BY <1>2, <1>3
  <2>2. e = [class |-> e.class, options |-> e.options, shapes |-> e.shapes, asked |-> e.asked]
    BY <1>1 DEF IsExporter
  <2> HIDE DEF w
  <2> QED
    BY <2>1, <2>2
<1> HIDE DEF w
<1>12. e' = [class |-> e'.class, options |-> e'.options, shapes |-> e'.shapes, asked |-> e'.asked]
  BY <1>11
<1>13. e'.class = e.class /\ e'.options = e.options /\ e'.shapes = w /\ e'.asked = e.asked
  BY <1>11
<1>14. \A x \in ToSet(w) : IsShape(x.shape) /\ IsShapeOption(x.options)
  BY <1>8, <1>10
<1>15. IsExporter(e')
  BY <1>1, <1>10, <1>12, <1>13, <1>14 DEF IsExporter
<1> QED
  BY <1>15 DEF ExporterOK

\* A writer leaves the options it worked with in the exporter.
LEMMA KeptByWriter ==
  ASSUME IsExporter(exporter), NEW options \in {exporter.options, GlobalExportOptions},
         exporter' = [exporter EXCEPT !.options = options]
  PROVE  ExporterOK'
<1> DEFINE e == exporter
<1>1. /\ e = [class |-> e.class, options |-> e.options, shapes |-> e.shapes, asked |-> e.asked]
      /\ e' = [e EXCEPT !.options = options]
  BY DEF IsExporter
<1>2. e' = [class |-> e.class, options |-> options, shapes |-> e.shapes, asked |-> e.asked]
  BY <1>1
<1>3. e.asked = IF options.default THEN DefaultOptions(e.class) ELSE options
  <2>1. e.asked.default = FALSE /\ GlobalExportOptions = e.asked
    BY EffectiveOptions DEF IsExporter, IsOptions
  <2>2. e.asked = IF e.options.default THEN DefaultOptions(e.class) ELSE e.options
    BY DEF IsExporter
  <2>3. options = e.options \/ options = e.asked
    BY <2>1
  <2> QED
    BY <2>1, <2>2, <2>3, Zenon
<1>4. IsExporter(e')
  <2>1. /\ e.class \in Classes /\ IsOptions(e.asked) /\ e.shapes \in Seq(ToSet(e.shapes))
        /\ \A s \in ToSet(e.shapes) : IsShape(s.shape) /\ IsShapeOption(s.options)
    BY DEF IsExporter
  <2>2. e'.class = e.class /\ e'.options = options /\ e'.shapes = e.shapes /\ e'.asked = e.asked
    BY <1>2
  <2>3. e' = [class |-> e'.class, options |-> e'.options, shapes |-> e'.shapes, asked |-> e'.asked]
    BY <1>2
  <2> QED
    BY <1>3, <2>1, <2>2, <2>3 DEF IsExporter
<1> QED
  BY <1>4 DEF ExporterOK

LEMMA StepIsWritten == ExporterOK /\ WriteStep => ExporterOK' /\ FileOK'
<1> SUFFICES ASSUME ExporterOK, WriteStep PROVE ExporterOK' /\ FileOK'
  OBVIOUS
<1>1. exporter.class = "step"
  BY DEF WriteStep
<1>2. IsExporter(exporter)
  BY <1>1 DEF ExporterOK, NoExporter
<1>3. PICK c \in Groupings : File(StepFile(c))
  BY DEF WriteStep
<1>4. file'.class = "step" /\ file'.groups = StepFile(c) /\ file'.by = exporter
  BY <1>1, <1>3 DEF File
<1>5. WrittenBy(file', exporter)
  BY <1>1, <1>2, <1>4, StepFileIsWritten
<1>6. FileOK'
  BY <1>4, <1>5 DEF FileOK
<1>7. ExporterOK'
  BY <1>2, KeptByWriter DEF WriteStep
<1> QED
  BY <1>6, <1>7

LEMMA IgesIsWritten == ExporterOK /\ WriteIges => ExporterOK' /\ FileOK'
<1> SUFFICES ASSUME ExporterOK, WriteIges PROVE ExporterOK' /\ FileOK'
  OBVIOUS
<1>1. exporter.class = "iges"
  BY DEF WriteIges
<1>2. IsExporter(exporter)
  BY <1>1 DEF ExporterOK, NoExporter
<1>3. PICK c \in Groupings : File(IgesFile(c))
  BY DEF WriteIges
<1>4. file'.class = "iges" /\ file'.groups = IgesFile(c) /\ file'.by = exporter
  BY <1>1, <1>3 DEF File
<1>5. WrittenBy(file', exporter)
  BY <1>1, <1>2, <1>4, IgesFileIsWritten
<1>6. FileOK'
  BY <1>4, <1>5 DEF FileOK
<1>7. ExporterOK'
  BY <1>2, KeptByWriter DEF WriteIges
<1> QED
  BY <1>6, <1>7

\* A BREP or an STL file has no groups.
LEMMA ShapesAreWritten == WriteBrep \/ WriteStl => FileOK'
BY DEF WriteBrep, WriteStl, File, FileOK

\* What is read from a file are shapes.
LEMMA ReadAreShapes == FileOK /\ Read => ImportedOK'
<1> SUFFICES ASSUME FileOK, Read PROVE ImportedOK'
  OBVIOUS
<1> DEFINE groups == file.groups
           Number(i) == <<"StepImport", i>>
           name(i) == IF i = 1 THEN groups[Len(groups)].name ELSE Number(i)
           faces(i) == [j \in DOMAIN groups[i].faces |-> [name |-> Number(i), origin |-> NoOrigin]]
           shape(i) == [name |-> name(i), faces |-> faces(i), wires |-> IF groups[i].faces = <<>> THEN 1 ELSE 0]
<1>1. imported'.shapes = [i \in DOMAIN groups |-> shape(i)]
  BY DEF Read
<1>2. IsFileOfGroups(groups)
  BY DEF Read, FileOK, WrittenBy
<1>3. ASSUME NEW i \in DOMAIN groups PROVE IsShape(shape(i))
  <2>1. groups[i].faces \in Seq(ToSet(groups[i].faces))
    <3>1. groups[i] \in ToSet(groups) /\ HaveFaces(ToSet(groups))
      BY <1>2 DEF IsFileOfGroups, ToSet
    <3> QED
      BY <3>1 DEF HaveFaces
  <2>2. PICK m \in Nat : DOMAIN groups[i].faces = 1 .. m
    <3> DEFINE T == ToSet(groups[i].faces)
    <3> HIDE DEF T
    <3>1. groups[i].faces \in Seq(T)
      BY <2>1 DEF T
    <3> QED
      BY <3>1
  <2>3. PICK x : x = [name |-> Number(i), origin |-> NoOrigin]
    OBVIOUS
  <2>4. faces(i) = [j \in 1 .. m |-> x]
    BY <2>2, <2>3
  <2>5. [j \in 1 .. m |-> x] \in Seq({x})
    OBVIOUS
  <2> HIDE DEF faces
  <2>6. faces(i) \in Seq(ToSet(faces(i)))
    BY <2>4, <2>5, SequenceOfItsOwn
  <2>7. shape(i).faces = faces(i) /\ shape(i).wires \in Nat
    OBVIOUS
  <2> HIDE DEF shape
  <2> QED
    BY <2>6, <2>7 DEF IsShape
<1> HIDE DEF shape
<1>4. \A s \in ToSet(imported'.shapes) : IsShape(s)
  BY <1>1, <1>3 DEF ToSet
<1> QED
  BY <1>4 DEF ImportedOK

LEMMA NextExchange == ExchangeInv /\ [Next]_vars => ExchangeInv'
<1> SUFFICES ASSUME RegistryOK, ExporterOK, FileOK, ImportedOK, [Next]_vars
             PROVE  RegistryOK' /\ ExporterOK' /\ FileOK' /\ ImportedOK'
  BY DEF ExchangeInv
<1>1. UNCHANGED registry => RegistryOK'
  BY DEF registry, RegistryOK
<1>2. UNCHANGED exporter => ExporterOK'
  BY DEF ExporterOK
<1>3. UNCHANGED file => FileOK'
  BY DEF FileOK
<1>4. UNCHANGED imported => ImportedOK'
  BY DEF ImportedOK
<1>5. CASE UNCHANGED vars
  BY <1>1, <1>2, <1>3, <1>4, <1>5 DEF vars
<1>6. CASE RegisterExporter
  BY <1>2, <1>3, <1>4, <1>6, RegisterKeepsRegistry DEF RegisterExporter
<1>7. CASE SetConfig \/ SetOption
  BY <1>2, <1>3, <1>4, <1>7, SettingsKeepRegistry DEF SetConfig, SetOption
<1>8. CASE Create
  BY <1>1, <1>3, <1>4, <1>8, CreatedIsExporter DEF Create
<1>9. CASE Construct
  BY <1>1, <1>3, <1>4, <1>9, ConstructedIsExporter DEF Construct
<1>10. CASE AddShape
  BY <1>1, <1>3, <1>4, <1>10, AddedToExporter DEF AddShape
<1>11. CASE WriteStep
  BY <1>1, <1>4, <1>11, StepIsWritten DEF WriteStep, KeepFile
<1>12. CASE WriteIges
  BY <1>1, <1>4, <1>12, IgesIsWritten DEF WriteIges, KeepFile
<1>13. CASE WriteBrep \/ WriteStl
  BY <1>1, <1>2, <1>4, <1>13, ShapesAreWritten DEF WriteBrep, WriteStl, KeepFile
<1>14. CASE CannotWrite
  BY <1>1, <1>2, <1>3, <1>4, <1>14 DEF CannotWrite, KeepFile
<1>15. CASE Read
  BY <1>1, <1>2, <1>3, <1>15, ReadAreShapes DEF Read
<1>16. CASE SetLogging
  BY <1>1, <1>2, <1>3, <1>4, <1>16 DEF SetLogging
<1> QED
  BY <1>5, <1>6, <1>7, <1>8, <1>9, <1>10, <1>11, <1>12, <1>13, <1>14, <1>15, <1>16 DEF Next

\* Whatever exporters are registered, options set and shapes added, in whichever
\* order, and whatever a file is read for: a STEP or IGES file has every face
\* of the shapes of its exporter once, under the name asked for, in as many
\* groups as the options ask for that were the exporter's when it was made.
THEOREM FilesGroupAsAsked == Spec => []GroupsFollowTheMode
<1>1. Init => ExchangeInv
  BY InitExchange
<1>2. ExchangeInv /\ [Next]_vars => ExchangeInv'
  BY NextExchange
<1>3. ExchangeInv => GroupsFollowTheMode
  BY FilesFollowTheMode DEF ExchangeInv
<1> QED
  BY <1>1, <1>2, <1>3, PTL DEF Spec

\* Every group in an IGES file is on the layer of the shape it comes from, and
\* a shape without a layer shares the level of the one before it with none of
\* its groups: however many groups the shapes before it were split into.
THEOREM LayersAreKept == Spec => []LevelsFollowTheLayers
<1>1. Init => ExchangeInv
  BY InitExchange
<1>2. ExchangeInv /\ [Next]_vars => ExchangeInv'
  BY NextExchange
<1>3. ExchangeInv => LevelsFollowTheLayers
  BY FilesFollowTheLayers DEF ExchangeInv
<1> QED
  BY <1>1, <1>2, <1>3, PTL DEF Spec
=============================================================================
