--------------------------- MODULE CompilerProofs ---------------------------
(***************************************************************************)
(* CompilerProofs: what main does for every command line and every text,   *)
(* whatever the phases find.                                               *)
(***************************************************************************)
EXTENDS Compiler, ScannerProofs

\* The compiler implements the scanner: the other phases leave its tokens alone.
THEOREM CompilerScans == Spec => ScanSpec
<1>1. Init => ScannerInit BY DEF Init
<1>2. [Next]_vars => [ScanStep]_scannerVars
  <2> SUFFICES ASSUME [Next]_vars PROVE [ScanStep]_scannerVars OBVIOUS
  <2>1. CASE Help \/ BadOption \/ NoInput \/ CannotOpen \/ NoTable
    BY <2>1 DEF Help, BadOption, NoInput, CannotOpen, NoTable, Exit
  <2>2. CASE Option \/ Input \/ Start BY <2>2 DEF Option, Input, Start
  <2>3. CASE RunScanner BY <2>3 DEF RunScanner
  <2>4. CASE WriteTokens \/ ParseFails \/ ParseSucceeds
    BY <2>4 DEF WriteTokens, ParseFails, ParseSucceeds
  <2>5. CASE DeclareSymbols \/ CheckSemantics \/ SizeTables \/ GenerateCode
    BY <2>5 DEF DeclareSymbols, CheckSemantics, SizeTables, GenerateCode
  <2>6. CASE UNCHANGED vars BY <2>6 DEF vars
  <2> QED BY <2>1, <2>2, <2>3, <2>4, <2>5, <2>6 DEF Next
<1> QED BY <1>1, <1>2, PTL DEF Spec, ScanSpec

\* So whatever the command line and the text, what is true of the scanner's tokens is
\* true of those that the compiler writes and parses.
THEOREM TokensAreRight ==
  Spec => [](/\ NoCharacterIsLost /\ LinesAreTrue /\ CommentsNest
             /\ LiteralsFollowTheRules /\ ElementsStayWhole)
BY CompilerScans, NothingIsLost, LinesAreRight, CommentsStayNested, LiteralsFollow,
   ElementsAreWhole, PTL

-----------------------------------------------------------------------------

\* What is known of the tables before a phase.
TablesInv ==
  /\ phase \in 0 .. CodeGen
  /\ target \in Phases /\ phase <= target
  /\ phase > 3 => declared = {"declared"}
  /\ phase > 5 => sized = {"declared", "sized"}
  /\ CodeHasSizes

LEMMA TablesGoOn == TablesInv /\ [Next]_vars => TablesInv'
<1> SUFFICES ASSUME TablesInv, [Next]_vars PROVE TablesInv' OBVIOUS
<1> USE DEF TablesInv, CodeHasSizes, CodeGen, Phases
<1>1. CASE Help \/ BadOption \/ NoInput \/ CannotOpen \/ NoTable
  BY <1>1 DEF Help, BadOption, NoInput, CannotOpen, NoTable, Exit, argumentVars, tableVars
<1>2. CASE Input \/ Start
  BY <1>2 DEF Input, Start, HasRead, argumentVars, tableVars
<1>3. CASE Option
  <2>1. target' \in Phases BY <1>3, PhasesAssumption DEF Option
  <2> QED BY <1>3, <2>1 DEF Option, Reading, tableVars
<1>4. CASE RunScanner \/ UNCHANGED vars
  BY <1>4 DEF RunScanner, vars, driverVars
<1>5. CASE WriteTokens \/ ParseFails \/ ParseSucceeds
  BY <1>5 DEF WriteTokens, ParseFails, ParseSucceeds, Running, Finish, argumentVars, tableVars
<1>6. CASE DeclareSymbols \/ CheckSemantics
  BY <1>6 DEF DeclareSymbols, CheckSemantics, Running, Finish, argumentVars, tableVars
<1>7. CASE SizeTables
  BY <1>7 DEF SizeTables, Running, Finish, argumentVars
<1>8. CASE GenerateCode
  BY <1>8 DEF GenerateCode, Running, Finish, argumentVars, TablesOfCode
<1> QED BY <1>1, <1>2, <1>3, <1>4, <1>5, <1>6, <1>7, <1>8 DEF Next

\* Whatever the command line: code is generated from the tables that have the sizes.
THEOREM CodeIsSized == Spec => []CodeHasSizes
<1>1. Init => TablesInv BY DEF Init, TablesInv, CodeHasSizes, CodeGen, Phases
<1>2. TablesInv => CodeHasSizes BY DEF TablesInv
<1> QED BY <1>1, <1>2, TablesGoOn, PTL DEF Spec

-----------------------------------------------------------------------------

(***************************************************************************)
(* The arguments.  Whether an argument is the value of the option before   *)
(* it depends on the number of options in a row before it, so that main,   *)
(* which steps over two arguments at an option, never takes the one for    *)
(* the other.                                                              *)
(***************************************************************************)

\* n options in a row stand before the i-th argument, and no more.
Row(i, n) ==
  /\ n \in 0 .. i - 1
  /\ \A j \in i - n .. i - 1 : argv[j] \in ValueOptions
  /\ i - n > 1 => argv[i - n - 1] \notin ValueOptions

LEMMA RowExists ==
  ASSUME NEW i \in Nat \ {0}
  PROVE  \E n \in 0 .. i - 1 : Row(i, n)
<1> DEFINE T == {n \in 0 .. i - 1 : i - n > 1 => argv[i - n - 1] \notin ValueOptions}
<1>1. T \in SUBSET Nat /\ i - 1 \in T
  OBVIOUS
<1>2. PICK n \in T : \A m \in T : n <= m
  BY <1>1, LeastNumber
<1>3. ASSUME NEW j \in i - n .. i - 1
      PROVE  argv[j] \in ValueOptions
  <2> DEFINE m == i - 1 - j
  <2>1. m \in 0 .. i - 1 /\ m < n /\ i - m - 1 = j
    BY <1>2
  <2>2. n \in Nat /\ m \in Nat
    BY <1>2, <2>1
  <2> HIDE DEF T, m
  <2>3. m \notin T
    BY <1>2, <2>1, <2>2
  <2> QED BY <2>1, <2>3 DEF T
<1> QED BY <1>2, <1>3 DEF Row

LEMMA RowIsUnique ==
  ASSUME NEW i \in Nat \ {0}, NEW n, NEW m, Row(i, n), Row(i, m)
  PROVE  n = m
<1>1. n \in 0 .. i - 1 /\ m \in 0 .. i - 1
  BY DEF Row
<1>2. ~ (n < m)
  <2> SUFFICES ASSUME n < m PROVE FALSE
    OBVIOUS
  <2>1. i - n - 1 \in i - m .. i - 1 /\ i - n > 1
    BY <1>1
  <2> QED BY <2>1 DEF Row
<1>3. ~ (m < n)
  <2> SUFFICES ASSUME m < n PROVE FALSE
    OBVIOUS
  <2>1. i - m - 1 \in i - n .. i - 1 /\ i - m > 1
    BY <1>1
  <2> QED BY <2>1 DEF Row
<1> QED BY <1>1, <1>2, <1>3

LEMMA ValuesByRow ==
  ASSUME NEW i \in Nat \ {0}, NEW n, Row(i, n)
  PROVE  IsValue(i) <=> n % 2 = 1
<1>1. ASSUME IsValue(i) PROVE n % 2 = 1
  <2>1. PICK m \in 1 .. i - 1 :
          /\ m % 2 = 1
          /\ \A j \in i - m .. i - 1 : argv[j] \in ValueOptions
          /\ i - m > 1 => argv[i - m - 1] \notin ValueOptions
    BY <1>1 DEF IsValue
  <2>2. Row(i, m)
    BY <2>1 DEF Row
  <2> QED BY <2>1, <2>2, RowIsUnique
<1>2. ASSUME n % 2 = 1 PROVE IsValue(i)
  <2>1. n \in 1 .. i - 1
    BY <1>2 DEF Row
  <2> QED BY <1>2, <2>1 DEF Row, IsValue
<1> QED BY <1>1, <1>2

\* An argument is a value when the one before it is an option and no value itself.
LEMMA NextIsValue ==
  ASSUME NEW i \in Nat \ {0}
  PROVE  IsValue(i + 1) <=> argv[i] \in ValueOptions /\ ~ IsValue(i)
<1>1. PICK n \in 0 .. i - 1 : Row(i, n)
  BY RowExists
<1>2. CASE argv[i] \in ValueOptions
  <2>1. Row(i + 1, n + 1)
    <3>1. \A j \in i - n .. i : j = i \/ j \in i - n .. i - 1
      OBVIOUS
    <3>2. (i + 1) - (n + 1) = i - n /\ (i + 1) - 1 = i /\ n + 1 \in 0 .. i
      BY <1>1
    <3> QED BY <1>1, <1>2, <3>1, <3>2 DEF Row
  <2>2. n % 2 = 1 <=> ~ ((n + 1) % 2 = 1)
    OBVIOUS
  <2> QED BY <1>1, <1>2, <2>1, <2>2, ValuesByRow
<1>3. CASE argv[i] \notin ValueOptions
  <2>1. Row(i + 1, 0)
    BY <1>3 DEF Row
  <2> QED BY <1>3, <2>1, ValuesByRow
<1> QED BY <1>2, <1>3

LEMMA FirstIsNoValue == ~ IsValue(1)
BY DEF IsValue

\* The phase of the last --phase before the argument that is read next, if there is one.
TargetRead ==
  LET before == {i \in OptionsAt("-p") : i < arg}
  IN  \/ before = {} /\ target = CodeGen
      \/ \E i \in before : /\ \A j \in before : j <= i
                           /\ argv[i + 1] \in PhaseNames
                           /\ target = PhaseOf[argv[i + 1]]

ArgumentsInv ==
  /\ argv \in Seq(STRING)
  /\ arg \in 1 .. Len(argv) + 1
  /\ ~ IsValue(arg)
  /\ \A i \in OptionsAt("-h") : arg <= i
  /\ TargetRead

\* The phases that have written their files, and why main has returned 0.
PhasesInv ==
  /\ phase \in 0 .. CodeGen
  /\ target \in Phases /\ phase <= target
  /\ phase > 0 => arg = Len(argv) + 1
  /\ status = "running" => written = 1 .. phase - 1
  /\ status # "running" => \E n \in 0 .. CodeGen : written = 1 .. n
  /\ status = "0" /\ phase = 0 => OptionsAt("-h") # {}
  /\ status = "0" /\ phase > 0 => written = 1 .. target

-----------------------------------------------------------------------------

LEMMA ArgumentsStart == Init => ArgumentsInv
<1> SUFFICES ASSUME Init PROVE ArgumentsInv
  OBVIOUS
<1>1. argv \in Seq(STRING) /\ arg = 1 /\ target = CodeGen
  BY CommandsAssumption DEF Init
<1>2. Len(argv) \in Nat /\ DOMAIN argv = 1 .. Len(argv)
  BY <1>1
<1>3. \A o : OptionsAt(o) \subseteq 1 .. Len(argv)
  BY <1>2 DEF OptionsAt
<1>4. {i \in OptionsAt("-p") : i < arg} = {}
  BY <1>1, <1>2, <1>3
<1>5. \A i \in OptionsAt("-h") : arg <= i
  BY <1>1, <1>2, <1>3
<1> QED BY <1>1, <1>2, <1>4, <1>5, FirstIsNoValue DEF ArgumentsInv, TargetRead

\* Nothing about the arguments changes unless one of them is read.
LEMMA ArgumentsStay ==
  ASSUME ArgumentsInv, UNCHANGED argumentVars
  PROVE  ArgumentsInv'
BY DEF ArgumentsInv, argumentVars, TargetRead, OptionsAt, IsValue

LEMMA OptionKeeps ==
  ASSUME ArgumentsInv, Option
  PROVE  ArgumentsInv'
<1>1. /\ argv' = argv /\ arg' = arg + 2 /\ argv[arg] \in ValueOptions /\ arg < Len(argv)
      /\ argv[arg] # "-h"
  BY DEF Option, Behind, ValueOptions
<1>2. argv \in Seq(STRING) /\ Len(argv) \in Nat /\ arg \in 1 .. Len(argv) /\ ~ IsValue(arg)
      /\ DOMAIN argv = 1 .. Len(argv)
  BY <1>1 DEF ArgumentsInv
<1>3. IsValue(arg + 1) /\ ~ IsValue(arg + 2)
  <2>1. arg \in Nat \ {0} /\ arg + 1 \in Nat \ {0} /\ (arg + 1) + 1 = arg + 2
    BY <1>2
  <2>2. IsValue(arg + 1)
    BY <1>1, <1>2, <2>1, NextIsValue
  <2>3. ~ IsValue((arg + 1) + 1)
    BY <2>1, <2>2, NextIsValue
  <2> QED BY <2>1, <2>2, <2>3
<1>4. \A i : IsValue(i)' <=> IsValue(i)
  BY <1>1 DEF IsValue
<1>5. \A o : OptionsAt(o)' = OptionsAt(o)
  BY <1>1, <1>4 DEF OptionsAt
<1>6. \A o : \A i \in OptionsAt(o) : i < arg + 2 <=> i < arg \/ i = arg
  BY <1>2, <1>3 DEF OptionsAt
<1>7. ~ IsValue(arg)' /\ arg' \in 1 .. Len(argv) + 1
  BY <1>1, <1>2, <1>3, <1>4
<1>8. \A i \in OptionsAt("-h") : arg' <= i
  <2> SUFFICES ASSUME NEW i \in OptionsAt("-h") PROVE arg' <= i
    OBVIOUS
  <2>1. argv[i] = "-h" /\ i \in 1 .. Len(argv) /\ arg <= i
    BY <1>2 DEF OptionsAt, ArgumentsInv
  <2>2. ~ (i < arg + 2)
    BY <1>1, <1>2, <1>6, <2>1
  <2> QED BY <1>1, <1>2, <2>1, <2>2
<1>9. TargetRead'
  <2> DEFINE before == {i \in OptionsAt("-p") : i < arg}
             upto == {i \in OptionsAt("-p") : i < arg + 2}
  <2>1. CASE argv[arg] = "-p"
    <3>1. argv[arg + 1] \in PhaseNames /\ target' = PhaseOf[argv[arg + 1]]
      BY <2>1 DEF Option
    <3>2. arg \in upto /\ \A j \in upto : j <= arg
      BY <1>2, <1>6, <2>1 DEF OptionsAt
    <3> QED BY <1>1, <1>5, <3>1, <3>2 DEF TargetRead
  <2>2. CASE argv[arg] # "-p"
    <3>1. target' = target
      BY <2>2 DEF Option
    <3>2. arg \notin OptionsAt("-p")
      BY <2>2 DEF OptionsAt
    <3>3. upto = before
      BY <1>6, <3>2
    <3>4. TargetRead
      BY DEF ArgumentsInv
    <3> QED BY <1>1, <1>5, <3>1, <3>3, <3>4 DEF TargetRead
  <2> QED BY <2>1, <2>2
<1> QED BY <1>1, <1>2, <1>5, <1>7, <1>8, <1>9 DEF ArgumentsInv

LEMMA InputKeeps ==
  ASSUME ArgumentsInv, Input
  PROVE  ArgumentsInv'
<1>1. /\ argv' = argv /\ arg' = arg + 1 /\ target' = target /\ arg <= Len(argv)
      /\ argv[arg] \notin ValueOptions /\ argv[arg] # "-h" /\ argv[arg] # "-p"
  BY DEF Input, Reading, ValueOptions
<1>2. argv \in Seq(STRING) /\ Len(argv) \in Nat /\ arg \in 1 .. Len(argv)
      /\ DOMAIN argv = 1 .. Len(argv)
  BY <1>1 DEF ArgumentsInv
<1>3. ~ IsValue(arg + 1)
  BY <1>1, <1>2, NextIsValue
<1>4. \A i : IsValue(i)' <=> IsValue(i)
  BY <1>1 DEF IsValue
<1>5. \A o : OptionsAt(o)' = OptionsAt(o)
  BY <1>1, <1>4 DEF OptionsAt
<1>6. ~ IsValue(arg)' /\ arg' \in 1 .. Len(argv) + 1
  BY <1>1, <1>2, <1>3, <1>4
<1>7. arg \notin OptionsAt("-h") /\ arg \notin OptionsAt("-p")
  BY <1>1 DEF OptionsAt
<1>8. \A o : OptionsAt(o) \subseteq 1 .. Len(argv)
  BY <1>2 DEF OptionsAt
<1>9. \A i \in OptionsAt("-h") : arg' <= i
  BY <1>1, <1>2, <1>7, <1>8 DEF ArgumentsInv
<1>10. TargetRead'
  <2>1. {i \in OptionsAt("-p") : i < arg + 1} = {i \in OptionsAt("-p") : i < arg}
    BY <1>2, <1>7, <1>8
  <2>2. TargetRead
    BY DEF ArgumentsInv
  <2> QED BY <1>1, <1>5, <2>1, <2>2 DEF TargetRead
<1> QED BY <1>1, <1>2, <1>5, <1>6, <1>9, <1>10 DEF ArgumentsInv

LEMMA ArgumentsGoOn == ArgumentsInv /\ [Next]_vars => ArgumentsInv'
<1> SUFFICES ASSUME ArgumentsInv, [Next]_vars PROVE ArgumentsInv'
  OBVIOUS
<1>1. CASE Option
  BY <1>1, OptionKeeps
<1>2. CASE Input
  BY <1>2, InputKeeps
<1>3. CASE ~ Option /\ ~ Input
  <2>1. UNCHANGED argumentVars
    BY <1>3 DEF Next, vars, driverVars, argumentVars, Help, BadOption, NoInput, CannotOpen, NoTable,
                Exit, Start, RunScanner, WriteTokens, ParseFails, ParseSucceeds, DeclareSymbols,
                CheckSemantics, SizeTables, GenerateCode
  <2> QED BY <2>1, ArgumentsStay
<1> QED BY <1>1, <1>2, <1>3

-----------------------------------------------------------------------------

LEMMA PhasesStart == Init => PhasesInv
<1> SUFFICES ASSUME Init PROVE PhasesInv
  OBVIOUS
<1>1. phase = 0 /\ target = CodeGen /\ status = "running" /\ written = {}
  BY DEF Init
<1>2. 1 .. phase - 1 = {}
  BY <1>1
<1> QED BY <1>1, <1>2 DEF PhasesInv, CodeGen, Phases

\* A phase that writes its files and goes on, or ends main.
LEMMA FinishKeeps ==
  ASSUME PhasesInv, ArgumentsInv, NEW p \in Phases, Running(p), Finish(p), UNCHANGED argumentVars
  PROVE  PhasesInv'
<1>1. status = "running" /\ phase = p /\ written = 1 .. p - 1 /\ p \in 1 .. 6 /\ p <= target
      /\ target \in 1 .. 6 /\ arg = Len(argv) + 1
  BY DEF PhasesInv, Running, Phases, CodeGen
<1>2. written' = 1 .. p
  <2>1. (1 .. p - 1) \cup {p} = 1 .. p
    BY <1>1
  <2> QED BY <1>1, <2>1 DEF Finish
<1>3. target' = target /\ arg' = arg /\ argv' = argv
  BY DEF argumentVars
<1>4. CASE p = target
  <2>1. status' = "0" /\ phase' = p
    BY <1>4 DEF Finish, StatusAfter
  <2>2. /\ written' = 1 .. target' /\ target' \in Phases /\ target' \in 0 .. CodeGen
        /\ phase' = target' /\ phase' > 0 /\ arg' = Len(argv') + 1
    BY <1>1, <1>2, <1>3, <1>4, <2>1 DEF Phases, CodeGen
  <2>3. \E n \in 0 .. CodeGen : written' = 1 .. n
    BY <2>2
  <2>4. phase' \in 0 .. CodeGen /\ phase' <= target' /\ phase' # 0 /\ status' # "running"
    BY <2>1, <2>2 DEF Phases, CodeGen
  <2> QED BY <2>1, <2>2, <2>3, <2>4 DEF PhasesInv
<1>5. CASE p # target
  <2>1. status' = "running" /\ phase' = p + 1 /\ p + 1 <= target /\ (p + 1) - 1 = p
    BY <1>1, <1>5 DEF Finish, StatusAfter
  <2> QED BY <1>1, <1>2, <1>3, <2>1 DEF PhasesInv, Phases, CodeGen
<1> QED BY <1>4, <1>5

\* main returns or throws before it has run the phase.
LEMMA ExitKeeps ==
  ASSUME PhasesInv, NEW code, code # "running", Exit(code), status = "running",
         code = "0" => phase = 0 /\ OptionsAt("-h") # {}
  PROVE  PhasesInv'
<1>1. status' = code /\ UNCHANGED <<phase, written, argv, arg, target>>
  BY DEF Exit, argumentVars
<1>2. \E n \in 0 .. CodeGen : written = 1 .. n
  <2>1. CASE phase = 0
    <3>1. 1 .. phase - 1 = 1 .. 0 /\ 0 \in 0 .. CodeGen
      BY <2>1 DEF CodeGen
    <3> QED BY <3>1 DEF PhasesInv
  <2>2. CASE phase # 0
    <3>1. phase - 1 \in 0 .. CodeGen
      BY <2>2 DEF PhasesInv, CodeGen
    <3> QED BY <3>1 DEF PhasesInv
  <2> QED BY <2>1, <2>2
<1>3. OptionsAt("-h")' = OptionsAt("-h")
  BY <1>1 DEF OptionsAt, IsValue
<1> QED BY <1>1, <1>2, <1>3 DEF PhasesInv

LEMMA PhasesGoOn == PhasesInv /\ ArgumentsInv /\ [Next]_vars => PhasesInv'
<1> SUFFICES ASSUME PhasesInv, ArgumentsInv, [Next]_vars PROVE PhasesInv'
  OBVIOUS
<1>1. CASE Help
  <2>1. arg \in OptionsAt("-h")
    BY <1>1 DEF Help, Reading, ArgumentsInv, OptionsAt
  <2> QED BY <1>1, <2>1, ExitKeeps DEF Help, Reading
<1>2. CASE BadOption \/ NoInput
  BY <1>2, ExitKeeps DEF BadOption, NoInput, Reading, HasRead
<1>3. CASE CannotOpen \/ NoTable
  BY <1>3, ExitKeeps DEF CannotOpen, NoTable, Running, HasRead
<1>4. CASE Option
  <2>1. phase = 0 /\ phase' = 0 /\ status = "running" /\ status' = "running" /\ written' = written
    BY <1>4 DEF Option, Reading
  <2>2. target' \in Phases
    BY <1>4, PhasesAssumption DEF Option, PhasesInv
  <2> QED BY <2>1, <2>2 DEF PhasesInv, Phases, CodeGen
<1>5. CASE Input
  <2>1. phase = 0 /\ phase' = 0 /\ status = "running" /\ status' = "running" /\ written' = written
        /\ target' = target
    BY <1>5 DEF Input, Reading
  <2> QED BY <2>1 DEF PhasesInv
<1>6. CASE Start
  <2>1. phase = 0 /\ phase' = 1 /\ status = "running" /\ status' = "running" /\ written' = written
        /\ target' = target /\ arg' = arg /\ argv' = argv /\ arg > Len(argv)
    BY <1>6 DEF Start, HasRead, argumentVars
  <2>2. arg = Len(argv) + 1
    BY <2>1 DEF ArgumentsInv
  <2>3. written' = 1 .. phase' - 1
    BY <2>1 DEF PhasesInv
  <2>4. phase' \in 0 .. CodeGen /\ phase' <= target' /\ target' \in Phases
    BY <2>1 DEF PhasesInv, Phases, CodeGen
  <2> QED BY <2>1, <2>2, <2>3, <2>4 DEF PhasesInv
<1>7. CASE ParseFails
  <2>1. status = "running" /\ phase = 2 /\ written = 1 .. 1 /\ written' = written \cup {2}
        /\ status' = "1" /\ UNCHANGED <<phase, argumentVars>>
    BY <1>7 DEF ParseFails, Running, PhasesInv
  <2>2. written' = 1 .. 2 /\ 2 \in 0 .. CodeGen
    BY <2>1 DEF CodeGen
  <2> QED BY <2>1, <2>2 DEF PhasesInv, argumentVars
<1>8. CASE RunScanner \/ UNCHANGED vars
  BY <1>8 DEF RunScanner, vars, driverVars, PhasesInv, OptionsAt, IsValue
<1>9. CASE WriteTokens \/ ParseSucceeds \/ DeclareSymbols \/ CheckSemantics \/ SizeTables
           \/ GenerateCode
  <2>1. PICK p \in Phases : Running(p) /\ Finish(p) /\ UNCHANGED argumentVars
    BY <1>9 DEF WriteTokens, ParseSucceeds, DeclareSymbols, CheckSemantics, SizeTables, GenerateCode,
                Phases, CodeGen
  <2> QED BY <2>1, FinishKeeps
<1> QED BY <1>1, <1>2, <1>3, <1>4, <1>5, <1>6, <1>7, <1>8, <1>9 DEF Next

\* The largest of a set of numbers is the one that LastOf takes.
LEMMA LastIs ==
  ASSUME NEW S \in SUBSET Int, NEW i \in S, \A j \in S : j <= i
  PROVE  LastOf(S) = i
<1>1. \A k \in S : (\A j \in S : j <= k) => k = i
  OBVIOUS
<1> QED BY <1>1 DEF LastOf

\* When all the arguments are read the target is the phase that was asked for.
LEMMA AskedIsTarget ==
  ASSUME ArgumentsInv, arg = Len(argv) + 1
  PROVE  target = AskedPhase
<1> DEFINE asked == OptionsAt("-p")
<1>1. asked \in SUBSET Int /\ \A i \in asked : i < arg
  BY DEF OptionsAt, ArgumentsInv
<1>2. {i \in asked : i < arg} = asked
  BY <1>1
<1>3. TargetRead
  BY DEF ArgumentsInv
<1>4. CASE asked = {}
  BY <1>2, <1>3, <1>4 DEF TargetRead, AskedPhase
<1>5. CASE asked # {}
  <2>1. PICK i \in asked : (\A j \in asked : j <= i) /\ target = PhaseOf[argv[i + 1]]
    BY <1>2, <1>3, <1>5 DEF TargetRead
  <2>2. LastOf(asked) = i
    BY <1>1, <2>1, LastIs
  <2> QED BY <1>5, <2>1, <2>2 DEF AskedPhase
<1> QED BY <1>4, <1>5

LEMMA DriverInvariant == Spec => [](ArgumentsInv /\ PhasesInv)
<1> QED BY ArgumentsStart, PhasesStart, ArgumentsGoOn, PhasesGoOn, PTL DEF Spec

LEMMA RunsAsAsked == ArgumentsInv /\ PhasesInv => RunsUpToTheAskedPhase
<1> SUFFICES ASSUME ArgumentsInv, PhasesInv PROVE RunsUpToTheAskedPhase
  OBVIOUS
<1>1. \E n \in 0 .. CodeGen : written = 1 .. n
  <2>1. CASE status = "running" /\ phase = 0
    <3>1. 1 .. phase - 1 = 1 .. 0 /\ 0 \in 0 .. CodeGen
      BY <2>1 DEF CodeGen
    <3> QED BY <2>1, <3>1 DEF PhasesInv
  <2>2. CASE status = "running" /\ phase # 0
    <3>1. phase - 1 \in 0 .. CodeGen
      BY <2>2 DEF PhasesInv, CodeGen
    <3> QED BY <2>2, <3>1 DEF PhasesInv
  <2>3. CASE status # "running"
    BY <2>3 DEF PhasesInv
  <2> QED BY <2>1, <2>2, <2>3
<1>2. ASSUME status = "0", OptionsAt("-h") = {}
      PROVE  written = 1 .. AskedPhase
  <2>1. phase > 0
    BY <1>2 DEF PhasesInv
  <2>2. arg = Len(argv) + 1 /\ written = 1 .. target
    BY <1>2, <2>1 DEF PhasesInv
  <2> QED BY <2>2, AskedIsTarget
<1> QED BY <1>1, <1>2 DEF RunsUpToTheAskedPhase

\* Whatever the command line and whatever the phases find: a phase has run only if
\* those before it have, main returns 0 only when the phase that was asked for has run
\* and no other behind it, and code is generated from the tables that have the sizes.
THEOREM PhasesStand == Spec => []PhasesBuildUp
<1>1. ArgumentsInv /\ PhasesInv /\ CodeHasSizes => PhasesBuildUp
  BY RunsAsAsked DEF PhasesBuildUp
<1> QED BY <1>1, DriverInvariant, CodeIsSized, PTL

-----------------------------------------------------------------------------

\* What the first phase reports, of the tokens that are there.
Reported == Kept(tokens, {tokens[i] : i \in {j \in DOMAIN tokens : tokens[j].type \in InvalidTypes}})

ReportsInv == 1 \in written => lexErrors = Reported

LEMMA ReportsGoOn == PhasesInv /\ ReportsInv /\ [Next]_vars => ReportsInv'
<1> SUFFICES ASSUME PhasesInv, ReportsInv, [Next]_vars PROVE ReportsInv'
  OBVIOUS
<1>1. CASE WriteTokens
  BY <1>1 DEF WriteTokens, ReportsInv, Reported, scannerVars
<1>2. CASE RunScanner
  <2>1. written = 1 .. 0 /\ written' = written
    BY <1>2 DEF RunScanner, Running, PhasesInv, driverVars
  <2> QED BY <2>1 DEF ReportsInv
<1>3. CASE ~ WriteTokens /\ ~ RunScanner
  <2>1. UNCHANGED <<tokens, lexErrors>>
    BY <1>3 DEF Next, vars, driverVars, scannerVars, Help, BadOption, NoInput, CannotOpen, NoTable,
                Exit, Option, Input, Start, ParseFails, ParseSucceeds, DeclareSymbols,
                CheckSemantics, SizeTables, GenerateCode
  <2>2. 1 \in written' => 1 \in written
    <3>1. UNCHANGED written \/ \E p \in 2 .. 6 : written' = written \cup {p}
      BY <1>3 DEF Next, vars, driverVars, Help, BadOption, NoInput, CannotOpen, NoTable,
                  Exit, Option, Input, Start, ParseFails, ParseSucceeds, DeclareSymbols,
                  CheckSemantics, SizeTables, GenerateCode, Finish
    <3> QED BY <3>1
  <2> QED BY <2>1, <2>2 DEF ReportsInv, Reported
<1> QED BY <1>1, <1>2, <1>3

LEMMA ReportsAreRight == ScanInv /\ ReportsInv => InvalidTokensAreReported
<1> SUFFICES ASSUME ScanInv, ReportsInv, 1 \in written
             PROVE  /\ \A i \in DOMAIN tokens :
                         tokens[i].type \notin {"id", "keyword", "intlit", "floatlit", "operator",
                                                "punctuation"} \cup Comments
                           => \E e \in DOMAIN lexErrors : lexErrors[e] = tokens[i]
                    /\ \A e, f \in DOMAIN lexErrors : e < f => lexErrors[e].last < lexErrors[f].first
  BY DEF InvalidTokensAreReported
<1> DEFINE S == {tokens[i] : i \in {j \in DOMAIN tokens : tokens[j].type \in InvalidTypes}}
<1>1. tokens \in Seq(TokenSet)
  BY DEF ScanInv, ScanType
<1>2. lexErrors = Kept(tokens, S)
  BY DEF ReportsInv, Reported
<1>3. \A i \in DOMAIN tokens : tokens[i].type \in TokenTypes
  <2>1. \A i \in DOMAIN tokens : tokens[i] \in TokenSet
    BY <1>1
  <2> QED BY <2>1 DEF TokenSet
<1>4. ASSUME NEW i \in DOMAIN tokens,
             tokens[i].type \notin {"id", "keyword", "intlit", "floatlit", "operator",
                                    "punctuation"} \cup Comments
      PROVE  \E e \in DOMAIN lexErrors : lexErrors[e] = tokens[i]
  <2>1. tokens[i] \in S
    BY <1>3, <1>4 DEF TokenTypes
  <2> HIDE DEF S
  <2> QED BY <1>1, <1>2, <2>1, KeptElements
<1>5. ASSUME NEW e \in DOMAIN lexErrors, NEW f \in DOMAIN lexErrors, e < f
      PROVE  lexErrors[e].last < lexErrors[f].first
  <2> HIDE DEF S
  <2>1. PICK at : IsPick(at, lexErrors, tokens, Len(tokens))
    BY <1>1, <1>2, KeptSifts DEF Sifts
  <2>2. lexErrors \in Seq(S)
    BY <1>1, <1>2, KeptSifts DEF Sifts
  <2>3. e \in 1 .. Len(lexErrors) /\ f \in 1 .. Len(lexErrors) /\ DOMAIN tokens = 1 .. Len(tokens)
    BY <1>1, <2>2
  <2>4. /\ at[e] \in DOMAIN tokens /\ at[f] \in DOMAIN tokens /\ at[e] < at[f]
        /\ lexErrors[e] = tokens[at[e]] /\ lexErrors[f] = tokens[at[f]]
    BY <1>5, <2>1, <2>3 DEF IsPick
  <2> QED BY <2>4 DEF ScanInv, Ordered
<1> QED BY <1>4, <1>5

\* Whatever the text: each invalid token that the compiler has passed over was
\* reported, and the reports are in the order of the text.
THEOREM InvalidTokensReported == Spec => []InvalidTokensAreReported
<1>1. Init => ReportsInv BY DEF Init, ReportsInv
<1>2. Spec => []ReportsInv
  BY <1>1, DriverInvariant, ReportsGoOn, PTL DEF Spec
<1>3. Spec => []ScanInv
  BY CompilerScans, ScanStarts, ScanGoesOn, PTL DEF ScanSpec
<1> QED BY <1>2, <1>3, ReportsAreRight, PTL

=============================================================================
