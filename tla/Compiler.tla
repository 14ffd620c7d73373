------------------------------ MODULE Compiler ------------------------------
(***************************************************************************)
(* The compiler's main: it reads its arguments and runs the phases one     *)
(* after the other, up to the one that was asked for.                      *)
(*                                                                         *)
(* The first phase is Scanner.  Of the others this module has what main    *)
(* knows of them: that they find errors, which files they write, and which *)
(* copy of the symbol tables each of them is given.  A copy is kept as the *)
(* set of what was done to it: "declared" by the third phase, "sized" by   *)
(* the fifth.                                                              *)
(***************************************************************************)
EXTENDS Scanner

CONSTANTS
  Commands,    \* the command lines, sequences of arguments
  Readable,    \* the arguments that name files which can be opened
  PhaseNames,  \* the names that --phase knows
  PhaseOf      \* the phase of such a name

CodeGen == 6
Phases == 1 .. CodeGen
DefaultTable == "attribute_grammar_parsing_table.csv"
NoFile == ""

ASSUME CommandsAssumption == \A c \in Commands : c \in Seq(STRING)

ASSUME PhasesAssumption == PhaseOf \in [PhaseNames -> Phases]

VARIABLES
  argv,       \* the command line
  arg,        \* the index of the argument that is read next
  target,     \* targetPhase
  tableFile, inputFile,
  phase,      \* the phase that runs, 0 before the first
  status,     \* "running", the exit code as a string, or "aborted"
  written,    \* the phases that have written their files
  lexErrors,  \* the tokens that the first phase reported
  errors,     \* the phases that found errors
  declared,   \* the tables of SymbolTableVisitor
  sized,      \* the copy that MemSizeVisitor works on
  coded       \* the copy that CodeGenVisitor is given

driverVars == <<argv, arg, target, tableFile, inputFile, phase, status, written,
                lexErrors, errors, declared, sized, coded>>

argumentVars == <<argv, arg, target, tableFile, inputFile>>
tableVars == <<declared, sized, coded>>

Init ==
  /\ ScannerInit
  /\ argv \in Commands
  /\ arg = 1
  /\ target = CodeGen
  /\ tableFile = DefaultTable
  /\ inputFile = NoFile
  /\ phase = 0
  /\ status = "running"
  /\ written = {}
  /\ lexErrors = <<>>
  /\ errors = {}
  /\ declared = {} /\ sized = {} /\ coded = {}

-----------------------------------------------------------------------------

Reading == status = "running" /\ phase = 0 /\ arg <= Len(argv)

Exit(code) ==
  /\ status' = code
  /\ UNCHANGED <<scannerVars, argumentVars, phase, written, lexErrors, errors, tableVars>>

Help == Reading /\ argv[arg] = "-h" /\ Exit("0")

ValueOptions == {"-t", "-o", "-p"}

\* An option at the end of the command line has no value, or the phase is unknown.
BadOption ==
  /\ Reading /\ argv[arg] \in ValueOptions
  /\ \/ arg = Len(argv)
     \/ arg < Len(argv) /\ argv[arg] = "-p" /\ argv[arg + 1] \notin PhaseNames
  /\ Exit("1")

Behind == arg + 2

\* The output directory is made and then never used.
Option ==
  /\ Reading /\ argv[arg] \in ValueOptions /\ arg < Len(argv)
  /\ LET value == argv[arg + 1]
     IN  /\ argv[arg] = "-p" => value \in PhaseNames
         /\ target' = IF argv[arg] = "-p" THEN PhaseOf[value] ELSE target
         /\ tableFile' = IF argv[arg] = "-t" THEN value ELSE tableFile
  /\ arg' = Behind
  /\ UNCHANGED <<scannerVars, argv, inputFile, phase, status, written, lexErrors, errors,
                 tableVars>>

\* Any other argument is the input file; the last one counts.
Input ==
  /\ Reading /\ argv[arg] \notin ValueOptions \cup {"-h"}
  /\ inputFile' = argv[arg]
  /\ arg' = arg + 1
  /\ UNCHANGED <<scannerVars, argv, target, tableFile, phase, status, written, lexErrors,
                 errors, tableVars>>

HasRead == status = "running" /\ phase = 0 /\ arg > Len(argv)

NoInput == HasRead /\ inputFile = NoFile /\ Exit("1")

\* The scanner's constructor throws, and nothing catches it.
CannotOpen == HasRead /\ inputFile \notin Readable \cup {NoFile} /\ Exit("aborted")

Start ==
  /\ HasRead /\ inputFile \in Readable
  /\ phase' = 1
  /\ UNCHANGED <<scannerVars, argumentVars, status, written, lexErrors, errors, tableVars>>

-----------------------------------------------------------------------------

Running(p) == status = "running" /\ phase = p

\* Bug: the phase that was asked for is left out.
StopBefore(p) == IF p + 1 >= target THEN "0" ELSE "running"

\* main returns after the phase that was asked for, and after the last.
StatusAfter(p) == IF p = target THEN "0" ELSE "running"

\* A phase has written its files, and main goes on to the next or returns.
Finish(p) ==
  /\ written' = written \cup {p}
  /\ status' = StatusAfter(p)
  /\ phase' = IF p = target THEN p ELSE p + 1

RunScanner ==
  /\ Running(1) /\ pc # "end"
  /\ ScanStep
  /\ UNCHANGED driverVars

\* writeOutputsToFile: the parser is given the tokens, the invalid ones too, which it
\* passes over.
WriteTokens ==
  /\ Running(1) /\ pc = "end"
  /\ lexErrors' = Kept(tokens, {tokens[i] : i \in {j \in DOMAIN tokens : tokens[j].type \in InvalidTypes}})
  /\ Finish(1)
  /\ UNCHANGED <<scannerVars, argumentVars, errors, tableVars>>

\* Parser's constructor throws if the table cannot be loaded.
NoTable ==
  /\ Running(2) /\ tableFile \notin Readable
  /\ Exit("aborted")

ParseFails ==
  /\ Running(2) /\ tableFile \in Readable
  /\ written' = written \cup {2}
  /\ errors' = errors \cup {2}
  /\ status' = "1"
  /\ UNCHANGED <<scannerVars, argumentVars, phase, lexErrors, tableVars>>

ParseSucceeds ==
  /\ Running(2) /\ tableFile \in Readable
  /\ Finish(2)
  /\ UNCHANGED <<scannerVars, argumentVars, lexErrors, errors, tableVars>>

\* The errors of this phase are written by the next one.
DeclareSymbols ==
  /\ Running(3)
  /\ declared' = {"declared"}
  /\ errors' \in {errors, errors \cup {3}}
  /\ Finish(3)
  /\ UNCHANGED <<scannerVars, argumentVars, lexErrors, sized, coded>>

\* The result of this phase is kept and not looked at.
CheckSemantics ==
  /\ Running(4)
  /\ errors' \in {errors, errors \cup {4}}
  /\ Finish(4)
  /\ UNCHANGED <<scannerVars, argumentVars, lexErrors, tableVars>>

\* The visitor gets a copy of the tables of phase 3.
SizeTables ==
  /\ Running(5)
  /\ sized' = declared \cup {"sized"}
  /\ Finish(5)
  /\ UNCHANGED <<scannerVars, argumentVars, lexErrors, errors, declared, coded>>

\* getGlobalTable of the fifth phase's visitor.
TablesOfCode == sized

GenerateCode ==
  /\ Running(6)
  /\ coded' = TablesOfCode
  /\ Finish(6)
  /\ UNCHANGED <<scannerVars, argumentVars, lexErrors, errors, declared, sized>>

Next ==
  \/ Help \/ BadOption \/ Option \/ Input \/ NoInput \/ CannotOpen \/ Start
  \/ RunScanner \/ WriteTokens
  \/ NoTable \/ ParseFails \/ ParseSucceeds
  \/ DeclareSymbols \/ CheckSemantics \/ SizeTables \/ GenerateCode

vars == <<scannerVars, driverVars>>

Spec == Init /\ [][Next]_vars

\* One thread runs main, and nothing in it waits.
FairSpec == Spec /\ WF_vars(Next)

-----------------------------------------------------------------------------

(***************************************************************************)
(* What the usage text of the compiler says of its arguments, and what its *)
(* phases need of each other.                                              *)
(***************************************************************************)

\* The i-th argument is the value of the option before it: there is an odd number of
\* options in a row before it.
IsValue(i) ==
  \E n \in 1 .. i - 1 :
    /\ n % 2 = 1
    /\ \A j \in i - n .. i - 1 : argv[j] \in ValueOptions
    /\ i - n > 1 => argv[i - n - 1] \notin ValueOptions

OptionsAt(o) == {i \in DOMAIN argv : argv[i] = o /\ ~ IsValue(i)}

LastOf(S) == CHOOSE i \in S : \A j \in S : j <= i

AskedPhase ==
  IF OptionsAt("-p") = {} THEN CodeGen ELSE PhaseOf[argv[LastOf(OptionsAt("-p")) + 1]]

\* "Specify the compiler phase to run up to": when the compiler returns 0 and was not
\* asked for help, the phases up to the one asked for have written their files, and no
\* other; whatever it returns, no phase has run without those before it.
RunsUpToTheAskedPhase ==
  /\ \E n \in 0 .. CodeGen : written = 1 .. n
  /\ status = "0" /\ OptionsAt("-h") = {} => written = 1 .. AskedPhase

\* Code is generated from the tables that the memory phase has filled with sizes and
\* offsets, and these are copies of the tables of the symbol phase.
CodeHasSizes == CodeGen \in written => coded = {"declared", "sized"}

\* Whatever the arguments and whatever the phases find, each phase has those before it
\* behind it, and the last has the tables that the one before it has changed.
PhasesBuildUp == RunsUpToTheAskedPhase /\ CodeHasSizes

\* However the compiler ends, each invalid token that it has read was reported once,
\* in the order of the text.
InvalidTokensAreReported ==
  1 \in written =>
    /\ \A i \in DOMAIN tokens :
         tokens[i].type \notin {"id", "keyword", "intlit", "floatlit", "operator",
                                "punctuation"} \cup Comments
           => \E e \in DOMAIN lexErrors : lexErrors[e] = tokens[i]
    /\ \A e, f \in DOMAIN lexErrors : e < f => lexErrors[e].last < lexErrors[f].first

\* Every command line and every text ends the compiler, if only by an exception.
CompilerEnds == <>(status # "running")

=============================================================================
