--------------------------------- MODULE Moon ---------------------------------
(***************************************************************************)
(* The Moon simulator running the code of a compiled program.              *)
(*                                                                         *)
(* An instruction is a step.  pc is the number of the instruction, which   *)
(* is also what a jump and link saves, and mem holds the words stored so   *)
(* far, the others being zero.  The routines of tools/lib.m are a step     *)
(* each; text is the number whose digits are in the buffer.                *)
(***************************************************************************)
EXTENDS Common, FiniteSets, TLC

\* The code of each program, and the numbers that may be typed into it.
CONSTANTS Code, Inputs

ASSUME InputsAssumption == DOMAIN Inputs = DOMAIN Code

\* calls, the calls that have not returned, and prog and typed, the choice of a
\* program and its input, are for the properties.
VARIABLES prog, typed, status, code, pc, regs, mem, text, in, out, calls

vars == <<prog, typed, status, code, pc, regs, mem, text, in, out, calls>>

-----------------------------------------------------------------------------

\* The loader: the symbols are the labels, with the numbers of the instructions that
\* follow them.
IsLabel(line) == line[1] = "label"

LabelLines(lines, name) == {i \in DOMAIN lines : IsLabel(lines[i]) /\ lines[i][2] = name}

LineNumber(lines, i) == Cardinality({j \in 1 .. i - 1 : ~IsLabel(lines[j])}) + 1

Library == {"intstr", "putstr", "putnl", "getstr", "strint"}

Jumps == {"bz", "bnz", "j", "jl"}

Symbols(lines) == {lines[i][2] : i \in {j \in DOMAIN lines : IsLabel(lines[j])}}

Used(lines) == {lines[i][Len(lines[i])] : i \in {j \in DOMAIN lines : lines[j][1] \in Jumps}}

\* Every register operand is a register; the last operand of the other formats is a
\* constant.
RegisterOperands(line) ==
  CASE line[1] = "lw" -> {line[2], line[4]}
    [] line[1] = "sw" -> {line[3], line[4]}
    [] line[1] \in {"addi", "subi", "muli"} -> {line[2], line[3]}
    [] line[1] \in {"bz", "bnz", "jl", "jr"} -> {line[2]}
    [] line[1] \in {"label", "j", "hlt"} -> {}
    [] OTHER -> {line[2], line[3], line[4]}

LoadedCode(lines) ==
  [lines |-> SelectSeq(lines, LAMBDA line : ~IsLabel(line)),
   at |-> [name \in Symbols(lines) |->
             LineNumber(lines, CHOOSE i \in LabelLines(lines, name) : TRUE)],
   accepted |->
     /\ \A name \in Symbols(lines) : Cardinality(LabelLines(lines, name)) = 1
     /\ Symbols(lines) \cap Library = {}
     /\ Used(lines) \subseteq Symbols(lines) \cup Library
     /\ \A i \in DOMAIN lines : RegisterOperands(lines[i]) \subseteq 0 .. 15]

Loaded == Through(LAMBDA done, c : Append(done, LoadedCode(c)), <<>>, Code)

\* The execution starts at main.
LoadProgram ==
  /\ status = "loading"
  /\ code' = Loaded[prog]
  /\ IF code'.accepted THEN status' = "running" /\ pc' = code'.at["main"]
                       ELSE status' = "refused" /\ UNCHANGED pc
  /\ UNCHANGED <<prog, typed, regs, mem, text, in, out, calls>>

-----------------------------------------------------------------------------

Line == code.lines[pc]
Op == Line[1]

Fetched == status = "running"

Word(a) == IF a \in DOMAIN mem THEN mem[a] ELSE 0

IsAddress(a) == a \in 0 .. TopAddress /\ a % 4 = 0

\* storereg: register 0 stays 0.
Stored(r, v) == IF r = 0 THEN regs ELSE [regs EXCEPT ![r] = v]

Bit(b) == IF b THEN 1 ELSE 0

Computed(op, a, b) ==
  CASE op \in {"add", "addi"} -> a + b
    [] op \in {"sub", "subi"} -> a - b
    [] op \in {"mul", "muli"} -> a * b
    [] op = "div" -> Quotient(a, b)
    [] op = "ceq" -> Bit(a = b)
    [] op = "cne" -> Bit(a # b)
    [] op = "clt" -> Bit(a < b)
    [] op = "cle" -> Bit(a <= b)
    [] op = "cgt" -> Bit(a > b)
    [] op = "cge" -> Bit(a >= b)

Immediate == {"addi", "subi", "muli"}

Compute ==
  /\ Fetched
  /\ Op \in Immediate \cup {"add", "sub", "mul", "div", "ceq", "cne", "clt", "cle", "cgt", "cge"}
  /\ LET right == IF Op \in Immediate THEN Line[4] ELSE regs[Line[4]]
     IN  IF Op = "div" /\ right = 0
         THEN status' = "division by zero" /\ UNCHANGED <<pc, regs>>
         ELSE /\ regs' = Stored(Line[2], Computed(Op, regs[Line[3]], right))
              /\ pc' = pc + 1
              /\ UNCHANGED status
  /\ UNCHANGED <<prog, typed, code, mem, text, in, out, calls>>

LoadWord ==
  /\ Fetched /\ Op = "lw"
  /\ LET a == regs[Line[4]] + Line[3]
     IN  IF IsAddress(a)
         THEN regs' = Stored(Line[2], Word(a)) /\ pc' = pc + 1 /\ UNCHANGED status
         ELSE status' = "address error" /\ UNCHANGED <<regs, pc>>
  /\ UNCHANGED <<prog, typed, code, mem, text, in, out, calls>>

StoreWord ==
  /\ Fetched /\ Op = "sw"
  /\ LET a == regs[Line[3]] + Line[2]
     IN  IF IsAddress(a)
         THEN mem' = (a :> regs[Line[4]]) @@ mem /\ pc' = pc + 1 /\ UNCHANGED status
         ELSE status' = "address error" /\ UNCHANGED <<mem, pc>>
  /\ UNCHANGED <<prog, typed, code, regs, text, in, out, calls>>

\* bz, bnz and j.
Jump ==
  /\ Fetched /\ Op \in {"bz", "bnz", "j"}
  /\ LET taken == \/ Op = "j"
                  \/ Op = "bz" /\ regs[Line[2]] = 0
                  \/ Op = "bnz" /\ regs[Line[2]] # 0
     IN  pc' = IF taken THEN code.at[Line[Len(Line)]] ELSE pc + 1
  /\ UNCHANGED <<prog, typed, code, status, regs, mem, text, in, out, calls>>

\* A call of a function of the program: calls gets the state it must be restored to.
JumpAndSaveLink ==
  /\ Fetched /\ Op = "jl" /\ Line[3] \notin Library
  /\ regs' = Stored(Line[2], pc + 1)
  /\ pc' = code.at[Line[3]]
  /\ calls' = <<[back |-> pc + 1, sp |-> regs[Sp], words |-> mem]>> \o calls
  /\ UNCHANGED <<prog, typed, code, status, mem, text, in, out>>

\* A link that is no instruction is a run-time error.
JumpToRegister ==
  /\ Fetched /\ Op = "jr"
  /\ IF regs[Line[2]] \in DOMAIN code.lines
     THEN pc' = regs[Line[2]] /\ UNCHANGED status
     ELSE status' = "illegal instruction" /\ UNCHANGED pc
  /\ calls' = IF calls = <<>> THEN calls ELSE Tail(calls)
  /\ UNCHANGED <<prog, typed, code, regs, mem, text, in, out>>

Halt ==
  /\ Fetched /\ Op = "hlt"
  /\ status' = "halted"
  /\ UNCHANGED <<prog, typed, code, pc, regs, mem, text, in, out, calls>>

-----------------------------------------------------------------------------

\* The library.  Its routines take their arguments at -8 and -12 of r14 and leave
\* other values in the registers they use.
Junk == 7777

Routine(name) == Fetched /\ Op = "jl" /\ Line[3] = name

Argument(k) == Word(regs[Sp] - 4 - 4 * k)

Clobbered(used, r13) ==
  [r \in DOMAIN regs |-> CASE r \in used -> Junk [] r = Result -> r13 [] r = Link -> pc + 1
                           [] OTHER -> regs[r]]

Back == pc' = pc + 1 /\ UNCHANGED <<prog, typed, code, status, mem, calls>>

IntStr ==
  /\ Routine("intstr") /\ Argument(2) = Buffer
  /\ text' = Argument(1)
  /\ regs' = Clobbered(1 .. 3, Buffer)
  /\ UNCHANGED <<in, out>> /\ Back

\* out has the numbers of each line.
PutStr ==
  /\ Routine("putstr") /\ Argument(1) = Buffer
  /\ out' = [out EXCEPT ![Len(out)] = Append(@, text)]
  /\ regs' = Clobbered(1 .. 3, regs[Result])
  /\ UNCHANGED <<text, in>> /\ Back

PutNl ==
  /\ Routine("putnl")
  /\ out' = Append(out, <<>>)
  /\ regs' = Clobbered({1}, regs[Result])
  /\ UNCHANGED <<text, in>> /\ Back

GetStr ==
  /\ Routine("getstr") /\ Argument(1) = Buffer /\ in # <<>>
  /\ text' = Head(in)
  /\ in' = Tail(in)
  /\ regs' = Clobbered(1 .. 3, regs[Result])
  /\ UNCHANGED out /\ Back

StrInt ==
  /\ Routine("strint") /\ Argument(1) = Buffer
  /\ regs' = Clobbered(1 .. 4, text)
  /\ UNCHANGED <<text, in, out>> /\ Back

-----------------------------------------------------------------------------

Init ==
  /\ prog \in DOMAIN Inputs
  /\ typed \in Inputs[prog]
  /\ status = "loading"
  /\ code = [lines |-> <<>>]
  /\ pc = 0
  /\ regs = [r \in 0 .. 15 |-> 0]
  /\ mem = <<>>
  /\ text = 0
  /\ in = typed
  /\ out = << <<>> >>
  /\ calls = <<>>

Instruction ==
  \/ Compute \/ LoadWord \/ StoreWord \/ Jump \/ JumpAndSaveLink \/ JumpToRegister
  \/ Halt

LibraryRoutine == IntStr \/ PutStr \/ PutNl \/ GetStr \/ StrInt

Stopped == status \notin {"loading", "running"} /\ UNCHANGED vars

Next == LoadProgram \/ Instruction \/ LibraryRoutine \/ Stopped

Spec == Init /\ [][Next]_vars /\ WF_vars(Next)

===============================================================================
