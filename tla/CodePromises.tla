----------------------------- MODULE CodePromises -----------------------------
(***************************************************************************)
(* What the compiled programs promise: the lines of their source, and a    *)
(* stack and registers that every call gives back.                         *)
(***************************************************************************)
EXTENDS Moon, CodeGen

\* The lines that the source of each program means, for each input; Code is then what
\* the compiler generates for it.
CONSTANT Meanings

ASSUME ProgramsAssumption == DOMAIN Layouts = DOMAIN Inputs /\ DOMAIN Meanings = DOMAIN Inputs

Compiled == Through(LAMBDA done, layout : Append(done, Generated(layout)), <<>>, Layouts)

LinesOfCode == Through(LAMBDA done, c : Append(done, c.code), <<>>, Compiled)

\* The slots of main, the last function.
MainSlots == Through(LAMBDA done, layout : Append(done, Last(layout.funs).frame.slots), <<>>, Layouts)

\* A function without arrays has no address to write through.
HasNoArrays(fun) == \A x \in DOMAIN fun.frame.slots : fun.frame.slots[x].dims = <<>>

Scalar == {p \in DOMAIN Layouts :
             \A k \in DOMAIN Layouts[p].funs :
               Layouts[p].funs[k].class = "" /\ HasNoArrays(Layouts[p].funs[k])}

-----------------------------------------------------------------------------

Written == SubSeq(out, 1, Len(out) - 1)

\* The code writes the lines that the source means, in their order, and all of them
\* before it halts: temporaries, parameters, members and elements are where the code
\* that uses them looks (CodeGenVisitor and MemSizeVisitor as a whole).
WritesTheMeaning ==
  LET meaning == Meanings[prog][typed]
  IN  /\ IsPrefix(Written, meaning)
      /\ status = "halted" => Written = meaning

\* A function returns to the instruction after its call with the stack pointer of the
\* call, however deep the recursion: the link saved at -4(r14) is intact, and r14
\* goes up by what it went down (visitFunctionCall, visitReturnStatement).
ReturnsToItsCall ==
  status = "running" /\ Op = "jr" =>
    /\ calls # <<>>
    /\ regs[Line[2]] = Head(calls).back
    /\ regs[Sp] = Head(calls).sp

\* A call leaves the frames above its own as they were, up to the word at 0(r14),
\* where the value returned goes: no slot and no argument of the callee overlaps a
\* live slot of a caller.
CallsKeepTheFrames ==
  status = "running" /\ Op = "jr" /\ prog \in Scalar =>
    \A a \in DOMAIN Head(calls).words :
      a > Head(calls).sp => mem[a] = Head(calls).words[a]

\* A name without dimensions that is indexed: a variable, or a member of the class of
\* the object before it.
IndexesNoArray(node, env) ==
  LET object == [class |-> ObjectClass(node.kids[1], env), reg |-> 0]
      member == node.kids[2]
  IN  \/ /\ node.kind = "ARRAY_ACCESS" /\ node.kids[1].kind = "IDENTIFIER"
         /\ ArraySymbol(node.kids[1], NoObject, env).dims = <<>>
      \/ /\ node.kind = "DOT_ACCESS" /\ member.kind = "ARRAY_ACCESS"
         /\ ArraySymbol(member.kids[1], object, env).dims = <<>>

OnlyArraysIndexed(layout) ==
  \A k \in DOMAIN layout.funs :
    LET env == [fun |-> layout.funs[k], layout |-> layout]
    IN  \A node \in NodesOf(env.fun.body) : ~ IndexesNoArray(node, env)

IsWholePool(pool) == Len(pool) = 12 /\ ToSet(pool) = Registers

\* Every register is in the pool again after the last function, once: a visit frees
\* what it allocates, on every path (allocateRegister, freeRegister); only an index of
\* what is no array keeps a register.
RegistersAreFreed ==
  IsWholePool(Compiled[prog].pool) \/ ~ OnlyArraysIndexed(Layouts[prog])

\* The assembler accepts the code, with no label twice, none missing and no register
\* -1, no address and no link is wrong when it runs, and if its loops and calls end it
\* comes to its hlt.
Halts == <>(status = "halted")

-----------------------------------------------------------------------------


IsInArray(offset, slots) ==
  \E x \in DOMAIN slots :
    /\ slots[x].dims # <<>>
    /\ offset \in slots[x].offset .. slots[x].offset + slots[x].size - 4

\* docs/README.md, 4.1: "For arrays of basic types (integer and float), access to an
\* array's elements."  An element that main writes is a word of an array's slot.
ElementsAreInArrays ==
  status = "running" /\ Op = "sw" /\ Line[3] # Sp /\ calls = <<>> =>
    IsInArray(regs[Line[3]] + Line[2] - TopAddress, MainSlots[prog])

===============================================================================
