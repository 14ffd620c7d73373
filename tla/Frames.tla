-------------------------------- MODULE Frames --------------------------------
(***************************************************************************)
(* The second half of MemSizeVisitor: the size and the offset of every     *)
(* symbol of a table, and the sizes of the classes, which later tables     *)
(* need.  Sizes do not overflow: a frame is smaller than the largest int.  *)
(***************************************************************************)
EXTENDS SymbolTable

IntSize == 4
FloatSize == 8
PointerSize == 4

\* The offset of size bytes below a scope offset, rounded towards zero.
AlignedBelow(scope, size) ==
  LET alignment == IF size >= 8 THEN 8 ELSE 4
  IN  -(((size - scope) \div alignment) * alignment)

-----------------------------------------------------------------------------

\* getTypeSize: sizes has the classes whose offsets were calculated before; a class
\* without attributes has size 0.
TypeSize(type, sizes) ==
  CASE type = "int" -> IntSize
    [] type = "float" -> FloatSize
    [] type = "void" -> 0
    [] type \in DOMAIN sizes -> sizes[type]
    [] OTHER -> PointerSize

SymbolSize(symbol, sizes) ==
  IF \A i \in DOMAIN symbol.dims : symbol.dims[i] > 0
  THEN Through(LAMBDA size, d : size * d, TypeSize(symbol.type, sizes), symbol.dims)
  ELSE PointerSize

\* One round of calculateTableOffsets: the next symbol goes below those before it.
Place(acc, name, symbol, sizes) ==
  LET size == SymbolSize(symbol, sizes)
      slot == [offset |-> acc.scope - size, size |-> size, kind |-> symbol.kind,
               type |-> symbol.type, dims |-> symbol.dims]
  IN  [slots |-> Put(acc.slots, name, slot), scope |-> slot.offset]

\* scope is the scope offset of the table, where the frame of a callee starts.
Frame(table, initial, sizes) ==
  Through(LAMBDA acc, name : Place(acc, name, table.syms[name], sizes),
           [slots |-> <<>>, scope |-> initial], table.order)

\* calculateFunctionInitialOffset: the value returned and the link.
InitialOffset(fun, sizes) == AlignedBelow(0, TypeSize(fun.type, sizes)) - 4

ClassTable(class) ==
  Through(LAMBDA t, v : AddSymbol(t, v.name, Symbol("VARIABLE", v.type, v.dims)),
           EmptyTable("class", <<>>), class.attributes)

\* The classes in order, each with the sizes of those before it.  The methods of a
\* class come right after it: known has the sizes at that time, "" for free functions.
WithSizes(known, name, sizes) == Put(Put(known, name, sizes), "", sizes)

WithClass(acc, name, frame) ==
  [frames |-> Put(acc.frames, name, frame),
   known |-> WithSizes(acc.known, name, Put(acc.known[""], name, -frame.scope))]

ClassFrames(program) ==
  Through(LAMBDA acc, c : WithClass(acc, c.name, Frame(ClassTable(c), 0, acc.known[""])),
           [frames |-> <<>>, known |-> [c \in {""} |-> <<>>]], program.classes)

\* The frame of a function over its table, with the sizes of the classes.
FunctionFrame(fun, table, classes) ==
  LET sizes == classes.known[fun.class]
  IN  Frame(table, InitialOffset(fun, sizes), sizes)

=============================================================================
