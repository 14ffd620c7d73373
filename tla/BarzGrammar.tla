---------------------------- MODULE BarzGrammar ----------------------------
(***************************************************************************)
(* The parsing table of the BARZ language, read from                       *)
(* data/ast_generation/attribute_grammar_parsing_table.csv: one production *)
(* per line, with its row and the columns that hold it.                    *)
(***************************************************************************)
EXTENDS Integers, Sequences, Functions

\* The header of the file, and the first word of its rows.
BarzColumns ==
  <<"$", "self", "id", "and", "div", "mult", "or", "minus", "plus", "geq",
    "leq", "gt", "lt", "neq", "eq", "assign", "colon", "comma", "void",
    "float", "int", "rsqbr", "intlit", "lsqbr", "rpar", "lpar", "dot", "not",
    "floatlit", "rcurbr", "lcurbr", "semi", "return", "write", "read",
    "while", "else", "then", "if", "local", "attribute", "constructor",
    "arrow", "function", "private", "public", "implementation", "isa", "class">>

BarzRows ==
  <<"START", "PROG", "CLASSIMPLFUNC", "CLASSDECL", "VISMEMBERDECL", "ISA1",
    "ISA2", "IMPLDEF", "IMPLBODY", "FUNCDEF", "VISIBILITY", "MEMDECL",
    "FUNCDECL", "FUNCHEAD", "FUNCBODY", "LOCALVARDECLORSTAT",
    "LOCALVARDECLORSTAT2", "ATTRDECL", "LOCALVARDECL", "VARDECL", "STATEMENT",
    "FUNCALLORASSIGN", "FUNCALLORASSIGN2", "FUNCALLORASSIGN3",
    "FUNCALLORASSIGN4", "STATBLOCK", "STATEMENTS", "EXPR", "EXPR2", "RELEXPR",
    "ARITHEXPR", "RIGHTRECARITHEXPR", "SIGN", "TERM", "RIGHTRECTERM",
    "FACTOR", "FACTOR2", "INDICES", "REPTVARIABLEORFUNCTIONCALL", "VARIABLE",
    "VARIABLE2", "REPTVARIABLE", "VARIDNEST", "VARIDNEST2", "INDICE",
    "IDNEST", "IDNEST2", "ARRAYSIZE", "ARRAYSIZE2", "ARRAYSIZES", "TYPE",
    "RETURNTYPE", "APARAMS", "REPTAPARAMS1", "APARAMSTAIL", "FPARAMS",
    "REPTFPARAMS1", "FPARAMSTAIL", "ASSIGNOP", "RELOP", "ADDOP", "MULTOP",
    "IDORSELF">>

\* A production that the columns of a row hold; "&epsilon" ends it or not.
Derives(row, columns, rhs) ==
  [row |-> row, columns |-> columns, lhs |-> row, rhs |-> rhs, empty |-> FALSE]
Vanishing(row, columns, rhs) ==
  [Derives(row, columns, rhs) EXCEPT !.empty = TRUE]

BarzProductions == {
  Derives("START", {"$", "constructor", "function", "implementation", "class"},
    <<"_createRoot", "PROG">>),
  Vanishing("PROG", {"$"}, <<>>),
  Derives("PROG", {"constructor", "function", "implementation", "class"},
    <<"CLASSIMPLFUNC", "_addToProgram", "PROG">>),
  Derives("CLASSIMPLFUNC", {"constructor", "function"}, <<"FUNCDEF">>),
  Derives("CLASSIMPLFUNC", {"implementation"}, <<"IMPLDEF">>),
  Derives("CLASSIMPLFUNC", {"class"}, <<"CLASSDECL">>),
  Derives("CLASSDECL", {"class"},
    <<"class", "id", "_createClassId", "_createInheritanceList", "ISA1",
      "lcurbr", "_addMemberList", "VISMEMBERDECL", "rcurbr", "semi",
      "_createClass">>),
  Vanishing("VISMEMBERDECL", {"rcurbr"}, <<>>),
  Derives("VISMEMBERDECL", {"private", "public"},
    <<"VISIBILITY", "MEMDECL", "_addMember", "VISMEMBERDECL">>),
  Vanishing("ISA1", {"lcurbr"}, <<>>),
  Derives("ISA1", {"isa"}, <<"isa", "id", "_addInheritanceId", "ISA2">>),
  Derives("ISA2", {"comma"}, <<"comma", "id", "_addInheritanceId", "ISA2">>),
  Vanishing("ISA2", {"lcurbr"}, <<>>),
  Derives("IMPLDEF", {"implementation"},
    <<"implementation", "id", "_createImplementationId", "lcurbr",
      "_createImplementationList", "IMPLBODY", "rcurbr",
      "_createImplementation">>),
  Vanishing("IMPLBODY", {"rcurbr"}, <<>>),
  Derives("IMPLBODY", {"constructor", "function"},
    <<"FUNCDEF", "_addImplementationFunction", "IMPLBODY">>),
  Derives("FUNCDEF", {"constructor", "function"},
    <<"FUNCHEAD", "_addStatementsList", "FUNCBODY", "_createFunction">>),
  Derives("VISIBILITY", {"private"}, <<"private", "_setVisibility">>),
  Derives("VISIBILITY", {"public"}, <<"public", "_setVisibility">>),
  Derives("MEMDECL", {"attribute"}, <<"ATTRDECL">>),
  Derives("MEMDECL", {"constructor", "function"}, <<"FUNCDECL">>),
  Derives("FUNCDECL", {"constructor", "function"},
    <<"FUNCHEAD", "semi", "_createFunctionDeclaration">>),
  Derives("FUNCHEAD", {"constructor"},
    <<"constructor", "_setConstructor", "lpar", "FPARAMS", "rpar",
      "_createConstructorSignature">>),
  Derives("FUNCHEAD", {"function"},
    <<"function", "id", "_createFunctionId", "lpar", "FPARAMS", "rpar",
      "arrow", "RETURNTYPE", "_createFunctionSignature">>),
  Derives("FUNCBODY", {"lcurbr"},
    <<"lcurbr", "LOCALVARDECLORSTAT2", "rcurbr", "_createFunctionBody">>),
  Derives("LOCALVARDECLORSTAT", {"self", "id", "return", "write", "read",
                                 "while", "if"},
    <<"STATEMENT">>),
  Derives("LOCALVARDECLORSTAT", {"local"}, <<"LOCALVARDECL">>),
  Derives("LOCALVARDECLORSTAT2", {"self", "id", "return", "write", "read",
                                  "while", "if", "local"},
    <<"LOCALVARDECLORSTAT", "_addBodyStatement", "LOCALVARDECLORSTAT2">>),
  Vanishing("LOCALVARDECLORSTAT2", {"rcurbr"}, <<>>),
  Derives("ATTRDECL", {"attribute"},
    <<"attribute", "VARDECL", "_createAttribute">>),
  Derives("LOCALVARDECL", {"local"},
    <<"local", "VARDECL", "_createLocalVariable">>),
  Derives("VARDECL", {"id"},
    <<"id", "_setVariableId", "colon", "TYPE", "ARRAYSIZES", "semi",
      "_createVariable">>),
  Derives("STATEMENT", {"self", "id"},
    <<"FUNCALLORASSIGN", "semi", "_createExpressionStatement">>),
  Derives("STATEMENT", {"return"},
    <<"return", "lpar", "EXPR", "rpar", "semi", "_createReturnStatement">>),
  Derives("STATEMENT", {"write"},
    <<"write", "lpar", "EXPR", "rpar", "semi", "_createWriteStatement">>),
  Derives("STATEMENT", {"read"},
    <<"read", "lpar", "VARIABLE", "rpar", "semi", "_createReadStatement">>),
  Derives("STATEMENT", {"while"},
    <<"while", "lpar", "RELEXPR", "_addCondition", "rpar", "STATBLOCK",
      "semi", "_createWhileStatement">>),
  Derives("STATEMENT", {"if"},
    <<"if", "lpar", "RELEXPR", "_addCondition", "rpar", "then", "STATBLOCK",
      "else", "STATBLOCK", "semi", "_createIfStatement">>),
  Derives("FUNCALLORASSIGN", {"self", "id"},
    <<"IDORSELF", "FUNCALLORASSIGN2">>),
  Derives("FUNCALLORASSIGN2", {"assign", "lsqbr", "dot"},
    <<"INDICES", "_processDotAccess", "FUNCALLORASSIGN3">>),
  Derives("FUNCALLORASSIGN2", {"lpar"},
    <<"lpar", "APARAMS", "rpar", "_createFunctionCall", "FUNCALLORASSIGN4">>),
  Derives("FUNCALLORASSIGN3", {"assign"},
    <<"ASSIGNOP", "EXPR", "_createAssignment">>),
  Derives("FUNCALLORASSIGN3", {"dot"},
    <<"dot", "id", "_pushDotIdentifier", "FUNCALLORASSIGN2",
      "_processDotAccess">>),
  Derives("FUNCALLORASSIGN4", {"dot"},
    <<"dot", "id", "_processFunctionReturn", "FUNCALLORASSIGN2">>),
  Vanishing("FUNCALLORASSIGN4", {"semi"}, <<>>),
  Derives("STATBLOCK", {"self", "id", "return", "write", "read", "while", "if"},
    <<"STATEMENT", "_createSingleStatement">>),
  Derives("STATBLOCK", {"lcurbr"},
    <<"lcurbr", "_addStatementsList", "STATEMENTS", "rcurbr", "_createBlock">>),
  Vanishing("STATBLOCK", {"semi", "else"}, <<"_addEmptyBlock">>),
  Derives("STATEMENTS", {"self", "id", "return", "write", "read", "while",
                         "if"},
    <<"STATEMENT", "_addStatement", "STATEMENTS">>),
  Vanishing("STATEMENTS", {"rcurbr"}, <<>>),
  Derives("EXPR", {"self", "id", "minus", "plus", "intlit", "lpar", "not",
                   "floatlit"},
    <<"ARITHEXPR", "EXPR2", "_finishExpression">>),
  Derives("EXPR2", {"geq", "leq", "gt", "lt", "neq", "eq"},
    <<"RELOP", "ARITHEXPR", "_createRelationalExpr">>),
  Vanishing("EXPR2", {"comma", "rpar", "semi"}, <<>>),
  Derives("RELEXPR", {"self", "id", "minus", "plus", "intlit", "lpar", "not",
                      "floatlit"},
    <<"ARITHEXPR", "RELOP", "ARITHEXPR", "_createRelationalExpr">>),
  Derives("ARITHEXPR", {"self", "id", "minus", "plus", "intlit", "lpar",
                        "not", "floatlit"},
    <<"TERM", "RIGHTRECARITHEXPR", "_finishArithExpr">>),
  Derives("RIGHTRECARITHEXPR", {"or", "minus", "plus"},
    <<"ADDOP", "TERM", "_processAddOp", "RIGHTRECARITHEXPR">>),
  Vanishing("RIGHTRECARITHEXPR", {"geq", "leq", "gt", "lt", "neq", "eq",
                                  "comma", "rsqbr", "rpar", "semi"},
    <<>>),
  Derives("SIGN", {"minus"}, <<"minus", "_pushSign">>),
  Derives("SIGN", {"plus"}, <<"plus", "_pushSign">>),
  Derives("TERM", {"self", "id", "minus", "plus", "intlit", "lpar", "not",
                   "floatlit"},
    <<"FACTOR", "_addTerm", "RIGHTRECTERM">>),
  Derives("RIGHTRECTERM", {"and", "div", "mult"},
    <<"MULTOP", "FACTOR", "_processMultOp", "RIGHTRECTERM">>),
  Vanishing("RIGHTRECTERM", {"or", "minus", "plus", "geq", "leq", "gt", "lt",
                             "neq", "eq", "comma", "rsqbr", "rpar", "semi"},
    <<>>),
  Derives("FACTOR", {"self", "id"},
    <<"IDORSELF", "FACTOR2", "REPTVARIABLEORFUNCTIONCALL", "_finishFactor">>),
  Derives("FACTOR", {"minus", "plus"}, <<"SIGN", "FACTOR", "_applySign">>),
  Derives("FACTOR", {"intlit"}, <<"intlit", "_pushIntLiteral">>),
  Derives("FACTOR", {"lpar"},
    <<"lpar", "ARITHEXPR", "rpar", "_handleParenExpr">>),
  Derives("FACTOR", {"not"}, <<"not", "FACTOR", "_createNotExpr">>),
  Derives("FACTOR", {"floatlit"}, <<"floatlit", "_pushFloatLiteral">>),
  Derives("FACTOR2", {"and", "div", "mult", "or", "minus", "plus", "geq",
                      "leq", "gt", "lt", "neq", "eq", "comma", "rsqbr",
                      "lsqbr", "rpar", "dot", "semi"},
    <<"INDICES">>),
  Derives("FACTOR2", {"lpar"},
    <<"lpar", "APARAMS", "rpar", "_createFunctionCall">>),
  [Vanishing("INDICES",
      {"and", "div", "mult", "or", "minus", "plus", "geq", "leq", "gt",
       "lt", "neq", "eq", "assign", "comma", "rsqbr", "rpar", "dot", "semi"},
      <<"_processArrayAccess">>) EXCEPT !.lhs = "ARRAYSIZES"],
  Derives("INDICES", {"lsqbr"}, <<"INDICE", "_processIndexList", "INDICES">>),
  Vanishing("REPTVARIABLEORFUNCTIONCALL", {"and", "div", "mult", "or",
                                           "minus", "plus", "geq", "leq",
                                           "gt", "lt", "neq", "eq", "comma",
                                           "rsqbr", "rpar", "semi"},
    <<>>),
  Derives("REPTVARIABLEORFUNCTIONCALL", {"dot"},
    <<"IDNEST", "_processDotAccess", "REPTVARIABLEORFUNCTIONCALL">>),
  Derives("VARIABLE", {"self", "id"}, <<"IDORSELF", "VARIABLE2">>),
  Derives("VARIABLE2", {"lsqbr", "rpar", "dot"}, <<"INDICES", "REPTVARIABLE">>),
  Derives("VARIABLE2", {"lpar"},
    <<"lpar", "APARAMS", "rpar", "_createFunctionCall", "VARIDNEST">>),
  Vanishing("REPTVARIABLE", {"rpar"}, <<>>),
  Derives("REPTVARIABLE", {"dot"},
    <<"VARIDNEST", "_processDotAccess", "REPTVARIABLE">>),
  Derives("VARIDNEST", {"dot"},
    <<"dot", "id", "_pushDotIdentifier", "VARIDNEST2">>),
  Derives("VARIDNEST2", {"lsqbr", "rpar", "dot"}, <<"INDICES">>),
  Derives("VARIDNEST2", {"lpar"},
    <<"lpar", "APARAMS", "rpar", "_createFunctionCall", "VARIDNEST">>),
  Derives("INDICE", {"lsqbr"},
    <<"lsqbr", "ARITHEXPR", "rsqbr", "_createArrayIndex">>),
  Derives("IDNEST", {"dot"}, <<"dot", "id", "_pushDotIdentifier", "IDNEST2">>),
  Derives("IDNEST2", {"and", "div", "mult", "or", "minus", "plus", "geq",
                      "leq", "gt", "lt", "neq", "eq", "comma", "rsqbr",
                      "lsqbr", "rpar", "dot", "semi"},
    <<"INDICES">>),
  Derives("IDNEST2", {"lpar"},
    <<"lpar", "APARAMS", "rpar", "_createFunctionCall">>),
  Derives("ARRAYSIZE", {"lsqbr"}, <<"lsqbr", "ARRAYSIZE2">>),
  Derives("ARRAYSIZE2", {"rsqbr"}, <<"_addDynamicArrayDimension", "rsqbr">>),
  Derives("ARRAYSIZE2", {"intlit"},
    <<"intlit", "_addArrayDimension", "rsqbr">>),
  Vanishing("ARRAYSIZES", {"comma", "rpar", "semi"}, <<"_processArraySize">>),
  Derives("ARRAYSIZES", {"lsqbr"}, <<"ARRAYSIZE", "ARRAYSIZES">>),
  Derives("TYPE", {"id"}, <<"id", "_setTypeCustom">>),
  Derives("TYPE", {"float"}, <<"float", "_setTypeFloat">>),
  Derives("TYPE", {"int"}, <<"int", "_setTypeInt">>),
  Derives("RETURNTYPE", {"id", "float", "int"}, <<"TYPE">>),
  Derives("RETURNTYPE", {"void"}, <<"void", "_setTypeVoid">>),
  Derives("APARAMS", {"self", "id", "minus", "plus", "intlit", "lpar", "not",
                      "floatlit"},
    <<"_createParamList", "EXPR", "_addActualParam", "REPTAPARAMS1">>),
  Vanishing("APARAMS", {"rpar"}, <<"_createParamList">>),
  Derives("REPTAPARAMS1", {"comma"}, <<"APARAMSTAIL", "REPTAPARAMS1">>),
  Vanishing("REPTAPARAMS1", {"rpar"}, <<>>),
  Derives("APARAMSTAIL", {"comma"}, <<"comma", "EXPR", "_addActualParam">>),
  Derives("FPARAMS", {"id"},
    <<"_createParamList", "id", "_setParamId", "colon", "TYPE", "ARRAYSIZES",
      "_createParam", "REPTFPARAMS1">>),
  Vanishing("FPARAMS", {"rpar"}, <<"_createParamList">>),
  Derives("REPTFPARAMS1", {"comma"}, <<"FPARAMSTAIL", "REPTFPARAMS1">>),
  Vanishing("REPTFPARAMS1", {"rpar"}, <<>>),
  Derives("FPARAMSTAIL", {"comma"},
    <<"comma", "id", "_setParamId", "colon", "TYPE", "ARRAYSIZES",
      "_createParam">>),
  Derives("ASSIGNOP", {"assign"}, <<"assign", "_setAssignOperator">>),
  Derives("RELOP", {"geq"}, <<"geq", "_setRelop">>),
  Derives("RELOP", {"leq"}, <<"leq", "_setRelop">>),
  Derives("RELOP", {"gt"}, <<"gt", "_setRelop">>),
  Derives("RELOP", {"lt"}, <<"lt", "_setRelop">>),
  Derives("RELOP", {"neq"}, <<"neq", "_setRelop">>),
  Derives("RELOP", {"eq"}, <<"eq", "_setRelop">>),
  Derives("ADDOP", {"or"}, <<"or", "_setAddOp">>),
  Derives("ADDOP", {"minus"}, <<"minus", "_setAddOp">>),
  Derives("ADDOP", {"plus"}, <<"plus", "_setAddOp">>),
  Derives("MULTOP", {"and"}, <<"and", "_setMultOp">>),
  Derives("MULTOP", {"div"}, <<"div", "_setMultOp">>),
  Derives("MULTOP", {"mult"}, <<"mult", "_setMultOp">>),
  Derives("IDORSELF", {"self"}, <<"self", "_setSelfIdentifier">>),
  Derives("IDORSELF", {"id"}, <<"id", "_setIdentifier">>)}

\* Bug: the empty first cell of the header is kept, which moves each production
\* to the next column.
BarzTableUnshifted ==
  LET next(C) == {BarzColumns[i + 1] :
                    i \in {j \in 1 .. Len(BarzColumns) - 1 : BarzColumns[j] \in C}}
  IN  [c \in UNION {{p.row} \X next(p.columns) : p \in BarzProductions} |->
         LET p == CHOOSE q \in BarzProductions : q.row = c[1] /\ c[2] \in next(q.columns)
         IN  [lhs |-> p.lhs, rhs |-> p.rhs, empty |-> p.empty]]

\* Bug: the action of an addition stands after the rest of the expression.
BarzTableLateAction ==
  [c \in UNION {{p.row} \X p.columns : p \in BarzProductions} |->
     LET p == CHOOSE q \in BarzProductions : q.row = c[1] /\ c[2] \in q.columns
         rhs == IF p.rhs = <<"ADDOP", "TERM", "_processAddOp", "RIGHTRECARITHEXPR">>
                THEN <<"ADDOP", "TERM", "RIGHTRECARITHEXPR", "_processAddOp">> ELSE p.rhs
     IN  [lhs |-> p.lhs, rhs |-> rhs, empty |-> p.empty]]

\* The cells: one entry for each column of each production.
BarzTable ==
  [c \in UNION {{p.row} \X p.columns : p \in BarzProductions} |->
     LET p == CHOOSE q \in BarzProductions : q.row = c[1] /\ c[2] \in q.columns
     IN  [lhs |-> p.lhs, rhs |-> p.rhs, empty |-> p.empty]]

BarzTerminals == Range(BarzColumns)
BarzNonTerminals == Range(BarzRows)

\* Everything else a production mentions is an action.
BarzActions ==
  UNION {Range(p.rhs) : p \in BarzProductions}
    \ (BarzTerminals \cup BarzNonTerminals)

\* The sets that the construction of the table ends with: no FIRST set holds
\* anything.
BarzFirst == [A \in BarzNonTerminals |-> {}]
BarzFollow ==
  [BarzFirst EXCEPT
     !["START"] = {"$"}, !["PROG"] = {"$"},
     !["VISMEMBERDECL"] = {"rcurbr"}, !["ISA1"] = {"lcurbr"}, !["ISA2"] = {"lcurbr"},
     !["IMPLBODY"] = {"rcurbr"}, !["FUNCHEAD"] = {"semi"},
     !["LOCALVARDECLORSTAT2"] = {"rcurbr"}, !["FUNCALLORASSIGN"] = {"semi"},
     !["FUNCALLORASSIGN2"] = {"semi"}, !["FUNCALLORASSIGN3"] = {"semi"},
     !["FUNCALLORASSIGN4"] = {"semi"}, !["STATBLOCK"] = {"else", "semi"},
     !["STATEMENTS"] = {"rcurbr"}, !["EXPR"] = {"rpar"},
     !["ARITHEXPR"] = {"rpar", "rsqbr"}, !["INDICES"] = {"rpar"},
     !["VARIABLE"] = {"rpar"}, !["VARIABLE2"] = {"rpar"}, !["REPTVARIABLE"] = {"rpar"},
     !["VARIDNEST"] = {"rpar"}, !["VARIDNEST2"] = {"rpar"}, !["ARRAYSIZES"] = {"semi"},
     !["APARAMS"] = {"rpar"}, !["REPTAPARAMS1"] = {"rpar"}, !["FPARAMS"] = {"rpar"},
     !["REPTFPARAMS1"] = {"rpar"}]

=============================================================================
