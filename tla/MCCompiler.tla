----------------------------- MODULE MCCompiler -----------------------------
(***************************************************************************)
(* Instance for TLC of Compiler with Scanner: all short texts over small   *)
(* alphabets of the characters that one part of the scanner tells apart,   *)
(* and one text for each command line.                                     *)
(***************************************************************************)
EXTENDS Compiler, LexicalRules

CONSTANTS CommentLength, NumberLength, WordLength, SymbolLength

TextsOver(S, n) == UNION {[1 .. k -> S] : k \in 0 .. n}

If == {<<"i", "f">>}

\* A word, an operator, an invalid character and a comment that is not closed.
SampleText == <<"i", "f", "<", "=", "@", "blank", "/", "*", "i">>

ShortTexts ==
  {SampleText} \cup
  UNION {TextsOver({"/", "*", "newline", "i"}, CommentLength),
         TextsOver({"0", "1", ".", "e", "+"}, NumberLength),
         TextsOver({"0", "1", "E", "-"}, WordLength),
         TextsOver({"i", "f", "_", "1", "newline"}, WordLength),
         TextsOver({"<", "=", ">", ":", "_", "newline", "@"}, SymbolLength)}

PhaseNumbers == [n \in {"scan", "parse", "symbol", "semantic", "memory", "codegen"} |->
  CASE n = "scan" -> 1 [] n = "parse" -> 2 [] n = "symbol" -> 3
    [] n = "semantic" -> 4 [] n = "memory" -> 5 [] OTHER -> CodeGen]

JustScan == <<"-p", "scan", "a.src">>

Arguments == {"-h", "-t", "-o", "-p", "a.src", "none.src", "scan", "symbol", "codegen"}

AllCommands == UNION {[1 .. k -> Arguments] : k \in 0 .. 4} \cup
  {<<"a.src", "-p", p>> : p \in DOMAIN PhaseNumbers}

MCInit == (argv = JustScan /\ Init) \/ (text = SampleText /\ Init)

MCSpec == MCInit /\ [][Next]_vars /\ WF_vars(Next)

=============================================================================
