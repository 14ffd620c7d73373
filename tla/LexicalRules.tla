---------------------------- MODULE LexicalRules ----------------------------
(***************************************************************************)
(* The lexical elements of the language, as the definitions of id,         *)
(* integer, float and comments in                                          *)
(* docs/lexical_analyzer_specifications.pdf give them, and what Scanner    *)
(* makes of a text.                                                        *)
(***************************************************************************)
EXTENDS Scanner

Zero == "0"
Nonzero == Digits \ {Zero}

IsId(s) == s # <<>> /\ s[1] \in Letters /\ \A i \in DOMAIN s : s[i] \in WordChars

IsInteger(s) ==
  \/ s = <<Zero>>
  \/ s # <<>> /\ s[1] \in Nonzero /\ \A i \in DOMAIN s : s[i] \in Digits

IsFraction(s) ==
  \/ s = <<".", Zero>>
  \/ /\ Len(s) > 1 /\ s[1] = "." /\ s[Len(s)] \in Nonzero
     /\ \A i \in 2 .. Len(s) : s[i] \in Digits

\* The sign is optional; the scanner takes an E as well as the e of the definition.
IsExponent(s) ==
  /\ s # <<>> /\ s[1] \in {"e", "E"}
  /\ \/ IsInteger(Tail(s))
     \/ Len(s) > 1 /\ s[2] \in {"+", "-"} /\ IsInteger(SubSeq(s, 3, Len(s)))

IsFloat(s) ==
  \E i \in 1 .. Len(s) : \E f \in i + 1 .. Len(s) :
    /\ IsInteger(SubSeq(s, 1, i))
    /\ IsFraction(SubSeq(s, i + 1, f))
    /\ f = Len(s) \/ IsExponent(SubSeq(s, f + 1, Len(s)))

\* A number without a fraction may have an exponent and remains an integer; tests/
\* TestDriver.cpp expects it of 89e10.
IsScaledInteger(s) ==
  \E i \in 1 .. Len(s) : IsInteger(SubSeq(s, 1, i)) /\ IsExponent(SubSeq(s, i + 1, Len(s)))

IsOperator(s) == s \in TwoCharOperators \/ (Len(s) = 1 /\ s[1] \in Operators)

IsElement(s) ==
  IsId(s) \/ IsInteger(s) \/ IsFloat(s) \/ IsScaledInteger(s) \/ IsOperator(s)

LexemeOf(i) == SubSeq(text, tokens[i].first, tokens[i].last)

\* Where the scanner is: the characters before it belong to the tokens.
Reached == IF pc = "comment" THEN opened.first ELSE pos

\* Nothing of the text is lost and nothing is read twice: a character that was passed
\* is white space or part of one token.
NoCharacterIsLost ==
  \A k \in 1 .. Reached - 1 :
    k \in DOMAIN text =>
      \/ text[k] \in Whitespace
      \/ \E i \in DOMAIN tokens :
           /\ k \in tokens[i].first .. tokens[i].last
           /\ \A j \in DOMAIN tokens : k \in tokens[j].first .. tokens[j].last => j = i

\* A token that begins with a digit is a literal of the type that its lexeme has by
\* the specification, and an invalid one if it has none.
LiteralsFollowTheRules ==
  \A i \in DOMAIN tokens :
    LET s == LexemeOf(i)
    IN  s[1] \in Digits =>
          tokens[i].type = CASE IsFloat(s)                          -> "floatlit"
                             [] IsInteger(s) \/ IsScaledInteger(s)  -> "intlit"
                             [] OTHER                               -> "invalidlit"

\* No element of the language is cut in two: tokens with nothing between them are not
\* one element together.
ElementsStayWhole ==
  \A i, j \in DOMAIN tokens :
    /\ i < j
    /\ \A k \in i .. j - 1 : tokens[k].last + 1 = tokens[k + 1].first
    /\ \A k \in i .. j : tokens[k].type \notin Comments
    => ~ IsElement(SubSeq(text, tokens[i].first, tokens[j].last))

\* Where what stands in a block comment from the i-th character on may end: it is made
\* of characters that neither open nor close a comment, and of whole comments.
Inside[i \in 1 .. Len(text) + 1] ==
  {i} \cup
  IF Opens(i) THEN UNION {Inside[k + 2] : k \in {j \in Inside[i + 2] : Closes(j)}}
  ELSE IF Closes(i) \/ i > Len(text) THEN {} ELSE Inside[i + 1]

\* Where a block comment may be closed that begins at the index first.
ClosedAt(first) == {k \in Inside[first + 2] : Closes(k)}

\* A block comment ends where its last nested comment is closed, or else it is the
\* rest of the text.
CommentsNest ==
  \A i \in DOMAIN tokens :
    tokens[i].type = "blockcmt" =>
      \/ tokens[i].last - 1 \in ClosedAt(tokens[i].first)
      \/ tokens[i].last = Len(text) /\ ClosedAt(tokens[i].first) = {}

TrueLine(k) == 1 + Cardinality({j \in 1 .. k - 1 : text[j] = "newline"})

\* An underscore alone before the end of its line has the line of the character behind
\* it.
LoneUnderscore(i) ==
  text[tokens[i].first] = Underscore /\ Char(tokens[i].first + 1) = "newline"

\* Errors name the lines of tokens: a token has the line on which it begins.
LinesAreTrue ==
  \A i \in DOMAIN tokens :
    tokens[i].line = TrueLine(tokens[i].first) + (IF LoneUnderscore(i) THEN 1 ELSE 0)

=============================================================================
