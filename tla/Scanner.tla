------------------------------ MODULE Scanner ------------------------------
(***************************************************************************)
(* Scanner: the tokens of a text.                                          *)
(*                                                                         *)
(* A text is a sequence of characters; pos is the index of currentChar,    *)
(* past the end once get() has failed.  A lexeme is a stretch of the text, *)
(* so a token keeps the indices of its first and last character.  A step   *)
(* is a call of getNextToken, except that the loop over a block comment is *)
(* one step for each round.                                                *)
(***************************************************************************)
EXTENDS FiniteSets, Common

CONSTANTS
  Letters, Digits,  \* the characters of words and numbers
  OtherChars,       \* characters that no token begins with
  ReservedWords,    \* the words that are no identifiers
  Texts             \* the inputs

Whitespace == {"blank", "newline"}
Eof == "eof"
Underscore == "_"

TwoCharOperators ==
  {<<"=", "=">>, <<"<", ">">>, <<"<", "=">>, <<">", "=">>, <<":", "=">>, <<"=", ">">>}

Operators == {"<", ">", "+", "-", "*", "/"}

Punctuation == {"(", ")", "{", "}", "[", "]", ",", ".", ":", ";"}

WordChars == Letters \cup Digits \cup {Underscore}

Chars == WordChars \cup Whitespace \cup Operators \cup Punctuation \cup {"="} \cup OtherChars

\* isLetter and isDigit tell the characters of words from the others.
ASSUME CharsAssumption ==
  /\ Eof \notin Chars
  /\ {"e", "E"} \subseteq Letters /\ "0" \in Digits
  /\ Letters \cap Digits = {} /\ Underscore \notin Letters \cup Digits
  /\ WordChars \cap (Whitespace \cup Operators \cup Punctuation \cup {"="} \cup OtherChars) = {}
  /\ \A t \in Texts : t \in Seq(Chars)

VARIABLES
  text,         \* the input
  pc,           \* "tokens", "comment" or "end"
  pos,          \* the index of currentChar
  currentLine,
  nesting,      \* nestingLevel of the block comment
  opened,       \* where that comment begins: its first index and its line
  tokens

scannerVars == <<text, pc, pos, currentLine, nesting, opened, tokens>>

-----------------------------------------------------------------------------

Char(k) == IF k \in DOMAIN text THEN text[k] ELSE Eof

\* Where a loop over the characters in S stops.
RunOf(i, S) ==
  CHOOSE k \in i .. Len(text) + 1 : Char(k) \notin S /\ \A j \in i .. k - 1 : Char(j) \in S

NewlinesTo(k) == {j \in DOMAIN text : j <= k /\ text[j] = "newline"}

\* Bug: the newline is counted when it was passed.
LineLate(k) == 1 + Cardinality(NewlinesTo(k - 1))

\* getNextChar counts a newline as soon as it is the current character.
LineAt(k) == 1 + Cardinality(NewlinesTo(k))

\* Once get() has failed it goes on failing.
Moved(k) ==
  LET next == IF k > Len(text) THEN Len(text) + 1 ELSE k
  IN  pos' = next /\ currentLine' = LineAt(next)

Token(type, first, next, line, endLine) ==
  [type |-> type, first |-> first, last |-> next - 1, line |-> line, endLine |-> endLine]

\* getNextToken gives a token, and goes on at the index next.
Found(type, first, next, line) ==
  /\ tokens' = Append(tokens, Token(type, first, next, line, line))
  /\ Moved(next)
  /\ UNCHANGED <<text, pc, nesting, opened>>

-----------------------------------------------------------------------------

\* The constructor reads the first character.
ScannerInit ==
  /\ text \in Texts
  /\ pc = "tokens"
  /\ pos = 1
  /\ currentLine = LineAt(1)
  /\ nesting = 0
  /\ opened = [first |-> 0, line |-> 0]
  /\ tokens = <<>>

\* skipWhitespace
At == RunOf(pos, Whitespace)

OpensComment(k) == Char(k) = "/" /\ Char(k + 1) \in {"/", "*"}

\* "$": processFile ends.
EndOfFile ==
  /\ pc = "tokens" /\ Char(At) = Eof
  /\ Moved(At)
  /\ pc' = "end"
  /\ UNCHANGED <<text, nesting, opened, tokens>>

\* The end of an inline comment is the line before that of the newline, which was
\* counted already; before the end of the text it is a line too low.
ScanInlineComment ==
  /\ pc = "tokens" /\ OpensComment(At) /\ Char(At + 1) = "/"
  /\ LET next == RunOf(At + 2, Chars \ {"newline"})
     IN  /\ tokens' = Append(tokens, Token("inlinecmt", At, next, LineAt(At), LineAt(next) - 1))
         /\ Moved(next)
  /\ UNCHANGED <<text, pc, nesting, opened>>

\* Bug: the lexeme begins behind the two characters that open it.
OpenedLate(k) == [first |-> k + 2, line |-> LineAt(k)]

OpenedAt(k) == [first |-> k, line |-> LineAt(k)]

ScanBlockComment ==
  /\ pc = "tokens" /\ OpensComment(At) /\ Char(At + 1) = "*"
  /\ pc' = "comment"
  /\ nesting' = 1
  /\ opened' = OpenedAt(At)
  /\ Moved(At + 2)
  /\ UNCHANGED <<text, tokens>>

\* Bug: the end of the text does not end the comment.
InCommentToEnd == pc = "comment" /\ nesting > 0

InComment == pc = "comment" /\ nesting > 0 /\ Char(pos) # Eof

Opens(k) == Char(k) = "/" /\ Char(k + 1) = "*"
Closes(k) == Char(k) = "*" /\ Char(k + 1) = "/"

\* Bug: comments do not nest.
LevelFlat == IF Closes(pos) THEN nesting - 1 ELSE nesting

Level ==
  CASE Opens(pos)  -> nesting + 1
    [] Closes(pos) -> nesting - 1
    [] OTHER       -> nesting

CommentStep ==
  /\ InComment
  /\ nesting' = Level
  /\ Moved(IF Opens(pos) \/ Closes(pos) THEN pos + 2 ELSE pos + 1)
  /\ UNCHANGED <<text, pc, opened, tokens>>

\* The comment ends, closed or not; its last line is taken to be the one before the
\* current one.
CommentEnds ==
  /\ pc = "comment" /\ ~ InComment
  /\ tokens' = Append(tokens, Token("blockcmt", opened.first, pos, opened.line, currentLine - 1))
  /\ pc' = "tokens"
  /\ UNCHANGED <<text, pos, currentLine, nesting, opened>>

-----------------------------------------------------------------------------

Lexeme(first, next) == SubSeq(text, first, next - 1)

\* scanIdentifierOrKeyword: the type of a reserved word is the word.
WordType(first, next) ==
  IF Lexeme(first, next) \in ReservedWords THEN "keyword"
  ELSE IF Char(first) \in Letters THEN "id" ELSE "invalidid"

ScanWord ==
  /\ pc = "tokens" /\ Char(At) \in Letters
  /\ LET next == RunOf(At, WordChars)
     IN  Found(WordType(At, next), At, next, LineAt(At))

\* scanNumber: the ends of the integer part, of the fraction and of the exponent,
\* and where its digits begin.
IntegerEnd(i) == RunOf(i, Digits)

FractionEnd(i) == IF Char(i) = "." THEN RunOf(i + 1, Digits) ELSE i

ExponentDigits(i) == IF Char(i + 1) \in {"+", "-"} THEN i + 2 ELSE i + 1

ExponentEnd(i) == IF Char(i) \in {"e", "E"} THEN RunOf(ExponentDigits(i), Digits) ELSE i

\* Bug: the last digit of a long fraction may be 0.
FractionWithZeros(i, j) == j = i \/ j > i + 1

\* A part is missing, or it has a zero too many.
GoodInteger(i, j) == j > i /\ (Char(i) = "0" => j = i + 1)

GoodFraction(i, j) == j = i \/ (j > i + 1 /\ (Char(j - 1) = "0" => j = i + 2))

GoodExponent(i, j) == j = i \/ GoodInteger(ExponentDigits(i), j)

ScanNumber ==
  /\ pc = "tokens" /\ Char(At) \in Digits
  /\ LET i == IntegerEnd(At)
         f == FractionEnd(i)
         e == ExponentEnd(f)
         next == RunOf(e, WordChars)
         good == next = e /\ GoodInteger(At, i) /\ GoodFraction(i, f) /\ GoodExponent(f, e)
     IN  Found(IF good THEN IF f > i THEN "floatlit" ELSE "intlit" ELSE "invalidlit",
               At, next, LineAt(At))

\* Bug: the second character is not looked at.
SymbolsShort(k) == <<Char(k)>>

\* The longer operator is tried first.
Symbols(k) ==
  IF <<Char(k), Char(k + 1)>> \in TwoCharOperators THEN <<Char(k), Char(k + 1)>>
  ELSE <<Char(k)>>

\* scanOperatorOrPunctuation
SymbolType(lexeme) ==
  IF lexeme \in TwoCharOperators \/ lexeme[1] \in Operators THEN "operator"
  ELSE IF lexeme[1] \in Punctuation THEN "punctuation" ELSE "invalidchar"

ScanSymbol ==
  /\ pc = "tokens" /\ Char(At) \notin Letters \cup Digits \cup {Eof, Underscore} /\ ~ OpensComment(At)
  /\ Found(SymbolType(Symbols(At)), At, At + Len(Symbols(At)), LineAt(At))

\* An underscore and the word behind it, whose line becomes the token's.
ScanUnderscore ==
  /\ pc = "tokens" /\ Char(At) = Underscore
  /\ Found("invalidid", At, RunOf(At + 1, WordChars), LineAt(At + 1))

\* getNextToken, and the loop of a block comment.
ScanStep ==
  \/ EndOfFile
  \/ ScanInlineComment \/ ScanBlockComment \/ CommentStep \/ CommentEnds
  \/ ScanWord \/ ScanNumber \/ ScanSymbol \/ ScanUnderscore

\* Bug: the invalid characters are not looked at.
InvalidWords == {"invalidid", "invalidlit"}

\* writeOutputsToFile reports the tokens whose type begins with "invalid".
InvalidTypes == {"invalidid", "invalidlit", "invalidchar"}

\* The types of comments.
Comments == {"inlinecmt", "blockcmt"}

ScanSpec == ScannerInit /\ [][ScanStep]_scannerVars

=============================================================================
