--------------------------- MODULE ScannerProofs ---------------------------
(***************************************************************************)
(* ScannerProofs: the tokens of any text, over any alphabet, cover it but  *)
(* for white space, do not overlap and have the lines they begin on; block *)
(* comments end where they should, literals have the types the language    *)
(* gives them, and no element is cut in two.                               *)
(*                                                                         *)
(* The tokens end before the character that was reached, each behind the   *)
(* one before it, and what they leave out is white space; while a comment  *)
(* is read what was reached is its first character.  Each step adds at     *)
(* most one token that begins behind some white space.  What else is said  *)
(* of a token depends on the text alone, so that it stays.                 *)
(***************************************************************************)
EXTENDS LexicalRules, SequenceLemmas, FiniteSetTheorems, TLAPS

TokenTypes ==
  InvalidTypes \cup Comments \cup {"id", "keyword", "intlit", "floatlit", "operator",
                                   "punctuation"}

TokenSet == [type : TokenTypes, first : Nat, last : Nat, line : Int, endLine : Int]

ScanType ==
  /\ text \in Seq(Chars)
  /\ pc \in {"tokens", "comment", "end"}
  /\ pos \in 1 .. Len(text) + 1
  /\ currentLine = LineAt(pos)
  /\ opened \in [first : Nat, line : Int]
  /\ tokens \in Seq(TokenSet)

CommentIsOpen ==
  pc = "comment" =>
    /\ opened.first \in 1 .. pos - 1
    /\ opened.first \in 1 .. Len(text)
    /\ text[opened.first] = "/"
    /\ opened.line = TrueLine(opened.first)

Ordered ==
  \A i \in DOMAIN tokens :
    /\ 1 <= tokens[i].first /\ tokens[i].first <= tokens[i].last /\ tokens[i].last < Reached
    /\ tokens[i].last <= Len(text)
    /\ \A j \in DOMAIN tokens : j < i => tokens[j].last < tokens[i].first

InToken(k) == \E i \in DOMAIN tokens : k \in tokens[i].first .. tokens[i].last

Covered == \A k \in 1 .. Reached - 1 : text[k] \in Whitespace \/ InToken(k)

ScanInv == ScanType /\ CommentIsOpen /\ Ordered /\ Covered /\ LinesAreTrue

-----------------------------------------------------------------------------

\* A loop over characters stops, at the end of the text if not before.
LEMMA RunStops ==
  ASSUME text \in Seq(Chars), NEW i \in 1 .. Len(text) + 1, NEW S, Eof \notin S
  PROVE  /\ RunOf(i, S) \in i .. Len(text) + 1
         /\ Char(RunOf(i, S)) \notin S
         /\ \A j \in i .. RunOf(i, S) - 1 : Char(j) \in S
<1> DEFINE T == {k \in i .. Len(text) + 1 : Char(k) \notin S}
           Stop(k) == k \in i .. Len(text) + 1 /\ Char(k) \notin S
                        /\ \A j \in i .. k - 1 : Char(j) \in S
<1>0. Len(text) \in Nat /\ DOMAIN text = 1 .. Len(text) OBVIOUS
<1>1. Len(text) + 1 \in T BY <1>0 DEF Char
<1>2. T \in SUBSET Nat BY <1>0
<1>3. PICK k \in T : \A y \in T : k <= y
  <2> HIDE DEF T
  <2> QED BY <1>1, <1>2, LeastNumber
<1>4. Stop(k)
  <2>1. ASSUME NEW j \in i .. k - 1 PROVE Char(j) \in S
    <3>1. j \in i .. Len(text) + 1 /\ ~ (k <= j) BY <1>0
    <3> QED BY <3>1, <1>3
  <2> QED BY <2>1
<1>5. \E m \in i .. Len(text) + 1 : Char(m) \notin S /\ \A j \in i .. m - 1 : Char(j) \in S
  BY <1>4
<1> QED BY <1>5 DEF RunOf

LEMMA NoEof ==
  /\ Eof \notin Whitespace /\ Eof \notin WordChars /\ Eof \notin Digits /\ Eof \notin Letters
  /\ Eof \notin Chars \ {"newline"}
BY CharsAssumption DEF Chars, WordChars

LEMMA CharIn ==
  ASSUME text \in Seq(Chars), NEW k \in Int, Char(k) # Eof
  PROVE  k \in 1 .. Len(text) /\ Char(k) = text[k]
BY DEF Char

\* Where a token may begin: what was passed over is white space.
LEMMA SkipsWhitespace ==
  ASSUME ScanType
  PROVE  /\ At \in pos .. Len(text) + 1
         /\ Char(At) \notin Whitespace
         /\ \A k \in pos .. At - 1 : k \in DOMAIN text => text[k] \in Whitespace
<1>1. /\ At \in pos .. Len(text) + 1 /\ Char(At) \notin Whitespace
      /\ \A j \in pos .. At - 1 : Char(j) \in Whitespace
  BY RunStops, NoEof DEF At, ScanType
<1> QED BY <1>1 DEF Char

LEMMA Appended ==
  ASSUME ScanType, NEW t \in TokenSet, tokens' = Append(tokens, t)
  PROVE  /\ tokens' \in Seq(TokenSet)
         /\ Len(tokens) \in Nat
         /\ DOMAIN tokens = 1 .. Len(tokens)
         /\ DOMAIN tokens' = DOMAIN tokens \cup {Len(tokens) + 1}
         /\ \A i \in DOMAIN tokens : tokens'[i] = tokens[i] /\ i < Len(tokens) + 1
         /\ tokens'[Len(tokens) + 1] = t
<1>1. tokens \in Seq(TokenSet) /\ Len(tokens) \in Nat /\ DOMAIN tokens = 1 .. Len(tokens)
  BY DEF ScanType
<1> QED BY <1>1

\* A token that begins behind white space keeps the order and the cover.
LEMMA AddToken ==
  ASSUME ScanType, Ordered, Covered, Reached \in 1 .. Len(text) + 1,
         NEW t \in TokenSet, NEW next \in Nat,
         t.first \in Reached .. Len(text), t.last = next - 1, t.first < next,
         next <= Len(text) + 1,
         \A k \in Reached .. t.first - 1 : text[k] \in Whitespace,
         tokens' = Append(tokens, t), text' = text, Reached' = next
  PROVE  tokens' \in Seq(TokenSet) /\ Ordered' /\ Covered'
<1>0. tokens \in Seq(TokenSet) /\ Len(tokens) \in Nat /\ DOMAIN tokens = 1 .. Len(tokens)
  BY DEF ScanType
<1>1. /\ tokens' \in Seq(TokenSet)
      /\ DOMAIN tokens' = DOMAIN tokens \cup {Len(tokens) + 1}
      /\ \A i \in DOMAIN tokens : tokens'[i] = tokens[i] /\ i < Len(tokens) + 1
      /\ tokens'[Len(tokens) + 1] = t
  BY Appended
<1>2. Len(text) \in Nat /\ t.first \in Nat /\ t.last \in Nat
  BY DEF ScanType, TokenSet
<1>3. \A i \in DOMAIN tokens : tokens[i].first \in Nat /\ tokens[i].last \in Nat
  <2>1. \A i \in DOMAIN tokens : tokens[i] \in TokenSet BY <1>0
  <2> QED BY <2>1 DEF TokenSet
<1>4. Ordered'
  <2> SUFFICES ASSUME NEW i \in DOMAIN tokens'
               PROVE  /\ 1 <= tokens'[i].first /\ tokens'[i].first <= tokens'[i].last
                      /\ tokens'[i].last < Reached' /\ tokens'[i].last <= Len(text)
                      /\ \A j \in DOMAIN tokens' : j < i => tokens'[j].last < tokens'[i].first
    BY DEF Ordered
  <2>1. CASE i \in DOMAIN tokens
    <3>1. /\ 1 <= tokens[i].first /\ tokens[i].first <= tokens[i].last
          /\ tokens[i].last < Reached /\ tokens[i].last <= Len(text)
          /\ \A j \in DOMAIN tokens : j < i => tokens[j].last < tokens[i].first
      BY <2>1 DEF Ordered
    <3>2. ~ (Len(tokens) + 1 < i) BY <2>1, <1>0
    <3>3. tokens[i].last < Reached'
      BY <3>1, <1>2, <1>3, <2>1
    <3> QED BY <3>1, <3>2, <3>3, <1>1, <2>1
  <2>2. CASE i = Len(tokens) + 1
    <3>1. \A j \in DOMAIN tokens : tokens[j].last < t.first
      BY <1>2, <1>3 DEF Ordered
    <3>2. ~ (Len(tokens) + 1 < i) BY <2>2, <1>0
    <3>3. 1 <= t.first /\ t.first <= t.last /\ t.last < Reached' /\ t.last <= Len(text)
      BY <1>2
    <3> QED BY <3>1, <3>2, <3>3, <1>1, <2>2
  <2> QED BY <1>1, <2>1, <2>2
<1>5. Covered'
  <2> SUFFICES ASSUME NEW k \in 1 .. Reached' - 1
               PROVE  text[k] \in Whitespace \/ \E i \in DOMAIN tokens' :
                        k \in tokens'[i].first .. tokens'[i].last
    BY DEF Covered, InToken
  <2>1. CASE k < Reached
    <3>1. k \in 1 .. Reached - 1 BY <2>1
    <3> QED BY <3>1, <1>1 DEF Covered, InToken
  <2>2. CASE k >= Reached /\ k < t.first
    BY <2>2, <1>2
  <2>3. CASE k >= t.first
    <3>1. k \in t.first .. t.last BY <2>3, <1>2
    <3> QED BY <3>1, <1>1
  <2> QED BY <2>1, <2>2, <2>3, <1>2
<1> QED BY <1>1, <1>4, <1>5

\* The line that is counted at a character is the line it stands on, if it is not
\* itself the end of a line.
LEMMA LineIsTrue ==
  ASSUME ScanType, NEW k \in 1 .. Len(text) + 1, Char(k) # "newline"
  PROVE  LineAt(k) = TrueLine(k)
<1>1. NewlinesTo(k) = {j \in 1 .. k - 1 : text[j] = "newline"}
  BY DEF NewlinesTo, Char, ScanType
<1> QED BY <1>1 DEF LineAt, TrueLine

\* At the end of a line it is one more.
LEMMA LineBehindNewline ==
  ASSUME ScanType, NEW k \in 1 .. Len(text), text[k] = "newline"
  PROVE  LineAt(k) = TrueLine(k) + 1
<1> DEFINE S == {j \in 1 .. k - 1 : text[j] = "newline"}
<1>0. Len(text) \in Nat /\ DOMAIN text = 1 .. Len(text) BY DEF ScanType
<1>1. NewlinesTo(k) = S \cup {k} BY <1>0 DEF NewlinesTo
<1>2. IsFiniteSet(1 .. k - 1) BY FS_Interval, <1>0
<1>3. IsFiniteSet(S)
  <2>1. S \subseteq 1 .. k - 1 OBVIOUS
  <2> QED BY <2>1, <1>2, FS_Subset
<1>4. k \notin S BY <1>0
<1> HIDE DEF S
<1>5. Cardinality(S \cup {k}) = Cardinality(S) + 1 BY <1>3, <1>4, FS_AddElement
<1>6. Cardinality(S) \in Nat BY <1>3, FS_CardinalityType
<1>7. LineAt(k) = 1 + (Cardinality(S) + 1) BY <1>1, <1>5 DEF LineAt
<1>8. TrueLine(k) = 1 + Cardinality(S) BY DEF TrueLine, S
<1> QED BY <1>6, <1>7, <1>8

LEMMA LinesAreNumbers ==
  ASSUME ScanType, NEW k \in Nat
  PROVE  LineAt(k) \in Nat /\ TrueLine(k) \in Nat
<1>0. Len(text) \in Nat /\ DOMAIN text = 1 .. Len(text) BY DEF ScanType
<1>1. IsFiniteSet(1 .. Len(text)) /\ IsFiniteSet(1 .. k - 1) BY FS_Interval, <1>0
<1>2. IsFiniteSet(NewlinesTo(k))
  <2>1. NewlinesTo(k) \subseteq 1 .. Len(text) BY <1>0 DEF NewlinesTo
  <2> QED BY <2>1, <1>1, FS_Subset
<1>3. IsFiniteSet({j \in 1 .. k - 1 : text[j] = "newline"})
  <2>1. {j \in 1 .. k - 1 : text[j] = "newline"} \subseteq 1 .. k - 1 OBVIOUS
  <2> QED BY <2>1, <1>1, FS_Subset
<1>4. Cardinality(NewlinesTo(k)) \in Nat BY <1>2, FS_CardinalityType
<1>5. Cardinality({j \in 1 .. k - 1 : text[j] = "newline"}) \in Nat BY <1>3, FS_CardinalityType
<1> QED BY <1>4, <1>5 DEF LineAt, TrueLine

LineOf(k) == TrueLine(k) + (IF text[k] = Underscore /\ Char(k + 1) = "newline" THEN 1 ELSE 0)

\* A token with the line it should have keeps the lines right.
LEMMA AddLine ==
  ASSUME ScanType, LinesAreTrue, NEW t \in TokenSet,
         tokens' = Append(tokens, t), text' = text,
         t.line = LineOf(t.first)
  PROVE  LinesAreTrue'
<1>1. /\ DOMAIN tokens' = DOMAIN tokens \cup {Len(tokens) + 1}
      /\ \A i \in DOMAIN tokens : tokens'[i] = tokens[i]
      /\ tokens'[Len(tokens) + 1] = t
  BY Appended
<1>3. \A i \in DOMAIN tokens :
        tokens[i].line = LineOf(tokens[i].first)
  BY DEF LinesAreTrue, LoneUnderscore, LineOf
<1> SUFFICES ASSUME NEW i \in DOMAIN tokens'
             PROVE  tokens'[i].line = LineOf(tokens'[i].first)
  <2>1. ASSUME NEW i \in DOMAIN tokens'
        PROVE  tokens'[i].line = (TrueLine(tokens[i].first))'
                 + (IF LoneUnderscore(i)' THEN 1 ELSE 0)
    <3>1. (TrueLine(tokens[i].first))' = TrueLine(tokens'[i].first) BY DEF TrueLine
    <3>2. LoneUnderscore(i)' <=> (text[tokens'[i].first] = Underscore
                                  /\ Char(tokens'[i].first + 1) = "newline")
      BY DEF LoneUnderscore, Char
    <3> QED BY <3>1, <3>2 DEF LineOf
  <2> QED BY <2>1 DEF LinesAreTrue
<1>4. CASE i \in DOMAIN tokens BY <1>1, <1>3, <1>4
<1>5. CASE i = Len(tokens) + 1 BY <1>1, <1>5
<1> QED BY <1>1, <1>4, <1>5

LEMMA MovedTo ==
  ASSUME ScanType, NEW k \in 1 .. Len(text) + 1, Moved(k), text' = text
  PROVE  pos' = k /\ pos' \in 1 .. Len(text') + 1 /\ currentLine' = LineAt(pos)'
<1>1. Len(text) \in Nat BY DEF ScanType
<1>2. pos' = k /\ currentLine' = LineAt(k) BY <1>1 DEF Moved
<1>3. LineAt(pos)' = LineAt(pos') BY DEF LineAt, NewlinesTo
<1> QED BY <1>2, <1>3 DEF LineAt, NewlinesTo

LEMMA FoundOK ==
  ASSUME ScanInv, pc = "tokens", Char(At) # Eof,
         NEW type \in TokenTypes, NEW next \in At + 1 .. Len(text) + 1,
         NEW line \in Int, line = LineOf(At), NEW endLine \in Int,
         tokens' = Append(tokens, Token(type, At, next, line, endLine)),
         Moved(next), UNCHANGED <<text, pc, opened>>
  PROVE  ScanInv'
<1> DEFINE t == Token(type, At, next, line, endLine)
<1>0. Len(text) \in Nat /\ pos \in 1 .. Len(text) + 1 /\ text \in Seq(Chars)
      /\ DOMAIN text = 1 .. Len(text)
  BY DEF ScanInv, ScanType
<1>1. /\ At \in pos .. Len(text)
      /\ \A k \in pos .. At - 1 : text[k] \in Whitespace
  <2>1. At \in pos .. Len(text) + 1 /\ At \in 1 .. Len(text)
    BY SkipsWhitespace, CharIn, <1>0 DEF ScanInv
  <2> QED BY <2>1, SkipsWhitespace, <1>0 DEF ScanInv
<1>2. /\ t \in TokenSet /\ t.first = At /\ t.last = next - 1 /\ t.line = line
  BY <1>0, <1>1 DEF Token, TokenSet
<1>3. /\ tokens' = Append(tokens, t) /\ text' = text /\ pc' = pc /\ opened' = opened
      /\ Moved(next)
  OBVIOUS
<1>4. /\ pos' = next /\ pos' \in 1 .. Len(text') + 1 /\ currentLine' = LineAt(pos)'
  BY <1>0, <1>1, <1>3, MovedTo DEF ScanInv
<1>5. Reached = pos /\ Reached' = next BY <1>3, <1>4 DEF Reached
<1> HIDE DEF t
<1>6. tokens' \in Seq(TokenSet) /\ Ordered' /\ Covered'
  BY <1>0, <1>1, <1>2, <1>3, <1>5, AddToken DEF ScanInv
<1>7. LinesAreTrue' BY <1>2, <1>3, AddLine DEF ScanInv
<1>8. ScanType' BY <1>3, <1>4, <1>6 DEF ScanInv, ScanType
<1>9. CommentIsOpen' BY <1>3 DEF CommentIsOpen
<1> QED BY <1>6, <1>7, <1>8, <1>9 DEF ScanInv

LEMMA PlainLine ==
  ASSUME NEW k \in Nat, TrueLine(k) \in Nat, text[k] # Underscore
  PROVE  LineOf(k) = TrueLine(k)
<1>1. LineOf(k) = TrueLine(k) + 0 BY DEF LineOf
<1> QED BY <1>1

\* Where the scanner stands before a token.
LEMMA Begins ==
  ASSUME ScanInv, pc = "tokens", Char(At) # Eof
  PROVE  /\ At \in pos .. Len(text) /\ At \in 1 .. Len(text) /\ Char(At) = text[At]
         /\ Len(text) \in Nat /\ text \in Seq(Chars)
         /\ Reached = pos
         /\ \A k \in pos .. At - 1 : text[k] \in Whitespace
         /\ LineAt(At) = TrueLine(At)
         /\ LineAt(At) \in Nat
<1>0. Len(text) \in Nat /\ pos \in 1 .. Len(text) + 1 /\ text \in Seq(Chars)
      /\ DOMAIN text = 1 .. Len(text)
  BY DEF ScanInv, ScanType
<1>1. /\ At \in pos .. Len(text) + 1 /\ Char(At) \notin Whitespace
      /\ \A k \in pos .. At - 1 : k \in DOMAIN text => text[k] \in Whitespace
  BY SkipsWhitespace DEF ScanInv
<1>2. At \in Int BY <1>0, <1>1
<1>3. At \in 1 .. Len(text) /\ Char(At) = text[At] BY <1>0, <1>2, CharIn
<1>4. Char(At) # "newline" BY <1>1 DEF Whitespace
<1>5. LineAt(At) = TrueLine(At) BY <1>0, <1>3, <1>4, LineIsTrue DEF ScanInv
<1>6. LineAt(At) \in Nat BY <1>0, <1>3, LinesAreNumbers DEF ScanInv
<1>7. At \in pos .. Len(text) BY <1>0, <1>1, <1>3
<1>8. \A k \in pos .. At - 1 : text[k] \in Whitespace BY <1>0, <1>1, <1>3
<1> QED BY <1>0, <1>3, <1>5, <1>6, <1>7, <1>8 DEF Reached

LEMMA WordOK == ASSUME ScanInv, ScanWord PROVE ScanInv'
<1>1. pc = "tokens" /\ Char(At) \in Letters /\ Char(At) # Eof BY NoEof DEF ScanWord
<1>2. At \in 1 .. Len(text) /\ Char(At) = text[At] /\ Len(text) \in Nat /\ text \in Seq(Chars)
      /\ LineAt(At) = TrueLine(At) /\ LineAt(At) \in Nat
  BY <1>1, Begins
<1> DEFINE next == RunOf(At, WordChars)
<1>3. next \in At .. Len(text) + 1 /\ Char(next) \notin WordChars
  <2>1. At \in 1 .. Len(text) + 1 BY <1>2
  <2> QED BY <1>2, <2>1, RunStops, NoEof
<1>4. next \in At + 1 .. Len(text) + 1
  <2>1. next # At BY <1>1, <1>3 DEF WordChars
  <2> QED BY <2>1, <1>2, <1>3
<1>5. WordType(At, next) \in TokenTypes BY DEF WordType, TokenTypes, InvalidTypes
<1>6. LineAt(At) = LineOf(At)
  <2>1. text[At] # Underscore BY <1>1, <1>2, CharsAssumption
  <2> QED BY <2>1, <1>2, PlainLine
<1>7. /\ tokens' = Append(tokens, Token(WordType(At, next), At, next, LineAt(At), LineAt(At)))
      /\ Moved(next) /\ UNCHANGED <<text, pc, opened>>
  BY DEF ScanWord, Found
<1> HIDE DEF next
<1>8. LineAt(At) \in Int BY <1>2
<1> QED BY <1>1, <1>4, <1>5, <1>6, <1>7, <1>8, FoundOK

\* How scanNumber divides the text from k on.
Fraction(i, f) ==
  IF Char(i) = "."
  THEN f \in i + 1 .. Len(text) + 1 /\ Char(f) \notin Digits
         /\ \A j \in i + 1 .. f - 1 : Char(j) \in Digits
  ELSE f = i

Exponent(f, e) ==
  IF Char(f) \in {"e", "E"}
  THEN /\ ExponentDigits(f) \in f + 1 .. Len(text) + 1 /\ e \in ExponentDigits(f) .. Len(text) + 1
       /\ Char(e) \notin Digits /\ \A j \in ExponentDigits(f) .. e - 1 : Char(j) \in Digits
  ELSE e = f

Divides(k, i, f, e, n) ==
  /\ i \in k + 1 .. Len(text) + 1 /\ Char(i) \notin Digits /\ \A j \in k .. i - 1 : Char(j) \in Digits
  /\ f \in i .. Len(text) + 1 /\ Fraction(i, f)
  /\ e \in f .. Len(text) + 1 /\ Exponent(f, e)
  /\ n \in e .. Len(text) + 1 /\ Char(n) \notin WordChars

LEMMA NumberDivides ==
  ASSUME text \in Seq(Chars), NEW k \in 1 .. Len(text), Char(k) \in Digits,
         NEW i, i = IntegerEnd(k), NEW f, f = FractionEnd(i), NEW e, e = ExponentEnd(f),
         NEW n, n = RunOf(e, WordChars)
  PROVE  Divides(k, i, f, e, n)
<1>0. Len(text) \in Nat /\ k \in 1 .. Len(text) + 1
  OBVIOUS
<1>1. i \in k + 1 .. Len(text) + 1 /\ Char(i) \notin Digits /\ \A j \in k .. i - 1 : Char(j) \in Digits
  <2>1. /\ i \in k .. Len(text) + 1 /\ Char(i) \notin Digits
        /\ \A j \in k .. i - 1 : Char(j) \in Digits
    BY <1>0, RunStops, NoEof DEF IntegerEnd
  <2>2. i # k
    BY <2>1
  <2> QED BY <1>0, <2>1, <2>2
<1>2. f \in i .. Len(text) + 1 /\ Fraction(i, f)
  <2>1. CASE Char(i) = "."
    <3>1. Char(i) # Eof
      BY <2>1 DEF Eof
    <3>2. i \in Int
      BY <1>1
    <3>3. i + 1 \in 1 .. Len(text) + 1
      BY <1>0, <3>1, <3>2, CharIn
    <3>4. f = RunOf(i + 1, Digits)
      BY <2>1 DEF FractionEnd
    <3>5. /\ f \in i + 1 .. Len(text) + 1 /\ Char(f) \notin Digits
          /\ \A j \in i + 1 .. f - 1 : Char(j) \in Digits
      BY <3>3, <3>4, RunStops, NoEof
    <3> QED BY <1>0, <2>1, <3>2, <3>5 DEF Fraction
  <2>2. CASE Char(i) # "."
    <3>1. f = i
      BY <2>2 DEF FractionEnd
    <3> QED BY <1>0, <1>1, <2>2, <3>1 DEF Fraction
  <2> QED BY <2>1, <2>2
<1>3. f \in 1 .. Len(text) + 1
  BY <1>0, <1>1, <1>2
<1>4. e \in f .. Len(text) + 1 /\ Exponent(f, e)
  <2>1. CASE Char(f) \in {"e", "E"}
    <3> DEFINE d == ExponentDigits(f)
    <3>1. Char(f) # Eof
      BY <2>1 DEF Eof
    <3>2. f \in 1 .. Len(text)
      BY <1>3, <3>1, CharIn
    <3>3. d \in f + 1 .. Len(text) + 1
      <4>1. CASE Char(f + 1) \in {"+", "-"}
        <5>1. Char(f + 1) # Eof
          BY <4>1 DEF Eof
        <5>2. f + 1 \in Int
          BY <3>2
        <5>3. f + 1 \in 1 .. Len(text)
          BY <5>1, <5>2, CharIn
        <5>4. f + 2 \in f + 1 .. Len(text) + 1
          BY <1>0, <3>2, <5>3
        <5> QED BY <4>1, <5>4 DEF ExponentDigits
      <4>2. CASE Char(f + 1) \notin {"+", "-"}
        <5>1. f + 1 \in f + 1 .. Len(text) + 1
          BY <1>0, <3>2
        <5> QED BY <4>2, <5>1 DEF ExponentDigits
      <4> QED BY <4>1, <4>2
    <3>4. e = RunOf(d, Digits)
      BY <2>1 DEF ExponentEnd
    <3> HIDE DEF d
    <3>5. d \in 1 .. Len(text) + 1
      BY <1>0, <3>2, <3>3
    <3>6. e \in d .. Len(text) + 1 /\ Char(e) \notin Digits /\ \A j \in d .. e - 1 : Char(j) \in Digits
      BY <3>4, <3>5, RunStops, NoEof
    <3>7. e \in f .. Len(text) + 1
      BY <1>0, <3>2, <3>3, <3>6
    <3> QED BY <2>1, <3>3, <3>6, <3>7 DEF Exponent, d
  <2>2. CASE Char(f) \notin {"e", "E"}
    <3>1. e = f
      BY <2>2 DEF ExponentEnd
    <3> QED BY <1>0, <1>3, <2>2, <3>1 DEF Exponent
  <2> QED BY <2>1, <2>2
<1>5. n \in e .. Len(text) + 1 /\ Char(n) \notin WordChars
  <2>1. e \in 1 .. Len(text) + 1
    BY <1>0, <1>3, <1>4
  <2> QED BY <2>1, RunStops, NoEof
<1> QED BY <1>1, <1>2, <1>4, <1>5 DEF Divides

LEMMA NumberOK == ASSUME ScanInv, ScanNumber PROVE ScanInv'
<1>1. pc = "tokens" /\ Char(At) \in Digits /\ Char(At) # Eof BY NoEof DEF ScanNumber
<1>2. At \in 1 .. Len(text) /\ Char(At) = text[At] /\ Len(text) \in Nat
      /\ LineAt(At) = TrueLine(At) /\ LineAt(At) \in Nat
  BY <1>1, Begins
<1> DEFINE i == IntegerEnd(At)
           f == FractionEnd(i)
           e == ExponentEnd(f)
           next == RunOf(e, WordChars)
           good == next = e /\ GoodInteger(At, i) /\ GoodFraction(i, f) /\ GoodExponent(f, e)
           type == IF good THEN IF f > i THEN "floatlit" ELSE "intlit" ELSE "invalidlit"
<1>3. /\ i \in At + 1 .. Len(text) + 1 /\ f \in i .. Len(text) + 1
      /\ e \in f .. Len(text) + 1 /\ next \in e .. Len(text) + 1
  <2>1. text \in Seq(Chars)
    BY DEF ScanInv, ScanType
  <2>2. Divides(At, i, f, e, next)
    <3> HIDE DEF i, f, e, next
    <3>1. i = IntegerEnd(At) /\ f = FractionEnd(i) /\ e = ExponentEnd(f) /\ next = RunOf(e, WordChars)
      BY DEF i, f, e, next
    <3> QED BY <1>1, <1>2, <2>1, <3>1, NumberDivides
  <2> HIDE DEF i, f, e, next
  <2> QED BY <2>2 DEF Divides
<1>4. Found(type, At, next, LineAt(At)) BY DEF ScanNumber
<1>5. /\ tokens' = Append(tokens, Token(type, At, next, LineAt(At), LineAt(At)))
      /\ Moved(next) /\ UNCHANGED <<text, pc, opened>>
  BY <1>4 DEF Found
<1> HIDE DEF i, f, e, next, good
<1>6. next \in At + 1 .. Len(text) + 1 BY <1>2, <1>3
<1>7. type \in TokenTypes BY DEF TokenTypes, InvalidTypes
<1> HIDE DEF type
<1>8. LineAt(At) = LineOf(At)
  <2>1. text[At] # Underscore BY <1>1, <1>2, CharsAssumption
  <2> QED BY <2>1, <1>2, PlainLine
<1>9. LineAt(At) \in Int BY <1>2
<1> QED BY <1>1, <1>5, <1>6, <1>7, <1>8, <1>9, FoundOK

LEMMA SymbolOK == ASSUME ScanInv, ScanSymbol PROVE ScanInv'
<1>1. pc = "tokens" /\ Char(At) # Eof /\ Char(At) # Underscore BY DEF ScanSymbol
<1>2. At \in 1 .. Len(text) /\ Char(At) = text[At] /\ Len(text) \in Nat /\ text \in Seq(Chars)
      /\ LineAt(At) = TrueLine(At) /\ LineAt(At) \in Nat
  BY <1>1, Begins
<1> DEFINE next == At + Len(Symbols(At))
           type == SymbolType(Symbols(At))
<1>3. next \in At + 1 .. Len(text) + 1
  <2>1. CASE <<Char(At), Char(At + 1)>> \in TwoCharOperators
    <3>1. Char(At + 1) \in {"=", ">"} BY <2>1 DEF TwoCharOperators
    <3>2. Char(At + 1) # Eof BY <3>1 DEF Eof
    <3>3. At + 1 \in Int BY <1>2
    <3>4. At + 1 \in 1 .. Len(text) BY <1>2, <3>2, <3>3, CharIn
    <3>5. Symbols(At) = <<Char(At), Char(At + 1)>> BY <2>1 DEF Symbols
    <3>6. Len(Symbols(At)) = 2 BY <3>5
    <3> QED BY <3>4, <3>6, <1>2
  <2>2. CASE <<Char(At), Char(At + 1)>> \notin TwoCharOperators
    <3>1. Symbols(At) = <<Char(At)>> BY <2>2 DEF Symbols
    <3>2. Len(Symbols(At)) = 1 BY <3>1
    <3> QED BY <3>2, <1>2
  <2> QED BY <2>1, <2>2
<1>4. /\ tokens' = Append(tokens, Token(type, At, next, LineAt(At), LineAt(At)))
      /\ Moved(next) /\ UNCHANGED <<text, pc, opened>>
  BY DEF ScanSymbol, Found
<1>5. type \in TokenTypes BY DEF SymbolType, TokenTypes, InvalidTypes
<1> HIDE DEF next, type
<1>6. LineAt(At) = LineOf(At)
  <2>1. text[At] # Underscore BY <1>1, <1>2
  <2> QED BY <2>1, <1>2, PlainLine
<1>7. LineAt(At) \in Int BY <1>2
<1> QED BY <1>1, <1>3, <1>4, <1>5, <1>6, <1>7, FoundOK

\* The line of an underscore is taken at the character behind it.
LEMMA LineOfUnderscore ==
  ASSUME ScanType, NEW k \in 1 .. Len(text), text[k] = Underscore, text[k] # "newline"
  PROVE  LineAt(k + 1) = LineOf(k)
<1>0. Len(text) \in Nat /\ k + 1 \in 1 .. Len(text) + 1 /\ k \in Nat /\ k + 1 \in Nat
      /\ DOMAIN text = 1 .. Len(text)
  BY DEF ScanType
<1>1. TrueLine(k + 1) = TrueLine(k)
  <2>1. {j \in 1 .. (k + 1) - 1 : text[j] = "newline"} = {j \in 1 .. k - 1 : text[j] = "newline"}
    BY <1>0
  <2> QED BY <2>1 DEF TrueLine
<1>2. TrueLine(k) \in Nat BY <1>0, LinesAreNumbers
<1>3. CASE Char(k + 1) = "newline"
  <2>1. Char(k + 1) # Eof BY <1>3 DEF Eof
  <2>2. k + 1 \in 1 .. Len(text) /\ text[k + 1] = "newline"
    BY <1>0, <1>3, <2>1, CharIn DEF ScanType
  <2>3. LineAt(k + 1) = TrueLine(k + 1) + 1 BY <2>2, LineBehindNewline
  <2>4. LineOf(k) = TrueLine(k) + 1 BY <1>3 DEF LineOf
  <2> QED BY <1>1, <2>3, <2>4
<1>4. CASE Char(k + 1) # "newline"
  <2>1. LineAt(k + 1) = TrueLine(k + 1) BY <1>0, <1>4, LineIsTrue
  <2>2. LineOf(k) = TrueLine(k) + 0 BY <1>4 DEF LineOf
  <2> QED BY <1>1, <1>2, <2>1, <2>2
<1> QED BY <1>3, <1>4

LEMMA UnderscoreOK == ASSUME ScanInv, ScanUnderscore PROVE ScanInv'
<1>0. Underscore # Eof /\ Underscore # "newline" BY Zenon DEF Underscore, Eof
<1>1. pc = "tokens" /\ Char(At) = Underscore /\ Char(At) # Eof
  BY <1>0 DEF ScanUnderscore
<1>2. At \in 1 .. Len(text) /\ Char(At) = text[At] /\ Len(text) \in Nat /\ text \in Seq(Chars)
  BY <1>1, Begins
<1> DEFINE next == RunOf(At + 1, WordChars)
<1>3. next \in At + 1 .. Len(text) + 1
  <2>1. At + 1 \in 1 .. Len(text) + 1 BY <1>2
  <2> QED BY <1>2, <2>1, RunStops, NoEof
<1>4. /\ tokens' = Append(tokens, Token("invalidid", At, next, LineAt(At + 1), LineAt(At + 1)))
      /\ Moved(next) /\ UNCHANGED <<text, pc, opened>>
  BY DEF ScanUnderscore, Found
<1>5. "invalidid" \in TokenTypes BY DEF TokenTypes, InvalidTypes
<1> HIDE DEF next
<1>6. LineAt(At + 1) = LineOf(At) BY <1>0, <1>1, <1>2, LineOfUnderscore DEF ScanInv
<1>7. LineAt(At + 1) \in Int
  <2>1. At + 1 \in Nat BY <1>2
  <2> QED BY <2>1, LinesAreNumbers DEF ScanInv
<1> QED BY <1>1, <1>3, <1>4, <1>5, <1>6, <1>7, FoundOK

\* No token is added, and nothing but white space is passed over.
LEMMA GapOK ==
  ASSUME ScanInv, UNCHANGED <<text, tokens>>,
         Reached \in 1 .. Len(text) + 1, NEW next \in Reached .. Len(text) + 1, Reached' = next,
         \A k \in Reached .. next - 1 : text[k] \in Whitespace
  PROVE  Ordered' /\ Covered' /\ LinesAreTrue'
<1>0. Len(text) \in Nat /\ tokens \in Seq(TokenSet) BY DEF ScanInv, ScanType
<1>1. Ordered'
  <2> SUFFICES ASSUME NEW i \in DOMAIN tokens
               PROVE  /\ 1 <= tokens[i].first /\ tokens[i].first <= tokens[i].last
                      /\ tokens[i].last < Reached' /\ tokens[i].last <= Len(text)
                      /\ \A j \in DOMAIN tokens : j < i => tokens[j].last < tokens[i].first
    BY DEF Ordered
  <2>1. tokens[i].last < Reached BY DEF ScanInv, Ordered
  <2>2. tokens[i].last \in Nat
    <3>1. tokens[i] \in TokenSet BY <1>0
    <3> QED BY <3>1 DEF TokenSet
  <2>3. tokens[i].last < Reached' BY <1>0, <2>1, <2>2
  <2> QED BY <2>3 DEF ScanInv, Ordered
<1>2. Covered'
  <2> SUFFICES ASSUME NEW k \in 1 .. next - 1
               PROVE  text[k] \in Whitespace \/ InToken(k)
    BY DEF Covered, InToken
  <2>1. CASE k < Reached
    <3>1. k \in 1 .. Reached - 1 BY <2>1, <1>0
    <3> QED BY <3>1 DEF ScanInv, Covered
  <2>2. CASE k >= Reached
    <3>1. k \in Reached .. next - 1 BY <2>2, <1>0
    <3> QED BY <3>1
  <2> QED BY <2>1, <2>2, <1>0
<1>3. LinesAreTrue' = LinesAreTrue BY DEF LinesAreTrue, LoneUnderscore, TrueLine, Char
<1> QED BY <1>1, <1>2, <1>3 DEF ScanInv

LEMMA EndOfFileOK == ASSUME ScanInv, EndOfFile PROVE ScanInv'
<1>0. Len(text) \in Nat /\ pos \in 1 .. Len(text) + 1 /\ DOMAIN text = 1 .. Len(text)
      /\ text \in Seq(Chars)
  BY DEF ScanInv, ScanType
<1>1. /\ At \in pos .. Len(text) + 1
      /\ \A k \in pos .. At - 1 : k \in DOMAIN text => text[k] \in Whitespace
  BY SkipsWhitespace DEF ScanInv
<1>2. At \in 1 .. Len(text) + 1 BY <1>0, <1>1
<1>3. /\ pc = "tokens" /\ pc' = "end" /\ Moved(At)
      /\ UNCHANGED <<text, nesting, opened, tokens>>
  BY DEF EndOfFile
<1>4. pos' = At /\ pos' \in 1 .. Len(text') + 1 /\ currentLine' = LineAt(pos)'
  BY <1>2, <1>3, MovedTo DEF ScanInv
<1>5. Reached = pos /\ Reached' = At BY <1>3, <1>4 DEF Reached
<1>6. \A k \in Reached .. Reached' - 1 : text[k] \in Whitespace BY <1>0, <1>1, <1>5
<1>7. Ordered' /\ Covered' /\ LinesAreTrue' BY <1>0, <1>1, <1>3, <1>5, <1>6, GapOK
<1>8. ScanType' BY <1>3, <1>4 DEF ScanInv, ScanType
<1>9. CommentIsOpen' BY <1>3 DEF CommentIsOpen
<1> QED BY <1>7, <1>8, <1>9 DEF ScanInv

LEMMA SlashIsPlain == Underscore # "/" /\ "/" # Eof /\ "*" # Eof
BY Zenon DEF Underscore, Eof

LEMMA InlineCommentOK == ASSUME ScanInv, ScanInlineComment PROVE ScanInv'
<1>1. pc = "tokens" /\ Char(At) = "/" /\ Char(At + 1) = "/" /\ Char(At) # Eof
  BY SlashIsPlain DEF ScanInlineComment, OpensComment
<1>2. At \in 1 .. Len(text) /\ Char(At) = text[At] /\ Len(text) \in Nat /\ text \in Seq(Chars)
      /\ LineAt(At) = TrueLine(At) /\ LineAt(At) \in Nat
  BY <1>1, Begins
<1> DEFINE next == RunOf(At + 2, Chars \ {"newline"})
<1>3. At + 1 \in 1 .. Len(text)
  <2>1. At + 1 \in Int /\ Char(At + 1) # Eof BY <1>1, <1>2, SlashIsPlain
  <2> QED BY <1>2, <2>1, CharIn
<1>4. next \in At + 2 .. Len(text) + 1
  <2>1. At + 2 \in 1 .. Len(text) + 1 BY <1>2, <1>3
  <2> QED BY <1>2, <2>1, RunStops, NoEof
<1>5. /\ tokens' = Append(tokens, Token("inlinecmt", At, next, LineAt(At), LineAt(next) - 1))
      /\ Moved(next) /\ UNCHANGED <<text, pc, opened>>
  BY DEF ScanInlineComment
<1>6. "inlinecmt" \in TokenTypes BY DEF TokenTypes, Comments
<1> HIDE DEF next
<1>7. next \in At + 1 .. Len(text) + 1 BY <1>2, <1>4
<1>8. LineAt(At) = LineOf(At)
  <2>1. text[At] # Underscore BY <1>1, <1>2, SlashIsPlain
  <2> QED BY <2>1, <1>2, PlainLine
<1>9. LineAt(At) \in Int /\ LineAt(next) - 1 \in Int
  <2>1. next \in Nat BY <1>2, <1>7
  <2>2. LineAt(next) \in Nat BY <2>1, LinesAreNumbers DEF ScanInv
  <2> QED BY <2>2, <1>2
<1> QED BY <1>1, <1>5, <1>6, <1>7, <1>8, <1>9, FoundOK

LEMMA BlockCommentOK == ASSUME ScanInv, ScanBlockComment PROVE ScanInv'
<1>1. pc = "tokens" /\ Char(At) = "/" /\ Char(At + 1) = "*" /\ Char(At) # Eof
  BY SlashIsPlain DEF ScanBlockComment, OpensComment
<1>2. At \in 1 .. Len(text) /\ At \in pos .. Len(text) /\ Char(At) = text[At]
      /\ Len(text) \in Nat /\ text \in Seq(Chars) /\ Reached = pos
      /\ LineAt(At) = TrueLine(At) /\ LineAt(At) \in Nat
      /\ \A k \in pos .. At - 1 : text[k] \in Whitespace
  BY <1>1, Begins
<1>3. At + 1 \in 1 .. Len(text)
  <2>1. At + 1 \in Int /\ Char(At + 1) # Eof BY <1>1, <1>2, SlashIsPlain
  <2> QED BY <1>2, <2>1, CharIn
<1>4. At + 2 \in 1 .. Len(text) + 1 BY <1>2, <1>3
<1>5. /\ pc' = "comment" /\ opened' = [first |-> At, line |-> LineAt(At)]
      /\ Moved(At + 2) /\ UNCHANGED <<text, tokens>>
  BY DEF ScanBlockComment, OpenedAt
<1>6. pos' = At + 2 /\ pos' \in 1 .. Len(text') + 1 /\ currentLine' = LineAt(pos)'
  BY <1>4, <1>5, MovedTo DEF ScanInv
<1>7. Reached' = At BY <1>5 DEF Reached
<1>8. pos \in 1 .. Len(text) + 1 BY DEF ScanInv, ScanType
<1>9. Ordered' /\ Covered' /\ LinesAreTrue'
  <2>1. Reached' \in Reached .. Len(text) + 1 BY <1>2, <1>7
  <2> QED BY <2>1, <1>2, <1>5, <1>7, <1>8, GapOK
<1>10. ScanType'
  <2>1. opened' \in [first : Nat, line : Int] BY <1>2, <1>5
  <2> QED BY <2>1, <1>5, <1>6 DEF ScanInv, ScanType
<1>11. CommentIsOpen'
  <2>1. opened'.first = At /\ opened'.line = TrueLine(At) BY <1>2, <1>5
  <2>2. At \in 1 .. pos' - 1 BY <1>2, <1>6
  <2>3. TrueLine(opened.first)' = TrueLine(At) BY <1>5, <2>1 DEF TrueLine
  <2> QED BY <1>1, <1>2, <1>5, <2>1, <2>2, <2>3 DEF CommentIsOpen
<1> QED BY <1>9, <1>10, <1>11 DEF ScanInv

LEMMA CommentStepOK == ASSUME ScanInv, CommentStep PROVE ScanInv'
<1>0. Len(text) \in Nat /\ pos \in 1 .. Len(text) + 1 /\ DOMAIN text = 1 .. Len(text)
      /\ text \in Seq(Chars)
  BY DEF ScanInv, ScanType
<1>1. pc = "comment" /\ Char(pos) # Eof BY DEF CommentStep, InComment
<1>2. pos \in 1 .. Len(text) BY <1>0, <1>1, CharIn
<1>3. PICK k \in pos + 1 .. Len(text) + 1 : Moved(k)
  <2>1. CASE Opens(pos) \/ Closes(pos)
    <3>1. Char(pos + 1) # Eof BY <2>1, SlashIsPlain DEF Opens, Closes
    <3>2. pos + 1 \in Int BY <1>0
    <3>3. pos + 1 \in 1 .. Len(text) BY <1>0, <3>1, <3>2, CharIn
    <3>4. pos + 2 \in pos + 1 .. Len(text) + 1 BY <1>0, <3>3
    <3>5. Moved(pos + 2) BY <2>1 DEF CommentStep
    <3> QED BY <3>4, <3>5
  <2>2. CASE ~ (Opens(pos) \/ Closes(pos))
    <3>1. pos + 1 \in pos + 1 .. Len(text) + 1 BY <1>0, <1>2
    <3>2. Moved(pos + 1) BY <2>2 DEF CommentStep
    <3> QED BY <3>1, <3>2
  <2> QED BY <2>1, <2>2
<1>4. UNCHANGED <<text, pc, opened, tokens>> BY DEF CommentStep
<1>5. k \in 1 .. Len(text) + 1 BY <1>0
<1>6. pos' = k /\ pos' \in 1 .. Len(text') + 1 /\ currentLine' = LineAt(pos)'
  BY <1>3, <1>4, <1>5, MovedTo DEF ScanInv
<1>7. Reached = opened.first /\ Reached' = opened.first BY <1>1, <1>4 DEF Reached
<1>8. opened.first \in 1 .. pos - 1 /\ opened.first \in 1 .. Len(text)
  BY <1>1 DEF ScanInv, CommentIsOpen
<1>9. Ordered' /\ Covered' /\ LinesAreTrue'
  <2>1. Reached' \in Reached .. Len(text) + 1 /\ Reached \in 1 .. Len(text) + 1
    BY <1>0, <1>7, <1>8
  <2>2. Reached .. Reached' - 1 = {} BY <1>7, <1>8, <1>0
  <2> QED BY <2>1, <2>2, <1>4, GapOK
<1>10. ScanType' BY <1>4, <1>6 DEF ScanInv, ScanType
<1>11. CommentIsOpen'
  <2>1. opened.first \in 1 .. pos' - 1 BY <1>0, <1>6, <1>8
  <2>2. TrueLine(opened.first)' = TrueLine(opened.first) BY <1>4 DEF TrueLine
  <2>3. text[opened.first] = "/" /\ opened.line = TrueLine(opened.first)
    BY <1>1 DEF ScanInv, CommentIsOpen
  <2> QED BY <1>4, <1>8, <2>1, <2>2, <2>3 DEF CommentIsOpen
<1> QED BY <1>9, <1>10, <1>11 DEF ScanInv

LEMMA CommentEndsOK == ASSUME ScanInv, CommentEnds PROVE ScanInv'
<1> DEFINE t == Token("blockcmt", opened.first, pos, opened.line, currentLine - 1)
<1>0. Len(text) \in Nat /\ pos \in 1 .. Len(text) + 1 /\ text \in Seq(Chars)
      /\ opened \in [first : Nat, line : Int] /\ currentLine = LineAt(pos)
  BY DEF ScanInv, ScanType
<1>1. /\ pc = "comment" /\ pc' = "tokens" /\ tokens' = Append(tokens, t)
      /\ UNCHANGED <<text, pos, currentLine, nesting, opened>>
  BY DEF CommentEnds
<1>2. /\ opened.first \in 1 .. pos - 1 /\ opened.first \in 1 .. Len(text)
      /\ text[opened.first] = "/" /\ opened.line = TrueLine(opened.first)
  BY <1>1 DEF ScanInv, CommentIsOpen
<1>3. currentLine \in Nat
  <2>1. pos \in Nat BY <1>0
  <2> QED BY <1>0, <2>1, LinesAreNumbers DEF ScanInv
<1>4. /\ t \in TokenSet /\ t.first = opened.first /\ t.last = pos - 1
      /\ t.line = opened.line
  BY <1>0, <1>2, <1>3 DEF Token, TokenSet, TokenTypes, Comments
<1> HIDE DEF t
<1>5. Reached = opened.first /\ Reached' = pos BY <1>1 DEF Reached
<1>6. tokens' \in Seq(TokenSet) /\ Ordered' /\ Covered'
  <2>1. t.first \in Reached .. Len(text) /\ Reached \in 1 .. Len(text) + 1
    BY <1>0, <1>2, <1>4, <1>5
  <2>2. pos \in Nat /\ t.first < pos /\ pos <= Len(text) + 1 BY <1>0, <1>2, <1>4
  <2>3. \A k \in Reached .. t.first - 1 : text[k] \in Whitespace BY <1>2, <1>4, <1>5
  <2> QED BY <1>1, <1>4, <1>5, <2>1, <2>2, <2>3, AddToken DEF ScanInv
<1>7. LinesAreTrue'
  <2>1. TrueLine(opened.first) \in Nat /\ opened.first \in Nat
    BY <1>0, LinesAreNumbers DEF ScanInv
  <2>2. LineOf(opened.first) = TrueLine(opened.first)
    BY <1>2, <2>1, PlainLine, SlashIsPlain
  <2>3. t.line = LineOf(t.first) BY <1>2, <1>4, <2>2
  <2> QED BY <1>1, <1>4, <2>3, AddLine DEF ScanInv
<1>8. ScanType'
  <2>1. LineAt(pos)' = LineAt(pos) BY <1>1 DEF LineAt, NewlinesTo
  <2> QED BY <1>0, <1>1, <1>6, <2>1 DEF ScanType
<1>9. CommentIsOpen' BY <1>1 DEF CommentIsOpen
<1> QED BY <1>6, <1>7, <1>8, <1>9 DEF ScanInv

-----------------------------------------------------------------------------

LEMMA ScanStarts == ScannerInit => ScanInv
<1> SUFFICES ASSUME ScannerInit PROVE ScanInv OBVIOUS
<1>1. text \in Seq(Chars) BY CharsAssumption DEF ScannerInit
<1>2. Len(text) \in Nat BY <1>1
<1>3. ScanType BY <1>1, <1>2 DEF ScannerInit, ScanType
<1>4. Reached = 1 /\ DOMAIN tokens = {} BY DEF ScannerInit, Reached
<1>5. Ordered /\ LinesAreTrue BY <1>4 DEF Ordered, LinesAreTrue
<1>6. Covered BY <1>4 DEF Covered
<1>7. CommentIsOpen BY DEF ScannerInit, CommentIsOpen
<1> QED BY <1>3, <1>5, <1>6, <1>7 DEF ScanInv

LEMMA ScanGoesOn == ScanInv /\ [ScanStep]_scannerVars => ScanInv'
<1> SUFFICES ASSUME ScanInv, [ScanStep]_scannerVars PROVE ScanInv' OBVIOUS
<1>1. CASE EndOfFile BY <1>1, EndOfFileOK
<1>2. CASE ScanInlineComment BY <1>2, InlineCommentOK
<1>3. CASE ScanBlockComment BY <1>3, BlockCommentOK
<1>4. CASE CommentStep BY <1>4, CommentStepOK
<1>5. CASE CommentEnds BY <1>5, CommentEndsOK
<1>6. CASE ScanWord BY <1>6, WordOK
<1>7. CASE ScanNumber BY <1>7, NumberOK
<1>8. CASE ScanSymbol BY <1>8, SymbolOK
<1>9. CASE ScanUnderscore BY <1>9, UnderscoreOK
<1>10. CASE UNCHANGED scannerVars
  <2>1. UNCHANGED <<text, pc, pos, currentLine, nesting, opened, tokens>>
    BY <1>10 DEF scannerVars
  <2>2. ScanType' BY <2>1 DEF ScanInv, ScanType, LineAt, NewlinesTo
  <2>3. CommentIsOpen' BY <2>1 DEF ScanInv, CommentIsOpen, TrueLine
  <2>4. Ordered' /\ Covered' BY <2>1 DEF ScanInv, Ordered, Covered, InToken, Reached
  <2>5. LinesAreTrue' BY <2>1 DEF ScanInv, LinesAreTrue, LoneUnderscore, TrueLine, Char
  <2> QED BY <2>2, <2>3, <2>4, <2>5 DEF ScanInv
<1> QED
  BY <1>1, <1>2, <1>3, <1>4, <1>5, <1>6, <1>7, <1>8, <1>9, <1>10 DEF ScanStep

\* The order of the tokens leaves no character to two of them.
LEMMA CoverIsLoss == ScanInv => NoCharacterIsLost
<1> SUFFICES ASSUME ScanInv, NEW k \in 1 .. Reached - 1, text[k] \notin Whitespace
             PROVE  \E i \in DOMAIN tokens :
                      /\ k \in tokens[i].first .. tokens[i].last
                      /\ \A j \in DOMAIN tokens : k \in tokens[j].first .. tokens[j].last => j = i
  BY DEF NoCharacterIsLost
<1>0. tokens \in Seq(TokenSet) /\ Len(tokens) \in Nat /\ DOMAIN tokens = 1 .. Len(tokens)
  BY DEF ScanInv, ScanType
<1>1. PICK i \in DOMAIN tokens : k \in tokens[i].first .. tokens[i].last
  BY DEF ScanInv, Covered, InToken
<1>2. ASSUME NEW j \in DOMAIN tokens, k \in tokens[j].first .. tokens[j].last PROVE j = i
  <2>1. tokens[i] \in TokenSet /\ tokens[j] \in TokenSet BY <1>0
  <2>2. /\ tokens[i].first \in Nat /\ tokens[i].last \in Nat
        /\ tokens[j].first \in Nat /\ tokens[j].last \in Nat
    BY <2>1 DEF TokenSet
  <2>3. j < i => tokens[j].last < tokens[i].first BY DEF ScanInv, Ordered
  <2>4. i < j => tokens[i].last < tokens[j].first BY DEF ScanInv, Ordered
  <2>5. ~ (j < i) BY <1>1, <1>2, <2>2, <2>3
  <2>6. ~ (i < j) BY <1>1, <1>2, <2>2, <2>4
  <2> QED BY <1>0, <2>5, <2>6
<1> QED BY <1>1, <1>2

\* Whatever the text: each character the scanner has passed is white space or belongs
\* to exactly one token.
THEOREM NothingIsLost == ScanSpec => []NoCharacterIsLost
<1> QED BY ScanStarts, ScanGoesOn, CoverIsLoss, PTL DEF ScanSpec

\* Whatever the text: a token has the line that it begins on, but for an underscore
\* alone at the end of a line.
THEOREM LinesAreRight == ScanSpec => []LinesAreTrue
<1>1. ScanInv => LinesAreTrue BY DEF ScanInv
<1> QED BY <1>1, ScanStarts, ScanGoesOn, PTL DEF ScanSpec

-----------------------------------------------------------------------------

Spots == 1 .. Len(text) + 1

\* The step of the definition of Inside.
InsideStep(f, i) ==
  {i} \cup
  IF Opens(i) THEN UNION {f[k + 2] : k \in {j \in f[i + 2] : Closes(j)}}
  ELSE IF Closes(i) \/ i > Len(text) THEN {} ELSE f[i + 1]

LEMMA InsideStays == UNCHANGED text => Inside' = Inside
BY DEF Inside, Opens, Closes, Char

\* The same over a set of stretches.
Ends(Q, i, j) ==
  \/ j = i
  \/ Opens(i) /\ \E k \in Spots : Closes(k) /\ <<i + 2, k>> \in Q /\ <<k + 2, j>> \in Q
  \/ ~ Opens(i) /\ ~ Closes(i) /\ i <= Len(text) /\ <<i + 1, j>> \in Q

LEMMA PairsFit ==
  ASSUME text \in Seq(Chars), NEW i \in Spots, Opens(i) \/ Closes(i)
  PROVE  i + 2 \in Spots
<1>1. Char(i + 1) # Eof /\ i + 1 \in Int
  BY SlashIsPlain DEF Opens, Closes, Spots
<1>2. i + 1 \in 1 .. Len(text)
  BY <1>1, CharIn
<1> QED BY <1>2 DEF Spots

\* There is a least set of stretches that is closed under these steps.
LEMMA InsideIs ==
  ASSUME text \in Seq(Chars)
  PROVE  Inside = [i \in Spots |-> InsideStep(Inside, i)]
<1> DEFINE Closed(Q) == \A i, j \in Spots : Ends(Q, i, j) => <<i, j>> \in Q
           R == {p \in Spots \X Spots : \A Q \in SUBSET (Spots \X Spots) : Closed(Q) => p \in Q}
           f == [i \in Spots |-> {j \in Spots : <<i, j>> \in R}]
<1>1. ASSUME NEW Q, NEW P, Q \subseteq P, NEW i, NEW j, Ends(Q, i, j)
      PROVE  Ends(P, i, j)
  BY <1>1 DEF Ends
<1>2. ASSUME NEW i \in Spots, NEW j \in Spots, Ends(R, i, j)
      PROVE  <<i, j>> \in R
  <2>1. ASSUME NEW Q \in SUBSET (Spots \X Spots), Closed(Q)
        PROVE  <<i, j>> \in Q
    <3>1. R \subseteq Q
      BY <2>1
    <3>2. Ends(Q, i, j)
      BY <1>1, <1>2, <3>1
    <3> QED BY <2>1, <3>2
  <2> QED BY <2>1
<1>3. ASSUME NEW i \in Spots, NEW j \in Spots, <<i, j>> \in R
      PROVE  Ends(R, i, j)
  <2> DEFINE Q == {p \in Spots \X Spots : Ends(R, p[1], p[2])}
  <2>1. Q \subseteq R
    <3>1. SUFFICES ASSUME NEW p \in Q PROVE p \in R
      OBVIOUS
    <3>2. PICK a \in Spots, b \in Spots : p = <<a, b>>
      OBVIOUS
    <3>3. Ends(R, a, b)
      BY <3>2
    <3> HIDE DEF R
    <3> QED BY <1>2, <3>2, <3>3
  <2>2. Closed(Q)
    <3> SUFFICES ASSUME NEW a \in Spots, NEW b \in Spots, Ends(Q, a, b)
                 PROVE  <<a, b>> \in Q
      OBVIOUS
    <3>1. Ends(R, a, b)
      BY <1>1, <2>1
    <3> QED BY <3>1
  <2>3. Q \in SUBSET (Spots \X Spots)
    OBVIOUS
  <2>4. <<i, j>> \in Q
    <3> HIDE DEF Closed, Q
    <3> QED BY <1>3, <2>2, <2>3
  <2> HIDE DEF R
  <2> QED BY <2>4
<1> HIDE DEF R, Closed
<1>4. f \in [Spots -> SUBSET Spots] /\ \A i, j \in Spots : j \in f[i] <=> <<i, j>> \in R
  OBVIOUS
<1>5. Len(text) \in Nat /\ DOMAIN text = 1 .. Len(text)
  OBVIOUS
<1>6. \A i \in Spots : Opens(i) \/ Closes(i) => i + 2 \in Spots
  BY PairsFit
<1> HIDE DEF f
<1>7. ASSUME NEW i \in Spots
      PROVE  f[i] = InsideStep(f, i)
  <2>1. f[i] \subseteq InsideStep(f, i)
    <3> SUFFICES ASSUME NEW j \in Spots, Ends(R, i, j) PROVE j \in InsideStep(f, i)
      BY <1>3, <1>4
    <3>1. CASE j = i
      BY <3>1 DEF InsideStep
    <3>2. CASE Opens(i) /\ \E k \in Spots : Closes(k) /\ <<i + 2, k>> \in R /\ <<k + 2, j>> \in R
      <4>1. PICK k \in Spots : Closes(k) /\ <<i + 2, k>> \in R /\ <<k + 2, j>> \in R
        BY <3>2
      <4>2. k \in f[i + 2] /\ j \in f[k + 2]
        BY <1>4, <1>6, <3>2, <4>1
      <4> QED BY <3>2, <4>1, <4>2 DEF InsideStep
    <3>3. CASE ~ Opens(i) /\ ~ Closes(i) /\ i <= Len(text) /\ <<i + 1, j>> \in R
      <4>1. i + 1 \in Spots /\ ~ (i > Len(text))
        BY <1>5, <3>3 DEF Spots
      <4>2. j \in f[i + 1]
        BY <1>4, <3>3, <4>1
      <4> QED BY <3>3, <4>1, <4>2 DEF InsideStep
    <3> QED BY <3>1, <3>2, <3>3 DEF Ends
  <2>2. InsideStep(f, i) \subseteq f[i]
    <3> SUFFICES ASSUME NEW j \in InsideStep(f, i) PROVE j \in Spots /\ Ends(R, i, j)
      BY <1>2, <1>4
    <3>1. CASE j = i
      BY <3>1 DEF Ends
    <3>2. CASE j # i /\ Opens(i)
      <4>1. PICK k \in f[i + 2] : Closes(k) /\ j \in f[k + 2]
        BY <3>2 DEF InsideStep
      <4>2. k \in Spots /\ i + 2 \in Spots
        BY <1>4, <1>6, <3>2, <4>1
      <4>3. k + 2 \in Spots
        BY <1>6, <4>1, <4>2
      <4>4. j \in Spots
        BY <1>4, <4>1, <4>3
      <4>5. <<i + 2, k>> \in R /\ <<k + 2, j>> \in R
        BY <1>4, <4>1, <4>2, <4>3, <4>4
      <4> QED BY <3>2, <4>1, <4>2, <4>4, <4>5 DEF Ends
    <3>3. CASE j # i /\ ~ Opens(i)
      <4>1. ~ Closes(i) /\ i <= Len(text) /\ j \in f[i + 1]
        BY <1>5, <3>3 DEF InsideStep, Spots
      <4>2. i + 1 \in Spots
        BY <1>5, <4>1 DEF Spots
      <4>3. j \in Spots /\ <<i + 1, j>> \in R
        BY <1>4, <4>1, <4>2
      <4> QED BY <3>3, <4>1, <4>3 DEF Ends
    <3> QED BY <3>1, <3>2, <3>3
  <2> QED BY <2>1, <2>2
<1>8. f = [i \in Spots |-> InsideStep(f, i)]
  BY <1>4, <1>7
<1> QED BY <1>8 DEF Inside, InsideStep, Spots

LEMMA InsideGoesOn ==
  ASSUME text \in Seq(Chars)
  PROVE  \A i \in Spots : Inside[i] \subseteq i .. Len(text) + 1
<1> DEFINE P == {n \in Nat : \A i \in Spots : Len(text) + 1 - i <= n
                               => Inside[i] \subseteq i .. Len(text) + 1}
<1>0. Len(text) \in Nat /\ \A i \in Spots : Inside[i] = InsideStep(Inside, i)
  BY InsideIs
<1>1. 0 \in P
  <2>1. ASSUME NEW i \in Spots, Len(text) + 1 - i <= 0
        PROVE  Inside[i] = {i}
    <3>1. i > Len(text) /\ i \in Int
      BY <1>0, <2>1 DEF Spots
    <3>2. ~ Opens(i)
      BY <3>1, SlashIsPlain DEF Opens, Char
    <3> QED BY <1>0, <3>1, <3>2 DEF InsideStep
  <2> QED BY <2>1, <1>0 DEF Spots
<1>2. ASSUME NEW n \in Nat, n \in P
      PROVE  n + 1 \in P
  <2> SUFFICES ASSUME NEW i \in Spots, Len(text) + 1 - i <= n + 1, NEW j \in Inside[i]
               PROVE  j \in i .. Len(text) + 1
    OBVIOUS
  <2>1. \A k \in Spots : k > i => Inside[k] \subseteq k .. Len(text) + 1
    BY <1>0, <1>2 DEF Spots
  <2> HIDE DEF P
  <2>2. j \in InsideStep(Inside, i)
    BY <1>0
  <2>3. CASE j = i
    BY <2>3 DEF Spots
  <2>4. CASE j # i /\ Opens(i)
    <3>1. PICK k \in Inside[i + 2] : Closes(k) /\ j \in Inside[k + 2]
      BY <2>2, <2>4 DEF InsideStep
    <3>2. i + 2 \in Spots /\ i + 2 > i
      BY <2>4, PairsFit DEF Spots
    <3>3. k \in Spots /\ k >= i + 2
      BY <2>1, <3>1, <3>2 DEF Spots
    <3>4. k + 2 \in Spots /\ k + 2 > i
      BY <3>1, <3>3, PairsFit DEF Spots
    <3>5. j \in k + 2 .. Len(text) + 1
      BY <2>1, <3>1, <3>4
    <3> QED BY <3>4, <3>5 DEF Spots
  <2>5. CASE j # i /\ ~ Opens(i)
    <3>1. i <= Len(text) /\ j \in Inside[i + 1]
      BY <1>0, <2>2, <2>5 DEF InsideStep, Spots
    <3>2. i + 1 \in Spots /\ i + 1 > i
      BY <1>0, <3>1 DEF Spots
    <3>3. j \in i + 1 .. Len(text) + 1
      BY <2>1, <3>1, <3>2
    <3> QED BY <3>3 DEF Spots
  <2> QED BY <2>3, <2>4, <2>5
<1>3. ASSUME NEW i \in Spots
      PROVE  Inside[i] \subseteq i .. Len(text) + 1
  <2> DEFINE n == Len(text) + 1 - i
  <2>1. n \in Nat
    BY <1>0 DEF Spots
  <2> HIDE DEF P
  <2>2. n \in P
    BY <2>1, <1>1, <1>2, CountingOn
  <2> QED BY <2>1, <2>2 DEF P
<1> QED BY <1>3

\* A comment may go on where a part of it ends.
LEMMA InsideJoins ==
  ASSUME text \in Seq(Chars)
  PROVE  \A i \in Spots : \A k \in Inside[i] : Inside[k] \subseteq Inside[i]
<1> DEFINE P == {n \in Nat : \A i \in Spots : Len(text) + 1 - i <= n
                               => \A k \in Inside[i] : Inside[k] \subseteq Inside[i]}
<1>0. Len(text) \in Nat /\ \A i \in Spots : Inside[i] = InsideStep(Inside, i)
  BY InsideIs
<1>1. 0 \in P
  <2>1. ASSUME NEW i \in Spots, Len(text) + 1 - i <= 0, NEW k \in Inside[i]
        PROVE  k = i
    <3>1. Inside[i] \subseteq i .. Len(text) + 1 /\ i \in Int
      BY InsideGoesOn DEF Spots
    <3> QED BY <1>0, <2>1, <3>1
  <2> QED BY <2>1
<1>2. ASSUME NEW n \in Nat, n \in P
      PROVE  n + 1 \in P
  <2> SUFFICES ASSUME NEW i \in Spots, Len(text) + 1 - i <= n + 1,
                      NEW k \in Inside[i], NEW j \in Inside[k]
               PROVE  j \in Inside[i]
    OBVIOUS
  <2>1. \A m \in Spots : m > i => \A l \in Inside[m] : Inside[l] \subseteq Inside[m]
    BY <1>0, <1>2 DEF Spots
  <2> HIDE DEF P
  <2>2. k \in InsideStep(Inside, i) /\ Inside[i] = InsideStep(Inside, i)
    BY <1>0
  <2>3. CASE k = i
    BY <2>3
  <2>4. CASE k # i /\ Opens(i)
    <3>1. PICK m \in Inside[i + 2] : Closes(m) /\ k \in Inside[m + 2]
      BY <2>2, <2>4 DEF InsideStep
    <3>2. i + 2 \in Spots /\ i + 2 > i
      BY <2>4, PairsFit DEF Spots
    <3>3. m \in Spots /\ m >= i + 2
      BY <3>1, <3>2, InsideGoesOn DEF Spots
    <3>4. m + 2 \in Spots /\ m + 2 > i
      BY <3>1, <3>3, PairsFit DEF Spots
    <3>5. j \in Inside[m + 2]
      BY <2>1, <3>1, <3>4
    <3> QED BY <2>2, <2>4, <3>1, <3>5 DEF InsideStep
  <2>5. CASE k # i /\ ~ Opens(i)
    <3>1. i <= Len(text) /\ ~ (i > Len(text)) /\ ~ Closes(i) /\ k \in Inside[i + 1]
      BY <1>0, <2>2, <2>5 DEF InsideStep, Spots
    <3>2. i + 1 \in Spots /\ i + 1 > i
      BY <1>0, <3>1 DEF Spots
    <3>3. j \in Inside[i + 1]
      BY <2>1, <3>1, <3>2
    <3> QED BY <2>2, <2>5, <3>1, <3>3 DEF InsideStep
  <2> QED BY <2>3, <2>4, <2>5
<1>3. ASSUME NEW i \in Spots
      PROVE  \A k \in Inside[i] : Inside[k] \subseteq Inside[i]
  <2> DEFINE n == Len(text) + 1 - i
  <2>1. n \in Nat
    BY <1>0 DEF Spots
  <2> HIDE DEF P
  <2>2. n \in P
    BY <2>1, <1>1, <1>2, CountingOn
  <2> QED BY <2>1, <2>2 DEF P
<1> QED BY <1>3

\* One more character, or one more comment.
LEMMA InsideGrows ==
  ASSUME text \in Seq(Chars), NEW i \in Spots, NEW p \in Inside[i]
  PROVE  /\ p \in Spots /\ p >= i
         /\ ~ Opens(p) /\ ~ Closes(p) /\ p <= Len(text) => p + 1 \in Inside[i]
         /\ Opens(p) => \A k \in Inside[p + 2] : Closes(k) => k + 2 \in Inside[i]
<1>0. Len(text) \in Nat /\ \A s \in Spots : Inside[s] = InsideStep(Inside, s)
  BY InsideIs
<1>1. p \in Spots /\ p >= i
  BY InsideGoesOn DEF Spots
<1>2. Inside[p] \subseteq Inside[i] /\ Inside[p] = InsideStep(Inside, p)
  BY <1>0, <1>1, InsideJoins
<1>3. \A s \in Spots : s \in Inside[s]
  BY <1>0 DEF InsideStep
<1>4. ASSUME ~ Opens(p), ~ Closes(p), p <= Len(text)
      PROVE  p + 1 \in Inside[p]
  <2>1. p + 1 \in Spots /\ ~ (p > Len(text))
    BY <1>0, <1>1, <1>4 DEF Spots
  <2> QED BY <1>2, <1>3, <1>4, <2>1 DEF InsideStep
<1>5. ASSUME Opens(p), NEW k \in Inside[p + 2], Closes(k)
      PROVE  k + 2 \in Inside[p]
  <2>1. p + 2 \in Spots
    BY <1>1, <1>5, PairsFit
  <2>2. k \in Spots
    BY <2>1, InsideGoesOn DEF Spots
  <2>3. k + 2 \in Spots
    BY <1>5, <2>2, PairsFit
  <2> QED BY <1>2, <1>3, <1>5, <2>3 DEF InsideStep
<1> QED BY <1>1, <1>2, <1>4, <1>5

-----------------------------------------------------------------------------

\* q are the openings, at a and behind it, of the n comments that are open at p.
AreOpen(q, n, a, p) ==
  /\ q \in [1 .. n -> Spots] /\ q[1] = a
  /\ \A m \in 1 .. n : Opens(q[m])
  /\ \A m \in 1 .. n - 1 : q[m + 1] \in Inside[q[m] + 2]
  /\ p \in Inside[q[n] + 2]

OpenSince(n, a, p) == \E q : AreOpen(q, n, a, p)

\* c are the places, from j on back to p, at which n comments that are open at p may
\* close.
MayClose(c, n, p, j) ==
  /\ c \in [1 .. n -> Spots] /\ c[1] = j
  /\ \A m \in 2 .. n : Closes(c[m]) /\ c[m - 1] \in Inside[c[m] + 2]
  /\ \A l, m \in 1 .. n : l <= m => c[l] >= c[m]
  /\ c[n] \in Inside[p]

\* The comment that is open since a was not closed before p, and may be closed behind
\* it only after the others that are open.
StillOpen(n, a, p) ==
  \A j \in Inside[a + 2] : \/ j < p /\ ~ Closes(j)
                           \/ j >= p /\ \E c : MayClose(c, n, p, j)

LEMMA StartsOpen ==
  ASSUME text \in Seq(Chars), NEW a \in Spots, Opens(a)
  PROVE  OpenSince(1, a, a + 2) /\ StillOpen(1, a, a + 2)
<1>0. Len(text) \in Nat /\ a + 2 \in Spots
  BY PairsFit
<1>1. a + 2 \in Inside[a + 2]
  BY <1>0, InsideIs DEF InsideStep
<1>2. AreOpen([m \in 1 .. 1 |-> a], 1, a, a + 2)
  BY <1>1 DEF AreOpen
<1>3. ASSUME NEW j \in Inside[a + 2]
      PROVE  j >= a + 2 /\ MayClose([m \in 1 .. 1 |-> j], 1, a + 2, j)
  <2>1. j \in Spots /\ j >= a + 2
    BY <1>0, InsideGoesOn DEF Spots
  <2>2. j >= j
    BY <2>1 DEF Spots
  <2> QED BY <2>1, <2>2 DEF MayClose
<1> QED BY <1>2, <1>3 DEF OpenSince, StillOpen

\* A character that opens or closes nothing.
LEMMA PassesPlain ==
  ASSUME text \in Seq(Chars), NEW n \in Nat, n > 0, NEW a \in Spots, Opens(a),
         NEW p \in 1 .. Len(text), ~ Opens(p), ~ Closes(p),
         OpenSince(n, a, p), StillOpen(n, a, p)
  PROVE  OpenSince(n, a, p + 1) /\ StillOpen(n, a, p + 1)
<1>0. Len(text) \in Nat /\ p \in Spots /\ p + 1 \in Spots
  BY DEF Spots
<1>1. PICK q : AreOpen(q, n, a, p)
  BY DEF OpenSince
<1>2. AreOpen(q, n, a, p + 1)
  <2>1. q[n] \in Spots /\ Opens(q[n])
    BY <1>1 DEF AreOpen
  <2>2. q[n] + 2 \in Spots
    BY <2>1, PairsFit
  <2>3. p + 1 \in Inside[q[n] + 2]
    BY <1>1, <2>2, InsideGrows DEF AreOpen
  <2> QED BY <1>1, <2>3 DEF AreOpen
<1>3. ASSUME NEW j \in Inside[a + 2], j >= p, NEW c, MayClose(c, n, p, j), j # p
      PROVE  j >= p + 1 /\ MayClose(c, n, p + 1, j)
  <2>1. c \in [1 .. n -> Spots] /\ c[1] = j /\ c[n] \in Inside[p]
    BY <1>3 DEF MayClose
  <2>2. c[n] # p
    <3>1. n = 1 \/ n \in 2 .. n
      OBVIOUS
    <3> QED BY <1>3, <2>1, <3>1 DEF MayClose
  <2>3. c[n] \in Inside[p + 1]
    BY <1>0, <2>1, <2>2, InsideIs DEF InsideStep
  <2>4. j >= p + 1
    BY <1>3, <2>1 DEF Spots
  <2> QED BY <1>3, <2>3, <2>4 DEF MayClose
<1>4. StillOpen(n, a, p + 1)
  <2> SUFFICES ASSUME NEW j \in Inside[a + 2]
               PROVE  \/ j < p + 1 /\ ~ Closes(j)
                      \/ j >= p + 1 /\ \E c : MayClose(c, n, p + 1, j)
    BY DEF StillOpen
  <2>0. j \in Int
    BY PairsFit, InsideGoesOn DEF Spots
  <2>1. CASE j < p /\ ~ Closes(j)
    BY <2>0, <2>1, <1>0
  <2>2. CASE j = p
    BY <2>2, <1>0
  <2>3. CASE j >= p /\ j # p /\ \E c : MayClose(c, n, p, j)
    BY <2>3, <1>3
  <2> QED BY <2>1, <2>2, <2>3 DEF StillOpen
<1> QED BY <1>2, <1>4 DEF OpenSince

\* A comment opens in the comment.
LEMMA PassesOpening ==
  ASSUME text \in Seq(Chars), NEW n \in Nat, n > 0, NEW a \in Spots, Opens(a),
         NEW p \in 1 .. Len(text), Opens(p),
         OpenSince(n, a, p), StillOpen(n, a, p)
  PROVE  OpenSince(n + 1, a, p + 2) /\ StillOpen(n + 1, a, p + 2)
<1>0. Len(text) \in Nat /\ p \in Spots /\ p + 2 \in Spots
  BY PairsFit DEF Spots
<1>1. ~ Closes(p)
  BY Zenon DEF Opens, Closes
<1>2. PICK q : AreOpen(q, n, a, p)
  BY DEF OpenSince
<1> DEFINE r == [m \in 1 .. n + 1 |-> IF m = n + 1 THEN p ELSE q[m]]
<1>3. AreOpen(r, n + 1, a, p + 2)
  <2>1. p + 2 \in Inside[p + 2]
    BY <1>0, InsideIs DEF InsideStep
  <2>2. /\ q \in [1 .. n -> Spots] /\ q[1] = a /\ p \in Inside[q[n] + 2]
        /\ \A m \in 1 .. n : Opens(q[m])
        /\ \A m \in 1 .. n - 1 : q[m + 1] \in Inside[q[m] + 2]
    BY <1>2 DEF AreOpen
  <2>3. r \in [1 .. n + 1 -> Spots] /\ r[1] = a /\ r[n + 1] = p
    BY <1>0, <2>2
  <2>4. \A m \in 1 .. n : r[m] = q[m]
    OBVIOUS
  <2> HIDE DEF r
  <2>5. ASSUME NEW m \in 1 .. n + 1
        PROVE  Opens(r[m])
    <3>1. m = n + 1 \/ m \in 1 .. n
      OBVIOUS
    <3> QED BY <2>2, <2>3, <2>4, <3>1
  <2>6. ASSUME NEW m \in 1 .. (n + 1) - 1
        PROVE  r[m + 1] \in Inside[r[m] + 2]
    <3>1. m = n \/ (m \in 1 .. n - 1 /\ m + 1 \in 1 .. n)
      OBVIOUS
    <3>2. m \in 1 .. n
      OBVIOUS
    <3> QED BY <2>2, <2>3, <2>4, <3>1, <3>2
  <2> QED BY <2>1, <2>3, <2>5, <2>6 DEF AreOpen
<1> HIDE DEF r
<1>4. ASSUME NEW j, NEW c, MayClose(c, n, p, j), j # p
      PROVE  j >= p + 2 /\ \E d : MayClose(d, n + 1, p + 2, j)
  <2>1. /\ c \in [1 .. n -> Spots] /\ c[1] = j /\ c[n] \in Inside[p]
        /\ \A m \in 2 .. n : Closes(c[m]) /\ c[m - 1] \in Inside[c[m] + 2]
        /\ \A l, m \in 1 .. n : l <= m => c[l] >= c[m]
    BY <1>4 DEF MayClose
  <2>2. c[n] # p
    <3>1. n = 1 \/ n \in 2 .. n
      OBVIOUS
    <3> QED BY <1>1, <1>4, <2>1, <3>1
  <2>3. PICK k \in Inside[p + 2] : Closes(k) /\ c[n] \in Inside[k + 2]
    BY <1>0, <2>1, <2>2, InsideIs DEF InsideStep
  <2>4. k \in Spots /\ k >= p + 2
    BY <1>0, InsideGoesOn DEF Spots
  <2>5. k + 2 \in Spots
    BY <2>3, <2>4, PairsFit
  <2>6. c[n] >= k + 2
    BY <2>3, <2>5, InsideGoesOn DEF Spots
  <2> DEFINE d == [m \in 1 .. n + 1 |-> IF m = n + 1 THEN k ELSE c[m]]
  <2>7. d \in [1 .. n + 1 -> Spots] /\ d[1] = j /\ d[n + 1] = k
    BY <2>1, <2>4
  <2>8. \A m \in 1 .. n : d[m] = c[m]
    OBVIOUS
  <2> HIDE DEF d
  <2>9. ASSUME NEW m \in 2 .. n + 1
        PROVE  Closes(d[m]) /\ d[m - 1] \in Inside[d[m] + 2]
    <3>1. m = n + 1 \/ (m \in 2 .. n /\ m \in 1 .. n)
      OBVIOUS
    <3>2. m - 1 \in 1 .. n
      OBVIOUS
    <3>3. CASE m = n + 1
      <4>1. m - 1 = n
        BY <3>3
      <4> QED BY <2>3, <2>7, <2>8, <3>2, <3>3, <4>1
    <3> QED BY <2>1, <2>8, <3>1, <3>2, <3>3
  <2>10. ASSUME NEW l \in 1 .. n, NEW m \in 1 .. n
         PROVE  c[l] \in Int /\ c[m] \in Int /\ c[l] >= c[n]
    <3>1. l <= n /\ n \in 1 .. n
      OBVIOUS
    <3> QED BY <2>1, <3>1 DEF Spots
  <2>11. ASSUME NEW l \in 1 .. n + 1, NEW m \in 1 .. n + 1, l <= m
         PROVE  d[l] >= d[m]
    <3>1. CASE m \in 1 .. n
      <4>1. l \in 1 .. n
        BY <2>11, <3>1
      <4> QED BY <2>1, <2>8, <2>11, <3>1, <4>1
    <3>2. CASE m = n + 1 /\ l \in 1 .. n
      <4>1. c[l] >= c[n] /\ c[l] \in Int /\ c[n] \in Int
        BY <2>10, <3>2
      <4> QED BY <2>4, <2>6, <2>7, <2>8, <3>2, <4>1 DEF Spots
    <3>3. CASE m = n + 1 /\ l = n + 1
      BY <2>4, <2>7, <3>3 DEF Spots
    <3>4. (m \in 1 .. n \/ m = n + 1) /\ (l \in 1 .. n \/ l = n + 1)
      OBVIOUS
    <3> QED BY <3>1, <3>2, <3>3, <3>4
  <2>12. MayClose(d, n + 1, p + 2, j)
    BY <2>7, <2>9, <2>11 DEF MayClose
  <2>13. j >= p + 2
    <3>1. j >= c[n] /\ j \in Int /\ c[n] \in Int
      BY <2>1, <2>10
    <3> QED BY <2>4, <2>6, <3>1, <1>0 DEF Spots
  <2> QED BY <2>12, <2>13
<1>5. StillOpen(n + 1, a, p + 2)
  <2> SUFFICES ASSUME NEW j \in Inside[a + 2]
               PROVE  \/ j < p + 2 /\ ~ Closes(j)
                      \/ j >= p + 2 /\ \E c : MayClose(c, n + 1, p + 2, j)
    BY DEF StillOpen
  <2>0. j \in Int
    BY PairsFit, InsideGoesOn DEF Spots
  <2>1. CASE j < p /\ ~ Closes(j)
    BY <2>0, <2>1, <1>0
  <2>2. CASE j = p
    BY <2>2, <1>0, <1>1
  <2>3. CASE j >= p /\ j # p /\ \E c : MayClose(c, n, p, j)
    BY <2>3, <1>4
  <2> QED BY <2>1, <2>2, <2>3 DEF StillOpen
<1> QED BY <1>3, <1>5 DEF OpenSince

\* A comment in the comment is closed.
LEMMA PassesClosing ==
  ASSUME text \in Seq(Chars), NEW n \in Nat, n > 1, NEW a \in Spots, Opens(a),
         NEW p \in 1 .. Len(text), Closes(p),
         OpenSince(n, a, p), StillOpen(n, a, p)
  PROVE  OpenSince(n - 1, a, p + 2) /\ StillOpen(n - 1, a, p + 2)
<1>0. Len(text) \in Nat /\ p \in Spots /\ p + 2 \in Spots /\ n - 1 \in 1 .. n
  BY PairsFit DEF Spots
<1>1. ~ Opens(p)
  BY Zenon DEF Opens, Closes
<1>2. Inside[p] = {p}
  BY <1>0, <1>1, InsideIs DEF InsideStep
<1>3. PICK q : AreOpen(q, n, a, p)
  BY DEF OpenSince
<1> DEFINE r == [m \in 1 .. n - 1 |-> q[m]]
<1>4. AreOpen(r, n - 1, a, p + 2)
  <2>1. /\ q \in [1 .. n -> Spots] /\ q[1] = a /\ p \in Inside[q[n] + 2]
        /\ \A m \in 1 .. n : Opens(q[m])
        /\ \A m \in 1 .. n - 1 : q[m + 1] \in Inside[q[m] + 2]
    BY <1>3 DEF AreOpen
  <2>2. r \in [1 .. n - 1 -> Spots] /\ r[1] = a
    BY <1>0, <2>1
  <2>3. \A m \in 1 .. n - 1 : r[m] = q[m]
    OBVIOUS
  <2> HIDE DEF r
  <2>4. q[n - 1] \in Spots /\ Opens(q[n - 1])
    BY <1>0, <2>1
  <2>5. q[n - 1] + 2 \in Spots
    BY <2>4, PairsFit
  <2>6. Opens(q[n]) /\ q[n] \in Inside[q[n - 1] + 2]
    <3>1. n \in 1 .. n /\ n - 1 \in 1 .. n - 1 /\ (n - 1) + 1 = n
      OBVIOUS
    <3> QED BY <2>1, <3>1
  <2>7. p + 2 \in Inside[q[n - 1] + 2]
    BY <2>1, <2>5, <2>6, InsideGrows
  <2>8. ASSUME NEW m \in 1 .. (n - 1) - 1
        PROVE  r[m + 1] \in Inside[r[m] + 2]
    <3>1. m \in 1 .. n - 1 /\ m + 1 \in 1 .. n - 1
      OBVIOUS
    <3> QED BY <2>1, <2>3, <3>1
  <2>9. ASSUME NEW m \in 1 .. n - 1
        PROVE  Opens(r[m])
    <3>1. m \in 1 .. n
      OBVIOUS
    <3> QED BY <2>1, <2>3, <3>1
  <2>10. p + 2 \in Inside[r[n - 1] + 2]
    BY <1>0, <2>3, <2>7
  <2> QED BY <2>2, <2>8, <2>9, <2>10 DEF AreOpen
<1> HIDE DEF r
<1>5. ASSUME NEW j, NEW c, MayClose(c, n, p, j)
      PROVE  j >= p + 2 /\ \E d : MayClose(d, n - 1, p + 2, j)
  <2>1. /\ c \in [1 .. n -> Spots] /\ c[1] = j /\ c[n] = p
        /\ \A m \in 2 .. n : Closes(c[m]) /\ c[m - 1] \in Inside[c[m] + 2]
        /\ \A l, m \in 1 .. n : l <= m => c[l] >= c[m]
    BY <1>2, <1>5 DEF MayClose
  <2>2. c[n - 1] \in Inside[p + 2]
    <3>1. n \in 2 .. n
      OBVIOUS
    <3> QED BY <2>1, <3>1
  <2>3. c[n - 1] >= p + 2 /\ c[n - 1] \in Int
    BY <1>0, <2>2, InsideGoesOn DEF Spots
  <2> DEFINE d == [m \in 1 .. n - 1 |-> c[m]]
  <2>4. d \in [1 .. n - 1 -> Spots] /\ d[1] = j
    BY <1>0, <2>1
  <2>5. \A m \in 1 .. n - 1 : d[m] = c[m]
    OBVIOUS
  <2> HIDE DEF d
  <2>6. ASSUME NEW m \in 2 .. n - 1
        PROVE  Closes(d[m]) /\ d[m - 1] \in Inside[d[m] + 2]
    <3>1. m \in 1 .. n - 1 /\ m - 1 \in 1 .. n - 1 /\ m \in 2 .. n
      OBVIOUS
    <3> QED BY <2>1, <2>5, <3>1
  <2>7. ASSUME NEW l \in 1 .. n - 1, NEW m \in 1 .. n - 1, l <= m
        PROVE  d[l] >= d[m]
    <3>1. l \in 1 .. n /\ m \in 1 .. n
      OBVIOUS
    <3> QED BY <2>1, <2>5, <2>7, <3>1
  <2>8. d[n - 1] \in Inside[p + 2]
    BY <1>0, <2>2, <2>5
  <2>9. MayClose(d, n - 1, p + 2, j)
    BY <2>4, <2>6, <2>7, <2>8 DEF MayClose
  <2>10. j >= p + 2
    <3>1. j >= c[n - 1]
      BY <1>0, <2>1
    <3>2. j \in Int
      BY <2>1 DEF Spots
    <3> QED BY <1>0, <2>3, <3>1, <3>2
  <2> QED BY <2>9, <2>10
<1>6. StillOpen(n - 1, a, p + 2)
  <2> SUFFICES ASSUME NEW j \in Inside[a + 2]
               PROVE  \/ j < p + 2 /\ ~ Closes(j)
                      \/ j >= p + 2 /\ \E c : MayClose(c, n - 1, p + 2, j)
    BY DEF StillOpen
  <2>0. j \in Int
    BY PairsFit, InsideGoesOn DEF Spots
  <2>1. CASE j < p /\ ~ Closes(j)
    BY <2>0, <2>1, <1>0
  <2>2. CASE j >= p /\ \E c : MayClose(c, n, p, j)
    BY <2>2, <1>5
  <2> QED BY <2>1, <2>2 DEF StillOpen
<1> QED BY <1>4, <1>6 DEF OpenSince

\* The last comment that is open is closed.
LEMMA PassesLast ==
  ASSUME NEW a, NEW p, OpenSince(1, a, p)
  PROVE  p \in Inside[a + 2]
BY DEF OpenSince, AreOpen

\* Nothing but the text decides.
LEMMA OpenStays ==
  ASSUME UNCHANGED text, NEW n, NEW a, NEW p
  PROVE  (OpenSince(n, a, p) => OpenSince(n, a, p)') /\ (StillOpen(n, a, p) => StillOpen(n, a, p)')
<1>1. Inside' = Inside
  BY InsideStays
<1> QED BY <1>1 DEF OpenSince, StillOpen, AreOpen, MayClose, Spots, Opens, Closes, Char

CommentInv ==
  pc = "comment" =>
    /\ Opens(opened.first) /\ nesting \in Nat
    /\ nesting > 0 => OpenSince(nesting, opened.first, pos) /\ StillOpen(nesting, opened.first, pos)
    /\ nesting = 0 => pos - 2 \in ClosedAt(opened.first)

NestInv == ScanInv /\ CommentInv /\ CommentsNest

\* What a token that is a block comment should be.
IsNest(t) ==
  t.type = "blockcmt" =>
    t.last - 1 \in ClosedAt(t.first) \/ (t.last = Len(text) /\ ClosedAt(t.first) = {})

LEMMA IsNestStays ==
  ASSUME UNCHANGED text, NEW t, IsNest(t)
  PROVE  IsNest(t)'
<1>1. Inside' = Inside
  BY InsideStays
<1> QED BY <1>1 DEF IsNest, ClosedAt, Closes, Char

\* A token is added.
LEMMA AddNest ==
  ASSUME ScanType, CommentsNest, NEW t \in TokenSet, IsNest(t),
         tokens' = Append(tokens, t), text' = text
  PROVE  CommentsNest'
<1>1. /\ DOMAIN tokens' = DOMAIN tokens \cup {Len(tokens) + 1}
      /\ \A i \in DOMAIN tokens : tokens'[i] = tokens[i]
      /\ tokens'[Len(tokens) + 1] = t
  BY Appended
<1>2. \A i \in DOMAIN tokens : IsNest(tokens[i])
  BY DEF CommentsNest, IsNest
<1>3. ASSUME NEW i \in DOMAIN tokens'
      PROVE  IsNest(tokens[i])'
  <2>1. PICK u : u = tokens'[i]
    OBVIOUS
  <2>2. i \in DOMAIN tokens \/ i = Len(tokens) + 1
    BY <1>1
  <2>3. IsNest(u)
    BY <1>1, <1>2, <2>1, <2>2
  <2>4. IsNest(u)'
    BY <2>3, IsNestStays
  <2> QED BY <2>1, <2>4 DEF IsNest
<1> QED BY <1>3 DEF CommentsNest, IsNest

\* One that is no block comment.
LEMMA AddOther ==
  ASSUME ScanInv, CommentsNest, ScanInv', pc' # "comment",
         NEW type, type # "blockcmt", NEW first, NEW next, NEW line, NEW endLine,
         tokens' = Append(tokens, Token(type, first, next, line, endLine)), text' = text
  PROVE  CommentInv' /\ CommentsNest'
<1> DEFINE t == Token(type, first, next, line, endLine)
<1>1. t.type = type
  BY DEF Token
<1>2. t \in TokenSet
  <2>1. tokens \in Seq(TokenSet) /\ tokens' \in Seq(TokenSet) /\ tokens' = Append(tokens, t)
    BY DEF ScanInv, ScanType
  <2> HIDE DEF t
  <2>2. tokens \in Seq(TokenSet \cup {t}) /\ t \in TokenSet \cup {t}
    BY <2>1
  <2>3. Len(tokens') = Len(tokens) + 1 /\ tokens'[Len(tokens) + 1] = t /\ Len(tokens) \in Nat
    BY <2>1, <2>2
  <2>4. Len(tokens') \in 1 .. Len(tokens')
    BY <2>3
  <2> QED BY <2>1, <2>3, <2>4
<1> HIDE DEF t
<1>3. IsNest(t) /\ tokens' = Append(tokens, t)
  BY <1>1 DEF IsNest, t
<1> QED BY <1>2, <1>3, AddNest DEF ScanInv, CommentInv

LEMMA NestStarts == ScannerInit => NestInv
<1> SUFFICES ASSUME ScannerInit PROVE NestInv
  OBVIOUS
<1>1. ScanInv
  BY ScanStarts
<1>2. CommentInv /\ CommentsNest
  BY DEF ScannerInit, CommentInv, CommentsNest
<1> QED BY <1>1, <1>2 DEF NestInv

LEMMA NestsAfterInline ==
  ASSUME NestInv, ScanInv', ScanInlineComment
  PROVE  CommentInv' /\ CommentsNest'
<1>1. ScanInv /\ CommentsNest
  BY DEF NestInv
<1>2. PICK next, line : tokens' = Append(tokens, Token("inlinecmt", At, next, line, LineAt(next) - 1))
  BY DEF ScanInlineComment
<1>3. pc' # "comment" /\ text' = text /\ "inlinecmt" # "blockcmt"
  BY DEF ScanInlineComment
<1> QED BY <1>1, <1>2, <1>3, AddOther

LEMMA NestsAfterFound ==
  ASSUME NestInv, ScanInv', pc = "tokens",
         NEW type, type # "blockcmt", NEW first, NEW next, NEW line,
         Found(type, first, next, line)
  PROVE  CommentInv' /\ CommentsNest'
<1>1. ScanInv /\ CommentsNest
  BY DEF NestInv
<1>2. /\ tokens' = Append(tokens, Token(type, first, next, line, line))
      /\ pc' # "comment" /\ text' = text
  BY DEF Found
<1> QED BY <1>1, <1>2, AddOther

LEMMA NestsAfterSymbols ==
  ASSUME NestInv, ScanInv', ScanWord \/ ScanNumber \/ ScanSymbol \/ ScanUnderscore
  PROVE  CommentInv' /\ CommentsNest'
<1>1. CASE ScanWord
  <2>1. PICK next : Found(WordType(At, next), At, next, LineAt(At)) /\ pc = "tokens"
    BY <1>1 DEF ScanWord
  <2>2. WordType(At, next) # "blockcmt"
    BY DEF WordType
  <2> QED BY <2>1, <2>2, NestsAfterFound
<1>2. CASE ScanNumber
  <2>1. PICK good, float, next :
          /\ Found(IF good THEN IF float THEN "floatlit" ELSE "intlit" ELSE "invalidlit",
                   At, next, LineAt(At))
          /\ pc = "tokens"
    BY <1>2 DEF ScanNumber
  <2>2. (IF good THEN IF float THEN "floatlit" ELSE "intlit" ELSE "invalidlit") # "blockcmt"
    OBVIOUS
  <2> QED BY <2>1, <2>2, NestsAfterFound
<1>3. CASE ScanSymbol
  <2>1. SymbolType(Symbols(At)) # "blockcmt"
    BY DEF SymbolType
  <2> QED BY <1>3, <2>1, NestsAfterFound DEF ScanSymbol
<1>4. CASE ScanUnderscore
  <2>1. "invalidid" # "blockcmt"
    OBVIOUS
  <2> QED BY <1>4, <2>1, NestsAfterFound DEF ScanUnderscore
<1> QED BY <1>1, <1>2, <1>3, <1>4

\* The tokens and the text stay.
LEMMA NestsStay ==
  ASSUME CommentsNest, UNCHANGED <<text, tokens>>
  PROVE  CommentsNest'
<1>1. Inside' = Inside
  BY InsideStays
<1> QED BY <1>1 DEF CommentsNest, ClosedAt, Closes, Char

LEMMA NestsAfterOpening ==
  ASSUME NestInv, ScanInv', ScanBlockComment
  PROVE  CommentInv' /\ CommentsNest'
<1>1. /\ ScanInv /\ CommentsNest /\ text \in Seq(Chars)
  BY DEF NestInv, ScanInv, ScanType
<1>2. /\ pc = "tokens" /\ Char(At) = "/" /\ Char(At + 1) = "*" /\ Char(At) # Eof
      /\ pc' = "comment" /\ nesting' = 1 /\ opened'.first = At /\ Moved(At + 2)
      /\ UNCHANGED <<text, tokens>>
  BY SlashIsPlain DEF ScanBlockComment, OpensComment, OpenedAt
<1>3. PICK a : a = At
  OBVIOUS
<1>4. a \in Spots /\ Opens(a)
  BY <1>1, <1>2, <1>3, Begins DEF Opens, Spots
<1>5. a + 2 \in 1 .. Len(text) + 1
  BY <1>1, <1>4, PairsFit DEF Spots
<1>6. pos' = a + 2 /\ opened'.first = a /\ nesting' = 1
  BY <1>1, <1>2, <1>3, <1>5, MovedTo DEF ScanInv
<1>7. OpenSince(1, a, a + 2)' /\ StillOpen(1, a, a + 2)' /\ Opens(a)'
  <2>1. OpenSince(1, a, a + 2) /\ StillOpen(1, a, a + 2)
    BY <1>1, <1>4, StartsOpen
  <2>2. Opens(a)'
    BY <1>2, <1>4 DEF Opens, Char
  <2> QED BY <1>2, <2>1, <2>2, OpenStays
<1>8. CommentInv'
  BY <1>6, <1>7 DEF CommentInv, OpenSince, StillOpen, Opens
<1> QED BY <1>1, <1>2, <1>8, NestsStay

LEMMA NestsAfterStep ==
  ASSUME NestInv, ScanInv', CommentStep
  PROVE  CommentInv' /\ CommentsNest'
<1>1. /\ ScanInv /\ CommentsNest /\ text \in Seq(Chars) /\ Len(text) \in Nat
      /\ pos \in 1 .. Len(text) + 1
  BY DEF NestInv, ScanInv, ScanType
<1>2. /\ pc = "comment" /\ nesting > 0 /\ Char(pos) # Eof /\ nesting' = Level
      /\ Moved(IF Opens(pos) \/ Closes(pos) THEN pos + 2 ELSE pos + 1)
      /\ UNCHANGED <<text, pc, opened, tokens>>
  BY DEF CommentStep, InComment
<1>3. PICK a, n, p : a = opened.first /\ n = nesting /\ p = pos
  OBVIOUS
<1>4. /\ Opens(a) /\ n \in Nat /\ n > 0 /\ OpenSince(n, a, p) /\ StillOpen(n, a, p)
  BY <1>2, <1>3 DEF NestInv, CommentInv
<1>5. p \in 1 .. Len(text) /\ a \in Spots
  <2>1. a \in 1 .. Len(text)
    BY <1>1, <1>2, <1>3 DEF ScanInv, CommentIsOpen
  <2>2. p \in 1 .. Len(text)
    BY <1>1, <1>2, <1>3, CharIn
  <2> QED BY <1>1, <2>1, <2>2 DEF Spots
<1>6. opened'.first = a /\ Opens(a)'
  BY <1>2, <1>3, <1>4 DEF Opens, Char
<1>7. CASE Opens(p)
  <2>1. OpenSince(n + 1, a, p + 2) /\ StillOpen(n + 1, a, p + 2)
    BY <1>1, <1>4, <1>5, <1>7, PassesOpening
  <2>2. p + 2 \in 1 .. Len(text) + 1
    BY <1>1, <1>5, <1>7, PairsFit DEF Spots
  <2>3. nesting' = n + 1 /\ pos' = p + 2
    <3>1. ~ Closes(p)
      BY <1>7, Zenon DEF Opens, Closes
    <3>2. Level = n + 1
      BY <1>3, <1>7, <3>1 DEF Level
    <3>3. Moved(p + 2)
      BY <1>2, <1>3, <1>7
    <3> QED BY <1>1, <1>2, <2>2, <3>2, <3>3, MovedTo DEF ScanInv
  <2>4. OpenSince(n + 1, a, p + 2)' /\ StillOpen(n + 1, a, p + 2)'
    BY <1>2, <2>1, OpenStays
  <2>5. CommentInv'
    BY <1>4, <1>6, <2>3, <2>4 DEF CommentInv, OpenSince, StillOpen, Opens
  <2> QED BY <1>1, <1>2, <2>5, NestsStay
<1>8. CASE ~ Opens(p) /\ Closes(p)
  <2>1. p + 2 \in 1 .. Len(text) + 1
    BY <1>1, <1>5, <1>8, PairsFit DEF Spots
  <2>2. nesting' = n - 1 /\ pos' = p + 2
    BY <1>1, <1>2, <1>3, <1>8, <2>1, MovedTo DEF ScanInv, Level
  <2>3. CASE n > 1
    <3>1. OpenSince(n - 1, a, p + 2) /\ StillOpen(n - 1, a, p + 2)
      BY <1>1, <1>4, <1>5, <1>8, <2>3, PassesClosing
    <3>2. OpenSince(n - 1, a, p + 2)' /\ StillOpen(n - 1, a, p + 2)'
      BY <1>2, <3>1, OpenStays
    <3>3. CommentInv'
      BY <1>4, <1>6, <2>2, <2>3, <3>2 DEF CommentInv, OpenSince, StillOpen, Opens
    <3> QED BY <1>1, <1>2, <3>3, NestsStay
  <2>4. CASE n = 1
    <3>1. p \in Inside[a + 2]
      BY <1>4, <2>4, PassesLast
    <3>2. p \in ClosedAt(a)
      BY <1>8, <3>1 DEF ClosedAt
    <3>3. ClosedAt(a)' = ClosedAt(a)
      <4>1. Inside' = Inside
        BY <1>2, InsideStays
      <4> QED BY <1>2, <4>1 DEF ClosedAt, Closes, Char
    <3>4. pos' - 2 = p /\ nesting' = 0
      BY <1>5, <2>2, <2>4
    <3>5. CommentInv'
      BY <1>6, <3>2, <3>3, <3>4 DEF CommentInv, ClosedAt
    <3> QED BY <1>1, <1>2, <3>5, NestsStay
  <2> QED BY <1>4, <2>3, <2>4
<1>9. CASE ~ Opens(p) /\ ~ Closes(p)
  <2>1. OpenSince(n, a, p + 1) /\ StillOpen(n, a, p + 1)
    BY <1>1, <1>4, <1>5, <1>9, PassesPlain
  <2>2. p + 1 \in 1 .. Len(text) + 1
    BY <1>1, <1>5
  <2>3. nesting' = n /\ pos' = p + 1
    BY <1>1, <1>2, <1>3, <1>9, <2>2, MovedTo DEF ScanInv, Level
  <2>4. OpenSince(n, a, p + 1)' /\ StillOpen(n, a, p + 1)'
    BY <1>2, <2>1, OpenStays
  <2>5. CommentInv'
    BY <1>4, <1>6, <2>3, <2>4 DEF CommentInv, OpenSince, StillOpen, Opens
  <2> QED BY <1>1, <1>2, <2>5, NestsStay
<1> QED BY <1>7, <1>8, <1>9

LEMMA NestsAfterEnd ==
  ASSUME NestInv, ScanInv', CommentEnds
  PROVE  CommentInv' /\ CommentsNest'
<1>1. /\ ScanInv /\ CommentsNest /\ text \in Seq(Chars) /\ Len(text) \in Nat
      /\ pos \in 1 .. Len(text) + 1 /\ DOMAIN text = 1 .. Len(text)
  BY DEF NestInv, ScanInv, ScanType
<1> DEFINE t == Token("blockcmt", opened.first, pos, opened.line, currentLine - 1)
<1>2. /\ pc = "comment" /\ ~ (nesting > 0 /\ Char(pos) # Eof) /\ pc' = "tokens"
      /\ tokens' = Append(tokens, t) /\ text' = text
  BY DEF CommentEnds, InComment
<1>3. t \in TokenSet /\ t.first = opened.first /\ t.last = pos - 1
  <2>1. /\ opened.first \in Nat /\ opened.line \in Int /\ currentLine = LineAt(pos)
    BY <1>1 DEF ScanInv, ScanType
  <2>2. currentLine \in Nat
    BY <1>1, <2>1, LinesAreNumbers DEF ScanInv
  <2> QED BY <1>1, <2>1, <2>2 DEF Token, TokenSet, TokenTypes, Comments
<1> HIDE DEF t
<1>4. PICK a : a = opened.first
  OBVIOUS
<1>5. /\ Opens(a) /\ nesting \in Nat /\ a \in Spots
      /\ nesting > 0 => StillOpen(nesting, a, pos)
      /\ nesting = 0 => pos - 2 \in ClosedAt(a)
  <2>1. a \in 1 .. Len(text)
    BY <1>1, <1>2, <1>4 DEF ScanInv, CommentIsOpen
  <2> QED BY <1>1, <1>2, <1>4, <2>1 DEF NestInv, CommentInv, Spots
<1>6. CASE nesting = 0
  <2>1. t.last - 1 = pos - 2
    BY <1>1, <1>3
  <2>2. IsNest(t)
    BY <1>3, <1>4, <1>5, <1>6, <2>1 DEF IsNest
  <2> QED BY <1>1, <1>2, <1>3, <2>2, AddNest DEF ScanInv, CommentInv
<1>7. CASE nesting > 0
  <2>1. pos = Len(text) + 1
    <3>1. Char(pos) = Eof
      BY <1>2, <1>7
    <3>2. pos \notin 1 .. Len(text)
      <4>1. \A c \in Chars : c # Eof
        BY CharsAssumption
      <4>2. pos \in 1 .. Len(text) => Char(pos) \in Chars
        BY <1>1 DEF Char
      <4> QED BY <3>1, <4>1, <4>2
    <3> QED BY <1>1, <3>2
  <2>2. ASSUME NEW j \in Inside[a + 2], Closes(j)
        PROVE  FALSE
    <3>1. j >= pos
      BY <1>5, <1>7, <2>2 DEF StillOpen
    <3>2. j \in Spots /\ a + 2 \in Spots
      BY <1>1, <1>5, PairsFit, InsideGoesOn DEF Spots
    <3>3. j + 2 \in Spots
      BY <1>1, <2>2, <3>2, PairsFit
    <3> QED BY <1>1, <2>1, <3>1, <3>2, <3>3 DEF Spots
  <2>3. ClosedAt(a) = {}
    BY <2>2 DEF ClosedAt
  <2>4. t.last = Len(text)
    BY <1>1, <1>3, <2>1
  <2>5. IsNest(t)
    BY <1>3, <1>4, <2>3, <2>4 DEF IsNest
  <2> QED BY <1>1, <1>2, <1>3, <2>5, AddNest DEF ScanInv, CommentInv
<1> QED BY <1>5, <1>6, <1>7

LEMMA NestGoesOn == NestInv /\ [ScanStep]_scannerVars => NestInv'
<1> SUFFICES ASSUME NestInv, [ScanStep]_scannerVars PROVE NestInv'
  OBVIOUS
<1>0. ScanInv' /\ CommentsNest
  BY ScanGoesOn DEF NestInv
<1>1. CASE EndOfFile
  <2>1. UNCHANGED <<text, tokens>> /\ pc' = "end"
    BY <1>1 DEF EndOfFile
  <2>2. CommentsNest' /\ CommentInv'
    BY <1>0, <2>1, NestsStay DEF CommentInv
  <2> QED BY <1>0, <2>2 DEF NestInv
<1>2. CASE ScanInlineComment
  BY <1>0, <1>2, NestsAfterInline DEF NestInv
<1>3. CASE ScanBlockComment
  BY <1>0, <1>3, NestsAfterOpening DEF NestInv
<1>4. CASE CommentStep
  BY <1>0, <1>4, NestsAfterStep DEF NestInv
<1>5. CASE CommentEnds
  BY <1>0, <1>5, NestsAfterEnd DEF NestInv
<1>6. CASE ScanWord \/ ScanNumber \/ ScanSymbol \/ ScanUnderscore
  BY <1>0, <1>6, NestsAfterSymbols DEF NestInv
<1>7. CASE UNCHANGED scannerVars
  <2>1. UNCHANGED <<text, pc, pos, nesting, opened, tokens>>
    BY <1>7 DEF scannerVars
  <2>2. Inside' = Inside
    BY <2>1, InsideStays
  <2>3. CommentsNest'
    BY <1>0, <2>1, NestsStay
  <2>4. CommentInv'
    <3> SUFFICES ASSUME pc = "comment" PROVE CommentInv'
      BY <2>1 DEF CommentInv
    <3>1. PICK a, n, p : a = opened.first /\ n = nesting /\ p = pos
      OBVIOUS
    <3>2. /\ Opens(a) /\ n \in Nat
          /\ n > 0 => OpenSince(n, a, p) /\ StillOpen(n, a, p)
          /\ n = 0 => p - 2 \in ClosedAt(a)
      BY <3>1 DEF NestInv, CommentInv
    <3>3. n > 0 => OpenSince(n, a, p)' /\ StillOpen(n, a, p)'
      BY <2>1, <3>2, OpenStays
    <3>4. Opens(a)' /\ ClosedAt(a)' = ClosedAt(a)
      BY <2>1, <2>2, <3>2 DEF Opens, ClosedAt, Closes, Char
    <3>5. opened'.first = a /\ nesting' = n /\ pos' = p
      BY <2>1, <3>1
    <3> QED BY <3>2, <3>3, <3>4, <3>5 DEF CommentInv, OpenSince, StillOpen, Opens, ClosedAt
  <2> QED BY <1>0, <2>3, <2>4 DEF NestInv
<1> QED BY <1>1, <1>2, <1>3, <1>4, <1>5, <1>6, <1>7 DEF ScanStep

\* Whatever the text: a block comment ends where its last nested comment is closed, or
\* it is never closed and is the rest of the text.
THEOREM CommentsStayNested == ScanSpec => []CommentsNest
<1>1. NestInv => CommentsNest
  BY DEF NestInv
<1> QED BY <1>1, NestStarts, NestGoesOn, PTL DEF ScanSpec

-----------------------------------------------------------------------------

\* What the characters of words are not.
LEMMA KindsApart ==
  /\ Letters \cap Digits = {} /\ {"e", "E"} \cap Digits = {} /\ {"e", "E"} \subseteq WordChars
  /\ Letters \subseteq WordChars /\ Digits \subseteq WordChars
  /\ Zero \in Digits
  /\ "." \notin WordChars /\ {"+", "-"} \cap WordChars = {} /\ "." \notin {"e", "E"}
  /\ {"+", "-"} \cap Digits = {} /\ "." \notin Digits
<1>1. Letters \subseteq WordChars /\ Digits \subseteq WordChars
  BY DEF WordChars
<1>2. "." \in Punctuation /\ {"+", "-"} \subseteq Operators
  BY Zenon DEF Punctuation, Operators
<1>3. "." \notin WordChars /\ {"+", "-"} \cap WordChars = {}
  BY <1>2, CharsAssumption
<1>4. {"e", "E"} \cap Digits = {} /\ {"e", "E"} \subseteq WordChars /\ Zero \in Digits
      /\ Letters \cap Digits = {}
  BY <1>1, CharsAssumption DEF Zero
<1>5. "." \notin {"e", "E"}
  OBVIOUS
<1> QED BY <1>1, <1>3, <1>4, <1>5

\* There is one place where a loop stops.
LEMMA RunIs ==
  ASSUME text \in Seq(Chars), NEW i \in 1 .. Len(text) + 1, NEW S, Eof \notin S,
         NEW k \in i .. Len(text) + 1, Char(k) \notin S, \A j \in i .. k - 1 : Char(j) \in S
  PROVE  RunOf(i, S) = k
<1>1. /\ RunOf(i, S) \in i .. Len(text) + 1 /\ Char(RunOf(i, S)) \notin S
      /\ \A j \in i .. RunOf(i, S) - 1 : Char(j) \in S
  BY RunStops
<1>2. Len(text) \in Nat
  OBVIOUS
<1>3. ~ (k < RunOf(i, S)) /\ ~ (RunOf(i, S) < k)
  BY <1>1, <1>2
<1> QED BY <1>1, <1>2, <1>3

\* A loop passes what it should.
LEMMA RunPasses ==
  ASSUME text \in Seq(Chars), NEW i \in 1 .. Len(text) + 1, NEW S, Eof \notin S,
         NEW k \in i .. Len(text) + 1, \A j \in i .. k - 1 : Char(j) \in S
  PROVE  RunOf(i, S) >= k
<1>1. /\ RunOf(i, S) \in i .. Len(text) + 1 /\ Char(RunOf(i, S)) \notin S
  BY RunStops
<1>2. Len(text) \in Nat
  OBVIOUS
<1> QED BY <1>1, <1>2

-----------------------------------------------------------------------------

\* The parts of a number, from the a-th character to the one before the b-th.
IntegerAt(a, b) ==
  a < b /\ (\A j \in a .. b - 1 : Char(j) \in Digits) /\ (Char(a) = Zero => b = a + 1)

FractionAt(a, b) ==
  /\ a + 1 < b /\ Char(a) = "." /\ \A j \in a + 1 .. b - 1 : Char(j) \in Digits
  /\ Char(b - 1) = Zero => b = a + 2

ExponentAt(a, b) ==
  /\ Char(a) \in {"e", "E"}
  /\ IntegerAt(a + 1, b) \/ (Char(a + 1) \in {"+", "-"} /\ IntegerAt(a + 2, b))

FloatAt(a, b) ==
  \E x, y \in a .. b : IntegerAt(a, x) /\ FractionAt(x, y) /\ (y = b \/ ExponentAt(y, b))

ScaledAt(a, b) == \E x \in a .. b : IntegerAt(a, x) /\ ExponentAt(x, b)

\* A stretch of the text.
LEMMA Stretch ==
  ASSUME text \in Seq(Chars), NEW a \in 1 .. Len(text) + 1, NEW b \in a .. Len(text) + 1
  PROVE  LET s == SubSeq(text, a, b - 1)
         IN  /\ s \in Seq(Chars) /\ Len(s) = b - a
             /\ \A i \in 1 .. b - a : s[i] = Char(a + i - 1)
             /\ \A i \in 1 .. b - a + 1 : \A j \in i - 1 .. b - a :
                  SubSeq(s, i, j) = SubSeq(text, a + i - 1, a + j - 1)
<1> DEFINE s == SubSeq(text, a, b - 1)
<1>0. Len(text) \in Nat /\ DOMAIN text = 1 .. Len(text) /\ text \in [1 .. Len(text) -> Chars]
  OBVIOUS
<1>1. s = [i \in 1 .. b - a |-> text[a + i - 1]]
  BY <1>0
<1> HIDE DEF s
<1>2. s \in [1 .. b - a -> Chars] /\ b - a \in Nat
  <2>1. ASSUME NEW i \in 1 .. b - a
        PROVE  text[a + i - 1] \in Chars
    <3>1. a + i - 1 \in 1 .. Len(text)
      BY <1>0
    <3> QED BY <1>0, <3>1
  <2>2. b - a \in Nat
    BY <1>0
  <2> QED BY <1>1, <2>1, <2>2
<1>3. s \in Seq(Chars) /\ Len(s) = b - a
  BY <1>2
<1>4. \A i \in 1 .. b - a : s[i] = Char(a + i - 1)
  BY <1>0, <1>1 DEF Char
<1>5. ASSUME NEW i \in 1 .. b - a + 1, NEW j \in i - 1 .. b - a
      PROVE  SubSeq(s, i, j) = SubSeq(text, a + i - 1, a + j - 1)
  <2>1. SubSeq(s, i, j) = [k \in 1 .. j - i + 1 |-> s[i + k - 1]]
    BY <1>3
  <2>2. SubSeq(text, a + i - 1, a + j - 1) = [k \in 1 .. j - i + 1 |-> text[a + i - 1 + k - 1]]
    BY <1>0
  <2>3. ASSUME NEW k \in 1 .. j - i + 1
        PROVE  s[i + k - 1] = text[a + i - 1 + k - 1]
    <3>1. i + k - 1 \in 1 .. b - a
      BY <1>0
    <3> QED BY <1>1, <3>1
  <2> QED BY <2>1, <2>2, <2>3
<1> QED BY <1>3, <1>4, <1>5 DEF s

LEMMA OneElement ==
  ASSUME NEW S, NEW s \in Seq(S), NEW e
  PROVE  s = <<e>> <=> Len(s) = 1 /\ s[1] = e
OBVIOUS

LEMMA ReadsInteger ==
  ASSUME text \in Seq(Chars), NEW a \in 1 .. Len(text) + 1, NEW b \in a .. Len(text) + 1
  PROVE  IsInteger(SubSeq(text, a, b - 1)) <=> IntegerAt(a, b)
<1> DEFINE s == SubSeq(text, a, b - 1)
<1>0. Len(text) \in Nat
  OBVIOUS
<1>1. s \in Seq(Chars) /\ Len(s) = b - a /\ \A i \in 1 .. b - a : s[i] = Char(a + i - 1)
  BY Stretch
<1> HIDE DEF s
<1>2. DOMAIN s = 1 .. b - a /\ (s # <<>> <=> a < b)
  BY <1>0, <1>1
<1>3. (\A i \in DOMAIN s : s[i] \in Digits) <=> \A j \in a .. b - 1 : Char(j) \in Digits
  <2>1. ASSUME \A i \in DOMAIN s : s[i] \in Digits, NEW j \in a .. b - 1
        PROVE  Char(j) \in Digits
    <3>1. j - a + 1 \in 1 .. b - a /\ a + (j - a + 1) - 1 = j
      BY <1>0
    <3> QED BY <1>1, <1>2, <2>1, <3>1
  <2>2. ASSUME \A j \in a .. b - 1 : Char(j) \in Digits, NEW i \in DOMAIN s
        PROVE  s[i] \in Digits
    <3>1. a + i - 1 \in a .. b - 1
      BY <1>0, <1>2
    <3> QED BY <1>1, <1>2, <2>2, <3>1
  <2> QED BY <2>1, <2>2
<1>4. a < b => s[1] = Char(a)
  BY <1>0, <1>1
<1>5. s = <<Zero>> <=> b = a + 1 /\ Char(a) = Zero
  <2>1. s \in Seq(Chars)
    BY <1>1
  <2>2. s = <<Zero>> <=> Len(s) = 1 /\ s[1] = Zero
    BY <2>1, OneElement, Zenon
  <2>3. Len(s) = 1 <=> b = a + 1
    BY <1>0, <1>1
  <2>4. b = a + 1 => a < b
    BY <1>0
  <2> QED BY <1>4, <2>2, <2>3, <2>4
<1>6. ASSUME IsInteger(s) PROVE IntegerAt(a, b)
  <2>1. CASE s = <<Zero>>
    <3>1. b = a + 1 /\ Char(a) = Zero /\ a .. b - 1 = {a}
      BY <1>0, <1>5, <2>1
    <3> QED BY <3>1, <1>0, KindsApart DEF IntegerAt
  <2>2. CASE s # <<Zero>>
    BY <1>2, <1>3, <1>4, <1>6, <2>2 DEF IsInteger, IntegerAt, Nonzero
  <2> QED BY <2>1, <2>2
<1>7. ASSUME IntegerAt(a, b) PROVE IsInteger(s)
  <2>1. CASE Char(a) = Zero
    BY <1>5, <1>7, <2>1 DEF IsInteger, IntegerAt
  <2>2. CASE Char(a) # Zero
    <3>1. a \in a .. b - 1
      BY <1>0, <1>7 DEF IntegerAt
    <3> QED BY <1>2, <1>3, <1>4, <1>7, <2>2, <3>1 DEF IsInteger, IntegerAt, Nonzero
  <2> QED BY <2>1, <2>2
<1> QED BY <1>6, <1>7 DEF s

LEMMA ReadsFraction ==
  ASSUME text \in Seq(Chars), NEW a \in 1 .. Len(text) + 1, NEW b \in a .. Len(text) + 1
  PROVE  IsFraction(SubSeq(text, a, b - 1)) <=> FractionAt(a, b)
<1> DEFINE s == SubSeq(text, a, b - 1)
<1>0. Len(text) \in Nat
  OBVIOUS
<1>1. s \in Seq(Chars) /\ Len(s) = b - a /\ \A i \in 1 .. b - a : s[i] = Char(a + i - 1)
  BY Stretch
<1> HIDE DEF s
<1>2. (\A i \in 2 .. Len(s) : s[i] \in Digits) <=> \A j \in a + 1 .. b - 1 : Char(j) \in Digits
  <2>1. ASSUME \A i \in 2 .. Len(s) : s[i] \in Digits, NEW j \in a + 1 .. b - 1
        PROVE  Char(j) \in Digits
    <3>1. j - a + 1 \in 2 .. b - a /\ j - a + 1 \in 1 .. b - a /\ a + (j - a + 1) - 1 = j
      BY <1>0
    <3> QED BY <1>1, <2>1, <3>1
  <2>2. ASSUME \A j \in a + 1 .. b - 1 : Char(j) \in Digits, NEW i \in 2 .. Len(s)
        PROVE  s[i] \in Digits
    <3>1. a + i - 1 \in a + 1 .. b - 1 /\ i \in 1 .. b - a
      BY <1>0, <1>1
    <3> QED BY <1>1, <2>2, <3>1
  <2> QED BY <2>1, <2>2
<1>3. a + 1 < b => /\ s[1] = Char(a) /\ s[2] = Char(a + 1) /\ s[Len(s)] = Char(b - 1)
  <2> SUFFICES ASSUME a + 1 < b
               PROVE  s[1] = Char(a) /\ s[2] = Char(a + 1) /\ s[Len(s)] = Char(b - 1)
    OBVIOUS
  <2>1. 1 \in 1 .. b - a /\ a + 1 - 1 = a
    BY <1>0
  <2>2. 2 \in 1 .. b - a /\ a + 2 - 1 = a + 1
    BY <1>0
  <2>3. b - a \in 1 .. b - a /\ a + (b - a) - 1 = b - 1
    BY <1>0
  <2> QED BY <1>1, <2>1, <2>2, <2>3
<1>4. s = <<".", Zero>> <=> b = a + 2 /\ Char(a) = "." /\ Char(a + 1) = Zero
  <2>1. s = <<".", Zero>> <=> Len(s) = 2 /\ s[1] = "." /\ s[2] = Zero
    <3>1. s \in Seq(Chars)
      BY <1>1
    <3>2. ASSUME NEW d, NEW e
          PROVE  s = <<d, e>> <=> Len(s) = 2 /\ s[1] = d /\ s[2] = e
      BY <3>1
    <3> QED BY <3>2
  <2>2. Len(s) = 2 <=> b = a + 2
    BY <1>0, <1>1
  <2>3. b = a + 2 => a + 1 < b
    BY <1>0
  <2> QED BY <1>3, <2>1, <2>2, <2>3
<1>5. ASSUME IsFraction(s) PROVE FractionAt(a, b)
  <2>1. CASE s = <<".", Zero>>
    <3>1. b = a + 2 /\ Char(a) = "." /\ Char(a + 1) = Zero /\ a + 1 .. b - 1 = {a + 1} /\ a + 1 < b
      BY <1>0, <1>4, <2>1
    <3>2. b - 1 = a + 1
      BY <1>0, <3>1
    <3>3. \A j \in a + 1 .. b - 1 : Char(j) \in Digits
      BY <3>1, KindsApart
    <3> QED BY <3>1, <3>2, <3>3 DEF FractionAt
  <2>2. CASE s # <<".", Zero>>
    <3>1. Len(s) > 1 /\ s[1] = "." /\ s[Len(s)] \in Nonzero /\ \A i \in 2 .. Len(s) : s[i] \in Digits
      BY <1>5, <2>2 DEF IsFraction
    <3>2. a + 1 < b
      BY <1>0, <1>1, <3>1
    <3> QED BY <1>2, <1>3, <3>1, <3>2 DEF FractionAt, Nonzero
  <2> QED BY <2>1, <2>2
<1>6. ASSUME FractionAt(a, b) PROVE IsFraction(s)
  <2>1. a + 1 < b /\ Char(a) = "." /\ Len(s) > 1
    BY <1>0, <1>1, <1>6 DEF FractionAt
  <2>2. CASE Char(b - 1) = Zero
    <3>1. b = a + 2
      BY <1>6, <2>2 DEF FractionAt
    <3>2. b - 1 = a + 1
      BY <1>0, <3>1
    <3> QED BY <1>4, <2>1, <2>2, <3>1, <3>2 DEF IsFraction
  <2>3. CASE Char(b - 1) # Zero
    <3>1. b - 1 \in a + 1 .. b - 1
      BY <1>0, <2>1
    <3>2. Char(b - 1) \in Nonzero
      BY <1>6, <2>3, <3>1 DEF FractionAt, Nonzero
    <3> QED BY <1>2, <1>3, <1>6, <2>1, <3>2 DEF FractionAt, IsFraction
  <2> QED BY <2>2, <2>3
<1> QED BY <1>5, <1>6 DEF s

LEMMA ReadsExponent ==
  ASSUME text \in Seq(Chars), NEW a \in 1 .. Len(text) + 1, NEW b \in a .. Len(text) + 1
  PROVE  IsExponent(SubSeq(text, a, b - 1)) <=> a < b /\ ExponentAt(a, b)
<1> DEFINE s == SubSeq(text, a, b - 1)
<1>0. Len(text) \in Nat
  OBVIOUS
<1>1. /\ s \in Seq(Chars) /\ Len(s) = b - a /\ \A i \in 1 .. b - a : s[i] = Char(a + i - 1)
      /\ \A i \in 1 .. b - a + 1 : \A j \in i - 1 .. b - a :
           SubSeq(s, i, j) = SubSeq(text, a + i - 1, a + j - 1)
  BY Stretch
<1> HIDE DEF s
<1>2. s # <<>> <=> a < b
  BY <1>0, <1>1
<1>3. a < b => s[1] = Char(a) /\ Tail(s) = SubSeq(text, a + 1, b - 1)
  <2> SUFFICES ASSUME a < b PROVE s[1] = Char(a) /\ Tail(s) = SubSeq(text, a + 1, b - 1)
    OBVIOUS
  <2>1. 1 \in 1 .. b - a /\ a + 1 - 1 = a
    BY <1>0
  <2>2. Tail(s) = SubSeq(s, 2, Len(s))
    BY <1>1, <1>2, TailIsSubSeq
  <2>3. 2 \in 1 .. b - a + 1 /\ b - a \in 2 - 1 .. b - a /\ a + 2 - 1 = a + 1 /\ a + (b - a) - 1 = b - 1
    BY <1>0
  <2> QED BY <1>1, <2>1, <2>2, <2>3
<1>4. a + 1 < b => s[2] = Char(a + 1) /\ SubSeq(s, 3, Len(s)) = SubSeq(text, a + 2, b - 1)
  <2> SUFFICES ASSUME a + 1 < b
               PROVE  s[2] = Char(a + 1) /\ SubSeq(s, 3, Len(s)) = SubSeq(text, a + 2, b - 1)
    OBVIOUS
  <2>1. 2 \in 1 .. b - a /\ a + 2 - 1 = a + 1
    BY <1>0
  <2>2. 3 \in 1 .. b - a + 1 /\ b - a \in 3 - 1 .. b - a /\ a + 3 - 1 = a + 2 /\ a + (b - a) - 1 = b - 1
    BY <1>0
  <2> QED BY <1>1, <2>1, <2>2
<1>5. a < b => (IsInteger(Tail(s)) <=> IntegerAt(a + 1, b))
  <2> SUFFICES ASSUME a < b PROVE IsInteger(Tail(s)) <=> IntegerAt(a + 1, b)
    OBVIOUS
  <2>1. a + 1 \in 1 .. Len(text) + 1 /\ b \in a + 1 .. Len(text) + 1
    BY <1>0
  <2> QED BY <1>3, <2>1, ReadsInteger
<1>6. a + 1 < b => (IsInteger(SubSeq(s, 3, Len(s))) <=> IntegerAt(a + 2, b))
  <2> SUFFICES ASSUME a + 1 < b PROVE IsInteger(SubSeq(s, 3, Len(s))) <=> IntegerAt(a + 2, b)
    OBVIOUS
  <2>1. a + 2 \in 1 .. Len(text) + 1 /\ b \in a + 2 .. Len(text) + 1
    BY <1>0
  <2> QED BY <1>4, <2>1, ReadsInteger
<1>7. Len(s) > 1 <=> a + 1 < b
  BY <1>0, <1>1
<1>8. IntegerAt(a + 2, b) => a + 1 < b
  BY <1>0 DEF IntegerAt
<1> QED BY <1>2, <1>3, <1>4, <1>5, <1>6, <1>7, <1>8 DEF s, IsExponent, ExponentAt

LEMMA ReadsFloat ==
  ASSUME text \in Seq(Chars), NEW a \in 1 .. Len(text) + 1, NEW b \in a .. Len(text) + 1
  PROVE  IsFloat(SubSeq(text, a, b - 1)) <=> FloatAt(a, b)
<1> DEFINE s == SubSeq(text, a, b - 1)
<1>0. Len(text) \in Nat
  OBVIOUS
<1>1. /\ s \in Seq(Chars) /\ Len(s) = b - a
      /\ \A i \in 1 .. b - a + 1 : \A j \in i - 1 .. b - a :
           SubSeq(s, i, j) = SubSeq(text, a + i - 1, a + j - 1)
  BY Stretch
<1> HIDE DEF s
<1>2. ASSUME NEW i \in 1 .. Len(s), NEW f \in i + 1 .. Len(s)
      PROVE  /\ IsInteger(SubSeq(s, 1, i)) <=> IntegerAt(a, a + i)
             /\ IsFraction(SubSeq(s, i + 1, f)) <=> FractionAt(a + i, a + f)
             /\ IsExponent(SubSeq(s, f + 1, Len(s))) <=> a + f < b /\ ExponentAt(a + f, b)
             /\ f = Len(s) <=> a + f = b
  <2>1. SubSeq(s, 1, i) = SubSeq(text, a, (a + i) - 1)
    <3>1. 1 \in 1 .. b - a + 1 /\ i \in 1 - 1 .. b - a /\ a + 1 - 1 = a /\ a + i - 1 = (a + i) - 1
      BY <1>0, <1>1
    <3> QED BY <1>1, <3>1
  <2>2. SubSeq(s, i + 1, f) = SubSeq(text, a + i, (a + f) - 1)
    <3>1. i + 1 \in 1 .. b - a + 1 /\ f \in (i + 1) - 1 .. b - a /\ a + (i + 1) - 1 = a + i
          /\ a + f - 1 = (a + f) - 1
      BY <1>0, <1>1
    <3> QED BY <1>1, <3>1
  <2>3. SubSeq(s, f + 1, Len(s)) = SubSeq(text, a + f, b - 1)
    <3>1. /\ f + 1 \in 1 .. b - a + 1 /\ b - a \in (f + 1) - 1 .. b - a
          /\ a + (f + 1) - 1 = a + f /\ a + (b - a) - 1 = b - 1
      BY <1>0, <1>1
    <3> QED BY <1>1, <3>1
  <2>4. /\ a + i \in a .. Len(text) + 1 /\ a + i \in 1 .. Len(text) + 1
        /\ a + f \in a + i .. Len(text) + 1 /\ a + f \in 1 .. Len(text) + 1
        /\ b \in a + f .. Len(text) + 1
    BY <1>0, <1>1
  <2>5. IsInteger(SubSeq(text, a, (a + i) - 1)) <=> IntegerAt(a, a + i)
    BY <2>4, ReadsInteger
  <2>6. IsFraction(SubSeq(text, a + i, (a + f) - 1)) <=> FractionAt(a + i, a + f)
    BY <2>4, ReadsFraction
  <2>7. IsExponent(SubSeq(text, a + f, b - 1)) <=> a + f < b /\ ExponentAt(a + f, b)
    BY <2>4, ReadsExponent
  <2>8. f = Len(s) <=> a + f = b
    BY <1>0, <1>1
  <2>9. IsInteger(SubSeq(s, 1, i)) <=> IntegerAt(a, a + i)
    BY <2>1, <2>5, Zenon
  <2>10. IsFraction(SubSeq(s, i + 1, f)) <=> FractionAt(a + i, a + f)
    BY <2>2, <2>6, Zenon
  <2>11. IsExponent(SubSeq(s, f + 1, Len(s))) <=> a + f < b /\ ExponentAt(a + f, b)
    BY <2>3, <2>7
  <2> QED BY <2>8, <2>9, <2>10, <2>11, Zenon
<1>3. ASSUME IsFloat(s) PROVE FloatAt(a, b)
  <2>0. PICK i \in 1 .. Len(s) : \E f \in i + 1 .. Len(s) :
          /\ IsInteger(SubSeq(s, 1, i)) /\ IsFraction(SubSeq(s, i + 1, f))
          /\ f = Len(s) \/ IsExponent(SubSeq(s, f + 1, Len(s)))
    BY <1>3 DEF IsFloat
  <2>1. PICK f \in i + 1 .. Len(s) :
          /\ IsInteger(SubSeq(s, 1, i)) /\ IsFraction(SubSeq(s, i + 1, f))
          /\ f = Len(s) \/ IsExponent(SubSeq(s, f + 1, Len(s)))
    BY <2>0
  <2>2. a + i \in a .. b /\ a + f \in a .. b
    BY <1>0, <1>1
  <2>3. IntegerAt(a, a + i) /\ FractionAt(a + i, a + f) /\ (a + f = b \/ ExponentAt(a + f, b))
    BY <1>2, <2>1
  <2> QED BY <2>2, <2>3 DEF FloatAt
<1>4. ASSUME FloatAt(a, b) PROVE IsFloat(s)
  <2>1. PICK x, y \in a .. b : IntegerAt(a, x) /\ FractionAt(x, y) /\ (y = b \/ ExponentAt(y, b))
    BY <1>4 DEF FloatAt
  <2>2. a < x /\ x + 1 < y
    BY <2>1 DEF IntegerAt, FractionAt
  <2>3. PICK i \in 1 .. Len(s) : \E f \in i + 1 .. Len(s) : a + i = x /\ a + f = y
    <3>1. x - a \in 1 .. Len(s) /\ y - a \in x - a + 1 .. Len(s) /\ a + (x - a) = x /\ a + (y - a) = y
      BY <1>0, <1>1, <2>2
    <3> QED BY <3>1
  <2>6. PICK f \in i + 1 .. Len(s) : a + i = x /\ a + f = y
    BY <2>3
  <2>4. /\ IsInteger(SubSeq(s, 1, i)) /\ IsFraction(SubSeq(s, i + 1, f))
        /\ f = Len(s) \/ (a + f < b => IsExponent(SubSeq(s, f + 1, Len(s))))
    BY <1>2, <2>1, <2>6
  <2>5. f = Len(s) \/ a + f < b
    BY <1>0, <1>1
  <2> QED BY <2>4, <2>5 DEF IsFloat
<1> QED BY <1>3, <1>4 DEF s

LEMMA ReadsScaled ==
  ASSUME text \in Seq(Chars), NEW a \in 1 .. Len(text) + 1, NEW b \in a .. Len(text) + 1
  PROVE  IsScaledInteger(SubSeq(text, a, b - 1)) <=> ScaledAt(a, b)
<1> DEFINE s == SubSeq(text, a, b - 1)
<1>0. Len(text) \in Nat
  OBVIOUS
<1>1. /\ s \in Seq(Chars) /\ Len(s) = b - a
      /\ \A i \in 1 .. b - a + 1 : \A j \in i - 1 .. b - a :
           SubSeq(s, i, j) = SubSeq(text, a + i - 1, a + j - 1)
  BY Stretch
<1> HIDE DEF s
<1>2. ASSUME NEW i \in 1 .. Len(s)
      PROVE  /\ IsInteger(SubSeq(s, 1, i)) <=> IntegerAt(a, a + i)
             /\ IsExponent(SubSeq(s, i + 1, Len(s))) <=> a + i < b /\ ExponentAt(a + i, b)
  <2>1. SubSeq(s, 1, i) = SubSeq(text, a, (a + i) - 1)
    <3>1. 1 \in 1 .. b - a + 1 /\ i \in 1 - 1 .. b - a /\ a + 1 - 1 = a /\ a + i - 1 = (a + i) - 1
      BY <1>0, <1>1
    <3> QED BY <1>1, <3>1
  <2>2. SubSeq(s, i + 1, Len(s)) = SubSeq(text, a + i, b - 1)
    <3>1. /\ i + 1 \in 1 .. b - a + 1 /\ b - a \in (i + 1) - 1 .. b - a
          /\ a + (i + 1) - 1 = a + i /\ a + (b - a) - 1 = b - 1
      BY <1>0, <1>1
    <3> QED BY <1>1, <3>1
  <2>3. /\ a + i \in a .. Len(text) + 1 /\ a + i \in 1 .. Len(text) + 1
        /\ b \in a + i .. Len(text) + 1
    BY <1>0, <1>1
  <2>4. IsInteger(SubSeq(text, a, (a + i) - 1)) <=> IntegerAt(a, a + i)
    BY <2>3, ReadsInteger
  <2>5. IsExponent(SubSeq(text, a + i, b - 1)) <=> a + i < b /\ ExponentAt(a + i, b)
    BY <2>3, ReadsExponent
  <2>6. IsInteger(SubSeq(s, 1, i)) <=> IntegerAt(a, a + i)
    BY <2>1, <2>4, Zenon
  <2>7. IsExponent(SubSeq(s, i + 1, Len(s))) <=> a + i < b /\ ExponentAt(a + i, b)
    BY <2>2, <2>5
  <2> QED BY <2>6, <2>7, Zenon
<1>3. ASSUME IsScaledInteger(s) PROVE ScaledAt(a, b)
  <2>1. PICK i \in 1 .. Len(s) : IsInteger(SubSeq(s, 1, i)) /\ IsExponent(SubSeq(s, i + 1, Len(s)))
    BY <1>3 DEF IsScaledInteger
  <2>2. a + i \in a .. b
    BY <1>0, <1>1
  <2> QED BY <1>2, <2>1, <2>2 DEF ScaledAt
<1>4. ASSUME ScaledAt(a, b) PROVE IsScaledInteger(s)
  <2>1. PICK x \in a .. b : IntegerAt(a, x) /\ ExponentAt(x, b)
    BY <1>4 DEF ScaledAt
  <2>2. a < x /\ x < b
    BY <1>0, <2>1 DEF IntegerAt, ExponentAt
  <2>3. PICK i \in 1 .. Len(s) : a + i = x
    <3>1. x - a \in 1 .. Len(s) /\ a + (x - a) = x
      BY <1>0, <1>1, <2>2
    <3> QED BY <3>1
  <2> QED BY <1>2, <2>1, <2>2, <2>3 DEF IsScaledInteger
<1> QED BY <1>3, <1>4 DEF s

IsGood(k, i, f, e, n) == n = e /\ GoodInteger(k, i) /\ GoodFraction(i, f) /\ GoodExponent(f, e)

\* What the scanner accepts is a literal of the language.
LEMMA GoodIsLiteral ==
  ASSUME text \in Seq(Chars), NEW k \in 1 .. Len(text),
         NEW i, NEW f, NEW e, NEW n, Divides(k, i, f, e, n), IsGood(k, i, f, e, n)
  PROVE  /\ f > i => FloatAt(k, n)
         /\ ~ (f > i) => IntegerAt(k, n) \/ ScaledAt(k, n)
<1>0. /\ Len(text) \in Nat /\ k \in Int /\ i \in Int /\ f \in Int /\ e \in Int /\ n = e
      /\ k < i /\ i <= f /\ f <= e
  BY DEF Divides, IsGood
<1>1. IntegerAt(k, i)
  BY DEF Divides, IsGood, GoodInteger, IntegerAt, Zero
<1>2. f > i => FractionAt(i, f)
  <2> SUFFICES ASSUME f > i PROVE FractionAt(i, f)
    OBVIOUS
  <2>1. Char(i) = "." /\ \A j \in i + 1 .. f - 1 : Char(j) \in Digits
    BY <1>0 DEF Divides, Fraction
  <2>2. i + 1 < f /\ (Char(f - 1) = "0" => f = i + 2)
    BY <1>0 DEF IsGood, GoodFraction
  <2> QED BY <2>1, <2>2 DEF FractionAt, Zero
<1>3. e = f \/ ExponentAt(f, e)
  <2> SUFFICES ASSUME e # f PROVE ExponentAt(f, e)
    OBVIOUS
  <2>1. /\ Char(f) \in {"e", "E"} /\ \A j \in ExponentDigits(f) .. e - 1 : Char(j) \in Digits
        /\ GoodInteger(ExponentDigits(f), e)
    BY DEF Divides, Exponent, IsGood, GoodExponent
  <2>2. IntegerAt(ExponentDigits(f), e)
    BY <2>1 DEF GoodInteger, IntegerAt, Zero
  <2> QED BY <2>1, <2>2 DEF ExponentDigits, ExponentAt
<1>4. i \in k .. n /\ f \in k .. n
  BY <1>0
<1>5. ASSUME f > i PROVE FloatAt(k, n)
  BY <1>0, <1>1, <1>2, <1>3, <1>4, <1>5 DEF FloatAt
<1>6. ASSUME ~ (f > i) PROVE IntegerAt(k, n) \/ ScaledAt(k, n)
  <2>1. f = i
    BY <1>0, <1>6
  <2> QED BY <1>0, <1>1, <1>3, <1>4, <2>1 DEF ScaledAt
<1> QED BY <1>5, <1>6

\* The parts of a literal are those that the scanner divides it into, as far as they go.
LEMMA IntegerFits ==
  ASSUME text \in Seq(Chars), NEW k \in 1 .. Len(text), NEW x \in k .. Len(text) + 1,
         NEW i, NEW f, NEW e, NEW n, Divides(k, i, f, e, n), IntegerAt(k, x)
  PROVE  i >= x /\ (Char(x) \notin Digits => i = x /\ GoodInteger(k, i))
<1>0. Len(text) \in Nat /\ i \in Int /\ k < x /\ k < i
  BY DEF Divides, IntegerAt
<1>1. ~ (i < x)
  BY <1>0 DEF Divides, IntegerAt
<1>2. Char(x) \notin Digits => ~ (x < i)
  BY <1>0 DEF Divides
<1>3. ASSUME Char(x) \notin Digits PROVE i = x
  BY <1>0, <1>1, <1>2, <1>3
<1>4. i >= x
  BY <1>0, <1>1
<1>5. i = x => GoodInteger(k, i)
  BY <1>0 DEF IntegerAt, GoodInteger, Zero
<1> QED BY <1>3, <1>4, <1>5

LEMMA FractionFits ==
  ASSUME text \in Seq(Chars), NEW k \in 1 .. Len(text), NEW y \in 1 .. Len(text) + 1,
         NEW i, NEW f, NEW e, NEW n, Divides(k, i, f, e, n), FractionAt(i, y)
  PROVE  f > i /\ f >= y /\ (Char(y) \notin Digits => f = y /\ GoodFraction(i, f))
<1>0. Len(text) \in Nat /\ i \in Int /\ f \in Int /\ i + 1 < y
  BY DEF Divides, FractionAt
<1>1. /\ f \in i + 1 .. Len(text) + 1 /\ Char(f) \notin Digits
      /\ \A j \in i + 1 .. f - 1 : Char(j) \in Digits
  BY DEF Divides, Fraction, FractionAt
<1>2. ~ (f < y)
  <2>1. f < y => f \in i + 1 .. y - 1
    BY <1>0, <1>1
  <2> QED BY <1>1, <2>1 DEF FractionAt
<1>3. Char(y) \notin Digits => ~ (y < f)
  <2>1. y < f => y \in i + 1 .. f - 1
    BY <1>0, <1>1
  <2> QED BY <1>1, <2>1
<1>4. ASSUME Char(y) \notin Digits PROVE f = y
  BY <1>0, <1>2, <1>3, <1>4
<1>5. f > i /\ f >= y
  BY <1>0, <1>1, <1>2
<1>6. f = y => GoodFraction(i, f)
  BY <1>0 DEF FractionAt, GoodFraction, Zero
<1> QED BY <1>4, <1>5, <1>6

LEMMA ExponentFits ==
  ASSUME text \in Seq(Chars), NEW k \in 1 .. Len(text), NEW b \in 1 .. Len(text) + 1,
         NEW i, NEW f, NEW e, NEW n, Divides(k, i, f, e, n), ExponentAt(f, b)
  PROVE  n >= b /\ (n = b => e = b /\ GoodExponent(f, e))
<1> DEFINE d == ExponentDigits(f)
<1>1. IntegerAt(d, b)
  <2>1. CASE IntegerAt(f + 1, b)
    <3>1. f + 1 \in f + 1 .. b - 1
      BY <2>1 DEF IntegerAt, Divides
    <3>2. Char(f + 1) \in Digits
      BY <2>1, <3>1 DEF IntegerAt
    <3>3. Char(f + 1) \notin {"+", "-"}
      BY <3>2, KindsApart
    <3> QED BY <2>1, <3>3 DEF ExponentDigits
  <2>2. CASE Char(f + 1) \in {"+", "-"} /\ IntegerAt(f + 2, b)
    BY <2>2 DEF ExponentDigits
  <2> QED BY <2>1, <2>2 DEF ExponentAt
<1>2. /\ Len(text) \in Nat /\ f \in Int /\ d \in f + 1 .. Len(text) + 1
      /\ e \in d .. Len(text) + 1 /\ n \in e .. Len(text) + 1 /\ Char(e) \notin Digits
  BY DEF Divides, Exponent, ExponentAt
<1>3. d < b /\ (\A j \in d .. b - 1 : Char(j) \in Digits) /\ (Char(d) = Zero => b = d + 1)
  BY <1>1 DEF IntegerAt
<1>4. GoodInteger(d, b)
  BY <1>3 DEF GoodInteger, Zero
<1> HIDE DEF d
<1>5. ~ (e < b)
  <2>1. e < b => e \in d .. b - 1
    BY <1>2
  <2> QED BY <1>2, <1>3, <2>1
<1>6. n >= b /\ (n = b => e = b)
  BY <1>2, <1>5
<1>7. e = b => GoodExponent(f, e)
  BY <1>4 DEF GoodExponent, d
<1> QED BY <1>6, <1>7

\* A literal of the language is accepted, and with the type it has.
LEMMA FloatIsGood ==
  ASSUME text \in Seq(Chars), NEW k \in 1 .. Len(text), NEW b \in k .. Len(text) + 1,
         NEW i, NEW f, NEW e, NEW n, Divides(k, i, f, e, n), FloatAt(k, b)
  PROVE  f > i /\ n >= b /\ (n = b => IsGood(k, i, f, e, n))
<1>0. Len(text) \in Nat
  OBVIOUS
<1>1. PICK x, y \in k .. b : IntegerAt(k, x) /\ FractionAt(x, y) /\ (y = b \/ ExponentAt(y, b))
  BY DEF FloatAt
<1>2. x \in k .. Len(text) + 1 /\ y \in 1 .. Len(text) + 1 /\ b \in 1 .. Len(text) + 1
  BY <1>0
<1>3. Char(x) \notin Digits
  BY <1>1, KindsApart DEF FractionAt
<1>4. i = x /\ GoodInteger(k, i)
  BY <1>1, <1>2, <1>3, IntegerFits
<1>5. f > i /\ f >= y /\ (Char(y) \notin Digits => f = y /\ GoodFraction(i, f))
  BY <1>1, <1>2, <1>4, FractionFits
<1>6. f \in Int /\ e \in Int /\ n \in Int /\ f <= e /\ e <= n /\ Char(n) \notin WordChars
  BY DEF Divides
<1>7. CASE y = b
  <2>1. n >= b
    BY <1>2, <1>5, <1>6, <1>7
  <2>2. ASSUME n = b PROVE IsGood(k, i, f, e, n)
    <3>1. Char(y) \notin Digits
      BY <1>6, <1>7, <2>2, KindsApart
    <3>2. e = f /\ n = e
      BY <1>2, <1>5, <1>6, <1>7, <2>2
    <3> QED BY <1>4, <1>5, <3>1, <3>2 DEF IsGood, GoodExponent
  <2> QED BY <1>5, <2>1, <2>2
<1>8. CASE ExponentAt(y, b)
  <2>1. Char(y) \notin Digits
    BY <1>8, KindsApart DEF ExponentAt
  <2>2. f = y /\ GoodFraction(i, f)
    BY <1>5, <2>1
  <2>3. n >= b /\ (n = b => e = b /\ GoodExponent(f, e))
    BY <1>2, <1>8, <2>2, ExponentFits
  <2> QED BY <1>4, <1>5, <2>2, <2>3 DEF IsGood
<1> QED BY <1>1, <1>7, <1>8

LEMMA IntegerIsGood ==
  ASSUME text \in Seq(Chars), NEW k \in 1 .. Len(text), NEW b \in k .. Len(text) + 1,
         NEW i, NEW f, NEW e, NEW n, Divides(k, i, f, e, n),
         IntegerAt(k, b) \/ ScaledAt(k, b)
  PROVE  n >= b /\ (n = b => f = i /\ IsGood(k, i, f, e, n))
<1>0. Len(text) \in Nat /\ b \in 1 .. Len(text) + 1
  OBVIOUS
<1>1. /\ i \in Int /\ f \in Int /\ e \in Int /\ n \in Int /\ i <= f /\ f <= e /\ e <= n
      /\ Char(n) \notin WordChars
  BY DEF Divides
<1>2. CASE IntegerAt(k, b)
  <2>1. i >= b /\ (Char(b) \notin Digits => i = b /\ GoodInteger(k, i))
    BY <1>2, IntegerFits
  <2>2. n >= b
    BY <1>0, <1>1, <2>1
  <2>3. ASSUME n = b PROVE f = i /\ IsGood(k, i, f, e, n)
    <3>1. f = i /\ e = f /\ n = e
      BY <1>0, <1>1, <2>1, <2>3
    <3>2. Char(b) \notin Digits
      BY <1>1, <2>3, KindsApart
    <3> QED BY <2>1, <3>1, <3>2 DEF IsGood, GoodFraction, GoodExponent
  <2> QED BY <2>2, <2>3
<1>3. CASE ScaledAt(k, b)
  <2>1. PICK x \in k .. b : IntegerAt(k, x) /\ ExponentAt(x, b)
    BY <1>3 DEF ScaledAt
  <2>2. Char(x) \notin Digits /\ Char(x) # "." /\ x \in k .. Len(text) + 1
    BY <1>0, <2>1, KindsApart DEF ExponentAt
  <2>3. i = x /\ GoodInteger(k, i)
    BY <2>1, <2>2, IntegerFits
  <2>4. f = i
    BY <2>2, <2>3 DEF Divides, Fraction
  <2>5. n >= b /\ (n = b => e = b /\ GoodExponent(f, e))
    BY <1>0, <2>1, <2>3, <2>4, ExponentFits
  <2> QED BY <2>3, <2>4, <2>5 DEF IsGood, GoodFraction
<1> QED BY <1>2, <1>3

\* What the scanner may not leave to the next token.
IsWhole(t) ==
  /\ Char(t.first) \in Letters => Char(t.last + 1) \notin WordChars
  /\ Char(t.first) \in Digits =>
       \E i, f, e : /\ Divides(t.first, i, f, e, t.last + 1)
                    /\ t.type = IF IsGood(t.first, i, f, e, t.last + 1)
                                THEN IF f > i THEN "floatlit" ELSE "intlit"
                                ELSE "invalidlit"
  /\ <<Char(t.first), Char(t.first + 1)>> \in TwoCharOperators => t.last > t.first

AllWhole == \A i \in DOMAIN tokens : IsWhole(tokens[i])

LEMMA WholeStays ==
  ASSUME UNCHANGED text, NEW t
  PROVE  IsWhole(t)' <=> IsWhole(t)
BY DEF IsWhole, Divides, Fraction, Exponent, IsGood, GoodInteger, GoodFraction, GoodExponent,
       ExponentDigits, Char

LEMMA AllWholeStays ==
  ASSUME AllWhole, UNCHANGED <<text, tokens>>
  PROVE  AllWhole'
<1> SUFFICES ASSUME NEW i \in DOMAIN tokens PROVE IsWhole(tokens[i])'
  BY DEF AllWhole
<1>1. PICK u : u = tokens[i]
  OBVIOUS
<1>2. IsWhole(u)'
  BY <1>1, WholeStays DEF AllWhole
<1> QED BY <1>1, <1>2 DEF IsWhole

\* A token is added.
LEMMA AddWhole ==
  ASSUME ScanInv, ScanInv', AllWhole, NEW t, IsWhole(t),
         tokens' = Append(tokens, t), text' = text
  PROVE  AllWhole'
<1>1. tokens \in Seq(TokenSet) /\ tokens' \in Seq(TokenSet)
  BY DEF ScanInv, ScanType
<1>2. tokens \in Seq(TokenSet \cup {t}) /\ t \in TokenSet \cup {t}
  BY <1>1
<1>3. /\ DOMAIN tokens' = DOMAIN tokens \cup {Len(tokens) + 1}
      /\ \A i \in DOMAIN tokens : tokens'[i] = tokens[i]
      /\ tokens'[Len(tokens) + 1] = t
  BY <1>1, <1>2
<1> SUFFICES ASSUME NEW i \in DOMAIN tokens' PROVE IsWhole(tokens[i])'
  BY DEF AllWhole
<1>4. PICK u : u = tokens'[i]
  OBVIOUS
<1>5. i \in DOMAIN tokens \/ i = Len(tokens) + 1
  BY <1>3
<1>6. IsWhole(u)
  BY <1>3, <1>4, <1>5 DEF AllWhole
<1>7. IsWhole(u)'
  BY <1>6, WholeStays
<1> QED BY <1>4, <1>7 DEF IsWhole

\* What the two-character operators begin with.
LEMMA PairsAreSymbols ==
  /\ \A c, d : <<c, d>> \in TwoCharOperators => c \in {"=", "<", ">", ":"}
  /\ {"=", "<", ">", ":"} \cap WordChars = {}
  /\ "/" \notin {"=", "<", ">", ":"} /\ "/" \notin WordChars
<1>1. ASSUME NEW c, NEW d, <<c, d>> \in TwoCharOperators
      PROVE  c \in {"=", "<", ">", ":"}
  BY <1>1 DEF TwoCharOperators
<1>2. {"<", ">"} \subseteq Operators /\ ":" \in Punctuation /\ "/" \in Operators
  BY Zenon DEF Operators, Punctuation
<1>3. "/" \notin {"=", "<", ">", ":"}
  BY Zenon
<1>4. {"=", "<", ">", ":"} \cap WordChars = {}
  BY <1>2, CharsAssumption
<1>5. "/" \notin WordChars
  BY <1>2, CharsAssumption, Zenon
<1> QED BY <1>1, <1>3, <1>4, <1>5, Zenon

\* Comments, and words that begin with an underscore.
LEMMA OthersAreWhole ==
  ASSUME NEW t, Char(t.first) = "/" \/ Char(t.first) = Underscore
  PROVE  IsWhole(t)
<1>1. Underscore \notin {"=", "<", ">", ":"} /\ Underscore \notin Letters /\ Underscore \notin Digits
  <2>1. Underscore \in WordChars
    BY DEF WordChars
  <2> QED BY <2>1, PairsAreSymbols, CharsAssumption, Zenon
<1>2. "/" \notin Letters /\ "/" \notin Digits
  BY PairsAreSymbols, Zenon DEF WordChars
<1>3. /\ Char(t.first) \notin Letters /\ Char(t.first) \notin Digits
      /\ Char(t.first) \notin {"=", "<", ">", ":"}
  BY <1>1, <1>2, PairsAreSymbols, Zenon
<1> QED BY <1>3, PairsAreSymbols, Zenon DEF IsWhole

LEMMA WholeWord ==
  ASSUME ScanInv, ScanInv', AllWhole, ScanWord
  PROVE  AllWhole'
<1>1. pc = "tokens" /\ Char(At) \in Letters /\ Char(At) # Eof
  BY NoEof DEF ScanWord
<1> DEFINE next == RunOf(At, WordChars)
           t == Token(WordType(At, next), At, next, LineAt(At), LineAt(At))
<1>2. At \in 1 .. Len(text) + 1 /\ text \in Seq(Chars)
  <2>1. At \in 1 .. Len(text) /\ Len(text) \in Nat /\ text \in Seq(Chars)
    BY <1>1, Begins
  <2> QED BY <2>1
<1>3. next \in Int /\ Char(next) \notin WordChars
  BY <1>2, RunStops, NoEof
<1>4. tokens' = Append(tokens, t) /\ text' = text
  BY DEF ScanWord, Found
<1> HIDE DEF next
<1>5. t.first = At /\ t.last + 1 = next
  BY <1>3 DEF Token
<1> HIDE DEF t
<1>6. Char(At) \notin Digits /\ Char(At) \in WordChars
  BY <1>1, KindsApart
<1>7. <<Char(At), Char(At + 1)>> \notin TwoCharOperators
  BY <1>6, PairsAreSymbols, Zenon
<1>8. IsWhole(t)
  BY <1>3, <1>5, <1>6, <1>7, Zenon DEF IsWhole
<1> QED BY <1>4, <1>8, AddWhole

LEMMA WholeNumber ==
  ASSUME ScanInv, ScanInv', AllWhole, ScanNumber
  PROVE  AllWhole'
<1>1. pc = "tokens" /\ Char(At) \in Digits /\ Char(At) # Eof
  BY NoEof DEF ScanNumber
<1>2. At \in 1 .. Len(text) /\ text \in Seq(Chars)
  BY <1>1, Begins
<1>3. PICK a : a = At
  OBVIOUS
<1>4. PICK i : i = IntegerEnd(a)
  OBVIOUS
<1>5. PICK f : f = FractionEnd(i)
  OBVIOUS
<1>6. PICK e : e = ExponentEnd(f)
  OBVIOUS
<1>7. PICK n : n = RunOf(e, WordChars)
  OBVIOUS
<1> DEFINE type == IF IsGood(a, i, f, e, n) THEN IF f > i THEN "floatlit" ELSE "intlit" ELSE "invalidlit"
           t == Token(type, a, n, LineAt(a), LineAt(a))
<1>8. Divides(a, i, f, e, n)
  BY <1>1, <1>2, <1>3, <1>4, <1>5, <1>6, <1>7, NumberDivides
<1>9. tokens' = Append(tokens, t) /\ text' = text
  BY <1>3, <1>4, <1>5, <1>6, <1>7 DEF ScanNumber, Found, IsGood
<1>10. n \in Int
  BY <1>8 DEF Divides
<1>11. t.first = a /\ t.last + 1 = n /\ t.type = type
  BY <1>10 DEF Token
<1>12. Char(a) \in Digits /\ Char(a) \in WordChars /\ Char(a) \notin Letters
  BY <1>1, <1>3, KindsApart
<1>13. <<Char(a), Char(a + 1)>> \notin TwoCharOperators
  BY <1>12, PairsAreSymbols, Zenon
<1> HIDE DEF t
<1>14. IsWhole(t)
  BY <1>8, <1>11, <1>12, <1>13 DEF IsWhole
<1> QED BY <1>9, <1>14, AddWhole

LEMMA WholeSymbol ==
  ASSUME ScanInv, ScanInv', AllWhole, ScanSymbol
  PROVE  AllWhole'
<1>1. pc = "tokens" /\ Char(At) \notin Letters \cup Digits \cup {Eof, Underscore}
  BY DEF ScanSymbol
<1>2. At \in 1 .. Len(text)
  BY <1>1, Begins
<1> DEFINE n == At + Len(Symbols(At))
           t == Token(SymbolType(Symbols(At)), At, n, LineAt(At), LineAt(At))
<1>3. tokens' = Append(tokens, t) /\ text' = text
  BY DEF ScanSymbol, Found
<1>4. t.first = At /\ t.last = n - 1
  BY DEF Token
<1> HIDE DEF t
<1>5. <<Char(At), Char(At + 1)>> \in TwoCharOperators => t.last > t.first
  <2> SUFFICES ASSUME <<Char(At), Char(At + 1)>> \in TwoCharOperators PROVE t.last > t.first
    OBVIOUS
  <2>1. Symbols(At) = <<Char(At), Char(At + 1)>>
    BY DEF Symbols
  <2>2. Len(Symbols(At)) = 2
    BY <2>1
  <2> QED BY <1>2, <1>4, <2>2
<1>6. IsWhole(t)
  BY <1>1, <1>4, <1>5 DEF IsWhole
<1> QED BY <1>3, <1>6, AddWhole

LEMMA WholeOther ==
  ASSUME ScanInv, ScanInv', AllWhole, ScanUnderscore \/ ScanInlineComment \/ CommentEnds
  PROVE  AllWhole'
<1>1. PICK t : /\ tokens' = Append(tokens, t) /\ text' = text
               /\ Char(t.first) = "/" \/ Char(t.first) = Underscore
  <2>1. CASE ScanUnderscore
    <3> DEFINE t == Token("invalidid", At, RunOf(At + 1, WordChars), LineAt(At + 1), LineAt(At + 1))
    <3>1. t.first = At
      BY DEF Token
    <3>2. tokens' = Append(tokens, t) /\ text' = text /\ Char(At) = Underscore
      BY <2>1 DEF ScanUnderscore, Found
    <3> QED BY <3>1, <3>2
  <2>2. CASE ScanInlineComment
    <3> DEFINE n == RunOf(At + 2, Chars \ {"newline"})
               t == Token("inlinecmt", At, n, LineAt(At), LineAt(n) - 1)
    <3>1. t.first = At
      BY DEF Token
    <3>2. tokens' = Append(tokens, t) /\ text' = text /\ Char(At) = "/"
      BY <2>2 DEF ScanInlineComment, OpensComment
    <3> QED BY <3>1, <3>2
  <2>3. CASE CommentEnds
    <3> DEFINE t == Token("blockcmt", opened.first, pos, opened.line, currentLine - 1)
    <3>1. t.first = opened.first
      BY DEF Token
    <3>2. tokens' = Append(tokens, t) /\ text' = text /\ pc = "comment"
      BY <2>3 DEF CommentEnds
    <3>3. text[opened.first] = "/" /\ opened.first \in 1 .. Len(text) /\ text \in Seq(Chars)
      BY <3>2 DEF ScanInv, ScanType, CommentIsOpen
    <3>4. Char(opened.first) = "/"
      BY <3>3 DEF Char
    <3> QED BY <3>1, <3>2, <3>4
  <2> QED BY <2>1, <2>2, <2>3
<1> QED BY <1>1, OthersAreWhole, AddWhole

LEMMA WholeStarts == ScannerInit => ScanInv /\ AllWhole
<1>1. ScannerInit => AllWhole
  BY DEF ScannerInit, AllWhole
<1> QED BY <1>1, ScanStarts

LEMMA WholeGoesOn == ScanInv /\ AllWhole /\ [ScanStep]_scannerVars => ScanInv' /\ AllWhole'
<1> SUFFICES ASSUME ScanInv, AllWhole, [ScanStep]_scannerVars PROVE ScanInv' /\ AllWhole'
  OBVIOUS
<1>0. ScanInv'
  BY ScanGoesOn
<1>1. CASE EndOfFile \/ ScanBlockComment \/ CommentStep \/ UNCHANGED scannerVars
  <2>1. UNCHANGED <<text, tokens>>
    BY <1>1 DEF EndOfFile, ScanBlockComment, CommentStep, scannerVars
  <2> QED BY <1>0, <2>1, AllWholeStays
<1>2. CASE ScanUnderscore \/ ScanInlineComment \/ CommentEnds
  BY <1>0, <1>2, WholeOther
<1>3. CASE ScanWord
  BY <1>0, <1>3, WholeWord
<1>4. CASE ScanNumber
  BY <1>0, <1>4, WholeNumber
<1>5. CASE ScanSymbol
  BY <1>0, <1>5, WholeSymbol
<1> QED BY <1>1, <1>2, <1>3, <1>4, <1>5 DEF ScanStep

\* Where a token stands in the text.
LEMMA TokenStretch ==
  ASSUME ScanInv, NEW i \in DOMAIN tokens
  PROVE  /\ text \in Seq(Chars) /\ Len(text) \in Nat
         /\ tokens[i].first \in 1 .. Len(text) /\ tokens[i].last \in tokens[i].first .. Len(text)
         /\ \A j \in DOMAIN tokens : i < j => tokens[i].last < tokens[j].first
<1>1. tokens \in Seq(TokenSet) /\ text \in Seq(Chars) /\ Len(text) \in Nat
  BY DEF ScanInv, ScanType
<1>2. tokens[i] \in TokenSet
  BY <1>1
<1>3. tokens[i].first \in Nat /\ tokens[i].last \in Nat
  BY <1>2 DEF TokenSet
<1>4. /\ 1 <= tokens[i].first /\ tokens[i].first <= tokens[i].last
      /\ tokens[i].last <= Len(text)
  BY DEF ScanInv, Ordered
<1>5. \A j \in DOMAIN tokens : i < j => tokens[i].last < tokens[j].first
  BY DEF ScanInv, Ordered
<1> QED BY <1>1, <1>3, <1>4, <1>5

LEMMA WholeLiterals == ScanInv /\ AllWhole => LiteralsFollowTheRules
<1> SUFFICES ASSUME ScanInv, AllWhole, NEW t \in DOMAIN tokens, NEW s, s = LexemeOf(t), s[1] \in Digits
             PROVE  tokens[t].type = CASE IsFloat(s)                         -> "floatlit"
                                       [] IsInteger(s) \/ IsScaledInteger(s) -> "intlit"
                                       [] OTHER                              -> "invalidlit"
  BY DEF LiteralsFollowTheRules
<1>1. PICK a, b : a = tokens[t].first /\ b = tokens[t].last + 1
  OBVIOUS
<1>2. /\ text \in Seq(Chars) /\ a \in 1 .. Len(text) /\ b \in a .. Len(text) + 1
      /\ a \in 1 .. Len(text) + 1 /\ a < b /\ b - 1 = tokens[t].last
  BY <1>1, TokenStretch
<1>3. s = SubSeq(text, a, b - 1)
  BY <1>1, <1>2 DEF LexemeOf
<1>4. s[1] = Char(a)
  <2>1. \A i \in 1 .. b - a : SubSeq(text, a, b - 1)[i] = Char(a + i - 1)
    BY <1>2, Stretch
  <2>2. 1 \in 1 .. b - a /\ a + 1 - 1 = a
    BY <1>2
  <2> QED BY <1>3, <2>1, <2>2
<1>5. PICK i, f, e : /\ Divides(a, i, f, e, b)
                     /\ tokens[t].type = IF IsGood(a, i, f, e, b)
                                         THEN IF f > i THEN "floatlit" ELSE "intlit"
                                         ELSE "invalidlit"
  BY <1>1, <1>4 DEF AllWhole, IsWhole
<1>6. /\ IsFloat(s) <=> FloatAt(a, b)
      /\ IsInteger(s) \/ IsScaledInteger(s) <=> IntegerAt(a, b) \/ ScaledAt(a, b)
  <2>1. IsFloat(s) <=> FloatAt(a, b)
    BY <1>2, <1>3, ReadsFloat
  <2>2. IsInteger(s) <=> IntegerAt(a, b)
    BY <1>2, <1>3, ReadsInteger
  <2>3. IsScaledInteger(s) <=> ScaledAt(a, b)
    BY <1>2, <1>3, ReadsScaled
  <2> QED BY <2>1, <2>2, <2>3
<1>7. CASE IsGood(a, i, f, e, b) /\ f > i
  <2>1. FloatAt(a, b)
    BY <1>2, <1>5, <1>7, GoodIsLiteral
  <2>2. ~ (IntegerAt(a, b) \/ ScaledAt(a, b))
    <3>1. IntegerAt(a, b) \/ ScaledAt(a, b) => f = i
      BY <1>2, <1>5, IntegerIsGood
    <3>2. f # i
      BY <1>5, <1>7 DEF Divides
    <3> QED BY <3>1, <3>2
  <2> QED BY <1>5, <1>6, <1>7, <2>1, <2>2
<1>8. CASE IsGood(a, i, f, e, b) /\ ~ (f > i)
  <2>1. IntegerAt(a, b) \/ ScaledAt(a, b)
    BY <1>2, <1>5, <1>8, GoodIsLiteral
  <2>2. ~ FloatAt(a, b)
    BY <1>2, <1>5, <1>8, FloatIsGood
  <2> QED BY <1>5, <1>6, <1>8, <2>1, <2>2
<1>9. CASE ~ IsGood(a, i, f, e, b)
  <2>1. ~ FloatAt(a, b)
    BY <1>2, <1>5, <1>9, FloatIsGood
  <2>2. ~ (IntegerAt(a, b) \/ ScaledAt(a, b))
    BY <1>2, <1>5, <1>9, IntegerIsGood
  <2> QED BY <1>5, <1>6, <1>9, <2>1, <2>2
<1> QED BY <1>7, <1>8, <1>9

LEMMA WholeElements == ScanInv /\ AllWhole => ElementsStayWhole
<1> SUFFICES ASSUME ScanInv, AllWhole, NEW t \in DOMAIN tokens, NEW u \in DOMAIN tokens, t < u,
                    NEW s, s = SubSeq(text, tokens[t].first, tokens[u].last), IsElement(s)
             PROVE  FALSE
  BY DEF ElementsStayWhole
<1>1. PICK a, m, b : a = tokens[t].first /\ m = tokens[t].last + 1 /\ b = tokens[u].last + 1
  OBVIOUS
<1>2. /\ text \in Seq(Chars) /\ Len(text) \in Nat /\ a \in 1 .. Len(text)
      /\ m \in a + 1 .. Len(text) + 1 /\ b \in a .. Len(text) + 1 /\ m < b
      /\ a \in 1 .. Len(text) + 1 /\ b - 1 = tokens[u].last
  <2>1. /\ text \in Seq(Chars) /\ Len(text) \in Nat
        /\ tokens[t].first \in 1 .. Len(text) /\ tokens[t].last \in tokens[t].first .. Len(text)
        /\ tokens[t].last < tokens[u].first
    BY TokenStretch
  <2>2. tokens[u].first \in 1 .. Len(text) /\ tokens[u].last \in tokens[u].first .. Len(text)
    BY TokenStretch
  <2>3. PICK x, y, z : x = tokens[t].last /\ y = tokens[u].first /\ z = tokens[u].last
    OBVIOUS
  <2>4. /\ Len(text) \in Nat /\ a \in 1 .. Len(text) /\ x \in a .. Len(text) /\ x < y
        /\ y \in 1 .. Len(text) /\ z \in y .. Len(text) /\ m = x + 1 /\ b = z + 1
    BY <1>1, <2>1, <2>2, <2>3
  <2>5. /\ m \in a + 1 .. Len(text) + 1 /\ b \in a .. Len(text) + 1 /\ m < b
        /\ a \in 1 .. Len(text) + 1 /\ b - 1 = z
    BY <2>4
  <2> QED BY <2>1, <2>3, <2>4, <2>5
<1>3. s = SubSeq(text, a, b - 1)
  BY <1>1, <1>2
<1>4. /\ s \in Seq(Chars) /\ Len(s) = b - a /\ \A i \in 1 .. b - a : s[i] = Char(a + i - 1)
  BY <1>2, <1>3, Stretch
<1>5. s[1] = Char(a) /\ DOMAIN s = 1 .. b - a
  <2>1. 1 \in 1 .. b - a /\ a + 1 - 1 = a
    BY <1>2
  <2> QED BY <1>4, <2>1
<1>6. /\ Char(a) \in Letters => Char(m) \notin WordChars
      /\ Char(a) \in Digits => \E i, f, e : Divides(a, i, f, e, m)
      /\ <<Char(a), Char(a + 1)>> \in TwoCharOperators => m > a + 1
  <2>1. IsWhole(tokens[t])
    BY DEF AllWhole
  <2>2. /\ Char(a) \in Letters => Char(m) \notin WordChars
        /\ Char(a) \in Digits => \E i, f, e : Divides(a, i, f, e, m)
        /\ <<Char(a), Char(a + 1)>> \in TwoCharOperators => tokens[t].last > a
    BY <1>1, <2>1, Zenon DEF IsWhole
  <2>3. tokens[t].last > a => m > a + 1
    BY <1>1, <1>2, TokenStretch
  <2> QED BY <2>2, <2>3, Zenon
<1>7. CASE IsId(s)
  <2>1. s[1] \in Letters /\ \A i \in DOMAIN s : s[i] \in WordChars
    BY <1>7 DEF IsId
  <2>2. m - a + 1 \in 1 .. b - a /\ a + (m - a + 1) - 1 = m
    BY <1>2
  <2>3. Char(m) \in WordChars
    BY <1>4, <1>5, <2>1, <2>2
  <2> QED BY <1>5, <1>6, <2>1, <2>3
<1>8. CASE IsInteger(s) \/ IsFloat(s) \/ IsScaledInteger(s)
  <2>1. FloatAt(a, b) \/ IntegerAt(a, b) \/ ScaledAt(a, b)
    BY <1>2, <1>3, <1>8, ReadsFloat, ReadsInteger, ReadsScaled
  <2>2. Char(a) \in Digits
    <3>1. \E x : IntegerAt(a, x) /\ x \in Int
      BY <1>2, <2>1 DEF FloatAt, ScaledAt
    <3> QED BY <1>2, <3>1 DEF IntegerAt
  <2>3. PICK i, f, e : Divides(a, i, f, e, m)
    BY <1>6, <2>2
  <2>4. m >= b
    BY <1>2, <2>1, <2>3, FloatIsGood, IntegerIsGood
  <2> QED BY <1>2, <2>4
<1>9. CASE IsOperator(s)
  <2>1. Len(s) # 1
    BY <1>2, <1>4
  <2>2. s \in TwoCharOperators
    BY <1>9, <2>1 DEF IsOperator
  <2>3. Len(s) = 2 /\ s = <<s[1], s[2]>>
    <3>1. \E c, d : s = <<c, d>>
      BY <2>2, Zenon DEF TwoCharOperators
    <3> QED BY <3>1
  <2>4. b = a + 2
    BY <1>2, <1>4, <2>3
  <2>5. s[2] = Char(a + 1)
    <3>1. 2 \in 1 .. b - a /\ a + 2 - 1 = a + 1
      BY <1>2, <2>4
    <3> QED BY <1>4, <3>1
  <2>6. m > a + 1
    BY <1>5, <1>6, <2>2, <2>3, <2>5
  <2> QED BY <1>2, <2>4, <2>6
<1> QED BY <1>7, <1>8, <1>9 DEF IsElement

\* Whatever the text: a token that begins with a digit is a literal exactly if the
\* language has such a literal, and has its type.
THEOREM LiteralsFollow == ScanSpec => []LiteralsFollowTheRules
<1> QED BY WholeStarts, WholeGoesOn, WholeLiterals, PTL DEF ScanSpec

\* Whatever the text: no element of the language is cut in two.
THEOREM ElementsAreWhole == ScanSpec => []ElementsStayWhole
<1> QED BY WholeStarts, WholeGoesOn, WholeElements, PTL DEF ScanSpec

=============================================================================
