---------------------------- MODULE ParserProofs ----------------------------
(***************************************************************************)
(* Proofs about the parser, for every table, every pair of FIRST and       *)
(* FOLLOW sets and every set of inputs.                                    *)
(***************************************************************************)
EXTENDS BarzParser, SequenceTheorems, TLAPS

\* Popping a symbol that is not "$" leaves the "$" at the bottom.
LEMMA TailHasBottom ==
  ASSUME NEW s \in Seq(Symbols), HasBottom(s), Head(s) # End
  PROVE  /\ Tail(s) \in Seq(Symbols)
         /\ HasBottom(Tail(s))
<1>1. Len(s) \in Nat /\ Len(s) > 0
  BY DEF HasBottom
<1>2. Head(s) = s[1]
  OBVIOUS
<1>3. Len(s) > 1
  BY <1>1, <1>2 DEF HasBottom
<1>4. /\ Tail(s) \in Seq(Symbols)
      /\ Len(Tail(s)) = Len(s) - 1
      /\ \A i \in 1 .. Len(Tail(s)) : Tail(s)[i] = s[i + 1]
  BY <1>1, HeadTailProperties
<1> QED
  BY <1>1, <1>3, <1>4 DEF HasBottom

\* Pushing symbols other than "$" leaves the "$" at the bottom.
LEMMA PushHasBottom ==
  ASSUME NEW w \in Seq(Symbols \ {End}), NEW s \in Seq(Symbols), HasBottom(s)
  PROVE  /\ w \o s \in Seq(Symbols)
         /\ HasBottom(w \o s)
<1>1. w \in Seq(Symbols)
  OBVIOUS
<1>2. /\ w \o s \in Seq(Symbols)
      /\ Len(w \o s) = Len(w) + Len(s)
      /\ \A i \in 1 .. Len(w) + Len(s) :
           (w \o s)[i] = IF i <= Len(w) THEN w[i] ELSE s[i - Len(w)]
  BY <1>1, ConcatProperties
<1>3. Len(w) \in Nat /\ Len(s) \in Nat /\ Len(s) > 0
  BY DEF HasBottom
<1>4. \A i \in 1 .. Len(w) : w[i] # End
  OBVIOUS
<1>5. w \o s # <<>>
  BY <1>2, <1>3
<1>6. ASSUME NEW i \in 1 .. Len(w) + Len(s)
      PROVE  (w \o s)[i] = End <=> i = Len(w) + Len(s)
  <2>1. CASE i <= Len(w)
    BY <2>1, <1>2, <1>3, <1>4
  <2>2. CASE i > Len(w)
    <3>1. i - Len(w) \in 1 .. Len(s)
      BY <2>2, <1>3
    <3>2. s[i - Len(w)] = End <=> i - Len(w) = Len(s)
      BY <3>1 DEF HasBottom
    <3> QED
      BY <2>2, <3>2, <1>2, <1>3
  <2> QED
    BY <2>1, <2>2, <1>3
<1> QED
  BY <1>2, <1>3, <1>5, <1>6 DEF HasBottom

-----------------------------------------------------------------------------

\* The type invariant is not inductive: a pop needs the "$" at the bottom, a
\* match needs a lookahead.
TypeInv == /\ TypeOK
           /\ BottomMarker
           /\ pc # "start" => look \in 1 .. Eof

LEMMA InitialStackHasBottom ==
  InitialStack \in Seq(Symbols) /\ HasBottom(InitialStack)
<1>1. Start \in Symbols /\ End \in Symbols /\ Start # End
  BY SymbolAssumption DEF Symbols
<1> QED
  BY <1>1 DEF InitialStack, HasBottom

LEMMA TokensType ==
  ASSUME TypeOK
  PROVE  tokens \in Seq(TokenTypes) /\ Len(tokens) \in Nat /\ Eof \in Nat
<1>1. tokens \in InputStreams
  BY DEF TypeOK
<1>2. tokens \in Seq(TokenTypes)
  BY <1>1, TokensAssumption
<1> QED
  BY <1>2 DEF Eof

\* What skipErrors leaves behind has the right types.
LEMMA SkipErrorsType ==
  ASSUME TypeInv, InLoop, NEW what \in {"expected", "noProduction"},
         SkipErrors(Top, what)
  PROVE  TypeInv'
<1>1. TypeOK /\ tokens' = tokens /\ Eof' = Eof
  BY DEF TypeInv, SkipErrors, Eof
<1>2. Len(tokens) \in Nat /\ Eof \in Nat /\ Eof = Len(tokens) + 1
  BY <1>1, TokensType DEF Eof
<1>3. HasBottom(stack) /\ stack \in Seq(Symbols) /\ Head(stack) # End
  BY DEF TypeInv, BottomMarker, TypeOK, InLoop, Top
<1>4. stack' \in {stack, Tail(stack)}
  BY DEF SkipErrors
<1>5. stack' \in Seq(Symbols) /\ HasBottom(stack')
  BY <1>3, <1>4, TailHasBottom
<1>6. look \in Nat /\ 1 <= look /\ look <= Eof
  BY <1>2 DEF TypeInv, InLoop
<1>7. PICK k \in look .. Eof :
        /\ look' = k
        /\ \A m \in syntaxErrors' :
             \/ m \in syntaxErrors
             \/ m = <<what, look>> \/ m = <<"unexpected", look>>
             \/ \E i \in Passed(k) : m = <<"skipping", i>>
  <2>1. CASE CanPop(Top)
    <3>1. look \in look .. Eof /\ look' = look
      BY <1>2, <1>6, <2>1 DEF SkipErrors
    <3>2. syntaxErrors' = syntaxErrors \cup {<<what, look>>, <<"unexpected", look>>}
      BY <2>1 DEF SkipErrors
    <3> QED
      BY <3>1, <3>2
  <2>2. CASE ~CanPop(Top)
    BY <2>2 DEF SkipErrors
  <2> QED
    BY <2>1, <2>2
<1>8. look' \in 1 .. Eof
  BY <1>2, <1>6, <1>7
<1>9. \A i \in Passed(k) : i \in 1 .. Eof
  BY <1>2, <1>6, <1>7 DEF Passed, Significant
<1>10. syntaxErrors' \subseteq Messages
  <2> SUFFICES ASSUME NEW m \in syntaxErrors'
               PROVE  m \in Messages
    OBVIOUS
  <2>1. syntaxErrors \subseteq Messages
    BY <1>1 DEF TypeOK
  <2> QED
    BY <1>6, <1>7, <1>9, <2>1 DEF Messages
<1>11. Messages' = Messages
  BY <1>1 DEF Messages
<1>12. TypeOK'
  <2>1. tokens' \in InputStreams /\ pc' \in {"start", "parsing", "finished"}
    BY <1>1 DEF TypeOK, SkipErrors
  <2>2. look' \in 0 .. Eof' /\ currentLexeme' \in 0 .. Len(tokens')
    BY <1>1, <1>2, <1>8 DEF TypeOK, SkipErrors
  <2>3. /\ error' \in BOOLEAN /\ result' \in BOOLEAN
        /\ done' \in Seq(Terminals \cup Actions)
        /\ at' \in Seq(0 .. Len(tokens'))
        /\ Len(at') = Len(done')
    BY <1>1 DEF TypeOK, SkipErrors
  <2> QED
    BY <1>5, <1>10, <1>11, <2>1, <2>2, <2>3 DEF TypeOK
<1> QED
  BY <1>1, <1>5, <1>8, <1>12 DEF TypeInv, BottomMarker

\* The lookahead is on a token whenever it is not "$".
LEMMA LookOnToken ==
  ASSUME TypeInv, InLoop, TypeAt(look) # End
  PROVE  /\ look \in 1 .. Len(tokens)
         /\ TypeAt(look) = tokens[look]
<1>1. Len(tokens) \in Nat /\ Eof = Len(tokens) + 1
  BY TokensType DEF TypeInv, Eof
<1>2. look \in 1 .. Eof
  BY DEF TypeInv, InLoop
<1>3. look # Eof
  BY DEF TypeAt
<1> QED
  BY <1>1, <1>2, <1>3 DEF TypeAt

\* Every step of the parser preserves the types and the "$" at the bottom.
LEMMA TypeInvStep == TypeInv /\ [Next]_vars => TypeInv'
<1> SUFFICES ASSUME TypeInv, [Next]_vars
             PROVE  TypeInv'
  OBVIOUS
<1>1. Len(tokens) \in Nat /\ Eof \in Nat /\ Eof = Len(tokens) + 1
  BY TokensType DEF TypeInv, Eof
<1>2. CASE Begin
  <2>1. look' \in 1 .. Eof
    BY <1>1, <1>2 DEF Begin
  <2>2. stack' \in Seq(Symbols) /\ HasBottom(stack')
    BY <1>2, InitialStackHasBottom DEF Begin
  <2> QED
    BY <1>1, <1>2, <2>1, <2>2 DEF TypeInv, TypeOK, BottomMarker, Begin, Eof, Messages
<1>3. CASE Match
  <2>1. stack \in Seq(Symbols) /\ HasBottom(stack) /\ Head(stack) # End
    BY <1>3 DEF Match, InLoop, Top, TypeInv, TypeOK, BottomMarker
  <2>2. stack' \in Seq(Symbols) /\ HasBottom(stack')
    BY <1>3, <2>1, TailHasBottom DEF Match
  <2>3. look \in 1 .. Len(tokens)
    BY <1>3, LookOnToken DEF Match, InLoop
  <2>4. look' \in 1 .. Eof
    BY <1>1, <1>3, <2>3 DEF Match
  <2>5. done' \in Seq(Terminals \cup Actions) /\ at' \in Seq(0 .. Len(tokens))
        /\ Len(at') = Len(done')
    BY <1>1, <1>3, <2>3, AppendProperties DEF Match, TypeInv, TypeOK
  <2> QED
    BY <1>1, <1>3, <2>2, <2>3, <2>4, <2>5, SMTT(20)
       DEF TypeInv, TypeOK, BottomMarker, Match, Eof, Messages
<1>4. CASE Expand
  <2>1. stack \in Seq(Symbols) /\ HasBottom(stack) /\ Head(stack) # End
    BY <1>4 DEF Expand, InLoop, Top, TypeInv, TypeOK, BottomMarker
  <2>2. Tail(stack) \in Seq(Symbols) /\ HasBottom(Tail(stack))
    BY <2>1, TailHasBottom
  <2>3. Rhs(Top, TypeAt(look)) \in Seq(Symbols \ {End})
    BY <1>4, TableAssumption DEF Expand, HasProduction, Rhs
  <2>4. stack' \in Seq(Symbols) /\ HasBottom(stack')
    BY <1>4, <2>2, <2>3, PushHasBottom DEF Expand
  <2> QED
    BY <1>4, <2>4 DEF TypeInv, TypeOK, BottomMarker, Expand, Eof, Messages
<1>5. CASE PerformAction
  <2>1. stack \in Seq(Symbols) /\ HasBottom(stack) /\ Head(stack) # End
    BY <1>5 DEF PerformAction, InLoop, Top, TypeInv, TypeOK, BottomMarker
  <2>2. stack' \in Seq(Symbols) /\ HasBottom(stack')
    BY <1>5, <2>1, TailHasBottom DEF PerformAction
  <2>3. done' \in Seq(Terminals \cup Actions) /\ at' \in Seq(0 .. Len(tokens))
        /\ Len(at') = Len(done')
    BY <1>1, <1>5, AppendProperties DEF PerformAction, ActionLexeme, TypeInv, TypeOK
  <2> QED
    BY <1>5, <2>2, <2>3 DEF TypeInv, TypeOK, BottomMarker, PerformAction, Eof, Messages
<1>6. CASE Mismatch
  BY <1>6, SkipErrorsType DEF Mismatch
<1>7. CASE NoProduction
  BY <1>7, SkipErrorsType DEF NoProduction
<1>8. CASE Finish
  BY <1>8 DEF TypeInv, TypeOK, BottomMarker, Finish, Result, Eof, Messages
<1>9. CASE UNCHANGED vars
  BY <1>9 DEF TypeInv, TypeOK, BottomMarker, vars, Eof, Messages
<1> QED
  BY <1>2, <1>3, <1>4, <1>5, <1>6, <1>7, <1>8, <1>9 DEF Next

LEMMA TypeInvInit == Init => TypeInv
<1> SUFFICES ASSUME Init
             PROVE  TypeInv
  OBVIOUS
<1>1. tokens \in Seq(TokenTypes) /\ Len(tokens) \in Nat
  BY TokensAssumption DEF Init
<1>2. TypeOK
  <2>1. /\ stack \in Seq(Symbols) /\ done \in Seq(Terminals \cup Actions)
        /\ at \in Seq(0 .. Len(tokens)) /\ Len(at) = Len(done)
    BY DEF Init
  <2>2. look \in 0 .. Eof /\ currentLexeme \in 0 .. Len(tokens)
    BY <1>1 DEF Init, Eof
  <2> QED
    BY <2>1, <2>2 DEF Init, TypeOK
<1> QED
  BY <1>2 DEF Init, TypeInv, BottomMarker

LEMMA TypeInvariant == Spec => []TypeInv
BY TypeInvInit, TypeInvStep, PTL DEF Spec

\* The variables keep their types in every run of the parser.
THEOREM TypeCorrect == Spec => []TypeOK
<1>1. TypeInv => TypeOK
  BY DEF TypeInv
<1> QED
  BY <1>1, TypeInvariant, PTL

\* The parse loop never pops an empty stack, nor stops on a "$" that is not the
\* bottom of the stack.
THEOREM StackKeepsBottom == Spec => []BottomMarker
<1>1. TypeInv => BottomMarker
  BY DEF TypeInv
<1> QED
  BY <1>1, TypeInvariant, PTL

-----------------------------------------------------------------------------

\* The form is what was matched followed by what is on the stack.  Moving a
\* symbol from the one to the other does not change it.
LEMMA MoveKeepsForm ==
  ASSUME NEW S, NEW d \in Seq(S), NEW s \in Seq(S), s # <<>>
  PROVE  Append(d, Head(s)) \o Tail(s) = d \o s
<1>1. Append(d, Head(s)) = d \o <<Head(s)>> /\ <<Head(s)>> \in Seq(S)
  BY AppendIsConcat, HeadTailProperties
<1>2. <<Head(s)>> \o Tail(s) = s
  BY HeadTailProperties
<1> QED
  BY <1>1, <1>2, ConcatAssociative, HeadTailProperties

\* Cutting the form at the top of the stack.
LEMMA CutForm ==
  ASSUME NEW S, NEW d \in Seq(S), NEW s \in Seq(S), s # <<>>
  PROVE  LET f == d \o s
         IN  /\ f \in Seq(S) /\ Len(f) = Len(d) + Len(s)
             /\ Len(d) + 1 \in DOMAIN f /\ f[Len(d) + 1] = Head(s)
             /\ \A j \in 1 .. Len(d) : f[j] = d[j]
             /\ SubSeq(f, 1, Len(d)) = d
             /\ SubSeq(f, Len(d) + 2, Len(f)) = Tail(s)
<1> DEFINE f == d \o s
<1>1. /\ f \in Seq(S) /\ Len(f) = Len(d) + Len(s)
      /\ \A i \in 1 .. Len(d) + Len(s) :
           f[i] = IF i <= Len(d) THEN d[i] ELSE s[i - Len(d)]
  BY ConcatProperties
<1>2. Len(d) \in Nat /\ Len(s) \in Nat /\ Len(s) > 0
  OBVIOUS
<1>3. Len(d) + 1 \in DOMAIN f /\ f[Len(d) + 1] = Head(s)
  BY <1>1, <1>2
<1>4. \A j \in 1 .. Len(d) : f[j] = d[j]
  BY <1>1, <1>2
<1>5. SubSeq(f, 1, Len(d)) = d
  BY <1>1, <1>2, <1>4
<1>6. SubSeq(f, Len(d) + 2, Len(f)) = Tail(s)
  BY <1>1, <1>2
<1> QED
  BY <1>1, <1>3, <1>4, <1>5, <1>6

\* Nothing is derived or reported before the loop.
StartInv == pc = "start" => ~error /\ done = <<>>

LEMMA StartInvariant == Spec => []StartInv
<1>1. Init => StartInv
  BY DEF Init, StartInv
<1>2. StartInv /\ [Next]_vars => StartInv'
  BY DEF StartInv, Next, vars, Begin, Match, Expand, PerformAction, Mismatch,
         NoProduction, SkipErrors, InLoop, Finish
<1> QED
  BY <1>1, <1>2, PTL DEF Spec

\* Each step of the parser is a step of the leftmost derivation or leaves it as
\* it was.
LEMMA DerivationStep ==
  TypeInv /\ StartInv /\ [Next]_vars => [Derivation!Next]_(Derivation!vars)
<1> SUFFICES ASSUME TypeInv, StartInv, [Next]_vars
             PROVE  [Derivation!Next]_(Derivation!vars)
  OBVIOUS
<1> DEFINE S == Symbols
           form == IF error THEN <<>>
                   ELSE IF pc = "start" THEN <<Start, End>> ELSE done \o stack
           status == IF pc = "finished" THEN IF result THEN "accepted" ELSE "rejected"
                     ELSE IF error THEN "failed" ELSE "deriving"
<1>1. done \in Seq(Symbols) /\ stack \in Seq(Symbols) /\ error \in BOOLEAN
  BY DEF TypeInv, TypeOK, Symbols
<1>2. /\ Len(done) \in Nat /\ End \notin NonTerminals
      /\ \A j \in 1 .. Len(done) : done[j] \notin NonTerminals
  <2>1. done \in Seq(Terminals \cup Actions)
    BY DEF TypeInv, TypeOK
  <2> QED
    BY <2>1, SymbolAssumption
<1>3. ASSUME UNCHANGED <<form, status>>
      PROVE  UNCHANGED Derivation!vars
  BY <1>3 DEF Derivation!vars
<1>4. CASE Begin
  <2>1. ~error /\ ~error' /\ form' = <<>> \o <<Start, End>> /\ status' = status
    BY <1>4 DEF Begin, StartInv, InitialStack
  <2>2. <<Start, End>> \in Seq({Start, End})
    OBVIOUS
  <2>3. form' = form
    BY <1>4, <2>1, <2>2, ConcatEmptySeq DEF Begin
  <2> QED
    BY <1>3, <2>1, <2>3
<1>5. CASE Match \/ PerformAction
  <2>1. done' = Append(done, Head(stack)) /\ stack' = Tail(stack)
    BY <1>5 DEF Match, PerformAction, Top
  <2>2. stack # <<>>
    BY <1>5 DEF Match, PerformAction, InLoop, TypeInv, BottomMarker, HasBottom
  <2>3. done' \o stack' = done \o stack
    BY <1>1, <2>1, <2>2, MoveKeepsForm
  <2>4. form' = form /\ status' = status
    BY <1>5, <2>3 DEF Match, PerformAction, InLoop
  <2> QED
    BY <1>3, <2>4
<1>6. CASE Expand
  <2>1. CASE error
    <3>1. form' = form /\ status' = status
      BY <1>6, <2>1 DEF Expand, InLoop
    <3> QED
      BY <1>3, <3>1
  <2>2. CASE ~error
    <3> DEFINE i == Len(done) + 1
               c == <<Top, TypeAt(look)>>
    <3>1. stack # <<>> /\ form = done \o stack /\ status = "deriving"
      BY <1>6, <2>2 DEF Expand, InLoop, TypeInv, BottomMarker, HasBottom
    <3>2. /\ i \in DOMAIN form /\ form[i] = Top
          /\ \A j \in 1 .. i - 1 : form[j] = done[j]
          /\ SubSeq(form, 1, i - 1) = done
          /\ SubSeq(form, i + 1, Len(form)) = Tail(stack)
      BY <1>1, <3>1, CutForm, SMTT(20) DEF Top
    <3>3. \A j \in 1 .. i - 1 : form[j] \notin NonTerminals
      <4>1. \A j \in 1 .. i - 1 : done[j] \notin NonTerminals
        BY <1>2
      <4> HIDE DEF form, i
      <4> QED
        BY <3>2, <4>1
    <3>4. c \in DOMAIN Table /\ c[1] = Top /\ Top \in NonTerminals
      BY <1>6 DEF Expand, HasProduction
    <3>5. Table[c].rhs \in Seq(Symbols) /\ Tail(stack) \in Seq(Symbols)
      BY <1>1, <3>1, <3>4, TableAssumption, HeadTailProperties
    <3>6. form' = (done \o Table[c].rhs) \o Tail(stack)
      <4>1. form' = done \o (Table[c].rhs \o Tail(stack))
        BY <1>6, <2>2 DEF Expand, InLoop, Rhs
      <4>2. \A p, q, r \in Seq(Symbols) : (p \o q) \o r = p \o (q \o r)
        BY ConcatAssociative
      <4> HIDE DEF form
      <4> QED
        BY <1>1, <3>5, <4>1, <4>2
    <3>7. status' = status
      BY <1>6 DEF Expand, InLoop
    <3>8. Derivation!Leftmost(i)
      BY <3>2, <3>3, <3>4 DEF Derivation!Leftmost
    <3>9. Derivation!Derive
      <4>1. /\ c[1] = form[i]
            /\ form' = SubSeq(form, 1, i - 1) \o Table[c].rhs
                             \o SubSeq(form, i + 1, Len(form))
        BY <3>2, <3>4, <3>6
      <4>2. \E p \in DOMAIN form, d \in DOMAIN Table :
              /\ Derivation!Leftmost(p)
              /\ d[1] = form[p]
              /\ form' = SubSeq(form, 1, p - 1) \o Table[d].rhs
                               \o SubSeq(form, p + 1, Len(form))
        <5>1. i \in DOMAIN form /\ c \in DOMAIN Table /\ Derivation!Leftmost(i)
          BY <3>2, <3>4, <3>8
        <5> HIDE DEF form, i, c
        <5> QED
          BY <4>1, <5>1
      <4> QED
        BY <3>1, <3>7, <4>2 DEF Derivation!Derive
    <3> QED
      BY <3>9 DEF Derivation!Next
  <2> QED
    BY <1>1, <2>1, <2>2
<1>7. CASE Mismatch \/ NoProduction
  <2>1. /\ form' = <<>> /\ status' = "failed"
        /\ IF error THEN form = <<>> /\ status = "failed" ELSE status = "deriving"
    BY <1>7 DEF Mismatch, NoProduction, SkipErrors, InLoop
  <2>2. CASE error
    BY <1>3, <2>1, <2>2
  <2>3. CASE ~error
    BY <2>1, <2>3 DEF Derivation!Next, Derivation!Fail
  <2> QED
    BY <1>1, <2>2, <2>3
<1>8. CASE Finish
  <2>1. CASE error
    <3>1. form' = form /\ status = "failed" /\ status' = "rejected"
      BY <1>8, <2>1 DEF Finish, Result
    <3> QED
      BY <3>1 DEF Derivation!Next, Derivation!Reject
  <2>2. CASE ~error
    <3>1. /\ form = done \o stack /\ form' = form
          /\ status = "deriving" /\ status' \in {"accepted", "rejected"}
      BY <1>8, <2>2 DEF Finish
    <3>2. stack # <<>> /\ Len(stack) = 1
      <4>1. HasBottom(stack) /\ Head(stack) = End
        BY <1>8 DEF Finish, Top, TypeInv, BottomMarker
      <4>2. 1 \in DOMAIN stack /\ stack[1] = End
        BY <1>1, <4>1 DEF HasBottom
      <4> QED
        BY <4>1, <4>2 DEF HasBottom
    <3>3. Head(stack) = End
      BY <1>8 DEF Finish, Top
    <3>4. /\ form \in Seq(Symbols) /\ Len(form) = Len(done) + 1
          /\ form[Len(done) + 1] = End
          /\ \A j \in 1 .. Len(done) : form[j] = done[j]
      <4>1. LET f == done \o stack
            IN  /\ f \in Seq(Symbols) /\ Len(f) = Len(done) + Len(stack)
                /\ f[Len(done) + 1] = Head(stack)
                /\ \A j \in 1 .. Len(done) : f[j] = done[j]
        BY <1>1, <3>2, CutForm
      <4> HIDE DEF form
      <4> QED
        BY <3>1, <3>2, <3>3, <4>1
    <3>5. \A j \in DOMAIN form : form[j] \notin NonTerminals
      BY <1>2, <3>4
    <3> QED
      BY <3>1, <3>5 DEF Derivation!Next, Derivation!Finish
  <2> QED
    BY <1>1, <2>1, <2>2
<1>9. CASE UNCHANGED vars
  <2>1. UNCHANGED <<form, status>>
    BY <1>9 DEF vars
  <2> QED
    BY <1>3, <2>1
<1> QED
  BY <1>4, <1>5, <1>6, <1>7, <1>8, <1>9 DEF Next

\* The parser implements the leftmost derivation: until its first syntax error
\* every expansion replaces the leftmost nonterminal of the sentential form by a
\* production of the table, and it answers TRUE only with nothing left to derive.
THEOREM ParserDerivesLeftmost == Spec => DerivesLeftmost
<1>1. Init => Derivation!Init
  BY DEF Init, Derivation!Init
<1> QED
  BY <1>1, DerivationStep, TypeInvariant, StartInvariant, PTL
     DEF Spec, DerivesLeftmost, Derivation!Spec

-----------------------------------------------------------------------------

\* The strengthening of TokensAccounted: what was handed out lies before the
\* lookahead, and the lookahead is on the first token that was not.
AccountInv ==
  /\ TypeInv
  /\ TokensAccounted
  /\ \A i \in DOMAIN at : at[i] <= currentLexeme
  /\ currentLexeme \in Matched \cup {0}
  /\ pc = "start" => done = <<>> /\ syntaxErrors = {} /\ currentLexeme = 0
  /\ pc # "start" => /\ currentLexeme < look
                     /\ look \in Significant \cup {Eof}
  /\ ~error => syntaxErrors = {}
  /\ result => pc = "finished" /\ look = Eof /\ ~error

\* The next token is the first significant one: none is between.
LEMMA NextTokenAdvances ==
  ASSUME TypeOK, NEW i \in 0 .. Len(tokens), NEW k \in Nat, IsNextToken(i, k)
  PROVE  /\ k > i /\ k \in Significant \cup {Eof}
         /\ {j \in Significant : j < k} =
              {j \in Significant : j < i} \cup ({i} \cap Significant)
<1>1. Len(tokens) \in Nat /\ Eof = Len(tokens) + 1
  BY TokensType DEF Eof
<1>2. k > i /\ k \in Significant \cup {Eof} /\ (i + 1 .. k - 1) \cap Significant = {}
  BY DEF IsNextToken
<1>3. \A j \in Significant : j \in 1 .. Len(tokens)
  BY DEF Significant
<1>4. ASSUME NEW j \in Significant
      PROVE  j < k <=> j < i \/ j = i
  <2>1. ~(i < j /\ j < k)
    BY <1>1, <1>2, <1>3
  <2> QED
    BY <1>1, <1>2, <1>3, <2>1
<1> QED
  BY <1>2, <1>4

\* The history after one more symbol left the stack.
LEMMA AppendToHistory ==
  ASSUME TypeOK, NEW x \in Terminals \cup Actions, NEW k \in 0 .. Len(tokens),
         done' = Append(done, x), at' = Append(at, k), tokens' = tokens
  PROVE  /\ DOMAIN done' = 1 .. Len(done) + 1 /\ DOMAIN at' = DOMAIN done'
         /\ DOMAIN done = 1 .. Len(done) /\ DOMAIN at = DOMAIN done
         /\ \A i \in DOMAIN done : done'[i] = done[i] /\ at'[i] = at[i]
         /\ done'[Len(done) + 1] = x /\ at'[Len(done) + 1] = k
         /\ x \in Terminals => Matched' = Matched \cup {k}
         /\ x \notin Terminals => Matched' = Matched
         /\ Significant' = Significant
<1>1. /\ done \in Seq(Terminals \cup Actions) /\ at \in Seq(0 .. Len(tokens))
      /\ Len(at) = Len(done) /\ Len(done) \in Nat
  BY DEF TypeOK
<1>2. /\ DOMAIN done' = 1 .. Len(done) + 1 /\ DOMAIN at' = DOMAIN done'
      /\ DOMAIN done = 1 .. Len(done) /\ DOMAIN at = DOMAIN done
      /\ \A i \in DOMAIN done : done'[i] = done[i] /\ at'[i] = at[i]
      /\ done'[Len(done) + 1] = x /\ at'[Len(done) + 1] = k
  BY <1>1, AppendProperties
<1>3. \A i \in DOMAIN done' : i \in DOMAIN done \/ i = Len(done) + 1
  BY <1>1, <1>2
<1>4. DOMAIN done \subseteq DOMAIN done' /\ Len(done) + 1 \in DOMAIN done'
  BY <1>1, <1>2
<1>5. x \in Terminals => Matched' = Matched \cup {k}
  BY <1>2, <1>3, <1>4 DEF Matched
<1>6. x \notin Terminals => Matched' = Matched
  BY <1>2, <1>3, <1>4 DEF Matched
<1> QED
  BY <1>2, <1>5, <1>6 DEF Significant

LEMMA AccountMatch ==
  ASSUME AccountInv, Match
  PROVE  AccountInv'
<1>1. /\ TypeOK /\ TypeInv' /\ Len(tokens) \in Nat /\ Eof = Len(tokens) + 1
      /\ Eof' = Eof /\ currentLexeme \in Nat
  BY TypeInvStep, TokensType DEF AccountInv, TypeInv, TypeOK, Next, Match, Eof
<1>2. /\ look \in 1 .. Len(tokens) /\ Top = tokens[look] /\ Top \in Terminals
      /\ pc = "parsing"
  BY LookOnToken DEF Match, InLoop, AccountInv
<1>3. look \in Significant
  BY <1>1, <1>2 DEF AccountInv
<1>4. PICK k \in look + 1 .. Eof : IsNextToken(look, k) /\ look' = k
  BY DEF Match
<1>5. /\ look' > look /\ look' \in Significant \cup {Eof}
      /\ {j \in Significant : j < look'} = {j \in Significant : j < look} \cup {look}
  BY <1>1, <1>2, <1>3, <1>4, NextTokenAdvances
<1>6. /\ DOMAIN done' = 1 .. Len(done) + 1 /\ DOMAIN at' = DOMAIN done'
      /\ DOMAIN done = 1 .. Len(done) /\ DOMAIN at = DOMAIN done
      /\ \A i \in DOMAIN done : done'[i] = done[i] /\ at'[i] = at[i]
      /\ done'[Len(done) + 1] = Top /\ at'[Len(done) + 1] = look
      /\ Matched' = Matched \cup {look} /\ Significant' = Significant
      /\ Len(done) \in Nat
  <2>1. /\ done' = Append(done, Top) /\ at' = Append(at, look)
        /\ tokens' = tokens
    BY DEF Match
  <2>2. look \in 0 .. Len(tokens) /\ Len(done) \in Nat
    BY <1>1, <1>2 DEF TypeOK
  <2> QED
    BY <1>1, <1>2, <2>1, <2>2, AppendToHistory
<1>7. Skipped' = Skipped
  BY <1>6 DEF Match, Skipped
<1>8. \A i \in DOMAIN at : at[i] \in Nat /\ at[i] < look
  BY <1>1, <1>2 DEF AccountInv, TypeOK
<1>9. MatchedAreTokens'
  <2> SUFFICES ASSUME NEW i \in DOMAIN done', done'[i] \in Terminals
               PROVE  /\ at'[i] \in Significant /\ tokens[at'[i]] = done'[i]
                      /\ \A j \in 1 .. i - 1 : at'[j] < at'[i]
    BY <1>6 DEF MatchedAreTokens, Match
  <2>1. CASE i \in DOMAIN done
    BY <1>6, <2>1 DEF AccountInv, TokensAccounted, MatchedAreTokens
  <2>2. CASE i = Len(done) + 1
    BY <1>2, <1>3, <1>6, <1>8, <2>2
  <2> QED
    BY <1>6, <2>1, <2>2
<1>10. look \notin Skipped
  BY <1>2, <1>3 DEF AccountInv, TokensAccounted
<1>11. TokensAccounted'
  BY <1>2, <1>5, <1>6, <1>7, <1>9, <1>10 DEF AccountInv, TokensAccounted, Match
<1>12. \A i \in DOMAIN at' : at'[i] <= currentLexeme'
  BY <1>1, <1>2, <1>6, <1>8 DEF Match
<1> QED
  BY <1>1, <1>2, <1>5, <1>6, <1>11, <1>12 DEF AccountInv, Match

LEMMA AccountAction ==
  ASSUME AccountInv, PerformAction
  PROVE  AccountInv'
<1>1. TypeOK /\ TypeInv' /\ Len(tokens) \in Nat /\ Eof' = Eof
  BY TypeInvStep, TokensType DEF AccountInv, TypeInv, Next, PerformAction, Eof
<1>2. Top \in Actions /\ Top \notin Terminals /\ pc = "parsing"
  BY SymbolAssumption DEF PerformAction, InLoop
<1>3. /\ DOMAIN done' = 1 .. Len(done) + 1 /\ DOMAIN at' = DOMAIN done'
      /\ DOMAIN done = 1 .. Len(done) /\ DOMAIN at = DOMAIN done
      /\ \A i \in DOMAIN done : done'[i] = done[i] /\ at'[i] = at[i]
      /\ done'[Len(done) + 1] = Top /\ at'[Len(done) + 1] = currentLexeme
      /\ Matched' = Matched /\ Significant' = Significant
      /\ Len(done) \in Nat
  <2>1. /\ done' = Append(done, Top) /\ at' = Append(at, currentLexeme)
        /\ tokens' = tokens
    BY DEF PerformAction, ActionLexeme
  <2>2. currentLexeme \in 0 .. Len(tokens) /\ Len(done) \in Nat
    BY <1>1 DEF TypeOK
  <2> QED
    BY <1>1, <1>2, <2>1, <2>2, AppendToHistory
<1>4. Skipped' = Skipped
  BY <1>3 DEF PerformAction, Skipped
<1>5. MatchedAreTokens'
  <2> SUFFICES ASSUME NEW i \in DOMAIN done', done'[i] \in Terminals
               PROVE  /\ at'[i] \in Significant /\ tokens[at'[i]] = done'[i]
                      /\ \A j \in 1 .. i - 1 : at'[j] < at'[i]
    BY <1>3 DEF MatchedAreTokens, PerformAction
  <2>1. i \in DOMAIN done
    BY <1>2, <1>3
  <2> QED
    BY <1>3, <2>1 DEF AccountInv, TokensAccounted, MatchedAreTokens
<1>6. TokensAccounted'
  BY <1>3, <1>4, <1>5 DEF AccountInv, TokensAccounted, PerformAction
<1>7. \A i \in DOMAIN at' : at'[i] <= currentLexeme'
  BY <1>1, <1>3 DEF PerformAction, AccountInv, TypeOK
<1> QED
  BY <1>1, <1>2, <1>3, <1>6, <1>7 DEF AccountInv, PerformAction

LEMMA AccountSkip ==
  ASSUME AccountInv, InLoop, NEW what \in {"expected", "noProduction"},
         SkipErrors(Top, what)
  PROVE  AccountInv'
<1>1. /\ TypeOK /\ TypeInv' /\ Len(tokens) \in Nat /\ Eof = Len(tokens) + 1
      /\ Eof' = Eof /\ currentLexeme \in Nat /\ pc = "parsing"
  <2>1. TypeInv /\ TypeOK /\ TypeInv' /\ pc = "parsing"
    BY SkipErrorsType DEF AccountInv, TypeInv, InLoop
  <2>2. Len(tokens) \in Nat /\ Eof = Len(tokens) + 1 /\ Eof' = Eof
    BY <2>1, TokensType DEF Eof, SkipErrors
  <2>3. currentLexeme \in Nat
    BY <2>1, <2>2 DEF TypeOK
  <2> QED
    BY <2>1, <2>2, <2>3
<1>2. look \in 1 .. Eof /\ look \in Nat
  BY <1>1 DEF AccountInv, TypeInv
<1>3. Matched' = Matched /\ Significant' = Significant /\ MatchedAreTokens'
  BY DEF SkipErrors, Matched, Significant, AccountInv, TokensAccounted, MatchedAreTokens
<1>4. PICK k \in look .. Eof :
        /\ look' = k /\ k \in Significant \cup {Eof}
        /\ \A i : <<"skipping", i>> \in syntaxErrors' <=>
                  <<"skipping", i>> \in syntaxErrors \/ i \in Passed(k)
  <2>1. CASE CanPop(Top)
    <3>1. /\ look' = look /\ look \in Significant \cup {Eof} /\ look \in look .. Eof
          /\ syntaxErrors' = syntaxErrors \cup {<<what, look>>, <<"unexpected", look>>}
      BY <1>1, <1>2, <2>1 DEF SkipErrors, AccountInv
    <3>2. Passed(look) = {}
      BY <1>2 DEF Passed
    <3> QED
      BY <3>1, <3>2
  <2>2. CASE ~CanPop(Top)
    BY <2>2 DEF SkipErrors, SkipsTo
  <2> QED
    BY <2>1, <2>2
<1>5. Skipped' = Skipped \cup Passed(k)
  BY <1>3, <1>4 DEF Skipped, Passed
<1>6. \A i \in Significant : i \in Nat
  BY DEF Significant
<1>7. {i \in Significant : i < k} = {i \in Significant : i < look} \cup Passed(k)
  <2>1. ASSUME NEW i \in Significant
        PROVE  i < k <=> i < look \/ i \in Passed(k)
    BY <1>1, <1>2, <1>6 DEF Passed
  <2>2. Passed(k) \subseteq Significant
    BY DEF Passed
  <2> QED
    BY <2>1, <2>2
<1>8. Matched \cap Passed(k) = {}
  <2>1. \A i \in Matched : i < look
    BY <1>1 DEF AccountInv, TokensAccounted
  <2> QED
    BY <1>2, <1>6, <2>1 DEF Passed
<1>9. TokensAccounted'
  BY <1>1, <1>3, <1>4, <1>5, <1>7, <1>8 DEF AccountInv, TokensAccounted, SkipErrors
<1>10. currentLexeme' < look'
  BY <1>1, <1>2, <1>4 DEF AccountInv, SkipErrors
<1> QED
  BY <1>1, <1>3, <1>4, <1>9, <1>10 DEF AccountInv, SkipErrors

LEMMA AccountStep == AccountInv /\ [Next]_vars => AccountInv'
<1> SUFFICES ASSUME AccountInv, [Next]_vars
             PROVE  AccountInv'
  OBVIOUS
<1>1. TypeOK /\ TypeInv' /\ Len(tokens) \in Nat /\ Eof = Len(tokens) + 1
  BY TypeInvStep, TokensType DEF AccountInv, TypeInv, Eof
<1>2. CASE Begin
  <2>1. /\ done = <<>> /\ syntaxErrors = {} /\ currentLexeme = 0 /\ ~result
        /\ Eof' = Eof /\ Significant' = Significant
    BY <1>2 DEF AccountInv, Begin, Eof, Significant
  <2>2. Matched = {} /\ Skipped = {} /\ Matched' = {} /\ Skipped' = {}
    BY <1>2, <2>1 DEF Matched, Skipped, Begin
  <2>3. PICK k \in 1 .. Eof : IsNextToken(0, k) /\ look' = k
    BY <1>2 DEF Begin
  <2>4. k \in Nat /\ 0 \in 0 .. Len(tokens)
    BY <1>1, <2>3
  <2>5. /\ look' > 0 /\ look' \in Significant \cup {Eof}
        /\ {j \in Significant : j < look'} =
             {j \in Significant : j < 0} \cup ({0} \cap Significant)
    BY <1>1, <2>3, <2>4, NextTokenAdvances
  <2>6. \A j \in Significant : j \in Nat /\ j > 0
    BY <1>1 DEF Significant
  <2>7. {j \in Significant : j < look'} = {}
    BY <2>5, <2>6
  <2>8. TokensAccounted'
    BY <1>2, <2>1, <2>2, <2>7 DEF AccountInv, TokensAccounted, MatchedAreTokens, Begin
  <2> QED
    BY <1>1, <1>2, <2>1, <2>5, <2>8 DEF AccountInv, Begin
<1>3. CASE Match
  BY <1>3, AccountMatch
<1>4. CASE Expand
  BY <1>1, <1>4 DEF AccountInv, Expand, InLoop, TokensAccounted, MatchedAreTokens,
                    Matched, Skipped, Significant, Eof
<1>5. CASE PerformAction
  BY <1>5, AccountAction
<1>6. CASE Mismatch
  BY <1>6, AccountSkip DEF Mismatch
<1>7. CASE NoProduction
  BY <1>7, AccountSkip DEF NoProduction
<1>8. CASE Finish
  <2>1. TokensAccounted'
    BY <1>8 DEF AccountInv, Finish, TokensAccounted, MatchedAreTokens, Matched,
                Skipped, Significant
  <2>2. Matched' = Matched /\ Significant' = Significant /\ Eof' = Eof
    BY <1>8 DEF Finish, Matched, Significant, Eof
  <2> QED
    BY <1>1, <1>8, <2>1, <2>2 DEF AccountInv, Finish, Result
<1>9. CASE UNCHANGED vars
  BY <1>1, <1>9 DEF AccountInv, vars, TokensAccounted, MatchedAreTokens,
                    Matched, Skipped, Significant, Eof
<1> QED
  BY <1>2, <1>3, <1>4, <1>5, <1>6, <1>7, <1>8, <1>9 DEF Next

LEMMA AccountInvariant == Spec => []AccountInv
<1>1. Init => AccountInv
  <2> SUFFICES ASSUME Init
               PROVE  AccountInv
    OBVIOUS
  <2>1. TypeInv
    BY TypeInvInit
  <2>2. Matched = {} /\ Skipped = {} /\ MatchedAreTokens
    BY DEF Init, Matched, Skipped, MatchedAreTokens
  <2> QED
    BY <2>1, <2>2 DEF Init, AccountInv, TokensAccounted
<1> QED
  BY <1>1, AccountStep, PTL DEF Spec

\* Every significant token before the lookahead was matched, once and in the
\* order of the input, or reported as skipped; none after it was either.
THEOREM NoTokenIsLost == Spec => []TokensAccounted
<1>1. AccountInv => TokensAccounted
  BY DEF AccountInv
<1> QED
  BY <1>1, AccountInvariant, PTL

\* An answer of TRUE means that each significant token of the input was matched
\* and nothing was reported.
THEOREM AcceptedInputIsMatched == Spec => []AcceptMeansMatched
<1>1. AccountInv => AcceptMeansMatched
  <2> SUFFICES ASSUME AccountInv, result
               PROVE  syntaxErrors = {} /\ Matched = Significant /\ MatchedAreTokens
    BY DEF AcceptMeansMatched
  <2>1. syntaxErrors = {} /\ look = Eof /\ pc # "start" /\ MatchedAreTokens
    BY DEF AccountInv, TokensAccounted
  <2>2. Skipped = {} /\ Matched \cup Skipped = {i \in Significant : i < Eof}
    BY <2>1 DEF AccountInv, TokensAccounted, Skipped
  <2>3. Len(tokens) \in Nat /\ Eof = Len(tokens) + 1
    BY TokensType DEF AccountInv, TypeInv, Eof
  <2>4. \A i \in Significant : i < Eof
    BY <2>3 DEF Significant
  <2> QED
    BY <2>1, <2>2, <2>4
<1> QED
  BY <1>1, AccountInvariant, PTL

-----------------------------------------------------------------------------

\* performAction works on a stack of its own: with the tree that its actions build,
\* the parser is the parser still, and stops at the latest where an action would read
\* below the bottom of that stack.
THEOREM BuilderKeepsParser == BuildSpec => Spec
<1>1. BuildInit => Init
  BY DEF BuildInit, ParserInit
<1>2. [BuildNext]_<<vars, astVars>> => [Next]_vars
  BY DEF BuildNext, Build, Next
<1> QED
  BY <1>1, <1>2, PTL DEF BuildSpec, Spec

\* What was proved of the parser holds while it builds the tree.
THEOREM BuilderAccountsForTokens ==
  BuildSpec => /\ DerivesLeftmost
               /\ []TokensAccounted
               /\ []AcceptMeansMatched
  BY BuilderKeepsParser, ParserDerivesLeftmost, NoTokenIsLost, AcceptedInputIsMatched, PTL

=============================================================================
