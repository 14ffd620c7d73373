-------------------------------- MODULE Common --------------------------------
(***************************************************************************)
(* What several modules share: functions of sequences, and numbers that    *)
(* the compiler of a program, its meaning and the machine agree on.        *)
(***************************************************************************)
EXTENDS Integers, Sequences

\* op is applied to the elements of seq in turn, from left to right.  The singletons
\* only make TLC evaluate each result before the next application.
Through(op(_, _), start, seq) ==
  LET after[i \in 0 .. Len(seq)] ==
        IF i = 0 THEN start
        ELSE CHOOSE r \in {op(s, seq[i]) : s \in {after[i - 1]}} : TRUE
  IN  after[Len(seq)]

\* The elements of s that are in S, in their order: a filter of which the provers know
\* what they do not know of SelectSeq, which takes an operator.
Kept(s, S) ==
  LET kept[i \in 0 .. Len(s)] ==
        IF i = 0 THEN <<>>
        ELSE IF s[i] \in S THEN Append(kept[i - 1], s[i]) ELSE kept[i - 1]
  IN  kept[Len(s)]

\* The dimension that stands for `[]`.
Dynamic == -1

Magnitude(a) == IF a < 0 THEN -a ELSE a

\* Division rounds towards zero.
Quotient(a, b) ==
  IF (a < 0) = (b < 0) THEN Magnitude(a) \div Magnitude(b)
  ELSE -(Magnitude(a) \div Magnitude(b))

-----------------------------------------------------------------------------

\* The registers that expressions use, the stack pointer, the link, and the result of
\* a function.
Registers == 1 .. 12
Sp == 14
Link == 15
Result == 13

\* The addresses of the labels topaddr and buf; the memory is smaller than the
\* machine's.
TopAddress == 4000
Buffer == 5000

===============================================================================
