--------------------------- MODULE SemanticProofs ---------------------------
(***************************************************************************)
(* SemanticProofs: theorems about the visitor of SemanticChecking, for any *)
(* programs and tables.                                                    *)
(*                                                                         *)
(* The search for circular class dependencies is sound and complete.  The  *)
(* frames on its stack are a path of dependencies without a repetition,    *)
(* visited is its classes, and a dependency of a frame that is no longer   *)
(* among what the frame has left is finished or next on the path.  So a    *)
(* class met on the path closes a cycle; and a class that finishes depends *)
(* on finished classes only, so that no set in which one can walk forever  *)
(* holds it.                                                               *)
(*                                                                         *)
(* A statement is checked in its own context.  What is left to visit has   *)
(* an order: the statements of at most one function, the end of that       *)
(* function, the other functions of at most one class, the end of that     *)
(* class, and then what stands outside.  Table, class and return type      *)
(* follow from which of the two ends is still to come.                     *)
(***************************************************************************)
EXTENDS SemanticChecking, SequenceLemmas

AllMembers == UNION {ClassMembers(c) : c \in Classes}

FrameSet == [class : Classes, parents : Seq(STRING), members : SUBSET AllMembers]

\* The frames, and what their loops have left.
Frames ==
  /\ calls \in Seq(FrameSet)
  /\ \A i \in DOMAIN calls : /\ Range(calls[i].parents) \subseteq Dependencies(calls[i].class)
                             /\ calls[i].members \subseteq ClassMembers(calls[i].class)

\* The frames are a path, and visited is its classes.
CallsArePath ==
  /\ \A i \in 1 .. Len(calls) - 1 : calls[i + 1].class \in Dependencies(calls[i].class)
  /\ \A i, j \in 1 .. Len(calls) : calls[i].class = calls[j].class => i = j
  /\ calls # <<>> => visited = {calls[i].class : i \in 1 .. Len(calls)}

Left(frame) ==
  Range(frame.parents) \cup {TypeOfMember(frame.class, x) : x \in frame.members}

\* A dependency that a frame is done with is finished, or is on the path above it.
DoneIsFinished ==
  \A i \in 1 .. Len(calls) : \A d \in Dependencies(calls[i].class) \cap Classes :
    \/ d \in Left(calls[i])
    \/ d \in finished
    \/ i < Len(calls) /\ d = calls[i + 1].class

Answers ==
  /\ \A c \in circular : LeadsToCycle(c)
  /\ \A c \in finished : ~ LeadsToCycle(c)
  /\ \A c \in Classes \cap Range(tables[<<>>].nested) :
       c \in unchecked \cup circular \cup finished \/ (calls # <<>> /\ c = calls[1].class)

\* Init gives it, every step keeps it, and it implies CyclesAreFound.
SearchInv == tables \in Tables /\ Frames /\ CallsArePath /\ DoneIsFinished /\ Answers

-----------------------------------------------------------------------------

\* The tables do not change, nor does what is read from them.
LEMMA SameTables ==
  ASSUME tables' = tables
  PROVE  /\ Classes' = Classes
         /\ FrameSet' = FrameSet
         /\ \A c : Dependencies(c)' = Dependencies(c)
         /\ \A c : ClassMembers(c)' = ClassMembers(c)
         /\ \A c : LeadsToCycle(c)' = LeadsToCycle(c)
         /\ \A frame : Left(frame)' = Left(frame)
  BY DEF Classes, FrameSet, AllMembers, Dependencies, ClassMembers, LeadsToCycle, Left, IsClass,
         Parents, TypeOfMember

\* The frame that a call begins with has all the dependencies of its class left.
LEMMA FreshFrame ==
  ASSUME tables \in Tables, NEW c \in Classes
  PROVE  /\ Frame(c) \in FrameSet
         /\ Frame(c).class = c
         /\ Range(Frame(c).parents) \subseteq Dependencies(c)
         /\ Frame(c).members = ClassMembers(c)
         /\ Left(Frame(c)) = Dependencies(c)
<1>1. Parents(c) \in Seq(STRING)
  BY TablesAssumption DEF Classes, Parents, IsClass
<1>2. ClassMembers(c) \in SUBSET AllMembers
  BY DEF AllMembers
<1> QED
  BY <1>1, <1>2 DEF Frame, FrameSet, Left, Dependencies

\* A class that one of its dependencies leads to is on a cycle.
LEMMA PathCloses ==
  ASSUME Frames, CallsArePath, calls # <<>>,
         NEW d \in visited, d \in Dependencies(calls[Len(calls)].class)
  PROVE  LeadsToCycle(calls[1].class)
<1>1. Len(calls) \in Nat \ {0}
  BY DEF Frames
<1>2. \A i \in 1 .. Len(calls) : calls[i].class \in Classes
  <2>1. \A i \in 1 .. Len(calls) : calls[i] \in FrameSet
    BY DEF Frames
  <2> QED
    BY <2>1 DEF FrameSet
<1>3. visited \in SUBSET Classes /\ calls[1].class \in visited
  BY <1>1, <1>2 DEF CallsArePath
<1>4. ASSUME NEW e \in visited
      PROVE  Dependencies(e) \cap visited # {}
  <2>1. PICK i \in 1 .. Len(calls) : e = calls[i].class
    BY DEF CallsArePath
  <2>2. CASE i = Len(calls)
    BY <2>1, <2>2
  <2>3. CASE i # Len(calls)
    <3>1. i \in 1 .. Len(calls) - 1 /\ i + 1 \in 1 .. Len(calls)
      BY <1>1, <2>3
    <3>2. calls[i + 1].class \in Dependencies(e) /\ calls[i + 1].class \in visited
      BY <2>1, <3>1 DEF CallsArePath
    <3> QED
      BY <3>2
  <2> QED
    BY <2>2, <2>3
<1> QED
  BY <1>3, <1>4 DEF LeadsToCycle

\* A class whose dependencies are all finished does not lead to a cycle.
LEMMA FinishedIsClosed ==
  ASSUME Answers, NEW c, Dependencies(c) \cap Classes \subseteq finished
  PROVE  ~ LeadsToCycle(c)
<1>1. SUFFICES ASSUME NEW S \in SUBSET Classes, c \in S,
                      \A d \in S : Dependencies(d) \cap S # {}
               PROVE  FALSE
  BY DEF LeadsToCycle
<1>2. PICK d \in S : d \in Dependencies(c)
  BY <1>1
<1>3. d \in finished
  BY <1>2
<1>4. LeadsToCycle(d)
  BY <1>1 DEF LeadsToCycle
<1> QED
  BY <1>3, <1>4 DEF Answers

\* The frames below the one on top.
LEMMA FrontOfCalls ==
  ASSUME calls \in Seq(FrameSet), Len(calls) \in Nat \ {0}
  PROVE  /\ Waiting \in Seq(FrameSet) /\ Len(Waiting) = Len(calls) - 1
         /\ \A i \in 1 .. Len(calls) - 1 : Waiting[i] = calls[i]
<1> DEFINE n == Len(calls)
<1>1. n \in Nat \ {0} /\ \A i \in 1 .. n : calls[i] \in FrameSet
  OBVIOUS
<1>2. Waiting = SubSeq(calls, 1, n - 1)
  BY DEF Waiting
<1> HIDE DEF n
<1>3. 1 \in Int /\ n - 1 \in Int /\ \A i \in 1 .. n - 1 : calls[i] \in FrameSet
  BY <1>1
<1>4. /\ Waiting \in Seq(FrameSet)
      /\ Len(Waiting) = IF 1 <= n - 1 THEN n - 1 - 1 + 1 ELSE 0
      /\ \A i \in 1 .. n - 1 - 1 + 1 : Waiting[i] = calls[1 + i - 1]
  BY <1>2, <1>3, SubSeqProperties
<1>5. n - 1 - 1 + 1 = n - 1 /\ \A i \in 1 .. n - 1 : 1 + i - 1 = i
  BY <1>1
<1>6. Len(Waiting) = n - 1
  BY <1>1, <1>4, <1>5
<1>7. \A i \in 1 .. n - 1 : Waiting[i] = calls[i]
  BY <1>4, <1>5
<1> QED
  BY <1>4, <1>6, <1>7 DEF n

\* A list is its head and its tail.
LEMMA TailRange ==
  ASSUME NEW s \in Seq(STRING), s # <<>>
  PROVE  /\ Tail(s) \in Seq(STRING)
         /\ Head(s) \in Range(s)
         /\ Range(Tail(s)) \subseteq Range(s)
         /\ Range(s) \subseteq Range(Tail(s)) \cup {Head(s)}
<1>1. /\ Tail(s) \in Seq(STRING) /\ Len(s) \in Nat \ {0} /\ Len(Tail(s)) = Len(s) - 1
      /\ Head(s) = s[1]
      /\ \A i \in 1 .. Len(s) - 1 : Tail(s)[i] = s[i + 1]
  OBVIOUS
<1>2. DOMAIN s = 1 .. Len(s) /\ DOMAIN Tail(s) = 1 .. Len(s) - 1
  BY <1>1
<1>3. \A i \in 1 .. Len(s) - 1 : i + 1 \in 1 .. Len(s)
  BY <1>1
<1>4. \A i \in 1 .. Len(s) : i = 1 \/ (i - 1 \in 1 .. Len(s) - 1 /\ (i - 1) + 1 = i)
  BY <1>1
<1>5. Range(Tail(s)) \subseteq Range(s)
  BY <1>1, <1>2, <1>3 DEF Range
<1>6. Range(s) \subseteq Range(Tail(s)) \cup {Head(s)}
  <2> SUFFICES ASSUME NEW i \in 1 .. Len(s), i # 1
               PROVE  s[i] \in Range(Tail(s))
    BY <1>1, <1>2 DEF Range
  <2>1. i - 1 \in DOMAIN Tail(s) /\ Tail(s)[i - 1] = s[i]
    BY <1>1, <1>2, <1>4
  <2> QED
    BY <2>1 DEF Range
<1> QED
  BY <1>1, <1>2, <1>5, <1>6 DEF Range

\* A call on a dependency of the class on top keeps the invariant, if the frame
\* drops no other dependency.
LEMMA MeetKeeps ==
  ASSUME SearchInv, calls # <<>>, UNCHANGED <<tables, unchecked, finished>>,
         NEW d \in Dependencies(Top.class), NEW frame \in FrameSet,
         frame.class = Top.class,
         Range(frame.parents) \subseteq Range(Top.parents),
         frame.members \subseteq Top.members,
         Left(Top) \subseteq Left(frame) \cup {d},
         Meet(d, frame)
  PROVE  SearchInv'
<1> USE DEF SearchInv
<1> DEFINE n == Len(calls)
<1>1. n \in Nat \ {0} /\ calls \in Seq(FrameSet) /\ Top = calls[n]
  BY DEF Frames, Top
<1>2. \A i \in 1 .. n : calls[i] \in FrameSet
  BY <1>1
<1>3. /\ Classes' = Classes
      /\ FrameSet' = FrameSet
      /\ \A c : Dependencies(c)' = Dependencies(c)
      /\ \A c : ClassMembers(c)' = ClassMembers(c)
      /\ \A c : LeadsToCycle(c)' = LeadsToCycle(c)
      /\ \A f : Left(f)' = Left(f)
  BY SameTables
<1>4. /\ Waiting \in Seq(FrameSet) /\ Len(Waiting) = n - 1
      /\ \A i \in 1 .. n - 1 : Waiting[i] = calls[i]
  BY <1>1, FrontOfCalls
<1>5. CASE d \in visited
  <2>1. calls' = <<>> /\ circular' = circular \cup {calls[1].class}
    BY <1>5 DEF Meet
  <2>2. LeadsToCycle(calls[1].class)
    BY <1>1, <1>5, PathCloses
  <2>3. Frames' /\ CallsArePath' /\ DoneIsFinished'
    BY <2>1, <1>3 DEF Frames, CallsArePath, DoneIsFinished
  <2>4. Answers'
    BY <2>1, <2>2, <1>3 DEF Answers
  <2> QED
    BY <2>3, <2>4
<1>6. CASE d \notin visited /\ d \notin Classes
  <2>1. /\ calls' = Append(Waiting, frame) /\ visited' = visited /\ circular' = circular
    BY <1>6 DEF Meet
  <2>2. /\ calls' \in Seq(FrameSet) /\ Len(calls') = n /\ calls' # <<>>
        /\ \A i \in 1 .. n - 1 : calls'[i] = calls[i]
        /\ calls'[n] = frame
    BY <2>1, <1>1, <1>4
  <2>3. \A i \in 1 .. n : calls'[i].class = calls[i].class
    BY <2>2, <1>1
  <2>4. Frames'
    <3> SUFFICES ASSUME NEW i \in 1 .. n
                 PROVE  /\ Range(calls'[i].parents) \subseteq Dependencies(calls'[i].class)
                        /\ calls'[i].members \subseteq ClassMembers(calls'[i].class)
      BY <2>2, <1>3 DEF Frames
    <3>1. /\ Range(calls[i].parents) \subseteq Dependencies(calls[i].class)
          /\ calls[i].members \subseteq ClassMembers(calls[i].class)
      BY DEF Frames
    <3>2. CASE i = n
      BY <3>1, <3>2, <2>2, <1>1
    <3>3. CASE i # n
      <4>1. i \in 1 .. n - 1
        BY <3>3, <1>1
      <4> QED
        BY <4>1, <3>1, <2>2
    <3> QED
      BY <3>2, <3>3
  <2>5. CallsArePath'
    <3>1. ASSUME NEW i \in 1 .. n - 1
          PROVE  calls'[i + 1].class \in Dependencies(calls'[i].class)
      <4>1. i \in 1 .. n /\ i + 1 \in 1 .. n
        BY <1>1
      <4> QED
        BY <4>1, <2>3 DEF CallsArePath
    <3>2. \A i, j \in 1 .. n : calls'[i].class = calls'[j].class => i = j
      BY <2>3 DEF CallsArePath
    <3>3. visited' = {calls'[i].class : i \in 1 .. n}
      <4>1. visited = {calls[i].class : i \in 1 .. n}
        BY DEF CallsArePath
      <4> QED
        BY <4>1, <2>1, <2>3
    <3> QED
      BY <3>1, <3>2, <3>3, <2>2, <1>3 DEF CallsArePath
  <2>6. DoneIsFinished'
    <3> SUFFICES ASSUME NEW i \in 1 .. n, NEW e \in Dependencies(calls'[i].class) \cap Classes
                 PROVE  \/ e \in Left(calls'[i])
                        \/ e \in finished
                        \/ i < n /\ e = calls'[i + 1].class
      BY <2>2, <1>3 DEF DoneIsFinished
    <3>1. e \in Dependencies(calls[i].class) \cap Classes
      BY <2>3
    <3>2. \/ e \in Left(calls[i])
          \/ e \in finished
          \/ i < n /\ e = calls[i + 1].class
      BY <3>1 DEF DoneIsFinished
    <3>3. CASE i = n
      BY <3>2, <3>3, <2>2, <1>1, <1>6
    <3>4. CASE i # n
      <4>1. i \in 1 .. n - 1 /\ i + 1 \in 1 .. n
        BY <3>4, <1>1
      <4> QED
        BY <4>1, <3>2, <2>2, <2>3
    <3> QED
      BY <3>3, <3>4
  <2>7. Answers'
    BY <2>1, <2>2, <2>3, <1>1, <1>3 DEF Answers
  <2> QED
    BY <2>4, <2>5, <2>6, <2>7
<1>7. CASE d \notin visited /\ d \in Classes
  <2>1. /\ calls' = Waiting \o <<frame, Frame(d)>>
        /\ visited' = visited \cup {d} /\ circular' = circular
    BY <1>7 DEF Meet
  <2>2. /\ Frame(d) \in FrameSet /\ Frame(d).class = d
        /\ Range(Frame(d).parents) \subseteq Dependencies(d)
        /\ Frame(d).members = ClassMembers(d)
        /\ Left(Frame(d)) = Dependencies(d)
    BY <1>7, FreshFrame
  <2> HIDE DEF n
  <2>3. /\ calls' \in Seq(FrameSet) /\ Len(calls') = n + 1 /\ calls' # <<>>
        /\ \A i \in 1 .. n - 1 : calls'[i] = calls[i]
        /\ calls'[n] = frame /\ calls'[n + 1] = Frame(d)
    <3>1. <<frame, Frame(d)>> \in Seq(FrameSet) /\ Len(<<frame, Frame(d)>>) = 2
      BY <2>2
    <3>2. /\ calls' \in Seq(FrameSet) /\ Len(calls') = (n - 1) + 2
          /\ \A i \in 1 .. (n - 1) + 2 :
               calls'[i] = IF i <= n - 1 THEN Waiting[i] ELSE <<frame, Frame(d)>>[i - (n - 1)]
      BY <3>1, <2>1, <1>4, ConcatProperties
    <3>3. n - (n - 1) = 1 /\ (n + 1) - (n - 1) = 2 /\ (n - 1) + 2 = n + 1
      BY <1>1
    <3>4. ASSUME NEW i \in 1 .. n - 1
          PROVE  calls'[i] = calls[i]
      <4>1. i \in 1 .. (n - 1) + 2 /\ i <= n - 1
        BY <1>1
      <4> QED
        BY <4>1, <3>2, <1>4
    <3>5. calls'[n] = frame
      BY <3>2, <3>3, <1>1
    <3>6. calls'[n + 1] = Frame(d)
      BY <3>2, <3>3, <1>1
    <3> QED
      BY <3>2, <3>3, <3>4, <3>5, <3>6, <1>1
  <2>4. \A i \in 1 .. n : calls'[i].class = calls[i].class
    BY <2>3, <1>1
  <2>5. visited = {calls[i].class : i \in 1 .. n}
    BY DEF CallsArePath, n
  <2>6. Frames'
    <3> SUFFICES ASSUME NEW i \in 1 .. n + 1
                 PROVE  /\ Range(calls'[i].parents) \subseteq Dependencies(calls'[i].class)
                        /\ calls'[i].members \subseteq ClassMembers(calls'[i].class)
      BY <2>3, <1>3 DEF Frames
    <3>1. CASE i = n + 1
      BY <3>1, <2>2, <2>3
    <3>2. CASE i = n
      <4>1. /\ Range(Top.parents) \subseteq Dependencies(Top.class)
            /\ Top.members \subseteq ClassMembers(Top.class)
        BY <1>1 DEF Frames, n
      <4> QED
        BY <3>2, <4>1, <2>3
    <3>3. CASE i \in 1 .. n - 1
      <4>1. i \in DOMAIN calls
        BY <3>3, <1>1 DEF n
      <4> QED
        BY <4>1, <3>3, <2>3 DEF Frames
    <3> QED
      BY <3>1, <3>2, <3>3, <1>1
  <2>7. CallsArePath'
    <3>1. ASSUME NEW i \in 1 .. n
          PROVE  calls'[i + 1].class \in Dependencies(calls'[i].class)
      <4>1. CASE i = n
        BY <4>1, <2>2, <2>3
      <4>2. CASE i # n
        <5>1. i \in 1 .. n - 1 /\ i + 1 \in 1 .. n
          BY <4>2, <1>1
        <5> QED
          BY <5>1, <2>4 DEF CallsArePath, n
      <4> QED
        BY <4>1, <4>2
    <3>2. \A i \in 1 .. n : calls'[i].class \in visited
      BY <2>4, <2>5
    <3>3. calls'[n + 1].class = d
      BY <2>2, <2>3
    <3>4. ASSUME NEW i \in 1 .. n + 1, NEW j \in 1 .. n + 1, calls'[i].class = calls'[j].class
          PROVE  i = j
      <4>1. CASE i = n + 1 \/ j = n + 1
        BY <4>1, <3>2, <3>3, <3>4, <1>1, <1>7
      <4>2. CASE i \in 1 .. n /\ j \in 1 .. n
        BY <4>2, <3>4, <2>4 DEF CallsArePath, n
      <4> QED
        BY <4>1, <4>2, <1>1
    <3>5. visited' = {calls'[i].class : i \in 1 .. n + 1}
      <4>1. {calls'[i].class : i \in 1 .. n + 1} = {calls'[i].class : i \in 1 .. n} \cup {d}
        BY <3>3, <1>1
      <4>2. {calls'[i].class : i \in 1 .. n} = visited
        BY <2>4, <2>5
      <4> QED
        BY <4>1, <4>2, <2>1
    <3> QED
      BY <3>1, <3>4, <3>5, <2>3, <1>1, <1>3 DEF CallsArePath
  <2>8. DoneIsFinished'
    <3> SUFFICES ASSUME NEW i \in 1 .. n + 1,
                        NEW e \in Dependencies(calls'[i].class) \cap Classes
                 PROVE  \/ e \in Left(calls'[i])
                        \/ e \in finished
                        \/ i < n + 1 /\ e = calls'[i + 1].class
      BY <2>3, <1>3 DEF DoneIsFinished
    <3>1. CASE i = n + 1
      BY <3>1, <2>2, <2>3
    <3>2. CASE i \in 1 .. n
      <4>1. \/ e \in Left(calls[i])
            \/ e \in finished
            \/ i < n /\ e = calls[i + 1].class
        BY <3>2, <2>4 DEF DoneIsFinished, n
      <4>2. CASE i = n
        BY <4>1, <4>2, <2>2, <2>3, <1>1
      <4>3. CASE i # n
        <5>1. i \in 1 .. n - 1 /\ i + 1 \in 1 .. n
          BY <3>2, <4>3, <1>1
        <5>2. i < n + 1 /\ calls'[i] = calls[i] /\ calls'[i + 1].class = calls[i + 1].class
          BY <5>1, <1>1, <2>3, <2>4
        <5> QED
          BY <5>2, <4>1
      <4> QED
        BY <4>2, <4>3
    <3> QED
      BY <3>1, <3>2, <1>1
  <2>9. Answers'
    BY <2>1, <2>3, <2>4, <1>1, <1>3 DEF Answers
  <2> QED
    BY <2>6, <2>7, <2>8, <2>9
<1> QED
  BY <1>5, <1>6, <1>7

\* The next parent is met.
LEMMA NextParentKeeps ==
  ASSUME SearchInv, NextParent, UNCHANGED tables
  PROVE  SearchInv'
<1> DEFINE frame == [Top EXCEPT !.parents = Tail(@)]
           d == Head(Top.parents)
<1>1. calls # <<>> /\ Top.parents # <<>> /\ Meet(d, frame) /\ UNCHANGED <<unchecked, finished>>
  BY DEF NextParent
<1>2. /\ Top \in FrameSet /\ Range(Top.parents) \subseteq Dependencies(Top.class)
  BY <1>1 DEF SearchInv, Frames, Top
<1>3. Top.parents \in Seq(STRING) /\ Top.class \in Classes /\ Top.members \in SUBSET AllMembers
  BY <1>2 DEF FrameSet
<1>4. /\ Tail(Top.parents) \in Seq(STRING)
      /\ d \in Range(Top.parents)
      /\ Range(Tail(Top.parents)) \subseteq Range(Top.parents)
      /\ Range(Top.parents) \subseteq Range(Tail(Top.parents)) \cup {d}
  BY <1>1, <1>3, TailRange
<1>5. /\ frame = [class |-> Top.class, parents |-> Tail(Top.parents), members |-> Top.members]
      /\ frame \in FrameSet
  <2> DEFINE rest == Tail(Top.parents)
  <2>1. rest \in Seq(STRING) /\ frame = [Top EXCEPT !.parents = rest]
    BY <1>4
  <2> HIDE DEF rest, frame
  <2>2. frame = [class |-> Top.class, parents |-> rest, members |-> Top.members]
    BY <2>1, <1>2 DEF FrameSet
  <2>3. frame \in FrameSet
    BY <2>1, <2>2, <1>3 DEF FrameSet
  <2> QED
    BY <2>2, <2>3 DEF rest
<1>6. Left(Top) \subseteq Left(frame) \cup {d}
  BY <1>4, <1>5 DEF Left
<1> HIDE DEF frame, d
<1> QED
  BY <1>1, <1>2, <1>4, <1>5, <1>6, MeetKeeps

\* The next member is met.
LEMMA NextMemberKeeps ==
  ASSUME SearchInv, NEW x, NextMember(x), UNCHANGED tables
  PROVE  SearchInv'
<1> DEFINE frame == [Top EXCEPT !.members = @ \ {x}]
           d == TypeOfMember(Top.class, x)
<1>1. /\ calls # <<>> /\ Top.parents = <<>> /\ x \in Top.members
      /\ Meet(d, frame) /\ UNCHANGED <<unchecked, finished>>
  BY DEF NextMember
<1>2. /\ Top \in FrameSet /\ Top.members \subseteq ClassMembers(Top.class)
  BY <1>1 DEF SearchInv, Frames, Top
<1>3. Top.parents \in Seq(STRING) /\ Top.class \in Classes /\ Top.members \in SUBSET AllMembers
  BY <1>2 DEF FrameSet
<1>4. d \in Dependencies(Top.class)
  BY <1>1, <1>2 DEF Dependencies
<1>5. /\ frame.class = Top.class /\ frame.parents = Top.parents
      /\ frame.members = Top.members \ {x}
      /\ frame \in FrameSet
  <2> DEFINE rest == Top.members \ {x}
  <2>1. rest \in SUBSET AllMembers
    BY <1>3
  <2>2. frame = [Top EXCEPT !.members = rest]
    OBVIOUS
  <2> HIDE DEF rest, frame
  <2>3. frame \in FrameSet
    BY <2>1, <2>2, <1>2 DEF FrameSet
  <2>4. frame.class = Top.class /\ frame.parents = Top.parents /\ frame.members = rest
    BY <2>1, <2>2, <1>2 DEF FrameSet
  <2> QED
    BY <2>3, <2>4 DEF rest
<1>6. Left(Top) \subseteq Left(frame) \cup {d}
  BY <1>5 DEF Left
<1> HIDE DEF frame, d
<1> QED
  BY <1>1, <1>4, <1>5, <1>6, MeetKeeps

\* A search begins, with one frame.
LEMMA CheckKeeps ==
  ASSUME SearchInv, NEW c, Check(c), UNCHANGED tables
  PROVE  SearchInv'
<1>1. /\ Classes' = Classes /\ FrameSet' = FrameSet
      /\ \A e : Dependencies(e)' = Dependencies(e)
      /\ \A e : ClassMembers(e)' = ClassMembers(e)
      /\ \A e : LeadsToCycle(e)' = LeadsToCycle(e)
      /\ \A f : Left(f)' = Left(f)
  BY SameTables
<1>2. /\ calls = <<>> /\ unchecked' = unchecked \ {c} /\ UNCHANGED <<circular, finished>>
  BY DEF Check
<1>3. CASE c \in Classes
  <2>1. calls' = <<Frame(c)>> /\ visited' = {c}
    BY <1>3 DEF Check
  <2>2. /\ Frame(c) \in FrameSet /\ Frame(c).class = c
        /\ Range(Frame(c).parents) \subseteq Dependencies(c)
        /\ Frame(c).members = ClassMembers(c)
        /\ Left(Frame(c)) = Dependencies(c)
    BY <1>3, FreshFrame DEF SearchInv
  <2> HIDE DEF Frame
  <2>3. /\ calls' \in Seq(FrameSet) /\ Len(calls') = 1 /\ calls'[1] = Frame(c)
        /\ DOMAIN calls' = {1} /\ 1 .. 1 = {1} /\ 1 .. 0 = {}
    BY <2>1, <2>2
  <2>4. Frames'
    BY <2>2, <2>3, <1>1 DEF Frames
  <2>5. CallsArePath'
    BY <2>1, <2>2, <2>3, <1>1 DEF CallsArePath
  <2>6. DoneIsFinished'
    BY <2>2, <2>3, <1>1 DEF DoneIsFinished
  <2>7. Answers'
    BY <2>1, <2>2, <2>3, <1>1, <1>2 DEF SearchInv, Answers
  <2> QED
    BY <2>4, <2>5, <2>6, <2>7 DEF SearchInv
<1>4. CASE c \notin Classes
  <2>1. calls' = calls /\ visited' = visited
    BY <1>4 DEF Check
  <2>2. Frames' /\ CallsArePath' /\ DoneIsFinished'
    BY <2>1, <1>1, <1>2 DEF SearchInv, Frames, CallsArePath, DoneIsFinished
  <2>3. Answers'
    BY <2>1, <1>1, <1>2, <1>4 DEF SearchInv, Answers
  <2> QED
    BY <2>2, <2>3 DEF SearchInv
<1> QED
  BY <1>3, <1>4

\* The class on top is finished: what it depends on is.
LEMMA NoCycleKeeps ==
  ASSUME SearchInv, NoCycle, UNCHANGED tables
  PROVE  SearchInv'
<1> DEFINE n == Len(calls)
<1>1. /\ Classes' = Classes /\ FrameSet' = FrameSet
      /\ \A e : Dependencies(e)' = Dependencies(e)
      /\ \A e : ClassMembers(e)' = ClassMembers(e)
      /\ \A e : LeadsToCycle(e)' = LeadsToCycle(e)
      /\ \A f : Left(f)' = Left(f)
  BY SameTables DEF NoCycle
<1>2. /\ calls # <<>> /\ Top.parents = <<>> /\ Top.members = {}
      /\ visited' = visited \ {Top.class} /\ finished' = finished \cup {Top.class}
      /\ calls' = Waiting /\ UNCHANGED <<unchecked, circular>>
  BY DEF NoCycle
<1>3. n \in Nat \ {0} /\ calls \in Seq(FrameSet) /\ Top = calls[n]
  BY <1>2 DEF SearchInv, Frames, Top
<1>4. /\ Waiting \in Seq(FrameSet) /\ Len(Waiting) = n - 1
      /\ \A i \in 1 .. n - 1 : Waiting[i] = calls[i]
  BY <1>3, FrontOfCalls
<1>5. ~ LeadsToCycle(Top.class)
  <2>1. Left(Top) = {}
    BY <1>2 DEF Left, Range
  <2>2. Dependencies(Top.class) \cap Classes \subseteq finished
    <3>1. n \in 1 .. Len(calls) /\ ~ (n < Len(calls))
      BY <1>3
    <3> QED
      BY <2>1, <3>1, <1>3 DEF SearchInv, DoneIsFinished
  <2> QED
    BY <2>2, FinishedIsClosed DEF SearchInv
<1> HIDE DEF n
<1>6. Len(calls') = n - 1 /\ \A i \in 1 .. n - 1 : calls'[i] = calls[i] /\ i \in 1 .. n
  BY <1>2, <1>3, <1>4
<1>7. Frames'
  <2>1. \A i \in 1 .. n : /\ Range(calls[i].parents) \subseteq Dependencies(calls[i].class)
                          /\ calls[i].members \subseteq ClassMembers(calls[i].class)
    BY <1>3 DEF SearchInv, Frames, n
  <2>2. calls' \in Seq(FrameSet) /\ DOMAIN calls' = 1 .. n - 1
    BY <1>2, <1>4, <1>6
  <2> QED
    BY <2>1, <2>2, <1>1, <1>6 DEF Frames
<1>8. CallsArePath'
  <2>1. ASSUME NEW i \in 1 .. n - 1 - 1
        PROVE  calls'[i + 1].class \in Dependencies(calls'[i].class)
    <3>1. i \in 1 .. n - 1 /\ i + 1 \in 1 .. n - 1
      BY <1>3
    <3> QED
      BY <3>1, <1>6 DEF SearchInv, CallsArePath, n
  <2>2. \A i, j \in 1 .. n - 1 : calls'[i].class = calls'[j].class => i = j
    BY <1>6 DEF SearchInv, CallsArePath, n
  <2>3. visited = {calls[i].class : i \in 1 .. n}
    BY <1>2 DEF SearchInv, CallsArePath, n
  <2>4. \A i \in 1 .. n - 1 : calls[i].class # Top.class
    <3>1. \A i \in 1 .. n - 1 : i \in 1 .. n /\ n \in 1 .. n /\ i # n
      BY <1>3
    <3> QED
      BY <3>1, <1>3 DEF SearchInv, CallsArePath, n
  <2>5. 1 .. n = (1 .. n - 1) \cup {n}
    BY <1>3
  <2>6. visited = {calls[i].class : i \in 1 .. n - 1} \cup {Top.class}
    BY <2>3, <2>5, <1>3
  <2>7. visited' = {calls[i].class : i \in 1 .. n - 1}
    BY <2>4, <2>6, <1>2
  <2>8. visited' = {calls'[i].class : i \in 1 .. n - 1}
    BY <2>7, <1>6
  <2> QED
    BY <2>1, <2>2, <2>8, <1>1, <1>6 DEF CallsArePath
<1>9. DoneIsFinished'
  <2> SUFFICES ASSUME NEW i \in 1 .. n - 1, NEW e \in Dependencies(calls'[i].class) \cap Classes
               PROVE  \/ e \in Left(calls'[i])
                      \/ e \in finished'
                      \/ i < n - 1 /\ e = calls'[i + 1].class
    BY <1>1, <1>6 DEF DoneIsFinished
  <2>1. \/ e \in Left(calls[i])
        \/ e \in finished
        \/ i < n /\ e = calls[i + 1].class
    BY <1>6 DEF SearchInv, DoneIsFinished, n
  <2>2. CASE i = n - 1
    BY <2>1, <2>2, <1>2, <1>3, <1>6
  <2>3. CASE i # n - 1
    <3>1. i < n - 1 /\ i + 1 \in 1 .. n - 1
      BY <2>3, <1>3
    <3> QED
      BY <3>1, <2>1, <1>2, <1>6
  <2> QED
    BY <2>2, <2>3
<1>10. Answers'
  <2>1. \A e \in Classes \cap Range(tables[<<>>].nested) :
          e \in unchecked \cup circular \cup finished \/ e = calls[1].class
    BY <1>2 DEF SearchInv, Answers
  <2>2. CASE n = 1
    BY <2>1, <2>2, <1>1, <1>2, <1>3, <1>5 DEF SearchInv, Answers
  <2>3. CASE n # 1
    <3>1. calls' # <<>> /\ calls'[1] = calls[1]
      <4>1. 1 \in 1 .. n - 1
        BY <2>3, <1>3
      <4> QED
        BY <4>1, <1>2, <1>4, <1>6
    <3> QED
      BY <2>1, <3>1, <1>1, <1>2, <1>5 DEF SearchInv, Answers
  <2> QED
    BY <2>2, <2>3
<1> QED
  BY <1>7, <1>8, <1>9, <1>10 DEF SearchInv

\* The invariant holds of every behaviour.
LEMMA SearchIsInvariant == SearchSpec => []SearchInv
<1>1. tables \in Tables /\ SearchInit => SearchInv
  BY DEF SearchInit, SearchInv, Frames, CallsArePath, DoneIsFinished, Answers, Classes
<1>2. SearchInv /\ [SearchStep /\ UNCHANGED tables]_<<tables, searchVars>> => SearchInv'
  <2> SUFFICES ASSUME SearchInv, [SearchStep /\ UNCHANGED tables]_<<tables, searchVars>>
               PROVE  SearchInv'
    OBVIOUS
  <2>1. CASE UNCHANGED <<tables, searchVars>>
    <3>1. /\ UNCHANGED <<tables, unchecked, calls, visited, circular, finished>>
          /\ Classes' = Classes /\ FrameSet' = FrameSet
          /\ \A e : Dependencies(e)' = Dependencies(e)
          /\ \A e : ClassMembers(e)' = ClassMembers(e)
          /\ \A e : LeadsToCycle(e)' = LeadsToCycle(e)
          /\ \A f : Left(f)' = Left(f)
      BY <2>1, SameTables DEF searchVars
    <3>2. Frames' /\ CallsArePath'
      BY <3>1 DEF SearchInv, Frames, CallsArePath
    <3>3. DoneIsFinished' /\ Answers'
      BY <3>1 DEF SearchInv, DoneIsFinished, Answers
    <3> QED
      BY <3>1, <3>2, <3>3 DEF SearchInv
  <2>2. CASE SearchStep /\ UNCHANGED tables
    BY <2>2, CheckKeeps, NextParentKeeps, NextMemberKeeps, NoCycleKeeps DEF SearchStep
  <2> QED
    BY <2>1, <2>2
<1> QED
  BY <1>1, <1>2, PTL DEF SearchSpec

\* Whatever the classes of a program, and whatever the order in which the search takes
\* them and their members, it reports the classes that lead to a circular dependency,
\* and no others.
THEOREM SearchFindsCycles == SearchSpec => []CyclesAreFound
<1>1. SearchInv => CyclesAreFound
  BY DEF SearchInv, Answers, CyclesAreFound, Searched
<1> QED
  BY <1>1, SearchIsInvariant, PTL

-----------------------------------------------------------------------------

\* The order of what is left to visit: statements, the end of their function, member
\* functions, the end of their class, and what stands outside.
Rank(n) ==
  CASE n.kind = "LEAVE_FUNCTION"                          -> 1
    [] n.kind = "FUNCTION" /\ n.kids[1].class # ""        -> 2
    [] n.kind = "LEAVE"                                   -> 3
    [] n.kind \in {"CLASS_LIST", "CLASS"}                 -> 4
    [] n.kind = "IMPLEMENTATION"                          -> 5
    [] n.kind \in {"IMPLEMENTATION_LIST", "NO_CLASS"}     -> 6
    [] n.kind = "FUNCTION_LIST"                           -> 7
    [] n.kind = "FUNCTION" /\ n.kids[1].class = ""        -> 7
    [] OTHER                                              -> 0

\* There is one of an end.
Earlier(a, b) == Rank(a) < Rank(b) \/ (Rank(a) = Rank(b) /\ Rank(a) \notin {1, 3, 6})

Ordered(s) == IsList(s) /\ \A i, j \in DOMAIN s : i < j => Earlier(s[i], s[j])

\* What may be left to visit is what its kind says.
Item(n) ==
  /\ n.kind \notin DeclarationKinds => n \in Nodes
  /\ n.kind = "CLASS_LIST" => n.kids = program.classes
  /\ n.kind = "IMPLEMENTATION_LIST" => n.kids = program.implementations
  /\ n.kind = "FUNCTION_LIST" => n.kids = program.functions
  /\ n.kind = "IMPLEMENTATION" => n.kids[1] \in Range(program.implementations)
  /\ n.kind = "FUNCTION" =>
       \/ n.kids[1] \in Range(program.functions)
       \/ \E i \in Range(program.implementations) : n.kids[1] \in Range(i.functions)
  /\ n.kind = "LEAVE" => n.kids[1].path = <<>>

Items(s) == \A n \in Range(s) : Item(n)

Some(s, rank) == \E n \in Range(s) : Rank(n) = rank

\* Outside of the functions, the visitor is in the class whose end is to come.
Around(s, path, c) ==
  IF Some(s, 3)
  THEN /\ c # "" /\ IsClass(c) /\ path = <<c>>
       /\ \A n \in Range(s) : Rank(n) = 2 => n.kids[1].class = c
  ELSE path = <<>> /\ ~ Some(s, 2)

\* The end of a function is to come.
Inside(s, path, f) ==
  /\ Around(s, path, class)
  /\ f.class = class
  /\ expected = <<f.type>>
  /\ Checked(f) => scope = Append(path, KeyOf(f))

Context ==
  /\ \A n \in Range(todo) : Rank(n) = 1 => Inside(todo, n.kids[1].path, n.kids[1].fun)
  /\ ~ Some(todo, 1) => expected = <<>> /\ Around(todo, scope, class)

\* Init gives it, every step keeps it, and it implies OwnContext.
VisitInv ==
  /\ program \in Programs /\ tables = TablesOf(program)
  /\ Ordered(todo) /\ Items(todo)
  /\ Context

-----------------------------------------------------------------------------

\* A list and its elements.
LEMMA ListElements ==
  ASSUME NEW s, IsList(s)
  PROVE  /\ Len(s) \in Nat /\ DOMAIN s = 1 .. Len(s)
         /\ Range(s) = {s[i] : i \in 1 .. Len(s)}
  BY DEF IsList, Range

\* A sequence of elements of any set is a list.
LEMMA SequenceIsList ==
  ASSUME NEW A, NEW s \in Seq(A)
  PROVE  IsList(s)
<1>1. \A i \in 1 .. Len(s) : s[i] \in Range(s)
  BY DEF Range
<1>2. Len(s) \in Nat /\ s = [i \in 1 .. Len(s) |-> s[i]]
  OBVIOUS
<1> QED
  BY <1>1, <1>2 DEF IsList

\* What is left of a list without its first element.
LEMMA Shortened ==
  ASSUME NEW s, IsList(s), s # <<>>
  PROVE  /\ IsList(Tail(s)) /\ Len(s) \in Nat \ {0} /\ Len(Tail(s)) = Len(s) - 1
         /\ \A i \in 1 .. Len(s) - 1 : Tail(s)[i] = s[i + 1]
         /\ Head(s) = s[1]
         /\ Range(s) = {Head(s)} \cup Range(Tail(s))
<1> DEFINE A == Range(s)
<1>1. s \in Seq(A)
  BY DEF IsList
<1> HIDE DEF A
<1>2. /\ Tail(s) \in Seq(A) /\ Len(s) \in Nat \ {0} /\ Len(Tail(s)) = Len(s) - 1
      /\ \A i \in 1 .. Len(s) - 1 : Tail(s)[i] = s[i + 1]
      /\ Head(s) = s[1]
  BY <1>1
<1>3. IsList(Tail(s))
  BY <1>2, SequenceIsList
<1>4. Range(s) = {s[i] : i \in 1 .. Len(s)} /\ Range(Tail(s)) = {Tail(s)[i] : i \in 1 .. Len(s) - 1}
  BY <1>2, <1>3, ListElements
<1>5. \A i \in 1 .. Len(s) : i = 1 \/ (i - 1 \in 1 .. Len(s) - 1 /\ (i - 1) + 1 = i)
  BY <1>2
<1>6. 1 \in 1 .. Len(s) /\ \A i \in 1 .. Len(s) - 1 : i + 1 \in 1 .. Len(s)
  BY <1>2
<1>7. Range(s) \subseteq {Head(s)} \cup Range(Tail(s))
  <2> SUFFICES ASSUME NEW i \in 1 .. Len(s), i # 1
               PROVE  s[i] \in Range(Tail(s))
    BY <1>2, <1>4
  <2>1. i - 1 \in 1 .. Len(s) - 1 /\ Tail(s)[i - 1] = s[i]
    BY <1>2, <1>5
  <2> QED
    BY <2>1, <1>4
<1>8. {Head(s)} \cup Range(Tail(s)) \subseteq Range(s)
  BY <1>2, <1>4, <1>6
<1> QED
  BY <1>2, <1>3, <1>7, <1>8

\* One list after another.
LEMMA Joined ==
  ASSUME NEW s, NEW t, IsList(s), IsList(t)
  PROVE  /\ IsList(s \o t) /\ Len(s) \in Nat /\ Len(t) \in Nat /\ Len(s \o t) = Len(s) + Len(t)
         /\ \A i \in 1 .. Len(s) : (s \o t)[i] = s[i]
         /\ \A i \in 1 .. Len(t) : (s \o t)[Len(s) + i] = t[i]
         /\ Range(s \o t) = Range(s) \cup Range(t)
<1> DEFINE A == Range(s) \cup Range(t)
           u == s \o t
<1>1. s \in Seq(A) /\ t \in Seq(A)
  BY SeqMonotonic, Zenon DEF IsList
<1> HIDE DEF A
<1>2. Len(s) \in Nat /\ Len(t) \in Nat
  BY <1>1
<1>3. /\ u \in Seq(A) /\ Len(u) = Len(s) + Len(t)
      /\ \A i \in 1 .. Len(s) + Len(t) : u[i] = IF i <= Len(s) THEN s[i] ELSE t[i - Len(s)]
  BY <1>1, ConcatProperties, Zenon
<1> HIDE DEF u
<1>4. \A i \in 1 .. Len(s) : i \in 1 .. Len(u) /\ u[i] = s[i]
  BY <1>2, <1>3
<1>5. \A i \in 1 .. Len(t) : Len(s) + i \in 1 .. Len(u) /\ u[Len(s) + i] = t[i]
  <2> TAKE i \in 1 .. Len(t)
  <2>1. /\ Len(s) + i \in 1 .. Len(s) + Len(t) /\ ~ (Len(s) + i <= Len(s))
        /\ (Len(s) + i) - Len(s) = i
    BY <1>2
  <2> QED
    BY <2>1, <1>3
<1>6. IsList(u)
  BY <1>3, SequenceIsList
<1>7. /\ Range(u) = {u[i] : i \in 1 .. Len(u)}
      /\ Range(s) = {s[i] : i \in 1 .. Len(s)}
      /\ Range(t) = {t[i] : i \in 1 .. Len(t)}
  BY <1>6, ListElements
<1>8. Range(s) \cup Range(t) \subseteq Range(u)
  BY <1>4, <1>5, <1>7
<1>9. Range(u) \subseteq Range(s) \cup Range(t)
  <2> SUFFICES ASSUME NEW i \in 1 .. Len(s) + Len(t)
               PROVE  u[i] \in Range(s) \cup Range(t)
    BY <1>3, <1>7
  <2>1. CASE i <= Len(s)
    <3>1. i \in 1 .. Len(s)
      BY <2>1, <1>2
    <3> QED
      BY <3>1, <1>4, <1>7
  <2>2. CASE ~ (i <= Len(s))
    <3>1. i - Len(s) \in 1 .. Len(t)
      BY <2>2, <1>2
    <3> QED
      BY <2>2, <3>1, <1>3, <1>7
  <2> QED
    BY <2>1, <2>2
<1>10. Range(u) = Range(s) \cup Range(t)
  BY <1>8, <1>9
<1> QED
  BY <1>2, <1>3, <1>4, <1>5, <1>6, <1>10 DEF u

\* A rank is a number.
LEMMA RankType == ASSUME NEW n PROVE Rank(n) \in 0 .. 7
  BY DEF Rank

\* Ordered lists may be joined, if all of the first is earlier than all of the second.
LEMMA OrderJoins ==
  ASSUME NEW s, NEW t, Ordered(s), Ordered(t), \A a \in Range(s), b \in Range(t) : Earlier(a, b)
  PROVE  Ordered(s \o t)
<1> DEFINE u == s \o t
<1>1. /\ IsList(u) /\ Len(s) \in Nat /\ Len(t) \in Nat /\ Len(u) = Len(s) + Len(t)
      /\ \A i \in 1 .. Len(s) : u[i] = s[i]
      /\ \A i \in 1 .. Len(t) : u[Len(s) + i] = t[i]
  BY Joined DEF Ordered
<1> HIDE DEF u
<1>2. /\ DOMAIN u = 1 .. Len(u) /\ DOMAIN s = 1 .. Len(s) /\ DOMAIN t = 1 .. Len(t)
      /\ \A i \in 1 .. Len(s) : s[i] \in Range(s)
      /\ \A i \in 1 .. Len(t) : t[i] \in Range(t)
  BY <1>1, ListElements DEF Ordered
<1> SUFFICES ASSUME NEW i \in 1 .. Len(u), NEW j \in 1 .. Len(u), i < j
             PROVE  Earlier(u[i], u[j])
  BY <1>1, <1>2 DEF Ordered, u
<1>3. CASE j <= Len(s)
  <2>1. i \in 1 .. Len(s) /\ j \in 1 .. Len(s)
    BY <1>1, <1>3
  <2> QED
    BY <2>1, <1>1, <1>2 DEF Ordered
<1>4. CASE ~ (j <= Len(s)) /\ i <= Len(s)
  <2>1. i \in 1 .. Len(s) /\ j - Len(s) \in 1 .. Len(t) /\ Len(s) + (j - Len(s)) = j
    BY <1>1, <1>4
  <2>2. u[i] = s[i] /\ u[j] = t[j - Len(s)]
    BY <2>1, <1>1
  <2> QED
    BY <2>1, <2>2, <1>2
<1>5. CASE ~ (i <= Len(s))
  <2>1. /\ i - Len(s) \in 1 .. Len(t) /\ Len(s) + (i - Len(s)) = i
        /\ j - Len(s) \in 1 .. Len(t) /\ Len(s) + (j - Len(s)) = j
        /\ i - Len(s) < j - Len(s)
    BY <1>1, <1>5
  <2>2. u[i] = t[i - Len(s)] /\ u[j] = t[j - Len(s)]
    BY <2>1, <1>1
  <2> QED
    BY <2>1, <2>2, <1>2 DEF Ordered
<1> QED
  BY <1>3, <1>4, <1>5

\* A step puts something in the place of the first of what is left.
LEMMA Replaced ==
  ASSUME NEW s, Ordered(s), s # <<>>, NEW xs, Ordered(xs),
         \A a \in Range(xs) : Rank(a) <= Rank(Head(s))
  PROVE  /\ Ordered(xs \o Tail(s))
         /\ Range(xs \o Tail(s)) = Range(xs) \cup Range(Tail(s))
         /\ Range(s) = {Head(s)} \cup Range(Tail(s))
         /\ \A b \in Range(Tail(s)) : Earlier(Head(s), b)
<1> DEFINE t == Tail(s)
           n == Len(s)
<1>1. /\ IsList(t) /\ n \in Nat \ {0} /\ Len(t) = n - 1
      /\ \A i \in 1 .. n - 1 : t[i] = s[i + 1]
      /\ Head(s) = s[1]
      /\ Range(s) = {Head(s)} \cup Range(t)
  BY Shortened DEF Ordered
<1> HIDE DEF t, n
<1>2. /\ DOMAIN s = 1 .. n /\ DOMAIN t = 1 .. n - 1
      /\ Range(t) = {t[i] : i \in 1 .. n - 1}
  BY <1>1, ListElements DEF Ordered, n
<1>3. \A i \in 1 .. n - 1 : i + 1 \in 1 .. n /\ 1 \in 1 .. n /\ 1 < i + 1
  BY <1>1
<1>4. \A b \in Range(t) : Earlier(Head(s), b)
  BY <1>1, <1>2, <1>3 DEF Ordered
<1>5. Ordered(t)
  <2> SUFFICES ASSUME NEW i \in 1 .. n - 1, NEW j \in 1 .. n - 1, i < j
               PROVE  Earlier(t[i], t[j])
    BY <1>1, <1>2 DEF Ordered
  <2>1. i + 1 \in DOMAIN s /\ j + 1 \in DOMAIN s /\ i + 1 < j + 1
    BY <1>1, <1>2
  <2> QED
    BY <2>1, <1>1 DEF Ordered
<1>6. ASSUME NEW a \in Range(xs), NEW b \in Range(t)
      PROVE  Earlier(a, b)
  <2>1. Earlier(Head(s), b)
    BY <1>4
  <2>2. Rank(a) \in 0 .. 7 /\ Rank(b) \in 0 .. 7 /\ Rank(Head(s)) \in 0 .. 7
    BY RankType
  <2> QED
    BY <2>1, <2>2 DEF Earlier
<1>7. Ordered(xs \o t)
  BY <1>5, <1>6, OrderJoins
<1>8. Range(xs \o t) = Range(xs) \cup Range(t)
  BY <1>1, Joined DEF Ordered
<1> QED
  BY <1>1, <1>4, <1>7, <1>8 DEF t

-----------------------------------------------------------------------------

\* A block or a statement has rank 0.
LEMMA NodeRank ==
  ASSUME NEW n \in Nodes
  PROVE  n.kind \notin DeclarationKinds /\ Rank(n) = 0
<1>1. n.kind \notin DeclarationKinds
  BY NodesAssumption DEF AreStatements
<1> QED
  BY <1>1 DEF Rank, DeclarationKinds

\* Nothing that stays the same changes what the items and their places are.
LEMMA SameProgram ==
  ASSUME UNCHANGED <<program, tables>>
  PROVE  /\ \A n : Item(n)' = Item(n)
         /\ \A s, path, c : Around(s, path, c)' = Around(s, path, c)
<1>1. \A n : Item(n)' = Item(n)
  BY DEF Item
<1>2. \A s, path, c : Around(s, path, c)' = Around(s, path, c)
  BY DEF Around, IsClass, Some
<1> QED
  BY <1>1, <1>2

\* The first item and the others, in terms of the ranks.
LEMMA FirstItem ==
  ASSUME VisitInv, todo # <<>>
  PROVE  /\ Node \in Range(todo) /\ Item(Node) /\ Ordered(todo)
         /\ Range(todo) = {Node} \cup Range(Tail(todo))
         /\ \A b \in Range(Tail(todo)) : Earlier(Node, b)
         /\ \A b \in Range(todo) : Rank(Node) <= Rank(b)
<1>1. Ordered(todo) /\ Items(todo)
  BY DEF VisitInv
<1>2. Ordered(<<>>) /\ Range(<<>>) = {}
  <2>1. <<>> \in Seq({}) /\ DOMAIN <<>> = {}
    OBVIOUS
  <2> QED
    BY <2>1, SequenceIsList DEF Ordered, Range
<1>3. /\ Range(todo) = {Node} \cup Range(Tail(todo))
      /\ \A b \in Range(Tail(todo)) : Earlier(Node, b)
  BY <1>1, <1>2, Replaced DEF Node
<1>4. ASSUME NEW b \in Range(todo)
      PROVE  Rank(Node) <= Rank(b)
  <2>1. Rank(b) \in 0 .. 7 /\ Rank(Node) \in 0 .. 7
    BY RankType
  <2> QED
    BY <2>1, <1>3 DEF Earlier
<1> QED
  BY <1>1, <1>3, <1>4 DEF Items

\* The first item goes: the others stay in order.
LEMMA FirstGone ==
  ASSUME VisitInv, todo # <<>>, todo' = Tail(todo), UNCHANGED <<program, tables>>
  PROVE  Ordered(todo') /\ Items(todo)'
<1>1. Ordered(todo) /\ Items(todo) /\ IsList(todo)
  BY DEF VisitInv, Ordered
<1>2. /\ IsList(todo') /\ Len(todo) \in Nat \ {0} /\ Len(todo') = Len(todo) - 1
      /\ \A i \in 1 .. Len(todo) - 1 : todo'[i] = todo[i + 1]
      /\ Range(todo) = {Head(todo)} \cup Range(todo')
  BY <1>1, Shortened
<1>3. DOMAIN todo = 1 .. Len(todo) /\ DOMAIN todo' = 1 .. Len(todo) - 1
  BY <1>1, <1>2, ListElements
<1>4. ASSUME NEW i \in DOMAIN todo', NEW j \in DOMAIN todo', i < j
      PROVE  Earlier(todo'[i], todo'[j])
  <2>1. i + 1 \in DOMAIN todo /\ j + 1 \in DOMAIN todo /\ i + 1 < j + 1
    BY <1>2, <1>3, <1>4
  <2>2. todo'[i] = todo[i + 1] /\ todo'[j] = todo[j + 1]
    BY <1>2, <1>3
  <2> QED
    BY <1>1, <2>1, <2>2 DEF Ordered
<1>5. Ordered(todo')
  BY <1>2, <1>4 DEF Ordered
<1>6. \A n : Item(n)' = Item(n)
  BY SameProgram
<1> QED
  BY <1>1, <1>2, <1>5, <1>6 DEF Items

\* The place around the functions is the same, as long as the end of the class is to
\* come and no member function is new.
LEMMA SamePlace ==
  ASSUME NEW s, NEW t, Some(t, 3) <=> Some(s, 3),
         \A n \in Range(t) : Rank(n) = 2 => n \in Range(s),
         NEW path, NEW c, Around(s, path, c)
  PROVE  Around(t, path, c)
<1>1. CASE Some(s, 3)
  BY <1>1 DEF Around
<1>2. CASE ~ Some(s, 3)
  <2>1. ~ Some(t, 2)
    BY <1>2 DEF Around, Some
  <2> QED
    BY <1>2, <2>1 DEF Around
<1> QED
  BY <1>1, <1>2

\* A step that begins and ends neither a function nor a class: what is put in the place
\* of the first item comes at its rank or earlier, and the context stays.  The class
\* matters only around functions.
LEMMA QuietStep ==
  ASSUME VisitInv, todo # <<>>, NEW xs, Ordered(xs), Items(xs),
         \A a \in Range(xs) : Rank(a) <= Rank(Node) /\ Rank(a) \notin {1, 2, 3},
         Rank(Node) \notin {1, 3},
         todo' = xs \o Tail(todo),
         UNCHANGED <<program, tables, scope, expected>>,
         class' = class \/ Rank(Node) >= 4
  PROVE  VisitInv'
<1>1. /\ Range(todo) = {Node} \cup Range(Tail(todo)) /\ Ordered(todo)
      /\ \A b \in Range(todo) : Rank(Node) <= Rank(b)
  BY FirstItem
<1>2. Ordered(todo') /\ Range(todo') = Range(xs) \cup Range(Tail(todo))
  BY <1>1, Replaced DEF Node
<1>3. \A n : Item(n)' = Item(n)
  BY SameProgram
<1>4. \A s, path, c : Around(s, path, c)' = Around(s, path, c)
  BY SameProgram
<1>5. Items(todo)'
  BY <1>1, <1>2, <1>3 DEF VisitInv, Items
<1>6. \A n : Rank(n) \in {1, 3} => (n \in Range(todo') <=> n \in Range(todo))
  BY <1>1, <1>2
<1>7. \A n : Rank(n) = 2 /\ n \in Range(todo') => n \in Range(todo)
  BY <1>1, <1>2
<1>8. ASSUME NEW path, NEW c, Around(todo, path, c)
      PROVE  Around(todo', path, c)
  <2>1. Some(todo', 3) <=> Some(todo, 3)
    BY <1>6 DEF Some
  <2> QED
    BY <2>1, <1>7, <1>8, SamePlace
<1>9. Context'
  <2>1. CASE class' = class
    <3>1. \A n \in Range(todo') : Rank(n) = 1 => Inside(todo, n.kids[1].path, n.kids[1].fun)
      BY <1>6 DEF VisitInv, Context
    <3>2. \A path, f : Inside(todo, path, f) => Inside(todo, path, f)'
      BY <1>4, <1>8, <2>1 DEF Inside
    <3>3. ~ Some(todo', 1) => expected = <<>> /\ Around(todo, scope, class)
      BY <1>6 DEF VisitInv, Context, Some
    <3>4. ~ Some(todo', 1) => expected' = <<>> /\ Around(todo, scope, class)'
      BY <3>3, <1>4, <1>8, <2>1
    <3> QED
      BY <3>1, <3>2, <3>4 DEF Context, Some
  <2>2. CASE Rank(Node) >= 4
    <3>1. \A n \in Range(todo) : Rank(n) \notin {1, 2, 3}
      <4> TAKE n \in Range(todo)
      <4>1. Rank(n) \in 0 .. 7 /\ Rank(Node) \in 0 .. 7 /\ Rank(Node) <= Rank(n)
        BY <1>1, RankType
      <4> QED
        BY <4>1, <2>2
    <3>2. ~ Some(todo, 1) /\ ~ Some(todo, 2) /\ ~ Some(todo, 3)
      BY <3>1 DEF Some
    <3>3. ~ Some(todo', 1) /\ ~ Some(todo', 2) /\ ~ Some(todo', 3)
      BY <3>2, <1>6, <1>7 DEF Some
    <3>4. expected = <<>> /\ scope = <<>>
      BY <3>2 DEF VisitInv, Context, Around
    <3> QED
      BY <3>3, <3>4 DEF Context, Around, Some
  <2> QED
    BY <2>1, <2>2
<1> QED
  BY <1>2, <1>5, <1>9 DEF VisitInv, Ordered, Items

-----------------------------------------------------------------------------

\* Nodes that are made.
LEMMA MadeNodes ==
  /\ \A kind, x : NodeFor(kind, x).kind = kind /\ NodeFor(kind, x).kids[1] = x
  /\ \A kind, value, kids : Tree(kind, value, kids).kind = kind /\ Tree(kind, value, kids).kids = kids
  BY DEF NodeFor, Tree

\* A list without elements, and one with one.
LEMMA ShortLists ==
  /\ Ordered(<<>>) /\ Items(<<>>) /\ Range(<<>>) = {}
  /\ \A n : Ordered(<<n>>) /\ Range(<<n>>) = {n}
<1>1. <<>> \in Seq({}) /\ DOMAIN <<>> = {}
  OBVIOUS
<1>2. Ordered(<<>>) /\ Items(<<>>) /\ Range(<<>>) = {}
  BY <1>1, SequenceIsList DEF Ordered, Items, Range
<1>3. ASSUME NEW n
      PROVE  Ordered(<<n>>) /\ Range(<<n>>) = {n}
  <2> DEFINE s == <<n>>
  <2>1. s \in Seq({n}) /\ DOMAIN s = {1} /\ s[1] = n
    OBVIOUS
  <2> HIDE DEF s
  <2>2. IsList(s)
    BY <2>1, SequenceIsList
  <2>3. Ordered(s)
    BY <2>1, <2>2 DEF Ordered
  <2>4. Range(s) = {n}
    BY <2>1 DEF Range
  <2> QED
    BY <2>3, <2>4 DEF s
<1> QED
  BY <1>2, <1>3

\* A list of one rank, that is not of an end, is in order.
LEMMA OneRank ==
  ASSUME NEW s, IsList(s), NEW r \in 0 .. 7, r \notin {1, 3, 6}, \A n \in Range(s) : Rank(n) = r
  PROVE  Ordered(s)
<1>1. \A i \in DOMAIN s : s[i] \in Range(s)
  BY DEF Range
<1> QED
  BY <1>1 DEF Ordered, Earlier

\* The elements of a list, as nodes.
LEMMA ElementNodes ==
  ASSUME NEW kind, NEW seq, IsList(seq)
  PROVE  /\ IsList(Elements(kind, seq))
         /\ \A n \in Range(Elements(kind, seq)) : n.kind = kind /\ n.kids[1] \in Range(seq)
<1> DEFINE A == {NodeFor(kind, x) : x \in Range(seq)}
           es == Elements(kind, seq)
<1>1. Len(seq) \in Nat /\ DOMAIN seq = 1 .. Len(seq) /\ \A i \in DOMAIN seq : seq[i] \in Range(seq)
  BY ListElements DEF Range
<1>2. es \in [1 .. Len(seq) -> A]
  BY <1>1 DEF Elements
<1> HIDE DEF es, A
<1>3. es \in Seq(A)
  BY <1>1, <1>2
<1>4. Range(es) \subseteq A
  BY <1>2 DEF Range
<1>5. \A n \in A : n.kind = kind /\ n.kids[1] \in Range(seq)
  BY MadeNodes DEF A
<1> QED
  BY <1>3, <1>4, <1>5, SequenceIsList DEF es

\* The lists of a program.
LEMMA ProgramLists ==
  ASSUME program \in Programs
  PROVE  /\ IsList(program.classes) /\ IsList(program.implementations) /\ IsList(program.functions)
         /\ \A f \in Range(program.functions) : f.class = "" /\ f.body \in Nodes
         /\ \A i \in Range(program.implementations) :
              /\ i.class # "" /\ IsList(i.functions)
              /\ \A f \in Range(i.functions) : f.class = i.class /\ f.body \in Nodes
  BY ProgramsAssumption DEF AreParsed

\* The first item goes, and nothing takes its place.
LEMMA DropStep ==
  ASSUME VisitInv, todo # <<>>, Rank(Node) \notin {1, 3}, todo' = Tail(todo),
         UNCHANGED <<program, tables, scope, expected>>,
         class' = class \/ Rank(Node) >= 4
  PROVE  VisitInv'
<1>1. Ordered(<<>>) /\ Items(<<>>) /\ Range(<<>>) = {}
  BY ShortLists
<1>2. IsList(Tail(todo))
  BY Shortened DEF VisitInv, Ordered
<1>3. Tail(todo) = <<>> \o Tail(todo)
  BY <1>2, ConcatEmptySeq DEF IsList
<1> QED
  BY <1>1, <1>3, QuietStep

\* The visit of a statement: what it goes on to are statements.
LEMMA StatementKeeps ==
  ASSUME VisitInv, todo # <<>>, Node \in Nodes, NEW xs, IsList(xs), Range(xs) \subseteq Nodes,
         todo' = xs \o Tail(todo),
         UNCHANGED <<program, tables, scope, class, expected>>
  PROVE  VisitInv'
<1>1. Rank(Node) = 0 /\ \A n \in Range(xs) : Rank(n) = 0 /\ n.kind \notin DeclarationKinds
  BY NodeRank
<1>2. Ordered(xs)
  BY <1>1, OneRank
<1>3. Items(xs)
  BY <1>1 DEF Items, Item, DeclarationKinds
<1>4. Rank(Node) \notin {1, 3} /\ \A n \in Range(xs) : Rank(n) <= Rank(Node) /\ Rank(n) \notin {1, 2, 3}
  BY <1>1
<1> QED
  BY <1>2, <1>3, <1>4, QuietStep, Zenon

\* The lists of declarations.
LEMMA ListsKeep ==
  ASSUME VisitInv, VisitClassList \/ VisitImplementationList \/ VisitFunctionList,
         UNCHANGED <<program, tables>>
  PROVE  VisitInv'
<1>1. todo # <<>> /\ Item(Node) /\ program \in Programs
  BY FirstItem DEF VisitClassList, VisitImplementationList, VisitFunctionList, At, VisitInv
<1>2. CASE VisitClassList
  <2> DEFINE xs == Elements("CLASS", program.classes)
  <2>1. /\ Node.kind = "CLASS_LIST" /\ Node.kids = program.classes
        /\ UNCHANGED <<scope, class, expected>>
    BY <1>1, <1>2 DEF VisitClassList, At, Item
  <2>2. todo' = xs \o Tail(todo)
    BY <1>2, <2>1 DEF VisitClassList
  <2>3. IsList(xs) /\ \A n \in Range(xs) : n.kind = "CLASS"
    BY <1>1, ProgramLists, ElementNodes
  <2> HIDE DEF xs
  <2>4. Rank(Node) = 4 /\ \A n \in Range(xs) : Rank(n) = 4
    BY <2>1, <2>3 DEF Rank
  <2>5. Ordered(xs)
    BY <2>3, <2>4, OneRank
  <2>6. Items(xs)
    BY <2>3 DEF Items, Item, DeclarationKinds
  <2>7. Rank(Node) \notin {1, 3} /\ \A n \in Range(xs) : Rank(n) <= Rank(Node) /\ Rank(n) \notin {1, 2, 3}
    BY <2>4
  <2> QED
    BY <1>1, <2>1, <2>2, <2>5, <2>6, <2>7, QuietStep, Zenon
<1>3. CASE VisitImplementationList
  <2> DEFINE es == Elements("IMPLEMENTATION", program.implementations)
             last == Tree("NO_CLASS", "", <<>>)
             xs == es \o <<last>>
  <2>1. /\ Node.kind = "IMPLEMENTATION_LIST" /\ Node.kids = program.implementations
        /\ UNCHANGED <<scope, class, expected>>
    BY <1>1, <1>3 DEF VisitImplementationList, At, Item
  <2>2. todo' = xs \o Tail(todo)
    BY <1>3, <2>1 DEF VisitImplementationList
  <2>3. /\ IsList(es)
        /\ \A n \in Range(es) : n.kind = "IMPLEMENTATION" /\ n.kids[1] \in Range(program.implementations)
    BY <1>1, ProgramLists, ElementNodes
  <2>4. last.kind = "NO_CLASS"
    BY DEF Tree
  <2>5. Ordered(<<last>>) /\ Range(<<last>>) = {last} /\ IsList(<<last>>)
    BY ShortLists DEF Ordered
  <2> HIDE DEF es, last
  <2>6. Rank(Node) = 6 /\ Rank(last) = 6 /\ \A n \in Range(es) : Rank(n) = 5
    BY <2>1, <2>3, <2>4 DEF Rank
  <2>7. Ordered(es)
    BY <2>3, <2>6, OneRank
  <2>8. Range(xs) = Range(es) \cup {last}
    BY <2>3, <2>5, Joined
  <2>9. Ordered(xs)
    BY <2>5, <2>6, <2>7, OrderJoins DEF Earlier
  <2>10. Items(xs)
    BY <2>3, <2>4, <2>8 DEF Items, Item, DeclarationKinds
  <2>11. Rank(Node) \notin {1, 3} /\ \A n \in Range(xs) : Rank(n) <= Rank(Node) /\ Rank(n) \notin {1, 2, 3}
    BY <2>6, <2>8
  <2> HIDE DEF xs
  <2> QED
    BY <1>1, <2>1, <2>2, <2>9, <2>10, <2>11, QuietStep, Zenon
<1>4. CASE VisitFunctionList
  <2> DEFINE xs == Elements("FUNCTION", program.functions)
  <2>1. /\ Node.kind = "FUNCTION_LIST" /\ Node.kids = program.functions
        /\ UNCHANGED <<scope, expected>>
    BY <1>1, <1>4 DEF VisitFunctionList, At, Item
  <2>2. todo' = xs \o Tail(todo)
    BY <1>4, <2>1 DEF VisitFunctionList
  <2>3. IsList(xs) /\ \A n \in Range(xs) : n.kind = "FUNCTION" /\ n.kids[1] \in Range(program.functions)
    BY <1>1, ProgramLists, ElementNodes
  <2> HIDE DEF xs
  <2>4. \A n \in Range(xs) : n.kids[1].class = ""
    BY <1>1, <2>3, ProgramLists
  <2>5. Rank(Node) = 7 /\ \A n \in Range(xs) : Rank(n) = 7
    BY <2>1, <2>3, <2>4 DEF Rank
  <2>6. Ordered(xs)
    BY <2>3, <2>5, OneRank
  <2>7. Items(xs)
    BY <2>3 DEF Items, Item, DeclarationKinds
  <2>8. /\ Rank(Node) \notin {1, 3} /\ Rank(Node) >= 4
        /\ \A n \in Range(xs) : Rank(n) <= Rank(Node) /\ Rank(n) \notin {1, 2, 3}
    BY <2>5
  <2> QED
    BY <1>1, <2>1, <2>2, <2>6, <2>7, <2>8, QuietStep, Zenon
<1> QED
  BY <1>2, <1>3, <1>4

\* The statements, and what they go on to.
LEMMA StatementsKeep ==
  ASSUME VisitInv, UNCHANGED <<program, tables>>,
         \/ VisitBlock \/ VisitAssignment \/ VisitIf \/ VisitWhile
         \/ VisitReturn \/ VisitRead \/ VisitWrite \/ VisitCall
  PROVE  VisitInv'
<1> DEFINE GoesTo(xs) == /\ todo' = xs \o Tail(todo) /\ UNCHANGED <<scope, class, expected>>
           StatementKinds == {"BLOCK", "ASSIGNMENT", "IF_STATEMENT", "WHILE_STATEMENT", "RETURN_STATEMENT",
                      "READ_STATEMENT", "WRITE_STATEMENT", "FUNCTION_CALL", "DOT_ACCESS"}
<1>1. ASSUME todo # <<>>, Node.kind \in StatementKinds
      PROVE  Node \in Nodes
  BY <1>1, FirstItem DEF Item, DeclarationKinds
<1>2. \A n \in Nodes :
        /\ n.kind \in {"BLOCK", "IF_STATEMENT", "WHILE_STATEMENT"} => IsList(n.kids)
        /\ n.kind = "BLOCK" => \A k \in Range(n.kids) : k.kind = "LOCAL_VARIABLE" \/ k \in Nodes
        /\ n.kind \in {"IF_STATEMENT", "WHILE_STATEMENT"} =>
             n.kids # <<>> /\ Range(Tail(n.kids)) \subseteq Nodes
  BY NodesAssumption DEF AreStatements
<1>3. ASSUME NEW xs, todo # <<>>, Node \in Nodes, IsList(xs), Range(xs) \subseteq Nodes, GoesTo(xs)
      PROVE  VisitInv'
  BY <1>3, StatementKeeps
<1>4. IsList(<<>>) /\ Range(<<>>) \subseteq Nodes
  BY ShortLists DEF Ordered
<1>5. CASE VisitBlock
  <2> DEFINE S == {k \in Range(Node.kids) : k.kind # "LOCAL_VARIABLE"}
             xs == Kept(Node.kids, S)
  <2>1. todo # <<>> /\ Node.kind = "BLOCK" /\ GoesTo(xs)
    BY <1>5 DEF VisitBlock, At
  <2>2. Node \in Nodes /\ IsList(Node.kids) /\ S \subseteq Nodes
    BY <2>1, <1>1, <1>2
  <2> HIDE DEF S, GoesTo
  <2>3. Kept(Node.kids, S) \in Seq(S)
    BY <2>2, KeptElements, Zenon DEF IsList
  <2>4. IsList(xs) /\ Range(xs) \subseteq S
    BY <2>3, SequenceIsList DEF Range
  <2> QED
    BY <2>1, <2>2, <2>4, <1>3
<1>6. CASE VisitIf \/ VisitWhile
  <2> DEFINE xs == Tail(Node.kids)
  <2>1. todo # <<>> /\ Node.kind \in {"IF_STATEMENT", "WHILE_STATEMENT"} /\ GoesTo(xs)
    BY <1>6 DEF VisitIf, VisitWhile, Statement, At
  <2> HIDE DEF GoesTo
  <2>2. Node \in Nodes /\ IsList(Node.kids) /\ Node.kids # <<>> /\ Range(xs) \subseteq Nodes
    BY <2>1, <1>1, <1>2
  <2>3. IsList(xs)
    BY <2>2, Shortened
  <2> QED
    BY <2>1, <2>2, <2>3, <1>3
<1>7. CASE VisitAssignment \/ VisitReturn \/ VisitRead \/ VisitWrite \/ VisitCall
  <2>1. todo # <<>> /\ Node.kind \in StatementKinds /\ GoesTo(<<>>)
    BY <1>7 DEF VisitAssignment, VisitReturn, VisitRead, VisitWrite, VisitCall, Statement, At
  <2> HIDE DEF GoesTo, StatementKinds
  <2> QED
    BY <2>1, <1>1, <1>3, <1>4
<1> QED
  BY <1>5, <1>6, <1>7

\* The visit of a class is not inside any other.
LEMMA ClassesKeep ==
  ASSUME VisitInv, VisitClass \/ LeaveClass, UNCHANGED <<program, tables>>
  PROVE  VisitInv'
<1>1. /\ todo # <<>> /\ Node.kind \in {"CLASS", "NO_CLASS"} /\ todo' = Tail(todo)
      /\ UNCHANGED <<scope, expected>>
  BY DEF VisitClass, LeaveClass, At
<1>2. Rank(Node) \in {4, 6}
  BY <1>1 DEF Rank
<1>3. Rank(Node) \notin {1, 3} /\ Rank(Node) >= 4
  BY <1>2
<1> QED
  BY <1>1, <1>3, DropStep

\* A sequence of one element.
LEMMA Singleton ==
  ASSUME NEW a
  PROVE  Len(<<a>>) = 1 /\ SubSeq(<<a>>, 1, 1) = <<a>> /\ <<a>> # <<>>
<1> DEFINE s == <<a>>
           t == SubSeq(s, 1, 1)
<1>1. s \in Seq({a}) /\ Len(s) = 1 /\ s # <<>> /\ s[1] = a
  OBVIOUS
<1> HIDE DEF s
<1>2. t \in Seq({a}) /\ Len(t) = 1 /\ t[1] = s[1]
  BY <1>1
<1> HIDE DEF t
<1>3. t = s
  BY <1>1, <1>2
<1> QED
  BY <1>1, <1>3 DEF s, t

\* In its class, the name of a member function leads to the key of its table.
LEMMA MemberKey ==
  ASSUME program \in Programs, tables = TablesOf(program),
         NEW i \in Range(program.implementations), NEW f \in Range(i.functions),
         IsClass(f.class), scope = <<f.class>>
  PROVE  TableKey(f) = KeyOf(f)
<1> DEFINE c == f.class
           x == f.name
           found == {n \in 0 .. Len(scope) : x \in DOMAIN tables[SubSeq(scope, 1, n)].syms}
<1>1. Implemented(tables, f)
  BY ProgramsAssumption, Zenon DEF AreTables
<1>2. /\ x \in DOMAIN tables[scope].syms
      /\ tables[scope].syms[x].kind = "FUNCTION"
      /\ tables[scope].syms[x].params = Described(f.params)
  BY <1>1 DEF Implemented, IsClass
<1>3. Len(scope) = 1 /\ SubSeq(scope, 1, 1) = scope /\ scope # <<>>
  BY Singleton
<1>4. 1 \in found /\ found \subseteq 0 .. 1
  <2>1. x \in DOMAIN tables[SubSeq(scope, 1, 1)].syms
    BY <1>2, <1>3
  <2>2. found = {n \in 0 .. 1 : x \in DOMAIN tables[SubSeq(scope, 1, n)].syms}
    BY <1>3
  <2>3. 1 \in 0 .. 1
    OBVIOUS
  <2> QED
    BY <2>1, <2>2, <2>3, Zenon
<1> HIDE DEF found
<1>5. \A y \in found : 1 >= y
  BY <1>4
<1>6. Max(found) = 1
  <2>1. \A m \in found : (\A y \in found : m >= y) => m = 1
    BY <1>4
  <2> QED
    BY <1>4, <1>5, <2>1 DEF Max
<1>7. Lookup(scope, x) = tables[scope].syms[x]
  BY <1>3, <1>4, <1>6 DEF Lookup, found
<1> QED
  BY <1>2, <1>3, <1>7 DEF TableKey, IsFunction, KeyOf

\* The visit of an implementation: its functions, twice, and the end of the class.
LEMMA ImplementationKeeps ==
  ASSUME VisitInv, VisitImplementation, UNCHANGED <<program, tables>>
  PROVE  VisitInv'
<1> DEFINE i == Node.kids[1]
           fs == Elements("FUNCTION", i.functions)
           leave == NodeFor("LEAVE", [path |-> scope])
<1>1. /\ todo # <<>> /\ Node.kind = "IMPLEMENTATION" /\ program \in Programs
      /\ expected' = expected
  BY DEF VisitImplementation, At, VisitInv
<1>2. /\ Range(todo) = {Node} \cup Range(Tail(todo)) /\ Ordered(todo) /\ Item(Node)
      /\ \A b \in Range(todo) : Rank(Node) <= Rank(b)
  BY <1>1, FirstItem
<1>3. i \in Range(program.implementations)
  BY <1>1, <1>2 DEF Item
<1>4. Rank(Node) = 5
  BY <1>1 DEF Rank
<1>5. \A b \in Range(todo) : Rank(b) \notin {1, 2, 3}
  <2> TAKE b \in Range(todo)
  <2>1. Rank(b) \in 0 .. 7 /\ 5 <= Rank(b)
    BY <1>2, <1>4, RankType
  <2> QED
    BY <2>1
<1>6. ~ Some(todo, 1) /\ ~ Some(todo, 2) /\ ~ Some(todo, 3)
  BY <1>5 DEF Some
<1>7. expected = <<>> /\ scope = <<>>
  BY <1>6 DEF VisitInv, Context, Around
<1>8. CASE ~ IsClass(i.class)
  <2>1. todo' = Tail(todo) /\ UNCHANGED <<class, scope>>
    BY <1>8 DEF VisitImplementation, Subject
  <2>2. Rank(Node) \notin {1, 3}
    BY <1>4
  <2> QED
    BY <1>1, <2>1, <2>2, DropStep, Zenon
<1>9. CASE IsClass(i.class)
  <2> DEFINE xs == (fs \o fs) \o <<leave>>
  <2>1. class' = i.class /\ scope' = <<i.class>> /\ todo' = xs \o Tail(todo)
    BY <1>9 DEF VisitImplementation, Subject
  <2>2. /\ i.class # "" /\ IsList(i.functions)
        /\ \A f \in Range(i.functions) : f.class = i.class
    BY <1>1, <1>3, ProgramLists
  <2>3. /\ IsList(fs)
        /\ \A n \in Range(fs) : n.kind = "FUNCTION" /\ n.kids[1] \in Range(i.functions)
    <3> HIDE DEF i, leave
    <3>1. \A seq : IsList(seq) => /\ IsList(Elements("FUNCTION", seq))
                                 /\ \A n \in Range(Elements("FUNCTION", seq)) :
                                      n.kind = "FUNCTION" /\ n.kids[1] \in Range(seq)
      BY ElementNodes
    <3> QED
      BY <2>2, <3>1
  <2>4. leave.kind = "LEAVE" /\ leave.kids[1].path = <<>>
    BY <1>7 DEF NodeFor, Tree
  <2>5. Ordered(<<leave>>) /\ Range(<<leave>>) = {leave} /\ IsList(<<leave>>)
    BY ShortLists DEF Ordered
  <2> HIDE DEF fs, leave, i
  <2>6. \A n \in Range(fs) : n.kids[1].class = i.class
    BY <2>2, <2>3
  <2>7. Rank(leave) = 3 /\ \A n \in Range(fs) : Rank(n) = 2
    BY <2>2, <2>3, <2>4, <2>6 DEF Rank
  <2>8. IsList(fs \o fs) /\ Range(fs \o fs) = Range(fs)
    BY <2>3, Joined
  <2>9. Ordered(fs \o fs)
    BY <2>7, <2>8, OneRank
  <2>10. Ordered(xs)
    BY <2>5, <2>7, <2>8, <2>9, OrderJoins DEF Earlier
  <2>11. Range(xs) = Range(fs) \cup {leave}
    BY <2>5, <2>8, Joined
  <2> HIDE DEF xs
  <2>12. \A a \in Range(xs) : Rank(a) \in {2, 3} /\ Rank(a) <= Rank(Node)
    BY <1>4, <2>7, <2>11
  <2>13. Ordered(todo') /\ Range(todo') = Range(xs) \cup Range(Tail(todo))
    BY <1>1, <1>2, <2>1, <2>10, <2>12, Replaced DEF Node
  <2>14. Items(xs)
    BY <1>3, <2>3, <2>4, <2>11 DEF Items, Item, DeclarationKinds
  <2>15. Items(todo)'
    <3>1. \A n : Item(n)' = Item(n)
      BY SameProgram
    <3> QED
      BY <1>2, <2>13, <2>14, <3>1 DEF VisitInv, Items
  <2>16. ~ Some(todo', 1)
    BY <1>2, <1>5, <2>12, <2>13 DEF Some
  <2>17. Around(todo', <<i.class>>, i.class)
    <3>1. Some(todo', 3)
      BY <2>7, <2>11, <2>13 DEF Some
    <3>2. ASSUME NEW n \in Range(todo'), Rank(n) = 2
          PROVE  n.kids[1].class = i.class
      BY <1>2, <1>5, <2>6, <2>7, <2>11, <2>13, <3>2
    <3> QED
      BY <1>9, <2>2, <3>1, <3>2 DEF Around
  <2>18. Around(todo, scope, class)'
    <3>1. \A s, path, c : Around(s, path, c)' = Around(s, path, c)
      BY SameProgram
    <3> QED
      BY <2>1, <2>17, <3>1
  <2> QED
    BY <1>1, <1>7, <2>13, <2>15, <2>16, <2>18 DEF VisitInv, Context, Some
<1> QED
  BY <1>8, <1>9

\* The end of a class.
LEMMA LeaveImplementationKeeps ==
  ASSUME VisitInv, LeaveImplementation, UNCHANGED <<program, tables>>
  PROVE  VisitInv'
<1>1. /\ todo # <<>> /\ Node.kind = "LEAVE" /\ scope' = Node.kids[1].path
      /\ todo' = Tail(todo) /\ expected' = expected
  BY DEF LeaveImplementation, At, Subject
<1>2. /\ Item(Node) /\ Ordered(todo) /\ Range(todo) = {Node} \cup Range(Tail(todo))
      /\ \A b \in Range(Tail(todo)) : Earlier(Node, b)
  BY <1>1, FirstItem
<1>3. Rank(Node) = 3 /\ scope' = <<>>
  BY <1>1, <1>2 DEF Rank, Item
<1>4. \A b \in Range(Tail(todo)) : Rank(b) \notin {1, 2, 3}
  <2> TAKE b \in Range(Tail(todo))
  <2>1. Rank(b) \in 0 .. 7 /\ 3 < Rank(b)
    BY <1>2, <1>3, RankType DEF Earlier
  <2> QED
    BY <2>1
<1>5. ~ Some(todo, 1)
  BY <1>2, <1>3, <1>4 DEF Some
<1>6. ~ Some(todo', 1) /\ ~ Some(todo', 2) /\ ~ Some(todo', 3)
  BY <1>1, <1>4 DEF Some
<1>7. expected = <<>>
  BY <1>5 DEF VisitInv, Context
<1>8. Context'
  BY <1>1, <1>3, <1>6, <1>7 DEF Context, Around, Some
<1>9. Ordered(todo') /\ Items(todo)'
  BY <1>1, FirstGone
<1> QED
  BY <1>8, <1>9 DEF VisitInv, Ordered

\* The end of a function.
LEMMA LeaveFunctionKeeps ==
  ASSUME VisitInv, LeaveFunction, UNCHANGED <<program, tables>>
  PROVE  VisitInv'
<1> DEFINE path == Node.kids[1].path
           f == Node.kids[1].fun
<1>1. /\ todo # <<>> /\ Node.kind = "LEAVE_FUNCTION" /\ scope' = path
      /\ todo' = Tail(todo) /\ expected' = Front(expected) /\ class' = class
  BY DEF LeaveFunction, At, Subject
<1>2. /\ Node \in Range(todo) /\ Range(todo) = {Node} \cup Range(Tail(todo))
      /\ \A b \in Range(Tail(todo)) : Earlier(Node, b)
  BY <1>1, FirstItem
<1>3. Rank(Node) = 1
  BY <1>1 DEF Rank
<1>4. Around(todo, path, class) /\ expected = <<f.type>>
  BY <1>2, <1>3 DEF VisitInv, Context, Inside
<1>5. \A b \in Range(Tail(todo)) : Rank(b) # 1
  BY <1>2, <1>3 DEF Earlier
<1>6. expected' = <<>>
  <2>1. Len(expected) = 1 /\ expected \in Seq({f.type})
    BY <1>4, Singleton
  <2>2. SubSeq(expected, 1, 0) = <<>>
    BY <2>1
  <2> QED
    BY <1>1, <2>1, <2>2 DEF Front
<1>7. ~ Some(todo', 1)
  BY <1>1, <1>5 DEF Some
<1>8. Around(todo', path, class)
  <2>1. Some(todo', 3) <=> Some(todo, 3)
    BY <1>1, <1>2, <1>3 DEF Some
  <2>2. \A n \in Range(todo') : Rank(n) = 2 => n \in Range(todo)
    BY <1>1, <1>2
  <2> QED
    BY <1>4, <2>1, <2>2, SamePlace
<1>9. Around(todo, scope, class)'
  <2>1. \A s, q, c : Around(s, q, c)' = Around(s, q, c)
    BY SameProgram
  <2> QED
    BY <1>1, <1>8, <2>1
<1>10. Context'
  BY <1>6, <1>7, <1>9 DEF Context, Some
<1>11. Ordered(todo') /\ Items(todo)'
  BY <1>1, FirstGone
<1> QED
  BY <1>10, <1>11 DEF VisitInv, Ordered

\* A function is visited in its own class.
LEMMA FunctionPlace ==
  ASSUME VisitInv, VisitFunction
  PROVE  LET f == Node.kids[1]
         IN  /\ f.class = class' /\ f.body \in Nodes
             /\ class' = class \/ Rank(Node) >= 4
             /\ Rank(Node) \in {2, 7}
             /\ ~ Some(todo, 1)
             /\ expected = <<>> /\ Around(todo, scope, class')
             /\ Checked(f) => TableKey(f) = KeyOf(f)
<1> DEFINE f == Node.kids[1]
<1>1. /\ todo # <<>> /\ Node.kind = "FUNCTION" /\ program \in Programs
      /\ tables = TablesOf(program)
      /\ class' = IF scope = <<>> THEN "" ELSE class
  BY DEF VisitFunction, At, VisitInv
<1>2. /\ Node \in Range(todo) /\ Item(Node) /\ \A b \in Range(todo) : Rank(Node) <= Rank(b)
  BY <1>1, FirstItem
<1>3. /\ f.body \in Nodes
      /\ \/ f.class = ""
         \/ \E i \in Range(program.implementations) : f \in Range(i.functions) /\ f.class # ""
  BY <1>1, <1>2, ProgramLists DEF Item
<1>4. Rank(Node) = IF f.class = "" THEN 7 ELSE 2
  BY <1>1 DEF Rank
<1>5. ~ Some(todo, 1)
  <2> SUFFICES ASSUME NEW b \in Range(todo), Rank(b) = 1
               PROVE  FALSE
    BY DEF Some
  <2>1. Rank(Node) \in {2, 7} /\ Rank(Node) <= Rank(b)
    BY <1>2, <1>4
  <2> QED
    BY <2>1
<1>6. expected = <<>> /\ Around(todo, scope, class)
  BY <1>5 DEF VisitInv, Context
<1>7. CASE f.class = ""
  <2>1. Rank(Node) = 7
    BY <1>4, <1>7
  <2>2. ~ Some(todo, 3)
    BY <1>2, <2>1 DEF Some
  <2>3. scope = <<>> /\ ~ Some(todo, 2)
    BY <1>6, <2>2 DEF Around
  <2>4. class' = "" /\ Around(todo, scope, class')
    BY <1>1, <2>2, <2>3 DEF Around
  <2>5. Checked(f) => TableKey(f) = KeyOf(f)
    BY <1>7, <2>3 DEF Checked, TableKey
  <2>6. f.class = class'
    BY <1>7, <2>4
  <2>7. Rank(Node) >= 4 /\ Rank(Node) \in {2, 7}
    BY <2>1
  <2> QED
    BY <1>3, <1>5, <1>6, <2>4, <2>5, <2>6, <2>7, Zenon
<1>8. CASE f.class # ""
  <2>1. Rank(Node) = 2 /\ Some(todo, 2)
    BY <1>2, <1>4, <1>8 DEF Some
  <2>2. Some(todo, 3)
    BY <1>6, <2>1 DEF Around
  <2>3. IsClass(class) /\ scope = <<class>> /\ f.class = class
    BY <1>2, <1>6, <2>1, <2>2 DEF Around
  <2>4. scope # <<>>
    BY <2>3, Singleton
  <2>5. class' = class
    BY <1>1, <2>4
  <2>6. TableKey(f) = KeyOf(f)
    BY <1>1, <1>3, <1>8, <2>3, MemberKey
  <2> QED
    BY <1>3, <1>5, <1>6, <2>1, <2>3, <2>5, <2>6
<1> QED
  BY <1>7, <1>8

\* The visit of a function: its body, and its end.
LEMMA FunctionKeeps ==
  ASSUME VisitInv, VisitFunction, UNCHANGED <<program, tables>>
  PROVE  VisitInv'
<1> DEFINE f == Node.kids[1]
           leave == NodeFor("LEAVE_FUNCTION", [path |-> scope, fun |-> f])
           path == Append(scope, TableKey(f))
           xs == <<f.body>> \o <<leave>>
<1>1. /\ todo # <<>> /\ f.class = class' /\ f.body \in Nodes
      /\ class' = class \/ Rank(Node) >= 4
      /\ Rank(Node) \in {2, 7}
      /\ ~ Some(todo, 1)
      /\ expected = <<>> /\ Around(todo, scope, class')
      /\ Checked(f) => TableKey(f) = KeyOf(f)
  BY FunctionPlace DEF VisitFunction, At
<1>2. /\ Range(todo) = {Node} \cup Range(Tail(todo)) /\ Ordered(todo)
  BY <1>1, FirstItem
<1>3. CASE path \notin DOMAIN tables
  <2>1. todo' = Tail(todo) /\ UNCHANGED <<scope, expected>>
    BY <1>3 DEF VisitFunction, Subject
  <2>2. Rank(Node) \notin {1, 3}
    BY <1>1
  <2> QED
    BY <1>1, <2>1, <2>2, DropStep
<1>4. CASE path \in DOMAIN tables
  <2>1. scope' = path /\ expected' = Append(expected, f.type) /\ todo' = <<f.body, leave>> \o Tail(todo)
    BY <1>4 DEF VisitFunction, Subject
  <2>2. /\ leave.kind = "LEAVE_FUNCTION" /\ leave.kids[1].path = scope /\ leave.kids[1].fun = f
    BY DEF NodeFor, Tree
  <2>3. <<f.body, leave>> = xs
    OBVIOUS
  <2>4. Ordered(<<f.body>>) /\ Ordered(<<leave>>) /\ Range(<<f.body>>) = {f.body} /\ Range(<<leave>>) = {leave}
    BY ShortLists
  <2> HIDE DEF f, leave, path
  <2>5. Rank(leave) = 1 /\ Rank(f.body) = 0 /\ f.body.kind \notin DeclarationKinds
    BY <1>1, <2>2, NodeRank DEF Rank
  <2>6. Ordered(xs)
    BY <2>4, <2>5, OrderJoins DEF Earlier
  <2>7. Range(xs) = {f.body, leave}
    <3>1. IsList(<<f.body>>) /\ IsList(<<leave>>)
      BY <2>4 DEF Ordered
    <3> QED
      BY <2>4, <3>1, Joined
  <2>8. Items(xs)
    BY <1>1, <2>2, <2>5, <2>7 DEF Items, Item, DeclarationKinds
  <2>9. todo' = xs \o Tail(todo)
    BY <2>1, <2>3
  <2> HIDE DEF xs
  <2>10. \A a \in Range(xs) : Rank(a) <= Rank(Node)
    BY <1>1, <2>5, <2>7
  <2>11. Ordered(todo') /\ Range(todo') = {f.body, leave} \cup Range(Tail(todo))
    BY <1>1, <1>2, <2>6, <2>7, <2>9, <2>10, Replaced DEF Node
  <2>12. Items(todo)'
    <3>1. \A n : Item(n)' = Item(n)
      BY SameProgram
    <3> QED
      BY <1>2, <2>7, <2>8, <2>11, <3>1 DEF VisitInv, Items
  <2>13. Around(todo', scope, class')
    <3>1. Some(todo', 3) <=> Some(todo, 3)
      BY <1>1, <1>2, <2>5, <2>11 DEF Some
    <3>2. \A n \in Range(todo') : Rank(n) = 2 => n \in Range(todo)
      BY <1>2, <2>5, <2>11
    <3> QED
      BY <1>1, <3>1, <3>2, SamePlace
  <2>14. expected' = <<f.type>>
    BY <1>1, <2>1
  <2>15. Checked(f) => scope' = Append(scope, KeyOf(f))
    BY <1>1, <2>1 DEF path
  <2>16. \A n \in Range(todo') : Rank(n) = 1 => n = leave
    BY <1>1, <1>2, <2>5, <2>11 DEF Some
  <2>17. Some(todo', 1)
    BY <2>5, <2>11 DEF Some
  <2>18. ASSUME NEW n \in Range(todo'), Rank(n) = 1
         PROVE  Inside(todo, n.kids[1].path, n.kids[1].fun)'
    <3>1. n.kids[1].path = scope /\ n.kids[1].fun = f
      BY <2>2, <2>16, <2>18
    <3>2. \A s, q, c : Around(s, q, c)' = Around(s, q, c)
      BY SameProgram
    <3>3. Around(todo, n.kids[1].path, class)'
      BY <2>13, <3>1, <3>2
    <3> QED
      BY <1>1, <2>14, <2>15, <3>1, <3>3 DEF Inside, f
  <2> QED
    BY <2>11, <2>12, <2>17, <2>18 DEF VisitInv, Context, Ordered
<1> QED
  BY <1>3, <1>4

-----------------------------------------------------------------------------

\* A step that leaves the visit alone.
LEMMA StutterKeeps ==
  ASSUME VisitInv, UNCHANGED <<program, tables, todo, scope, class, expected>>
  PROVE  VisitInv'
<1>1. \A n : Item(n)' = Item(n)
  BY SameProgram
<1>2. \A s, path, c : Around(s, path, c)' = Around(s, path, c)
  BY SameProgram
<1>3. \A path, f : Inside(todo, path, f)' <=> Inside(todo, path, f)
  BY <1>2 DEF Inside
<1>4. Items(todo)'
  BY <1>1 DEF VisitInv, Items
<1>5. Context'
  BY <1>2, <1>3 DEF VisitInv, Context
<1> QED
  BY <1>4, <1>5 DEF VisitInv

\* The visit begins with the three lists of declarations, outside of everything.
LEMMA InitVisits ==
  ASSUME Init
  PROVE  VisitInv
<1> DEFINE a == Tree("CLASS_LIST", "", program.classes)
           b == Tree("IMPLEMENTATION_LIST", "", program.implementations)
           c == Tree("FUNCTION_LIST", "", program.functions)
<1>1. /\ program \in Programs /\ tables = TablesOf(program) /\ todo = <<a, b, c>>
      /\ scope = <<>> /\ expected = <<>>
  BY DEF Init
<1>2. /\ a.kind = "CLASS_LIST" /\ a.kids = program.classes
      /\ b.kind = "IMPLEMENTATION_LIST" /\ b.kids = program.implementations
      /\ c.kind = "FUNCTION_LIST" /\ c.kids = program.functions
  BY DEF Tree
<1> HIDE DEF a, b, c
<1>3. Rank(a) = 4 /\ Rank(b) = 6 /\ Rank(c) = 7
  BY <1>2 DEF Rank
<1>4. Item(a) /\ Item(b) /\ Item(c)
  BY <1>2 DEF Item, DeclarationKinds
<1>5. /\ todo \in Seq({a, b, c}) /\ DOMAIN todo = 1 .. 3
      /\ todo[1] = a /\ todo[2] = b /\ todo[3] = c
  BY <1>1
<1>6. IsList(todo) /\ Range(todo) \subseteq {a, b, c}
  BY <1>5, SequenceIsList DEF Range
<1>7. Ordered(todo)
  <2> SUFFICES ASSUME NEW i \in 1 .. 3, NEW j \in 1 .. 3, i < j
               PROVE  Earlier(todo[i], todo[j])
    BY <1>5, <1>6 DEF Ordered
  <2>1. (i = 1 /\ j = 2) \/ (i = 1 /\ j = 3) \/ (i = 2 /\ j = 3)
    OBVIOUS
  <2> QED
    BY <2>1, <1>3, <1>5 DEF Earlier
<1>8. Items(todo)
  BY <1>4, <1>6 DEF Items
<1>9. ~ Some(todo, 1) /\ ~ Some(todo, 2) /\ ~ Some(todo, 3)
  BY <1>3, <1>6 DEF Some
<1>10. Context
  BY <1>1, <1>9 DEF Context, Around, Some
<1> QED
  BY <1>1, <1>7, <1>8, <1>10 DEF VisitInv

\* The invariant holds of every behaviour.
LEMMA VisitIsInvariant == Spec => []VisitInv
<1>1. Init => VisitInv
  BY InitVisits
<1>2. VisitInv /\ [Next]_vars => VisitInv'
  <2> SUFFICES ASSUME VisitInv, [Next]_vars
               PROVE  VisitInv'
    OBVIOUS
  <2>1. CASE UNCHANGED vars
    BY <2>1, StutterKeeps DEF vars, visitorVars
  <2>2. CASE SearchForCycles
    BY <2>2, StutterKeeps DEF SearchForCycles, visitorVars
  <2>3. CASE VisitStep /\ UNCHANGED <<program, tables, searchVars>>
    <3>1. UNCHANGED <<program, tables>>
      BY <2>3
    <3>2. CASE VisitClassList \/ VisitImplementationList \/ VisitFunctionList
      BY <3>1, <3>2, ListsKeep
    <3>3. CASE VisitClass \/ LeaveClass
      BY <3>1, <3>3, ClassesKeep
    <3>4. CASE VisitImplementation
      BY <3>1, <3>4, ImplementationKeeps
    <3>5. CASE LeaveImplementation
      BY <3>1, <3>5, LeaveImplementationKeeps
    <3>6. CASE VisitFunction
      BY <3>1, <3>6, FunctionKeeps
    <3>7. CASE LeaveFunction
      BY <3>1, <3>7, LeaveFunctionKeeps
    <3>8. CASE \/ VisitBlock \/ VisitAssignment \/ VisitIf \/ VisitWhile
               \/ VisitReturn \/ VisitRead \/ VisitWrite \/ VisitCall
      BY <3>1, <3>8, StatementsKeep
    <3> QED
      BY <2>3, <3>2, <3>3, <3>4, <3>5, <3>6, <3>7, <3>8 DEF VisitStep
  <2> QED
    BY <2>1, <2>2, <2>3 DEF Next
<1> QED
  BY <1>1, <1>2, PTL DEF Spec

\* Whatever the program, a statement is checked in the table of its function, inside the
\* class of that function and against its return type.
THEOREM StatementsSeeTheirContext == Spec => []OwnContext
<1>1. VisitInv => OwnContext
  <2> SUFFICES ASSUME VisitInv, NEW n \in DOMAIN todo, todo[n].kind = "LEAVE_FUNCTION"
               PROVE  LET f == todo[n].kids[1].fun
                      IN  Checked(f) => /\ scope = Append(todo[n].kids[1].path, KeyOf(f))
                                        /\ class = f.class
                                        /\ expected = <<f.type>>
    BY DEF OwnContext
  <2>1. Rank(todo[n]) = 1 /\ todo[n] \in Range(todo)
    BY DEF Rank, Range
  <2> QED
    BY <2>1 DEF VisitInv, Context, Inside
<1> QED
  BY <1>1, VisitIsInvariant, PTL

\* The visitor searches for circular dependencies as ClassCycles has it: its other steps
\* leave the search and the tables alone.
THEOREM VisitorSearches == Spec => SearchSpec
<1>1. Init => tables \in Tables /\ SearchInit
  BY ProgramsAssumption DEF Init, AreTables
<1>2. [Next]_vars => [SearchStep /\ UNCHANGED tables]_<<tables, searchVars>>
  BY DEF Next, vars, SearchForCycles
<1> QED
  BY <1>1, <1>2, PTL DEF Spec, SearchSpec

\* So the errors about circular dependencies are right for every program.
THEOREM VisitorFindsCycles == Spec => []CyclesAreFound
  BY VisitorSearches, SearchFindsCycles, PTL

=============================================================================
