----------------------------- MODULE ClassCycles -----------------------------
(***************************************************************************)
(* The search for circular class dependencies at the end of                *)
(* SemanticCheckingVisitor::visitProgram: for each table nested in the     *)
(* global one, checkClassCircularDependency walks from the class to its    *)
(* parents and to the classes of its data members.                         *)
(*                                                                         *)
(* The recursion is the stack calls, whose frames hold what is left of the *)
(* two loops; the maps that the code iterates over have no order, so that  *)
(* the classes and the members of a class are taken in any.  finished is a *)
(* history variable: the classes whose call answered that there is no      *)
(* cycle.                                                                  *)
(***************************************************************************)
EXTENDS SymbolTable

CONSTANT Tables    \* the tables that the symbol table visitor may leave

\* The parents of a class are a list, and the global table is there.
ASSUME TablesAssumption ==
  \A t \in Tables : /\ <<>> \in DOMAIN t
                    /\ \A c \in DOMAIN t[<<>>].syms : t[<<>>].syms[c].parents \in Seq(STRING)

VARIABLES tables, unchecked, calls, visited, circular, finished

searchVars == <<unchecked, calls, visited, circular, finished>>

IsClass(c) == c \in DOMAIN tables[<<>>].syms /\ tables[<<>>].syms[c].kind = "CLASS"

Classes == {c \in DOMAIN tables[<<>>].syms : IsClass(c) /\ <<c>> \in DOMAIN tables}

Parents(c) == tables[<<>>].syms[c].parents

TypeOfMember(c, x) == tables[<<c>>].syms[x].type

\* The members that the second loop goes on to.
ClassMembers(c) ==
  {x \in DOMAIN tables[<<c>>].syms :
     tables[<<c>>].syms[x].kind = "VARIABLE" /\ IsClass(TypeOfMember(c, x))}

Frame(c) == [class |-> c, parents |-> Parents(c), members |-> ClassMembers(c)]

SearchInit ==
  /\ unchecked = {c \in Range(tables[<<>>].nested) : IsClass(c)}
  /\ calls = <<>>
  /\ visited = {}
  /\ circular = {}
  /\ finished = {}

\* The loop of visitProgram: each class has a fresh set of visited classes.
Check(c) ==
  /\ calls = <<>>
  /\ c \in unchecked
  /\ unchecked' = unchecked \ {c}
  /\ IF c \in Classes
     THEN calls' = <<Frame(c)>> /\ visited' = {c}
     ELSE UNCHANGED <<calls, visited>>
  /\ UNCHANGED <<circular, finished>>

Top == calls[Len(calls)]

Waiting == SubSeq(calls, 1, Len(calls) - 1)

\* Bug: a class that was finished before counts as visited.
MeetFinished(c, frame) ==
  IF c \in visited \cup finished
  THEN /\ circular' = circular \cup {calls[1].class}
       /\ calls' = <<>>
       /\ visited' = {}
  ELSE /\ IF c \in Classes
          THEN /\ calls' = Waiting \o <<frame, Frame(c)>>
               /\ visited' = visited \cup {c}
          ELSE /\ calls' = Append(Waiting, frame)
               /\ UNCHANGED visited
       /\ UNCHANGED circular

\* checkClassCircularDependency(c), called from the frame on top: a class on the path
\* ends all the calls, and the class that the search started from is reported.
Meet(c, frame) ==
  IF c \in visited
  THEN /\ circular' = circular \cup {calls[1].class}
       /\ calls' = <<>>
       /\ visited' = {}
  ELSE /\ IF c \in Classes
          THEN /\ calls' = Waiting \o <<frame, Frame(c)>>
               /\ visited' = visited \cup {c}
          ELSE /\ calls' = Append(Waiting, frame)
               /\ UNCHANGED visited
       /\ UNCHANGED circular

NextParent ==
  /\ calls # <<>> /\ Top.parents # <<>>
  /\ Meet(Head(Top.parents), [Top EXCEPT !.parents = Tail(@)])
  /\ UNCHANGED <<unchecked, finished>>

\* Bug: the loop does not go on.
SameMember(x) ==
  /\ calls # <<>> /\ Top.parents = <<>>
  /\ x \in Top.members
  /\ Meet(TypeOfMember(Top.class, x), Top)
  /\ UNCHANGED <<unchecked, finished>>

NextMember(x) ==
  /\ calls # <<>> /\ Top.parents = <<>>
  /\ x \in Top.members
  /\ Meet(TypeOfMember(Top.class, x), [Top EXCEPT !.members = @ \ {x}])
  /\ UNCHANGED <<unchecked, finished>>

\* Both loops are over: the class leaves the path.
NoCycle ==
  /\ calls # <<>> /\ Top.parents = <<>> /\ Top.members = {}
  /\ visited' = visited \ {Top.class}
  /\ finished' = finished \cup {Top.class}
  /\ calls' = Waiting
  /\ UNCHANGED <<unchecked, circular>>

SearchStep ==
  \/ \E c \in unchecked : Check(c)
  \/ NextParent
  \/ \E x \in (IF calls = <<>> THEN {} ELSE Top.members) : NextMember(x)
  \/ NoCycle

Searched == unchecked = {} /\ calls = <<>>

SearchSpec ==
  /\ tables \in Tables /\ SearchInit
  /\ [][SearchStep /\ UNCHANGED tables]_<<tables, searchVars>>

-----------------------------------------------------------------------------

Dependencies(c) == Range(Parents(c)) \cup {TypeOfMember(c, x) : x \in ClassMembers(c)}

\* A class is one of a set that can be walked in forever: it depends, by way of any
\* number of others, on a class that depends on itself.
LeadsToCycle(c) ==
  \E S \in SUBSET Classes : c \in S /\ \A d \in S : Dependencies(d) \cap S # {}

\* 14.1: the search reports the classes that lead to a circular dependency, and no
\* others, whatever the order in which it takes the classes and their members.
CyclesAreFound ==
  /\ \A c \in circular : LeadsToCycle(c)
  /\ \A c \in finished : ~ LeadsToCycle(c)
  /\ Searched => Classes \cap Range(tables[<<>>].nested) \subseteq circular \cup finished

=============================================================================
