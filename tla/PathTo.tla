-------------------------------- MODULE PathTo --------------------------------
(***************************************************************************)
(* path_to, the recursive search that clean_subgraph asks whether a path   *)
(* whose edges weigh at most "prio" leads from one node to another.  Each  *)
(* recursive call that reads a file is a frame of "stack"; the list "seen" *)
(* is global, and a call that returns 0 makes all its callers return 0.    *)
(***************************************************************************)
EXTENDS DepFiles

CONSTANTS
  Node,       \* the nodes of the graph
  Graph       \* the possible contents of the directory "dependencies"

ASSUME PathToAssumption ==
  \A g \in Graph : /\ DOMAIN g \subseteq Node
                   /\ \A n \in DOMAIN g : g[n] \in Seq(Line(Node))
ASSUME FiniteAssumption == IsFiniteSet(Node)

VARIABLES
  dep,        \* the files <node>.dep
  start,      \* the node the search starts from
  seek,       \* the node to reach
  prio,       \* the weight above which no edge is followed
  seen,       \* the list of the nodes already seen
  stack,      \* the calls in progress: the file read and how far
  answer      \* what path_to returns: "found" is 0, "none" is 1

vars == <<dep, start, seek, prio, seen, stack, answer>>

Frame == [node : Node, pos : Nat]
Answer == {"running", "found", "none"}

TypeOK ==
  /\ DOMAIN dep \subseteq Node
  /\ \A n \in DOMAIN dep : dep[n] \in Seq(Line(Node))
  /\ start \in Node
  /\ seek \in Node
  /\ prio \in Weight
  /\ seen \subseteq Node
  /\ stack \in Seq(Frame)
  /\ answer \in Answer

-------------------------------------------------------------------------------
Depth == Len(stack)
Top == stack[Depth]
MoreLines == stack # <<>> /\ Top.pos < Len(dep[Top.node])
Current == dep[Top.node][Top.pos + 1]
Advance == [stack EXCEPT ![Depth].pos = @ + 1]

(* test -s: the file exists and is not empty.                              *)
NonEmpty(n) == n \in DOMAIN dep /\ dep[n] # <<>>

Init ==
  /\ dep \in Graph
  /\ start \in Node
  /\ seek \in Node
  /\ prio \in Weight
  /\ seen = {}
  /\ stack = <<>>
  /\ answer = "running"

(* The outermost call: the start may be the node to reach.                 *)
Enter ==
  /\ seen = {}
  /\ answer = "running"
  /\ IF start = seek
     THEN answer' = "found" /\ UNCHANGED <<seen, stack>>
     ELSE /\ seen' = {start}
          /\ stack' = IF NonEmpty(start) THEN <<[node |-> start, pos |-> 0]>>
                      ELSE <<>>
          /\ answer' = IF NonEmpty(start) THEN "running" ELSE "none"
  /\ UNCHANGED <<dep, start, seek, prio>>

TooHeavyOrAsHeavy == prio <= Current.prio  \* mutant: -le for -lt

NeverTooHeavy == FALSE                     \* mutant: no test of the weight

TooHeavy == prio < Current.prio

(* A heavier edge, or one to a node already seen, is not followed.         *)
Skip ==
  /\ MoreLines
  /\ TooHeavy \/ Current.id \in seen
  /\ stack' = Advance
  /\ UNCHANGED <<dep, start, seek, prio, seen, answer>>

Follow ==
  /\ MoreLines
  /\ ~ TooHeavy
  /\ Current.id \notin seen

(* The recursive call returns 0 at once, and so do all the callers.        *)
Hit ==
  /\ Follow
  /\ Current.id = seek
  /\ answer' = "found"
  /\ stack' = <<>>
  /\ UNCHANGED <<dep, start, seek, prio, seen>>

(* The recursive call marks the node; it returns 1 at once if the node has *)
(* no lines, and reads them otherwise.                                     *)
Visit ==
  /\ Follow
  /\ Current.id # seek
  /\ seen' = seen \cup {Current.id}
  /\ stack' = IF NonEmpty(Current.id)
              THEN Append(Advance, [node |-> Current.id, pos |-> 0])
              ELSE Advance
  /\ UNCHANGED <<dep, start, seek, prio, answer>>

(* End of the file: the call returns 1.                                    *)
GiveUpAtOnce ==    \* mutant: a call that fails makes its callers fail
  /\ stack # <<>>
  /\ ~ MoreLines
  /\ stack' = <<>>
  /\ answer' = "none"
  /\ UNCHANGED <<dep, start, seek, prio, seen>>

GiveUp ==
  /\ stack # <<>>
  /\ ~ MoreLines
  /\ stack' = SubSeq(stack, 1, Depth - 1)
  /\ answer' = IF Depth = 1 THEN "none" ELSE answer
  /\ UNCHANGED <<dep, start, seek, prio, seen>>

Next == Enter \/ Skip \/ Hit \/ Visit \/ GiveUp

Spec == Init /\ [][Next]_vars

-------------------------------------------------------------------------------
(* "No path" is never wrong: there is then a set of nodes that contains    *)
(* the start, that no edge light enough leaves, and that misses the goal.  *)
(* The list of nodes seen is shared by all the calls, so a node abandoned  *)
(* in one branch is skipped in every other; this says nothing is lost.     *)
NoneIsRight ==
  answer = "none" =>
    \E S \in SUBSET Node :
      start \in S /\ ClosedUnder(dep, S, prio) /\ seek \notin S

(* "Found" is never wrong: no closed set separates the start from the goal.*)
FoundIsRight ==
  answer = "found" =>
    \A S \in SUBSET Node :
      start \in S /\ ClosedUnder(dep, S, prio) => seek \in S

(* The search agrees with the fixpoint the other modules use for it.       *)
AgreesWithHasPath ==
  answer # "running" =>
    (answer = "found" <=> HasPath(dep, start, seek, prio))
===============================================================================
