------------------------------- MODULE Subgraph -------------------------------
(***************************************************************************)
(* Pass 1 of the dependency resolver: generate_subgraph, the recursive     *)
(* depth-first search that extracts, for every package to be considered,   *)
(* its file <node>.dep from packages.xml.                                  *)
(*                                                                         *)
(* Each recursive call is a frame of "stack"; the call reads its .dep file *)
(* line by line, and each action below is one turn of its while loop.  The *)
(* depth the code passes along is the height of the stack: root has depth  *)
(* 1, the requested packages 2, and so on.                                 *)
(***************************************************************************)
EXTENDS DepFiles

CONSTANTS
  Package,    \* the packages of the book
  Root,       \* the special node "root"
  Book,       \* the possible outputs of dependencies.xsl, package by package
  Request,    \* the possible values of TARGET, the requested packages
  Level       \* the possible values of DEP_LEVEL

ASSUME SubgraphAssumption ==
  /\ Root \notin Package
  /\ Book \subseteq [Package -> Seq(Line(Package))]
  /\ Request \subseteq Seq(Package) \ {<<>>}
  /\ Level \subseteq 1 .. 4

VARIABLES
  book,       \* what xsltproc dependencies.xsl prints for each package
  target,     \* TARGET[0], TARGET[1], ...
  level,      \* DEP_LEVEL
  dep,        \* the files <node>.dep
  stack       \* the calls in progress: the file read and how far

vars == <<book, target, level, dep, stack>>

Node == Package \cup {Root}
Frame == [node : Node, pos : Nat]

TypeOK ==
  /\ book \in [Package -> Seq(Line(Package))]
  /\ target \in Seq(Package) \ {<<>>}
  /\ level \in 1 .. 4
  /\ DOMAIN dep \subseteq Node
  /\ \A n \in DOMAIN dep : dep[n] \in Seq(Line(Package))
  /\ stack \in Seq(Frame)

-------------------------------------------------------------------------------
(* generate_deps: the file root.dep, one line "1 b <target>" per target.   *)
RootFile(t) == [i \in 1 .. Len(t) |-> [prio |-> 1, qual |-> "b", id |-> t[i]]]

(* dep_level: the greatest weight followed from a node met at depth d.     *)
DepLevelAnyDepth(d) ==  \* mutant: no exception for the dependencies at level 3
  IF level > 3 THEN 3 ELSE level

DepLevel(d) ==
  IF level = 3 /\ d > 2 THEN 2 ELSE IF level > 3 THEN 3 ELSE level

Depth == Len(stack)
Top == stack[Depth]
MoreLines == stack # <<>> /\ Top.pos < Len(dep[Top.node])
Current == dep[Top.node][Top.pos + 1]

(* "Has this entry already been seen?", with its special case: a requested *)
(* package is processed again at depth 2 when DEP_LEVEL is 3.              *)
SeenBefore(e) == e.id \in DOMAIN dep             \* mutant: no special case

SeenAnyDepth(e) == e.id \in DOMAIN dep /\ level # 3  \* mutant: at any depth

Seen(e) == e.id \in DOMAIN dep /\ ~ (Depth + 1 = 2 /\ level = 3)

Advance == [stack EXCEPT ![Depth].pos = @ + 1]

Init ==
  /\ book \in Book
  /\ target \in Request
  /\ level \in Level
  /\ dep = [n \in {Root} |-> RootFile(target)]
  /\ stack = <<[node |-> Root, pos |-> 0]>>

(* Display the edge and proceed: already seen, or heavier than wanted.     *)
SkipLine ==
  /\ MoreLines
  /\ Seen(Current) \/ Current.prio > DepLevel(Depth)
  /\ stack' = Advance
  /\ UNCHANGED <<book, target, level, dep>>

(* The package of the line is extracted from packages.xml.                 *)
Extract ==
  /\ MoreLines
  /\ ~ Seen(Current)
  /\ Current.prio <= DepLevel(Depth)
  /\ dep' = Put(dep, Current.id, book[Current.id])
  /\ UNCHANGED <<book, target, level>>

(* It has no dependencies: touch the file and go on with the next line.    *)
Leaf ==
  /\ Extract
  /\ book[Current.id] = <<>>
  /\ stack' = Advance

(* It has dependencies: recursive call.                                    *)
DescendRereading ==  \* mutant: the line is read again after the call
  /\ Extract
  /\ book[Current.id] # <<>>
  /\ stack' = Append(stack, [node |-> Current.id, pos |-> 0])

Descend ==
  /\ Extract
  /\ book[Current.id] # <<>>
  /\ stack' = Append(Advance, [node |-> Current.id, pos |-> 0])

(* End of the file: the call returns.                                      *)
Return ==
  /\ stack # <<>>
  /\ ~ MoreLines
  /\ stack' = SubSeq(stack, 1, Depth - 1)
  /\ UNCHANGED <<book, target, level, dep>>

Done == stack = <<>>

Next == SkipLine \/ Leaf \/ Descend \/ Return

Spec == Init /\ [][Next]_vars

-------------------------------------------------------------------------------
(***************************************************************************)
(* What the search promises.  DEP_LEVEL 1, 2 and 4 stand for a bound on    *)
(* the weights followed from every package; 3 for optional dependencies of *)
(* the requested packages only.                                            *)
(***************************************************************************)
Requested == {target[i] : i \in 1 .. Len(target)}

Bound(p) ==
  IF level = 3 THEN IF p \in Requested THEN 3 ELSE 2
  ELSE IF level > 3 THEN 3 ELSE level

(* Every edge of weight at most w out of p leads into the set S.           *)
Follows(S, p, w) ==
  \A i \in 1 .. Len(book[p]) : book[p][i].prio <= w => book[p][i].id \in S

(* A set of packages from which nothing that was asked for is missing.     *)
Closed(S) ==
  /\ Requested \subseteq S
  /\ \A p \in S : Follows(S, p, Bound(p))

(* No package is selected that nobody asked for: at any time, the packages *)
(* that have a .dep file are in every closed set.  It is what keeps        *)
(* optional dependencies of mere dependencies out of a level 3 build.      *)
NothingExtra ==
  \A S \in SUBSET Package : Closed(S) => DOMAIN dep \ {Root} \subseteq S

(* Nothing asked for is missing: when generate_subgraph returns, the       *)
(* packages that have a .dep file are closed.  A requested package first   *)
(* met as a dependency, without its optional dependencies, is the case the *)
(* "23" exception of the code is for.                                      *)
NothingMissing == Done => Closed(DOMAIN dep \ {Root})

(* A package is open in one recursive call at most, although the special   *)
(* case processes packages again that already have a file: a cycle of the  *)
(* book is never followed round.                                           *)
OpenOnce ==
  \A i, j \in 1 .. Len(stack) : stack[i].node = stack[j].node => i = j
===============================================================================
