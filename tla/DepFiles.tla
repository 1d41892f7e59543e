------------------------------- MODULE DepFiles -------------------------------
(***************************************************************************)
(* The data the dependency resolver of the BLFS tool works on              *)
(* (BLFS/libs/func_dependencies): the directory "dependencies" holding one *)
(* file <node>.dep per node of the graph.  A line "2 a foo" of A.dep is an *)
(* edge from A to foo of weight 2 and qualifier "after".                   *)
(*                                                                         *)
(* The set of the files <node>.dep is a function whose DOMAIN is the set   *)
(* of the nodes that have a file: [ -f foo.dep ] is foo \in DOMAIN dep.    *)
(***************************************************************************)
EXTENDS Naturals, Sequences, FiniteSets

(* Weights of an edge: required, recommended, optional, external.          *)
Weight == 1 .. 4

(* Qualifiers of an edge: before, after (runtime), first.                  *)
Qualifier == {"b", "a", "f"}

(* One line of a .dep file whose targets are taken from the set N.         *)
Line(N) == [prio : Weight, qual : Qualifier, id : N]

(* The targets of the lines of a .dep file.                                *)
Targets(file) == {file[i].id : i \in 1 .. Len(file)}

(* A directory with the files of some nodes of N, among them root, to      *)
(* which no line leads.                                                    *)
GraphOn(files, N, root) ==
  /\ root \in DOMAIN files /\ DOMAIN files \subseteq N
  /\ \A n \in DOMAIN files : files[n] \in Seq(Line(N \ {root}))

(* What the first pass makes of the packages P of the book: root.dep lists *)
(* the requested packages, each of which has a file.                       *)
Extracted(files, P, root) ==
  /\ GraphOn(files, P \cup {root}, root) /\ IsFiniteSet(DOMAIN files)
  /\ Targets(files[root]) \subseteq DOMAIN files
  /\ \A i \in 1 .. Len(files[root]) : files[root][i].qual = "b"

(* Writing the file named n, which may or may not exist yet.               *)
Put(files, n, content) ==
  [m \in DOMAIN files \cup {n} |-> IF m = n THEN content ELSE files[m]]

(* The lines of a file at the positions in "keep".  It is defined by a     *)
(* recursive function, about which something can be proved.                *)
Kept(file, keep) ==
  LET kept[i \in 0 .. Len(file)] ==
        IF i = 0 THEN <<>>
        ELSE IF i \in keep THEN Append(kept[i - 1], file[i]) ELSE kept[i - 1]
  IN kept[Len(file)]

(* A .dep file after sed "/ id$/d" for every id of ids.                    *)
Without(file, ids) == Kept(file, {i \in DOMAIN file : file[i].id \notin ids})

-------------------------------------------------------------------------------
(* A set of nodes is closed under the edges of weight at most w if it      *)
(* contains the targets of all those edges that leave it.                  *)
ClosedUnder(files, S, w) ==
  \A n \in S \cap DOMAIN files : \A i \in 1 .. Len(files[n]) :
    files[n][i].prio <= w => files[n][i].id \in S

(* The targets of the edges of weight at most w out of the node n.         *)
Successors(files, n, w) ==
  IF n \notin DOMAIN files THEN {}
  ELSE {files[n][i].id : i \in {j \in 1 .. Len(files[n]) : files[n][j].prio <= w}}

(* The nodes that "next", a set of nodes for each node, leads to from S,   *)
(* S included.                                                             *)
Closure(next, S) ==
  LET grow[T \in SUBSET DOMAIN next] ==
        LET new == (UNION {next[n] : n \in T}) \ T
        IN IF new = {} THEN T ELSE grow[T \cup new]
  IN grow[S]

(* The nodes that edges of weight at most w lead to from s, s included.    *)
Reachable(files, s, w) ==
  LET nodes == {s} \cup UNION {Targets(files[n]) : n \in DOMAIN files}
  IN Closure([n \in nodes |-> Successors(files, n, w)], {s})

(* What path_to decides: whether a path of weight at most w leads from s   *)
(* to t.  That its depth-first search computes this is checked in PathTo.  *)
HasPath(files, s, t, w) == t \in Reachable(files, s, w)
===============================================================================
