---------------------------- MODULE MCCleanSubgraph ----------------------------
(***************************************************************************)
(* Small instance of CleanSubgraph: the subgraphs of up to three packages, *)
(* all reachable from root, with at most one line for each other package   *)
(* in a file, and lines that may point outside the subgraph.  A "before"   *)
(* line is required or recommended, an "after" line is recommended, as a   *)
(* runtime dependency is, and a "first" line is required; the lines of the *)
(* third package are required or runtime ones.                             *)
(***************************************************************************)
EXTENDS CleanSubgraph

CONSTANTS a, b, c

MCPackage == {a, b, c}

Required == <<1, "b">>
Recommended == <<2, "b">>
Runtime == <<2, "a">>
First == <<1, "f">>

(* No line for package q, or one.                                          *)
MayNeed(q, kinds) ==
  {<<>>} \cup {<<[prio |-> k[1], qual |-> k[2], id |-> q]>> : k \in kinds}

Files(p, q, kinds) ==
  {l \o m : l \in MayNeed(p, kinds), m \in MayNeed(q, kinds)}

AllKinds == {Required, Recommended, Runtime, First}

RootFile(t) == [i \in 1 .. Len(t) |-> [prio |-> 1, qual |-> "b", id |-> t[i]]]

(* The subgraphs in which the packages of N have a file.                   *)
Graphs(N) ==
  {g \in {[n \in N \cup {Root} |->
             CASE n = a -> fa [] n = b -> fb [] n = c -> fc [] OTHER -> r] :
            fa \in Files(b, c, AllKinds),
            fb \in IF b \in N THEN Files(a, c, AllKinds) ELSE {<<>>},
            fc \in IF c \in N THEN Files(a, b, {Required, Runtime}) ELSE {<<>>},
            r \in {RootFile(t) : t \in {<<a>>, <<a, b>>} \cap Seq(N)}} :
     N \subseteq Reachable(g, Root, 4)}

MCGraph == UNION {Graphs(N) : N \in {{a}, {a, b}, {a, b, c}}}
===============================================================================
