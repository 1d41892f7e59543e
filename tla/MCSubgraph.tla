------------------------------ MODULE MCSubgraph ------------------------------
(***************************************************************************)
(* Small instance of Subgraph: every graph of three packages in which a    *)
(* package has at most two lines, for three choices of two weights, so that *)
(* every pair a DEP_LEVEL tells apart occurs.                              *)
(***************************************************************************)
EXTENDS Subgraph

CONSTANTS a, b, c

MCPackage == {a, b, c}

WeightPairs == {{1, 2}, {2, 3}, {3, 4}}

Lines(p, w) == [prio : w, qual : {"b"}, id : MCPackage \ {p}]

Files(p, w) ==
  {<<>>} \cup {<<l>> : l \in Lines(p, w)}
         \cup {<<l, m>> : l, m \in Lines(p, w)}

Distinct(file) ==
  \A i, j \in DOMAIN file : file[i].id = file[j].id => i = j

Graphs(w) ==
  {g \in [MCPackage -> UNION {Files(p, w) : p \in MCPackage}] :
     \A p \in MCPackage : g[p] \in Files(p, w) /\ Distinct(g[p])}

MCBook == UNION {Graphs(w) : w \in WeightPairs}

MCRequest == {<<a>>, <<a, b>>}
===============================================================================
