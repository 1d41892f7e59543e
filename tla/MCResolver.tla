------------------------------- MODULE MCResolver -------------------------------
(***************************************************************************)
(* Small instance of Resolver: books of three packages with at most one    *)
(* line for each other package in a file, required, runtime or first in    *)
(* that of a, required or runtime in the others; a is requested, alone or  *)
(* with b.                                                                 *)
(***************************************************************************)
EXTENDS Resolver

CONSTANTS a, b, c

MCPackage == {a, b, c}

Required == [prio |-> 1, qual |-> "b"]
Runtime == [prio |-> 2, qual |-> "a"]
First == [prio |-> 1, qual |-> "f"]

Edge(k, q) == [prio |-> k.prio, qual |-> k.qual, id |-> q]

MayNeed(q, kinds) == {<<>>} \cup {<<Edge(k, q)>> : k \in kinds}

Files(p, q, kinds) ==
  {l \o m : l \in MayNeed(p, kinds), m \in MayNeed(q, kinds)}

MCBook ==
  {[p \in MCPackage |-> CASE p = a -> fa [] p = b -> fb [] OTHER -> fc] :
     fa \in Files(b, c, {Required, Runtime, First}),
     fb \in Files(a, c, {Required, Runtime}),
     fc \in Files(a, b, {Required, Runtime})}

MCRequest == {<<a>>, <<a, b>>}
===============================================================================
