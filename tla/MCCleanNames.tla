----------------------------- MODULE MCCleanNames -----------------------------
(***************************************************************************)
(* Small instance of CleanSubgraph in which names contain each other.  The *)
(* package b has one "after" dependency, c, which may lead back to a; s is *)
(* another package.                                                        *)
(***************************************************************************)
EXTENDS CleanSubgraph

CONSTANTS a, b, c, s

MCPackage == {a, b, c, s}

Edge(q, id) == [prio |-> 1, qual |-> q, id |-> id]

MCGraph ==
  {[n \in MCPackage \cup {Root} |->
      CASE n = a -> <<Edge("b", b)>>
        [] n = b -> <<Edge("a", c)>>
        [] n = c -> fc
        [] n = s -> <<>>
        [] OTHER -> <<Edge("b", a), Edge("b", s)>>] :
     fc \in {<<>>, <<Edge("b", a)>>}}

(* The name of s ends with that of b, as "libfoo" ends with "foo".         *)
AtEnd == {<<b, s>>}
===============================================================================
