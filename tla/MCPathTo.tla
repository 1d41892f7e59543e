------------------------------- MODULE MCPathTo -------------------------------
(***************************************************************************)
(* Small instance of PathTo: every graph of three nodes with at most two   *)
(* edges out of each, of weights 1 and 2, where the file of c may be       *)
(* missing, as for a group whose file is still to be written.              *)
(***************************************************************************)
EXTENDS PathTo

CONSTANTS a, b, c

MCNode == {a, b, c}

Lines(n) == [prio : {1, 2}, qual : {"b"}, id : MCNode \ {n}]

Files(n) ==
  {<<>>} \cup {<<l>> : l \in Lines(n)}
         \cup {<<l, m>> : l, m \in Lines(n)}

Graphs(N) ==
  {g \in [N -> UNION {Files(n) : n \in N}] : \A n \in N : g[n] \in Files(n)}

MCGraph == Graphs(MCNode) \cup Graphs({a, b})
===============================================================================
