------------------------------- MODULE MCDepTree -------------------------------
(***************************************************************************)
(* Small instance of DepTree: every graph of three packages in which the   *)
(* package a, the request, has lines of any weight but external and the    *)
(* others required and recommended ones, where b may be requested as well; *)
(* and larger graphs, of four and five packages, the shapes in which the   *)
(* moves of dependencies collide, with every choice of the weights.        *)
(***************************************************************************)
EXTENDS DepTree

CONSTANTS a, b, c, d, e

MCNode == {a, b, c, d, e, Root}

(* The graphs of three packages.                                           *)
Lines(p, w) == [prio : w, qual : {"b"}, id : {a, b, c} \ {p}]

SmallFiles(p, w) ==
  {f \in {<<>>} \cup {<<l>> : l \in Lines(p, w)}
         \cup {<<l, m>> : l, m \in Lines(p, w)} :
     Len(f) = 2 => f[1].id # f[2].id}

RootFile(t) == [i \in 1 .. Len(t) |-> [prio |-> 1, qual |-> "b", id |-> t[i]]]

SmallGraphs ==
  {[n \in {a, b, c, Root} |->
      CASE n = a -> fa [] n = b -> fb [] n = c -> fc [] OTHER -> r] :
     fa \in SmallFiles(a, {1, 2, 3}), fb \in SmallFiles(b, {1, 2}),
     fc \in SmallFiles(c, {1, 2}), r \in {RootFile(<<a>>), RootFile(<<a, b>>)}}

Edge(q, id) == [prio |-> 1, qual |-> q, id |-> id]

(* A graph given by its files, and the same with other weights.            *)
Files(r, fa, fb, fc, fd, fe) ==
  [n \in MCNode |->
     CASE n = a -> fa [] n = b -> fb [] n = c -> fc [] n = d -> fd
       [] n = e -> fe [] OTHER -> r]

Weigh(file, W) ==
  {[i \in DOMAIN file |-> [file[i] EXCEPT !.prio = w[i]]] :
     w \in [DOMAIN file -> W]}

Weighted(g, W) ==
  {Files(g[Root], fa, fb, fc, fd, fe) :
     fa \in Weigh(g[a], W), fb \in Weigh(g[b], W), fc \in Weigh(g[c], W),
     fd \in Weigh(g[d], W), fe \in Weigh(g[e], W)}

Before1(id) == Edge("b", id)

(* c is reached from a and, in a cycle, from b: moved, it is listed twice. *)
Relisting ==
  Files(<<Before1(a)>>,
        <<Before1(c), Before1(b), Before1(d)>>,
        <<Before1(a), Before1(c)>>,
        <<Before1(b), Before1(d)>>,
        <<>>, <<>>)

(* Two cycles through e, met on ways that have the same weights as the     *)
(* links of other nodes have positions.                                    *)
TwoCycles ==
  Files(<<Before1(a)>>,
        <<Before1(c), Before1(d)>>,
        <<Before1(c), Before1(e)>>,
        <<Before1(e)>>,
        <<Before1(e)>>,
        <<Before1(b)>>)

(* A first pass d that was copied with a "first" line for c, as            *)
(* clean_subgraph leaves it when first dependencies are nested.            *)
NestedFirst ==
  Files(<<Before1(a), Before1(b)>>,
        <<Before1(c), Before1(d)>>,
        <<Before1(d)>>,
        <<>>, <<Edge("f", c)>>, <<>>)

(* A cycle within a cycle, where d also needs c.                           *)
Nested ==
  Files(<<Before1(a)>>, <<Before1(b)>>, <<Before1(d)>>, <<>>,
        <<Before1(c), Before1(b), Before1(a)>>, <<>>)

MCGraph ==
  SmallGraphs \cup Weighted(Nested, {1, 2}) \cup Weighted(Relisting, {1, 2})
    \cup Weighted(TwoCycles, {1, 2, 3}) \cup {NestedFirst}

(* The graphs in which b and c may be named "b" and "libb".                *)
NamesGraph == Weighted(Nested, {1, 2})

NamesPartOf == {<<b, c>>}
===============================================================================
