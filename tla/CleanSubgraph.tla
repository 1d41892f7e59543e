----------------------------- MODULE CleanSubgraph -----------------------------
(***************************************************************************)
(* Pass 2 of the dependency resolver: clean_subgraph.  Three loops over    *)
(* the files <node>.dep: remove the dangling edges, replace the "after"    *)
(* dependencies by group nodes, and break cycles by "first" dependencies.  *)
(* Each action is one turn of one of the loops.                            *)
(*                                                                         *)
(* A loop takes the files in the alphabetical order of their names, which  *)
(* is any order here: the packages have no names.  What the code finds     *)
(* with grep in the text of a line depends on the names only in that one   *)
(* can end with, or contain, another.                                      *)
(***************************************************************************)
EXTENDS DepFiles

CONSTANTS
  Package,    \* the packages of the book
  Root,       \* the special node "root"
  Graph,      \* the possible results of generate_subgraph
  SuffixOf,   \* <<p, q>>: p # q and the name of q ends with that of p
  PartOf      \* <<p, q>>: p # q and the name of q contains that of p

(* The names made by appending "groupxx" and "-pass1".                     *)
Group(n) == <<n, "groupxx">>
Pass1(n) == <<n, "-pass1">>

Node == Package \cup {Group(p) : p \in Package}
Target == Node \cup {Pass1(n) : n \in Node}
File == Target \cup {Root}

ASSUME CleanAssumption ==
  /\ Root \notin Package \cup Target
  /\ Package \cap ({Group(p) : p \in Package} \cup {Pass1(n) : n \in Node}) = {}
  /\ SuffixOf \subseteq PartOf
  /\ PartOf \subseteq Package \X Package

(* The graph is a result of the first pass (SubgraphProofs, ReadyToClean). *)
ASSUME GraphAssumption == \A g \in Graph : Extracted(g, Package, Root)

VARIABLES
  graph,      \* the result of generate_subgraph
  dep,        \* the files <node>.dep
  loop,       \* which loop is running: "dangling", "after", "first", "done"
  todo        \* the files this loop still has to process

vars == <<graph, dep, loop, todo>>

-------------------------------------------------------------------------------
(* The lines of a file that have a qualifier.                              *)
Qualified(file, q) == Kept(file, {i \in DOMAIN file : file[i].qual = q})

(* grep -l " q " *: the files that have such a line.                       *)
HaveQualifier(q) == {n \in DOMAIN dep : Qualified(dep[n], q) # <<>>}

(* grep "x$" finds a line that ends with the name n of a node.             *)
Ends(x, n) == x = n \/ <<x, n>> \in SuffixOf

(* grep "x" finds a line whose node is n.                                  *)
Occurs(x, n) ==
  \/ x = n
  \/ \E p, q \in Package :
       /\ p = q \/ <<p, q>> \in PartOf
       /\ x = p
       /\ n \in {q, Group(q), Pass1(q), Pass1(Group(q))}
  \/ \E p, q \in Package :
       /\ p = q \/ <<p, q>> \in SuffixOf
       /\ x = Group(p)
       /\ n \in {Group(q), Pass1(Group(q))}

(* s/ node$/&groupxx/ in one file.                                         *)
Redirect(file, node) ==
  [i \in 1 .. Len(file) |->
     IF file[i].id = node THEN [file[i] EXCEPT !.id = Group(node)] ELSE file[i]]

-------------------------------------------------------------------------------
Init ==
  /\ graph \in Graph
  /\ dep = graph
  /\ loop = "dangling"
  /\ todo = DOMAIN graph \ {Root}

(* First loop: an edge to a package outside the subgraph is removed.       *)
RemoveLastDangling(node) ==  \* mutant: lines_to_remove does not accumulate
  /\ loop = "dangling" /\ node \in todo
  /\ LET out == Without(dep[node], DOMAIN dep)
     IN dep' = [dep EXCEPT ![node] =
                  Without(@, {out[i].id : i \in {Len(out)} \ {0}})]
  /\ todo' = todo \ {node}
  /\ UNCHANGED <<graph, loop>>

RemoveDangling(node) ==
  /\ loop = "dangling" /\ node \in todo
  /\ dep' = [dep EXCEPT ![node] =
               Without(@, {id \in Targets(@) : id \notin DOMAIN dep})]
  /\ todo' = todo \ {node}
  /\ UNCHANGED <<graph, loop>>

StartAfter ==
  /\ loop = "dangling" /\ todo = {}
  /\ loop' = "after"
  /\ todo' = HaveQualifier("a")
  /\ UNCHANGED <<graph, dep>>

(* The parents of a node that no "after" dependency of the node leads to.  *)
(* path_to is asked parent by parent, while the parents already dealt with *)
(* point to the group: none of those is on a path that matters.            *)
AllParents(node) ==  \* mutant: path_to is not asked
  {parent \in DOMAIN dep : \E id \in Targets(dep[parent]) : Ends(node, id)}

FreeParents(node) ==
  LET starts == Targets(Qualified(dep[node], "a"))
  IN {parent \in DOMAIN dep :
        /\ \E id \in Targets(dep[parent]) : Ends(node, id)
        /\ \A s \in starts : ~ HasPath(dep, s, parent, 3)}

(* The group of a node: the node itself, then its "after" dependencies,    *)
(* except those that grep -q finds in the file written so far.             *)
GroupOfOne(node) ==  \* mutant: the "after" dependencies are not added
  <<[prio |-> 1, qual |-> "b", id |-> node]>>

GroupFile(node) ==
  LET after == Qualified(dep[node], "a")
      written[i \in 0 .. Len(after)] ==
        IF i = 0 THEN <<[prio |-> 1, qual |-> "b", id |-> node]>>
        ELSE IF \E id \in Targets(written[i - 1]) : Occurs(after[i].id, id)
             THEN written[i - 1]
             ELSE Append(written[i - 1], [after[i] EXCEPT !.qual = "b"])
  IN written[Len(after)]

(* The free parents depend on the group from now on; without one, root     *)
(* does.                                                                   *)
RedirectedOnly(node, free) ==  \* mutant: nothing is added to root.dep
  [n \in DOMAIN dep |->
     IF n \in free THEN Redirect(dep[n], node) ELSE dep[n]]

Redirected(node, free) ==
  LET toGroup == [prio |-> 1, qual |-> "b", id |-> Group(node)]
  IN [n \in DOMAIN dep |->
        CASE n \in free -> Redirect(dep[n], node)
          [] n = Root /\ free = {} -> Append(dep[n], toGroup)
          [] OTHER -> dep[n]]

(* Second loop: a group for a node that has "after" dependencies.          *)
GroupAfter(node) ==
  /\ loop = "after" /\ node \in todo
  /\ LET after == Targets(Qualified(dep[node], "a"))
         parents == Redirected(node, FreeParents(node))
     IN dep' = Put([parents EXCEPT ![node] = Without(@, after)],
                   Group(node), GroupFile(node))
  /\ todo' = todo \ {node}
  /\ UNCHANGED <<graph, loop>>

StartFirst ==
  /\ loop = "after" /\ todo = {}
  /\ loop' = "first"
  /\ todo' = HaveQualifier("f")
  /\ UNCHANGED <<graph, dep>>

(* The file <id>-pass1.dep for the parent node: a copy of <id>.dep, unless *)
(* there is one, without the lines whose target leads back to the parent   *)
(* by edges no heavier than the line.                                      *)
Pass1FileLighter(files, node, id) ==  \* mutant: paths lighter than the line
  LET file == IF Pass1(id) \in DOMAIN files THEN files[Pass1(id)] ELSE files[id]
      back == {i \in 1 .. Len(file) :
                 HasPath(files, file[i].id, node, file[i].prio - 1)}
  IN Without(file, {file[i].id : i \in back})

Pass1File(files, node, id) ==
  LET file == IF Pass1(id) \in DOMAIN files THEN files[Pass1(id)] ELSE files[id]
      back == {i \in 1 .. Len(file) :
                 HasPath(files, file[i].id, node, file[i].prio)}
  IN Without(file, {file[i].id : i \in back})

(* s/[[:digit:]] f /1 b / and the suffix, on the lines to be changed.      *)
ToBefore(file, ids) ==  \* mutant: without s/$/-pass1/
  [i \in 1 .. Len(file) |->
     IF file[i].id \in ids /\ file[i].qual = "f"
     THEN [prio |-> 1, qual |-> "b", id |-> file[i].id] ELSE file[i]]

ToPass1(file, ids) ==
  [i \in 1 .. Len(file) |->
     IF file[i].id \notin ids THEN file[i]
     ELSE [prio |-> IF file[i].qual = "f" THEN 1 ELSE file[i].prio,
           qual |-> IF file[i].qual = "f" THEN "b" ELSE file[i].qual,
           id   |-> Pass1(file[i].id)]]

(* The files once there are first passes of all that the node wants first. *)
WithPass1Files(node) ==
  LET first == Qualified(dep[node], "f")
      files[i \in 0 .. Len(first)] ==
        IF i = 0 THEN dep
        ELSE Put(files[i - 1], Pass1(first[i].id),
                 Pass1File(files[i - 1], node, first[i].id))
  IN files[Len(first)]

(* Third loop: the node depends on a first pass of its dependency.         *)
FirstPass(node) ==
  /\ loop = "first" /\ node \in todo
  /\ dep' = [WithPass1Files(node) EXCEPT
               ![node] = ToPass1(@, Targets(Qualified(dep[node], "f")))]
  /\ todo' = todo \ {node}
  /\ UNCHANGED <<graph, loop>>

Finish ==
  /\ loop = "first" /\ todo = {}
  /\ loop' = "done"
  /\ UNCHANGED <<graph, dep, todo>>

Next ==
  \/ \E node \in todo :
       RemoveDangling(node) \/ GroupAfter(node) \/ FirstPass(node)
  \/ StartAfter
  \/ StartFirst
  \/ Finish

Spec == Init /\ [][Next]_vars

-------------------------------------------------------------------------------
Done == loop = "done"

InGraph == DOMAIN graph \ {Root}

(* The files are a graph that the third pass can start from: each line     *)
(* leads to a package, to a group or to a first pass of one of these.      *)
TypeOK ==
  /\ loop \in {"dangling", "after", "first", "done"}
  /\ todo \subseteq DOMAIN dep
  /\ GraphOn(dep, File, Root)

(* The output promised by clean_subgraph's comment: no dangling edges and  *)
(* no "after" qualifiers, also in the files the second and third loops     *)
(* create or change after the first has run.                               *)
CleanOutput ==
  Done => \A n \in DOMAIN dep : \A i \in 1 .. Len(dep[n]) :
            dep[n][i].id \in DOMAIN dep /\ dep[n][i].qual # "a"

-------------------------------------------------------------------------------
(***************************************************************************)
(* The promises that follow are kept under two conditions.  path_to is     *)
(* asked not to follow external dependencies, whatever the level, so that  *)
(* a group may be given to parents that only its members lead to.  And sed *)
(* changes all lines to a package, whatever their qualifiers.              *)
(***************************************************************************)
External(files) ==
  \E n \in DOMAIN files : \E i \in 1 .. Len(files[n]) : files[n][i].prio > 3

OneRole(files) ==
  \A n \in DOMAIN files : \A i, j \in 1 .. Len(files[n]) :
    files[n][i].id = files[n][j].id => files[n][i].qual = files[n][j].qual

(* The graph without the lines that have a qualifier.                      *)
WithoutQualifier(files, q) ==
  [n \in DOMAIN files |->
     Kept(files[n], {i \in DOMAIN files[n] : files[n][i].qual # q})]

(* "The only safe way to consider "after" qualifiers is to consider that   *)
(* they are "before" deps for any parent of the packages considered": when *)
(* parent needs node before it and node runs with c, the parent waits for  *)
(* c, unless an "after" dependency of node leads to the parent.            *)
AfterServesParents ==
  Done /\ ~ External(graph) /\ OneRole(graph) =>
    \A parent \in DOMAIN graph, node \in InGraph :
      LET after == Targets(Qualified(graph[node], "a")) \cap InGraph
      IN /\ \E i \in 1 .. Len(graph[parent]) :
              graph[parent][i].id = node /\ graph[parent][i].qual # "a"
         /\ \A s \in after : ~ HasPath(graph, s, parent, 3)
         => \A c \in after : HasPath(dep, parent, c, 3)

(* Turning edges round cuts nothing off from root, if none is reached only *)
(* by "first" lines: each package is still led to, and so is the first     *)
(* pass of what it wants to be built first.                                *)
NothingLost ==
  Done /\ ~ External(graph) /\ OneRole(graph)
       /\ InGraph \subseteq Reachable(WithoutQualifier(graph, "f"), Root, 3) =>
    LET reached == Reachable(dep, Root, 3)
    IN \A p \in InGraph :
         /\ p \in reached
         /\ \A q \in Targets(Qualified(graph[p], "f")) \cap InGraph :
              {Pass1(q), Pass1(Group(q))} \cap reached # {}

(* Packages that depend on each other afterwards did so before without any *)
(* "after" dependency: turning those round closes no new cycle.            *)
NoNewCycle ==
  Done /\ ~ External(graph) =>
    LET before == WithoutQualifier(graph, "a")
    IN \A p, q \in InGraph :
         HasPath(dep, p, q, 3) /\ HasPath(dep, q, p, 3)
           => HasPath(before, p, q, 3) /\ HasPath(before, q, p, 3)

(* "First" lines become lines of weight 1, so that a path may get lighter  *)
(* than path_to found it, unless they were no heavier than w.              *)
FirstUpTo(files, w) ==
  \A n \in DOMAIN files : \A i \in 1 .. Len(files[n]) :
    files[n][i].qual = "f" => files[n][i].prio <= w

(* A package wanted first that itself wants one first.  Its first pass may *)
(* be older than what the third loop makes of its own file, and lead on to *)
(* what that has been cut off from.                                        *)
FirstOfFirst(files) ==
  \E n \in DOMAIN files : \E id \in Targets(Qualified(files[n], "f")) \cap DOMAIN files :
    Qualified(files[id], "f") # <<>>

(* A first pass is there to be built before its parent: nothing it still   *)
(* needs, by an edge of weight w, leads back to the parent by edges of     *)
(* weight at most w.                                                       *)
FirstBreaksCycle ==
  Done /\ ~ FirstOfFirst(graph) =>
    \A parent \in InGraph : \A node \in Targets(Qualified(graph[parent], "f")) :
      \A n \in {Pass1(node), Pass1(Group(node))}
                 \cap DOMAIN dep \cap Targets(dep[parent]) :
        \A i \in 1 .. Len(dep[n]) :
          LET w == dep[n][i].prio
          IN FirstUpTo(graph, w) => ~ HasPath(dep, dep[n][i].id, parent, w)
===============================================================================
