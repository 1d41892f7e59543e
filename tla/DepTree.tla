-------------------------------- MODULE DepTree --------------------------------
(***************************************************************************)
(* Pass 3 of the dependency resolver: generate_dependency_tree, with       *)
(* tree_erase, and tree_browse, which lists the packages in build order.   *)
(*                                                                         *)
(* A file <node>.tree starts with the link of the node, the position of    *)
(* its line in each of the files on the way from root, and with the        *)
(* weights of those lines (its priolink); the lines of <node>.dep follow.  *)
(* The file of a node without dependencies has the link only.  Each        *)
(* recursive call is a frame of "stack"; the actions are the turns of its  *)
(* while loop, its return, and what its caller does with a return value    *)
(* that is not 0.                                                          *)
(***************************************************************************)
EXTENDS DepFiles, SequencesExt

CONSTANTS
  Node,       \* the names of the nodes
  Root,       \* the special node "root"
  Graph,      \* the possible results of clean_subgraph
  PartOf      \* <<p, q>>: p # q and the name of q contains that of p

ASSUME DepTreeAssumption ==
  /\ Root \in Node
  /\ \A g \in Graph : GraphOn(g, Node, Root)
  /\ PartOf \subseteq Node \X Node

ASSUME FiniteAssumption == IsFiniteSet(Node)

VARIABLES
  graph,      \* the files <node>.dep that clean_subgraph left
  dep,        \* the files <node>.dep
  tree,       \* the files <node>.tree: [link, prios, body]
  stack,      \* the calls in progress: [node, pos, remove], where pos is the
              \* number of lines read and remove the lines that are flagged
  ret,        \* the value just returned to the last of them, 0 if none
  parentNode, \* the files whose name is in the variable parentNode
  mode,       \* "build", then "browse", then "done"; or "exit"
  list,       \* what tree_browse has printed
  moves       \* history: the dependencies moved, [id, to, again]: the files
              \* written to, and whether one of them listed it already

vars == <<graph, dep, tree, stack, ret, parentNode, mode, list, moves>>

-------------------------------------------------------------------------------
Depth == Len(stack)
Top == stack[Depth]
Body == tree[Top.node].body
Link == tree[Top.node].link
Prios == tree[Top.node].prios

(* The line being read, and the line that was read last.                   *)
MoreLines == stack # <<>> /\ Top.pos < Len(Body)
Current == Body[Top.pos + 1]
LineRead == Body[Top.pos]

(* Is there a file <id>.tree for the line, and is it that of a call in     *)
(* progress, "cir. dep"?  The code compares the links.                     *)
Seen == Current.id \in DOMAIN tree
OtherLink == tree[Current.id].link
CircularSibling == IsPrefix(Front(OtherLink), Link)  \* mutant

Circular == IsPrefix(OtherLink, Link)

(* The greatest weight in the cycle the line would close, but for the line.*)
CycleInner ==  \* mutant: an edge too few
  Max({0} \cup {Prios[i] : i \in Len(OtherLink) + 2 .. Len(Link)})

CycleWeight ==
  Max({0} \cup {Prios[i] : i \in Len(OtherLink) + 1 .. Len(Link)})

(* Is the line at least as heavy as the rest of the cycle?                 *)
StrongestLine == Current.prio <= CycleWeight  \* mutant

WeakestLine == Current.prio >= CycleWeight

(* parentNode: "the node which has an edge entering the cycle".  It is     *)
(* found by its link, in either of the first two lines of any file.        *)
EnteringAt(link) ==
  {n \in DOMAIN tree : link \in {tree[n].link, tree[n].prios}}

ParentOfCycle == EnteringAt(Front(OtherLink))

(* sed "/id/d": every line that contains the name is deleted.              *)
Delete(file, id) ==
  Without(file, {id} \cup {n \in Node : <<id, n>> \in PartOf})

(* The files once the file being read has lost its lines to id.            *)
Cut(id) == [dep EXCEPT ![Top.node] = Delete(@, id)]

Step == [stack EXCEPT ![Depth].pos = @ + 1]
StepRemoving(id) ==
  [stack EXCEPT ![Depth].pos = @ + 1, ![Depth].remove = Append(@, id)]

Init ==
  /\ graph \in Graph
  /\ dep = graph
  /\ tree = [n \in {Root} |->
               [link |-> <<1>>, prios |-> <<1>>, body |-> graph[Root]]]
  /\ stack = <<[node |-> Root, pos |-> 0, remove |-> <<>>]>>
  /\ ret = 0
  /\ parentNode = {}
  /\ mode = "build"
  /\ list = <<>>
  /\ moves = {}

Building == mode = "build" /\ ret = 0

(* "This should not happen, but happens to happen...": exit 1.             *)
EmptyLink ==
  /\ Building /\ MoreLines /\ Seen
  /\ OtherLink = <<>>
  /\ mode' = "exit"
  /\ UNCHANGED <<graph, dep, tree, stack, ret, parentNode, list, moves>>

(* A circular dependency through a line at least as heavy as the rest of   *)
(* the cycle: the line is dropped for good.                                *)
PruneRestarting ==  \* mutant: the file is read again once it is changed
  /\ Building /\ MoreLines /\ Seen
  /\ OtherLink # <<>> /\ Circular
  /\ WeakestLine
  /\ stack' = [stack EXCEPT ![Depth].pos = 0]
  /\ dep' = Cut(Current.id)
  /\ UNCHANGED <<graph, tree, ret, parentNode, mode, list, moves>>

Prune ==
  /\ Building /\ MoreLines /\ Seen
  /\ OtherLink # <<>> /\ Circular
  /\ WeakestLine
  /\ stack' = StepRemoving(Current.id)
  /\ dep' = Cut(Current.id)
  /\ UNCHANGED <<graph, tree, ret, parentNode, mode, list, moves>>

(* A circular dependency with a heavier edge elsewhere in the cycle: the   *)
(* calls return down to that edge.                                         *)
BackUp ==
  /\ Building /\ MoreLines /\ Seen
  /\ OtherLink # <<>> /\ Circular
  /\ ~ WeakestLine
  /\ ret' = CycleWeight
  /\ parentNode' = ParentOfCycle
  /\ stack' = Front(stack)
  /\ UNCHANGED <<graph, dep, tree, mode, list, moves>>

(* Built already, and no cycle: the line is only dropped from the tree.    *)
BuiltElsewhereKept ==  \* mutant: the line stays in the tree
  /\ Building /\ MoreLines /\ Seen
  /\ OtherLink # <<>> /\ ~ Circular
  /\ stack' = Step
  /\ UNCHANGED <<graph, dep, tree, ret, parentNode, mode, list, moves>>

BuiltElsewhere ==
  /\ Building /\ MoreLines /\ Seen
  /\ OtherLink # <<>> /\ ~ Circular
  /\ stack' = StepRemoving(Current.id)
  /\ UNCHANGED <<graph, dep, tree, ret, parentNode, mode, list, moves>>

HasLines(n) == n \in DOMAIN dep /\ dep[n] # <<>>

(* A dependency without dependencies: only its link is recorded.           *)
Leaf ==
  /\ Building /\ MoreLines /\ ~ Seen
  /\ ~ HasLines(Current.id)
  /\ tree' = Put(tree, Current.id,
                 [link |-> Append(Link, Top.pos + 1), prios |-> <<>>,
                  body |-> <<>>])
  /\ stack' = Step
  /\ UNCHANGED <<graph, dep, ret, parentNode, mode, list, moves>>

(* A dependency with dependencies: recursive call.                         *)
Descend ==
  /\ Building /\ MoreLines /\ ~ Seen
  /\ HasLines(Current.id)
  /\ tree' = Put(tree, Current.id,
                 [link |-> Append(Link, Top.pos + 1),
                  prios |-> Append(Prios, Current.prio),
                  body |-> dep[Current.id]])
  /\ stack' = Append(Step, [node |-> Current.id, pos |-> 0, remove |-> <<>>])
  /\ UNCHANGED <<graph, dep, ret, parentNode, mode, list, moves>>

(* At the end of the file, for each line to be removed, sed deletes the    *)
(* last "before" line with that target; without one, it is given no line   *)
(* number and deletes everything, the link as well.                        *)
BeforeLines(body, id) ==
  {i \in 1 .. Len(body) : body[i].id = id /\ body[i].qual = "b"}

RemoveLast(body, id) ==
  IF BeforeLines(body, id) = {} THEN <<>>
  ELSE RemoveAt(body, Max(BeforeLines(body, id)))

(* The lines left after each of the deletions.                             *)
Removing(body, ids) ==
  LET left[k \in 0 .. Len(ids)] ==
        IF k = 0 THEN body ELSE RemoveLast(left[k - 1], ids[k])
  IN left

Removed(body, ids) == Removing(body, ids)[Len(ids)]

Emptied(body, ids) ==
  \E k \in 1 .. Len(ids) : BeforeLines(Removing(body, ids)[k - 1], ids[k]) = {}

(* A file with the same link and priolink, but other lines.                *)
WithBody(file, body) == [link |-> file.link, prios |-> file.prios, body |-> body]

Return ==
  /\ Building /\ stack # <<>> /\ ~ MoreLines
  /\ tree' = [tree EXCEPT ![Top.node] =
                IF Emptied(Body, Top.remove)
                THEN [link |-> <<>>, prios |-> <<>>, body |-> <<>>]
                ELSE WithBody(@, Removed(Body, Top.remove))]
  /\ stack' = Front(stack)
  /\ UNCHANGED <<graph, dep, ret, parentNode, mode, list, moves>>

(* tree_erase: the file of the node, and those of the nodes listed in it   *)
(* whose link strictly extends its own, recursively.                       *)
Below(m) ==
  {k \in Targets(tree[m].body) \cap DOMAIN tree :
     IsStrictPrefix(tree[m].link, tree[k].link)}

Erased(n) == Closure([m \in DOMAIN tree |-> Below(m)], {n})

(* The files that the line of a moved dependency is appended to.  When the *)
(* link was found in several files, the two redirections are ambiguous and *)
(* nothing is written.                                                     *)
NoReceiver == {}  \* mutant: the dependency is removed, and not moved

Receivers == IF Cardinality(parentNode) = 1 THEN parentNode ELSE {}

(* Back at the edge that weighs as much as the cycle: its subtree is       *)
(* erased, and its target becomes a dependency of the parent of the cycle. *)
Move ==
  /\ mode = "build" /\ ret # 0 /\ stack # <<>>
  /\ LineRead.prio = ret
  /\ LET id == LineRead.id
         move(file) == Append(file, [prio |-> ret, qual |-> "b", id |-> id])
         kept == [n \in DOMAIN tree \ Erased(id) |-> tree[n]]
         cut == Cut(id)
     IN /\ tree' = [n \in DOMAIN kept |->
                      IF n \in Receivers
                      THEN WithBody(kept[n], move(kept[n].body)) ELSE kept[n]]
        /\ dep' = [n \in DOMAIN cut |->
                     IF n \in Receivers THEN move(cut[n]) ELSE cut[n]]
        /\ stack' = [stack EXCEPT ![Depth].remove = Append(@, id)]
        /\ moves' = moves \cup
             {[id |-> id, to |-> parentNode,
               again |-> \E n \in parentNode : id \in Targets(tree[n].body)]}
  /\ ret' = 0
  /\ UNCHANGED <<graph, parentNode, mode, list>>

(* Any other edge: "We are backing up".                                    *)
KeepBackingUp ==
  /\ mode = "build" /\ ret # 0 /\ stack # <<>>
  /\ LineRead.prio # ret
  /\ stack' = Front(stack)
  /\ UNCHANGED <<graph, dep, tree, ret, parentNode, mode, list, moves>>

(* Every call has returned; tree_browse root.tree.                         *)
StartBrowse ==
  /\ mode = "build" /\ stack = <<>>
  /\ mode' = "browse"
  /\ stack' = <<[node |-> Root, pos |-> 0, remove |-> <<>>]>>
  /\ UNCHANGED <<graph, dep, tree, ret, parentNode, list, moves>>

(* Does grep find a line in the file <n>.tree that is not made of numbers? *)
HasBody(n) == n \in DOMAIN tree /\ tree[n].body # <<>>

BrowseDown ==
  /\ mode = "browse" /\ MoreLines
  /\ HasBody(Current.id)
  /\ stack' = Append(Step, [node |-> Current.id, pos |-> 0, remove |-> <<>>])
  /\ UNCHANGED <<graph, dep, tree, ret, parentNode, mode, list, moves>>

BrowseLeaf ==
  /\ mode = "browse" /\ MoreLines
  /\ ~ HasBody(Current.id)
  /\ list' = Append(list, Current.id)
  /\ stack' = Step
  /\ UNCHANGED <<graph, dep, tree, ret, parentNode, mode, moves>>

(* The node is printed after what it depends on; root is not.              *)
BrowseUp ==
  /\ mode = "browse" /\ stack # <<>> /\ ~ MoreLines
  /\ stack' = Front(stack)
  /\ list' = IF Depth = 1 THEN list ELSE Append(list, Top.node)
  /\ mode' = IF Depth = 1 THEN "done" ELSE mode
  /\ UNCHANGED <<graph, dep, tree, ret, parentNode, moves>>

Next ==
  \/ EmptyLink \/ Prune \/ BackUp \/ BuiltElsewhere \/ Leaf \/ Descend
  \/ Return \/ Move \/ KeepBackingUp
  \/ StartBrowse \/ BrowseDown \/ BrowseLeaf \/ BrowseUp

Spec == Init /\ [][Next]_vars

(* A sequential program: it takes a step when it can.                      *)
FairSpec == Spec /\ WF_vars(Next)

-------------------------------------------------------------------------------
Done == mode = "done"

Listed == {list[i] : i \in 1 .. Len(list)}

Before(p, q) ==
  \E i, j \in 1 .. Len(list) : i < j /\ list[i] = p /\ list[j] = q

(* The build order contains every package that root leads to in the graph, *)
(* and nothing else, whatever was erased and moved on the way.             *)
ListComplete ==
  Done => Listed = Reachable(graph, Root, 4) \ {Root}

(* "Remove cycles and generate a topological sort": a package comes after  *)
(* each of its dependencies that does not lead back to it.                 *)
TopologicalSort ==
  Done =>
    \A p \in Listed : \A i \in 1 .. Len(graph[p]) :
      LET q == graph[p][i].id
      IN ~ HasPath(graph, q, p, 4) => Before(q, p)

(* "The algorithm chooses the chain with the highest priority": a package  *)
(* comes after each of its dependencies, unless that leads back to it by   *)
(* edges at least as important, whose weights are at most w.               *)
HighestPriority(w) ==
  \A p \in Listed : \A i \in {j \in 1 .. Len(graph[p]) : graph[p][j].prio <= w} :
    LET q == graph[p][i].id
    IN ~ HasPath(graph, q, p, graph[p][i].prio) => Before(q, p)

-------------------------------------------------------------------------------
(***************************************************************************)
(* The promises above do not hold of every graph.  What follows says when  *)
(* they hold.                                                              *)
(***************************************************************************)
Ambiguous == \E m \in moves : Cardinality(m.to) # 1
Relisted == \E m \in moves : m.again

(* A file that has lost its link and all its lines.                        *)
Wiped == \E n \in DOMAIN tree : tree[n].link = <<>>

(* Only an ambiguous redirection loses a package, or a file that is wiped  *)
(* because a line to be removed from it is not a "before" line: otherwise, *)
(* the erasing, moving and rebuilding of subtrees loses and adds nothing.  *)
CompleteUnlessAmbiguous ==
  ~ Ambiguous /\ ~ Wiped => ListComplete

(* The order is wrong only after a package was moved to a file that listed *)
(* it already, of whose lines the wrong one is then removed; even with     *)
(* cycles, required dependencies come first until then.                    *)
SortedUnlessRelisted ==
  Done /\ ~ Relisted => TopologicalSort /\ HighestPriority(1)

(* A chain wins against a more important one only after a move, because a  *)
(* line that is moved gets the weight of one edge for that of a chain.     *)
StrongestUnlessMoved ==
  Done /\ moves = {} => HighestPriority(4)

(* A dependency is taken to be circular, by comparing links, exactly when  *)
(* its call is in progress.                                                *)
CircularIsOpen ==
  Building /\ MoreLines /\ Seen /\ OtherLink # <<>> =>
    (Circular <=> \E i \in 1 .. Depth : stack[i].node = Current.id)

(* No package is built twice, although files list a package several times, *)
(* and list again what was moved.                                          *)
BuiltOnce ==
  \A i, j \in 1 .. Len(list) : list[i] = list[j] => i = j

(* The pass ends, although subtrees are erased and built again.            *)
Terminates == <>(Done \/ mode = "exit")
===============================================================================
