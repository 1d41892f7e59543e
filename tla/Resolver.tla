-------------------------------- MODULE Resolver --------------------------------
(***************************************************************************)
(* The dependency resolver as gen_pkg_book.sh runs it: the three passes    *)
(* Subgraph, CleanSubgraph and DepTree, one after the other on the files   *)
(* of the directory "dependencies", and the list of packages they result   *)
(* in.  generate_deps writes root.dep, and the script copies it to         *)
(* root.tree between the second pass and the third.                        *)
(***************************************************************************)
EXTENDS DepFiles, SequencesExt

CONSTANTS
  Package, Root, Book, Request, Level,  \* as in Subgraph
  SuffixOf, PartOf                      \* as in CleanSubgraph

VARIABLES
  pass,                                   \* the pass that is running
  dep,                                    \* the files <node>.dep
  book, target, level, calls,             \* Subgraph, its stack
  found, loop, todo,                      \* CleanSubgraph, its graph
  cleaned, tree, stack, ret, parentNode, mode, list, moves   \* DepTree

subgraphVars == <<book, target, level, calls>>
cleanVars == <<found, loop, todo>>
treeVars == <<cleaned, tree, stack, ret, parentNode, mode, list, moves>>
vars == <<pass, dep, subgraphVars, cleanVars, treeVars>>

Subgraph == INSTANCE Subgraph WITH stack <- calls

Clean == INSTANCE CleanSubgraph WITH Graph <- {}, graph <- found

(* The text of a name that sed "/x/d" finds in other names: where x was    *)
(* made with a suffix, so is every name that contains it.                  *)
NamePartOf ==
  LET Within(x, n) ==
        \/ Clean!Occurs(x, n)
        \/ \E m, k \in Clean!Node :
             x = Clean!Pass1(m) /\ n = Clean!Pass1(k)
               /\ \/ m = k
                  \/ <<m, k>> \in SuffixOf
                  \/ \E p, q \in Package :
                       <<p, q>> \in SuffixOf
                         /\ m = Clean!Group(p) /\ k = Clean!Group(q)
  IN {<<x, n>> \in Clean!File \X Clean!File : x # n /\ Within(x, n)}

Tree == INSTANCE DepTree
          WITH Node <- Clean!File, Graph <- {}, graph <- cleaned,
               PartOf <- NamePartOf

-------------------------------------------------------------------------------
Init ==
  /\ pass = "subgraph"
  /\ Subgraph!Init
  /\ found = <<>> /\ loop = "done" /\ todo = {}
  /\ cleaned = <<>> /\ tree = <<>> /\ stack = <<>> /\ ret = 0
  /\ parentNode = {} /\ mode = "build" /\ list = <<>> /\ moves = {}

GenerateSubgraph ==
  /\ pass = "subgraph"
  /\ Subgraph!Next
  /\ UNCHANGED <<pass, cleanVars, treeVars>>

StartClean ==
  /\ pass = "subgraph" /\ Subgraph!Done
  /\ pass' = "clean"
  /\ found' = dep
  /\ loop' = "dangling"
  /\ todo' = DOMAIN dep \ {Root}
  /\ UNCHANGED <<dep, subgraphVars, treeVars>>

CleanStep ==
  /\ pass = "clean"
  /\ Clean!Next
  /\ UNCHANGED <<pass, subgraphVars, treeVars>>

(* echo 1 > root.tree, echo 1 >> root.tree, cat root.dep >> root.tree.     *)
RootTreeEarly ==  \* mutant: a copy of root.dep made before clean_subgraph
  [link |-> <<1>>, prios |-> <<1>>, body |-> found[Root]]

RootTree == [link |-> <<1>>, prios |-> <<1>>, body |-> dep[Root]]

StartTree ==
  /\ pass = "clean" /\ Clean!Done
  /\ pass' = "tree"
  /\ cleaned' = dep
  /\ tree' = [n \in {Root} |-> RootTree]
  /\ stack' = <<[node |-> Root, pos |-> 0, remove |-> <<>>]>>
  /\ UNCHANGED <<dep, subgraphVars, cleanVars, ret, parentNode, mode, list, moves>>

TreeStep ==
  /\ pass = "tree"
  /\ Tree!Next
  /\ UNCHANGED <<pass, subgraphVars, cleanVars>>

Next ==
  GenerateSubgraph \/ StartClean \/ CleanStep \/ StartTree \/ TreeStep

Spec == Init /\ [][Next]_vars

(* A sequential program: it takes a step when it can.                      *)
FairSpec == Spec /\ WF_vars(Next)

-------------------------------------------------------------------------------
Done == pass = "tree" /\ Tree!Done

Selected == DOMAIN found \ {Root}

(* The packages that are built themselves, not only in a first pass.       *)
Built == Tree!Listed \cap Package

(* The first passes of a package that can occur in the list.               *)
FirstPasses(p) == {Clean!Pass1(p), Clean!Pass1(Clean!Group(p))}

(* What the user asked for is in the list: the requested packages, and     *)
(* with every package, each dependency that DEP_LEVEL selects, in the      *)
(* order required or not; of a "first" dependency at least the first pass. *)
RequestsBuilt ==
  Done /\ ~ Tree!Ambiguous =>
    /\ Subgraph!Requested \subseteq Built
    /\ \A p \in Built : \A i \in 1 .. Len(book[p]) :
         book[p][i].prio <= Subgraph!Bound(p) =>
           IF book[p][i].qual = "f"
           THEN FirstPasses(book[p][i].id) \cap Tree!Listed # {}
           ELSE book[p][i].id \in Built

(* A package is built after each dependency of it in the list that does    *)
(* not lead back to it.  A mere runtime dependency need not be built       *)
(* before, and of a first dependency the first pass is.                    *)
DependenciesFirst ==
  Done /\ ~ Tree!Relisted =>
    \A p \in Built : \A i \in 1 .. Len(book[p]) :
      LET q == book[p][i].id
      IN q \in Selected /\ ~ HasPath(found, q, p, 4) =>
           CASE book[p][i].qual = "b" -> Tree!Before(q, p)
             [] book[p][i].qual = "f" ->
                  \E n \in FirstPasses(q) : Tree!Before(n, p)
             [] OTHER -> TRUE

(* A package that needs another finds it usable: its runtime dependencies  *)
(* are built before, those that do not lead back to the package.           *)
RuntimeFirst ==
  Done /\ ~ Tree!Relisted =>
    \A p \in Built : \A i \in 1 .. Len(book[p]) :
      LET q == book[p][i].id
          runtime == Targets(Clean!Qualified(book[q], "a")) \cap Selected
      IN /\ book[p][i].qual = "b" /\ q \in Selected
         /\ \A r \in runtime \cup {q} : ~ HasPath(found, r, p, 4)
         => \A r \in runtime : Tree!Before(r, p)

(* The resolver ends with a list, or with that message.                    *)
Terminates == <>(Done \/ mode = "exit")
===============================================================================
