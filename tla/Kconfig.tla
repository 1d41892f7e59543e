-------------------------------- MODULE Kconfig --------------------------------
(***************************************************************************)
(* The menu as menu/kconfiglib.py holds it: expressions, the tree of menu  *)
(* nodes as it is parsed, and what _finalize_tree makes of it: the         *)
(* dependencies of the parents added to the properties of the children,    *)
(* implicit submenus, choices with their symbols, and for each symbol the  *)
(* properties collected from all its locations.                            *)
(*                                                                         *)
(* A parsed menu is a tree of records (ParsedNode).  The finalized menu is *)
(* a record of functions: its nodes, symbols, choices and dependencies.    *)
(***************************************************************************)
EXTENDS Integers, SequencesExt

-------------------------------------------------------------------------------
(* Expressions.  The values n, m and y are 0, 1 and 2.                     *)

Const(v) == [op |-> "const", val |-> v]
Ref(i)   == [op |-> "item", item |-> i]     \* a symbol, or the mode of a choice
Not(e)   == [op |-> "not", arg |-> e]
And(e, f) == [op |-> "and", left |-> e, right |-> f]
Or(e, f)  == [op |-> "or", left |-> e, right |-> f]
Eq(e, f)  == [op |-> "eq", left |-> e, right |-> f]     \* relations: operands
Ne(e, f)  == [op |-> "ne", left |-> e, right |-> f]     \* are symbols, constants

N == Const(0)
M == Const(1)
Y == Const(2)
NoPrompt == [op |-> "no prompt"]     \* in the place of a prompt's condition

MakeAnd(e, f) ==
  IF e = Y THEN f ELSE IF f = Y THEN e ELSE IF N \in {e, f} THEN N ELSE And(e, f)

MakeOr(e, f) ==
  IF e = N THEN f ELSE IF f = N THEN e ELSE IF Y \in {e, f} THEN Y ELSE Or(e, f)

(* _make_depend_on: the symbols and choices of an expression.              *)
RECURSIVE Items(_)
Items(e) ==
  CASE e.op = "item" -> {e.item}
    [] e.op = "not"  -> Items(e.arg)
    [] e.op \in {"and", "or", "eq", "ne"} -> Items(e.left) \cup Items(e.right)
    [] OTHER -> {}

(* _expr_depends_on: e is false when s is n, as far as one can see.        *)
RECURSIVE ExprDependsOn(_, _)
ExprDependsOn(e, s) ==
  CASE e.op = "item" -> e.item = s
    [] e.op = "and"  -> ExprDependsOn(e.left, s) \/ ExprDependsOn(e.right, s)
    [] e.op \in {"eq", "ne"} ->
         \E o \in {<<e.left, e.right>>, <<e.right, e.left>>} :
           /\ o[1] = Ref(s)
           /\ o[2] = Y \/ (e.op = "eq" /\ o[2] = M) \/ (e.op = "ne" /\ o[2] = N)
    [] OTHER -> FALSE

-------------------------------------------------------------------------------
(* The tree.  A node has the fields                                        *)
(*   kind      "symbol", "choice", "menu", "comment" or "if"               *)
(*   item      the name of the symbol or choice, "" for the others         *)
(*   prompt    the condition of the prompt, or NoPrompt                    *)
(*   dep       the condition of depends on; of an if                       *)
(*   visible   the condition of visible if, of a menu                      *)
(*   defaults  pairs of an expression (for a choice a symbol's name) and a *)
(*             condition                                                   *)
(*   ranges    triples of two expressions and a condition                  *)
(*   selects, implies   pairs of a symbol's name and a condition           *)
(*   list      the sequence of the nodes in it                             *)
(* and type, optional (choices), auto (a value that comes from the         *)
(* environment) and menuconfig.                                            *)

WithCond(props, dep) ==
  [i \in DOMAIN props |->
     [props[i] EXCEPT ![Len(props[i])] = MakeAnd(@, dep)]]

(* _propagate_deps                                                         *)
Propagated(node, visible) ==
  LET base == IF node.kind = "choice" THEN Ref(node.item) ELSE node.dep
  IN  [i \in DOMAIN node.list |->
         LET c == node.list[i]
             dep == MakeAnd(c.dep, base)
             limit == IF c.kind \in {"symbol", "choice"}
                      THEN MakeAnd(visible, dep) ELSE dep
         IN  [c EXCEPT
                !.dep = dep,
                !.prompt = IF @ = NoPrompt THEN @ ELSE MakeAnd(@, limit),
                !.defaults = WithCond(@, dep), !.ranges  = WithCond(@, dep),
                !.selects  = WithCond(@, dep), !.implies = WithCond(@, dep)]]

(* _auto_menu_dep: a symbol has those that follow and depend on it below.  *)
AutoMenuDep(node, next) ==
  ExprDependsOn(IF next.prompt = NoPrompt THEN next.dep ELSE next.prompt,
                node.item)

(* _flatten: what is below a node without a prompt comes after it.         *)
Flatten(list) ==
  FlattenSeq([i \in DOMAIN list |->
    LET c == list[i]
    IN  IF c.prompt = NoPrompt /\ c.kind # "choice"
        THEN <<[c EXCEPT !.list = <<>>]>> \o c.list ELSE <<c>>])

RemoveIfs(list) == SelectSeq(list, LAMBDA c : c.kind # "if")

(* _finalize_tree.  FinalizeFirst takes the first node of a list, and with *)
(* it the nodes behind it that go into its implicit submenu.               *)
RECURSIVE FinalizeList(_, _), FinalizeFirst(_, _), AutoMenu(_, _, _)

FinalizeParent(node, visible) ==
  LET v == IF node.kind = "menu" THEN MakeAnd(visible, node.visible) ELSE visible
  IN  [node EXCEPT
         !.list = RemoveIfs(Flatten(FinalizeList(Propagated(node, v), v)))]

AutoMenu(node, list, visible) ==
  IF list = <<>> \/ (list # <<>> /\ ~AutoMenuDep(node, Head(list)))
  THEN [list |-> <<>>, rest |-> list]
  ELSE LET first == FinalizeFirst(list, visible)
           more  == AutoMenu(node, first.rest, visible)
       IN  [list |-> <<first.node>> \o more.list, rest |-> more.rest]

FinalizeFirst(list, visible) ==
  LET node == Head(list)
      sub  == AutoMenu(node, Tail(list), visible)
  IN  CASE node.list # <<>> ->
             [node |-> FinalizeParent(node, visible), rest |-> Tail(list)]
        [] node.list = <<>> /\ node.kind = "symbol" ->
             [node |-> [node EXCEPT !.list = RemoveIfs(Flatten(sub.list))],
              rest |-> sub.rest]
        [] OTHER -> [node |-> node, rest |-> Tail(list)]

FinalizeList(list, visible) ==
  IF list = <<>> THEN <<>>
  ELSE LET first == FinalizeFirst(list, visible)
       IN  <<first.node>> \o FinalizeList(first.rest, visible)

-------------------------------------------------------------------------------
(* _lookup_sym, as the parser calls it: the symbols that a node and what   *)
(* is in it mention, defined or not.  Names are strings where they are     *)
(* defined, selected or implied, or are the default of a choice.           *)
RECURSIVE Mentioned(_)
Mentioned(node) ==
  LET props == ToSet(node.defaults) \cup ToSet(node.ranges)
                 \cup ToSet(node.selects) \cup ToSet(node.implies)
      conditions == {p[Len(p)] : p \in props}
      values == IF node.kind = "choice" THEN {}
                ELSE {d[1] : d \in ToSet(node.defaults)}
                       \cup UNION {{r[1], r[2]} : r \in ToSet(node.ranges)}
      names == {p[1] : p \in ToSet(node.selects) \cup ToSet(node.implies)}
                 \cup (CASE node.kind = "symbol" -> {node.item}
                        [] node.kind = "choice" -> {d[1] : d \in ToSet(node.defaults)}
                        [] OTHER -> {})
  IN  names \cup UNION {Items(e) : e \in
                           {node.prompt, node.dep, node.visible} \cup conditions \cup values}
            \cup UNION {Mentioned(c) : c \in ToSet(node.list)}

-------------------------------------------------------------------------------
(* The nodes of a finalized tree, numbered in the order of the tree; the   *)
(* field parent is the number of the parent, 0 for the topmost node.       *)
RECURSIVE Numbered(_, _, _)
Numbered(list, parent, k) ==
  IF list = <<>> THEN <<>>
  ELSE LET below == Numbered(Head(list).list, k + 1, k + 1)
       IN  <<[node |-> Head(list), parent |-> parent]>> \o below
             \o Numbered(Tail(list), parent, k + 1 + Len(below))

(* The nodes of an item (Symbol.nodes, Choice.nodes) in this order.        *)
NodesOf(nodes, kind, i) ==
  SelectSeq(nodes, LAMBDA n : n.node.kind = kind /\ n.node.item = i)

Joined(nodes, Prop(_)) ==
  FlattenSeq([i \in DOMAIN nodes |-> Prop(nodes[i].node)])

Prompts(nodes) ==
  SelectSeq([i \in DOMAIN nodes |-> nodes[i].node.prompt],
            LAMBDA p : p # NoPrompt)

DirectDep(nodes) ==
  FoldLeft(LAMBDA e, n : MakeOr(e, n.node.dep), N, nodes)

(* _ordered_unique *)
ItemsOfKind(nodes, kind) ==
  FoldLeft(LAMBDA acc, n :
             IF n.node.kind # kind \/ Contains(acc, n.node.item) THEN acc
             ELSE Append(acc, n.node.item), <<>>, nodes)

(* _finalize_choice: the symbols directly below the choice are its symbols *)
ChoiceSyms(nodes, c) ==
  LET inside == SelectSeq(nodes, LAMBDA n :
                  /\ n.node.kind = "symbol" /\ n.parent > 0
                  /\ nodes[n.parent].node.kind = "choice"
                  /\ nodes[n.parent].node.item = c)
  IN  [i \in DOMAIN inside |-> inside[i].node.item]

TypeOf(nodes, types) ==
  LET known == SelectSeq(types, LAMBDA t : t # "unknown")
  IN  IF known = <<>> THEN "unknown" ELSE Head(known)

ChoiceRecord(nodes, c) ==
  LET own == NodesOf(nodes, "choice", c)
      syms == ChoiceSyms(nodes, c)
      Types(ns) == [i \in DOMAIN ns |-> ns[i].node.type]
  IN  [syms |-> syms,
       type |-> TypeOf(nodes, Types(own) \o
                  FlattenSeq([i \in DOMAIN syms |->
                    Types(NodesOf(nodes, "symbol", syms[i]))])),
       optional |-> \E i \in DOMAIN own : own[i].node.optional,
       prompts |-> Prompts(own),
       defaults |-> Joined(own, LAMBDA n : n.defaults)]

(* rev_dep and weak_rev_dep: what selects or implies the symbol s.         *)
RevDep(nodes, Prop(_), s) ==
  FoldLeft(LAMBDA e, n :
    FoldLeft(LAMBDA f, p :
               IF p[1] = s THEN MakeOr(f, MakeAnd(Ref(n.node.item), p[2])) ELSE f,
             e, Prop(n.node)),
    N, SelectSeq(nodes, LAMBDA n : n.node.kind = "symbol"))

(* _add_props_to_sym *)
SymRecord(nodes, s, choice) ==
  LET own == NodesOf(nodes, "symbol", s)
      in  == {c \in DOMAIN choice : Contains(choice[c].syms, s)}
      its == TypeOf(nodes, [i \in DOMAIN own |-> own[i].node.type])
  IN  [choice   |-> IF in = {} THEN "" ELSE CHOOSE c \in in : TRUE,
       type     |-> IF its = "unknown" /\ in # {}
                    THEN choice[CHOOSE c \in in : TRUE].type ELSE its,
       prompts  |-> Prompts(own),
       defaults |-> Joined(own, LAMBDA n : n.defaults),
       ranges   |-> Joined(own, LAMBDA n : n.ranges),
       dep      |-> DirectDep(own),
       rev      |-> RevDep(nodes, LAMBDA n : n.selects, s),
       weak     |-> RevDep(nodes, LAMBDA n : n.implies, s),
       auto     |-> \E i \in DOMAIN own : own[i].node.auto]

-------------------------------------------------------------------------------
(* _build_dep: the items whose values may change with the value of item i. *)
Conditions(props) == UNION {Items(props[i][Len(props[i])]) : i \in DOMAIN props}

PromptItems(r) == UNION {Items(r.prompts[i]) : i \in DOMAIN r.prompts}

DependsOn(k, i) ==
  IF i \in DOMAIN k.choice
  THEN PromptItems(k.choice[i]) \cup Conditions(k.choice[i].defaults)
  ELSE LET s == k.sym[i]
       IN  PromptItems(s) \cup Conditions(s.defaults) \cup Conditions(s.ranges)
             \cup UNION {Items(s.defaults[d][1]) : d \in DOMAIN s.defaults}
             \cup UNION {Items(s.ranges[r][1]) \cup Items(s.ranges[r][2]) :
                         r \in DOMAIN s.ranges}
             \cup Items(s.rev) \cup Items(s.weak) \cup Items(s.dep)

ItemsOf(k) == DOMAIN k.sym \cup DOMAIN k.choice

Dependents(k) ==
  [i \in ItemsOf(k) |-> {j \in ItemsOf(k) : i \in DependsOn(k, j)}]

(* _add_choice_deps: a choice depends on its symbols.                      *)
WithChoiceDeps(k, dependents) ==
  [i \in DOMAIN dependents |->
     dependents[i] \cup {c \in DOMAIN k.choice : Contains(k.choice[c].syms, i)}]

-------------------------------------------------------------------------------
(* Kconfig.__init__: the topmost node is a menu, finalized as one.  Loops  *)
(* are looked for in the dependencies before the choices get theirs.       *)
(* MODULES is among the symbols (syms) of every menu.                      *)
Finalize(top) ==
  LET nodes == Numbered(<<FinalizeParent(top, Y)>>, 0, 0)
      choices == ItemsOfKind(nodes, "choice")
      defined == ItemsOfKind(nodes, "symbol")
      choice == [c \in ToSet(choices) |-> ChoiceRecord(nodes, c)]
      items == [choice |-> choice,
                sym |-> [s \in ToSet(defined) |-> SymRecord(nodes, s, choice)]]
      checked == Dependents(items)
  IN  [node |-> [i \in DOMAIN nodes |->
                   [kind |-> nodes[i].node.kind, item |-> nodes[i].node.item,
                    prompt |-> nodes[i].node.prompt, dep |-> nodes[i].node.dep,
                    visible |-> nodes[i].node.visible,
                    menuconfig |-> nodes[i].node.menuconfig,
                    parent |-> nodes[i].parent]],
       defined |-> defined, choices |-> choices,
       syms |-> {"MODULES"} \cup Mentioned(top),
       sym |-> items.sym, choice |-> choice,
       checked |-> checked, dependents |-> WithChoiceDeps(items, checked)]
===============================================================================
