---------------------------------- MODULE Loops ----------------------------------
(***************************************************************************)
(* The search for dependency loops at the start of the menu's programs     *)
(* (_check_dep_loop_sym and _check_dep_loop_choice, called for each symbol *)
(* by Kconfig.__init__), whatever the items and their dependencies are.    *)
(*                                                                         *)
(* A call first goes to the dependents of a symbol, in any order, and then *)
(* to its choice; a call for a choice goes to its symbols, except the one  *)
(* it came from.  The calls in progress are the frames of "calls".         *)
(***************************************************************************)
EXTENDS Naturals, Sequences

CONSTANTS
  Menus       \* a set of menus: the symbols, the choices, "checked", which
              \* is _dependents of each item as _build_dep leaves them, and
              \* "defined", the list unique_defined_syms

Vertices(k) == DOMAIN k.sym \cup DOMAIN k.choice
Elements(list) == {list[n] : n \in 1 .. Len(list)}

(* A symbol is in a choice or in none, which is "".                        *)
ASSUME MenusAssumption ==
  \A k \in Menus :
    /\ DOMAIN k.sym \cap DOMAIN k.choice = {}
    /\ "" \notin Vertices(k)
    /\ k.checked \in [Vertices(k) -> SUBSET Vertices(k)]
    /\ k.defined \in Seq(DOMAIN k.sym)
    /\ \A c \in DOMAIN k.choice : k.choice[c].syms \in Seq(DOMAIN k.sym)
    /\ \A s \in DOMAIN k.sym :
         k.sym[s].choice = "" \/ k.sym[s].choice \in DOMAIN k.choice

VARIABLES
  K,          \* the menu
  phase,      \* "check", then "ready", or "loop" when a loop is reported
  visited,    \* _visited of each item: 0, 1 (on the call stack), 2 (done)
  calls       \* the calls of _check_dep_loop_sym and _check_dep_loop_choice:
              \* the item, the dependents and the list of other items that
              \* are left to go to, and the symbol to skip

loopsVars == <<K, phase, visited, calls>>

LoopCall ==
  [item : Vertices(K), left : SUBSET Vertices(K), list : Seq(Vertices(K)),
   skip : DOMAIN K.sym \cup {""}]

LoopsTypeOK ==
  /\ K \in Menus
  /\ phase \in {"check", "ready", "loop"}
  /\ visited \in [Vertices(K) -> 0 .. 2]
  /\ calls \in Seq(LoopCall)

LoopsInit ==
  /\ K \in Menus
  /\ phase = "check"
  /\ visited = [i \in Vertices(K) |-> 0]
  /\ calls = <<>>

-------------------------------------------------------------------------------
(* A call for a symbol goes to its choice unless it comes from there.      *)
SymCallNoChoice(s, ignoreChoice) ==  \* mutant: choices are never entered
  [item |-> s, left |-> K.checked[s], list |-> <<>>, skip |-> ""]

SymCall(s, ignoreChoice) ==
  [item |-> s,
   left |-> K.checked[s],
   list |-> IF ignoreChoice \/ K.sym[s].choice = "" THEN <<>>
            ELSE <<K.sym[s].choice>>,
   skip |-> ""]

ChoiceCallAll(c, skip) ==  \* mutant: the symbol it came from is not skipped
  [item |-> c, left |-> {}, list |-> K.choice[c].syms, skip |-> ""]

ChoiceCall(c, skip) ==
  [item |-> c, left |-> {}, list |-> K.choice[c].syms, skip |-> skip]

(* From the stack "below" the search calls "call".  It returns at once for *)
(* an item that is done; for one that is on the stack, _found_dep_loop     *)
(* raises an exception with the loop.                                      *)
Visit(call, below) ==
  \/ /\ visited[call.item] = 0
     /\ visited' = [visited EXCEPT ![call.item] = 1]
     /\ calls' = Append(below, call)
     /\ UNCHANGED phase
  \/ /\ visited[call.item] = 1
     /\ phase' = "loop"
     /\ \E n \in 1 .. Len(below) :
          /\ below[n].item = call.item
          /\ calls' = SubSeq(below, n, Len(below))
     /\ UNCHANGED visited
  \/ /\ visited[call.item] = 2
     /\ calls' = below
     /\ UNCHANGED <<visited, phase>>

Checking == phase = "check" /\ calls # <<>>
TopCall == calls[Len(calls)]

(* Kconfig.__init__ goes through the defined symbols in order.             *)
Unvisited == {n \in 1 .. Len(K.defined) : visited[K.defined[n]] = 0}

CheckNext ==
  /\ phase = "check" /\ calls = <<>>
  /\ \E n \in Unvisited :
       /\ \A m \in Unvisited : n <= m
       /\ visited' = [visited EXCEPT ![K.defined[n]] = 1]
       /\ calls' = <<SymCall(K.defined[n], FALSE)>>
  /\ UNCHANGED <<K, phase>>

CheckEnds ==
  /\ phase = "check" /\ calls = <<>>
  /\ Unvisited = {}
  /\ phase' = "ready"
  /\ UNCHANGED <<K, visited, calls>>

CheckDependent ==
  /\ Checking
  /\ \E i \in TopCall.left :
       Visit(IF i \in DOMAIN K.sym THEN SymCall(i, FALSE) ELSE ChoiceCall(i, ""),
             [calls EXCEPT ![Len(calls)].left = @ \ {i}])
  /\ UNCHANGED K

(* A symbol goes to its choice, a choice to its symbols.                   *)
CheckListed ==
  /\ Checking
  /\ TopCall.left = {} /\ TopCall.list # <<>>
  /\ LET i == Head(TopCall.list)
         below == [calls EXCEPT ![Len(calls)].list = Tail(@)]
     IN  IF i = TopCall.skip THEN calls' = below /\ UNCHANGED <<visited, phase>>
         ELSE Visit(IF i \in DOMAIN K.sym THEN SymCall(i, TRUE)
                                          ELSE ChoiceCall(i, TopCall.item), below)
  /\ UNCHANGED K

CheckReturn ==
  /\ Checking
  /\ TopCall.left = {} /\ TopCall.list = <<>>
  /\ visited' = [visited EXCEPT ![TopCall.item] = 2]
  /\ calls' = SubSeq(calls, 1, Len(calls) - 1)
  /\ UNCHANGED <<K, phase>>

LoopsNext ==
  CheckNext \/ CheckEnds \/ CheckDependent \/ CheckListed \/ CheckReturn

LoopsSpec == LoopsInit /\ [][LoopsNext]_loopsVars

-------------------------------------------------------------------------------
(* The dependencies in which loops are looked for: of a symbol, all that   *)
(* depends on it, and of a choice its symbols only, not what else depends  *)
(* on it.                                                                  *)
Edges(i) ==
  IF i \in DOMAIN K.sym THEN K.checked[i] ELSE Elements(K.choice[i].syms)

(* A dependency, or a symbol and its choice.                               *)
Related(i, j) ==
  j \in Edges(i) \/ (i \in DOMAIN K.sym /\ j = K.sym[i].choice)

(* A loop that is reported is one: each item of it depends on the one      *)
(* before, or is a choice symbol or the choice of it, and it is not made   *)
(* of choices and their symbols only, "false positive" loops says the      *)
(* comment.                                                                *)
LoopIsReal ==
  phase = "loop" =>
    LET After(n) == IF n = Len(calls) THEN 1 ELSE n + 1
    IN  /\ \A n \in 1 .. Len(calls) : Related(calls[n].item, calls[After(n)].item)
        /\ \E n \in 1 .. Len(calls) :
             /\ calls[n].item \in DOMAIN K.sym
             /\ calls[After(n)].item \in K.checked[calls[n].item]

(* No loop is missed: when none was reported, there are no items, with a   *)
(* defined symbol among them, each of which leads to another of them.      *)
NoLoopMissed ==
  phase = "ready" =>
    \A S \in SUBSET Vertices(K) :
      S \cap Elements(K.defined) # {} => \E i \in S : Edges(i) \cap S = {}

(* A loop is reported exactly when there is one, although an item that is  *)
(* done is not searched again, and a choice that is entered from one of    *)
(* its symbols skips that.                                                 *)
LoopsFound == LoopIsReal /\ NoLoopMissed

-------------------------------------------------------------------------------
(* What the calls on the stack have to do with each other.                 *)
OnStack ==
  /\ \A i \in Vertices(K) :
       visited[i] = 1 <=> \E n \in 1 .. Len(calls) : calls[n].item = i
  /\ \A m, n \in 1 .. Len(calls) : calls[m].item = calls[n].item => m = n

IsSym(n) == calls[n].item \in DOMAIN K.sym

(* A call for a symbol has dependents of it left, at most its choice in    *)
(* the list, and nothing to skip; a call for a choice goes to its symbols. *)
CallOK(f) ==
  IF f.item \in DOMAIN K.sym
  THEN /\ f.skip = ""
       /\ f.left \subseteq K.checked[f.item]
       /\ f.list # <<>> => f.list = <<K.sym[f.item].choice>>
  ELSE /\ f.left = {}
       /\ Elements(f.list) \subseteq Elements(K.choice[f.item].syms)

(* The call g was made from f in one of three ways: for a dependent, from  *)
(* a symbol to its choice, or from a choice to a symbol of it.             *)
From(f, g) ==
  IF f.item \in DOMAIN K.sym
  THEN \/ g.skip = "" /\ g.item \in K.checked[f.item]
       \/ g.skip = f.item /\ f.left = {} /\ g.item = K.sym[f.item].choice
  ELSE /\ g.item \in DOMAIN K.sym \cap Elements(K.choice[f.item].syms)
       /\ g.list = <<>>

(* The first call is for a symbol, and one that was made from a choice     *)
(* does not go back to it.                                                 *)
Linked(list) ==
  /\ \A n \in 1 .. Len(list) : CallOK(list[n])
  /\ \A n \in 1 .. Len(list) - 1 : From(list[n], list[n + 1])
  /\ Len(list) > 0 => list[1].item \in DOMAIN K.sym
  /\ \A n \in 1 .. Len(list) - 2 :
       \/ list[n].item \in DOMAIN K.sym
       \/ list[n + 2].item \in K.checked[list[n + 1].item]

(* A symbol is searched as soon as its dependents are, while the search of *)
(* its choice goes on.                                                     *)
Searched ==
  {i \in Vertices(K) : visited[i] = 2}
  \cup {calls[n].item : n \in {m \in 1 .. Len(calls) :
          /\ IsSym(m) /\ calls[m].left = {}
          /\ m = Len(calls) \/ calls[m + 1].skip = calls[m].item}}

(* What a call has gone through is searched, but for what it is at.        *)
Gone ==
  \A n \in 1 .. Len(calls) :
    LET at == IF n = Len(calls) THEN {} ELSE {calls[n + 1].item}
    IN  IF IsSym(n)
        THEN K.checked[calls[n].item] \ calls[n].left \subseteq Searched \cup at
        ELSE Edges(calls[n].item) \ Elements(calls[n].list) \subseteq Searched \cup at

(* Items that lead to each other only, and none of which leads to itself.  *)
LoopFree(D) ==
  /\ \A i \in D : Edges(i) \subseteq D
  /\ \A S \in SUBSET D : S # {} => \E i \in S : Edges(i) \cap S = {}

LoopsInv ==
  /\ LoopsTypeOK
  /\ phase # "loop" => OnStack /\ Linked(calls) /\ Gone /\ LoopFree(Searched)
  /\ phase = "ready" => calls = <<>> /\ Unvisited = {}
  /\ LoopIsReal
===============================================================================
