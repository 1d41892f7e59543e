---------------------------------- MODULE Symbols ----------------------------------
(***************************************************************************)
(* The symbols and choices of a menu while a program uses them: the start  *)
(* (Kconfig.__init__ after parsing), which builds the dependencies and     *)
(* looks for loops in them, and then any sequence of calculations of       *)
(* attributes and of set_value and unset_value, with their invalidations.  *)
(*                                                                         *)
(* A calculation is a step per attribute, from the innermost outwards: a   *)
(* call from outside for one attribute is the sequence of the steps for    *)
(* all attributes it needs.                                                *)
(*                                                                         *)
(* The items with cached values, what these were calculated from and the   *)
(* calls of _rec_invalidate are those of Invalidation, which this module   *)
(* implements with the values in "cache".                                  *)
(***************************************************************************)
EXTENDS Values, Loops, Invalidation

CONSTANTS
  Numbers,    \* the values given to symbols that are not bool or tristate
  Asked       \* bound: the items whose "assignable" the program asks for

(* Item has the names of all items of the menus.                           *)
ASSUME ItemAssumption == \A k \in Menus : ItemsOf(k) \subseteq Item
ASSUME ModulesAssumption == Modules = MODULES

VARIABLES
  user,       \* user values
  cache       \* cached attributes

checking == <<phase, visited, calls>>
caches == <<cache, cached, reads, stack>>
vars == <<loopsVars, user, cache, invalidationVars>>

W == [k |-> K, user |-> user, cache |-> cache]

SetOfInputs(s) ==
  IF K.sym[s].type \in BoolTristate THEN 0 .. 2 ELSE Numbers \cup {Empty}

DependentsWithoutChoices(k) ==  \* mutant: no choice depends on its symbols
  [i \in Item |-> IF i \in ItemsOf(k) THEN k.checked[i] ELSE {}]

DependentsIn(k) ==
  [i \in Item |-> IF i \in ItemsOf(k) THEN k.dependents[i] ELSE {}]

Init ==
  /\ LoopsInit
  /\ user = NoUser(K)
  /\ cache = [i \in ItemsOf(K) |-> Blank]
  /\ dependents = DependentsIn(K)
  /\ InvalidationInit

(* Loops are looked for before any value is calculated.                    *)
Check == LoopsNext /\ UNCHANGED <<user, dependents, caches>>

-------------------------------------------------------------------------------
(* An attribute is calculated and cached.                                  *)
ReadBy(i, a) ==
  {j \in ItemsOf(K) \ {i} : Value([W EXCEPT !.cache[j] = Blank], i, a) = None}

Calculate(i, a) ==
  /\ phase = "ready" /\ stack = <<>>
  /\ a \in AttrsOf(K, i) /\ cache[i][a] = None
  /\ a = "assignable" => i \in Asked
  /\ LET v == Value(W, i, a)
     IN  v # None /\ cache' = [cache EXCEPT ![i][a] = v]
  /\ cached' = {j \in ItemsOf(K) : cache'[j].vis # None}
  /\ reads' = [reads EXCEPT ![i] = @ \cup ReadBy(i, a)]
  /\ UNCHANGED <<K, checking, user, dependents, stack>>

(* _invalidate, for MODULES _invalidate_all                                *)
CacheWithout(i) ==
  [j \in DOMAIN cache |-> IF i \in {j, MODULES} THEN Blank ELSE cache[j]]

(* _rec_invalidate is called for i, above the calls "below".               *)
RecInvalidateOnly(i, below) ==  \* mutant: MODULES is a symbol like any other
  /\ cached' = cached \ {i}
  /\ reads' = [reads EXCEPT ![i] = {}]
  /\ stack' = Append(below, [item |-> i, left |-> dependents[i]])
  /\ cache' = [cache EXCEPT ![i] = Blank]

RecInvalidate(i, below) == Call(i, below) /\ cache' = CacheWithout(i)

(* Users' values have no effect on symbols without a prompt.               *)
RecInvalidateIfHasPrompt(s) ==
  IF K.sym[s].prompts # <<>> THEN RecInvalidate(s, <<>>)
  ELSE UNCHANGED caches

(* Symbol.set_value: a value that is there already changes nothing, but    *)
(* the choice of a choice symbol is invalidated all the same.              *)
SetValue(s, v) ==
  LET c == K.sym[s].choice
  IN  /\ phase = "ready" /\ stack = <<>>
      /\ v # user.sym[s] \/ c # ""
      /\ ValidFor(K.sym[s].type, v)
      /\ user' = WithValue(K, user, s, v)
      /\ IF c # "" /\ v = 2 THEN RecInvalidate(c, <<>>)
         ELSE RecInvalidateIfHasPrompt(s)
      /\ UNCHANGED <<K, checking, dependents>>

UnsetValue(s) ==
  /\ phase = "ready" /\ stack = <<>>
  /\ user.sym[s] # None
  /\ user' = WithoutValue(user, s)
  /\ RecInvalidateIfHasPrompt(s)
  /\ UNCHANGED <<K, checking, dependents>>

(* Choice.set_value, Choice.unset_value                                    *)
SetMode(c, v) ==
  /\ phase = "ready" /\ stack = <<>>
  /\ v # user.mode[c]
  /\ ValidFor(K.choice[c].type, v)
  /\ user' = WithMode(K, user, c, v)
  /\ RecInvalidate(c, <<>>)
  /\ UNCHANGED <<K, checking, dependents>>

UnsetMode(c) ==
  /\ phase = "ready" /\ stack = <<>>
  /\ user.mode[c] # None \/ user.pick[c] # NoSym
  /\ user' = WithoutMode(user, c)
  /\ RecInvalidate(c, <<>>)
  /\ UNCHANGED <<K, checking, dependents>>

(* The loop of the innermost call of _rec_invalidate.                      *)
InvalidateShallow(i) ==  \* mutant: only the immediate dependents
  /\ stack # <<>> /\ i \in Last(stack).left
  /\ cached' = cached \ {i}
  /\ reads' = [reads EXCEPT ![i] = {}]
  /\ stack' = [stack EXCEPT ![Len(stack)].left = @ \ {i}]
  /\ cache' = [cache EXCEPT ![i] = Blank]
  /\ UNCHANGED <<K, checking, user, dependents>>

InvalidateDependent(i) ==
  /\ LoopTurn(i)
  /\ cache' = IF i \in cached THEN CacheWithout(i) ELSE cache
  /\ UNCHANGED <<K, checking, user>>

InvalidateReturn ==
  /\ CallReturns
  /\ UNCHANGED <<K, checking, user, cache>>

-------------------------------------------------------------------------------
Next ==
  \/ Check
  \/ \E i \in ItemsOf(K), a \in Attributes : Calculate(i, a)
  \/ \E s \in DOMAIN K.sym : (\E v \in SetOfInputs(s) : SetValue(s, v)) \/ UnsetValue(s)
  \/ \E c \in DOMAIN K.choice : (\E v \in 0 .. 2 : SetMode(c, v)) \/ UnsetMode(c)
  \/ \E i \in ItemsOf(K) : InvalidateDependent(i)
  \/ InvalidateReturn

Spec == Init /\ [][Next]_vars

-------------------------------------------------------------------------------
(* What is read from a cache is what a calculation from the user values    *)
(* alone gives: no sequence of calculations, assignments and invalidations *)
(* leaves an old value behind.                                             *)
Fresh == stack = <<>> /\ phase = "ready" =>
  LET all == World(K, user).cache
  IN  \A i \in DOMAIN cache : \A a \in Attributes :
        cache[i][a] \in {None, all[i][a]}

(* A loop from a choice to what depends on it without being a symbol of it *)
(* (an entry of a menu in the choice) and back, which the search does not  *)
(* see: it goes from a choice to its symbols only.                         *)
LoopPastChoice ==
  LET Past(c) == K.checked[c] \ {K.choice[c].syms[n] : n \in DOMAIN K.choice[c].syms}
      More(items, n) == items \cup UNION {K.checked[i] : i \in items}
      Steps == [n \in 1 .. Cardinality(ItemsOf(K)) |-> n]
  IN  \E c \in DOMAIN K.choice : c \in FoldLeft(More, Past(c), Steps)

(* A menu in which no loop was found can be calculated, whatever the user  *)
(* values: the recursion of the properties ends (_check_dep_loop_sym),     *)
(* but for the one kind of loop that is not searched for.                  *)
Calculable == phase = "ready" /\ stack = <<>> =>
  LET all == World(K, user).cache
  IN  (\E i \in DOMAIN cache : \E a \in AttrsOf(K, i) : all[i][a] = None)
        => LoopPastChoice

(* The caches of the symbols follow Invalidation, for which the claims     *)
(* about it are proved: no call enters an item at which one is at work     *)
(* (EntersOnce), and items whose _cached_vis is None have nothing that     *)
(* depends on their values (NoOrphans).                                    *)
Invalidates == InvalidationSpec
===============================================================================
