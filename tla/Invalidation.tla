------------------------------ MODULE Invalidation ------------------------------
(***************************************************************************)
(* Invalidation of cached values (_rec_invalidate of class Symbol and      *)
(* class Choice), for any items and any dependencies.  What the values are *)
(* is left out: an item has cached values or has none, and what matters is *)
(* from which items' values they were calculated.                          *)
(*                                                                         *)
(* The recursion is a stack of calls.  It descends only into items that    *)
(* have cached values, and a call is at work on a set that changes under   *)
(* it: the calls inside it take items out of "cached".  Module Symbols     *)
(* says what the values are, and implements this.                          *)
(***************************************************************************)
EXTENDS Naturals, Sequences

CONSTANTS
  Item,       \* symbols and choices
  Modules     \* the symbol MODULES, on which everything depends implicitly

VARIABLES
  dependents,   \* _dependents of each item
  cached,       \* the items whose _cached_vis is not None
  reads,        \* history: the items that each item's cached values were
                \* calculated from
  stack         \* the calls of _rec_invalidate: an item and the dependents
                \* its loop has not come to

invalidationVars == <<dependents, cached, reads, stack>>

Frame == [item : Item, left : SUBSET Item]

InvalidationTypeOK ==
  /\ dependents \in [Item -> SUBSET Item]
  /\ cached \in SUBSET Item
  /\ reads \in [Item -> SUBSET Item]
  /\ stack \in Seq(Frame)

InvalidationInit ==
  /\ dependents \in [Item -> SUBSET Item]
  /\ cached = {}
  /\ reads = [i \in Item |-> {}]
  /\ stack = <<>>

(* A value of i is calculated, from values of the items R that are cached. *)
CalculateFrom(i, R) ==
  /\ stack = <<>>
  /\ R \subseteq cached
  /\ \A j \in R : i \in dependents[j] \/ j = Modules
  /\ cached' = cached \cup {i}
  /\ reads' = [reads EXCEPT ![i] = @ \cup R]
  /\ UNCHANGED <<dependents, stack>>

(* _rec_invalidate is called for i, above the calls "below".               *)
Call(i, below) ==
  IF i = Modules
  THEN /\ cached' = {}
       /\ reads' = [j \in Item |-> {}]
       /\ stack' = below
  ELSE /\ cached' = cached \ {i}
       /\ reads' = [reads EXCEPT ![i] = {}]
       /\ stack' = Append(below, [item |-> i, left |-> dependents[i]])

(* The user value of i is set or unset.                                    *)
Invalidate(i) ==
  /\ stack = <<>>
  /\ Call(i, <<>>)
  /\ UNCHANGED dependents

(* One turn of the loop of the innermost call; sets have no order.         *)
LoopTurnAlways(i) ==  \* mutant: _cached_vis is not tested
  LET n == Len(stack)
  IN  /\ n > 0
      /\ i \in stack[n].left
      /\ Call(i, [stack EXCEPT ![n].left = @ \ {i}])
      /\ UNCHANGED dependents

LoopTurn(i) ==
  LET n == Len(stack)
      below == [stack EXCEPT ![n].left = @ \ {i}]
  IN  /\ n > 0
      /\ i \in stack[n].left
      /\ IF i \in cached THEN Call(i, below)
         ELSE stack' = below /\ UNCHANGED <<cached, reads>>
      /\ UNCHANGED dependents

CallReturns ==
  LET n == Len(stack)
  IN  /\ n > 0
      /\ stack[n].left = {}
      /\ stack' = SubSeq(stack, 1, n - 1)
      /\ UNCHANGED <<dependents, cached, reads>>

InvalidationNext ==
  \/ \E i \in Item : \E R \in SUBSET cached : CalculateFrom(i, R)
  \/ \E i \in Item : Invalidate(i)
  \/ \E i \in Item : LoopTurn(i)
  \/ CallReturns

InvalidationSpec == InvalidationInit /\ [][InvalidationNext]_invalidationVars

-------------------------------------------------------------------------------
(* "If item._cached_vis is None, it means there can't be cached values on  *)
(* other items that depend on 'item'", says the comment in                 *)
(* Symbol._rec_invalidate: the claim on which stopping at such items rests *)
(* (outside of an invalidation; inside one it does not hold).              *)
NoOrphans == stack = <<>> => \A i \in cached : reads[i] \subseteq cached

(* No call is made for an item while another one for it is at work.        *)
EntersOnce ==
  \A m, n \in 1 .. Len(stack) : stack[m].item = stack[n].item => m = n

-------------------------------------------------------------------------------
(* Inside an invalidation: an item has lost what its values were           *)
(* calculated from only if a call on the stack will still come to it.      *)
Pending ==
  \A i \in cached : \A j \in reads[i] \ cached :
    \E n \in 1 .. Len(stack) : stack[n].item = j /\ i \in stack[n].left

(* Values are calculated from items that know it, except for MODULES; an   *)
(* item without values was not calculated from anything; an item with a    *)
(* call at work has no values.                                             *)
ReadsKnown ==
  \A i \in Item : \A j \in reads[i] : i \in dependents[j] \/ j = Modules
UncachedReadsNothing == \A i \in Item \ cached : reads[i] = {}
StackUncached == \A n \in 1 .. Len(stack) : stack[n].item \notin cached

InvalidationInv ==
  /\ InvalidationTypeOK
  /\ Pending
  /\ ReadsKnown
  /\ UncachedReadsNothing
  /\ StackUncached
  /\ EntersOnce
===============================================================================
