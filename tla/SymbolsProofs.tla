-------------------------------- MODULE SymbolsProofs -------------------------------
(***************************************************************************)
(* What holds of the parts of the symbols, for every menu: of the          *)
(* invalidation of cached values, for every set of items and all           *)
(* dependencies, and of the search for dependency loops.  The invariants   *)
(* are InvalidationInv and LoopsInv; see there for their parts.            *)
(***************************************************************************)
EXTENDS Loops, Invalidation, TLAPS

-------------------------------------------------------------------------------
(***************************************************************************)
(* Invalidation                                                            *)
(***************************************************************************)
(* A call for an item is a new frame with all its dependents; nothing else *)
(* of the stack changes.                                                   *)
LEMMA CallType ==
  ASSUME InvalidationTypeOK, NEW i \in Item, NEW below \in Seq(Frame), Call(i, below)
  PROVE  /\ cached' \in SUBSET Item
         /\ cached' \subseteq cached \ {i}
         /\ reads' \in [Item -> SUBSET Item]
         /\ \A k \in cached' : reads'[k] = reads[k]
         /\ stack' \in Seq(Frame)
<1>1. CASE i = Modules
  BY <1>1 DEF Call, InvalidationTypeOK
<1>2. CASE i # Modules
  <2>1. [item |-> i, left |-> dependents[i]] \in Frame
    BY DEF InvalidationTypeOK, Frame
  <2>2. stack' \in Seq(Frame)
    BY <1>2, <2>1 DEF Call
  <2> QED
    BY <1>2, <2>2 DEF Call, InvalidationTypeOK
<1> QED
  BY <1>1, <1>2

(* The part of the invariant that does not depend on which step leads to   *)
(* the call: "below" is the stack without i among what is left on top.     *)
LEMMA CallKeeps ==
  ASSUME InvalidationTypeOK, Pending, ReadsKnown, UncachedReadsNothing, StackUncached,
         EntersOnce, UNCHANGED dependents,
         NEW i \in Item, NEW below \in Seq(Frame), Call(i, below),
         \A n \in 1 .. Len(below) : below[n].item # i,
         Len(below) = Len(stack),
         \A n \in 1 .. Len(stack) :
           /\ below[n].item = stack[n].item
           /\ stack[n].left \ {i} \subseteq below[n].left
  PROVE  InvalidationInv'
<1> DEFINE f == [item |-> i, left |-> dependents[i]]
<1>t. InvalidationTypeOK'
  BY CallType DEF InvalidationTypeOK
<1>l. Len(stack) \in Nat /\ Len(below) \in Nat
  BY DEF InvalidationTypeOK
<1>1. CASE i = Modules
  <2>1. cached' = {} /\ reads' = [j \in Item |-> {}] /\ stack' = below
    BY <1>1 DEF Call
  <2>2. EntersOnce'
    BY <2>1, <1>l DEF EntersOnce
  <2> QED
    BY <1>t, <2>1, <2>2 DEF InvalidationInv, Pending, ReadsKnown, UncachedReadsNothing,
                            StackUncached
<1>2. CASE i # Modules
  <2>1. /\ cached' = cached \ {i}
        /\ reads' = [reads EXCEPT ![i] = {}]
        /\ stack' = Append(below, f)
    BY <1>2 DEF Call
  <2>2. /\ Len(stack') = Len(below) + 1
        /\ stack'[Len(below) + 1] = f
        /\ \A n \in 1 .. Len(below) : stack'[n] = below[n]
    BY <2>1, <1>l
  <2>3. ReadsKnown'
    BY <2>1 DEF ReadsKnown, InvalidationTypeOK
  <2>4. UncachedReadsNothing'
    BY <2>1 DEF UncachedReadsNothing, InvalidationTypeOK
  <2>5. StackUncached'
    <3> SUFFICES ASSUME NEW n \in 1 .. Len(stack')
                 PROVE  stack'[n].item \notin cached'
      BY DEF StackUncached
    <3>1. CASE n = Len(below) + 1
      BY <3>1, <2>1, <2>2
    <3>2. CASE n \in 1 .. Len(below)
      BY <3>2, <2>1, <2>2 DEF StackUncached
    <3> QED
      BY <3>1, <3>2, <2>2, <1>l
  <2>6. EntersOnce'
    <3> SUFFICES ASSUME NEW m \in 1 .. Len(stack'), NEW n \in 1 .. Len(stack'),
                        stack'[m].item = stack'[n].item
                 PROVE  m = n
      BY DEF EntersOnce
    <3>1. CASE m \in 1 .. Len(below) /\ n \in 1 .. Len(below)
      BY <3>1, <2>2 DEF EntersOnce
    <3>2. CASE m = Len(below) + 1 /\ n \in 1 .. Len(below)
      BY <3>2, <2>2
    <3>3. CASE n = Len(below) + 1 /\ m \in 1 .. Len(below)
      BY <3>3, <2>2
    <3>4. CASE n = Len(below) + 1 /\ m = Len(below) + 1
      BY <3>4
    <3> QED
      BY <3>1, <3>2, <3>3, <3>4, <2>2, <1>l
  <2>7. Pending'
    <3> SUFFICES ASSUME NEW k \in cached', NEW j \in reads'[k] \ cached'
                 PROVE  \E n \in 1 .. Len(stack') :
                          stack'[n].item = j /\ k \in stack'[n].left
      BY DEF Pending
    <3>1. k # i /\ k \in cached /\ reads'[k] = reads[k] /\ k \in Item
      BY <2>1 DEF InvalidationTypeOK
    <3>2. CASE j = i
      <4>1. k \in dependents[i]
        BY <3>1, <3>2, <1>2 DEF ReadsKnown
      <4> QED
        BY <4>1, <3>2, <2>2, <1>l
    <3>3. CASE j # i
      <4>1. j \in reads[k] \ cached
        BY <3>1, <3>3, <2>1
      <4>2. PICK n \in 1 .. Len(stack) : stack[n].item = j /\ k \in stack[n].left
        BY <4>1, <3>1 DEF Pending
      <4>3. stack'[n].item = j /\ k \in stack'[n].left
        BY <4>2, <2>2, <3>1
      <4> QED
        BY <4>3, <2>2, <1>l
    <3> QED
      BY <3>2, <3>3
  <2> QED
    BY <1>t, <2>3, <2>4, <2>5, <2>6, <2>7 DEF InvalidationInv
<1> QED
  BY <1>1, <1>2

-------------------------------------------------------------------------------
LEMMA InvalidationStarts == InvalidationInit => InvalidationInv
<1> SUFFICES ASSUME InvalidationInit PROVE InvalidationInv
  OBVIOUS
<1>1. Len(stack) = 0 /\ stack \in Seq(Frame)
  BY DEF InvalidationInit
<1> QED
  BY <1>1 DEF InvalidationInit, InvalidationInv, InvalidationTypeOK, Pending,
              ReadsKnown, UncachedReadsNothing,
              StackUncached, EntersOnce

LEMMA CalculateInv ==
  ASSUME InvalidationInv, NEW i \in Item, NEW R \in SUBSET cached, CalculateFrom(i, R)
  PROVE  InvalidationInv'
<1> USE DEF InvalidationInv
<1>1. /\ stack = <<>> /\ Len(stack) = 0 /\ stack' = stack
      /\ dependents' = dependents
      /\ cached' = cached \cup {i}
      /\ reads' = [reads EXCEPT ![i] = @ \cup R]
  BY DEF CalculateFrom
<1>2. R \subseteq Item
  BY DEF InvalidationTypeOK
<1>3. InvalidationTypeOK'
  BY <1>1, <1>2 DEF InvalidationTypeOK
<1>4. Pending'
  <2> SUFFICES ASSUME NEW k \in cached', NEW j \in reads'[k]
               PROVE  j \in cached'
    BY DEF Pending
  <2>1. CASE k # i
    BY <2>1, <1>1 DEF Pending, InvalidationTypeOK
  <2>2. CASE k = i /\ i \in cached
    BY <2>2, <1>1 DEF Pending, InvalidationTypeOK
  <2>3. CASE k = i /\ i \notin cached
    BY <2>3, <1>1 DEF UncachedReadsNothing, InvalidationTypeOK
  <2> QED
    BY <2>1, <2>2, <2>3
<1>5. ReadsKnown'
  BY <1>1 DEF CalculateFrom, ReadsKnown, InvalidationTypeOK
<1>6. UncachedReadsNothing'
  BY <1>1 DEF UncachedReadsNothing, InvalidationTypeOK
<1>7. StackUncached' /\ EntersOnce'
  BY <1>1 DEF StackUncached, EntersOnce
<1> QED
  BY <1>3, <1>4, <1>5, <1>6, <1>7

LEMMA InvalidateInv ==
  ASSUME InvalidationInv, NEW i \in Item, Invalidate(i)
  PROVE  InvalidationInv'
<1>1. stack = <<>> /\ Call(i, <<>>) /\ UNCHANGED dependents
  BY DEF Invalidate
<1>2. <<>> \in Seq(Frame) /\ Len(<<>>) = 0 /\ Len(stack) = 0
  BY <1>1
<1>3. \A n \in 1 .. Len(<<>>) : <<>>[n].item # i
  BY <1>2
<1>4. \A n \in 1 .. Len(stack) :
        <<>>[n].item = stack[n].item /\ stack[n].left \ {i} \subseteq <<>>[n].left
  BY <1>2
<1> QED
  BY <1>1, <1>2, <1>3, <1>4, CallKeeps DEF InvalidationInv

LEMMA LoopInv ==
  ASSUME InvalidationInv, NEW i \in Item, LoopTurn(i)
  PROVE  InvalidationInv'
<1> USE DEF InvalidationInv
<1> DEFINE n == Len(stack)
           below == [stack EXCEPT ![n].left = @ \ {i}]
<1>1. n \in Nat /\ n > 0 /\ i \in stack[n].left /\ UNCHANGED dependents
  BY DEF LoopTurn, InvalidationTypeOK
<1> DEFINE f == [stack[n] EXCEPT !.left = @ \ {i}]
<1>a. stack \in Seq(Frame) /\ n \in 1 .. Len(stack)
  BY <1>1 DEF InvalidationTypeOK
<1>b. stack[n] \in Frame
  BY <1>a
<1>c. f \in Frame /\ f.item = stack[n].item /\ f.left = stack[n].left \ {i}
  BY <1>b DEF Frame
<1>d. below = [stack EXCEPT ![n] = f]
  BY <1>a
<1>2. below \in Seq(Frame) /\ Len(below) = n
  <2> HIDE DEF f, below
  <2> QED
    BY <1>a, <1>c, <1>d
<1>3. \A m \in 1 .. n :
        /\ below[m].item = stack[m].item
        /\ stack[m].left \ {i} \subseteq below[m].left
  <2> HIDE DEF f, below
  <2> QED
    BY <1>a, <1>c, <1>d
<1>4. CASE i \in cached
  <2>1. Call(i, below)
    BY <1>4 DEF LoopTurn
  <2>2. \A m \in 1 .. Len(below) : below[m].item # i
    BY <1>2, <1>3, <1>4 DEF StackUncached
  <2> QED
    BY <2>1, <2>2, <1>1, <1>2, <1>3, CallKeeps
<1>5. CASE i \notin cached
  <2>1. stack' = below /\ UNCHANGED <<cached, reads>>
    BY <1>5 DEF LoopTurn
  <2>2. InvalidationTypeOK'
    BY <2>1, <1>1, <1>2 DEF InvalidationTypeOK
  <2>3. Pending'
    <3> SUFFICES ASSUME NEW k \in cached, NEW j \in reads[k] \ cached
                 PROVE  \E m \in 1 .. Len(stack') :
                          stack'[m].item = j /\ k \in stack'[m].left
      BY <2>1 DEF Pending
    <3>1. PICK m \in 1 .. n : stack[m].item = j /\ k \in stack[m].left
      BY DEF Pending
    <3>2. k # i
      BY <1>5
    <3> QED
      BY <3>1, <3>2, <2>1, <1>2, <1>3
  <2>4. StackUncached' /\ EntersOnce'
    BY <2>1, <1>2, <1>3 DEF StackUncached, EntersOnce
  <2> QED
    BY <2>1, <2>2, <2>3, <2>4, <1>1 DEF ReadsKnown, UncachedReadsNothing
<1> QED
  BY <1>4, <1>5

LEMMA InvalidationReturns ==
  ASSUME InvalidationInv, CallReturns
  PROVE  InvalidationInv'
<1> USE DEF InvalidationInv
<1> DEFINE n == Len(stack)
<1>1. /\ n \in Nat /\ n > 0 /\ stack[n].left = {}
      /\ stack' = SubSeq(stack, 1, n - 1)
      /\ UNCHANGED <<dependents, cached, reads>>
  BY DEF CallReturns, InvalidationTypeOK
<1>a. stack \in Seq(Frame)
  BY DEF InvalidationTypeOK
<1>2. /\ stack' \in Seq(Frame)
      /\ Len(stack') = n - 1
      /\ \A m \in 1 .. n - 1 : stack'[m] = stack[m]
  <2> SUFFICES ASSUME NEW s \in Seq(Frame), NEW k \in Nat, k > 0, k = Len(s)
               PROVE  /\ SubSeq(s, 1, k - 1) \in Seq(Frame)
                      /\ Len(SubSeq(s, 1, k - 1)) = k - 1
                      /\ \A m \in 1 .. k - 1 : SubSeq(s, 1, k - 1)[m] = s[m]
    BY <1>1, <1>a
  <2> QED
    OBVIOUS
<1>3. Pending'
  <2> SUFFICES ASSUME NEW k \in cached, NEW j \in reads[k] \ cached
               PROVE  \E m \in 1 .. Len(stack') :
                        stack'[m].item = j /\ k \in stack'[m].left
    BY <1>1 DEF Pending
  <2>1. PICK m \in 1 .. n : stack[m].item = j /\ k \in stack[m].left
    BY DEF Pending
  <2>2. m # n
    BY <2>1, <1>1
  <2> QED
    BY <2>1, <2>2, <1>1, <1>2
<1>4. InvalidationTypeOK'
  BY <1>1, <1>2 DEF InvalidationTypeOK
<1>5. ReadsKnown' /\ UncachedReadsNothing'
  BY <1>1 DEF ReadsKnown, UncachedReadsNothing
<1>6. \A m \in 1 .. Len(stack') : m \in 1 .. Len(stack) /\ stack'[m] = stack[m]
  BY <1>1, <1>2
<1>7. StackUncached' /\ EntersOnce'
  BY <1>1, <1>6 DEF StackUncached, EntersOnce
<1> QED
  BY <1>3, <1>4, <1>5, <1>7

LEMMA InvalidationSteps ==
  InvalidationInv /\ [InvalidationNext]_invalidationVars => InvalidationInv'
<1> SUFFICES ASSUME InvalidationInv, [InvalidationNext]_invalidationVars
             PROVE  InvalidationInv'
  OBVIOUS
<1>1. CASE \E i \in Item : \E R \in SUBSET cached : CalculateFrom(i, R)
  BY <1>1, CalculateInv
<1>2. CASE \E i \in Item : Invalidate(i)
  BY <1>2, InvalidateInv
<1>3. CASE \E i \in Item : LoopTurn(i)
  BY <1>3, LoopInv
<1>4. CASE CallReturns
  BY <1>4, InvalidationReturns
<1>5. CASE UNCHANGED invalidationVars
  BY <1>5 DEF invalidationVars, InvalidationInv, InvalidationTypeOK, Pending,
              ReadsKnown, UncachedReadsNothing,
              StackUncached, EntersOnce
<1> QED
  BY <1>1, <1>2, <1>3, <1>4, <1>5 DEF InvalidationNext

-------------------------------------------------------------------------------
LEMMA InvalidationInvariance == InvalidationSpec => []InvalidationInv
<1> QED
  BY InvalidationStarts, InvalidationSteps, PTL DEF InvalidationSpec

(* Outside of an invalidation, an item whose _cached_vis is None has no    *)
(* item with cached values that depend on it: the claim of the comment in  *)
(* Symbol._rec_invalidate, because of which an invalidation may stop there. *)
THEOREM NothingOrphaned == InvalidationSpec => []NoOrphans
<1>1. InvalidationInv => NoOrphans
  <2> SUFFICES ASSUME InvalidationInv, stack = <<>>,
                      NEW i \in cached, NEW j \in reads[i]
               PROVE  j \in cached
    BY DEF NoOrphans
  <2>1. Len(stack) = 0
    OBVIOUS
  <2> QED
    BY <2>1 DEF InvalidationInv, Pending
<1> QED
  BY <1>1, InvalidationInvariance, PTL

(* The recursion of _rec_invalidate never enters an item that it is at     *)
(* work on, although choices and their symbols depend on each other.       *)
THEOREM EnteredOnce == InvalidationSpec => []EntersOnce
<1>1. InvalidationInv => EntersOnce
  BY DEF InvalidationInv
<1> QED
  BY <1>1, InvalidationInvariance, PTL

-------------------------------------------------------------------------------
(***************************************************************************)
(* The search for dependency loops                                         *)
(***************************************************************************)
(* Sequences of elements of S.                                             *)
LEMMA SeqOfMore ==
  ASSUME NEW S, NEW T, S \subseteq T, NEW q \in Seq(S)
  PROVE  q \in Seq(T)
<1>1. Len(q) \in Nat /\ q \in [1 .. Len(q) -> S]
  OBVIOUS
<1>2. q \in [1 .. Len(q) -> T]
  BY <1>1
<1> QED
  BY <1>1, <1>2

LEMMA SeqOfOne == ASSUME NEW S, NEW x \in S PROVE <<x>> \in Seq(S)
<1> QED
  OBVIOUS

(* The menu and the frames that a call makes.                              *)
LEMMA MenuType ==
  ASSUME K \in Menus
  PROVE  /\ DOMAIN K.sym \cap DOMAIN K.choice = {}
         /\ "" \notin Vertices(K)
         /\ K.checked \in [Vertices(K) -> SUBSET Vertices(K)]
         /\ K.defined \in Seq(DOMAIN K.sym)
         /\ \A c \in DOMAIN K.choice : K.choice[c].syms \in Seq(DOMAIN K.sym)
         /\ \A s \in DOMAIN K.sym :
              K.sym[s].choice = "" \/ K.sym[s].choice \in DOMAIN K.choice
         /\ \A i \in Vertices(K) : i \notin DOMAIN K.sym => i \in DOMAIN K.choice
         /\ DOMAIN K.sym \subseteq Vertices(K)
         /\ DOMAIN K.choice \subseteq Vertices(K)
<1> QED
  BY MenusAssumption DEF Vertices

LEMMA EdgesType ==
  ASSUME K \in Menus, NEW i \in Vertices(K)
  PROVE  Edges(i) \subseteq Vertices(K)
<1>1. CASE i \in DOMAIN K.sym
  BY <1>1, MenuType DEF Edges
<1>2. CASE i \notin DOMAIN K.sym
  <2>1. K.choice[i].syms \in Seq(DOMAIN K.sym)
    BY <1>2, MenuType
  <2>2. Elements(K.choice[i].syms) \subseteq DOMAIN K.sym
    BY <2>1 DEF Elements
  <2> QED
    BY <1>2, <2>2, MenuType DEF Edges
<1> QED
  BY <1>1, <1>2

LEMMA SymCallType ==
  ASSUME K \in Menus, NEW s \in DOMAIN K.sym, NEW ignore \in BOOLEAN
  PROVE  /\ SymCall(s, ignore) \in LoopCall
         /\ SymCall(s, ignore).item = s
         /\ SymCall(s, ignore).left = K.checked[s]
         /\ SymCall(s, ignore).skip = ""
         /\ SymCall(s, TRUE).list = <<>>
         /\ CallOK(SymCall(s, ignore))
<1>1. K.checked[s] \in SUBSET Vertices(K) /\ s \in Vertices(K)
  BY MenuType
<1> DEFINE list == IF ignore \/ K.sym[s].choice = "" THEN <<>>
                   ELSE <<K.sym[s].choice>>
<1>2. list \in Seq(Vertices(K))
  <2>1. CASE ignore \/ K.sym[s].choice = ""
    <3>1. list = <<>>
      BY <2>1, Zenon
    <3> HIDE DEF list
    <3> QED
      BY <3>1
  <2>2. CASE ~(ignore \/ K.sym[s].choice = "")
    <3>1. list = <<K.sym[s].choice>>
      BY <2>2, Zenon
    <3>2. K.sym[s].choice \in DOMAIN K.choice
      BY <2>2, MenuType
    <3>3. K.sym[s].choice \in Vertices(K)
      BY <3>2 DEF Vertices
    <3> QED
      BY <3>1, <3>3, SeqOfOne
  <2> QED
    BY <2>1, <2>2
<1>3. list # <<>> => list = <<K.sym[s].choice>>
  BY Zenon
<1> QED
  BY <1>1, <1>2, <1>3 DEF SymCall, LoopCall, CallOK

LEMMA ChoiceCallType ==
  ASSUME K \in Menus, NEW c \in DOMAIN K.choice, NEW skip \in DOMAIN K.sym \cup {""}
  PROVE  /\ ChoiceCall(c, skip) \in LoopCall
         /\ ChoiceCall(c, skip).item = c
         /\ ChoiceCall(c, skip).left = {}
         /\ ChoiceCall(c, skip).list = K.choice[c].syms
         /\ ChoiceCall(c, skip).skip = skip
         /\ CallOK(ChoiceCall(c, skip))
<1>1. K.choice[c].syms \in Seq(DOMAIN K.sym) /\ c \in Vertices(K)
  BY MenuType
<1>2. K.choice[c].syms \in Seq(Vertices(K))
  <2> DEFINE S == DOMAIN K.sym
             T == Vertices(K)
             q == K.choice[c].syms
  <2>1. S \subseteq T /\ q \in Seq(S)
    BY <1>1 DEF Vertices
  <2> HIDE DEF S, T, q
  <2>2. q \in Seq(T)
    BY <2>1, SeqOfMore
  <2> QED
    BY <2>2 DEF T, q
<1>3. c \notin DOMAIN K.sym
  BY MenuType
<1> QED
  BY <1>1, <1>2, <1>3 DEF ChoiceCall, LoopCall, CallOK

-------------------------------------------------------------------------------
(* An item that leads only to items without loops has none either.         *)
LEMMA AddSearched ==
  ASSUME NEW D, NEW i, LoopFree(D), Edges(i) \subseteq D
  PROVE  LoopFree(D \cup {i})
<1>1. \A j \in D \cup {i} : Edges(j) \subseteq D \cup {i}
  BY DEF LoopFree
<1>2. ASSUME NEW S \in SUBSET (D \cup {i}), S # {}
      PROVE  \E j \in S : Edges(j) \cap S = {}
  <2>1. CASE i \in D
    BY <1>2, <2>1 DEF LoopFree
  <2>2. CASE i \notin D /\ S \cap D = {}
    <3>1. S = {i}
      BY <1>2, <2>2
    <3> QED
      BY <2>2, <3>1
  <2>3. CASE i \notin D /\ S \cap D # {}
    <3>1. PICK j \in S \cap D : Edges(j) \cap (S \cap D) = {}
      BY <2>3 DEF LoopFree
    <3>2. Edges(j) \subseteq D
      BY <3>1 DEF LoopFree
    <3> QED
      BY <3>1, <3>2
  <2> QED
    BY <2>1, <2>2, <2>3
<1> QED
  BY <1>1, <1>2 DEF LoopFree

LEMMA LoopFreeNext ==
  ASSUME K' = K, NEW D, LoopFree(D), Searched' = D
  PROVE  LoopFree(Searched)'
<1>1. \A i : Edges(i)' = Edges(i)
  BY DEF Edges, Elements
<1> QED
  BY <1>1 DEF LoopFree

-------------------------------------------------------------------------------
(* A turn of the innermost call leaves f of it: there is less left.        *)
Turn(f) ==
  /\ Len(calls) > 0
  /\ f \in LoopCall
  /\ f.item = TopCall.item /\ f.skip = TopCall.skip
  /\ f.left \subseteq TopCall.left
  /\ TopCall.list = <<>> => f.list = <<>>
  /\ CallOK(f)

Below(f) == [calls EXCEPT ![Len(calls)] = f]

LEMMA BelowShape ==
  ASSUME LoopsTypeOK, NEW f, Turn(f)
  PROVE  /\ Below(f) \in Seq(LoopCall)
         /\ Len(Below(f)) = Len(calls)
         /\ Len(calls) \in Nat
         /\ \A m \in 1 .. Len(calls) - 1 : Below(f)[m] = calls[m]
         /\ Below(f)[Len(calls)] = f
         /\ \A m \in 1 .. Len(calls) :
              /\ Below(f)[m].item = calls[m].item
              /\ Below(f)[m].skip = calls[m].skip
<1>1. calls \in Seq(LoopCall) /\ f \in LoopCall /\ Len(calls) > 0
  BY DEF LoopsTypeOK, Turn
<1>2. f.item = calls[Len(calls)].item /\ f.skip = calls[Len(calls)].skip
  BY DEF Turn, TopCall
<1> QED
  BY <1>1, <1>2 DEF Below

LEMMA BelowLinked ==
  ASSUME LoopsTypeOK, Linked(calls), NEW f, Turn(f)
  PROVE  Linked(Below(f))
<1> DEFINE b == Below(f)
           n == Len(calls)
<1>1. /\ Len(b) = n /\ n \in Nat /\ n > 0 /\ b[n] = f
      /\ \A m \in 1 .. n - 1 : b[m] = calls[m]
      /\ \A m \in 1 .. n : b[m].item = calls[m].item
  BY BelowShape DEF Turn
<1> HIDE DEF b
<1>2. ASSUME NEW m \in 1 .. n PROVE CallOK(b[m])
  <2>1. CASE m = n
    BY <1>1, <2>1 DEF Turn
  <2>2. CASE m # n
    BY <1>1, <2>2 DEF Linked
  <2> QED
    BY <2>1, <2>2
<1>3. ASSUME NEW m \in 1 .. n - 1 PROVE From(b[m], b[m + 1])
  <2>1. From(calls[m], calls[m + 1])
    BY <1>3 DEF Linked
  <2>2. b[m] = calls[m]
    BY <1>1
  <2>3. CASE m + 1 = n
    <3>1. /\ b[m + 1] = f /\ f.item = calls[n].item /\ f.skip = calls[n].skip
          /\ calls[n].list = <<>> => f.list = <<>>
      BY <1>1, <2>3 DEF Turn, TopCall
    <3> QED
      BY <3>1, <2>1, <2>2, <2>3 DEF From
  <2>4. CASE m + 1 # n
    <3>1. b[m + 1] = calls[m + 1]
      BY <1>1, <2>4
    <3> QED
      BY <3>1, <2>1, <2>2
  <2> QED
    BY <2>3, <2>4
<1>4. b[1].item \in DOMAIN K.sym
  BY <1>1 DEF Linked
<1>5. \A m \in 1 .. n - 2 :
        \/ b[m].item \in DOMAIN K.sym
        \/ b[m + 2].item \in K.checked[b[m + 1].item]
  BY <1>1 DEF Linked
<1>6. Linked(b)
  BY <1>1, <1>2, <1>3, <1>4, <1>5 DEF Linked
<1> QED
  BY <1>6 DEF b

(* A call from f: the stack stays linked if f is not a symbol to which its *)
(* choice has led and which leads back there.                              *)
Continues(f, g) ==
  /\ From(f, g)
  /\ \/ Len(calls) = 1
     \/ calls[Len(calls) - 1].item \in DOMAIN K.sym
     \/ g.item \in K.checked[f.item]

LEMMA PushLinked ==
  ASSUME LoopsTypeOK, Linked(calls), NEW f, Turn(f),
         NEW g \in LoopCall, CallOK(g), Continues(f, g)
  PROVE  Linked(Append(Below(f), g))
<1> DEFINE b == Below(f)
           n == Len(calls)
           q == Append(b, g)
<1>1. /\ Len(b) = n /\ n \in Nat /\ n > 0 /\ b[n] = f
      /\ \A m \in 1 .. n : b[m].item = calls[m].item
      /\ b \in Seq(LoopCall)
  BY BelowShape DEF Turn
<1>2. Linked(b)
  BY BelowLinked
<1> HIDE DEF b
<1>3. /\ Len(q) = n + 1 /\ q[n + 1] = g
      /\ \A m \in 1 .. n : q[m] = b[m]
  BY <1>1
<1> HIDE DEF q
<1>4. \A m \in 1 .. n + 1 : CallOK(q[m])
  BY <1>1, <1>2, <1>3 DEF Linked
<1>5. ASSUME NEW m \in 1 .. n PROVE From(q[m], q[m + 1])
  <2>1. CASE m = n
    BY <1>1, <1>3, <2>1 DEF Continues
  <2>2. CASE m # n
    BY <1>1, <1>2, <1>3, <2>2 DEF Linked
  <2> QED
    BY <2>1, <2>2
<1>6. ASSUME NEW m \in 1 .. n - 1
      PROVE  \/ q[m].item \in DOMAIN K.sym
             \/ q[m + 2].item \in K.checked[q[m + 1].item]
  <2>1. CASE m = n - 1
    BY <1>1, <1>3, <2>1 DEF Continues
  <2>2. CASE m # n - 1
    BY <1>1, <1>2, <1>3, <2>2 DEF Linked
  <2> QED
    BY <2>1, <2>2
<1>7. q[1].item \in DOMAIN K.sym
  BY <1>1, <1>2, <1>3 DEF Linked
<1>8. Linked(q)
  BY <1>1, <1>3, <1>4, <1>5, <1>6, <1>7 DEF Linked
<1> QED
  BY <1>8 DEF q, b

LEMMA LinkedNext ==
  ASSUME K' = K, Linked(calls')
  PROVE  Linked(calls)'
<1>1. ASSUME NEW f PROVE CallOK(f)' <=> CallOK(f)
  BY DEF CallOK, Elements
<1>2. ASSUME NEW f, NEW g PROVE From(f, g)' <=> From(f, g)
  BY DEF From, Elements
<1>3. \A n \in 1 .. Len(calls') : CallOK(calls'[n])
  BY DEF Linked
<1> QED
  BY <1>1, <1>2, <1>3 DEF Linked

-------------------------------------------------------------------------------
(* What is left of f when all that f has gone through is in D.             *)
GoneThrough(f, D) ==
  IF f.item \in DOMAIN K.sym THEN K.checked[f.item] \ f.left \subseteq D
  ELSE Edges(f.item) \ Elements(f.list) \subseteq D

LEMMA GoneNow ==
  ASSUME Gone, LoopsTypeOK, NEW n \in 1 .. Len(calls)
  PROVE  /\ n = Len(calls) => GoneThrough(calls[n], Searched)
         /\ n < Len(calls) => GoneThrough(calls[n], Searched \cup {calls[n + 1].item})
<1>1. CASE n = Len(calls)
  BY <1>1 DEF Gone, GoneThrough, IsSym
<1>2. CASE n < Len(calls)
  BY <1>2 DEF Gone, GoneThrough, IsSym
<1>3. Len(calls) \in Nat
  BY DEF LoopsTypeOK
<1> QED
  BY <1>1, <1>2, <1>3

LEMMA GoneNext ==
  ASSUME K' = K, Len(calls') \in Nat,
         \A n \in 1 .. Len(calls') :
           /\ n = Len(calls') => GoneThrough(calls'[n], Searched')
           /\ n < Len(calls') =>
                GoneThrough(calls'[n], Searched' \cup {calls'[n + 1].item})
  PROVE  Gone'
<1>1. \A i : Edges(i)' = Edges(i)
  BY DEF Edges, Elements
<1>2. \A q : Elements(q)' = Elements(q)
  BY DEF Elements
<1> SUFFICES ASSUME NEW n \in 1 .. Len(calls')
             PROVE  (LET at == IF n = Len(calls) THEN {} ELSE {calls[n + 1].item}
                     IN  IF IsSym(n)
                         THEN K.checked[calls[n].item] \ calls[n].left
                                \subseteq Searched \cup at
                         ELSE Edges(calls[n].item) \ Elements(calls[n].list)
                                \subseteq Searched \cup at)'
  BY DEF Gone
<1>3. CASE n = Len(calls')
  BY <1>1, <1>2, <1>3 DEF GoneThrough, IsSym
<1>4. CASE n # Len(calls')
  <2>1. n < Len(calls')
    BY <1>4
  <2> QED
    BY <1>1, <1>2, <1>4, <2>1 DEF GoneThrough, IsSym
<1> QED
  BY <1>3, <1>4

(* The invariant while the search goes on.                                 *)
CheckInv ==
  /\ LoopsTypeOK /\ OnStack /\ Linked(calls) /\ Gone /\ LoopFree(Searched)

LEMMA CheckInvNext ==
  ASSUME CheckInv', phase' = "check"
  PROVE  LoopsInv'
<1> QED
  BY DEF CheckInv, LoopsInv, LoopIsReal

(* Nothing is called in this turn, and f is left.                          *)
LEMMA Passed ==
  ASSUME CheckInv, NEW f, Turn(f), GoneThrough(f, Searched),
         UNCHANGED <<K, phase, visited>>, calls' = Below(f)
  PROVE  CheckInv'
<1> DEFINE n == Len(calls)
           b == Below(f)
           X == IF f.item \in DOMAIN K.sym /\ f.left = {} THEN {f.item} ELSE {}
<1> USE DEF CheckInv
<1>1. /\ Len(b) = n /\ n \in Nat /\ n > 0 /\ b[n] = f
      /\ \A m \in 1 .. n - 1 : b[m] = calls[m]
      /\ \A m \in 1 .. n : b[m].item = calls[m].item /\ b[m].skip = calls[m].skip
      /\ b \in Seq(LoopCall)
  BY BelowShape DEF Turn
<1>2. calls' = b
  OBVIOUS
<1>3. Linked(calls)'
  BY BelowLinked, LinkedNext
<1> HIDE DEF b
<1>4. LoopsTypeOK'
  BY <1>1, <1>2 DEF LoopsTypeOK, LoopCall, Vertices
<1>5. OnStack'
  BY <1>1, <1>2 DEF OnStack, Vertices
<1>6. /\ f.item = calls[n].item /\ f.item \in Vertices(K)
      /\ f.left \subseteq calls[n].left
  BY <1>1 DEF Turn, TopCall, LoopCall
<1>7. Searched' = Searched \cup X
  <2>1. ASSUME NEW v, v \in Searched'
        PROVE  v \in Searched \cup X
    <3>1. CASE v \in Vertices(K) /\ visited[v] = 2
      BY <3>1 DEF Searched
    <3>2. CASE \E m \in 1 .. n : /\ b[m].item \in DOMAIN K.sym /\ b[m].left = {}
                                 /\ m = n \/ b[m + 1].skip = b[m].item
                                 /\ v = b[m].item
      <4>1. PICK m \in 1 .. n : /\ b[m].item \in DOMAIN K.sym /\ b[m].left = {}
                                /\ m = n \/ b[m + 1].skip = b[m].item
                                /\ v = b[m].item
        BY <3>2
      <4>2. CASE m = n
        BY <4>1, <4>2, <1>1
      <4>3. CASE m # n
        BY <4>1, <4>3, <1>1 DEF Searched, IsSym
      <4> QED
        BY <4>2, <4>3
    <3> QED
      BY <2>1, <3>1, <3>2, <1>1, <1>2 DEF Searched, IsSym, Vertices
  <2>2. ASSUME NEW v, v \in Searched
        PROVE  v \in Searched'
    <3>1. CASE v \in Vertices(K) /\ visited[v] = 2
      BY <3>1 DEF Searched, Vertices
    <3>2. CASE \E m \in 1 .. n : /\ calls[m].item \in DOMAIN K.sym /\ calls[m].left = {}
                                 /\ m = n \/ calls[m + 1].skip = calls[m].item
                                 /\ v = calls[m].item
      <4>1. PICK m \in 1 .. n : /\ calls[m].item \in DOMAIN K.sym /\ calls[m].left = {}
                                /\ m = n \/ calls[m + 1].skip = calls[m].item
                                /\ v = calls[m].item
        BY <3>2
      <4>2. /\ b[m].item \in DOMAIN K.sym /\ b[m].left = {}
            /\ m = n \/ b[m + 1].skip = b[m].item
            /\ v = b[m].item
        BY <4>1, <1>1, <1>6
      <4> QED
        BY <4>2, <1>1, <1>2 DEF Searched, IsSym, Vertices
    <3> QED
      BY <2>2, <3>1, <3>2 DEF Searched, IsSym
  <2>3. ASSUME NEW v, v \in X
        PROVE  v \in Searched'
    <3>1. v = b[n].item /\ b[n].item \in DOMAIN K.sym /\ b[n].left = {}
      BY <2>3, <1>1
    <3> QED
      BY <3>1, <1>1, <1>2 DEF Searched, IsSym, Vertices
  <2> QED
    BY <2>1, <2>2, <2>3
<1>8. LoopFree(Searched)'
  <2>1. CASE f.item \in DOMAIN K.sym /\ f.left = {}
    <3>1. Edges(f.item) \subseteq Searched
      BY <2>1 DEF GoneThrough, Edges
    <3>2. LoopFree(Searched \cup {f.item})
      BY <3>1, AddSearched
    <3>3. Searched' = Searched \cup {f.item}
      BY <1>7, <2>1
    <3> QED
      BY <3>2, <3>3, LoopFreeNext
  <2>2. CASE ~(f.item \in DOMAIN K.sym /\ f.left = {})
    <3>1. Searched' = Searched
      BY <1>7, <2>2
    <3> QED
      BY <3>1, LoopFreeNext
  <2> QED
    BY <2>1, <2>2
<1>9. Gone'
  <2>1. ASSUME NEW m \in 1 .. n
        PROVE  /\ m = n => GoneThrough(b[m], Searched')
               /\ m < n => GoneThrough(b[m], Searched' \cup {b[m + 1].item})
    <3>1. CASE m = n
      BY <3>1, <1>1, <1>7 DEF GoneThrough
    <3>2. CASE m < n
      <4>1. GoneThrough(calls[m], Searched \cup {calls[m + 1].item})
        BY <3>2, GoneNow
      <4>2. b[m] = calls[m] /\ b[m + 1].item = calls[m + 1].item
        BY <3>2, <1>1
      <4> QED
        BY <3>2, <4>1, <4>2, <1>7 DEF GoneThrough
    <3> QED
      BY <3>1, <3>2
  <2> QED
    BY <2>1, <1>1, <1>2, GoneNext
<1> QED
  BY <1>3, <1>4, <1>5, <1>8, <1>9

(* The call g is made in this turn, and f is left below it.                *)
LEMMA Pushed ==
  ASSUME CheckInv, NEW f, Turn(f), NEW g \in LoopCall, CallOK(g), Continues(f, g),
         GoneThrough(f, Searched \cup {g.item}), GoneThrough(g, {}),
         f.item \in DOMAIN K.sym =>
           (TopCall.left = {} <=> f.left = {} /\ g.skip = f.item),
         visited[g.item] = 0, visited' = [visited EXCEPT ![g.item] = 1],
         UNCHANGED <<K, phase>>, calls' = Append(Below(f), g)
  PROVE  CheckInv'
<1> DEFINE n == Len(calls)
           b == Below(f)
           q == Append(b, g)
           X == IF g.item \in DOMAIN K.sym /\ g.left = {} THEN {g.item} ELSE {}
<1> USE DEF CheckInv
<1>1. /\ Len(b) = n /\ n \in Nat /\ n > 0 /\ b[n] = f
      /\ \A m \in 1 .. n - 1 : b[m] = calls[m]
      /\ \A m \in 1 .. n : b[m].item = calls[m].item /\ b[m].skip = calls[m].skip
      /\ b \in Seq(LoopCall)
  BY BelowShape DEF Turn
<1>2. calls' = q
  OBVIOUS
<1>3. Linked(calls)'
  BY PushLinked, LinkedNext
<1> HIDE DEF b
<1>4. /\ Len(q) = n + 1 /\ q[n + 1] = g
      /\ \A m \in 1 .. n : q[m] = b[m]
      /\ q \in Seq(LoopCall)
  BY <1>1
<1> HIDE DEF q
<1>5. g.item \in Vertices(K)
  BY DEF LoopCall
<1>6. /\ visited' \in [Vertices(K) -> 0 .. 2] /\ visited'[g.item] = 1
      /\ \A v \in Vertices(K) : v # g.item => visited'[v] = visited[v]
  BY <1>5 DEF LoopsTypeOK
<1>7. LoopsTypeOK'
  BY <1>2, <1>4, <1>6 DEF LoopsTypeOK, LoopCall, Vertices
<1>8. \A m \in 1 .. n : calls[m].item # g.item
  BY <1>5 DEF OnStack
<1>9. OnStack'
  <2>1. ASSUME NEW v \in Vertices(K)
        PROVE  visited'[v] = 1 <=> \E m \in 1 .. n + 1 : q[m].item = v
    <3>1. CASE v = g.item
      BY <3>1, <1>4, <1>6, <1>1
    <3>2. CASE v # g.item
      <4>1. visited[v] = 1 <=> \E m \in 1 .. n : calls[m].item = v
        BY DEF OnStack
      <4>2. ASSUME NEW m \in 1 .. n + 1, q[m].item = v
            PROVE  m \in 1 .. n /\ calls[m].item = v
        <5>1. m # n + 1
          BY <3>2, <4>2, <1>4
        <5>2. m \in 1 .. n
          BY <5>1, <1>1
        <5> QED
          BY <4>2, <5>2, <1>1, <1>4
      <4>3. ASSUME NEW m \in 1 .. n, calls[m].item = v
            PROVE  m \in 1 .. n + 1 /\ q[m].item = v
        BY <4>3, <1>1, <1>4
      <4>4. visited'[v] = visited[v]
        BY <3>2, <1>6
      <4> QED
        BY <4>1, <4>2, <4>3, <4>4
    <3> QED
      BY <3>1, <3>2
  <2>2. ASSUME NEW m \in 1 .. n + 1, NEW k \in 1 .. n + 1, q[m].item = q[k].item
        PROVE  m = k
    <3>1. CASE m \in 1 .. n /\ k \in 1 .. n
      BY <2>2, <3>1, <1>1, <1>4 DEF OnStack
    <3>2. CASE m = n + 1 /\ k \in 1 .. n
      BY <2>2, <3>2, <1>1, <1>4, <1>8
    <3>3. CASE k = n + 1 /\ m \in 1 .. n
      BY <2>2, <3>3, <1>1, <1>4, <1>8
    <3> QED
      BY <3>1, <3>2, <3>3, <1>1
  <2> QED
    BY <2>1, <2>2, <1>2, <1>4 DEF OnStack, Vertices
<1>10. /\ f.item = calls[n].item /\ f.item \in Vertices(K)
       /\ f.left \subseteq calls[n].left
       /\ f.item \in DOMAIN K.sym =>
            (calls[n].left = {} <=> f.left = {} /\ g.skip = f.item)
  BY <1>1 DEF Turn, TopCall, LoopCall
<1>11. Searched' = Searched \cup X
  <2>1. ASSUME NEW v, v \in Searched'
        PROVE  v \in Searched \cup X
    <3>1. CASE v \in Vertices(K) /\ visited'[v] = 2
      BY <3>1, <1>6 DEF Searched
    <3>2. CASE \E m \in 1 .. n + 1 : /\ q[m].item \in DOMAIN K.sym /\ q[m].left = {}
                                     /\ m = n + 1 \/ q[m + 1].skip = q[m].item
                                     /\ v = q[m].item
      <4>1. PICK m \in 1 .. n + 1 : /\ q[m].item \in DOMAIN K.sym /\ q[m].left = {}
                                    /\ m = n + 1 \/ q[m + 1].skip = q[m].item
                                    /\ v = q[m].item
        BY <3>2
      <4>2. CASE m = n + 1
        BY <4>1, <4>2, <1>4
      <4>3. CASE m = n
        <5>1. calls[n].left = {} /\ calls[n].item \in DOMAIN K.sym /\ v = calls[n].item
          BY <4>1, <4>3, <1>1, <1>4, <1>10
        <5>2. n \in 1 .. Len(calls)
          BY <1>1
        <5>3. v \in Searched
          BY <5>1, <5>2 DEF Searched, IsSym
        <5> QED
          BY <5>3
      <4>4. CASE m \in 1 .. n - 1
        <5>1. /\ q[m] = calls[m] /\ q[m + 1].skip = calls[m + 1].skip
          <6>1. m \in 1 .. n /\ m + 1 \in 1 .. n /\ m \in 1 .. n - 1
            BY <4>4, <1>1
          <6> QED
            BY <6>1, <1>1, <1>4
        <5>2. m # n + 1 /\ m # n /\ m \in 1 .. Len(calls)
          BY <4>4, <1>1
        <5>3. /\ calls[m].item \in DOMAIN K.sym /\ calls[m].left = {}
              /\ calls[m + 1].skip = calls[m].item /\ v = calls[m].item
          BY <4>1, <5>1, <5>2
        <5> QED
          BY <5>2, <5>3 DEF Searched, IsSym
      <4> QED
        BY <4>2, <4>3, <4>4, <1>1
    <3>3. \/ v \in Vertices(K) /\ visited'[v] = 2
          \/ \E m \in 1 .. Len(q) : /\ q[m].item \in DOMAIN K.sym /\ q[m].left = {}
                                    /\ m = Len(q) \/ q[m + 1].skip = q[m].item
                                    /\ v = q[m].item
      BY <2>1, <1>2 DEF Searched, IsSym, Vertices
    <3> QED
      BY <3>1, <3>2, <3>3, <1>4
  <2>2. ASSUME NEW v, v \in Searched
        PROVE  v \in Searched'
    <3>1. CASE v \in Vertices(K) /\ visited[v] = 2
      BY <3>1, <1>6 DEF Searched, Vertices
    <3>2. CASE \E m \in 1 .. n : /\ calls[m].item \in DOMAIN K.sym /\ calls[m].left = {}
                                 /\ m = n \/ calls[m + 1].skip = calls[m].item
                                 /\ v = calls[m].item
      <4>1. PICK m \in 1 .. n : /\ calls[m].item \in DOMAIN K.sym /\ calls[m].left = {}
                                /\ m = n \/ calls[m + 1].skip = calls[m].item
                                /\ v = calls[m].item
        BY <3>2
      <4>2. /\ q[m].item \in DOMAIN K.sym /\ q[m].left = {}
            /\ q[m + 1].skip = q[m].item
            /\ v = q[m].item
        <5>1. CASE m = n
          BY <4>1, <5>1, <1>1, <1>4, <1>10
        <5>2. CASE m # n
          BY <4>1, <5>2, <1>1, <1>4
        <5> QED
          BY <5>1, <5>2
      <4> QED
        BY <4>2, <1>1, <1>2, <1>4 DEF Searched, IsSym, Vertices
    <3> QED
      BY <2>2, <3>1, <3>2 DEF Searched, IsSym
  <2>3. ASSUME NEW v, v \in X
        PROVE  v \in Searched'
    <3>1. v = q[n + 1].item /\ q[n + 1].item \in DOMAIN K.sym /\ q[n + 1].left = {}
      BY <2>3, <1>4
    <3> QED
      BY <3>1, <1>1, <1>2, <1>4 DEF Searched, IsSym, Vertices
  <2> QED
    BY <2>1, <2>2, <2>3
<1>12. LoopFree(Searched)'
  <2>1. CASE g.item \in DOMAIN K.sym /\ g.left = {}
    <3>1. Edges(g.item) \subseteq Searched
      BY <2>1 DEF GoneThrough, Edges
    <3>2. LoopFree(Searched \cup {g.item})
      BY <3>1, AddSearched
    <3>3. Searched' = Searched \cup {g.item}
      BY <1>11, <2>1
    <3> QED
      BY <3>2, <3>3, LoopFreeNext
  <2>2. CASE ~(g.item \in DOMAIN K.sym /\ g.left = {})
    <3>1. Searched' = Searched
      BY <1>11, <2>2
    <3> QED
      BY <3>1, LoopFreeNext
  <2> QED
    BY <2>1, <2>2
<1>13. Gone'
  <2>1. ASSUME NEW m \in 1 .. n + 1
        PROVE  /\ m = n + 1 => GoneThrough(q[m], Searched')
               /\ m < n + 1 => GoneThrough(q[m], Searched' \cup {q[m + 1].item})
    <3>1. CASE m = n + 1
      BY <3>1, <1>1, <1>4 DEF GoneThrough
    <3>2. CASE m = n
      BY <3>2, <1>1, <1>4, <1>11 DEF GoneThrough
    <3>3. CASE m \in 1 .. n - 1
      <4>1. GoneThrough(calls[m], Searched \cup {calls[m + 1].item})
        <5>1. m \in 1 .. Len(calls) /\ m < Len(calls)
          BY <3>3, <1>1
        <5> QED
          BY <5>1, GoneNow
      <4>2. q[m] = calls[m] /\ q[m + 1].item = calls[m + 1].item
        BY <3>3, <1>1, <1>4
      <4> QED
        BY <3>3, <4>1, <4>2, <1>1, <1>11 DEF GoneThrough
    <3> QED
      BY <3>1, <3>2, <3>3, <1>1
  <2> QED
    BY <2>1, <1>1, <1>2, <1>4, GoneNext
<1> QED
  BY <1>3, <1>7, <1>9, <1>12, <1>13

-------------------------------------------------------------------------------
LEMMA FromRelated ==
  ASSUME NEW f, NEW g, From(f, g)
  PROVE  Related(f.item, g.item)
<1> QED
  BY DEF From, Related, Edges

(* A symbol that was called from a symbol depends on it.                   *)
LEMMA SymFromSym ==
  ASSUME K \in Menus, NEW f \in LoopCall, NEW g \in LoopCall, CallOK(g), From(f, g),
         f.item \in DOMAIN K.sym, g.item \in DOMAIN K.sym
  PROVE  g.item \in K.checked[f.item]
<1>1. f.item \in Vertices(K) /\ f.item # ""
  BY MenuType DEF LoopCall
<1> QED
  BY <1>1 DEF CallOK, From

LEMMA Suffix ==
  ASSUME NEW S, NEW q \in Seq(S), NEW k \in 1 .. Len(q)
  PROVE  /\ SubSeq(q, k, Len(q)) \in Seq(S)
         /\ Len(SubSeq(q, k, Len(q))) = Len(q) - k + 1
         /\ \A m \in 1 .. Len(q) - k + 1 : SubSeq(q, k, Len(q))[m] = q[k + m - 1]
<1>1. Len(q) \in Nat
  OBVIOUS
<1> QED
  BY <1>1

(* What the stack has from the item that g calls again is a loop; a choice *)
(* does not call the symbol that it came from.                             *)
LEMMA Reported ==
  ASSUME CheckInv, NEW f, Turn(f), NEW g \in LoopCall, CallOK(g), Continues(f, g),
         f.item \in DOMAIN K.sym \/ g.item # f.skip,
         NEW k \in 1 .. Len(Below(f)), Below(f)[k].item = g.item,
         phase' = "loop", UNCHANGED <<K, visited>>,
         calls' = SubSeq(Below(f), k, Len(Below(f)))
  PROVE  LoopsInv'
<1> DEFINE n == Len(calls)
           b == Below(f)
           l == n - k + 1
           q == SubSeq(b, k, n)
           Next(m) == IF m = l THEN 1 ELSE m + 1
<1> USE DEF CheckInv
<1>1. /\ Len(b) = n /\ n \in Nat /\ n > 0 /\ b[n] = f
      /\ \A m \in 1 .. n : b[m].item = calls[m].item
      /\ b \in Seq(LoopCall)
  BY BelowShape DEF Turn
<1>2. Linked(b)
  BY BelowLinked
<1>3. calls' = q /\ b[k].item = g.item /\ k \in 1 .. n
  BY <1>1
<1> HIDE DEF b
<1>4. /\ q \in Seq(LoopCall) /\ Len(q) = l /\ l \in Nat /\ l > 0
      /\ \A m \in 1 .. l : q[m] = b[k + m - 1]
  BY <1>1, <1>3, Suffix
<1> HIDE DEF q
<1>5. LoopsTypeOK'
  BY <1>3, <1>4 DEF LoopsTypeOK, LoopCall, Vertices
<1>6. q[l] = f /\ q[1].item = g.item
  <2>1. k + l - 1 = n /\ k + 1 - 1 = k /\ l \in 1 .. l /\ 1 \in 1 .. l
    BY <1>3, <1>4
  <2> QED
    BY <2>1, <1>1, <1>3, <1>4
<1>7. ASSUME NEW m \in 1 .. l - 1
      PROVE  From(q[m], q[m + 1])
  <2>1. /\ m \in 1 .. l /\ m + 1 \in 1 .. l /\ k + m - 1 \in 1 .. n - 1
        /\ k + (m + 1) - 1 = (k + m - 1) + 1
    BY <1>3, <1>4
  <2>2. From(b[k + m - 1], b[(k + m - 1) + 1])
    BY <2>1, <1>1, <1>2 DEF Linked
  <2> QED
    BY <2>1, <2>2, <1>4
<1>8. From(f, g)
  BY DEF Continues
<1>9. ASSUME NEW m \in 1 .. l
      PROVE  Related(q[m].item, q[Next(m)].item)
  <2>1. CASE m = l
    BY <2>1, <1>6, <1>8, FromRelated
  <2>2. CASE m # l
    <3>1. m \in 1 .. l - 1
      <4>1. l \in Nat /\ m \in 1 .. l /\ m # l
        BY <2>2, <1>4
      <4> HIDE DEF l
      <4> QED
        BY <4>1
    <3> QED
      BY <2>2, <3>1, <1>7, FromRelated
  <2> QED
    BY <2>1, <2>2
<1>10. \A m \in 1 .. n : b[m] \in LoopCall /\ CallOK(b[m])
  BY <1>1, <1>2 DEF Linked
<1>11. /\ K \in Menus
       /\ f \in LoopCall
       /\ f.item \in Vertices(K) /\ g.item \in Vertices(K) /\ b[1].item \in DOMAIN K.sym
  BY <1>1, <1>2 DEF LoopsTypeOK, Turn, LoopCall, Linked
<1>12. f.item \in DOMAIN K.choice \/ f.item \in DOMAIN K.sym
  BY <1>11 DEF Vertices
<1> DEFINE IsReal(m) == /\ q[m].item \in DOMAIN K.sym
                        /\ q[Next(m)].item \in K.checked[q[m].item]
<1>13. ASSUME NEW m \in k .. n - 1, b[m].item \in DOMAIN K.sym,
              b[m + 1].item \in K.checked[b[m].item]
       PROVE  \E j \in 1 .. l : IsReal(j)
  <2> DEFINE j == m - k + 1
  <2>1. /\ j \in 1 .. l /\ j # l /\ j + 1 \in 1 .. l
        /\ k + j - 1 = m /\ k + (j + 1) - 1 = m + 1
    BY <1>3, <1>1
  <2>2. q[j] = b[m] /\ q[j + 1] = b[m + 1]
    BY <2>1, <1>4
  <2>3. Next(j) = j + 1
    BY <2>1
  <2> HIDE DEF j, Next, l
  <2> QED
    BY <1>13, <2>1, <2>2, <2>3
<1>14. ASSUME f.item \in DOMAIN K.sym, g.item \in K.checked[f.item]
       PROVE  \E j \in 1 .. l : IsReal(j)
  <2>1. Next(l) = 1 /\ l \in 1 .. l
    BY <1>4
  <2> HIDE DEF Next, l
  <2> QED
    BY <1>14, <1>6, <2>1
<1>15. \E j \in 1 .. l : IsReal(j)
  <2> HIDE DEF IsReal, Next, l
  <2>1. CASE f.item \in DOMAIN K.sym /\ g.item \notin K.checked[f.item]
    (* f has gone to its choice, which was not where it was called from.   *)
    <3>1. g.item = K.sym[f.item].choice /\ g.item \in DOMAIN K.choice
      <4>1. g.item = K.sym[f.item].choice
        BY <1>8, <2>1 DEF From
      <4>2. g.item # ""
        BY <1>11, MenuType
      <4> QED
        BY <2>1, <1>11, <4>1, <4>2, MenuType
    <3>2. g.item # f.item
      BY <3>1, <2>1, <1>11, MenuType
    <3>3. k # n
      BY <3>2, <1>1, <1>3
    <3>4. n - 1 \in 1 .. n - 1 /\ n - 1 \in k .. n - 1 /\ n > 1 /\ (n - 1) + 1 = n
      BY <3>3, <1>1, <1>3
    <3>5. calls[n - 1].item \in DOMAIN K.sym
      BY <3>4, <2>1 DEF Continues
    <3>6. b[n - 1].item \in DOMAIN K.sym
      BY <3>4, <3>5, <1>1
    <3>7. From(b[n - 1], b[n])
      BY <3>4, <1>1, <1>2 DEF Linked
    <3>8. b[n].item \in K.checked[b[n - 1].item]
      <4>1. b[n - 1] \in LoopCall /\ b[n] \in LoopCall /\ CallOK(b[n])
        BY <3>4, <1>1, <1>10
      <4>2. b[n].item \in DOMAIN K.sym
        BY <1>1, <2>1
      <4> QED
        BY <4>1, <4>2, <3>6, <3>7, <1>11, SymFromSym
    <3> QED
      BY <3>4, <3>6, <3>8, <1>13
  <2>2. CASE f.item \notin DOMAIN K.sym
    (* A choice, called from a symbol: for a dependent, or from one of its *)
    (* symbols, which was called from another symbol then.                 *)
    <3>1. g.item \in DOMAIN K.sym /\ g.item # f.item /\ g.item # f.skip
      BY <1>8, <2>2 DEF From
    <3>2. n # 1 /\ k # n
      BY <2>2, <3>1, <1>1, <1>3, <1>11
    <3>3. n - 1 \in 1 .. n - 1 /\ n - 1 \in k .. n - 1 /\ n > 1 /\ (n - 1) + 1 = n
      BY <3>2, <1>1, <1>3
    <3>4. From(b[n - 1], b[n]) /\ b[n] = f
      BY <3>3, <1>1, <1>2 DEF Linked
    <3>5. b[n - 1].item \in DOMAIN K.sym
      BY <3>4, <2>2 DEF From
    <3>6. CASE f.item \in K.checked[b[n - 1].item]
      BY <3>3, <3>4, <3>5, <3>6, <1>13
    <3>7. CASE f.item \notin K.checked[b[n - 1].item]
      <4>1. f.skip = b[n - 1].item
        BY <3>4, <3>5, <3>7 DEF From
      <4>2. k # n - 1
        BY <4>1, <3>1, <1>3
      <4>3. /\ n - 2 \in 1 .. n - 2 /\ n - 2 \in k .. n - 1 /\ n - 2 \in 1 .. n - 1
            /\ (n - 2) + 1 = n - 1 /\ (n - 2) + 2 = n
        <5>1. k \in Nat /\ n \in Nat /\ k >= 1 /\ k <= n - 2
          BY <4>2, <3>2, <1>1, <1>3
        <5> QED
          BY <5>1
      <4>4. \/ b[n - 2].item \in DOMAIN K.sym
            \/ b[(n - 2) + 2].item \in K.checked[b[(n - 2) + 1].item]
        BY <4>3, <1>1, <1>2 DEF Linked
      <4>5. b[n - 2].item \in DOMAIN K.sym
        BY <4>3, <4>4, <3>4, <3>7
      <4>6. From(b[n - 2], b[(n - 2) + 1])
        BY <4>3, <1>1, <1>2 DEF Linked
      <4>7. b[n - 1].item \in K.checked[b[n - 2].item]
        <5>1. b[n - 2] \in LoopCall /\ b[n - 1] \in LoopCall /\ CallOK(b[n - 1])
          <6>1. n - 2 \in 1 .. n /\ n - 1 \in 1 .. n
            BY <4>3, <3>3, <1>1
          <6> QED
            BY <6>1, <1>10
        <5>2. From(b[n - 2], b[n - 1])
          BY <4>3, <4>6
        <5> QED
          BY <5>1, <5>2, <4>5, <3>5, <1>11, SymFromSym
      <4> QED
        BY <4>3, <4>5, <4>7, <1>13
    <3> QED
      BY <3>6, <3>7
  <2> QED
    BY <2>1, <2>2, <1>14
<1>16. LoopIsReal'
  <2>1. \A i, j : Related(i, j)' <=> Related(i, j)
    BY DEF Related, Edges, Elements
  <2> QED
    BY <2>1, <1>3, <1>4, <1>9, <1>15 DEF LoopIsReal
<1> QED
  BY <1>5, <1>16 DEF LoopsInv

-------------------------------------------------------------------------------
(* The innermost call.                                                     *)
LEMMA TopType ==
  ASSUME LoopsTypeOK, Linked(calls), calls # <<>>
  PROVE  /\ Len(calls) \in Nat /\ Len(calls) > 0
         /\ Len(calls) \in 1 .. Len(calls)
         /\ TopCall \in LoopCall /\ CallOK(TopCall)
         /\ TopCall.item \in Vertices(K) /\ TopCall.item # ""
         /\ TopCall.left \subseteq Vertices(K) /\ TopCall.list \in Seq(Vertices(K))
         /\ K \in Menus
<1>1. Len(calls) \in Nat /\ Len(calls) > 0 /\ calls \in Seq(LoopCall) /\ K \in Menus
  BY DEF LoopsTypeOK
<1>2. Len(calls) \in 1 .. Len(calls) /\ TopCall = calls[Len(calls)]
  BY <1>1 DEF TopCall
<1>3. TopCall \in LoopCall /\ CallOK(TopCall)
  BY <1>1, <1>2 DEF Linked
<1> QED
  BY <1>1, <1>2, <1>3, MenuType DEF LoopCall

LEMMA DependentInv ==
  ASSUME LoopsInv, CheckDependent
  PROVE  LoopsInv'
<1>1. CheckInv /\ phase = "check" /\ calls # <<>> /\ K' = K
  BY DEF LoopsInv, CheckInv, CheckDependent, Checking
<1>2. PICK i \in TopCall.left :
        Visit(IF i \in DOMAIN K.sym THEN SymCall(i, FALSE) ELSE ChoiceCall(i, ""),
              [calls EXCEPT ![Len(calls)].left = @ \ {i}])
  BY DEF CheckDependent
<1> DEFINE n == Len(calls)
           f == [TopCall EXCEPT !.left = @ \ {i}]
           g == IF i \in DOMAIN K.sym THEN SymCall(i, FALSE) ELSE ChoiceCall(i, "")
<1>3. LoopsTypeOK /\ Linked(calls) /\ Gone
  BY <1>1 DEF CheckInv
<1>4. /\ n \in Nat /\ n > 0 /\ n \in 1 .. n
      /\ TopCall \in LoopCall /\ CallOK(TopCall) /\ K \in Menus
      /\ TopCall.item # "" /\ TopCall.item \in DOMAIN K.sym
      /\ TopCall.left \subseteq K.checked[TopCall.item] /\ TopCall.skip = ""
      /\ i \in Vertices(K)
  BY <1>1, <1>2, <1>3, TopType DEF CallOK
<1>5. /\ f \in LoopCall /\ f.item = TopCall.item /\ f.skip = TopCall.skip
      /\ f.left = TopCall.left \ {i} /\ f.list = TopCall.list
  BY <1>4 DEF LoopCall
<1>6. [calls EXCEPT ![Len(calls)].left = @ \ {i}] = Below(f)
  BY <1>4 DEF Below, TopCall
<1>7. /\ g \in LoopCall /\ g.item = i /\ g.skip = "" /\ CallOK(g)
      /\ GoneThrough(g, {})
  <2>1. CASE i \in DOMAIN K.sym
    <3>1. g = SymCall(i, FALSE)
      BY <2>1
    <3> QED
      BY <2>1, <3>1, <1>4, SymCallType DEF GoneThrough
  <2>2. CASE i \notin DOMAIN K.sym
    <3>1. g = ChoiceCall(i, "") /\ i \in DOMAIN K.choice
      BY <2>2, <1>4, MenuType
    <3> DEFINE s == ""
    <3>2. s \in DOMAIN K.sym \cup {""} /\ K \in Menus /\ i \in DOMAIN K.choice
      BY <3>1, <1>4
    <3> HIDE DEF s, g
    <3>3. /\ ChoiceCall(i, s) \in LoopCall /\ ChoiceCall(i, s).item = i
          /\ CallOK(ChoiceCall(i, s)) /\ ChoiceCall(i, s).list = K.choice[i].syms
      BY <3>2, ChoiceCallType
    <3>4. ChoiceCall(i, s).skip = s
      BY DEF ChoiceCall
    <3>5. /\ g \in LoopCall /\ g.item = i /\ g.skip = "" /\ CallOK(g)
          /\ g.list = K.choice[i].syms
      BY <3>1, <3>3, <3>4 DEF s
    <3> QED
      BY <2>2, <3>5 DEF GoneThrough, Edges
  <2> QED
    BY <2>1, <2>2
<1> HIDE DEF f, g
<1>8. Turn(f)
  BY <1>4, <1>5 DEF Turn, CallOK
<1>9. From(f, g) /\ Continues(f, g)
  BY <1>2, <1>4, <1>5, <1>7 DEF From, Continues
<1>10. GoneThrough(TopCall, Searched)
  BY <1>3, <1>4, GoneNow DEF TopCall
<1>11. GoneThrough(f, Searched \cup {g.item})
  BY <1>4, <1>5, <1>7, <1>10 DEF GoneThrough
<1>12. Visit(g, Below(f))
  BY <1>2, <1>6 DEF g
<1>13. CASE visited[g.item] = 0
  <2>1. visited' = [visited EXCEPT ![g.item] = 1] /\ calls' = Append(Below(f), g)
        /\ phase' = phase
    BY <1>12, <1>13 DEF Visit
  <2>2. f.item \in DOMAIN K.sym =>
           (TopCall.left = {} <=> f.left = {} /\ g.skip = f.item)
    BY <1>2, <1>4, <1>5, <1>7
  <2>3. CheckInv'
    BY <2>1, <2>2, <1>1, <1>7, <1>8, <1>9, <1>11, <1>13, Pushed
  <2> QED
    BY <2>1, <2>3, <1>1, CheckInvNext
<1>14. CASE visited[g.item] = 1
  <2>1. PICK k \in 1 .. Len(Below(f)) :
          Below(f)[k].item = g.item /\ calls' = SubSeq(Below(f), k, Len(Below(f)))
    BY <1>12, <1>14 DEF Visit
  <2>2. phase' = "loop" /\ visited' = visited
    BY <1>12, <1>14 DEF Visit
  <2> QED
    BY <2>1, <2>2, <1>1, <1>4, <1>5, <1>7, <1>8, <1>9, Reported
<1>15. CASE visited[g.item] = 2
  <2>1. UNCHANGED <<visited, phase>> /\ calls' = Below(f)
    BY <1>12, <1>15 DEF Visit
  <2>2. g.item \in Searched
    BY <1>4, <1>7, <1>15 DEF Searched
  <2>3. GoneThrough(f, Searched)
    BY <2>2, <1>11 DEF GoneThrough
  <2>4. CheckInv'
    BY <2>1, <2>3, <1>1, <1>8, Passed
  <2> QED
    BY <2>1, <2>4, <1>1, CheckInvNext
<1> QED
  BY <1>12, <1>13, <1>14, <1>15 DEF Visit

(* The head of a list is one of its elements, the others are in the tail.  *)
LEMMA HeadAndTail ==
  ASSUME NEW S, NEW q \in Seq(S), q # <<>>
  PROVE  /\ Tail(q) \in Seq(S)
         /\ Head(q) \in S
         /\ Elements(q) = {Head(q)} \cup Elements(Tail(q))
         /\ Len(q) = 1 => Tail(q) = <<>>
<1>1. /\ Len(q) \in Nat /\ Len(q) > 0 /\ Head(q) = q[1]
      /\ Tail(q) \in Seq(S) /\ Len(Tail(q)) = Len(q) - 1
      /\ \A n \in 1 .. Len(q) - 1 : Tail(q)[n] = q[n + 1]
      /\ \A n \in 1 .. Len(q) : q[n] \in S
  OBVIOUS
<1>2. Elements(q) \subseteq {Head(q)} \cup Elements(Tail(q))
  <2> SUFFICES ASSUME NEW n \in 1 .. Len(q), n # 1
               PROVE  q[n] \in Elements(Tail(q))
    BY <1>1 DEF Elements
  <2>1. n - 1 \in 1 .. Len(Tail(q)) /\ Tail(q)[n - 1] = q[n]
    BY <1>1
  <2> QED
    BY <2>1 DEF Elements
<1>3. Elements(Tail(q)) \subseteq Elements(q)
  <2> SUFFICES ASSUME NEW n \in 1 .. Len(q) - 1
               PROVE  Tail(q)[n] \in Elements(q)
    BY <1>1 DEF Elements
  <2>1. n + 1 \in 1 .. Len(q) /\ Tail(q)[n] = q[n + 1]
    BY <1>1
  <2> QED
    BY <2>1 DEF Elements
<1>4. Head(q) \in Elements(q)
  BY <1>1 DEF Elements
<1>5. ASSUME Len(q) = 1 PROVE Tail(q) = <<>>
  <2> DEFINE t == Tail(q)
  <2>1. t \in Seq(S) /\ Len(t) = 0
    BY <1>1, <1>5
  <2> HIDE DEF t
  <2>2. t = <<>>
    BY <2>1
  <2> QED
    BY <2>2 DEF t
<1> QED
  BY <1>1, <1>2, <1>3, <1>4, <1>5

LEMMA ListedInv ==
  ASSUME LoopsInv, CheckListed
  PROVE  LoopsInv'
<1>0. PICK n : n \in Nat /\ n = Len(calls) /\ (n = 1 \/ n > 1)
  <2>1. calls \in Seq(LoopCall) /\ calls # <<>>
    BY DEF LoopsInv, LoopsTypeOK, CheckListed, Checking
  <2>2. Len(calls) \in Nat /\ Len(calls) # 0
    BY <2>1
  <2> QED
    BY <2>2
<1> DEFINE i == Head(TopCall.list)
           f == [TopCall EXCEPT !.list = Tail(@)]
           g == IF i \in DOMAIN K.sym THEN SymCall(i, TRUE)
                                      ELSE ChoiceCall(i, TopCall.item)
<1>1. /\ CheckInv /\ phase = "check" /\ calls # <<>> /\ K' = K
      /\ TopCall.left = {} /\ TopCall.list # <<>>
  BY DEF LoopsInv, CheckInv, CheckListed, Checking
<1>2. LoopsTypeOK /\ Linked(calls) /\ Gone
  BY <1>1 DEF CheckInv
<1>3. /\ n = Len(calls) /\ n \in Nat /\ n > 0 /\ n \in 1 .. n
      /\ TopCall \in LoopCall /\ CallOK(TopCall) /\ K \in Menus
      /\ TopCall.item # "" /\ TopCall.item \in Vertices(K)
      /\ TopCall.list \in Seq(Vertices(K))
  BY <1>0, <1>1, <1>2, TopType
<1>4. /\ Tail(TopCall.list) \in Seq(Vertices(K)) /\ i \in Vertices(K)
      /\ Elements(TopCall.list) = {i} \cup Elements(Tail(TopCall.list))
      /\ Len(TopCall.list) = 1 => Tail(TopCall.list) = <<>>
  BY <1>1, <1>3, HeadAndTail
<1>5. /\ f \in LoopCall /\ f.item = TopCall.item /\ f.skip = TopCall.skip
      /\ f.left = {} /\ f.list = Tail(TopCall.list)
  BY <1>1, <1>3, <1>4 DEF LoopCall
<1>6. [calls EXCEPT ![n].list = Tail(@)] = Below(f)
  BY <1>3 DEF Below, TopCall
<1>7. IF i = TopCall.skip THEN calls' = Below(f) /\ UNCHANGED <<visited, phase>>
      ELSE Visit(g, Below(f))
  BY <1>0, <1>6 DEF CheckListed
<1> HIDE DEF f, g, i
<1>8. TopCall.item \in DOMAIN K.sym =>
        /\ TopCall.skip = "" /\ i = K.sym[TopCall.item].choice
        /\ f.list = <<>>
  <2> SUFFICES ASSUME TopCall.item \in DOMAIN K.sym
               PROVE  /\ TopCall.skip = "" /\ i = K.sym[TopCall.item].choice
                      /\ f.list = <<>>
    OBVIOUS
  <2>1. TopCall.skip = "" /\ TopCall.list = <<K.sym[TopCall.item].choice>>
    BY <1>1, <1>3 DEF CallOK
  <2>2. \A x : Len(<<x>>) = 1 /\ Head(<<x>>) = x
    OBVIOUS
  <2>3. Len(TopCall.list) = 1 /\ i = K.sym[TopCall.item].choice
    BY <2>1, <2>2, Zenon DEF i
  <2> QED
    BY <2>1, <2>3, <1>4, <1>5
<1>9. Turn(f)
  <2>1. CallOK(f)
    BY <1>3, <1>4, <1>5, <1>8 DEF CallOK
  <2> QED
    BY <2>1, <1>1, <1>3, <1>5 DEF Turn
<1>10. GoneThrough(TopCall, Searched)
  BY <1>2, <1>3, GoneNow DEF TopCall
<1>11. GoneThrough(f, Searched \cup {i})
  BY <1>1, <1>4, <1>5, <1>10 DEF GoneThrough
<1>12. ASSUME n > 1
       PROVE  /\ n - 1 \in 1 .. n /\ calls[n - 1].item \in Vertices(K)
              /\ From(calls[n - 1], TopCall)
  <2>1. n - 1 \in 1 .. n - 1 /\ n - 1 \in 1 .. n /\ (n - 1) + 1 = n
    BY <1>0, <1>12
  <2>2. From(calls[n - 1], calls[(n - 1) + 1])
    BY <1>0, <2>1, <1>2 DEF Linked
  <2>3. calls[n - 1] \in LoopCall
    BY <1>0, <2>1, <1>2 DEF LoopsTypeOK
  <2> QED
    BY <1>0, <2>1, <2>2, <2>3 DEF TopCall, LoopCall
(* A choice is called from a symbol; what it skips is that symbol.         *)
<1>13. CASE i = TopCall.skip
  <2>1. TopCall.item \notin DOMAIN K.sym /\ TopCall.skip # ""
    BY <1>3, <1>4, <1>8, <1>13, MenuType
  <2>2. n > 1
    <3>1. ASSUME n = 1 PROVE FALSE
      <4>1. Len(calls) > 0 /\ calls[1] = TopCall
        BY <1>0, <3>1 DEF TopCall
      <4> QED
        BY <4>1, <2>1, <1>2 DEF Linked
    <3> QED
      BY <1>0, <3>1
  <2>3. calls[n - 1].item \in DOMAIN K.sym
    BY <2>1, <2>2, <1>12 DEF From
  <2>4. calls[n - 1].left = {} /\ TopCall.skip = calls[n - 1].item
    BY <2>1, <2>2, <2>3, <1>12 DEF From
  <2>5. i \in Searched
    <3>1. n - 1 \in 1 .. Len(calls) /\ calls[(n - 1) + 1] = TopCall
      BY <1>0, <2>2 DEF TopCall
    <3> QED
      BY <3>1, <2>3, <2>4, <1>13 DEF Searched, IsSym
  <2>6. GoneThrough(f, Searched)
    BY <2>5, <1>11 DEF GoneThrough
  <2>7. calls' = Below(f) /\ UNCHANGED <<visited, phase>>
    BY <1>7, <1>13
  <2>8. CheckInv'
    BY <2>6, <2>7, <1>1, <1>9, Passed
  <2> QED
    BY <2>7, <2>8, <1>1, CheckInvNext
<1>14. CASE i # TopCall.skip
  <2>1. Visit(g, Below(f))
    BY <1>7, <1>14
  <2>2. /\ g \in LoopCall /\ g.item = i /\ CallOK(g) /\ GoneThrough(g, {})
        /\ Continues(f, g)
        /\ f.item \in DOMAIN K.sym => g.skip = f.item
    <3>1. CASE TopCall.item \in DOMAIN K.sym
      <4>1. i \in DOMAIN K.choice /\ i \notin DOMAIN K.sym
        BY <3>1, <1>3, <1>4, <1>8, MenuType
      <4>2. g = ChoiceCall(i, TopCall.item)
        BY <4>1 DEF g
      <4> DEFINE s == TopCall.item
      <4>3. s \in DOMAIN K.sym \cup {""} /\ K \in Menus
        BY <3>1, <1>3
      <4> HIDE DEF s
      <4>4. /\ ChoiceCall(i, s) \in LoopCall /\ ChoiceCall(i, s).item = i
            /\ CallOK(ChoiceCall(i, s)) /\ ChoiceCall(i, s).list = K.choice[i].syms
        BY <4>1, <4>3, ChoiceCallType
      <4>5. ChoiceCall(i, s).skip = s
        BY DEF ChoiceCall
      <4>6. /\ g \in LoopCall /\ g.item = i /\ g.skip = TopCall.item /\ CallOK(g)
            /\ g.list = K.choice[i].syms
        BY <4>2, <4>4, <4>5 DEF s
      <4>7. GoneThrough(g, {})
        BY <4>1, <4>6 DEF GoneThrough, Edges
      <4>8. From(f, g)
        BY <3>1, <4>6, <1>5, <1>8 DEF From
      <4>9. n = 1 \/ calls[n - 1].item \in DOMAIN K.sym
        <5>1. ASSUME n > 1, calls[n - 1].item \notin DOMAIN K.sym
              PROVE  FALSE
          BY <5>1, <1>1, <1>12 DEF From
        <5> QED
          BY <1>0, <5>1
      <4> QED
        BY <4>6, <4>7, <4>8, <1>0, <4>9, <1>5 DEF Continues
    <3>2. CASE TopCall.item \notin DOMAIN K.sym
      <4>1. i \in Elements(K.choice[TopCall.item].syms)
        BY <3>2, <1>3, <1>4 DEF CallOK
      <4>2. i \in DOMAIN K.sym
        <5>1. TopCall.item \in DOMAIN K.choice
          BY <3>2, <1>3, MenuType
        <5>2. K.choice[TopCall.item].syms \in Seq(DOMAIN K.sym)
          BY <5>1, <1>3, MenuType
        <5> QED
          BY <4>1, <5>2 DEF Elements
      <4>3. g = SymCall(i, TRUE)
        BY <4>2 DEF g
      <4>4. /\ g \in LoopCall /\ g.item = i /\ g.left = K.checked[i] /\ CallOK(g)
            /\ g.list = <<>>
        BY <4>2, <4>3, <1>3, SymCallType
      <4>5. GoneThrough(g, {})
        BY <4>2, <4>4 DEF GoneThrough
      <4>6. From(f, g)
        BY <3>2, <4>1, <4>2, <4>4, <1>5 DEF From
      <4>7. n = 1 \/ calls[n - 1].item \in DOMAIN K.sym
        <5>1. ASSUME n > 1, calls[n - 1].item \notin DOMAIN K.sym
              PROVE  FALSE
          BY <5>1, <3>2, <1>12 DEF From
        <5> QED
          BY <1>0, <5>1
      <4> QED
        BY <3>2, <4>4, <4>5, <4>6, <1>0, <4>7, <1>5 DEF Continues
    <3> QED
      BY <3>1, <3>2
  <2>3. GoneThrough(f, Searched \cup {g.item})
    BY <2>2, <1>11
  <2>4. CASE visited[g.item] = 0
    <3>1. visited' = [visited EXCEPT ![g.item] = 1] /\ calls' = Append(Below(f), g)
          /\ phase' = phase
      BY <2>1, <2>4 DEF Visit
    <3>2. f.item \in DOMAIN K.sym =>
             (TopCall.left = {} <=> f.left = {} /\ g.skip = f.item)
      BY <2>2, <1>1, <1>5
    <3>3. CheckInv'
      BY <3>1, <3>2, <2>2, <2>3, <2>4, <1>1, <1>9, Pushed
    <3> QED
      BY <3>1, <3>3, <1>1, CheckInvNext
  <2>5. CASE visited[g.item] = 1
    <3>1. PICK k \in 1 .. Len(Below(f)) :
            Below(f)[k].item = g.item /\ calls' = SubSeq(Below(f), k, Len(Below(f)))
      BY <2>1, <2>5 DEF Visit
    <3>2. phase' = "loop" /\ visited' = visited
      BY <2>1, <2>5 DEF Visit
    <3>3. f.item \in DOMAIN K.sym \/ g.item # f.skip
      BY <2>2, <1>5, <1>14
    <3> QED
      BY <3>1, <3>2, <3>3, <2>2, <1>1, <1>9, Reported
  <2>6. CASE visited[g.item] = 2
    <3>1. UNCHANGED <<visited, phase>> /\ calls' = Below(f)
      BY <2>1, <2>6 DEF Visit
    <3>2. g.item \in Searched
      BY <2>2, <2>6, <1>4 DEF Searched
    <3>3. GoneThrough(f, Searched)
      BY <3>2, <2>3 DEF GoneThrough
    <3>4. CheckInv'
      BY <3>1, <3>3, <1>1, <1>9, Passed
    <3> QED
      BY <3>1, <3>4, <1>1, CheckInvNext
  <2> QED
    BY <2>1, <2>4, <2>5, <2>6 DEF Visit
<1> QED
  BY <1>13, <1>14

(* When the innermost call returns, its item is searched, and so is the    *)
(* symbol that called it if it was the last item to go to.                 *)
LEMMA ReturnInv ==
  ASSUME LoopsInv, CheckReturn
  PROVE  LoopsInv'
<1>0. PICK n : n \in Nat /\ n = Len(calls) /\ (n = 1 \/ n > 1)
  <2>1. calls \in Seq(LoopCall) /\ calls # <<>>
    BY DEF LoopsInv, LoopsTypeOK, CheckReturn, Checking
  <2>2. Len(calls) \in Nat /\ Len(calls) # 0
    BY <2>1
  <2> QED
    BY <2>2
<1>1. /\ CheckInv /\ phase = "check" /\ calls # <<>> /\ K' = K
      /\ TopCall.left = {} /\ TopCall.list = <<>> /\ phase' = phase
      /\ visited' = [visited EXCEPT ![TopCall.item] = 2]
      /\ calls' = SubSeq(calls, 1, n - 1)
  BY <1>0 DEF LoopsInv, CheckInv, CheckReturn, Checking
<1>2. LoopsTypeOK /\ Linked(calls) /\ Gone /\ OnStack /\ LoopFree(Searched)
  BY <1>1 DEF CheckInv
<1>3. TopCall \in LoopCall /\ K \in Menus /\ TopCall.item \in Vertices(K)
  BY <1>1, <1>2, TopType
<1> DEFINE i == TopCall.item
           q == SubSeq(calls, 1, n - 1)
           X == IF n > 1 /\ IsSym(n - 1) /\ calls[n - 1].left = {}
                THEN {calls[n - 1].item} ELSE {}
<1>4. /\ q \in Seq(LoopCall) /\ Len(q) = n - 1
      /\ \A m \in 1 .. n - 1 : q[m] = calls[m]
  <2>1. calls \in Seq(LoopCall)
    BY <1>2 DEF LoopsTypeOK
  <2> QED
    BY <2>1, <1>0
<1>5. /\ calls[n].item = i /\ n \in 1 .. n
      /\ \A m \in 1 .. n - 1 : m \in 1 .. n /\ calls[m].item # i
  BY <1>0, <1>2 DEF OnStack, TopCall
<1>6. calls' = q /\ visited' = [visited EXCEPT ![i] = 2] /\ i \in Vertices(K)
  BY <1>1, <1>3
<1> HIDE DEF i, q
<1>7. LoopsTypeOK'
  <2>1. visited' \in [Vertices(K) -> 0 .. 2]
    BY <1>2, <1>6 DEF LoopsTypeOK
  <2> QED
    BY <2>1, <1>1, <1>2, <1>4, <1>6 DEF LoopsTypeOK, LoopCall, Vertices
<1>8. Linked(q)
  <2>1. \A m \in 1 .. n - 1 : CallOK(q[m])
    BY <1>0, <1>2, <1>4, <1>5 DEF Linked
  <2>2. \A m \in 1 .. (n - 1) - 1 : From(q[m], q[m + 1])
    <3>1. \A m \in 1 .. (n - 1) - 1 :
             m \in 1 .. n - 1 /\ m + 1 \in 1 .. n - 1
      BY <1>0
    <3> QED
      BY <3>1, <1>0, <1>2, <1>4 DEF Linked
  <2>3. n - 1 > 0 => q[1].item \in DOMAIN K.sym
    BY <1>0, <1>2, <1>4 DEF Linked
  <2>4. \A m \in 1 .. (n - 1) - 2 :
          \/ q[m].item \in DOMAIN K.sym
          \/ q[m + 2].item \in K.checked[q[m + 1].item]
    <3>1. \A m \in 1 .. (n - 1) - 2 :
             /\ m \in 1 .. n - 2 /\ m \in 1 .. n - 1
             /\ m + 1 \in 1 .. n - 1 /\ m + 2 \in 1 .. n - 1
      BY <1>0
    <3> QED
      BY <3>1, <1>0, <1>2, <1>4 DEF Linked
  <2> QED
    BY <2>1, <2>2, <2>3, <2>4, <1>0, <1>4 DEF Linked
<1>9. Linked(calls)'
  BY <1>1, <1>6, <1>8, LinkedNext
<1>10. OnStack'
  <2>1. ASSUME NEW v \in Vertices(K)
        PROVE  visited'[v] = 1 <=> \E m \in 1 .. n - 1 : q[m].item = v
    <3>1. visited[v] = 1 <=> \E m \in 1 .. n : calls[m].item = v
      BY <1>0, <1>2 DEF OnStack
    <3>2. CASE v = i
      <4>1. visited'[v] = 2
        BY <1>2, <1>6, <3>2 DEF LoopsTypeOK
      <4> QED
        BY <4>1, <3>2, <1>4, <1>5
    <3>3. CASE v # i
      <4>1. visited'[v] = visited[v]
        BY <1>2, <1>6, <3>3 DEF LoopsTypeOK
      <4>2. \A m \in 1 .. n : m = n \/ m \in 1 .. n - 1
        BY <1>0
      <4> QED
        BY <4>1, <4>2, <3>1, <3>3, <1>4, <1>5
    <3> QED
      BY <3>2, <3>3
  <2>2. \A m, k \in 1 .. n - 1 : q[m].item = q[k].item => m = k
    BY <1>0, <1>2, <1>4, <1>5 DEF OnStack
  <2> QED
    BY <2>1, <2>2, <1>1, <1>4, <1>6 DEF OnStack, Vertices
<1>11. Searched' = (Searched \cup {i}) \cup X
  <2>1. \A v \in Vertices(K) : visited'[v] = 2 <=> (visited[v] = 2 \/ v = i)
    BY <1>2, <1>6 DEF LoopsTypeOK
  <2> DEFINE Old(m) == IsSym(m) /\ calls[m].left = {}
                       /\ (m = n \/ calls[m + 1].skip = calls[m].item)
             New(m) == /\ q[m].item \in DOMAIN K.sym /\ q[m].left = {}
                       /\ (m = n - 1 \/ q[m + 1].skip = q[m].item)
  <2>2. Searched = {v \in Vertices(K) : visited[v] = 2}
                     \cup {calls[m].item : m \in {k \in 1 .. n : Old(k)}}
    BY <1>0 DEF Searched
  <2>3. Searched' = {v \in Vertices(K) : visited'[v] = 2}
                      \cup {q[m].item : m \in {k \in 1 .. n - 1 : New(k)}}
    BY <1>1, <1>4, <1>6 DEF Searched, IsSym, Vertices
  <2>4. \A m \in 1 .. n - 1 : q[m].item = calls[m].item
    BY <1>4
  <2>5. \A m \in 1 .. n - 1 : Old(m) => New(m)
    <3> SUFFICES ASSUME NEW m \in 1 .. n - 1, Old(m) PROVE New(m)
      OBVIOUS
    <3>1. m # n /\ (m = n - 1 \/ m + 1 \in 1 .. n - 1) /\ m \in Nat
      BY <1>0
    <3> QED
      BY <3>1, <1>4 DEF IsSym
  <2>6. \A m \in 1 .. n - 1 : New(m) => Old(m) \/ calls[m].item \in X
    <3> SUFFICES ASSUME NEW m \in 1 .. n - 1, New(m)
                 PROVE  Old(m) \/ calls[m].item \in X
      OBVIOUS
    <3>1. (m = n - 1 /\ n > 1) \/ (m # n - 1 /\ m + 1 \in 1 .. n - 1)
      BY <1>0
    <3> QED
      BY <3>1, <1>4 DEF IsSym
  <2>7. X # {} => n - 1 \in 1 .. n - 1 /\ New(n - 1) /\ X = {q[n - 1].item}
    <3>1. n > 1 => n - 1 \in 1 .. n - 1
      BY <1>0
    <3> QED
      BY <3>1, <1>4 DEF IsSym
  <2>8. Old(n) => calls[n].item = i
    BY <1>5
  <2>9. \A m \in 1 .. n : m = n \/ m \in 1 .. n - 1
    BY <1>0
  <2>10. \A m \in 1 .. n - 1 : m \in 1 .. n
    BY <1>0
  <2> HIDE DEF Old, New, X
  <2>11. ASSUME NEW v, v \in Searched' PROVE v \in (Searched \cup {i}) \cup X
    BY <2>1, <2>2, <2>3, <2>4, <2>6, <2>10, <2>11
  <2>12. ASSUME NEW v, v \in (Searched \cup {i}) \cup X PROVE v \in Searched'
    <3>1. CASE v \in Vertices(K) /\ visited[v] = 2
      BY <3>1, <2>1, <2>3
    <3>2. CASE v = i
      BY <3>2, <2>1, <2>3, <1>6
    <3>3. CASE v \in X
      BY <3>3, <2>7, <2>3
    <3>4. CASE \E m \in 1 .. n : Old(m) /\ v = calls[m].item
      BY <3>4, <3>2, <2>3, <2>4, <2>5, <2>8, <2>9
    <3> QED
      BY <2>2, <2>12, <3>1, <3>2, <3>3, <3>4
  <2> QED
    BY <2>11, <2>12
<1>12. Edges(i) \subseteq Searched
  <2>1. GoneThrough(calls[n], Searched)
    BY <1>0, <1>2, <1>5, GoneNow
  <2>2. calls[n] = TopCall /\ Elements(<<>>) = {}
    BY <1>0 DEF TopCall, Elements
  <2> QED
    BY <2>1, <2>2, <1>1 DEF GoneThrough, Edges, i
<1>13. LoopFree(Searched \cup {i})
  BY <1>2, <1>12, AddSearched
<1>14. n > 1 => /\ n - 1 \in 1 .. n /\ n - 1 < n /\ (n - 1) + 1 = n
               /\ n - 1 \in 1 .. n - 1
  BY <1>0
<1>15. LoopFree((Searched \cup {i}) \cup X)
  <2>1. CASE n > 1 /\ IsSym(n - 1) /\ calls[n - 1].left = {}
    <3>1. GoneThrough(calls[n - 1], Searched \cup {calls[(n - 1) + 1].item})
      BY <2>1, <1>0, <1>2, <1>14, GoneNow
    <3>2. Edges(calls[n - 1].item) \subseteq Searched \cup {i}
      BY <3>1, <2>1, <1>5, <1>14 DEF GoneThrough, Edges, IsSym
    <3> QED
      BY <2>1, <3>2, <1>13, AddSearched
  <2>2. CASE ~(n > 1 /\ IsSym(n - 1) /\ calls[n - 1].left = {})
    <3>1. X = {}
      BY <2>2
    <3> HIDE DEF X
    <3>2. (Searched \cup {i}) \cup X = Searched \cup {i}
      BY <3>1
    <3> QED
      BY <3>2, <1>13
  <2> QED
    BY <2>1, <2>2
<1> HIDE DEF X
<1>16. LoopFree(Searched)'
  BY <1>1, <1>11, <1>15, LoopFreeNext
<1>17. Gone'
  <2>1. ASSUME NEW m \in 1 .. n - 1
        PROVE  /\ m = n - 1 => GoneThrough(q[m], Searched')
               /\ m < n - 1 => GoneThrough(q[m], Searched' \cup {q[m + 1].item})
    <3>1. m \in 1 .. n /\ m < n /\ q[m] = calls[m]
      BY <1>0, <1>4
    <3>2. GoneThrough(calls[m], Searched \cup {calls[m + 1].item})
      BY <3>1, <1>0, <1>2, GoneNow
    <3>3. CASE m = n - 1
      <4>1. calls[m + 1].item = i
        BY <3>3, <1>0, <1>5
      <4> QED
        BY <4>1, <3>1, <3>2, <3>3, <1>11 DEF GoneThrough
    <3>4. CASE m < n - 1
      <4>1. m + 1 \in 1 .. n - 1 /\ m # n - 1
        BY <3>4, <1>0
      <4>2. q[m + 1] = calls[m + 1]
        BY <4>1, <1>4
      <4> QED
        BY <4>1, <4>2, <3>1, <3>2, <1>11 DEF GoneThrough
    <3>5. m \in Nat
      OBVIOUS
    <3> QED
      BY <1>0, <3>3, <3>4, <3>5
  <2>2. Len(q) \in Nat
    BY <1>0, <1>4
  <2> QED
    BY <2>1, <2>2, <1>1, <1>4, <1>6, GoneNext
<1>18. CheckInv'
  BY <1>7, <1>9, <1>10, <1>16, <1>17 DEF CheckInv
<1> QED
  BY <1>18, <1>1, CheckInvNext

(* The search of the next symbol; one without dependents is searched.      *)
LEMMA NextInv ==
  ASSUME LoopsInv, CheckNext
  PROVE  LoopsInv'
<1>1. CheckInv /\ phase = "check" /\ calls = <<>> /\ K' = K /\ phase' = phase
  BY DEF LoopsInv, CheckInv, CheckNext
<1>2. LoopsTypeOK /\ OnStack /\ LoopFree(Searched) /\ K \in Menus
  BY <1>1 DEF CheckInv, LoopsTypeOK
<1>3. PICK s : /\ s \in DOMAIN K.sym /\ visited[s] = 0
               /\ visited' = [visited EXCEPT ![s] = 1]
               /\ calls' = <<SymCall(s, FALSE)>>
  <2>1. PICK n \in Unvisited :
          /\ visited' = [visited EXCEPT ![K.defined[n]] = 1]
          /\ calls' = <<SymCall(K.defined[n], FALSE)>>
    BY DEF CheckNext
  <2>2. K.defined \in Seq(DOMAIN K.sym)
    BY <1>2, MenuType
  <2>3. K.defined[n] \in DOMAIN K.sym /\ visited[K.defined[n]] = 0
    BY <2>1, <2>2 DEF Unvisited
  <2> QED
    BY <2>1, <2>3
<1>4. /\ SymCall(s, FALSE) \in LoopCall /\ SymCall(s, FALSE).item = s
      /\ SymCall(s, FALSE).left = K.checked[s] /\ CallOK(SymCall(s, FALSE))
  BY <1>2, <1>3, SymCallType
<1>5. s \in Vertices(K)
  BY <1>2, <1>3, MenuType
<1>6. PICK g : /\ g \in LoopCall /\ g.item = s /\ g.left = K.checked[s] /\ CallOK(g)
               /\ calls' = <<g>>
  BY <1>3, <1>4
<1>7. PICK q : q = <<g>>
  OBVIOUS
<1>8. q \in Seq(LoopCall) /\ Len(q) = 1 /\ q[1] = g
  BY <1>6, <1>7
<1>9. calls' = q
  BY <1>6, <1>7
<1>10. LoopsTypeOK'
  <2>1. visited' \in [Vertices(K) -> 0 .. 2]
    <3>1. visited' = [visited EXCEPT ![s] = 1]
      BY <1>3
    <3>2. visited \in [Vertices(K) -> 0 .. 2]
      BY <1>2 DEF LoopsTypeOK
    <3> QED
      BY <3>1, <3>2, <1>5
  <2> QED
    BY <2>1, <1>1, <1>2, <1>8, <1>9 DEF LoopsTypeOK, LoopCall, Vertices
<1>11. OnStack'
  <2>1. \A v \in Vertices(K) : visited[v] # 1
    BY <1>1, <1>2 DEF OnStack
  <2>2. \A v \in Vertices(K) : visited'[v] = 1 <=> v = s
    BY <2>1, <1>2, <1>3, <1>5 DEF LoopsTypeOK
  <2> QED
    BY <2>2, <1>1, <1>6, <1>8, <1>9 DEF OnStack, Vertices
<1>12. Linked(calls)'
  <2>1. Linked(q)
    BY <1>3, <1>6, <1>8 DEF Linked
  <2> QED
    BY <2>1, <1>1, <1>9, LinkedNext
<1>13. LoopFree(Searched)'
  <2>1. Searched = {v \in Vertices(K) : visited[v] = 2}
    BY <1>1 DEF Searched
  <2>2. {v \in Vertices(K) : visited'[v] = 2} = Searched
    BY <2>1, <1>2, <1>3, <1>5 DEF LoopsTypeOK
  <2>3. Searched' = Searched \cup (IF g.left = {} THEN {s} ELSE {})
    <3>1. /\ Len(calls') = 1 /\ calls'[1] = g /\ g.item = s /\ s \in DOMAIN K.sym
          /\ K' = K
      BY <1>1, <1>3, <1>6, <1>8, <1>9
    <3>2. Searched' = {v \in Vertices(K) : visited'[v] = 2}
                        \cup {calls'[n].item : n \in {m \in 1 .. 1 :
                               /\ calls'[m].item \in DOMAIN K.sym /\ calls'[m].left = {}
                               /\ m = 1 \/ calls'[m + 1].skip = calls'[m].item}}
      BY <3>1 DEF Searched, IsSym, Vertices
    <3> QED
      BY <3>1, <3>2, <2>2
  <2>4. CASE g.left = {}
    <3>1. Edges(s) \subseteq Searched
      BY <2>4, <1>3, <1>6 DEF Edges
    <3>2. LoopFree(Searched \cup {s})
      BY <3>1, <1>2, AddSearched
    <3> QED
      BY <3>2, <2>3, <2>4, <1>1, LoopFreeNext
  <2>5. CASE g.left # {}
    BY <2>3, <2>5, <1>1, <1>2, LoopFreeNext
  <2> QED
    BY <2>4, <2>5
<1>14. Gone'
  <2>1. GoneThrough(q[1], Searched')
    BY <1>3, <1>6, <1>8 DEF GoneThrough
  <2>2. Len(calls') = 1 /\ calls'[1] = q[1]
    BY <1>8, <1>9
  <2> QED
    BY <2>1, <2>2, <1>1, GoneNext
<1>15. CheckInv'
  BY <1>10, <1>11, <1>12, <1>13, <1>14 DEF CheckInv
<1> QED
  BY <1>15, <1>1, CheckInvNext

LEMMA EndsInv ==
  ASSUME LoopsInv, CheckEnds
  PROVE  LoopsInv'
<1>1. /\ CheckInv /\ calls = <<>> /\ UNCHANGED <<K, visited, calls>>
      /\ Unvisited = {} /\ phase' = "ready"
  BY DEF LoopsInv, CheckInv, CheckEnds
<1>2. LoopsTypeOK' /\ OnStack' /\ Gone' /\ Unvisited' = {}
  BY <1>1 DEF CheckInv, LoopsTypeOK, LoopCall, OnStack, Gone, IsSym, Edges, Elements,
              Searched, Unvisited, Vertices
<1>3. Linked(calls)'
  BY <1>1, LinkedNext DEF CheckInv
<1>4. LoopFree(Searched)'
  <2>1. Searched' = Searched
    BY <1>1 DEF Searched, IsSym, Vertices
  <2> QED
    BY <2>1, <1>1, LoopFreeNext DEF CheckInv
<1> QED
  BY <1>1, <1>2, <1>3, <1>4 DEF LoopsInv, LoopIsReal

LEMMA LoopsStart == LoopsInit => LoopsInv
<1> SUFFICES ASSUME LoopsInit PROVE LoopsInv
  OBVIOUS
<1>1. /\ K \in Menus /\ phase = "check" /\ calls = <<>>
      /\ visited = [i \in Vertices(K) |-> 0]
  BY DEF LoopsInit
<1>2. Len(calls) = 0 /\ calls \in Seq(LoopCall)
  BY <1>1
<1>3. LoopsTypeOK /\ OnStack /\ Linked(calls) /\ Gone
  BY <1>1, <1>2 DEF LoopsTypeOK, OnStack, Linked, Gone
<1>4. Searched = {}
  BY <1>1, <1>2 DEF Searched
<1>5. LoopFree(Searched)
  BY <1>4 DEF LoopFree
<1> QED
  BY <1>1, <1>3, <1>5 DEF LoopsInv, LoopIsReal

LEMMA LoopsSteps == LoopsInv /\ [LoopsNext]_loopsVars => LoopsInv'
<1> SUFFICES ASSUME LoopsInv, [LoopsNext]_loopsVars PROVE LoopsInv'
  OBVIOUS
<1>1. CASE CheckNext
  BY <1>1, NextInv
<1>2. CASE CheckEnds
  BY <1>2, EndsInv
<1>3. CASE CheckDependent
  BY <1>3, DependentInv
<1>4. CASE CheckListed
  BY <1>4, ListedInv
<1>5. CASE CheckReturn
  BY <1>5, ReturnInv
<1>6. CASE UNCHANGED loopsVars
  <2>1. UNCHANGED <<K, phase, visited, calls>>
    BY <1>6 DEF loopsVars
  <2>2. /\ LoopsTypeOK' <=> LoopsTypeOK
        /\ OnStack' <=> OnStack
        /\ Gone' <=> Gone
        /\ Searched' = Searched
        /\ Unvisited' = Unvisited
        /\ LoopIsReal' <=> LoopIsReal
    BY <2>1 DEF LoopsTypeOK, LoopCall, OnStack, Gone, IsSym, Edges, Elements, Searched,
                Unvisited, Vertices, LoopIsReal, Related
  <2>3. Linked(calls) => Linked(calls)'
    BY <2>1, LinkedNext
  <2>4. LoopFree(Searched) => LoopFree(Searched)'
    BY <2>1, <2>2, LoopFreeNext
  <2> QED
    BY <2>1, <2>2, <2>3, <2>4 DEF LoopsInv
<1> QED
  BY <1>1, <1>2, <1>3, <1>4, <1>5, <1>6 DEF LoopsNext

LEMMA LoopsInvariance == LoopsSpec => []LoopsInv
<1> QED
  BY LoopsStart, LoopsSteps, PTL DEF LoopsSpec

-------------------------------------------------------------------------------
(* The calls in progress are of items of the menu, and _visited of each    *)
(* item is 0, 1 or 2 (kconfiglib.py _check_dep_loop_sym).                  *)
THEOREM TypeCorrect == LoopsSpec => []LoopsTypeOK
<1>1. LoopsInv => LoopsTypeOK
  BY DEF LoopsInv
<1> QED
  BY <1>1, LoopsInvariance, PTL

(* When the search is over all defined symbols are searched, and a set of  *)
(* items that has one of them has one that leads out of it.                *)
LEMMA NoneMissed == LoopsInv => NoLoopMissed
<1> SUFFICES ASSUME LoopsInv, phase = "ready",
                    NEW S \in SUBSET Vertices(K), S \cap Elements(K.defined) # {}
             PROVE  \E i \in S : Edges(i) \cap S = {}
  BY DEF NoLoopMissed
<1>1. /\ LoopsTypeOK /\ OnStack /\ LoopFree(Searched) /\ calls = <<>>
      /\ Unvisited = {} /\ K \in Menus
  BY DEF LoopsInv, LoopsTypeOK
<1>2. PICK n \in 1 .. Len(K.defined) : K.defined[n] \in S
  BY DEF Elements
<1>3. K.defined[n] \in Vertices(K)
  BY <1>2
<1>4. visited[K.defined[n]] # 0 /\ visited[K.defined[n]] # 1
  BY <1>1, <1>2, <1>3 DEF Unvisited, OnStack
<1>5. K.defined[n] \in Searched
  BY <1>1, <1>3, <1>4 DEF LoopsTypeOK, Searched
<1>6. PICK i \in S \cap Searched : Edges(i) \cap (S \cap Searched) = {}
  BY <1>1, <1>2, <1>5 DEF LoopFree
<1>7. Edges(i) \subseteq Searched
  BY <1>1, <1>6 DEF LoopFree
<1> QED
  BY <1>6, <1>7

(* A loop is reported only if there is one, and no loop among the symbols  *)
(* of a menu is missed, whatever the dependencies and the choices are      *)
(* (Kconfig.__init__, _check_dep_loop_sym, _check_dep_loop_choice).        *)
THEOREM SearchFindsLoops == LoopsSpec => []LoopsFound
<1>1. LoopsInv => LoopsFound
  BY NoneMissed DEF LoopsInv, LoopsFound
<1> QED
  BY <1>1, LoopsInvariance, PTL

===============================================================================
