----------------------------- MODULE PathToProofs -----------------------------
(***************************************************************************)
(* Proofs about PathTo, for every graph: neither answer of path_to is ever *)
(* wrong.  The list "seen" is shared by all the calls, so a call skips the *)
(* nodes another one has marked, and may return 1 before they have been    *)
(* searched.  The invariant says why that is sound: such a node belongs to *)
(* a call still in progress, or all that its lines lead to is marked.      *)
(***************************************************************************)
EXTENDS PathTo, DepFilesProofs, TLAPS

Open(n) == \E i \in 1 .. Len(stack) : stack[i].node = n

(* The first m lines of a file have been followed to marked nodes.         *)
Followed(n, m, marked) ==
  \A k \in 1 .. m : dep[n][k].prio <= prio => dep[n][k].id \in marked

(* Each call in progress reads the file of a marked node, and has followed *)
(* the lines it has read.                                                  *)
CallsInv ==
  \A i \in 1 .. Len(stack) :
    /\ stack[i].node \in seen \cap DOMAIN dep
    /\ stack[i].pos <= Len(dep[stack[i].node])
    /\ Followed(stack[i].node, stack[i].pos, seen)

(* A marked node is being searched, or has been.                           *)
MarkedInv ==
  answer # "found" =>
    \A n \in seen \cap DOMAIN dep : Open(n) \/ Followed(n, Len(dep[n]), seen)

(* The start is the first node marked, and the goal never is.              *)
EndsInv ==
  /\ seek \notin seen
  /\ IF seen = {} THEN stack = <<>> ELSE start \in seen
  /\ answer = "none" => seen # {}
  /\ answer # "running" => stack = <<>>

(* Only nodes that every closed set around the start contains are marked.  *)
InsideInv ==
  \A S \in SUBSET Node :
    start \in S /\ ClosedUnder(dep, S, prio)
      => seen \subseteq S /\ (answer = "found" => seek \in S)

IInv == TypeOK /\ CallsInv /\ MarkedInv /\ EndsInv /\ InsideInv
-------------------------------------------------------------------------------
(* A file that is not empty has a call; the frame is well-formed.          *)
LEMMA NewFrame ==
  ASSUME NEW n \in Node
  PROVE  [node |-> n, pos |-> 0] \in Frame
BY DEF Frame

(* What reading one more line does to the stack of calls.                  *)
LEMMA AdvanceFacts ==
  ASSUME TypeOK, MoreLines
  PROVE  /\ Depth \in Nat \ {0}
         /\ Top \in Frame
         /\ Advance \in Seq(Frame)
         /\ Len(Advance) = Depth
         /\ \A i \in 1 .. Depth - 1 : Advance[i] = stack[i]
         /\ Advance[Depth].node = Top.node
         /\ Advance[Depth].pos = Top.pos + 1
<1>1. stack \in Seq(Frame) /\ stack # <<>>
  BY DEF TypeOK, MoreLines
<1>2. Depth \in Nat \ {0} /\ Top \in Frame
  BY <1>1 DEF Depth, Top
<1> DEFINE f == [Top EXCEPT !.pos = @ + 1]
<1>3. f \in Frame /\ f.node = Top.node /\ f.pos = Top.pos + 1
  BY <1>2 DEF Frame
<1>4. Advance = [stack EXCEPT ![Depth] = f]
  BY DEF Advance, Top
<1>5. Depth \in 1 .. Len(stack)
  BY <1>2 DEF Depth
<1> HIDE DEF f
<1>6. /\ Advance \in Seq(Frame)
      /\ Len(Advance) = Len(stack)
      /\ \A i \in 1 .. Len(stack) :
           Advance[i] = IF i = Depth THEN f ELSE stack[i]
  BY <1>1, <1>3, <1>4, <1>5
<1>7. QED BY <1>1, <1>2, <1>3, <1>5, <1>6 DEF Depth

(* What the return of a call does to the stack of calls.                   *)
LEMMA ReturnFacts ==
  ASSUME TypeOK, stack # <<>>
  PROVE  /\ Depth \in 1 .. Len(stack) /\ Depth = Len(stack)
         /\ Top \in Frame
         /\ SubSeq(stack, 1, Depth - 1) \in Seq(Frame)
         /\ Len(SubSeq(stack, 1, Depth - 1)) = Depth - 1
         /\ \A i \in 1 .. Depth - 1 : SubSeq(stack, 1, Depth - 1)[i] = stack[i]
<1>1. stack \in Seq(Frame) /\ Depth = Len(stack) /\ Depth \in Nat \ {0}
  BY DEF TypeOK, Depth
<1>2. Top \in Frame
  BY <1>1 DEF Top
<1>3. QED BY <1>1, <1>2

(* The line being read is an edge of the graph, out of a marked node.      *)
LEMMA CurrentFacts ==
  ASSUME TypeOK, CallsInv, MoreLines
  PROVE  /\ Depth \in 1 .. Len(stack)
         /\ Top.node \in seen \cap DOMAIN dep
         /\ Top.pos \in Nat
         /\ Top.pos + 1 \in 1 .. Len(dep[Top.node])
         /\ Current = dep[Top.node][Top.pos + 1]
         /\ Current.id \in Node
         /\ Current.prio \in Nat /\ prio \in Nat
         /\ Followed(Top.node, Top.pos, seen)
<1>1. Depth \in 1 .. Len(stack) /\ Top \in Frame
  BY AdvanceFacts DEF Depth
<1>2. Top.node \in seen \cap DOMAIN dep /\ Followed(Top.node, Top.pos, seen)
  BY <1>1 DEF CallsInv, Top
<1>3. dep[Top.node] \in Seq(Line(Node))
  BY <1>2 DEF TypeOK
<1>4. Top.pos \in Nat /\ Top.pos + 1 \in 1 .. Len(dep[Top.node])
  BY <1>1, <1>3 DEF MoreLines, Frame
<1>5. Current \in Line(Node)
  BY <1>3, <1>4 DEF Current
<1>6. Current.id \in Node /\ Current.prio \in Nat /\ prio \in Nat
  BY <1>5 DEF Line, Weight, TypeOK
<1>7. QED BY <1>1, <1>2, <1>4, <1>6 DEF Current

(* A closed set that contains the marked nodes contains what the line      *)
(* being read leads to, unless the line is too heavy.                      *)
LEMMA CurrentInside ==
  ASSUME TypeOK, CallsInv, MoreLines, ~ TooHeavy,
         NEW S \in SUBSET Node, seen \subseteq S, ClosedUnder(dep, S, prio)
  PROVE  Current.id \in S
<1>1. /\ Top.node \in S \cap DOMAIN dep
      /\ Top.pos + 1 \in 1 .. Len(dep[Top.node])
      /\ Current = dep[Top.node][Top.pos + 1]
  BY CurrentFacts
<1>2. Current.prio <= prio
  BY CurrentFacts DEF TooHeavy
<1>3. QED BY <1>1, <1>2 DEF ClosedUnder

-------------------------------------------------------------------------------
(* The initial states satisfy the invariant.                               *)
LEMMA InitInv == Init => IInv
<1> SUFFICES ASSUME Init PROVE IInv
  OBVIOUS
<1>1. TypeOK
  BY PathToAssumption DEF Init, TypeOK, Answer
<1>2. CallsInv /\ MarkedInv /\ EndsInv /\ InsideInv
  BY DEF Init, CallsInv, MarkedInv, EndsInv, InsideInv
<1>3. QED BY <1>1, <1>2 DEF IInv

(* Every step keeps the type invariant.                                    *)
LEMMA NextType == ASSUME IInv, Next PROVE TypeOK'
<1> USE DEF IInv
<1>1. CASE Enter
  <2>1. <<[node |-> start, pos |-> 0]>> \in Seq(Frame)
    BY NewFrame DEF TypeOK
  <2>2. <<>> \in Seq(Frame)
    OBVIOUS
  <2>3. stack' \in Seq(Frame)
    BY <1>1, <2>1, <2>2 DEF Enter, TypeOK
  <2>4. QED BY <1>1, <2>3 DEF Enter, TypeOK, Answer
<1>2. CASE Skip
  BY <1>2, AdvanceFacts DEF Skip, TypeOK
<1>3. CASE Hit
  BY <1>3 DEF Hit, TypeOK, Answer
<1>4. CASE Visit
  <2>1. MoreLines
    BY <1>4 DEF Visit, Follow
  <2>2. Current.id \in Node
    BY <2>1, CurrentFacts
  <2>3. stack' \in Seq(Frame)
    BY <1>4, <2>1, <2>2, NewFrame, AdvanceFacts DEF Visit
  <2>4. QED BY <1>4, <2>2, <2>3 DEF Visit, TypeOK
<1>5. CASE GiveUp
  <2>1. stack # <<>>
    BY <1>5 DEF GiveUp
  <2>2. SubSeq(stack, 1, Depth - 1) \in Seq(Frame)
    BY <2>1, ReturnFacts
  <2>3. QED BY <1>5, <2>2 DEF GiveUp, TypeOK, Answer
<1>6. QED BY <1>1, <1>2, <1>3, <1>4, <1>5 DEF Next

(* Every step keeps what is known of the calls in progress.                *)
LEMMA NextCalls == ASSUME IInv, Next PROVE CallsInv'
<1> USE DEF IInv
<1>1. CASE Enter
  <2>1. IF NonEmpty(start) /\ start # seek
        THEN stack' = <<[node |-> start, pos |-> 0]>> /\ seen' = {start}
             /\ start \in DOMAIN dep
        ELSE stack' = <<>>
    BY <1>1 DEF Enter, EndsInv, NonEmpty
  <2>2. dep' = dep /\ prio' = prio
    BY <1>1 DEF Enter
  <2>3. start \in DOMAIN dep => dep[start] \in Seq(Line(Node))
    BY DEF TypeOK
  <2>4. QED BY <2>1, <2>2, <2>3 DEF CallsInv, Followed
<1>2. CASE Skip
  <2>1. MoreLines /\ stack' = Advance
        /\ UNCHANGED <<dep, prio, seen>>
        /\ (Current.prio <= prio => Current.id \in seen)
    <3>1. MoreLines
      BY <1>2 DEF Skip
    <3>2. Current.prio \in Nat /\ prio \in Nat
      BY <3>1, CurrentFacts
    <3>3. QED BY <1>2, <3>1, <3>2 DEF Skip, TooHeavy
  <2>2. Followed(Top.node, Top.pos + 1, seen)
    BY <2>1, CurrentFacts DEF Followed
  <2>3. \A i \in 1 .. Len(stack') :
          /\ stack'[i].node \in seen \cap DOMAIN dep
          /\ stack'[i].pos <= Len(dep[stack'[i].node])
          /\ Followed(stack'[i].node, stack'[i].pos, seen)
    BY <2>1, <2>2, CurrentFacts, AdvanceFacts DEF CallsInv, Depth
  <2>4. QED BY <2>1, <2>3 DEF CallsInv, Followed
<1>3. CASE Hit
  BY <1>3 DEF Hit, CallsInv
<1>4. CASE Visit
  <2>1. MoreLines /\ seen' = seen \cup {Current.id}
        /\ UNCHANGED <<dep, prio>>
    BY <1>4 DEF Visit, Follow
  <2>2. \A n, m : Followed(n, m, seen) => Followed(n, m, seen')
    BY <2>1 DEF Followed
  <2>3. Followed(Top.node, Top.pos + 1, seen')
    BY <2>1, CurrentFacts DEF Followed
  <2>4. \A i \in 1 .. Depth :
          /\ Advance[i].node \in seen \cap DOMAIN dep
          /\ Advance[i].pos <= Len(dep[Advance[i].node])
          /\ Followed(Advance[i].node, Advance[i].pos, seen')
    <3> SUFFICES ASSUME NEW i \in 1 .. Depth
                 PROVE  /\ Advance[i].node \in seen \cap DOMAIN dep
                        /\ Advance[i].pos <= Len(dep[Advance[i].node])
                        /\ Followed(Advance[i].node, Advance[i].pos, seen')
      OBVIOUS
    <3>1. CASE i = Depth
      <4>1. Advance[i].node = Top.node /\ Advance[i].pos = Top.pos + 1
        BY <2>1, <3>1, AdvanceFacts
      <4>2. /\ Top.node \in seen \cap DOMAIN dep
            /\ Top.pos + 1 <= Len(dep[Top.node])
        BY <2>1, CurrentFacts
      <4>3. QED BY <2>3, <4>1, <4>2
    <3>2. CASE i # Depth
      <4>1. Advance[i] = stack[i] /\ i \in 1 .. Len(stack)
        BY <2>1, <3>2, AdvanceFacts DEF Depth
      <4>2. QED BY <2>2, <4>1 DEF CallsInv
    <3>3. QED BY <3>1, <3>2
  <2>5. CASE ~ NonEmpty(Current.id)
    <3>1. stack' = Advance /\ Len(Advance) = Depth
      BY <1>4, <2>1, <2>5, AdvanceFacts DEF Visit
    <3>2. QED BY <2>1, <2>4, <3>1 DEF CallsInv, Followed
  <2>6. CASE NonEmpty(Current.id)
    <3> DEFINE f == [node |-> Current.id, pos |-> 0]
    <3>1. stack' = Append(Advance, f) /\ Advance \in Seq(Frame)
          /\ Len(Advance) = Depth /\ Depth \in Nat
      BY <1>4, <2>1, <2>6, AdvanceFacts DEF Visit
    <3>2. /\ f.node \in seen' \cap DOMAIN dep
          /\ f.pos <= Len(dep[f.node])
          /\ Followed(f.node, f.pos, seen')
      BY <2>1, <2>6 DEF NonEmpty, TypeOK, Followed
    <3>3. /\ Len(stack') = Depth + 1
          /\ stack'[Depth + 1] = f
          /\ \A i \in 1 .. Depth : stack'[i] = Advance[i]
      BY <3>1
    <3> HIDE DEF f
    <3>4. \A i \in 1 .. Len(stack') :
            /\ stack'[i].node \in seen' \cap DOMAIN dep
            /\ stack'[i].pos <= Len(dep[stack'[i].node])
            /\ Followed(stack'[i].node, stack'[i].pos, seen')
      <4> SUFFICES ASSUME NEW i \in 1 .. Len(stack')
                   PROVE  /\ stack'[i].node \in seen' \cap DOMAIN dep
                          /\ stack'[i].pos <= Len(dep[stack'[i].node])
                          /\ Followed(stack'[i].node, stack'[i].pos, seen')
        OBVIOUS
      <4>1. CASE i = Depth + 1
        BY <4>1, <3>2, <3>3
      <4>2. CASE i \in 1 .. Depth
        BY <4>2, <2>1, <2>4, <3>3
      <4>3. QED BY <3>1, <3>3, <4>1, <4>2
    <3>5. QED BY <2>1, <3>4 DEF CallsInv, Followed
  <2>7. QED BY <2>5, <2>6
<1>5. CASE GiveUp
  <2>1. stack # <<>>
    BY <1>5 DEF GiveUp
  <2>2. /\ stack' = SubSeq(stack, 1, Depth - 1)
        /\ UNCHANGED <<dep, prio, seen>>
    BY <1>5 DEF GiveUp
  <2>3. /\ Len(stack') = Len(stack) - 1
        /\ \A i \in 1 .. Len(stack') : i \in 1 .. Len(stack) /\ stack'[i] = stack[i]
    BY <2>1, <2>2, ReturnFacts
  <2>4. QED BY <2>2, <2>3 DEF CallsInv, Followed
<1>6. QED BY <1>1, <1>2, <1>3, <1>4, <1>5 DEF Next

(* Every step keeps the marked nodes searched or being searched.           *)
LEMMA NextMarked == ASSUME IInv, Next PROVE MarkedInv'
<1> USE DEF IInv
<1>1. CASE Enter
  <2> SUFFICES ASSUME answer' # "found", NEW n \in seen' \cap DOMAIN dep'
               PROVE  Open(n)' \/ Followed(n, Len(dep[n]), seen)'
    BY DEF MarkedInv
  <2>1. n = start /\ dep' = dep /\ start \in DOMAIN dep
    BY <1>1 DEF Enter
  <2>2. CASE NonEmpty(start)
    BY <1>1, <2>1, <2>2 DEF Enter, Open
  <2>3. CASE ~ NonEmpty(start)
    BY <1>1, <2>1, <2>3 DEF Enter, NonEmpty, Followed
  <2>4. QED BY <2>2, <2>3
<1>2. CASE Skip
  <2>1. /\ MoreLines /\ stack' = Advance
        /\ UNCHANGED <<dep, prio, seen, answer>>
    BY <1>2 DEF Skip
  <2>2. \A n : Open(n) => Open(n)'
    <3> SUFFICES ASSUME NEW n, NEW i \in 1 .. Len(stack), stack[i].node = n
                 PROVE  Open(n)'
      BY DEF Open
    <3>1. i \in 1 .. Len(stack') /\ stack'[i].node = n
      BY <2>1, AdvanceFacts DEF Depth, Top
    <3>2. QED BY <3>1 DEF Open
  <2>3. QED BY <2>1, <2>2 DEF MarkedInv, Followed
<1>3. CASE Hit
  BY <1>3 DEF Hit, MarkedInv
<1>4. CASE Visit
  <2> SUFFICES ASSUME answer' # "found", NEW n \in seen' \cap DOMAIN dep'
               PROVE  Open(n)' \/ Followed(n, Len(dep[n]), seen)'
    BY DEF MarkedInv
  <2>1. /\ MoreLines /\ seen' = seen \cup {Current.id}
        /\ UNCHANGED <<dep, prio, answer>>
    BY <1>4 DEF Visit, Follow
  <2>2. stack' = Advance \/ stack' = Append(Advance, [node |-> Current.id, pos |-> 0])
    BY <1>4 DEF Visit
  <2>3. \A m : Open(m) => Open(m)'
    <3> SUFFICES ASSUME NEW m, NEW i \in 1 .. Len(stack), stack[i].node = m
                 PROVE  Open(m)'
      BY DEF Open
    <3>1. i \in 1 .. Len(Advance) /\ Advance[i].node = m /\ Advance \in Seq(Frame)
      BY <2>1, AdvanceFacts DEF Depth, Top
    <3>2. i \in 1 .. Len(stack') /\ stack'[i].node = m
      BY <2>2, <3>1
    <3>3. QED BY <3>2 DEF Open
  <2>4. CASE n \in seen
    BY <2>1, <2>3, <2>4 DEF MarkedInv, Followed
  <2>5. CASE n = Current.id /\ NonEmpty(n)
    <3>1. /\ stack' = Append(Advance, [node |-> n, pos |-> 0])
          /\ Advance \in Seq(Frame)
      BY <1>4, <2>1, <2>5, AdvanceFacts DEF Visit
    <3>2. Len(stack') \in 1 .. Len(stack') /\ stack'[Len(stack')].node = n
      BY <3>1
    <3>3. QED BY <3>2 DEF Open
  <2>6. CASE n = Current.id /\ ~ NonEmpty(n)
    BY <2>1, <2>6 DEF NonEmpty, Followed
  <2>7. QED BY <2>1, <2>4, <2>5, <2>6
<1>5. CASE GiveUp
  <2>1. stack # <<>> /\ ~ MoreLines /\ answer # "found"
    BY <1>5 DEF GiveUp, EndsInv
  <2>2. /\ stack' = SubSeq(stack, 1, Depth - 1)
        /\ UNCHANGED <<dep, prio, seen>>
    BY <1>5 DEF GiveUp
  <2>3. /\ Len(stack') = Len(stack) - 1
        /\ \A i \in 1 .. Len(stack') : stack'[i] = stack[i]
    BY <2>1, <2>2, ReturnFacts
  <2>4. Depth \in 1 .. Len(stack) /\ Depth = Len(stack) /\ Top \in Frame
    BY <2>1, ReturnFacts
  <2>5. Followed(Top.node, Len(dep[Top.node]), seen)
    <3>1. /\ Top.node \in DOMAIN dep
          /\ Top.pos <= Len(dep[Top.node])
          /\ Followed(Top.node, Top.pos, seen)
      BY <2>4 DEF CallsInv, Top
    <3>2. dep[Top.node] \in Seq(Line(Node))
      BY <3>1 DEF TypeOK
    <3>3. Top.pos = Len(dep[Top.node])
      BY <2>1, <2>4, <3>1, <3>2 DEF MoreLines, Frame
    <3>4. QED BY <3>1, <3>3
  <2>6. \A n : Open(n) => n = Top.node \/ Open(n)'
    <3> SUFFICES ASSUME NEW n, NEW i \in 1 .. Len(stack), stack[i].node = n
                 PROVE  n = Top.node \/ Open(n)'
      BY DEF Open
    <3>1. CASE i = Depth
      BY <3>1 DEF Top
    <3>2. CASE i # Depth
      <4>1. i \in 1 .. Len(stack') /\ stack'[i].node = n
        BY <2>1, <2>3, <2>4, <3>2
      <4>2. QED BY <4>1 DEF Open
    <3>3. QED BY <3>1, <3>2
  <2>7. QED BY <2>1, <2>2, <2>5, <2>6 DEF MarkedInv, Followed
<1>6. QED BY <1>1, <1>2, <1>3, <1>4, <1>5 DEF Next

(* Every step keeps the start marked, and the goal not.                    *)
LEMMA NextEnds == ASSUME IInv, Next PROVE EndsInv'
<1> USE DEF IInv
<1>1. CASE Enter
  BY <1>1 DEF Enter, EndsInv
<1>2. CASE Skip
  <2>1. seen # {} /\ answer = "running"
    BY <1>2 DEF Skip, EndsInv, MoreLines
  <2>2. QED BY <1>2, <2>1 DEF Skip, EndsInv
<1>3. CASE Hit
  BY <1>3 DEF Hit, EndsInv
<1>4. CASE Visit
  <2>1. seen # {} /\ answer = "running"
    BY <1>4 DEF Visit, Follow, EndsInv, MoreLines
  <2>2. QED BY <1>4, <2>1 DEF Visit, EndsInv
<1>5. CASE GiveUp
  <2>1. seen # {} /\ answer = "running" /\ stack # <<>>
    BY <1>5 DEF GiveUp, EndsInv
  <2>2. Depth = 1 => stack' = <<>>
    BY <1>5, <2>1, ReturnFacts DEF GiveUp
  <2>3. QED BY <1>5, <2>1, <2>2 DEF GiveUp, EndsInv
<1>6. QED BY <1>1, <1>2, <1>3, <1>4, <1>5 DEF Next

(* Every step keeps the marked nodes inside the closed sets.               *)
LEMMA NextInside == ASSUME IInv, Next PROVE InsideInv'
<1> USE DEF IInv
<1>1. UNCHANGED <<dep, start, seek, prio>>
  BY DEF Next, Enter, Skip, Hit, Visit, GiveUp
<1> SUFFICES ASSUME NEW S \in SUBSET Node, start \in S, ClosedUnder(dep, S, prio)
             PROVE  seen' \subseteq S /\ (answer' = "found" => seek \in S)
  BY <1>1 DEF InsideInv, ClosedUnder
<1>2. seen \subseteq S /\ (answer = "found" => seek \in S)
  BY DEF InsideInv
<1>3. CASE Enter
  BY <1>2, <1>3 DEF Enter
<1>4. CASE Skip
  BY <1>2, <1>4 DEF Skip
<1>5. CASE Hit
  <2>1. Current.id \in S
    BY <1>2, <1>5, CurrentInside DEF Hit, Follow
  <2>2. QED BY <1>2, <1>5, <2>1 DEF Hit
<1>6. CASE Visit
  <2>1. Current.id \in S
    BY <1>2, <1>6, CurrentInside DEF Visit, Follow
  <2>2. QED BY <1>2, <1>6, <2>1 DEF Visit
<1>7. CASE GiveUp
  BY <1>2, <1>7 DEF GiveUp
<1>8. QED BY <1>3, <1>4, <1>5, <1>6, <1>7 DEF Next

-------------------------------------------------------------------------------
(* The invariant is inductive.                                             *)
LEMMA Inductive == Spec => []IInv
<1>1. Init => IInv
  BY InitInv
<1>2. IInv /\ [Next]_vars => IInv'
  <2> SUFFICES ASSUME IInv, [Next]_vars PROVE IInv'
    OBVIOUS
  <2>1. CASE Next
    BY <2>1, NextType, NextCalls, NextMarked, NextEnds, NextInside DEF IInv
  <2>2. CASE UNCHANGED vars
    BY <2>2 DEF vars, IInv, TypeOK, CallsInv, MarkedInv, EndsInv, InsideInv,
                Open, Followed, ClosedUnder
  <2>3. QED BY <2>1, <2>2
<1>3. QED BY <1>1, <1>2, PTL DEF Spec

(* The variables of path_to keep their types.                              *)
THEOREM TypeCorrect == Spec => []TypeOK
<1>1. IInv => TypeOK
  BY DEF IInv
<1>2. QED BY <1>1, Inductive, PTL

(* When path_to returns 1 there is no path: the nodes marked contain the   *)
(* start, miss the goal, and no edge light enough leaves them.             *)
THEOREM ReturnOneIsRight == Spec => []NoneIsRight
<1>1. IInv => NoneIsRight
  <2> SUFFICES ASSUME IInv, answer = "none" PROVE NoneIsRight
    BY DEF NoneIsRight
  <2>1. seen \in SUBSET Node /\ start \in seen /\ seek \notin seen
    BY DEF IInv, TypeOK, EndsInv
  <2>2. \A n \in seen \cap DOMAIN dep : Followed(n, Len(dep[n]), seen)
    BY DEF IInv, EndsInv, MarkedInv, Open
  <2>3. ClosedUnder(dep, seen, prio)
    BY <2>2 DEF ClosedUnder, Followed
  <2>4. QED BY <2>1, <2>3 DEF NoneIsRight
<1>2. QED BY <1>1, Inductive, PTL

(* When path_to returns 0 there is a path: no closed set separates the     *)
(* start from the goal.                                                    *)
THEOREM ReturnZeroIsRight == Spec => []FoundIsRight
<1>1. IInv => FoundIsRight
  BY DEF IInv, InsideInv, FoundIsRight
<1>2. QED BY <1>1, Inductive, PTL

-------------------------------------------------------------------------------
(* The closed sets of Reachable and those of the other properties.         *)
LEMMA ClosedAndHull ==
  ASSUME TypeOK
  PROVE  LET N == Nodes(dep, start)
             next == Edges(dep, start, prio)
         IN  /\ N \subseteq Node
             /\ \A S \in SUBSET Node : ClosedUnder(dep, S, prio) => ClosedIn(next, S \cap N)
             /\ \A S \in SUBSET N : ClosedIn(next, S) => ClosedUnder(dep, S, prio)
             /\ ClosedIn(next, N)
<1> DEFINE N == Nodes(dep, start)
           next == Edges(dep, start, prio)
<1>1. N \subseteq Node
  <2>1. ASSUME NEW n \in DOMAIN dep, NEW i \in 1 .. Len(dep[n])
        PROVE  dep[n][i].id \in Node
    <3>1. dep[n] \in Seq(Line(Node))
      BY DEF TypeOK
    <3>2. dep[n][i] \in Line(Node)
      BY <3>1
    <3> QED
      BY <3>2 DEF Line
  <2> QED
    BY <2>1 DEF Nodes, Targets, TypeOK
<1>2. \A n \in N : next[n] = Successors(dep, n, prio) /\ next[n] \subseteq N
  BY DEF Edges, Nodes, Successors, Targets
<1>3. ASSUME NEW S \in SUBSET Node, ClosedUnder(dep, S, prio)
      PROVE  ClosedIn(next, S \cap N)
  <2>1. ASSUME NEW n \in S PROVE Successors(dep, n, prio) \subseteq S
    BY <1>3 DEF ClosedUnder, Successors
  <2> QED
    BY <1>2, <2>1 DEF ClosedIn
<1>4. ASSUME NEW S \in SUBSET N, ClosedIn(next, S)
      PROVE  ClosedUnder(dep, S, prio)
  <2>1. \A n \in S : Successors(dep, n, prio) \subseteq S
    BY <1>2, <1>4 DEF ClosedIn
  <2> QED
    BY <2>1 DEF ClosedUnder, Successors
<1>5. ClosedIn(next, N)
  BY <1>2 DEF ClosedIn
<1> QED
  BY <1>1, <1>3, <1>4, <1>5

(* path_to answers what the fixpoint says that stands for it in            *)
(* clean_subgraph and generate_dependency_tree.                            *)
THEOREM AnswersLikeHasPath == Spec => []AgreesWithHasPath
<1>1. TypeOK /\ NoneIsRight /\ FoundIsRight => AgreesWithHasPath
  <2> SUFFICES ASSUME TypeOK, NoneIsRight, FoundIsRight, answer # "running"
               PROVE  answer = "found" <=> HasPath(dep, start, seek, prio)
    BY DEF AgreesWithHasPath
  <2> DEFINE N == Nodes(dep, start)
             next == Edges(dep, start, prio)
  <2>1. /\ N \subseteq Node /\ start \in N /\ DOMAIN next = N
        /\ \A S \in SUBSET Node : ClosedUnder(dep, S, prio) => ClosedIn(next, S \cap N)
        /\ \A S \in SUBSET N : ClosedIn(next, S) => ClosedUnder(dep, S, prio)
        /\ ClosedIn(next, N)
    BY ClosedAndHull DEF Nodes, Edges
  <2>2. IsFiniteSet(N)
    BY <2>1, FiniteAssumption, FS_Subset
  <2>3. HasPath(dep, start, seek, prio) <=> seek \in Hull(next, {start})
    BY <2>2, ReachableIsHull DEF HasPath
  <2> HIDE DEF N, next
  <2>4. ASSUME answer = "found" PROVE seek \in Hull(next, {start})
    <3>1. \A T \in SUBSET N : {start} \subseteq T /\ ClosedIn(next, T) => seek \in T
      BY <2>1, <2>4 DEF FoundIsRight
    <3>2. seek \in N
      BY <2>1, <3>1
    <3> QED
      BY <2>1, <3>1, <3>2 DEF Hull
  <2>5. ASSUME answer = "none" PROVE seek \notin Hull(next, {start})
    <3>1. PICK S \in SUBSET Node :
            start \in S /\ ClosedUnder(dep, S, prio) /\ seek \notin S
      BY <2>5 DEF NoneIsRight
    <3>2. /\ S \cap N \in SUBSET N /\ {start} \subseteq S \cap N
          /\ ClosedIn(next, S \cap N) /\ seek \notin S \cap N
      BY <2>1, <3>1
    <3> QED
      BY <2>1, <3>2 DEF Hull
  <2> QED
    BY <2>3, <2>4, <2>5 DEF TypeOK, Answer
<1> QED
  BY <1>1, TypeCorrect, ReturnOneIsRight, ReturnZeroIsRight, PTL
===============================================================================
