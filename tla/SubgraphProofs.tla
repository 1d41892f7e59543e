---------------------------- MODULE SubgraphProofs ----------------------------
(***************************************************************************)
(* Proofs about Subgraph, for every book, request and DEP_LEVEL.  The      *)
(* invariant below says, for every call in progress, which lines it has    *)
(* dealt with, and for every package whose call has returned, that what it *)
(* depends on has been extracted.                                          *)
(***************************************************************************)
EXTENDS Subgraph, FiniteSetTheorems, TLAPS

Files == DOMAIN dep

OnStack(p) == \E i \in 1 .. Len(stack) : stack[i].node = p

(* How many lines of root.dep have been dealt with or are being so.        *)
RootPos == IF stack = <<>> THEN Len(target) ELSE stack[1].pos

(* The files are root.dep and copies of what dependencies.xsl printed.     *)
FilesInv ==
  /\ Root \in Files
  /\ dep[Root] = RootFile(target)
  /\ \A p \in Files \ {Root} : dep[p] = book[p]

(* Each call was made for the line its caller has just read.               *)
StackInv ==
  /\ \A i \in 1 .. Len(stack) :
       /\ stack[i].node \in Files
       /\ stack[i].pos <= Len(dep[stack[i].node])
       /\ stack[i].node = Root <=> i = 1
  /\ \A i \in 1 .. Len(stack) - 1 :
       /\ stack[i].pos >= 1
       /\ dep[stack[i].node][stack[i].pos].id = stack[i + 1].node

(* The lines already read by a call have been followed.                    *)
ReadInv ==
  \A i \in 1 .. Len(stack) : \A k \in 1 .. stack[i].pos :
    dep[stack[i].node][k].prio <= DepLevel(i)
      => dep[stack[i].node][k].id \in Files

(* A package whose call has returned is complete, up to the weight that is *)
(* followed everywhere.                                                    *)
BaseInv ==
  \A p \in Files \ {Root} : OnStack(p) \/ Follows(Files, p, DepLevel(3))

(* A requested package that root has dealt with is complete, up to the     *)
(* weight that is followed from requested packages.                        *)
TargetInv ==
  \A k \in 1 .. RootPos :
    /\ target[k] \in Files
    /\ \/ Len(stack) >= 2 /\ stack[2].node = target[k]
       \/ Follows(Files, target[k], DepLevel(2))

IInv ==
  /\ TypeOK
  /\ FilesInv
  /\ StackInv
  /\ OpenOnce
  /\ NothingExtra
  /\ ReadInv
  /\ BaseInv
  /\ TargetInv
-------------------------------------------------------------------------------
(* Requested packages are packages: root.dep is a well-formed file.        *)
LEMMA RootFileType ==
  ASSUME NEW t \in Seq(Package)
  PROVE  /\ RootFile(t) \in Seq(Line(Package))
         /\ Len(RootFile(t)) = Len(t)
         /\ \A i \in 1 .. Len(t) : RootFile(t)[i].id = t[i]
         /\ \A i \in 1 .. Len(t) : RootFile(t)[i].prio = 1
<1>1. \A i \in 1 .. Len(t) :
        [prio |-> 1, qual |-> "b", id |-> t[i]] \in Line(Package)
  BY DEF Line, Weight, Qualifier
<1>2. QED BY <1>1 DEF RootFile

(* The initial states satisfy the type invariant.                          *)
LEMMA InitType == Init => TypeOK
<1> SUFFICES ASSUME Init PROVE TypeOK
  OBVIOUS
<1>1. /\ book \in [Package -> Seq(Line(Package))]
      /\ target \in Seq(Package) \ {<<>>}
      /\ level \in 1 .. 4
  BY SubgraphAssumption DEF Init
<1>2. DOMAIN dep \subseteq Node
  BY DEF Init, Node
<1>3. \A n \in DOMAIN dep : dep[n] \in Seq(Line(Package))
  BY <1>1, RootFileType DEF Init
<1>4. stack \in Seq(Frame)
  BY DEF Init, Frame, Node
<1>5. QED BY <1>1, <1>2, <1>3, <1>4 DEF TypeOK

(* What reading one more line does to the stack of calls.                  *)
LEMMA AdvanceFacts ==
  ASSUME TypeOK, MoreLines
  PROVE  /\ Depth \in Nat \ {0}
         /\ Top \in Frame
         /\ Advance \in Seq(Frame)
         /\ Len(Advance) = Depth
         /\ \A i \in 1 .. Depth - 1 : Advance[i] = stack[i]
         /\ Advance[Depth].node = Top.node
         /\ Advance[Depth].pos = Top.pos + 1
<1>1. stack \in Seq(Frame) /\ stack # <<>>
  BY DEF TypeOK, MoreLines
<1>2. Depth \in Nat \ {0} /\ Top \in Frame
  BY <1>1 DEF Depth, Top
<1> DEFINE f == [Top EXCEPT !.pos = @ + 1]
<1>3. f \in Frame /\ f.node = Top.node /\ f.pos = Top.pos + 1
  BY <1>2 DEF Frame
<1>4. Advance = [stack EXCEPT ![Depth] = f]
  BY DEF Advance, Top
<1>5. Depth \in 1 .. Len(stack)
  BY <1>2 DEF Depth
<1> HIDE DEF f
<1>6. /\ Advance \in Seq(Frame)
      /\ Len(Advance) = Len(stack)
      /\ \A i \in 1 .. Len(stack) :
           Advance[i] = IF i = Depth THEN f ELSE stack[i]
  BY <1>1, <1>3, <1>4, <1>5
<1>7. QED BY <1>1, <1>2, <1>3, <1>5, <1>6 DEF Depth

(* The line being read is an edge of the graph.                            *)
LEMMA CurrentType ==
  ASSUME TypeOK, MoreLines, Top.node \in DOMAIN dep
  PROVE  Current \in Line(Package)
<1>1. dep[Top.node] \in Seq(Line(Package))
  BY DEF TypeOK
<1>2. Top.pos + 1 \in 1 .. Len(dep[Top.node])
  BY <1>1, AdvanceFacts DEF MoreLines, Frame
<1>3. QED BY <1>1, <1>2 DEF Current

(* The weights followed: never less than what is followed at depth 3.      *)
LEMMA DepLevelFacts ==
  ASSUME level \in 1 .. 4, NEW d \in Nat \ {0}
  PROVE  /\ DepLevel(d) \in 1 .. 3
         /\ DepLevel(3) \in 1 .. 3
         /\ DepLevel(3) <= DepLevel(d)
         /\ level # 3 => DepLevel(d) = DepLevel(3)
BY DEF DepLevel

(* At the bottom of the stack is root, whose lines are the requests.       *)
LEMMA BottomFacts ==
  ASSUME IInv, stack # <<>>
  PROVE  /\ Depth \in Nat \ {0}
         /\ stack[1].node = Root
         /\ Top \in Frame
         /\ Top.node \in Files
         /\ Top.node = Root <=> Depth = 1
         /\ Top.pos <= Len(dep[Top.node])
         /\ \A i \in 1 .. Depth : stack[i] \in Frame
<1>1. stack \in Seq(Frame) /\ StackInv
  BY DEF IInv, TypeOK
<1>2. Depth \in Nat \ {0} /\ \A i \in 1 .. Depth : stack[i] \in Frame
  BY <1>1 DEF Depth
<1>3. 1 \in 1 .. Len(stack) /\ Depth \in 1 .. Len(stack)
  BY <1>2 DEF Depth
<1>4. QED BY <1>1, <1>2, <1>3 DEF StackInv, Top

(* The second call from the bottom was made for a requested package.       *)
LEMMA SecondRequested ==
  ASSUME IInv, Len(stack) >= 2
  PROVE  stack[2].node \in Requested
<1>1. stack \in Seq(Frame) /\ target \in Seq(Package) /\ target # <<>>
  BY DEF IInv, TypeOK
<1>2. stack # <<>> /\ 1 \in 1 .. Len(stack) - 1 /\ 1 \in 1 .. Len(stack)
  BY <1>1
<1>3. stack[1].node = Root /\ stack[1] \in Frame
  BY <1>1, <1>2, BottomFacts DEF Depth
<1>4. /\ stack[1].pos >= 1 /\ stack[1].pos <= Len(dep[Root])
      /\ dep[Root][stack[1].pos].id = stack[2].node
  BY <1>2, <1>3 DEF IInv, StackInv
<1>5. dep[Root] = RootFile(target)
  BY DEF IInv, FilesInv
<1>6. stack[1].pos \in 1 .. Len(target)
  BY <1>1, <1>3, <1>4, <1>5, RootFileType DEF Frame
<1>7. stack[2].node = target[stack[1].pos]
  BY <1>1, <1>4, <1>5, <1>6, RootFileType
<1>8. QED BY <1>6, <1>7 DEF Requested

(* The line being read, at each depth.                                     *)
LEMMA CurrentFacts ==
  ASSUME IInv, MoreLines
  PROVE  /\ stack # <<>>
         /\ Current \in Line(Package)
         /\ Top.pos + 1 \in 1 .. Len(dep[Top.node])
         /\ Depth = 1 => /\ Top.pos + 1 \in 1 .. Len(target)
                         /\ Current.id = target[Top.pos + 1]
                         /\ Current.prio = 1
<1>1. stack # <<>> /\ TypeOK /\ FilesInv /\ target \in Seq(Package)
  BY DEF MoreLines, IInv, TypeOK
<1>2. Top \in Frame /\ Top.node \in Files /\ (Top.node = Root <=> Depth = 1)
  BY <1>1, BottomFacts
<1>3. dep[Top.node] \in Seq(Line(Package))
  BY <1>1, <1>2 DEF TypeOK, Files
<1>4. Top.pos + 1 \in 1 .. Len(dep[Top.node])
  BY <1>2, <1>3 DEF MoreLines, Frame
<1>5. Current \in Line(Package)
  BY <1>1, <1>2, CurrentType DEF Files
<1>6. ASSUME Depth = 1
      PROVE  /\ Top.pos + 1 \in 1 .. Len(target)
             /\ Current.id = target[Top.pos + 1]
             /\ Current.prio = 1
  BY <1>6, <1>1, <1>2, <1>4, RootFileType DEF FilesInv, Current
<1>7. QED BY <1>1, <1>4, <1>5, <1>6

(* Extracting a package adds its file and changes no other; extracting it  *)
(* again gives the same file.                                              *)
LEMMA ExtractFacts ==
  ASSUME IInv, Extract
  PROVE  /\ Current.id \in Package
         /\ Files' = Files \cup {Current.id}
         /\ \A n \in Files : dep'[n] = dep[n]
         /\ dep'[Current.id] = book[Current.id]
         /\ FilesInv'
         /\ \A n \in Files' : dep'[n] \in Seq(Line(Package))
<1>1. Current \in Line(Package) /\ TypeOK /\ FilesInv
  BY CurrentFacts DEF Extract, IInv
<1>2. Current.id \in Package /\ Current.id # Root
  BY <1>1, SubgraphAssumption DEF Line
<1>3. dep' = Put(dep, Current.id, book[Current.id])
  BY DEF Extract
<1>4. /\ Files' = Files \cup {Current.id}
      /\ \A n \in Files' :
           dep'[n] = IF n = Current.id THEN book[Current.id] ELSE dep[n]
  BY <1>3 DEF Put, Files
<1>5. \A n \in Files : dep'[n] = dep[n]
  BY <1>1, <1>2, <1>4 DEF FilesInv
<1>6. dep'[Current.id] = book[Current.id]
  BY <1>4
<1>7. book' = book /\ target' = target
  BY DEF Extract
<1>8. FilesInv'
  BY <1>1, <1>2, <1>4, <1>5, <1>6, <1>7 DEF FilesInv, RootFile
<1>9. book[Current.id] \in Seq(Line(Package))
  BY <1>1, <1>2 DEF TypeOK
<1>10. \A n \in Files : dep[n] \in Seq(Line(Package))
  BY <1>1 DEF TypeOK, Files
<1>11. \A n \in Files' : dep'[n] \in Seq(Line(Package))
  BY <1>4, <1>9, <1>10
<1>12. QED BY <1>2, <1>4, <1>5, <1>6, <1>8, <1>11

-------------------------------------------------------------------------------
(***************************************************************************)
(* What the three actions that read a line have in common: the calls in    *)
(* progress stay, the last one advances by a line, files are only added,   *)
(* and the line read is followed if its weight says so.                    *)
(***************************************************************************)
Reading ==
  /\ MoreLines
  /\ UNCHANGED <<book, target, level>>
  /\ stack' \in Seq(Frame)
  /\ Len(stack') >= Depth
  /\ \A i \in 1 .. Depth : stack'[i] = Advance[i]
  /\ Files \subseteq Files'
  /\ \A n \in Files : dep'[n] = dep[n]
  /\ Current.prio <= DepLevel(Depth) => Current.id \in Files'

(* The frames below the last one after reading a line.                     *)
LEMMA ReadingFrames ==
  ASSUME IInv, Reading
  PROVE  /\ Depth \in Nat \ {0}
         /\ \A i \in 1 .. Depth : stack'[i].node = stack[i].node
         /\ \A i \in 1 .. Depth - 1 : stack'[i] = stack[i]
         /\ stack'[Depth].pos = Top.pos + 1
<1>1. TypeOK /\ MoreLines
  BY DEF IInv, Reading
<1>2. \A i \in 1 .. Depth : stack'[i] = Advance[i]
  BY DEF Reading
<1>3. /\ Depth \in Nat \ {0}
      /\ \A i \in 1 .. Depth - 1 : Advance[i] = stack[i]
      /\ Advance[Depth].node = Top.node
      /\ Advance[Depth].pos = Top.pos + 1
  BY <1>1, AdvanceFacts
<1>4. \A i \in 1 .. Depth - 1 : stack'[i] = stack[i]
  BY <1>2, <1>3
<1>5. stack'[Depth].node = stack[Depth].node /\ stack'[Depth].pos = Top.pos + 1
  BY <1>2, <1>3 DEF Top
<1>6. \A i \in 1 .. Depth : i = Depth \/ i \in 1 .. Depth - 1
  BY <1>3
<1>7. QED BY <1>3, <1>4, <1>5, <1>6

(* StackInv of the frames that were there.                                 *)
LEMMA ReadingStack ==
  ASSUME IInv, Reading
  PROVE  /\ \A i \in 1 .. Depth :
              /\ stack'[i].node \in Files'
              /\ stack'[i].pos <= Len(dep'[stack'[i].node])
              /\ stack'[i].node = Root <=> i = 1
         /\ \A i \in 1 .. Depth - 1 :
              /\ stack'[i].pos >= 1
              /\ dep'[stack'[i].node][stack'[i].pos].id = stack'[i + 1].node
<1>1. /\ Depth \in Nat \ {0}
      /\ \A i \in 1 .. Depth : stack'[i].node = stack[i].node
      /\ \A i \in 1 .. Depth - 1 : stack'[i] = stack[i]
      /\ stack'[Depth].pos = Top.pos + 1
  BY ReadingFrames
<1>2. /\ \A i \in 1 .. Depth :
           /\ stack[i].node \in Files
           /\ stack[i].pos <= Len(dep[stack[i].node])
           /\ stack[i].node = Root <=> i = 1
      /\ \A i \in 1 .. Depth - 1 :
           /\ stack[i].pos >= 1
           /\ dep[stack[i].node][stack[i].pos].id = stack[i + 1].node
  BY DEF IInv, StackInv, Depth
<1>3. Files \subseteq Files' /\ \A n \in Files : dep'[n] = dep[n]
  BY DEF Reading
<1>4. Top.pos + 1 <= Len(dep[Top.node])
  <2>1. Top.pos + 1 \in 1 .. Len(dep[Top.node])
    BY CurrentFacts DEF Reading
  <2>2. QED BY <2>1
<1>5. ASSUME NEW i \in 1 .. Depth
      PROVE  /\ stack'[i].node \in Files'
             /\ stack'[i].pos <= Len(dep'[stack'[i].node])
             /\ stack'[i].node = Root <=> i = 1
  <2>1. stack'[i].node \in Files' /\ (stack'[i].node = Root <=> i = 1)
    BY <1>1, <1>2, <1>3
  <2>2. dep'[stack'[i].node] = dep[stack[i].node]
    BY <1>1, <1>2, <1>3
  <2>3. CASE i = Depth
    BY <2>1, <2>2, <2>3, <1>1, <1>4 DEF Top
  <2>4. CASE i # Depth
    <3>1. i \in 1 .. Depth - 1
      BY <2>4, <1>1
    <3>2. QED BY <3>1, <2>1, <2>2, <1>1, <1>2
  <2>5. QED BY <2>3, <2>4
<1>6. ASSUME NEW i \in 1 .. Depth - 1
      PROVE  /\ stack'[i].pos >= 1
             /\ dep'[stack'[i].node][stack'[i].pos].id = stack'[i + 1].node
  <2>1. i \in 1 .. Depth /\ i + 1 \in 1 .. Depth
    BY <1>1
  <2>2. stack'[i] = stack[i] /\ stack'[i + 1].node = stack[i + 1].node
    BY <2>1, <1>1
  <2>3. dep'[stack[i].node] = dep[stack[i].node]
    BY <2>1, <1>2, <1>3
  <2>4. QED BY <2>2, <2>3, <1>2
<1>7. QED BY <1>5, <1>6

(* ReadInv of the frames that were there.                                  *)
LEMMA ReadingRead ==
  ASSUME IInv, Reading
  PROVE  \A i \in 1 .. Depth : \A k \in 1 .. stack'[i].pos :
           dep'[stack'[i].node][k].prio <= DepLevel(i)
             => dep'[stack'[i].node][k].id \in Files'
<1>1. /\ Depth \in Nat \ {0}
      /\ \A i \in 1 .. Depth : stack'[i].node = stack[i].node
      /\ \A i \in 1 .. Depth - 1 : stack'[i] = stack[i]
      /\ stack'[Depth].pos = Top.pos + 1
  BY ReadingFrames
<1>2. \A i \in 1 .. Depth : stack[i].node \in Files
  BY DEF IInv, StackInv, Depth
<1>3. Files \subseteq Files' /\ \A n \in Files : dep'[n] = dep[n]
  BY DEF Reading
<1>4. \A i \in 1 .. Depth : \A k \in 1 .. stack[i].pos :
        dep[stack[i].node][k].prio <= DepLevel(i)
          => dep[stack[i].node][k].id \in Files
  BY DEF IInv, ReadInv, Depth
<1>5. Current.prio <= DepLevel(Depth) => Current.id \in Files'
  BY DEF Reading
<1> SUFFICES ASSUME NEW i \in 1 .. Depth, NEW k \in 1 .. stack'[i].pos,
                    dep'[stack'[i].node][k].prio <= DepLevel(i)
             PROVE  dep'[stack'[i].node][k].id \in Files'
  OBVIOUS
<1>6. dep'[stack'[i].node] = dep[stack[i].node]
  BY <1>1, <1>2, <1>3
<1>7. CASE k \in 1 .. stack[i].pos
  BY <1>7, <1>6, <1>3, <1>4
<1>8. CASE k \notin 1 .. stack[i].pos
  <2>1. i = Depth
    BY <1>8, <1>1
  <2>2. Top.pos \in Nat
    BY BottomFacts DEF Reading, MoreLines, Frame
  <2>3. k = Top.pos + 1
    BY <1>8, <2>1, <2>2, <1>1 DEF Top
  <2>4. dep[stack[i].node][k] = Current
    BY <2>1, <2>3 DEF Current, Top
  <2>5. QED BY <2>1, <2>4, <1>5, <1>6
<1>9. QED BY <1>7, <1>8

(* TargetInv, given what is known of the request that root may have read.  *)
LEMMA ReadingTarget ==
  ASSUME IInv, Reading,
         Depth = 1 =>
           /\ Current.id \in Files'
           /\ \/ Len(stack') >= 2 /\ stack'[2].node = Current.id
              \/ Follows(Files', Current.id, DepLevel(2))
  PROVE  TargetInv'
<1>1. /\ stack \in Seq(Frame) /\ stack' \in Seq(Frame) /\ Len(stack') >= Depth
      /\ book' = book /\ target' = target /\ level' = level /\ stack # <<>>
      /\ target \in Seq(Package)
  BY DEF Reading, MoreLines, IInv, TypeOK
<1>2. /\ Depth \in Nat \ {0}
      /\ \A i \in 1 .. Depth : stack'[i].node = stack[i].node
      /\ \A i \in 1 .. Depth - 1 : stack'[i] = stack[i]
      /\ stack'[Depth].pos = Top.pos + 1
  BY ReadingFrames
<1>3. stack' # <<>>
  BY <1>1, <1>2
<1>4. Files \subseteq Files'
  BY DEF Reading
<1>5. /\ RootPos = stack[1].pos /\ RootPos' = stack'[1].pos
      /\ RootPos \in Nat
  BY <1>1, <1>3, <1>2, BottomFacts DEF RootPos, Frame
<1> SUFFICES ASSUME NEW k \in 1 .. RootPos'
             PROVE  /\ target[k] \in Files'
                    /\ \/ Len(stack') >= 2 /\ stack'[2].node = target[k]
                       \/ Follows(Files', target[k], DepLevel(2))
  BY <1>1 DEF TargetInv, Follows, DepLevel
<1>6. CASE k \in 1 .. RootPos
  <2>1. /\ target[k] \in Files
        /\ \/ Len(stack) >= 2 /\ stack[2].node = target[k]
           \/ Follows(Files, target[k], DepLevel(2))
    BY <1>6 DEF IInv, TargetInv
  <2>2. CASE Len(stack) >= 2 /\ stack[2].node = target[k]
    <3>1. 2 \in 1 .. Depth
      BY <2>2, <1>2 DEF Depth
    <3>2. QED BY <3>1, <2>1, <2>2, <1>1, <1>2, <1>4
  <2>3. CASE Follows(Files, target[k], DepLevel(2))
    BY <2>1, <2>3, <1>4 DEF Follows
  <2>4. QED BY <2>1, <2>2, <2>3
<1>7. CASE k \notin 1 .. RootPos
  <2>1. Depth = 1
    BY <1>7, <1>2, <1>5
  <2>2. k = Top.pos + 1
    BY <1>7, <2>1, <1>2, <1>5 DEF Top
  <2>3. Current.id = target[k]
    BY <2>1, <2>2, CurrentFacts DEF Reading
  <2>4. QED BY <2>1, <2>3
<1>8. QED BY <1>6, <1>7

(* The calls in progress are the same after a line was skipped.            *)
LEMMA SameCalls ==
  ASSUME IInv, Reading, stack' = Advance
  PROVE  /\ Len(stack') = Len(stack)
         /\ \A p : OnStack(p)' <=> OnStack(p)
         /\ StackInv' /\ ReadInv' /\ OpenOnce'
<1>1. /\ Depth \in Nat \ {0}
      /\ \A i \in 1 .. Depth : stack'[i].node = stack[i].node
  BY ReadingFrames
<1>2. Len(stack') = Depth /\ Depth = Len(stack)
  BY AdvanceFacts DEF Reading, IInv, Depth
<1>3. \A p : OnStack(p)' <=> OnStack(p)
  BY <1>1, <1>2 DEF OnStack
<1>4. StackInv'
  BY <1>2, ReadingStack DEF StackInv
<1>5. level' = level
  BY DEF Reading
<1>6. ReadInv'
  BY <1>2, <1>5, ReadingRead DEF ReadInv, DepLevel
<1>7. OpenOnce'
  BY <1>1, <1>2 DEF OpenOnce, IInv
<1>8. QED BY <1>2, <1>3, <1>4, <1>6, <1>7

(* A line that is skipped leaves nothing undone.                           *)
LEMMA SkipStep == IInv /\ SkipLine => IInv'
<1> SUFFICES ASSUME IInv, SkipLine PROVE IInv'
  OBVIOUS
<1>1. /\ TypeOK /\ MoreLines /\ stack' = Advance
      /\ book' = book /\ target' = target /\ level' = level /\ dep' = dep
      /\ Files' = Files /\ stack # <<>>
  BY DEF IInv, SkipLine, Files, MoreLines
<1>2. Current.prio <= DepLevel(Depth) => Current.id \in Files
  <2>1. Current \in Line(Package) /\ Depth \in Nat \ {0} /\ level \in 1 .. 4
    BY <1>1, CurrentFacts, BottomFacts DEF TypeOK
  <2>2. Current.prio \in 1 .. 4 /\ DepLevel(Depth) \in 1 .. 3
    BY <2>1, DepLevelFacts DEF Line, Weight
  <2>3. QED BY <2>2 DEF SkipLine, Seen, Files
<1>3. /\ Advance \in Seq(Frame) /\ Len(Advance) = Depth
  BY <1>1, AdvanceFacts
<1>4. Depth \in Nat \ {0}
  BY <1>1, BottomFacts
<1>5. Reading
  BY <1>1, <1>2, <1>3, <1>4 DEF Reading
<1>6. TypeOK'
  BY <1>1, <1>3 DEF TypeOK
<1>7. FilesInv'
  BY <1>1 DEF IInv, FilesInv, Files, RootFile
<1>8. StackInv' /\ ReadInv' /\ OpenOnce' /\ \A p : OnStack(p)' <=> OnStack(p)
  BY <1>1, <1>5, SameCalls
<1>9. NothingExtra'
  BY <1>1 DEF IInv, NothingExtra, Closed, Requested, Follows, Bound
<1>10. BaseInv'
  BY <1>1, <1>8 DEF IInv, BaseInv, Follows, DepLevel
<1>11. TargetInv'
  <2>1. ASSUME Depth = 1
        PROVE  /\ Current.id \in Files'
               /\ Follows(Files', Current.id, DepLevel(2))
    <3>1. Current.prio = 1 /\ Current \in Line(Package)
      BY <2>1, <1>1, CurrentFacts
    <3>2. /\ DepLevel(Depth) \in 1 .. 3
          /\ level # 3 => DepLevel(2) = DepLevel(3)
      BY <1>1, <1>4, DepLevelFacts DEF TypeOK
    <3>3. Current.id \in Files /\ level # 3
      BY <2>1, <3>1, <3>2, <1>2 DEF SkipLine, Seen
    <3>4. Current.id \in Package /\ Current.id # Root
      BY <3>1, SubgraphAssumption DEF Line
    <3>5. ~ OnStack(Current.id)
      BY <2>1, <3>4, <1>1, BottomFacts DEF OnStack, Depth
    <3>6. Follows(Files, Current.id, DepLevel(3))
      BY <3>3, <3>4, <3>5 DEF IInv, BaseInv
    <3>7. QED BY <3>2, <3>3, <3>6, <1>1
  <2>2. QED BY <2>1, <1>5, ReadingTarget
<1>12. QED BY <1>6, <1>7, <1>8, <1>9, <1>10, <1>11 DEF IInv

(* A package is extracted only because somebody asked for it.              *)
LEMMA ExtractExtra ==
  ASSUME IInv, Extract
  PROVE  NothingExtra'
<1>1. /\ TypeOK /\ MoreLines /\ stack # <<>>
      /\ book' = book /\ target' = target /\ level' = level
  BY DEF IInv, Extract, MoreLines
<1>2. Files' = Files \cup {Current.id}
  BY ExtractFacts
<1> SUFFICES ASSUME NEW S \in SUBSET Package, Closed(S)
             PROVE  Files' \ {Root} \subseteq S
  BY <1>1 DEF NothingExtra, Closed, Requested, Follows, Bound, Files
<1>3. Files \ {Root} \subseteq S
  BY DEF IInv, NothingExtra, Files
<1>4. /\ Depth \in Nat \ {0} /\ Top.node \in Files
      /\ Top.node = Root <=> Depth = 1
  BY <1>1, BottomFacts
<1>5. /\ Current \in Line(Package)
      /\ Top.pos + 1 \in 1 .. Len(dep[Top.node])
  BY <1>1, CurrentFacts
<1>6. CASE Depth = 1
  <2>1. Current.id \in Requested
    BY <1>6, <1>1, CurrentFacts DEF Requested
  <2>2. QED BY <2>1, <1>2, <1>3 DEF Closed
<1>7. CASE Depth # 1
  <2>1. Top.node \in S /\ dep[Top.node] = book[Top.node]
    BY <1>3, <1>4, <1>7 DEF IInv, FilesInv
  <2>2. DepLevel(Depth) <= Bound(Top.node)
    <3>1. CASE Depth = 2
      <4>1. Top.node \in Requested
        BY <3>1, SecondRequested DEF Top, Depth
      <4>2. QED BY <4>1, <1>1, <3>1 DEF DepLevel, Bound, TypeOK
    <3>2. CASE Depth > 2
      BY <3>2, <1>1 DEF DepLevel, Bound, TypeOK
    <3>3. QED BY <3>1, <3>2, <1>4, <1>7
  <2>3. DepLevel(Depth) \in Nat /\ Bound(Top.node) \in Nat
    BY <1>1, <1>4 DEF DepLevel, Bound, TypeOK
  <2>4. Current.prio <= Bound(Top.node)
    BY <2>2, <2>3, <1>5 DEF Extract, Line, Weight
  <2>5. Current = book[Top.node][Top.pos + 1]
    BY <2>1 DEF Current
  <2>6. Follows(S, Top.node, Bound(Top.node))
    BY <2>1 DEF Closed
  <2>7. Current.id \in S
    BY <2>1, <2>4, <2>5, <2>6, <1>5 DEF Follows
  <2>8. QED BY <2>7, <1>2, <1>3
<1>8. QED BY <1>6, <1>7

(* Extracting a package without dependencies.                              *)
LEMMA LeafStep == IInv /\ Leaf => IInv'
<1> SUFFICES ASSUME IInv, Leaf PROVE IInv'
  OBVIOUS
<1>1. /\ TypeOK /\ Extract /\ MoreLines /\ stack' = Advance
      /\ book' = book /\ target' = target /\ level' = level /\ stack # <<>>
      /\ book[Current.id] = <<>>
  BY DEF IInv, Leaf, Extract, MoreLines
<1>2. /\ Current.id \in Package
      /\ Files' = Files \cup {Current.id}
      /\ \A n \in Files : dep'[n] = dep[n]
      /\ FilesInv'
      /\ \A n \in Files' : dep'[n] \in Seq(Line(Package))
  BY <1>1, ExtractFacts
<1>3. Advance \in Seq(Frame) /\ Len(Advance) = Depth /\ Depth \in Nat \ {0}
  BY <1>1, AdvanceFacts
<1>4. Reading
  BY <1>1, <1>2, <1>3 DEF Reading
<1>5. TypeOK'
  BY <1>1, <1>2, <1>3 DEF TypeOK, Node, Files
<1>6. StackInv' /\ ReadInv' /\ OpenOnce' /\ \A p : OnStack(p)' <=> OnStack(p)
  BY <1>1, <1>4, SameCalls
<1>7. NothingExtra'
  BY <1>1, ExtractExtra
<1>8. BaseInv'
  <2> SUFFICES ASSUME NEW p \in Files' \ {Root}, ~ OnStack(p)'
               PROVE  Follows(Files', p, DepLevel(3))
    BY <1>1 DEF BaseInv, Follows, DepLevel
  <2>1. CASE p = Current.id
    BY <2>1, <1>1 DEF Follows
  <2>2. CASE p \in Files
    <3>1. Follows(Files, p, DepLevel(3))
      BY <2>2, <1>6 DEF IInv, BaseInv
    <3>2. QED BY <3>1, <1>2 DEF Follows
  <2>3. QED BY <2>1, <2>2, <1>2
<1>9. TargetInv'
  <2>1. Current.id \in Files' /\ Follows(Files', Current.id, DepLevel(2))
    BY <1>1, <1>2 DEF Follows
  <2>2. QED BY <2>1, <1>4, ReadingTarget
<1>10. QED BY <1>2, <1>5, <1>6, <1>7, <1>8, <1>9 DEF IInv

(* Extracting a package that has dependencies, whose call begins.          *)
LEMMA DescendStep == IInv /\ Descend => IInv'
<1> SUFFICES ASSUME IInv, Descend PROVE IInv'
  OBVIOUS
<1> DEFINE q == Current.id
           f == [node |-> q, pos |-> 0]
<1>1. /\ TypeOK /\ Extract /\ MoreLines
      /\ stack' = Append(Advance, f)
      /\ book' = book /\ target' = target /\ level' = level /\ stack # <<>>
  BY DEF IInv, Descend, Extract, MoreLines
<1>2. /\ q \in Package
      /\ Files' = Files \cup {q}
      /\ \A n \in Files : dep'[n] = dep[n]
      /\ FilesInv'
      /\ \A n \in Files' : dep'[n] \in Seq(Line(Package))
  BY <1>1, ExtractFacts
<1>3. /\ Advance \in Seq(Frame) /\ Len(Advance) = Depth
      /\ Depth \in Nat \ {0} /\ Depth = Len(stack)
  BY <1>1, AdvanceFacts DEF Depth
<1>4. f \in Frame /\ f.node = q /\ f.pos = 0
  BY <1>2 DEF Frame, Node
<1>5. q # Root /\ \A i \in 1 .. Depth : stack[i].node # q
  <2>1. q # Root
    BY <1>2, SubgraphAssumption
  <2>2. CASE Depth = 1
    BY <2>1, <2>2, <1>1, BottomFacts
  <2>3. CASE Depth # 1
    <3>1. q \notin Files
      BY <2>3, <1>1, <1>3 DEF Extract, Seen, Files
    <3>2. QED BY <2>1, <3>1, <1>3 DEF IInv, StackInv
  <2>4. QED BY <2>2, <2>3
<1> HIDE DEF f
<1>6. /\ stack' \in Seq(Frame) /\ Len(stack') = Depth + 1
      /\ \A i \in 1 .. Depth : stack'[i] = Advance[i]
      /\ stack'[Depth + 1] = f
  BY <1>1, <1>3, <1>4
<1>7. Reading
  BY <1>1, <1>2, <1>3, <1>6 DEF Reading
<1>8. /\ \A i \in 1 .. Depth : stack'[i].node = stack[i].node
      /\ stack'[Depth].pos = Top.pos + 1
  BY <1>7, ReadingFrames
<1>9. \A i \in 1 .. Len(stack') : i \in 1 .. Depth \/ i = Depth + 1
  BY <1>3, <1>6
<1>10. TypeOK'
  BY <1>1, <1>2, <1>6 DEF TypeOK, Node, Files
<1>11. dep'[Top.node][Top.pos + 1] = Current /\ stack'[Depth].node = Top.node
  <2>1. Top.node \in Files
    BY <1>1, BottomFacts
  <2>2. QED BY <2>1, <1>2, <1>3, <1>8 DEF Current, Top
<1>12. StackInv'
  <2>1. \A i \in 1 .. Len(stack') :
          /\ stack'[i].node \in Files'
          /\ stack'[i].pos <= Len(dep'[stack'[i].node])
          /\ stack'[i].node = Root <=> i = 1
    <3>1. f.pos <= Len(dep'[q])
      BY <1>2, <1>4
    <3>2. QED BY <3>1, <1>2, <1>3, <1>4, <1>5, <1>6, <1>7, <1>9, ReadingStack
  <2>2. \A i \in 1 .. Len(stack') - 1 :
          /\ stack'[i].pos >= 1
          /\ dep'[stack'[i].node][stack'[i].pos].id = stack'[i + 1].node
    <3>1. Top.pos \in Nat
      BY <1>1, BottomFacts DEF Frame
    <3>2. /\ stack'[Depth].pos >= 1
          /\ dep'[stack'[Depth].node][stack'[Depth].pos].id
               = stack'[Depth + 1].node
      BY <3>1, <1>4, <1>6, <1>8, <1>11
    <3>3. \A i \in 1 .. Len(stack') - 1 : i \in 1 .. Depth - 1 \/ i = Depth
      BY <1>3, <1>6
    <3>4. QED BY <3>2, <3>3, <1>7, ReadingStack
  <2>3. QED BY <2>1, <2>2 DEF StackInv
<1>13. ReadInv'
  <2>1. \A i \in 1 .. Len(stack') : \A k \in 1 .. stack'[i].pos :
          i \in 1 .. Depth
    BY <1>4, <1>6, <1>9
  <2>2. QED BY <2>1, <1>1, <1>7, ReadingRead DEF ReadInv, DepLevel
<1>14. OpenOnce'
  BY <1>3, <1>4, <1>5, <1>6, <1>8, <1>9 DEF OpenOnce, IInv
<1>15. NothingExtra'
  BY <1>1, ExtractExtra
<1>16. BaseInv'
  <2> SUFFICES ASSUME NEW p \in Files' \ {Root}, ~ OnStack(p)'
               PROVE  Follows(Files', p, DepLevel(3))
    BY <1>1 DEF BaseInv, Follows, DepLevel
  <2>1. p # q
    BY <1>3, <1>4, <1>6 DEF OnStack
  <2>2. ~ OnStack(p)
    BY <1>3, <1>6, <1>8 DEF OnStack
  <2>3. Follows(Files, p, DepLevel(3))
    BY <2>1, <2>2, <1>2 DEF IInv, BaseInv
  <2>4. QED BY <2>3, <1>2 DEF Follows
<1>17. TargetInv'
  BY <1>2, <1>4, <1>6, <1>7, ReadingTarget
<1>18. QED BY <1>2, <1>10, <1>12, <1>13, <1>14, <1>15, <1>16, <1>17 DEF IInv

(* A call that returns has followed all the lines of its file.             *)
LEMMA ReturnStep == IInv /\ Return => IInv'
<1> SUFFICES ASSUME IInv, Return PROVE IInv'
  OBVIOUS
<1>1. /\ TypeOK /\ stack # <<>> /\ ~ MoreLines
      /\ stack' = SubSeq(stack, 1, Depth - 1)
      /\ book' = book /\ target' = target /\ level' = level /\ dep' = dep
      /\ Files' = Files
  BY DEF IInv, Return, Files
<1>2. /\ Depth \in Nat \ {0} /\ Depth = Len(stack) /\ Top \in Frame
      /\ Top.node \in Files /\ (Top.node = Root <=> Depth = 1)
      /\ Top.pos <= Len(dep[Top.node])
  BY <1>1, BottomFacts DEF Depth
<1>3. /\ stack' \in Seq(Frame) /\ Len(stack') = Depth - 1
      /\ \A i \in 1 .. Depth - 1 : stack'[i] = stack[i]
  BY <1>1, <1>2 DEF TypeOK
<1>4. dep[Top.node] \in Seq(Line(Package)) /\ Top.pos = Len(dep[Top.node])
  <2>1. dep[Top.node] \in Seq(Line(Package))
    BY <1>1, <1>2 DEF TypeOK, Files
  <2>2. QED BY <2>1, <1>1, <1>2 DEF MoreLines, Frame
<1>5. \A k \in 1 .. Len(dep[Top.node]) :
        dep[Top.node][k].prio <= DepLevel(Depth)
          => dep[Top.node][k].id \in Files
  <2>1. Depth \in 1 .. Len(stack)
    BY <1>2
  <2>2. QED BY <2>1, <1>4 DEF IInv, ReadInv, Top
<1>6. TypeOK'
  BY <1>1, <1>3 DEF TypeOK
<1>7. FilesInv'
  BY <1>1 DEF IInv, FilesInv, Files, RootFile
<1>8. StackInv'
  <2>1. \A i \in 1 .. Depth - 1 : i \in 1 .. Len(stack)
    BY <1>2
  <2>2. \A i \in 1 .. Depth - 2 :
          i \in 1 .. Len(stack) - 1 /\ i \in 1 .. Depth - 1
            /\ i + 1 \in 1 .. Depth - 1
    BY <1>2
  <2>3. QED BY <2>1, <2>2, <1>1, <1>3 DEF IInv, StackInv
<1>9. OpenOnce' /\ ReadInv'
  <2>1. \A i \in 1 .. Depth - 1 : i \in 1 .. Len(stack)
    BY <1>2
  <2>2. OpenOnce'
    BY <2>1, <1>3 DEF IInv, OpenOnce
  <2>3. ReadInv'
    <3>1. \A i : DepLevel(i)' = DepLevel(i)
      BY <1>1 DEF DepLevel
    <3>2. ASSUME NEW i \in 1 .. Depth - 1, NEW k \in 1 .. stack[i].pos,
                 dep[stack[i].node][k].prio <= DepLevel(i)
          PROVE  dep[stack[i].node][k].id \in Files
      BY <3>2, <2>1 DEF IInv, ReadInv
    <3>3. QED BY <3>1, <3>2, <1>1, <1>3 DEF ReadInv
  <2>4. QED BY <2>2, <2>3
<1>10. NothingExtra'
  BY <1>1 DEF IInv, NothingExtra, Closed, Requested, Follows, Bound
<1>11. BaseInv'
  <2> SUFFICES ASSUME NEW p \in Files \ {Root}, ~ OnStack(p)'
               PROVE  Follows(Files, p, DepLevel(3))
    BY <1>1 DEF BaseInv, Follows, DepLevel
  <2>1. CASE p = Top.node
    <3>1. dep[p] = book[p] /\ p \in Package
      BY <2>1, <1>1, <1>2 DEF IInv, FilesInv, TypeOK, Node, Files
    <3>2. /\ DepLevel(Depth) \in 1 .. 3 /\ DepLevel(3) \in 1 .. 3
          /\ DepLevel(3) <= DepLevel(Depth)
      BY <1>1, <1>2, DepLevelFacts DEF TypeOK
    <3>3. \A k \in 1 .. Len(book[p]) : book[p][k].prio \in 1 .. 4
      <4>1. \A k \in 1 .. Len(book[p]) : book[p][k] \in Line(Package)
        BY <2>1, <3>1, <1>4
      <4>2. QED BY <4>1 DEF Line, Weight
    <3>4. \A k \in 1 .. Len(book[p]) :
            book[p][k].prio <= DepLevel(3)
              => book[p][k].prio <= DepLevel(Depth)
      BY <3>2, <3>3
    <3>5. QED BY <2>1, <3>1, <3>4, <1>5 DEF Follows
  <2>2. CASE p # Top.node
    <3>1. \A i \in 1 .. Depth : i \in 1 .. Depth - 1 \/ i = Depth
      BY <1>2
    <3>2. ~ OnStack(p)
      BY <2>2, <3>1, <1>2, <1>3 DEF OnStack, Top
    <3>3. QED BY <3>2 DEF IInv, BaseInv
  <2>3. QED BY <2>1, <2>2
<1>12. TargetInv'
  <2>0. target \in Seq(Package)
    BY <1>1 DEF TypeOK
  <2>1. RootPos' = RootPos
    <3>1. CASE Depth = 1
      <4>1. stack' = <<>> /\ RootPos' = Len(target)
        BY <3>1, <1>1, <1>3 DEF RootPos
      <4>2. Top.pos = Len(target)
        BY <2>0, <3>1, <1>2, <1>4, RootFileType DEF IInv, FilesInv
      <4>3. QED BY <4>1, <4>2, <3>1, <1>1 DEF RootPos, Top
    <3>2. CASE Depth # 1
      <4>1. stack' # <<>> /\ 1 \in 1 .. Depth - 1
        BY <3>2, <1>2, <1>3
      <4>2. QED BY <4>1, <1>1, <1>3 DEF RootPos
    <3>3. QED BY <3>1, <3>2
  <2> SUFFICES ASSUME NEW k \in 1 .. RootPos
               PROVE  /\ target[k] \in Files
                      /\ \/ Len(stack') >= 2 /\ stack'[2].node = target[k]
                         \/ Follows(Files, target[k], DepLevel(2))
    BY <2>1, <1>1 DEF TargetInv, Follows, DepLevel
  <2>2. /\ target[k] \in Files
        /\ \/ Len(stack) >= 2 /\ stack[2].node = target[k]
           \/ Follows(Files, target[k], DepLevel(2))
    BY DEF IInv, TargetInv
  <2>3. CASE Depth > 2
    <3>1. 2 \in 1 .. Depth - 1
      BY <2>3, <1>2
    <3>2. QED BY <3>1, <2>2, <2>3, <1>2, <1>3
  <2>4. CASE Depth = 2 /\ Top.node = target[k]
    <3>1. dep[Top.node] = book[Top.node]
      BY <2>4, <1>2 DEF IInv, FilesInv
    <3>2. Follows(Files, target[k], DepLevel(2))
      BY <2>4, <3>1, <1>5 DEF Follows
    <3>3. QED BY <3>2, <2>2
  <2>5. CASE ~ (Depth > 2) /\ ~ (Depth = 2 /\ Top.node = target[k])
    BY <2>2, <2>5, <1>2 DEF Top
  <2>6. QED BY <2>3, <2>4, <2>5
<1>13. QED BY <1>6, <1>7, <1>8, <1>9, <1>10, <1>11, <1>12 DEF IInv

(* Before anything is read, root is the only node.                         *)
LEMMA InitInv == Init => IInv
<1> SUFFICES ASSUME Init PROVE IInv
  OBVIOUS
<1>1. TypeOK
  BY InitType
<1>2. /\ Files = {Root} /\ dep[Root] = RootFile(target)
      /\ target \in Seq(Package)
      /\ stack = <<[node |-> Root, pos |-> 0]>>
  BY <1>1 DEF Init, Files, TypeOK
<1>3. /\ Len(stack) = 1 /\ stack[1].node = Root /\ stack[1].pos = 0
  BY <1>2
<1>4. FilesInv
  BY <1>2 DEF FilesInv
<1>5. StackInv /\ OpenOnce /\ ReadInv
  <2>1. 0 <= Len(dep[Root])
    BY <1>2, RootFileType
  <2>2. StackInv
    BY <2>1, <1>2, <1>3 DEF StackInv
  <2>3. OpenOnce /\ ReadInv
    BY <1>3 DEF OpenOnce, ReadInv
  <2>4. QED BY <2>2, <2>3
<1>6. NothingExtra
  BY <1>2 DEF NothingExtra, Files
<1>7. BaseInv /\ TargetInv
  BY <1>2, <1>3 DEF BaseInv, TargetInv, RootPos
<1>8. QED BY <1>1, <1>4, <1>5, <1>6, <1>7 DEF IInv

(* The invariant is inductive.                                             *)
LEMMA Invariance == Spec => []IInv
<1>1. Init => IInv
  BY InitInv
<1>2. IInv /\ [Next]_vars => IInv'
  <2> SUFFICES ASSUME IInv, [Next]_vars PROVE IInv'
    OBVIOUS
  <2>1. CASE Next
    BY <2>1, SkipStep, LeafStep, DescendStep, ReturnStep DEF Next
  <2>2. CASE UNCHANGED vars
    <3>1. /\ book' = book /\ target' = target /\ level' = level
          /\ dep' = dep /\ stack' = stack
      BY <2>2 DEF vars
    <3>2. TypeOK' /\ FilesInv' /\ StackInv'
      BY <3>1 DEF IInv, TypeOK, FilesInv, StackInv, Files, RootFile
    <3>3. OpenOnce' /\ ReadInv'
      BY <3>1 DEF IInv, OpenOnce, ReadInv, Files, DepLevel
    <3>4. NothingExtra'
      BY <3>1 DEF IInv, NothingExtra, Closed, Requested, Follows, Bound
    <3>5. BaseInv' /\ TargetInv'
      BY <3>1 DEF IInv, BaseInv, TargetInv, Files, OnStack, RootPos, Follows,
                  DepLevel
    <3>6. QED BY <3>2, <3>3, <3>4, <3>5 DEF IInv
  <2>3. QED BY <2>1, <2>2
<1>3. QED BY <1>1, <1>2, PTL DEF Spec

(* When every call has returned, what the calls have promised adds up.     *)
LEMMA Completeness == IInv => NothingMissing
<1> SUFFICES ASSUME IInv, Done PROVE Closed(Files \ {Root})
  BY DEF NothingMissing, Files
<1>1. stack = <<>> /\ Len(stack) = 0 /\ RootPos = Len(target)
  BY DEF Done, RootPos
<1>2. /\ TypeOK /\ FilesInv /\ level \in 1 .. 4 /\ target \in Seq(Package)
  BY DEF IInv, TypeOK
<1>3. \A k \in 1 .. Len(target) :
        target[k] \in Files /\ Follows(Files, target[k], DepLevel(2))
  BY <1>1 DEF IInv, TargetInv
<1>4. \A p \in Files \ {Root} : Follows(Files, p, DepLevel(3))
  BY <1>1 DEF IInv, BaseInv, OnStack
<1>5. \A k \in 1 .. Len(target) : target[k] \in Package
  BY <1>2
<1>6. Requested \subseteq Files \ {Root}
  BY <1>3, <1>5, SubgraphAssumption DEF Requested
<1>7. ASSUME NEW p \in Files \ {Root}
      PROVE  Follows(Files \ {Root}, p, Bound(p))
  <2>1. Follows(Files, p, Bound(p))
    BY <1>2, <1>3, <1>4 DEF Bound, DepLevel, Requested
  <2>2. book[p] \in Seq(Line(Package))
    BY <1>2 DEF TypeOK, Node, Files
  <2>3. \A i \in 1 .. Len(book[p]) : book[p][i].id # Root
    <3>1. \A i \in 1 .. Len(book[p]) : book[p][i] \in Line(Package)
      BY <2>2
    <3>2. QED BY <3>1, SubgraphAssumption DEF Line
  <2>4. QED BY <2>1, <2>3 DEF Follows
<1>8. QED BY <1>6, <1>7 DEF Closed

-------------------------------------------------------------------------------
(* Every state of generate_subgraph is well formed: in particular no call  *)
(* reads a file of a node that is neither root nor a package of the book.  *)
THEOREM TypeCorrect == Spec => []TypeOK
BY Invariance, PTL DEF IInv

(* A package is open in one recursive call at most, whatever the cycles of *)
(* the book and the packages processed twice at DEP_LEVEL 3.               *)
THEOREM SearchOpensOnce == Spec => []OpenOnce
BY Invariance, PTL DEF IInv

(* A .dep file exists only for packages that the request and DEP_LEVEL     *)
(* call for.                                                               *)
THEOREM SearchIsSound == Spec => []NothingExtra
BY Invariance, PTL DEF IInv

(* When generate_subgraph returns, every package that the request and      *)
(* DEP_LEVEL call for has its .dep file, also the optional dependencies of *)
(* a requested package that was first met as a mere dependency.            *)
THEOREM SearchIsComplete == Spec => []NothingMissing
BY Invariance, Completeness, PTL

(* What the first pass leaves of a finite book is what clean_subgraph is   *)
(* assumed to start from (GraphAssumption of CleanSubgraph).               *)
THEOREM ReadyToClean ==
  ASSUME IsFiniteSet(Package)
  PROVE  Spec => [](Done => Extracted(dep, Package, Root))
<1>1. ASSUME IInv, Done PROVE Extracted(dep, Package, Root)
  <2>1. TypeOK /\ FilesInv /\ Closed(DOMAIN dep \ {Root}) /\ target \in Seq(Package)
    BY <1>1, Completeness DEF IInv, NothingMissing, TypeOK
  <2>2. (Package \cup {Root}) \ {Root} = Package
    BY SubgraphAssumption
  <2>3. GraphOn(dep, Package \cup {Root}, Root)
    BY <2>1, <2>2 DEF GraphOn, TypeOK, FilesInv, Files, Node
  <2>4. IsFiniteSet(DOMAIN dep)
    <3>1. IsFiniteSet(Package \cup {Root})
      BY FS_AddElement
    <3> QED
      BY <2>1, <3>1, FS_Subset DEF TypeOK, Node
  <2>5. /\ dep[Root] = RootFile(target) /\ Len(RootFile(target)) = Len(target)
        /\ \A i \in 1 .. Len(target) : RootFile(target)[i].id = target[i]
    BY <2>1, RootFileType DEF FilesInv
  <2>6. \A i \in 1 .. Len(target) : RootFile(target)[i].qual = "b"
    BY <2>1 DEF RootFile
  <2>7. Targets(dep[Root]) \subseteq DOMAIN dep
    BY <2>1, <2>5 DEF Targets, Closed, Requested
  <2> QED
    BY <2>3, <2>4, <2>5, <2>6, <2>7 DEF Extracted
<1> QED
  BY <1>1, Invariance, PTL
===============================================================================
