----------------------------- MODULE DepTreeProofs -----------------------------
(***************************************************************************)
(* Proofs about DepTree, for every graph with a finite number of nodes.    *)
(*                                                                         *)
(* Comparing links tells which nodes have their call in progress, whatever *)
(* has been erased, moved and built again.  The invariant says why: the    *)
(* links of the calls in progress are the positions of the lines they are  *)
(* reading, and every other link leaves this way at a line read earlier,   *)
(* or continues it at the line read last.                                  *)
(*                                                                         *)
(* No package is built twice.  Here the invariant counts: of the lines of  *)
(* a file that lead to a package, as many as are flagged have been read,   *)
(* or one more, and in one file at most is it one more.                    *)
(*                                                                         *)
(* No package is lost.  Every line of a file <m>.dep leads to a package    *)
(* that has been built, or will be read; and of the lines that will not be *)
(* read, only those of the calls in progress lead into the subtree of a    *)
(* call, so that nothing else needs what is erased.                        *)
(***************************************************************************)
EXTENDS DepTree, DepFilesProofs

Lines == Seq(Line(Node \ {Root}))
Frame == [node : Node, pos : Nat, remove : Seq(Node)]

(* The way the calls in progress have taken: root, then the position of    *)
(* the line each of them is reading.                                       *)
Way(S, k) == IF k = 1 THEN 1 ELSE S[k - 1].pos

OnWay(S, i, link) == \A k \in 1 .. i : link[k] = Way(S, k)

(* The call number i reads a file whose link is the way to it, and has     *)
(* made the next call for the line it has read last.                       *)
CallOK(S, T, i) ==
  LET file == T[S[i].node]
  IN /\ S[i].node \in DOMAIN T
     /\ Len(file.link) = i /\ OnWay(S, i, file.link)
     /\ file.body \in Lines /\ S[i].pos <= Len(file.body)
     /\ i < Len(S) => S[i].pos > 0 /\ file.body[S[i].pos].id = S[i + 1].node

(* A link that leaves the way at a line read before, or follows it to the  *)
(* line read last.                                                         *)
LeavesAt(S, i, link) ==
  /\ Len(link) > i /\ OnWay(S, i, link)
  /\ \/ link[i + 1] < S[i].pos
     \/ link[i + 1] = S[i].pos /\ i = Len(S)

ClosedOK(S, T, n) ==
  \/ T[n].link = <<>>
  \/ \E i \in 1 .. Len(S) : S[i].node = n \/ LeavesAt(S, i, T[n].link)

TreeOK(S, T) ==
  /\ S \in Seq(Frame)
  /\ DOMAIN T \subseteq Node /\ \A n \in DOMAIN T : T[n].link \in Seq(Nat)
  /\ \A i \in 1 .. Len(S) : CallOK(S, T, i)
  /\ S # <<>> => \A n \in DOMAIN T : ClosedOK(S, T, n)

(* When a value other than 0 has been returned, the file of the call that  *)
(* returned it is still there.                                             *)
ReturnOK(S, T) ==
  LET last == S[Len(S)]
      id == T[last.node].body[last.pos].id
  IN /\ last.pos > 0 /\ id \in DOMAIN T
     /\ Len(T[id].link) = Len(S) + 1

BuildInv ==
  /\ \A n \in DOMAIN dep : dep[n] \in Lines
  /\ TreeOK(stack, tree)
  /\ ret # 0 /\ stack # <<>> => ReturnOK(stack, tree)

IInv == mode = "build" => BuildInv

-------------------------------------------------------------------------------
(* Sequences of calls and links.                                           *)
LEMMA FrameTypes ==
  ASSUME NEW S \in Seq(Frame)
  PROVE  /\ Len(S) \in Nat /\ (S # <<>> <=> Len(S) > 0)
         /\ \A i \in 1 .. Len(S) : S[i] \in Frame /\ S[i].pos \in Nat /\ S[i].node \in Node
<1>1. \A i \in 1 .. Len(S) : S[i] \in Frame
  OBVIOUS
<1> QED
  BY <1>1 DEF Frame

LEMMA PrefixByItems ==
  ASSUME NEW s \in Seq(Nat), NEW t \in Seq(Nat)
  PROVE  IsPrefix(s, t) <=> Len(s) <= Len(t) /\ \A k \in 1 .. Len(s) : s[k] = t[k]
<1> DEFINE u == SubSeq(s, 1, Len(s))
           v == SubSeq(t, 1, Len(s))
<1>1. /\ u \in Seq(Nat) /\ Len(u) = Len(s)
      /\ \A k \in 1 .. Len(s) : u[k] = s[k]
  OBVIOUS
<1>2. ASSUME Len(s) <= Len(t)
      PROVE  v \in Seq(Nat) /\ Len(v) = Len(s) /\ \A k \in 1 .. Len(s) : v[k] = t[k]
  BY <1>2
<1> HIDE DEF u, v
<1>3. ASSUME Len(s) <= Len(t)
      PROVE  u = v <=> \A k \in 1 .. Len(s) : u[k] = v[k]
  <2>1. /\ u = [k \in 1 .. Len(s) |-> u[k]]
        /\ v = [k \in 1 .. Len(s) |-> v[k]]
    BY <1>1, <1>2, <1>3
  <2> QED
    BY <2>1
<1> QED
  BY <1>1, <1>2, <1>3 DEF IsPrefix, u, v

(* What holds of the call in progress.                                     *)
LEMMA TopFacts ==
  ASSUME BuildInv, stack # <<>>
  PROVE  /\ Depth \in Nat /\ Depth > 0 /\ Depth \in 1 .. Depth
         /\ Top \in Frame /\ Top.pos \in Nat
         /\ Top.node \in DOMAIN tree /\ CallOK(stack, tree, Depth)
         /\ Body \in Lines /\ Link \in Seq(Nat) /\ Len(Link) = Depth
         /\ Top.pos <= Len(Body)
<1>1. TreeOK(stack, tree) /\ stack \in Seq(Frame)
  BY DEF BuildInv, TreeOK
<1>2. /\ Depth \in Nat /\ Depth > 0 /\ Depth \in 1 .. Depth
      /\ Top \in Frame /\ Top.pos \in Nat
  BY <1>1, FrameTypes DEF Depth, Top
<1>3. CallOK(stack, tree, Depth)
  BY <1>1, <1>2 DEF TreeOK, Depth
<1> QED
  BY <1>1, <1>2, <1>3 DEF TreeOK, CallOK, Depth, Top, Body, Link

LEMMA CurrentLine ==
  ASSUME BuildInv, MoreLines
  PROVE  /\ Top.pos + 1 \in 1 .. Len(Body)
         /\ Current \in Line(Node \ {Root}) /\ Current.id \in Node
<1>1. Body \in Lines /\ Top.pos \in Nat /\ Top.pos < Len(Body) /\ stack # <<>>
  BY TopFacts DEF MoreLines
<1>2. Len(Body) \in Nat /\ \A k \in 1 .. Len(Body) : Body[k] \in Line(Node \ {Root})
  BY <1>1 DEF Lines
<1>3. Top.pos + 1 \in 1 .. Len(Body)
  BY <1>1, <1>2
<1>4. Current \in Line(Node \ {Root})
  BY <1>2, <1>3 DEF Current
<1> QED
  BY <1>3, <1>4 DEF Line

-------------------------------------------------------------------------------
(* Comparing the links, in the states of the invariant.                    *)
LEMMA LinksTell == ASSUME IInv PROVE CircularIsOpen
<1> SUFFICES ASSUME Building, MoreLines, Seen, OtherLink # <<>>
             PROVE  Circular <=> \E i \in 1 .. Depth : stack[i].node = Current.id
  BY DEF CircularIsOpen
<1>1. BuildInv /\ stack # <<>>
  BY DEF IInv, Building, MoreLines
<1>2. /\ Depth \in Nat /\ OnWay(stack, Depth, Link) /\ Len(Link) = Depth
      /\ Link \in Seq(Nat)
  BY <1>1, TopFacts DEF CallOK, Link, Top, Depth
<1>3. OtherLink \in Seq(Nat) /\ Len(OtherLink) \in Nat
  BY <1>1 DEF BuildInv, TreeOK, OtherLink, Seen
<1>4. Circular <=> /\ Len(OtherLink) <= Depth
                   /\ \A k \in 1 .. Len(OtherLink) : OtherLink[k] = Link[k]
  BY <1>2, <1>3, PrefixByItems DEF Circular
<1>5. ASSUME NEW i \in 1 .. Depth, stack[i].node = Current.id
      PROVE  Circular
  <2>1. CallOK(stack, tree, i)
    BY <1>1 DEF BuildInv, TreeOK, Depth
  <2>2. Len(OtherLink) = i /\ OnWay(stack, i, OtherLink)
    BY <2>1, <1>5 DEF CallOK, OtherLink
  <2> QED
    BY <1>2, <1>4, <2>2 DEF OnWay
<1>6. ASSUME Circular
      PROVE  \E i \in 1 .. Depth : stack[i].node = Current.id
  <2>1. ClosedOK(stack, tree, Current.id)
    BY <1>1 DEF BuildInv, TreeOK, Seen
  <2>2. ASSUME NEW i \in 1 .. Depth, LeavesAt(stack, i, OtherLink)
        PROVE  FALSE
    <3>1. Len(OtherLink) > i /\ Len(OtherLink) <= Depth
      BY <1>4, <1>6, <2>2 DEF LeavesAt
    <3>2. i + 1 \in 1 .. Depth /\ i + 1 \in 1 .. Len(OtherLink) /\ i # Depth /\ i + 1 # 1
      BY <1>2, <1>3, <3>1
    <3>3. OtherLink[i + 1] = Link[i + 1] /\ Link[i + 1] = Way(stack, i + 1)
      BY <1>2, <1>4, <1>6, <3>2 DEF OnWay
    <3>4. (i + 1) - 1 = i
      BY <1>2
    <3>5. OtherLink[i + 1] = stack[i].pos
      BY <3>2, <3>3, <3>4 DEF Way
    <3>6. stack[i].pos \in Nat
      BY <1>1, FrameTypes DEF BuildInv, TreeOK, Depth
    <3> QED
      BY <2>2, <3>2, <3>5, <3>6 DEF LeavesAt, Depth
  <2> QED
    BY <2>1, <2>2 DEF ClosedOK, OtherLink, Depth
<1> QED
  BY <1>5, <1>6

-------------------------------------------------------------------------------
(* What the changes of the calls S and of the files T do to them.  First,  *)
(* the call in progress has read one more line.                            *)
LEMMA Stepped ==
  ASSUME NEW S, NEW T, TreeOK(S, T), S # <<>>,
         S[Len(S)].pos < Len(T[S[Len(S)].node].body),
         NEW S2 \in Seq(Frame), Len(S2) = Len(S),
         \A i \in 1 .. Len(S) :
           /\ S2[i].node = S[i].node
           /\ S2[i].pos = IF i = Len(S) THEN S[i].pos + 1 ELSE S[i].pos
  PROVE  TreeOK(S2, T)
<1>1. PICK d : d \in Nat /\ d = Len(S) /\ d > 0
  BY FrameTypes DEF TreeOK
<1>2. \A i \in 1 .. d : S[i].pos \in Nat
  BY <1>1, FrameTypes DEF TreeOK
<1>3. ASSUME NEW i \in 1 .. d, NEW link
      PROVE  OnWay(S2, i, link) <=> OnWay(S, i, link)
  <2>1. \A k \in 1 .. i : k = 1 \/ (k - 1 \in 1 .. d /\ k - 1 # d)
    BY <1>1
  <2>2. \A k \in 1 .. i : Way(S2, k) = Way(S, k)
    BY <1>1, <2>1 DEF Way
  <2> QED
    BY <2>2 DEF OnWay
<1>4. ASSUME NEW i \in 1 .. d PROVE CallOK(S2, T, i)
  <2>1. CallOK(S, T, i)
    BY <1>1 DEF TreeOK
  <2>2. T[S[i].node].body \in Lines /\ Len(T[S[i].node].body) \in Nat
    BY <2>1 DEF CallOK, Lines
  <2>3. S2[i].pos <= Len(T[S[i].node].body)
    BY <1>1, <1>2, <2>1, <2>2 DEF CallOK
  <2>4. ASSUME i < d PROVE S2[i].pos = S[i].pos /\ S2[i + 1].node = S[i + 1].node
    <3>1. i + 1 \in 1 .. d /\ i # d
      BY <1>1, <2>4
    <3> QED
      BY <1>1, <3>1
  <2> QED
    BY <1>1, <1>3, <2>1, <2>3, <2>4 DEF CallOK
<1>5. ASSUME NEW n \in DOMAIN T PROVE ClosedOK(S2, T, n)
  <2>1. ClosedOK(S, T, n)
    BY DEF TreeOK
  <2>2. ASSUME NEW i \in 1 .. d, LeavesAt(S, i, T[n].link)
        PROVE  LeavesAt(S2, i, T[n].link)
    <3>1. i + 1 \in 1 .. Len(T[n].link) /\ T[n].link[i + 1] \in Nat
      BY <1>1, <2>2 DEF LeavesAt, TreeOK
    <3> QED
      BY <1>1, <1>2, <1>3, <2>2, <3>1 DEF LeavesAt
  <2> QED
    BY <1>1, <2>1, <2>2 DEF ClosedOK
<1> QED
  BY <1>1, <1>4, <1>5 DEF TreeOK

(* A file is added whose link is not that of a call.                       *)
LEMMA Added ==
  ASSUME NEW S, NEW T, TreeOK(S, T), NEW n \in Node, n \notin DOMAIN T,
         NEW file, file.link \in Seq(Nat),
         \E i \in 1 .. Len(S) : LeavesAt(S, i, file.link)
  PROVE  TreeOK(S, Put(T, n, file))
<1> DEFINE T2 == Put(T, n, file)
<1>1. /\ DOMAIN T2 = DOMAIN T \cup {n} /\ T2[n] = file
      /\ \A m \in DOMAIN T : T2[m] = T[m]
  BY DEF Put
<1> HIDE DEF T2
<1>2. ASSUME NEW i \in 1 .. Len(S) PROVE CallOK(S, T2, i)
  BY <1>1 DEF TreeOK, CallOK
<1>3. ASSUME S # <<>>, NEW m \in DOMAIN T2 PROVE ClosedOK(S, T2, m)
  <2>1. CASE m = n
    BY <1>1, <2>1 DEF ClosedOK
  <2>2. CASE m # n
    BY <1>1, <1>3, <2>2 DEF TreeOK, ClosedOK
  <2> QED
    BY <2>1, <2>2
<1>4. DOMAIN T2 \subseteq Node /\ \A m \in DOMAIN T2 : T2[m].link \in Seq(Nat)
  BY <1>1 DEF TreeOK
<1> QED
  BY <1>2, <1>3, <1>4 DEF TreeOK, T2

LEMMA AppendFacts ==
  ASSUME NEW s \in Seq(Nat), NEW x \in Nat
  PROVE  /\ Len(Append(s, x)) = Len(s) + 1 /\ Append(s, x)[Len(s) + 1] = x
         /\ \A k \in 1 .. Len(s) : Append(s, x)[k] = s[k]
<1> QED
  OBVIOUS

(* A file is added and its call begins.                                    *)
LEMMA Called ==
  ASSUME NEW S, NEW T, TreeOK(S, T), S # <<>>,
         NEW n \in Node, n \notin DOMAIN T,
         NEW file, file.link \in Seq(Nat), file.body \in Lines,
         NEW last, last = S[Len(S)],
         last.pos < Len(T[last.node].body),
         T[last.node].body[last.pos + 1].id = n,
         file.link = Append(T[last.node].link, last.pos + 1),
         NEW S2 \in Seq(Frame), Len(S2) = Len(S) + 1,
         \A i \in 1 .. Len(S) :
           /\ S2[i].node = S[i].node
           /\ S2[i].pos = IF i = Len(S) THEN S[i].pos + 1 ELSE S[i].pos,
         S2[Len(S) + 1].node = n, S2[Len(S) + 1].pos = 0
  PROVE  TreeOK(S2, Put(T, n, file))
<1> DEFINE T2 == Put(T, n, file)
<1>1. /\ DOMAIN T2 = DOMAIN T \cup {n} /\ T2[n] = file
      /\ \A m \in DOMAIN T : T2[m] = T[m]
  BY DEF Put
<1> HIDE DEF T2
<1>2. PICK d : d \in Nat /\ d = Len(S) /\ d > 0
  BY FrameTypes DEF TreeOK
<1>3. \A i \in 1 .. d : S[i].pos \in Nat
  BY <1>2, FrameTypes DEF TreeOK
<1>4. ASSUME NEW i \in 1 .. d, NEW link
      PROVE  OnWay(S2, i, link) <=> OnWay(S, i, link)
  <2>1. \A k \in 1 .. i : k = 1 \/ (k - 1 \in 1 .. d /\ k - 1 # d)
    BY <1>2
  <2>2. \A k \in 1 .. i : Way(S2, k) = Way(S, k)
    BY <1>2, <2>1 DEF Way
  <2> QED
    BY <2>2 DEF OnWay
<1>5. ASSUME NEW i \in 1 .. d PROVE CallOK(S2, T2, i)
  <2>1. CallOK(S, T, i)
    BY <1>2 DEF TreeOK
  <2>2. /\ T[S[i].node].body \in Lines /\ Len(T[S[i].node].body) \in Nat
        /\ T2[S[i].node] = T[S[i].node]
    BY <1>1, <2>1 DEF CallOK, Lines
  <2>3. S2[i].pos <= Len(T[S[i].node].body) /\ (i = d => S2[i].pos > 0)
    BY <1>2, <1>3, <2>1, <2>2 DEF CallOK
  <2>4. ASSUME i < d PROVE S2[i].pos = S[i].pos /\ S2[i + 1].node = S[i + 1].node
    <3>1. i + 1 \in 1 .. d /\ i # d
      BY <1>2, <2>4
    <3> QED
      BY <1>2, <3>1
  <2>5. i = d => S2[i].pos = last.pos + 1 /\ S2[i + 1].node = n /\ S[i] = last
    BY <1>2
  <2>6. i < d \/ i = d
    BY <1>2
  <2> QED
    BY <1>1, <1>2, <1>4, <2>1, <2>2, <2>3, <2>4, <2>5, <2>6 DEF CallOK
<1>6. CallOK(S2, T2, d + 1)
  <2>1. CallOK(S, T, d) /\ T[last.node].link \in Seq(Nat)
    BY <1>2 DEF TreeOK, CallOK
  <2>2. Len(T[last.node].link) = d /\ OnWay(S, d, T[last.node].link)
    BY <1>2, <2>1 DEF CallOK
  <2>3. /\ Len(file.link) = d + 1 /\ file.link[d + 1] = last.pos + 1
        /\ \A k \in 1 .. d : file.link[k] = T[last.node].link[k]
    <3> DEFINE link == T[last.node].link
               x == last.pos + 1
    <3>1. link \in Seq(Nat) /\ Len(link) = d /\ file.link = Append(link, x)
      BY <1>2, <2>1, <2>2
    <3>2. x \in Nat
      BY <1>2, <1>3
    <3> HIDE DEF link, x
    <3>3. /\ Len(Append(link, x)) = d + 1 /\ Append(link, x)[d + 1] = x
          /\ \A k \in 1 .. d : Append(link, x)[k] = link[k]
      BY <3>1, <3>2, AppendFacts
    <3>4. /\ Len(file.link) = d + 1 /\ file.link[d + 1] = x
          /\ \A k \in 1 .. d : file.link[k] = link[k]
      BY <3>1, <3>3, Zenon
    <3> QED
      BY <3>4 DEF link, x
  <2>4. OnWay(S2, d, T[last.node].link)
    BY <1>2, <1>4, <2>2
  <2>5. Way(S2, d + 1) = last.pos + 1
    <3>1. d + 1 # 1 /\ (d + 1) - 1 = d /\ d \in 1 .. d
      BY <1>2
    <3>2. S2[d].pos = last.pos + 1
      BY <1>2, <3>1
    <3> QED
      BY <3>1, <3>2 DEF Way
  <2>6. \A k \in 1 .. d + 1 : k \in 1 .. d \/ k = d + 1
    BY <1>2
  <2>7. OnWay(S2, d + 1, file.link)
    BY <2>3, <2>4, <2>5, <2>6 DEF OnWay
  <2>8. 0 <= Len(file.body)
    BY DEF Lines
  <2>9. /\ Len(S2) = d + 1 /\ S2[d + 1].node = n /\ S2[d + 1].pos = 0
        /\ n \in DOMAIN T2 /\ T2[n] = file /\ ~ d + 1 < Len(S2)
    BY <1>1, <1>2
  <2> HIDE DEF T2
  <2> QED
    BY <2>3, <2>7, <2>8, <2>9 DEF CallOK
<1>7. ASSUME NEW m \in DOMAIN T PROVE ClosedOK(S2, T2, m)
  <2>1. ClosedOK(S, T, m) /\ T2[m] = T[m] /\ T[m].link \in Seq(Nat)
    BY <1>1 DEF TreeOK
  <2>2. ASSUME NEW i \in 1 .. d, LeavesAt(S, i, T[m].link)
        PROVE  LeavesAt(S2, i, T[m].link)
    <3>1. i + 1 \in 1 .. Len(T[m].link) /\ T[m].link[i + 1] \in Nat
      <4>1. Len(T[m].link) > i /\ Len(T[m].link) \in Nat
        BY <2>1, <2>2 DEF LeavesAt
      <4>2. i + 1 \in 1 .. Len(T[m].link)
        BY <1>2, <4>1
      <4> DEFINE link == T[m].link
      <4>3. link \in Seq(Nat) /\ i + 1 \in 1 .. Len(link)
        BY <2>1, <4>2
      <4> HIDE DEF link
      <4>4. link[i + 1] \in Nat
        BY <4>3
      <4> QED
        BY <4>2, <4>4 DEF link
    <3>2. T[m].link[i + 1] < S2[i].pos
      BY <1>2, <1>3, <2>2, <3>1 DEF LeavesAt
    <3> QED
      BY <1>2, <1>4, <2>2, <3>2 DEF LeavesAt
  <2>3. 1 .. d \subseteq 1 .. Len(S2)
    BY <1>2
  <2> QED
    BY <1>2, <2>1, <2>2, <2>3 DEF ClosedOK
<1>8. ClosedOK(S2, T2, n)
  <2>1. d + 1 \in 1 .. Len(S2)
    BY <1>2
  <2> QED
    BY <1>2, <2>1 DEF ClosedOK
<1>9. \A i \in 1 .. Len(S2) : i \in 1 .. d \/ i = d + 1
  BY <1>2
<1>10. DOMAIN T2 \subseteq Node /\ \A m \in DOMAIN T2 : T2[m].link \in Seq(Nat)
  BY <1>1 DEF TreeOK
<1> QED
  BY <1>1, <1>5, <1>6, <1>7, <1>8, <1>9, <1>10 DEF TreeOK, T2

(* The call in progress ends; its file may have been emptied or changed.   *)
LEMMA Popped ==
  ASSUME NEW S, NEW T, TreeOK(S, T), S # <<>>, NEW T2, DOMAIN T2 = DOMAIN T,
         \A n \in DOMAIN T : n # S[Len(S)].node => T2[n] = T[n],
         T2[S[Len(S)].node].link \in {T[S[Len(S)].node].link, <<>>}
  PROVE  TreeOK(Front(S), T2)
<1> DEFINE S2 == Front(S)
<1>1. PICK d : d \in Nat /\ d = Len(S) /\ d > 0
  BY FrameTypes DEF TreeOK
<1>2. /\ S2 \in Seq(Frame) /\ Len(S2) = d - 1 /\ \A i \in 1 .. d - 1 : S2[i] = S[i]
  BY <1>1 DEF Front, TreeOK
<1> HIDE DEF S2
<1>3. \A i \in 1 .. d : S[i].pos \in Nat
  BY <1>1, FrameTypes DEF TreeOK
<1>4. \A i \in 1 .. d - 1 : i \in 1 .. d /\ i < d /\ (i + 1 \in 1 .. d - 1 \/ i + 1 = d)
  BY <1>1
<1>5. ASSUME NEW i \in 1 .. d, NEW link
      PROVE  OnWay(S2, i, link) <=> OnWay(S, i, link)
  <2>1. \A k \in 1 .. i : k = 1 \/ k - 1 \in 1 .. d - 1
    BY <1>1
  <2>2. \A k \in 1 .. i : Way(S2, k) = Way(S, k)
    BY <1>2, <2>1 DEF Way
  <2> QED
    BY <2>2 DEF OnWay
<1>6. CallOK(S, T, d) /\ d \in 1 .. d
  BY <1>1 DEF TreeOK
<1>7. ASSUME NEW i \in 1 .. d - 1 PROVE CallOK(S2, T2, i)
  <2>1. CallOK(S, T, i)
    BY <1>1, <1>4 DEF TreeOK
  <2>2. S[i].node # S[d].node
    BY <1>4, <1>6, <2>1 DEF CallOK
  <2>3. S2[i] = S[i] /\ T2[S[i].node] = T[S[i].node]
    BY <1>1, <1>2, <2>1, <2>2 DEF CallOK
  <2>4. ASSUME i < Len(S2) PROVE i + 1 \in 1 .. d - 1 /\ S2[i + 1] = S[i + 1] /\ i < Len(S)
    BY <1>1, <1>2, <2>4
  <2> QED
    BY <1>4, <1>5, <2>1, <2>3, <2>4 DEF CallOK
<1>8. ASSUME S2 # <<>>, NEW n \in DOMAIN T PROVE ClosedOK(S2, T2, n)
  <2>1. d - 1 \in 1 .. Len(S2) /\ d - 1 \in 1 .. d /\ d # 1 /\ d - 1 > 0
    BY <1>1, <1>2, <1>8, FrameTypes
  <2>2. ClosedOK(S, T, n) /\ T[n].link \in Seq(Nat)
    BY DEF TreeOK
  <2>3. ASSUME NEW link, Len(link) \in Nat, Len(link) >= d, OnWay(S, d, link)
        PROVE  LeavesAt(S2, d - 1, link)
    <3>1. link[d] = S[d - 1].pos /\ OnWay(S, d - 1, link)
      <4>1. \A k \in 1 .. d - 1 : k \in 1 .. d
        BY <1>1
      <4> QED
        BY <1>6, <2>1, <2>3, <4>1 DEF OnWay, Way
    <3>2. (d - 1) + 1 = d /\ Len(link) > d - 1
      BY <1>1, <2>3
    <3> QED
      BY <1>2, <1>5, <2>1, <3>1, <3>2 DEF LeavesAt
  <2>4. CASE n = S[d].node
    <3>1. Len(T[n].link) = d /\ OnWay(S, d, T[n].link)
      BY <1>6, <2>4 DEF CallOK
    <3>2. LeavesAt(S2, d - 1, T[n].link)
      BY <1>1, <2>3, <3>1
    <3> QED
      BY <1>1, <2>1, <2>4, <3>2 DEF ClosedOK
  <2>5. CASE n # S[d].node
    <3>1. T2[n] = T[n]
      BY <1>1, <2>5
    <3>2. ASSUME NEW i \in 1 .. d, S[i].node = n \/ LeavesAt(S, i, T[n].link)
          PROVE  \E j \in 1 .. Len(S2) : S2[j].node = n \/ LeavesAt(S2, j, T[n].link)
      <4>1. CASE i = d
        <5>1. LeavesAt(S, d, T[n].link)
          BY <2>5, <3>2, <4>1
        <5>2. Len(T[n].link) \in Nat /\ Len(T[n].link) > d /\ OnWay(S, d, T[n].link)
          BY <2>2, <5>1 DEF LeavesAt
        <5>3. Len(T[n].link) >= d
          BY <1>1, <5>2
        <5>4. LeavesAt(S2, d - 1, T[n].link)
          BY <2>3, <5>2, <5>3
        <5> QED
          BY <2>1, <5>4
      <4>2. CASE i # d
        <5>1. i \in 1 .. d - 1 /\ i \in 1 .. Len(S2) /\ S2[i] = S[i]
          BY <1>1, <1>2, <4>2
        <5>2. LeavesAt(S, i, T[n].link) => LeavesAt(S2, i, T[n].link)
          BY <1>1, <1>5, <4>2, <5>1 DEF LeavesAt
        <5> QED
          BY <3>2, <5>1, <5>2
      <4> QED
        BY <4>1, <4>2
    <3> QED
      BY <1>1, <2>2, <3>1, <3>2 DEF ClosedOK
  <2> QED
    BY <2>4, <2>5
<1>9. \A n \in DOMAIN T2 : n \in Node /\ T2[n].link \in Seq(Nat)
  <2>1. \A n \in DOMAIN T : n \in Node /\ T[n].link \in Seq(Nat)
    BY DEF TreeOK
  <2>2. <<>> \in Seq(Nat)
    OBVIOUS
  <2> QED
    BY <1>1, <2>1, <2>2
<1>10. \A i \in 1 .. Len(S2) : CallOK(S2, T2, i)
  BY <1>2, <1>7
<1> QED
  BY <1>2, <1>8, <1>9, <1>10 DEF TreeOK, S2

(* What is found below, when the call has returned a value.                *)
LEMMA PoppedReturn ==
  ASSUME NEW S, NEW T, TreeOK(S, T), S # <<>>, Front(S) # <<>>
  PROVE  ReturnOK(Front(S), T)
<1> DEFINE S2 == Front(S)
<1>1. PICK d : d \in Nat /\ d = Len(S) /\ d > 0
  BY FrameTypes DEF TreeOK
<1>2. S2 \in Seq(Frame) /\ Len(S2) = d - 1 /\ \A i \in 1 .. d - 1 : S2[i] = S[i]
  BY <1>1 DEF Front, TreeOK
<1> HIDE DEF S2
<1>3. d - 1 \in 1 .. d - 1 /\ d - 1 \in 1 .. d /\ d \in 1 .. d /\ d - 1 < d
      /\ (d - 1) + 1 = d
  BY <1>1, <1>2, FrameTypes DEF S2
<1>4. CallOK(S, T, d - 1) /\ CallOK(S, T, d)
  BY <1>1, <1>3 DEF TreeOK
<1>5. S2[Len(S2)] = S[d - 1]
  BY <1>2, <1>3
<1> QED
  BY <1>1, <1>2, <1>3, <1>4, <1>5 DEF CallOK, ReturnOK, S2

(* Closed files are erased, lines appended, and lines flagged.             *)
LEMMA Moved ==
  ASSUME NEW S, NEW T, TreeOK(S, T), NEW S2 \in Seq(Frame), Len(S2) = Len(S),
         \A i \in 1 .. Len(S) : S2[i].node = S[i].node /\ S2[i].pos = S[i].pos,
         NEW T2, DOMAIN T2 \subseteq DOMAIN T,
         \A n \in DOMAIN T2 : T2[n].link = T[n].link,
         \A i \in 1 .. Len(S) :
           LET n == S[i].node
           IN /\ n \in DOMAIN T2 /\ T2[n].body \in Lines
              /\ Len(T2[n].body) >= Len(T[n].body)
              /\ \A k \in 1 .. Len(T[n].body) : T2[n].body[k] = T[n].body[k]
  PROVE  TreeOK(S2, T2)
<1>1. PICK d : d \in Nat /\ d = Len(S)
  BY FrameTypes DEF TreeOK
<1>2. \A i \in 1 .. d : S[i].pos \in Nat
  BY <1>1, FrameTypes DEF TreeOK
<1>3. ASSUME NEW i \in 1 .. d, NEW link
      PROVE  OnWay(S2, i, link) <=> OnWay(S, i, link)
  <2>1. \A k \in 1 .. i : k = 1 \/ k - 1 \in 1 .. d
    BY <1>1
  <2>2. \A k \in 1 .. i : Way(S2, k) = Way(S, k)
    BY <1>1, <2>1 DEF Way
  <2> QED
    BY <2>2 DEF OnWay
<1>4. ASSUME NEW i \in 1 .. d PROVE CallOK(S2, T2, i)
  <2> DEFINE old == T[S[i].node]
             new == T2[S[i].node]
  <2>1. CallOK(S, T, i)
    BY <1>1 DEF TreeOK
  <2>2. /\ S[i].node \in DOMAIN T2 /\ new.body \in Lines /\ new.link = old.link
        /\ Len(new.body) >= Len(old.body)
        /\ \A k \in 1 .. Len(old.body) : new.body[k] = old.body[k]
        /\ S2[i].node = S[i].node /\ S2[i].pos = S[i].pos
    BY <1>1
  <2>3. old.body \in Lines /\ Len(old.body) \in Nat /\ Len(new.body) \in Nat
    BY <2>1, <2>2 DEF CallOK, Lines
  <2>4. S[i].pos <= Len(old.body) /\ Len(old.link) = i /\ OnWay(S, i, old.link)
    BY <2>1 DEF CallOK
  <2>5. ASSUME i < d
        PROVE  S[i].pos > 0 /\ new.body[S[i].pos].id = S2[i + 1].node
    <3>1. S[i].pos > 0 /\ old.body[S[i].pos].id = S[i + 1].node
      BY <1>1, <2>1, <2>5 DEF CallOK
    <3>2. i + 1 \in 1 .. d /\ S[i].pos \in 1 .. Len(old.body)
      BY <1>1, <1>2, <2>3, <2>4, <2>5, <3>1
    <3> QED
      BY <1>1, <2>2, <3>1, <3>2
  <2>6. S[i].pos <= Len(new.body)
    BY <1>2, <2>2, <2>3, <2>4
  <2> HIDE DEF old
  <2> QED
    BY <1>1, <1>3, <2>2, <2>4, <2>5, <2>6 DEF CallOK
<1>5. ASSUME S2 # <<>>, NEW n \in DOMAIN T2 PROVE ClosedOK(S2, T2, n)
  <2>1. S # <<>> /\ n \in DOMAIN T
    BY <1>1, <1>5, FrameTypes DEF TreeOK
  <2>2. ClosedOK(S, T, n) /\ T2[n].link = T[n].link
    BY <2>1 DEF TreeOK
  <2>3. ASSUME NEW i \in 1 .. d, LeavesAt(S, i, T[n].link)
        PROVE  LeavesAt(S2, i, T2[n].link)
    BY <1>1, <1>3, <2>2, <2>3 DEF LeavesAt
  <2> QED
    BY <1>1, <2>2, <2>3 DEF ClosedOK
<1> QED
  BY <1>1, <1>4, <1>5 DEF TreeOK

-------------------------------------------------------------------------------
(* tree_erase erases only files with links at least as long as that of the *)
(* file it is called for, so none that a call is reading.                  *)
LEMMA ErasedAreLonger ==
  ASSUME DOMAIN tree \subseteq Node, \A n \in DOMAIN tree : tree[n].link \in Seq(Nat),
         NEW id \in DOMAIN tree
  PROVE  /\ Erased(id) \subseteq DOMAIN tree
         /\ \A n \in Erased(id) : Len(tree[n].link) >= Len(tree[id].link)
<1> DEFINE N == DOMAIN tree
           next == [m \in N |-> Below(m)]
           T == {m \in N : Len(tree[m].link) >= Len(tree[id].link)}
<1>1. IsFiniteSet(N)
  BY FiniteAssumption, FS_Subset
<1>2. \A m : Below(m) \subseteq N
  BY DEF Below
<1>3. next \in [N -> SUBSET N] /\ {id} \in SUBSET N /\ DOMAIN next = N
  BY <1>2
<1>4. Erased(id) = Hull(next, {id})
  BY <1>1, <1>3, ClosureIsHull DEF Erased
<1>5. \A m \in N : Len(tree[m].link) \in Nat
  OBVIOUS
<1>6. ASSUME NEW m \in T, NEW k \in Below(m) PROVE k \in T
  <2>1. k \in N /\ Len(tree[m].link) <= Len(tree[k].link)
    BY DEF Below, IsStrictPrefix, IsPrefix
  <2> QED
    BY <1>5, <2>1
<1>7. ClosedIn(next, T) /\ T \subseteq N /\ id \in T
  BY <1>5, <1>6 DEF ClosedIn
<1> HIDE DEF next, T
<1>8. Hull(next, {id}) \subseteq T /\ Hull(next, {id}) \subseteq N
  BY <1>3, <1>7 DEF Hull
<1> QED
  BY <1>4, <1>8 DEF T

-------------------------------------------------------------------------------
LEMMA InitInv == Init => IInv
<1> SUFFICES ASSUME Init PROVE BuildInv
  BY DEF IInv
<1> DEFINE first == [node |-> Root, pos |-> 0, remove |-> <<>>]
<1>1. /\ Root \in DOMAIN graph /\ \A n \in DOMAIN graph : graph[n] \in Lines
      /\ Root \in Node
  BY DepTreeAssumption DEF Init, Lines, GraphOn
<1>2. /\ DOMAIN tree = {Root} /\ tree[Root].link = <<1>>
      /\ tree[Root].body = graph[Root] /\ dep = graph /\ ret = 0
  BY DEF Init
<1>3. first \in Frame
  BY <1>1 DEF Frame
<1>4. stack = <<first>> /\ stack \in Seq(Frame) /\ Len(stack) = 1 /\ stack[1] = first
  BY <1>3 DEF Init
<1>5. CallOK(stack, tree, 1)
  <2>1. OnWay(stack, 1, <<1>>)
    BY DEF OnWay, Way
  <2>2. 0 <= Len(graph[Root])
    BY <1>1 DEF Lines
  <2>3. Len(<<1>>) = 1 /\ stack[1].node = Root /\ stack[1].pos = 0
    BY <1>4
  <2> QED
    BY <1>1, <1>2, <1>4, <2>1, <2>2, <2>3 DEF CallOK
<1>6. \A n \in DOMAIN tree : ClosedOK(stack, tree, n)
  <2>1. 1 \in 1 .. Len(stack) /\ stack[1].node = Root
    BY <1>4
  <2> QED
    BY <1>2, <2>1 DEF ClosedOK
<1>7. <<1>> \in Seq(Nat) /\ \A i \in 1 .. Len(stack) : i = 1
  BY <1>4
<1> QED
  BY <1>1, <1>2, <1>4, <1>5, <1>6, <1>7 DEF BuildInv, TreeOK

(* A line has been read, and perhaps flagged.                              *)
LEMMA StepKeeps ==
  ASSUME BuildInv, MoreLines, NEW S2, S2 = Step \/ S2 = StepRemoving(Current.id)
  PROVE  /\ S2 \in Seq(Frame) /\ Len(S2) = Depth
         /\ \A i \in 1 .. Len(stack) :
              /\ S2[i].node = stack[i].node
              /\ S2[i].pos = IF i = Len(stack) THEN stack[i].pos + 1 ELSE stack[i].pos
         /\ TreeOK(S2, tree)
<1>1. stack # <<>> /\ stack \in Seq(Frame) /\ TreeOK(stack, tree)
  BY DEF MoreLines, BuildInv, TreeOK
<1>2. Depth \in 1 .. Depth /\ Top \in Frame /\ Current.id \in Node /\ Depth \in Nat
  BY <1>1, TopFacts, CurrentLine
<1> DEFINE stepped == [Top EXCEPT !.pos = @ + 1]
           flagged == [stepped EXCEPT !.remove = Append(@, Current.id)]
<1>3. PICK f : /\ f \in Frame /\ f.node = Top.node /\ f.pos = Top.pos + 1
               /\ S2 = [stack EXCEPT ![Depth] = f]
  <2>1. CASE S2 = Step
    <3>1. stepped \in Frame /\ stepped.node = Top.node /\ stepped.pos = Top.pos + 1
      BY <1>2 DEF Frame
    <3>2. S2 = [stack EXCEPT ![Depth] = stepped]
      BY <1>2, <2>1 DEF Step, Top, Depth
    <3> QED
      BY <3>1, <3>2
  <2>2. CASE S2 = StepRemoving(Current.id)
    <3>1. flagged \in Frame /\ flagged.node = Top.node /\ flagged.pos = Top.pos + 1
      <4>1. stepped \in Frame /\ stepped.node = Top.node /\ stepped.pos = Top.pos + 1
        BY <1>2 DEF Frame
      <4> HIDE DEF stepped
      <4>2. Append(stepped.remove, Current.id) \in Seq(Node)
        BY <1>2, <4>1 DEF Frame
      <4> QED
        BY <4>1, <4>2 DEF Frame
    <3>2. S2 = [stack EXCEPT ![Depth] = flagged]
      BY <1>2, <2>2 DEF StepRemoving, Top, Depth
    <3> QED
      BY <3>1, <3>2
  <2> QED
    BY <2>1, <2>2
<1>4. /\ S2 \in Seq(Frame) /\ Len(S2) = Depth
      /\ \A i \in 1 .. Len(stack) : S2[i] = IF i = Depth THEN f ELSE stack[i]
  BY <1>1, <1>2, <1>3 DEF Depth
<1>5. \A i \in 1 .. Len(stack) :
        /\ S2[i].node = stack[i].node
        /\ S2[i].pos = IF i = Len(stack) THEN stack[i].pos + 1 ELSE stack[i].pos
  BY <1>3, <1>4 DEF Top, Depth
<1>6. stack[Len(stack)].pos < Len(tree[stack[Len(stack)].node].body)
  BY DEF MoreLines, Top, Depth, Body
<1>7. TreeOK(S2, tree)
  BY <1>1, <1>4, <1>5, <1>6, Stepped DEF Depth
<1> QED
  BY <1>4, <1>5, <1>7

(* sed keeps lines of the files.                                           *)
LEMMA CutKeeps ==
  ASSUME \A n \in DOMAIN dep : dep[n] \in Lines, NEW id
  PROVE  DOMAIN Cut(id) = DOMAIN dep /\ \A n \in DOMAIN dep : Cut(id)[n] \in Lines
<1>1. ASSUME NEW file \in Lines, NEW keep PROVE Kept(file, keep) \in Lines
  BY KeptLines DEF Lines
<1>2. \A file \in Lines : Delete(file, id) \in Lines
  BY <1>1 DEF Delete, Without
<1>3. Cut(id) = [dep EXCEPT ![Top.node] = Delete(dep[Top.node], id)]
  BY DEF Cut
<1> QED
  BY <1>2, <1>3

-------------------------------------------------------------------------------
(* One lemma for each action of generate_dependency_tree.                  *)
LEMMA PruneKeeps ==
  ASSUME BuildInv, Prune \/ BuiltElsewhere
  PROVE  BuildInv'
<1>1. /\ MoreLines /\ ret = 0 /\ ret' = 0 /\ tree' = tree
      /\ stack' = StepRemoving(Current.id)
      /\ dep' = dep \/ dep' = Cut(Current.id)
  BY DEF Prune, BuiltElsewhere, Building
<1>2. TreeOK(stack', tree')
  BY <1>1, StepKeeps
<1>3. \A n \in DOMAIN dep' : dep'[n] \in Lines
  BY <1>1, CutKeeps DEF BuildInv
<1> QED
  BY <1>1, <1>2, <1>3 DEF BuildInv

LEMMA BackUpKeeps ==
  ASSUME BuildInv, stack # <<>>, stack' = Front(stack), UNCHANGED <<dep, tree>>
  PROVE  BuildInv'
<1>1. TreeOK(stack, tree)
  BY DEF BuildInv
<1>2. TreeOK(stack', tree')
  BY <1>1, Popped
<1>3. stack' # <<>> => ReturnOK(stack', tree')
  BY <1>1, PoppedReturn
<1> QED
  BY <1>2, <1>3 DEF BuildInv

(* The link of a file that the line being read leads to.                   *)
LEMMA NewLink ==
  ASSUME BuildInv, MoreLines
  PROVE  /\ Append(Link, Top.pos + 1) \in Seq(Nat)
         /\ \A S2 : /\ Len(S2) = Depth
                    /\ \A i \in 1 .. Depth :
                         S2[i].pos = IF i = Depth THEN stack[i].pos + 1
                                     ELSE stack[i].pos
                    => LeavesAt(S2, Depth, Append(Link, Top.pos + 1))
<1>1. stack # <<>>
  BY DEF MoreLines
<1>2. PICK d : d \in Nat /\ d = Depth /\ d > 0
  BY <1>1, TopFacts
<1>3. Link \in Seq(Nat) /\ Len(Link) = d /\ Top.pos \in Nat /\ OnWay(stack, d, Link)
  BY <1>1, <1>2, TopFacts DEF CallOK, Link, Top, Depth
<1> DEFINE link == Append(Link, Top.pos + 1)
<1>4. /\ link \in Seq(Nat) /\ Len(link) = d + 1 /\ link[d + 1] = Top.pos + 1
      /\ \A k \in 1 .. d : link[k] = Link[k]
  BY <1>2, <1>3
<1> HIDE DEF link
<1>5. ASSUME NEW S2, Len(S2) = d,
             \A i \in 1 .. d : S2[i].pos = IF i = d THEN stack[i].pos + 1
                                           ELSE stack[i].pos
      PROVE  LeavesAt(S2, d, link)
  <2>1. \A k \in 1 .. d : k = 1 \/ (k - 1 \in 1 .. d /\ k - 1 # d)
    BY <1>2
  <2>2. \A k \in 1 .. d : Way(S2, k) = Way(stack, k)
    BY <1>5, <2>1 DEF Way
  <2>3. OnWay(S2, d, link)
    BY <1>3, <1>4, <2>2 DEF OnWay
  <2>4. d \in 1 .. d /\ d + 1 > d
    BY <1>2
  <2>5. S2[d].pos = Top.pos + 1
    BY <1>2, <1>5, <2>4 DEF Top
  <2> QED
    BY <1>4, <1>5, <2>3, <2>4, <2>5 DEF LeavesAt
<1> QED
  BY <1>2, <1>4, <1>5 DEF link

LEMMA LeafKeeps == ASSUME BuildInv, Leaf PROVE BuildInv'
<1> DEFINE id == Current.id
           file == [link |-> Append(Link, Top.pos + 1), prios |-> <<>>, body |-> <<>>]
<1>1. /\ MoreLines /\ id \notin DOMAIN tree /\ tree' = Put(tree, id, file)
      /\ stack' = Step /\ ret = 0 /\ ret' = 0 /\ dep' = dep
  BY DEF Leaf, Building, Seen
<1>2. /\ TreeOK(stack', tree) /\ Len(stack') = Depth /\ id \in Node
      /\ \A i \in 1 .. Depth : stack'[i].pos = IF i = Depth THEN stack[i].pos + 1
                                               ELSE stack[i].pos
  BY <1>1, StepKeeps, CurrentLine DEF Depth
<1>3. file.link \in Seq(Nat) /\ LeavesAt(stack', Depth, file.link)
  BY <1>1, <1>2, NewLink
<1>4. Depth \in 1 .. Len(stack')
  BY <1>1, <1>2, TopFacts DEF MoreLines
<1> HIDE DEF id, file
<1>5. TreeOK(stack', tree')
  BY <1>1, <1>2, <1>3, <1>4, Added
<1> QED
  BY <1>1, <1>5 DEF BuildInv

LEMMA DescendKeeps == ASSUME BuildInv, Descend PROVE BuildInv'
<1> DEFINE id == Current.id
           file == [link |-> Append(Link, Top.pos + 1),
                    prios |-> Append(Prios, Current.prio), body |-> dep[id]]
           call == [node |-> id, pos |-> 0, remove |-> <<>>]
<1>1. /\ MoreLines /\ id \notin DOMAIN tree /\ tree' = Put(tree, id, file)
      /\ stack' = Append(Step, call) /\ ret = 0 /\ ret' = 0 /\ dep' = dep
      /\ id \in DOMAIN dep
  BY DEF Descend, Building, Seen, HasLines
<1>2. stack # <<>> /\ TreeOK(stack, tree) /\ Depth \in Nat /\ id \in Node
  BY <1>1, TopFacts, CurrentLine DEF MoreLines, BuildInv
<1>3. file.link \in Seq(Nat) /\ file.body \in Lines
  BY <1>1, NewLink DEF BuildInv
<1>4. /\ Step \in Seq(Frame) /\ Len(Step) = Depth
      /\ \A i \in 1 .. Len(stack) :
           /\ Step[i].node = stack[i].node
           /\ Step[i].pos = IF i = Len(stack) THEN stack[i].pos + 1 ELSE stack[i].pos
  BY <1>1, StepKeeps
<1>5. call \in Frame
  BY <1>2 DEF Frame
<1>6. /\ stack' \in Seq(Frame) /\ Len(stack') = Depth + 1 /\ stack'[Depth + 1] = call
      /\ \A i \in 1 .. Depth : stack'[i] = Step[i]
  <2> DEFINE s == Step
  <2>1. s \in Seq(Frame) /\ Len(s) = Depth /\ stack' = Append(s, call)
    BY <1>1, <1>4
  <2> HIDE DEF s, call
  <2>2. /\ Append(s, call) \in Seq(Frame) /\ Len(Append(s, call)) = Len(s) + 1
        /\ Append(s, call)[Len(s) + 1] = call
        /\ \A i \in 1 .. Len(s) : Append(s, call)[i] = s[i]
    BY <1>5, <2>1
  <2> QED
    BY <2>1, <2>2 DEF s
<1>7. call.node = id /\ call.pos = 0
  OBVIOUS
<1>8. /\ Top.pos < Len(tree[Top.node].body) /\ Top = stack[Len(stack)]
      /\ tree[Top.node].body[Top.pos + 1].id = id
      /\ file.link = Append(tree[Top.node].link, Top.pos + 1)
  BY <1>1 DEF MoreLines, Body, Top, Depth, Current, Link
<1> HIDE DEF id, file, call
<1>9. /\ Len(stack') = Len(stack) + 1
      /\ \A i \in 1 .. Len(stack) :
           /\ stack'[i].node = stack[i].node
           /\ stack'[i].pos = IF i = Len(stack) THEN stack[i].pos + 1 ELSE stack[i].pos
      /\ stack'[Len(stack) + 1].node = id /\ stack'[Len(stack) + 1].pos = 0
  BY <1>4, <1>6, <1>7 DEF Depth
<1>10. TreeOK(stack', Put(tree, id, file))
  BY <1>1, <1>2, <1>3, <1>6, <1>8, <1>9, Called
<1> QED
  BY <1>1, <1>10 DEF BuildInv

LEMMA ReturnKeeps == ASSUME BuildInv, Return PROVE BuildInv'
<1> DEFINE file == IF Emptied(Body, Top.remove)
                   THEN [link |-> <<>>, prios |-> <<>>, body |-> <<>>]
                   ELSE WithBody(tree[Top.node], Removed(Body, Top.remove))
<1>1. /\ stack # <<>> /\ ret = 0 /\ ret' = 0 /\ dep' = dep /\ stack' = Front(stack)
      /\ tree' = [tree EXCEPT ![Top.node] = file]
  BY DEF Return, Building
<1>2. Top.node \in DOMAIN tree /\ Top = stack[Len(stack)] /\ TreeOK(stack, tree)
  BY <1>1, TopFacts DEF Top, Depth, BuildInv
<1>3. file.link \in {tree[Top.node].link, <<>>}
  BY DEF WithBody
<1> HIDE DEF file
<1>4. /\ DOMAIN tree' = DOMAIN tree /\ tree'[Top.node] = file
      /\ \A n \in DOMAIN tree : n # Top.node => tree'[n] = tree[n]
  BY <1>1, <1>2
<1>5. TreeOK(stack', tree')
  BY <1>1, <1>2, <1>3, <1>4, Popped
<1> QED
  BY <1>1, <1>5 DEF BuildInv

LEMMA MoveKeeps == ASSUME BuildInv, Move PROVE BuildInv'
<1> DEFINE id == LineRead.id
           line == [prio |-> ret, qual |-> "b", id |-> id]
           moved(file) == Append(file, line)
           flagged == [Top EXCEPT !.remove = Append(@, id)]
<1>1. /\ stack # <<>> /\ ret # 0 /\ ret' = 0 /\ LineRead.prio = ret
      /\ TreeOK(stack, tree) /\ ReturnOK(stack, tree)
  BY DEF Move, BuildInv
<1>2. /\ Depth \in Nat /\ Depth > 0 /\ Depth \in 1 .. Depth /\ Top \in Frame
      /\ Top.pos \in Nat /\ Body \in Lines /\ Top.pos <= Len(Body)
      /\ stack \in Seq(Frame)
  BY <1>1, TopFacts DEF TreeOK
<1>3. Top.pos > 0 /\ id \in DOMAIN tree /\ Len(tree[id].link) = Depth + 1
  BY <1>1 DEF ReturnOK, LineRead, Body, Top, Depth
<1>4. LineRead \in Line(Node \ {Root})
  <2>1. Top.pos \in 1 .. Len(Body)
    BY <1>2, <1>3 DEF Lines
  <2> QED
    BY <1>2, <2>1 DEF LineRead, Lines
<1>5. line \in Line(Node \ {Root}) /\ id \in Node
  <2>1. LineRead.prio \in Weight /\ id \in Node \ {Root} /\ "b" \in Qualifier
    BY <1>4 DEF Line, Qualifier
  <2> QED
    BY <1>1, <2>1 DEF Line
<1>6. /\ DOMAIN tree' = DOMAIN tree \ Erased(id)
      /\ \A n \in DOMAIN tree' :
           tree'[n] = IF n \in Receivers
                      THEN WithBody(tree[n], moved(tree[n].body)) ELSE tree[n]
  BY DEF Move
<1>7. /\ DOMAIN dep' = DOMAIN Cut(id)
      /\ \A n \in DOMAIN dep' :
           dep'[n] = IF n \in Receivers THEN moved(Cut(id)[n]) ELSE Cut(id)[n]
  BY DEF Move
<1>8. stack' = [stack EXCEPT ![Depth] = flagged]
  BY <1>2 DEF Move, Top
<1>9. flagged \in Frame /\ flagged.node = Top.node /\ flagged.pos = Top.pos
  <2>1. Append(Top.remove, id) \in Seq(Node)
    BY <1>2, <1>5 DEF Frame
  <2> QED
    BY <1>2, <2>1 DEF Frame
<1>10. ASSUME NEW file \in Lines
       PROVE  /\ moved(file) \in Lines /\ Len(moved(file)) >= Len(file)
              /\ \A k \in 1 .. Len(file) : moved(file)[k] = file[k]
  BY <1>5 DEF Lines
<1> HIDE DEF id, line, moved, flagged
<1>11. \A n \in DOMAIN dep' : dep'[n] \in Lines
  <2>1. DOMAIN Cut(id) = DOMAIN dep /\ \A n \in DOMAIN dep : Cut(id)[n] \in Lines
    BY CutKeeps DEF BuildInv
  <2> QED
    BY <1>7, <1>10, <2>1
<1>12. /\ stack' \in Seq(Frame) /\ Len(stack') = Len(stack)
       /\ \A i \in 1 .. Len(stack) :
            stack'[i].node = stack[i].node /\ stack'[i].pos = stack[i].pos
  <2>1. /\ stack' \in Seq(Frame) /\ Len(stack') = Len(stack)
        /\ \A i \in 1 .. Len(stack) : stack'[i] = IF i = Depth THEN flagged ELSE stack[i]
    BY <1>2, <1>8, <1>9 DEF Depth
  <2> QED
    BY <1>9, <2>1 DEF Top
<1>13. /\ DOMAIN tree' \subseteq DOMAIN tree
       /\ \A n \in DOMAIN tree' : tree'[n].link = tree[n].link
  BY <1>6 DEF WithBody
<1>14. ASSUME NEW i \in 1 .. Len(stack)
       PROVE  LET n == stack[i].node
              IN /\ n \in DOMAIN tree' /\ tree'[n].body \in Lines
                 /\ Len(tree'[n].body) >= Len(tree[n].body)
                 /\ \A k \in 1 .. Len(tree[n].body) : tree'[n].body[k] = tree[n].body[k]
  <2> DEFINE n == stack[i].node
  <2>1. n \in DOMAIN tree /\ Len(tree[n].link) = i /\ tree[n].body \in Lines
    BY <1>1 DEF TreeOK, CallOK
  <2>2. n \notin Erased(id)
    <3>1. \A m \in Erased(id) : Len(tree[m].link) >= Len(tree[id].link)
      BY <1>1, <1>3, ErasedAreLonger DEF TreeOK
    <3>2. i <= Depth /\ i \in Nat
      BY <1>2 DEF Depth
    <3> QED
      BY <1>2, <1>3, <2>1, <3>1, <3>2
  <2>3. n \in DOMAIN tree'
    BY <1>6, <2>1, <2>2
  <2>4. tree'[n].body = tree[n].body \/ tree'[n].body = moved(tree[n].body)
    BY <1>6, <2>3 DEF WithBody
  <2>5. Len(tree[n].body) >= Len(tree[n].body)
    BY <2>1 DEF Lines
  <2> QED
    BY <1>10, <2>1, <2>3, <2>4, <2>5
<1>15. TreeOK(stack', tree')
  BY <1>1, <1>12, <1>13, <1>14, Moved
<1> QED
  BY <1>1, <1>11, <1>15 DEF BuildInv

(* The other actions end the building.                                     *)
LEMMA NextKeeps == ASSUME IInv, [Next]_vars PROVE IInv'
<1> SUFFICES ASSUME mode' = "build" PROVE BuildInv'
  BY DEF IInv
<1>1. CASE UNCHANGED vars
  <2>1. BuildInv
    BY <1>1 DEF IInv, vars
  <2> QED
    BY <1>1, <2>1 DEF vars, BuildInv
<1>2. CASE Next
  <2>1. \/ Prune \/ BackUp \/ BuiltElsewhere \/ Leaf \/ Descend
        \/ Return \/ Move \/ KeepBackingUp
    BY <1>2 DEF Next, EmptyLink, StartBrowse, BrowseDown, BrowseLeaf, BrowseUp
  <2>2. BuildInv
    BY <2>1 DEF IInv, Building, Prune, BackUp, BuiltElsewhere, Leaf, Descend, Return,
                Move, KeepBackingUp
  <2>3. CASE BackUp \/ KeepBackingUp
    <3>1. stack # <<>> /\ stack' = Front(stack) /\ UNCHANGED <<dep, tree>>
      BY <2>3 DEF BackUp, KeepBackingUp, MoreLines
    <3> QED
      BY <2>2, <3>1, BackUpKeeps
  <2> QED
    BY <2>1, <2>2, <2>3, PruneKeeps, LeafKeeps, DescendKeeps, ReturnKeeps, MoveKeeps
<1> QED
  BY <1>1, <1>2

-------------------------------------------------------------------------------
(* Comparing the links that are stored in the files tells which nodes are  *)
(* on the way from root to the line being read, "cir. dep", although some  *)
(* are left from calls that have ended, from subtrees erased since and     *)
(* from others built again.                                                *)
THEOREM LinksTellOpenCalls == Spec => []CircularIsOpen
<1>1. Init => IInv
  BY InitInv
<1>2. IInv /\ [Next]_vars => IInv'
  BY NextKeeps
<1>3. IInv => CircularIsOpen
  BY LinksTell
<1> QED
  BY <1>1, <1>2, <1>3, PTL DEF Spec

-------------------------------------------------------------------------------
(***************************************************************************)
(* No package is built twice.                                              *)
(***************************************************************************)

(* Counting the members of a set of positions up to one of them.           *)
Count(A, p) == Cardinality(A \cap (1 .. p))

(* Such a count grows by one at a member.                                  *)
LEMMA CountStep ==
  ASSUME NEW A, NEW p \in Nat
  PROVE  /\ Count(A, p) \in Nat /\ Count(A, 0) = 0
         /\ Count(A, p + 1) = IF p + 1 \in A THEN Count(A, p) + 1 ELSE Count(A, p)
<1> DEFINE S == A \cap (1 .. p)
<1>1. IsFiniteSet(1 .. p) /\ S \in SUBSET (1 .. p)
  BY FS_Interval
<1>2. IsFiniteSet(S)
  BY <1>1, FS_Subset
<1>3. A \cap (1 .. 0) = {}
  OBVIOUS
<1>4. A \cap (1 .. p + 1) = IF p + 1 \in A THEN S \cup {p + 1} ELSE S
  OBVIOUS
<1>5. p + 1 \notin S
  OBVIOUS
<1> HIDE DEF S
<1>6. Cardinality(S) \in Nat
  BY <1>2, FS_CardinalityType
<1>7. Cardinality(S \cup {p + 1}) = Cardinality(S) + 1
  BY <1>2, <1>5, FS_AddElement
<1>8. Cardinality({}) = 0
  BY FS_EmptySet
<1> QED
  BY <1>3, <1>4, <1>6, <1>7, <1>8 DEF Count, S

(* It depends on the members up to the position only.                      *)
LEMMA SameCount ==
  ASSUME NEW A, NEW B, NEW p \in Nat, \A k \in 1 .. p : k \in A <=> k \in B
  PROVE  Count(A, p) = Count(B, p)
<1>1. A \cap (1 .. p) = B \cap (1 .. p)
  OBVIOUS
<1> QED
  BY <1>1 DEF Count

(* A set with a member has a positive count, with two of them one of at    *)
(* least 2.                                                                *)
LEMMA CountMembers ==
  ASSUME NEW A, NEW p \in Nat, NEW i \in A \cap (1 .. p)
  PROVE  /\ Count(A, p) >= 1
         /\ \A j \in A \cap (1 .. p) : i # j => Count(A, p) >= 2
<1> DEFINE S == A \cap (1 .. p)
<1>1. IsFiniteSet(1 .. p) /\ S \in SUBSET (1 .. p)
  BY FS_Interval
<1>2. IsFiniteSet(S)
  BY <1>1, FS_Subset
<1> HIDE DEF S
<1>3. ASSUME NEW T \in SUBSET S
      PROVE  Cardinality(T) <= Cardinality(S) /\ Cardinality(T) \in Nat
  BY <1>2, FS_Subset, FS_CardinalityType
<1>4. Cardinality({i}) = 1
  BY FS_Singleton
<1>5. ASSUME NEW j \in S, i # j PROVE Cardinality({i, j}) = 2
  <2>1. {i, j} = {i} \cup {j} /\ j \notin {i} /\ IsFiniteSet({i})
    BY <1>5, FS_Singleton
  <2>2. Cardinality({i} \cup {j}) = Cardinality({i}) + 1
    BY <2>1, FS_AddElement
  <2> QED
    BY <2>1, <2>2, <1>4
<1>6. i \in S
  BY DEF S
<1>7. Cardinality(S) \in Nat
  BY <1>2, FS_CardinalityType
<1>8. Cardinality(S) >= 1
  BY <1>3, <1>4, <1>6, <1>7
<1>9. \A j \in S : i # j => Cardinality(S) >= 2
  BY <1>3, <1>5, <1>6, <1>7
<1> QED
  BY <1>8, <1>9 DEF Count, S

(* A set of numbers that is bounded and not empty has a greatest member.   *)
LEMMA GreatestNat ==
  ASSUME NEW n \in Nat, NEW S \in SUBSET (0 .. n), S # {}
  PROVE  Max(S) \in S /\ \A y \in S : Max(S) >= y
<1> DEFINE D == {n - y : y \in S}
<1>1. D \in SUBSET Nat /\ D # {}
  <2>1. \A y \in S : n - y \in Nat
    OBVIOUS
  <2> QED
    BY <2>1
<1>2. PICK d \in D : \A k \in D : ~(k < d)
  BY <1>1, LeastNat
<1>3. PICK x \in S : d = n - x
  OBVIOUS
<1>4. \A y \in S : x >= y
  BY <1>2, <1>3
<1> QED
  BY <1>3, <1>4, Zenon DEF Max

(* The lines of a file that lead to id, and the flags that are for it.     *)
LinesTo(file, id) == {k \in 1 .. Len(file) : file[k].id = id}
FlagsFor(ids, id) == {k \in 1 .. Len(ids) : ids[k] = id}

(* The length of two files, one after the other.                           *)
LEMMA ConcatFacts ==
  ASSUME NEW L, NEW s \in Seq(L), NEW t \in Seq(L)
  PROVE  s \o t \in Seq(L) /\ Len(s \o t) = Len(s) + Len(t)
<1> QED
  OBVIOUS

(* Deleting one line lowers the number of lines to its target by one, and  *)
(* that of no other.                                                       *)
LEMMA LineDeleted ==
  ASSUME NEW body \in Lines, NEW j \in 1 .. Len(body), NEW id
  PROVE  LET new == RemoveAt(body, j)
         IN /\ new \in Lines
            /\ Count(LinesTo(new, id), Len(new)) =
                 IF body[j].id = id THEN Count(LinesTo(body, id), Len(body)) - 1
                 ELSE Count(LinesTo(body, id), Len(body))
<1> DEFINE new == RemoveAt(body, j)
           n == Len(body)
           A == LinesTo(body, id)
           B == LinesTo(new, id)
           less == IF body[j].id = id THEN 1 ELSE 0
           Good == {p \in 0 .. n - 1 : Count(B, p) = IF p < j THEN Count(A, p)
                                       ELSE Count(A, p + 1) - less}
<1>1. n \in Nat /\ j \in 1 .. n /\ n - 1 \in Nat
  BY DEF Lines
<1>2. /\ new \in Lines /\ Len(new) = n - 1
      /\ \A k \in 1 .. n - 1 : new[k] = IF k < j THEN body[k] ELSE body[k + 1]
  <2> DEFINE s == SubSeq(body, 1, j - 1)
             t == SubSeq(body, j + 1, n)
  <2>1. /\ s \in Lines /\ Len(s) = j - 1
        /\ \A k \in 1 .. j - 1 : s[k] = body[k]
    BY <1>1 DEF Lines
  <2>2. /\ t \in Lines /\ Len(t) = n - j
        /\ \A k \in 1 .. n - j : t[k] = body[j + k]
    BY <1>1 DEF Lines
  <2>3. new = s \o t
    BY DEF RemoveAt
  <2> HIDE DEF s, t, new, n
  <2>4. new \in Lines /\ Len(new) = n - 1
    <3>1. s \o t \in Lines /\ Len(s \o t) = Len(s) + Len(t)
      BY <2>1, <2>2, ConcatFacts DEF Lines
    <3> QED
      BY <1>1, <2>1, <2>2, <2>3, <3>1
  <2>5. ASSUME NEW k \in 1 .. n - 1
        PROVE  new[k] = IF k < j THEN body[k] ELSE body[k + 1]
    <3>1. CASE k < j
      <4>1. k \in 1 .. Len(s)
        BY <1>1, <2>1, <3>1
      <4>2. (s \o t)[k] = s[k]
        BY <2>1, <2>2, <4>1 DEF Lines
      <4> QED
        BY <1>1, <2>1, <2>3, <3>1, <4>1, <4>2
    <3>2. CASE ~ k < j
      <4>1. k - Len(s) \in 1 .. Len(t) /\ k - Len(s) = k - (j - 1)
        BY <1>1, <2>1, <2>2, <3>2
      <4>2. (s \o t)[k] = t[k - Len(s)]
        BY <1>1, <2>1, <2>2, <4>1 DEF Lines
      <4>3. j + (k - (j - 1)) = k + 1
        BY <1>1
      <4> QED
        BY <2>2, <2>3, <3>2, <4>1, <4>2, <4>3
    <3> QED
      BY <3>1, <3>2
  <2> QED
    BY <2>4, <2>5
<1> HIDE DEF new, n
<1>3. \A k \in 1 .. n - 1 : k \in B <=> IF k < j THEN k \in A ELSE k + 1 \in A
  BY <1>1, <1>2 DEF LinesTo, n
<1>4. j \in A <=> less = 1
  BY <1>1 DEF LinesTo, n
<1>5. less \in {0, 1}
  OBVIOUS
<1> HIDE DEF A, B, less
<1>6. 0 \in Good
  <2>1. Count(B, 0) = 0 /\ Count(A, 0) = 0
    BY CountStep
  <2> QED
    BY <1>1, <2>1
<1>7. ASSUME NEW p \in 1 .. n - 1, p - 1 \in Good PROVE p \in Good
  <2>1. p - 1 \in Nat /\ p \in Nat /\ (p - 1) + 1 = p
    BY <1>1
  <2>2. Count(B, p) = IF p \in B THEN Count(B, p - 1) + 1 ELSE Count(B, p - 1)
    BY <2>1, CountStep
  <2>3. Count(A, p) = IF p \in A THEN Count(A, p - 1) + 1 ELSE Count(A, p - 1)
    BY <2>1, CountStep
  <2>4. Count(A, p + 1) = IF p + 1 \in A THEN Count(A, p) + 1 ELSE Count(A, p)
    BY <2>1, CountStep
  <2>5. Count(A, p - 1) \in Nat /\ Count(A, p) \in Nat /\ Count(B, p - 1) \in Nat
    BY <2>1, CountStep
  <2>6. Count(B, p - 1) = IF p - 1 < j THEN Count(A, p - 1)
                          ELSE Count(A, p) - less
    BY <1>7, <2>1
  <2>7. CASE p < j
    <3>1. p \in B <=> p \in A
      BY <1>3, <2>7
    <3> QED
      BY <2>1, <2>2, <2>3, <2>6, <2>7, <3>1, <1>1
  <2>8. CASE ~ p < j
    <3>1. p \in B <=> p + 1 \in A
      BY <1>3, <2>8
    <3>2. Count(B, p - 1) = Count(A, p) - less
      <4>1. CASE p = j
        BY <1>1, <1>4, <1>5, <2>1, <2>3, <2>5, <2>6, <4>1
      <4>2. CASE p # j
        BY <1>1, <2>1, <2>6, <2>8, <4>2
      <4> QED
        BY <4>1, <4>2
    <3>3. Count(B, p) = Count(A, p + 1) - less
      BY <1>5, <2>2, <2>4, <2>5, <3>1, <3>2
    <3> QED
      BY <1>1, <2>8, <3>3
  <2> QED
    BY <2>7, <2>8
<1>8. n - 1 \in Good
  <2> HIDE DEF Good
  <2>1. 0 .. n - 1 \subseteq Good
    BY <1>1, <1>6, <1>7, UpTo
  <2> QED
    BY <1>1, <2>1
<1>9. Count(B, n - 1) = Count(A, n) - less
  <2>1. CASE n - 1 < j
    <3>1. j = n /\ (n - 1) + 1 = n
      BY <1>1, <2>1
    <3>2. Count(A, n) = IF n \in A THEN Count(A, n - 1) + 1 ELSE Count(A, n - 1)
      BY <1>1, <3>1, CountStep
    <3>3. Count(A, n - 1) \in Nat
      BY <1>1, CountStep
    <3> QED
      BY <1>4, <1>5, <1>8, <2>1, <3>1, <3>2, <3>3
  <2>2. CASE ~ n - 1 < j
    BY <1>1, <1>8, <2>2
  <2> QED
    BY <2>1, <2>2
<1>10. Count(A, n) \in Nat
  BY <1>1, CountStep
<1> QED
  BY <1>2, <1>9, <1>10 DEF n, A, B, less, new

(* The deletions made when a call returns: unless there is a line to       *)
(* delete for each of the flags, the file is emptied.                      *)
RemovingFunction(body, ids, n, f) ==
  f = [k \in 0 .. n |->
         IF k = 0 THEN body ELSE RemoveLast(f[k - 1], ids[k])]

(* The recursive definition of Removing has a solution.                    *)
LEMMA RemovingExists ==
  ASSUME NEW body, NEW ids, NEW n \in Nat
  PROVE  \E f : RemovingFunction(body, ids, n, f)
<1> DEFINE Bad == {m \in Nat : ~ \E f : RemovingFunction(body, ids, m, f)}
<1> SUFFICES ASSUME Bad # {} PROVE FALSE
  OBVIOUS
<1>1. PICK m \in Bad : \A k \in Bad : ~(k < m)
  BY LeastNat
<1>2. CASE m = 0
  <2>1. RemovingFunction(body, ids, 0, [k \in 0 .. 0 |-> body])
    BY DEF RemovingFunction
  <2> QED
    BY <1>1, <1>2, <2>1
<1>3. CASE m # 0
  <2>1. m - 1 \in Nat /\ m - 1 < m /\ m - 1 \in 0 .. m - 1 /\ m \in 0 .. m
    BY <1>1, <1>3
  <2>2. PICK g : RemovingFunction(body, ids, m - 1, g)
    BY <1>1, <2>1
  <2> DEFINE last == RemoveLast(g[m - 1], ids[m])
             f == [k \in 0 .. m |-> IF k = m THEN last ELSE g[k]]
  <2>3. ASSUME NEW k \in 0 .. m
        PROVE  f[k] = IF k = 0 THEN body ELSE RemoveLast(f[k - 1], ids[k])
    <3>1. CASE k = m
      <4>1. f[k] = last /\ k # 0 /\ f[k - 1] = g[m - 1]
        BY <3>1, <2>1, <1>3
      <4> QED
        BY <4>1, <3>1
    <3>2. CASE k # m
      <4>1. k \in 0 .. m - 1 /\ (k # 0 => k - 1 \in 0 .. m - 1 /\ k - 1 # m)
        BY <3>2, <2>1
      <4>2. g[k] = IF k = 0 THEN body ELSE RemoveLast(g[k - 1], ids[k])
        BY <4>1, <2>2 DEF RemovingFunction
      <4>3. f[k] = g[k] /\ (k # 0 => f[k - 1] = g[k - 1])
        BY <4>1, <3>2, <2>1
      <4> QED
        BY <4>2, <4>3
    <3> QED
      BY <3>1, <3>2
  <2>4. RemovingFunction(body, ids, m, f)
    <3>1. f = [k \in 0 .. m |-> f[k]]
      OBVIOUS
    <3> HIDE DEF f
    <3> QED
      BY <3>1, <2>3 DEF RemovingFunction
  <2> QED
    BY <1>1, <2>4
<1> QED
  BY <1>2, <1>3

(* Unless the file is emptied, it loses one line for each flag.            *)
LEMMA FlagsRemoved ==
  ASSUME NEW body \in Lines, NEW ids \in Seq(Node), ~ Emptied(body, ids), NEW id
  PROVE  LET new == Removed(body, ids)
         IN /\ new \in Lines
            /\ Count(LinesTo(new, id), Len(new)) + Count(FlagsFor(ids, id), Len(ids))
                 = Count(LinesTo(body, id), Len(body))
<1> DEFINE n == Len(ids)
           f == Removing(body, ids)
           F == FlagsFor(ids, id)
           Left(k) == Count(LinesTo(f[k], id), Len(f[k]))
           Good == {k \in 0 .. n : f[k] \in Lines /\ Left(k) + Count(F, k) = Left(0)}
<1>1. n \in Nat
  OBVIOUS
<1>2. RemovingFunction(body, ids, n, f)
  <2>1. f = CHOOSE g : RemovingFunction(body, ids, n, g)
    BY DEF Removing, RemovingFunction
  <2> QED
    BY <1>1, <2>1, RemovingExists
<1>3. Removed(body, ids) = f[n]
  BY DEF Removed
<1>4. \A k \in 1 .. n : BeforeLines(f[k - 1], ids[k]) # {}
  BY DEF Emptied
<1> HIDE DEF f
<1>5. ASSUME NEW k \in 0 .. n
      PROVE  f[k] = IF k = 0 THEN body ELSE RemoveLast(f[k - 1], ids[k])
  BY <1>2, Zenon DEF RemovingFunction
<1>6. f[0] = body
  BY <1>1, <1>5
<1>7. 0 \in Good
  <2>1. Count(F, 0) = 0
    BY CountStep
  <2>2. Len(body) \in Nat
    BY DEF Lines
  <2>3. Left(0) \in Nat
    BY <1>6, <2>2, CountStep
  <2> QED
    BY <1>1, <1>6, <2>1, <2>3
<1>8. ASSUME NEW k \in 1 .. n, k - 1 \in Good PROVE k \in Good
  <2> DEFINE old == f[k - 1]
             S == BeforeLines(old, ids[k])
             j == Max(S)
  <2>1. k \in 0 .. n /\ k # 0 /\ k - 1 \in Nat /\ (k - 1) + 1 = k
    BY <1>1
  <2>2. old \in Lines /\ Left(k - 1) + Count(F, k - 1) = Left(0)
    BY <1>8
  <2>3. Len(old) \in Nat
    BY <2>2 DEF Lines
  <2>4. S \in SUBSET (0 .. Len(old)) /\ S # {}
    BY <1>4, <2>3 DEF BeforeLines
  <2>5. j \in S
    <3> HIDE DEF S, old
    <3> QED
      BY <2>3, <2>4, GreatestNat
  <2>6. j \in 1 .. Len(old) /\ old[j].id = ids[k]
    BY <2>5 DEF BeforeLines
  <2>7. f[k] = RemoveAt(old, j)
    BY <1>5, <2>1, <2>4 DEF RemoveLast
  <2> HIDE DEF j, S, old
  <2>8. /\ f[k] \in Lines
        /\ Left(k) = IF old[j].id = id THEN Count(LinesTo(old, id), Len(old)) - 1
                     ELSE Count(LinesTo(old, id), Len(old))
    BY <2>2, <2>6, <2>7, LineDeleted
  <2>9. Count(F, k) = IF k \in F THEN Count(F, k - 1) + 1 ELSE Count(F, k - 1)
    BY <2>1, CountStep
  <2>10. k \in F <=> ids[k] = id
    BY DEF FlagsFor
  <2>11. Count(F, k - 1) \in Nat /\ Count(LinesTo(old, id), Len(old)) \in Nat
    BY <2>1, <2>3, CountStep
  <2>12. Left(k - 1) = Count(LinesTo(old, id), Len(old))
    BY DEF old
  <2> HIDE DEF F, Left
  <2>13. Left(k) + Count(F, k) = Left(0)
    BY <2>2, <2>6, <2>8, <2>9, <2>10, <2>11, <2>12
  <2> QED
    BY <2>1, <2>8, <2>13
<1>9. n \in Good
  <2> HIDE DEF Good
  <2>1. 0 .. n \subseteq Good
    BY <1>1, <1>7, <1>8, UpTo
  <2> QED
    BY <1>1, <2>1
<1> QED
  BY <1>3, <1>6, <1>9

-------------------------------------------------------------------------------
(* What is counted in the files that were not lost with one above them.    *)
StartsWith(link, start) ==
  Len(start) <= Len(link) /\ \A k \in 1 .. Len(start) : link[k] = start[k]

(* A file that was not lost with one above it: each part of its link is    *)
(* the link of a file.                                                     *)
Rooted(T, m) ==
  /\ T[m].link # <<>>
  /\ \A l \in 1 .. Len(T[m].link) :
       \E n \in DOMAIN T : Len(T[n].link) = l /\ StartsWith(T[m].link, T[n].link)

(* The link of id is that of m, and a position.                            *)
Child(T, m, id) ==
  Len(T[id].link) = Len(T[m].link) + 1 /\ StartsWith(T[id].link, T[m].link)

(* How far the file m has been read, and the lines of it that are flagged. *)
InCall(S, T, m) ==
  Len(T[m].link) \in 1 .. Len(S) /\ S[Len(T[m].link)].node = m

ReadTo(S, T, m) ==
  IF InCall(S, T, m) THEN S[Len(T[m].link)].pos ELSE Len(T[m].body)

Flags(S, T, m) ==
  IF InCall(S, T, m) THEN S[Len(T[m].link)].remove ELSE <<>>

Read(S, T, m, id) == Count(LinesTo(T[m].body, id), ReadTo(S, T, m))

Flagged(S, T, m, id) ==
  Count(FlagsFor(Flags(S, T, m), id), Len(Flags(S, T, m)))

(* Of the lines that lead from m to id, one has been read that is not      *)
(* flagged.                                                                *)
Lists(S, T, m, id) == Read(S, T, m, id) = Flagged(S, T, m, id) + 1

(* Otherwise all lines read are flagged.                                   *)
AtMostOnce(S, T) ==
  \A m \in DOMAIN T : Rooted(T, m) =>
    \A id \in Node : Lists(S, T, m, id) \/ Read(S, T, m, id) = Flagged(S, T, m, id)

(* No two files list a package.                                            *)
OneLister(S, T) ==
  \A m, k \in DOMAIN T : Rooted(T, m) /\ Rooted(T, k) =>
    \A id \in Node : Lists(S, T, m, id) /\ Lists(S, T, k, id) => m = k

(* The link of a package is that of the file that lists it, and one more   *)
(* position.                                                               *)
ListerAbove(S, T) ==
  \A m \in DOMAIN T : Rooted(T, m) =>
    \A id \in Node : Lists(S, T, m, id) =>
      id \in DOMAIN T /\ (T[id].link = <<>> \/ Child(T, m, id))

(* No two files have the same link.                                        *)
LinksDiffer(T) ==
  \A m, k \in DOMAIN T :
    /\ T[m].link # <<>> /\ Len(T[k].link) = Len(T[m].link)
    /\ StartsWith(T[m].link, T[k].link)
    => m = k

(* An emptied file has no link.                                            *)
FilesOK(T) ==
  /\ \A m \in DOMAIN T : T[m].body \in Lines
  /\ \A m \in DOMAIN T : T[m].link = <<>> => T[m].body = <<>>
  /\ Root \in DOMAIN T /\ Len(T[Root].link) <= 1

UniqueOK(S, T) ==
  /\ AtMostOnce(S, T) /\ OneLister(S, T) /\ ListerAbove(S, T)
  /\ LinksDiffer(T) /\ FilesOK(T)

(* Each call was made for a line that is not flagged.                      *)
CallsListed(S, T) ==
  /\ \A i \in 1 .. Len(S) : i < Len(S) => Lists(S, T, S[i].node, S[i + 1].node)
  /\ S # <<>> => S[1].node = Root

(* The links of the files are sequences, and only the empty one has no     *)
(* members.                                                                *)
LEMMA LinkTypes ==
  ASSUME NEW S, NEW T, TreeOK(S, T), NEW m \in DOMAIN T
  PROVE  /\ m \in Node /\ T[m].link \in Seq(Nat) /\ Len(T[m].link) \in Nat
         /\ T[m].link # <<>> <=> Len(T[m].link) > 0
         /\ T[m].link = <<>> => Len(T[m].link) = 0
<1>1. m \in Node /\ T[m].link \in Seq(Nat)
  BY DEF TreeOK
<1> DEFINE link == T[m].link
<1>2. link \in Seq(Nat)
  BY <1>1
<1> HIDE DEF link
<1>3. /\ Len(link) \in Nat /\ (link # <<>> <=> Len(link) > 0)
      /\ link = <<>> => Len(link) = 0
  BY <1>2
<1> QED
  BY <1>1, <1>3 DEF link

(* No more is read of a file than there is, and all counts are numbers.    *)
LEMMA CountTypes ==
  ASSUME NEW S, NEW T, TreeOK(S, T), FilesOK(T), NEW m \in DOMAIN T, NEW id
  PROVE  /\ ReadTo(S, T, m) \in Nat /\ ReadTo(S, T, m) <= Len(T[m].body)
         /\ Flags(S, T, m) \in Seq(Node)
         /\ Read(S, T, m, id) \in Nat /\ Flagged(S, T, m, id) \in Nat
<1>1. T[m].body \in Lines /\ Len(T[m].body) \in Nat
  <2>1. T[m].body \in Lines
    BY DEF FilesOK
  <2>2. \A file \in Lines : Len(file) \in Nat
    BY DEF Lines
  <2> QED
    BY <2>1, <2>2
<1>2. ReadTo(S, T, m) \in Nat /\ ReadTo(S, T, m) <= Len(T[m].body)
      /\ Flags(S, T, m) \in Seq(Node)
  <2>1. CASE InCall(S, T, m)
    <3> DEFINE i == Len(T[m].link)
    <3>1. i \in 1 .. Len(S) /\ S[i].node = m
      BY <2>1 DEF InCall
    <3>2. CallOK(S, T, i) /\ S[i] \in Frame
      BY <3>1, FrameTypes DEF TreeOK
    <3>3. S[i].pos \in Nat /\ S[i].remove \in Seq(Node) /\ S[i].pos <= Len(T[m].body)
      BY <3>1, <3>2 DEF CallOK, Frame
    <3> QED
      BY <2>1, <3>3 DEF ReadTo, Flags
  <2>2. CASE ~ InCall(S, T, m)
    <3>1. <<>> \in Seq(Node)
      OBVIOUS
    <3> QED
      BY <1>1, <2>2, <3>1 DEF ReadTo, Flags
  <2> QED
    BY <2>1, <2>2
<1>3. Len(Flags(S, T, m)) \in Nat
  BY <1>2
<1> QED
  BY <1>2, <1>3, CountStep DEF Read, Flagged

(* The files that calls are reading.                                       *)
LEMMA CallFacts ==
  ASSUME NEW S, NEW T, TreeOK(S, T), NEW i \in 1 .. Len(S)
  PROVE  LET m == S[i].node
         IN /\ m \in DOMAIN T /\ Len(T[m].link) = i
            /\ InCall(S, T, m) /\ Rooted(T, m)
            /\ ReadTo(S, T, m) = S[i].pos /\ Flags(S, T, m) = S[i].remove
<1> DEFINE m == S[i].node
<1>1. Len(S) \in Nat /\ i \in Nat
  BY FrameTypes DEF TreeOK
<1>2. \A l \in 1 .. Len(S) : /\ S[l].node \in DOMAIN T /\ Len(T[S[l].node].link) = l
                             /\ OnWay(S, l, T[S[l].node].link)
  BY DEF TreeOK, CallOK
<1>3. InCall(S, T, m)
  BY <1>2 DEF InCall
<1>4. T[m].link # <<>>
  BY <1>1, <1>2, LinkTypes
<1>5. ASSUME NEW l \in 1 .. i
      PROVE  StartsWith(T[m].link, T[S[l].node].link)
  <2>1. l \in 1 .. Len(S) /\ l <= i /\ \A k \in 1 .. l : k \in 1 .. i
    BY <1>1
  <2> QED
    BY <1>2, <2>1 DEF StartsWith, OnWay
<1>6. Rooted(T, m)
  <2>1. 1 .. i \subseteq 1 .. Len(S)
    BY <1>1
  <2> QED
    BY <1>2, <1>4, <1>5, <2>1 DEF Rooted
<1> QED
  BY <1>2, <1>3, <1>6 DEF ReadTo, Flags

(* No two calls read the same file.                                        *)
LEMMA CallsDiffer ==
  ASSUME NEW S, NEW T, TreeOK(S, T), NEW i \in 1 .. Len(S), NEW j \in 1 .. Len(S),
         S[i].node = S[j].node
  PROVE  i = j
BY CallFacts

(* Files were erased or emptied, and lines read, flagged or removed, such  *)
(* that no file lists more than before, or what was erased.                *)
LEMMA ListsLess ==
  ASSUME NEW S, NEW T, TreeOK(S, T), UniqueOK(S, T),
         NEW S2, NEW T2, TreeOK(S2, T2), FilesOK(T2),
         DOMAIN T2 \subseteq DOMAIN T,
         \A n \in DOMAIN T2 : T2[n].link \in {T[n].link, <<>>},
         \A m \in DOMAIN T2 : Rooted(T2, m) => \A id \in Node :
           /\ \/ Lists(S2, T2, m, id)
              \/ Read(S2, T2, m, id) = Flagged(S2, T2, m, id)
           /\ Lists(S2, T2, m, id) => Lists(S, T, m, id) /\ id \in DOMAIN T2
  PROVE  UniqueOK(S2, T2)
<1>1. ASSUME NEW m \in DOMAIN T2, T2[m].link # <<>>
      PROVE  m \in DOMAIN T /\ T2[m].link = T[m].link
  BY <1>1
<1>2. \A m \in DOMAIN T2 : m \in DOMAIN T /\ Len(T2[m].link) \in Nat
                           /\ (T2[m].link # <<>> <=> Len(T2[m].link) > 0)
  BY LinkTypes
<1>3. ASSUME NEW m \in DOMAIN T2, Rooted(T2, m)
      PROVE  Rooted(T, m) /\ T2[m].link = T[m].link
  <2>1. T2[m].link # <<>>
    BY <1>3 DEF Rooted
  <2>2. T2[m].link = T[m].link /\ T[m].link # <<>>
    BY <1>1, <2>1
  <2>3. ASSUME NEW l \in 1 .. Len(T[m].link)
        PROVE  \E n \in DOMAIN T : Len(T[n].link) = l /\ StartsWith(T[m].link, T[n].link)
    <3>1. PICK n \in DOMAIN T2 : Len(T2[n].link) = l /\ StartsWith(T2[m].link, T2[n].link)
      BY <1>3, <2>2 DEF Rooted
    <3>2. T2[n].link # <<>>
      BY <1>2, <3>1
    <3>3. n \in DOMAIN T /\ T2[n].link = T[n].link
      BY <1>1, <3>2
    <3> QED
      BY <2>2, <3>1, <3>3
  <2> QED
    BY <2>2, <2>3 DEF Rooted
<1>4. AtMostOnce(S2, T2)
  BY DEF AtMostOnce
<1>5. OneLister(S2, T2)
  BY <1>2, <1>3 DEF OneLister, UniqueOK
<1>6. ListerAbove(S2, T2)
  <2> SUFFICES ASSUME NEW m \in DOMAIN T2, Rooted(T2, m), NEW id \in Node,
                      Lists(S2, T2, m, id), T2[id].link # <<>>
               PROVE  id \in DOMAIN T2 /\ Child(T2, m, id)
    BY DEF ListerAbove
  <2>1. id \in DOMAIN T2 /\ Lists(S, T, m, id) /\ Rooted(T, m) /\ m \in DOMAIN T
    BY <1>2, <1>3
  <2>2. id \in DOMAIN T /\ T2[id].link = T[id].link
    BY <1>1, <2>1
  <2>3. Child(T, m, id)
    BY <2>1, <2>2 DEF UniqueOK, ListerAbove
  <2> QED
    BY <1>3, <2>1, <2>2, <2>3 DEF Child
<1>7. LinksDiffer(T2)
  <2> SUFFICES ASSUME NEW m \in DOMAIN T2, NEW k \in DOMAIN T2,
                      T2[m].link # <<>>, Len(T2[k].link) = Len(T2[m].link),
                      StartsWith(T2[m].link, T2[k].link)
               PROVE  m = k
    BY DEF LinksDiffer
  <2>1. T2[k].link # <<>>
    BY <1>2
  <2>2. /\ m \in DOMAIN T /\ T2[m].link = T[m].link
        /\ k \in DOMAIN T /\ T2[k].link = T[k].link
    BY <1>1, <2>1
  <2> QED
    BY <2>2 DEF UniqueOK, LinksDiffer
<1> QED
  BY <1>4, <1>5, <1>6, <1>7 DEF UniqueOK

(* A line was read and the file it leads to was added, which is empty or   *)
(* which a new call reads: no file with a longer link was left there.      *)
LEMMA NothingBelow ==
  ASSUME NEW S, NEW T, TreeOK(S, T), S # <<>>, NEW last, last = S[Len(S)],
         NEW m \in DOMAIN T, NEW link \in Seq(Nat),
         link = Append(T[last.node].link, last.pos + 1)
  PROVE  ~ StartsWith(T[m].link, link)
<1> SUFFICES ASSUME StartsWith(T[m].link, link) PROVE FALSE
  OBVIOUS
<1>1. PICK d : d \in Nat /\ d = Len(S) /\ d > 0 /\ d \in 1 .. d
  BY FrameTypes DEF TreeOK
<1>2. /\ last.node \in DOMAIN T /\ Len(T[last.node].link) = d
      /\ OnWay(S, d, T[last.node].link) /\ T[last.node].link \in Seq(Nat)
      /\ last.pos \in Nat
  <2>1. CallOK(S, T, d) /\ S[d].pos \in Nat
    BY <1>1, FrameTypes DEF TreeOK
  <2>2. last.node \in DOMAIN T /\ Len(T[last.node].link) = d
    BY <1>1, <2>1 DEF CallOK
  <2> QED
    BY <1>1, <2>1, <2>2 DEF CallOK, TreeOK
<1>3. /\ Len(link) = d + 1 /\ link[d + 1] = last.pos + 1
      /\ \A k \in 1 .. d : link[k] = Way(S, k)
  <2> DEFINE top == T[last.node].link
             x == last.pos + 1
  <2>1. top \in Seq(Nat) /\ x \in Nat /\ Len(top) = d /\ link = Append(top, x)
    BY <1>2
  <2> HIDE DEF top, x
  <2>2. /\ Len(Append(top, x)) = d + 1 /\ Append(top, x)[d + 1] = x
        /\ \A k \in 1 .. d : Append(top, x)[k] = top[k]
    BY <2>1, AppendFacts
  <2>3. Len(link) = d + 1 /\ link[d + 1] = x /\ \A k \in 1 .. d : link[k] = top[k]
    BY <2>1, <2>2, Zenon
  <2> QED
    BY <1>2, <2>3 DEF top, x, OnWay
<1> DEFINE old == T[m].link
<1>4. old \in Seq(Nat) /\ Len(old) \in Nat
  BY LinkTypes
<1>5. /\ Len(old) >= d + 1 /\ old[d + 1] = last.pos + 1
      /\ \A k \in 1 .. d : old[k] = Way(S, k)
  <2>1. d + 1 \in 1 .. Len(link) /\ \A k \in 1 .. d : k \in 1 .. Len(link)
    BY <1>1, <1>3
  <2>2. Len(link) <= Len(old) /\ \A k \in 1 .. Len(link) : old[k] = link[k]
    BY DEF StartsWith
  <2> QED
    BY <1>1, <1>3, <1>4, <2>1, <2>2
<1>6. ClosedOK(S, T, m) /\ old # <<>>
  <2>1. old # <<>>
    BY <1>1, <1>4, <1>5
  <2> QED
    BY <2>1 DEF TreeOK
<1>7. ASSUME NEW i \in 1 .. d, S[i].node = m
      PROVE  FALSE
  <2>1. Len(old) = i
    BY <1>1, <1>7, CallFacts
  <2> QED
    BY <1>1, <1>5, <2>1
<1>8. ASSUME NEW i \in 1 .. d, LeavesAt(S, i, old)
      PROVE  FALSE
  <2>1. CASE i = d
    <3>1. old[d + 1] <= S[d].pos
      BY <1>1, <1>2, <1>5, <1>8, <2>1 DEF LeavesAt
    <3> QED
      BY <1>1, <1>2, <1>5, <3>1
  <2>2. CASE i # d
    <3>1. i + 1 \in 1 .. d /\ i + 1 # 1 /\ (i + 1) - 1 = i
      BY <1>1, <2>2
    <3>2. old[i + 1] = Way(S, i + 1)
      BY <1>5, <3>1
    <3>3. old[i + 1] = S[i].pos
      BY <3>1, <3>2 DEF Way
    <3>4. S[i].pos \in Nat
      BY <1>1, FrameTypes DEF TreeOK
    <3> QED
      BY <1>1, <1>8, <2>2, <3>3, <3>4 DEF LeavesAt
  <2> QED
    BY <2>1, <2>2
<1> QED
  BY <1>1, <1>6, <1>7, <1>8 DEF ClosedOK

(* The call in progress reads a line to n, and the link of n continues its *)
(* own; the calls S2 are one line further, and read the file of n if it is *)
(* not empty.                                                              *)
NextLine(S, T, n) ==
  LET last == S[Len(S)]
  IN last.pos < Len(T[last.node].body) /\ n = T[last.node].body[last.pos + 1].id

LineTo(S, T, n, file) ==
  LET last == S[Len(S)]
  IN /\ NextLine(S, T, n)
     /\ file.link \in Seq(Nat) /\ file.body \in Lines
     /\ file.link = Append(T[last.node].link, last.pos + 1)

ReadOn(S, S2) ==
  \A i \in 1 .. Len(S) :
    /\ S2[i].node = S[i].node /\ S2[i].remove = S[i].remove
    /\ S2[i].pos = IF i = Len(S) THEN S[i].pos + 1 ELSE S[i].pos

Entered(S, S2, n, file) ==
  \/ Len(S2) = Len(S) /\ file.body = <<>>
  \/ /\ Len(S2) = Len(S) + 1 /\ S2[Len(S) + 1].node = n
     /\ S2[Len(S) + 1].pos = 0 /\ S2[Len(S) + 1].remove = <<>>

(* The files of M are read as far as before, and the files left list the   *)
(* same of the packages left.                                              *)
StillRead(S, T, S2, T2, M) == \A m \in M : ReadTo(S2, T2, m) = ReadTo(S, T, m)

ListsKept(S, T, S2, T2) ==
  \A m \in DOMAIN T \cap DOMAIN T2 : Rooted(T2, m) =>
    \A id \in DOMAIN T2 : Lists(S, T, m, id) => Lists(S2, T2, m, id)

(* The file lists the new one, which lists nothing yet, and the other      *)
(* files what they did.                                                    *)
LEMMA NewFile ==
  ASSUME NEW S, NEW T, TreeOK(S, T), UniqueOK(S, T), S # <<>>,
         NEW n \in Node, n \notin DOMAIN T, NEW file, LineTo(S, T, n, file),
         NEW S2, TreeOK(S2, Put(T, n, file)), ReadOn(S, S2), Entered(S, S2, n, file)
  PROVE  /\ UniqueOK(S2, Put(T, n, file))
         /\ Lists(S2, Put(T, n, file), S[Len(S)].node, n)
         /\ \A m \in DOMAIN T, id \in Node :
              Lists(S, T, m, id) => Lists(S2, Put(T, n, file), m, id)
         /\ StillRead(S, T, S2, Put(T, n, file), DOMAIN T \ {S[Len(S)].node})
<1> DEFINE T2 == Put(T, n, file)
           last == S[Len(S)]
           top == last.node
<1>1. /\ DOMAIN T2 = DOMAIN T \cup {n} /\ T2[n] = file
      /\ \A m \in DOMAIN T : T2[m] = T[m] /\ m # n
  BY DEF Put
<1>2. TreeOK(S2, T2)
  OBVIOUS
<1> HIDE DEF T2
<1>3. PICK d : d \in Nat /\ d = Len(S) /\ d > 0 /\ d \in 1 .. d
  <2>1. S \in Seq(Frame)
    BY DEF TreeOK
  <2>2. Len(S) \in Nat /\ Len(S) > 0
    BY <2>1, FrameTypes
  <2> QED
    BY <2>2
<1>4. top \in DOMAIN T /\ Len(T[top].link) = d /\ last.pos \in Nat /\ Rooted(T, top)
  <2>1. S \in Seq(Frame)
    BY DEF TreeOK
  <2>2. S[d].pos \in Nat
    BY <1>3, <2>1, FrameTypes
  <2> QED
    BY <1>3, <2>2, CallFacts
<1>a. /\ last.pos < Len(T[top].body) /\ n = T[top].body[last.pos + 1].id
      /\ file.link \in Seq(Nat) /\ file.body \in Lines
      /\ file.link = Append(T[top].link, last.pos + 1)
  BY DEF LineTo, NextLine
<1>b. \A i \in 1 .. d :
        /\ S2[i].node = S[i].node /\ S2[i].remove = S[i].remove
        /\ S2[i].pos = IF i = d THEN S[i].pos + 1 ELSE S[i].pos
  BY <1>3 DEF ReadOn
<1>c. \/ Len(S2) = d /\ file.body = <<>>
      \/ /\ Len(S2) = d + 1 /\ S2[d + 1].node = n
         /\ S2[d + 1].pos = 0 /\ S2[d + 1].remove = <<>>
  BY <1>3 DEF Entered
<1>d. S[d] = last
  BY <1>3
<1> HIDE DEF last
<1>5. /\ Len(file.link) = d + 1
      /\ \A k \in 1 .. d : file.link[k] = T[top].link[k]
  <2> DEFINE link == T[top].link
             x == last.pos + 1
  <2>1. link \in Seq(Nat) /\ x \in Nat /\ Len(link) = d /\ file.link = Append(link, x)
    BY <1>4, <1>a, LinkTypes
  <2> HIDE DEF link, x
  <2>2. /\ Len(Append(link, x)) = d + 1
        /\ \A k \in 1 .. d : Append(link, x)[k] = link[k]
    BY <2>1, AppendFacts
  <2>3. Len(file.link) = d + 1 /\ \A k \in 1 .. d : file.link[k] = link[k]
    BY <2>1, <2>2, Zenon
  <2> QED
    BY <2>3 DEF link
<1>6. \A m \in DOMAIN T : ~ StartsWith(T[m].link, file.link)
  BY <1>a, NothingBelow DEF last
<1>7. FilesOK(T2)
  <2>1. file.link # <<>>
    BY <1>3, <1>5
  <2> QED
    BY <1>1, <1>a, <2>1 DEF UniqueOK, FilesOK
<1>8. ASSUME NEW m \in DOMAIN T
      PROVE  /\ InCall(S2, T2, m) <=> InCall(S, T, m)
             /\ InCall(S, T, m) => m = S[Len(T[m].link)].node
                                   /\ Len(T[m].link) \in 1 .. d
  <2>1. T2[m].link = T[m].link /\ Len(T[m].link) \in Nat /\ m # n
    BY <1>1, LinkTypes
  <2>2. Len(S2) = d \/ (Len(S2) = d + 1 /\ S2[d + 1].node = n)
    BY <1>c
  <2>3. ASSUME InCall(S2, T2, m) PROVE InCall(S, T, m)
    <3>1. Len(T[m].link) \in 1 .. Len(S2) /\ S2[Len(T[m].link)].node = m
      BY <2>1, <2>3 DEF InCall
    <3>2. Len(T[m].link) # d + 1
      BY <1>3, <2>1, <2>2, <3>1
    <3>3. Len(T[m].link) \in 1 .. d
      BY <1>3, <2>1, <2>2, <3>1, <3>2
    <3> QED
      BY <1>3, <1>b, <3>1, <3>3 DEF InCall
  <2>4. ASSUME InCall(S, T, m) PROVE InCall(S2, T2, m)
    <3>1. Len(T[m].link) \in 1 .. d /\ S[Len(T[m].link)].node = m
      BY <1>3, <2>4 DEF InCall
    <3>2. Len(T[m].link) \in 1 .. Len(S2)
      BY <1>3, <2>2, <3>1
    <3> QED
      BY <1>3, <1>b, <2>1, <3>1, <3>2 DEF InCall
  <2> QED
    BY <1>3, <2>3, <2>4 DEF InCall
<1>9. ASSUME NEW m \in DOMAIN T
      PROVE  /\ ReadTo(S2, T2, m) = IF m = top THEN ReadTo(S, T, m) + 1 ELSE ReadTo(S, T, m)
             /\ Flags(S2, T2, m) = Flags(S, T, m)
             /\ m = top => ReadTo(S, T, m) = last.pos
  <2>1. T2[m] = T[m]
    BY <1>1
  <2>2. CASE InCall(S, T, m)
    <3> DEFINE i == Len(T[m].link)
    <3>1. i \in 1 .. d /\ S[i].node = m /\ InCall(S2, T2, m)
      BY <1>8, <2>2
    <3>2. i = d <=> m = top
      BY <1>3, <1>4, <1>d, <3>1
    <3> QED
      BY <1>3, <1>b, <1>d, <2>1, <2>2, <3>1, <3>2 DEF ReadTo, Flags
  <2>3. CASE ~ InCall(S, T, m)
    <3>1. m # top
      BY <1>3, <1>d, <2>3, CallFacts
    <3> QED
      BY <1>8, <2>1, <2>3, <3>1 DEF ReadTo, Flags
  <2> QED
    BY <2>2, <2>3
<1>10. ASSUME NEW m \in DOMAIN T, NEW id \in Node
       PROVE  /\ Read(S2, T2, m, id) = IF m = top /\ id = n THEN Read(S, T, m, id) + 1
                                       ELSE Read(S, T, m, id)
              /\ Flagged(S2, T2, m, id) = Flagged(S, T, m, id)
              /\ Read(S, T, m, id) \in Nat /\ Flagged(S, T, m, id) \in Nat
  <2>1. /\ Read(S, T, m, id) \in Nat /\ Flagged(S, T, m, id) \in Nat
        /\ ReadTo(S, T, m) \in Nat
    BY CountTypes DEF UniqueOK
  <2>2. T2[m] = T[m]
    BY <1>1
  <2>3. Flagged(S2, T2, m, id) = Flagged(S, T, m, id)
    BY <1>9 DEF Flagged
  <2> DEFINE A == LinesTo(T[m].body, id)
  <2>4. ASSUME m = top
        PROVE  Read(S2, T2, m, id) = IF id = n THEN Read(S, T, m, id) + 1
                                     ELSE Read(S, T, m, id)
    <3>1. ReadTo(S2, T2, m) = last.pos + 1 /\ ReadTo(S, T, m) = last.pos
      BY <1>9, <2>4
    <3>2. last.pos + 1 \in A <=> id = n
      <4>1. last.pos + 1 \in 1 .. Len(T[m].body)
        <5>1. T[m].body \in Lines
          BY DEF UniqueOK, FilesOK
        <5>2. \A f \in Lines : Len(f) \in Nat
          BY DEF Lines
        <5> QED
          BY <1>4, <1>a, <2>4, <5>1, <5>2
      <4> QED
        BY <1>a, <2>4, <4>1 DEF LinesTo
    <3>3. Count(A, last.pos + 1)
            = IF last.pos + 1 \in A THEN Count(A, last.pos) + 1 ELSE Count(A, last.pos)
      BY <1>4, CountStep
    <3> HIDE DEF A
    <3>4. Read(S2, T2, m, id) = Count(A, last.pos + 1) /\ Read(S, T, m, id) = Count(A, last.pos)
      BY <2>2, <3>1 DEF Read, A
    <3> QED
      BY <3>2, <3>3, <3>4
  <2>5. ASSUME m # top PROVE Read(S2, T2, m, id) = Read(S, T, m, id)
    BY <1>9, <2>2, <2>5 DEF Read
  <2> QED
    BY <2>1, <2>3, <2>4, <2>5
<1>11. ASSUME NEW id
       PROVE  Read(S2, T2, n, id) = 0 /\ Flagged(S2, T2, n, id) = 0
  <2>1. ReadTo(S2, T2, n) = 0 /\ Flags(S2, T2, n) = <<>>
    <3>1. CASE Len(S2) = d
      <4>1. ~ InCall(S2, T2, n)
        BY <1>1, <1>3, <1>5, <3>1 DEF InCall
      <4>2. file.body = <<>> /\ Len(<<>>) = 0
        BY <1>3, <1>c, <3>1
      <4> QED
        BY <1>1, <4>1, <4>2 DEF ReadTo, Flags
    <3>2. CASE Len(S2) = d + 1
      <4>1. /\ S2[d + 1].node = n /\ S2[d + 1].pos = 0 /\ S2[d + 1].remove = <<>>
            /\ d + 1 \in 1 .. Len(S2) /\ Len(T2[n].link) = d + 1
        BY <1>1, <1>3, <1>5, <1>c, <3>2
      <4>2. InCall(S2, T2, n)
        BY <4>1 DEF InCall
      <4> QED
        BY <4>1, <4>2 DEF ReadTo, Flags
    <3> QED
      BY <1>c, <3>1, <3>2
  <2>2. Len(<<>>) = 0
    OBVIOUS
  <2> QED
    BY <2>1, <2>2, CountStep DEF Read, Flagged
<1>12. ASSUME NEW m \in DOMAIN T, Rooted(T2, m)
       PROVE  Rooted(T, m)
  <2>1. T2[m].link = T[m].link /\ T[m].link # <<>>
    BY <1>1, <1>12 DEF Rooted
  <2>2. ASSUME NEW l \in 1 .. Len(T[m].link)
        PROVE  \E k \in DOMAIN T : Len(T[k].link) = l /\ StartsWith(T[m].link, T[k].link)
    <3>1. PICK k \in DOMAIN T2 : Len(T2[k].link) = l /\ StartsWith(T2[m].link, T2[k].link)
      BY <1>12, <2>1 DEF Rooted
    <3>2. k # n
      BY <1>1, <1>6, <2>1, <3>1
    <3> QED
      BY <1>1, <2>1, <3>1, <3>2
  <2> QED
    BY <2>1, <2>2 DEF Rooted
<1>13. ASSUME NEW m \in DOMAIN T, Rooted(T, m)
       PROVE  ~ Lists(S, T, m, n)
  BY <1>13 DEF UniqueOK, ListerAbove
<1>14. ASSUME NEW m \in DOMAIN T2, Rooted(T2, m), NEW id \in Node
       PROVE  /\ Lists(S2, T2, m, id) \/ Read(S2, T2, m, id) = Flagged(S2, T2, m, id)
              /\ Lists(S2, T2, m, id) =>
                   /\ m \in DOMAIN T /\ Rooted(T, m)
                   /\ IF id = n THEN m = top ELSE Lists(S, T, m, id)
  <2>1. CASE m = n
    BY <1>11, <2>1 DEF Lists
  <2>2. CASE m # n
    <3>1. m \in DOMAIN T /\ Rooted(T, m)
      BY <1>1, <1>12, <1>14, <2>2
    <3>2. Lists(S, T, m, id) \/ Read(S, T, m, id) = Flagged(S, T, m, id)
      BY <3>1 DEF UniqueOK, AtMostOnce
    <3>3. id = n => ~ Lists(S, T, m, id)
      BY <1>13, <3>1
    <3> QED
      BY <1>10, <3>1, <3>2, <3>3 DEF Lists
  <2> QED
    BY <2>1, <2>2
<1>15. AtMostOnce(S2, T2)
  BY <1>14 DEF AtMostOnce
<1>16. OneLister(S2, T2)
  <2> SUFFICES ASSUME NEW m \in DOMAIN T2, NEW k \in DOMAIN T2, Rooted(T2, m), Rooted(T2, k),
                      NEW id \in Node, Lists(S2, T2, m, id), Lists(S2, T2, k, id)
               PROVE  m = k
    BY DEF OneLister
  <2> QED
    BY <1>14 DEF UniqueOK, OneLister
<1>17. ListerAbove(S2, T2)
  <2> SUFFICES ASSUME NEW m \in DOMAIN T2, Rooted(T2, m), NEW id \in Node,
                      Lists(S2, T2, m, id)
               PROVE  id \in DOMAIN T2 /\ (T2[id].link = <<>> \/ Child(T2, m, id))
    BY DEF ListerAbove
  <2>1. m \in DOMAIN T /\ Rooted(T, m) /\ IF id = n THEN m = top ELSE Lists(S, T, m, id)
    BY <1>14
  <2>2. CASE id = n
    <3>1. Child(T2, m, n)
      BY <1>1, <1>3, <1>4, <1>5, <2>1, <2>2 DEF Child, StartsWith
    <3> QED
      BY <1>1, <2>2, <3>1
  <2>3. CASE id # n
    <3>1. id \in DOMAIN T /\ (T[id].link = <<>> \/ Child(T, m, id))
      BY <2>1, <2>3 DEF UniqueOK, ListerAbove
    <3> QED
      BY <1>1, <2>1, <3>1 DEF Child
  <2> QED
    BY <2>2, <2>3
<1>18. LinksDiffer(T2)
  <2> SUFFICES ASSUME NEW m \in DOMAIN T2, NEW k \in DOMAIN T2,
                      T2[m].link # <<>>, Len(T2[k].link) = Len(T2[m].link),
                      StartsWith(T2[m].link, T2[k].link)
               PROVE  m = k
    BY DEF LinksDiffer
  <2>1. CASE m \in DOMAIN T /\ k \in DOMAIN T
    BY <1>1, <2>1 DEF UniqueOK, LinksDiffer
  <2>2. CASE m = n /\ k \in DOMAIN T
    <3>1. /\ \A j \in 1 .. Len(file.link) : file.link[j] = T[k].link[j]
          /\ Len(T[k].link) = Len(file.link)
      BY <1>1, <2>2 DEF StartsWith
    <3>2. StartsWith(T[k].link, file.link)
      BY <1>3, <1>5, <3>1 DEF StartsWith
    <3> QED
      BY <1>6, <2>2, <3>2
  <2>3. CASE k = n /\ m \in DOMAIN T
    BY <1>1, <1>6, <2>3
  <2> QED
    BY <1>1, <2>1, <2>2, <2>3
<1>19. Lists(S2, T2, top, n)
  <2>1. Read(S, T, top, n) = Flagged(S, T, top, n)
    BY <1>4, <1>13 DEF UniqueOK, AtMostOnce
  <2> QED
    BY <1>4, <1>10, <2>1 DEF Lists
<1>20. \A m \in DOMAIN T, id \in Node : Lists(S, T, m, id) => Lists(S2, T2, m, id)
  <2> SUFFICES ASSUME NEW m \in DOMAIN T, NEW id \in Node, Lists(S, T, m, id)
               PROVE  Lists(S2, T2, m, id)
    OBVIOUS
  <2>1. ~ (m = top /\ id = n)
    BY <1>4, <1>13
  <2> QED
    BY <1>10, <2>1 DEF Lists
<1>21. StillRead(S, T, S2, T2, DOMAIN T \ {top})
  BY <1>9 DEF StillRead
<1> QED
  BY <1>7, <1>15, <1>16, <1>17, <1>18, <1>19, <1>20, <1>21 DEF UniqueOK, T2, last

(* One more flag counts for its package only.                              *)
LEMMA OneMoreFlag ==
  ASSUME NEW ids \in Seq(Node), NEW x \in Node, NEW id
  PROVE  LET more == Append(ids, x)
         IN Count(FlagsFor(more, id), Len(more))
              = Count(FlagsFor(ids, id), Len(ids)) + IF x = id THEN 1 ELSE 0
<1> DEFINE more == Append(ids, x)
           n == Len(ids)
           A == FlagsFor(ids, id)
           B == FlagsFor(more, id)
<1>1. /\ n \in Nat /\ Len(more) = n + 1 /\ more[n + 1] = x
      /\ \A k \in 1 .. n : more[k] = ids[k]
  OBVIOUS
<1> HIDE DEF more, n
<1>2. \A k \in 1 .. n : k \in A <=> k \in B
  BY <1>1 DEF FlagsFor, n
<1>3. n + 1 \in B <=> x = id
  BY <1>1 DEF FlagsFor
<1> HIDE DEF A, B
<1>4. Count(B, n) = Count(A, n)
  BY <1>1, <1>2, SameCount
<1>5. Count(B, n + 1) = (IF n + 1 \in B THEN Count(B, n) + 1 ELSE Count(B, n))
      /\ Count(B, n) \in Nat
  BY <1>1, CountStep
<1>6. Count(B, n + 1) = Count(A, n) + IF x = id THEN 1 ELSE 0
  BY <1>3, <1>4, <1>5
<1> QED
  BY <1>1, <1>6 DEF more, n, A, B

(* A line is read and flagged.                                             *)
FlaggedOn(S, S2, id) ==
  /\ Len(S2) = Len(S)
  /\ \A i \in 1 .. Len(S) :
       /\ S2[i].node = S[i].node
       /\ S2[i].pos = IF i = Len(S) THEN S[i].pos + 1 ELSE S[i].pos
       /\ S2[i].remove = IF i = Len(S) THEN Append(S[i].remove, id) ELSE S[i].remove

(* A line that is read and flagged at once changes nothing in what files   *)
(* list.                                                                   *)
LEMMA ReadAndFlagged ==
  ASSUME NEW S, NEW T, TreeOK(S, T), UniqueOK(S, T), CallsListed(S, T), S # <<>>,
         NEW n \in Node, NextLine(S, T, n),
         NEW S2, TreeOK(S2, T), FlaggedOn(S, S2, n)
  PROVE  /\ UniqueOK(S2, T) /\ CallsListed(S2, T)
         /\ ListsKept(S, T, S2, T)
         /\ StillRead(S, T, S2, T, DOMAIN T \ {S[Len(S)].node})
<1> DEFINE last == S[Len(S)]
           top == last.node
<1>0. last.pos < Len(T[top].body) /\ n = T[top].body[last.pos + 1].id
  BY DEF NextLine
<1>1. S \in Seq(Frame)
  BY DEF TreeOK
<1>2. PICK d : d \in Nat /\ d = Len(S) /\ d > 0 /\ d \in 1 .. d
  <2>1. Len(S) \in Nat /\ Len(S) > 0
    BY <1>1, FrameTypes
  <2> QED
    BY <2>1
<1>3. /\ Len(S2) = d
      /\ \A i \in 1 .. d :
           /\ S2[i].node = S[i].node
           /\ S2[i].pos = IF i = d THEN S[i].pos + 1 ELSE S[i].pos
           /\ S2[i].remove = IF i = d THEN Append(S[i].remove, n) ELSE S[i].remove
  BY <1>2 DEF FlaggedOn
<1>4. /\ top \in DOMAIN T /\ Len(T[top].link) = d /\ last.pos \in Nat
      /\ last.remove \in Seq(Node) /\ S[d] = last
  <2>1. S[d].pos \in Nat /\ S[d] \in Frame
    BY <1>1, <1>2, FrameTypes
  <2>2. S[d].node \in DOMAIN T /\ Len(T[S[d].node].link) = d
    BY <1>2, CallFacts
  <2>3. S[d] = last /\ S[d].remove \in Seq(Node)
    BY <1>2, <2>1 DEF Frame
  <2> QED
    BY <2>1, <2>2, <2>3
<1> HIDE DEF last
<1>5. \A i, j \in 1 .. d : S[i].node = S[j].node => i = j
  BY <1>2, CallsDiffer
<1>6. ASSUME NEW m \in DOMAIN T
      PROVE  /\ m # top => ReadTo(S2, T, m) = ReadTo(S, T, m) /\ Flags(S2, T, m) = Flags(S, T, m)
             /\ m = top => /\ ReadTo(S, T, m) = last.pos /\ ReadTo(S2, T, m) = last.pos + 1
                           /\ Flags(S, T, m) = last.remove
                           /\ Flags(S2, T, m) = Append(last.remove, n)
  <2>1. InCall(S2, T, m) <=> InCall(S, T, m)
    BY <1>2, <1>3 DEF InCall
  <2>2. CASE m = top
    <3>1. InCall(S, T, m)
      BY <1>2, <1>4, <2>2 DEF InCall
    <3> QED
      BY <1>2, <1>3, <1>4, <2>1, <2>2, <3>1 DEF ReadTo, Flags
  <2>3. CASE m # top /\ InCall(S, T, m)
    <3>1. Len(T[m].link) \in 1 .. d /\ S[Len(T[m].link)].node = m
      BY <1>2, <2>3 DEF InCall
    <3>2. Len(T[m].link) # d
      BY <1>4, <2>3, <3>1
    <3> QED
      BY <1>3, <2>1, <2>3, <3>1, <3>2 DEF ReadTo, Flags
  <2>4. CASE ~ InCall(S, T, m)
    <3>1. m # top
      BY <1>2, <1>4, <2>4 DEF InCall
    <3> QED
      BY <2>1, <2>4, <3>1 DEF ReadTo, Flags
  <2> QED
    BY <2>2, <2>3, <2>4
<1>7. ASSUME NEW m \in DOMAIN T, NEW id \in Node
      PROVE  \/ /\ Read(S2, T, m, id) = Read(S, T, m, id)
                /\ Flagged(S2, T, m, id) = Flagged(S, T, m, id)
             \/ /\ Read(S2, T, m, id) = Read(S, T, m, id) + 1
                /\ Flagged(S2, T, m, id) = Flagged(S, T, m, id) + 1
  <2>1. CASE m # top
    BY <1>6, <2>1 DEF Read, Flagged
  <2>2. CASE m = top
    <3> DEFINE A == LinesTo(T[m].body, id)
               more == Append(last.remove, n)
    <3>1. last.pos + 1 \in A <=> id = n
      <4>1. T[m].body \in Lines
        BY DEF UniqueOK, FilesOK
      <4>2. \A f \in Lines : Len(f) \in Nat
        BY DEF Lines
      <4>3. last.pos + 1 \in 1 .. Len(T[m].body)
        BY <1>0, <1>4, <2>2, <4>1, <4>2
      <4> QED
        BY <1>0, <2>2, <4>3 DEF LinesTo
    <3>2. Count(A, last.pos + 1)
            = IF last.pos + 1 \in A THEN Count(A, last.pos) + 1 ELSE Count(A, last.pos)
      BY <1>4, CountStep
    <3>3. Read(S2, T, m, id) = Count(A, last.pos + 1) /\ Read(S, T, m, id) = Count(A, last.pos)
      BY <1>6, <2>2 DEF Read
    <3>4. Count(FlagsFor(more, id), Len(more))
            = Count(FlagsFor(last.remove, id), Len(last.remove)) + IF n = id THEN 1 ELSE 0
      BY <1>4, OneMoreFlag
    <3>5. /\ Flagged(S2, T, m, id) = Count(FlagsFor(more, id), Len(more))
          /\ Flagged(S, T, m, id) = Count(FlagsFor(last.remove, id), Len(last.remove))
      BY <1>6, <2>2 DEF Flagged
    <3>6. Flagged(S, T, m, id) \in Nat
      BY CountTypes DEF UniqueOK
    <3> HIDE DEF A, more
    <3> QED
      BY <3>1, <3>2, <3>3, <3>4, <3>5, <3>6
  <2> QED
    BY <2>1, <2>2
<1>8. ASSUME NEW m \in DOMAIN T, NEW id \in Node
      PROVE  /\ Lists(S2, T, m, id) <=> Lists(S, T, m, id)
             /\ (Read(S2, T, m, id) = Flagged(S2, T, m, id))
                  <=> (Read(S, T, m, id) = Flagged(S, T, m, id))
  <2>1. Read(S, T, m, id) \in Nat /\ Flagged(S, T, m, id) \in Nat
    BY CountTypes DEF UniqueOK
  <2> QED
    BY <1>7, <2>1 DEF Lists
<1>9. UniqueOK(S2, T)
  <2>1. FilesOK(T)
    BY DEF UniqueOK
  <2>2. ASSUME NEW m \in DOMAIN T, Rooted(T, m), NEW id \in Node
        PROVE  /\ Lists(S2, T, m, id) \/ Read(S2, T, m, id) = Flagged(S2, T, m, id)
               /\ Lists(S2, T, m, id) => Lists(S, T, m, id) /\ id \in DOMAIN T
    <3>1. Lists(S, T, m, id) \/ Read(S, T, m, id) = Flagged(S, T, m, id)
      BY <2>2 DEF UniqueOK, AtMostOnce
    <3>2. Lists(S, T, m, id) => id \in DOMAIN T
      BY <2>2 DEF UniqueOK, ListerAbove
    <3> QED
      BY <1>8, <3>1, <3>2
  <2> QED
    BY <2>1, <2>2, ListsLess
<1>10. CallsListed(S2, T)
  <2>1. ASSUME NEW i \in 1 .. d, i < d
        PROVE  Lists(S2, T, S2[i].node, S2[i + 1].node)
    <3>1. i + 1 \in 1 .. d
      BY <1>2, <2>1
    <3>2. S2[i].node = S[i].node /\ S2[i + 1].node = S[i + 1].node
      BY <1>3, <3>1
    <3>3. Lists(S, T, S[i].node, S[i + 1].node)
      BY <1>2, <2>1 DEF CallsListed
    <3>4. S[i].node \in DOMAIN T /\ S[i + 1].node \in Node
      BY <1>1, <1>2, <3>1, CallFacts, FrameTypes
    <3> QED
      BY <1>8, <3>2, <3>3, <3>4
  <2>2. S2[1].node = Root
    <3>1. 1 \in 1 .. d
      BY <1>2
    <3> QED
      BY <1>3, <3>1 DEF CallsListed
  <2> QED
    BY <1>3, <2>1, <2>2 DEF CallsListed
<1>11. ListsKept(S, T, S2, T)
  <2>1. DOMAIN T \subseteq Node
    BY DEF TreeOK
  <2> QED
    BY <1>8, <2>1 DEF ListsKept
<1>12. StillRead(S, T, S2, T, DOMAIN T \ {top})
  BY <1>6 DEF StillRead
<1> QED
  BY <1>9, <1>10, <1>11, <1>12 DEF last

(* The last call ends: the flags are applied, or the file is emptied.      *)
FlagsApplied(S, T, T2) ==
  LET last == S[Len(S)]
      file == T[last.node]
      new == T2[last.node]
  IN /\ ~ last.pos < Len(file.body)
     /\ DOMAIN T2 = DOMAIN T
     /\ \A n \in DOMAIN T : n # last.node => T2[n] = T[n]
     /\ \/ new.link = <<>> /\ new.body = <<>>
        \/ /\ ~ Emptied(file.body, last.remove)
           /\ new.link = file.link /\ new.body = Removed(file.body, last.remove)

(* A file lists the same after its flags were applied; an emptied one      *)
(* lists nothing.                                                          *)
LEMMA CallEnded ==
  ASSUME NEW S, NEW T, TreeOK(S, T), UniqueOK(S, T), CallsListed(S, T), S # <<>>,
         NEW T2, FlagsApplied(S, T, T2), TreeOK(Front(S), T2)
  PROVE  /\ UniqueOK(Front(S), T2) /\ CallsListed(Front(S), T2)
         /\ ListsKept(S, T, Front(S), T2)
         /\ StillRead(S, T, Front(S), T2, DOMAIN T \ {S[Len(S)].node})
<1> DEFINE last == S[Len(S)]
           top == last.node
           S2 == Front(S)
<1>0. /\ ~ last.pos < Len(T[top].body) /\ DOMAIN T2 = DOMAIN T
      /\ \A n \in DOMAIN T : n # top => T2[n] = T[n]
      /\ \/ T2[top].link = <<>> /\ T2[top].body = <<>>
         \/ /\ ~ Emptied(T[top].body, last.remove) /\ T2[top].link = T[top].link
            /\ T2[top].body = Removed(T[top].body, last.remove)
  BY DEF FlagsApplied
<1>1. S \in Seq(Frame)
  BY DEF TreeOK
<1>2. PICK d : d \in Nat /\ d = Len(S) /\ d > 0 /\ d \in 1 .. d
  <2>1. Len(S) \in Nat /\ Len(S) > 0
    BY <1>1, FrameTypes
  <2> QED
    BY <2>1
<1>3. Len(S2) = d - 1 /\ \A i \in 1 .. d - 1 : S2[i] = S[i] /\ i \in 1 .. d
  BY <1>1, <1>2 DEF Front
<1>4. /\ top \in DOMAIN T /\ Len(T[top].link) = d /\ last.pos \in Nat
      /\ last.remove \in Seq(Node) /\ S[d] = last /\ Rooted(T, top)
      /\ ReadTo(S, T, top) = last.pos /\ Flags(S, T, top) = last.remove
  <2>1. S[d].pos \in Nat /\ S[d] \in Frame
    BY <1>1, <1>2, FrameTypes
  <2>2. /\ S[d].node \in DOMAIN T /\ Len(T[S[d].node].link) = d /\ Rooted(T, S[d].node)
        /\ ReadTo(S, T, S[d].node) = S[d].pos /\ Flags(S, T, S[d].node) = S[d].remove
    BY <1>2, CallFacts
  <2>3. S[d] = last /\ S[d].remove \in Seq(Node)
    BY <1>2, <2>1 DEF Frame
  <2> QED
    BY <2>1, <2>2, <2>3
<1>5. T[top].body \in Lines /\ Len(T[top].body) \in Nat /\ last.pos = Len(T[top].body)
  <2>1. T[top].body \in Lines
    BY <1>4 DEF UniqueOK, FilesOK
  <2>2. \A f \in Lines : Len(f) \in Nat
    BY DEF Lines
  <2>3. last.pos <= Len(T[top].body)
    BY <1>4, CountTypes DEF UniqueOK
  <2> QED
    BY <1>0, <1>4, <2>1, <2>2, <2>3
<1> HIDE DEF last, S2
<1>6. ~ Emptied(T[top].body, last.remove) => Removed(T[top].body, last.remove) \in Lines
  BY <1>4, <1>5, FlagsRemoved
<1>7. FilesOK(T2)
  <2>1. <<>> \in Lines /\ Len(<<>>) = 0
    BY DEF Lines
  <2>2. \A m \in DOMAIN T2 : T2[m].body \in Lines
    BY <1>0, <1>6, <2>1 DEF UniqueOK, FilesOK
  <2>3. \A m \in DOMAIN T2 : T2[m].link = <<>> => T2[m].body = <<>>
    <3>1. T[top].link # <<>>
      BY <1>4 DEF Rooted
    <3> QED
      BY <1>0, <3>1 DEF UniqueOK, FilesOK
  <2>4. Root \in DOMAIN T2 /\ Len(T2[Root].link) <= 1
    <3>1. Root \in DOMAIN T /\ Len(T[Root].link) <= 1
      BY DEF UniqueOK, FilesOK
    <3>2. T2[Root].link \in {T[Root].link, <<>>}
      BY <1>0, <3>1
    <3>3. 0 <= 1
      OBVIOUS
    <3> QED
      BY <1>0, <2>1, <3>1, <3>2, <3>3
  <2> QED
    BY <2>2, <2>3, <2>4 DEF FilesOK
<1>8. ASSUME NEW m \in DOMAIN T, m # top, NEW id
      PROVE  /\ Read(S2, T2, m, id) = Read(S, T, m, id)
             /\ Flagged(S2, T2, m, id) = Flagged(S, T, m, id)
             /\ ReadTo(S2, T2, m) = ReadTo(S, T, m)
  <2>1. T2[m] = T[m]
    BY <1>0, <1>8
  <2>2. InCall(S2, T2, m) <=> InCall(S, T, m)
    <3>1. Len(T[m].link) = d => S[d].node # m
      BY <1>4, <1>8
    <3>2. Len(T[m].link) \in Nat
      BY LinkTypes
    <3>3. Len(T[m].link) \in 1 .. d - 1 <=> Len(T[m].link) \in 1 .. d /\ Len(T[m].link) # d
      BY <1>2, <3>2
    <3> QED
      BY <1>2, <1>3, <2>1, <3>1, <3>3 DEF InCall
  <2>3. ReadTo(S2, T2, m) = ReadTo(S, T, m) /\ Flags(S2, T2, m) = Flags(S, T, m)
    <3>1. InCall(S2, T2, m) => S2[Len(T[m].link)] = S[Len(T[m].link)]
      BY <1>3, <2>1 DEF InCall
    <3> QED
      BY <2>1, <2>2, <3>1 DEF ReadTo, Flags
  <2> QED
    BY <2>1, <2>3 DEF Read, Flagged
<1>9. ASSUME T2[top].link # <<>>, NEW id
      PROVE  Read(S2, T2, top, id) + Flagged(S, T, top, id) = Read(S, T, top, id)
             /\ Flagged(S2, T2, top, id) = 0
  <2> DEFINE new == Removed(T[top].body, last.remove)
  <2>1. ~ Emptied(T[top].body, last.remove) /\ T2[top].body = new
        /\ Len(T2[top].link) = d
    BY <1>0, <1>4, <1>9
  <2>2. ~ InCall(S2, T2, top)
    BY <1>2, <1>3, <2>1 DEF InCall
  <2>3. ReadTo(S2, T2, top) = Len(new) /\ Flags(S2, T2, top) = <<>>
    BY <2>1, <2>2 DEF ReadTo, Flags
  <2>4. Count(LinesTo(new, id), Len(new)) + Count(FlagsFor(last.remove, id), Len(last.remove))
          = Count(LinesTo(T[top].body, id), Len(T[top].body))
    BY <1>4, <1>5, <2>1, FlagsRemoved
  <2>5. Read(S2, T2, top, id) = Count(LinesTo(new, id), Len(new))
    BY <2>1, <2>3 DEF Read
  <2>6. Read(S, T, top, id) = Count(LinesTo(T[top].body, id), Len(T[top].body))
    BY <1>4, <1>5 DEF Read
  <2>7. Flagged(S, T, top, id) = Count(FlagsFor(last.remove, id), Len(last.remove))
    BY <1>4 DEF Flagged
  <2>8. Flagged(S2, T2, top, id) = 0
    <3>1. Len(<<>>) = 0
      OBVIOUS
    <3> QED
      BY <2>3, <3>1, CountStep DEF Flagged
  <2> QED
    BY <2>4, <2>5, <2>6, <2>7, <2>8
<1>10. ASSUME NEW m \in DOMAIN T, T2[m].link # <<>>, NEW id
       PROVE  /\ Lists(S2, T2, m, id) <=> Lists(S, T, m, id)
              /\ (Read(S, T, m, id) = Flagged(S, T, m, id))
                   => Read(S2, T2, m, id) = Flagged(S2, T2, m, id)
  <2>1. CASE m # top
    BY <1>8, <2>1 DEF Lists
  <2>2. CASE m = top
    <3>1. Read(S, T, m, id) \in Nat /\ Flagged(S, T, m, id) \in Nat
      BY CountTypes DEF UniqueOK
    <3>2. Read(S2, T2, m, id) \in Nat
      BY <1>0, <1>7, CountTypes DEF S2
    <3> QED
      BY <1>9, <1>10, <2>2, <3>1, <3>2 DEF Lists
  <2> QED
    BY <2>1, <2>2
<1>11. UniqueOK(S2, T2)
  <2>1. ASSUME NEW m \in DOMAIN T2, Rooted(T2, m), NEW id \in Node
        PROVE  /\ Lists(S2, T2, m, id) \/ Read(S2, T2, m, id) = Flagged(S2, T2, m, id)
               /\ Lists(S2, T2, m, id) => Lists(S, T, m, id) /\ id \in DOMAIN T2
    <3>1. m \in DOMAIN T /\ T2[m].link # <<>> /\ Rooted(T, m)
      <4>1. m \in DOMAIN T /\ T2[m].link # <<>>
        BY <1>0, <2>1 DEF Rooted
      <4>2. ASSUME NEW n \in DOMAIN T, T2[n].link # <<>> PROVE T2[n].link = T[n].link
        BY <1>0, <4>2
      <4>3. ASSUME NEW l \in 1 .. Len(T[m].link)
            PROVE  \E n \in DOMAIN T : Len(T[n].link) = l /\ StartsWith(T[m].link, T[n].link)
        <5>1. PICK n \in DOMAIN T2 : Len(T2[n].link) = l /\ StartsWith(T2[m].link, T2[n].link)
          BY <2>1, <4>1, <4>2 DEF Rooted
        <5>2. T2[n].link # <<>>
          BY <5>1
        <5> QED
          BY <1>0, <4>1, <4>2, <5>1, <5>2
      <4> QED
        BY <4>1, <4>2, <4>3 DEF Rooted
    <3>2. Lists(S, T, m, id) \/ Read(S, T, m, id) = Flagged(S, T, m, id)
      BY <3>1 DEF UniqueOK, AtMostOnce
    <3>3. Lists(S, T, m, id) => id \in DOMAIN T
      BY <3>1 DEF UniqueOK, ListerAbove
    <3> QED
      BY <1>0, <1>10, <3>1, <3>2, <3>3
  <2>2. \A n \in DOMAIN T2 : T2[n].link \in {T[n].link, <<>>}
    BY <1>0
  <2>3. TreeOK(S2, T2)
    BY DEF S2
  <2> QED
    BY <1>0, <1>7, <2>1, <2>2, <2>3, ListsLess
<1>12. CallsListed(S2, T2)
  <2>1. ASSUME NEW i \in 1 .. d - 1, i < d - 1
        PROVE  Lists(S2, T2, S2[i].node, S2[i + 1].node)
    <3>1. i + 1 \in 1 .. d - 1 /\ i \in 1 .. d /\ i < d /\ i # d
      BY <1>2, <2>1
    <3>2. S2[i].node = S[i].node /\ S2[i + 1].node = S[i + 1].node
      BY <1>3, <3>1
    <3>3. Lists(S, T, S[i].node, S[i + 1].node)
      BY <1>2, <3>1 DEF CallsListed
    <3>4. S[i].node \in DOMAIN T /\ S[i].node # top
      <4>1. S[i].node \in DOMAIN T /\ Len(T[S[i].node].link) = i
        BY <1>2, <3>1, CallFacts
      <4> QED
        BY <1>4, <3>1, <4>1
    <3> QED
      BY <1>8, <3>2, <3>3, <3>4 DEF Lists
  <2>2. S2 # <<>> => S2[1].node = Root
    <3>1. S2 # <<>> => 1 \in 1 .. d - 1
      <4>1. S2 \in Seq(Frame)
        BY DEF TreeOK, S2
      <4>2. S2 # <<>> => d - 1 > 0
        BY <1>3, <4>1, FrameTypes
      <4> QED
        BY <1>2, <4>2
    <3> QED
      BY <1>3, <3>1 DEF CallsListed
  <2> QED
    BY <1>3, <2>1, <2>2 DEF CallsListed
<1>13. ListsKept(S, T, S2, T2)
  BY <1>10 DEF ListsKept, Rooted
<1>14. StillRead(S, T, S2, T2, DOMAIN T \ {top})
  BY <1>8 DEF StillRead
<1> QED
  BY <1>11, <1>12, <1>13, <1>14 DEF S2, last

(* The subtree of the line last read is erased, and the line flagged; the  *)
(* calls S were in progress when its file was written.                     *)
FlagMoved(S, S2, id) ==
  /\ Len(S2) < Len(S) /\ Len(S2) > 0 /\ id = S[Len(S2) + 1].node
  /\ \A i \in 1 .. Len(S2) :
       /\ S2[i].node = S[i].node /\ S2[i].pos = S[i].pos
       /\ S2[i].remove = IF i = Len(S2) THEN Append(S[i].remove, id) ELSE S[i].remove

SubtreeErased(T, T2, id) ==
  /\ DOMAIN T2 \subseteq DOMAIN T /\ id \notin DOMAIN T2
  /\ \A n \in DOMAIN T2 : T2[n].link = T[n].link /\ T2[n].body \in Lines
  /\ \A n \in DOMAIN T \ DOMAIN T2 :
       /\ StartsWith(T[n].link, T[id].link)
       /\ n # id => Len(T[n].link) > Len(T[id].link)

Extends(new, old) ==
  Len(new) >= Len(old) /\ \A k \in 1 .. Len(old) : new[k] = old[k]

OnlyCallsGrow(S2, T, T2) ==
  \A n \in DOMAIN T2 :
    \/ T2[n].body = T[n].body
    \/ (\E i \in 1 .. Len(S2) : n = S2[i].node) /\ Extends(T2[n].body, T[n].body)

(* The file of the line last read does not list its target any more, and   *)
(* no file that is left lists an erased one.                               *)
LEMMA SubtreeMoved ==
  ASSUME NEW S, NEW T, TreeOK(S, T), UniqueOK(S, T), CallsListed(S, T),
         NEW S2, NEW T2, NEW id, FlagMoved(S, S2, id), SubtreeErased(T, T2, id),
         OnlyCallsGrow(S2, T, T2), TreeOK(S2, T2)
  PROVE  /\ UniqueOK(S2, T2) /\ CallsListed(S2, T2)
         /\ ListsKept(S, T, S2, T2)
         /\ StillRead(S, T, S2, T2, {m \in DOMAIN T2 : Rooted(T2, m)})
<1>1. S \in Seq(Frame) /\ S2 \in Seq(Frame)
  BY DEF TreeOK
<1>2. PICK d : d \in Nat /\ d = Len(S2) /\ d > 0 /\ d \in 1 .. d
  <2>1. Len(S2) \in Nat
    BY <1>1, FrameTypes
  <2> QED
    BY <2>1 DEF FlagMoved
<1>3. /\ id = S[d + 1].node /\ Len(S) \in Nat /\ d < Len(S) /\ d + 1 \in 1 .. Len(S)
      /\ \A i \in 1 .. d : /\ i \in 1 .. Len(S)
                           /\ S2[i].node = S[i].node /\ S2[i].pos = S[i].pos
                           /\ S2[i].remove = IF i = d THEN Append(S[i].remove, id)
                                             ELSE S[i].remove
  <2>1. Len(S) \in Nat
    BY <1>1, FrameTypes
  <2> QED
    BY <1>2, <2>1 DEF FlagMoved
<1> DEFINE top == S[d].node
<1>4. /\ DOMAIN T2 \subseteq DOMAIN T /\ id \notin DOMAIN T2
      /\ \A n \in DOMAIN T2 : T2[n].link = T[n].link /\ T2[n].body \in Lines
  BY DEF SubtreeErased
<1>5. /\ id \in DOMAIN T /\ Len(T[id].link) = d + 1 /\ T[id].link # <<>>
      /\ id \in Node /\ OnWay(S, d + 1, T[id].link)
  <2>1. id \in DOMAIN T /\ Len(T[id].link) = d + 1 /\ Rooted(T, id)
    BY <1>3, CallFacts
  <2>2. OnWay(S, d + 1, T[id].link)
    BY <1>3 DEF TreeOK, CallOK
  <2> QED
    BY <1>1, <1>3, <2>1, <2>2, FrameTypes DEF Rooted
<1>6. \A m \in DOMAIN T : /\ Len(T[m].link) \in Nat
                          /\ (T[m].link # <<>> <=> Len(T[m].link) > 0)
                          /\ (T[m].link = <<>> => Len(T[m].link) = 0)
  BY LinkTypes
<1>7. ASSUME NEW m \in DOMAIN T2, Rooted(T2, m)
      PROVE  ~ StartsWith(T[m].link, T[id].link)
  <2> SUFFICES ASSUME StartsWith(T[m].link, T[id].link) PROVE FALSE
    OBVIOUS
  <2>1. d + 1 \in 1 .. Len(T[m].link) /\ m \in DOMAIN T
    BY <1>2, <1>4, <1>5, <1>6 DEF StartsWith
  <2>2. PICK n \in DOMAIN T2 : Len(T2[n].link) = d + 1 /\ StartsWith(T2[m].link, T2[n].link)
    BY <1>4, <1>7, <2>1 DEF Rooted
  <2>3. n \in DOMAIN T /\ Len(T[n].link) = d + 1 /\ StartsWith(T[m].link, T[n].link)
    BY <1>4, <2>2
  <2>4. StartsWith(T[id].link, T[n].link)
    <3>1. \A k \in 1 .. d + 1 : T[m].link[k] = T[n].link[k] /\ T[m].link[k] = T[id].link[k]
      BY <1>5, <2>3 DEF StartsWith
    <3>2. d + 1 <= d + 1
      BY <1>2
    <3> QED
      BY <1>5, <2>3, <3>1, <3>2 DEF StartsWith
  <2>5. id = n
    BY <1>5, <2>3, <2>4 DEF UniqueOK, LinksDiffer
  <2> QED
    BY <1>4, <2>5
<1>8. ASSUME NEW m \in DOMAIN T2, Rooted(T2, m)
      PROVE  m \in DOMAIN T /\ Rooted(T, m)
  BY <1>4, <1>8 DEF Rooted
<1>9. ASSUME NEW m \in DOMAIN T2, Rooted(T2, m), InCall(S, T, m)
      PROVE  Len(T[m].link) \in 1 .. d
  <2> DEFINE i == Len(T[m].link)
  <2>1. i \in 1 .. Len(S) /\ S[i].node = m /\ i \in Nat
    BY <1>4, <1>6, <1>9 DEF InCall
  <2>2. ASSUME i > d PROVE FALSE
    <3>1. OnWay(S, i, T[m].link)
      BY <2>1 DEF TreeOK, CallOK
    <3>2. \A k \in 1 .. d + 1 : k \in 1 .. i
      BY <1>2, <2>1, <2>2
    <3>3. StartsWith(T[m].link, T[id].link)
      BY <1>2, <1>5, <2>1, <2>2, <3>1, <3>2 DEF StartsWith, OnWay
    <3> QED
      BY <1>7, <1>9, <3>3
  <2> QED
    BY <1>2, <2>1, <2>2
<1>10. ASSUME NEW m \in DOMAIN T2, Rooted(T2, m)
       PROVE  /\ InCall(S2, T2, m) <=> InCall(S, T, m)
              /\ ReadTo(S2, T2, m) = ReadTo(S, T, m)
              /\ Flags(S2, T2, m) = IF m = top THEN Append(Flags(S, T, m), id)
                                    ELSE Flags(S, T, m)
  <2>1. T2[m].link = T[m].link /\ m \in DOMAIN T /\ Len(T[m].link) \in Nat
    BY <1>4, <1>6
  <2>2. InCall(S, T, m) => InCall(S2, T2, m)
    BY <1>2, <1>3, <1>9, <1>10, <2>1 DEF InCall
  <2>3. InCall(S2, T2, m) => InCall(S, T, m)
    BY <1>2, <1>3, <2>1 DEF InCall
  <2>4. m = top <=> InCall(S, T, m) /\ Len(T[m].link) = d
    <3>1. InCall(S, T, top) /\ Len(T[top].link) = d
      BY <1>2, <1>3, CallFacts
    <3> QED
      BY <3>1 DEF InCall
  <2>5. CASE InCall(S, T, m)
    <3> DEFINE i == Len(T[m].link)
    <3>1. i \in 1 .. d /\ S2[i].pos = S[i].pos
          /\ S2[i].remove = IF i = d THEN Append(S[i].remove, id) ELSE S[i].remove
      BY <1>3, <1>9, <1>10, <2>5
    <3> QED
      BY <2>1, <2>2, <2>4, <2>5, <3>1 DEF ReadTo, Flags
  <2>6. CASE ~ InCall(S, T, m)
    <3>1. \A i \in 1 .. d : m # S2[i].node
      <4>1. \A i \in 1 .. d : InCall(S, T, S[i].node)
        BY <1>3, CallFacts
      <4> QED
        BY <1>3, <2>6, <4>1
    <3>2. T2[m].body = T[m].body
      BY <1>2, <3>1 DEF OnlyCallsGrow
    <3> QED
      BY <2>1, <2>3, <2>4, <2>6, <3>2 DEF ReadTo, Flags
  <2> QED
    BY <2>2, <2>3, <2>5, <2>6
<1>11. FilesOK(T)
  BY DEF UniqueOK
<1>12. ASSUME NEW m \in DOMAIN T2, Rooted(T2, m), NEW x \in Node
       PROVE  /\ Read(S2, T2, m, x) = Read(S, T, m, x)
              /\ Flagged(S2, T2, m, x) = Flagged(S, T, m, x)
                                         + IF m = top /\ x = id THEN 1 ELSE 0
              /\ Read(S, T, m, x) \in Nat /\ Flagged(S, T, m, x) \in Nat
  <2>1. /\ m \in DOMAIN T /\ ReadTo(S, T, m) \in Nat /\ ReadTo(S, T, m) <= Len(T[m].body)
        /\ Flags(S, T, m) \in Seq(Node)
        /\ Read(S, T, m, x) \in Nat /\ Flagged(S, T, m, x) \in Nat
    BY <1>4, <1>11, CountTypes
  <2>2. Len(T[m].body) \in Nat /\ Len(T2[m].body) \in Nat
    <3>1. \A f \in Lines : Len(f) \in Nat
      BY DEF Lines
    <3>2. T[m].body \in Lines /\ T2[m].body \in Lines
      BY <1>4, <1>11 DEF FilesOK
    <3> QED
      BY <3>1, <3>2
  <2>3. Extends(T2[m].body, T[m].body)
    <3>1. Extends(T[m].body, T[m].body)
      BY <2>2 DEF Extends
    <3> QED
      BY <3>1 DEF OnlyCallsGrow
  <2>4. \A k \in 1 .. ReadTo(S, T, m) : k \in LinesTo(T2[m].body, x) <=> k \in LinesTo(T[m].body, x)
    BY <2>1, <2>2, <2>3 DEF Extends, LinesTo
  <2>5. Read(S2, T2, m, x) = Read(S, T, m, x)
    <3>1. Count(LinesTo(T2[m].body, x), ReadTo(S, T, m)) = Count(LinesTo(T[m].body, x), ReadTo(S, T, m))
      BY <2>1, <2>4, SameCount
    <3> QED
      BY <1>10, <1>12, <3>1 DEF Read
  <2>6. Flagged(S2, T2, m, x) = Flagged(S, T, m, x) + IF m = top /\ x = id THEN 1 ELSE 0
    <3>1. CASE m = top
      <4> DEFINE ids == Flags(S, T, m)
                 more == Append(ids, id)
      <4>1. Count(FlagsFor(more, x), Len(more))
              = Count(FlagsFor(ids, x), Len(ids)) + IF id = x THEN 1 ELSE 0
        BY <1>5, <2>1, OneMoreFlag
      <4>2. Flagged(S2, T2, m, x) = Count(FlagsFor(more, x), Len(more))
        BY <1>10, <1>12, <3>1 DEF Flagged
      <4>3. Flagged(S, T, m, x) = Count(FlagsFor(ids, x), Len(ids))
        BY DEF Flagged
      <4> HIDE DEF more, ids
      <4> QED
        BY <3>1, <4>1, <4>2, <4>3
    <3>2. CASE m # top
      <4>1. Flagged(S2, T2, m, x) = Flagged(S, T, m, x)
        BY <1>10, <1>12, <3>2 DEF Flagged
      <4> QED
        BY <2>1, <3>2, <4>1
    <3> QED
      BY <3>1, <3>2
  <2> QED
    BY <2>1, <2>5, <2>6
<1>13. top \in DOMAIN T /\ Rooted(T, top) /\ Lists(S, T, top, id)
  <2>1. d \in 1 .. Len(S) /\ d < Len(S)
    BY <1>2, <1>3
  <2>2. Lists(S, T, S[d].node, S[d + 1].node)
    BY <2>1 DEF CallsListed
  <2> QED
    BY <1>3, <2>1, <2>2, CallFacts
<1>14. ASSUME NEW m \in DOMAIN T2, Rooted(T2, m), NEW x \in Node
       PROVE  /\ \/ Lists(S2, T2, m, x)
                 \/ Read(S2, T2, m, x) = Flagged(S2, T2, m, x)
              /\ Lists(S2, T2, m, x) => Lists(S, T, m, x) /\ x \in DOMAIN T2
  <2>1. m \in DOMAIN T /\ Rooted(T, m)
    BY <1>8, <1>14
  <2>2. Lists(S, T, m, x) \/ Read(S, T, m, x) = Flagged(S, T, m, x)
    BY <2>1 DEF UniqueOK, AtMostOnce
  <2>3. CASE x = id
    <3>1. Lists(S, T, m, x) => m = top
      BY <1>5, <1>13, <2>1, <2>3 DEF UniqueOK, OneLister
    <3>2. m = top => Lists(S, T, m, x)
      BY <1>13, <2>3
    <3> QED
      BY <1>12, <1>14, <2>2, <2>3, <3>1, <3>2 DEF Lists
  <2>4. CASE x # id
    <3>1. /\ Lists(S2, T2, m, x) <=> Lists(S, T, m, x)
          /\ (Read(S2, T2, m, x) = Flagged(S2, T2, m, x))
               <=> (Read(S, T, m, x) = Flagged(S, T, m, x))
      BY <1>12, <1>14, <2>4 DEF Lists
    <3>2. ASSUME Lists(S, T, m, x), x \notin DOMAIN T2 PROVE FALSE
      <4>1. x \in DOMAIN T /\ (T[x].link = <<>> \/ Child(T, m, x))
        BY <2>1, <3>2 DEF UniqueOK, ListerAbove
      <4>2. StartsWith(T[x].link, T[id].link) /\ Len(T[x].link) > d + 1
        BY <1>5, <2>4, <3>2, <4>1 DEF SubtreeErased
      <4>3. T[x].link # <<>> /\ Len(T[x].link) \in Nat /\ Len(T[m].link) \in Nat
        BY <1>2, <1>6, <2>1, <4>1, <4>2
      <4>4. Len(T[x].link) = Len(T[m].link) + 1 /\ StartsWith(T[x].link, T[m].link)
        BY <4>1, <4>3 DEF Child
      <4>5. Len(T[m].link) >= d + 1
        BY <1>2, <4>2, <4>3, <4>4
      <4>6. \A k \in 1 .. d + 1 : k \in 1 .. Len(T[m].link)
        BY <1>2, <4>3, <4>5
      <4>7. StartsWith(T[m].link, T[id].link)
        BY <1>5, <4>2, <4>4, <4>5, <4>6 DEF StartsWith
      <4> QED
        BY <1>7, <1>14, <4>7
    <3> QED
      BY <2>2, <3>1, <3>2
  <2> QED
    BY <2>3, <2>4
<1>15. FilesOK(T2)
  <2>1. ASSUME NEW m \in DOMAIN T2, T2[m].link = <<>>
        PROVE  T2[m].body = <<>>
    <3>1. T[m].link = <<>> /\ m \in DOMAIN T
      BY <1>4, <2>1
    <3>2. T[m].body = <<>>
      BY <1>11, <3>1 DEF FilesOK
    <3>3. \A i \in 1 .. d : m # S2[i].node
      <4>1. \A i \in 1 .. d : Rooted(T, S[i].node)
        BY <1>3, CallFacts
      <4> QED
        BY <1>3, <3>1, <4>1 DEF Rooted
    <3> QED
      BY <1>2, <3>2, <3>3 DEF OnlyCallsGrow
  <2>2. Root \in DOMAIN T2 /\ Len(T2[Root].link) <= 1
    <3>1. 1 \in 1 .. d /\ S # <<>>
      <4>1. Len(S) > 0
        BY <1>2, <1>3
      <4> QED
        BY <1>1, <1>2, <4>1, FrameTypes
    <3>2. S2[1].node = Root
      BY <1>3, <3>1 DEF CallsListed
    <3>3. Root \in DOMAIN T2 /\ Len(T2[Root].link) = 1
      BY <1>2, <3>1, <3>2, CallFacts
    <3> QED
      BY <3>3
  <2> QED
    BY <1>4, <2>1, <2>2 DEF FilesOK
<1>16. UniqueOK(S2, T2)
  <2>1. \A n \in DOMAIN T2 : T2[n].link \in {T[n].link, <<>>}
    BY <1>4
  <2> QED
    BY <1>4, <1>14, <1>15, <2>1, ListsLess
<1>17. CallsListed(S2, T2)
  <2>1. ASSUME NEW i \in 1 .. d, i < d
        PROVE  Lists(S2, T2, S2[i].node, S2[i + 1].node)
    <3>1. i + 1 \in 1 .. d /\ i \in 1 .. Len(S) /\ i < Len(S) /\ i # d /\ d \in 1 .. Len(S)
      BY <1>2, <1>3, <2>1
    <3>2. S2[i].node = S[i].node /\ S2[i + 1].node = S[i + 1].node
      BY <1>3, <3>1
    <3>3. Lists(S, T, S[i].node, S[i + 1].node)
      BY <3>1 DEF CallsListed
    <3>4. S[i].node \in DOMAIN T2 /\ Rooted(T2, S[i].node)
      BY <1>2, <3>2, CallFacts
    <3>5. S[i].node # top /\ S[i + 1].node \in Node
      BY <1>1, <1>3, <3>1, CallsDiffer, FrameTypes
    <3> QED
      BY <1>12, <3>2, <3>3, <3>4, <3>5 DEF Lists
  <2>2. S2[1].node = Root
    <3>1. 1 \in 1 .. d /\ S # <<>>
      <4>1. Len(S) > 0
        BY <1>2, <1>3
      <4> QED
        BY <1>1, <1>2, <4>1, FrameTypes
    <3> QED
      BY <1>3, <3>1 DEF CallsListed
  <2> QED
    BY <1>2, <2>1, <2>2 DEF CallsListed
<1>18. ListsKept(S, T, S2, T2)
  <2> SUFFICES ASSUME NEW m \in DOMAIN T2, Rooted(T2, m), NEW x \in DOMAIN T2,
                      Lists(S, T, m, x)
               PROVE  Lists(S2, T2, m, x)
    BY DEF ListsKept
  <2>1. x # id /\ x \in Node
    BY <1>4 DEF TreeOK
  <2> QED
    BY <1>12, <2>1 DEF Lists
<1>19. StillRead(S, T, S2, T2, {m \in DOMAIN T2 : Rooted(T2, m)})
  BY <1>10 DEF StillRead
<1> QED
  BY <1>16, <1>17, <1>18, <1>19

-------------------------------------------------------------------------------
(* What Move needs to know of the value returned and of the files below.   *)
LEMMA PrefixStarts ==
  ASSUME NEW s \in Seq(Nat), NEW t \in Seq(Nat), IsStrictPrefix(s, t)
  PROVE  StartsWith(t, s) /\ Len(t) > Len(s)
<1>1. IsPrefix(s, t) /\ s # t
  BY DEF IsStrictPrefix
<1>2. /\ Len(s) <= Len(t) /\ \A k \in 1 .. Len(s) : s[k] = t[k]
      /\ Len(s) \in Nat /\ Len(t) \in Nat
  BY <1>1, PrefixByItems
<1>3. Len(s) # Len(t)
  <2> SUFFICES ASSUME Len(s) = Len(t) PROVE FALSE
    OBVIOUS
  <2>1. s = [k \in 1 .. Len(s) |-> s[k]] /\ t = [k \in 1 .. Len(t) |-> t[k]]
    OBVIOUS
  <2> QED
    BY <1>1, <1>2, <2>1
<1> QED
  BY <1>2, <1>3 DEF StartsWith

(* tree_erase erases the file it is called for, and files with links that  *)
(* strictly extend its link.                                               *)
LEMMA ErasedAreBelow ==
  ASSUME DOMAIN tree \subseteq Node, \A n \in DOMAIN tree : tree[n].link \in Seq(Nat),
         NEW id \in DOMAIN tree
  PROVE  /\ id \in Erased(id)
         /\ \A n \in Erased(id) :
              /\ n \in DOMAIN tree /\ StartsWith(tree[n].link, tree[id].link)
              /\ n # id => Len(tree[n].link) > Len(tree[id].link)
<1> DEFINE N == DOMAIN tree
           next == [m \in N |-> Below(m)]
           T == {m \in N : \/ m = id
                           \/ /\ StartsWith(tree[m].link, tree[id].link)
                              /\ Len(tree[m].link) > Len(tree[id].link)}
<1>1. IsFiniteSet(N)
  BY FiniteAssumption, FS_Subset
<1>2. \A m : Below(m) \subseteq N
  BY DEF Below
<1>3. next \in [N -> SUBSET N] /\ {id} \in SUBSET N /\ DOMAIN next = N
  BY <1>2
<1>4. Erased(id) = Hull(next, {id})
  BY <1>1, <1>3, ClosureIsHull DEF Erased
<1>5. \A m \in N : Len(tree[m].link) \in Nat
  OBVIOUS
<1>6. ASSUME NEW m \in T, NEW k \in Below(m) PROVE k \in T
  <2>1. k \in N /\ IsStrictPrefix(tree[m].link, tree[k].link)
    BY DEF Below
  <2>2. StartsWith(tree[k].link, tree[m].link) /\ Len(tree[k].link) > Len(tree[m].link)
    BY <2>1, PrefixStarts
  <2>3. CASE m = id
    BY <2>1, <2>2, <2>3
  <2>4. CASE m # id
    <3>1. /\ StartsWith(tree[m].link, tree[id].link)
          /\ Len(tree[m].link) > Len(tree[id].link)
      BY <2>4
    <3>2. \A j \in 1 .. Len(tree[id].link) : j \in 1 .. Len(tree[m].link)
      BY <1>5, <3>1
    <3>3. Len(tree[k].link) > Len(tree[id].link)
      BY <1>5, <2>1, <2>2, <3>1
    <3>4. StartsWith(tree[k].link, tree[id].link)
      BY <1>5, <2>1, <2>2, <3>1, <3>2, <3>3 DEF StartsWith
    <3> QED
      BY <2>1, <3>3, <3>4
  <2> QED
    BY <2>3, <2>4
<1>7. ClosedIn(next, T) /\ T \subseteq N /\ id \in T
  BY <1>5, <1>6 DEF ClosedIn
<1> HIDE DEF next, T
<1>8. id \in Hull(next, {id}) /\ Hull(next, {id}) \subseteq T /\ Hull(next, {id}) \subseteq N
  BY <1>3, <1>7 DEF Hull
<1>9. StartsWith(tree[id].link, tree[id].link)
  BY <1>5 DEF StartsWith
<1> QED
  BY <1>4, <1>8, <1>9 DEF T

(* The weights of the lines on the way.                                    *)
PriosOK(S, T) ==
  \A i \in 1 .. Len(S) :
    LET prios == T[S[i].node].prios
    IN /\ prios \in Seq(Nat) /\ Len(prios) = i
       /\ \A m \in 1 .. i - 1 : prios[m + 1] = T[S[m].node].body[S[m].pos].prio

(* A value is returned: the call to which it matters has not returned, and *)
(* files written to then are those of calls below it.                      *)
BackingUp(S, T) ==
  \E m \in 1 .. Len(S) :
    /\ T[S[m].node].body[S[m].pos].prio = ret
    /\ Receivers \subseteq {S[j].node : j \in 1 .. m}

(* The calls S, the files T and what these list.                           *)
OnceOK(S, T) == TreeOK(S, T) /\ UniqueOK(S, T) /\ CallsListed(S, T)

(* Some of the calls have returned, without their flags being applied.     *)
CutShort(S, S2) ==
  Len(S2) < Len(S) /\ \A i \in 1 .. Len(S2) : S2[i] = S[i]

OnceInv ==
  /\ list = <<>>
  /\ PriosOK(stack, tree)
  /\ IF ret = 0 THEN OnceOK(stack, tree)
     ELSE /\ BackingUp(stack, tree)
          /\ \E S : OnceOK(S, tree) /\ CutShort(S, stack)

(* Lines were read, and files added that no call was reading.              *)
LEMMA PriosStay ==
  ASSUME NEW S, NEW T, TreeOK(S, T), PriosOK(S, T), NEW S2, NEW T2,
         Len(S2) <= Len(S), Len(S2) \in Nat,
         \A i \in 1 .. Len(S2) :
           /\ S2[i].node = S[i].node
           /\ i < Len(S2) => S2[i].pos = S[i].pos
           /\ T2[S[i].node].prios = T[S[i].node].prios
           /\ Extends(T2[S[i].node].body, T[S[i].node].body)
  PROVE  PriosOK(S2, T2)
<1>1. S \in Seq(Frame)
  BY DEF TreeOK
<1>2. PICK d : d = Len(S) /\ d \in Nat
  BY <1>1, FrameTypes
<1> SUFFICES ASSUME NEW i \in 1 .. Len(S2)
             PROVE  LET prios == T2[S2[i].node].prios
                    IN /\ prios \in Seq(Nat) /\ Len(prios) = i
                       /\ \A m \in 1 .. i - 1 :
                            prios[m + 1] = T2[S2[m].node].body[S2[m].pos].prio
  BY DEF PriosOK
<1>3. i \in 1 .. d /\ Len(S2) \in Nat
  BY <1>2
<1>4. /\ T[S[i].node].prios \in Seq(Nat) /\ Len(T[S[i].node].prios) = i
      /\ \A m \in 1 .. i - 1 : T[S[i].node].prios[m + 1] = T[S[m].node].body[S[m].pos].prio
  BY <1>2, <1>3 DEF PriosOK
<1>5. T2[S2[i].node].prios = T[S[i].node].prios
  OBVIOUS
<1>6. ASSUME NEW m \in 1 .. i - 1
      PROVE  T2[S2[m].node].body[S2[m].pos] = T[S[m].node].body[S[m].pos]
  <2>1. m \in 1 .. Len(S2) /\ m < Len(S2) /\ m \in 1 .. d /\ m < d
    BY <1>2, <1>3
  <2>2. CallOK(S, T, m) /\ S[m].pos \in Nat
    BY <1>1, <1>2, <2>1, FrameTypes DEF TreeOK
  <2>3. /\ T[S[m].node].body \in Lines /\ S[m].pos <= Len(T[S[m].node].body)
        /\ S[m].pos > 0
    BY <1>2, <2>1, <2>2 DEF CallOK
  <2>4. Len(T[S[m].node].body) \in Nat
    <3>1. \A f \in Lines : Len(f) \in Nat
      BY DEF Lines
    <3> QED
      BY <2>3, <3>1
  <2>5. S[m].pos \in 1 .. Len(T[S[m].node].body)
    BY <2>2, <2>3, <2>4
  <2> QED
    BY <2>1, <2>5 DEF Extends
<1> QED
  BY <1>4, <1>5, <1>6

(* The last call has returned.                                             *)
LEMMA FrontPrios ==
  ASSUME NEW S, NEW T, TreeOK(S, T), PriosOK(S, T), S # <<>>,
         NEW T2, \A n \in DOMAIN T : n # S[Len(S)].node => T2[n] = T[n]
  PROVE  PriosOK(Front(S), T2)
<1> DEFINE S2 == Front(S)
<1>1. S \in Seq(Frame)
  BY DEF TreeOK
<1>2. PICK d : d \in Nat /\ d = Len(S) /\ d > 0 /\ d \in 1 .. d
  <2>1. Len(S) \in Nat /\ Len(S) > 0
    BY <1>1, FrameTypes
  <2> QED
    BY <2>1
<1>3. Len(S2) = d - 1 /\ \A i \in 1 .. d - 1 : S2[i] = S[i] /\ i \in 1 .. d /\ i # d
  BY <1>1, <1>2 DEF Front
<1> HIDE DEF S2
<1>4. ASSUME NEW i \in 1 .. d - 1
      PROVE  /\ T2[S[i].node] = T[S[i].node]
             /\ Extends(T[S[i].node].body, T[S[i].node].body)
  <2>1. S[i].node # S[d].node
    BY <1>2, <1>3, CallsDiffer
  <2>2. S[i].node \in DOMAIN T /\ T[S[i].node].body \in Lines
    BY <1>2, <1>3 DEF TreeOK, CallOK
  <2>3. \A f \in Lines : Len(f) \in Nat
    BY DEF Lines
  <2> QED
    BY <1>2, <2>1, <2>2, <2>3 DEF Extends
<1>5. Len(S2) \in Nat /\ Len(S2) <= Len(S)
  BY <1>2, <1>3
<1>6. PriosOK(S2, T2)
  BY <1>3, <1>4, <1>5, PriosStay
<1> QED
  BY <1>6 DEF S2

-------------------------------------------------------------------------------
(* One lemma for each action of generate_dependency_tree.                  *)
LEMMA StepReads ==
  ASSUME stack \in Seq(Frame), stack # <<>>, NEW id \in Node
  PROVE  ReadOn(stack, Step) /\ FlaggedOn(stack, StepRemoving(id), id)
<1>1. PICK d : d \in Nat /\ d = Depth /\ d > 0 /\ d \in 1 .. d
  <2>1. Depth \in Nat /\ Depth > 0
    BY FrameTypes DEF Depth
  <2> QED
    BY <2>1
<1>2. Top \in Frame /\ Top = stack[d] /\ Len(stack) = d
  BY <1>1, FrameTypes DEF Top, Depth
<1>3. Top.pos \in Nat /\ Top.remove \in Seq(Node)
  BY <1>2 DEF Frame
<1> DEFINE stepped == [Top EXCEPT !.pos = @ + 1]
           flagged == [stepped EXCEPT !.remove = Append(@, id)]
<1>4. /\ stepped.node = Top.node /\ stepped.pos = Top.pos + 1
      /\ stepped.remove = Top.remove
      /\ flagged.node = Top.node /\ flagged.pos = Top.pos + 1
      /\ flagged.remove = Append(Top.remove, id)
  BY <1>2 DEF Frame
<1>5. Step = [stack EXCEPT ![d] = stepped] /\ StepRemoving(id) = [stack EXCEPT ![d] = flagged]
  BY <1>1, <1>2 DEF Step, StepRemoving
<1> HIDE DEF stepped, flagged
<1>6. /\ Len(Step) = d /\ \A i \in 1 .. d : Step[i] = IF i = d THEN stepped ELSE stack[i]
      /\ Len(StepRemoving(id)) = d
      /\ \A i \in 1 .. d : StepRemoving(id)[i] = IF i = d THEN flagged ELSE stack[i]
  BY <1>1, <1>2, <1>5
<1> QED
  BY <1>2, <1>4, <1>6 DEF ReadOn, FlaggedOn

(* A file extends itself.                                                  *)
LEMMA BodyGrows ==
  ASSUME NEW file, file.body \in Lines
  PROVE  Extends(file.body, file.body)
<1>1. \A f \in Lines : Len(f) \in Nat
  BY DEF Lines
<1> QED
  BY <1>1 DEF Extends

(* What OnceInv says while calls are made.                                 *)
LEMMA Calling ==
  ASSUME BuildInv, OnceInv, ret = 0
  PROVE  /\ TreeOK(stack, tree) /\ UniqueOK(stack, tree) /\ CallsListed(stack, tree)
         /\ stack \in Seq(Frame) /\ PriosOK(stack, tree) /\ list = <<>>
         /\ \A i \in 1 .. Len(stack) :
              LET n == stack[i].node
              IN n \in DOMAIN tree /\ Extends(tree[n].body, tree[n].body)
<1>1. TreeOK(stack, tree) /\ UniqueOK(stack, tree) /\ CallsListed(stack, tree)
  BY DEF OnceInv, OnceOK
<1>2. ASSUME NEW i \in 1 .. Len(stack)
      PROVE  LET n == stack[i].node
             IN n \in DOMAIN tree /\ tree[n].body \in Lines
  BY <1>1 DEF TreeOK, CallOK
<1> QED
  BY <1>1, <1>2, BodyGrows DEF OnceInv, TreeOK

(* The line being read is the next one of the last call.                   *)
LEMMA CurrentIsNext ==
  ASSUME MoreLines
  PROVE  /\ stack # <<>> /\ NextLine(stack, tree, Current.id)
         /\ stack[Len(stack)] = Top /\ Len(stack) = Depth
BY DEF MoreLines, NextLine, Body, Top, Depth, Current

(* A line is read and flagged.                                             *)
LEMMA PruneOnce ==
  ASSUME BuildInv, OnceInv, Prune \/ BuiltElsewhere
  PROVE  OnceInv'
<1> DEFINE id == Current.id
<1>1. /\ MoreLines /\ ret = 0 /\ ret' = 0 /\ tree' = tree /\ list' = list
      /\ stack' = StepRemoving(id)
  BY DEF Prune, BuiltElsewhere, Building
<1>2. /\ TreeOK(stack, tree) /\ UniqueOK(stack, tree) /\ CallsListed(stack, tree)
      /\ stack \in Seq(Frame) /\ PriosOK(stack, tree) /\ list = <<>>
      /\ \A i \in 1 .. Len(stack) :
              LET n == stack[i].node
              IN n \in DOMAIN tree /\ Extends(tree[n].body, tree[n].body)
  BY <1>1, Calling
<1>3. stack # <<>> /\ NextLine(stack, tree, id) /\ id \in Node
  BY <1>1, CurrentIsNext, CurrentLine
<1>4. FlaggedOn(stack, stack', id) /\ TreeOK(stack', tree)
  BY <1>1, <1>2, <1>3, StepReads, StepKeeps
<1> HIDE DEF id
<1>5. UniqueOK(stack', tree) /\ CallsListed(stack', tree)
  BY <1>2, <1>3, <1>4, ReadAndFlagged
<1>6. PriosOK(stack', tree)
  <2>1. Len(stack) \in Nat /\ Len(stack') = Len(stack) /\ Len(stack) <= Len(stack)
    BY <1>2, <1>4, FrameTypes DEF FlaggedOn
  <2>2. \A i \in 1 .. Len(stack) : i < Len(stack) => i # Len(stack)
    BY <2>1
  <2>3. \A i \in 1 .. Len(stack) :
          stack'[i].node = stack[i].node /\ (i < Len(stack) => stack'[i].pos = stack[i].pos)
    BY <1>4, <2>2 DEF FlaggedOn
  <2> QED
    BY <1>2, <2>1, <2>3, PriosStay
<1> QED
  BY <1>1, <1>2, <1>4, <1>5, <1>6 DEF OnceInv, OnceOK

(* The file of a package without dependencies is added.                    *)
LEMMA LeafOnce ==
  ASSUME BuildInv, OnceInv, Leaf
  PROVE  OnceInv'
<1> DEFINE id == Current.id
           file == [link |-> Append(Link, Top.pos + 1), prios |-> <<>>, body |-> <<>>]
<1>1. /\ MoreLines /\ id \notin DOMAIN tree /\ tree' = Put(tree, id, file)
      /\ stack' = Step /\ ret = 0 /\ ret' = 0 /\ list' = list
  BY DEF Leaf, Building, Seen
<1>2. /\ TreeOK(stack, tree) /\ UniqueOK(stack, tree) /\ CallsListed(stack, tree)
      /\ stack \in Seq(Frame) /\ PriosOK(stack, tree) /\ list = <<>>
      /\ \A i \in 1 .. Len(stack) :
              LET n == stack[i].node
              IN n \in DOMAIN tree /\ Extends(tree[n].body, tree[n].body)
  BY <1>1, Calling
<1>3. stack # <<>> /\ NextLine(stack, tree, id) /\ id \in Node
  BY <1>1, CurrentIsNext, CurrentLine
<1>4. LineTo(stack, tree, id, file)
  <2>1. Append(Link, Top.pos + 1) \in Seq(Nat)
    BY <1>1, NewLink
  <2>2. <<>> \in Lines
    BY DEF Lines
  <2>3. Link = tree[Top.node].link /\ Top = stack[Len(stack)]
    BY DEF Link, Top, Depth
  <2> QED
    BY <1>3, <2>1, <2>2, <2>3 DEF LineTo
<1>5. ReadOn(stack, stack') /\ Len(stack') = Len(stack)
  BY <1>1, <1>2, <1>3, StepReads, StepKeeps DEF Depth
<1>6. Entered(stack, stack', id, file)
  BY <1>5 DEF Entered
<1>7. TreeOK(stack', tree')
  BY LeafKeeps DEF BuildInv
<1> HIDE DEF file, id
<1>8. /\ UniqueOK(stack', tree')
      /\ \A m \in DOMAIN tree, x \in Node :
           Lists(stack, tree, m, x) => Lists(stack', tree', m, x)
  BY <1>1, <1>2, <1>3, <1>4, <1>5, <1>6, <1>7, NewFile
<1>9. Len(stack) \in Nat /\ \A i \in 1 .. Len(stack) : stack[i].node \in Node
  BY <1>2, FrameTypes
<1>10. CallsListed(stack', tree')
  <2>1. ASSUME NEW i \in 1 .. Len(stack), i < Len(stack)
        PROVE  Lists(stack', tree', stack'[i].node, stack'[i + 1].node)
    <3>1. i + 1 \in 1 .. Len(stack)
      BY <1>9, <2>1
    <3>2. Lists(stack, tree, stack[i].node, stack[i + 1].node)
      BY <2>1, <1>2 DEF CallsListed
    <3> QED
      BY <1>2, <1>5, <1>8, <1>9, <3>1, <3>2 DEF ReadOn
  <2>2. stack'[1].node = Root
    <3>1. 1 \in 1 .. Len(stack)
      <4>1. Len(stack) > 0
        BY <1>2, <1>3, FrameTypes
      <4> QED
        BY <1>9, <4>1
    <3> QED
      BY <1>2, <1>3, <1>5, <3>1 DEF CallsListed, ReadOn
  <2> QED
    BY <1>5, <2>1, <2>2 DEF CallsListed
<1>11. PriosOK(stack', tree')
  <2>1. Len(stack') \in Nat /\ Len(stack') <= Len(stack)
    BY <1>5, <1>9
  <2>2. ASSUME NEW i \in 1 .. Len(stack')
        PROVE  /\ stack'[i].node = stack[i].node
               /\ i < Len(stack') => stack'[i].pos = stack[i].pos
               /\ tree'[stack[i].node] = tree[stack[i].node]
    <3>1. i \in 1 .. Len(stack) /\ (i < Len(stack') => i # Len(stack))
      BY <1>5, <1>9
    <3>2. stack[i].node \in DOMAIN tree /\ stack[i].node # id
      BY <1>1, <1>2, <3>1
    <3> QED
      BY <1>1, <1>5, <3>1, <3>2 DEF ReadOn, Put
  <2> QED
    BY <1>2, <1>5, <2>1, <2>2, PriosStay
<1> QED
  BY <1>1, <1>2, <1>7, <1>8, <1>10, <1>11 DEF OnceInv, OnceOK

(* The file of a package with dependencies is added, and read next.        *)
LEMMA DescendOnce ==
  ASSUME BuildInv, OnceInv, Descend
  PROVE  OnceInv'
<1> DEFINE id == Current.id
           file == [link |-> Append(Link, Top.pos + 1),
                    prios |-> Append(Prios, Current.prio), body |-> dep[id]]
           call == [node |-> id, pos |-> 0, remove |-> <<>>]
<1>1. /\ MoreLines /\ id \notin DOMAIN tree /\ tree' = Put(tree, id, file)
      /\ stack' = Append(Step, call) /\ ret = 0 /\ ret' = 0 /\ list' = list
      /\ id \in DOMAIN dep
  BY DEF Descend, Building, Seen, HasLines
<1>2. /\ TreeOK(stack, tree) /\ UniqueOK(stack, tree) /\ CallsListed(stack, tree)
      /\ stack \in Seq(Frame) /\ PriosOK(stack, tree) /\ list = <<>>
      /\ \A i \in 1 .. Len(stack) :
              LET n == stack[i].node
              IN n \in DOMAIN tree /\ Extends(tree[n].body, tree[n].body)
  BY <1>1, Calling
<1>3. stack # <<>> /\ NextLine(stack, tree, id) /\ id \in Node /\ Top = stack[Len(stack)]
      /\ Current.prio \in Nat
  <2>1. Current \in Line(Node \ {Root})
    BY <1>1, CurrentLine
  <2>2. Current.prio \in Nat
    BY <2>1 DEF Line, Weight
  <2> QED
    BY <1>1, <2>2, CurrentIsNext, CurrentLine
<1>4. LineTo(stack, tree, id, file)
  <2>1. Append(Link, Top.pos + 1) \in Seq(Nat)
    BY <1>1, NewLink
  <2>2. dep[id] \in Lines
    BY <1>1 DEF BuildInv
  <2>3. Link = tree[Top.node].link
    BY DEF Link
  <2> QED
    BY <1>3, <2>1, <2>2, <2>3 DEF LineTo
<1>5. PICK d : d = Len(stack) /\ d \in Nat /\ d > 0 /\ d \in 1 .. d
  <2>1. Len(stack) \in Nat /\ Len(stack) > 0
    BY <1>2, <1>3, FrameTypes
  <2> QED
    BY <2>1
<1>6. ReadOn(stack, Step) /\ Len(Step) = d /\ Step \in Seq(Frame)
  BY <1>1, <1>2, <1>3, <1>5, StepReads, StepKeeps DEF Depth
<1>7. call \in Frame /\ call.node = id /\ call.pos = 0 /\ call.remove = <<>>
  BY <1>3 DEF Frame
<1>8. /\ Len(stack') = d + 1 /\ stack'[d + 1] = call
      /\ \A i \in 1 .. d : stack'[i] = Step[i]
  <2> DEFINE s == Step
  <2>1. s \in Seq(Frame) /\ Len(s) = d /\ stack' = Append(s, call)
    BY <1>1, <1>6
  <2> HIDE DEF s, call
  <2>2. /\ Len(Append(s, call)) = Len(s) + 1
        /\ Append(s, call)[Len(s) + 1] = call
        /\ \A i \in 1 .. Len(s) : Append(s, call)[i] = s[i]
    BY <1>7, <2>1
  <2> QED
    BY <2>1, <2>2 DEF s
<1>9. Entered(stack, stack', id, file)
  BY <1>5, <1>7, <1>8 DEF Entered
<1>10. ReadOn(stack, stack')
  BY <1>5, <1>6, <1>8 DEF ReadOn
<1>11. TreeOK(stack', tree')
  BY DescendKeeps DEF BuildInv
<1>12. /\ file.prios = Append(Prios, Current.prio)
       /\ Prios = tree[Top.node].prios
  BY DEF Prios
<1> HIDE DEF file, id, call
<1>13. /\ UniqueOK(stack', tree') /\ Lists(stack', tree', stack[Len(stack)].node, id)
       /\ \A m \in DOMAIN tree, x \in Node :
            Lists(stack, tree, m, x) => Lists(stack', tree', m, x)
  BY <1>1, <1>2, <1>3, <1>4, <1>9, <1>10, <1>11, NewFile
<1>14. \A i \in 1 .. d : stack[i].node \in Node /\ stack[i].node \in DOMAIN tree
                         /\ stack[i].node # id /\ tree'[stack[i].node] = tree[stack[i].node]
  <2>1. \A i \in 1 .. d : stack[i].node \in Node
    BY <1>2, <1>5, FrameTypes
  <2> QED
    BY <1>1, <1>2, <1>5, <2>1 DEF Put
<1>15. CallsListed(stack', tree')
  <2>1. ASSUME NEW i \in 1 .. d + 1, i < d + 1
        PROVE  Lists(stack', tree', stack'[i].node, stack'[i + 1].node)
    <3>1. CASE i = d
      <4>1. stack'[i].node = stack[d].node /\ stack'[i + 1].node = id
        BY <1>5, <1>7, <1>8, <1>10, <3>1 DEF ReadOn
      <4> QED
        BY <1>5, <1>13, <4>1
    <3>2. CASE i # d
      <4>1. i \in 1 .. d /\ i + 1 \in 1 .. d /\ i < d
        BY <1>5, <2>1, <3>2
      <4>2. Lists(stack, tree, stack[i].node, stack[i + 1].node)
        BY <1>2, <1>5, <4>1 DEF CallsListed
      <4> QED
        BY <1>5, <1>10, <1>13, <1>14, <4>1, <4>2 DEF ReadOn
    <3> QED
      BY <3>1, <3>2
  <2>2. stack'[1].node = Root
    <3>1. 1 \in 1 .. d
      BY <1>5
    <3> QED
      BY <1>2, <1>3, <1>5, <1>10, <3>1 DEF CallsListed, ReadOn
  <2> QED
    BY <1>8, <2>1, <2>2 DEF CallsListed
<1>16. PriosOK(stack', tree')
  <2> DEFINE p(m) == tree'[stack'[m].node].body[stack'[m].pos].prio
  <2>a. ASSUME NEW m \in 1 .. d, m # d
        PROVE  p(m) = tree[stack[m].node].body[stack[m].pos].prio
    BY <1>5, <1>10, <1>14, <2>a DEF ReadOn
  <2>b. p(d) = Current.prio
    <3>1. stack'[d].node = Top.node /\ stack'[d].pos = Top.pos + 1
      BY <1>3, <1>5, <1>10 DEF ReadOn
    <3> QED
      BY <1>3, <1>5, <1>14, <3>1 DEF Current, Body
  <2> HIDE DEF p
  <2>1. ASSUME NEW i \in 1 .. d
        PROVE  LET prios == tree'[stack'[i].node].prios
               IN /\ prios \in Seq(Nat) /\ Len(prios) = i
                  /\ \A m \in 1 .. i - 1 : prios[m + 1] = p(m)
    <3>1. /\ tree[stack[i].node].prios \in Seq(Nat) /\ Len(tree[stack[i].node].prios) = i
          /\ \A m \in 1 .. i - 1 : tree[stack[i].node].prios[m + 1]
                                     = tree[stack[m].node].body[stack[m].pos].prio
      BY <1>2, <1>5 DEF PriosOK
    <3>2. tree'[stack'[i].node].prios = tree[stack[i].node].prios
      BY <1>5, <1>10, <1>14 DEF ReadOn
    <3>3. \A m \in 1 .. i - 1 : m \in 1 .. d /\ m # d
      BY <1>5
    <3> QED
      BY <2>a, <3>1, <3>2, <3>3
  <2>2. LET prios == tree'[stack'[d + 1].node].prios
        IN /\ prios \in Seq(Nat) /\ Len(prios) = d + 1
           /\ \A m \in 1 .. (d + 1) - 1 : prios[m + 1] = p(m)
    <3> DEFINE s == Prios
               x == Current.prio
    <3>1. tree'[stack'[d + 1].node] = file
      BY <1>1, <1>7, <1>8 DEF Put
    <3>2. /\ s \in Seq(Nat) /\ Len(s) = d
          /\ \A m \in 1 .. d - 1 : s[m + 1] = tree[stack[m].node].body[stack[m].pos].prio
      BY <1>2, <1>3, <1>5, <1>12 DEF PriosOK
    <3>3. x \in Nat
      BY <1>3
    <3>4. \A m \in 1 .. d - 1 : m \in 1 .. d /\ m # d /\ m + 1 \in 1 .. d
      BY <1>5
    <3>5. \A m \in 1 .. d - 1 : s[m + 1] = p(m)
      BY <2>a, <3>2, <3>4
    <3> HIDE DEF s, x
    <3>6. /\ Append(s, x) \in Seq(Nat) /\ Len(Append(s, x)) = d + 1
          /\ Append(s, x)[d + 1] = x /\ \A k \in 1 .. d : Append(s, x)[k] = s[k]
      BY <3>2, <3>3, AppendFacts
    <3>7. file.prios = Append(s, x)
      BY <1>12 DEF s, x
    <3>8. p(d) = x
      BY <2>b DEF x
    <3>9. \A m \in 1 .. (d + 1) - 1 : m \in 1 .. d - 1 \/ m = d
      BY <1>5
    <3>10. \A m \in 1 .. (d + 1) - 1 : Append(s, x)[m + 1] = p(m)
      BY <3>4, <3>5, <3>6, <3>8, <3>9
    <3> QED
      BY <3>1, <3>6, <3>7, <3>10
  <2>3. \A i \in 1 .. d + 1 : i \in 1 .. d \/ i = d + 1
    BY <1>5
  <2>4. \A i \in 1 .. Len(stack') :
          LET prios == tree'[stack'[i].node].prios
          IN /\ prios \in Seq(Nat) /\ Len(prios) = i
             /\ \A m \in 1 .. i - 1 : prios[m + 1] = p(m)
    BY <1>8, <2>1, <2>2, <2>3
  <2> QED
    BY <2>4 DEF PriosOK, p
<1> QED
  BY <1>1, <1>2, <1>11, <1>13, <1>15, <1>16 DEF OnceInv, OnceOK

(* The last call ends: its flags are applied.                              *)
LEMMA ReturnShape ==
  ASSUME BuildInv, TreeOK(stack, tree), Return
  PROVE  FlagsApplied(stack, tree, tree')
<1> DEFINE file == IF Emptied(Body, Top.remove)
                   THEN [link |-> <<>>, prios |-> <<>>, body |-> <<>>]
                   ELSE WithBody(tree[Top.node], Removed(Body, Top.remove))
<1>1. /\ stack # <<>> /\ ~ Top.pos < Len(Body)
      /\ tree' = [tree EXCEPT ![Top.node] = file]
  BY DEF Return, Building, MoreLines
<1>2. Top.node \in DOMAIN tree /\ Top = stack[Len(stack)] /\ Body = tree[Top.node].body
  BY <1>1, TopFacts DEF Top, Depth, Body
<1>3. \/ file.link = <<>> /\ file.body = <<>>
      \/ /\ ~ Emptied(Body, Top.remove) /\ file.link = tree[Top.node].link
         /\ file.body = Removed(Body, Top.remove)
  BY DEF WithBody
<1> HIDE DEF file
<1>4. /\ DOMAIN tree' = DOMAIN tree /\ tree'[Top.node] = file
      /\ \A n \in DOMAIN tree : n # Top.node => tree'[n] = tree[n]
  BY <1>1, <1>2
<1> QED
  BY <1>1, <1>2, <1>3, <1>4 DEF FlagsApplied

LEMMA ReturnOnce == ASSUME BuildInv, OnceInv, Return PROVE OnceInv'
<1>1. /\ stack # <<>> /\ ret = 0 /\ ret' = 0 /\ list' = list /\ stack' = Front(stack)
  BY DEF Return, Building
<1>2. /\ TreeOK(stack, tree) /\ UniqueOK(stack, tree) /\ CallsListed(stack, tree)
      /\ PriosOK(stack, tree) /\ list = <<>>
  BY <1>1, Calling
<1>3. FlagsApplied(stack, tree, tree')
  BY <1>2, ReturnShape
<1>4. TreeOK(stack', tree')
  BY ReturnKeeps DEF BuildInv
<1>5. UniqueOK(stack', tree') /\ CallsListed(stack', tree')
  BY <1>1, <1>2, <1>3, <1>4, CallEnded
<1>6. PriosOK(stack', tree')
  <2>1. \A n \in DOMAIN tree : n # stack[Len(stack)].node => tree'[n] = tree[n]
    BY <1>3 DEF FlagsApplied
  <2> QED
    BY <1>1, <1>2, <2>1, FrontPrios
<1> QED
  BY <1>1, <1>2, <1>4, <1>5, <1>6 DEF OnceInv, OnceOK

(* A link without its last position.                                       *)
LEMMA FrontLink ==
  ASSUME NEW s \in Seq(Nat), NEW t \in Seq(Nat), Len(s) = Len(t) + 1,
         \A k \in 1 .. Len(t) : s[k] = t[k]
  PROVE  Front(s) = t
<1>1. Len(s) - 1 = Len(t)
  OBVIOUS
<1>2. t = [k \in 1 .. Len(t) |-> t[k]]
  OBVIOUS
<1> DEFINE u == Front(s)
<1>3. u \in Seq(Nat) /\ Len(u) = Len(t) /\ \A k \in 1 .. Len(t) : u[k] = s[k]
  BY <1>1 DEF Front
<1> HIDE DEF u
<1>4. u = [k \in 1 .. Len(u) |-> u[k]]
  BY <1>3
<1>5. u = t
  BY <1>2, <1>3, <1>4
<1> QED
  BY <1>5 DEF u

(* When the redirection is not ambiguous, there is one file to write to.   *)
LEMMA OneMember ==
  ASSUME NEW P \in SUBSET Node, Cardinality(P) = 1, NEW x \in P
  PROVE  P = {x}
<1> SUFFICES ASSUME NEW y \in P, y # x PROVE FALSE
  OBVIOUS
<1>1. IsFiniteSet(P)
  BY FiniteAssumption, FS_Subset
<1>2. {x, y} \in SUBSET P /\ {x, y} = {x} \cup {y} /\ y \notin {x}
  OBVIOUS
<1>3. Cardinality({x, y}) <= 1
  BY <1>1, <1>2, FS_Subset
<1>4. Cardinality({x} \cup {y}) = 2
  <2>1. IsFiniteSet({x}) /\ Cardinality({x}) = 1
    BY FS_Singleton
  <2>2. Cardinality({x} \cup {y}) = Cardinality({x}) + 1
    BY <1>2, <2>1, FS_AddElement
  <2> QED
    BY <2>1, <2>2
<1> QED
  BY <1>2, <1>3, <1>4

(* The lines read by the calls in progress have a weight.                  *)
LEMMA ReadWeight ==
  ASSUME NEW S, NEW T, TreeOK(S, T), NEW i \in 1 .. Len(S), S[i].pos > 0
  PROVE  T[S[i].node].body[S[i].pos] \in Line(Node \ {Root})
<1>1. S \in Seq(Frame)
  BY DEF TreeOK
<1>2. S[i].pos \in Nat
  BY <1>1, FrameTypes
<1>3. T[S[i].node].body \in Lines /\ S[i].pos <= Len(T[S[i].node].body)
  BY DEF TreeOK, CallOK
<1> DEFINE body == T[S[i].node].body
<1>4. body \in Seq(Line(Node \ {Root})) /\ S[i].pos \in Nat /\ S[i].pos > 0
      /\ S[i].pos <= Len(body)
  BY <1>2, <1>3 DEF Lines
<1> HIDE DEF body
<1>5. body[S[i].pos] \in Line(Node \ {Root})
  BY <1>4
<1> QED
  BY <1>5 DEF body

(* The weight returned is that of a line on the way, at or above which the *)
(* file to write to is being read.                                         *)
LEMMA BackUpOnce == ASSUME BuildInv, IInv, OnceInv, BackUp PROVE OnceInv'
<1> DEFINE id == Current.id
           weights == {0} \cup {Prios[k] : k \in Len(OtherLink) + 1 .. Len(Link)}
<1>1. /\ Building /\ MoreLines /\ Seen /\ OtherLink # <<>> /\ Circular
      /\ ~ WeakestLine /\ ret' = CycleWeight
      /\ ret = 0 /\ parentNode' = ParentOfCycle
      /\ stack' = Front(stack) /\ tree' = tree /\ list' = list
  BY DEF BackUp, Building
<1>2. /\ TreeOK(stack, tree) /\ UniqueOK(stack, tree) /\ CallsListed(stack, tree)
      /\ PriosOK(stack, tree) /\ list = <<>> /\ stack \in Seq(Frame)
  BY <1>1, Calling
<1>3. stack # <<>> /\ TreeOK(stack', tree)
  <2>1. stack # <<>>
    BY <1>1 DEF MoreLines
  <2>2. TreeOK(Front(stack), tree)
    <3>1. \A n \in DOMAIN tree : n # stack[Len(stack)].node => tree[n] = tree[n]
      OBVIOUS
    <3>2. tree[stack[Len(stack)].node].link \in {tree[stack[Len(stack)].node].link, <<>>}
      OBVIOUS
    <3> QED
      BY <1>2, <2>1, <3>1, <3>2, Popped
  <2> QED
    BY <1>1, <2>1, <2>2
<1>4. PICK d : d = Len(stack) /\ d \in Nat /\ d > 0 /\ d \in 1 .. d
  <2>1. Len(stack) \in Nat /\ Len(stack) > 0
    BY <1>2, <1>3, FrameTypes
  <2> QED
    BY <2>1
<1>5. Len(stack') = d - 1 /\ \A j \in 1 .. d - 1 : stack'[j] = stack[j]
  BY <1>1, <1>2, <1>4 DEF Front
<1>6. PICK i \in 1 .. d : stack[i].node = id
  BY <1>1, <1>4, LinksTell DEF CircularIsOpen, Depth
<1>7. /\ Current \in Line(Node \ {Root}) /\ id # Root /\ Current.prio \in 1 .. 4
  <2>1. Current \in Line(Node \ {Root})
    BY <1>1, CurrentLine
  <2> QED
    BY <2>1 DEF Line, Weight
<1>8. Len(OtherLink) = i /\ OtherLink \in Seq(Nat) /\ OnWay(stack, i, OtherLink)
  BY <1>2, <1>4, <1>6 DEF OtherLink, TreeOK, CallOK
<1>9. i >= 2
  <2>1. i # 1
    BY <1>2, <1>3, <1>6, <1>7 DEF CallsListed
  <2> QED
    BY <1>4, <2>1
<1>10. Len(Link) = d
  BY <1>3, <1>4, TopFacts DEF Depth
<1>11. ASSUME NEW k \in i + 1 .. d
       PROVE  /\ k - 1 \in 1 .. d - 1
              /\ Prios[k] = tree[stack[k - 1].node].body[stack[k - 1].pos].prio
              /\ Prios[k] \in 1 .. 4
  <2>1. k - 1 \in 1 .. d - 1 /\ k - 1 < d /\ (k - 1) + 1 = k /\ k - 1 \in 1 .. d
    BY <1>4, <1>9
  <2>2. /\ \A m \in 1 .. d - 1 : tree[stack[d].node].prios[m + 1]
                                   = tree[stack[m].node].body[stack[m].pos].prio
    BY <1>2, <1>4 DEF PriosOK
  <2>3. Prios = tree[stack[d].node].prios
    BY <1>4 DEF Prios, Top, Depth
  <2>4. stack[k - 1].pos > 0
    BY <1>2, <1>4, <2>1 DEF TreeOK, CallOK
  <2>5. tree[stack[k - 1].node].body[stack[k - 1].pos] \in Line(Node \ {Root})
    BY <1>2, <1>4, <2>1, <2>4, ReadWeight
  <2> QED
    BY <2>1, <2>2, <2>3, <2>5 DEF Line, Weight
<1>12. weights \in SUBSET (0 .. 4) /\ weights # {}
  BY <1>4, <1>8, <1>10, <1>11
<1>13. CycleWeight = Max(weights)
  BY DEF CycleWeight
<1>14. CycleWeight \in weights
  <2> HIDE DEF weights
  <2>1. 4 \in Nat
    OBVIOUS
  <2>2. Max(weights) \in weights
    BY <1>12, <2>1, GreatestNat
  <2> QED
    BY <1>13, <2>2
<1>15. CycleWeight # 0
  BY <1>1, <1>7, <1>12, <1>14 DEF WeakestLine
<1>16. PICK k \in i + 1 .. d : CycleWeight = Prios[k]
  BY <1>8, <1>10, <1>14, <1>15
<1>17. /\ k - 1 \in 1 .. d - 1 /\ i - 1 \in 1 .. k - 1 /\ i - 1 \in 1 .. d /\ i - 1 < d
       /\ i - 1 \in 1 .. d - 1
  BY <1>4, <1>9
<1>18. stack[i - 1].node \in ParentOfCycle
  <2>1. CallOK(stack, tree, i - 1)
    BY <1>2, <1>4, <1>17 DEF TreeOK
  <2> DEFINE n == stack[i - 1].node
  <2>2. n \in DOMAIN tree /\ Len(tree[n].link) = i - 1 /\ OnWay(stack, i - 1, tree[n].link)
        /\ tree[n].link \in Seq(Nat)
    BY <1>2, <2>1 DEF CallOK, TreeOK
  <2>3. (i - 1) + 1 = i /\ \A j \in 1 .. i - 1 : j \in 1 .. i
    BY <1>4
  <2>4. \A j \in 1 .. i - 1 : OtherLink[j] = tree[n].link[j]
    BY <1>8, <2>2, <2>3 DEF OnWay
  <2>5. Front(OtherLink) = tree[n].link
    <3> DEFINE s == OtherLink
               t == tree[n].link
    <3>1. s \in Seq(Nat) /\ t \in Seq(Nat) /\ Len(s) = Len(t) + 1
          /\ \A j \in 1 .. Len(t) : s[j] = t[j]
      BY <1>8, <2>2, <2>3, <2>4
    <3> HIDE DEF s, t
    <3>2. Front(s) = t
      BY <3>1, FrontLink
    <3> QED
      BY <3>2 DEF s, t
  <2> QED
    BY <2>2, <2>5 DEF ParentOfCycle, EnteringAt
<1>19. Receivers' \subseteq {stack[i - 1].node}
  <2>1. parentNode' \in SUBSET Node
    BY <1>1, <1>2 DEF ParentOfCycle, EnteringAt, TreeOK
  <2>2. CASE Cardinality(parentNode') = 1
    <3>1. parentNode' = {stack[i - 1].node}
      BY <1>1, <1>18, <2>1, <2>2, OneMember
    <3> QED
      BY <3>1 DEF Receivers
  <2>3. CASE Cardinality(parentNode') # 1
    BY <2>3 DEF Receivers
  <2> QED
    BY <2>2, <2>3
<1> HIDE DEF weights, id
<1>20. BackingUp(stack, tree)'
  <2>1. k - 1 \in 1 .. Len(stack')
    BY <1>5, <1>17
  <2>2. tree[stack'[k - 1].node].body[stack'[k - 1].pos].prio = ret'
    BY <1>1, <1>5, <1>11, <1>16, <1>17
  <2>3. Receivers' \subseteq {stack'[j].node : j \in 1 .. k - 1}
    BY <1>5, <1>17, <1>19
  <2> QED
    BY <1>1, <2>1, <2>2, <2>3 DEF BackingUp
<1>21. PriosOK(stack', tree)
  <2>1. \A n \in DOMAIN tree : n # stack[Len(stack)].node => tree[n] = tree[n]
    OBVIOUS
  <2> QED
    BY <1>1, <1>2, <1>3, <2>1, FrontPrios
<1>22. CutShort(stack, stack') /\ OnceOK(stack, tree)
  BY <1>2, <1>4, <1>5 DEF CutShort, OnceOK
<1> QED
  BY <1>1, <1>2, <1>15, <1>20, <1>21, <1>22 DEF OnceInv

(* The calls return down to that line.                                     *)
LEMMA KeepBackingUpOnce ==
  ASSUME BuildInv, OnceInv, KeepBackingUp
  PROVE  OnceInv'
<1>1. /\ ret # 0 /\ stack # <<>> /\ LineRead.prio # ret /\ stack' = Front(stack)
      /\ UNCHANGED <<tree, ret, parentNode, list>>
  BY DEF KeepBackingUp
<1>2. TreeOK(stack, tree) /\ PriosOK(stack, tree) /\ list = <<>> /\ BackingUp(stack, tree)
      /\ stack \in Seq(Frame)
  BY <1>1 DEF BuildInv, OnceInv, TreeOK
<1>3. PICK S : OnceOK(S, tree) /\ CutShort(S, stack)
  BY <1>1 DEF OnceInv
<1>4. PICK d : d = Len(stack) /\ d \in Nat /\ d > 0 /\ d \in 1 .. d
  <2>1. Len(stack) \in Nat /\ Len(stack) > 0
    BY <1>1, <1>2, FrameTypes
  <2> QED
    BY <2>1
<1>5. Len(stack') = d - 1 /\ \A j \in 1 .. d - 1 : stack'[j] = stack[j] /\ j \in 1 .. d
  BY <1>1, <1>2, <1>4 DEF Front
<1>6. PICK m \in 1 .. d :
        /\ tree[stack[m].node].body[stack[m].pos].prio = ret
        /\ Receivers \subseteq {stack[j].node : j \in 1 .. m}
  BY <1>2, <1>4 DEF BackingUp
<1>7. m \in 1 .. d - 1
  <2>1. m # d
    BY <1>1, <1>4, <1>6 DEF LineRead, Body, Top, Depth
  <2> QED
    BY <1>4, <2>1
<1>8. BackingUp(stack, tree)'
  <2>1. Receivers' = Receivers
    BY <1>1 DEF Receivers
  <2>2. \A j \in 1 .. m : stack'[j] = stack[j]
    BY <1>5, <1>7
  <2>3. Receivers' \subseteq {stack'[j].node : j \in 1 .. m}
    BY <1>6, <2>1, <2>2
  <2>4. m \in 1 .. Len(stack') /\ tree'[stack'[m].node].body[stack'[m].pos].prio = ret'
    BY <1>1, <1>5, <1>6, <1>7
  <2> QED
    BY <2>3, <2>4 DEF BackingUp
<1>9. PriosOK(stack', tree)
  <2>1. \A n \in DOMAIN tree : n # stack[Len(stack)].node => tree[n] = tree[n]
    OBVIOUS
  <2> QED
    BY <1>1, <1>2, <2>1, FrontPrios
<1>10. CutShort(S, stack')
  <2>1. Len(S) \in Nat
    <3>1. S \in Seq(Frame)
      BY <1>3 DEF OnceOK, TreeOK
    <3> QED
      BY <3>1, FrameTypes
  <2>2. d < Len(S) /\ \A j \in 1 .. d : stack[j] = S[j]
    BY <1>3, <1>4 DEF CutShort
  <2>3. d - 1 < Len(S)
    BY <1>4, <2>1, <2>2
  <2> QED
    BY <1>5, <2>2, <2>3 DEF CutShort
<1> QED
  BY <1>1, <1>2, <1>3, <1>8, <1>9, <1>10 DEF OnceInv

(* There, the subtree is erased, the line flagged and its target appended  *)
(* to the file of an earlier call.                                         *)
LEMMA MoveShape ==
  ASSUME BuildInv, OnceInv, Move, NEW S, OnceOK(S, tree), CutShort(S, stack)
  PROVE  /\ FlagMoved(S, stack', LineRead.id)
         /\ SubtreeErased(tree, tree', LineRead.id)
         /\ OnlyCallsGrow(stack', tree, tree')
         /\ TreeOK(stack', tree') /\ PriosOK(stack', tree')
<1> DEFINE id == LineRead.id
           line == [prio |-> ret, qual |-> "b", id |-> id]
           moved(file) == Append(file, line)
           flagged == [Top EXCEPT !.remove = Append(@, id)]
<1>1. /\ stack # <<>> /\ ret # 0 /\ ret' = 0 /\ LineRead.prio = ret /\ list' = list
      /\ TreeOK(stack, tree) /\ ReturnOK(stack, tree) /\ PriosOK(stack, tree)
      /\ BackingUp(stack, tree) /\ list = <<>>
  BY DEF Move, BuildInv, OnceInv
<1>2. OnceOK(S, tree) /\ CutShort(S, stack)
  OBVIOUS
<1>3. /\ Depth \in Nat /\ Depth > 0 /\ Depth \in 1 .. Depth /\ Top \in Frame
      /\ Top.pos \in Nat /\ Body \in Lines /\ Top.pos <= Len(Body)
      /\ stack \in Seq(Frame) /\ Depth = Len(stack) /\ Top = stack[Depth]
  BY <1>1, TopFacts DEF TreeOK, Depth, Top
<1>4. Top.pos > 0 /\ id \in DOMAIN tree
  BY <1>1 DEF ReturnOK, LineRead, Body, Top, Depth
<1>5. LineRead \in Line(Node \ {Root})
  <2>1. Top.pos \in 1 .. Len(Body)
    BY <1>3, <1>4 DEF Lines
  <2> QED
    BY <1>3, <2>1 DEF LineRead, Lines
<1>6. line \in Line(Node \ {Root}) /\ id \in Node
  <2>1. LineRead.prio \in Weight /\ id \in Node \ {Root} /\ "b" \in Qualifier
    BY <1>5 DEF Line, Qualifier
  <2> QED
    BY <1>1, <2>1 DEF Line
<1>7. /\ DOMAIN tree' = DOMAIN tree \ Erased(id)
      /\ \A n \in DOMAIN tree' :
           tree'[n] = IF n \in Receivers
                      THEN WithBody(tree[n], moved(tree[n].body)) ELSE tree[n]
  BY DEF Move
<1>8. stack' = [stack EXCEPT ![Depth] = flagged]
  BY <1>3 DEF Move
<1>9. /\ flagged.node = Top.node /\ flagged.pos = Top.pos
      /\ flagged.remove = Append(Top.remove, id)
  BY <1>3 DEF Frame
<1>10. ASSUME NEW file \in Lines
       PROVE  moved(file) \in Lines /\ Extends(moved(file), file)
  <2>1. /\ moved(file) \in Lines /\ Len(moved(file)) >= Len(file)
        /\ \A k \in 1 .. Len(file) : moved(file)[k] = file[k]
    BY <1>6 DEF Lines
  <2> QED
    BY <2>1 DEF Extends
<1>11. LineRead = tree[Top.node].body[Top.pos]
  BY DEF LineRead, Body
<1>12. ASSUME NEW f \in Lines PROVE Extends(f, f)
  <2>1. \A g \in Lines : Len(g) \in Nat
    BY DEF Lines
  <2> QED
    BY <2>1 DEF Extends
<1>13. id = tree[Top.node].body[Top.pos].id
  BY <1>11
<1> HIDE DEF id, line, moved, flagged
<1>14. /\ Len(stack') = Depth
       /\ \A i \in 1 .. Depth : stack'[i] = IF i = Depth THEN flagged ELSE stack[i]
  BY <1>3, <1>8
<1>15. Len(S) \in Nat /\ Depth < Len(S) /\ \A i \in 1 .. Depth : stack[i] = S[i]
  <2>1. S \in Seq(Frame)
    BY <1>2 DEF OnceOK, TreeOK
  <2> QED
    BY <1>2, <1>3, <2>1, FrameTypes DEF CutShort
<1>16. FlagMoved(S, stack', id)
  <2>1. id = S[Depth + 1].node
    <3>1. Depth \in 1 .. Len(S)
      BY <1>3, <1>15
    <3>2. tree[S[Depth].node].body[S[Depth].pos].id = S[Depth + 1].node
      BY <1>2, <1>15, <3>1 DEF OnceOK, TreeOK, CallOK
    <3> QED
      BY <1>3, <1>13, <1>15, <3>2
  <2>2. \A i \in 1 .. Depth :
          /\ stack'[i].node = S[i].node /\ stack'[i].pos = S[i].pos
          /\ stack'[i].remove = IF i = Depth THEN Append(S[i].remove, id) ELSE S[i].remove
    BY <1>3, <1>9, <1>14, <1>15
  <2> QED
    BY <1>3, <1>14, <1>15, <2>1, <2>2 DEF FlagMoved
<1>17. FilesOK(tree)
  BY <1>2 DEF OnceOK, UniqueOK
<1>18. ASSUME NEW n \in DOMAIN tree'
       PROVE  /\ n \in DOMAIN tree /\ tree'[n].link = tree[n].link
              /\ tree'[n].prios = tree[n].prios
              /\ tree'[n].body = IF n \in Receivers THEN moved(tree[n].body) ELSE tree[n].body
              /\ tree'[n].body \in Lines /\ Extends(tree'[n].body, tree[n].body)
  <2>1. /\ n \in DOMAIN tree /\ tree[n].body \in Lines
    BY <1>7, <1>17 DEF FilesOK
  <2>2. CASE n \in Receivers
    <3>1. tree'[n] = WithBody(tree[n], moved(tree[n].body))
      BY <1>7, <2>2
    <3> QED
      BY <1>10, <2>1, <2>2, <3>1 DEF WithBody
  <2>3. CASE n \notin Receivers
    <3>1. tree'[n] = tree[n]
      BY <1>7, <2>3
    <3> QED
      BY <1>12, <2>1, <2>3, <3>1
  <2> QED
    BY <2>2, <2>3
<1>19. SubtreeErased(tree, tree', id)
  <2>1. DOMAIN tree \subseteq Node /\ \A n \in DOMAIN tree : tree[n].link \in Seq(Nat)
    BY <1>1 DEF TreeOK
  <2>2. /\ id \in Erased(id)
        /\ \A n \in Erased(id) :
             /\ n \in DOMAIN tree /\ StartsWith(tree[n].link, tree[id].link)
             /\ n # id => Len(tree[n].link) > Len(tree[id].link)
    BY <1>4, <2>1, ErasedAreBelow DEF id
  <2> QED
    BY <1>7, <1>18, <2>2 DEF SubtreeErased
<1>20. OnlyCallsGrow(stack', tree, tree')
  <2>1. PICK m \in 1 .. Depth : Receivers \subseteq {stack[j].node : j \in 1 .. m}
    BY <1>1, <1>3 DEF BackingUp
  <2>2. \A j \in 1 .. m : j \in 1 .. Depth /\ stack'[j].node = stack[j].node
    BY <1>3, <1>9, <1>14
  <2>3. \A n \in Receivers : \E j \in 1 .. Len(stack') : n = stack'[j].node
    BY <1>14, <2>1, <2>2
  <2> QED
    BY <1>18, <2>3 DEF OnlyCallsGrow
<1>21. TreeOK(stack', tree')
  BY MoveKeeps DEF BuildInv
<1>22. PriosOK(stack', tree')
  <2>1. ASSUME NEW i \in 1 .. Len(stack')
        PROVE  /\ stack'[i].node = stack[i].node /\ stack'[i].pos = stack[i].pos
               /\ tree'[stack[i].node].prios = tree[stack[i].node].prios
               /\ Extends(tree'[stack[i].node].body, tree[stack[i].node].body)
    <3>1. stack'[i].node = stack[i].node /\ stack'[i].pos = stack[i].pos
      BY <1>3, <1>9, <1>14
    <3>2. stack[i].node \in DOMAIN tree'
      BY <1>21, <3>1 DEF TreeOK, CallOK
    <3> QED
      BY <1>18, <3>1, <3>2
  <2>2. Len(stack') \in Nat /\ Len(stack') <= Len(stack)
    BY <1>3, <1>14
  <2> QED
    BY <1>1, <2>1, <2>2, PriosStay
<1> QED
  BY <1>16, <1>19, <1>20, <1>21, <1>22 DEF id

(* The file of the line does not list its target any more.                 *)
LEMMA MoveOnce == ASSUME BuildInv, OnceInv, Move PROVE OnceInv'
<1>1. ret # 0 /\ ret' = 0 /\ list' = list /\ list = <<>>
  BY DEF Move, OnceInv
<1>2. PICK S : OnceOK(S, tree) /\ CutShort(S, stack)
  BY <1>1 DEF OnceInv
<1>3. PICK id : id = LineRead.id
  OBVIOUS
<1>4. /\ FlagMoved(S, stack', id) /\ SubtreeErased(tree, tree', id)
      /\ OnlyCallsGrow(stack', tree, tree')
      /\ TreeOK(stack', tree') /\ PriosOK(stack', tree')
  BY <1>2, <1>3, MoveShape
<1>5. UniqueOK(stack', tree') /\ CallsListed(stack', tree')
  BY <1>2, <1>4, SubtreeMoved DEF OnceOK
<1> QED
  BY <1>1, <1>4, <1>5 DEF OnceInv, OnceOK

-------------------------------------------------------------------------------
(* The files as tree_browse finds them.                                    *)
(* The files that are browsed: a line leads to each of them from one other *)
(* at most, and only once.                                                 *)
LinesDiffer(T) ==
  \A m, k \in DOMAIN T : Rooted(T, m) /\ Rooted(T, k) =>
    \A i \in 1 .. Len(T[m].body), j \in 1 .. Len(T[k].body) :
      T[m].body[i].id = T[k].body[j].id => m = k /\ i = j

(* Each line leads to a file, which is further from root.                  *)
LinesLead(T) ==
  \A m \in DOMAIN T : Rooted(T, m) =>
    \A i \in 1 .. Len(T[m].body) :
      LET id == T[m].body[i].id
      IN /\ id \in DOMAIN T
         /\ T[id].body # <<>> => Rooted(T, id) /\ Len(T[id].link) = Len(T[m].link) + 1

Forest(T) ==
  /\ DOMAIN T \subseteq Node /\ \A m \in DOMAIN T : T[m].body \in Lines
  /\ Root \in DOMAIN T
  /\ T[Root].body # <<>> => Rooted(T, Root) /\ Len(T[Root].link) = 1
  /\ LinesDiffer(T) /\ LinesLead(T)

(* When all calls have returned, a file lists what its lines lead to.      *)
LEMMA BuiltForest ==
  ASSUME NEW T, TreeOK(<<>>, T), UniqueOK(<<>>, T)
  PROVE  Forest(T)
<1> DEFINE S == <<>>
<1>1. TreeOK(S, T) /\ FilesOK(T) /\ Len(S) = 0
  BY DEF UniqueOK
<1>2. \A m \in DOMAIN T : /\ m \in Node /\ Len(T[m].link) \in Nat
                          /\ (T[m].link # <<>> <=> Len(T[m].link) > 0)
  BY <1>1, LinkTypes
<1>3. ASSUME NEW m \in DOMAIN T
      PROVE  T[m].body \in Lines /\ Len(T[m].body) \in Nat
             /\ \A i \in 1 .. Len(T[m].body) : T[m].body[i].id \in Node
  <2>1. T[m].body \in Lines
    BY <1>1 DEF FilesOK
  <2>2. ASSUME NEW f \in Lines
        PROVE  Len(f) \in Nat /\ \A i \in 1 .. Len(f) : f[i].id \in Node
    <3>1. \A i \in 1 .. Len(f) : f[i] \in Line(Node \ {Root})
      BY DEF Lines
    <3> QED
      BY <3>1 DEF Lines, Line
  <2> QED
    BY <2>1, <2>2
<1>4. ASSUME NEW m \in DOMAIN T, NEW id
      PROVE  /\ Read(S, T, m, id) = Count(LinesTo(T[m].body, id), Len(T[m].body))
             /\ Flagged(S, T, m, id) = 0
  <2>1. ~ InCall(S, T, m)
    BY <1>1, <1>2 DEF InCall
  <2>2. ReadTo(S, T, m) = Len(T[m].body) /\ Flags(S, T, m) = <<>>
    BY <2>1 DEF ReadTo, Flags
  <2>3. Len(<<>>) = 0
    OBVIOUS
  <2> QED
    BY <2>2, <2>3, CountStep DEF Read, Flagged
<1> HIDE DEF S
<1>5. AtMostOnce(S, T) /\ OneLister(S, T) /\ ListerAbove(S, T)
  BY DEF S, UniqueOK
<1>6. ASSUME NEW m \in DOMAIN T, Rooted(T, m), NEW i \in 1 .. Len(T[m].body)
      PROVE  /\ Lists(S, T, m, T[m].body[i].id)
             /\ \A j \in 1 .. Len(T[m].body) : T[m].body[i].id = T[m].body[j].id => i = j
  <2> DEFINE id == T[m].body[i].id
             A == LinesTo(T[m].body, id)
             n == Len(T[m].body)
  <2>1. i \in A \cap (1 .. n) /\ n \in Nat /\ id \in Node
    BY <1>3 DEF LinesTo
  <2>2. \A j \in 1 .. n : T[m].body[j].id = id => j \in A \cap (1 .. n)
    BY DEF LinesTo
  <2>3. Count(A, n) = 1 \/ Count(A, n) = 0
    <3>1. Lists(S, T, m, id) \/ Read(S, T, m, id) = Flagged(S, T, m, id)
      BY <1>5, <1>6, <2>1 DEF AtMostOnce
    <3> QED
      BY <1>4, <3>1 DEF Lists
  <2> HIDE DEF A, n
  <2>4. Count(A, n) >= 1 /\ \A j \in A \cap (1 .. n) : i # j => Count(A, n) >= 2
    BY <2>1, CountMembers
  <2>5. Count(A, n) = 1 /\ \A j \in A \cap (1 .. n) : i = j
    BY <2>3, <2>4
  <2>6. Lists(S, T, m, id)
    BY <1>4, <2>5 DEF Lists, A, n
  <2>7. \A j \in 1 .. n : T[m].body[i].id = T[m].body[j].id => i = j
    BY <2>2, <2>5
  <2> QED
    BY <2>6, <2>7 DEF n
<1>7. LinesDiffer(T)
  <2> SUFFICES ASSUME NEW m \in DOMAIN T, NEW k \in DOMAIN T, Rooted(T, m), Rooted(T, k),
                      NEW i \in 1 .. Len(T[m].body), NEW j \in 1 .. Len(T[k].body),
                      T[m].body[i].id = T[k].body[j].id
               PROVE  m = k /\ i = j
    BY DEF LinesDiffer
  <2>1. T[m].body[i].id \in Node
    BY <1>3
  <2>2. Lists(S, T, m, T[m].body[i].id) /\ Lists(S, T, k, T[m].body[i].id)
    BY <1>6
  <2>3. m = k
    BY <1>5, <2>1, <2>2 DEF OneLister
  <2> QED
    BY <1>6, <2>3
<1>8. LinesLead(T)
  <2> SUFFICES ASSUME NEW m \in DOMAIN T, Rooted(T, m), NEW i \in 1 .. Len(T[m].body),
                      NEW id, id = T[m].body[i].id
               PROVE  /\ id \in DOMAIN T
                      /\ T[id].body # <<>> =>
                           Rooted(T, id) /\ Len(T[id].link) = Len(T[m].link) + 1
    BY DEF LinesLead
  <2>1. id \in Node /\ Lists(S, T, m, id)
    BY <1>3, <1>6
  <2>2. id \in DOMAIN T /\ (T[id].link = <<>> \/ Child(T, m, id))
    BY <1>5, <2>1 DEF ListerAbove
  <2>3. ASSUME T[id].body # <<>>
        PROVE  Rooted(T, id) /\ Len(T[id].link) = Len(T[m].link) + 1
    <3>1. T[id].link # <<>>
      BY <1>1, <2>2, <2>3 DEF FilesOK
    <3>2. Len(T[id].link) = Len(T[m].link) + 1 /\ StartsWith(T[id].link, T[m].link)
      BY <2>2, <3>1 DEF Child
    <3>3. ASSUME NEW l \in 1 .. Len(T[id].link)
          PROVE  \E n \in DOMAIN T : Len(T[n].link) = l /\ StartsWith(T[id].link, T[n].link)
      <4>1. CASE l \in 1 .. Len(T[m].link)
        <5>1. PICK n \in DOMAIN T : Len(T[n].link) = l /\ StartsWith(T[m].link, T[n].link)
          BY <4>1 DEF Rooted
        <5>2. \A k \in 1 .. l : k \in 1 .. Len(T[m].link)
          BY <1>2, <4>1
        <5>3. l <= Len(T[id].link)
          BY <1>2, <2>2
        <5>4. StartsWith(T[id].link, T[n].link)
          BY <3>2, <5>1, <5>2, <5>3 DEF StartsWith
        <5> QED
          BY <5>1, <5>4
      <4>2. CASE l \notin 1 .. Len(T[m].link)
        <5>1. l = Len(T[id].link)
          BY <1>2, <2>2, <3>2, <4>2
        <5>2. StartsWith(T[id].link, T[id].link)
          BY <1>2, <2>2 DEF StartsWith
        <5> QED
          BY <2>2, <5>1, <5>2
      <4> QED
        BY <4>1, <4>2
    <3> QED
      BY <3>1, <3>2, <3>3 DEF Rooted
  <2> QED
    BY <2>2, <2>3
<1>9. Root \in DOMAIN T /\ Len(T[Root].link) <= 1
  BY <1>1 DEF FilesOK
<1>10. ASSUME T[Root].body # <<>>
       PROVE  Rooted(T, Root) /\ Len(T[Root].link) = 1
  <2>1. T[Root].link # <<>>
    BY <1>1, <1>9, <1>10 DEF FilesOK
  <2>2. Len(T[Root].link) = 1
    <3> DEFINE n == Len(T[Root].link)
    <3>1. n \in Nat /\ n > 0 /\ n <= 1
      BY <1>2, <1>9, <2>1
    <3> HIDE DEF n
    <3>2. n = 1
      BY <3>1
    <3> QED
      BY <3>2 DEF n
  <2>3. \A l \in 1 .. 1 : l = 1
    OBVIOUS
  <2>4. StartsWith(T[Root].link, T[Root].link)
    BY <2>2 DEF StartsWith
  <2> QED
    BY <1>9, <2>1, <2>2, <2>3, <2>4 DEF Rooted
<1> QED
  BY <1>2, <1>3, <1>7, <1>8, <1>9, <1>10 DEF Forest

(* tree_browse: each call but the first was made for the line read last.   *)
VisitOK(i) ==
  LET file == tree[stack[i].node]
  IN /\ stack[i].node \in DOMAIN tree /\ stack[i].pos <= Len(file.body)
     /\ file.body # <<>> => Rooted(tree, stack[i].node) /\ Len(file.link) = i
     /\ i < Len(stack) => stack[i].pos > 0 /\ file.body[stack[i].pos].id = stack[i + 1].node
     /\ i > 1 => file.body # <<>>

(* The line j of m has been dealt with.                                    *)
Passed(m, j) ==
  \/ m \in Listed
  \/ \E i \in 1 .. Len(stack) :
       /\ stack[i].node = m
       /\ j < stack[i].pos \/ (j = stack[i].pos /\ i = Len(stack))

BrowseInv ==
  /\ stack \in Seq(Frame) /\ list \in Seq(Node)
  /\ stack # <<>> => stack[1].node = Root
  /\ \A i \in 1 .. Len(stack) : VisitOK(i) /\ stack[i].node \notin Listed
  /\ \A id \in Listed :
       \E m \in DOMAIN tree : \E j \in 1 .. Len(tree[m].body) :
         Rooted(tree, m) /\ tree[m].body[j].id = id /\ Passed(m, j)

BuiltInv ==
  /\ IInv
  /\ mode = "build" => OnceInv
  /\ mode = "browse" => Forest(tree) /\ BrowseInv
  /\ BuiltOnce

(* A package is printed.                                                   *)
LEMMA OneMoreListed ==
  ASSUME NEW x, list' = Append(list, x), list \in Seq(Node), x \in Node
  PROVE  /\ Listed' = Listed \cup {x}
         /\ BuiltOnce /\ x \notin Listed => BuiltOnce'
         /\ list' \in Seq(Node)
<1> DEFINE new == Append(list, x)
<1>1. /\ new \in Seq(Node) /\ Len(list) \in Nat /\ Len(new) = Len(list) + 1
      /\ new[Len(list) + 1] = x
      /\ \A k \in 1 .. Len(list) : new[k] = list[k]
  OBVIOUS
<1>2. list' = new
  OBVIOUS
<1> HIDE DEF new
<1>3. \A k \in 1 .. Len(new) : k \in 1 .. Len(list) \/ k = Len(list) + 1
  BY <1>1
<1>4. \A k \in 1 .. Len(list) : k \in 1 .. Len(new)
  BY <1>1
<1>5. Len(list) + 1 \in 1 .. Len(new)
  BY <1>1
<1>6. Listed' = Listed \cup {x}
  BY <1>1, <1>2, <1>3, <1>4, <1>5 DEF Listed
<1>7. ASSUME BuiltOnce, x \notin Listed PROVE BuiltOnce'
  <2>1. ASSUME NEW i \in 1 .. Len(new), NEW j \in 1 .. Len(new), new[i] = new[j]
        PROVE  i = j
    BY <1>1, <1>3, <1>7, <2>1 DEF BuiltOnce, Listed
  <2> QED
    BY <1>2, <2>1 DEF BuiltOnce
<1> QED
  BY <1>1, <1>2, <1>6, <1>7

(* The first call of tree_browse.                                          *)
LEMMA BrowseStarts ==
  ASSUME BuildInv, OnceInv, StartBrowse
  PROVE  Forest(tree') /\ BrowseInv'
<1> DEFINE first == [node |-> Root, pos |-> 0, remove |-> <<>>]
<1>1. /\ stack = <<>> /\ stack' = <<first>> /\ tree' = tree /\ list' = list
  BY DEF StartBrowse
<1>2. Len(stack) = 0
  BY <1>1
<1>3. ret = 0
  BY <1>2 DEF OnceInv, BackingUp
<1>4. TreeOK(<<>>, tree) /\ UniqueOK(<<>>, tree) /\ list = <<>>
  BY <1>1, <1>3 DEF OnceInv, OnceOK
<1>5. Forest(tree)
  BY <1>4, BuiltForest
<1>6. first \in Frame /\ first.node = Root /\ first.pos = 0
  BY DepTreeAssumption DEF Frame
<1> HIDE DEF first
<1>7. stack' \in Seq(Frame) /\ Len(stack') = 1 /\ stack'[1] = first
  BY <1>1, <1>6
<1>8. Listed' = {}
  <2>1. Len(list') = 0
    BY <1>1, <1>4
  <2> QED
    BY <2>1 DEF Listed
<1>12. list' \in Seq(Node)
  BY <1>1, <1>4
<1>9. VisitOK(1)'
  <2>1. Len(tree[Root].body) \in Nat
    <3>1. \A f \in Lines : Len(f) \in Nat
      BY DEF Lines
    <3> QED
      BY <1>5, <3>1 DEF Forest
  <2> QED
    BY <1>1, <1>5, <1>6, <1>7, <2>1 DEF VisitOK, Forest
<1>10. \A i \in 1 .. Len(stack') : i = 1
  BY <1>7
<1>11. BrowseInv'
  BY <1>6, <1>7, <1>8, <1>9, <1>10, <1>12 DEF BrowseInv
<1> QED
  BY <1>1, <1>5, <1>11

(* The call that reads, and the line that it reads.                        *)
LEMMA BrowsedLine ==
  ASSUME Forest(tree), BrowseInv, MoreLines
  PROVE  /\ Depth \in Nat /\ Depth \in 1 .. Depth /\ Len(stack) = Depth /\ Top = stack[Depth]
         /\ Top.node \in DOMAIN tree /\ Top.node \notin Listed
         /\ Top.pos \in Nat /\ Top.pos + 1 \in 1 .. Len(tree[Top.node].body)
         /\ tree[Top.node].body # <<>>
         /\ Current = tree[Top.node].body[Top.pos + 1]
         /\ Current.id \in Node \ {Root} /\ Current.id \notin Listed
         /\ Rooted(tree, Top.node) /\ Len(tree[Top.node].link) = Depth
         /\ ReadOn(stack, Step) /\ Len(Step) = Depth /\ Step \in Seq(Frame)
<1>1. stack # <<>> /\ stack \in Seq(Frame) /\ Top.pos < Len(tree[Top.node].body)
  BY DEF MoreLines, BrowseInv, Body
<1>2. Depth \in Nat /\ Depth \in 1 .. Depth /\ Len(stack) = Depth /\ Top = stack[Depth]
      /\ Top \in Frame
  <2>1. Len(stack) \in Nat /\ Len(stack) > 0
    BY <1>1, FrameTypes
  <2>2. Len(stack) \in 1 .. Len(stack)
    BY <2>1
  <2> QED
    BY <1>1, <2>1, <2>2, FrameTypes DEF Depth, Top
<1>3. Top.pos \in Nat
  BY <1>2 DEF Frame
<1>4. VisitOK(Depth) /\ Top.node \notin Listed
  BY <1>2 DEF BrowseInv
<1>5. Top.node \in DOMAIN tree
  BY <1>2, <1>4 DEF VisitOK
<1>6. tree[Top.node].body \in Lines
  BY <1>5 DEF Forest
<1>7. ASSUME NEW f \in Lines, NEW p \in Nat, p < Len(f)
      PROVE  p + 1 \in 1 .. Len(f) /\ f # <<>> /\ f[p + 1] \in Line(Node \ {Root})
  <2>1. p + 1 \in 1 .. Len(f)
    BY <1>7 DEF Lines
  <2> QED
    BY <1>7, <2>1 DEF Lines
<1>8. /\ Top.pos + 1 \in 1 .. Len(tree[Top.node].body) /\ tree[Top.node].body # <<>>
      /\ Current \in Line(Node \ {Root}) /\ Current = tree[Top.node].body[Top.pos + 1]
  BY <1>1, <1>3, <1>6, <1>7 DEF Current, Body
<1>9. Rooted(tree, Top.node) /\ Len(tree[Top.node].link) = Depth
  BY <1>2, <1>4, <1>8 DEF VisitOK
<1>10. Current.id \in Node \ {Root}
  BY <1>8 DEF Line
<1>11. Current.id \notin Listed
  <2> SUFFICES ASSUME Current.id \in Listed PROVE FALSE
    OBVIOUS
  <2>a. PICK m \in DOMAIN tree : \E j \in 1 .. Len(tree[m].body) :
          Rooted(tree, m) /\ tree[m].body[j].id = Current.id /\ Passed(m, j)
    BY DEF BrowseInv
  <2>1. PICK j \in 1 .. Len(tree[m].body) :
          Rooted(tree, m) /\ tree[m].body[j].id = Current.id /\ Passed(m, j)
    BY <2>a
  <2>2. m = Top.node /\ j = Top.pos + 1
    BY <1>5, <1>8, <1>9, <2>1 DEF Forest, LinesDiffer
  <2>3. PICK i \in 1 .. Depth :
          /\ stack[i].node = m
          /\ j < stack[i].pos \/ (j = stack[i].pos /\ i = Len(stack))
    BY <1>2, <1>4, <2>1, <2>2 DEF Passed
  <2>4. i = Depth
    <3>1. Len(tree[stack[i].node].link) = i
      BY <1>2, <1>8, <2>2, <2>3 DEF BrowseInv, VisitOK
    <3> QED
      BY <1>9, <2>2, <2>3, <3>1
  <2> QED
    BY <1>2, <1>3, <2>2, <2>3, <2>4
<1>12. ReadOn(stack, Step)
  BY <1>1, <1>10, StepReads
<1>13. Len(Step) = Depth /\ Step \in Seq(Frame)
  <2> DEFINE stepped == [Top EXCEPT !.pos = @ + 1]
  <2>1. stepped \in Frame
    BY <1>2 DEF Frame
  <2>2. Step = [stack EXCEPT ![Depth] = stepped]
    BY <1>2 DEF Step
  <2> HIDE DEF stepped
  <2> QED
    BY <1>1, <1>2, <2>1, <2>2
<1> QED
  BY <1>2, <1>3, <1>4, <1>5, <1>8, <1>9, <1>10, <1>11, <1>12, <1>13

(* What was passed stays so when one more line has been read.              *)
LEMMA PassedStays ==
  ASSUME stack \in Seq(Frame), ReadOn(stack, stack'), Len(stack') \in Nat,
         Len(stack') >= Len(stack), Listed \subseteq Listed',
         NEW m, NEW j \in Nat, Passed(m, j)
  PROVE  Passed(m, j)'
<1>1. CASE m \in Listed
  BY <1>1 DEF Passed
<1>2. CASE m \notin Listed
  <2>1. PICK i \in 1 .. Len(stack) :
          /\ stack[i].node = m
          /\ j < stack[i].pos \/ (j = stack[i].pos /\ i = Len(stack))
    BY <1>2 DEF Passed
  <2>2. /\ stack'[i].node = m /\ stack[i].pos \in Nat /\ i \in 1 .. Len(stack')
        /\ stack'[i].pos = IF i = Len(stack) THEN stack[i].pos + 1 ELSE stack[i].pos
    BY <2>1, FrameTypes DEF ReadOn
  <2>3. j < stack'[i].pos
    BY <2>1, <2>2
  <2> QED
    BY <2>2, <2>3 DEF Passed
<1> QED
  BY <1>1, <1>2

(* The calls below the one that read on, and that one.                     *)
LEMMA VisitStays ==
  ASSUME Forest(tree), BrowseInv, MoreLines, ReadOn(stack, stack'), tree' = tree,
         Len(stack') \in Nat, Len(stack') >= Depth,
         Len(stack') > Depth => stack'[Depth + 1].node = Current.id
  PROVE  \A i \in 1 .. Depth : VisitOK(i)' /\ stack'[i].node = stack[i].node
<1>1. /\ Depth \in Nat /\ Depth \in 1 .. Depth /\ Len(stack) = Depth /\ Top = stack[Depth]
      /\ Top.pos \in Nat /\ Top.pos + 1 \in 1 .. Len(tree[Top.node].body)
      /\ Current = tree[Top.node].body[Top.pos + 1]
      /\ tree[Top.node].body # <<>>
  BY BrowsedLine
<1>2. ASSUME NEW i \in 1 .. Depth PROVE VisitOK(i)'
  <2>1. VisitOK(i)
    BY <1>1 DEF BrowseInv
  <2>2. /\ stack'[i].node = stack[i].node
        /\ stack'[i].pos = IF i = Depth THEN stack[i].pos + 1 ELSE stack[i].pos
    BY <1>1 DEF ReadOn
  <2>3. CASE i = Depth
    <3>1. /\ stack'[i].node = Top.node /\ stack'[i].pos = Top.pos + 1
          /\ Top.pos + 1 > 0 /\ Top.pos + 1 <= Len(tree[Top.node].body)
      BY <1>1, <2>2, <2>3
    <3>2. i < Len(stack') => stack'[i + 1].node = Current.id
      BY <2>3
    <3>3. /\ Top.node \in DOMAIN tree
          /\ Rooted(tree, Top.node) /\ Len(tree[Top.node].link) = i
      BY <2>3, BrowsedLine
    <3> QED
      BY <1>1, <3>1, <3>2, <3>3 DEF VisitOK
  <2>4. CASE i # Depth
    <3>1. i + 1 \in 1 .. Depth /\ i < Depth
      BY <1>1, <2>4
    <3>2. stack'[i + 1].node = stack[i + 1].node /\ stack'[i].pos = stack[i].pos
      BY <1>1, <2>4, <3>1 DEF ReadOn
    <3> QED
      BY <1>1, <2>1, <2>2, <3>1, <3>2 DEF VisitOK
  <2> QED
    BY <2>3, <2>4
<1> QED
  BY <1>1, <1>2 DEF ReadOn

(* The package that the line leads to was not printed, nor is any package  *)
(* twice on the way.                                                       *)
LEMMA BrowseDownOnce ==
  ASSUME Forest(tree), BrowseInv, BrowseDown
  PROVE  BrowseInv'
<1> DEFINE call == [node |-> Current.id, pos |-> 0, remove |-> <<>>]
<1>1. /\ MoreLines /\ HasBody(Current.id) /\ stack' = Append(Step, call)
      /\ tree' = tree /\ list' = list
  BY DEF BrowseDown
<1>2. /\ Depth \in Nat /\ Depth \in 1 .. Depth /\ Len(stack) = Depth /\ Top = stack[Depth]
      /\ Top.node \in DOMAIN tree /\ Top.pos \in Nat
      /\ Top.pos + 1 \in 1 .. Len(tree[Top.node].body)
      /\ Current = tree[Top.node].body[Top.pos + 1]
      /\ Current.id \in Node \ {Root} /\ Current.id \notin Listed
      /\ Rooted(tree, Top.node) /\ Len(tree[Top.node].link) = Depth
      /\ ReadOn(stack, Step) /\ Len(Step) = Depth /\ Step \in Seq(Frame)
  BY <1>1, BrowsedLine
<1>3. call \in Frame /\ call.node = Current.id /\ call.pos = 0
  BY <1>2 DEF Frame
<1>4. /\ stack' \in Seq(Frame) /\ Len(stack') = Depth + 1 /\ stack'[Depth + 1] = call
      /\ \A i \in 1 .. Depth : stack'[i] = Step[i]
  <2> DEFINE s == Step
  <2>1. s \in Seq(Frame) /\ Len(s) = Depth /\ stack' = Append(s, call)
    BY <1>1, <1>2
  <2> HIDE DEF s, call
  <2>2. /\ Append(s, call) \in Seq(Frame) /\ Len(Append(s, call)) = Len(s) + 1
        /\ Append(s, call)[Len(s) + 1] = call
        /\ \A i \in 1 .. Len(s) : Append(s, call)[i] = s[i]
    BY <1>3, <2>1
  <2> QED
    BY <2>1, <2>2 DEF s
<1> HIDE DEF call
<1>5. ReadOn(stack, stack')
  BY <1>2, <1>4 DEF ReadOn
<1>6. Listed' = Listed /\ list' \in Seq(Node)
  BY <1>1 DEF Listed, BrowseInv
<1>7. \A i \in 1 .. Depth : VisitOK(i)' /\ stack'[i].node = stack[i].node
  <2>1. Len(stack') \in Nat /\ Len(stack') >= Depth
        /\ (Len(stack') > Depth => stack'[Depth + 1].node = Current.id)
    BY <1>2, <1>3, <1>4
  <2> QED
    BY <1>1, <1>5, <2>1, VisitStays
<1>a. PICK d : d = Depth
  OBVIOUS
<1>8. VisitOK(d + 1)'
  <2> DEFINE id == Current.id
  <2>1. id \in DOMAIN tree /\ tree[id].body # <<>>
    BY <1>1 DEF HasBody
  <2>2. Rooted(tree, id) /\ Len(tree[id].link) = Depth + 1
    BY <1>2, <2>1 DEF Forest, LinesLead
  <2>3. 0 <= Len(tree[id].body)
    <3>1. \A f \in Lines : 0 <= Len(f)
      BY DEF Lines
    <3> QED
      BY <2>1, <3>1 DEF Forest
  <2>4. ~ d + 1 < Len(stack')
    BY <1>2, <1>4, <1>a
  <2>5. stack'[d + 1].node = id /\ stack'[d + 1].pos = 0
    BY <1>3, <1>4, <1>a
  <2>6. Len(tree[id].link) = d + 1
    BY <1>a, <2>2
  <2> HIDE DEF id
  <2> QED
    BY <1>1, <2>1, <2>2, <2>3, <2>4, <2>5, <2>6 DEF VisitOK
<1>9. \A i \in 1 .. Len(stack') : VisitOK(i)' /\ stack'[i].node \notin Listed'
  <2>1. \A i \in 1 .. d + 1 : i \in 1 .. d \/ i = d + 1
    BY <1>2, <1>a
  <2>2. \A i \in 1 .. Depth : stack[i].node \notin Listed
    BY <1>2 DEF BrowseInv
  <2> QED
    BY <1>2, <1>3, <1>4, <1>6, <1>7, <1>8, <1>a, <2>1, <2>2
<1>10. stack'[1].node = Root
  <2>1. 1 \in 1 .. Depth /\ stack # <<>>
    BY <1>1, <1>2 DEF MoreLines
  <2> QED
    BY <1>7, <2>1 DEF BrowseInv
<1>11. ASSUME NEW id \in Listed'
       PROVE  \E m \in DOMAIN tree' : \E j \in 1 .. Len(tree'[m].body) :
                Rooted(tree', m) /\ tree'[m].body[j].id = id /\ Passed(m, j)'
  <2>1. PICK m \in DOMAIN tree : \E j \in 1 .. Len(tree[m].body) :
          Rooted(tree, m) /\ tree[m].body[j].id = id /\ Passed(m, j)
    BY <1>6 DEF BrowseInv
  <2>2. PICK j \in 1 .. Len(tree[m].body) :
          Rooted(tree, m) /\ tree[m].body[j].id = id /\ Passed(m, j)
    BY <2>1
  <2>3. Passed(m, j)'
    <3>1. j \in Nat /\ stack \in Seq(Frame)
      BY DEF BrowseInv
    <3>2. Len(stack') \in Nat /\ Len(stack') >= Len(stack) /\ Listed \subseteq Listed'
      BY <1>2, <1>4, <1>6
    <3> QED
      BY <1>5, <2>2, <3>1, <3>2, PassedStays
  <2> QED
    BY <1>1, <2>2, <2>3
<1> QED
  BY <1>4, <1>6, <1>9, <1>10, <1>11 DEF BrowseInv

(* A package without lines of its own is printed: no other line led to it. *)
LEMMA BrowseLeafOnce ==
  ASSUME Forest(tree), BrowseInv, BuiltOnce, BrowseLeaf
  PROVE  BrowseInv' /\ BuiltOnce'
<1> DEFINE x == Current.id
<1>1. /\ MoreLines /\ ~ HasBody(x) /\ stack' = Step
      /\ tree' = tree /\ list' = Append(list, x)
  BY DEF BrowseLeaf
<1>2. /\ Depth \in Nat /\ Depth \in 1 .. Depth /\ Len(stack) = Depth /\ Top = stack[Depth]
      /\ Top.node \in DOMAIN tree /\ Top.pos \in Nat
      /\ Top.pos + 1 \in 1 .. Len(tree[Top.node].body)
      /\ Current = tree[Top.node].body[Top.pos + 1]
      /\ x \in Node \ {Root} /\ x \notin Listed
      /\ Rooted(tree, Top.node)
      /\ ReadOn(stack, stack') /\ Len(stack') = Depth /\ stack' \in Seq(Frame)
  BY <1>1, BrowsedLine
<1>3. tree[Top.node].body[Top.pos + 1].id = x
  BY <1>2
<1> HIDE DEF x
<1>4. Listed' = Listed \cup {x} /\ BuiltOnce' /\ list' \in Seq(Node)
  <2>1. list \in Seq(Node)
    BY DEF BrowseInv
  <2> QED
    BY <1>1, <1>2, <2>1, OneMoreListed
<1>5. \A i \in 1 .. Depth : VisitOK(i)' /\ stack'[i].node = stack[i].node
  <2>1. Len(stack') \in Nat /\ Len(stack') >= Depth
        /\ (Len(stack') > Depth => stack'[Depth + 1].node = Current.id)
    BY <1>2
  <2> QED
    BY <1>1, <1>2, <2>1, VisitStays
<1>6. ASSUME NEW i \in 1 .. Depth PROVE stack[i].node # x
  <2>1. VisitOK(i)
    BY <1>2 DEF BrowseInv
  <2>2. CASE i = 1
    <3>1. stack[1].node = Root
      BY <1>1 DEF BrowseInv, MoreLines
    <3> QED
      BY <1>2, <2>2, <3>1
  <2>3. CASE i # 1
    <3>1. i > 1
      BY <1>2, <2>3
    <3> QED
      BY <1>1, <2>1, <3>1 DEF VisitOK, HasBody
  <2> QED
    BY <2>2, <2>3
<1>7. \A i \in 1 .. Len(stack') : VisitOK(i)' /\ stack'[i].node \notin Listed'
  <2>1. \A i \in 1 .. Depth : stack[i].node \notin Listed
    BY <1>2 DEF BrowseInv
  <2> QED
    BY <1>2, <1>4, <1>5, <1>6, <2>1
<1>8. stack'[1].node = Root
  <2>1. 1 \in 1 .. Depth /\ stack # <<>>
    BY <1>1, <1>2 DEF MoreLines
  <2> QED
    BY <1>5, <2>1 DEF BrowseInv
<1>9. ASSUME NEW id \in Listed'
      PROVE  \E m \in DOMAIN tree' : \E j \in 1 .. Len(tree'[m].body) :
               Rooted(tree', m) /\ tree'[m].body[j].id = id /\ Passed(m, j)'
  <2>1. CASE id = x
    <3>1. stack'[Depth].node = Top.node /\ stack'[Depth].pos = Top.pos + 1
      BY <1>2 DEF ReadOn
    <3>2. PICK m, j : m = Top.node /\ j = Top.pos + 1
      OBVIOUS
    <3>3. PICK i : i = Depth
      OBVIOUS
    <3>4. stack'[i].node = m /\ stack'[i].pos = j /\ i = Len(stack') /\ i \in 1 .. Len(stack')
      BY <1>2, <3>1, <3>2, <3>3
    <3>5. Passed(m, j)'
      BY <3>4 DEF Passed
    <3>6. /\ m \in DOMAIN tree /\ j \in 1 .. Len(tree[m].body) /\ Rooted(tree, m)
          /\ tree[m].body[j].id = id
      BY <1>2, <1>3, <2>1, <3>2
    <3> QED
      BY <1>1, <3>5, <3>6
  <2>2. CASE id # x
    <3>1. PICK m \in DOMAIN tree : \E j \in 1 .. Len(tree[m].body) :
            Rooted(tree, m) /\ tree[m].body[j].id = id /\ Passed(m, j)
      BY <1>4, <2>2 DEF BrowseInv
    <3>2. PICK j \in 1 .. Len(tree[m].body) :
            Rooted(tree, m) /\ tree[m].body[j].id = id /\ Passed(m, j)
      BY <3>1
    <3>3. Passed(m, j)'
      <4>1. j \in Nat /\ stack \in Seq(Frame)
        BY DEF BrowseInv
      <4>2. Len(stack') \in Nat /\ Len(stack') >= Len(stack) /\ Listed \subseteq Listed'
        BY <1>2, <1>4
      <4> QED
        BY <1>2, <3>2, <4>1, <4>2, PassedStays
    <3> QED
      BY <1>1, <3>2, <3>3
  <2> QED
    BY <2>1, <2>2
<1> QED
  BY <1>2, <1>4, <1>7, <1>8, <1>9 DEF BrowseInv

(* A package is printed after its dependencies: its call was the only one  *)
(* for it.                                                                 *)
LEMMA BrowseUpOnce ==
  ASSUME Forest(tree), BrowseInv, BuiltOnce, BrowseUp
  PROVE  BuiltOnce' /\ (mode' = "browse" => BrowseInv')
<1>1. /\ mode = "browse" /\ stack # <<>> /\ stack' = Front(stack) /\ tree' = tree
      /\ list' = IF Depth = 1 THEN list ELSE Append(list, Top.node)
      /\ mode' = IF Depth = 1 THEN "done" ELSE mode
  BY DEF BrowseUp
<1>2. CASE Depth = 1
  BY <1>1, <1>2 DEF BuiltOnce
<1>3. CASE Depth # 1
  <2>1. stack \in Seq(Frame) /\ list \in Seq(Node)
    BY DEF BrowseInv
  <2>2. PICK d : d = Len(stack) /\ d \in Nat /\ d > 1 /\ d \in 1 .. d /\ d - 1 \in 1 .. d - 1
    <3> DEFINE d == Len(stack)
    <3>1. d \in Nat /\ d > 0 /\ d # 1
      BY <1>1, <1>3, <2>1, FrameTypes DEF Depth
    <3> HIDE DEF d
    <3>2. d > 1 /\ d \in 1 .. d /\ d - 1 \in 1 .. d - 1
      BY <3>1
    <3> QED
      BY <3>1, <3>2 DEF d
  <2>3. PICK x : x = Top.node /\ x = stack[d].node
    BY <2>2 DEF Top, Depth
  <2>4. /\ Len(stack') = d - 1 /\ stack' \in Seq(Frame)
        /\ \A i \in 1 .. d - 1 : /\ stack'[i] = stack[i] /\ i \in 1 .. d /\ i < d
                                 /\ i + 1 \in 1 .. d
                                 /\ i < d - 1 => i + 1 \in 1 .. d - 1
    BY <1>1, <2>1, <2>2 DEF Front
  <2>5. x \in DOMAIN tree /\ x \in Node /\ x \notin Listed /\ Len(tree[x].link) = d
    BY <2>1, <2>2, <2>3, FrameTypes DEF BrowseInv, VisitOK
  <2>6. ASSUME NEW i \in 1 .. d - 1
        PROVE  LET m == stack[i].node
               IN /\ m \in DOMAIN tree /\ m \notin Listed /\ m # x
                  /\ tree[m].body # <<>> /\ Rooted(tree, m)
                  /\ stack[i].pos \in 1 .. Len(tree[m].body)
                  /\ tree[m].body[stack[i].pos].id = stack[i + 1].node
    <3> DEFINE m == stack[i].node
    <3>1. i \in 1 .. d /\ i < d
      BY <2>4
    <3>2. VisitOK(i) /\ m \notin Listed /\ stack[i].pos \in Nat
      BY <2>1, <2>2, <3>1, FrameTypes DEF BrowseInv
    <3>3. /\ m \in DOMAIN tree /\ stack[i].pos > 0 /\ stack[i].pos <= Len(tree[m].body)
          /\ tree[m].body[stack[i].pos].id = stack[i + 1].node
      BY <2>2, <3>1, <3>2 DEF VisitOK
    <3>4. \A f \in Lines : Len(f) \in Nat /\ (f # <<>> <=> Len(f) > 0)
      BY DEF Lines
    <3>5. tree[m].body \in Lines
      BY <3>3 DEF Forest
    <3>6. stack[i].pos \in 1 .. Len(tree[m].body) /\ tree[m].body # <<>>
      BY <3>2, <3>3, <3>4, <3>5
    <3>7. Rooted(tree, m) /\ Len(tree[m].link) = i
      BY <3>2, <3>6 DEF VisitOK
    <3>8. m # x
      BY <2>5, <3>1, <3>7
    <3> QED
      BY <3>2, <3>3, <3>6, <3>7, <3>8
  <2>7. list' = Append(list, x) /\ mode' = "browse"
    BY <1>1, <1>3, <2>3
  <2>8. Listed' = Listed \cup {x} /\ BuiltOnce' /\ list' \in Seq(Node)
    BY <2>1, <2>5, <2>7, OneMoreListed
  <2>9. ASSUME NEW i \in 1 .. Len(stack')
        PROVE  VisitOK(i)' /\ stack'[i].node \notin Listed'
    <3>1. i \in 1 .. d - 1 /\ VisitOK(i)
      BY <2>2, <2>4 DEF BrowseInv
    <3>2. stack'[i] = stack[i] /\ (i < Len(stack') => stack'[i + 1] = stack[i + 1] /\ i < d)
      BY <2>4, <3>1
    <3>3. VisitOK(i)'
      BY <1>1, <2>2, <3>1, <3>2 DEF VisitOK
    <3> QED
      BY <2>6, <2>8, <3>1, <3>2, <3>3
  <2>10. stack'[1].node = Root
    <3>1. 1 \in 1 .. d - 1
      BY <2>2
    <3> QED
      BY <1>1, <2>4, <3>1 DEF BrowseInv
  <2>11. ASSUME NEW id \in Listed'
         PROVE  \E m \in DOMAIN tree' : \E j \in 1 .. Len(tree'[m].body) :
                  Rooted(tree', m) /\ tree'[m].body[j].id = id /\ Passed(m, j)'
    <3>1. CASE id = x
      <4>1. PICK m, j, i : m = stack[d - 1].node /\ j = stack[d - 1].pos /\ i = d - 1
        OBVIOUS
      <4>2. /\ m \in DOMAIN tree /\ j \in 1 .. Len(tree[m].body) /\ Rooted(tree, m)
            /\ tree[m].body[j].id = x
        <5>1. (d - 1) + 1 = d
          BY <2>2
        <5> QED
          BY <2>2, <2>3, <2>6, <4>1, <5>1
      <4>3. stack'[i].node = m /\ stack'[i].pos = j /\ i = Len(stack') /\ i \in 1 .. Len(stack')
        BY <2>2, <2>4, <4>1
      <4>4. Passed(m, j)'
        BY <4>3 DEF Passed
      <4> QED
        BY <1>1, <3>1, <4>2, <4>4
    <3>2. CASE id # x
      <4>1. PICK m \in DOMAIN tree : \E j \in 1 .. Len(tree[m].body) :
              Rooted(tree, m) /\ tree[m].body[j].id = id /\ Passed(m, j)
        BY <2>8, <3>2 DEF BrowseInv
      <4>2. PICK j \in 1 .. Len(tree[m].body) :
              Rooted(tree, m) /\ tree[m].body[j].id = id /\ Passed(m, j)
        BY <4>1
      <4>3. Passed(m, j)'
        <5>1. CASE m \in Listed'
          BY <5>1 DEF Passed
        <5>2. CASE m \notin Listed'
          <6>1. m \notin Listed /\ m # x
            BY <2>8, <5>2
          <6>2. PICK i \in 1 .. d :
                  /\ stack[i].node = m
                  /\ j < stack[i].pos \/ (j = stack[i].pos /\ i = d)
            BY <2>2, <4>2, <6>1 DEF Passed
          <6>3. i # d
            BY <2>3, <6>1, <6>2
          <6>4. i \in 1 .. d - 1 /\ i \in 1 .. Len(stack') /\ stack'[i] = stack[i]
            BY <2>2, <2>4, <6>3
          <6> QED
            BY <6>2, <6>3, <6>4 DEF Passed
        <5> QED
          BY <5>1, <5>2
      <4> QED
        BY <1>1, <4>2, <4>3
    <3> QED
      BY <3>1, <3>2
  <2> QED
    BY <2>4, <2>8, <2>9, <2>10, <2>11 DEF BrowseInv
<1> QED
  BY <1>2, <1>3

(* The invariant holds of the file root.tree and of its call, which has    *)
(* read nothing.                                                           *)
LEMMA InitOnce == Init => BuiltInv
<1> SUFFICES ASSUME Init PROVE BuiltInv
  OBVIOUS
<1>1. IInv /\ mode = "build" /\ ret = 0 /\ list = <<>>
  BY InitInv DEF Init
<1>2. BuildInv /\ TreeOK(stack, tree)
  BY <1>1 DEF IInv, BuildInv
<1>3. /\ DOMAIN tree = {Root} /\ tree[Root].link = <<1>> /\ tree[Root].prios = <<1>>
      /\ tree[Root].body = graph[Root] /\ Root \in Node /\ graph[Root] \in Lines
  BY DepTreeAssumption DEF Init, GraphOn, Lines
<1> DEFINE first == [node |-> Root, pos |-> 0, remove |-> <<>>]
<1>4. first.node = Root /\ first.pos = 0 /\ first.remove = <<>>
  OBVIOUS
<1>5. stack = <<first>>
  BY DEF Init
<1> HIDE DEF first
<1>6. Len(stack) = 1 /\ stack[1] = first
  BY <1>5
<1>7. Len(<<1>>) = 1 /\ <<1>> # <<>> /\ <<1>>[1] = 1 /\ <<1>> \in Seq(Nat)
  OBVIOUS
<1>8. ReadTo(stack, tree, Root) = 0 /\ Flags(stack, tree, Root) = <<>>
  <2>1. 1 \in 1 .. 1
    OBVIOUS
  <2>2. InCall(stack, tree, Root)
    BY <1>3, <1>4, <1>6, <1>7, <2>1 DEF InCall
  <2> QED
    BY <1>3, <1>4, <1>6, <1>7, <2>2 DEF ReadTo, Flags
<1>9. \A m \in DOMAIN tree, id \in Node :
        Read(stack, tree, m, id) = 0 /\ Flagged(stack, tree, m, id) = 0
  <2>1. Len(<<>>) = 0
    OBVIOUS
  <2> QED
    BY <1>3, <1>8, <2>1, CountStep DEF Read, Flagged
<1>10. UniqueOK(stack, tree)
  <2>1. \A m \in DOMAIN tree, id \in Node : ~ Lists(stack, tree, m, id)
    BY <1>9 DEF Lists
  <2>2. AtMostOnce(stack, tree) /\ OneLister(stack, tree) /\ ListerAbove(stack, tree)
    BY <1>9, <2>1 DEF AtMostOnce, OneLister, ListerAbove
  <2>3. LinksDiffer(tree)
    BY <1>3 DEF LinksDiffer
  <2>4. FilesOK(tree)
    <3>1. Len(tree[Root].link) <= 1 /\ tree[Root].link # <<>>
      BY <1>3, <1>7
    <3> QED
      BY <1>3, <3>1 DEF FilesOK
  <2> QED
    BY <2>2, <2>3, <2>4 DEF UniqueOK
<1>11. CallsListed(stack, tree)
  <2>1. \A i \in 1 .. 1 : ~ i < 1
    OBVIOUS
  <2> QED
    BY <1>4, <1>6, <2>1 DEF CallsListed
<1>12. PriosOK(stack, tree)
  <2>1. \A i \in 1 .. 1 : i = 1 /\ 1 .. i - 1 = {}
    OBVIOUS
  <2> QED
    BY <1>3, <1>4, <1>6, <1>7, <2>1 DEF PriosOK
<1>13. OnceInv
  BY <1>1, <1>2, <1>10, <1>11, <1>12 DEF OnceInv, OnceOK
<1>14. BuiltOnce
  <2>1. Len(list) = 0
    BY <1>1
  <2> QED
    BY <2>1 DEF BuiltOnce
<1> QED
  BY <1>1, <1>13, <1>14 DEF BuiltInv

(* Each step of the pass keeps the invariant.                              *)
LEMMA NextOnce == ASSUME BuiltInv, [Next]_vars PROVE BuiltInv'
<1>1. IInv'
  BY NextKeeps DEF BuiltInv
<1>2. CASE UNCHANGED vars
  <2>1. OnceInv => OnceInv'
    BY <1>2 DEF vars, OnceInv, BackingUp, Receivers
  <2>2. BrowseInv => BrowseInv'
    <3>1. \A i : VisitOK(i)' <=> VisitOK(i)
      BY <1>2 DEF vars, VisitOK
    <3>2. Listed' = Listed
      BY <1>2 DEF vars, Listed
    <3>3. \A m, j : Passed(m, j)' <=> Passed(m, j)
      BY <1>2, <3>2 DEF vars, Passed
    <3> QED
      BY <1>2, <3>1, <3>2, <3>3 DEF vars, BrowseInv
  <2>3. BuiltOnce'
    BY <1>2 DEF vars, BuiltInv, BuiltOnce
  <2>4. mode' = mode /\ tree' = tree
    BY <1>2 DEF vars
  <2> QED
    BY <1>1, <2>1, <2>2, <2>3, <2>4 DEF BuiltInv
<1>3. CASE Prune \/ BackUp \/ BuiltElsewhere \/ Leaf \/ Descend \/ Return \/ Move \/ KeepBackingUp
  <2>1. mode = "build" /\ mode' = "build"
    BY <1>3 DEF Building, Prune, BackUp, BuiltElsewhere, Leaf, Descend, Return, Move,
                KeepBackingUp
  <2>2. BuildInv /\ OnceInv /\ IInv
    BY <2>1 DEF BuiltInv, IInv
  <2>3. OnceInv'
    BY <1>3, <2>2, PruneOnce, BackUpOnce, LeafOnce, DescendOnce, ReturnOnce, MoveOnce,
       KeepBackingUpOnce
  <2>4. BuiltOnce'
    <3>1. Len(list') = 0
      BY <2>3 DEF OnceInv
    <3> QED
      BY <3>1 DEF BuiltOnce
  <2> QED
    BY <1>1, <2>1, <2>3, <2>4 DEF BuiltInv
<1>4. CASE EmptyLink
  <2>1. mode' = "exit" /\ list' = list
    BY <1>4 DEF EmptyLink
  <2> QED
    BY <1>1, <2>1 DEF BuiltInv, BuiltOnce
<1>5. CASE StartBrowse
  <2>1. mode = "build" /\ mode' = "browse" /\ list' = list
    BY <1>5 DEF StartBrowse
  <2>2. Forest(tree') /\ BrowseInv'
    BY <1>5, <2>1, BrowseStarts DEF BuiltInv, IInv
  <2> QED
    BY <1>1, <2>1, <2>2 DEF BuiltInv, BuiltOnce
<1>6. CASE BrowseDown \/ BrowseLeaf
  <2>1. mode = "browse" /\ mode' = "browse" /\ tree' = tree
    BY <1>6 DEF BrowseDown, BrowseLeaf
  <2>2. Forest(tree) /\ BrowseInv /\ BuiltOnce
    BY <2>1 DEF BuiltInv
  <2>3. BrowseInv' /\ BuiltOnce'
    <3>1. CASE BrowseDown
      <4>1. list' = list
        BY <3>1 DEF BrowseDown
      <4> QED
        BY <2>2, <3>1, <4>1, BrowseDownOnce DEF BuiltOnce
    <3>2. CASE BrowseLeaf
      BY <2>2, <3>2, BrowseLeafOnce
    <3> QED
      BY <1>6, <3>1, <3>2
  <2> QED
    BY <1>1, <2>1, <2>2, <2>3 DEF BuiltInv
<1>7. CASE BrowseUp
  <2>1. mode = "browse" /\ mode' \in {"browse", "done"} /\ tree' = tree
    BY <1>7 DEF BrowseUp
  <2>2. Forest(tree) /\ BrowseInv /\ BuiltOnce
    BY <2>1 DEF BuiltInv
  <2>3. BuiltOnce' /\ (mode' = "browse" => BrowseInv')
    BY <1>7, <2>2, BrowseUpOnce
  <2> QED
    BY <1>1, <2>1, <2>2, <2>3 DEF BuiltInv
<1> QED
  BY <1>2, <1>3, <1>4, <1>5, <1>6, <1>7 DEF Next

(* No package is built twice, whatever graph clean_subgraph leaves:        *)
(* neither the lines that a file has twice, nor those of packages that are *)
(* built already, nor the ones appended when a dependency is moved, to     *)
(* files that may list it already, lead tree_browse to a package again.    *)
THEOREM NoPackageBuiltTwice == Spec => []BuiltOnce
<1>1. Init => BuiltInv
  BY InitOnce
<1>2. BuiltInv /\ [Next]_vars => BuiltInv'
  BY NextOnce
<1>3. BuiltInv => BuiltOnce
  BY DEF BuiltInv
<1> QED
  BY <1>1, <1>2, <1>3, PTL DEF Spec
-------------------------------------------------------------------------------
(***************************************************************************)
(* No package is lost.                                                     *)
(***************************************************************************)

(* What is missing from the files, and what has not been read of them yet. *)
(* A line of <m>.dep leads to id.                                          *)
LineIn(D, m, id) == m \in DOMAIN D /\ id \in Targets(D[m])

(* A line of the file m that has not been read leads to id.                *)
Unread(S, T, m, id) ==
  \E k \in 1 .. Len(T[m].body) : k > ReadTo(S, T, m) /\ T[m].body[k].id = id

(* No file was lost with one above it, and each but root is listed in one. *)
AllListed(S, T) ==
  /\ \A m \in DOMAIN T : Rooted(T, m)
  /\ \A id \in DOMAIN T \ {Root} : \E m \in DOMAIN T : Lists(S, T, m, id)

(* A line of a file <m>.dep leads to a package that has its file, or will  *)
(* be read.                                                                *)
Covered(S, T, D) ==
  \A m \in DOMAIN T : \A id :
    LineIn(D, m, id) => id \in DOMAIN T \/ Unread(S, T, m, id)

(* Only the line that was read to call it leads from outside into the      *)
(* subtree of a call in progress, of the lines that will not be read.      *)
LeadsInto(T, D, n, m, id) ==
  /\ LineIn(D, m, id)
  /\ StartsWith(T[id].link, T[n].link) /\ ~ StartsWith(T[m].link, T[n].link)

Separate(S, T, D) ==
  \A i \in 2 .. Len(S) : \A m, id \in DOMAIN T :
    LeadsInto(T, D, S[i].node, m, id) =>
      Unread(S, T, m, id) \/ (m = S[i - 1].node /\ id = S[i].node)

(* What is read, and what will be, depends on lines of the files <m>.dep   *)
(* of the calls in progress up to that, or is one of these calls.          *)
Fed(S, T, D) ==
  /\ \A i \in 1 .. Len(S) : S[i].node \in DOMAIN D
  /\ \A j \in 2 .. Len(S) : \E i \in 1 .. j - 1 : LineIn(D, S[i].node, S[j].node)
  /\ \A j \in 1 .. Len(S) : \A k \in S[j].pos + 1 .. Len(T[S[j].node].body) :
       \E i \in 1 .. j : \/ T[S[j].node].body[k].id = S[i].node
                         \/ LineIn(D, S[i].node, T[S[j].node].body[k].id)

(* The lines of the files <m>.dep lead from root to all that R contains.   *)
ClosedBy(D, X) == \A m \in X : \A id : LineIn(D, m, id) => id \in X

Leads(D, R) ==
  \A X \in SUBSET Node : Root \in X /\ ClosedBy(D, X) => R \subseteq X

Full(S, T, D, R) ==
  AllListed(S, T) /\ Covered(S, T, D) /\ Separate(S, T, D) /\ Fed(S, T, D) /\ Leads(D, R)

(* A call in progress is below those before it.                            *)
LEMMA StartsTrans ==
  ASSUME NEW a, NEW b, NEW c, Len(a) \in Nat, Len(b) \in Nat, Len(c) \in Nat,
         StartsWith(a, b), StartsWith(b, c)
  PROVE  StartsWith(a, c)
<1>1. \A k \in 1 .. Len(c) : k \in 1 .. Len(b)
  BY DEF StartsWith
<1> QED
  BY <1>1 DEF StartsWith

LEMMA CallsBelow ==
  ASSUME NEW S, NEW T, TreeOK(S, T), NEW j \in 1 .. Len(S), NEW i \in 1 .. j
  PROVE  i \in 1 .. Len(S) /\ StartsWith(T[S[j].node].link, T[S[i].node].link)
<1>1. Len(S) \in Nat
  BY FrameTypes DEF TreeOK
<1>2. i \in 1 .. Len(S) /\ i <= j /\ \A k \in 1 .. i : k \in 1 .. j
  BY <1>1
<1> QED
  BY <1>2 DEF TreeOK, CallOK, StartsWith, OnWay

(* The lines of the files <m>.dep lead from root to the calls in progress. *)
LEMMA CallsReached ==
  ASSUME NEW S, NEW T, TreeOK(S, T), CallsListed(S, T), NEW D, NEW X,
         \A j \in 2 .. Len(S) : \E i \in 1 .. j - 1 : LineIn(D, S[i].node, S[j].node),
         Root \in X, ClosedBy(D, X)
  PROVE  \A i \in 1 .. Len(S) : S[i].node \in X
<1> DEFINE Good == {j \in Nat : \A i \in 1 .. j : i <= Len(S) => S[i].node \in X}
<1>1. PICK d : d \in Nat /\ d = Len(S)
  BY FrameTypes DEF TreeOK
<1>2. 0 \in Good
  OBVIOUS
<1>3. ASSUME NEW j \in 0 .. d - 1, j \in Good PROVE j + 1 \in Good
  <2>1. j + 1 \in Nat /\ \A i \in 1 .. j : S[i].node \in X
    BY <1>1, <1>3
  <2>2. S[j + 1].node \in X
    <3>1. CASE j = 0
      <4>1. S # <<>>
        <5>1. S = <<>> => Len(S) = 0
          OBVIOUS
        <5> QED
          BY <1>1, <3>1, <5>1
      <4> QED
        BY <3>1, <4>1 DEF CallsListed
    <3>2. CASE j # 0
      <4>1. j + 1 \in 2 .. Len(S) /\ (j + 1) - 1 = j
        BY <1>1, <3>2
      <4>2. PICK i \in 1 .. j : LineIn(D, S[i].node, S[j + 1].node)
        BY <4>1
      <4> QED
        BY <2>1, <4>2 DEF ClosedBy
    <3> QED
      BY <3>1, <3>2
  <2>3. \A i \in 1 .. j + 1 : i \in 1 .. j \/ i = j + 1
    BY <1>1
  <2> QED
    BY <2>1, <2>2, <2>3
<1> HIDE DEF Good
<1>a. \A i \in 1 .. d : i - 1 \in Good => i \in Good
  <2>1. \A i \in 1 .. d : i - 1 \in 0 .. d - 1 /\ (i - 1) + 1 = i
    BY <1>1
  <2> QED
    BY <1>3, <2>1
<1>4. 0 .. d \subseteq Good
  BY <1>1, <1>2, <1>a, UpTo
<1>5. d \in Good
  BY <1>1, <1>4
<1> QED
  BY <1>1, <1>5 DEF Good

(* A line is read and flagged, and its target dropped from the file        *)
(* <m>.dep if its call is in progress.                                     *)
LineDropped(S, D, D2, n) ==
  /\ DOMAIN D2 = DOMAIN D
  /\ \A m, id : LineIn(D2, m, id) => LineIn(D, m, id)
  /\ \A m, id : LineIn(D, m, id) =>
       \/ LineIn(D2, m, id)
       \/ m = S[Len(S)].node /\ id = n /\ \E i \in 1 .. Len(S) : S[i].node = n

LEMMA FullFlagged ==
  ASSUME NEW S, NEW T, TreeOK(S, T), UniqueOK(S, T), CallsListed(S, T), S # <<>>,
         NEW D, NEW R, Full(S, T, D, R),
         NEW n \in Node, NextLine(S, T, n), n \in DOMAIN T,
         NEW S2, TreeOK(S2, T), FlaggedOn(S, S2, n), NEW D2, LineDropped(S, D, D2, n)
  PROVE  Full(S2, T, D2, R)
<1> DEFINE last == S[Len(S)]
           top == last.node
<1>1. PICK d : d \in Nat /\ d = Len(S) /\ d > 0 /\ d \in 1 .. d
  <2>1. Len(S) \in Nat /\ Len(S) > 0
    BY FrameTypes DEF TreeOK
  <2> QED
    BY <2>1
<1>2. /\ Len(S2) = d
      /\ \A i \in 1 .. d :
           /\ S2[i].node = S[i].node /\ S[i].pos \in Nat
           /\ S2[i].pos = IF i = d THEN S[i].pos + 1 ELSE S[i].pos
  <2>1. \A i \in 1 .. d : S[i].pos \in Nat
    BY <1>1, FrameTypes DEF TreeOK
  <2> QED
    BY <1>1, <2>1 DEF FlaggedOn
<1>3. ListsKept(S, T, S2, T) /\ StillRead(S, T, S2, T, DOMAIN T \ {top})
  BY ReadAndFlagged
<1>4. n = T[top].body[last.pos + 1].id /\ S[d] = last
  BY <1>1 DEF NextLine
<1>5. /\ top \in DOMAIN T /\ ReadTo(S, T, top) = last.pos
      /\ ReadTo(S2, T, top) = last.pos + 1 /\ last.pos \in Nat
  <2>1. top \in DOMAIN T /\ ReadTo(S, T, top) = last.pos
    BY <1>1, <1>4, CallFacts
  <2>2. ReadTo(S2, T, S2[d].node) = S2[d].pos
    BY <1>1, <1>2, CallFacts
  <2> QED
    BY <1>1, <1>2, <1>4, <2>1, <2>2
<1> HIDE DEF last
<1>6. ASSUME NEW m \in DOMAIN T, NEW id, Unread(S, T, m, id)
      PROVE  Unread(S2, T, m, id) \/ (m = top /\ id = n)
  <2>1. PICK k \in 1 .. Len(T[m].body) : k > ReadTo(S, T, m) /\ T[m].body[k].id = id
    BY <1>6 DEF Unread
  <2>2. CASE m # top
    <3>1. ReadTo(S2, T, m) = ReadTo(S, T, m)
      BY <1>3, <2>2 DEF StillRead
    <3> QED
      BY <2>1, <3>1 DEF Unread
  <2>3. CASE m = top
    <3>1. k = last.pos + 1 \/ k > last.pos + 1
      BY <1>5, <2>1, <2>3
    <3> QED
      BY <1>4, <1>5, <2>1, <2>3, <3>1 DEF Unread
  <2> QED
    BY <2>2, <2>3
<1>7. /\ DOMAIN D2 = DOMAIN D
      /\ \A m, id : LineIn(D2, m, id) => LineIn(D, m, id)
      /\ \A m, id : LineIn(D, m, id) =>
           LineIn(D2, m, id) \/ (m = top /\ id = n /\ \E i \in 1 .. d : S[i].node = n)
  BY <1>1 DEF LineDropped, last
<1>8. AllListed(S2, T)
  BY <1>3 DEF Full, AllListed, ListsKept
<1>9. Covered(S2, T, D2)
  BY <1>6, <1>7 DEF Full, Covered
<1>10. Separate(S2, T, D2)
  <2> SUFFICES ASSUME NEW i \in 2 .. d, NEW m \in DOMAIN T, NEW id \in DOMAIN T,
                      LeadsInto(T, D2, S2[i].node, m, id)
               PROVE  Unread(S2, T, m, id) \/ (m = S2[i - 1].node /\ id = S2[i].node)
    BY <1>2 DEF Separate
  <2>1. i \in 1 .. d /\ i - 1 \in 1 .. d /\ S2[i].node = S[i].node /\ S2[i - 1].node = S[i - 1].node
    BY <1>1, <1>2
  <2>2. LeadsInto(T, D, S[i].node, m, id)
    BY <1>7, <2>1 DEF LeadsInto
  <2>3. Unread(S, T, m, id) \/ (m = S[i - 1].node /\ id = S[i].node)
    BY <1>1, <2>2 DEF Full, Separate
  <2>4. m # top
    <3>1. StartsWith(T[top].link, T[S[i].node].link)
      BY <1>1, <1>4, <2>1, CallsBelow
    <3> QED
      BY <2>2, <3>1 DEF LeadsInto
  <2> QED
    BY <1>6, <2>1, <2>3, <2>4
<1>11. \A j \in 2 .. d : \E i \in 1 .. j - 1 : LineIn(D2, S[i].node, S[j].node)
  <2> SUFFICES ASSUME NEW j \in 2 .. d
               PROVE  \E i \in 1 .. j - 1 : LineIn(D2, S[i].node, S[j].node)
    OBVIOUS
  <2>1. PICK i \in 1 .. j - 1 : LineIn(D, S[i].node, S[j].node)
    BY <1>1 DEF Full, Fed
  <2>2. i \in 1 .. d /\ i # d
    BY <1>1
  <2>3. S[i].node # top
    BY <1>1, <1>4, <2>2, CallsDiffer
  <2> QED
    BY <1>7, <2>1, <2>3
<1>12. Fed(S2, T, D2)
  <2>1. \A i \in 1 .. d : S[i].node \in DOMAIN D2
    BY <1>1, <1>7 DEF Full, Fed
  <2>2. ASSUME NEW j \in 1 .. d, NEW k \in S2[j].pos + 1 .. Len(T[S[j].node].body)
        PROVE  \E i \in 1 .. j : \/ T[S[j].node].body[k].id = S[i].node
                                 \/ LineIn(D2, S[i].node, T[S[j].node].body[k].id)
    <3>1. Len(T[S[j].node].body) \in Nat
      <4>1. T[S[j].node].body \in Lines
        BY <1>1 DEF TreeOK, CallOK
      <4>2. \A f \in Lines : Len(f) \in Nat
        BY DEF Lines
      <4> QED
        BY <4>1, <4>2
    <3>2. k \in S[j].pos + 1 .. Len(T[S[j].node].body)
      BY <1>2, <2>2, <3>1
    <3>3. PICK id : id = T[S[j].node].body[k].id
      OBVIOUS
    <3>4. PICK i \in 1 .. j : id = S[i].node \/ LineIn(D, S[i].node, id)
      BY <1>1, <3>2, <3>3 DEF Full, Fed
    <3>5. CASE id = S[i].node \/ LineIn(D2, S[i].node, id)
      BY <3>3, <3>5
    <3>6. CASE ~ (id = S[i].node \/ LineIn(D2, S[i].node, id))
      <4>1. S[i].node = top /\ id = n /\ i \in 1 .. d
        BY <1>1, <1>7, <3>4, <3>6
      <4>2. i = d
        BY <1>1, <1>4, <4>1, CallsDiffer
      <4>3. j = d
        BY <1>1, <4>2
      <4> QED
        BY <1>7, <3>3, <3>4, <3>6, <4>1, <4>3
    <3> QED
      BY <3>5, <3>6
  <2>3. \A j \in 2 .. d : \A i \in 1 .. j - 1 : i \in 1 .. d /\ j \in 1 .. d
    BY <1>1
  <2>4. \A j \in 2 .. d : \E i \in 1 .. j - 1 : LineIn(D2, S2[i].node, S2[j].node)
    BY <1>2, <1>11, <2>3
  <2>5. \A j \in 1 .. d : \A i \in 1 .. j : i \in 1 .. d
    BY <1>1
  <2>6. \A i \in 1 .. d : S2[i].node \in DOMAIN D2
    BY <1>2, <2>1
  <2>7. ASSUME NEW j \in 1 .. d, NEW k \in S2[j].pos + 1 .. Len(T[S2[j].node].body)
        PROVE  \E i \in 1 .. j : \/ T[S2[j].node].body[k].id = S2[i].node
                                 \/ LineIn(D2, S2[i].node, T[S2[j].node].body[k].id)
    <3>1. S2[j].node = S[j].node /\ \A i \in 1 .. j : S2[i].node = S[i].node
      BY <1>2, <2>5
    <3> QED
      BY <2>2, <3>1
  <2> QED
    BY <1>2, <2>4, <2>6, <2>7 DEF Fed
<1>13. Leads(D2, R)
  <2> SUFFICES ASSUME NEW X \in SUBSET Node, Root \in X, ClosedBy(D2, X)
               PROVE  R \subseteq X
    BY DEF Leads
  <2>1. \A i \in 1 .. Len(S) : S[i].node \in X
    BY <1>1, <1>11, CallsReached
  <2>2. ClosedBy(D, X)
    BY <1>1, <1>7, <2>1 DEF ClosedBy
  <2> QED
    BY <2>2 DEF Full, Leads
<1> QED
  BY <1>8, <1>9, <1>10, <1>12, <1>13 DEF Full

(* The file <n>.dep has no line if the file of n is not read next, and its *)
(* lines are read then.                                                    *)
LinesToRead(S, S2, D, n, file) ==
  \/ Len(S2) = Len(S) /\ \A id : ~ LineIn(D, n, id)
  \/ Len(S2) = Len(S) + 1 /\ n \in DOMAIN D /\ file.body = D[n]

LEMMA FullAdded ==
  ASSUME NEW S, NEW T, TreeOK(S, T), UniqueOK(S, T), S # <<>>,
         NEW D, NEW R, Full(S, T, D, R),
         NEW n \in Node, n \notin DOMAIN T, NEW file, LineTo(S, T, n, file),
         NEW S2, TreeOK(S2, Put(T, n, file)), ReadOn(S, S2), Entered(S, S2, n, file),
         LinesToRead(S, S2, D, n, file)
  PROVE  Full(S2, Put(T, n, file), D, R)
<1> DEFINE T2 == Put(T, n, file)
           last == S[Len(S)]
           top == last.node
<1>1. /\ DOMAIN T2 = DOMAIN T \cup {n} /\ T2[n] = file
      /\ \A m \in DOMAIN T : T2[m] = T[m] /\ m # n
  BY DEF Put
<1>2. TreeOK(S2, T2)
  OBVIOUS
<1>3. /\ Lists(S2, T2, top, n)
      /\ \A m \in DOMAIN T, id \in Node : Lists(S, T, m, id) => Lists(S2, T2, m, id)
      /\ StillRead(S, T, S2, T2, DOMAIN T \ {top})
  BY NewFile
<1> HIDE DEF T2
<1>4. PICK d : d \in Nat /\ d = Len(S) /\ d > 0 /\ d \in 1 .. d
  <2>1. Len(S) \in Nat /\ Len(S) > 0
    BY FrameTypes DEF TreeOK
  <2> QED
    BY <2>1
<1>5. S[d] = last /\ Len(S2) \in Nat /\ Len(S2) >= d
  <2>1. Len(S2) = d \/ Len(S2) = d + 1
    BY <1>4 DEF LinesToRead
  <2> QED
    BY <1>4, <2>1
<1>6. /\ n = T[top].body[last.pos + 1].id
      /\ file.link \in Seq(Nat) /\ file.link = Append(T[top].link, last.pos + 1)
  BY DEF LineTo, NextLine
<1>7. \A i \in 1 .. d :
        /\ S2[i].node = S[i].node /\ S[i].pos \in Nat
        /\ S2[i].pos = IF i = d THEN S[i].pos + 1 ELSE S[i].pos
  <2>1. \A i \in 1 .. d : S[i].pos \in Nat
    BY <1>4, FrameTypes DEF TreeOK
  <2> QED
    BY <1>4, <2>1 DEF ReadOn
<1>8. /\ top \in DOMAIN T /\ ReadTo(S, T, top) = last.pos
      /\ ReadTo(S2, T2, top) = last.pos + 1 /\ last.pos \in Nat
      /\ Len(T[top].link) = d /\ T[top].link \in Seq(Nat)
  <2>1. top \in DOMAIN T /\ ReadTo(S, T, top) = last.pos /\ Len(T[top].link) = d
    BY <1>4, <1>5, CallFacts
  <2>2. ReadTo(S2, T2, S2[d].node) = S2[d].pos
    <3>1. d \in 1 .. Len(S2)
      BY <1>4, <1>5
    <3> QED
      BY <1>2, <3>1, CallFacts
  <2> QED
    BY <1>4, <1>5, <1>7, <2>1, <2>2, LinkTypes
<1>a. \A m \in DOMAIN T : ~ StartsWith(T[m].link, file.link)
  BY <1>6, NothingBelow
<1> HIDE DEF last
<1>9. /\ Len(file.link) = d + 1 /\ StartsWith(file.link, T[top].link)
      /\ StartsWith(file.link, file.link) /\ file.link # <<>>
  <2> DEFINE link == T[top].link
             x == last.pos + 1
  <2>1. link \in Seq(Nat) /\ x \in Nat /\ Len(link) = d /\ file.link = Append(link, x)
    BY <1>6, <1>8
  <2> HIDE DEF link, x
  <2>2. /\ Len(Append(link, x)) = d + 1
        /\ \A k \in 1 .. d : Append(link, x)[k] = link[k]
    BY <2>1, AppendFacts
  <2>3. Len(file.link) = d + 1 /\ \A k \in 1 .. d : file.link[k] = link[k]
    BY <2>1, <2>2, Zenon
  <2>4. file.link # <<>>
    <3>1. Len(<<>>) = 0 /\ d + 1 # 0
      BY <1>4
    <3> QED
      BY <2>3, <3>1
  <2>5. d <= d + 1 /\ d + 1 <= d + 1
    BY <1>4
  <2> QED
    BY <2>1, <2>3, <2>4, <2>5 DEF link, StartsWith
<1>10. ASSUME NEW m \in DOMAIN T, NEW id, Unread(S, T, m, id)
       PROVE  Unread(S2, T2, m, id) \/ (m = top /\ id = n)
  <2>1. PICK k \in 1 .. Len(T[m].body) : k > ReadTo(S, T, m) /\ T[m].body[k].id = id
    BY <1>10 DEF Unread
  <2>2. T2[m] = T[m]
    BY <1>1
  <2>3. CASE m # top
    <3>1. ReadTo(S2, T2, m) = ReadTo(S, T, m)
      BY <1>3, <2>3 DEF StillRead
    <3> QED
      BY <2>1, <2>2, <3>1 DEF Unread
  <2>4. CASE m = top
    <3>1. k = last.pos + 1 \/ k > last.pos + 1
      BY <1>8, <2>1, <2>4
    <3> QED
      BY <1>6, <1>8, <2>1, <2>2, <2>4, <3>1 DEF Unread
  <2> QED
    BY <2>3, <2>4
<1>11. \A m \in DOMAIN T : T[m].link \in Seq(Nat) /\ Len(T[m].link) \in Nat
  BY LinkTypes
<1>12. AllListed(S2, T2)
  <2>1. ASSUME NEW m \in DOMAIN T PROVE Rooted(T2, m)
    <3>1. Rooted(T, m)
      BY DEF Full, AllListed
    <3> QED
      BY <1>1, <3>1 DEF Rooted
  <2>2. Rooted(T2, n)
    <3>1. ASSUME NEW l \in 1 .. d + 1
          PROVE  \E k \in DOMAIN T2 : Len(T2[k].link) = l /\ StartsWith(file.link, T2[k].link)
      <4>1. CASE l = d + 1
        BY <1>1, <1>9, <4>1
      <4>2. CASE l # d + 1
        <5>1. l \in 1 .. Len(T[top].link) /\ Rooted(T, top)
          BY <1>4, <1>8, <4>2 DEF Full, AllListed
        <5>2. PICK k \in DOMAIN T : Len(T[k].link) = l /\ StartsWith(T[top].link, T[k].link)
          BY <5>1 DEF Rooted
        <5>3. StartsWith(file.link, T[k].link)
          <6>1. Len(file.link) \in Nat
            BY <1>4, <1>9
          <6> QED
            BY <1>8, <1>9, <1>11, <5>2, <6>1, StartsTrans
        <5> QED
          BY <1>1, <5>2, <5>3
      <4> QED
        BY <4>1, <4>2
    <3> QED
      BY <1>1, <1>9, <3>1 DEF Rooted
  <2>3. ASSUME NEW id \in DOMAIN T2 \ {Root}
        PROVE  \E m \in DOMAIN T2 : Lists(S2, T2, m, id)
    <3>1. CASE id = n
      BY <1>1, <1>3, <1>8, <3>1
    <3>2. CASE id # n
      <4>1. id \in DOMAIN T \ {Root} /\ id \in Node
        BY <1>1, <3>2 DEF TreeOK
      <4>2. PICK m \in DOMAIN T : Lists(S, T, m, id)
        BY <4>1 DEF Full, AllListed
      <4> QED
        BY <1>1, <1>3, <4>1, <4>2
    <3> QED
      BY <3>1, <3>2
  <2> QED
    BY <1>1, <2>1, <2>2, <2>3 DEF AllListed
<1>13. Len(S2) = d + 1 => /\ S2[d + 1].node = n /\ S2[d + 1].pos = 0
                          /\ d + 1 \in 1 .. Len(S2) /\ ReadTo(S2, T2, n) = 0
                          /\ n \in DOMAIN D /\ file.body = D[n]
  <2> SUFFICES ASSUME Len(S2) = d + 1
               PROVE  /\ S2[d + 1].node = n /\ S2[d + 1].pos = 0
                      /\ d + 1 \in 1 .. Len(S2) /\ ReadTo(S2, T2, n) = 0
                      /\ n \in DOMAIN D /\ file.body = D[n]
    OBVIOUS
  <2>1. d + 1 # d /\ d + 1 \in 1 .. d + 1
    BY <1>4
  <2>2. S2[d + 1].node = n /\ S2[d + 1].pos = 0
    BY <1>4, <2>1 DEF Entered
  <2>3. ReadTo(S2, T2, S2[d + 1].node) = S2[d + 1].pos
    BY <1>2, <2>1, CallFacts
  <2> QED
    BY <1>4, <2>1, <2>2, <2>3 DEF LinesToRead
<1>14. ASSUME NEW id, LineIn(D, n, id)
       PROVE  Unread(S2, T2, n, id) /\ Len(S2) = d + 1
  <2>1. Len(S2) = d + 1
    BY <1>4, <1>14 DEF LinesToRead
  <2>2. PICK k \in 1 .. Len(D[n]) : D[n][k].id = id
    BY <1>14 DEF LineIn, Targets
  <2>3. k > 0
    OBVIOUS
  <2> QED
    BY <1>1, <1>13, <2>1, <2>2, <2>3 DEF Unread
<1>15. ASSUME NEW m \in DOMAIN T, NEW id, LineIn(D, m, id), id \notin DOMAIN T
       PROVE  Unread(S2, T2, m, id) \/ (m = top /\ id = n)
  BY <1>10, <1>15 DEF Full, Covered
<1>16. Covered(S2, T2, D)
  <2> SUFFICES ASSUME NEW m \in DOMAIN T2, NEW id, LineIn(D, m, id)
               PROVE  id \in DOMAIN T2 \/ Unread(S2, T2, m, id)
    BY DEF Covered
  <2> QED
    BY <1>1, <1>14, <1>15
<1>17. Separate(S2, T2, D)
  <2> SUFFICES ASSUME NEW i \in 2 .. Len(S2), NEW m \in DOMAIN T2, NEW id \in DOMAIN T2,
                      LeadsInto(T2, D, S2[i].node, m, id)
               PROVE  Unread(S2, T2, m, id) \/ (m = S2[i - 1].node /\ id = S2[i].node)
    BY DEF Separate
  <2>1. LineIn(D, m, id)
    BY DEF LeadsInto
  <2>2. CASE m = n
    BY <1>14, <2>1, <2>2
  <2>3. CASE m # n /\ i \in 2 .. d
    <3>1. /\ i \in 1 .. d /\ i - 1 \in 1 .. d /\ m \in DOMAIN T
          /\ S2[i].node = S[i].node /\ S2[i - 1].node = S[i - 1].node
      BY <1>1, <1>4, <1>7, <2>3
    <3>2. S[i].node \in DOMAIN T /\ StartsWith(T[top].link, T[S[i].node].link)
      BY <1>4, <1>5, <3>1, CallsBelow, CallFacts
    <3>3. ~ StartsWith(T[m].link, T[S[i].node].link) /\ m # top
      BY <1>1, <3>1, <3>2 DEF LeadsInto
    <3>4. CASE id = n
      <4>1. Unread(S2, T2, m, id) \/ (m = top /\ id = n)
        BY <1>15, <2>1, <3>1, <3>4
      <4> QED
        BY <3>3, <4>1
    <3>5. CASE id # n
      <4>1. id \in DOMAIN T /\ LeadsInto(T, D, S[i].node, m, id)
        BY <1>1, <3>1, <3>2, <3>5 DEF LeadsInto
      <4>2. Unread(S, T, m, id) \/ (m = S[i - 1].node /\ id = S[i].node)
        BY <1>4, <2>3, <3>1, <4>1 DEF Full, Separate
      <4> QED
        BY <1>10, <3>1, <3>3, <4>2
    <3> QED
      BY <3>4, <3>5
  <2>4. CASE m # n /\ i \notin 2 .. d
    <3>1. i = d + 1 /\ Len(S2) = d + 1 /\ i - 1 = d
      <4>1. Len(S2) = d \/ Len(S2) = d + 1
        BY <1>4 DEF LinesToRead
      <4> QED
        BY <1>4, <2>4, <4>1
    <3>2. S2[i].node = n /\ S2[i - 1].node = top
      BY <1>4, <1>5, <1>7, <1>13, <3>1
    <3>3. id = n
      BY <1>1, <1>a, <3>2 DEF LeadsInto
    <3>4. m \in DOMAIN T
      BY <1>1, <2>4
    <3> QED
      BY <1>15, <2>1, <3>2, <3>3, <3>4
  <2> QED
    BY <2>2, <2>3, <2>4
<1>18. Fed(S2, T2, D)
  <2>0. \A j \in 1 .. Len(S2) : j \in 1 .. d \/ (j = d + 1 /\ Len(S2) = d + 1)
    BY <1>4 DEF LinesToRead
  <2>1. \A i \in 1 .. Len(S2) : S2[i].node \in DOMAIN D
    <3>1. \A i \in 1 .. d : S[i].node \in DOMAIN D
      BY <1>4 DEF Full, Fed
    <3> QED
      BY <1>7, <1>13, <2>0, <3>1
  <2>2. ASSUME NEW j \in 1 .. d
        PROVE  \A i \in 1 .. j : i \in 1 .. d /\ S2[i].node = S[i].node
    BY <1>4, <1>7
  <2>3. ASSUME NEW j \in 2 .. Len(S2)
        PROVE  \E i \in 1 .. j - 1 : LineIn(D, S2[i].node, S2[j].node)
    <3>1. CASE j \in 1 .. d
      <4>1. j \in 2 .. d /\ \A i \in 1 .. j - 1 : i \in 1 .. j
        BY <1>4, <3>1
      <4>2. PICK i \in 1 .. j - 1 : LineIn(D, S[i].node, S[j].node)
        BY <1>4, <4>1 DEF Full, Fed
      <4> QED
        BY <1>7, <2>2, <3>1, <4>1, <4>2
    <3>2. CASE j \notin 1 .. d
      <4>1. j = d + 1 /\ Len(S2) = d + 1 /\ j - 1 = d
        BY <1>4, <1>5, <2>0, <3>2
      <4>2. d \in 1 .. Len(S) /\ last.pos + 1 \in S[d].pos + 1 .. Len(T[S[d].node].body)
        <5>1. last.pos < Len(T[top].body)
          BY DEF LineTo, NextLine, last
        <5>2. Len(T[top].body) \in Nat
          <6>1. T[top].body \in Lines
            BY <1>4, <1>5 DEF TreeOK, CallOK
          <6>2. \A f \in Lines : Len(f) \in Nat
            BY DEF Lines
          <6> QED
            BY <6>1, <6>2
        <5> QED
          BY <1>4, <1>5, <1>8, <5>1, <5>2
      <4>3. PICK i \in 1 .. d : T[S[d].node].body[last.pos + 1].id = S[i].node
                                \/ LineIn(D, S[i].node, T[S[d].node].body[last.pos + 1].id)
        BY <4>2 DEF Full, Fed
      <4>4. S[i].node \in DOMAIN T
        BY <1>4, CallFacts
      <4>5. LineIn(D, S[i].node, n)
        BY <1>1, <1>5, <1>6, <4>3, <4>4
      <4> QED
        BY <1>7, <1>13, <4>1, <4>5
    <3> QED
      BY <3>1, <3>2
  <2>4. ASSUME NEW j \in 1 .. Len(S2), NEW k \in S2[j].pos + 1 .. Len(T2[S2[j].node].body)
        PROVE  \E i \in 1 .. j : \/ T2[S2[j].node].body[k].id = S2[i].node
                                 \/ LineIn(D, S2[i].node, T2[S2[j].node].body[k].id)
    <3>1. CASE j \in 1 .. d
      <4>1. S[j].node \in DOMAIN T /\ T[S[j].node].body \in Lines
        BY <1>4, <3>1 DEF TreeOK, CallOK
      <4>2. T2[S2[j].node] = T[S[j].node] /\ Len(T[S[j].node].body) \in Nat
        <5>1. \A f \in Lines : Len(f) \in Nat
          BY DEF Lines
        <5> QED
          BY <1>1, <1>7, <3>1, <4>1, <5>1
      <4>3. k \in S[j].pos + 1 .. Len(T[S[j].node].body)
        BY <1>7, <2>4, <3>1, <4>2
      <4>4. PICK i \in 1 .. j : \/ T[S[j].node].body[k].id = S[i].node
                                \/ LineIn(D, S[i].node, T[S[j].node].body[k].id)
        BY <1>4, <3>1, <4>3 DEF Full, Fed
      <4> QED
        BY <2>2, <3>1, <4>2, <4>4
    <3>2. CASE j \notin 1 .. d
      <4>1. j = d + 1 /\ Len(S2) = d + 1 /\ j \in 1 .. j
        BY <1>4, <2>0, <3>2
      <4>2. S2[j].node = n /\ T2[n].body = D[n] /\ n \in DOMAIN D /\ S2[j].pos = 0
        BY <1>1, <1>13, <4>1
      <4>3. k \in 1 .. Len(D[n])
        BY <2>4, <4>2
      <4>4. LineIn(D, n, D[n][k].id)
        BY <4>2, <4>3 DEF LineIn, Targets
      <4> QED
        BY <4>1, <4>2, <4>4
    <3> QED
      BY <3>1, <3>2
  <2> QED
    BY <2>1, <2>3, <2>4 DEF Fed
<1> QED
  BY <1>12, <1>16, <1>17, <1>18 DEF Full, T2

(* The last call ends: all that its file lists stays listed.               *)
LEMMA FullEnded ==
  ASSUME NEW S, NEW T, TreeOK(S, T), UniqueOK(S, T), CallsListed(S, T), S # <<>>,
         NEW D, NEW R, Full(S, T, D, R),
         NEW T2, FlagsApplied(S, T, T2), TreeOK(Front(S), T2),
         T2[S[Len(S)].node].link # <<>>
  PROVE  Full(Front(S), T2, D, R)
<1> DEFINE last == S[Len(S)]
           top == last.node
           S2 == Front(S)
<1>1. PICK d : d \in Nat /\ d = Len(S) /\ d > 0 /\ d \in 1 .. d
  <2>1. Len(S) \in Nat /\ Len(S) > 0
    BY FrameTypes DEF TreeOK
  <2> QED
    BY <2>1
<1>2. Len(S2) = d - 1 /\ \A i \in 1 .. d - 1 : S2[i] = S[i] /\ i \in 1 .. d /\ i # d
  BY <1>1 DEF Front, TreeOK
<1>3. /\ DOMAIN T2 = DOMAIN T /\ \A m \in DOMAIN T : m # top => T2[m] = T[m]
      /\ \A m \in DOMAIN T : T2[m].link = T[m].link
      /\ ~ last.pos < Len(T[top].body)
  <2>1. /\ DOMAIN T2 = DOMAIN T /\ \A m \in DOMAIN T : m # top => T2[m] = T[m]
        /\ T2[top].link = T[top].link /\ ~ last.pos < Len(T[top].body)
    BY DEF FlagsApplied
  <2> QED
    BY <2>1
<1>4. ListsKept(S, T, S2, T2) /\ StillRead(S, T, S2, T2, DOMAIN T \ {top})
  BY CallEnded
<1> HIDE DEF S2
<1>5. top \in DOMAIN T /\ ReadTo(S, T, top) = last.pos /\ S[d] = last
  BY <1>1, CallFacts
<1>6. ASSUME NEW m \in DOMAIN T, NEW id, Unread(S, T, m, id)
      PROVE  Unread(S2, T2, m, id)
  <2>1. PICK k \in 1 .. Len(T[m].body) : k > ReadTo(S, T, m) /\ T[m].body[k].id = id
    BY <1>6 DEF Unread
  <2>2. m # top
    <3>1. Len(T[top].body) \in Nat
      <4>1. T[top].body \in Lines
        BY <1>1, <1>5 DEF TreeOK, CallOK
      <4>2. \A f \in Lines : Len(f) \in Nat
        BY DEF Lines
      <4> QED
        BY <4>1, <4>2
    <3>2. last.pos \in Nat
      BY <1>1, <1>5, FrameTypes DEF TreeOK
    <3> QED
      BY <1>3, <1>5, <2>1, <3>1, <3>2
  <2>3. T2[m] = T[m] /\ ReadTo(S2, T2, m) = ReadTo(S, T, m)
    BY <1>3, <1>4, <2>2 DEF StillRead
  <2> QED
    BY <2>1, <2>3 DEF Unread
<1>7. AllListed(S2, T2)
  <2>1. \A m \in DOMAIN T : Rooted(T, m) => Rooted(T2, m)
    BY <1>3 DEF Rooted
  <2> QED
    BY <1>3, <1>4, <2>1 DEF Full, AllListed, ListsKept
<1>8. Covered(S2, T2, D)
  BY <1>3, <1>6 DEF Full, Covered
<1>9. Separate(S2, T2, D)
  <2> SUFFICES ASSUME NEW i \in 2 .. d - 1, NEW m \in DOMAIN T, NEW id \in DOMAIN T,
                      LeadsInto(T2, D, S2[i].node, m, id)
               PROVE  Unread(S2, T2, m, id) \/ (m = S2[i - 1].node /\ id = S2[i].node)
    BY <1>2, <1>3 DEF Separate
  <2>1. i \in 1 .. d - 1 /\ i - 1 \in 1 .. d - 1 /\ i \in 2 .. d /\ i \in 1 .. d
    BY <1>1
  <2>2. S2[i] = S[i] /\ S2[i - 1] = S[i - 1] /\ S[i].node \in DOMAIN T
    BY <1>1, <1>2, <2>1, CallFacts
  <2>3. LeadsInto(T, D, S[i].node, m, id)
    BY <1>3, <2>2 DEF LeadsInto
  <2> QED
    BY <1>1, <1>6, <2>1, <2>2, <2>3 DEF Full, Separate
<1>10. Fed(S2, T2, D)
  <2>1. ASSUME NEW j \in 1 .. d - 1
        PROVE  /\ j \in 1 .. d /\ \A i \in 1 .. j : S2[i] = S[i]
               /\ T2[S[j].node] = T[S[j].node]
    <3>1. j \in 1 .. d /\ j # d /\ \A i \in 1 .. j : i \in 1 .. d - 1
      BY <1>1
    <3>2. S[j].node \in DOMAIN T /\ S[j].node # top
      BY <1>1, <1>5, <3>1, CallFacts, CallsDiffer
    <3> QED
      BY <1>2, <1>3, <3>1, <3>2
  <2>2. \A i \in 1 .. d - 1 : S2[i].node \in DOMAIN D
    BY <1>1, <1>2 DEF Full, Fed
  <2>3. ASSUME NEW j \in 2 .. d - 1
        PROVE  \E i \in 1 .. j - 1 : LineIn(D, S2[i].node, S2[j].node)
    <3>1. j \in 2 .. d /\ j \in 1 .. d - 1 /\ \A i \in 1 .. j - 1 : i \in 1 .. d - 1
      BY <1>1
    <3>2. PICK i \in 1 .. j - 1 : LineIn(D, S[i].node, S[j].node)
      BY <1>1, <3>1 DEF Full, Fed
    <3> QED
      BY <1>2, <3>1, <3>2
  <2>4. ASSUME NEW j \in 1 .. d - 1, NEW k \in S2[j].pos + 1 .. Len(T2[S2[j].node].body)
        PROVE  \E i \in 1 .. j : \/ T2[S2[j].node].body[k].id = S2[i].node
                                 \/ LineIn(D, S2[i].node, T2[S2[j].node].body[k].id)
    <3>1. j \in 1 .. d /\ S2[j] = S[j] /\ T2[S2[j].node] = T[S[j].node]
      BY <1>2, <2>1
    <3>2. PICK i \in 1 .. j : \/ T[S[j].node].body[k].id = S[i].node
                              \/ LineIn(D, S[i].node, T[S[j].node].body[k].id)
      BY <1>1, <2>4, <3>1 DEF Full, Fed
    <3> QED
      BY <2>1, <3>1, <3>2
  <2> QED
    BY <1>2, <2>2, <2>3, <2>4 DEF Fed
<1> QED
  BY <1>7, <1>8, <1>9, <1>10 DEF Full, S2

(* The subtree of id is erased, and the line to it moved to p.             *)
LineMoved(S, S2, T, T2, D, D2, id, p) ==
  /\ \A n \in DOMAIN T2 : ~ StartsWith(T[n].link, T[id].link)
  /\ \E i \in 1 .. Len(S2) : p = S2[i].node
  /\ \A n \in DOMAIN T2 : n # p => T2[n].body = T[n].body
  /\ \E line : line.id = id /\ T2[p].body = Append(T[p].body, line)
  /\ DOMAIN D2 = DOMAIN D
  /\ \A m, x : LineIn(D2, m, x) <=>
       (LineIn(D, m, x) /\ ~ (m = S2[Len(S2)].node /\ x = id)) \/ (m = p /\ x = id)

LEMMA FullMoved ==
  ASSUME NEW S, NEW T, TreeOK(S, T), UniqueOK(S, T), CallsListed(S, T),
         NEW D, NEW R, Full(S, T, D, R),
         NEW S2, NEW T2, NEW id, FlagMoved(S, S2, id), SubtreeErased(T, T2, id),
         OnlyCallsGrow(S2, T, T2), TreeOK(S2, T2),
         NEW D2, NEW p, LineMoved(S, S2, T, T2, D, D2, id, p)
  PROVE  Full(S2, T2, D2, R)
<1>0. S \in Seq(Frame) /\ S2 \in Seq(Frame)
  BY DEF TreeOK
<1>1. PICK d : d \in Nat /\ d = Len(S2) /\ d > 0 /\ d \in 1 .. d
  <2>1. Len(S2) \in Nat
    BY <1>0, FrameTypes
  <2> QED
    BY <2>1 DEF FlagMoved
<1>2. /\ id = S[d + 1].node /\ d + 1 \in 1 .. Len(S) /\ d + 1 \in 2 .. Len(S)
      /\ \A i \in 1 .. d : /\ i \in 1 .. Len(S)
                           /\ S2[i].node = S[i].node /\ S2[i].pos = S[i].pos
  <2>1. Len(S) \in Nat
    BY <1>0, FrameTypes
  <2> QED
    BY <1>1, <2>1 DEF FlagMoved
<1> DEFINE top == S[d].node
<1>3. /\ DOMAIN T2 \subseteq DOMAIN T
      /\ \A n \in DOMAIN T2 : T2[n].link = T[n].link
      /\ \A n \in DOMAIN T \ DOMAIN T2 : StartsWith(T[n].link, T[id].link)
  BY DEF SubtreeErased
<1>4. /\ \A n \in DOMAIN T2 : ~ StartsWith(T[n].link, T[id].link)
      /\ \E i \in 1 .. d : p = S2[i].node
      /\ \A n \in DOMAIN T2 : n # p => T2[n].body = T[n].body
      /\ DOMAIN D2 = DOMAIN D
      /\ \A m, x : LineIn(D2, m, x) <=>
           (LineIn(D, m, x) /\ ~ (m = top /\ x = id)) \/ (m = p /\ x = id)
  BY <1>1, <1>2 DEF LineMoved
<1>5. PICK line : line.id = id /\ T2[p].body = Append(T[p].body, line)
  BY DEF LineMoved
<1>6. \A m \in DOMAIN T : T[m].link \in Seq(Nat) /\ Len(T[m].link) \in Nat
  BY LinkTypes
<1>7. p \in DOMAIN T /\ p \in DOMAIN T2
  <2>1. \A i \in 1 .. d : S2[i].node \in DOMAIN T2
    BY <1>1, CallFacts
  <2> QED
    BY <1>3, <1>4, <2>1
<1>8. /\ T[p].body \in Lines /\ Len(T[p].body) \in Nat
      /\ Len(T2[p].body) = Len(T[p].body) + 1 /\ T2[p].body[Len(T[p].body) + 1].id = id
      /\ \A k \in 1 .. Len(T[p].body) : T2[p].body[k] = T[p].body[k]
  <2>1. T[p].body \in Lines
    BY <1>7 DEF UniqueOK, FilesOK
  <2> DEFINE f == T[p].body
  <2>2. f \in Lines
    BY <2>1
  <2> HIDE DEF f
  <2>3. /\ Len(f) \in Nat /\ Len(Append(f, line)) = Len(f) + 1
        /\ Append(f, line)[Len(f) + 1] = line
        /\ \A k \in 1 .. Len(f) : Append(f, line)[k] = f[k]
    BY <2>2 DEF Lines
  <2> QED
    BY <1>5, <2>2, <2>3 DEF f
<1>9. id \in DOMAIN T /\ id \notin DOMAIN T2
  BY <1>2, CallFacts DEF SubtreeErased
<1>10. \A m \in DOMAIN T2 : Rooted(T2, m)
  <2> SUFFICES ASSUME NEW m \in DOMAIN T2 PROVE Rooted(T2, m)
    OBVIOUS
  <2>1. m \in DOMAIN T /\ Rooted(T, m) /\ T2[m].link = T[m].link
    BY <1>3 DEF Full, AllListed
  <2>2. ASSUME NEW l \in 1 .. Len(T[m].link)
        PROVE  \E n \in DOMAIN T2 : Len(T2[n].link) = l /\ StartsWith(T2[m].link, T2[n].link)
    <3>1. PICK n \in DOMAIN T : Len(T[n].link) = l /\ StartsWith(T[m].link, T[n].link)
      BY <2>1 DEF Rooted
    <3>2. ~ StartsWith(T[n].link, T[id].link)
      BY <1>4, <1>6, <1>9, <2>1, <3>1, StartsTrans
    <3> QED
      BY <1>3, <2>1, <3>1, <3>2
  <2> QED
    BY <2>1, <2>2 DEF Rooted
<1>11. ListsKept(S, T, S2, T2) /\ \A m \in DOMAIN T2 : ReadTo(S2, T2, m) = ReadTo(S, T, m)
  BY <1>10, SubtreeMoved DEF StillRead
<1>12. ASSUME NEW m \in DOMAIN T2, NEW x, Unread(S, T, m, x)
       PROVE  Unread(S2, T2, m, x)
  <2>1. PICK k \in 1 .. Len(T[m].body) : k > ReadTo(S, T, m) /\ T[m].body[k].id = x
    BY <1>12 DEF Unread
  <2>2. k \in 1 .. Len(T2[m].body) /\ T2[m].body[k] = T[m].body[k]
    <3>1. CASE m = p
      <4>1. k \in 1 .. Len(T[p].body) /\ k \in 1 .. Len(T[p].body) + 1
        BY <1>8, <3>1
      <4> QED
        BY <1>8, <3>1, <4>1
    <3>2. CASE m # p
      <4>1. T2[m].body = T[m].body
        BY <1>4, <3>2
      <4> QED
        BY <4>1
    <3> QED
      BY <3>1, <3>2
  <2> QED
    BY <1>11, <2>1, <2>2 DEF Unread
<1>13. Unread(S2, T2, p, id)
  <2>1. ReadTo(S, T, p) \in Nat /\ ReadTo(S, T, p) <= Len(T[p].body)
    BY <1>7, CountTypes DEF UniqueOK
  <2>2. Len(T[p].body) + 1 \in 1 .. Len(T2[p].body) /\ Len(T[p].body) + 1 > ReadTo(S, T, p)
    BY <1>8, <2>1
  <2> QED
    BY <1>7, <1>8, <1>11, <2>2 DEF Unread
<1>14. AllListed(S2, T2)
  <2> SUFFICES ASSUME NEW x \in DOMAIN T2 \ {Root}
               PROVE  \E m \in DOMAIN T2 : Lists(S2, T2, m, x)
    BY <1>10 DEF AllListed
  <2>1. PICK m \in DOMAIN T : Lists(S, T, m, x)
    BY <1>3 DEF Full, AllListed
  <2>2. Rooted(T, m) /\ Rooted(T, x) /\ x \in DOMAIN T /\ x \in Node
    BY <1>3 DEF Full, AllListed, TreeOK
  <2>3. Child(T, m, x)
    BY <2>1, <2>2 DEF UniqueOK, ListerAbove, Rooted
  <2>4. ~ StartsWith(T[m].link, T[id].link)
    BY <1>4, <1>6, <1>9, <2>2, <2>3, StartsTrans DEF Child
  <2>5. m \in DOMAIN T2
    BY <1>3, <2>4
  <2> QED
    BY <1>10, <1>11, <2>1, <2>5 DEF ListsKept
<1>15. ASSUME NEW m \in DOMAIN T2, NEW x \in DOMAIN T, LineIn(D, m, x), x \notin DOMAIN T2,
              ~ (m = top /\ x = id)
       PROVE  Unread(S, T, m, x)
  <2>1. LeadsInto(T, D, S[d + 1].node, m, x)
    BY <1>2, <1>3, <1>4, <1>15 DEF LeadsInto
  <2>2. (d + 1) - 1 = d
    BY <1>1
  <2> QED
    BY <1>2, <1>3, <1>15, <2>1, <2>2 DEF Full, Separate
<1>16. Covered(S2, T2, D2)
  <2> SUFFICES ASSUME NEW m \in DOMAIN T2, NEW x, LineIn(D2, m, x), x \notin DOMAIN T2
               PROVE  Unread(S2, T2, m, x)
    BY DEF Covered
  <2>1. CASE m = p /\ x = id
    BY <1>13, <2>1
  <2>2. CASE LineIn(D, m, x) /\ ~ (m = top /\ x = id)
    <3>1. x \in DOMAIN T \/ Unread(S, T, m, x)
      BY <1>3, <2>2 DEF Full, Covered
    <3> QED
      BY <1>12, <1>15, <2>2, <3>1
  <2> QED
    BY <1>4, <2>1, <2>2
<1>17. Separate(S2, T2, D2)
  <2> SUFFICES ASSUME NEW i \in 2 .. d, NEW m \in DOMAIN T2, NEW x \in DOMAIN T2,
                      LeadsInto(T2, D2, S2[i].node, m, x)
               PROVE  Unread(S2, T2, m, x) \/ (m = S2[i - 1].node /\ x = S2[i].node)
    BY <1>1 DEF Separate
  <2>1. i \in 1 .. d /\ i - 1 \in 1 .. d /\ i \in 2 .. Len(S)
    BY <1>0, <1>1, <1>2, FrameTypes
  <2>2. S2[i].node = S[i].node /\ S2[i - 1].node = S[i - 1].node /\ S[i].node \in DOMAIN T2
    BY <1>1, <1>2, <2>1, CallFacts
  <2>3. LineIn(D, m, x)
    BY <1>4, <1>9 DEF LeadsInto
  <2>4. LeadsInto(T, D, S[i].node, m, x)
    BY <1>3, <2>2, <2>3 DEF LeadsInto
  <2>5. Unread(S, T, m, x) \/ (m = S[i - 1].node /\ x = S[i].node)
    BY <1>3, <2>1, <2>4 DEF Full, Separate
  <2> QED
    BY <1>12, <2>2, <2>5
<1>18. \A j \in 2 .. d : \E i \in 1 .. j - 1 : LineIn(D2, S2[i].node, S2[j].node)
  <2> SUFFICES ASSUME NEW j \in 2 .. d
               PROVE  \E i \in 1 .. j - 1 : LineIn(D2, S2[i].node, S2[j].node)
    OBVIOUS
  <2>1. j \in 2 .. Len(S) /\ j \in 1 .. d
    BY <1>0, <1>1, <1>2, FrameTypes
  <2>2. PICK i \in 1 .. j - 1 : LineIn(D, S[i].node, S[j].node)
    BY <2>1 DEF Full, Fed
  <2>3. i \in 1 .. d /\ i # d
    BY <1>1
  <2>4. S[i].node # top
    BY <1>1, <1>2, <2>3, CallsDiffer
  <2> QED
    BY <1>2, <1>4, <2>1, <2>2, <2>3, <2>4
<1>19. Fed(S2, T2, D2)
  <2>1. \A i \in 1 .. d : S2[i].node \in DOMAIN D2
    BY <1>2, <1>4 DEF Full, Fed
  <2>2. ASSUME NEW j \in 1 .. d, NEW k \in S2[j].pos + 1 .. Len(T2[S2[j].node].body)
        PROVE  \E i \in 1 .. j : \/ T2[S2[j].node].body[k].id = S2[i].node
                                 \/ LineIn(D2, S2[i].node, T2[S2[j].node].body[k].id)
    <3>1. PICK n : n = S2[j].node
      OBVIOUS
    <3>2. PICK x : x = T2[n].body[k].id
      OBVIOUS
    <3>3. /\ n \in DOMAIN T2 /\ n \in DOMAIN T /\ n = S[j].node /\ S2[j].pos = S[j].pos
          /\ S[j].pos \in Nat /\ T[n].body \in Lines
      <4>1. n \in DOMAIN T2 /\ S[j].pos \in Nat
        BY <1>0, <1>1, <1>2, <3>1, CallFacts, FrameTypes
      <4>2. T[n].body \in Lines
        BY <1>3, <4>1 DEF UniqueOK, FilesOK
      <4> QED
        BY <1>2, <1>3, <3>1, <4>1, <4>2
    <3>4. Len(T[n].body) \in Nat
      <4>1. \A f \in Lines : Len(f) \in Nat
        BY DEF Lines
      <4> QED
        BY <3>3, <4>1
    <3>5. CASE n = p /\ k = Len(T[p].body) + 1
      <4>1. LineIn(D2, S2[j].node, x) /\ j \in 1 .. j
        <5>1. x = id
          BY <1>8, <3>2, <3>5
        <5>2. LineIn(D2, p, id) /\ p = S2[j].node
          BY <1>4, <3>1, <3>5
        <5>3. j \in 1 .. j
          BY <1>1
        <5> QED
          BY <5>1, <5>2, <5>3
      <4> QED
        BY <3>1, <3>2, <4>1
    <3>6. CASE ~ (n = p /\ k = Len(T[p].body) + 1)
      <4>1. k \in S[j].pos + 1 .. Len(T[n].body) /\ T2[n].body[k] = T[n].body[k]
        <5>1. CASE n = p
          <6>1. k \in S[j].pos + 1 .. Len(T[p].body) + 1
            BY <1>8, <3>1, <3>3, <5>1
          <6>2. k \in S[j].pos + 1 .. Len(T[p].body) /\ k \in 1 .. Len(T[p].body)
            BY <1>8, <3>3, <3>6, <5>1, <6>1
          <6> QED
            BY <1>8, <5>1, <6>2
        <5>2. CASE n # p
          BY <1>4, <3>1, <3>3, <5>2
        <5> QED
          BY <5>1, <5>2
      <4>2. PICK i \in 1 .. j : x = S[i].node \/ LineIn(D, S[i].node, x)
        <5>1. j \in 1 .. Len(S)
          BY <1>2
        <5> QED
          BY <3>2, <3>3, <4>1, <5>1 DEF Full, Fed
      <4>3. i \in 1 .. d /\ S2[i].node = S[i].node
        BY <1>1, <1>2
      <4>4. CASE x = S[i].node \/ LineIn(D2, S[i].node, x)
        BY <3>1, <3>2, <4>3, <4>4
      <4>5. CASE ~ (x = S[i].node \/ LineIn(D2, S[i].node, x))
        <5>1. S[i].node = top /\ x = id
          BY <1>4, <4>2, <4>5
        <5>2. i = d
          BY <1>1, <1>2, <4>3, <5>1, CallsDiffer
        <5>3. j = d
          BY <1>1, <5>2
        <5>4. PICK h \in 1 .. d : p = S2[h].node
          BY <1>4
        <5> QED
          BY <1>4, <3>1, <3>2, <5>1, <5>3, <5>4
      <4> QED
        BY <4>4, <4>5
    <3> QED
      BY <3>5, <3>6
  <2> QED
    BY <1>1, <1>18, <2>1, <2>2 DEF Fed
<1>20. Leads(D2, R)
  <2> SUFFICES ASSUME NEW X \in SUBSET Node, Root \in X, ClosedBy(D2, X)
               PROVE  R \subseteq X
    BY DEF Leads
  <2>1. \A i \in 1 .. d : S2[i].node \in X
    <3>1. CallsListed(S2, T2)
      BY SubtreeMoved
    <3> QED
      BY <1>1, <1>18, <3>1, CallsReached
  <2>2. id \in X
    <3>1. p \in X /\ LineIn(D2, p, id)
      BY <1>4, <2>1
    <3> QED
      BY <3>1 DEF ClosedBy
  <2>3. ClosedBy(D, X)
    BY <1>4, <2>2 DEF ClosedBy
  <2> QED
    BY <2>3 DEF Full, Leads
<1> QED
  BY <1>14, <1>16, <1>17, <1>19, <1>20 DEF Full

(* What root leads to, and that no more and no less is listed in the end.  *)
LEMMA ReachFacts ==
  ASSUME NEW g \in Graph, NEW R, R = Reachable(g, Root, 4)
  PROVE  Root \in R /\ R \subseteq Node /\ ClosedBy(g, R) /\ Leads(g, R)
<1> DEFINE N == Nodes(g, Root)
           E == Edges(g, Root, 4)
<1>1. /\ Root \in Node /\ DOMAIN g \subseteq Node
      /\ \A n \in DOMAIN g : g[n] \in Seq(Line(Node \ {Root}))
  BY DepTreeAssumption DEF GraphOn
<1>2. \A n \in DOMAIN g : \A i \in 1 .. Len(g[n]) : g[n][i].id \in Node /\ g[n][i].prio <= 4
  <2> TAKE n \in DOMAIN g
  <2> TAKE i \in 1 .. Len(g[n])
  <2>1. PICK L : L = Line(Node \ {Root})
    OBVIOUS
  <2>2. g[n] \in Seq(L)
    BY <1>1, <2>1
  <2>3. g[n][i] \in L
    BY <2>2
  <2> QED
    BY <2>1, <2>3 DEF Line, Weight
<1>3. \A n, x : x \in Successors(g, n, 4) <=> LineIn(g, n, x)
  BY <1>2 DEF Successors, LineIn, Targets
<1>4. N \subseteq Node /\ IsFiniteSet(N) /\ Root \in N
  <2>1. N \subseteq Node /\ Root \in N
    BY <1>1, <1>2 DEF Nodes, Targets
  <2> QED
    BY <2>1, FiniteAssumption, FS_Subset
<1>5. \A n, x : LineIn(g, n, x) => x \in N
  BY DEF Nodes, LineIn
<1>6. R = Hull(E, {Root})
  BY <1>4, ReachableIsHull
<1>7. DOMAIN E = N /\ \A n \in N : \A x : x \in E[n] <=> LineIn(g, n, x)
  BY <1>3 DEF Edges
<1> HIDE DEF N, E
<1>8. /\ R \subseteq N
      /\ \A n \in N : n \in R <=>
           \A X \in SUBSET N : {Root} \subseteq X /\ ClosedIn(E, X) => n \in X
  BY <1>6, <1>7 DEF Hull
<1>9. Root \in R
  BY <1>4, <1>8
<1>10. ClosedBy(g, R)
  <2> SUFFICES ASSUME NEW m \in R, NEW x, LineIn(g, m, x) PROVE x \in R
    BY DEF ClosedBy
  <2>1. ASSUME NEW X \in SUBSET N, {Root} \subseteq X, ClosedIn(E, X) PROVE x \in X
    <3>1. m \in X /\ x \in E[m]
      BY <1>7, <1>8, <2>1
    <3> QED
      BY <2>1, <3>1 DEF ClosedIn
  <2> QED
    BY <1>5, <1>8, <2>1
<1>11. Leads(g, R)
  <2> SUFFICES ASSUME NEW X \in SUBSET Node, Root \in X, ClosedBy(g, X) PROVE R \subseteq X
    BY DEF Leads
  <2>1. ClosedIn(E, X \cap N)
    BY <1>5, <1>7 DEF ClosedIn, ClosedBy
  <2>2. X \cap N \in SUBSET N /\ {Root} \subseteq X \cap N
    BY <1>4
  <2> QED
    BY <1>8, <2>1, <2>2
<1> QED
  BY <1>4, <1>8, <1>9, <1>10, <1>11

(* When no name contains another one, sed deletes the lines to one package *)
(* and no others.                                                          *)
LEMMA OnlyItsLines ==
  ASSUME PartOf = {}, NEW file \in Lines, NEW id
  PROVE  Targets(Delete(file, id)) = Targets(file) \ {id}
<1>0. PICK keep : keep = {i \in DOMAIN file : file[i].id \notin {id}}
  OBVIOUS
<1>1. Delete(file, id) = Kept(file, keep)
  <2>1. {id} \cup {n \in Node : <<id, n>> \in PartOf} = {id}
    OBVIOUS
  <2> QED
    BY <1>0, <2>1 DEF Delete, Without
<1>2. DOMAIN file = 1 .. Len(file)
  BY DEF Lines
<1>8. PICK L : file \in Seq(L)
  BY DEF Lines
<1>3. \A i \in 1 .. Len(file) : i \in keep <=> file[i].id # id
  BY <1>0, <1>2
<1>9. \A k \in 1 .. Len(Kept(file, keep)) :
         \E i \in 1 .. Len(file) : i \in keep /\ file[i] = Kept(file, keep)[k]
  BY <1>8, KeptLines
<1>4. \A i \in 1 .. Len(file) :
        i \in keep => \E k \in 1 .. Len(Kept(file, keep)) : Kept(file, keep)[k] = file[i]
  BY <1>8, KeptLines
<1>5. ASSUME NEW x \in Targets(Kept(file, keep)) PROVE x \in Targets(file) /\ x # id
  <2>1. PICK k \in 1 .. Len(Kept(file, keep)) : Kept(file, keep)[k].id = x
    BY DEF Targets
  <2>2. PICK i \in 1 .. Len(file) : i \in keep /\ file[i] = Kept(file, keep)[k]
    BY <1>9
  <2> QED
    BY <1>3, <2>1, <2>2 DEF Targets
<1>6. ASSUME NEW x \in Targets(file), x # id PROVE x \in Targets(Kept(file, keep))
  <2>1. PICK i \in 1 .. Len(file) : file[i].id = x
    BY DEF Targets
  <2>2. PICK k \in 1 .. Len(Kept(file, keep)) : Kept(file, keep)[k] = file[i]
    BY <1>3, <1>4, <1>6, <2>1
  <2> QED
    BY <2>1, <2>2 DEF Targets
<1> QED
  BY <1>1, <1>5, <1>6

(* The lines of the files once the one being read has lost those to id.    *)
LEMMA CutLines ==
  ASSUME PartOf = {}, \A n \in DOMAIN dep : dep[n] \in Lines, Top.node \in DOMAIN dep, NEW id
  PROVE  /\ DOMAIN Cut(id) = DOMAIN dep
         /\ \A m, x : LineIn(Cut(id), m, x) <=> LineIn(dep, m, x) /\ ~ (m = Top.node /\ x = id)
<1>1. Cut(id) = [dep EXCEPT ![Top.node] = Delete(dep[Top.node], id)]
  BY DEF Cut
<1>2. Targets(Delete(dep[Top.node], id)) = Targets(dep[Top.node]) \ {id}
  BY OnlyItsLines
<1> QED
  BY <1>1, <1>2 DEF LineIn

(* A file that lists a package has a line to it.                           *)
LEMMA CountTargets ==
  ASSUME NEW file, NEW id, NEW p \in Nat, NEW n \in Nat, p <= n, n = Len(file)
  PROVE  /\ Count(LinesTo(file, id), p) > 0 => id \in Targets(file)
         /\ id \in Targets(file) => Count(LinesTo(file, id), n) > 0
<1>1. ASSUME id \notin Targets(file) PROVE Count(LinesTo(file, id), p) = 0
  <2>1. LinesTo(file, id) \cap (1 .. p) = {}
    BY <1>1 DEF LinesTo, Targets
  <2> QED
    BY <2>1, FS_EmptySet DEF Count
<1>2. ASSUME id \in Targets(file) PROVE Count(LinesTo(file, id), n) > 0
  <2>1. PICK i \in 1 .. Len(file) : file[i].id = id
    BY <1>2 DEF Targets
  <2>2. i \in LinesTo(file, id) \cap (1 .. n)
    BY <2>1 DEF LinesTo
  <2>3. Count(LinesTo(file, id), n) >= 1 /\ Count(LinesTo(file, id), n) \in Nat
    BY <2>2, CountMembers, CountStep
  <2> QED
    BY <2>3
<1> QED
  BY <1>1, <1>2

LEMMA ListsATarget ==
  ASSUME NEW S, NEW T, TreeOK(S, T), UniqueOK(S, T), NEW m \in DOMAIN T, NEW id,
         Lists(S, T, m, id)
  PROVE  id \in Targets(T[m].body)
<1>1. /\ ReadTo(S, T, m) \in Nat /\ ReadTo(S, T, m) <= Len(T[m].body)
      /\ Flagged(S, T, m, id) \in Nat
  BY CountTypes DEF UniqueOK
<1>2. Count(LinesTo(T[m].body, id), ReadTo(S, T, m)) > 0
  BY <1>1 DEF Lists, Read
<1>3. Len(T[m].body) \in Nat
  <2>1. T[m].body \in Lines
    BY DEF UniqueOK, FilesOK
  <2> QED
    BY <2>1 DEF Lines
<1> QED
  BY <1>1, <1>2, <1>3, CountTargets

(* A file that is read while its subtree is whole is erased with all that  *)
(* was built for it.                                                       *)
LEMMA LinkBetween ==
  ASSUME NEW a, NEW b, NEW c, Len(a) \in Nat, Len(b) \in Nat, Len(c) \in Nat,
         StartsWith(a, b), StartsWith(a, c), Len(c) <= Len(b)
  PROVE  StartsWith(b, c)
<1>1. \A k \in 1 .. Len(c) : k \in 1 .. Len(b)
  OBVIOUS
<1> QED
  BY <1>1 DEF StartsWith

LEMMA ErasedAreAll ==
  ASSUME NEW S, OnceOK(S, tree), AllListed(S, tree), NEW id \in DOMAIN tree
  PROVE  \A n \in DOMAIN tree : StartsWith(tree[n].link, tree[id].link) => n \in Erased(id)
<1> DEFINE N == DOMAIN tree
           next == [m \in N |-> Below(m)]
           Left(n) == /\ StartsWith(tree[n].link, tree[id].link) /\ n \notin Erased(id)
           Lengths == {Len(tree[n].link) : n \in {m \in N : Left(m)}}
<1>1. /\ TreeOK(S, tree) /\ UniqueOK(S, tree)
      /\ DOMAIN tree \subseteq Node /\ \A n \in DOMAIN tree : tree[n].link \in Seq(Nat)
  BY DEF OnceOK, TreeOK
<1>2. IsFiniteSet(N)
  BY <1>1, FiniteAssumption, FS_Subset
<1>3. \A m : Below(m) \subseteq N
  BY DEF Below
<1>4. next \in [N -> SUBSET N] /\ {id} \in SUBSET N /\ DOMAIN next = N
  BY <1>3
<1>5. Erased(id) = Hull(next, {id})
  BY <1>2, <1>4, ClosureIsHull DEF Erased
<1>6. \A m \in N : next[m] = Below(m)
  OBVIOUS
<1> HIDE DEF next
<1>7. id \in Erased(id)
  BY <1>4, <1>5 DEF Hull
<1>8. ASSUME NEW m \in N, m \in Erased(id), NEW n \in Below(m) PROVE n \in Erased(id)
  <2>1. n \in N /\ n \in next[m]
    BY <1>3, <1>6
  <2>2. ASSUME NEW X \in SUBSET N, {id} \subseteq X, ClosedIn(next, X) PROVE n \in X
    <3>1. m \in X
      BY <1>4, <1>5, <1>8, <2>2 DEF Hull
    <3> QED
      BY <2>1, <2>2, <3>1 DEF ClosedIn
  <2> QED
    BY <1>4, <1>5, <2>1, <2>2 DEF Hull
<1>9. \A n \in N : Len(tree[n].link) \in Nat /\ Len(tree[n].link) > 0 /\ tree[n].link # <<>>
  BY <1>1, LinkTypes DEF AllListed, Rooted
<1> SUFFICES Lengths = {}
  OBVIOUS
<1>10. SUFFICES ASSUME Lengths # {} PROVE FALSE
  OBVIOUS
<1>11. Lengths \in SUBSET Nat
  BY <1>9
<1>12. PICK l \in Lengths : \A k \in Lengths : ~ (k < l)
  BY <1>10, <1>11, LeastNat
<1>13. PICK n \in N : Left(n) /\ Len(tree[n].link) = l
  BY <1>12
<1>14. \A m \in N : Left(m) => ~ (Len(tree[m].link) < Len(tree[n].link))
  BY <1>12, <1>13
<1> HIDE DEF Lengths
<1>15. Len(tree[id].link) <= Len(tree[n].link) /\ n # id
  BY <1>7, <1>13 DEF StartsWith
<1>16. CASE Len(tree[n].link) = Len(tree[id].link)
  BY <1>1, <1>9, <1>13, <1>15, <1>16 DEF UniqueOK, LinksDiffer
<1>17. CASE Len(tree[n].link) # Len(tree[id].link)
  <2>1. Len(tree[n].link) > Len(tree[id].link) /\ Len(tree[n].link) > 1
    BY <1>9, <1>15, <1>17
  <2>2. n # Root
    BY <1>1, <1>9, <2>1 DEF UniqueOK, FilesOK
  <2>3. PICK m \in N : Lists(S, tree, m, n)
    BY <2>2 DEF AllListed
  <2>4. Child(tree, m, n) /\ n \in Node /\ Rooted(tree, m)
    BY <1>1, <1>9, <2>3 DEF UniqueOK, ListerAbove, AllListed
  <2>5. /\ Len(tree[n].link) = Len(tree[m].link) + 1
        /\ StartsWith(tree[n].link, tree[m].link)
    BY <2>4 DEF Child
  <2>6. Len(tree[id].link) <= Len(tree[m].link) /\ Len(tree[m].link) < Len(tree[n].link)
    BY <1>9, <2>1, <2>5
  <2>7. StartsWith(tree[m].link, tree[id].link)
    BY <1>9, <1>13, <2>5, <2>6, LinkBetween
  <2>8. m \in Erased(id)
    BY <1>14, <2>6, <2>7
  <2>9. n \in Targets(tree[m].body)
    BY <1>1, <2>3, ListsATarget
  <2>10. IsStrictPrefix(tree[m].link, tree[n].link)
    <3>1. IsPrefix(tree[m].link, tree[n].link)
      BY <1>1, <1>9, <2>5, <2>6, PrefixByItems DEF StartsWith
    <3>2. tree[m].link # tree[n].link
      BY <1>9, <2>6
    <3> QED
      BY <3>1, <3>2 DEF IsStrictPrefix
  <2>11. n \in Below(m)
    BY <2>9, <2>10 DEF Below
  <2> QED
    BY <1>8, <1>13, <2>8, <2>11
<1> QED
  BY <1>16, <1>17

Reached == Reachable(graph, Root, 4)

(* What is built is what root leads to, and no line leads elsewhere.       *)
Sound ==
  /\ DOMAIN tree \subseteq Reached
  /\ ClosedBy(dep, Reached)
  /\ \A n \in DOMAIN tree : Targets(tree[n].body) \subseteq Reached

(* While a value is returned, the calls that were cut short count.         *)
CallsNow(S) == IF ret = 0 THEN S = stack ELSE CutShort(S, stack)

NothingMissing ==
  \E S : CallsNow(S) /\ OnceOK(S, tree) /\ Full(S, tree, dep, Reached)

Sure == ~ Ambiguous /\ ~ Wiped

(* A move is not forgotten, and a file that was wiped stays so.            *)
LEMMA SureBefore ==
  ASSUME BuiltInv, Next, Sure'
  PROVE  Sure
<1> SUFFICES moves \subseteq moves' /\ (Wiped => Wiped')
  BY DEF Sure, Ambiguous
<1>1. CASE tree' = tree /\ moves' = moves
  BY <1>1 DEF Wiped
<1>2. CASE Leaf \/ Descend
  <2>1. moves' = moves /\ \E file : tree' = Put(tree, Current.id, file) /\ Current.id \notin DOMAIN tree
    BY <1>2 DEF Leaf, Descend, Seen
  <2>2. \A n \in DOMAIN tree : n \in DOMAIN tree' /\ tree'[n] = tree[n]
    BY <2>1 DEF Put
  <2> QED
    BY <2>1, <2>2 DEF Wiped
<1>3. CASE Return
  <2>1. moves' = moves /\ DOMAIN tree' = DOMAIN tree
    BY <1>3 DEF Return
  <2>2. \A n \in DOMAIN tree : tree'[n].link \in {tree[n].link, <<>>}
    <3> TAKE n \in DOMAIN tree
    <3>1. CASE n # Top.node
      BY <1>3, <3>1 DEF Return
    <3>2. CASE n = Top.node
      <4>1. tree'[n] = IF Emptied(Body, Top.remove)
                       THEN [link |-> <<>>, prios |-> <<>>, body |-> <<>>]
                       ELSE WithBody(tree[n], Removed(Body, Top.remove))
        BY <1>3, <3>2 DEF Return
      <4> QED
        BY <4>1 DEF WithBody
    <3> QED
      BY <3>1, <3>2
  <2> QED
    BY <2>1, <2>2 DEF Wiped
<1>4. CASE Move
  <2>1. moves \subseteq moves' /\ mode = "build" /\ ret # 0 /\ stack # <<>>
    BY <1>4 DEF Move
  <2>2. BuildInv /\ TreeOK(stack, tree) /\ ReturnOK(stack, tree)
    BY <2>1 DEF BuiltInv, IInv, BuildInv
  <2>3. PICK id : id = LineRead.id
    OBVIOUS
  <2>4. id \in DOMAIN tree /\ Len(tree[id].link) > 0
    <3>1. Len(stack) \in Nat
      BY <2>2, FrameTypes DEF TreeOK
    <3>2. id \in DOMAIN tree /\ Len(tree[id].link) = Len(stack) + 1
      BY <2>2, <2>3 DEF ReturnOK, LineRead, Body, Top, Depth
    <3> QED
      BY <3>1, <3>2
  <2>5. ASSUME NEW n \in DOMAIN tree, tree[n].link = <<>> PROVE n \notin Erased(id)
    <3>1. DOMAIN tree \subseteq Node /\ \A m \in DOMAIN tree : tree[m].link \in Seq(Nat)
      BY <2>2 DEF TreeOK
    <3>2. n \in Erased(id) => StartsWith(tree[n].link, tree[id].link)
      BY <2>4, <3>1, ErasedAreBelow
    <3>3. Len(tree[n].link) = 0 /\ Len(tree[id].link) \in Nat
      BY <2>4, <2>5, <3>1
    <3> QED
      BY <2>4, <3>2, <3>3 DEF StartsWith
  <2>6. /\ DOMAIN tree' = DOMAIN tree \ Erased(id)
        /\ \A n \in DOMAIN tree' : tree'[n].link = tree[n].link
    BY <1>4, <2>3 DEF Move, WithBody
  <2> QED
    BY <2>1, <2>5, <2>6 DEF Wiped
<1>5. CASE EmptyLink \/ Prune \/ BackUp \/ BuiltElsewhere \/ KeepBackingUp
           \/ StartBrowse \/ BrowseDown \/ BrowseLeaf \/ BrowseUp
  BY <1>1, <1>5 DEF EmptyLink, Prune, BackUp, BuiltElsewhere, KeepBackingUp, StartBrowse,
                    BrowseDown, BrowseLeaf, BrowseUp
<1> QED
  BY <1>2, <1>3, <1>4, <1>5 DEF Next

(* The calls in progress are those that count while no value is returned.  *)
LEMMA CallingFull ==
  ASSUME NothingMissing, ret = 0
  PROVE  /\ TreeOK(stack, tree) /\ UniqueOK(stack, tree) /\ CallsListed(stack, tree)
         /\ Full(stack, tree, dep, Reached)
BY DEF NothingMissing, CallsNow, OnceOK

LEMMA TopIsLast == Top = stack[Len(stack)]
BY DEF Top, Depth

(* A line is read and flagged.                                             *)
LEMMA PruneFull ==
  ASSUME PartOf = {}, BuildInv, OnceInv, Sound, NothingMissing, Prune \/ BuiltElsewhere
  PROVE  Sound' /\ NothingMissing'
<1> DEFINE id == Current.id
<1>1. /\ Building /\ MoreLines /\ Seen /\ OtherLink # <<>> /\ mode = "build"
      /\ ret = 0 /\ ret' = 0 /\ tree' = tree /\ graph' = graph
      /\ stack' = StepRemoving(id) /\ id \in DOMAIN tree
  BY DEF Prune, BuiltElsewhere, Building, Seen
<1>2. /\ TreeOK(stack, tree) /\ UniqueOK(stack, tree) /\ CallsListed(stack, tree)
      /\ Full(stack, tree, dep, Reached)
  BY <1>1, CallingFull
<1>3. stack # <<>> /\ NextLine(stack, tree, id) /\ id \in Node /\ stack \in Seq(Frame)
  BY <1>1, <1>2, CurrentIsNext, CurrentLine DEF TreeOK
<1>4. FlaggedOn(stack, stack', id) /\ TreeOK(stack', tree)
  BY <1>1, <1>3, StepReads, StepKeeps
<1>5. LineDropped(stack, dep, dep', id)
  <2>1. CASE BuiltElsewhere
    BY <2>1 DEF BuiltElsewhere, LineDropped
  <2>2. CASE Prune
    <3>1. \E i \in 1 .. Len(stack) : stack[i].node = id
      <4>1. CircularIsOpen
        BY LinksTell DEF IInv
      <4>2. Circular
        BY <2>2 DEF Prune
      <4> QED
        BY <1>1, <4>1, <4>2 DEF CircularIsOpen, Depth
    <3>2. dep' = Cut(id) /\ Top.node = stack[Len(stack)].node
      BY <2>2, TopIsLast DEF Prune
    <3>3. Top.node \in DOMAIN dep
      <4>1. Len(stack) \in 1 .. Len(stack)
        <5>1. Len(stack) \in Nat /\ Len(stack) > 0
          BY <1>3, FrameTypes
        <5> QED
          BY <5>1
      <4> QED
        BY <1>2, <3>2, <4>1 DEF Full, Fed
    <3>4. \A n \in DOMAIN dep : dep[n] \in Lines
      BY DEF BuildInv
    <3> HIDE DEF id
    <3>5. /\ DOMAIN dep' = DOMAIN dep
          /\ \A m, x : LineIn(dep', m, x) <=> LineIn(dep, m, x) /\ ~ (m = Top.node /\ x = id)
      BY <3>2, <3>3, <3>4, CutLines
    <3> QED
      BY <3>1, <3>2, <3>5 DEF LineDropped
  <2> QED
    BY <2>1, <2>2
<1>6. OnceOK(stack', tree')
  BY <1>1, PruneOnce DEF OnceInv
<1>7. PICK R : R = Reached /\ Reached' = R
  BY <1>1 DEF Reached
<1> HIDE DEF id
<1>8. Full(stack', tree, dep', R)
  BY <1>1, <1>2, <1>3, <1>4, <1>5, <1>7, FullFlagged
<1>9. Sound'
  <2>1. ClosedBy(dep', R)
    BY <1>5, <1>7 DEF Sound, ClosedBy, LineDropped
  <2> QED
    BY <1>1, <1>7, <2>1 DEF Sound
<1> QED
  BY <1>1, <1>6, <1>7, <1>8, <1>9 DEF NothingMissing, CallsNow

(* The file of a package is added, and read next if it has lines.          *)
LEMMA AddShape ==
  ASSUME BuildInv, ret = 0, TreeOK(stack, tree), Leaf \/ Descend, NEW id, id = Current.id
  PROVE  /\ stack # <<>> /\ id \in Node /\ id \notin DOMAIN tree
         /\ \E file : /\ tree' = Put(tree, id, file) /\ LineTo(stack, tree, id, file)
                      /\ ReadOn(stack, stack') /\ Entered(stack, stack', id, file)
                      /\ LinesToRead(stack, stack', dep, id, file)
<1>1. /\ MoreLines /\ id \notin DOMAIN tree /\ stack \in Seq(Frame)
  BY DEF Leaf, Descend, Building, Seen, TreeOK
<1>2. stack # <<>> /\ NextLine(stack, tree, id) /\ id \in Node
  BY <1>1, CurrentIsNext, CurrentLine
<1>3. ASSUME NEW file, file.body \in Lines, file.link = Append(Link, Top.pos + 1)
      PROVE  LineTo(stack, tree, id, file)
  <2>1. Append(Link, Top.pos + 1) \in Seq(Nat)
    BY <1>1, NewLink
  <2>2. Link = tree[Top.node].link
    BY DEF Link
  <2> QED
    BY <1>2, <1>3, <2>1, <2>2, TopIsLast DEF LineTo
<1>4. ReadOn(stack, Step) /\ Len(Step) = Len(stack) /\ Step \in Seq(Frame)
  BY <1>1, <1>2, StepReads, StepKeeps DEF Depth
<1>5. CASE Leaf
  <2> DEFINE file == [link |-> Append(Link, Top.pos + 1), prios |-> <<>>, body |-> <<>>]
  <2>1. tree' = Put(tree, id, file) /\ stack' = Step /\ ~ HasLines(id)
    BY <1>5 DEF Leaf
  <2>2. file.body = <<>> /\ file.link = Append(Link, Top.pos + 1)
    OBVIOUS
  <2>3. <<>> \in Lines
    BY DEF Lines
  <2> HIDE DEF file
  <2>4. LineTo(stack, tree, id, file)
    BY <1>3, <2>2, <2>3
  <2>5. \A x : ~ LineIn(dep, id, x)
    <3>1. Targets(<<>>) = {}
      BY DEF Targets
    <3> QED
      BY <2>1, <3>1 DEF HasLines, LineIn
  <2> QED
    BY <1>1, <1>2, <1>4, <2>1, <2>2, <2>4, <2>5 DEF Entered, LinesToRead
<1>6. CASE Descend
  <2> DEFINE file == [link |-> Append(Link, Top.pos + 1),
                      prios |-> Append(Prios, Current.prio), body |-> dep[id]]
             call == [node |-> id, pos |-> 0, remove |-> <<>>]
  <2>1. tree' = Put(tree, id, file) /\ stack' = Append(Step, call) /\ id \in DOMAIN dep
    BY <1>6 DEF Descend, HasLines
  <2>2. /\ file.body = dep[id] /\ file.link = Append(Link, Top.pos + 1)
        /\ call.node = id /\ call.pos = 0 /\ call.remove = <<>> /\ call \in Frame
    BY <1>2 DEF Frame
  <2> HIDE DEF file, call
  <2>3. LineTo(stack, tree, id, file)
    BY <1>3, <2>1, <2>2 DEF BuildInv
  <2>4. PICK d : d = Len(stack) /\ d \in Nat
    BY <1>1, FrameTypes
  <2>5. /\ Len(stack') = d + 1 /\ stack'[d + 1] = call
        /\ \A i \in 1 .. d : stack'[i] = Step[i]
    <3> DEFINE s == Step
    <3>1. s \in Seq(Frame) /\ Len(s) = d /\ stack' = Append(s, call)
      BY <1>4, <2>1, <2>4
    <3> HIDE DEF s
    <3>2. /\ Len(Append(s, call)) = Len(s) + 1
          /\ Append(s, call)[Len(s) + 1] = call
          /\ \A i \in 1 .. Len(s) : Append(s, call)[i] = s[i]
      BY <2>2, <3>1
    <3> QED
      BY <3>1, <3>2 DEF s
  <2>6. Entered(stack, stack', id, file)
    BY <2>2, <2>4, <2>5 DEF Entered
  <2>7. ReadOn(stack, stack')
    BY <1>4, <2>4, <2>5 DEF ReadOn
  <2>8. LinesToRead(stack, stack', dep, id, file)
    BY <2>1, <2>2, <2>4, <2>5 DEF LinesToRead
  <2> QED
    BY <1>1, <1>2, <2>1, <2>3, <2>6, <2>7, <2>8
<1> QED
  BY <1>5, <1>6

LEMMA AddFull ==
  ASSUME BuildInv, OnceInv, Sound, NothingMissing, Leaf \/ Descend
  PROVE  Sound' /\ NothingMissing'
<1>1. ret = 0 /\ ret' = 0 /\ graph' = graph /\ dep' = dep /\ MoreLines
  BY DEF Leaf, Descend, Building
<1>2. /\ TreeOK(stack, tree) /\ UniqueOK(stack, tree) /\ CallsListed(stack, tree)
      /\ Full(stack, tree, dep, Reached)
  BY <1>1, CallingFull
<1>3. PICK id : id = Current.id
  OBVIOUS
<1>4. stack # <<>> /\ id \in Node /\ id \notin DOMAIN tree
  BY <1>1, <1>2, <1>3, AddShape
<1>5. PICK file : /\ tree' = Put(tree, id, file) /\ LineTo(stack, tree, id, file)
                  /\ ReadOn(stack, stack') /\ Entered(stack, stack', id, file)
                  /\ LinesToRead(stack, stack', dep, id, file)
  BY <1>1, <1>2, <1>3, AddShape
<1>6. OnceOK(stack', tree') /\ TreeOK(stack', tree')
  BY <1>1, LeafOnce, DescendOnce DEF OnceInv, OnceOK
<1>7. PICK R : R = Reached /\ Reached' = R
  BY <1>1 DEF Reached
<1>8. Full(stack', tree', dep', R)
  BY <1>1, <1>2, <1>4, <1>5, <1>6, <1>7, FullAdded
<1>9. Sound'
  <2>1. Top.node \in DOMAIN tree /\ Top.pos + 1 \in 1 .. Len(Body)
    BY <1>1, <1>4, TopFacts, CurrentLine
  <2>2. id \in Targets(tree[Top.node].body)
    BY <1>3, <2>1 DEF Targets, Current, Body
  <2>3. id \in R
    BY <1>7, <2>1, <2>2 DEF Sound
  <2>4. Targets(file.body) \subseteq R
    <3>1. CASE file.body = <<>>
      BY <3>1 DEF Targets
    <3>2. CASE id \in DOMAIN dep /\ file.body = dep[id]
      BY <1>7, <2>3, <3>2 DEF Sound, ClosedBy, LineIn
    <3>3. Len(stack) \in Nat
      BY <1>2, FrameTypes DEF TreeOK
    <3> QED
      BY <1>5, <3>1, <3>2, <3>3 DEF Entered, LinesToRead
  <2> QED
    BY <1>1, <1>5, <1>7, <2>3, <2>4 DEF Sound, Put
<1> QED
  BY <1>1, <1>6, <1>7, <1>8, <1>9 DEF NothingMissing, CallsNow

(* The file of a call that ends is wiped, or no line is added to it.       *)
LEMMA FewerTargets ==
  ASSUME NEW body \in Lines, NEW ids \in Seq(Node), ~ Emptied(body, ids)
  PROVE  Targets(Removed(body, ids)) \subseteq Targets(body)
<1> SUFFICES ASSUME NEW id \in Targets(Removed(body, ids)) PROVE id \in Targets(body)
  OBVIOUS
<1> DEFINE new == Removed(body, ids)
<1>1. /\ new \in Lines
      /\ Count(LinesTo(new, id), Len(new)) + Count(FlagsFor(ids, id), Len(ids))
           = Count(LinesTo(body, id), Len(body))
  BY FlagsRemoved
<1>2. id \in Targets(new)
  OBVIOUS
<1> HIDE DEF new
<1>3. PICK n : n = Len(new) /\ n \in Nat /\ n <= n
  BY <1>1 DEF Lines
<1>4. PICK m : m = Len(body) /\ m \in Nat /\ m <= m
  BY DEF Lines
<1>5. PICK k : k = Len(ids) /\ k \in Nat
  OBVIOUS
<1>6. Count(LinesTo(new, id), n) > 0
  BY <1>2, <1>3, CountTargets
<1>7. /\ Count(LinesTo(new, id), n) \in Nat /\ Count(FlagsFor(ids, id), k) \in Nat
      /\ Count(LinesTo(body, id), m) \in Nat
  BY <1>3, <1>4, <1>5, CountStep
<1>8. Count(LinesTo(body, id), m) > 0
  BY <1>1, <1>3, <1>4, <1>5, <1>6, <1>7
<1> QED
  BY <1>4, <1>8, CountTargets

LEMMA ReturnFull ==
  ASSUME BuildInv, OnceInv, Sound, NothingMissing, Return, Sure'
  PROVE  Sound' /\ NothingMissing'
<1>1. /\ ret = 0 /\ ret' = 0 /\ graph' = graph /\ dep' = dep
      /\ stack # <<>> /\ stack' = Front(stack)
  BY DEF Return, Building
<1>2. /\ TreeOK(stack, tree) /\ UniqueOK(stack, tree) /\ CallsListed(stack, tree)
      /\ Full(stack, tree, dep, Reached)
  BY <1>1, CallingFull
<1>3. FlagsApplied(stack, tree, tree')
  BY <1>2, ReturnShape
<1>4. OnceOK(stack', tree') /\ TreeOK(Front(stack), tree')
  BY <1>1, ReturnOnce DEF OnceInv, OnceOK
<1>5. PICK top : top = stack[Len(stack)].node
  OBVIOUS
<1>6. /\ Len(stack) \in 1 .. Len(stack) /\ top \in DOMAIN tree
      /\ tree[top].body \in Lines /\ stack[Len(stack)].remove \in Seq(Node)
  <2>1. Len(stack) \in Nat /\ Len(stack) > 0 /\ stack \in Seq(Frame)
    BY <1>1, <1>2, FrameTypes DEF TreeOK
  <2>2. Len(stack) \in 1 .. Len(stack)
    BY <2>1
  <2>3. stack[Len(stack)] \in Frame
    BY <2>1, <2>2
  <2> QED
    BY <1>2, <1>5, <2>2, <2>3 DEF TreeOK, CallOK, Frame
<1>7. tree'[top].link # <<>>
  BY <1>3, <1>6 DEF Sure, Wiped, FlagsApplied
<1>8. PICK R : R = Reached /\ Reached' = R
  BY <1>1 DEF Reached
<1>9. Full(stack', tree', dep', R)
  BY <1>1, <1>2, <1>3, <1>4, <1>5, <1>7, <1>8, FullEnded
<1>10. Sound'
  <2>1. /\ DOMAIN tree' = DOMAIN tree /\ \A n \in DOMAIN tree : n # top => tree'[n] = tree[n]
        /\ ~ Emptied(tree[top].body, stack[Len(stack)].remove)
        /\ tree'[top].body = Removed(tree[top].body, stack[Len(stack)].remove)
    BY <1>3, <1>5, <1>7 DEF FlagsApplied
  <2>2. Targets(tree'[top].body) \subseteq Targets(tree[top].body)
    BY <1>6, <2>1, FewerTargets
  <2>3. \A n \in DOMAIN tree : Targets(tree'[n].body) \subseteq R
    BY <1>6, <1>8, <2>1, <2>2 DEF Sound
  <2> QED
    BY <1>1, <1>8, <2>1, <2>3 DEF Sound
<1> QED
  BY <1>1, <1>4, <1>8, <1>9, <1>10 DEF NothingMissing, CallsNow

(* A value is returned: nothing is written.                                *)
LEMMA BackUpFull ==
  ASSUME BuildInv, IInv, OnceInv, Sound, NothingMissing, BackUp
  PROVE  Sound' /\ NothingMissing'
<1>1. /\ MoreLines /\ ret = 0 /\ ret' = CycleWeight /\ ~ WeakestLine
      /\ UNCHANGED <<graph, dep, tree>> /\ stack' = Front(stack)
  BY DEF BackUp, Building
<1>2. OnceOK(stack, tree) /\ Full(stack, tree, dep, Reached) /\ stack \in Seq(Frame)
  BY <1>1 DEF NothingMissing, CallsNow, OnceOK, TreeOK
<1>3. ret' # 0
  <2>1. Current.prio \in Nat
    <3>1. Current \in Line(Node \ {Root})
      BY <1>1, CurrentLine
    <3> QED
      BY <3>1 DEF Line, Weight
  <2>2. Current.prio >= 0
    BY <2>1
  <2> QED
    BY <1>1, <2>2 DEF WeakestLine
<1>4. CutShort(stack, stack')
  <2>1. PICK d : d = Len(stack) /\ d \in Nat /\ d > 0
    BY <1>1, <1>2, FrameTypes DEF MoreLines
  <2>2. Len(stack') = d - 1 /\ \A i \in 1 .. d - 1 : stack'[i] = stack[i]
    BY <1>1, <1>2, <2>1 DEF Front
  <2> QED
    BY <2>1, <2>2 DEF CutShort
<1>5. Reached' = Reached
  BY <1>1 DEF Reached
<1>6. Sound'
  BY <1>1, <1>5 DEF Sound
<1> QED
  BY <1>1, <1>2, <1>3, <1>4, <1>5, <1>6 DEF NothingMissing, CallsNow

LEMMA KeepBackingUpFull ==
  ASSUME BuildInv, OnceInv, Sound, NothingMissing, KeepBackingUp
  PROVE  Sound' /\ NothingMissing'
<1>1. /\ ret # 0 /\ ret' = ret /\ stack # <<>> /\ stack' = Front(stack)
      /\ UNCHANGED <<graph, dep, tree>> /\ stack \in Seq(Frame)
  BY DEF KeepBackingUp, BuildInv, TreeOK
<1>2. PICK S : CutShort(S, stack) /\ OnceOK(S, tree) /\ Full(S, tree, dep, Reached)
  BY <1>1 DEF NothingMissing, CallsNow
<1>3. CutShort(S, stack')
  <2>1. PICK d : d = Len(stack) /\ d \in Nat /\ d > 0
    BY <1>1, FrameTypes
  <2>2. Len(S) \in Nat
    <3>1. S \in Seq(Frame)
      BY <1>2 DEF OnceOK, TreeOK
    <3> QED
      BY <3>1, FrameTypes
  <2>3. Len(stack') = d - 1 /\ \A i \in 1 .. d - 1 : stack'[i] = stack[i] /\ i \in 1 .. d
    BY <1>1, <2>1 DEF Front
  <2>4. d < Len(S) /\ \A i \in 1 .. d : stack[i] = S[i]
    BY <1>2, <2>1 DEF CutShort
  <2>5. d - 1 < Len(S)
    BY <2>1, <2>2, <2>4
  <2> QED
    BY <2>3, <2>4, <2>5 DEF CutShort
<1>4. Reached' = Reached
  BY <1>1 DEF Reached
<1>5. Sound'
  BY <1>1, <1>4 DEF Sound
<1> QED
  BY <1>1, <1>2, <1>3, <1>4, <1>5 DEF NothingMissing, CallsNow

(* The line that is appended leads to one more package.                    *)
LEMMA AppendTargets ==
  ASSUME NEW file \in Lines, NEW line
  PROVE  Targets(Append(file, line)) = Targets(file) \cup {line.id}
<1> DEFINE more == Append(file, line)
<1>1. /\ Len(file) \in Nat /\ Len(more) = Len(file) + 1 /\ more[Len(file) + 1] = line
      /\ \A k \in 1 .. Len(file) : more[k] = file[k]
  BY DEF Lines
<1> HIDE DEF more
<1>2. \A k \in 1 .. Len(more) : k \in 1 .. Len(file) \/ k = Len(file) + 1
  BY <1>1
<1>3. /\ \A k \in 1 .. Len(file) : k \in 1 .. Len(more)
      /\ Len(file) + 1 \in 1 .. Len(more)
  BY <1>1
<1>4. Targets(more) \subseteq Targets(file) \cup {line.id}
  BY <1>1, <1>2 DEF Targets
<1>5. Targets(file) \cup {line.id} \subseteq Targets(more)
  BY <1>1, <1>3 DEF Targets
<1> QED
  BY <1>4, <1>5 DEF more

(* The file that the line is appended to: a call is reading it.            *)
LEMMA OneReceiver ==
  ASSUME BuildInv, OnceInv, Move, Cardinality(parentNode) = 1
  PROVE  \E p : /\ Receivers = {p}
                /\ \E i \in 1 .. Len(stack) : p = stack[i].node
<1>1. ret # 0
  BY DEF Move
<1>2. Receivers = parentNode
  BY DEF Receivers
<1>3. PICK m \in 1 .. Len(stack) : Receivers \subseteq {stack[j].node : j \in 1 .. m}
  BY <1>1 DEF OnceInv, BackingUp
<1>4. PICK d : d = Len(stack) /\ d \in Nat /\ \A i \in 1 .. d : stack[i].node \in Node
  BY FrameTypes DEF BuildInv, TreeOK
<1>5. \A x \in Receivers : x \in Node /\ \E i \in 1 .. Len(stack) : x = stack[i].node
  <2>1. \A j \in 1 .. m : j \in 1 .. d
    BY <1>3, <1>4
  <2> QED
    BY <1>3, <1>4, <2>1
<1>6. PICK p : p \in Receivers
  <2>1. Receivers # {}
    BY <1>2, FS_EmptySet
  <2> QED
    BY <2>1
<1>7. Receivers = {p}
  BY <1>2, <1>5, <1>6, OneMember
<1> QED
  BY <1>5, <1>6, <1>7

LEMMA MoveFull ==
  ASSUME PartOf = {}, BuildInv, OnceInv, Sound, NothingMissing, Move, Sure'
  PROVE  Sound' /\ NothingMissing'
<1>1. /\ ret # 0 /\ ret' = 0 /\ graph' = graph /\ stack # <<>> /\ stack \in Seq(Frame)
  BY DEF Move, BuildInv, TreeOK
<1>2. PICK S : CutShort(S, stack) /\ OnceOK(S, tree) /\ Full(S, tree, dep, Reached)
  BY <1>1 DEF NothingMissing, CallsNow
<1>3. PICK id : id = LineRead.id
  OBVIOUS
<1>4. /\ FlagMoved(S, stack', id) /\ SubtreeErased(tree, tree', id)
      /\ OnlyCallsGrow(stack', tree, tree') /\ TreeOK(stack', tree')
  BY <1>2, <1>3, MoveShape
<1>5. OnceOK(stack', tree')
  BY <1>1, MoveOnce DEF OnceInv
<1>6. Cardinality(parentNode) = 1
  <2>1. PICK again : moves' = moves \cup {[id |-> id, to |-> parentNode, again |-> again]}
    BY <1>3 DEF Move
  <2>2. \E m \in moves' : m.to = parentNode
    <3>1. [id |-> id, to |-> parentNode, again |-> again].to = parentNode
      OBVIOUS
    <3> QED
      BY <2>1, <3>1
  <2> QED
    BY <2>2 DEF Sure, Ambiguous
<1>7. PICK p : Receivers = {p} /\ \E i \in 1 .. Len(stack) : p = stack[i].node
  BY <1>6, OneReceiver
<1>8. PICK line : line = [prio |-> ret, qual |-> "b", id |-> id] /\ line.id = id
  <2> DEFINE new == [prio |-> ret, qual |-> "b", id |-> id]
  <2>1. new.id = id
    OBVIOUS
  <2> QED
    BY <2>1
<1>9. PICK d : /\ d = Len(stack) /\ d \in Nat /\ d \in 1 .. d /\ Len(stack') = d
               /\ \A i \in 1 .. d : stack'[i].node = stack[i].node /\ i \in 1 .. Len(S)
                                    /\ S[i].node = stack[i].node
               /\ Top.node = stack'[d].node
  <2>1. Len(stack) \in Nat /\ Len(stack) > 0
    BY <1>1, FrameTypes
  <2>2. Len(stack) \in 1 .. Len(stack)
    BY <2>1
  <2>3. Len(stack') = Len(stack) /\ \A i \in 1 .. Len(stack) : stack'[i].node = stack[i].node
    <3> DEFINE flagged == [Top EXCEPT !.remove = Append(@, LineRead.id)]
    <3>1. stack' = [stack EXCEPT ![Depth] = flagged]
      BY <2>2 DEF Move, Depth, Top
    <3>2. flagged.node = Top.node /\ Top = stack[Len(stack)] /\ Depth = Len(stack)
      <4>1. Top \in Frame
        BY <1>1, TopFacts
      <4> QED
        BY <4>1 DEF Frame, Top, Depth
    <3> HIDE DEF flagged
    <3> QED
      BY <1>1, <2>2, <3>1, <3>2
  <2>4. S \in Seq(Frame)
    BY <1>2 DEF OnceOK, TreeOK
  <2>5. Len(S) \in Nat /\ Len(stack) < Len(S) /\ \A i \in 1 .. Len(stack) : stack[i] = S[i]
    BY <1>2, <2>3, <2>4, FrameTypes DEF CutShort
  <2>6. \A i \in 1 .. Len(stack) : i \in 1 .. Len(S)
    BY <2>1, <2>5
  <2> QED
    BY <2>1, <2>2, <2>3, <2>5, <2>6, TopIsLast
<1>10. /\ Top.node \in DOMAIN dep /\ p \in DOMAIN dep
       /\ \A n \in DOMAIN dep : dep[n] \in Lines
  BY <1>2, <1>7, <1>9 DEF Full, Fed, BuildInv
<1>11. /\ DOMAIN Cut(id) = DOMAIN dep
       /\ \A m, x : LineIn(Cut(id), m, x) <=> LineIn(dep, m, x) /\ ~ (m = Top.node /\ x = id)
       /\ \A n \in DOMAIN dep : Cut(id)[n] \in Lines
  BY <1>10, CutLines, CutKeeps
<1>12. /\ DOMAIN dep' = DOMAIN dep
       /\ \A n \in DOMAIN dep : dep'[n] = IF n = p THEN Append(Cut(id)[n], line) ELSE Cut(id)[n]
  BY <1>3, <1>7, <1>8, <1>11 DEF Move
<1>13. \A m, x : LineIn(dep', m, x) <=>
         (LineIn(dep, m, x) /\ ~ (m = Top.node /\ x = id)) \/ (m = p /\ x = id)
  <2>1. Targets(dep'[p]) = Targets(Cut(id)[p]) \cup {id}
    BY <1>8, <1>10, <1>11, <1>12, AppendTargets
  <2>2. \A m, x : LineIn(dep', m, x) <=> LineIn(Cut(id), m, x) \/ (m = p /\ x = id)
    BY <1>10, <1>11, <1>12, <2>1 DEF LineIn
  <2> QED
    BY <1>11, <2>2
<1>14. /\ DOMAIN tree' = DOMAIN tree \ Erased(id)
       /\ \A n \in DOMAIN tree' : n # p => tree'[n].body = tree[n].body
       /\ p \in DOMAIN tree' => tree'[p].body = Append(tree[p].body, line)
  BY <1>3, <1>7, <1>8 DEF Move, WithBody
<1>15. p \in DOMAIN tree' /\ p \in DOMAIN tree
  <2>1. \A i \in 1 .. d : stack'[i].node \in DOMAIN tree'
    BY <1>4, <1>9, CallFacts
  <2> QED
    BY <1>7, <1>9, <1>14, <2>1
<1>16. id \in DOMAIN tree /\ Top.node \in DOMAIN tree /\ id \in Targets(tree[Top.node].body)
  <2>1. ReturnOK(stack, tree)
    BY <1>1 DEF BuildInv
  <2>2. Top.pos > 0 /\ id \in DOMAIN tree
    BY <1>3, <2>1, TopIsLast DEF ReturnOK, LineRead, Body
  <2>3. /\ Top.node \in DOMAIN tree /\ Top.pos \in Nat /\ Body \in Lines
        /\ Top.pos <= Len(Body)
    BY <1>1, TopFacts
  <2>4. Top.pos \in 1 .. Len(Body)
    <3>1. Len(Body) \in Nat
      BY <2>3 DEF Lines
    <3> QED
      BY <2>2, <2>3, <3>1
  <2> QED
    BY <1>3, <2>2, <2>3, <2>4 DEF LineRead, Body, Targets
<1>17. \A n \in DOMAIN tree' : ~ StartsWith(tree[n].link, tree[id].link)
  BY <1>2, <1>14, <1>16, ErasedAreAll DEF Full
<1>18. LineMoved(S, stack', tree, tree', dep, dep', id, p)
  <2>1. \E i \in 1 .. Len(stack') : p = stack'[i].node
    BY <1>7, <1>9
  <2> QED
    BY <1>8, <1>9, <1>12, <1>13, <1>14, <1>15, <1>17, <2>1 DEF LineMoved
<1>19. PICK R : R = Reached /\ Reached' = R
  BY <1>1 DEF Reached
<1>20. Full(stack', tree', dep', R)
  <2>1. TreeOK(S, tree) /\ UniqueOK(S, tree) /\ CallsListed(S, tree)
    BY <1>2 DEF OnceOK
  <2> QED
    BY <1>2, <1>4, <1>18, <1>19, <2>1, FullMoved
<1>21. Sound'
  <2>1. id \in R
    BY <1>16, <1>19 DEF Sound
  <2>2. ClosedBy(dep', R)
    BY <1>13, <1>19, <2>1 DEF Sound, ClosedBy
  <2>3. tree[p].body \in Lines
    BY <1>2, <1>15 DEF OnceOK, UniqueOK, FilesOK
  <2>4. Targets(tree'[p].body) \subseteq R
    <3>1. Targets(tree'[p].body) = Targets(tree[p].body) \cup {id}
      BY <1>8, <1>14, <1>15, <2>3, AppendTargets
    <3>2. Targets(tree[p].body) \subseteq R
      BY <1>15, <1>19 DEF Sound
    <3> QED
      BY <2>1, <3>1, <3>2
  <2>5. \A n \in DOMAIN tree' : n \in R /\ Targets(tree'[n].body) \subseteq R
    BY <1>14, <1>19, <2>4 DEF Sound
  <2> QED
    BY <1>19, <2>2, <2>5 DEF Sound
<1> QED
  BY <1>1, <1>5, <1>19, <1>20, <1>21 DEF NothingMissing, CallsNow

(* The files that are browsed are those of what root leads to, and each is *)
(* listed in one that is nearer to root.                                   *)
TreeFull ==
  /\ DOMAIN tree = Reached
  /\ \A id \in DOMAIN tree : Len(tree[id].link) \in Nat
  /\ \A id \in DOMAIN tree \ {Root} : \E m \in DOMAIN tree :
       id \in Targets(tree[m].body) /\ Len(tree[m].link) < Len(tree[id].link)

(* What the printed packages list is printed, and what the lines lead to   *)
(* whose calls have ended.                                                 *)
BrowseFull ==
  /\ \A n \in Listed : Targets(tree[n].body) \subseteq Listed
  /\ \A i \in 1 .. Len(stack) : \A k \in 1 .. stack[i].pos :
       k < stack[i].pos \/ i = Len(stack) => tree[stack[i].node].body[k].id \in Listed

LEMMA StartFull ==
  ASSUME BuildInv, OnceInv, graph \in Graph, Sound, NothingMissing, StartBrowse
  PROVE  TreeFull' /\ BrowseFull'
<1>1. /\ stack = <<>> /\ stack' = <<[node |-> Root, pos |-> 0, remove |-> <<>>]>>
      /\ tree' = tree /\ list' = list /\ graph' = graph
  BY DEF StartBrowse
<1>2. Len(stack) = 0
  BY <1>1
<1>3. ret = 0 /\ list = <<>>
  BY <1>2 DEF OnceInv, BackingUp
<1>4. /\ TreeOK(stack, tree) /\ UniqueOK(stack, tree) /\ Full(stack, tree, dep, Reached)
  BY <1>3, CallingFull
<1>5. PICK R : R = Reached /\ Reached' = R
  BY <1>1 DEF Reached
<1>6. ASSUME NEW m \in DOMAIN tree, NEW id PROVE ~ Unread(stack, tree, m, id)
  <2>1. ReadTo(stack, tree, m) = Len(tree[m].body)
    <3>1. ~ Len(tree[m].link) \in 1 .. 0
      BY <1>4, LinkTypes
    <3> QED
      BY <1>2, <3>1 DEF ReadTo, InCall
  <2>2. Len(tree[m].body) \in Nat
    <3>1. tree[m].body \in Lines
      BY <1>4 DEF UniqueOK, FilesOK
    <3> QED
      BY <3>1 DEF Lines
  <2> QED
    BY <2>1, <2>2 DEF Unread
<1>7. ClosedBy(dep, DOMAIN tree)
  BY <1>4, <1>6 DEF Full, Covered, ClosedBy
<1>8. DOMAIN tree = R
  <2>1. Root \in DOMAIN tree /\ DOMAIN tree \in SUBSET Node
    BY <1>4 DEF UniqueOK, FilesOK, TreeOK
  <2>2. R \subseteq DOMAIN tree
    BY <1>4, <1>5, <1>7, <2>1 DEF Full, Leads
  <2> QED
    BY <1>5, <2>2 DEF Sound
<1>9. TreeFull
  <2>1. \A id \in DOMAIN tree : Len(tree[id].link) \in Nat
    BY <1>4, LinkTypes
  <2>2. ASSUME NEW id \in DOMAIN tree \ {Root}
        PROVE  \E m \in DOMAIN tree :
                 id \in Targets(tree[m].body) /\ Len(tree[m].link) < Len(tree[id].link)
    <3>1. PICK m \in DOMAIN tree : Lists(stack, tree, m, id)
      BY <1>4 DEF Full, AllListed
    <3>2. id \in Targets(tree[m].body)
      BY <1>4, <3>1, ListsATarget
    <3>3. Rooted(tree, m) /\ Rooted(tree, id) /\ id \in Node
      BY <1>4 DEF Full, AllListed, TreeOK
    <3>4. Child(tree, m, id)
      BY <1>4, <3>1, <3>3 DEF UniqueOK, ListerAbove, Rooted
    <3>5. Len(tree[m].link) < Len(tree[id].link)
      BY <2>1, <3>4 DEF Child
    <3> QED
      BY <3>2, <3>5
  <2> QED
    BY <1>5, <1>8, <2>1, <2>2 DEF TreeFull
<1>10. BrowseFull'
  <2>1. Listed' = {}
    <3>1. Len(list') = 0
      BY <1>1, <1>3
    <3> QED
      BY <3>1 DEF Listed
  <2>2. \A i \in 1 .. Len(stack') : stack'[i].pos = 0
    BY <1>1
  <2>3. \A i \in 1 .. Len(stack') : 1 .. stack'[i].pos = {}
    BY <2>2
  <2> QED
    BY <2>1, <2>3 DEF BrowseFull
<1> QED
  BY <1>1, <1>5, <1>9, <1>10 DEF TreeFull

(* A line is read for which a call begins.                                 *)
LEMMA BrowseDownFull ==
  ASSUME Forest(tree), BrowseInv, BrowseFull, BrowseDown
  PROVE  BrowseFull'
<1> DEFINE call == [node |-> Current.id, pos |-> 0, remove |-> <<>>]
<1>1. /\ MoreLines /\ tree' = tree /\ list' = list /\ stack' = Append(Step, call)
  BY DEF BrowseDown
<1>2. /\ Depth \in Nat /\ Depth \in 1 .. Depth /\ Len(stack) = Depth /\ Top = stack[Depth]
      /\ Current.id \in Node /\ Top.pos \in Nat
      /\ ReadOn(stack, Step) /\ Len(Step) = Depth /\ Step \in Seq(Frame)
  BY <1>1, BrowsedLine
<1>3. call \in Frame /\ call.pos = 0
  BY <1>2 DEF Frame
<1> HIDE DEF call
<1>4. PICK d : d = Depth /\ d \in Nat /\ d \in 1 .. d
  BY <1>2
<1>5. /\ Len(stack') = d + 1 /\ stack'[d + 1] = call
      /\ \A i \in 1 .. d : stack'[i] = Step[i]
  <2> DEFINE s == Step
  <2>1. s \in Seq(Frame) /\ Len(s) = d /\ stack' = Append(s, call)
    BY <1>1, <1>2, <1>4
  <2> HIDE DEF s
  <2>2. /\ Len(Append(s, call)) = Len(s) + 1
        /\ Append(s, call)[Len(s) + 1] = call
        /\ \A i \in 1 .. Len(s) : Append(s, call)[i] = s[i]
    BY <1>3, <2>1
  <2> QED
    BY <2>1, <2>2 DEF s
<1>6. Listed' = Listed
  BY <1>1 DEF Listed
<1>7. ASSUME NEW i \in 1 .. d + 1, NEW k \in 1 .. stack'[i].pos,
             k < stack'[i].pos \/ i = d + 1
      PROVE  tree[stack'[i].node].body[k].id \in Listed
  <2>1. i # d + 1
    BY <1>3, <1>5, <1>7
  <2>2. i \in 1 .. d /\ k < stack'[i].pos
    BY <1>4, <1>7, <2>1
  <2>3. /\ stack'[i].node = stack[i].node
        /\ stack'[i].pos = IF i = d THEN stack[i].pos + 1 ELSE stack[i].pos
    BY <1>2, <1>4, <1>5, <2>2 DEF ReadOn
  <2>4. stack[i].pos \in Nat
    BY <1>2, <1>4, <2>2, FrameTypes DEF BrowseInv
  <2>5. k \in 1 .. stack[i].pos /\ (k < stack[i].pos \/ i = d)
    BY <2>2, <2>3, <2>4
  <2> QED
    BY <1>2, <1>4, <2>2, <2>3, <2>5 DEF BrowseFull
<1> QED
  BY <1>1, <1>5, <1>6, <1>7 DEF BrowseFull

(* A package is printed whose file has no lines.                           *)
LEMMA BrowseLeafFull ==
  ASSUME Forest(tree), BrowseInv, BuiltOnce, BrowseFull, BrowseLeaf
  PROVE  BrowseFull'
<1>1. PICK x : x = Current.id
  OBVIOUS
<1>2. /\ MoreLines /\ tree' = tree /\ list' = Append(list, x) /\ stack' = Step
      /\ ~ HasBody(x)
  BY <1>1 DEF BrowseLeaf
<1>3. /\ Depth \in Nat /\ Depth \in 1 .. Depth /\ Len(stack) = Depth /\ Top = stack[Depth]
      /\ x \in Node /\ Top.pos \in Nat /\ Current = tree[Top.node].body[Top.pos + 1]
      /\ Top.node \in DOMAIN tree /\ Rooted(tree, Top.node)
      /\ Top.pos + 1 \in 1 .. Len(tree[Top.node].body)
      /\ ReadOn(stack, Step) /\ Len(Step) = Depth
  BY <1>1, <1>2, BrowsedLine
<1>4. Listed' = Listed \cup {x}
  <2>1. list \in Seq(Node)
    BY DEF BrowseInv
  <2> QED
    BY <1>2, <1>3, <2>1, OneMoreListed
<1>5. Targets(tree[x].body) = {}
  <2>1. x \in DOMAIN tree
    BY <1>1, <1>3 DEF Forest, LinesLead
  <2>2. tree[x].body = <<>>
    BY <1>2, <2>1 DEF HasBody
  <2> QED
    BY <2>2 DEF Targets
<1>6. ASSUME NEW i \in 1 .. Depth, NEW k \in 1 .. stack'[i].pos,
             k < stack'[i].pos \/ i = Depth
      PROVE  tree[stack'[i].node].body[k].id \in Listed'
  <2>1. /\ stack'[i].node = stack[i].node
        /\ stack'[i].pos = IF i = Depth THEN stack[i].pos + 1 ELSE stack[i].pos
    BY <1>2, <1>3 DEF ReadOn
  <2>2. stack[i].pos \in Nat
    BY <1>3, FrameTypes DEF BrowseInv
  <2>3. CASE i = Depth /\ k = Top.pos + 1
    BY <1>1, <1>3, <1>4, <2>1, <2>3
  <2>4. CASE ~ (i = Depth /\ k = Top.pos + 1)
    <3>1. k \in 1 .. stack[i].pos /\ (k < stack[i].pos \/ i = Depth)
      BY <1>3, <1>6, <2>1, <2>2, <2>4
    <3> QED
      BY <1>3, <1>4, <2>1, <3>1 DEF BrowseFull
  <2> QED
    BY <2>3, <2>4
<1>7. \A n \in Listed' : Targets(tree[n].body) \subseteq Listed'
  BY <1>4, <1>5 DEF BrowseFull
<1>8. Len(stack') = Depth
  BY <1>2, <1>3
<1> QED
  BY <1>2, <1>6, <1>7, <1>8 DEF BrowseFull

(* A call ends: all that its file lists has been printed.                  *)
LEMMA AllPrinted ==
  ASSUME Forest(tree), BrowseInv, BrowseFull, BrowseUp
  PROVE  Targets(tree[Top.node].body) \subseteq Listed
<1>1. stack # <<>> /\ ~ Top.pos < Len(Body) /\ stack \in Seq(Frame)
  BY DEF BrowseUp, MoreLines, BrowseInv
<1>2. PICK d : d = Len(stack) /\ d \in 1 .. d /\ stack[d].pos \in Nat /\ Top = stack[d]
  <2>1. Len(stack) \in Nat /\ Len(stack) > 0
    BY <1>1, FrameTypes
  <2>2. Len(stack) \in 1 .. Len(stack)
    BY <2>1
  <2> QED
    BY <1>1, <2>2, FrameTypes, TopIsLast
<1>3. VisitOK(d)
  BY <1>2 DEF BrowseInv
<1>4. Top.node \in DOMAIN tree /\ Top.pos <= Len(tree[Top.node].body)
  BY <1>2, <1>3 DEF VisitOK
<1>5. Len(tree[Top.node].body) \in Nat
  <2>1. tree[Top.node].body \in Lines
    BY <1>4 DEF Forest
  <2> QED
    BY <2>1 DEF Lines
<1>6. Top.pos = Len(tree[Top.node].body)
  BY <1>1, <1>2, <1>4, <1>5 DEF Body
<1> QED
  BY <1>2, <1>6 DEF BrowseFull, Targets

LEMMA BrowseUpFull ==
  ASSUME Forest(tree), BrowseInv, BuiltOnce, BrowseFull, BrowseUp, mode' = "browse"
  PROVE  BrowseFull'
<1>1. /\ stack # <<>> /\ stack' = Front(stack) /\ tree' = tree
      /\ list' = Append(list, Top.node) /\ Depth # 1
  BY DEF BrowseUp
<1>2. stack \in Seq(Frame) /\ list \in Seq(Node)
  BY DEF BrowseInv
<1>3. PICK d : d = Len(stack) /\ d \in Nat /\ d > 1 /\ d \in 1 .. d
  <2>1. Len(stack) \in Nat /\ Len(stack) > 0 /\ Len(stack) # 1
    BY <1>1, <1>2, FrameTypes DEF Depth
  <2>2. PICK d : d = Len(stack)
    OBVIOUS
  <2>3. d > 1 /\ d \in 1 .. d
    BY <2>1, <2>2
  <2> QED
    BY <2>1, <2>2, <2>3
<1>4. PICK x : x = Top.node /\ x = stack[d].node
  BY <1>3, TopIsLast
<1>5. x \in Node
  BY <1>2, <1>3, <1>4, FrameTypes
<1>6. Listed' = Listed \cup {x}
  BY <1>1, <1>2, <1>4, <1>5, OneMoreListed
<1>7. Targets(tree[x].body) \subseteq Listed
  BY <1>4, AllPrinted
<1>8. Len(stack') = d - 1 /\ \A i \in 1 .. d - 1 : stack'[i] = stack[i]
  BY <1>1, <1>2, <1>3 DEF Front
<1>9. ASSUME NEW i \in 1 .. d - 1, NEW k \in 1 .. stack[i].pos,
             k < stack[i].pos \/ i = d - 1
      PROVE  tree[stack[i].node].body[k].id \in Listed'
  <2>1. i \in 1 .. d /\ i < d
    BY <1>3
  <2>2. CASE k < stack[i].pos
    BY <1>3, <1>6, <2>1, <2>2 DEF BrowseFull
  <2>3. CASE ~ k < stack[i].pos
    <3>1. i = d - 1 /\ i + 1 = d
      BY <1>3, <1>9, <2>3
    <3>2. k = stack[i].pos
      <4>1. stack[i].pos \in Nat
        BY <1>2, <1>3, <2>1, FrameTypes
      <4> QED
        BY <2>3, <4>1
    <3>3. VisitOK(i)
      BY <1>3, <2>1 DEF BrowseInv
    <3>4. tree[stack[i].node].body[stack[i].pos].id = stack[i + 1].node
      BY <1>3, <2>1, <3>3 DEF VisitOK
    <3> QED
      BY <1>4, <1>6, <3>1, <3>2, <3>4
  <2> QED
    BY <2>2, <2>3
<1>10. \A n \in Listed' : Targets(tree[n].body) \subseteq Listed'
  BY <1>6, <1>7 DEF BrowseFull
<1> QED
  BY <1>1, <1>8, <1>9, <1>10 DEF BrowseFull

(* When the call for root ends, everything has been printed.               *)
LEMMA BrowseEnds ==
  ASSUME Forest(tree), BrowseInv, TreeFull, BrowseFull, BrowseUp, mode' = "done"
  PROVE  ListComplete'
<1>1. /\ stack # <<>> /\ list' = list /\ graph' = graph /\ Depth = 1
  BY DEF BrowseUp
<1>2. Top.node = Root
  BY <1>1 DEF BrowseInv, Top
<1>3. Targets(tree[Root].body) \subseteq Listed
  BY <1>2, AllPrinted
<1> DEFINE Lengths == {Len(tree[n].link) : n \in {m \in DOMAIN tree \ {Root} : m \notin Listed}}
<1>4. Lengths = {}
  <2>1. SUFFICES ASSUME Lengths # {} PROVE FALSE
    OBVIOUS
  <2>2. Lengths \in SUBSET Nat
    BY DEF TreeFull
  <2>3. PICK l \in Lengths : \A k \in Lengths : ~ (k < l)
    BY <2>1, <2>2, LeastNat
  <2>4. PICK n \in DOMAIN tree \ {Root} : n \notin Listed /\ Len(tree[n].link) = l
    BY <2>3
  <2>5. PICK m \in DOMAIN tree :
          n \in Targets(tree[m].body) /\ Len(tree[m].link) < Len(tree[n].link)
    BY DEF TreeFull
  <2>6. m = Root \/ m \in Listed
    BY <2>3, <2>4, <2>5
  <2> QED
    BY <1>3, <2>4, <2>5, <2>6 DEF BrowseFull
<1>5. DOMAIN tree \ {Root} \subseteq Listed
  BY <1>4
<1>6. Listed \subseteq DOMAIN tree \ {Root}
  <2> SUFFICES ASSUME NEW id \in Listed PROVE id \in DOMAIN tree /\ id # Root
    OBVIOUS
  <2>1. PICK m \in DOMAIN tree : \E j \in 1 .. Len(tree[m].body) :
          Rooted(tree, m) /\ tree[m].body[j].id = id
    BY DEF BrowseInv
  <2>2. PICK j \in 1 .. Len(tree[m].body) : Rooted(tree, m) /\ tree[m].body[j].id = id
    BY <2>1
  <2>3. id \in DOMAIN tree
    BY <2>2 DEF Forest, LinesLead
  <2>4. tree[m].body[j] \in Line(Node \ {Root})
    <3>1. tree[m].body \in Lines
      BY DEF Forest
    <3> QED
      BY <3>1 DEF Lines
  <2> QED
    BY <2>2, <2>3, <2>4 DEF Line
<1>7. Listed' = Listed
  BY <1>1 DEF Listed
<1>8. Listed' = Reachable(graph', Root, 4) \ {Root}
  BY <1>1, <1>5, <1>6, <1>7 DEF TreeFull, Reached
<1> QED
  BY <1>8 DEF ListComplete

(* Together with what is proved of the files above: nothing is lost while  *)
(* the files are built, nor while they are browsed.                        *)
WholeInv ==
  /\ graph \in Graph
  /\ Sure => /\ mode = "build" => Sound /\ NothingMissing
             /\ mode = "browse" => TreeFull /\ BrowseFull
             /\ ListComplete

LEMMA InitWhole == ASSUME Init PROVE WholeInv
<1>1. /\ BuiltInv /\ graph \in Graph /\ mode = "build" /\ ret = 0 /\ dep = graph
      /\ DOMAIN tree = {Root} /\ tree[Root].body = graph[Root] /\ tree[Root].link = <<1>>
      /\ stack = <<[node |-> Root, pos |-> 0, remove |-> <<>>]>>
  BY InitOnce DEF Init
<1>2. OnceOK(stack, tree) /\ TreeOK(stack, tree)
  BY <1>1 DEF BuiltInv, OnceInv, OnceOK
<1>3. PICK R : R = Reached
  OBVIOUS
<1>4. Root \in R /\ ClosedBy(graph, R) /\ Leads(graph, R)
  BY <1>1, <1>3, ReachFacts DEF Reached
<1>5. Root \in DOMAIN graph
  BY <1>1, DepTreeAssumption DEF GraphOn
<1>6. Sound
  <2>1. \A x \in Targets(graph[Root]) : x \in R
    BY <1>4, <1>5 DEF ClosedBy, LineIn
  <2> QED
    BY <1>1, <1>3, <1>4, <2>1 DEF Sound
<1>7. Len(stack) = 1 /\ stack[1].node = Root /\ stack[1].pos = 0
  BY <1>1
<1>8. ReadTo(stack, tree, Root) = 0
  <2>1. 1 \in 1 .. Len(stack)
    BY <1>7
  <2> QED
    BY <1>2, <1>7, <2>1, CallFacts
<1>9. AllListed(stack, tree)
  <2>1. Rooted(tree, Root)
    <3>1. /\ <<1>> # <<>> /\ Len(<<1>>) = 1 /\ \A l \in 1 .. 1 : l = 1
          /\ StartsWith(<<1>>, <<1>>)
      BY DEF StartsWith
    <3> QED
      BY <1>1, <3>1 DEF Rooted
  <2> QED
    BY <1>1, <2>1 DEF AllListed
<1>10. ASSUME NEW k \in 1 .. Len(graph[Root])
       PROVE  LineIn(graph, Root, graph[Root][k].id)
  BY <1>5 DEF LineIn, Targets
<1>11. Covered(stack, tree, graph)
  <2> SUFFICES ASSUME NEW id, LineIn(graph, Root, id) PROVE Unread(stack, tree, Root, id)
    BY <1>1 DEF Covered
  <2>1. PICK k \in 1 .. Len(graph[Root]) : graph[Root][k].id = id
    BY DEF LineIn, Targets
  <2> QED
    BY <1>1, <1>8, <2>1 DEF Unread
<1>12. Separate(stack, tree, graph)
  <2>1. 2 .. 1 = {}
    OBVIOUS
  <2> QED
    BY <1>7, <2>1 DEF Separate
<1>13. Fed(stack, tree, graph)
  <2>1. 2 .. 1 = {} /\ 1 .. 1 = {1}
    OBVIOUS
  <2>2. 0 + 1 = 1
    OBVIOUS
  <2> QED
    BY <1>1, <1>5, <1>7, <1>10, <2>1, <2>2 DEF Fed
<1>14. NothingMissing
  BY <1>1, <1>2, <1>3, <1>4, <1>9, <1>11, <1>12, <1>13 DEF NothingMissing, CallsNow, Full
<1> QED
  BY <1>1, <1>6, <1>14 DEF WholeInv, ListComplete, Done

LEMMA NextWhole ==
  ASSUME PartOf = {}, BuiltInv, WholeInv, [Next]_vars
  PROVE  WholeInv'
<1>1. CASE UNCHANGED vars
  <2>1. /\ Reached' = Reached /\ Listed' = Listed
        /\ UNCHANGED <<graph, dep, tree, stack, ret, mode, list, moves>>
    BY <1>1 DEF vars, Reached, Listed
  <2>2. Sure' = Sure /\ Sound' = Sound /\ TreeFull' = TreeFull /\ ListComplete' = ListComplete
    BY <2>1 DEF Sure, Ambiguous, Wiped, Sound, TreeFull, ListComplete, Done
  <2>3. NothingMissing => NothingMissing'
    BY <2>1 DEF NothingMissing, CallsNow
  <2>4. BrowseFull => BrowseFull'
    BY <2>1 DEF BrowseFull
  <2> QED
    BY <2>1, <2>2, <2>3, <2>4 DEF WholeInv
<1>2. CASE Next
  <2>1. graph' = graph
    BY <1>2 DEF Next, EmptyLink, Prune, BackUp, BuiltElsewhere, Leaf, Descend, Return, Move,
                KeepBackingUp, StartBrowse, BrowseDown, BrowseLeaf, BrowseUp
  <2>2. graph' \in Graph
    BY <2>1 DEF WholeInv
  <2> SUFFICES ASSUME Sure'
               PROVE  /\ mode' = "build" => Sound' /\ NothingMissing'
                      /\ mode' = "browse" => TreeFull' /\ BrowseFull'
                      /\ ListComplete'
    BY <2>2 DEF WholeInv
  <2>3. Sure
    BY <1>2, SureBefore
  <2>4. /\ mode = "build" => Sound /\ NothingMissing /\ BuildInv /\ OnceInv /\ IInv
        /\ mode = "browse" => TreeFull /\ BrowseFull /\ Forest(tree) /\ BrowseInv
        /\ BuiltOnce /\ graph \in Graph
    BY <2>3 DEF WholeInv, BuiltInv, IInv
  <2>5. ASSUME mode' # "done" PROVE ListComplete'
    BY <2>5 DEF ListComplete, Done
  <2>6. CASE Prune \/ BackUp \/ BuiltElsewhere \/ Leaf \/ Descend \/ Return \/ Move
             \/ KeepBackingUp
    <3>1. mode = "build" /\ mode' = "build"
      BY <2>6 DEF Building, Prune, BackUp, BuiltElsewhere, Leaf, Descend, Return, Move,
                  KeepBackingUp
    <3>2. Sound' /\ NothingMissing'
      BY <2>4, <2>6, <3>1, PruneFull, BackUpFull, AddFull, ReturnFull, MoveFull,
         KeepBackingUpFull
    <3> QED
      BY <2>5, <3>1, <3>2
  <2>7. CASE EmptyLink
    <3>1. mode' = "exit"
      BY <2>7 DEF EmptyLink
    <3> QED
      BY <2>5, <3>1
  <2>8. CASE StartBrowse
    <3>1. mode = "build" /\ mode' = "browse"
      BY <2>8 DEF StartBrowse
    <3>2. TreeFull' /\ BrowseFull'
      BY <2>4, <2>8, <3>1, StartFull
    <3> QED
      BY <2>5, <3>1, <3>2
  <2>9. CASE BrowseDown \/ BrowseLeaf \/ BrowseUp
    <3>1. mode = "browse" /\ tree' = tree
      BY <2>9 DEF BrowseDown, BrowseLeaf, BrowseUp
    <3>2. mode' \in {"browse", "done"} /\ (mode' = "done" => BrowseUp)
      BY <2>9 DEF BrowseDown, BrowseLeaf, BrowseUp
    <3>3. TreeFull'
      BY <2>1, <2>4, <3>1 DEF TreeFull, Reached
    <3>4. mode' = "browse" => BrowseFull'
      BY <2>4, <2>9, <3>1, BrowseDownFull, BrowseLeafFull, BrowseUpFull
    <3>5. mode' = "done" => ListComplete'
      BY <2>4, <3>1, <3>2, BrowseEnds
    <3> QED
      BY <2>5, <3>2, <3>3, <3>4, <3>5
  <2> QED
    BY <1>2, <2>6, <2>7, <2>8, <2>9 DEF Next
<1> QED
  BY <1>1, <1>2

(* The pass lists every package that root leads to, and no other, when no  *)
(* name contains another one, unless a redirection was ambiguous or a file *)
(* was wiped.                                                              *)
THEOREM BuildOrderIsComplete ==
  ASSUME PartOf = {}
  PROVE  Spec => []CompleteUnlessAmbiguous
<1>1. Init => BuiltInv /\ WholeInv
  BY InitOnce, InitWhole
<1>2. BuiltInv /\ WholeInv /\ [Next]_vars => BuiltInv' /\ WholeInv'
  BY NextOnce, NextWhole
<1>3. WholeInv => CompleteUnlessAmbiguous
  BY DEF WholeInv, Sure, CompleteUnlessAmbiguous
<1> QED
  BY <1>1, <1>2, <1>3, PTL DEF Spec
===============================================================================
