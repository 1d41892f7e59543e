------------------------------ MODULE CleanProofs ------------------------------
(***************************************************************************)
(* Proofs about CleanSubgraph, for every finite subgraph: when it ends, no *)
(* edge dangles and none has the qualifier "after", not even in the files  *)
(* that the second and third loops write.  The invariant says what each    *)
(* loop has achieved for the files it has dealt with, and that the loops   *)
(* after it keep this for all files.                                       *)
(*                                                                         *)
(* Then two results about the edges that the second and third loops turn   *)
(* round.  Where each line of the files comes from: from a line of the     *)
(* graph, or from a file's own group (EdgeInv); and a group leads to       *)
(* nothing that leads back to it, but the node itself (GroupInv).  Hence   *)
(* the files have no cycle that the graph did not have (NoCycleAdded).     *)
(* And a first pass does not lead back to what it must precede, because no *)
(* turn of the third loop makes a path that was not there (CyclesBroken).  *)
(*                                                                         *)
(* Last, what the files still lead to, when no name contains another.  A   *)
(* parent that needs a node leads to its group or to a first pass of it,   *)
(* and these to all its "after" dependencies (ServeInv, AfterIsServed).    *)
(* And what is followed from root attains every node (ReachInv), so that   *)
(* it still does when edges have been turned round (NothingIsLost).        *)
(***************************************************************************)
EXTENDS CleanSubgraph, DepFilesProofs

(* The lines of every file lead to files.                                  *)
Complete(files) == \A n \in DOMAIN files : files[n] \in Seq(Line(DOMAIN files))

NoAfter(file) == \A i \in 1 .. Len(file) : file[i].qual # "a"

DanglingInv ==
  /\ IsFiniteSet(DOMAIN dep)
  /\ \A n \in DOMAIN dep :
       /\ dep[n] \in Seq(Line(Package))
       /\ n \in todo \/ dep[n] \in Seq(Line(DOMAIN dep))

AfterInv ==
  /\ IsFiniteSet(DOMAIN dep) /\ Complete(dep)
  /\ \A n \in DOMAIN dep : n \in todo \/ NoAfter(dep[n])

CleanInv == Complete(dep) /\ \A n \in DOMAIN dep : NoAfter(dep[n])

IInv ==
  /\ loop \in {"dangling", "after", "first", "done"}
  /\ todo \subseteq DOMAIN dep
  /\ loop = "dangling" => DanglingInv
  /\ loop = "after" => AfterInv
  /\ loop \in {"first", "done"} => CleanInv

-------------------------------------------------------------------------------
(* Files as sequences of lines.                                            *)
LEMMA SeqOfMore ==
  ASSUME NEW S, NEW T, S \subseteq T, NEW q \in Seq(S)
  PROVE  q \in Seq(T)
<1>1. Len(q) \in Nat /\ q \in [1 .. Len(q) -> S]
  OBVIOUS
<1>2. q \in [1 .. Len(q) -> T]
  BY <1>1
<1> QED
  BY <1>1, <1>2

LEMMA LinesOfMore ==
  ASSUME NEW M, NEW N, M \subseteq N, NEW file \in Seq(Line(M))
  PROVE  file \in Seq(Line(N))
<1>1. Line(M) \subseteq Line(N)
  BY DEF Line
<1> QED
  BY <1>1, SeqOfMore

LEMMA FromLines ==
  ASSUME NEW N, NEW file \in Seq(Line(N)), \A i \in 1 .. Len(file) : file[i].id \in N
  PROVE  Targets(file) \subseteq N
BY DEF Targets

LEMMA LineOf ==
  ASSUME NEW N, NEW file \in Seq(Line(N)), NEW i \in 1 .. Len(file)
  PROVE  /\ file[i] \in Line(N) /\ file[i].id \in N
         /\ file[i].prio \in Weight /\ file[i].qual \in Qualifier
         /\ file[i] = [prio |-> file[i].prio, qual |-> file[i].qual, id |-> file[i].id]
<1>1. file[i] \in Line(N)
  OBVIOUS
<1> QED
  BY <1>1 DEF Line

(* Lines, each changed to one of the same or other targets.                *)
LEMMA SeqByItems ==
  ASSUME NEW L, NEW n \in Nat, NEW f, f = [i \in 1 .. n |-> f[i]],
         \A i \in 1 .. n : f[i] \in L
  PROVE  f \in Seq(L) /\ Len(f) = n
<1>1. f \in [1 .. n -> L]
  OBVIOUS
<1> QED
  BY <1>1

(* What is left of a file when lines are removed.                          *)
LEMMA KeptFile ==
  ASSUME NEW N, NEW file \in Seq(Line(N)), NEW keep
  PROVE  /\ Kept(file, keep) \in Seq(Line(N))
         /\ \A k \in 1 .. Len(Kept(file, keep)) :
              \E i \in 1 .. Len(file) : i \in keep /\ file[i] = Kept(file, keep)[k]
         /\ \A i \in 1 .. Len(file) :
              i \in keep => \E k \in 1 .. Len(Kept(file, keep)) :
                              Kept(file, keep)[k] = file[i]
         /\ NoAfter(file) => NoAfter(Kept(file, keep))
<1>1. /\ Kept(file, keep) \in Seq(Line(N))
      /\ \A k \in 1 .. Len(Kept(file, keep)) :
           \E i \in 1 .. Len(file) : i \in keep /\ file[i] = Kept(file, keep)[k]
  BY KeptLines
<1>2. \A i \in 1 .. Len(file) :
        i \in keep => \E k \in 1 .. Len(Kept(file, keep)) : Kept(file, keep)[k] = file[i]
  BY KeptLines
<1>3. NoAfter(file) => NoAfter(Kept(file, keep))
  BY <1>1 DEF NoAfter
<1> QED
  BY <1>1, <1>2, <1>3

(* sed leaves no line to the nodes it is called for.                       *)
LEMMA WithoutFile ==
  ASSUME NEW N, NEW file \in Seq(Line(N)), NEW ids
  PROVE  /\ Without(file, ids) \in Seq(Line(N))
         /\ \A k \in 1 .. Len(Without(file, ids)) :
              \E i \in 1 .. Len(file) :
                file[i].id \notin ids /\ Without(file, ids)[k] = file[i]
         /\ NoAfter(file) => NoAfter(Without(file, ids))
<1> DEFINE keep == {i \in DOMAIN file : file[i].id \notin ids}
<1>1. Without(file, ids) = Kept(file, keep)
  BY DEF Without
<1>2. \A i \in keep : file[i].id \notin ids
  OBVIOUS
<1> HIDE DEF keep
<1> QED
  BY <1>1, <1>2, KeptFile

(* The lines that have a qualifier.                                        *)
LEMMA QualifiedFile ==
  ASSUME NEW N, NEW file \in Seq(Line(N)), NEW q
  PROVE  /\ Qualified(file, q) \in Seq(Line(N))
         /\ Targets(Qualified(file, q)) \subseteq N
         /\ \A i \in 1 .. Len(file) :
              file[i].qual = q => file[i].id \in Targets(Qualified(file, q))
         /\ q = "a" /\ Qualified(file, q) = <<>> => NoAfter(file)
<1> DEFINE kept == Qualified(file, q)
<1>1. /\ kept \in Seq(Line(N))
      /\ \A i \in 1 .. Len(file) : file[i].qual = q =>
           \E k \in 1 .. Len(kept) : kept[k] = file[i]
  <2> DEFINE keep == {i \in DOMAIN file : file[i].qual = q}
  <2>1. \A i \in 1 .. Len(file) : file[i].qual = q => i \in keep
    OBVIOUS
  <2>2. kept = Kept(file, keep)
    BY DEF Qualified
  <2> HIDE DEF keep, kept
  <2> QED
    BY <2>1, <2>2, KeptFile
<1> HIDE DEF kept
<1>2. \A k \in 1 .. Len(kept) : kept[k].id \in N
  BY <1>1, LineOf
<1>3. ASSUME q = "a", kept = <<>> PROVE NoAfter(file)
  BY <1>1, <1>3 DEF NoAfter
<1>4. Targets(kept) \subseteq N
  BY <1>2 DEF Targets
<1>5. ASSUME NEW i \in 1 .. Len(file), file[i].qual = q PROVE file[i].id \in Targets(kept)
  <2>1. PICK k \in 1 .. Len(kept) : kept[k] = file[i]
    BY <1>1, <1>5
  <2> QED
    BY <2>1 DEF Targets
<1> QED
  BY <1>1, <1>3, <1>4, <1>5 DEF kept

-------------------------------------------------------------------------------
(* The recursive functions of the second and the third loop have values,   *)
(* by induction on the number of lines read.                               *)
OwnLine(node) == [prio |-> 1, qual |-> "b", id |-> node]

AddToGroup(file, line) ==
  IF \E id \in Targets(file) : Occurs(line.id, id) THEN file
  ELSE Append(file, [line EXCEPT !.qual = "b"])

GroupFunction(node, after, n, f) ==
  f = [i \in 0 .. n |->
         IF i = 0 THEN <<OwnLine(node)>> ELSE AddToGroup(f[i - 1], after[i])]

LEMMA GroupExists ==
  ASSUME NEW node, NEW after, NEW n \in Nat
  PROVE  \E f : GroupFunction(node, after, n, f)
<1> DEFINE Bad == {m \in Nat : ~ \E f : GroupFunction(node, after, m, f)}
<1> SUFFICES ASSUME Bad # {} PROVE FALSE
  OBVIOUS
<1>1. PICK m \in Bad : \A k \in Bad : ~(k < m)
  BY LeastNat
<1>2. CASE m = 0
  <2>1. GroupFunction(node, after, 0, [i \in 0 .. 0 |-> <<OwnLine(node)>>])
    BY DEF GroupFunction
  <2> QED
    BY <1>1, <1>2, <2>1
<1>3. CASE m # 0
  <2>1. m - 1 \in Nat /\ m - 1 < m /\ m - 1 \in 0 .. m - 1 /\ m \in 0 .. m
    BY <1>1, <1>3
  <2>2. PICK g : GroupFunction(node, after, m - 1, g)
    BY <1>1, <2>1
  <2> DEFINE last == AddToGroup(g[m - 1], after[m])
             f == [i \in 0 .. m |-> IF i = m THEN last ELSE g[i]]
  <2>3. ASSUME NEW i \in 0 .. m
        PROVE  f[i] = IF i = 0 THEN <<OwnLine(node)>> ELSE AddToGroup(f[i - 1], after[i])
    <3>1. CASE i = m
      <4>1. f[i] = last /\ i # 0 /\ f[i - 1] = g[m - 1]
        BY <3>1, <2>1, <1>3
      <4> QED
        BY <4>1, <3>1
    <3>2. CASE i # m
      <4>1. i \in 0 .. m - 1 /\ (i # 0 => i - 1 \in 0 .. m - 1 /\ i - 1 # m)
        BY <3>2, <2>1
      <4>2. g[i] = IF i = 0 THEN <<OwnLine(node)>> ELSE AddToGroup(g[i - 1], after[i])
        BY <4>1, <2>2 DEF GroupFunction
      <4>3. f[i] = g[i] /\ (i # 0 => f[i - 1] = g[i - 1])
        BY <4>1, <3>2, <2>1
      <4> QED
        BY <4>2, <4>3
    <3> QED
      BY <3>1, <3>2
  <2>4. GroupFunction(node, after, m, f)
    <3>1. f = [i \in 0 .. m |-> f[i]]
      OBVIOUS
    <3> HIDE DEF f
    <3> QED
      BY <3>1, <2>3 DEF GroupFunction
  <2> QED
    BY <1>1, <2>4
<1> QED
  BY <1>2, <1>3

AddPass(files, node, id) == Put(files, Pass1(id), Pass1File(files, node, id))

PassFunction(node, first, n, f) ==
  f = [i \in 0 .. n |->
         IF i = 0 THEN dep ELSE AddPass(f[i - 1], node, first[i].id)]

LEMMA PassExists ==
  ASSUME NEW node, NEW first, NEW n \in Nat
  PROVE  \E f : PassFunction(node, first, n, f)
<1> DEFINE Bad == {m \in Nat : ~ \E f : PassFunction(node, first, m, f)}
<1> SUFFICES ASSUME Bad # {} PROVE FALSE
  OBVIOUS
<1>1. PICK m \in Bad : \A k \in Bad : ~(k < m)
  BY LeastNat
<1>2. CASE m = 0
  <2>1. PassFunction(node, first, 0, [i \in 0 .. 0 |-> dep])
    BY DEF PassFunction
  <2> QED
    BY <1>1, <1>2, <2>1
<1>3. CASE m # 0
  <2>1. m - 1 \in Nat /\ m - 1 < m /\ m - 1 \in 0 .. m - 1 /\ m \in 0 .. m
    BY <1>1, <1>3
  <2>2. PICK g : PassFunction(node, first, m - 1, g)
    BY <1>1, <2>1
  <2> DEFINE last == AddPass(g[m - 1], node, first[m].id)
             f == [i \in 0 .. m |-> IF i = m THEN last ELSE g[i]]
  <2>3. ASSUME NEW i \in 0 .. m
        PROVE  f[i] = IF i = 0 THEN dep ELSE AddPass(f[i - 1], node, first[i].id)
    <3>1. CASE i = m
      <4>1. f[i] = last /\ i # 0 /\ f[i - 1] = g[m - 1]
        BY <3>1, <2>1, <1>3
      <4> QED
        BY <4>1, <3>1
    <3>2. CASE i # m
      <4>1. i \in 0 .. m - 1 /\ (i # 0 => i - 1 \in 0 .. m - 1 /\ i - 1 # m)
        BY <3>2, <2>1
      <4>2. g[i] = IF i = 0 THEN dep ELSE AddPass(g[i - 1], node, first[i].id)
        BY <4>1, <2>2 DEF PassFunction
      <4>3. f[i] = g[i] /\ (i # 0 => f[i - 1] = g[i - 1])
        BY <4>1, <3>2, <2>1
      <4> QED
        BY <4>2, <4>3
    <3> QED
      BY <3>1, <3>2
  <2>4. PassFunction(node, first, m, f)
    <3>1. f = [i \in 0 .. m |-> f[i]]
      OBVIOUS
    <3> HIDE DEF f
    <3> QED
      BY <3>1, <2>3 DEF PassFunction
  <2> QED
    BY <1>1, <2>4
<1> QED
  BY <1>2, <1>3

-------------------------------------------------------------------------------
(* The group of a node has "before" lines only, to files.                  *)
LEMMA GroupOK ==
  ASSUME NEW N, NEW node \in N, dep[node] \in Seq(Line(N))
  PROVE  GroupFile(node) \in Seq(Line(N)) /\ NoAfter(GroupFile(node))
<1> DEFINE after == Qualified(dep[node], "a")
           n == Len(after)
           f == CHOOSE f : GroupFunction(node, after, n, f)
           Good == {i \in 0 .. n : f[i] \in Seq(Line(N)) /\ NoAfter(f[i])}
<1>1. GroupFile(node) = f[n]
  BY DEF GroupFile, GroupFunction, AddToGroup, OwnLine
<1>2. after \in Seq(Line(N)) /\ n \in Nat
  BY QualifiedFile
<1>3. GroupFunction(node, after, n, f)
  BY <1>2, GroupExists
<1> HIDE DEF f, after
<1>4. ASSUME NEW i \in 0 .. n
      PROVE  f[i] = IF i = 0 THEN <<OwnLine(node)>> ELSE AddToGroup(f[i - 1], after[i])
  BY <1>3, Zenon DEF GroupFunction
<1>5. 0 \in Good
  <2>1. OwnLine(node) \in Line(N) /\ OwnLine(node).qual = "b"
    BY DEF OwnLine, Line, Weight, Qualifier
  <2>2. 0 \in 0 .. n /\ f[0] = <<OwnLine(node)>>
    BY <1>2, <1>4
  <2>3. <<OwnLine(node)>> \in Seq(Line(N)) /\ NoAfter(<<OwnLine(node)>>)
    BY <2>1 DEF NoAfter
  <2> QED
    BY <2>2, <2>3
<1>6. ASSUME NEW i \in 1 .. n, i - 1 \in Good PROVE i \in Good
  <2> DEFINE g == f[i - 1]
             line == [after[i] EXCEPT !.qual = "b"]
  <2>1. g \in Seq(Line(N)) /\ NoAfter(g) /\ i \in 0 .. n /\ i # 0
    BY <1>2, <1>6
  <2>2. f[i] = g \/ f[i] = Append(g, line)
    BY <1>4, <2>1 DEF AddToGroup
  <2>3. line \in Line(N) /\ line.qual = "b"
    <3>1. after[i] \in Line(N)
      BY <1>2
    <3> QED
      BY <3>1 DEF Line, Qualifier
  <2> HIDE DEF g, line
  <2>4. Append(g, line) \in Seq(Line(N)) /\ NoAfter(Append(g, line))
    <3>1. /\ Append(g, line) \in Seq(Line(N)) /\ Len(Append(g, line)) = Len(g) + 1
          /\ Append(g, line)[Len(g) + 1] = line /\ Len(g) \in Nat
          /\ \A k \in 1 .. Len(g) : Append(g, line)[k] = g[k]
      BY <2>1, <2>3
    <3>2. \A k \in 1 .. Len(g) + 1 : k \in 1 .. Len(g) \/ k = Len(g) + 1
      BY <3>1
    <3> QED
      BY <2>1, <2>3, <3>1, <3>2 DEF NoAfter
  <2> QED
    BY <2>1, <2>2, <2>4 DEF g
<1> HIDE DEF Good
<1>7. 0 .. n \subseteq Good
  BY <1>2, <1>5, <1>6, UpTo
<1>8. n \in Good
  BY <1>2, <1>7
<1> QED
  BY <1>1, <1>8 DEF Good

(* Copies of files without some lines are added to the files.              *)
FilesOK(files) ==
  /\ Complete(files) /\ DOMAIN dep \subseteq DOMAIN files
  /\ \A n \in DOMAIN files : NoAfter(files[n])

LEMMA PutKeeps ==
  ASSUME NEW files, Complete(files), \A n \in DOMAIN files : NoAfter(files[n]),
         NEW m, NEW file \in Seq(Line(DOMAIN files)), NoAfter(file)
  PROVE  /\ DOMAIN Put(files, m, file) = DOMAIN files \cup {m}
         /\ Complete(Put(files, m, file))
         /\ \A n \in DOMAIN Put(files, m, file) : NoAfter(Put(files, m, file)[n])
<1> DEFINE new == Put(files, m, file)
<1>1. /\ DOMAIN new = DOMAIN files \cup {m}
      /\ \A n \in DOMAIN new : new[n] = file \/ (n \in DOMAIN files /\ new[n] = files[n])
  BY DEF Put
<1> HIDE DEF new
<1>2. \A n \in DOMAIN new : new[n] \in Seq(Line(DOMAIN files)) /\ NoAfter(new[n])
  BY <1>1 DEF Complete
<1>3. \A n \in DOMAIN new : new[n] \in Seq(Line(DOMAIN new))
  BY <1>1, <1>2, LinesOfMore
<1> QED
  BY <1>1, <1>2, <1>3 DEF Complete, new

LEMMA AddPassKeeps ==
  ASSUME NEW files, FilesOK(files), NEW node, NEW id \in DOMAIN files
  PROVE  /\ FilesOK(AddPass(files, node, id))
         /\ DOMAIN AddPass(files, node, id) = DOMAIN files \cup {Pass1(id)}
<1> DEFINE file == IF Pass1(id) \in DOMAIN files THEN files[Pass1(id)] ELSE files[id]
           back == {i \in 1 .. Len(file) : HasPath(files, file[i].id, node, file[i].prio)}
           ids == {file[i].id : i \in back}
<1>1. file \in Seq(Line(DOMAIN files)) /\ NoAfter(file)
  BY DEF FilesOK, Complete
<1>2. Pass1File(files, node, id) = Without(file, ids)
  BY DEF Pass1File
<1> HIDE DEF file, ids
<1>3. /\ Pass1File(files, node, id) \in Seq(Line(DOMAIN files))
      /\ NoAfter(Pass1File(files, node, id))
  BY <1>1, <1>2, WithoutFile
<1> DEFINE new == AddPass(files, node, id)
<1>4. /\ DOMAIN new = DOMAIN files \cup {Pass1(id)} /\ Complete(new)
      /\ \A n \in DOMAIN new : NoAfter(new[n])
  <2>1. new = Put(files, Pass1(id), Pass1File(files, node, id))
    BY DEF AddPass
  <2> HIDE DEF new
  <2> QED
    BY <1>3, <2>1, PutKeeps DEF FilesOK
<1> HIDE DEF new
<1> QED
  BY <1>4 DEF FilesOK, new

LEMMA PassesOK ==
  ASSUME CleanInv, NEW node \in DOMAIN dep
  PROVE  /\ FilesOK(WithPass1Files(node))
         /\ \A id \in Targets(Qualified(dep[node], "f")) :
              Pass1(id) \in DOMAIN WithPass1Files(node)
<1> DEFINE first == Qualified(dep[node], "f")
           n == Len(first)
           f == CHOOSE f : PassFunction(node, first, n, f)
           Good == {i \in 0 .. n : FilesOK(f[i])
                      /\ \A k \in 1 .. i : Pass1(first[k].id) \in DOMAIN f[i]}
<1>1. WithPass1Files(node) = f[n]
  BY DEF WithPass1Files, PassFunction, AddPass
<1>2. /\ first \in Seq(Line(DOMAIN dep)) /\ n \in Nat
      /\ \A i \in 1 .. n : first[i].id \in DOMAIN dep
  <2>1. first \in Seq(Line(DOMAIN dep))
    BY QualifiedFile DEF CleanInv, Complete
  <2> HIDE DEF first
  <2>2. ASSUME NEW i \in 1 .. n PROVE first[i].id \in DOMAIN dep
    BY <2>1, LineOf
  <2> QED
    BY <2>1, <2>2
<1>3. PassFunction(node, first, n, f)
  BY <1>2, PassExists
<1> HIDE DEF f, first
<1>4. ASSUME NEW i \in 0 .. n
      PROVE  f[i] = IF i = 0 THEN dep ELSE AddPass(f[i - 1], node, first[i].id)
  BY <1>3, Zenon DEF PassFunction
<1>5. 0 \in Good
  <2>1. 0 \in 0 .. n /\ f[0] = dep /\ 1 .. 0 = {}
    BY <1>2, <1>4
  <2> QED
    BY <2>1 DEF CleanInv, FilesOK
<1>6. ASSUME NEW i \in 1 .. n, i - 1 \in Good PROVE i \in Good
  <2>1. /\ FilesOK(f[i - 1]) /\ i \in 0 .. n /\ i # 0
        /\ \A k \in 1 .. i - 1 : Pass1(first[k].id) \in DOMAIN f[i - 1]
    BY <1>2, <1>6
  <2>2. f[i] = AddPass(f[i - 1], node, first[i].id) /\ first[i].id \in DOMAIN f[i - 1]
    BY <1>2, <1>4, <2>1 DEF FilesOK
  <2>3. FilesOK(f[i]) /\ DOMAIN f[i] = DOMAIN f[i - 1] \cup {Pass1(first[i].id)}
    <3>1. /\ FilesOK(AddPass(f[i - 1], node, first[i].id))
          /\ DOMAIN AddPass(f[i - 1], node, first[i].id)
               = DOMAIN f[i - 1] \cup {Pass1(first[i].id)}
      BY <2>1, <2>2, AddPassKeeps
    <3> QED
      BY <2>2, <3>1
  <2>4. \A k \in 1 .. i : k \in 1 .. i - 1 \/ k = i
    BY <1>2
  <2> QED
    BY <2>1, <2>3, <2>4
<1> HIDE DEF Good
<1>7. 0 .. n \subseteq Good
  BY <1>2, <1>5, <1>6, UpTo
<1>8. n \in Good
  BY <1>2, <1>7
<1> QED
  BY <1>1, <1>8 DEF Good, Targets, first

-------------------------------------------------------------------------------
(* A file whose lines lead to nodes of M.                                  *)
LEMMA LinesTo ==
  ASSUME NEW N, NEW M, NEW file \in Seq(Line(N)),
         \A i \in 1 .. Len(file) : file[i].id \in M
  PROVE  file \in Seq(Line(M))
<1>1. ASSUME NEW i \in 1 .. Len(file) PROVE file[i] \in Line(M)
  <2>1. file[i] \in Line(N) /\ file[i].id \in M
    OBVIOUS
  <2> QED
    BY <2>1 DEF Line
<1>2. Len(file) \in Nat /\ file = [i \in 1 .. Len(file) |-> file[i]]
  OBVIOUS
<1> QED
  BY <1>1, <1>2, SeqByItems

LEMMA InitInv == Init => IInv
<1> SUFFICES ASSUME Init PROVE IInv
  OBVIOUS
<1>1. /\ dep \in Graph /\ loop = "dangling" /\ todo = DOMAIN dep \ {Root}
  BY DEF Init
<1>2. /\ IsFiniteSet(DOMAIN dep) /\ Targets(dep[Root]) \subseteq DOMAIN dep
      /\ \A n \in DOMAIN dep : dep[n] \in Seq(Line(Package))
      /\ Root \in DOMAIN dep
  <2>1. Extracted(dep, Package, Root)
    BY <1>1, GraphAssumption
  <2>2. (Package \cup {Root}) \ {Root} = Package
    BY CleanAssumption
  <2> QED
    BY <2>1, <2>2 DEF Extracted, GraphOn
<1>3. \A i \in 1 .. Len(dep[Root]) : dep[Root][i].id \in DOMAIN dep
  BY <1>2 DEF Targets
<1>4. dep[Root] \in Seq(Line(DOMAIN dep))
  BY <1>2, <1>3, LinesTo
<1> QED
  BY <1>1, <1>2, <1>4 DEF IInv, DanglingInv

LEMMA DanglingKeeps ==
  ASSUME IInv, NEW node \in todo, RemoveDangling(node)
  PROVE  IInv'
<1> DEFINE ids == {id \in Targets(dep[node]) : id \notin DOMAIN dep}
           file == Without(dep[node], ids)
<1>1. /\ loop = "dangling" /\ loop' = "dangling" /\ todo' = todo \ {node}
      /\ dep' = [dep EXCEPT ![node] = file] /\ DanglingInv
      /\ node \in DOMAIN dep /\ todo \subseteq DOMAIN dep
  BY DEF RemoveDangling, IInv
<1>2. dep[node] \in Seq(Line(Package))
  BY <1>1 DEF DanglingInv
<1>3. /\ \A i \in 1 .. Len(dep[node]) :
           dep[node][i].id \notin ids => dep[node][i].id \in DOMAIN dep
  BY DEF Targets
<1> HIDE DEF ids
<1>4. /\ file \in Seq(Line(Package))
      /\ \A k \in 1 .. Len(file) : \E i \in 1 .. Len(dep[node]) :
           dep[node][i].id \notin ids /\ file[k] = dep[node][i]
  BY <1>2, WithoutFile
<1>5. \A k \in 1 .. Len(file) : file[k].id \in DOMAIN dep
  BY <1>3, <1>4
<1> HIDE DEF file
<1>6. file \in Seq(Line(DOMAIN dep))
  BY <1>4, <1>5, LinesTo
<1>7. DanglingInv'
  <2>1. DOMAIN dep' = DOMAIN dep
    BY <1>1
  <2>2. ASSUME NEW n \in DOMAIN dep
        PROVE  /\ dep'[n] \in Seq(Line(Package))
               /\ n \in todo' \/ dep'[n] \in Seq(Line(DOMAIN dep))
    <3>1. CASE n = node
      BY <1>1, <1>4, <1>6, <3>1
    <3>2. CASE n # node
      BY <1>1, <3>2 DEF DanglingInv
    <3> QED
      BY <3>1, <3>2
  <2> QED
    BY <1>1, <2>1, <2>2 DEF DanglingInv
<1> QED
  BY <1>1, <1>7 DEF IInv

LEMMA StartAfterKeeps == ASSUME IInv, StartAfter PROVE IInv'
<1>1. /\ loop = "dangling" /\ todo = {} /\ loop' = "after" /\ dep' = dep
      /\ todo' = HaveQualifier("a") /\ DanglingInv
  BY DEF StartAfter, IInv
<1>2. Complete(dep)
  BY <1>1 DEF DanglingInv, Complete
<1>3. ASSUME NEW n \in DOMAIN dep PROVE n \in todo' \/ NoAfter(dep[n])
  <2>1. dep[n] \in Seq(Line(DOMAIN dep))
    BY <1>2 DEF Complete
  <2> QED
    BY <1>1, <2>1, QualifiedFile DEF HaveQualifier
<1>4. AfterInv'
  BY <1>1, <1>2, <1>3 DEF AfterInv, Complete, DanglingInv
<1>5. todo' \subseteq DOMAIN dep'
  BY <1>1 DEF HaveQualifier
<1> QED
  BY <1>1, <1>4, <1>5 DEF IInv

LEMMA StartFirstKeeps == ASSUME IInv, StartFirst PROVE IInv'
<1>1. /\ loop = "after" /\ todo = {} /\ loop' = "first" /\ dep' = dep
      /\ todo' = HaveQualifier("f") /\ AfterInv
  BY DEF StartFirst, IInv
<1>2. CleanInv'
  BY <1>1 DEF AfterInv, CleanInv, Complete
<1>3. todo' \subseteq DOMAIN dep'
  BY <1>1 DEF HaveQualifier
<1> QED
  BY <1>1, <1>2, <1>3 DEF IInv

LEMMA ToPass1File ==
  ASSUME NEW N, NEW file \in Seq(Line(N)), NoAfter(file), NEW ids,
         \A id \in ids : Pass1(id) \in N
  PROVE  ToPass1(file, ids) \in Seq(Line(N)) /\ NoAfter(ToPass1(file, ids))
<1> DEFINE new == ToPass1(file, ids)
<1>1. Len(file) \in Nat /\ new = [i \in 1 .. Len(file) |-> new[i]]
  BY DEF ToPass1
<1>2. ASSUME NEW i \in 1 .. Len(file)
      PROVE  new[i] \in Line(N) /\ new[i].qual # "a"
  <2>1. file[i].qual # "a"
    BY DEF NoAfter
  <2>2. CASE file[i].id \notin ids
    <3>1. new[i] = file[i]
      BY <2>2 DEF ToPass1
    <3> QED
      BY <2>1, <3>1, LineOf
  <2>3. CASE file[i].id \in ids
    <3> DEFINE prio == IF file[i].qual = "f" THEN 1 ELSE file[i].prio
               qual == IF file[i].qual = "f" THEN "b" ELSE file[i].qual
    <3>1. new[i] = [prio |-> prio, qual |-> qual, id |-> Pass1(file[i].id)]
      BY <2>3 DEF ToPass1
    <3>2. prio \in Weight /\ qual \in Qualifier /\ qual # "a"
      <4>1. file[i].prio \in Weight /\ file[i].qual \in Qualifier
        BY LineOf
      <4> QED
        BY <2>1, <4>1 DEF Weight, Qualifier
    <3>3. Pass1(file[i].id) \in N
      BY <2>3
    <3> HIDE DEF prio, qual
    <3> QED
      BY <3>1, <3>2, <3>3 DEF Line
  <2> QED
    BY <2>2, <2>3
<1> HIDE DEF new
<1>3. new \in Seq(Line(N)) /\ Len(new) = Len(file)
  BY <1>1, <1>2, SeqByItems
<1> QED
  BY <1>2, <1>3 DEF NoAfter, new

LEMMA FirstKeeps ==
  ASSUME IInv, NEW node \in todo, FirstPass(node)
  PROVE  IInv'
<1> DEFINE files == WithPass1Files(node)
           ids == Targets(Qualified(dep[node], "f"))
           file == ToPass1(files[node], ids)
<1>1. /\ loop = "first" /\ loop' = "first" /\ todo' = todo \ {node}
      /\ dep' = [files EXCEPT ![node] = file] /\ CleanInv
      /\ node \in DOMAIN dep /\ todo \subseteq DOMAIN dep
  BY DEF FirstPass, IInv
<1>2. FilesOK(files) /\ \A id \in ids : Pass1(id) \in DOMAIN files
  BY <1>1, PassesOK
<1> HIDE DEF files, ids
<1>3. file \in Seq(Line(DOMAIN files)) /\ NoAfter(file)
  BY <1>1, <1>2, ToPass1File DEF FilesOK, Complete
<1> HIDE DEF file
<1>4. CleanInv' /\ DOMAIN dep' = DOMAIN files
  BY <1>1, <1>2, <1>3 DEF CleanInv, Complete, FilesOK
<1> QED
  BY <1>1, <1>2, <1>4 DEF IInv, FilesOK

(* A package leads to itself, so one that is its own "after" dependency is *)
(* not among its free parents.                                             *)
LEMMA SelfPath ==
  ASSUME NEW files, NEW s, NEW w, IsFiniteSet(Nodes(files, s))
  PROVE  HasPath(files, s, s, w)
<1>1. Reachable(files, s, w) = Hull(Edges(files, s, w), {s})
  BY ReachableIsHull
<1>2. s \in DOMAIN Edges(files, s, w)
  BY DEF Edges, Nodes
<1>3. s \in Hull(Edges(files, s, w), {s})
  BY <1>2 DEF Hull
<1> QED
  BY <1>1, <1>3 DEF HasPath

LEMMA RedirectFile ==
  ASSUME NEW N, NEW file \in Seq(Line(N)), NEW node
  PROVE  LET new == Redirect(file, node)
         IN  /\ new \in Seq(Line(N \cup {Group(node)})) /\ Len(new) = Len(file)
             /\ \A i \in 1 .. Len(file) :
                  /\ new[i].qual = file[i].qual
                  /\ file[i].id # node => new[i].id = file[i].id
<1> DEFINE new == Redirect(file, node)
           M == N \cup {Group(node)}
<1>1. Len(file) \in Nat /\ new = [i \in 1 .. Len(file) |-> new[i]]
  BY DEF Redirect
<1>2. ASSUME NEW i \in 1 .. Len(file)
      PROVE  /\ new[i] \in Line(M) /\ new[i].qual = file[i].qual
             /\ file[i].id # node => new[i].id = file[i].id
  <2>1. file[i] \in Line(N)
    OBVIOUS
  <2>2. new[i] = IF file[i].id = node THEN [file[i] EXCEPT !.id = Group(node)] ELSE file[i]
    BY DEF Redirect
  <2> QED
    BY <2>1, <2>2 DEF Line
<1> HIDE DEF new, M
<1>3. new \in Seq(Line(M)) /\ Len(new) = Len(file)
  BY <1>1, <1>2, SeqByItems
<1> QED
  BY <1>2, <1>3 DEF new, M

(* What the redirection of the parents does to one file.                   *)
LEMMA RedirectedFile ==
  ASSUME AfterInv, NEW node \in DOMAIN dep, NEW n \in DOMAIN dep
  PROVE  /\ Redirected(node, FreeParents(node))[n] \in Seq(Line(DOMAIN dep \cup {Group(node)}))
         /\ \A i \in 1 .. Len(Redirected(node, FreeParents(node))[n]) :
              Redirected(node, FreeParents(node))[n][i].qual = "a" =>
                /\ i \in 1 .. Len(dep[n]) /\ dep[n][i].qual = "a"
                /\ n \notin FreeParents(node) \/ dep[n][i].id # node
                     => Redirected(node, FreeParents(node))[n][i].id = dep[n][i].id
<1> DEFINE free == FreeParents(node)
           M == DOMAIN dep \cup {Group(node)}
           toGroup == [prio |-> 1, qual |-> "b", id |-> Group(node)]
           new == Redirected(node, free)[n]
<1> HIDE DEF free
<1>1. dep[n] \in Seq(Line(DOMAIN dep))
  BY DEF AfterInv, Complete
<1>2. dep[n] \in Seq(Line(M))
  BY <1>1, LinesOfMore
<1>3. CASE n \in free
  <2>1. new = Redirect(dep[n], node)
    BY <1>3 DEF Redirected
  <2> HIDE DEF new
  <2> QED
    BY <1>1, <1>3, <2>1, RedirectFile DEF new, free
<1>4. CASE n \notin free
  <2>1. new = dep[n] \/ new = Append(dep[n], toGroup)
    BY <1>4 DEF Redirected
  <2>2. toGroup \in Line(M) /\ toGroup.qual = "b"
    BY DEF Line, Weight, Qualifier
  <2> HIDE DEF new, toGroup, M
  <2>3. CASE new = Append(dep[n], toGroup)
    <3> DEFINE old == dep[n]
    <3>1. old \in Seq(Line(M)) /\ new = Append(old, toGroup)
      BY <1>2, <2>3
    <3> HIDE DEF old
    <3>2. /\ new \in Seq(Line(M)) /\ Len(old) \in Nat /\ Len(new) = Len(old) + 1
          /\ new[Len(old) + 1] = toGroup
          /\ \A i \in 1 .. Len(old) : new[i] = old[i]
      BY <2>2, <3>1
    <3>3. \A i \in 1 .. Len(new) : i \in 1 .. Len(old) \/ i = Len(old) + 1
      BY <3>2
    <3>4. \A i \in 1 .. Len(new) : new[i].qual = "a" => i \in 1 .. Len(old)
      BY <2>2, <3>2, <3>3
    <3> QED
      BY <3>2, <3>4 DEF old, new, M, free
  <2>4. CASE new = dep[n]
    BY <1>2, <2>4 DEF new, M, free
  <2> QED
    BY <2>1, <2>3, <2>4
<1> QED
  BY <1>3, <1>4 DEF free

LEMMA GroupKeeps ==
  ASSUME IInv, NEW node \in todo, GroupAfter(node)
  PROVE  IInv'
<1> DEFINE after == Targets(Qualified(dep[node], "a"))
           free == FreeParents(node)
           parents == Redirected(node, free)
           own == Without(parents[node], after)
           M == DOMAIN dep \cup {Group(node)}
<1>1. /\ loop = "after" /\ loop' = "after" /\ todo' = todo \ {node} /\ AfterInv
      /\ node \in DOMAIN dep /\ todo \subseteq DOMAIN dep
      /\ dep' = Put([parents EXCEPT ![node] = own], Group(node), GroupFile(node))
  BY DEF GroupAfter, IInv
<1>2. dep[node] \in Seq(Line(DOMAIN dep))
  BY <1>1 DEF AfterInv, Complete
<1>3. /\ \A i \in 1 .. Len(dep[node]) : dep[node][i].qual = "a" => dep[node][i].id \in after
  BY <1>2, QualifiedFile
<1>4. node \in after => node \notin free
  <2>1. \A n \in DOMAIN dep : Targets(dep[n]) \subseteq DOMAIN dep
    <3>1. ASSUME NEW n \in DOMAIN dep, NEW i \in 1 .. Len(dep[n])
          PROVE  dep[n][i].id \in DOMAIN dep
      <4>1. dep[n] \in Seq(Line(DOMAIN dep))
        BY <1>1 DEF AfterInv, Complete
      <4> QED
        BY <4>1, LineOf
    <3> QED
      BY <3>1 DEF Targets
  <2>2. Nodes(dep, node) \subseteq DOMAIN dep
    BY <1>1, <2>1 DEF Nodes
  <2>3. IsFiniteSet(Nodes(dep, node))
    BY <1>1, <2>2, FS_Subset DEF AfterInv
  <2>4. HasPath(dep, node, node, 3)
    BY <2>3, SelfPath
  <2> QED
    BY <2>4 DEF FreeParents
<1>5. DOMAIN parents = DOMAIN dep
  BY DEF Redirected
<1> HIDE DEF after
<1>6. ASSUME NEW n \in DOMAIN dep
      PROVE  /\ parents[n] \in Seq(Line(M))
             /\ \A i \in 1 .. Len(parents[n]) : parents[n][i].qual = "a" =>
                  /\ i \in 1 .. Len(dep[n]) /\ dep[n][i].qual = "a"
                  /\ n \notin free \/ dep[n][i].id # node
                       => parents[n][i].id = dep[n][i].id
  BY <1>1, RedirectedFile
<1> HIDE DEF parents, free
<1>7. own \in Seq(Line(M)) /\ NoAfter(own)
  <2>1. ASSUME NEW i \in 1 .. Len(parents[node]), parents[node][i].qual = "a"
        PROVE  parents[node][i].id \in after
    BY <1>1, <1>3, <1>4, <1>6, <2>1
  <2>2. parents[node] \in Seq(Line(M))
    BY <1>1, <1>6
  <2>3. /\ own \in Seq(Line(M))
        /\ \A k \in 1 .. Len(own) : \E i \in 1 .. Len(parents[node]) :
             parents[node][i].id \notin after /\ own[k] = parents[node][i]
    BY <2>2, WithoutFile
  <2> QED
    BY <2>1, <2>3 DEF NoAfter
<1>8. GroupFile(node) \in Seq(Line(M)) /\ NoAfter(GroupFile(node))
  <2>1. dep[node] \in Seq(Line(M))
    BY <1>2, LinesOfMore
  <2> QED
    BY <1>1, <2>1, GroupOK
<1>9. /\ DOMAIN dep' = M /\ dep'[Group(node)] = GroupFile(node)
      /\ \A n \in DOMAIN dep : n # Group(node) =>
           dep'[n] = IF n = node THEN own ELSE parents[n]
  BY <1>1, <1>5 DEF Put
<1> HIDE DEF own, M
<1>10. ASSUME NEW n \in DOMAIN dep'
       PROVE  dep'[n] \in Seq(Line(DOMAIN dep')) /\ (n \in todo' \/ NoAfter(dep'[n]))
  <2>1. CASE n = Group(node)
    BY <1>8, <1>9, <2>1
  <2>2. CASE n # Group(node) /\ n = node
    BY <1>1, <1>7, <1>9, <2>2
  <2>3. CASE n # Group(node) /\ n # node
    <3>1. n \in DOMAIN dep /\ dep'[n] = parents[n]
      BY <1>9, <2>3 DEF M
    <3>2. n \in todo' \/ NoAfter(dep[n])
      BY <1>1, <2>3, <3>1 DEF AfterInv
    <3>3. NoAfter(dep[n]) => NoAfter(parents[n])
      BY <1>6, <3>1 DEF NoAfter
    <3> QED
      BY <1>6, <1>9, <3>1, <3>2, <3>3
  <2> QED
    BY <2>1, <2>2, <2>3
<1>11. IsFiniteSet(DOMAIN dep')
  BY <1>1, <1>9, FS_AddElement DEF AfterInv, M
<1>12. AfterInv'
  BY <1>10, <1>11 DEF AfterInv, Complete
<1> QED
  BY <1>1, <1>9, <1>12 DEF IInv, M

-------------------------------------------------------------------------------
LEMMA Inductive == IInv /\ [Next]_vars => IInv'
<1> SUFFICES ASSUME IInv, [Next]_vars PROVE IInv'
  OBVIOUS
<1>1. CASE UNCHANGED vars
  BY <1>1 DEF vars, IInv, DanglingInv, AfterInv, CleanInv, Complete, NoAfter
<1>2. CASE Finish
  BY <1>2 DEF Finish, IInv, CleanInv, Complete
<1> QED
  BY <1>1, <1>2, DanglingKeeps, GroupKeeps, FirstKeeps, StartAfterKeeps,
     StartFirstKeeps DEF Next

(* The output that the comment of clean_subgraph promises: no line leads   *)
(* to a package without a file, and none has the qualifier "after".        *)
THEOREM OutputIsClean == Spec => []CleanOutput
<1>1. Init => IInv
  BY InitInv
<1>2. IInv /\ [Next]_vars => IInv'
  BY Inductive
<1>3. IInv => CleanOutput
  <2> SUFFICES ASSUME IInv, Done, NEW n \in DOMAIN dep, NEW i \in 1 .. Len(dep[n])
               PROVE  dep[n][i].id \in DOMAIN dep /\ dep[n][i].qual # "a"
    BY DEF CleanOutput
  <2>1. CleanInv
    BY DEF IInv, Done
  <2>2. dep[n] \in Seq(Line(DOMAIN dep)) /\ NoAfter(dep[n])
    BY <2>1 DEF CleanInv, Complete
  <2> QED
    BY <2>2, LineOf DEF NoAfter
<1> QED
  BY <1>1, <1>2, <1>3, PTL DEF Spec

-------------------------------------------------------------------------------
(***************************************************************************)
(* Which nodes the files belong to and lead to.  Only packages have        *)
(* "after" lines that the second loop deals with, and what the third loop  *)
(* has still to deal with leads to no first pass, so that there are no     *)
(* groups of groups and no first passes of first passes.                   *)
(***************************************************************************)
FilesTo(files, N) == \A n \in DOMAIN files : files[n] \in Seq(Line(N))

TypeInv ==
  /\ Root \in DOMAIN dep
  /\ loop = "dangling" =>
       /\ DOMAIN dep \subseteq Package \cup {Root} /\ FilesTo(dep, Package)
       /\ Root \notin todo /\ NoAfter(dep[Root])
  /\ loop = "after" =>
       /\ todo \subseteq Package
       /\ DOMAIN dep \subseteq Node \cup {Root} /\ FilesTo(dep, Node)
  /\ loop \in {"first", "done"} =>
       /\ DOMAIN dep \subseteq File /\ FilesTo(dep, Target)
       /\ \A n \in todo : dep[n] \in Seq(Line(Node))

LEMMA InitTypes == Init => TypeInv
<1> SUFFICES ASSUME Init PROVE TypeInv
  OBVIOUS
<1>1. /\ dep \in Graph /\ loop = "dangling" /\ todo = DOMAIN dep \ {Root}
  BY DEF Init
<1>2. Extracted(dep, Package, Root)
  BY <1>1, GraphAssumption
<1>3. (Package \cup {Root}) \ {Root} = Package
  BY CleanAssumption
<1> QED
  BY <1>1, <1>2, <1>3 DEF Extracted, GraphOn, TypeInv, FilesTo, NoAfter

LEMMA DanglingTypes ==
  ASSUME IInv, TypeInv, NEW node \in todo, RemoveDangling(node)
  PROVE  TypeInv'
<1> DEFINE ids == {id \in Targets(dep[node]) : id \notin DOMAIN dep}
           file == Without(dep[node], ids)
<1>1. /\ loop = "dangling" /\ loop' = "dangling" /\ todo' = todo \ {node}
      /\ dep' = [dep EXCEPT ![node] = file]
      /\ node \in DOMAIN dep
  BY DEF RemoveDangling, IInv
<1>2. /\ DOMAIN dep \subseteq Package \cup {Root} /\ FilesTo(dep, Package)
      /\ Root \in DOMAIN dep /\ Root \notin todo /\ NoAfter(dep[Root])
  BY <1>1 DEF TypeInv
<1> HIDE DEF ids
<1>3. file \in Seq(Line(Package))
  BY <1>1, <1>2, WithoutFile DEF FilesTo
<1> HIDE DEF file
<1>4. DOMAIN dep' = DOMAIN dep /\ FilesTo(dep', Package) /\ dep'[Root] = dep[Root]
  BY <1>1, <1>2, <1>3 DEF FilesTo
<1> QED
  BY <1>1, <1>2, <1>4 DEF TypeInv

(* Root has no "after" line, so what has one is a package.                 *)
LEMMA StartAfterTypes ==
  ASSUME IInv, TypeInv, StartAfter
  PROVE  TypeInv'
<1>1. /\ loop = "dangling" /\ loop' = "after" /\ dep' = dep
      /\ todo' = HaveQualifier("a")
  BY DEF StartAfter
<1>2. /\ DOMAIN dep \subseteq Package \cup {Root} /\ FilesTo(dep, Package)
      /\ Root \in DOMAIN dep /\ NoAfter(dep[Root])
  BY <1>1 DEF TypeInv
<1>3. Qualified(dep[Root], "a") = <<>>
  <2> DEFINE file == dep[Root]
             keep == {i \in DOMAIN file : file[i].qual = "a"}
  <2>1. \A i \in 1 .. Len(file) : i \notin keep
    BY <1>2 DEF NoAfter
  <2>2. file \in Seq(Line(Package))
    BY <1>2 DEF FilesTo
  <2>3. Qualified(dep[Root], "a") = Kept(file, keep)
    BY DEF Qualified
  <2> HIDE DEF file, keep
  <2>4. /\ Kept(file, keep) \in Seq(Line(Package))
        /\ \A k \in 1 .. Len(Kept(file, keep)) : \E i \in 1 .. Len(file) : i \in keep
    BY <2>2, KeptFile
  <2> DEFINE kept == Kept(file, keep)
  <2>5. kept \in Seq(Line(Package)) /\ 1 .. Len(kept) = {}
    BY <2>1, <2>4
  <2> HIDE DEF kept
  <2>6. kept = <<>>
    <3>1. Len(kept) \in Nat /\ ~(1 \in 1 .. Len(kept))
      BY <2>5
    <3>2. Len(kept) = 0
      BY <3>1
    <3> QED
      BY <2>5, <3>2
  <2> QED
    BY <2>3, <2>6 DEF kept
<1>4. todo' \subseteq Package
  BY <1>1, <1>2, <1>3 DEF HaveQualifier
<1>5. FilesTo(dep, Node) /\ Package \subseteq Node
  BY <1>2, LinesOfMore DEF FilesTo, Node
<1> QED
  BY <1>1, <1>2, <1>4, <1>5 DEF TypeInv

LEMMA GroupTypes ==
  ASSUME IInv, TypeInv, NEW node \in todo, GroupAfter(node)
  PROVE  TypeInv'
<1> DEFINE after == Targets(Qualified(dep[node], "a"))
           free == FreeParents(node)
           parents == Redirected(node, free)
           own == Without(parents[node], after)
           toGroup == [prio |-> 1, qual |-> "b", id |-> Group(node)]
<1>1. /\ loop = "after" /\ loop' = "after" /\ todo' = todo \ {node}
      /\ node \in DOMAIN dep
      /\ dep' = Put([parents EXCEPT ![node] = own], Group(node), GroupFile(node))
  BY DEF GroupAfter, IInv
<1>2. /\ todo \subseteq Package /\ DOMAIN dep \subseteq Node \cup {Root}
      /\ FilesTo(dep, Node) /\ Root \in DOMAIN dep
  BY <1>1 DEF TypeInv
<1>3. /\ node \in Node /\ Group(node) \in Node /\ Node \cup {Group(node)} = Node
      /\ toGroup \in Line(Node)
  BY <1>2 DEF Node, Line, Weight, Qualifier
<1>4. DOMAIN parents = DOMAIN dep
  BY DEF Redirected
<1>5. ASSUME NEW n \in DOMAIN dep PROVE parents[n] \in Seq(Line(Node))
  <2>1. dep[n] \in Seq(Line(Node))
    BY <1>2 DEF FilesTo
  <2>2. \/ parents[n] = Redirect(dep[n], node)
        \/ parents[n] = Append(dep[n], toGroup)
        \/ parents[n] = dep[n]
    BY DEF Redirected
  <2> HIDE DEF parents, toGroup
  <2>3. Redirect(dep[n], node) \in Seq(Line(Node))
    BY <1>3, <2>1, RedirectFile
  <2>4. Append(dep[n], toGroup) \in Seq(Line(Node))
    BY <1>3, <2>1
  <2> QED
    BY <2>1, <2>2, <2>3, <2>4
<1> HIDE DEF parents, after
<1>6. own \in Seq(Line(Node))
  BY <1>1, <1>5, WithoutFile
<1>7. GroupFile(node) \in Seq(Line(Node))
  BY <1>1, <1>2, <1>3, GroupOK DEF FilesTo
<1> HIDE DEF own
<1>8. /\ DOMAIN dep' = DOMAIN dep \cup {Group(node)}
      /\ \A n \in DOMAIN dep' :
           \/ dep'[n] = GroupFile(node) \/ dep'[n] = own
           \/ n \in DOMAIN dep /\ dep'[n] = parents[n]
  BY <1>1, <1>4 DEF Put
<1>9. FilesTo(dep', Node)
  BY <1>5, <1>6, <1>7, <1>8 DEF FilesTo
<1> QED
  BY <1>1, <1>2, <1>3, <1>8, <1>9 DEF TypeInv

LEMMA StartFirstTypes ==
  ASSUME IInv, TypeInv, StartFirst
  PROVE  TypeInv'
<1>1. /\ loop = "after" /\ loop' = "first" /\ dep' = dep
      /\ todo' \subseteq DOMAIN dep
  BY DEF StartFirst, HaveQualifier
<1>2. /\ DOMAIN dep \subseteq Node \cup {Root}
      /\ FilesTo(dep, Node) /\ Root \in DOMAIN dep
  BY <1>1 DEF TypeInv
<1>3. DOMAIN dep \subseteq File /\ Node \subseteq Target
  BY <1>2 DEF File, Target
<1>4. FilesTo(dep, Target)
  BY <1>2, <1>3, LinesOfMore DEF FilesTo
<1> QED
  BY <1>1, <1>2, <1>3, <1>4 DEF TypeInv, FilesTo

(* The first passes made for one node are files among those of the nodes,  *)
(* and what is still to be dealt with leads to no first pass.              *)
PassTypes(files) ==
  /\ DOMAIN dep \subseteq DOMAIN files /\ DOMAIN files \subseteq File
  /\ FilesTo(files, Target)
  /\ \A n \in todo : files[n] \in Seq(Line(Node))

LEMMA AddPassTypes ==
  ASSUME NEW files, PassTypes(files), todo \subseteq DOMAIN dep,
         NEW node, NEW id \in Node \cap DOMAIN files
  PROVE  PassTypes(AddPass(files, node, id))
<1> DEFINE file == IF Pass1(id) \in DOMAIN files THEN files[Pass1(id)] ELSE files[id]
           back == {i \in 1 .. Len(file) : HasPath(files, file[i].id, node, file[i].prio)}
           ids == {file[i].id : i \in back}
           copy == Pass1File(files, node, id)
           new == AddPass(files, node, id)
<1>1. /\ file \in Seq(Line(Target))
      /\ Pass1(id) \in todo => file \in Seq(Line(Node))
  BY DEF PassTypes, FilesTo
<1>2. copy = Without(file, ids)
  BY DEF Pass1File
<1> HIDE DEF file, ids, copy
<1>3. /\ copy \in Seq(Line(Target))
      /\ Pass1(id) \in todo => copy \in Seq(Line(Node))
  BY <1>1, <1>2, WithoutFile
<1>4. /\ DOMAIN new = DOMAIN files \cup {Pass1(id)}
      /\ \A n \in DOMAIN new : new[n] = IF n = Pass1(id) THEN copy ELSE files[n]
  BY DEF AddPass, Put, copy
<1>5. Pass1(id) \in File
  BY DEF File, Target
<1> HIDE DEF new
<1>6. FilesTo(new, Target)
  BY <1>3, <1>4 DEF FilesTo, PassTypes
<1>7. \A n \in todo : new[n] \in Seq(Line(Node))
  BY <1>3, <1>4 DEF PassTypes
<1>8. PassTypes(new)
  BY <1>4, <1>5, <1>6, <1>7 DEF PassTypes
<1> QED
  BY <1>8 DEF new

LEMMA PassesTypes ==
  ASSUME PassTypes(dep), todo \subseteq DOMAIN dep, Complete(dep), NEW node \in todo
  PROVE  PassTypes(WithPass1Files(node))
<1> DEFINE first == Qualified(dep[node], "f")
           n == Len(first)
           f == CHOOSE f : PassFunction(node, first, n, f)
           Good == {i \in 0 .. n : PassTypes(f[i])}
<1>1. WithPass1Files(node) = f[n]
  BY DEF WithPass1Files, PassFunction, AddPass
<1>2. /\ first \in Seq(Line(DOMAIN dep)) /\ first \in Seq(Line(Node)) /\ n \in Nat
  BY QualifiedFile DEF Complete, PassTypes
<1>3. PassFunction(node, first, n, f)
  BY <1>2, PassExists
<1> HIDE DEF f, first
<1>4. ASSUME NEW i \in 0 .. n
      PROVE  f[i] = IF i = 0 THEN dep ELSE AddPass(f[i - 1], node, first[i].id)
  BY <1>3, Zenon DEF PassFunction
<1>5. 0 \in Good
  <2>1. 0 \in 0 .. n /\ f[0] = dep
    BY <1>2, <1>4
  <2> QED
    BY <2>1
<1>6. ASSUME NEW i \in 1 .. n, i - 1 \in Good PROVE i \in Good
  <2>1. PassTypes(f[i - 1]) /\ i \in 0 .. n /\ i # 0
    BY <1>2, <1>6
  <2>2. first[i].id \in DOMAIN dep /\ first[i].id \in Node
    BY <1>2, LineOf
  <2>3. first[i].id \in Node \cap DOMAIN f[i - 1]
    BY <2>1, <2>2 DEF PassTypes
  <2>4. PassTypes(AddPass(f[i - 1], node, first[i].id))
    BY <2>1, <2>3, AddPassTypes
  <2> QED
    BY <1>4, <2>1, <2>4
<1> HIDE DEF Good
<1>7. 0 .. n \subseteq Good
  BY <1>2, <1>5, <1>6, UpTo
<1>8. n \in Good
  BY <1>2, <1>7
<1> QED
  BY <1>1, <1>8 DEF Good

LEMMA ToPass1To ==
  ASSUME NEW N, NEW file \in Seq(Line(N)), NEW ids, \A id \in ids : Pass1(id) \in N
  PROVE  ToPass1(file, ids) \in Seq(Line(N))
<1> DEFINE new == ToPass1(file, ids)
<1>1. Len(file) \in Nat /\ new = [i \in 1 .. Len(file) |-> new[i]]
  BY DEF ToPass1
<1>2. ASSUME NEW i \in 1 .. Len(file) PROVE new[i] \in Line(N)
  <2>1. CASE file[i].id \notin ids
    <3>1. new[i] = file[i]
      BY <2>1 DEF ToPass1
    <3> QED
      BY <3>1, LineOf
  <2>2. CASE file[i].id \in ids
    <3> DEFINE prio == IF file[i].qual = "f" THEN 1 ELSE file[i].prio
               qual == IF file[i].qual = "f" THEN "b" ELSE file[i].qual
    <3>1. new[i] = [prio |-> prio, qual |-> qual, id |-> Pass1(file[i].id)]
      BY <2>2 DEF ToPass1
    <3>2. prio \in Weight /\ qual \in Qualifier
      <4>1. file[i].prio \in Weight /\ file[i].qual \in Qualifier
        BY LineOf
      <4> QED
        BY <4>1 DEF Weight, Qualifier
    <3>3. Pass1(file[i].id) \in N
      BY <2>2
    <3> HIDE DEF prio, qual
    <3> QED
      BY <3>1, <3>2, <3>3 DEF Line
  <2> QED
    BY <2>1, <2>2
<1> HIDE DEF new
<1>3. new \in Seq(Line(N))
  BY <1>1, <1>2, SeqByItems
<1> QED
  BY <1>3 DEF new

LEMMA FirstTypes ==
  ASSUME IInv, TypeInv, NEW node \in todo, FirstPass(node)
  PROVE  TypeInv'
<1> DEFINE files == WithPass1Files(node)
           ids == Targets(Qualified(dep[node], "f"))
           file == ToPass1(files[node], ids)
<1>1. /\ loop = "first" /\ loop' = "first" /\ todo' = todo \ {node}
      /\ dep' = [files EXCEPT ![node] = file] /\ Complete(dep)
      /\ node \in DOMAIN dep /\ todo \subseteq DOMAIN dep
  BY DEF FirstPass, IInv, CleanInv
<1>2. PassTypes(dep) /\ Root \in DOMAIN dep
  BY <1>1 DEF TypeInv, PassTypes
<1>3. PassTypes(files)
  BY <1>1, <1>2, PassesTypes
<1>4. \A id \in ids : Pass1(id) \in Target
  <2>1. dep[node] \in Seq(Line(Node))
    BY <1>2 DEF PassTypes
  <2>2. ids \subseteq Node
    BY <2>1, QualifiedFile
  <2> QED
    BY <2>2 DEF Target
<1> HIDE DEF files, ids
<1>5. file \in Seq(Line(Target))
  BY <1>1, <1>3, <1>4, ToPass1To DEF PassTypes, FilesTo
<1> HIDE DEF file
<1>6. /\ DOMAIN dep' = DOMAIN files /\ FilesTo(dep', Target)
      /\ \A n \in todo' : dep'[n] \in Seq(Line(Node))
  <2>1. /\ DOMAIN dep' = DOMAIN files
        /\ \A n \in DOMAIN files : dep'[n] = IF n = node THEN file ELSE files[n]
    BY <1>1
  <2>2. todo' \subseteq DOMAIN files
    BY <1>1, <1>3 DEF PassTypes
  <2> QED
    BY <1>1, <1>3, <1>5, <2>1, <2>2 DEF PassTypes, FilesTo
<1> QED
  BY <1>1, <1>2, <1>3, <1>6 DEF TypeInv, PassTypes

(* At any time the files are a graph that the third pass can start from    *)
(* (DepTreeAssumption of DepTree): root has one and is led to by none, and *)
(* no name has two suffixes "groupxx" or two "-pass1".                     *)
THEOREM TypeCorrect == Spec => []TypeOK
<1>1. Init => IInv /\ TypeInv
  BY InitInv, InitTypes
<1>2. IInv /\ TypeInv /\ [Next]_vars => IInv' /\ TypeInv'
  <2> SUFFICES ASSUME IInv, TypeInv, [Next]_vars PROVE IInv' /\ TypeInv'
    OBVIOUS
  <2>1. IInv'
    BY Inductive
  <2>2. CASE UNCHANGED vars
    BY <2>1, <2>2 DEF vars, TypeInv, FilesTo, NoAfter
  <2>3. CASE Finish
    BY <2>1, <2>3 DEF Finish, TypeInv, FilesTo
  <2> QED
    BY <2>1, <2>2, <2>3, DanglingTypes, GroupTypes, FirstTypes, StartAfterTypes,
       StartFirstTypes DEF Next
<1>3. IInv /\ TypeInv => TypeOK
  <2> SUFFICES ASSUME IInv, TypeInv PROVE TypeOK
    OBVIOUS
  <2>1. Package \subseteq Node /\ Node \subseteq Target /\ Target = File \ {Root}
    BY CleanAssumption DEF Node, Target, File
  <2>2. DOMAIN dep \subseteq File
    BY <2>1 DEF TypeInv, IInv, File
  <2>3. FilesTo(dep, Package) \/ FilesTo(dep, Node) \/ FilesTo(dep, Target)
    BY DEF TypeInv, IInv
  <2>4. FilesTo(dep, Target)
    BY <2>1, <2>3, LinesOfMore DEF FilesTo
  <2> QED
    BY <2>1, <2>2, <2>4 DEF TypeOK, TypeInv, IInv, GraphOn, FilesTo
<1> QED
  BY <1>1, <1>2, <1>3, PTL DEF Spec

-------------------------------------------------------------------------------
(***************************************************************************)
(* The lines that the operations on files keep, change and add.            *)
(***************************************************************************)

(* There is a line with a qualifier and a target.                          *)
Has(file, q, id) == \E i \in 1 .. Len(file) : file[i].qual = q /\ file[i].id = id

LEMMA HasLine ==
  ASSUME NEW file, NEW q, NEW id, NEW i \in 1 .. Len(file),
         file[i].qual = q, file[i].id = id
  PROVE  Has(file, q, id)
BY DEF Has

LEMMA HasType ==
  ASSUME NEW N, NEW file \in Seq(Line(N)), NEW q, NEW id, Has(file, q, id)
  PROVE  q \in Qualifier /\ id \in N
<1>1. PICK i \in 1 .. Len(file) : file[i].qual = q /\ file[i].id = id
  BY DEF Has
<1> QED
  BY <1>1, LineOf

LEMMA HasTargets ==
  ASSUME NEW file, NEW id
  PROVE  id \in Targets(file) <=> \E q : Has(file, q, id)
BY DEF Targets, Has

LEMMA HasKept ==
  ASSUME NEW N, NEW file \in Seq(Line(N)), NEW keep, NEW q, NEW id
  PROVE  Has(Kept(file, keep), q, id)
           <=> \E i \in 1 .. Len(file) : i \in keep /\ file[i].qual = q /\ file[i].id = id
<1>1. ASSUME Has(Kept(file, keep), q, id)
      PROVE  \E i \in 1 .. Len(file) : i \in keep /\ file[i].qual = q /\ file[i].id = id
  <2>1. PICK k \in 1 .. Len(Kept(file, keep)) :
          Kept(file, keep)[k].qual = q /\ Kept(file, keep)[k].id = id
    BY <1>1 DEF Has
  <2>2. PICK i \in 1 .. Len(file) : i \in keep /\ file[i] = Kept(file, keep)[k]
    BY KeptFile
  <2> QED
    BY <2>1, <2>2
<1>2. ASSUME NEW i \in 1 .. Len(file), i \in keep, file[i].qual = q, file[i].id = id
      PROVE  Has(Kept(file, keep), q, id)
  <2>1. PICK k \in 1 .. Len(Kept(file, keep)) : Kept(file, keep)[k] = file[i]
    BY <1>2, KeptFile
  <2> QED
    BY <1>2, <2>1, HasLine
<1> QED
  BY <1>1, <1>2

LEMMA HasWithout ==
  ASSUME NEW N, NEW file \in Seq(Line(N)), NEW ids, NEW q, NEW id
  PROVE  Has(Without(file, ids), q, id) <=> Has(file, q, id) /\ id \notin ids
<1> DEFINE keep == {i \in DOMAIN file : file[i].id \notin ids}
<1>1. Without(file, ids) = Kept(file, keep)
  BY DEF Without
<1>2. \A i \in 1 .. Len(file) : i \in keep <=> file[i].id \notin ids
  OBVIOUS
<1> HIDE DEF keep
<1>3. Has(Kept(file, keep), q, id)
        <=> \E i \in 1 .. Len(file) : i \in keep /\ file[i].qual = q /\ file[i].id = id
  BY HasKept
<1> QED
  BY <1>1, <1>2, <1>3 DEF Has

LEMMA HasQualified ==
  ASSUME NEW N, NEW file \in Seq(Line(N)), NEW q, NEW id
  PROVE  id \in Targets(Qualified(file, q)) <=> Has(file, q, id)
<1> DEFINE keep == {i \in DOMAIN file : file[i].qual = q}
<1>1. Qualified(file, q) = Kept(file, keep)
  BY DEF Qualified
<1>2. \A i \in 1 .. Len(file) : i \in keep <=> file[i].qual = q
  OBVIOUS
<1> HIDE DEF keep
<1>3. \A r : Has(Kept(file, keep), r, id)
        <=> \E i \in 1 .. Len(file) : i \in keep /\ file[i].qual = r /\ file[i].id = id
  BY HasKept
<1>4. id \in Targets(Kept(file, keep)) <=> \E r : Has(Kept(file, keep), r, id)
  BY HasTargets
<1> QED
  BY <1>1, <1>2, <1>3, <1>4 DEF Has

LEMMA HasRedirect ==
  ASSUME NEW N, NEW file \in Seq(Line(N)), NEW node, NEW q, NEW id
  PROVE  Has(Redirect(file, node), q, id)
           <=> \/ Has(file, q, id) /\ id # node
               \/ Has(file, q, node) /\ id = Group(node)
<1> DEFINE new == Redirect(file, node)
<1>1. /\ Len(new) = Len(file)
      /\ \A i \in 1 .. Len(file) :
           /\ new[i].qual = file[i].qual
           /\ new[i].id = IF file[i].id = node THEN Group(node) ELSE file[i].id
  <2>1. Len(new) = Len(file) /\ \A i \in 1 .. Len(file) : new[i].qual = file[i].qual
    BY RedirectFile
  <2>2. ASSUME NEW i \in 1 .. Len(file)
        PROVE  new[i].id = IF file[i].id = node THEN Group(node) ELSE file[i].id
    <3>1. new[i] = IF file[i].id = node THEN [file[i] EXCEPT !.id = Group(node)] ELSE file[i]
      BY DEF Redirect
    <3>2. file[i] \in Line(N)
      OBVIOUS
    <3> QED
      BY <3>1, <3>2 DEF Line
  <2> QED
    BY <2>1, <2>2
<1> HIDE DEF new
<1>2. Has(new, q, id) <=> \/ Has(file, q, id) /\ id # node
                          \/ Has(file, q, node) /\ id = Group(node)
  BY <1>1 DEF Has, Group
<1> QED
  BY <1>2 DEF new

LEMMA HasAppend ==
  ASSUME NEW N, NEW file \in Seq(Line(N)), NEW line \in Line(N), NEW q, NEW id
  PROVE  Has(Append(file, line), q, id)
           <=> Has(file, q, id) \/ (line.qual = q /\ line.id = id)
<1> DEFINE new == Append(file, line)
<1>1. /\ new \in Seq(Line(N)) /\ Len(file) \in Nat /\ Len(new) = Len(file) + 1
      /\ new[Len(file) + 1] = line
      /\ \A i \in 1 .. Len(file) : new[i] = file[i]
  OBVIOUS
<1> HIDE DEF new
<1>2. /\ \A i \in 1 .. Len(new) : i \in 1 .. Len(file) \/ i = Len(file) + 1
      /\ \A i \in 1 .. Len(file) : i \in 1 .. Len(new)
      /\ Len(file) + 1 \in 1 .. Len(new)
  BY <1>1
<1>3. Has(new, q, id) <=> Has(file, q, id) \/ (line.qual = q /\ line.id = id)
  BY <1>1, <1>2 DEF Has
<1> QED
  BY <1>3 DEF new

LEMMA HasToPass1 ==
  ASSUME NEW N, NEW file \in Seq(Line(N)), NEW ids, NEW q, NEW id
  PROVE  Has(ToPass1(file, ids), q, id)
           <=> \/ Has(file, q, id) /\ id \notin ids
               \/ \E m \in ids :
                    /\ id = Pass1(m)
                    /\ \/ q # "f" /\ Has(file, q, m)
                       \/ q = "b" /\ Has(file, "f", m)
<1> DEFINE new == ToPass1(file, ids)
<1>1. /\ Len(new) = Len(file)
      /\ \A i \in 1 .. Len(file) :
           /\ new[i].qual = IF file[i].id \in ids /\ file[i].qual = "f" THEN "b" ELSE file[i].qual
           /\ new[i].id = IF file[i].id \in ids THEN Pass1(file[i].id) ELSE file[i].id
  <2>1. Len(new) = Len(file)
    BY DEF ToPass1
  <2>2. ASSUME NEW i \in 1 .. Len(file)
        PROVE  /\ new[i].qual = IF file[i].id \in ids /\ file[i].qual = "f"
                                THEN "b" ELSE file[i].qual
               /\ new[i].id = IF file[i].id \in ids THEN Pass1(file[i].id) ELSE file[i].id
    BY DEF ToPass1
  <2> QED
    BY <2>1, <2>2
<1> HIDE DEF new
<1>2. ASSUME Has(new, q, id)
      PROVE  \/ Has(file, q, id) /\ id \notin ids
             \/ \E m \in ids :
                  /\ id = Pass1(m)
                  /\ \/ q # "f" /\ Has(file, q, m)
                     \/ q = "b" /\ Has(file, "f", m)
  <2>1. PICK i \in 1 .. Len(file) : new[i].qual = q /\ new[i].id = id
    BY <1>1, <1>2 DEF Has
  <2>2. Has(file, file[i].qual, file[i].id)
    BY HasLine
  <2>3. CASE file[i].id \notin ids
    BY <1>1, <2>1, <2>2, <2>3
  <2>4. CASE file[i].id \in ids
    <3>1. id = Pass1(file[i].id) /\ q = IF file[i].qual = "f" THEN "b" ELSE file[i].qual
      BY <1>1, <2>1, <2>4
    <3> QED
      BY <2>2, <2>4, <3>1
  <2> QED
    BY <2>3, <2>4
<1>3. ASSUME Has(file, q, id), id \notin ids PROVE Has(new, q, id)
  BY <1>1, <1>3 DEF Has
<1>4. ASSUME NEW m \in ids, id = Pass1(m), q # "f", Has(file, q, m)
      PROVE  Has(new, q, id)
  BY <1>1, <1>4 DEF Has
<1>5. ASSUME NEW m \in ids, id = Pass1(m), q = "b", Has(file, "f", m)
      PROVE  Has(new, q, id)
  BY <1>1, <1>5 DEF Has
<1> QED
  BY <1>2, <1>3, <1>4, <1>5 DEF new

(* No line of the file is an external dependency.                          *)
LightFile(file) == \A i \in 1 .. Len(file) : file[i].prio <= 3

(* There is a path if and only if each set that no line leaves keeps it.   *)
LEMMA PathBySets ==
  ASSUME NEW files, NEW s, NEW w, IsFiniteSet(Nodes(files, s)), NEW t
  PROVE  HasPath(files, s, t, w)
           <=> \A A : s \in A /\ ClosedUnder(files, A, w) => t \in A
<1> DEFINE next == Edges(files, s, w)
           R == Hull(next, {s})
<1>1. Reachable(files, s, w) = R
  BY ReachableIsHull
<1>2. DOMAIN next = Nodes(files, s) /\ s \in Nodes(files, s)
  BY DEF Edges, Nodes
<1>3. ASSUME NEW n PROVE Successors(files, n, w) \subseteq Nodes(files, s)
  <2>1. ASSUME NEW m \in Successors(files, n, w) PROVE m \in Nodes(files, s)
    <3>1. n \in DOMAIN files /\ m \in Targets(files[n])
      BY DEF Successors, Targets
    <3> QED
      BY <3>1 DEF Nodes
  <2> QED
    BY <2>1
<1>4. \A n \in Nodes(files, s) : next[n] = Successors(files, n, w)
  BY DEF Edges
<1>5. \A A : ClosedUnder(files, A, w) <=> \A n \in A : Successors(files, n, w) \subseteq A
  BY DEF ClosedUnder, Successors
<1> HIDE DEF next
<1>6. ASSUME t \in R, NEW A, s \in A, ClosedUnder(files, A, w) PROVE t \in A
  <2> DEFINE T == A \cap Nodes(files, s)
  <2>1. T \in SUBSET DOMAIN next /\ {s} \subseteq T
    BY <1>2, <1>6
  <2>2. ClosedIn(next, T)
    BY <1>3, <1>4, <1>5, <1>6 DEF ClosedIn
  <2>3. t \in T
    BY <1>6, <2>1, <2>2 DEF Hull
  <2> QED
    BY <2>3
<1>7. ASSUME \A A : s \in A /\ ClosedUnder(files, A, w) => t \in A
      PROVE  t \in R
  <2>1. s \in R
    BY <1>2 DEF Hull
  <2>2. ASSUME NEW n \in R, NEW m \in Successors(files, n, w) PROVE m \in R
    <3>1. n \in Nodes(files, s) /\ m \in next[n] /\ m \in DOMAIN next
      BY <1>2, <1>3, <1>4, <2>2 DEF Hull
    <3> QED
      BY <3>1, <2>2 DEF Hull, ClosedIn
  <2>3. ClosedUnder(files, R, w)
    BY <1>5, <2>2
  <2> QED
    BY <1>7, <2>1, <2>3
<1> QED
  BY <1>1, <1>6, <1>7 DEF HasPath

LEMMA ReachableClosed ==
  ASSUME NEW files, NEW s, NEW w, IsFiniteSet(Nodes(files, s))
  PROVE  s \in Reachable(files, s, w) /\ ClosedUnder(files, Reachable(files, s, w), w)
<1> DEFINE R == Reachable(files, s, w)
<1>1. \A t : t \in R <=> \A A : s \in A /\ ClosedUnder(files, A, w) => t \in A
  BY PathBySets DEF HasPath
<1> HIDE DEF R
<1>2. s \in R
  BY <1>1
<1>3. ASSUME NEW n \in R \cap DOMAIN files, NEW i \in 1 .. Len(files[n]), files[n][i].prio <= w
      PROVE  files[n][i].id \in R
  <2>1. ASSUME NEW A, s \in A, ClosedUnder(files, A, w) PROVE files[n][i].id \in A
    <3>1. n \in A
      BY <1>1, <2>1
    <3> QED
      BY <1>3, <2>1, <3>1 DEF ClosedUnder
  <2> QED
    BY <1>1, <2>1
<1>4. ClosedUnder(files, R, w)
  BY <1>3 DEF ClosedUnder
<1> QED
  BY <1>2, <1>4 DEF R

LEMMA FiniteNodes ==
  ASSUME NEW files, NEW N, NEW s, IsFiniteSet(DOMAIN files),
         \A n \in DOMAIN files : files[n] \in Seq(Line(N))
  PROVE  IsFiniteSet(Nodes(files, s))
<1> DEFINE D == DOMAIN files
           f == [n \in D |-> Targets(files[n])]
           T == {Targets(files[n]) : n \in D}
<1>1. f \in Surjection(D, T)
  BY DEF Surjection
<1>2. IsFiniteSet(T)
  BY <1>1, FS_Surjection
<1>3. ASSUME NEW n \in D PROVE IsFiniteSet(Targets(files[n]))
  <2> DEFINE I == 1 .. Len(files[n])
             g == [i \in I |-> files[n][i].id]
  <2>1. g \in Surjection(I, Targets(files[n]))
    BY DEF Surjection, Targets
  <2>2. files[n] \in Seq(Line(N))
    OBVIOUS
  <2>3. Len(files[n]) \in Int
    BY <2>2
  <2>4. IsFiniteSet(I)
    BY <2>3, FS_Interval
  <2> QED
    BY <2>1, <2>4, FS_Surjection
<1>4. IsFiniteSet(UNION T)
  BY <1>2, <1>3, FS_UNION
<1>5. Nodes(files, s) = {s} \cup UNION T
  BY DEF Nodes
<1> DEFINE U == UNION T
<1> HIDE DEF U
<1>6. IsFiniteSet(U \cup {s})
  BY <1>4, FS_AddElement DEF U
<1>7. U \cup {s} = {s} \cup U
  OBVIOUS
<1> QED
  BY <1>5, <1>6, <1>7 DEF U

LEMMA LightWithout ==
  ASSUME NEW N, NEW file \in Seq(Line(N)), LightFile(file), NEW ids
  PROVE  LightFile(Without(file, ids))
<1>1. \A k \in 1 .. Len(Without(file, ids)) : \E i \in 1 .. Len(file) :
        Without(file, ids)[k] = file[i]
  BY WithoutFile
<1> QED
  BY <1>1 DEF LightFile

LEMMA LightRedirect ==
  ASSUME NEW N, NEW file \in Seq(Line(N)), LightFile(file), NEW node
  PROVE  LightFile(Redirect(file, node))
<1>1. Len(Redirect(file, node)) = Len(file)
  BY DEF Redirect
<1>2. ASSUME NEW i \in 1 .. Len(file) PROVE Redirect(file, node)[i].prio = file[i].prio
  <2>1. Redirect(file, node)[i]
          = IF file[i].id = node THEN [file[i] EXCEPT !.id = Group(node)] ELSE file[i]
    BY DEF Redirect
  <2>2. file[i] \in Line(N)
    OBVIOUS
  <2> QED
    BY <2>1, <2>2 DEF Line
<1> QED
  BY <1>1, <1>2 DEF LightFile

LEMMA LightAppend ==
  ASSUME NEW N, NEW file \in Seq(Line(N)), LightFile(file),
         NEW line \in Line(N), line.prio <= 3
  PROVE  LightFile(Append(file, line))
<1> DEFINE new == Append(file, line)
<1>1. /\ new \in Seq(Line(N)) /\ Len(file) \in Nat /\ Len(new) = Len(file) + 1
      /\ new[Len(file) + 1] = line
      /\ \A i \in 1 .. Len(file) : new[i] = file[i]
  OBVIOUS
<1> HIDE DEF new
<1>2. \A i \in 1 .. Len(new) : i \in 1 .. Len(file) \/ i = Len(file) + 1
  BY <1>1
<1>3. LightFile(new)
  BY <1>1, <1>2 DEF LightFile
<1> QED
  BY <1>3 DEF new

LEMMA LightToPass1 ==
  ASSUME NEW N, NEW file \in Seq(Line(N)), LightFile(file), NEW ids
  PROVE  LightFile(ToPass1(file, ids))
<1>1. Len(ToPass1(file, ids)) = Len(file)
  BY DEF ToPass1
<1>2. ASSUME NEW i \in 1 .. Len(file)
      PROVE  ToPass1(file, ids)[i].prio \in {1, file[i].prio}
  BY DEF ToPass1
<1>3. \A i \in 1 .. Len(file) : file[i].prio \in Weight
  BY LineOf
<1> QED
  BY <1>1, <1>2, <1>3 DEF LightFile, Weight

(* The lines of a group: one to the node, and for each of its "after"      *)
(* lines one to a name in which that occurs.                               *)
LEMMA GroupHas ==
  ASSUME NEW N, NEW node \in N, dep[node] \in Seq(Line(N))
  PROVE  /\ Has(GroupFile(node), "b", node)
         /\ \A q, id : Has(GroupFile(node), q, id) =>
              q = "b" /\ (id = node \/ Has(dep[node], "a", id))
         /\ \A s : Has(dep[node], "a", s) =>
              \E id : Has(GroupFile(node), "b", id) /\ Occurs(s, id)
         /\ LightFile(dep[node]) => LightFile(GroupFile(node))
<1> DEFINE after == Qualified(dep[node], "a")
           n == Len(after)
           f == CHOOSE f : GroupFunction(node, after, n, f)
           OK(g, i) ==
             /\ g \in Seq(Line(N)) /\ Has(g, "b", node)
             /\ \A q, id : Has(g, q, id) => q = "b" /\ (id = node \/ Has(dep[node], "a", id))
             /\ \A k \in 1 .. i : \E id : Has(g, "b", id) /\ Occurs(after[k].id, id)
             /\ LightFile(dep[node]) => LightFile(g)
           Good == {i \in 0 .. n : OK(f[i], i)}
<1>1. GroupFile(node) = f[n]
  BY DEF GroupFile, GroupFunction, AddToGroup, OwnLine
<1>2. after \in Seq(Line(N)) /\ n \in Nat
  BY QualifiedFile
<1>3. GroupFunction(node, after, n, f)
  BY <1>2, GroupExists
<1>4. \A id : id \in Targets(after) <=> Has(dep[node], "a", id)
  BY HasQualified
<1>5. LightFile(dep[node]) => LightFile(after)
  <2> DEFINE keep == {i \in DOMAIN dep[node] : dep[node][i].qual = "a"}
  <2>1. after = Kept(dep[node], keep)
    BY DEF Qualified
  <2> HIDE DEF keep, after
  <2> DEFINE file == dep[node]
             kept == Kept(file, keep)
  <2>2. file \in Seq(Line(N)) /\ after = kept
    BY <2>1
  <2> HIDE DEF file
  <2>3. \A k \in 1 .. Len(kept) : \E i \in 1 .. Len(file) : kept[k] = file[i]
    BY <2>2, KeptFile
  <2> HIDE DEF kept
  <2>4. LightFile(file) => LightFile(kept)
    BY <2>3 DEF LightFile
  <2> QED
    BY <2>2, <2>4 DEF file
<1> HIDE DEF f, after
<1>6. ASSUME NEW i \in 0 .. n
      PROVE  f[i] = IF i = 0 THEN <<OwnLine(node)>> ELSE AddToGroup(f[i - 1], after[i])
  BY <1>3, Zenon DEF GroupFunction
<1>7. 0 \in Good
  <2> DEFINE own == OwnLine(node)
             g == <<own>>
  <2>1. own \in Line(N) /\ own.qual = "b" /\ own.id = node /\ own.prio <= 3
    BY DEF OwnLine, Line, Weight, Qualifier
  <2>2. 0 \in 0 .. n /\ f[0] = g /\ 1 .. 0 = {}
    BY <1>2, <1>6
  <2> HIDE DEF own
  <2>3. g \in Seq(Line(N)) /\ Len(g) = 1 /\ g[1] = own /\ 1 .. 1 = {1}
    BY <2>1
  <2> HIDE DEF g
  <2>4. \A q, id : Has(g, q, id) <=> q = "b" /\ id = node
    BY <2>1, <2>3 DEF Has
  <2>5. LightFile(g)
    BY <2>1, <2>3 DEF LightFile
  <2> QED
    BY <2>2, <2>3, <2>4, <2>5
<1>8. ASSUME NEW i \in 1 .. n, i - 1 \in Good PROVE i \in Good
  <2> DEFINE g == f[i - 1]
             line == [after[i] EXCEPT !.qual = "b"]
  <2>1. OK(g, i - 1) /\ i \in 0 .. n /\ i # 0
    BY <1>2, <1>8
  <2>2. /\ line \in Line(N) /\ line.qual = "b" /\ line.id = after[i].id
        /\ line.prio = after[i].prio /\ after[i].id \in Targets(after)
    <3>1. after[i] \in Line(N)
      BY <1>2
    <3> QED
      BY <3>1 DEF Line, Qualifier, Targets
  <2>3. f[i] = AddToGroup(g, after[i])
    BY <1>6, <2>1
  <2>4. \A k \in 1 .. i : k \in 1 .. i - 1 \/ k = i
    BY <1>2
  <2>5. LightFile(dep[node]) => line.prio <= 3
    BY <1>5, <2>2 DEF LightFile
  <2> HIDE DEF g, after
  <2>6. CASE \E id \in Targets(g) : Occurs(after[i].id, id)
    <3>1. f[i] = g
      BY <2>3, <2>6 DEF AddToGroup
    <3>2. PICK id \in Targets(g) : Occurs(after[i].id, id)
      BY <2>6
    <3>3. Has(g, "b", id)
      BY <2>1, <3>2, HasTargets
    <3>4. OK(f[i], i)
      BY <2>1, <2>4, <3>1, <3>2, <3>3
    <3> QED
      BY <2>1, <3>4
  <2>7. CASE ~ \E id \in Targets(g) : Occurs(after[i].id, id)
    <3> DEFINE h == Append(g, line)
    <3>1. f[i] = h
      BY <2>3, <2>7 DEF AddToGroup
    <3>2. h \in Seq(Line(N))
      BY <2>1, <2>2
    <3>0. g \in Seq(Line(N)) /\ line \in Line(N)
      BY <2>1, <2>2
    <3> HIDE DEF OK
    <3>3. ASSUME NEW q, NEW id
          PROVE  Has(h, q, id) <=> Has(g, q, id) \/ (line.qual = q /\ line.id = id)
      <4> HIDE DEF line
      <4> QED
        BY <3>0, HasAppend
    <3> USE DEF OK
    <3>4. LightFile(dep[node]) => LightFile(h)
      BY <2>1, <2>2, <2>5, LightAppend
    <3> HIDE DEF h, line
    <3>5. Occurs(after[i].id, after[i].id)
      BY DEF Occurs
    <3>6. Has(h, "b", node) /\ \A q, id : Has(h, q, id) =>
            q = "b" /\ (id = node \/ Has(dep[node], "a", id))
      BY <1>4, <2>1, <2>2, <3>3
    <3>7. ASSUME NEW k \in 1 .. i PROVE \E id : Has(h, "b", id) /\ Occurs(after[k].id, id)
      BY <2>1, <2>2, <2>4, <3>3, <3>5
    <3>8. OK(h, i)
      BY <3>2, <3>4, <3>6, <3>7
    <3> QED
      BY <2>1, <3>1, <3>8
  <2> QED
    BY <2>6, <2>7
<1> HIDE DEF Good
<1>9. 0 .. n \subseteq Good
  BY <1>2, <1>7, <1>8, UpTo
<1>10. OK(f[n], n)
  <2>1. n \in Good
    BY <1>2, <1>9
  <2> HIDE DEF OK
  <2> QED
    BY <2>1 DEF Good
<1>11. ASSUME NEW s, Has(dep[node], "a", s)
       PROVE  \E id : Has(f[n], "b", id) /\ Occurs(s, id)
  <2>1. s \in Targets(after)
    BY <1>4, <1>11
  <2>2. PICK k \in 1 .. n : after[k].id = s
    BY <2>1 DEF Targets
  <2> QED
    BY <1>10, <2>2
<1> QED
  BY <1>1, <1>10, <1>11

-------------------------------------------------------------------------------
(***************************************************************************)
(* Names, and sets that no line leaves.                                    *)
(***************************************************************************)

(* A package, its group, and their first passes.                           *)
Names(x) == {x, Group(x), Pass1(x), Pass1(Group(x))}

GroupNames(x) == {Group(x), Pass1(Group(x))}

(* No line of a file of A leaves A.                                        *)
Closed(files, A) == \A n \in A \cap DOMAIN files : Targets(files[n]) \subseteq A

(* Nor will one when first passes are made: A has them with their nodes.   *)
Shut(files, A) ==
  /\ A \subseteq Target /\ Closed(files, A)
  /\ \A m \in Node : Pass1(m) \in A <=> m \in A

(* Nothing that the loops do to the files will let s lead to t.            *)
Apart(files, s, t) == \E A : Shut(files, A) /\ s \in A /\ t \notin A

Light(files) == \A n \in DOMAIN files : LightFile(files[n])

-------------------------------------------------------------------------------
LEMMA Suffixes ==
  /\ \A x, y : Group(x) = Group(y) => x = y
  /\ \A x, y : Pass1(x) = Pass1(y) => x = y
  /\ \A x, y : Group(x) # Pass1(y)
<1>1. ASSUME NEW x, NEW y, Group(x) = Group(y) PROVE x = y
  <2>1. Group(x)[1] = x /\ Group(y)[1] = y
    BY DEF Group
  <2> QED
    BY <1>1, <2>1
<1>2. ASSUME NEW x, NEW y, Pass1(x) = Pass1(y) PROVE x = y
  <2>1. Pass1(x)[1] = x /\ Pass1(y)[1] = y
    BY DEF Pass1
  <2> QED
    BY <1>2, <2>1
<1>3. ASSUME NEW x, NEW y, Group(x) = Pass1(y) PROVE FALSE
  <2>1. Group(x)[2] = "groupxx" /\ Pass1(y)[2] = "-pass1"
    BY DEF Pass1, Group
  <2> QED
    BY <1>3, <2>1
<1> QED
  BY <1>1, <1>2, <1>3

LEMMA NoSuffix ==
  /\ \A x \in Package, y \in Package : x # Group(y)
  /\ \A x \in Package, n \in Node : x # Pass1(n)
  /\ \A n \in Node, m \in Node : n # Pass1(m)
  /\ \A x \in Package : x \in Node /\ Group(x) \in Node
  /\ \A n \in Node : n \in Target /\ Pass1(n) \in Target
  /\ Root \notin Target
  /\ \A n \in Node : n \in Package \/ \E x \in Package : n = Group(x)
  /\ \A n \in Target : n \in Node \/ \E m \in Node : n = Pass1(m)
BY CleanAssumption, Suffixes DEF Node, Target

LEMMA NamesOnce ==
  ASSUME NEW x \in Package, NEW y \in Package, NEW n \in Names(x), n \in Names(y)
  PROVE  x = y
<1>1. x # Group(y) /\ y # Group(x) /\ x # Pass1(y) /\ y # Pass1(x)
      /\ x # Pass1(Group(y)) /\ y # Pass1(Group(x))
  BY NoSuffix
<1> QED
  BY <1>1, Suffixes DEF Names

LEMMA HasName ==
  ASSUME NEW n \in Target
  PROVE  \E x \in Package : n \in Names(x)
BY NoSuffix DEF Names

LEMMA NameIsTarget ==
  ASSUME NEW x \in Package
  PROVE  Names(x) \subseteq Target
BY NoSuffix DEF Names

-------------------------------------------------------------------------------
LEMMA LightPath ==
  ASSUME NEW files, NEW N, IsFiniteSet(DOMAIN files), FilesTo(files, N), Light(files),
         NEW s, NEW t
  PROVE  /\ HasPath(files, s, t, 3) <=> \A A : s \in A /\ Closed(files, A) => t \in A
         /\ s \in Reachable(files, s, 3) /\ Closed(files, Reachable(files, s, 3))
<1>1. IsFiniteSet(Nodes(files, s))
  BY FiniteNodes DEF FilesTo
<1>2. ASSUME NEW A PROVE ClosedUnder(files, A, 3) <=> Closed(files, A)
  BY DEF ClosedUnder, Closed, Light, LightFile, Targets
<1> QED
  BY <1>1, <1>2, PathBySets, ReachableClosed

(* A path does not leave a set that no line leaves.                        *)
LEMMA PathInside ==
  ASSUME NEW files, NEW N, IsFiniteSet(DOMAIN files), FilesTo(files, N),
         NEW s, NEW t, NEW w, HasPath(files, s, t, w), NEW A, s \in A, Closed(files, A)
  PROVE  t \in A
<1>1. IsFiniteSet(Nodes(files, s))
  BY FiniteNodes DEF FilesTo
<1>2. ClosedUnder(files, A, w)
  BY DEF ClosedUnder, Closed, Targets
<1> QED
  BY <1>1, <1>2, PathBySets

-------------------------------------------------------------------------------
(***************************************************************************)
(* What a turn of the second loop does to the lines.                       *)
(***************************************************************************)

(* The line that is added to root.dep.                                     *)
ToGroup(node) == [prio |-> 1, qual |-> "b", id |-> Group(node)]

(* The lines of the file n, once the node has its group.                   *)
HasAfterwards(node, n, q, id) ==
  /\ \/ n \in FreeParents(node) /\ id # node /\ Has(dep[n], q, id)
     \/ n \in FreeParents(node) /\ id = Group(node) /\ Has(dep[n], q, node)
     \/ n \notin FreeParents(node) /\ Has(dep[n], q, id)
     \/ n = Root /\ FreeParents(node) = {} /\ q = "b" /\ id = Group(node)
  /\ n = node => ~ Has(dep[node], "a", id)

(* What GroupAfter does to the files.                                      *)
GroupStep(node) ==
  /\ node \in DOMAIN dep /\ node \in Package
  /\ DOMAIN dep' = DOMAIN dep \cup {Group(node)}
  /\ dep'[Group(node)] = GroupFile(node)
  /\ \A n \in DOMAIN dep : \A q, id : Has(dep'[n], q, id) <=> HasAfterwards(node, n, q, id)
  /\ Light(dep) => Light(dep')

LEMMA GroupSteps ==
  ASSUME IInv, TypeInv, NEW node \in todo, GroupAfter(node), Group(node) \notin DOMAIN dep
  PROVE  GroupStep(node)
<1> DEFINE after == Targets(Qualified(dep[node], "a"))
           free == FreeParents(node)
           parents == Redirected(node, free)
           own == Without(parents[node], after)
           line == ToGroup(node)
<1>1. /\ loop = "after" /\ node \in DOMAIN dep
      /\ dep' = Put([parents EXCEPT ![node] = own], Group(node), GroupFile(node))
  BY DEF GroupAfter, IInv
<1>2. /\ node \in Package /\ DOMAIN dep \subseteq Node \cup {Root}
      /\ FilesTo(dep, Node) /\ node \in Node /\ Group(node) \in Node
  BY <1>1, NoSuffix DEF TypeInv
<1>3. DOMAIN parents = DOMAIN dep
  BY DEF Redirected
<1>4. line \in Line(Node) /\ line.prio <= 3 /\ line.qual = "b" /\ line.id = Group(node)
  BY <1>2 DEF ToGroup, Line, Weight, Qualifier
<1>5. \A id : id \in after <=> Has(dep[node], "a", id)
  BY <1>1, <1>2, HasQualified DEF FilesTo
<1>6. ASSUME NEW n \in DOMAIN dep
      PROVE  parents[n] = IF n \in free THEN Redirect(dep[n], node)
                          ELSE IF n = Root /\ free = {} THEN Append(dep[n], line)
                          ELSE dep[n]
  BY <1>6 DEF Redirected, ToGroup
<1> HIDE DEF after, free, parents, line
<1>7. ASSUME NEW n \in DOMAIN dep
      PROVE  /\ parents[n] \in Seq(Line(Node))
             /\ LightFile(dep[n]) => LightFile(parents[n])
             /\ \A q, id : Has(parents[n], q, id)
                  <=> \/ n \in free /\ id # node /\ Has(dep[n], q, id)
                      \/ n \in free /\ id = Group(node) /\ Has(dep[n], q, node)
                      \/ n \notin free /\ Has(dep[n], q, id)
                      \/ n = Root /\ free = {} /\ q = "b" /\ id = Group(node)
  <2>1. dep[n] \in Seq(Line(Node))
    BY <1>2 DEF FilesTo
  <2>2. CASE n \in free
    <3>1. parents[n] = Redirect(dep[n], node)
      BY <1>6, <2>2
    <3>2. Node \cup {Group(node)} = Node
      BY <1>2
    <3>3. Redirect(dep[n], node) \in Seq(Line(Node))
      BY <2>1, <3>2, RedirectFile
    <3>4. ASSUME NEW q, NEW id
          PROVE  Has(Redirect(dep[n], node), q, id)
                   <=> \/ Has(dep[n], q, id) /\ id # node
                       \/ Has(dep[n], q, node) /\ id = Group(node)
      BY <2>1, HasRedirect
    <3>5. LightFile(dep[n]) => LightFile(Redirect(dep[n], node))
      BY <2>1, LightRedirect
    <3> QED
      BY <2>2, <3>1, <3>3, <3>4, <3>5
  <2>3. CASE n \notin free /\ n = Root /\ free = {}
    <3>1. parents[n] = Append(dep[n], line)
      BY <1>6, <2>3
    <3> DEFINE old == dep[n]
               new == Append(old, line)
    <3>2. old \in Seq(Line(Node))
      BY <2>1
    <3> HIDE DEF old
    <3>3. new \in Seq(Line(Node))
      BY <1>4, <3>2
    <3>4. ASSUME NEW q, NEW id
          PROVE  Has(new, q, id) <=> Has(old, q, id) \/ (line.qual = q /\ line.id = id)
      BY <1>4, <3>2, HasAppend
    <3>5. LightFile(old) => LightFile(new)
      BY <1>4, <3>2, LightAppend
    <3>6. parents[n] = new
      BY <3>1 DEF old
    <3> HIDE DEF new
    <3>7. \A q, id : Has(new, q, id) <=> Has(old, q, id) \/ (q = "b" /\ id = Group(node))
      BY <1>4, <3>4
    <3> QED
      BY <2>3, <3>3, <3>5, <3>6, <3>7 DEF old
  <2>4. CASE n \notin free /\ ~ (n = Root /\ free = {})
    <3>1. parents[n] = dep[n]
      BY <1>6, <2>4
    <3> QED
      BY <2>1, <2>4, <3>1
  <2> QED
    BY <2>2, <2>3, <2>4
<1>8. /\ \A q, id : Has(own, q, id) <=> Has(parents[node], q, id) /\ id \notin after
      /\ LightFile(parents[node]) => LightFile(own)
  <2>1. parents[node] \in Seq(Line(Node))
    BY <1>1, <1>7
  <2>2. ASSUME NEW q, NEW id
        PROVE  Has(own, q, id) <=> Has(parents[node], q, id) /\ id \notin after
    BY <2>1, HasWithout
  <2>3. LightFile(parents[node]) => LightFile(own)
    BY <2>1, LightWithout
  <2> QED
    BY <2>2, <2>3
<1>9. LightFile(dep[node]) => LightFile(GroupFile(node))
  BY <1>1, <1>2, GroupHas DEF FilesTo
<1> HIDE DEF own
<1>10. /\ DOMAIN dep' = DOMAIN dep \cup {Group(node)} /\ dep'[Group(node)] = GroupFile(node)
       /\ \A n \in DOMAIN dep : dep'[n] = IF n = node THEN own ELSE parents[n]
  BY <1>1, <1>3 DEF Put
<1>11. ASSUME NEW n \in DOMAIN dep, NEW q, NEW id
       PROVE  Has(dep'[n], q, id) <=> HasAfterwards(node, n, q, id)
  <2>1. CASE n = node
    BY <1>5, <1>7, <1>8, <1>10, <2>1 DEF HasAfterwards, free
  <2>2. CASE n # node
    BY <1>7, <1>10, <2>2 DEF HasAfterwards, free
  <2> QED
    BY <2>1, <2>2
<1>12. ASSUME Light(dep) PROVE Light(dep')
  BY <1>1, <1>7, <1>8, <1>9, <1>10, <1>12 DEF Light
<1> QED
  BY <1>1, <1>2, <1>10, <1>11, <1>12 DEF GroupStep

-------------------------------------------------------------------------------
(***************************************************************************)
(* What a turn of the third loop does to the lines.                        *)
(***************************************************************************)

(* The lines of a file, whatever their order.                              *)
LinesOf(file) == {file[i] : i \in 1 .. Len(file)}

LEMMA HasOfLines ==
  ASSUME NEW file, NEW q, NEW id
  PROVE  Has(file, q, id) <=> \E l \in LinesOf(file) : l.qual = q /\ l.id = id
BY DEF Has, LinesOf

LEMMA WithoutLines ==
  ASSUME NEW N, NEW file \in Seq(Line(N)), NEW ids
  PROVE  LinesOf(Without(file, ids)) = {l \in LinesOf(file) : l.id \notin ids}
<1> DEFINE keep == {i \in DOMAIN file : file[i].id \notin ids}
           new == Kept(file, keep)
<1>1. Without(file, ids) = new
  BY DEF Without
<1>2. \A i \in 1 .. Len(file) : i \in keep <=> file[i].id \notin ids
  OBVIOUS
<1> HIDE DEF keep
<1>3. /\ \A k \in 1 .. Len(new) : \E i \in 1 .. Len(file) : i \in keep /\ file[i] = new[k]
      /\ \A i \in 1 .. Len(file) : i \in keep => \E k \in 1 .. Len(new) : new[k] = file[i]
  BY KeptFile
<1> HIDE DEF new
<1>4. ASSUME NEW l \in LinesOf(new) PROVE l \in LinesOf(file) /\ l.id \notin ids
  BY <1>2, <1>3 DEF LinesOf
<1>5. ASSUME NEW i \in 1 .. Len(file), file[i].id \notin ids PROVE file[i] \in LinesOf(new)
  BY <1>2, <1>3, <1>5 DEF LinesOf
<1>6. LinesOf(new) = {l \in LinesOf(file) : l.id \notin ids}
  BY <1>4, <1>5 DEF LinesOf
<1> QED
  BY <1>1, <1>6

LEMMA TargetsOfLines ==
  ASSUME NEW file
  PROVE  Targets(file) = {l.id : l \in LinesOf(file)}
BY DEF Targets, LinesOf

-------------------------------------------------------------------------------
(* What the first pass of m is copied from.                                *)
Original(m) == IF Pass1(m) \in DOMAIN dep THEN dep[Pass1(m)] ELSE dep[m]

(* The files once node has first passes of the nodes M.                    *)
PassStep(files, node, M) ==
  /\ DOMAIN files = DOMAIN dep \cup {Pass1(m) : m \in M}
  /\ \A n \in DOMAIN dep : (\A m \in M : n # Pass1(m)) => files[n] = dep[n]
  /\ \A m \in M :
       /\ LinesOf(files[Pass1(m)]) \subseteq LinesOf(Original(m))
       /\ \A l \in LinesOf(Original(m)) \ LinesOf(files[Pass1(m)]) : ~ Apart(dep, l.id, node)

(* A set that no line leaves stays one.                                    *)
LEMMA PassKeepsShut ==
  ASSUME NEW files, NEW node, NEW M, M \subseteq DOMAIN dep \cap Node,
         PassStep(files, node, M), NEW A, Shut(dep, A)
  PROVE  Shut(files, A)
<1>1. ASSUME NEW m \in M, Pass1(m) \in A PROVE Targets(files[Pass1(m)]) \subseteq A
  <2>1. m \in A /\ m \in DOMAIN dep
    BY <1>1 DEF Shut
  <2>2. Targets(Original(m)) \subseteq A
    BY <1>1, <2>1 DEF Shut, Closed, Original
  <2> QED
    BY <2>2, TargetsOfLines DEF PassStep
<1>2. ASSUME NEW n \in A \cap DOMAIN files PROVE Targets(files[n]) \subseteq A
  <2>1. CASE \E m \in M : n = Pass1(m)
    BY <1>1, <1>2, <2>1
  <2>2. CASE \A m \in M : n # Pass1(m)
    <3>1. n \in DOMAIN dep /\ files[n] = dep[n]
      BY <1>2, <2>2 DEF PassStep
    <3> QED
      BY <1>2, <3>1 DEF Shut, Closed
  <2> QED
    BY <2>1, <2>2
<1>3. Closed(files, A)
  BY <1>2 DEF Closed
<1> QED
  BY <1>3 DEF Shut

LEMMA PathNotApart ==
  ASSUME NEW files, NEW N, IsFiniteSet(DOMAIN files), FilesTo(files, N),
         NEW s, NEW t, NEW w, HasPath(files, s, t, w)
  PROVE  ~ Apart(files, s, t)
BY PathInside DEF Apart, Shut

LEMMA AddPassStep ==
  ASSUME NEW files, NEW node, NEW M, M \subseteq DOMAIN dep \cap Node,
         DOMAIN dep \subseteq File,
         PassStep(files, node, M), FilesTo(files, Target), IsFiniteSet(DOMAIN files),
         NEW m \in DOMAIN dep \cap Node
  PROVE  /\ PassStep(AddPass(files, node, m), node, M \cup {m})
         /\ IsFiniteSet(DOMAIN AddPass(files, node, m))
<1> DEFINE file == IF Pass1(m) \in DOMAIN files THEN files[Pass1(m)] ELSE files[m]
           back == {i \in 1 .. Len(file) : HasPath(files, file[i].id, node, file[i].prio)}
           ids == {file[i].id : i \in back}
           copy == Pass1File(files, node, m)
           new == AddPass(files, node, m)
<1>1. m \in DOMAIN files /\ files[m] = dep[m]
  BY NoSuffix DEF PassStep
<1>2. file \in Seq(Line(Target))
  BY <1>1 DEF FilesTo
<1>3. copy = Without(file, ids)
  BY DEF Pass1File
<1>4. /\ LinesOf(file) \subseteq LinesOf(Original(m))
      /\ \A l \in LinesOf(Original(m)) \ LinesOf(file) : ~ Apart(dep, l.id, node)
  <2>1. CASE m \in M
    <3>1. file = files[Pass1(m)]
      BY <2>1 DEF PassStep
    <3> QED
      BY <2>1, <3>1 DEF PassStep
  <2>2. CASE m \notin M
    <3>1. \A k \in M : Pass1(m) # Pass1(k)
      BY <2>2, Suffixes
    <3>2. file = Original(m)
      BY <1>1, <3>1 DEF PassStep, Original
    <3> QED
      BY <3>2
  <2> QED
    BY <2>1, <2>2
<1>5. ASSUME NEW id \in ids PROVE ~ Apart(dep, id, node)
  <2>1. PICK w : HasPath(files, id, node, w)
    BY <1>5
  <2>2. ~ Apart(files, id, node)
    BY <2>1, PathNotApart
  <2> QED
    BY <2>2, PassKeepsShut DEF Apart
<1> HIDE DEF file, ids, copy
<1>6. LinesOf(copy) = {l \in LinesOf(file) : l.id \notin ids}
  BY <1>2, <1>3, WithoutLines
<1>7. /\ LinesOf(copy) \subseteq LinesOf(Original(m))
      /\ \A l \in LinesOf(Original(m)) \ LinesOf(copy) : ~ Apart(dep, l.id, node)
  BY <1>4, <1>5, <1>6
<1>8. /\ DOMAIN new = DOMAIN files \cup {Pass1(m)}
      /\ new[Pass1(m)] = copy
      /\ \A n \in DOMAIN files : n # Pass1(m) => new[n] = files[n]
  BY DEF AddPass, Put, copy
<1> HIDE DEF new
<1>9. DOMAIN new = DOMAIN dep \cup {Pass1(k) : k \in M \cup {m}}
  BY <1>8 DEF PassStep
<1>10. ASSUME NEW n \in DOMAIN dep, \A k \in M \cup {m} : n # Pass1(k)
       PROVE  new[n] = dep[n]
  BY <1>8, <1>10 DEF PassStep
<1>11. ASSUME NEW k \in M \cup {m}
       PROVE  /\ LinesOf(new[Pass1(k)]) \subseteq LinesOf(Original(k))
              /\ \A l \in LinesOf(Original(k)) \ LinesOf(new[Pass1(k)]) :
                   ~ Apart(dep, l.id, node)
  <2>1. CASE k = m
    BY <1>7, <1>8, <2>1
  <2>2. CASE k # m
    <3>1. k \in M /\ Pass1(k) # Pass1(m) /\ Pass1(k) \in DOMAIN files
      BY <2>2, Suffixes DEF PassStep
    <3>2. new[Pass1(k)] = files[Pass1(k)]
      BY <1>8, <3>1
    <3> QED
      BY <3>1, <3>2 DEF PassStep
  <2> QED
    BY <2>1, <2>2
<1>12. PassStep(new, node, M \cup {m})
  BY <1>9, <1>10, <1>11 DEF PassStep
<1>13. IsFiniteSet(DOMAIN new)
  <2> DEFINE U == DOMAIN files
  <2> HIDE DEF U
  <2>1. IsFiniteSet(U \cup {Pass1(m)})
    BY FS_AddElement DEF U
  <2> QED
    BY <1>8, <2>1 DEF U
<1> QED
  BY <1>12, <1>13 DEF new

-------------------------------------------------------------------------------
(* A first pass needs no more than what it is the first pass of.           *)
Lesser(files) ==
  \A m \in Node : Pass1(m) \in DOMAIN files =>
    m \in DOMAIN files /\ LinesOf(files[Pass1(m)]) \subseteq LinesOf(files[m])

(* Then no new path is made, and none back to node from its first passes.  *)
FreeStep(files, node, M) ==
  /\ Lesser(files)
  /\ \A w : \A s \in DOMAIN dep, t \in Node :
       ~ HasPath(dep, s, t, w) => ~ HasPath(files, s, t, w)
  /\ \A m \in M : \A l \in LinesOf(files[Pass1(m)]) : ~ HasPath(files, l.id, node, l.prio)

LEMMA PathIn ==
  ASSUME NEW files, IsFiniteSet(DOMAIN files), Complete(files), NEW s \in DOMAIN files, NEW w
  PROVE  /\ s \in Reachable(files, s, w) /\ Reachable(files, s, w) \subseteq DOMAIN files
         /\ \A n \in Reachable(files, s, w) : \A l \in LinesOf(files[n]) :
              l.prio <= w => l.id \in Reachable(files, s, w)
<1>1. FilesTo(files, DOMAIN files)
  BY DEF FilesTo, Complete
<1>2. IsFiniteSet(Nodes(files, s))
  BY <1>1, FiniteNodes DEF FilesTo
<1>3. Closed(files, DOMAIN files)
  <2>1. ASSUME NEW n \in DOMAIN files PROVE Targets(files[n]) \subseteq DOMAIN files
    <3>1. files[n] \in Seq(Line(DOMAIN files))
      BY DEF Complete
    <3> QED
      BY <3>1, FromLines, LineOf
  <2> QED
    BY <2>1 DEF Closed
<1>4. Reachable(files, s, w) \subseteq DOMAIN files
  BY <1>1, <1>3, PathInside DEF HasPath
<1>5. s \in Reachable(files, s, w) /\ ClosedUnder(files, Reachable(files, s, w), w)
  BY <1>2, ReachableClosed
<1> QED
  BY <1>4, <1>5 DEF ClosedUnder, LinesOf

(* A set with s that no line of weight w leaves.                           *)
LEMMA NoPath ==
  ASSUME NEW files, IsFiniteSet(DOMAIN files), Complete(files), NEW s, NEW t, NEW w,
         NEW A, s \in A, t \notin A,
         \A n \in A \cap DOMAIN files : \A l \in LinesOf(files[n]) : l.prio <= w => l.id \in A
  PROVE  ~ HasPath(files, s, t, w)
<1>1. IsFiniteSet(Nodes(files, s))
  BY FiniteNodes DEF Complete
<1>2. ClosedUnder(files, A, w)
  BY DEF ClosedUnder, LinesOf
<1> QED
  BY <1>1, <1>2, PathBySets

LEMMA AddPassFree ==
  ASSUME NEW files, IsFiniteSet(DOMAIN files), FilesOK(files), FilesTo(files, Target),
         NEW node \in Node, NEW M, M \subseteq Node,
         \A k \in M : Pass1(k) \in DOMAIN files,
         FreeStep(files, node, M), NEW m \in Node \cap DOMAIN files
  PROVE  FreeStep(AddPass(files, node, m), node, M \cup {m})
<1> DEFINE file == IF Pass1(m) \in DOMAIN files THEN files[Pass1(m)] ELSE files[m]
           back == {i \in 1 .. Len(file) : HasPath(files, file[i].id, node, file[i].prio)}
           ids == {file[i].id : i \in back}
           copy == Pass1File(files, node, m)
           new == AddPass(files, node, m)
<1>1. file \in Seq(Line(Target)) /\ Complete(files)
  BY DEF FilesTo, FilesOK
<1>2. copy = Without(file, ids)
  BY DEF Pass1File
<1>3. \A l \in LinesOf(file) : l.id \notin ids => ~ HasPath(files, l.id, node, l.prio)
  BY DEF LinesOf
<1>4. /\ LinesOf(file) \subseteq LinesOf(files[m])
      /\ Pass1(m) \in DOMAIN files => LinesOf(file) = LinesOf(files[Pass1(m)])
  BY DEF FreeStep, Lesser
<1> HIDE DEF file, ids, copy
<1>5. LinesOf(copy) = {l \in LinesOf(file) : l.id \notin ids}
  BY <1>1, <1>2, WithoutLines
<1>6. /\ DOMAIN new = DOMAIN files \cup {Pass1(m)}
      /\ new[Pass1(m)] = copy
      /\ \A n \in DOMAIN files : n # Pass1(m) => new[n] = files[n]
  BY DEF AddPass, Put, copy
<1>7. FilesOK(new) /\ Complete(new)
  BY AddPassKeeps DEF FilesOK
<1> HIDE DEF new
<1>8. IsFiniteSet(DOMAIN new)
  <2> DEFINE U == DOMAIN files
  <2> HIDE DEF U
  <2>1. IsFiniteSet(U \cup {Pass1(m)})
    BY FS_AddElement DEF U
  <2> QED
    BY <1>6, <2>1 DEF U
<1>9. ASSUME NEW s \in DOMAIN files, NEW t \in Node, NEW w, ~ HasPath(files, s, t, w)
      PROVE  ~ HasPath(new, s, t, w)
  <2> DEFINE A == Reachable(files, s, w)
             B == A \cup {k \in {Pass1(m)} : m \in A}
  <2>1. /\ s \in A /\ A \subseteq DOMAIN files
        /\ \A n \in A : \A l \in LinesOf(files[n]) : l.prio <= w => l.id \in A
    BY <1>1, PathIn
  <2>2. t \notin A
    BY <1>9 DEF HasPath
  <2> HIDE DEF A
  <2>3. t \notin B /\ s \in B
    BY <2>1, <2>2, NoSuffix
  <2>4. ASSUME NEW n \in B \cap DOMAIN new, NEW l \in LinesOf(new[n]), l.prio <= w
        PROVE  l.id \in B
    <3>1. CASE n # Pass1(m)
      BY <1>6, <2>1, <2>4, <3>1
    <3>2. CASE n = Pass1(m)
      <4>1. l \in LinesOf(file) /\ l \in LinesOf(files[m])
        BY <1>4, <1>5, <1>6, <2>4, <3>2
      <4>2. CASE m \in A
        BY <2>1, <2>4, <4>1, <4>2
      <4>3. CASE m \notin A
        <5>1. Pass1(m) \in A /\ Pass1(m) \in DOMAIN files
          BY <2>1, <2>4, <3>2, <4>3
        <5> QED
          BY <1>4, <2>1, <2>4, <4>1, <5>1
      <4> QED
        BY <4>2, <4>3
    <3> QED
      BY <3>1, <3>2
  <2> HIDE DEF B
  <2> QED
    BY <1>7, <1>8, <2>3, <2>4, NoPath
<1>10. Lesser(new)
  <2>1. ASSUME NEW k \in Node, Pass1(k) \in DOMAIN new
        PROVE  k \in DOMAIN new /\ LinesOf(new[Pass1(k)]) \subseteq LinesOf(new[k])
    <3>1. k # Pass1(m)
      BY NoSuffix
    <3>2. CASE k = m
      BY <1>4, <1>5, <1>6, <3>1, <3>2
    <3>3. CASE k # m
      <4>1. Pass1(k) \in DOMAIN files /\ Pass1(k) # Pass1(m)
        BY <1>6, <2>1, <3>3, Suffixes
      <4> QED
        BY <1>6, <3>1, <4>1 DEF FreeStep, Lesser
    <3> QED
      BY <3>2, <3>3
  <2> QED
    BY <2>1 DEF Lesser
<1>11. ASSUME NEW s \in DOMAIN dep, NEW t \in Node, NEW w, ~ HasPath(dep, s, t, w)
       PROVE  ~ HasPath(new, s, t, w)
  <2>1. s \in DOMAIN files /\ ~ HasPath(files, s, t, w)
    BY <1>11 DEF FreeStep, FilesOK
  <2> QED
    BY <1>9, <2>1
<1>12. ASSUME NEW k \in M \cup {m}, NEW l \in LinesOf(new[Pass1(k)])
       PROVE  ~ HasPath(new, l.id, node, l.prio)
  <2>1. /\ Pass1(k) \in DOMAIN files => l \in LinesOf(files[Pass1(k)])
        /\ k = m => l \in LinesOf(file) /\ l.id \notin ids /\ l \in LinesOf(files[m])
    <3>1. CASE k = m
      BY <1>4, <1>5, <1>6, <1>12, <3>1
    <3>2. CASE k # m
      <4>1. Pass1(k) # Pass1(m)
        BY <3>2, Suffixes
      <4> QED
        BY <1>6, <1>12, <3>2, <4>1
    <3> QED
      BY <3>1, <3>2
  <2>2. \A n \in DOMAIN files : \A j \in LinesOf(files[n]) : j.id \in DOMAIN files
    <3>1. ASSUME NEW n \in DOMAIN files, NEW j \in LinesOf(files[n]) PROVE j.id \in DOMAIN files
      <4>1. files[n] \in Seq(Line(DOMAIN files))
        BY <1>1 DEF Complete
      <4> QED
        BY <3>1, <4>1, LineOf DEF LinesOf
    <3> QED
      BY <3>1
  <2>3. l.id \in DOMAIN files /\ ~ HasPath(files, l.id, node, l.prio)
    <3>1. CASE k = m
      BY <1>3, <2>1, <2>2, <3>1
    <3>2. CASE k # m
      BY <1>12, <2>1, <2>2, <3>2 DEF FreeStep
    <3> QED
      BY <3>1, <3>2
  <2> QED
    BY <1>9, <2>3
<1> QED
  BY <1>10, <1>11, <1>12 DEF FreeStep, new

-------------------------------------------------------------------------------
LEMMA PassesStep ==
  ASSUME TypeInv, IInv, loop = "first", IsFiniteSet(DOMAIN dep), NEW node \in todo,
         node \in Node
  PROVE  LET M == Targets(Qualified(dep[node], "f"))
         IN /\ M \subseteq DOMAIN dep \cap Node /\ PassStep(WithPass1Files(node), node, M)
            /\ Lesser(dep) => FreeStep(WithPass1Files(node), node, M)
            /\ FilesOK(WithPass1Files(node)) /\ IsFiniteSet(DOMAIN WithPass1Files(node))
<1> DEFINE first == Qualified(dep[node], "f")
           n == Len(first)
           f == CHOOSE f : PassFunction(node, first, n, f)
           M(i) == {first[k].id : k \in 1 .. i}
           OK(i) == /\ PassTypes(f[i]) /\ PassStep(f[i], node, M(i))
                    /\ IsFiniteSet(DOMAIN f[i]) /\ FilesOK(f[i])
                    /\ Lesser(dep) => FreeStep(f[i], node, M(i))
           Good == {i \in 0 .. n : OK(i)}
<1>0. /\ PassTypes(dep) /\ todo \subseteq DOMAIN dep /\ Complete(dep)
      /\ DOMAIN dep \subseteq File /\ FilesOK(dep)
  BY DEF TypeInv, PassTypes, IInv, CleanInv, FilesOK
<1>1. WithPass1Files(node) = f[n]
  BY DEF WithPass1Files, PassFunction, AddPass
<1>2. /\ first \in Seq(Line(DOMAIN dep)) /\ first \in Seq(Line(Node)) /\ n \in Nat
  BY <1>0, QualifiedFile DEF Complete, PassTypes
<1>3. PassFunction(node, first, n, f)
  BY <1>2, PassExists
<1> HIDE DEF f, first
<1>4. ASSUME NEW i \in 0 .. n
      PROVE  f[i] = IF i = 0 THEN dep ELSE AddPass(f[i - 1], node, first[i].id)
  BY <1>3, Zenon DEF PassFunction
<1>5. \A i \in 1 .. n : first[i].id \in DOMAIN dep \cap Node
  BY <1>2, LineOf
<1>6. 0 \in Good
  <2>1. 0 \in 0 .. n /\ f[0] = dep /\ M(0) = {}
    BY <1>2, <1>4
  <2>2. PassStep(dep, node, {})
    BY DEF PassStep
  <2>3. Lesser(dep) => FreeStep(dep, node, {})
    BY DEF FreeStep
  <2> QED
    BY <1>0, <2>1, <2>2, <2>3
<1>7. ASSUME NEW i \in 1 .. n, i - 1 \in Good PROVE i \in Good
  <2> DEFINE g == f[i - 1]
             m == first[i].id
             K == M(i - 1)
  <2>1. OK(i - 1) /\ i \in 0 .. n /\ i # 0
    BY <1>2, <1>7
  <2>2. f[i] = AddPass(g, node, m)
    BY <1>4, <2>1
  <2>3. M(i) = K \cup {m} /\ K \subseteq DOMAIN dep \cap Node
    <3>1. 1 .. i = (1 .. i - 1) \cup {i} /\ 1 .. i - 1 \subseteq 1 .. n
      BY <1>2
    <3> QED
      BY <1>5, <3>1
  <2>4. m \in DOMAIN dep \cap Node
    BY <1>5
  <2>5. /\ PassTypes(g) /\ PassStep(g, node, K) /\ IsFiniteSet(DOMAIN g) /\ FilesOK(g)
        /\ Lesser(dep) => FreeStep(g, node, K)
    BY <2>1
  <2> HIDE DEF g, m, K, M
  <2>6. m \in Node \cap DOMAIN g /\ FilesTo(g, Target)
    BY <2>4, <2>5 DEF PassTypes
  <2>7. PassTypes(AddPass(g, node, m))
    BY <1>0, <2>5, <2>6, AddPassTypes
  <2>8. /\ PassStep(AddPass(g, node, m), node, K \cup {m})
        /\ IsFiniteSet(DOMAIN AddPass(g, node, m))
    BY <1>0, <2>3, <2>4, <2>5, <2>6, AddPassStep
  <2>9. FilesOK(AddPass(g, node, m))
    BY <2>5, <2>6, AddPassKeeps
  <2>10. ASSUME Lesser(dep) PROVE FreeStep(AddPass(g, node, m), node, K \cup {m})
    <3>1. FreeStep(g, node, K)
      BY <2>5, <2>10
    <3>2. \A k \in K : Pass1(k) \in DOMAIN g
      BY <2>5 DEF PassStep
    <3>3. K \subseteq Node
      BY <2>3
    <3> QED
      BY <2>5, <2>6, <3>1, <3>2, <3>3, AddPassFree
  <2>11. OK(i)
    BY <2>2, <2>3, <2>7, <2>8, <2>9, <2>10
  <2> QED
    BY <2>1, <2>11
<1> HIDE DEF OK
<1>8. 0 .. n \subseteq Good
  <2> HIDE DEF Good
  <2> QED
    BY <1>2, <1>6, <1>7, UpTo
<1>9. n \in 0 .. n
  BY <1>2
<1>10. OK(n)
  BY <1>8, <1>9
<1>11. M(n) = Targets(first)
  BY DEF Targets
<1>12. Targets(first) \subseteq DOMAIN dep \cap Node
  BY <1>5 DEF Targets
<1> QED
  BY <1>1, <1>10, <1>11, <1>12 DEF OK, first

(* What FirstPass does to the files.                                       *)
FirstStep(node) ==
  \E M, files :
    /\ \A m : m \in M <=> Has(dep[node], "f", m)
    /\ M \subseteq DOMAIN dep \cap Node /\ node \in DOMAIN dep
    /\ PassStep(files, node, M) /\ (Lesser(dep) => FreeStep(files, node, M))
    /\ FilesOK(files) /\ IsFiniteSet(DOMAIN files)
    /\ dep' = [files EXCEPT ![node] = ToPass1(dep[node], M)]

LEMMA FirstSteps ==
  ASSUME TypeInv, IInv, IsFiniteSet(DOMAIN dep), NEW node \in todo, FirstPass(node),
         node \in Node
  PROVE  FirstStep(node)
<1> DEFINE M == Targets(Qualified(dep[node], "f"))
           files == WithPass1Files(node)
<1>1. /\ loop = "first" /\ node \in DOMAIN dep
      /\ dep' = [files EXCEPT ![node] = ToPass1(files[node], M)]
  BY DEF FirstPass, IInv
<1>2. /\ M \subseteq DOMAIN dep \cap Node /\ PassStep(files, node, M)
      /\ FilesOK(files) /\ IsFiniteSet(DOMAIN files)
      /\ Lesser(dep) => FreeStep(files, node, M)
  BY <1>1, PassesStep
<1>3. dep[node] \in Seq(Line(Node))
  BY <1>1 DEF TypeInv
<1>4. ASSUME NEW m PROVE m \in M <=> Has(dep[node], "f", m)
  BY <1>3, HasQualified
<1> HIDE DEF files, M
<1>5. files[node] = dep[node] /\ node \in DOMAIN files
  BY <1>1, <1>2, NoSuffix DEF PassStep
<1>6. dep' = [files EXCEPT ![node] = ToPass1(dep[node], M)]
  BY <1>1, <1>5
<1> QED
  BY <1>1, <1>2, <1>4, <1>6 DEF FirstStep

-------------------------------------------------------------------------------
(***************************************************************************)
(* The sets that no line leaves outlive the turns of the loops.            *)
(***************************************************************************)

LEMMA NodeNames ==
  /\ \A x \in Package, m \in Node : m \in Names(x) => m \in {x, Group(x)}
  /\ \A x \in Package, m \in Node : m \in Names(x) <=> Pass1(m) \in Names(x)
  /\ \A x \in Package, m \in Node : Pass1(m) \in GroupNames(x) => m = Group(x)
  /\ \A x \in Package, m \in Package : m \notin GroupNames(x)
  /\ \A x \in Package, y \in Package : Group(x) \in Names(y) => x = y
  /\ \A x \in Package, m \in Node : Pass1(m) # x
<1>1. ASSUME NEW x \in Package, NEW m \in Node, m \in Names(x) PROVE m \in {x, Group(x)}
  BY <1>1, NoSuffix DEF Names
<1>2. ASSUME NEW x \in Package, NEW m \in Node, Pass1(m) \in Names(x) PROVE m \in {x, Group(x)}
  BY <1>2, NoSuffix, Suffixes DEF Names
<1>3. ASSUME NEW x \in Package, NEW y \in Package, Group(x) \in Names(y) PROVE x = y
  BY <1>3, NoSuffix, Suffixes DEF Names
<1>4. ASSUME NEW x \in Package, NEW m \in Node, Pass1(m) \in GroupNames(x) PROVE m = Group(x)
  BY <1>4, NoSuffix, Suffixes DEF GroupNames
<1>5. ASSUME NEW x \in Package, NEW m \in Package PROVE m \notin GroupNames(x)
  BY NoSuffix DEF GroupNames
<1>6. ASSUME NEW x \in Package, NEW m \in Node, m \in Names(x) PROVE Pass1(m) \in Names(x)
  BY <1>1, <1>6 DEF Names
<1>7. ASSUME NEW x \in Package, NEW m \in Node, Pass1(m) \in Names(x) PROVE m \in Names(x)
  BY <1>2, <1>7 DEF Names
<1> QED
  BY <1>1, <1>3, <1>4, <1>5, <1>6, <1>7, NoSuffix

-------------------------------------------------------------------------------
(* A set that no line leaves grows with the files: to a new group and its  *)
(* first pass, if the node is in it.                                       *)
WithGroup(A, node) == (A \ GroupNames(node)) \cup {n \in GroupNames(node) : node \in A}

LEMMA GroupKeepsShut ==
  ASSUME NEW node, GroupStep(node), Complete(dep), FilesTo(dep, Node),
         DOMAIN dep \subseteq Node \cup {Root}, Group(node) \notin DOMAIN dep,
         NEW A, Shut(dep, A)
  PROVE  Shut(dep', WithGroup(A, node))
<1> DEFINE B == WithGroup(A, node)
<1>1. /\ node \in Package /\ node \in Node /\ Group(node) \in Node /\ A \subseteq Target
      /\ node \notin GroupNames(node) /\ Root \notin A
      /\ \A n \in GroupNames(node) : n \notin DOMAIN dep
  BY NoSuffix, NodeNames DEF GroupStep, Shut, GroupNames
<1>2. /\ \A n : n \in B <=> \/ n \in A /\ n \notin GroupNames(node)
                            \/ n \in GroupNames(node) /\ node \in A
  BY DEF WithGroup
<1> HIDE DEF B
<1>3. ASSUME NEW n \in DOMAIN dep, NEW q, NEW id, Has(dep[n], q, id)
      PROVE  id \in DOMAIN dep /\ (n \in A => id \in A)
  <2>1. dep[n] \in Seq(Line(DOMAIN dep))
    BY DEF Complete
  <2>2. id \in DOMAIN dep
    BY <1>3, <2>1, HasType
  <2>3. id \in Targets(dep[n])
    BY <1>3, HasTargets
  <2> QED
    BY <2>2, <2>3 DEF Shut, Closed
<1>4. ASSUME NEW n \in B \cap DOMAIN dep', NEW q, NEW id, Has(dep'[n], q, id)
      PROVE  id \in B
  <2>1. CASE n = Group(node)
    <3>1. node \in A /\ node \in B
      BY <1>1, <1>2, <1>4, <2>1 DEF GroupNames
    <3>2. dep[node] \in Seq(Line(Node)) /\ node \in DOMAIN dep
      BY DEF FilesTo, GroupStep
    <3>3. id = node \/ Has(dep[node], "a", id)
      BY <1>1, <1>4, <2>1, <3>2, GroupHas DEF GroupStep
    <3> QED
      BY <1>1, <1>2, <1>3, <3>1, <3>2, <3>3
  <2>2. CASE n # Group(node)
    <3>1. n \in DOMAIN dep /\ n \in A /\ n # Root
      BY <1>1, <1>2, <1>4, <2>2 DEF GroupStep
    <3>2. HasAfterwards(node, n, q, id)
      BY <1>4, <3>1 DEF GroupStep
    <3>3. Has(dep[n], q, id) \/ (id = Group(node) /\ Has(dep[n], q, node))
      BY <3>1, <3>2 DEF HasAfterwards
    <3> QED
      BY <1>1, <1>2, <1>3, <3>1, <3>3 DEF GroupNames
  <2> QED
    BY <2>1, <2>2
<1>5. Closed(dep', B)
  BY <1>4, HasTargets DEF Closed
<1>6. B \subseteq Target
  BY <1>1, <1>2, NoSuffix DEF GroupNames
<1>7. ASSUME NEW m \in Node PROVE Pass1(m) \in B <=> m \in B
  <2>1. Pass1(m) \in GroupNames(node) <=> m \in GroupNames(node)
    BY <1>1, NodeNames, NoSuffix DEF GroupNames
  <2> QED
    BY <1>2, <2>1 DEF Shut
<1> QED
  BY <1>5, <1>6, <1>7 DEF Shut, B

(* The "after" dependencies of a node do not lead to its group.            *)
LEMMA GroupIsApart ==
  ASSUME NEW node, GroupStep(node), Complete(dep), FilesTo(dep, Node),
         DOMAIN dep \subseteq Node \cup {Root}, Group(node) \notin DOMAIN dep,
         IsFiniteSet(DOMAIN dep), Light(dep), NEW s, Has(dep[node], "a", s)
  PROVE  Apart(dep', s, Group(node))
<1> DEFINE R == Reachable(dep, s, 3)
           A == R \cup {Pass1(m) : m \in R}
<1>1. /\ node \in DOMAIN dep /\ node \in Package /\ Group(node) \in Node
      /\ dep[node] \in Seq(Line(Node)) /\ dep[node] \in Seq(Line(DOMAIN dep))
      /\ \A n \in DOMAIN dep : Targets(dep[n]) \subseteq DOMAIN dep \cap Node
  <2>1. ASSUME NEW n \in DOMAIN dep PROVE Targets(dep[n]) \subseteq DOMAIN dep \cap Node
    <3>1. dep[n] \in Seq(Line(Node)) /\ dep[n] \in Seq(Line(DOMAIN dep))
      BY DEF FilesTo, Complete
    <3>2. \A i \in 1 .. Len(dep[n]) : dep[n][i].id \in DOMAIN dep \cap Node
      BY <3>1, LineOf
    <3> QED
      BY <3>2 DEF Targets
  <2> QED
    BY <2>1, NoSuffix DEF GroupStep, FilesTo, Complete
<1>2. s \in DOMAIN dep \cap Node
  BY <1>1, HasType
<1>3. s \in R /\ Closed(dep, R)
  BY LightPath
<1>4. R \subseteq DOMAIN dep \cap Node
  <2>1. Closed(dep, DOMAIN dep \cap Node)
    BY <1>1 DEF Closed
  <2> QED
    BY <1>2, <2>1, PathInside DEF HasPath
<1>5. \A n \in FreeParents(node) : n \notin R
  <2>1. s \in Targets(Qualified(dep[node], "a"))
    BY <1>1, HasQualified
  <2> QED
    BY <2>1 DEF FreeParents, HasPath
<1> HIDE DEF R
<1>6. ASSUME NEW n \in A \cap DOMAIN dep', NEW q, NEW id, Has(dep'[n], q, id)
      PROVE  id \in A
  <2>1. n \in R
    <3>1. \A m \in R : Pass1(m) \notin DOMAIN dep /\ Pass1(m) # Group(node)
      BY <1>4, NoSuffix, Suffixes
    <3> QED
      BY <1>6, <3>1 DEF GroupStep
  <2>2. n \in DOMAIN dep /\ n # Root /\ n \notin FreeParents(node)
    BY <1>4, <1>5, <2>1, NoSuffix
  <2>3. HasAfterwards(node, n, q, id)
    BY <1>6, <2>2 DEF GroupStep
  <2>4. Has(dep[n], q, id)
    BY <2>2, <2>3 DEF HasAfterwards
  <2>5. id \in Targets(dep[n])
    BY <2>4, HasTargets
  <2> QED
    BY <1>3, <2>1, <2>2, <2>5 DEF Closed
<1>7. Closed(dep', A)
  <2> HIDE DEF A
  <2> QED
    BY <1>6, HasTargets DEF Closed
<1>8. A \subseteq Target /\ Group(node) \notin A /\ \A m \in Node : Pass1(m) \in A <=> m \in A
  BY <1>1, <1>4, NoSuffix, Suffixes
<1> QED
  BY <1>3, <1>7, <1>8 DEF Apart, Shut

LEMMA FirstKeepsShut ==
  ASSUME NEW node, FirstStep(node), dep[node] \in Seq(Line(Node)), NEW A, Shut(dep, A)
  PROVE  Shut(dep', A)
<1>1. PICK M : \E files :
        /\ \A m : m \in M <=> Has(dep[node], "f", m)
        /\ M \subseteq DOMAIN dep \cap Node /\ node \in DOMAIN dep
        /\ PassStep(files, node, M)
        /\ dep' = [files EXCEPT ![node] = ToPass1(dep[node], M)]
  BY DEF FirstStep
<1>2. PICK files :
        /\ \A m : m \in M <=> Has(dep[node], "f", m)
        /\ M \subseteq DOMAIN dep \cap Node /\ node \in DOMAIN dep
        /\ PassStep(files, node, M)
        /\ dep' = [files EXCEPT ![node] = ToPass1(dep[node], M)]
  BY <1>1
<1> DEFINE new == ToPass1(dep[node], M)
<1>3. Shut(files, A)
  BY <1>2, PassKeepsShut
<1>4. ASSUME node \in A, NEW q, NEW id, Has(new, q, id)
      PROVE  id \in A
  <2>1. Targets(dep[node]) \subseteq A
    BY <1>2, <1>4 DEF Shut, Closed
  <2>2. \/ Has(dep[node], q, id)
        \/ \E m \in M : id = Pass1(m) /\ (Has(dep[node], q, m) \/ Has(dep[node], "f", m))
    BY <1>4, HasToPass1
  <2>3. \A m \in M : m \in Targets(dep[node]) => Pass1(m) \in A
    BY <1>2, <2>1 DEF Shut
  <2> QED
    BY <2>1, <2>2, <2>3, HasTargets
<1> HIDE DEF new
<1>5. DOMAIN dep' = DOMAIN files
      /\ \A n \in DOMAIN files : dep'[n] = IF n = node THEN new ELSE files[n]
  BY <1>2 DEF new
<1>6. Closed(dep', A)
  BY <1>3, <1>4, <1>5, HasTargets DEF Closed, Shut
<1> QED
  BY <1>3, <1>6 DEF Shut

-------------------------------------------------------------------------------
(***************************************************************************)
(* Where the lines come from: the invariant, and that the loops keep it.   *)
(***************************************************************************)

(* The files are those of the packages of the graph, their groups and the  *)
(* first passes; no group is made twice, and only packages want something  *)
(* first.                                                                  *)
DomInv ==
  /\ Extracted(graph, Package, Root)
  /\ InGraph \subseteq DOMAIN dep
  /\ DOMAIN dep \subseteq {Root} \cup UNION {Names(x) : x \in InGraph}
  /\ loop = "after" => \A x \in todo : Group(x) \notin DOMAIN dep
  /\ loop = "first" => todo \subseteq Package
  /\ \A q, id : Has(dep[Root], q, id) => q = "b"

(* The line of n, a name of x, to id comes from a line of x in the graph   *)
(* or leads to another name of x, and "after" lines only get into groups.  *)
FromGraph(x, n, q, id) ==
  \E y \in Package :
    /\ id \in Names(y) /\ (y = x \/ \E r : Has(graph[x], r, y))
    /\ q = "a" => n = x /\ Has(graph[x], "a", y)
    /\ q = "f" /\ n = x => Has(graph[x], "f", y)
    /\ \/ q = "a" \/ y = x \/ Has(graph[x], "b", y) \/ Has(graph[x], "f", y)
       \/ n \in GroupNames(x)

EdgeInv ==
  \A x \in Package : \A n \in Names(x) \cap DOMAIN dep : \A q, id :
    Has(dep[n], q, id) => FromGraph(x, n, q, id)

(* What a group adds to its node does not lead back to the group.          *)
GroupInv ==
  \A x \in Package : \A n \in GroupNames(x) \cap DOMAIN dep : \A q, id :
    Has(dep[n], q, id) =>
      q = "b" /\ (~ External(graph) => id = x \/ Apart(dep, id, Group(x)))

LightInv == ~ External(graph) => Light(dep)

QInv == DomInv /\ EdgeInv /\ GroupInv /\ LightInv

-------------------------------------------------------------------------------
LEMMA FiniteDomain ==
  ASSUME DomInv
  PROVE  IsFiniteSet(DOMAIN dep)
<1>1. IsFiniteSet(InGraph)
  BY FS_Subset DEF DomInv, Extracted, InGraph
<1> DEFINE T == {Names(x) : x \in InGraph}
           f == [x \in InGraph |-> Names(x)]
<1>2. f \in Surjection(InGraph, T)
  BY DEF Surjection
<1>3. IsFiniteSet(T)
  BY <1>1, <1>2, FS_Surjection
<1>4. ASSUME NEW x \in InGraph PROVE IsFiniteSet(Names(x))
  <2> DEFINE S == {x} U == {x, Group(x)} V == {x, Group(x), Pass1(x)}
  <2>0. IsFiniteSet(S) /\ U = S \cup {Group(x)}
    BY FS_Singleton
  <2> HIDE DEF S
  <2>1. IsFiniteSet(U)
    BY <2>0, FS_AddElement
  <2>2. V = U \cup {Pass1(x)} /\ Names(x) = V \cup {Pass1(Group(x))}
    BY DEF Names
  <2> HIDE DEF U, V
  <2>3. IsFiniteSet(V)
    BY <2>1, <2>2, FS_AddElement
  <2> QED
    BY <2>2, <2>3, FS_AddElement
<1>5. IsFiniteSet(UNION T)
  BY <1>3, <1>4, FS_UNION
<1> DEFINE W == UNION T
<1> HIDE DEF W
<1>6. IsFiniteSet(W \cup {Root})
  BY <1>5, FS_AddElement DEF W
<1>7. DOMAIN dep \subseteq W \cup {Root}
  BY DEF DomInv, W
<1> QED
  BY <1>6, <1>7, FS_Subset

LEMMA InitQ == Init => QInv
<1> SUFFICES ASSUME Init PROVE QInv
  OBVIOUS
<1>1. /\ graph \in Graph /\ dep = graph /\ loop = "dangling" /\ todo = DOMAIN graph \ {Root}
  BY DEF Init
<1>2. Extracted(graph, Package, Root)
  BY <1>1, GraphAssumption
<1>3. /\ Root \in DOMAIN graph /\ DOMAIN graph \subseteq Package \cup {Root}
      /\ \A n \in DOMAIN graph : graph[n] \in Seq(Line(Package))
      /\ \A i \in 1 .. Len(graph[Root]) : graph[Root][i].qual = "b"
      /\ InGraph \subseteq Package
  <2>1. (Package \cup {Root}) \ {Root} = Package
    BY CleanAssumption
  <2> QED
    BY <1>2, <2>1 DEF Extracted, GraphOn, InGraph
<1>4. DomInv
  <2>1. DOMAIN dep \subseteq {Root} \cup UNION {Names(x) : x \in InGraph}
    BY <1>1 DEF InGraph, Names
  <2>2. \A q, id : Has(dep[Root], q, id) => q = "b"
    BY <1>1, <1>3 DEF Has
  <2> QED
    BY <1>1, <1>2, <2>1, <2>2 DEF DomInv, InGraph
<1>5. ASSUME NEW x \in Package, NEW n \in Names(x) \cap DOMAIN dep
      PROVE  n = x
  BY <1>1, <1>3, NoSuffix, NamesOnce, NameIsTarget DEF Names
<1>6. EdgeInv
  <2> SUFFICES ASSUME NEW x \in Package, NEW n \in Names(x) \cap DOMAIN dep,
                      NEW q, NEW id, Has(dep[n], q, id)
               PROVE  FromGraph(x, n, q, id)
    BY DEF EdgeInv
  <2>1. n = x /\ Has(graph[x], q, id)
    BY <1>1, <1>5
  <2>2. q \in Qualifier /\ id \in Package
    BY <1>1, <1>3, HasType
  <2>3. id \in Names(id)
    BY DEF Names
  <2> QED
    BY <2>1, <2>2, <2>3 DEF FromGraph, Qualifier
<1>7. GroupInv
  <2>1. ASSUME NEW x \in Package, NEW n \in GroupNames(x) \cap DOMAIN dep PROVE FALSE
    <3>1. n = x
      BY <1>5 DEF Names, GroupNames
    <3> QED
      BY <3>1, NodeNames
  <2> QED
    BY <2>1 DEF GroupInv
<1>8. LightInv
  <2>1. ASSUME NEW n \in DOMAIN graph, NEW i \in 1 .. Len(graph[n]), ~ External(graph)
        PROVE  graph[n][i].prio <= 3
    <3>1. graph[n][i].prio \in Weight
      BY <1>3, LineOf
    <3> QED
      BY <2>1, <3>1 DEF External, Weight
  <2> QED
    BY <1>1, <2>1 DEF LightInv, Light, LightFile
<1> QED
  BY <1>4, <1>6, <1>7, <1>8 DEF QInv

LEMMA DanglingQ ==
  ASSUME IInv, TypeInv, QInv, NEW node \in todo, RemoveDangling(node)
  PROVE  QInv'
<1> DEFINE ids == {id \in Targets(dep[node]) : id \notin DOMAIN dep}
           file == Without(dep[node], ids)
<1>1. /\ loop = "dangling" /\ loop' = "dangling" /\ graph' = graph
      /\ dep' = [dep EXCEPT ![node] = file] /\ node \in DOMAIN dep
  BY DEF RemoveDangling, IInv
<1>2. /\ FilesTo(dep, Package) /\ Root \in DOMAIN dep
      /\ DOMAIN dep \subseteq Package \cup {Root}
  BY <1>1 DEF TypeInv
<1>3. dep[node] \in Seq(Line(Package))
  BY <1>1, <1>2 DEF FilesTo
<1> HIDE DEF ids
<1>4. ASSUME NEW q, NEW id, Has(file, q, id) PROVE Has(dep[node], q, id)
  BY <1>3, <1>4, HasWithout
<1>5. LightFile(dep[node]) => LightFile(file)
  BY <1>3, LightWithout
<1> HIDE DEF file
<1>6. /\ DOMAIN dep' = DOMAIN dep
      /\ \A n \in DOMAIN dep : \A q, id : Has(dep'[n], q, id) => Has(dep[n], q, id)
  BY <1>1, <1>4
<1>7. DomInv'
  BY <1>1, <1>2, <1>6 DEF QInv, DomInv, InGraph
<1>8. EdgeInv'
  <2>1. EdgeInv
    BY DEF QInv
  <2>2. ASSUME NEW x \in Package, NEW n \in Names(x) \cap DOMAIN dep, NEW q, NEW id,
               Has(dep'[n], q, id)
        PROVE  FromGraph(x, n, q, id)'
    <3>1. FromGraph(x, n, q, id)
      BY <1>6, <2>1, <2>2 DEF EdgeInv
    <3> QED
      BY <1>1, <3>1 DEF FromGraph
  <2> QED
    BY <1>6, <2>2 DEF EdgeInv
<1>9. GroupInv'
  <2>1. ASSUME NEW x \in Package, NEW n \in GroupNames(x) \cap DOMAIN dep PROVE FALSE
    BY <1>2, NodeNames, NameIsTarget, NoSuffix DEF GroupNames, Names
  <2> QED
    BY <1>6, <2>1 DEF GroupInv
<1>10. LightInv'
  BY <1>1, <1>5, <1>6 DEF QInv, LightInv, Light
<1> QED
  BY <1>7, <1>8, <1>9, <1>10 DEF QInv

LEMMA GroupQ ==
  ASSUME IInv, TypeInv, QInv, NEW node \in todo, GroupAfter(node)
  PROVE  QInv'
<1>1. /\ loop = "after" /\ loop' = "after" /\ graph' = graph /\ todo' = todo \ {node}
  BY DEF GroupAfter
<1>2. /\ Group(node) \notin DOMAIN dep /\ Root \in DOMAIN dep
      /\ DOMAIN dep \subseteq Node \cup {Root}
      /\ FilesTo(dep, Node) /\ Complete(dep) /\ IsFiniteSet(DOMAIN dep)
      /\ todo \subseteq Package
  BY <1>1 DEF QInv, DomInv, TypeInv, IInv, AfterInv
<1>3. GroupStep(node)
  BY <1>2, GroupSteps
<1>4. /\ node \in DOMAIN dep /\ node \in Package /\ node \in InGraph
      /\ dep[node] \in Seq(Line(Node)) /\ Group(node) # Root /\ node # Root
  <2>1. node \in DOMAIN dep /\ node \in Package
    BY <1>3 DEF GroupStep
  <2>2. PICK x \in InGraph : node \in Names(x)
    BY <2>1, NoSuffix DEF QInv, DomInv
  <2>3. InGraph \subseteq Package
    BY CleanAssumption DEF QInv, DomInv, Extracted, GraphOn, InGraph
  <2>4. x = node
    BY <2>1, <2>2, <2>3, NamesOnce DEF Names
  <2> QED
    BY <1>2, <2>1, <2>2, <2>4, NoSuffix DEF FilesTo
(* Where a line comes from.                                                *)
<1>5. ASSUME NEW n \in DOMAIN dep, NEW q, NEW id, Has(dep'[n], q, id)
      PROVE  \/ Has(dep[n], q, id)
             \/ id = Group(node) /\ Has(dep[n], q, node)
             \/ n = Root /\ q = "b"
  <2>1. HasAfterwards(node, n, q, id)
    BY <1>3, <1>5 DEF GroupStep
  <2> QED
    BY <2>1 DEF HasAfterwards
<1>6. ASSUME NEW q, NEW id, Has(dep'[Group(node)], q, id)
      PROVE  q = "b" /\ (id = node \/ Has(dep[node], "a", id))
  <2>1. node \in Node /\ dep[node] \in Seq(Line(Node)) /\ Has(GroupFile(node), q, id)
    BY <1>3, <1>4, <1>6, NoSuffix DEF GroupStep
  <2> QED
    BY <2>1, GroupHas
<1>7. DOMAIN dep' = DOMAIN dep \cup {Group(node)}
  BY <1>3 DEF GroupStep
<1>8. DomInv'
  <2>1. DomInv
    BY DEF QInv
  <2>2. DOMAIN dep' \subseteq {Root} \cup UNION {Names(x) : x \in InGraph}
    BY <1>4, <1>7, <2>1 DEF DomInv, Names
  <2>3. \A x \in todo' : Group(x) \notin DOMAIN dep'
    BY <1>1, <1>7, <2>1, Suffixes DEF DomInv
  <2>4. \A q, id : Has(dep'[Root], q, id) => q = "b"
    BY <1>2, <1>5, <2>1 DEF DomInv
  <2> QED
    BY <1>1, <1>7, <2>1, <2>2, <2>3, <2>4 DEF DomInv, InGraph
<1>9. EdgeInv'
  <2>1. EdgeInv
    BY DEF QInv
  <2>2. ASSUME NEW x \in Package, NEW n \in Names(x) \cap DOMAIN dep', NEW q, NEW id,
               Has(dep'[n], q, id)
        PROVE  FromGraph(x, n, q, id)
    <3>1. CASE n = Group(node)
      <4>1. x = node /\ n \in GroupNames(x) /\ n # x
        BY <1>4, <3>1, NodeNames, NoSuffix DEF GroupNames
      <4>2. q = "b" /\ (id = node \/ Has(dep[node], "a", id))
        BY <1>6, <2>2, <3>1
      <4>3. CASE id = node
        BY <4>1, <4>2, <4>3 DEF FromGraph, Names
      <4>4. CASE Has(dep[node], "a", id)
        <5>1. FromGraph(node, node, "a", id)
          BY <1>4, <2>1, <4>4 DEF EdgeInv, Names
        <5> QED
          BY <4>1, <4>2, <5>1 DEF FromGraph
      <4> QED
        BY <4>2, <4>3, <4>4
    <3>2. CASE n # Group(node)
      <4>1. n \in DOMAIN dep /\ n # Root
        BY <1>7, <3>2, NameIsTarget, NoSuffix
      <4>2. CASE Has(dep[n], q, id)
        BY <2>1, <4>1, <4>2 DEF EdgeInv
      <4>3. CASE id = Group(node) /\ Has(dep[n], q, node)
        <5>1. FromGraph(x, n, q, node)
          BY <2>1, <4>1, <4>3 DEF EdgeInv
        <5>2. \A y \in Package : node \in Names(y) => id \in Names(y)
          <6>1. node \in Names(node) /\ Group(node) \in Names(node)
            BY DEF Names
          <6> QED
            BY <1>4, <4>3, <6>1, NamesOnce
        <5> QED
          BY <5>1, <5>2 DEF FromGraph
      <4> QED
        BY <1>5, <2>2, <4>1, <4>2, <4>3
    <3> QED
      BY <3>1, <3>2
  <2>3. ASSUME NEW x \in Package, NEW n \in Names(x) \cap DOMAIN dep', NEW q, NEW id,
               Has(dep'[n], q, id)
        PROVE  FromGraph(x, n, q, id)'
    <3>1. FromGraph(x, n, q, id)
      BY <2>2, <2>3
    <3> QED
      BY <1>1, <3>1 DEF FromGraph
  <2> QED
    BY <2>3 DEF EdgeInv
<1>10. LightInv'
  BY <1>1, <1>3 DEF QInv, LightInv, GroupStep
<1>11. GroupInv'
  <2>1. GroupInv
    BY DEF QInv
  <2> SUFFICES ASSUME NEW x \in Package, NEW n \in GroupNames(x) \cap DOMAIN dep',
                      NEW q, NEW id, Has(dep'[n], q, id)
               PROVE  q = "b" /\ (~ External(graph) => id = x \/ Apart(dep', id, Group(x)))
    BY <1>1 DEF GroupInv, Apart, Shut, Closed
  <2>2. CASE n = Group(node)
    <3>1. x = node
      BY <1>4, <2>2, NodeNames DEF GroupNames, Names
    <3>2. q = "b" /\ (id = node \/ Has(dep[node], "a", id))
      BY <1>6, <2>2
    <3>3. ASSUME ~ External(graph), Has(dep[node], "a", id) PROVE Apart(dep', id, Group(node))
      BY <1>2, <1>3, <3>3, GroupIsApart DEF QInv, LightInv
    <3> QED
      BY <3>1, <3>2, <3>3
  <2>3. CASE n # Group(node)
    <3>1. n \in DOMAIN dep /\ n # Root /\ x # node
      BY <1>2, <1>7, <2>3, NoSuffix DEF GroupNames
    <3>2. CASE Has(dep[n], q, id)
      <4>1. q = "b" /\ (~ External(graph) => id = x \/ Apart(dep, id, Group(x)))
        BY <2>1, <3>1, <3>2 DEF GroupInv
      <4>2. ASSUME Apart(dep, id, Group(x)) PROVE Apart(dep', id, Group(x))
        <5>1. PICK A : Shut(dep, A) /\ id \in A /\ Group(x) \notin A
          BY <4>2 DEF Apart
        <5>2. Shut(dep', WithGroup(A, node))
          BY <1>2, <1>3, <5>1, GroupKeepsShut
        <5>3. Group(x) \notin GroupNames(node)
          BY <1>4, <3>1, NodeNames DEF GroupNames, Names
        <5>4. id \notin GroupNames(node)
          <6>1. dep[n] \in Seq(Line(DOMAIN dep))
            BY <1>2, <3>1 DEF Complete
          <6>2. id \in DOMAIN dep
            BY <3>2, <6>1, HasType
          <6> QED
            BY <1>2, <1>4, <6>2, NoSuffix DEF GroupNames
        <5> QED
          BY <5>1, <5>2, <5>3, <5>4 DEF Apart, WithGroup
      <4> QED
        BY <4>1, <4>2
    <3>3. CASE id = Group(node) /\ Has(dep[n], q, node)
      <4>1. q = "b" /\ (~ External(graph) => node = x \/ Apart(dep, node, Group(x)))
        BY <2>1, <3>1, <3>3 DEF GroupInv
      <4>2. ASSUME Apart(dep, node, Group(x)) PROVE Apart(dep', id, Group(x))
        <5>1. PICK A : Shut(dep, A) /\ node \in A /\ Group(x) \notin A
          BY <4>2 DEF Apart
        <5>2. Shut(dep', WithGroup(A, node))
          BY <1>2, <1>3, <5>1, GroupKeepsShut
        <5>3. Group(x) \notin GroupNames(node)
          BY <1>4, <3>1, NodeNames DEF GroupNames, Names
        <5>4. id \in WithGroup(A, node)
          BY <3>3, <5>1 DEF WithGroup, GroupNames
        <5> QED
          BY <5>1, <5>2, <5>3, <5>4 DEF Apart, WithGroup
      <4> QED
        BY <3>1, <4>1, <4>2
    <3> QED
      BY <1>5, <3>1, <3>2, <3>3
  <2> QED
    BY <2>2, <2>3
<1> QED
  BY <1>8, <1>9, <1>10, <1>11 DEF QInv

LEMMA StartAfterQ ==
  ASSUME IInv, TypeInv, QInv, StartAfter
  PROVE  QInv'
<1>1. /\ loop = "dangling" /\ loop' = "after" /\ graph' = graph /\ dep' = dep
  BY DEF StartAfter
<1>2. DOMAIN dep \subseteq Package \cup {Root} /\ Root \notin Target
  BY <1>1, NoSuffix DEF TypeInv
<1>3. TypeInv' /\ todo' \subseteq Package
  BY <1>1, StartAfterTypes DEF TypeInv
<1>4. \A x \in todo' : Group(x) \notin DOMAIN dep
  BY <1>2, <1>3, NoSuffix
<1>5. DomInv'
  BY <1>1, <1>4 DEF QInv, DomInv, InGraph
<1> QED
  BY <1>1, <1>5 DEF QInv, EdgeInv, GroupInv, LightInv, FromGraph, Apart, Shut, Closed, Light

(* Neither root nor a group has "first" lines.                             *)
LEMMA StartFirstQ ==
  ASSUME IInv, TypeInv, QInv, StartFirst
  PROVE  QInv'
<1>1. /\ loop = "after" /\ loop' = "first" /\ graph' = graph /\ dep' = dep
      /\ todo' = HaveQualifier("f")
  BY DEF StartFirst
<1>2. DOMAIN dep \subseteq Node \cup {Root} /\ FilesTo(dep, Node)
  BY <1>1 DEF TypeInv
<1>3. ASSUME NEW n \in todo' PROVE n \in Package
  <2>1. n \in DOMAIN dep /\ Qualified(dep[n], "f") # <<>>
    BY <1>1 DEF HaveQualifier
  <2>2. dep[n] \in Seq(Line(Node))
    BY <1>2, <2>1 DEF FilesTo
  <2>3. \E id : Has(dep[n], "f", id)
    <3> DEFINE kept == Qualified(dep[n], "f")
    <3>1. kept \in Seq(Line(Node)) /\ kept # <<>>
      BY <2>1, <2>2, QualifiedFile
    <3> HIDE DEF kept
    <3>2. 1 \in 1 .. Len(kept)
      BY <3>1
    <3>3. kept[1].id \in Targets(kept)
      BY <3>2 DEF Targets
    <3> QED
      BY <2>2, <3>3, HasQualified DEF kept
  <2>4. n # Root
    BY <2>3 DEF QInv, DomInv
  <2>5. ASSUME NEW x \in Package, n = Group(x) PROVE FALSE
    BY <2>1, <2>3, <2>5 DEF QInv, GroupInv, GroupNames
  <2> QED
    BY <1>2, <2>1, <2>4, <2>5, NoSuffix
<1>4. DomInv'
  BY <1>1, <1>3 DEF QInv, DomInv, InGraph
<1> QED
  BY <1>1, <1>4 DEF QInv, EdgeInv, GroupInv, LightInv, FromGraph, Apart, Shut, Closed, Light

(* Where the lines come from after a turn of the third loop.               *)
FirstLines(node) ==
  \A n \in DOMAIN dep' : \A q, id : Has(dep'[n], q, id) =>
    \/ n \in DOMAIN dep /\ Has(dep[n], q, id)
    \/ \E m \in DOMAIN dep \cap Node :
         n = Pass1(m) /\ n \notin DOMAIN dep /\ Has(dep[m], q, id)
    \/ /\ n = node /\ q # "f"
       /\ \E m \in Node : id = Pass1(m) /\ \E r : Has(dep[node], r, m)

LEMMA LinesAfterFirst ==
  ASSUME NEW node, FirstStep(node), dep[node] \in Seq(Line(Node))
  PROVE  /\ FirstLines(node)
         /\ DOMAIN dep \subseteq DOMAIN dep'
         /\ \A n \in DOMAIN dep' : n \in DOMAIN dep \/ \E m \in DOMAIN dep \cap Node : n = Pass1(m)
<1>1. PICK M : \E files :
        /\ \A m : m \in M <=> Has(dep[node], "f", m)
        /\ M \subseteq DOMAIN dep \cap Node /\ node \in DOMAIN dep
        /\ PassStep(files, node, M)
        /\ dep' = [files EXCEPT ![node] = ToPass1(dep[node], M)]
  BY DEF FirstStep
<1>2. PICK files :
        /\ \A m : m \in M <=> Has(dep[node], "f", m)
        /\ M \subseteq DOMAIN dep \cap Node /\ node \in DOMAIN dep
        /\ PassStep(files, node, M)
        /\ dep' = [files EXCEPT ![node] = ToPass1(dep[node], M)]
  BY <1>1
<1> DEFINE new == ToPass1(dep[node], M)
<1>3. DOMAIN dep' = DOMAIN files /\ DOMAIN files = DOMAIN dep \cup {Pass1(m) : m \in M}
      /\ \A n \in DOMAIN files : dep'[n] = IF n = node THEN new ELSE files[n]
  BY <1>2 DEF PassStep
<1>4. ASSUME NEW q, NEW id, Has(new, q, id)
      PROVE  \/ Has(dep[node], q, id)
             \/ /\ q # "f"
                /\ \E m \in Node : id = Pass1(m) /\ \E r : Has(dep[node], r, m)
  <2>1. \/ Has(dep[node], q, id)
        \/ \E m \in M :
             /\ id = Pass1(m)
             /\ \/ q # "f" /\ Has(dep[node], q, m)
                \/ q = "b" /\ Has(dep[node], "f", m)
    BY <1>4, HasToPass1
  <2> QED
    BY <1>2, <2>1
<1> HIDE DEF new
<1>5. ASSUME NEW n \in DOMAIN dep', NEW q, NEW id, Has(dep'[n], q, id)
      PROVE  \/ n \in DOMAIN dep /\ Has(dep[n], q, id)
             \/ \E m \in DOMAIN dep \cap Node :
                  n = Pass1(m) /\ n \notin DOMAIN dep /\ Has(dep[m], q, id)
             \/ /\ n = node /\ q # "f"
                /\ \E m \in Node : id = Pass1(m) /\ \E r : Has(dep[node], r, m)
  <2>1. CASE n = node
    BY <1>2, <1>3, <1>4, <1>5, <2>1
  <2>2. CASE n # node /\ \E m \in M : n = Pass1(m)
    <3>1. PICK m \in M : n = Pass1(m)
      BY <2>2
    <3>2. Has(files[n], q, id) /\ LinesOf(files[n]) \subseteq LinesOf(Original(m))
      BY <1>2, <1>3, <1>5, <2>2, <3>1 DEF PassStep
    <3>3. Has(Original(m), q, id)
      BY <3>2, HasOfLines
    <3> QED
      BY <1>2, <3>1, <3>3 DEF Original
  <2>3. CASE n # node /\ \A m \in M : n # Pass1(m)
    <3>1. n \in DOMAIN dep /\ files[n] = dep[n]
      BY <1>2, <1>3, <2>3 DEF PassStep
    <3> QED
      BY <1>3, <1>5, <2>3, <3>1
  <2> QED
    BY <2>1, <2>2, <2>3
<1> QED
  BY <1>2, <1>3, <1>5 DEF FirstLines

LEMMA FirstKeepsLight ==
  ASSUME NEW node, FirstStep(node), dep[node] \in Seq(Line(Node)), Light(dep)
  PROVE  Light(dep')
<1>1. PICK M : \E files :
        /\ \A m : m \in M <=> Has(dep[node], "f", m)
        /\ M \subseteq DOMAIN dep \cap Node /\ node \in DOMAIN dep
        /\ PassStep(files, node, M)
        /\ dep' = [files EXCEPT ![node] = ToPass1(dep[node], M)]
  BY DEF FirstStep
<1>2. PICK files :
        /\ \A m : m \in M <=> Has(dep[node], "f", m)
        /\ M \subseteq DOMAIN dep \cap Node /\ node \in DOMAIN dep
        /\ PassStep(files, node, M)
        /\ dep' = [files EXCEPT ![node] = ToPass1(dep[node], M)]
  BY <1>1
<1>3. \A file : LightFile(file) <=> \A l \in LinesOf(file) : l.prio <= 3
  BY DEF LightFile, LinesOf
<1>4. ASSUME NEW m \in M PROVE LightFile(files[Pass1(m)])
  <2>1. LightFile(Original(m))
    BY <1>2 DEF Light, Original
  <2> QED
    BY <1>2, <1>3, <2>1 DEF PassStep
<1>5. LightFile(ToPass1(dep[node], M))
  BY <1>2, LightToPass1 DEF Light
<1>6. \A n \in DOMAIN files : LightFile(files[n])
  BY <1>2, <1>4 DEF PassStep, Light
<1> QED
  BY <1>2, <1>5, <1>6 DEF Light

LEMMA FirstQ ==
  ASSUME IInv, TypeInv, QInv, NEW node \in todo, FirstPass(node)
  PROVE  QInv'
<1>1. /\ loop = "first" /\ loop' = "first" /\ graph' = graph /\ todo' = todo \ {node}
  BY DEF FirstPass
<1>2. /\ node \in Package /\ node \in Node /\ node \in DOMAIN dep /\ Root \in DOMAIN dep
      /\ dep[node] \in Seq(Line(Node)) /\ IsFiniteSet(DOMAIN dep) /\ todo \subseteq Package
      /\ DOMAIN dep \subseteq File
  BY <1>1, NoSuffix, FiniteDomain DEF QInv, DomInv, TypeInv, IInv
<1>3. FirstStep(node)
  BY <1>2, FirstSteps
<1>4. /\ FirstLines(node) /\ DOMAIN dep \subseteq DOMAIN dep'
      /\ \A n \in DOMAIN dep' : n \in DOMAIN dep \/ \E m \in DOMAIN dep \cap Node : n = Pass1(m)
  BY <1>2, <1>3, LinesAfterFirst
<1>5. \A n \in DOMAIN dep : \A q, id : Has(dep[n], q, id) => q # "a"
  BY <1>1 DEF IInv, CleanInv, NoAfter, Has
<1>6. InGraph \subseteq Package
  BY CleanAssumption DEF QInv, DomInv, Extracted, GraphOn, InGraph
<1>7. DomInv'
  <2>1. DomInv
    BY DEF QInv
  <2>2. ASSUME NEW n \in DOMAIN dep' PROVE n \in {Root} \cup UNION {Names(x) : x \in InGraph}
    <3>1. CASE n \in DOMAIN dep
      BY <2>1, <3>1 DEF DomInv
    <3>2. CASE n \notin DOMAIN dep
      <4>1. PICK m \in DOMAIN dep \cap Node : n = Pass1(m)
        BY <1>4, <3>2
      <4>2. PICK x \in InGraph : m \in Names(x)
        BY <2>1, <4>1, NoSuffix DEF DomInv
      <4>3. n \in Names(x)
        BY <1>6, <4>1, <4>2, NodeNames
      <4> QED
        BY <4>3
    <3> QED
      BY <3>1, <3>2
  <2>3. ASSUME NEW q, NEW id, Has(dep'[Root], q, id) PROVE q = "b"
    <3>1. Root # node /\ \A m \in Node : Root # Pass1(m)
      BY <1>2, NoSuffix
    <3>2. Has(dep[Root], q, id)
      BY <1>2, <1>4, <2>3, <3>1 DEF FirstLines
    <3> QED
      BY <2>1, <3>2 DEF DomInv
  <2> QED
    BY <1>1, <1>2, <1>4, <2>1, <2>2, <2>3 DEF DomInv, InGraph
<1>8. EdgeInv'
  <2>1. EdgeInv
    BY DEF QInv
  <2>2. ASSUME NEW x \in Package, NEW n \in Names(x) \cap DOMAIN dep', NEW q, NEW id,
               Has(dep'[n], q, id)
        PROVE  FromGraph(x, n, q, id)
    <3>1. CASE n \in DOMAIN dep /\ Has(dep[n], q, id)
      BY <2>1, <2>2, <3>1 DEF EdgeInv
    <3>2. CASE \E m \in DOMAIN dep \cap Node :
                 n = Pass1(m) /\ n \notin DOMAIN dep /\ Has(dep[m], q, id)
      <4>1. PICK m \in DOMAIN dep \cap Node : n = Pass1(m) /\ Has(dep[m], q, id)
        BY <3>2
      <4>2. m \in Names(x) /\ n # x /\ q # "a"
        BY <1>5, <2>2, <4>1, NodeNames, NoSuffix
      <4>3. FromGraph(x, m, q, id)
        BY <2>1, <4>1, <4>2 DEF EdgeInv
      <4>4. m \in GroupNames(x) => n \in GroupNames(x)
        BY <4>1, NoSuffix DEF GroupNames
      <4> QED
        BY <4>2, <4>3, <4>4 DEF FromGraph
    <3>3. CASE /\ n = node /\ q # "f"
               /\ \E m \in Node : id = Pass1(m) /\ \E r : Has(dep[node], r, m)
      <4>1. PICK m \in Node : id = Pass1(m) /\ \E r : Has(dep[node], r, m)
        BY <3>3
      <4>2. PICK r : Has(dep[node], r, m)
        BY <4>1
      <4>3. FromGraph(x, n, r, m) /\ r # "a"
        BY <1>2, <1>5, <2>1, <2>2, <3>3, <4>2 DEF EdgeInv
      <4>4. q # "a"
        <5>1. node \in DOMAIN dep' /\ IInv'
          BY <1>2, <1>4, FirstKeeps
        <5> QED
          BY <1>1, <2>2, <3>3, <5>1 DEF IInv, CleanInv, NoAfter, Has
      <4>5. \A y \in Package : m \in Names(y) => id \in Names(y)
        BY <4>1, NodeNames
      <4> QED
        BY <3>3, <4>3, <4>4, <4>5 DEF FromGraph
    <3> QED
      BY <1>4, <2>2, <3>1, <3>2, <3>3 DEF FirstLines
  <2>3. ASSUME NEW x \in Package, NEW n \in Names(x) \cap DOMAIN dep', NEW q, NEW id,
               Has(dep'[n], q, id)
        PROVE  FromGraph(x, n, q, id)'
    <3>1. FromGraph(x, n, q, id)
      BY <2>2, <2>3
    <3> QED
      BY <1>1, <3>1 DEF FromGraph
  <2> QED
    BY <2>3 DEF EdgeInv
<1>9. GroupInv'
  <2>1. GroupInv
    BY DEF QInv
  <2> SUFFICES ASSUME NEW x \in Package, NEW n \in GroupNames(x) \cap DOMAIN dep',
                      NEW q, NEW id, Has(dep'[n], q, id)
               PROVE  q = "b" /\ (~ External(graph) => id = x \/ Apart(dep', id, Group(x)))
    BY <1>1 DEF GroupInv, Apart, Shut, Closed
  <2>2. n # node
    BY <1>2, NodeNames
  <2>3. PICK k \in GroupNames(x) \cap DOMAIN dep : Has(dep[k], q, id)
    <3>1. CASE n \in DOMAIN dep /\ Has(dep[n], q, id)
      BY <3>1
    <3>2. CASE \E m \in DOMAIN dep \cap Node : n = Pass1(m) /\ Has(dep[m], q, id)
      <4>1. PICK m \in DOMAIN dep \cap Node : n = Pass1(m) /\ Has(dep[m], q, id)
        BY <3>2
      <4>2. m = Group(x)
        BY <4>1, NodeNames
      <4> QED
        BY <4>1, <4>2 DEF GroupNames
    <3> QED
      BY <1>4, <2>2, <3>1, <3>2 DEF FirstLines
  <2>4. q = "b" /\ (~ External(graph) => id = x \/ Apart(dep, id, Group(x)))
    BY <2>1, <2>3 DEF GroupInv
  <2>5. Apart(dep, id, Group(x)) => Apart(dep', id, Group(x))
    BY <1>2, <1>3, FirstKeepsShut DEF Apart
  <2> QED
    BY <2>4, <2>5
<1>10. LightInv'
  BY <1>1, <1>2, <1>3, FirstKeepsLight DEF QInv, LightInv
<1> QED
  BY <1>7, <1>8, <1>9, <1>10 DEF QInv

LEMMA FilesInductive ==
  ASSUME IInv, TypeInv, QInv, [Next]_vars
  PROVE  IInv' /\ TypeInv' /\ QInv'
<1>1. IInv'
  BY Inductive
<1>2. CASE UNCHANGED vars \/ Finish
  <2>1. /\ dep' = dep /\ graph' = graph /\ todo' = todo
        /\ loop' = loop \/ (loop = "first" /\ loop' = "done")
    BY <1>2 DEF vars, Finish
  <2>2. TypeInv'
    BY <2>1 DEF TypeInv, FilesTo, NoAfter
  <2>3. DomInv'
    BY <2>1 DEF QInv, DomInv, InGraph, Has
  <2>4. EdgeInv'
    <3>1. EdgeInv
      BY DEF QInv
    <3>2. ASSUME NEW x \in Package, NEW n \in Names(x) \cap DOMAIN dep', NEW q, NEW id,
                 Has(dep'[n], q, id)
          PROVE  FromGraph(x, n, q, id)'
      <4>1. FromGraph(x, n, q, id)
        BY <2>1, <3>1, <3>2 DEF EdgeInv
      <4> QED
        BY <2>1, <4>1 DEF FromGraph
    <3> QED
      BY <3>2 DEF EdgeInv
  <2>5. GroupInv'
    <3>1. GroupInv
      BY DEF QInv
    <3>2. ASSUME NEW x \in Package, NEW n \in GroupNames(x) \cap DOMAIN dep',
                 NEW q, NEW id, Has(dep'[n], q, id)
          PROVE  q = "b" /\ (~ External(graph) => id = x \/ Apart(dep, id, Group(x)))
      BY <2>1, <3>1, <3>2 DEF GroupInv
    <3> QED
      BY <2>1, <3>2 DEF GroupInv, Apart, Shut, Closed
  <2>6. LightInv'
    BY <2>1 DEF QInv, LightInv, Light
  <2> QED
    BY <1>1, <2>2, <2>3, <2>4, <2>5, <2>6 DEF QInv
<1> QED
  BY <1>1, <1>2, DanglingTypes, GroupTypes, FirstTypes, StartAfterTypes, StartFirstTypes,
     DanglingQ, GroupQ, FirstQ, StartAfterQ, StartFirstQ DEF Next

-------------------------------------------------------------------------------
(***************************************************************************)
(* No new cycles.                                                          *)
(***************************************************************************)

(* What p leads to, if it only leads back to p when it is a name of a      *)
(* package of T.                                                           *)
LEMMA NotAround ==
  ASSUME IInv, TypeInv, QInv, Done, ~ External(graph),
         NEW p \in InGraph, NEW q \in InGraph, HasPath(dep, p, q, 3), HasPath(dep, q, p, 3)
  PROVE  HasPath(WithoutQualifier(graph, "a"), p, q, 3)
<1> DEFINE before == WithoutQualifier(graph, "a")
           T == Reachable(before, p, 3)
           Ahead == Reachable(dep, p, 3)
           Back(n) == HasPath(dep, n, p, 3)
           S == {n \in Ahead : Back(n) => \E x \in T \cap Package : n \in Names(x)}
<1>1. /\ IsFiniteSet(DOMAIN dep) /\ FilesTo(dep, Target) /\ Light(dep)
      /\ InGraph \subseteq Package /\ DOMAIN graph = InGraph \cup {Root} /\ Root \notin Package
      /\ \A n \in DOMAIN graph : graph[n] \in Seq(Line(Package))
      /\ IsFiniteSet(DOMAIN graph) /\ Complete(dep) /\ DOMAIN dep \subseteq File
  <2>1. (Package \cup {Root}) \ {Root} = Package /\ Root \notin Package
    BY CleanAssumption
  <2> QED
    BY <2>1, FiniteDomain
    DEF Done, QInv, DomInv, LightInv, TypeInv, Extracted, GraphOn, InGraph, IInv, CleanInv
<1>2. /\ \A n, t : HasPath(dep, n, t, 3) <=> \A A : n \in A /\ Closed(dep, A) => t \in A
      /\ p \in Ahead /\ Closed(dep, Ahead)
  BY <1>1, LightPath
(* The graph without its "after" lines.                                    *)
<1>3. ASSUME NEW n \in DOMAIN graph
      PROVE  /\ before[n] \in Seq(Line(Package)) /\ LightFile(before[n])
             /\ \A r, y : Has(before[n], r, y) <=> Has(graph[n], r, y) /\ r # "a"
  <2> DEFINE keep == {i \in DOMAIN graph[n] : graph[n][i].qual # "a"}
             file == Kept(graph[n], keep)
  <2>1. before[n] = file
    BY DEF WithoutQualifier
  <2>2. graph[n] \in Seq(Line(Package))
    BY <1>1
  <2>3. \A i \in 1 .. Len(graph[n]) : graph[n][i].prio <= 3
    <3>1. \A i \in 1 .. Len(graph[n]) : graph[n][i].prio \in Weight
      BY <2>2, LineOf
    <3> QED
      BY <3>1 DEF External, Weight
  <2>4. \A i \in 1 .. Len(graph[n]) : i \in keep <=> graph[n][i].qual # "a"
    OBVIOUS
  <2> HIDE DEF keep
  <2>5. /\ file \in Seq(Line(Package))
        /\ \A k \in 1 .. Len(file) : \E i \in 1 .. Len(graph[n]) : graph[n][i] = file[k]
    BY <2>2, KeptFile
  <2>6. ASSUME NEW r, NEW y PROVE Has(file, r, y) <=> Has(graph[n], r, y) /\ r # "a"
    <3>1. Has(file, r, y) <=>
            \E i \in 1 .. Len(graph[n]) : i \in keep /\ graph[n][i].qual = r /\ graph[n][i].id = y
      BY <2>2, HasKept
    <3> QED
      BY <2>4, <3>1 DEF Has
  <2> HIDE DEF file
  <2>7. LightFile(file)
    BY <2>3, <2>5 DEF LightFile
  <2> QED
    BY <2>1, <2>5, <2>6, <2>7
<1>4. DOMAIN before = DOMAIN graph
  BY DEF WithoutQualifier
<1> HIDE DEF before
<1>5. p \in T /\ Closed(before, T)
  <2>1. FilesTo(before, Package) /\ Light(before) /\ IsFiniteSet(DOMAIN before)
    BY <1>1, <1>3, <1>4 DEF FilesTo, Light
  <2> QED
    BY <2>1, LightPath
<1>6. ASSUME NEW x \in T \cap Package, NEW r, NEW y, Has(graph[x], r, y), r # "a", x \in InGraph
      PROVE  y \in T
  <2>1. Has(before[x], r, y) /\ x \in DOMAIN before
    BY <1>1, <1>3, <1>4, <1>6
  <2> QED
    BY <1>5, <2>1, HasTargets DEF Closed
<1> HIDE DEF T, Ahead
<1>7. ASSUME NEW n \in S \cap DOMAIN dep, NEW id \in Targets(dep[n])
      PROVE  id \in S
  <2>1. id \in Ahead /\ id \in Target
    <3>1. dep[n] \in Seq(Line(Target))
      BY <1>1 DEF FilesTo
    <3> QED
      BY <1>2, <1>7, <3>1, FromLines, LineOf DEF Closed
  <2>2. CASE ~ Back(id)
    BY <2>1, <2>2
  <2>3. CASE Back(id)
    <3>1. Back(n)
      <4>1. ASSUME NEW A, n \in A, Closed(dep, A) PROVE p \in A
        <5>1. id \in A
          BY <1>7, <4>1 DEF Closed
        <5> QED
          BY <1>2, <2>3, <4>1, <5>1
      <4> QED
        BY <1>2, <4>1
    <3>2. PICK x \in T \cap Package : n \in Names(x)
      BY <1>7, <3>1
    <3>3. PICK r : Has(dep[n], r, id)
      BY <1>7, HasTargets
    <3>4. FromGraph(x, n, r, id)
      BY <1>7, <3>2, <3>3 DEF QInv, EdgeInv
    <3>5. PICK y \in Package :
            /\ id \in Names(y)
            /\ \/ r = "a" \/ y = x \/ Has(graph[x], "b", y) \/ Has(graph[x], "f", y)
               \/ n \in GroupNames(x)
      BY <3>4 DEF FromGraph
    <3>6. r # "a"
      BY <1>7, <3>3 DEF Has, IInv, Done, CleanInv, NoAfter
    <3>7. x \in InGraph
      <4>1. PICK z \in InGraph : n \in Names(z)
        BY <1>7, <3>2, NameIsTarget, NoSuffix DEF QInv, DomInv
      <4> QED
        BY <1>1, <3>2, <4>1, NamesOnce
    <3>8. CASE y = x
      BY <2>1, <3>2, <3>5, <3>8
    <3>9. CASE Has(graph[x], "b", y) \/ Has(graph[x], "f", y)
      <4>1. y \in T
        BY <1>6, <3>2, <3>7, <3>9
      <4> QED
        BY <2>1, <3>5, <4>1
    <3>10. CASE n \in GroupNames(x) /\ y # x
      <4>1. id = x \/ Apart(dep, id, Group(x))
        BY <1>7, <3>2, <3>3, <3>10 DEF QInv, GroupInv
      <4>2. id # x
        BY <3>2, <3>5, <3>10, NamesOnce DEF Names
      <4>3. PICK A : Shut(dep, A) /\ id \in A /\ Group(x) \notin A
        BY <4>1, <4>2 DEF Apart
      <4>4. Group(x) \in Node /\ n \notin A
        BY <3>2, <3>10, <4>3, NoSuffix DEF GroupNames, Shut
      <4>5. p \in A
        BY <1>2, <2>3, <4>3 DEF Shut
      <4>6. n \in A
        <5>1. HasPath(dep, p, n, 3)
          BY <1>7 DEF HasPath, Ahead
        <5> QED
          BY <1>2, <4>3, <4>5, <5>1 DEF Shut
      <4> QED
        BY <4>4, <4>6
    <3> QED
      BY <3>2, <3>5, <3>6, <3>8, <3>9, <3>10
  <2> QED
    BY <2>2, <2>3
<1>8. p \in S
  BY <1>1, <1>2, <1>5 DEF Names
<1>9. q \in S
  <2>1. Closed(dep, S)
    <3> HIDE DEF S
    <3> QED
      BY <1>7 DEF Closed
  <2> QED
    BY <1>2, <1>8, <2>1
<1>10. PICK x \in T \cap Package : q \in Names(x)
  BY <1>9
<1>11. q = x
  BY <1>1, <1>10, NamesOnce DEF Names
<1> QED
  BY <1>10, <1>11 DEF HasPath, T, before

(* Packages that depend on each other after clean_subgraph did so before   *)
(* it, without any "after" dependency, unless there are external ones,     *)
(* which path_to is asked not to follow: turning "after" dependencies      *)
(* round closes no cycle, however many groups are made, in any order.      *)
THEOREM NoCycleAdded == Spec => []NoNewCycle
<1>1. Init => IInv /\ TypeInv /\ QInv
  BY InitInv, InitTypes, InitQ
<1>2. IInv /\ TypeInv /\ QInv /\ [Next]_vars => IInv' /\ TypeInv' /\ QInv'
  BY FilesInductive
<1>3. IInv /\ TypeInv /\ QInv => NoNewCycle
  BY NotAround DEF NoNewCycle
<1> QED
  BY <1>1, <1>2, <1>3, PTL DEF Spec

-------------------------------------------------------------------------------
(***************************************************************************)
(* The weights of "first" lines, and the paths of the third loop.          *)
(***************************************************************************)

(* FirstUpTo for one file.                                                 *)
FirstsUpTo(file, w) == \A i \in 1 .. Len(file) : file[i].qual = "f" => file[i].prio <= w

LEMMA FirstsKept ==
  ASSUME NEW N, NEW file \in Seq(Line(N)), NEW w, FirstsUpTo(file, w)
  PROVE  /\ \A ids : FirstsUpTo(Without(file, ids), w)
         /\ \A node : FirstsUpTo(Redirect(file, node), w)
         /\ \A line : line \in Line(N) /\ line.qual # "f" => FirstsUpTo(Append(file, line), w)
         /\ \A ids : FirstsUpTo(ToPass1(file, ids), w)
<1>1. ASSUME NEW ids PROVE FirstsUpTo(Without(file, ids), w)
  <2>1. \A k \in 1 .. Len(Without(file, ids)) : \E i \in 1 .. Len(file) :
          Without(file, ids)[k] = file[i]
    BY WithoutFile
  <2> QED
    BY <2>1 DEF FirstsUpTo
<1>2. ASSUME NEW node PROVE FirstsUpTo(Redirect(file, node), w)
  <2>1. Len(Redirect(file, node)) = Len(file)
    BY DEF Redirect
  <2>2. ASSUME NEW i \in 1 .. Len(file)
        PROVE  /\ Redirect(file, node)[i].prio = file[i].prio
               /\ Redirect(file, node)[i].qual = file[i].qual
    <3>1. Redirect(file, node)[i]
            = IF file[i].id = node THEN [file[i] EXCEPT !.id = Group(node)] ELSE file[i]
      BY DEF Redirect
    <3>2. file[i] \in Line(N)
      OBVIOUS
    <3> QED
      BY <3>1, <3>2 DEF Line
  <2> QED
    BY <2>1, <2>2 DEF FirstsUpTo
<1>3. ASSUME NEW line \in Line(N), line.qual # "f" PROVE FirstsUpTo(Append(file, line), w)
  <2> DEFINE new == Append(file, line)
  <2>1. /\ new \in Seq(Line(N)) /\ Len(file) \in Nat /\ Len(new) = Len(file) + 1
        /\ new[Len(file) + 1] = line
        /\ \A i \in 1 .. Len(file) : new[i] = file[i]
    OBVIOUS
  <2> HIDE DEF new
  <2>2. \A i \in 1 .. Len(new) : i \in 1 .. Len(file) \/ i = Len(file) + 1
    BY <2>1
  <2>3. FirstsUpTo(new, w)
    BY <1>3, <2>1, <2>2 DEF FirstsUpTo
  <2> QED
    BY <2>3 DEF new
<1>4. ASSUME NEW ids PROVE FirstsUpTo(ToPass1(file, ids), w)
  <2>1. Len(ToPass1(file, ids)) = Len(file)
    BY DEF ToPass1
  <2>2. ASSUME NEW i \in 1 .. Len(file)
        PROVE  \/ ToPass1(file, ids)[i].qual # "f"
               \/ /\ file[i].qual = "f"
                  /\ ToPass1(file, ids)[i].prio = file[i].prio
    BY DEF ToPass1
  <2> QED
    BY <2>1, <2>2 DEF FirstsUpTo
<1> QED
  BY <1>1, <1>2, <1>3, <1>4

LEMMA GroupFirsts ==
  ASSUME IInv, TypeInv, NEW node \in todo, GroupAfter(node), NEW w, FirstUpTo(dep, w)
  PROVE  FirstUpTo(dep', w)
<1> DEFINE after == Targets(Qualified(dep[node], "a"))
           free == FreeParents(node)
           parents == Redirected(node, free)
           own == Without(parents[node], after)
           line == ToGroup(node)
<1>1. /\ loop = "after" /\ node \in DOMAIN dep
      /\ dep' = Put([parents EXCEPT ![node] = own], Group(node), GroupFile(node))
  BY DEF GroupAfter, IInv
<1>2. /\ FilesTo(dep, Node) /\ node \in Node /\ Group(node) \in Node
  BY <1>1, NoSuffix DEF TypeInv
<1>3. DOMAIN parents = DOMAIN dep
  BY DEF Redirected
<1>4. line \in Line(Node) /\ line.qual # "f"
  BY <1>2 DEF ToGroup, Line, Weight, Qualifier
<1>5. ASSUME NEW n \in DOMAIN dep
      PROVE  \/ parents[n] = Redirect(dep[n], node)
             \/ parents[n] = Append(dep[n], line)
             \/ parents[n] = dep[n]
  BY <1>5 DEF Redirected, ToGroup
<1>6. ASSUME NEW file PROVE FirstsUpTo(file, w) <=>
        \A i \in 1 .. Len(file) : file[i].qual = "f" => file[i].prio <= w
  BY DEF FirstsUpTo
<1> HIDE DEF after, free, parents, line
<1>7. ASSUME NEW n \in DOMAIN dep
      PROVE  parents[n] \in Seq(Line(Node)) /\ FirstsUpTo(parents[n], w)
  <2>1. dep[n] \in Seq(Line(Node)) /\ FirstsUpTo(dep[n], w)
    BY <1>2, <1>6 DEF FilesTo, FirstUpTo
  <2>2. Redirect(dep[n], node) \in Seq(Line(Node))
    <3>1. Node \cup {Group(node)} = Node
      BY <1>2
    <3> QED
      BY <2>1, <3>1, RedirectFile
  <2>3. Append(dep[n], line) \in Seq(Line(Node))
    BY <1>4, <2>1
  <2>4. FirstsUpTo(Redirect(dep[n], node), w) /\ FirstsUpTo(Append(dep[n], line), w)
    BY <1>4, <2>1, FirstsKept
  <2> QED
    BY <1>5, <2>1, <2>2, <2>3, <2>4
<1>8. FirstsUpTo(own, w)
  BY <1>1, <1>7, FirstsKept
<1> DEFINE file == GroupFile(node)
<1>9. FirstsUpTo(file, w)
  <2>1. dep[node] \in Seq(Line(Node))
    BY <1>1, <1>2 DEF FilesTo
  <2>2. \A q, id : Has(file, q, id) => q = "b"
    BY <1>2, <2>1, GroupHas
  <2> HIDE DEF file
  <2>3. \A i \in 1 .. Len(file) : file[i].qual = "b"
    BY <2>2, HasLine
  <2> QED
    BY <2>3 DEF FirstsUpTo
<1> HIDE DEF own, file
<1>10. \A n \in DOMAIN dep' : FirstsUpTo(dep'[n], w)
  <2>1. /\ DOMAIN dep' = DOMAIN dep \cup {Group(node)}
        /\ \A n \in DOMAIN dep' :
             \/ dep'[n] = file \/ dep'[n] = own
             \/ n \in DOMAIN dep /\ dep'[n] = parents[n]
    BY <1>1, <1>3 DEF Put, file
  <2> QED
    BY <1>7, <1>8, <1>9, <2>1
<1> QED
  BY <1>10 DEF FirstUpTo, FirstsUpTo

-------------------------------------------------------------------------------
(* No path is made by a turn of the third loop.                            *)
LEMMA FirstMakesNoPath ==
  ASSUME NEW node, FirstStep(node), node \in Node, dep[node] \in Seq(Line(Node)),
         NEW M, NEW files, \A m : m \in M <=> Has(dep[node], "f", m),
         M \subseteq DOMAIN dep \cap Node, node \in DOMAIN dep,
         PassStep(files, node, M), Lesser(files), FilesOK(files), IsFiniteSet(DOMAIN files),
         dep' = [files EXCEPT ![node] = ToPass1(dep[node], M)], Complete(dep'),
         NEW w \in Weight, FirstsUpTo(dep[node], w),
         NEW s \in DOMAIN files, NEW t \in Node, ~ HasPath(files, s, t, w)
  PROVE  ~ HasPath(dep', s, t, w)
<1> DEFINE new == ToPass1(dep[node], M)
           A == Reachable(files, s, w)
           B == A \cup {Pass1(m) : m \in A \cap Node}
<1>1. /\ s \in A /\ A \subseteq DOMAIN files /\ t \notin A
      /\ \A n \in A : \A l \in LinesOf(files[n]) : l.prio <= w => l.id \in A
  BY PathIn DEF FilesOK, HasPath
<1>2. files[node] = dep[node]
  BY NoSuffix DEF PassStep
<1>3. DOMAIN dep' = DOMAIN files /\ \A n \in DOMAIN files : dep'[n] = IF n = node THEN new ELSE files[n]
  OBVIOUS
<1> HIDE DEF A
<1>4. ASSUME node \in A, NEW l \in LinesOf(new), l.prio <= w
      PROVE  l.id \in B
  <2>0. Len(new) = Len(dep[node])
    BY DEF ToPass1
  <2>1. PICK i \in 1 .. Len(dep[node]) : l = new[i]
    <3> HIDE DEF new
    <3> QED
      BY <1>4, <2>0 DEF LinesOf
  <2>2. /\ dep[node][i].prio \in Weight
        /\ dep[node][i].qual = "f" => dep[node][i].prio <= w
        /\ dep[node][i] \in LinesOf(files[node]) /\ dep[node][i].id \in Node
    BY <1>2, LineOf DEF FirstsUpTo, LinesOf
  <2>3. CASE dep[node][i].id \notin M
    <3>1. l = dep[node][i]
      BY <2>1, <2>3 DEF ToPass1
    <3> QED
      BY <1>1, <1>4, <2>2, <3>1
  <2>4. CASE dep[node][i].id \in M
    <3>1. /\ l.id = Pass1(dep[node][i].id)
          /\ dep[node][i].qual # "f" => l.prio = dep[node][i].prio
      BY <2>1, <2>4 DEF ToPass1
    <3>2. dep[node][i].prio <= w
      BY <1>4, <2>2, <3>1
    <3>3. dep[node][i].id \in A
      BY <1>1, <1>4, <2>2, <3>2
    <3> QED
      BY <2>2, <3>1, <3>3
  <2> QED
    BY <2>3, <2>4
<1> HIDE DEF new
<1>5. ASSUME NEW n \in B \cap DOMAIN dep', NEW l \in LinesOf(dep'[n]), l.prio <= w
      PROVE  l.id \in B
  <2>1. CASE n \in A
    <3>1. CASE n = node
      BY <1>3, <1>4, <1>5, <2>1, <3>1
    <3>2. CASE n # node
      BY <1>1, <1>3, <1>5, <2>1, <3>2
    <3> QED
      BY <3>1, <3>2
  <2>2. CASE n \notin A
    <3>1. PICK m \in A \cap Node : n = Pass1(m)
      BY <1>5, <2>2
    <3>2. n # node /\ l \in LinesOf(files[n]) /\ n \in DOMAIN files
      BY <1>3, <1>5, <3>1, NoSuffix
    <3>3. l \in LinesOf(files[m])
      BY <3>1, <3>2 DEF Lesser
    <3> QED
      BY <1>1, <1>5, <3>1, <3>3
  <2> QED
    BY <2>1, <2>2
<1>6. s \in B /\ t \notin B
  BY <1>1, NoSuffix
<1> HIDE DEF B
<1>7. IsFiniteSet(DOMAIN dep')
  BY <1>3
<1> QED
  BY <1>5, <1>6, <1>7, NoPath

-------------------------------------------------------------------------------
(***************************************************************************)
(* The first passes: the invariant, and that the loops keep it.            *)
(***************************************************************************)

(* There is a first pass only of a package that one wants first.           *)
Wanted ==
  \A m \in Package : Pass1(m) \in DOMAIN dep => \E x \in InGraph : Has(graph[x], "f", m)

(* A first pass needs nothing that leads to what depends on it.            *)
Broken ==
  \A p \in DOMAIN dep \cap Node, m \in Node : Pass1(m) \in Targets(dep[p]) =>
    \A l \in LinesOf(dep[Pass1(m)]) :
      FirstUpTo(graph, l.prio) => ~ HasPath(dep, l.id, p, l.prio)

(* What the third loop relies on and achieves.                             *)
FirstInv ==
  /\ \A w : FirstUpTo(graph, w) => FirstUpTo(dep, w)
  /\ loop = "first" => \A n \in todo : \E id : Has(graph[n], "f", id)
  /\ Wanted
  /\ loop \in {"first", "done"} /\ ~ FirstOfFirst(graph) => Lesser(dep) /\ Broken

LEMMA NoFirstPassYet ==
  ASSUME TypeInv, loop \in {"dangling", "after"}
  PROVE  /\ \A m \in Node : Pass1(m) \notin DOMAIN dep
         /\ \A n \in DOMAIN dep : Targets(dep[n]) \subseteq Node
<1>1. DOMAIN dep \subseteq Node \cup {Root} /\ FilesTo(dep, Node)
  <2>1. Package \subseteq Node
    BY NoSuffix
  <2> QED
    BY <2>1, LinesOfMore DEF TypeInv, FilesTo
<1>2. \A m \in Node : Pass1(m) \notin DOMAIN dep
  BY <1>1, NoSuffix
<1>3. ASSUME NEW n \in DOMAIN dep PROVE Targets(dep[n]) \subseteq Node
  <2>1. dep[n] \in Seq(Line(Node))
    BY <1>1 DEF FilesTo
  <2> QED
    BY <2>1, FromLines, LineOf
<1> QED
  BY <1>2, <1>3

LEMMA InitFirst == Init => FirstInv
<1> SUFFICES ASSUME Init PROVE FirstInv
  OBVIOUS
<1>1. dep = graph /\ loop = "dangling"
  BY DEF Init
<1>2. Wanted
  BY <1>1, InitTypes, NoFirstPassYet, NoSuffix DEF Wanted
<1> QED
  BY <1>1, <1>2 DEF FirstInv

LEMMA DanglingFirst ==
  ASSUME IInv, TypeInv, FirstInv, NEW node \in todo, RemoveDangling(node)
  PROVE  FirstInv'
<1> DEFINE ids == {id \in Targets(dep[node]) : id \notin DOMAIN dep}
           file == Without(dep[node], ids)
<1>1. /\ loop = "dangling" /\ loop' = "dangling" /\ graph' = graph
      /\ dep' = [dep EXCEPT ![node] = file] /\ node \in DOMAIN dep
  BY DEF RemoveDangling, IInv
<1>2. dep[node] \in Seq(Line(Package))
  BY <1>1 DEF TypeInv, FilesTo
<1> HIDE DEF ids
<1>3. ASSUME NEW w, FirstUpTo(graph, w) PROVE FirstUpTo(dep', w)
  <2>1. FirstUpTo(dep, w)
    BY <1>3 DEF FirstInv
  <2>2. FirstsUpTo(file, w)
    BY <1>1, <1>2, <2>1, FirstsKept DEF FirstUpTo, FirstsUpTo
  <2> HIDE DEF file
  <2> QED
    BY <1>1, <2>1, <2>2 DEF FirstUpTo, FirstsUpTo
<1>4. Wanted'
  BY <1>1, NoFirstPassYet, NoSuffix DEF Wanted
<1> QED
  BY <1>1, <1>3, <1>4 DEF FirstInv

LEMMA GroupFirst ==
  ASSUME IInv, TypeInv, FirstInv, NEW node \in todo, GroupAfter(node)
  PROVE  FirstInv'
<1>1. loop = "after" /\ loop' = "after" /\ graph' = graph
  BY DEF GroupAfter
<1>2. \A w : FirstUpTo(graph, w) => FirstUpTo(dep', w)
  BY GroupFirsts DEF FirstInv
<1>3. TypeInv'
  BY GroupTypes
<1>4. Wanted'
  <2>1. DOMAIN dep' \subseteq Node \cup {Root}
    BY <1>1, <1>3 DEF TypeInv
  <2> QED
    BY <2>1, NoSuffix DEF Wanted
<1> QED
  BY <1>1, <1>2, <1>4 DEF FirstInv

LEMMA StartAfterFirst ==
  ASSUME FirstInv, StartAfter
  PROVE  FirstInv'
BY DEF FirstInv, StartAfter, Wanted, InGraph

LEMMA StartFirstFirst ==
  ASSUME IInv, TypeInv, QInv, FirstInv, StartFirst
  PROVE  FirstInv'
<1>1. /\ loop = "after" /\ loop' = "first" /\ graph' = graph /\ dep' = dep
      /\ todo' = HaveQualifier("f")
  BY DEF StartFirst
<1>2. Lesser(dep) /\ Broken'
  <2>1. Lesser(dep)
    BY <1>1, NoFirstPassYet DEF Lesser
  <2>2. ASSUME NEW p \in DOMAIN dep, NEW m \in Node, Pass1(m) \in Targets(dep[p]) PROVE FALSE
    BY <1>1, <2>2, NoFirstPassYet, NoSuffix
  <2> QED
    BY <1>1, <2>1, <2>2 DEF Broken
<1>3. ASSUME NEW n \in todo' PROVE \E id : Has(graph[n], "f", id)
  <2>1. QInv' /\ n \in Package
    BY <1>1, <1>3, StartFirstQ DEF QInv, DomInv
  <2>2. n \in DOMAIN dep /\ Qualified(dep[n], "f") # <<>>
    BY <1>1, <1>3 DEF HaveQualifier
  <2>3. dep[n] \in Seq(Line(Node))
    BY <1>1, <2>2 DEF TypeInv, FilesTo
  <2> DEFINE kept == Qualified(dep[n], "f")
  <2>4. kept \in Seq(Line(Node)) /\ kept # <<>>
    BY <2>2, <2>3, QualifiedFile
  <2>5. \A id : id \in Targets(kept) => Has(dep[n], "f", id)
    BY <2>3, HasQualified
  <2> HIDE DEF kept
  <2>6. 1 \in 1 .. Len(kept)
    BY <2>4
  <2>7. kept[1].id \in Targets(kept)
    BY <2>6 DEF Targets
  <2>8. FromGraph(n, n, "f", kept[1].id)
    BY <2>1, <2>2, <2>5, <2>7 DEF QInv, EdgeInv, Names
  <2> QED
    BY <2>8 DEF FromGraph
<1>4. Wanted' /\ Lesser(dep')
  BY <1>1, <1>2 DEF FirstInv, Wanted, InGraph
<1> QED
  BY <1>1, <1>2, <1>3, <1>4 DEF FirstInv

LEMMA FirstFirst ==
  ASSUME IInv, TypeInv, QInv, FirstInv, NEW node \in todo, FirstPass(node)
  PROVE  FirstInv'
<1>1. /\ loop = "first" /\ loop' = "first" /\ graph' = graph /\ todo' = todo \ {node}
  BY DEF FirstPass
<1>2. /\ node \in Package /\ node \in Node /\ node \in DOMAIN dep /\ Complete(dep)
      /\ dep[node] \in Seq(Line(Node)) /\ IsFiniteSet(DOMAIN dep) /\ todo \subseteq Package
  BY <1>1, NoSuffix, FiniteDomain DEF QInv, DomInv, TypeInv, IInv, CleanInv
<1>3. FirstStep(node) /\ Complete(dep')
  <2>1. IInv'
    BY FirstKeeps
  <2> QED
    BY <1>1, <1>2, <2>1, FirstSteps DEF IInv, CleanInv
<1>4. PICK M : \E files :
        /\ \A m : m \in M <=> Has(dep[node], "f", m)
        /\ M \subseteq DOMAIN dep \cap Node /\ node \in DOMAIN dep
        /\ PassStep(files, node, M) /\ (Lesser(dep) => FreeStep(files, node, M))
        /\ FilesOK(files) /\ IsFiniteSet(DOMAIN files)
        /\ dep' = [files EXCEPT ![node] = ToPass1(dep[node], M)]
  BY <1>3 DEF FirstStep
<1>5. PICK files :
        /\ \A m : m \in M <=> Has(dep[node], "f", m)
        /\ M \subseteq DOMAIN dep \cap Node /\ node \in DOMAIN dep
        /\ PassStep(files, node, M) /\ (Lesser(dep) => FreeStep(files, node, M))
        /\ FilesOK(files) /\ IsFiniteSet(DOMAIN files)
        /\ dep' = [files EXCEPT ![node] = ToPass1(dep[node], M)]
  BY <1>4
<1> DEFINE new == ToPass1(dep[node], M)
<1>6. /\ DOMAIN dep' = DOMAIN files /\ DOMAIN files = DOMAIN dep \cup {Pass1(m) : m \in M}
      /\ \A n \in DOMAIN files : dep'[n] = IF n = node THEN new ELSE files[n]
      /\ \A n \in DOMAIN dep : (\A m \in M : n # Pass1(m)) => files[n] = dep[n]
      /\ \A m \in M : LinesOf(files[Pass1(m)]) \subseteq LinesOf(Original(m))
  BY <1>5 DEF PassStep
<1>7. ASSUME NEW w, FirstUpTo(graph, w) PROVE FirstUpTo(dep', w) /\ FirstsUpTo(dep[node], w)
  <2>1. \A n \in DOMAIN dep : FirstsUpTo(dep[n], w)
    BY <1>7 DEF FirstInv, FirstUpTo, FirstsUpTo
  <2>2. \A file : FirstsUpTo(file, w) <=> \A l \in LinesOf(file) : l.qual = "f" => l.prio <= w
    BY DEF FirstsUpTo, LinesOf
  <2>3. ASSUME NEW m \in M PROVE FirstsUpTo(files[Pass1(m)], w)
    <3>1. FirstsUpTo(Original(m), w)
      BY <1>5, <2>1 DEF Original
    <3> QED
      BY <1>6, <2>2, <3>1
  <2>4. FirstsUpTo(new, w)
    BY <1>2, <2>1, FirstsKept
  <2> HIDE DEF new
  <2>5. \A n \in DOMAIN dep' : FirstsUpTo(dep'[n], w)
    BY <1>6, <2>1, <2>3, <2>4
  <2> QED
    BY <1>2, <2>1, <2>5 DEF FirstUpTo, FirstsUpTo
<1>8. node \in InGraph /\ InGraph \subseteq Package
  <2>1. InGraph \subseteq Package
    BY CleanAssumption DEF QInv, DomInv, Extracted, GraphOn, InGraph
  <2>2. PICK x \in InGraph : node \in Names(x)
    BY <1>2, NoSuffix DEF QInv, DomInv
  <2>3. x = node
    BY <1>2, <2>1, <2>2, NamesOnce DEF Names
  <2> QED
    BY <2>1, <2>2, <2>3
<1>9. ASSUME NEW m \in Package, Pass1(m) \in DOMAIN dep'
      PROVE  \E x \in InGraph : Has(graph[x], "f", m)
  <2>1. CASE Pass1(m) \in DOMAIN dep
    BY <2>1 DEF FirstInv, Wanted
  <2>2. CASE Pass1(m) \notin DOMAIN dep
    <3>1. Has(dep[node], "f", m)
      BY <1>5, <1>6, <1>9, <2>2, Suffixes
    <3>2. FromGraph(node, node, "f", m)
      BY <1>2, <3>1 DEF QInv, EdgeInv, Names
    <3>3. PICK y \in Package : m \in Names(y) /\ Has(graph[node], "f", y)
      BY <3>2 DEF FromGraph
    <3>4. y = m
      BY <3>3, NamesOnce DEF Names
    <3> QED
      BY <1>8, <3>3, <3>4
  <2> QED
    BY <2>1, <2>2
<1>10. Wanted'
  BY <1>1, <1>9 DEF Wanted, InGraph
<1>11. ASSUME ~ FirstOfFirst(graph), Pass1(node) \in DOMAIN dep' PROVE FALSE
  <2>1. PICK x \in InGraph : Has(graph[x], "f", node)
    BY <1>2, <1>9, <1>11
  <2>2. PICK id : Has(graph[node], "f", id)
    BY <1>1 DEF FirstInv
  <2>3. /\ x \in DOMAIN graph /\ node \in DOMAIN graph
        /\ graph[x] \in Seq(Line(Package)) /\ graph[node] \in Seq(Line(Package))
    <3>1. (Package \cup {Root}) \ {Root} = Package
      BY CleanAssumption
    <3> QED
      BY <1>8, <3>1 DEF QInv, DomInv, Extracted, GraphOn, InGraph
  <2>4. node \in Targets(Qualified(graph[x], "f")) /\ id \in Targets(Qualified(graph[node], "f"))
    BY <2>1, <2>2, <2>3, HasQualified
  <2>5. Qualified(graph[node], "f") # <<>>
    BY <2>4 DEF Targets
  <2> QED
    BY <1>11, <2>3, <2>4, <2>5 DEF FirstOfFirst
<1>12. ASSUME ~ FirstOfFirst(graph) PROVE Lesser(dep') /\ Broken'
  <2>1. Lesser(dep) /\ Broken /\ FreeStep(files, node, M)
    BY <1>1, <1>5, <1>12 DEF FirstInv
  <2>2. Lesser(files)
    BY <2>1 DEF FreeStep
  <2> HIDE DEF new
  <2>3. Lesser(dep')
    <3>1. ASSUME NEW m \in Node, Pass1(m) \in DOMAIN dep'
          PROVE  m \in DOMAIN dep' /\ LinesOf(dep'[Pass1(m)]) \subseteq LinesOf(dep'[m])
      <4>1. m # node /\ Pass1(m) # node
        BY <1>2, <1>11, <1>12, <3>1, NoSuffix
      <4> QED
        BY <1>6, <2>2, <3>1, <4>1 DEF Lesser
    <3> QED
      BY <3>1 DEF Lesser
  <2>4. ASSUME NEW s \in DOMAIN files, NEW t \in Node, NEW w \in Weight, FirstUpTo(graph, w),
               ~ HasPath(files, s, t, w)
        PROVE  ~ HasPath(dep', s, t, w)
    <3>1. FirstsUpTo(dep[node], w) /\ IsFiniteSet(DOMAIN files)
      BY <1>5, <1>7, <2>4
    <3> QED
      BY <1>2, <1>3, <1>5, <2>2, <2>4, <3>1, FirstMakesNoPath
  <2>5. ASSUME NEW p \in DOMAIN dep' \cap Node, NEW m \in Node, Pass1(m) \in Targets(dep'[p]),
               NEW l \in LinesOf(dep'[Pass1(m)]), FirstUpTo(graph, l.prio)
        PROVE  ~ HasPath(dep', l.id, p, l.prio)
    <3>1. p \in DOMAIN dep /\ Pass1(m) # node /\ Pass1(m) \in DOMAIN files
      <4>1. dep'[p] \in Seq(Line(DOMAIN dep'))
        BY <1>3 DEF Complete
      <4>2. Pass1(m) \in DOMAIN dep'
        BY <2>5, <4>1, FromLines, LineOf
      <4> QED
        BY <1>2, <1>5, <1>6, <2>5, <4>2, NoSuffix
    <3>2. l \in LinesOf(files[Pass1(m)])
      BY <1>6, <2>5, <3>1
    <3>3. l.id \in DOMAIN files /\ l.prio \in Weight
      <4>1. files[Pass1(m)] \in Seq(Line(DOMAIN files))
        BY <1>5, <3>1 DEF FilesOK, Complete
      <4>2. PICK i \in 1 .. Len(files[Pass1(m)]) : l = files[Pass1(m)][i]
        BY <3>2 DEF LinesOf
      <4> QED
        BY <4>1, <4>2, LineOf
    <3>4. CASE p = node
      <4>1. m \in M
        <5>1. PICK q : Has(new, q, Pass1(m))
          BY <1>6, <2>5, <3>1, <3>4, HasTargets
        <5>2. \/ Has(dep[node], q, Pass1(m))
              \/ \E k \in M : Pass1(m) = Pass1(k)
          BY <1>2, <5>1, HasToPass1 DEF new
        <5>3. ~ Has(dep[node], q, Pass1(m))
          BY <1>2, HasType, NoSuffix
        <5> QED
          BY <5>2, <5>3, Suffixes
      <4>2. ~ HasPath(files, l.id, p, l.prio)
        BY <2>1, <3>2, <3>4, <4>1 DEF FreeStep
      <4> QED
        BY <2>4, <2>5, <3>3, <4>2
    <3>5. CASE p # node
      <4>1. dep'[p] = dep[p]
        BY <1>5, <1>6, <2>5, <3>1, <3>5, NoSuffix
      <4>2. dep[p] \in Seq(Line(DOMAIN dep))
        BY <1>2, <3>1 DEF Complete
      <4>3. Pass1(m) \in DOMAIN dep /\ Pass1(m) \in Targets(dep[p])
        BY <2>5, <4>1, <4>2, FromLines, LineOf
      <4>4. l \in LinesOf(dep[Pass1(m)])
        <5>1. CASE m \in M
          BY <1>6, <3>2, <4>3, <5>1 DEF Original
        <5>2. CASE m \notin M
          BY <1>6, <3>2, <4>3, <5>2, Suffixes
        <5> QED
          BY <5>1, <5>2
      <4>5. ~ HasPath(dep, l.id, p, l.prio)
        BY <2>1, <2>5, <3>1, <4>3, <4>4 DEF Broken
      <4>6. l.id \in DOMAIN dep
        <5>1. dep[Pass1(m)] \in Seq(Line(DOMAIN dep))
          BY <1>2, <4>3 DEF Complete
        <5> QED
          BY <4>4, <5>1, LineOf DEF LinesOf
      <4>7. ~ HasPath(files, l.id, p, l.prio)
        BY <2>1, <2>5, <4>5, <4>6 DEF FreeStep
      <4> QED
        BY <2>4, <2>5, <3>3, <4>7
    <3> QED
      BY <3>4, <3>5
  <2>6. Broken'
    BY <1>1, <2>5 DEF Broken
  <2> QED
    BY <2>3, <2>6
<1>13. \A n \in todo' : \E id : Has(graph[n], "f", id)
  BY <1>1 DEF FirstInv
<1> QED
  BY <1>1, <1>7, <1>10, <1>12, <1>13 DEF FirstInv

LEMMA FirstInductive ==
  ASSUME IInv, TypeInv, QInv, FirstInv, [Next]_vars
  PROVE  FirstInv'
<1>1. CASE UNCHANGED vars \/ Finish
  <2>1. /\ dep' = dep /\ graph' = graph /\ todo' = todo
        /\ loop' = loop \/ (loop = "first" /\ loop' = "done")
    BY <1>1 DEF vars, Finish
  <2>2. Wanted' /\ (Broken => Broken')
    BY <2>1 DEF FirstInv, Wanted, Broken, InGraph
  <2> QED
    BY <2>1, <2>2 DEF FirstInv
<1> QED
  BY <1>1, DanglingFirst, GroupFirst, FirstFirst, StartAfterFirst, StartFirstFirst DEF Next

(* When clean_subgraph ends, nothing that the first pass of a package      *)
(* needs leads back, by edges no heavier, to a package that wants it       *)
(* first, unless a package wanted first itself wants one first: the third  *)
(* loop, in any order of the files, breaks the cycles it is there for.     *)
THEOREM CyclesBroken == Spec => []FirstBreaksCycle
<1>1. Init => IInv /\ TypeInv /\ QInv /\ FirstInv
  BY InitInv, InitTypes, InitQ, InitFirst
<1>2. IInv /\ TypeInv /\ QInv /\ FirstInv /\ [Next]_vars
        => IInv' /\ TypeInv' /\ QInv' /\ FirstInv'
  BY FilesInductive, FirstInductive
<1>3. IInv /\ TypeInv /\ QInv /\ FirstInv => FirstBreaksCycle
  <2> SUFFICES ASSUME IInv, TypeInv, QInv, FirstInv, Done, ~ FirstOfFirst(graph),
                      NEW parent \in InGraph, NEW node \in Targets(Qualified(graph[parent], "f")),
                      NEW n \in {Pass1(node), Pass1(Group(node))}
                                  \cap DOMAIN dep \cap Targets(dep[parent]),
                      NEW i \in 1 .. Len(dep[n]), FirstUpTo(graph, dep[n][i].prio)
               PROVE  ~ HasPath(dep, dep[n][i].id, parent, dep[n][i].prio)
    BY DEF FirstBreaksCycle
  <2>1. InGraph \subseteq Package /\ graph[parent] \in Seq(Line(Package))
    <3>1. (Package \cup {Root}) \ {Root} = Package
      BY CleanAssumption
    <3> QED
      BY <3>1 DEF QInv, DomInv, Extracted, GraphOn, InGraph
  <2>2. node \in Package
    BY <2>1, QualifiedFile
  <2>3. parent \in DOMAIN dep \cap Node
    BY <2>1, NoSuffix DEF QInv, DomInv
  <2>4. PICK m \in Node : n = Pass1(m)
    BY <2>2, NoSuffix
  <2>5. dep[n][i] \in LinesOf(dep[Pass1(m)])
    BY <2>4 DEF LinesOf
  <2>6. Broken
    BY DEF Done, FirstInv
  <2> QED
    BY <2>3, <2>4, <2>5, <2>6 DEF Broken
<1> QED
  BY <1>1, <1>2, <1>3, PTL DEF Spec

-------------------------------------------------------------------------------
(***************************************************************************)
(* What "after" dependencies are for: the invariant, and that the loops    *)
(* keep it.                                                                *)
(***************************************************************************)

(* When no name contains another, grep finds the node it is asked for.     *)
LEMMA Alone ==
  ASSUME PartOf = {}
  PROVE  /\ \A x, n : Ends(x, n) <=> x = n
         /\ \A y \in Package : \A s \in {y, Group(y)} : \A id : Occurs(s, id) =>
              id \in Names(y) /\ (s = Group(y) => id \in GroupNames(y))
<1>1. SuffixOf = {}
  BY CleanAssumption
<1>2. ASSUME NEW y \in Package, NEW s \in {y, Group(y)}, NEW id, Occurs(s, id)
      PROVE  id \in Names(y) /\ (s = Group(y) => id \in GroupNames(y))
  <2>1. CASE s = id
    BY <2>1 DEF Names, GroupNames
  <2>2. CASE \E p, q \in Package :
               /\ p = q \/ <<p, q>> \in PartOf
               /\ s = p
               /\ id \in {q, Group(q), Pass1(q), Pass1(Group(q))}
    <3>1. PICK p, q \in Package :
               /\ p = q \/ <<p, q>> \in PartOf
               /\ s = p
               /\ id \in {q, Group(q), Pass1(q), Pass1(Group(q))}
      BY <2>2
    <3>2. p = q /\ p = y /\ s # Group(y)
      BY <3>1, NoSuffix
    <3> QED
      BY <3>1, <3>2 DEF Names
  <2>3. CASE \E p, q \in Package :
               /\ p = q \/ <<p, q>> \in SuffixOf
               /\ s = Group(p)
               /\ id \in {Group(q), Pass1(Group(q))}
    <3>1. PICK p, q \in Package :
               /\ p = q \/ <<p, q>> \in SuffixOf
               /\ s = Group(p)
               /\ id \in {Group(q), Pass1(Group(q))}
      BY <2>3
    <3>2. p = q /\ p = y
      BY <1>1, <3>1, NoSuffix, Suffixes
    <3> QED
      BY <3>1, <3>2 DEF Names, GroupNames
  <2> QED
    BY <1>2, <2>1, <2>2, <2>3 DEF Occurs
<1> QED
  BY <1>1, <1>2 DEF Ends

(* The packages of the graph.                                              *)
LEMMA GraphFiles ==
  ASSUME DomInv
  PROVE  /\ InGraph \subseteq Package /\ DOMAIN graph = InGraph \cup {Root}
         /\ Root \notin Package /\ IsFiniteSet(DOMAIN graph)
         /\ FilesTo(graph, Package) /\ InGraph \subseteq DOMAIN dep
         /\ \A x \in Package : \A n \in Names(x) \cap DOMAIN dep : x \in InGraph
         /\ \A q, id : Has(graph[Root], q, id) => q = "b" /\ id \in InGraph
<1>1. (Package \cup {Root}) \ {Root} = Package /\ Root \notin Package
  BY CleanAssumption
<1>2. /\ InGraph \subseteq Package /\ DOMAIN graph = InGraph \cup {Root}
      /\ IsFiniteSet(DOMAIN graph) /\ FilesTo(graph, Package) /\ InGraph \subseteq DOMAIN dep
  BY <1>1 DEF DomInv, Extracted, GraphOn, InGraph, FilesTo
<1>3. ASSUME NEW x \in Package, NEW n \in Names(x) \cap DOMAIN dep PROVE x \in InGraph
  <2>1. PICK z \in InGraph : n \in Names(z)
    BY <1>3, NameIsTarget, NoSuffix DEF DomInv
  <2> QED
    BY <1>2, <1>3, <2>1, NamesOnce
<1>4. ASSUME NEW q, NEW id, Has(graph[Root], q, id) PROVE q = "b" /\ id \in InGraph
  <2>1. q = "b"
    BY <1>4 DEF DomInv, Extracted, Has
  <2>2. id \in Targets(graph[Root])
    BY <1>4, HasTargets
  <2>3. graph[Root] \in Seq(Line(Package))
    BY <1>2 DEF FilesTo
  <2>4. id \in DOMAIN graph /\ id \in Package
    BY <1>4, <2>2, <2>3, HasType DEF DomInv, Extracted
  <2> QED
    BY <1>1, <1>2, <2>1, <2>4
<1> QED
  BY <1>1, <1>2, <1>3, <1>4

LEMMA GraphIsLight ==
  ASSUME FilesTo(graph, Package), ~ External(graph)
  PROVE  Light(graph)
<1> SUFFICES ASSUME NEW n \in DOMAIN graph, NEW i \in 1 .. Len(graph[n])
             PROVE  graph[n][i].prio <= 3
  BY DEF Light, LightFile
<1>1. graph[n] \in Seq(Line(Package))
  BY DEF FilesTo
<1>2. graph[n][i].prio \in Weight
  BY <1>1, LineOf
<1> QED
  BY <1>2 DEF External, Weight

(* Where the files lead, the graph led.                                    *)
LEMMA PathBefore ==
  ASSUME DomInv, EdgeInv, FilesTo(dep, Target), Light(dep), ~ External(graph),
         NEW y \in InGraph, NEW s \in Names(y), NEW p \in DOMAIN graph, HasPath(dep, s, p, 3)
  PROVE  HasPath(graph, y, p, 3)
<1> DEFINE T == Reachable(graph, y, 3)
           S == UNION {Names(x) : x \in T \cap Package}
<1>1. /\ InGraph \subseteq Package /\ DOMAIN graph = InGraph \cup {Root}
      /\ Root \notin Package /\ IsFiniteSet(DOMAIN graph) /\ FilesTo(graph, Package)
      /\ \A x \in Package : \A n \in Names(x) \cap DOMAIN dep : x \in InGraph
  BY GraphFiles
<1>2. Light(graph)
  BY <1>1, GraphIsLight
<1>3. y \in T /\ Closed(graph, T)
  BY <1>1, <1>2, LightPath
<1> HIDE DEF T
<1>4. ASSUME NEW n \in S \cap DOMAIN dep, NEW id \in Targets(dep[n])
      PROVE  id \in S
  <2>1. PICK x \in T \cap Package : n \in Names(x)
    BY <1>4
  <2>2. x \in InGraph
    BY <1>1, <1>4, <2>1
  <2>3. PICK q : Has(dep[n], q, id)
    BY <1>4, HasTargets
  <2>4. FromGraph(x, n, q, id)
    BY <1>4, <2>1, <2>3 DEF EdgeInv
  <2>5. PICK z \in Package : id \in Names(z) /\ (z = x \/ \E r : Has(graph[x], r, z))
    BY <2>4 DEF FromGraph
  <2>6. z \in T
    <3>1. CASE z = x
      BY <3>1
    <3>2. CASE \E r : Has(graph[x], r, z)
      BY <1>1, <1>3, <2>1, <2>2, <3>2, HasTargets DEF Closed
    <3> QED
      BY <2>5, <3>1, <3>2
  <2> QED
    BY <2>5, <2>6
<1>5. s \in S
  BY <1>1, <1>3
<1>6. p \in S
  <2>1. Closed(dep, S)
    <3> HIDE DEF S
    <3> QED
      BY <1>4 DEF Closed
  <2> HIDE DEF S
  <2> QED
    BY <1>5, <2>1, PathInside, FiniteDomain
<1>7. PICK x \in T \cap Package : p \in Names(x)
  BY <1>6
<1>8. p \in Package
  BY <1>1, <1>7, NameIsTarget, NoSuffix
<1>9. p = x
  BY <1>7, <1>8, NamesOnce DEF Names
<1> QED
  BY <1>7, <1>9 DEF HasPath, T

(* The parent p of x that the "after" dependencies of x are to be before.  *)
Served(p, x) ==
  /\ p \in DOMAIN graph /\ x \in InGraph
  /\ \E q : q # "a" /\ Has(graph[p], q, x)
  /\ \E c \in InGraph : Has(graph[x], "a", c)
  /\ \A c \in InGraph : Has(graph[x], "a", c) => ~ HasPath(graph, c, p, 3)

(* The second loop has not dealt with the "after" dependencies of x.       *)
Pending(x) == loop = "dangling" \/ (loop = "after" /\ x \in todo)

(* Until then, x has them, or those that have got a group, their group.    *)
KeepInv ==
  \A x, c \in InGraph : Has(graph[x], "a", c) /\ Pending(x) =>
    Has(dep[x], "a", c) \/ Has(dep[x], "a", Group(c))

(* The parent has a line to x until then, and to the group of x or to a    *)
(* first pass of that afterwards.                                          *)
WaitInv ==
  \A p, x : Served(p, x) =>
    \E q, id : /\ q # "a" /\ Has(dep[p], q, id)
               /\ IF Pending(x) THEN id = x ELSE id \in GroupNames(x)

(* The group of x and its first pass have lines to all of them, or to      *)
(* their groups.  That these lead nowhere near the group is why the third  *)
(* loop does not take the lines from the first pass.                       *)
JoinInv ==
  \A x, c \in InGraph : Has(graph[x], "a", c) =>
    \A n \in GroupNames(x) \cap DOMAIN dep :
      \E id \in {c, Group(c)} : Has(dep[n], "b", id) /\ Apart(dep, id, Group(x))

(* A group has a line to its node, which the second loop does not remove.  *)
OwnInv == \A x \in InGraph : Group(x) \in DOMAIN dep => Has(dep[Group(x)], "b", x)

(* What the loops do for the parents of a node.                            *)
ServeInv ==
  ~ External(graph) /\ OneRole(graph) => KeepInv /\ WaitInv /\ JoinInv /\ OwnInv

-------------------------------------------------------------------------------
(* A file has no "after" line to what its package needs before it.         *)
LEMMA NotBoth ==
  ASSUME DomInv, EdgeInv, OneRole(graph), NEW p \in DOMAIN graph, NEW x \in InGraph,
         NEW q, q # "a", Has(graph[p], q, x), NEW id \in Names(x)
  PROVE  ~ Has(dep[p], "a", id)
<1> SUFFICES ASSUME Has(dep[p], "a", id) PROVE FALSE
  OBVIOUS
<1>1. /\ InGraph \subseteq Package /\ DOMAIN graph = InGraph \cup {Root}
      /\ InGraph \subseteq DOMAIN dep
  BY GraphFiles
<1>2. p # Root
  BY DEF DomInv
<1>3. p \in Package /\ p \in Names(p) /\ p \in DOMAIN dep
  BY <1>1, <1>2 DEF Names
<1>4. FromGraph(p, p, "a", id)
  BY <1>3 DEF EdgeInv
<1>5. PICK y \in Package : id \in Names(y) /\ Has(graph[p], "a", y)
  BY <1>4 DEF FromGraph
<1>6. y = x
  BY <1>1, <1>5, NamesOnce
<1> QED
  BY <1>5, <1>6 DEF OneRole, Has

LEMMA InitServe == Init => ServeInv
<1> SUFFICES ASSUME Init PROVE KeepInv /\ WaitInv /\ JoinInv /\ OwnInv
  BY DEF ServeInv
<1>1. dep = graph /\ loop = "dangling" /\ TypeInv /\ QInv
  BY InitTypes, InitQ DEF Init
<1>2. \A x \in Package : \A n \in GroupNames(x) : n \notin DOMAIN dep
  BY <1>1, NoSuffix DEF TypeInv, GroupNames
<1>3. InGraph \subseteq Package
  BY <1>1, GraphFiles DEF QInv
<1>4. KeepInv /\ WaitInv
  BY <1>1 DEF KeepInv, WaitInv, Served, Pending
<1> QED
  BY <1>2, <1>3, <1>4 DEF JoinInv, OwnInv, GroupNames

LEMMA DanglingServe ==
  ASSUME IInv, TypeInv, QInv, ServeInv, NEW node \in todo, RemoveDangling(node)
  PROVE  ServeInv'
<1> DEFINE ids == {id \in Targets(dep[node]) : id \notin DOMAIN dep}
           file == Without(dep[node], ids)
<1>1. /\ loop = "dangling" /\ loop' = "dangling" /\ graph' = graph
      /\ dep' = [dep EXCEPT ![node] = file] /\ node \in DOMAIN dep
  BY DEF RemoveDangling, IInv
<1>2. FilesTo(dep, Package) /\ DOMAIN dep \subseteq Package \cup {Root}
  BY <1>1 DEF TypeInv
<1>3. dep[node] \in Seq(Line(Package))
  BY <1>1, <1>2 DEF FilesTo
<1>4. \A id \in DOMAIN dep : id \notin ids
  OBVIOUS
<1> HIDE DEF ids
<1>5. ASSUME NEW q, NEW id \in DOMAIN dep, Has(dep[node], q, id) PROVE Has(file, q, id)
  BY <1>3, <1>4, <1>5, HasWithout
<1> HIDE DEF file
<1>6. /\ DOMAIN dep' = DOMAIN dep
      /\ \A n \in DOMAIN dep : \A q, id : id \in DOMAIN dep /\ Has(dep[n], q, id) => Has(dep'[n], q, id)
  BY <1>1, <1>5
<1>7. InGraph \subseteq Package /\ InGraph \subseteq DOMAIN dep /\ InGraph' = InGraph
      /\ DOMAIN graph = InGraph \cup {Root} /\ Root \in DOMAIN dep
  BY <1>1, GraphFiles DEF QInv, InGraph, TypeInv
<1>8. \A x \in InGraph : \A n \in GroupNames(x) : n \notin DOMAIN dep
  BY <1>2, <1>7, NoSuffix DEF GroupNames
<1> SUFFICES ASSUME ~ External(graph), OneRole(graph)
             PROVE  KeepInv' /\ WaitInv' /\ JoinInv' /\ OwnInv'
  BY <1>1 DEF ServeInv
<1>9. KeepInv'
  <2>1. ASSUME NEW x \in InGraph, NEW c \in InGraph, Has(graph[x], "a", c)
        PROVE  Has(dep'[x], "a", c)
    <3>1. Has(dep[x], "a", c) \/ Has(dep[x], "a", Group(c))
      BY <1>1, <2>1 DEF ServeInv, KeepInv, Pending
    <3>2. ~ Has(dep[x], "a", Group(c))
      <4>1. dep[x] \in Seq(Line(Package))
        BY <1>2, <1>7 DEF FilesTo
      <4> QED
        BY <1>7, <4>1, HasType, NoSuffix
    <3> QED
      BY <1>6, <1>7, <3>1, <3>2
  <2> QED
    BY <1>1, <1>7, <2>1 DEF KeepInv
<1>10. WaitInv'
  <2>1. ASSUME NEW p, NEW x, Served(p, x) PROVE \E q : q # "a" /\ Has(dep'[p], q, x)
    <3>1. PICK q : q # "a" /\ Has(dep[p], q, x)
      BY <1>1, <2>1 DEF ServeInv, WaitInv, Pending
    <3> QED
      BY <1>6, <1>7, <2>1, <3>1 DEF Served
  <2>2. \A p, x : Served(p, x)' <=> Served(p, x)
    BY <1>1, <1>7 DEF Served
  <2> QED
    BY <1>1, <2>1, <2>2 DEF WaitInv, Pending
<1> QED
  BY <1>6, <1>7, <1>8, <1>9, <1>10 DEF JoinInv, OwnInv, GroupNames

LEMMA StartAfterServe ==
  ASSUME IInv, TypeInv, QInv, ServeInv, StartAfter
  PROVE  ServeInv'
<1>1. /\ loop = "dangling" /\ loop' = "after" /\ graph' = graph /\ dep' = dep
      /\ todo' = HaveQualifier("a")
  BY DEF StartAfter
<1>2. FilesTo(dep, Package) /\ DOMAIN dep \subseteq Package \cup {Root}
  BY <1>1 DEF TypeInv
<1>3. InGraph \subseteq Package /\ InGraph \subseteq DOMAIN dep /\ InGraph' = InGraph
  BY <1>1, GraphFiles DEF QInv, InGraph
<1>4. \A x \in InGraph : \A n \in GroupNames(x) : n \notin DOMAIN dep
  BY <1>2, <1>3, NoSuffix DEF GroupNames
<1> SUFFICES ASSUME ~ External(graph), OneRole(graph)
             PROVE  KeepInv' /\ WaitInv' /\ JoinInv' /\ OwnInv'
  BY <1>1 DEF ServeInv
<1>5. ASSUME NEW x \in InGraph, NEW c \in InGraph, Has(graph[x], "a", c)
      PROVE  x \in todo'
  <2>1. \E id : Has(dep[x], "a", id)
    BY <1>1, <1>5 DEF ServeInv, KeepInv, Pending
  <2>2. dep[x] \in Seq(Line(Package)) /\ x \in DOMAIN dep
    BY <1>2, <1>3 DEF FilesTo
  <2>3. Targets(Qualified(dep[x], "a")) # {}
    BY <2>1, <2>2, HasQualified
  <2>4. Qualified(dep[x], "a") # <<>>
    BY <2>3 DEF Targets
  <2> QED
    BY <1>1, <2>2, <2>4 DEF HaveQualifier
<1>6. KeepInv'
  BY <1>1, <1>3 DEF ServeInv, KeepInv, Pending
<1>7. WaitInv'
  <2>1. ASSUME NEW p, NEW x, Served(p, x)
        PROVE  x \in todo' /\ \E q : q # "a" /\ Has(dep[p], q, x)
    <3>1. x \in todo'
      BY <1>5, <2>1 DEF Served
    <3> QED
      BY <1>1, <2>1, <3>1 DEF ServeInv, WaitInv, Pending
  <2>2. \A p, x : Served(p, x)' <=> Served(p, x)
    BY <1>1, <1>3 DEF Served
  <2> QED
    BY <1>1, <2>1, <2>2 DEF WaitInv, Pending
<1> QED
  BY <1>1, <1>3, <1>4, <1>6, <1>7 DEF JoinInv, OwnInv, GroupNames

LEMMA StartFirstServe ==
  ASSUME IInv, TypeInv, QInv, ServeInv, StartFirst
  PROVE  ServeInv'
<1>1. /\ loop = "after" /\ loop' = "first" /\ graph' = graph /\ dep' = dep
      /\ todo = {}
  BY DEF StartFirst
<1>2. InGraph' = InGraph
  BY <1>1 DEF InGraph
<1> SUFFICES ASSUME ~ External(graph), OneRole(graph)
             PROVE  KeepInv' /\ WaitInv' /\ JoinInv' /\ OwnInv'
  BY <1>1 DEF ServeInv
<1>3. WaitInv'
  <2>1. ASSUME NEW p, NEW x, Served(p, x)
        PROVE  \E q, id : q # "a" /\ Has(dep[p], q, id) /\ id \in GroupNames(x)
    BY <1>1, <2>1 DEF ServeInv, WaitInv, Pending
  <2>2. \A p, x : Served(p, x)' <=> Served(p, x)
    BY <1>1, <1>2 DEF Served
  <2> QED
    BY <1>1, <2>1, <2>2 DEF WaitInv, Pending
<1>4. KeepInv' /\ OwnInv'
  BY <1>1, <1>2 DEF ServeInv, KeepInv, OwnInv, Pending
<1>5. JoinInv'
  BY <1>1, <1>2 DEF ServeInv, JoinInv, Apart, Shut, Closed
<1> QED
  BY <1>3, <1>4, <1>5

LEMMA GroupServe ==
  ASSUME PartOf = {}, IInv, TypeInv, QInv, ServeInv, NEW node \in todo, GroupAfter(node)
  PROVE  ServeInv'
<1>1. /\ loop = "after" /\ loop' = "after" /\ graph' = graph /\ todo' = todo \ {node}
  BY DEF GroupAfter
<1>2. /\ Group(node) \notin DOMAIN dep /\ Root \in DOMAIN dep
      /\ DOMAIN dep \subseteq Node \cup {Root}
      /\ FilesTo(dep, Node) /\ Complete(dep) /\ IsFiniteSet(DOMAIN dep)
      /\ todo \subseteq Package /\ DomInv /\ EdgeInv /\ FilesTo(dep, Target)
  <2>1. Node \subseteq Target
    BY NoSuffix
  <2> QED
    BY <1>1, <2>1, LinesOfMore DEF QInv, DomInv, TypeInv, IInv, AfterInv, FilesTo
<1>3. GroupStep(node)
  BY <1>2, GroupSteps
<1>4. /\ InGraph \subseteq Package /\ InGraph \subseteq DOMAIN dep /\ InGraph' = InGraph
      /\ DOMAIN graph = InGraph \cup {Root} /\ Root \notin Package
      /\ node \in Package /\ node \in DOMAIN dep /\ node \in InGraph
  <2>1. node \in Names(node)
    BY DEF Names
  <2> QED
    BY <1>1, <1>2, <1>3, <2>1, GraphFiles DEF InGraph, GroupStep
<1>5. dep[node] \in Seq(Line(Node)) /\ node \in Node
  BY <1>2, <1>4, NoSuffix DEF FilesTo
<1>6. \A n \in DOMAIN dep : \A q, id : Has(dep[n], q, id) => id \in DOMAIN dep /\ id \in Node
  BY <1>2, HasType DEF Complete, FilesTo
<1>7. /\ DOMAIN dep' = DOMAIN dep \cup {Group(node)}
      /\ dep'[Group(node)] = GroupFile(node)
      /\ \A n \in DOMAIN dep : \A q, id : Has(dep'[n], q, id) <=> HasAfterwards(node, n, q, id)
  BY <1>3 DEF GroupStep
(* A line stays, or leads to the group instead of the node.                *)
<1>8. ASSUME NEW n \in DOMAIN dep, NEW q, NEW id, Has(dep[n], q, id),
             n # node \/ ~ Has(dep[n], "a", id)
      PROVE  \/ Has(dep'[n], q, id)
             \/ id = node /\ Has(dep'[n], q, Group(node))
  <2>1. id # Group(node) /\ ~ Has(dep[node], "a", Group(node))
    BY <1>2, <1>4, <1>6, <1>8
  <2>2. CASE n \in FreeParents(node) /\ id = node
    BY <1>7, <1>8, <2>1, <2>2 DEF HasAfterwards
  <2>3. CASE n \notin FreeParents(node) \/ id # node
    BY <1>7, <1>8, <2>1, <2>3 DEF HasAfterwards
  <2> QED
    BY <2>2, <2>3
<1> SUFFICES ASSUME ~ External(graph), OneRole(graph)
             PROVE  KeepInv' /\ WaitInv' /\ JoinInv' /\ OwnInv'
  BY <1>1 DEF ServeInv
<1>9. Light(dep) /\ KeepInv /\ WaitInv /\ JoinInv /\ OwnInv
  BY DEF QInv, LightInv, ServeInv
<1>10. KeepInv'
  <2>1. ASSUME NEW x \in InGraph, NEW c \in InGraph, Has(graph[x], "a", c),
               x \in todo, x # node
        PROVE  Has(dep'[x], "a", c) \/ Has(dep'[x], "a", Group(c))
    <3>1. Has(dep[x], "a", c) \/ Has(dep[x], "a", Group(c))
      BY <1>1, <1>9, <2>1 DEF KeepInv, Pending
    <3>2. x \in DOMAIN dep /\ Group(c) # node
      BY <1>4, NoSuffix
    <3> QED
      BY <1>8, <2>1, <3>1, <3>2
  <2> QED
    BY <1>1, <1>4, <2>1 DEF KeepInv, Pending
<1>11. WaitInv'
  <2>1. ASSUME NEW p, NEW x, Served(p, x)
        PROVE  \E q, id : /\ q # "a" /\ Has(dep'[p], q, id)
                          /\ IF x \in todo' THEN id = x ELSE id \in GroupNames(x)
    <3>1. PICK q, id : /\ q # "a" /\ Has(dep[p], q, id)
                       /\ IF x \in todo THEN id = x ELSE id \in GroupNames(x)
      BY <1>1, <1>9, <2>1 DEF WaitInv, Pending
    <3>2. p \in DOMAIN dep /\ p \in DOMAIN graph /\ x \in InGraph /\ id \in Names(x)
      BY <1>2, <1>4, <2>1, <3>1 DEF Served, Names, GroupNames
    <3>3. ~ Has(dep[p], "a", id)
      BY <1>2, <2>1, <3>2, NotBoth DEF Served
    <3>4. CASE x # node
      <4>1. id # node
        <5>1. id = x \/ id \in GroupNames(x)
          BY <3>1
        <5>2. node \notin GroupNames(x)
          BY <1>4, <3>2, NodeNames
        <5> QED
          BY <3>4, <5>1, <5>2
      <4>2. Has(dep'[p], q, id)
        BY <1>8, <3>1, <3>2, <3>3, <4>1
      <4> QED
        BY <1>1, <3>1, <3>4, <4>2
    <3>5. CASE x = node
      <4>1. id = node
        BY <3>1, <3>5
      <4>2. p \in FreeParents(node)
        <5>1. node \in Targets(dep[p]) /\ Ends(node, node)
          BY <3>1, <4>1, HasTargets DEF Ends
        <5>2. ASSUME NEW s \in Targets(Qualified(dep[node], "a")) PROVE ~ HasPath(dep, s, p, 3)
          <6>1. Has(dep[node], "a", s)
            BY <1>5, HasQualified
          <6>2. FromGraph(node, node, "a", s)
            BY <1>2, <1>4, <6>1 DEF EdgeInv, Names
          <6>3. PICK y \in Package : s \in Names(y) /\ Has(graph[node], "a", y)
            BY <6>2 DEF FromGraph
          <6>4. y \in InGraph
            BY <1>2, <1>4, <1>6, <6>1, <6>3, GraphFiles
          <6>5. ~ HasPath(graph, y, p, 3)
            BY <2>1, <3>5, <6>3, <6>4 DEF Served
          <6> QED
            BY <1>2, <1>9, <3>2, <6>3, <6>4, <6>5, PathBefore
        <5> QED
          BY <3>2, <5>1, <5>2 DEF FreeParents
      <4>3. ~ Has(dep[node], "a", Group(node))
        BY <1>2, <1>4, <1>6
      <4>4. Has(dep'[p], q, Group(node))
        BY <1>7, <3>1, <3>2, <4>1, <4>2, <4>3 DEF HasAfterwards
      <4>5. Group(node) \in GroupNames(x) /\ x \notin todo'
        BY <1>1, <3>5 DEF GroupNames
      <4> QED
        BY <3>1, <4>4, <4>5
    <3> QED
      BY <3>4, <3>5
  <2>2. \A p, x : Served(p, x)' <=> Served(p, x)
    BY <1>1, <1>4 DEF Served
  <2> QED
    BY <1>1, <2>1, <2>2 DEF WaitInv, Pending
<1>12. JoinInv'
  <2>1. ASSUME NEW x \in InGraph, NEW c \in InGraph, Has(graph[x], "a", c),
               NEW n \in GroupNames(x) \cap DOMAIN dep'
        PROVE  \E id \in {c, Group(c)} : Has(dep'[n], "b", id) /\ Apart(dep', id, Group(x))
    <3>1. CASE n = Group(node)
      <4>1. x = node
        BY <1>4, <2>1, <3>1, NodeNames DEF GroupNames, Names
      <4>2. PICK s \in {c, Group(c)} : Has(dep[node], "a", s)
        BY <1>1, <1>9, <2>1, <4>1 DEF KeepInv, Pending
      <4>3. PICK id : Has(GroupFile(node), "b", id) /\ Occurs(s, id)
        BY <1>5, <4>2, GroupHas
      <4>4. id \in Names(c)
        BY <1>4, <4>2, <4>3, Alone
      <4>5. id = node \/ Has(dep[node], "a", id)
        BY <1>5, <4>3, GroupHas
      <4>6. id \in {c, Group(c)}
        BY <1>4, <1>5, <1>6, <4>4, <4>5, NodeNames
      <4>7. Has(dep[node], "a", id)
        <5>1. CASE id = node
          <6>1. c = node
            BY <1>4, <4>4, <5>1, NamesOnce DEF Names
          <6>2. s # Group(node)
            BY <1>2, <1>4, <1>6, <4>2
          <6> QED
            BY <4>2, <5>1, <6>1, <6>2
        <5> QED
          BY <4>5, <5>1
      <4>8. Apart(dep', id, Group(node))
        BY <1>2, <1>3, <1>9, <4>7, GroupIsApart
      <4> QED
        BY <1>7, <3>1, <4>1, <4>3, <4>6, <4>8
    <3>2. CASE n # Group(node)
      <4>1. n \in DOMAIN dep /\ n # node /\ x # node
        BY <1>2, <1>4, <1>7, <2>1, <3>2, NoSuffix DEF GroupNames
      <4>2. PICK s \in {c, Group(c)} : Has(dep[n], "b", s) /\ Apart(dep, s, Group(x))
        BY <1>9, <2>1, <4>1 DEF JoinInv
      <4>3. PICK A : Shut(dep, A) /\ s \in A /\ Group(x) \notin A
        BY <4>2 DEF Apart
      <4>4. Shut(dep', WithGroup(A, node))
        BY <1>2, <1>3, <4>3, GroupKeepsShut
      <4>5. Group(x) \notin GroupNames(node)
        BY <1>4, <4>1, NodeNames DEF GroupNames, Names
      <4>6. CASE Has(dep'[n], "b", s)
        <5>1. s \notin GroupNames(node)
          BY <1>2, <1>4, <1>6, <4>1, <4>2, NoSuffix DEF GroupNames
        <5> QED
          BY <4>3, <4>4, <4>5, <4>6, <5>1 DEF Apart, WithGroup
      <4>7. CASE s = node /\ Has(dep'[n], "b", Group(node))
        <5>1. c = node
          BY <1>4, <4>2, <4>7, NoSuffix
        <5>2. Group(node) \in WithGroup(A, node)
          BY <4>3, <4>7 DEF WithGroup, GroupNames
        <5> QED
          BY <4>3, <4>4, <4>5, <4>7, <5>1, <5>2 DEF Apart, WithGroup
      <4> QED
        BY <1>8, <4>1, <4>2, <4>6, <4>7
    <3> QED
      BY <3>1, <3>2
  <2> QED
    BY <1>1, <1>4, <2>1 DEF JoinInv
<1>13. OwnInv'
  <2>1. ASSUME NEW x \in InGraph, Group(x) \in DOMAIN dep' PROVE Has(dep'[Group(x)], "b", x)
    <3>1. CASE x = node
      BY <1>5, <1>7, <3>1, GroupHas
    <3>2. CASE x # node
      <4>1. Group(x) \in DOMAIN dep /\ Group(x) # node
        BY <1>4, <1>7, <2>1, <3>2, Suffixes, NoSuffix
      <4>2. Has(dep[Group(x)], "b", x)
        BY <1>9, <4>1 DEF OwnInv
      <4> QED
        BY <1>8, <3>2, <4>1, <4>2
    <3> QED
      BY <3>1, <3>2
  <2> QED
    BY <1>4, <2>1 DEF OwnInv
<1> QED
  BY <1>10, <1>11, <1>12, <1>13

LEMMA FirstServe ==
  ASSUME IInv, TypeInv, QInv, ServeInv, NEW node \in todo, FirstPass(node)
  PROVE  ServeInv'
<1>1. /\ loop = "first" /\ loop' = "first" /\ graph' = graph /\ todo' = todo \ {node}
  BY DEF FirstPass
<1>2. /\ node \in Package /\ node \in Node /\ node \in DOMAIN dep /\ Complete(dep)
      /\ dep[node] \in Seq(Line(Node)) /\ IsFiniteSet(DOMAIN dep) /\ DOMAIN dep \subseteq File
  BY <1>1, NoSuffix, FiniteDomain DEF QInv, DomInv, TypeInv, IInv, CleanInv
<1>3. FirstStep(node)
  BY <1>1, <1>2, FirstSteps
<1>4. PICK M : \E files :
        /\ \A m : m \in M <=> Has(dep[node], "f", m)
        /\ M \subseteq DOMAIN dep \cap Node
        /\ PassStep(files, node, M)
        /\ dep' = [files EXCEPT ![node] = ToPass1(dep[node], M)]
  BY <1>3 DEF FirstStep
<1>5. PICK files :
        /\ \A m : m \in M <=> Has(dep[node], "f", m)
        /\ M \subseteq DOMAIN dep \cap Node
        /\ PassStep(files, node, M)
        /\ dep' = [files EXCEPT ![node] = ToPass1(dep[node], M)]
  BY <1>4
<1> DEFINE new == ToPass1(dep[node], M)
<1>6. /\ DOMAIN dep' = DOMAIN files /\ DOMAIN files = DOMAIN dep \cup {Pass1(m) : m \in M}
      /\ \A n \in DOMAIN files : dep'[n] = IF n = node THEN new ELSE files[n]
      /\ \A n \in DOMAIN dep : (\A m \in M : n # Pass1(m)) => files[n] = dep[n]
  BY <1>5 DEF PassStep
<1>7. /\ InGraph \subseteq Package /\ InGraph' = InGraph /\ InGraph \subseteq DOMAIN dep
      /\ DOMAIN graph = InGraph \cup {Root} /\ Root \in DOMAIN dep
  BY <1>1, GraphFiles DEF QInv, InGraph, TypeInv
<1>8. ASSUME NEW n \in DOMAIN dep, n \in Node \cup {Root}, n # node PROVE dep'[n] = dep[n]
  BY <1>5, <1>6, <1>8, NoSuffix
<1> SUFFICES ASSUME ~ External(graph), OneRole(graph)
             PROVE  KeepInv' /\ WaitInv' /\ JoinInv' /\ OwnInv'
  BY <1>1 DEF ServeInv
<1>9. KeepInv'
  BY <1>1 DEF KeepInv, Pending
<1>10. WaitInv'
  <2>1. ASSUME NEW p, NEW x, Served(p, x)
        PROVE  \E q, id : q # "a" /\ Has(dep'[p], q, id) /\ id \in GroupNames(x)
    <3>1. PICK q, id : q # "a" /\ Has(dep[p], q, id) /\ id \in GroupNames(x)
      BY <1>1, <2>1 DEF ServeInv, WaitInv, Pending
    <3>2. p \in DOMAIN dep /\ p \in Node \cup {Root} /\ x \in Package
      BY <1>7, <2>1, NoSuffix DEF Served
    <3>3. CASE p # node
      BY <1>8, <3>1, <3>2, <3>3
    <3>4. CASE p = node
      <4>1. dep'[p] = new
        BY <1>2, <1>6, <3>4
      <4>2. id = Group(x)
        BY <1>2, <3>1, <3>2, <3>4, HasType, NoSuffix DEF GroupNames
      <4>3. CASE id \notin M
        <5>1. Has(new, q, id)
          BY <1>2, <3>1, <3>4, <4>3, HasToPass1
        <5> QED
          BY <3>1, <4>1, <5>1
      <4>4. CASE id \in M
        <5>1. Has(new, "b", Pass1(id))
          BY <1>2, <1>5, <4>4, HasToPass1
        <5>2. Pass1(id) \in GroupNames(x)
          BY <4>2 DEF GroupNames
        <5>3. "b" # "a"
          OBVIOUS
        <5> QED
          BY <4>1, <5>1, <5>2, <5>3
      <4> QED
        BY <4>3, <4>4
    <3> QED
      BY <3>3, <3>4
  <2>2. \A p, x : Served(p, x)' <=> Served(p, x)
    BY <1>1, <1>7 DEF Served
  <2> QED
    BY <1>1, <2>1, <2>2 DEF WaitInv, Pending
<1>11. JoinInv'
  <2>1. ASSUME NEW x \in InGraph, NEW c \in InGraph, Has(graph[x], "a", c),
               NEW n \in GroupNames(x) \cap DOMAIN dep'
        PROVE  \E id \in {c, Group(c)} : Has(dep'[n], "b", id) /\ Apart(dep', id, Group(x))
    <3>1. Group(x) \in Node /\ n # node /\ x \in Package
      BY <1>2, <1>7, NodeNames, NoSuffix
    <3>2. \A id : Apart(dep, id, Group(x)) => Apart(dep', id, Group(x))
      BY <1>2, <1>3, FirstKeepsShut DEF Apart
    <3>3. CASE \A m \in M : n # Pass1(m)
      <4>1. n \in DOMAIN dep /\ dep'[n] = dep[n]
        BY <1>6, <2>1, <3>1, <3>3
      <4> QED
        BY <2>1, <3>2, <4>1 DEF ServeInv, JoinInv
    <3>4. CASE \E m \in M : n = Pass1(m)
      <4>1. PICK m \in M : n = Pass1(m)
        BY <3>4
      <4>2. m = Group(x) /\ m \in DOMAIN dep /\ dep'[n] = files[Pass1(m)]
        BY <1>5, <1>6, <2>1, <3>1, <4>1, NodeNames
      <4>3. PICK k \in GroupNames(x) \cap DOMAIN dep : Original(m) = dep[k]
        BY <4>2 DEF Original, GroupNames
      <4>4. PICK id \in {c, Group(c)} : Has(dep[k], "b", id) /\ Apart(dep, id, Group(x))
        BY <2>1 DEF ServeInv, JoinInv
      <4>5. PICK l \in LinesOf(Original(m)) : l.qual = "b" /\ l.id = id
        BY <4>3, <4>4, HasOfLines
      <4>6. Apart(dep, id, node)
        <5>1. PICK A : Shut(dep, A) /\ id \in A /\ Group(x) \notin A
          BY <4>4 DEF Apart
        <5>2. Group(x) \in Targets(dep[node])
          BY <1>5, <4>1, <4>2, HasTargets
        <5>3. node \notin A
          BY <1>2, <5>1, <5>2 DEF Shut, Closed
        <5> QED
          BY <5>1, <5>3 DEF Apart
      <4>7. l \in LinesOf(files[Pass1(m)])
        BY <1>5, <4>1, <4>5, <4>6 DEF PassStep
      <4>8. Has(dep'[n], "b", id)
        BY <4>2, <4>5, <4>7, HasOfLines
      <4> QED
        BY <3>2, <4>4, <4>8
    <3> QED
      BY <3>3, <3>4
  <2> QED
    BY <1>1, <1>7, <2>1 DEF JoinInv
<1>12. OwnInv'
  <2>1. ASSUME NEW x \in InGraph, Group(x) \in DOMAIN dep' PROVE Has(dep'[Group(x)], "b", x)
    <3>1. Group(x) \in Node /\ Group(x) # node
      BY <1>2, <1>7, NoSuffix
    <3>2. Group(x) \in DOMAIN dep
      BY <1>5, <1>6, <2>1, <3>1, NoSuffix
    <3> QED
      BY <1>8, <3>1, <3>2 DEF ServeInv, OwnInv
  <2> QED
    BY <1>7, <2>1 DEF OwnInv
<1> QED
  BY <1>9, <1>10, <1>11, <1>12

LEMMA ServeInductive ==
  ASSUME PartOf = {}, IInv, TypeInv, QInv, ServeInv, [Next]_vars
  PROVE  ServeInv'
<1>1. CASE UNCHANGED vars \/ Finish
  <2>1. /\ dep' = dep /\ graph' = graph /\ todo' = todo
        /\ loop' = loop \/ (loop = "first" /\ loop' = "done")
    BY <1>1 DEF vars, Finish
  <2>2. InGraph' = InGraph /\ \A x : Pending(x)' <=> Pending(x)
    BY <2>1 DEF InGraph, Pending
  <2> SUFFICES ASSUME ~ External(graph), OneRole(graph)
               PROVE  KeepInv' /\ WaitInv' /\ JoinInv' /\ OwnInv'
    BY <2>1 DEF ServeInv
  <2>3. KeepInv' /\ OwnInv'
    BY <2>1, <2>2 DEF ServeInv, KeepInv, OwnInv
  <2>4. JoinInv'
    BY <2>1, <2>2 DEF ServeInv, JoinInv, Apart, Shut, Closed
  <2>5. WaitInv'
    <3>1. \A p, x : Served(p, x)' <=> Served(p, x)
      BY <2>1, <2>2 DEF Served
    <3> QED
      BY <2>1, <2>2, <3>1 DEF ServeInv, WaitInv
  <2> QED
    BY <2>3, <2>4, <2>5
<1> QED
  BY <1>1, DanglingServe, GroupServe, FirstServe, StartAfterServe, StartFirstServe DEF Next

LEMMA AllServed ==
  ASSUME IInv, TypeInv, QInv, ServeInv, Done, ~ External(graph), OneRole(graph),
         NEW p, NEW x, Served(p, x), NEW c \in InGraph, Has(graph[x], "a", c)
  PROVE  HasPath(dep, p, c, 3)
<1>1. /\ IsFiniteSet(DOMAIN dep) /\ FilesTo(dep, Target) /\ Light(dep) /\ Complete(dep)
      /\ DOMAIN graph = InGraph \cup {Root} /\ InGraph \subseteq DOMAIN dep
      /\ Root \in DOMAIN dep
  BY FiniteDomain, GraphFiles DEF Done, QInv, LightInv, TypeInv, IInv, CleanInv
<1>2. PICK q, id : Has(dep[p], q, id) /\ id \in GroupNames(x)
  BY DEF ServeInv, WaitInv, Pending, Done
<1>3. p \in DOMAIN dep /\ x \in InGraph
  BY <1>1 DEF Served
<1>4. id \in DOMAIN dep
  BY <1>1, <1>2, <1>3, HasType DEF Complete
<1>5. PICK s \in {c, Group(c)} : Has(dep[id], "b", s)
  BY <1>2, <1>3, <1>4 DEF ServeInv, JoinInv
<1>6. s \in DOMAIN dep
  BY <1>1, <1>4, <1>5, HasType DEF Complete
<1>7. s = c \/ Has(dep[s], "b", c)
  BY <1>5, <1>6 DEF ServeInv, OwnInv
<1>8. ASSUME NEW A, p \in A, Closed(dep, A) PROVE c \in A
  <2>1. id \in A
    BY <1>2, <1>3, <1>8, HasTargets DEF Closed
  <2>2. s \in A
    BY <1>4, <1>5, <1>8, <2>1, HasTargets DEF Closed
  <2> QED
    BY <1>6, <1>7, <1>8, <2>2, HasTargets DEF Closed
<1> QED
  BY <1>1, <1>8, LightPath

(* When clean_subgraph ends, a parent that needs a node leads to all that  *)
(* is to run with the node, as "the only safe way to consider" the         *)
(* "after" qualifiers has it, unless one of these leads to the parent.     *)
(* This is so if no name contains another: grep and sed take the end of a  *)
(* name for the name.                                                      *)
THEOREM AfterIsServed ==
  ASSUME PartOf = {}
  PROVE  Spec => []AfterServesParents
<1>1. Init => IInv /\ TypeInv /\ QInv /\ ServeInv
  BY InitInv, InitTypes, InitQ, InitServe
<1>2. IInv /\ TypeInv /\ QInv /\ ServeInv /\ [Next]_vars
        => IInv' /\ TypeInv' /\ QInv' /\ ServeInv'
  BY FilesInductive, ServeInductive
<1>3. IInv /\ TypeInv /\ QInv /\ ServeInv => AfterServesParents
  <2> SUFFICES ASSUME IInv, TypeInv, QInv, ServeInv, Done, ~ External(graph), OneRole(graph),
                      NEW parent \in DOMAIN graph, NEW node \in InGraph,
                      NEW i \in 1 .. Len(graph[parent]),
                      graph[parent][i].id = node, graph[parent][i].qual # "a",
                      \A s \in Targets(Qualified(graph[node], "a")) \cap InGraph :
                        ~ HasPath(graph, s, parent, 3),
                      NEW c \in Targets(Qualified(graph[node], "a")) \cap InGraph
               PROVE  HasPath(dep, parent, c, 3)
    BY DEF AfterServesParents
  <2>1. graph[node] \in Seq(Line(Package)) /\ DomInv
    BY GraphFiles DEF QInv, FilesTo
  <2>2. \A id : id \in Targets(Qualified(graph[node], "a")) <=> Has(graph[node], "a", id)
    BY <2>1, HasQualified
  <2>3. Has(graph[parent], graph[parent][i].qual, node)
    BY HasLine
  <2>4. Served(parent, node)
    BY <2>2, <2>3 DEF Served
  <2>5. Has(graph[node], "a", c)
    BY <2>2
  <2> QED
    BY <2>4, <2>5, AllServed
<1> QED
  BY <1>1, <1>2, <1>3, PTL DEF Spec

-------------------------------------------------------------------------------
(***************************************************************************)
(* What is reached from root: the invariant, and that the loops keep it.   *)
(***************************************************************************)

(* A line for a first pass of the group of x.                              *)
WantsGroup(file, x) == Has(file, "f", Group(x)) \/ Has(file, "b", Pass1(Group(x)))

(* The files that are not first passes.                                    *)
Sources == Node \cup {Root}

(* S has what is followed from root: the lines to nodes that are not       *)
(* "first", and through a group that is wanted first, all its lines but    *)
(* the one to its own node, which its first pass may have lost.            *)
Followed(files, S) ==
  /\ Root \in S
  /\ \A n \in S \cap DOMAIN files \cap Sources :
       /\ \A q, id : q # "f" /\ id \in Node /\ Has(files[n], q, id) => id \in S
       /\ \A x \in Package : \A id :
            WantsGroup(files[n], x) /\ Group(x) \in DOMAIN files
              /\ id # x /\ Has(files[Group(x)], "b", id) => id \in S

(* What follows from S: its nodes, and the groups they want first.         *)
Attained(files, S, n) ==
  \/ n \in S
  \/ \E x \in Package, m \in S \cap DOMAIN files \cap Sources :
       n = Group(x) /\ WantsGroup(files[m], x)

(* No package is reached from root by "first" lines only.                  *)
AllReached == InGraph \subseteq Reachable(WithoutQualifier(graph, "f"), Root, 3)

(* The third loop has not dealt with the "first" dependencies of n.        *)
Whole(n) == loop \in {"dangling", "after"} \/ (loop = "first" /\ n \in todo)

(* Until then, the lines of n have the qualifiers they have in the graph.  *)
SameInv ==
  \A n \in InGraph : Whole(n) =>
    \A q, id, y : y \in Package /\ id \in Names(y) /\ Has(dep[n], q, id) => Has(graph[n], q, y)

(* The first loop removes no line to a package of the graph.               *)
PlainInv ==
  loop = "dangling" =>
    \A n \in DOMAIN graph : \A q, id : id \in InGraph /\ Has(graph[n], q, id) => Has(dep[n], q, id)

(* A package has a line to what it wants first, or to the group of that,   *)
(* and to its first pass once the third loop has dealt with the package.   *)
WantInv ==
  \A p, y \in InGraph : Has(graph[p], "f", y) =>
    \E id \in {y, Group(y)} :
      IF Whole(p) THEN Has(dep[p], "f", id) ELSE Has(dep[p], "b", Pass1(id))

(* The first pass of a group has all that the group adds to its node.      *)
CopyInv ==
  \A x \in InGraph : Pass1(Group(x)) \in DOMAIN dep =>
    /\ Group(x) \in DOMAIN dep
    /\ \A id : id # x /\ Has(dep[Group(x)], "b", id) => Has(dep[Pass1(Group(x))], "b", id)

(* Every node is attained from root.                                       *)
ReachInv ==
  loop # "dangling" /\ AllReached =>
    \A S : Followed(dep, S) => \A n \in DOMAIN dep \cap Node : Attained(dep, S, n)

(* Nothing gets lost.                                                      *)
LostInv ==
  ~ External(graph) /\ OneRole(graph) =>
    SameInv /\ PlainInv /\ WantInv /\ CopyInv /\ ReachInv

-------------------------------------------------------------------------------
LEMMA RootReaches ==
  ASSUME DomInv, AllReached, NEW A, Root \in A,
         \A n \in A \cap DOMAIN graph : \A q, id : q # "f" /\ Has(graph[n], q, id) => id \in A
  PROVE  InGraph \subseteq A
<1> DEFINE plain == WithoutQualifier(graph, "f")
<1>1. FilesTo(graph, Package) /\ IsFiniteSet(DOMAIN graph)
  BY GraphFiles
<1>2. ASSUME NEW n \in DOMAIN graph
      PROVE  /\ plain[n] \in Seq(Line(Package))
             /\ \A q, id : Has(plain[n], q, id) => Has(graph[n], q, id) /\ q # "f"
  <2> DEFINE keep == {i \in DOMAIN graph[n] : graph[n][i].qual # "f"}
             file == Kept(graph[n], keep)
  <2>1. plain[n] = file
    BY DEF WithoutQualifier
  <2>2. graph[n] \in Seq(Line(Package))
    BY <1>1 DEF FilesTo
  <2>3. \A i \in 1 .. Len(graph[n]) : i \in keep <=> graph[n][i].qual # "f"
    OBVIOUS
  <2> HIDE DEF keep
  <2>4. file \in Seq(Line(Package))
    BY <2>2, KeptFile
  <2>5. ASSUME NEW q, NEW id, Has(file, q, id) PROVE Has(graph[n], q, id) /\ q # "f"
    <3>1. \E i \in 1 .. Len(graph[n]) : i \in keep /\ graph[n][i].qual = q /\ graph[n][i].id = id
      BY <2>2, <2>5, HasKept
    <3> QED
      BY <2>3, <3>1 DEF Has
  <2> HIDE DEF file
  <2> QED
    BY <2>1, <2>4, <2>5
<1>3. DOMAIN plain = DOMAIN graph
  BY DEF WithoutQualifier
<1> HIDE DEF plain
<1>4. FilesTo(plain, Package) /\ IsFiniteSet(DOMAIN plain)
  BY <1>1, <1>2, <1>3 DEF FilesTo
<1>5. Closed(plain, A)
  <2>1. ASSUME NEW n \in A \cap DOMAIN plain, NEW id \in Targets(plain[n]) PROVE id \in A
    <3>1. PICK q : Has(plain[n], q, id)
      BY <2>1, HasTargets
    <3> QED
      BY <1>2, <1>3, <2>1, <3>1
  <2> QED
    BY <2>1 DEF Closed
<1>6. ASSUME NEW x \in InGraph PROVE x \in A
  <2>1. HasPath(plain, Root, x, 3)
    BY DEF AllReached, HasPath, plain
  <2> QED
    BY <1>4, <1>5, <2>1, PathInside
<1> QED
  BY <1>6

LEMMA InitLost == Init => LostInv
<1> SUFFICES ASSUME Init PROVE SameInv /\ PlainInv /\ WantInv /\ CopyInv /\ ReachInv
  BY DEF LostInv
<1>1. dep = graph /\ loop = "dangling" /\ TypeInv /\ QInv
  BY InitTypes, InitQ DEF Init
<1>2. /\ InGraph \subseteq Package /\ FilesTo(graph, Package) /\ DOMAIN graph = InGraph \cup {Root}
  BY <1>1, GraphFiles DEF QInv
<1>3. \A x \in Package : Pass1(Group(x)) \notin DOMAIN dep
  BY <1>1, NoSuffix DEF TypeInv
<1>4. SameInv
  <2>1. ASSUME NEW n \in InGraph, NEW q, NEW id, NEW y \in Package, id \in Names(y),
               Has(graph[n], q, id)
        PROVE  id = y
    <3>1. id \in Package
      BY <1>2, <2>1, HasType DEF FilesTo
    <3> QED
      BY <2>1, <3>1, NamesOnce DEF Names
  <2> QED
    BY <1>1, <2>1 DEF SameInv
<1>5. PlainInv /\ WantInv /\ ReachInv
  BY <1>1 DEF PlainInv, WantInv, ReachInv, Whole
<1> QED
  BY <1>2, <1>3, <1>4, <1>5 DEF CopyInv

LEMMA DanglingLost ==
  ASSUME IInv, TypeInv, QInv, LostInv, NEW node \in todo, RemoveDangling(node)
  PROVE  LostInv'
<1> DEFINE ids == {id \in Targets(dep[node]) : id \notin DOMAIN dep}
           file == Without(dep[node], ids)
<1>1. /\ loop = "dangling" /\ loop' = "dangling" /\ graph' = graph
      /\ dep' = [dep EXCEPT ![node] = file] /\ node \in DOMAIN dep
  BY DEF RemoveDangling, IInv
<1>2. FilesTo(dep, Package) /\ DOMAIN dep \subseteq Package \cup {Root}
  BY <1>1 DEF TypeInv
<1>3. dep[node] \in Seq(Line(Package))
  BY <1>1, <1>2 DEF FilesTo
<1>4. \A id \in DOMAIN dep : id \notin ids
  OBVIOUS
<1> HIDE DEF ids
<1>5. \A q, id : /\ Has(file, q, id) => Has(dep[node], q, id)
                 /\ id \in DOMAIN dep /\ Has(dep[node], q, id) => Has(file, q, id)
  BY <1>3, <1>4, HasWithout
<1> HIDE DEF file
<1>6. /\ DOMAIN dep' = DOMAIN dep
      /\ \A n \in DOMAIN dep : \A q, id :
           /\ Has(dep'[n], q, id) => Has(dep[n], q, id)
           /\ id \in DOMAIN dep /\ Has(dep[n], q, id) => Has(dep'[n], q, id)
  BY <1>1, <1>5
<1>7. InGraph \subseteq Package /\ InGraph \subseteq DOMAIN dep /\ InGraph' = InGraph
      /\ DOMAIN graph = InGraph \cup {Root} /\ Root \in DOMAIN dep
  BY <1>1, GraphFiles DEF QInv, InGraph, TypeInv
<1>8. \A x \in Package : Pass1(Group(x)) \notin DOMAIN dep
  BY <1>1, NoSuffix DEF TypeInv
<1> SUFFICES ASSUME ~ External(graph), OneRole(graph)
             PROVE  SameInv' /\ PlainInv' /\ WantInv' /\ CopyInv' /\ ReachInv'
  BY <1>1 DEF LostInv
<1>9. SameInv'
  <2>1. ASSUME NEW n \in InGraph, NEW q, NEW id, NEW y \in Package, id \in Names(y),
               Has(dep'[n], q, id)
        PROVE  Has(graph[n], q, y)
    BY <1>1, <1>6, <1>7, <2>1 DEF LostInv, SameInv, Whole
  <2> QED
    BY <1>1, <1>7, <2>1 DEF SameInv
<1>10. PlainInv'
  BY <1>1, <1>6, <1>7 DEF LostInv, PlainInv
<1>11. WantInv'
  <2>1. ASSUME NEW p \in InGraph, NEW y \in InGraph, Has(graph[p], "f", y)
        PROVE  Has(dep'[p], "f", y)
    BY <1>1, <1>6, <1>7, <2>1 DEF LostInv, PlainInv
  <2> QED
    BY <1>1, <1>7, <2>1 DEF WantInv, Whole
<1>12. CopyInv' /\ ReachInv'
  BY <1>1, <1>6, <1>7, <1>8 DEF CopyInv, ReachInv
<1> QED
  BY <1>9, <1>10, <1>11, <1>12

LEMMA StartAfterLost ==
  ASSUME IInv, TypeInv, QInv, LostInv, StartAfter
  PROVE  LostInv'
<1>1. /\ loop = "dangling" /\ loop' = "after" /\ graph' = graph /\ dep' = dep
  BY DEF StartAfter
<1>2. FilesTo(dep, Package) /\ DOMAIN dep \subseteq Package \cup {Root} /\ DomInv
  BY <1>1 DEF TypeInv, QInv
<1>3. /\ InGraph \subseteq Package /\ InGraph \subseteq DOMAIN dep /\ InGraph' = InGraph
      /\ DOMAIN graph = InGraph \cup {Root} /\ FilesTo(graph, Package)
      /\ \A q, id : Has(graph[Root], q, id) => q = "b" /\ id \in InGraph
      /\ \A x \in Package : \A n \in Names(x) \cap DOMAIN dep : x \in InGraph
  BY <1>1, <1>2, GraphFiles DEF InGraph
<1>4. \A x \in Package : Pass1(Group(x)) \notin DOMAIN dep
  BY <1>1, NoSuffix DEF TypeInv
<1> SUFFICES ASSUME ~ External(graph), OneRole(graph)
             PROVE  SameInv' /\ PlainInv' /\ WantInv' /\ CopyInv' /\ ReachInv'
  BY <1>1 DEF LostInv
<1>5. SameInv' /\ PlainInv' /\ WantInv'
  BY <1>1, <1>3 DEF LostInv, SameInv, PlainInv, WantInv, Whole
<1>6. CopyInv'
  BY <1>1, <1>3, <1>4 DEF CopyInv
<1>7. ReachInv'
  <2>1. ASSUME AllReached, NEW S, Followed(dep, S), NEW n \in DOMAIN dep \cap Node
        PROVE  n \in S
    <3> DEFINE A == S \cup (Package \ InGraph)
    <3>1. ASSUME NEW m \in A \cap DOMAIN graph, NEW q, NEW id, q # "f", Has(graph[m], q, id)
          PROVE  id \in A
      <4>1. m \in S /\ m \in DOMAIN dep \cap Sources
        BY <1>2, <1>3, <3>1, NoSuffix DEF Sources, Followed, DomInv, TypeInv
      <4>2. id \in Package
        BY <1>3, <3>1, HasType DEF FilesTo
      <4>3. CASE id \in InGraph
        <5>1. Has(dep[m], q, id)
          BY <1>1, <3>1, <4>3 DEF LostInv, PlainInv
        <5> QED
          BY <2>1, <3>1, <4>1, <4>2, <5>1, NoSuffix DEF Followed
      <4> QED
        BY <4>2, <4>3
    <3>2. Root \in A
      BY <2>1 DEF Followed
    <3> HIDE DEF A
    <3>3. InGraph \subseteq A
      BY <1>2, <2>1, <3>1, <3>2, RootReaches
    <3>4. n \in InGraph
      <4>1. n \in Package /\ n \in Names(n)
        BY <1>2, <2>1, NoSuffix DEF Names
      <4> QED
        BY <1>3, <4>1
    <3> QED
      BY <3>3, <3>4 DEF A
  <2>2. AllReached' <=> AllReached
    BY <1>1, <1>3 DEF AllReached
  <2> QED
    BY <1>1, <2>1, <2>2 DEF ReachInv, Attained
<1> QED
  BY <1>5, <1>6, <1>7

LEMMA StartFirstLost ==
  ASSUME IInv, TypeInv, QInv, LostInv, StartFirst
  PROVE  LostInv'
<1>1. /\ loop = "after" /\ loop' = "first" /\ graph' = graph /\ dep' = dep
      /\ todo' = HaveQualifier("f")
  BY DEF StartFirst
<1>2. FilesTo(dep, Node)
  BY <1>1 DEF TypeInv
<1>3. InGraph' = InGraph /\ InGraph \subseteq DOMAIN dep
  BY <1>1, GraphFiles DEF InGraph, QInv
<1> SUFFICES ASSUME ~ External(graph), OneRole(graph)
             PROVE  SameInv' /\ PlainInv' /\ WantInv' /\ CopyInv' /\ ReachInv'
  BY <1>1 DEF LostInv
<1>4. SameInv' /\ PlainInv'
  BY <1>1, <1>3 DEF LostInv, SameInv, PlainInv, Whole
<1>5. WantInv'
  <2>1. ASSUME NEW p \in InGraph, NEW y \in InGraph, Has(graph[p], "f", y)
        PROVE  p \in todo' /\ \E id \in {y, Group(y)} : Has(dep[p], "f", id)
    <3>1. PICK id \in {y, Group(y)} : Has(dep[p], "f", id)
      BY <1>1, <2>1 DEF LostInv, WantInv, Whole
    <3>2. dep[p] \in Seq(Line(Node)) /\ p \in DOMAIN dep
      BY <1>2, <1>3 DEF FilesTo
    <3>3. Targets(Qualified(dep[p], "f")) # {}
      BY <3>1, <3>2, HasQualified
    <3>4. Qualified(dep[p], "f") # <<>>
      BY <3>3 DEF Targets
    <3> QED
      BY <1>1, <3>1, <3>2, <3>4 DEF HaveQualifier
  <2> QED
    BY <1>1, <1>3, <2>1 DEF WantInv, Whole
<1>6. CopyInv'
  BY <1>1, <1>3 DEF LostInv, CopyInv
<1>7. ReachInv'
  <2>1. AllReached' <=> AllReached
    BY <1>1, <1>3 DEF AllReached
  <2> QED
    BY <1>1, <2>1 DEF LostInv, ReachInv
<1> QED
  BY <1>4, <1>5, <1>6, <1>7

(* A set that is followed afterwards has been followed before, or would    *)
(* have been with what the "after" dependencies of the node lead to.       *)
LEMMA GroupReach ==
  ASSUME PartOf = {}, IInv, TypeInv, QInv, ServeInv, LostInv, NEW node \in todo, GroupAfter(node),
         ~ External(graph), OneRole(graph), AllReached, NEW S, Followed(dep', S)
  PROVE  \A n \in DOMAIN dep' \cap Node : Attained(dep', S, n)
<1> DEFINE g == Group(node)
           free == FreeParents(node)
           H == {n \in Node : \E s : Has(dep[node], "a", s) /\ HasPath(dep, s, n, 3)}
<1>1. loop = "after"
  BY DEF GroupAfter
<1>2. /\ g \notin DOMAIN dep /\ Root \in DOMAIN dep
      /\ DOMAIN dep \subseteq Node \cup {Root}
      /\ FilesTo(dep, Node) /\ Complete(dep) /\ IsFiniteSet(DOMAIN dep)
      /\ todo \subseteq Package /\ DomInv /\ EdgeInv /\ GroupInv /\ Light(dep)
      /\ OwnInv /\ SameInv /\ ReachInv
  BY <1>1 DEF QInv, DomInv, TypeInv, IInv, AfterInv, LightInv, ServeInv, LostInv
<1>3. GroupStep(node)
  BY <1>2, GroupSteps
<1>4. /\ InGraph \subseteq Package /\ InGraph \subseteq DOMAIN dep
      /\ node \in Package /\ node \in DOMAIN dep /\ node \in InGraph
      /\ node # Root /\ g # Root /\ g \in Node /\ node \in Node
      /\ \A x \in Package : \A n \in Names(x) \cap DOMAIN dep : x \in InGraph
  <2>1. node \in Names(node)
    BY DEF Names
  <2> QED
    BY <1>1, <1>2, <1>3, <2>1, GraphFiles, NoSuffix DEF GroupStep
<1>5. dep[node] \in Seq(Line(Node))
  BY <1>2, <1>4 DEF FilesTo
<1>6. \A n \in DOMAIN dep : \A q, id : Has(dep[n], q, id) => id \in DOMAIN dep /\ id \in Node
  BY <1>2, HasType DEF Complete, FilesTo
<1>7. /\ DOMAIN dep' = DOMAIN dep \cup {g}
      /\ dep'[g] = GroupFile(node)
      /\ \A n \in DOMAIN dep : \A q, id : Has(dep'[n], q, id) <=> HasAfterwards(node, n, q, id)
  BY <1>3 DEF GroupStep
(* Which lines stay, and which lead to the group instead.                  *)
<1>8. ASSUME NEW n \in DOMAIN dep, NEW q, NEW id, Has(dep[n], q, id),
             n # node \/ ~ Has(dep[n], "a", id)
      PROVE  IF n \in free /\ id = node THEN Has(dep'[n], q, g) ELSE Has(dep'[n], q, id)
  <2>1. id # g /\ ~ Has(dep[node], "a", g)
    BY <1>2, <1>4, <1>6, <1>8
  <2>2. CASE n \in free /\ id = node
    BY <1>7, <1>8, <2>1, <2>2 DEF HasAfterwards
  <2>3. CASE n \notin free \/ id # node
    BY <1>7, <1>8, <2>1, <2>3 DEF HasAfterwards
  <2> QED
    BY <2>2, <2>3
<1>9. ASSUME NEW n \in DOMAIN dep, NEW x \in Package, WantsGroup(dep[n], x)
      PROVE  /\ Has(dep'[n], "f", Group(x)) /\ Has(dep[n], "f", Group(x))
             /\ Group(x) \in DOMAIN dep /\ Group(x) # node
  <2>1. Has(dep[n], "f", Group(x)) /\ Group(x) # node
    BY <1>4, <1>6, <1>9, NoSuffix DEF WantsGroup
  <2>2. n # node \/ ~ Has(dep[n], "a", Group(x))
    <3>1. ASSUME n = node, Has(dep[n], "a", Group(x)) PROVE FALSE
      <4>1. Has(graph[node], "f", x) /\ Has(graph[node], "a", x)
        BY <1>1, <1>2, <1>4, <2>1, <3>1 DEF SameInv, Whole, Names
      <4>2. node \in DOMAIN graph
        BY <1>4 DEF InGraph
      <4> QED
        BY <4>1, <4>2 DEF OneRole, Has
    <3> QED
      BY <3>1
  <2> QED
    BY <1>6, <1>8, <2>1, <2>2
(* What S contains.                                                        *)
<1>10. /\ Root \in S
       /\ \A n \in S \cap DOMAIN dep' : \A q, id :
            q # "f" /\ id \in Node /\ Has(dep'[n], q, id) => id \in S
       /\ \A n \in S \cap DOMAIN dep', x \in Package : \A id :
            Has(dep'[n], "f", Group(x)) /\ Group(x) \in DOMAIN dep'
              /\ id # x /\ Has(dep'[Group(x)], "b", id) => id \in S
  <2>1. DOMAIN dep' \subseteq Sources
    BY <1>2, <1>4, <1>7 DEF Sources
  <2>2. ASSUME NEW n \in S \cap DOMAIN dep', NEW q, NEW id,
               q # "f", id \in Node, Has(dep'[n], q, id)
        PROVE  id \in S
    BY <2>1, <2>2 DEF Followed
  <2>3. ASSUME NEW n \in S \cap DOMAIN dep', NEW x \in Package, NEW id,
               Has(dep'[n], "f", Group(x)), Group(x) \in DOMAIN dep',
               id # x, Has(dep'[Group(x)], "b", id)
        PROVE  id \in S
    <3>1. WantsGroup(dep'[n], x)
      BY <2>3 DEF WantsGroup
    <3> QED
      BY <2>1, <2>3, <3>1 DEF Followed
  <2>4. Root \in S
    BY DEF Followed
  <2> QED
    BY <2>2, <2>3, <2>4
<1>11. "b" # "f"
  OBVIOUS
<1>12. Has(dep'[g], "b", node)
  BY <1>5, <1>4, <1>7, GroupHas
<1>13. g \in S => node \in S
  BY <1>4, <1>7, <1>10, <1>11, <1>12
<1>14. ASSUME NEW n \in S \cap DOMAIN dep, NEW x \in Package, WantsGroup(dep[n], x),
              NEW id, id # x, Has(dep[Group(x)], "b", id)
       PROVE  id \in S \/ (id = node /\ g \in S)
  <2>1. /\ Has(dep'[n], "f", Group(x)) /\ Group(x) \in DOMAIN dep /\ Group(x) # node
        /\ Group(x) \in DOMAIN dep' /\ n \in DOMAIN dep'
    BY <1>7, <1>9, <1>14
  <2>2. IF Group(x) \in free /\ id = node THEN Has(dep'[Group(x)], "b", g)
        ELSE Has(dep'[Group(x)], "b", id)
    BY <1>8, <1>14, <2>1
  <2>3. g # x
    BY <1>4, NoSuffix
  <2> QED
    BY <1>10, <1>14, <2>1, <2>2, <2>3
<1>15. ASSUME NEW s, Has(dep[node], "a", s), s # node,
              \A id : id # node /\ Has(dep'[g], "b", id) => id \in S
       PROVE  s \in S
  <2>1. s \in DOMAIN dep /\ s \in Node
    BY <1>4, <1>6, <1>15
  <2>2. PICK y \in Package : s \in Names(y)
    <3>1. s \in Target
      BY <2>1, NoSuffix
    <3> QED
      BY <3>1, HasName
  <2>3. s \in {y, Group(y)} /\ y \in InGraph
    BY <1>4, <2>1, <2>2, NodeNames
  <2>4. PICK id : Has(GroupFile(node), "b", id) /\ Occurs(s, id)
    BY <1>4, <1>5, <1>15, GroupHas
  <2>5. /\ id \in Names(y) /\ (s = Group(y) => id \in GroupNames(y))
    BY <2>2, <2>3, <2>4, Alone
  <2>6. id \in DOMAIN dep /\ id \in Node
    <3>1. id = node \/ Has(dep[node], "a", id)
      BY <1>4, <1>5, <2>4, GroupHas
    <3> QED
      BY <1>4, <1>6, <3>1
  <2>7. Has(dep'[g], "b", id)
    BY <1>7, <2>4
  <2>8. CASE id = s
    BY <1>15, <2>7, <2>8
  <2>9. CASE id # s
    <3>1. s = y /\ id = Group(y)
      <4>1. id \in {y, Group(y)}
        BY <2>2, <2>5, <2>6, NodeNames
      <4>2. s = Group(y) => id # y
        BY <2>2, <2>5, NodeNames
      <4> QED
        BY <2>3, <2>9, <4>1, <4>2
    <3>2. id # node /\ id \in S
      BY <1>4, <1>15, <2>2, <2>7, <3>1, NoSuffix
    <3>3. Has(dep[id], "b", y)
      BY <1>2, <2>3, <2>6, <3>1 DEF OwnInv
    <3>4. Has(dep'[id], "b", y)
      BY <1>8, <1>15, <2>6, <3>1, <3>2, <3>3
    <3> QED
      BY <1>7, <1>10, <1>11, <2>1, <2>6, <3>1, <3>2, <3>4
  <2> QED
    BY <2>8, <2>9
<1>16. ASSUME NEW p \in free PROVE /\ p \in DOMAIN dep /\ p \notin H
                                   /\ \E q : Has(dep[p], q, node) /\ Has(dep'[p], q, g)
  <2>1. p \in DOMAIN dep /\ \E id \in Targets(dep[p]) : Ends(node, id)
    BY DEF FreeParents
  <2>2. node \in Targets(dep[p])
    BY <2>1, Alone
  <2>3. PICK q : Has(dep[p], q, node)
    BY <2>2, HasTargets
  <2>4. Has(dep'[p], q, g)
    <3>1. ~ Has(dep[node], "a", g)
      BY <1>2, <1>4, <1>6
    <3> QED
      BY <1>7, <2>1, <2>3, <3>1 DEF HasAfterwards
  <2>5. p \notin H
    BY <1>5, HasQualified DEF FreeParents
  <2> QED
    BY <2>1, <2>3, <2>4, <2>5
<1> HIDE DEF free, H
(* The group is followed, or its parents in S want it first.               *)
<1>17. CASE g \in S \/ \E p \in S \cap DOMAIN dep : Has(dep'[p], "f", g)
  <2>1. \A id : id # node /\ Has(dep'[g], "b", id) => id \in S
    <3>1. CASE g \in S
      <4>1. ASSUME NEW id, Has(dep'[g], "b", id) PROVE id \in Node
        <5>1. id = node \/ Has(dep[node], "a", id)
          BY <1>4, <1>5, <1>7, <4>1, GroupHas
        <5> QED
          BY <1>4, <1>6, <5>1
      <4> QED
        BY <1>7, <1>10, <1>11, <3>1, <4>1
    <3>2. CASE \E p \in S \cap DOMAIN dep : Has(dep'[p], "f", g)
      BY <1>4, <1>7, <1>10, <3>2
    <3> QED
      BY <1>17, <3>1, <3>2
  <2>2. ASSUME NEW n \in S \cap DOMAIN dep, NEW q, NEW id, q # "f", Has(dep[n], q, id)
        PROVE  id \in S
    <3>1. CASE n = node /\ Has(dep[node], "a", id)
      BY <1>15, <2>1, <2>2, <3>1
    <3>2. CASE n # node \/ ~ Has(dep[n], "a", id)
      <4>1. IF n \in free /\ id = node THEN Has(dep'[n], q, g) ELSE Has(dep'[n], q, id)
        BY <1>8, <2>2, <3>2
      <4>2. id \in Node /\ n \in S \cap DOMAIN dep'
        BY <1>6, <1>7, <2>2
      <4> QED
        BY <1>4, <1>10, <1>13, <2>2, <4>1, <4>2
    <3> QED
      BY <3>1, <3>2
  <2>3. Followed(dep, S)
    <3>1. \A n \in S \cap DOMAIN dep \cap Sources : \A q, id :
            q # "f" /\ id \in Node /\ Has(dep[n], q, id) => id \in S
      BY <2>2
    <3>2. ASSUME NEW n \in S \cap DOMAIN dep \cap Sources, NEW x \in Package, NEW id,
                 WantsGroup(dep[n], x), id # x, Has(dep[Group(x)], "b", id)
          PROVE  id \in S
      BY <1>13, <1>14, <3>2
    <3>3. \A n \in S \cap DOMAIN dep \cap Sources : \A x \in Package : \A id :
            WantsGroup(dep[n], x) /\ Group(x) \in DOMAIN dep
              /\ id # x /\ Has(dep[Group(x)], "b", id) => id \in S
      BY <3>2
    <3> QED
      BY <1>10, <3>1, <3>3 DEF Followed
  <2>4. \A n \in DOMAIN dep \cap Node : Attained(dep, S, n)
    BY <1>1, <1>2, <2>3 DEF ReachInv
  <2>5. ASSUME NEW n \in DOMAIN dep \cap Node PROVE Attained(dep', S, n)
    <3>1. CASE n \in S
      BY <3>1 DEF Attained
    <3>2. CASE n \notin S
      <4>1. PICK x \in Package, m \in S \cap DOMAIN dep \cap Sources :
              n = Group(x) /\ WantsGroup(dep[m], x)
        BY <2>4, <2>5, <3>2 DEF Attained
      <4>2. Has(dep'[m], "f", Group(x)) /\ m \in DOMAIN dep'
        BY <1>7, <1>9, <4>1
      <4> QED
        BY <4>1, <4>2 DEF Attained, WantsGroup
    <3> QED
      BY <3>1, <3>2
  <2>6. Attained(dep', S, g)
    <3>1. CASE g \in S
      BY <3>1 DEF Attained
    <3>2. CASE \E p \in S \cap DOMAIN dep : Has(dep'[p], "f", g)
      <4>1. PICK p \in S \cap DOMAIN dep : Has(dep'[p], "f", g)
        BY <3>2
      <4>2. p \in DOMAIN dep' \cap Sources
        BY <1>2, <1>7 DEF Sources
      <4> QED
        BY <1>4, <4>1, <4>2 DEF Attained, WantsGroup
    <3> QED
      BY <1>17, <3>1, <3>2
  <2> QED
    BY <1>7, <2>5, <2>6
(* Otherwise no free parent is in S, and one would not be attained from S  *)
(* and the "after" dependencies.                                           *)
<1>18. CASE g \notin S /\ ~ \E p \in S \cap DOMAIN dep : Has(dep'[p], "f", g)
  <2>1. ASSUME NEW p \in free PROVE p \notin S
    <3>1. PICK q : Has(dep'[p], q, g)
      BY <1>16
    <3> QED
      BY <1>4, <1>7, <1>10, <1>16, <1>18, <3>1
  <2>2. PICK p : p \in free
    <3>1. ASSUME free = {} PROVE FALSE
      <4>1. Has(dep'[Root], "b", g)
        BY <1>2, <1>4, <1>7, <3>1 DEF HasAfterwards, free
      <4> QED
        BY <1>2, <1>4, <1>7, <1>10, <1>11, <1>18, <4>1
    <3> QED
      BY <3>1
  <2> DEFINE T == S \cup H
  <2>3. ASSUME NEW n \in H \cap DOMAIN dep, NEW q, NEW id, Has(dep[n], q, id) PROVE id \in H
    <3>1. PICK s : Has(dep[node], "a", s) /\ HasPath(dep, s, n, 3)
      BY <2>3 DEF H
    <3>2. Closed(dep, Reachable(dep, s, 3))
      BY <1>2, LightPath
    <3>3. HasPath(dep, s, id, 3)
      BY <2>3, <3>1, <3>2, HasTargets DEF Closed, HasPath
    <3> QED
      BY <1>6, <2>3, <3>1, <3>3 DEF H
  <2>4. ASSUME NEW id, Has(dep[node], "a", id) PROVE id \in H
    <3>1. HasPath(dep, id, id, 3)
      BY <1>2, LightPath DEF HasPath
    <3> QED
      BY <1>4, <1>6, <2>4, <3>1 DEF H
  <2>5. ASSUME NEW n \in T \cap DOMAIN dep, NEW q, NEW id, q # "f", Has(dep[n], q, id)
        PROVE  id \in T
    <3>1. CASE n \in H
      BY <2>3, <2>5, <3>1
    <3>2. CASE n = node /\ Has(dep[node], "a", id)
      BY <2>4, <3>2
    <3>3. CASE n \in S /\ (n # node \/ ~ Has(dep[n], "a", id))
      <4>1. Has(dep'[n], q, id)
        BY <1>8, <2>1, <2>5, <3>3
      <4>2. id \in Node /\ n \in S \cap DOMAIN dep'
        BY <1>6, <1>7, <2>5, <3>3
      <4> QED
        BY <1>10, <2>5, <4>1, <4>2
    <3> QED
      BY <2>5, <3>1, <3>2, <3>3
  <2>6. ASSUME NEW n \in T \cap DOMAIN dep, NEW x \in Package, WantsGroup(dep[n], x),
               NEW id, id # x, Has(dep[Group(x)], "b", id)
        PROVE  id \in T
    <3>1. CASE n \in H
      <4>1. Group(x) \in DOMAIN dep /\ Has(dep[n], "f", Group(x))
        BY <1>9, <2>6
      <4>2. Group(x) \in H
        BY <2>3, <2>6, <3>1, <4>1
      <4> QED
        BY <2>3, <2>6, <4>1, <4>2
    <3>2. CASE n \in S
      BY <1>14, <1>18, <2>6, <3>2
    <3> QED
      BY <2>6, <3>1, <3>2
  <2>7. Followed(dep, T)
    <3>1. Root \in T
      BY <1>10
    <3> HIDE DEF T
    <3> QED
      <4>1. \A n \in T \cap DOMAIN dep \cap Sources : \A q, id :
              q # "f" /\ id \in Node /\ Has(dep[n], q, id) => id \in T
        BY <2>5
      <4>2. \A n \in T \cap DOMAIN dep \cap Sources : \A x \in Package : \A id :
              WantsGroup(dep[n], x) /\ Group(x) \in DOMAIN dep
                /\ id # x /\ Has(dep[Group(x)], "b", id) => id \in T
        BY <2>6
      <4> QED
        BY <3>1, <4>1, <4>2 DEF Followed
  <2>8. p \in DOMAIN dep \cap Node /\ p \notin T
    BY <1>2, <1>10, <1>16, <2>1, <2>2
  <2>9. Attained(dep, T, p)
    <3> HIDE DEF T
    <3> QED
      BY <1>1, <1>2, <2>7, <2>8 DEF ReachInv
  <2>10. PICK x \in Package, m \in T \cap DOMAIN dep \cap Sources :
           p = Group(x) /\ WantsGroup(dep[m], x)
    <3> HIDE DEF T
    <3> QED
      BY <2>8, <2>9 DEF Attained
  <2>11. Has(dep[m], "f", Group(x))
    BY <1>9, <2>10
  <2>12. CASE m \in H
    BY <2>3, <2>8, <2>10, <2>11, <2>12
  <2>13. CASE m \in S
    <3>1. PICK q : Has(dep[p], q, node)
      BY <1>16, <2>2
    <3>2. q = "b"
      BY <1>2, <2>8, <2>10, <3>1 DEF GroupInv, GroupNames
    <3>3. CASE node = x
      BY <1>2, <2>8, <2>10, <3>3
    <3>4. CASE node # x
      <4>1. /\ Has(dep'[m], "f", Group(x)) /\ Group(x) \in DOMAIN dep /\ Group(x) # node
            /\ m \in S \cap DOMAIN dep'
        BY <1>7, <1>9, <2>10, <2>13
      <4>2. Has(dep'[Group(x)], "b", g)
        BY <1>8, <2>2, <2>10, <3>1, <3>2, <4>1
      <4>3. g # x
        BY <1>4, NoSuffix
      <4>4. g \in S
        BY <1>7, <1>10, <4>1, <4>2, <4>3
      <4> QED
        BY <1>18, <4>4
    <3> QED
      BY <3>3, <3>4
  <2> QED
    BY <2>10, <2>12, <2>13
<1> QED
  BY <1>17, <1>18

LEMMA GroupLost ==
  ASSUME PartOf = {}, IInv, TypeInv, QInv, ServeInv, LostInv, NEW node \in todo, GroupAfter(node)
  PROVE  LostInv'
<1>1. /\ loop = "after" /\ loop' = "after" /\ graph' = graph
  BY DEF GroupAfter
<1>2. /\ Group(node) \notin DOMAIN dep /\ Root \in DOMAIN dep
      /\ DOMAIN dep \subseteq Node \cup {Root}
      /\ FilesTo(dep, Node) /\ Complete(dep) /\ IsFiniteSet(DOMAIN dep)
      /\ todo \subseteq Package /\ DomInv /\ EdgeInv
  BY <1>1 DEF QInv, DomInv, TypeInv, IInv, AfterInv
<1>3. GroupStep(node)
  BY <1>2, GroupSteps
<1>4. /\ InGraph \subseteq Package /\ InGraph \subseteq DOMAIN dep /\ InGraph' = InGraph
      /\ DOMAIN graph = InGraph \cup {Root} /\ Root \notin Package
      /\ node \in Package /\ node \in DOMAIN dep /\ node \in InGraph
  <2>1. node \in Names(node)
    BY DEF Names
  <2> QED
    BY <1>1, <1>2, <1>3, <2>1, GraphFiles DEF InGraph, GroupStep
<1>5. \A n \in DOMAIN dep : \A q, id : Has(dep[n], q, id) => id \in DOMAIN dep /\ id \in Node
  BY <1>2, HasType DEF Complete, FilesTo
<1>6. /\ DOMAIN dep' = DOMAIN dep \cup {Group(node)}
      /\ \A n \in DOMAIN dep : \A q, id : Has(dep'[n], q, id) <=> HasAfterwards(node, n, q, id)
  BY <1>3 DEF GroupStep
<1> SUFFICES ASSUME ~ External(graph), OneRole(graph)
             PROVE  SameInv' /\ PlainInv' /\ WantInv' /\ CopyInv' /\ ReachInv'
  BY <1>1 DEF LostInv
<1>7. SameInv'
  <2>1. ASSUME NEW n \in InGraph, NEW q, NEW id, NEW y \in Package, id \in Names(y),
               Has(dep'[n], q, id)
        PROVE  Has(graph[n], q, y)
    <3>1. n \in DOMAIN dep /\ n # Root
      BY <1>4
    <3>2. \/ Has(dep[n], q, id)
          \/ id = Group(node) /\ Has(dep[n], q, node)
      BY <1>6, <2>1, <3>1 DEF HasAfterwards
    <3>3. CASE Has(dep[n], q, id)
      BY <1>1, <2>1, <3>3 DEF LostInv, SameInv, Whole
    <3>4. CASE id = Group(node) /\ Has(dep[n], q, node)
      <4>1. y = node /\ node \in Names(node)
        BY <1>4, <2>1, <3>4, NodeNames DEF Names
      <4> QED
        BY <1>1, <1>4, <3>4, <4>1 DEF LostInv, SameInv, Whole
    <3> QED
      BY <3>2, <3>3, <3>4
  <2> QED
    BY <1>1, <1>4, <2>1 DEF SameInv
<1>8. WantInv'
  <2>1. ASSUME NEW p \in InGraph, NEW y \in InGraph, Has(graph[p], "f", y)
        PROVE  \E id \in {y, Group(y)} : Has(dep'[p], "f", id)
    <3>1. PICK id \in {y, Group(y)} : Has(dep[p], "f", id)
      BY <1>1, <2>1 DEF LostInv, WantInv, Whole
    <3>2. p \in DOMAIN dep /\ p \in DOMAIN graph /\ id \in Names(y)
      BY <1>4, <3>1 DEF Names
    <3>3. ~ Has(dep[p], "a", id)
      BY <1>2, <2>1, <3>2, NotBoth
    <3>4. id # Group(node) /\ ~ Has(dep[node], "a", Group(node))
      BY <1>2, <1>4, <1>5, <3>1, <3>2
    <3>5. CASE id = node /\ p \in FreeParents(node)
      <4>1. Has(dep'[p], "f", Group(node))
        BY <1>6, <3>1, <3>2, <3>4, <3>5 DEF HasAfterwards
      <4>2. y = node
        BY <1>4, <3>1, <3>5, NoSuffix
      <4> QED
        BY <4>1, <4>2
    <3>6. CASE id # node \/ p \notin FreeParents(node)
      <4>1. Has(dep'[p], "f", id)
        BY <1>6, <3>1, <3>2, <3>3, <3>6 DEF HasAfterwards
      <4> QED
        BY <4>1
    <3> QED
      BY <3>5, <3>6
  <2> QED
    BY <1>1, <1>4, <2>1 DEF WantInv, Whole
<1>9. CopyInv'
  <2>1. \A x \in InGraph : Pass1(Group(x)) \notin DOMAIN dep'
    BY <1>2, <1>4, <1>6, NoSuffix
  <2> QED
    BY <1>4, <2>1 DEF CopyInv
<1>10. ReachInv'
  <2>1. ASSUME AllReached, NEW S, Followed(dep', S)
        PROVE  \A n \in DOMAIN dep' \cap Node : Attained(dep', S, n)
    BY <2>1, GroupReach
  <2>2. AllReached' <=> AllReached
    BY <1>1, <1>4 DEF AllReached
  <2> QED
    BY <2>1, <2>2 DEF ReachInv
<1>11. PlainInv'
  BY <1>1 DEF PlainInv
<1> QED
  BY <1>7, <1>8, <1>9, <1>10, <1>11

LEMMA FirstLost ==
  ASSUME IInv, TypeInv, QInv, LostInv, NEW node \in todo, FirstPass(node)
  PROVE  LostInv'
<1>1. /\ loop = "first" /\ loop' = "first" /\ graph' = graph /\ todo' = todo \ {node}
  BY DEF FirstPass
<1>2. /\ node \in Package /\ node \in Node /\ node \in DOMAIN dep /\ Complete(dep)
      /\ dep[node] \in Seq(Line(Node)) /\ IsFiniteSet(DOMAIN dep) /\ DOMAIN dep \subseteq File
  BY <1>1, NoSuffix, FiniteDomain DEF QInv, DomInv, TypeInv, IInv, CleanInv
<1>3. FirstStep(node)
  BY <1>1, <1>2, FirstSteps
<1>4. PICK M : \E files :
        /\ \A m : m \in M <=> Has(dep[node], "f", m)
        /\ M \subseteq DOMAIN dep \cap Node
        /\ PassStep(files, node, M)
        /\ dep' = [files EXCEPT ![node] = ToPass1(dep[node], M)]
  BY <1>3 DEF FirstStep
<1>5. PICK files :
        /\ \A m : m \in M <=> Has(dep[node], "f", m)
        /\ M \subseteq DOMAIN dep \cap Node
        /\ PassStep(files, node, M)
        /\ dep' = [files EXCEPT ![node] = ToPass1(dep[node], M)]
  BY <1>4
<1> DEFINE new == ToPass1(dep[node], M)
<1>6. /\ DOMAIN dep' = DOMAIN files /\ DOMAIN files = DOMAIN dep \cup {Pass1(m) : m \in M}
      /\ \A n \in DOMAIN files : dep'[n] = IF n = node THEN new ELSE files[n]
      /\ \A n \in DOMAIN dep : (\A m \in M : n # Pass1(m)) => files[n] = dep[n]
  BY <1>5 DEF PassStep
<1>7. /\ InGraph \subseteq Package /\ InGraph' = InGraph /\ InGraph \subseteq DOMAIN dep
      /\ DOMAIN graph = InGraph \cup {Root} /\ Root \in DOMAIN dep /\ node \in InGraph
      /\ \A x \in Package : \A n \in Names(x) \cap DOMAIN dep : x \in InGraph
  <2>1. node \in Names(node)
    BY DEF Names
  <2> QED
    BY <1>1, <1>2, <2>1, GraphFiles DEF QInv, InGraph, TypeInv
<1>8. ASSUME NEW n \in DOMAIN dep, n \in Sources, n # node PROVE dep'[n] = dep[n]
  BY <1>5, <1>6, <1>8, NoSuffix DEF Sources
<1> SUFFICES ASSUME ~ External(graph), OneRole(graph)
             PROVE  SameInv' /\ PlainInv' /\ WantInv' /\ CopyInv' /\ ReachInv'
  BY <1>1 DEF LostInv
<1>9. SameInv /\ WantInv /\ CopyInv /\ ReachInv /\ GroupInv
  BY DEF LostInv, QInv
(* A package that is wanted first is not listed in any other way.          *)
<1>10. ASSUME NEW m \in M, NEW q, Has(dep[node], q, m) PROVE q = "f"
  <2>1. Has(dep[node], "f", m) /\ m \in DOMAIN dep /\ m \in Node
    BY <1>5
  <2>2. PICK y \in Package : m \in Names(y)
    BY <2>1, NoSuffix, HasName
  <2>3. Has(graph[node], "f", y) /\ Has(graph[node], q, y)
    BY <1>1, <1>7, <1>9, <1>10, <2>1, <2>2 DEF SameInv, Whole
  <2>4. node \in DOMAIN graph
    BY <1>7
  <2> QED
    BY <2>3, <2>4 DEF OneRole, Has
<1>11. dep'[node] = new
  BY <1>2, <1>6
<1>12. ASSUME NEW q, NEW id, Has(dep[node], q, id), q # "f" PROVE Has(dep'[node], q, id)
  <2>1. id \notin M
    BY <1>10, <1>12
  <2> QED
    BY <1>2, <1>11, <1>12, <2>1, HasToPass1
<1>13. ASSUME NEW id, Has(dep[node], "f", id) PROVE Has(dep'[node], "b", Pass1(id))
  <2>1. id \in M
    BY <1>5, <1>13
  <2> QED
    BY <1>2, <1>11, <1>13, <2>1, HasToPass1
<1> HIDE DEF new
<1>14. SameInv' /\ PlainInv'
  <2>1. \A n \in InGraph : n \in Sources
    BY <1>7, NoSuffix DEF Sources
  <2> QED
    BY <1>1, <1>7, <1>8, <1>9, <2>1 DEF SameInv, PlainInv, Whole
<1>15. WantInv'
  <2>1. ASSUME NEW p \in InGraph, NEW y \in InGraph, Has(graph[p], "f", y)
        PROVE  \E id \in {y, Group(y)} :
                 IF p \in todo' THEN Has(dep'[p], "f", id) ELSE Has(dep'[p], "b", Pass1(id))
    <3>1. PICK id \in {y, Group(y)} :
            IF p \in todo THEN Has(dep[p], "f", id) ELSE Has(dep[p], "b", Pass1(id))
      BY <1>1, <1>9, <2>1 DEF WantInv, Whole
    <3>2. CASE p # node
      <4>1. p \in DOMAIN dep /\ p \in Sources
        BY <1>7, NoSuffix DEF Sources
      <4>2. dep'[p] = dep[p] /\ (p \in todo' <=> p \in todo)
        BY <1>1, <1>8, <3>2, <4>1
      <4> QED
        BY <3>1, <4>2
    <3>3. CASE p = node
      <4>1. p \in todo /\ p \notin todo'
        BY <1>1, <3>3
      <4>2. Has(dep'[p], "b", Pass1(id))
        BY <1>13, <3>1, <3>3, <4>1
      <4> QED
        BY <4>1, <4>2
    <3> QED
      BY <3>2, <3>3
  <2> QED
    BY <1>1, <1>7, <2>1 DEF WantInv, Whole
<1>16. CopyInv'
  <2>1. ASSUME NEW x \in InGraph, Pass1(Group(x)) \in DOMAIN dep'
        PROVE  /\ Group(x) \in DOMAIN dep /\ dep'[Group(x)] = dep[Group(x)]
               /\ \A id : id # x /\ Has(dep[Group(x)], "b", id)
                            => Has(dep'[Pass1(Group(x))], "b", id)
    <3>1. /\ x \in Package /\ Group(x) \in Node /\ Group(x) # node /\ Pass1(Group(x)) # node
          /\ \A m \in M : Group(x) # Pass1(m)
      BY <1>2, <1>5, <1>7, NoSuffix
    <3>2. Group(x) \in DOMAIN dep
      BY <1>5, <1>6, <1>9, <2>1, Suffixes DEF CopyInv
    <3>3. dep'[Group(x)] = dep[Group(x)]
      BY <1>8, <3>1, <3>2 DEF Sources
    <3>4. dep'[Pass1(Group(x))] = files[Pass1(Group(x))]
      BY <1>6, <2>1, <3>1
    <3>5. ASSUME NEW id, id # x, Has(dep[Group(x)], "b", id)
          PROVE  Has(files[Pass1(Group(x))], "b", id)
      <4>1. CASE Group(x) \notin M
        <5>1. \A m \in M : Pass1(Group(x)) # Pass1(m)
          BY <4>1, Suffixes
        <5>2. Pass1(Group(x)) \in DOMAIN dep
          BY <1>6, <2>1, <5>1
        <5> QED
          BY <1>6, <1>9, <3>5, <5>1, <5>2 DEF CopyInv
      <4>2. CASE Group(x) \in M
        <5>1. Has(Original(Group(x)), "b", id)
          BY <1>9, <3>5 DEF CopyInv, Original
        <5>2. PICK l \in LinesOf(Original(Group(x))) : l.qual = "b" /\ l.id = id
          BY <5>1, HasOfLines
        <5>3. Apart(dep, id, Group(x))
          BY <1>9, <3>1, <3>2, <3>5 DEF GroupInv, GroupNames
        <5>4. Apart(dep, id, node)
          <6>1. PICK A : Shut(dep, A) /\ id \in A /\ Group(x) \notin A
            BY <5>3 DEF Apart
          <6>2. Group(x) \in Targets(dep[node])
            BY <1>5, <4>2, HasTargets
          <6>3. node \notin A
            BY <1>2, <6>1, <6>2 DEF Shut, Closed
          <6> QED
            BY <6>1, <6>3 DEF Apart
        <5>5. l \in LinesOf(files[Pass1(Group(x))])
          BY <1>5, <4>2, <5>2, <5>4 DEF PassStep
        <5> QED
          BY <5>2, <5>5, HasOfLines
      <4> QED
        BY <4>1, <4>2
    <3> QED
      BY <3>2, <3>3, <3>4, <3>5
  <2>2. \A n \in DOMAIN dep : n \in DOMAIN dep'
    BY <1>6
  <2> QED
    BY <1>7, <2>1, <2>2 DEF CopyInv
<1>17. ReachInv'
  <2>1. ASSUME NEW n \in DOMAIN dep \cap Sources, NEW x \in Package, WantsGroup(dep[n], x)
        PROVE  WantsGroup(dep'[n], x)
    <3>1. CASE n # node
      BY <1>8, <2>1, <3>1
    <3>2. CASE n = node
      <4>1. ~ Has(dep[node], "b", Pass1(Group(x)))
        BY <1>2, HasType, NoSuffix
      <4> QED
        BY <1>13, <2>1, <3>2, <4>1 DEF WantsGroup
    <3> QED
      BY <3>1, <3>2
  <2>2. ASSUME NEW n \in DOMAIN dep \cap Sources, NEW q, NEW id, q # "f", Has(dep[n], q, id)
        PROVE  Has(dep'[n], q, id)
    BY <1>8, <1>12, <2>2
  <2>3. \A n \in DOMAIN dep : n \in DOMAIN dep'
    BY <1>6
  <2>4. \A x \in Package : Group(x) \in DOMAIN dep => dep'[Group(x)] = dep[Group(x)]
    <3>1. \A x \in Package : Group(x) # node /\ Group(x) \in Sources
      BY <1>2, NoSuffix DEF Sources
    <3> QED
      BY <1>8, <3>1
  <2>5. ASSUME NEW S, Followed(dep', S) PROVE Followed(dep, S)
    <3>1. Root \in S
      BY <2>5 DEF Followed
    <3>2. ASSUME NEW n \in S \cap DOMAIN dep \cap Sources, NEW q, NEW id,
                 q # "f", id \in Node, Has(dep[n], q, id)
          PROVE  id \in S
      <4>1. Has(dep'[n], q, id) /\ n \in DOMAIN dep'
        BY <2>2, <2>3, <3>2
      <4> QED
        BY <2>5, <3>2, <4>1 DEF Followed
    <3>3. ASSUME NEW n \in S \cap DOMAIN dep \cap Sources, NEW x \in Package, NEW id,
                 WantsGroup(dep[n], x), Group(x) \in DOMAIN dep,
                 id # x, Has(dep[Group(x)], "b", id)
          PROVE  id \in S
      <4>1. /\ WantsGroup(dep'[n], x) /\ n \in DOMAIN dep' /\ Group(x) \in DOMAIN dep'
            /\ Has(dep'[Group(x)], "b", id)
        BY <2>1, <2>3, <2>4, <3>3
      <4> QED
        BY <2>5, <3>3, <4>1 DEF Followed
    <3> QED
      BY <3>1, <3>2, <3>3 DEF Followed
  <2>6. ASSUME AllReached, NEW S, Followed(dep', S), NEW n \in DOMAIN dep' \cap Node
        PROVE  Attained(dep', S, n)
    <3>1. n \in DOMAIN dep \cap Node
      BY <1>5, <1>6, <2>6, NoSuffix
    <3>2. Attained(dep, S, n)
      BY <1>1, <1>9, <2>5, <2>6, <3>1 DEF ReachInv
    <3>3. CASE n \in S
      BY <3>3 DEF Attained
    <3>4. CASE n \notin S
      <4>1. PICK x \in Package, m \in S \cap DOMAIN dep \cap Sources :
              n = Group(x) /\ WantsGroup(dep[m], x)
        BY <3>2, <3>4 DEF Attained
      <4>2. WantsGroup(dep'[m], x) /\ m \in DOMAIN dep'
        BY <2>1, <2>3, <4>1
      <4> QED
        BY <4>1, <4>2 DEF Attained
    <3> QED
      BY <3>3, <3>4
  <2>7. AllReached' <=> AllReached
    BY <1>1, <1>7 DEF AllReached
  <2> QED
    BY <2>6, <2>7 DEF ReachInv
<1> QED
  BY <1>14, <1>15, <1>16, <1>17

LEMMA LostInductive ==
  ASSUME PartOf = {}, IInv, TypeInv, QInv, ServeInv, LostInv, [Next]_vars
  PROVE  LostInv'
<1>1. CASE UNCHANGED vars \/ Finish
  <2>1. /\ dep' = dep /\ graph' = graph /\ todo' = todo
        /\ loop' = loop \/ (loop = "first" /\ todo = {} /\ loop' = "done")
    BY <1>1 DEF vars, Finish
  <2>2. InGraph' = InGraph /\ (\A n : Whole(n)' <=> Whole(n)) /\ (AllReached' <=> AllReached)
    BY <2>1 DEF InGraph, Whole, AllReached
  <2> SUFFICES ASSUME ~ External(graph), OneRole(graph)
               PROVE  SameInv' /\ PlainInv' /\ WantInv' /\ CopyInv' /\ ReachInv'
    BY <2>1 DEF LostInv
  <2>3. SameInv' /\ WantInv'
    BY <2>1, <2>2 DEF LostInv, SameInv, WantInv
  <2>4. PlainInv' /\ CopyInv' /\ ReachInv'
    BY <2>1, <2>2 DEF LostInv, PlainInv, CopyInv, ReachInv
  <2> QED
    BY <2>3, <2>4
<1> QED
  BY <1>1, DanglingLost, GroupLost, FirstLost, StartAfterLost, StartFirstLost DEF Next

LEMMA AllFound ==
  ASSUME IInv, TypeInv, QInv, LostInv, Done, ~ External(graph), OneRole(graph), AllReached,
         NEW p \in InGraph
  PROVE  /\ p \in Reachable(dep, Root, 3)
         /\ \A q \in InGraph : Has(graph[p], "f", q) =>
              \E id \in {Pass1(q), Pass1(Group(q))} : id \in Reachable(dep, Root, 3)
<1> DEFINE reached == Reachable(dep, Root, 3)
<1>1. /\ IsFiniteSet(DOMAIN dep) /\ FilesTo(dep, Target) /\ Light(dep) /\ Complete(dep)
      /\ InGraph \subseteq DOMAIN dep /\ InGraph \subseteq Package
      /\ \A x \in Package : \A n \in Names(x) \cap DOMAIN dep : x \in InGraph
  BY FiniteDomain, GraphFiles DEF Done, QInv, LightInv, TypeInv, IInv, CleanInv
<1>2. Root \in reached /\ Closed(dep, reached)
  BY <1>1, LightPath
<1> HIDE DEF reached
<1>3. ASSUME NEW n \in reached \cap DOMAIN dep, NEW q, NEW id, Has(dep[n], q, id)
      PROVE  id \in reached
  BY <1>2, <1>3, HasTargets DEF Closed
<1>4. ASSUME NEW n \in reached \cap DOMAIN dep, NEW x \in Package, WantsGroup(dep[n], x),
             Group(x) \in DOMAIN dep, NEW id, id # x, Has(dep[Group(x)], "b", id)
      PROVE  id \in reached
  <2>1. CASE Has(dep[n], "f", Group(x))
    <3>1. Group(x) \in reached
      BY <1>3, <2>1
    <3> QED
      BY <1>3, <1>4, <3>1
  <2>2. CASE Has(dep[n], "b", Pass1(Group(x)))
    <3>1. Pass1(Group(x)) \in reached
      BY <1>3, <2>2
    <3>2. Pass1(Group(x)) \in DOMAIN dep
      BY <1>1, <2>2, HasType DEF Complete
    <3>3. x \in InGraph
      BY <1>1, <1>4 DEF Names
    <3>4. Has(dep[Pass1(Group(x))], "b", id)
      BY <1>4, <3>2, <3>3 DEF LostInv, CopyInv
    <3> QED
      BY <1>3, <3>1, <3>2, <3>4
  <2> QED
    BY <1>4, <2>1, <2>2 DEF WantsGroup
<1>5. Followed(dep, reached)
  BY <1>2, <1>3, <1>4 DEF Followed
<1>6. p \in reached
  <2>1. p \in DOMAIN dep \cap Node /\ \A x \in Package : p # Group(x)
    BY <1>1, NoSuffix
  <2>2. Attained(dep, reached, p)
    BY <1>5, <2>1 DEF LostInv, ReachInv, Done
  <2> QED
    BY <2>1, <2>2 DEF Attained
<1>7. ASSUME NEW q \in InGraph, Has(graph[p], "f", q)
      PROVE  \E id \in {Pass1(q), Pass1(Group(q))} : id \in reached
  <2>1. ~ Whole(p)
    BY DEF Whole, Done
  <2>2. PICK id \in {q, Group(q)} : Has(dep[p], "b", Pass1(id))
    BY <1>7, <2>1 DEF LostInv, WantInv
  <2>3. Pass1(id) \in reached
    BY <1>1, <1>3, <1>6, <2>2
  <2> QED
    BY <2>2, <2>3
<1> QED
  BY <1>6, <1>7 DEF reached

(* When clean_subgraph ends, root still leads to every package of the      *)
(* graph, and to a first pass of each package that one wants first, if no  *)
(* package was reached by "first" lines only: the groups and first passes  *)
(* that lines are turned to lead on to what the lines led to.  As before,  *)
(* no name contains another.                                               *)
THEOREM NothingIsLost ==
  ASSUME PartOf = {}
  PROVE  Spec => []NothingLost
<1>1. Init => IInv /\ TypeInv /\ QInv /\ ServeInv /\ LostInv
  BY InitInv, InitTypes, InitQ, InitServe, InitLost
<1>2. IInv /\ TypeInv /\ QInv /\ ServeInv /\ LostInv /\ [Next]_vars
        => IInv' /\ TypeInv' /\ QInv' /\ ServeInv' /\ LostInv'
  BY FilesInductive, ServeInductive, LostInductive
<1>3. IInv /\ TypeInv /\ QInv /\ LostInv => NothingLost
  <2> SUFFICES ASSUME IInv, TypeInv, QInv, LostInv, Done, ~ External(graph), OneRole(graph),
                      AllReached, NEW p \in InGraph
               PROVE  /\ p \in Reachable(dep, Root, 3)
                      /\ \A q \in Targets(Qualified(graph[p], "f")) \cap InGraph :
                           {Pass1(q), Pass1(Group(q))} \cap Reachable(dep, Root, 3) # {}
    BY DEF NothingLost, AllReached
  <2>1. graph[p] \in Seq(Line(Package))
    BY GraphFiles DEF QInv, FilesTo
  <2>2. ASSUME NEW q \in Targets(Qualified(graph[p], "f")) \cap InGraph
        PROVE  {Pass1(q), Pass1(Group(q))} \cap Reachable(dep, Root, 3) # {}
    <3>1. Has(graph[p], "f", q)
      BY <2>1, HasQualified
    <3>2. PICK id \in {Pass1(q), Pass1(Group(q))} : id \in Reachable(dep, Root, 3)
      BY <3>1, AllFound
    <3> QED
      BY <3>2
  <2>3. p \in Reachable(dep, Root, 3)
    BY AllFound
  <2> QED
    BY <2>2, <2>3
<1> QED
  BY <1>1, <1>2, <1>3, PTL DEF Spec
===============================================================================
