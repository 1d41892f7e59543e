----------------------------- MODULE DepFilesProofs -----------------------------
(***************************************************************************)
(* What the operators on .dep files compute: lemmas for the proofs about   *)
(* the modules that use them.                                              *)
(***************************************************************************)
EXTENDS DepFiles, FiniteSetTheorems, WellFoundedInduction, TLAPS

LEMMA LeastNat ==
  ASSUME NEW S \in SUBSET Nat, S # {}
  PROVE  \E m \in S : \A k \in S : ~(k < m)
<1>1. PICK m \in S : ~(\E k \in S : <<k, m>> \in OpToRel(<, Nat))
  BY NatLessThanWellFounded, WFMin
<1> QED
  BY <1>1 DEF OpToRel

-------------------------------------------------------------------------------
(* Induction over a set of numbers.                                        *)
LEMMA UpTo ==
  ASSUME NEW n \in Nat, NEW Good, 0 \in Good,
         \A i \in 1 .. n : i - 1 \in Good => i \in Good
  PROVE  0 .. n \subseteq Good
<1> DEFINE Bad == {i \in 0 .. n : i \notin Good}
<1> SUFFICES ASSUME Bad # {} PROVE FALSE
  OBVIOUS
<1>0. Bad \in SUBSET Nat
  OBVIOUS
<1>1. PICK i \in Bad : \A k \in Bad : ~(k < i)
  BY <1>0, LeastNat
<1>2. i \in 1 .. n /\ i - 1 \in 0 .. n /\ i - 1 < i
  BY <1>1
<1>3. i - 1 \in Good
  BY <1>1, <1>2
<1> QED
  BY <1>1, <1>2, <1>3

(* The lines kept are lines of the file, and all those at positions to     *)
(* keep.                                                                   *)
KeptFunction(file, keep, n, f) ==
  f = [i \in 0 .. n |->
         IF i = 0 THEN <<>>
         ELSE IF i \in keep THEN Append(f[i - 1], file[i]) ELSE f[i - 1]]

LEMMA KeptExists ==
  ASSUME NEW file, NEW keep, NEW n \in Nat
  PROVE  \E f : KeptFunction(file, keep, n, f)
<1> DEFINE Bad == {m \in Nat : ~ \E f : KeptFunction(file, keep, m, f)}
<1> SUFFICES ASSUME Bad # {} PROVE FALSE
  OBVIOUS
<1>1. PICK m \in Bad : \A k \in Bad : ~(k < m)
  BY LeastNat
<1>2. CASE m = 0
  <2>1. KeptFunction(file, keep, 0, [i \in 0 .. 0 |-> <<>>])
    BY DEF KeptFunction
  <2> QED
    BY <1>1, <1>2, <2>1
<1>3. CASE m # 0
  <2>1. m - 1 \in Nat /\ m - 1 < m /\ m - 1 \in 0 .. m - 1 /\ m \in 0 .. m
    BY <1>1, <1>3
  <2>2. PICK g : KeptFunction(file, keep, m - 1, g)
    BY <1>1, <2>1
  <2> DEFINE last == IF m \in keep THEN Append(g[m - 1], file[m]) ELSE g[m - 1]
             f == [i \in 0 .. m |-> IF i = m THEN last ELSE g[i]]
  <2>3. ASSUME NEW i \in 0 .. m
        PROVE  f[i] = IF i = 0 THEN <<>>
                      ELSE IF i \in keep THEN Append(f[i - 1], file[i]) ELSE f[i - 1]
    <3>1. CASE i = m
      <4>1. f[i] = last /\ i # 0 /\ f[i - 1] = g[m - 1]
        BY <3>1, <2>1, <1>3
      <4> QED
        BY <4>1, <3>1
    <3>2. CASE i # m
      <4>1. i \in 0 .. m - 1 /\ (i # 0 => i - 1 \in 0 .. m - 1 /\ i - 1 # m)
        BY <3>2, <2>1
      <4>2. g[i] = IF i = 0 THEN <<>>
                   ELSE IF i \in keep THEN Append(g[i - 1], file[i]) ELSE g[i - 1]
        BY <4>1, <2>2 DEF KeptFunction
      <4>3. f[i] = g[i] /\ (i # 0 => f[i - 1] = g[i - 1])
        BY <4>1, <3>2, <2>1
      <4> QED
        BY <4>2, <4>3
    <3> QED
      BY <3>1, <3>2
  <2>4. KeptFunction(file, keep, m, f)
    <3>1. f = [i \in 0 .. m |-> f[i]]
      OBVIOUS
    <3> HIDE DEF f
    <3> QED
      BY <3>1, <2>3 DEF KeptFunction
  <2> QED
    BY <1>1, <2>4
<1> QED
  BY <1>2, <1>3

LEMMA KeptLines ==
  ASSUME NEW L, NEW file \in Seq(L), NEW keep
  PROVE  /\ Kept(file, keep) \in Seq(L)
         /\ \A k \in 1 .. Len(Kept(file, keep)) :
              \E i \in 1 .. Len(file) : i \in keep /\ file[i] = Kept(file, keep)[k]
         /\ \A i \in 1 .. Len(file) :
              i \in keep => \E k \in 1 .. Len(Kept(file, keep)) :
                              Kept(file, keep)[k] = file[i]
<1> DEFINE n == Len(file)
           f == CHOOSE f : KeptFunction(file, keep, n, f)
           Good(i) == /\ f[i] \in Seq(L)
                      /\ \A line : (\E k \in 1 .. Len(f[i]) : f[i][k] = line)
                           <=> \E j \in 1 .. i : j \in keep /\ file[j] = line
<1>1. n \in Nat /\ \A i \in 1 .. n : file[i] \in L
  OBVIOUS
<1>2. Kept(file, keep) = f[n]
  BY DEF Kept, KeptFunction
<1>3. KeptFunction(file, keep, n, f)
  BY <1>1, KeptExists
<1> HIDE DEF f, n
<1>4. /\ f[0] = <<>>
      /\ \A i \in 1 .. n :
           f[i] = IF i \in keep THEN Append(f[i - 1], file[i]) ELSE f[i - 1]
  <2>1. 0 \in 0 .. n /\ \A i \in 1 .. n : i \in 0 .. n /\ i # 0
    BY <1>1
  <2>2. ASSUME NEW i \in 0 .. n
        PROVE  f[i] = IF i = 0 THEN <<>>
                      ELSE IF i \in keep THEN Append(f[i - 1], file[i]) ELSE f[i - 1]
    BY <1>3, Zenon DEF KeptFunction
  <2> QED
    BY <2>1, <2>2
<1>5. Good(0)
  BY <1>4
<1>6. ASSUME NEW i \in 1 .. n, Good(i - 1) PROVE Good(i)
  <2> DEFINE g == f[i - 1]
  <2>1. /\ g \in Seq(L)
        /\ \A line : (\E k \in 1 .. Len(g) : g[k] = line)
             <=> \E j \in 1 .. i - 1 : j \in keep /\ file[j] = line
    BY <1>6
  <2>2. f[i] = (IF i \in keep THEN Append(g, file[i]) ELSE g) /\ file[i] \in L
    BY <1>1, <1>4
  <2>3. /\ \A j \in 1 .. i : j = i \/ j \in 1 .. i - 1
        /\ \A j \in 1 .. i - 1 : j \in 1 .. i
        /\ i \in 1 .. i
    BY <1>1
  <2> HIDE DEF g
  <2>4. CASE i \notin keep
    BY <2>1, <2>2, <2>3, <2>4
  <2>5. CASE i \in keep
    <3>1. f[i] = Append(g, file[i])
      BY <2>2, <2>5
    <3> DEFINE h == Append(g, file[i])
    <3>2. /\ h \in Seq(L) /\ Len(g) \in Nat /\ Len(h) = Len(g) + 1
          /\ h[Len(g) + 1] = file[i]
          /\ \A k \in 1 .. Len(g) : h[k] = g[k]
      BY <2>1, <2>2
    <3> HIDE DEF h
    <3>3. /\ \A k \in 1 .. Len(h) : k = Len(g) + 1 \/ k \in 1 .. Len(g)
          /\ \A k \in 1 .. Len(g) : k \in 1 .. Len(h)
          /\ Len(g) + 1 \in 1 .. Len(h)
      BY <3>2
    <3>4. ASSUME NEW line
          PROVE  (\E k \in 1 .. Len(h) : h[k] = line)
                   <=> \E j \in 1 .. i : j \in keep /\ file[j] = line
      <4>1. (\E k \in 1 .. Len(h) : h[k] = line)
              <=> file[i] = line \/ \E k \in 1 .. Len(g) : g[k] = line
        BY <3>2, <3>3
      <4>2. (\E j \in 1 .. i : j \in keep /\ file[j] = line)
              <=> file[i] = line \/ \E j \in 1 .. i - 1 : j \in keep /\ file[j] = line
        BY <2>3, <2>5
      <4> QED
        BY <4>1, <4>2, <2>1
    <3> QED
      BY <3>1, <3>2, <3>4 DEF h
  <2> QED
    BY <2>4, <2>5
<1> HIDE DEF Good
<1>7. \A i \in 0 .. n : Good(i)
  <2> DEFINE G == {i \in 0 .. n : Good(i)}
  <2>1. 0 \in G
    BY <1>1, <1>5
  <2>2. \A i \in 1 .. n : i - 1 \in G => i \in G
    BY <1>1, <1>6
  <2>3. 0 .. n \subseteq G
    BY <1>1, <2>1, <2>2, UpTo
  <2> QED
    BY <2>3
<1>8. Good(n)
  BY <1>1, <1>7
<1>9. /\ f[n] \in Seq(L)
      /\ \A line : (\E k \in 1 .. Len(f[n]) : f[n][k] = line)
           <=> \E i \in 1 .. n : i \in keep /\ file[i] = line
  BY <1>8 DEF Good
<1> QED
  BY <1>2, <1>9 DEF n

-------------------------------------------------------------------------------
(* Closure as what all the sets contain that "next" does not leave.        *)
ClosedIn(next, T) == \A n \in T : next[n] \subseteq T

Hull(next, S) ==
  {n \in DOMAIN next : \A T \in SUBSET DOMAIN next :
                         S \subseteq T /\ ClosedIn(next, T) => n \in T}

(* The recursion of Closure has a value, by induction on the number of     *)
(* nodes that are not yet reached.                                         *)
LEMMA ClosureIsHull ==
  ASSUME NEW N, IsFiniteSet(N), NEW next \in [N -> SUBSET N], NEW S0 \in SUBSET N
  PROVE  Closure(next, S0) = Hull(next, S0)
<1> DEFINE New(T) == (UNION {next[n] : n \in T}) \ T
           H(S) == Hull(next, S)
           Def(f) ==
             f = [T \in SUBSET N |-> IF New(T) = {} THEN T ELSE f[T \cup New(T)]]
           grow == CHOOSE f : Def(f)
<1>1. \A S : \A m : m \in New(S) <=> m \notin S /\ \E n \in S : m \in next[n]
  OBVIOUS
<1>2. DOMAIN next = N /\ \A n \in N : next[n] \subseteq N
  OBVIOUS
<1>3. Closure(next, S0) = grow[S0]
  BY <1>2 DEF Closure
<1> HIDE DEF New
<1>4. \A S \in SUBSET N : New(S) \subseteq N /\ (New(S) = {} <=> ClosedIn(next, S))
  BY <1>1, <1>2 DEF ClosedIn
<1>5. ASSUME NEW S \in SUBSET N
      PROVE  (New(S) = {} => H(S) = S) /\ H(S \cup New(S)) = H(S)
  <2>1. New(S) = {} => H(S) = S
    BY <1>2, <1>4 DEF Hull
  <2>2. ASSUME NEW T \in SUBSET N, ClosedIn(next, T)
        PROVE  S \subseteq T <=> S \cup New(S) \subseteq T
    BY <1>1, <2>2 DEF ClosedIn
  <2> QED
    BY <1>2, <2>1, <2>2 DEF Hull
<1> HIDE DEF H
<1>6. Def([S \in SUBSET N |-> H(S)])
  <2>1. ASSUME NEW S \in SUBSET N
        PROVE  H(S) = IF New(S) = {} THEN S
                      ELSE [T \in SUBSET N |-> H(T)][S \cup New(S)]
    <3>1. S \cup New(S) \in SUBSET N
      BY <1>4
    <3> QED
      BY <3>1, <1>5
  <2> QED
    BY <2>1
<1>7. Def(grow)
  BY <1>6, Zenon
<1> HIDE DEF grow
<1>8. \A S \in SUBSET N : grow[S] = IF New(S) = {} THEN S ELSE grow[S \cup New(S)]
  BY <1>7
<1> DEFINE Left(S) == Cardinality(N \ S)
           Bad == {S \in SUBSET N : grow[S] # H(S)}
           Sizes == {Left(S) : S \in Bad}
<1>9. \A S \in SUBSET N : Left(S) \in Nat
  BY FS_Difference, FS_CardinalityType
<1>10. Bad = {}
  <2> SUFFICES ASSUME Bad # {} PROVE FALSE
    OBVIOUS
  <2>1. Sizes # {} /\ Sizes \in SUBSET Nat
    BY <1>9
  <2>2. PICK m \in Sizes : \A k \in Sizes : ~(k < m)
    BY <2>1, LeastNat
  <2>3. PICK S \in Bad : Left(S) = m
    OBVIOUS
  <2>4. New(S) # {} /\ New(S) \cap S = {} /\ S \cup New(S) \in SUBSET N
    BY <1>1, <1>4, <1>5, <1>8, <2>3
  <2>5. Left(S \cup New(S)) < Left(S)
    <3> DEFINE A == N \ (S \cup New(S))
               B == N \ S
    <3>1. A \subseteq B /\ A # B
      BY <2>4
    <3>2. IsFiniteSet(B)
      BY FS_Difference
    <3> HIDE DEF A, B
    <3>3. /\ Cardinality(A) <= Cardinality(B)
          /\ Cardinality(A) = Cardinality(B) => A = B
          /\ Cardinality(A) \in Nat /\ Cardinality(B) \in Nat
      BY <3>1, <3>2, FS_Subset, FS_CardinalityType
    <3>4. Cardinality(A) < Cardinality(B)
      BY <3>1, <3>3
    <3> QED
      BY <3>4 DEF A, B
  <2>6. S \cup New(S) \notin Bad
    BY <2>2, <2>3, <2>5
  <2> QED
    BY <1>5, <1>8, <2>3, <2>4, <2>6
<1>11. grow[S0] = H(S0)
  BY <1>10
<1> QED
  BY <1>3, <1>11 DEF H

(* The nodes of a graph, and the sets of nodes that no edge light enough   *)
(* leaves.                                                                 *)
Nodes(files, s) == {s} \cup UNION {Targets(files[n]) : n \in DOMAIN files}

Edges(files, s, w) == [n \in Nodes(files, s) |-> Successors(files, n, w)]

LEMMA ReachableIsHull ==
  ASSUME NEW files, NEW s, NEW w, IsFiniteSet(Nodes(files, s))
  PROVE  Reachable(files, s, w) = Hull(Edges(files, s, w), {s})
<1> DEFINE N == Nodes(files, s)
<1>1. ASSUME NEW n, NEW m \in Successors(files, n, w)
      PROVE  m \in N
  <2>1. n \in DOMAIN files /\ m \in Targets(files[n])
    BY DEF Successors, Targets
  <2> QED
    BY <2>1 DEF Nodes
<1>2. Edges(files, s, w) \in [N -> SUBSET N]
  BY <1>1 DEF Edges
<1>3. {s} \in SUBSET N
  BY DEF Nodes
<1>4. Reachable(files, s, w) = Closure(Edges(files, s, w), {s})
  BY DEF Reachable, Edges, Nodes
<1> HIDE DEF N
<1>5. Closure(Edges(files, s, w), {s}) = Hull(Edges(files, s, w), {s})
  BY <1>2, <1>3, ClosureIsHull DEF N
<1> QED
  BY <1>4, <1>5
===============================================================================
