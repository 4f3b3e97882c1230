---------------------------- MODULE ChunksProofs ----------------------------
(***************************************************************************)
(* The inductive invariant of Chunks is one, as long as no memory is       *)
(* refused to chunkiter.  From it: the counts of the chunk directory and   *)
(* of its table are those of the archives, the extra statistics are those  *)
(* of their metadata, no archive loses a chunk, nothing is left behind,    *)
(* and --delete and --fsck-prune find what they count.                     *)
(*                                                                         *)
(* First what counting references comes to: in an archive that becomes     *)
(* longer or is walked through, and in archives to which one is added or   *)
(* from which one is taken away; then tables in memory; then one lemma for *)
(* each action.                                                            *)
(***************************************************************************)
EXTENDS ChunksInv, Sums, SequenceTheorems

-----------------------------------------------------------------------------
\* Occurrences of c in a sequence, and in sequences.
Occ(s, c) == Cardinality({j \in DOMAIN s : s[j] = c})
Held(x) == {jp \in (DOMAIN x) \X (1..MaxIndex) : jp[2] <= Len(x[jp[1]])}
Inside(x, c) == Cardinality({jp \in Held(x) : x[jp[1]][jp[2]] = c})

\* Sets between which a function is one to one have as many elements.
LEMMA SameNumber ==
  ASSUME NEW S, IsFiniteSet(S), NEW T, NEW g \in [S -> T],
         \A a \in S, b \in S : g[a] = g[b] => a = b,
         \A t \in T : \E a \in S : g[a] = t
  PROVE  IsFiniteSet(T) /\ Cardinality(T) = Cardinality(S)
<1>1. g \in Bijection(S, T)
  BY DEF Bijection, Injection, Surjection, IsInjective
<1> QED BY <1>1, FS_Bijection DEF ExistsBijection

\* The parts of a set that have nothing in common.
LEMMA PartsNumber ==
  ASSUME NEW S, IsFiniteSet(S), NEW T, IsFiniteSet(T), S \cap T = {}
  PROVE  /\ IsFiniteSet(S \cup T)
         /\ Cardinality(S \cup T) = Cardinality(S) + Cardinality(T)
         /\ Cardinality(S) \in Nat /\ Cardinality(T) \in Nat
BY SMTT(30), FS_Union, FS_EmptySet, FS_CardinalityType

\* Numbers of occurrences are numbers.
LEMMA OccNumber ==
  ASSUME NEW X, NEW s \in Seq(X), NEW c
  PROVE  /\ IsFiniteSet({j \in DOMAIN s : s[j] = c})
         /\ Occ(s, c) \in Nat
         /\ Occ(s, c) # 0 <=> \E j \in DOMAIN s : s[j] = c
<1> DEFINE P == {j \in DOMAIN s : s[j] = c}
<1>1. Len(s) \in Nat /\ DOMAIN s = 1..Len(s)
  OBVIOUS
<1>2. IsFiniteSet(DOMAIN s)
  BY <1>1, FS_Interval
<1>3. IsFiniteSet(P) /\ Cardinality(P) \in Nat
  BY <1>2, FS_Subset, FS_CardinalityType
<1>4. Cardinality(P) # 0 <=> P # {}
  BY <1>3, FS_EmptySet
<1> QED BY <1>3, <1>4 DEF Occ

LEMMA OccEmpty == ASSUME NEW c PROVE Occ(<<>>, c) = 0
<1>1. {j \in DOMAIN <<>> : <<>>[j] = c} = {}
  OBVIOUS
<1> QED BY <1>1, FS_EmptySet, Zenon DEF Occ

LEMMA OccOne == ASSUME NEW e, NEW c PROVE Occ(<<e>>, c) = IF e = c THEN 1 ELSE 0
<1>1. {j \in DOMAIN <<e>> : <<e>>[j] = c} = IF e = c THEN {1} ELSE {}
  OBVIOUS
<1> QED BY <1>1, FS_EmptySet, FS_Singleton DEF Occ

\* What occurs in the concatenation of two sequences.
LEMMA OccConcat ==
  ASSUME NEW X, NEW s \in Seq(X), NEW t \in Seq(X), NEW c
  PROVE  Occ(s \o t, c) = Occ(s, c) + Occ(t, c)
<1> DEFINE A == {j \in DOMAIN s : s[j] = c}
           B == {j \in DOMAIN t : t[j] = c}
           C == {Len(s) + j : j \in B}
           g == [j \in B |-> Len(s) + j]
<1>1. /\ Len(s) \in Nat /\ DOMAIN s = 1..Len(s)
      /\ Len(t) \in Nat /\ DOMAIN t = 1..Len(t)
  OBVIOUS
<1>2. IsFiniteSet(A) /\ IsFiniteSet(B)
  BY OccNumber
<1>3. Cardinality(C) = Cardinality(B) /\ IsFiniteSet(C)
  <2>1. g \in [B -> C] /\ \A u \in C : \E j \in B : g[j] = u
    OBVIOUS
  <2>2. \A a \in B, b \in B : g[a] = g[b] => a = b
    BY <1>1
  <2> HIDE DEF g, B, C
  <2> QED BY <2>1, <2>2, <1>2, SameNumber
<1>4. A \cap C = {}
  BY <1>1
<1>5. {j \in DOMAIN (s \o t) : (s \o t)[j] = c} = A \cup C
  <2>1. /\ DOMAIN (s \o t) = 1..(Len(s) + Len(t))
        /\ \A j \in 1..Len(s) : (s \o t)[j] = s[j]
        /\ \A j \in 1..Len(t) : (s \o t)[Len(s) + j] = t[j]
    BY <1>1
  <2>2. ASSUME NEW j \in 1..(Len(s) + Len(t)), j \notin 1..Len(s)
        PROVE  j - Len(s) \in 1..Len(t) /\ Len(s) + (j - Len(s)) = j
    BY <2>2, <1>1
  <2>3. ASSUME NEW j \in DOMAIN (s \o t) PROVE (s \o t)[j] = c <=> j \in A \cup C
    <3>1. CASE j \in 1..Len(s)
      BY <3>1, <2>1, <1>1
    <3>2. CASE j \notin 1..Len(s)
      <4>1. j - Len(s) \in 1..Len(t) /\ Len(s) + (j - Len(s)) = j
        BY <2>1, <2>2, <3>2
      <4>2. (s \o t)[j] = t[j - Len(s)]
        BY <4>1, <2>1, Zenon
      <4>3. j \in C <=> t[j - Len(s)] = c
        BY <4>1, <1>1
      <4> QED BY <3>2, <1>1, <4>2, <4>3
    <3> QED BY <3>1, <3>2
  <2>4. A \cup C \subseteq DOMAIN (s \o t)
    BY <2>1, <1>1
  <2> HIDE DEF A, C
  <2> QED BY <2>3, <2>4
<1> HIDE DEF A, B, C
<1>6. Cardinality(A \cup C) = Cardinality(A) + Cardinality(C)
  BY <1>2, <1>3, <1>4, PartsNumber
<1> QED BY <1>3, <1>5, <1>6 DEF Occ, A, B

-----------------------------------------------------------------------------
\* Chunks of the index stream are sequences of headers, of which there are not
\* too many.
LEMMA IndexIs ==
  ASSUME NEW b
  PROVE  b \in Index <=> b \in Seq(Data) /\ Len(b) \in 1..MaxIndex
<1>0. MaxIndex \in Nat
  BY ChunksAssumption
<1>1. ASSUME b \in Index PROVE b \in Seq(Data) /\ Len(b) \in 1..MaxIndex
  <2>1. PICK n \in 1..MaxIndex : b \in [1..n -> Data]
    BY <1>1 DEF Index
  <2> QED BY <2>1, <1>0
<1>2. ASSUME b \in Seq(Data), Len(b) \in 1..MaxIndex PROVE b \in Index
  <2>1. b \in [1..Len(b) -> Data]
    BY <1>2
  <2> QED BY <1>2, <2>1 DEF Index
<1> QED BY <1>1, <1>2

LEMMA InsideNumber ==
  ASSUME NEW x \in Seq(Index), NEW c
  PROVE  /\ IsFiniteSet({jp \in Held(x) : x[jp[1]][jp[2]] = c})
         /\ Inside(x, c) \in Nat
         /\ Inside(x, c) # 0 <=> \E jp \in Held(x) : x[jp[1]][jp[2]] = c
<1> DEFINE P == {jp \in Held(x) : x[jp[1]][jp[2]] = c}
<1>1. Len(x) \in Nat /\ DOMAIN x = 1..Len(x) /\ MaxIndex \in Nat
  BY ChunksAssumption
<1>2. IsFiniteSet((DOMAIN x) \X (1..MaxIndex))
  <2>1. IsFiniteSet(DOMAIN x) /\ IsFiniteSet(1..MaxIndex)
    BY <1>1, FS_Interval
  <2> QED BY <2>1, FS_Product, Zenon
<1>3. IsFiniteSet(P) /\ Cardinality(P) \in Nat
  BY <1>2, FS_Subset, FS_CardinalityType DEF Held
<1>4. Cardinality(P) # 0 <=> P # {}
  BY <1>3, FS_EmptySet
<1> QED BY <1>3, <1>4 DEF Inside

LEMMA InsideEmpty == ASSUME NEW c PROVE Inside(<<>>, c) = 0
<1>1. {jp \in Held(<<>>) : <<>>[jp[1]][jp[2]] = c} = {}
  BY DEF Held
<1> QED BY <1>1, FS_EmptySet, Zenon DEF Inside

\* One chunk of an index stream.
LEMMA InsideOne ==
  ASSUME NEW b \in Index, NEW c
  PROVE  Inside(<<b>>, c) = Occ(b, c)
<1> DEFINE B == {p \in DOMAIN b : b[p] = c}
           C == {jp \in Held(<<b>>) : <<b>>[jp[1]][jp[2]] = c}
           g == [p \in B |-> <<1, p>>]
<1>1. b \in Seq(Data) /\ DOMAIN b = 1..Len(b) /\ Len(b) \in 1..MaxIndex
      /\ MaxIndex \in Nat
  BY IndexIs, ChunksAssumption
<1>2. ASSUME NEW jp \in C PROVE jp = <<1, jp[2]>> /\ jp[2] \in B
  <2>1. jp \in (DOMAIN <<b>>) \X (1..MaxIndex)
    BY DEF Held
  <2>2. jp[1] = 1 /\ jp[2] \in 1..MaxIndex /\ jp = <<jp[1], jp[2]>>
    BY <2>1
  <2>3. <<b>>[jp[1]] = b
    BY <2>2
  <2> QED BY <2>2, <2>3, <1>1 DEF Held
<1>3. ASSUME NEW p \in B PROVE <<1, p>> \in C
  <2>1. <<1, p>> \in (DOMAIN <<b>>) \X (1..MaxIndex)
    BY <1>1
  <2> QED BY <2>1, <1>1 DEF Held
<1>4. g \in [B -> C] /\ \A u \in C : \E p \in B : g[p] = u
  BY <1>2, <1>3
<1>5. \A p \in B, q \in B : g[p] = g[q] => p = q
  OBVIOUS
<1>6. IsFiniteSet(B)
  BY <1>1, OccNumber
<1> HIDE DEF g, B, C
<1>7. Cardinality(C) = Cardinality(B)
  BY <1>4, <1>5, <1>6, SameNumber
<1> QED BY <1>7 DEF Inside, Occ, B, C

\* What is inside the concatenation of two index streams.
LEMMA InsideConcat ==
  ASSUME NEW x \in Seq(Index), NEW y \in Seq(Index), NEW c
  PROVE  Inside(x \o y, c) = Inside(x, c) + Inside(y, c)
<1> DEFINE n == Len(x)
           z == x \o y
           A == {jp \in Held(x) : x[jp[1]][jp[2]] = c}
           B == {jp \in Held(y) : y[jp[1]][jp[2]] = c}
           C == {<<n + jp[1], jp[2]>> : jp \in B}
           D == {jp \in Held(z) : z[jp[1]][jp[2]] = c}
           g == [jp \in B |-> <<n + jp[1], jp[2]>>]
<1>1. /\ Len(x) \in Nat /\ DOMAIN x = 1..Len(x)
      /\ Len(y) \in Nat /\ DOMAIN y = 1..Len(y)
      /\ DOMAIN z = 1..(Len(x) + Len(y))
      /\ \A j \in 1..Len(x) : z[j] = x[j]
      /\ \A j \in 1..Len(y) : z[n + j] = y[j]
  OBVIOUS
<1>2. IsFiniteSet(A) /\ IsFiniteSet(B)
  BY InsideNumber
<1>3. ASSUME NEW jp \in B
      PROVE  /\ jp = <<jp[1], jp[2]>> /\ jp[1] \in 1..Len(y) /\ jp[2] \in 1..MaxIndex
             /\ jp[2] <= Len(y[jp[1]]) /\ y[jp[1]][jp[2]] = c
  BY <1>1 DEF Held
<1>4. ASSUME NEW jp \in A
      PROVE  /\ jp = <<jp[1], jp[2]>> /\ jp[1] \in 1..n /\ jp[2] \in 1..MaxIndex
             /\ jp[2] <= Len(x[jp[1]]) /\ x[jp[1]][jp[2]] = c
  BY <1>1 DEF Held
<1>5. ASSUME NEW jp \in D
      PROVE  /\ jp = <<jp[1], jp[2]>> /\ jp[1] \in DOMAIN z /\ jp[2] \in 1..MaxIndex
             /\ jp[2] <= Len(z[jp[1]]) /\ z[jp[1]][jp[2]] = c
  BY DEF Held
<1>6. Cardinality(C) = Cardinality(B) /\ IsFiniteSet(C)
  <2>1. g \in [B -> C] /\ \A u \in C : \E j \in B : g[j] = u
    OBVIOUS
  <2>2. \A a \in B, b \in B : g[a] = g[b] => a = b
    <3>1. SUFFICES ASSUME NEW a \in B, NEW b \in B, g[a] = g[b] PROVE a = b
      OBVIOUS
    <3>2. <<n + a[1], a[2]>> = <<n + b[1], b[2]>>
      BY <3>1
    <3>3. n + a[1] = n + b[1] /\ a[2] = b[2]
      BY <3>2
    <3>4. a[1] \in Int /\ b[1] \in Int
      BY <1>1, <1>3
    <3>5. a[1] = b[1]
      BY <1>1, <3>3, <3>4
    <3> HIDE DEF B
    <3> QED BY <1>3, <3>3, <3>5, Zenon
  <2> HIDE DEF g, B, C
  <2> QED BY <2>1, <2>2, <1>2, SameNumber
<1>7. A \cap C = {}
  <2>1. ASSUME NEW u \in A, u \in C PROVE FALSE
    <3>1. PICK jp \in B : u = <<n + jp[1], jp[2]>>
      BY <2>1
    <3>2. u[1] = n + jp[1] /\ u[1] \in 1..n /\ jp[1] \in 1..Len(y)
      <4> HIDE DEF A, B, n
      <4> QED BY <1>3, <1>4, <3>1
    <3> QED BY <3>2, <1>1
  <2> QED BY <2>1, Zenon
<1>8. A \cup C \subseteq D
  <2>1. ASSUME NEW jp \in A PROVE jp \in D
    <3>1. jp = <<jp[1], jp[2]>> /\ jp[1] \in DOMAIN z /\ jp[2] \in 1..MaxIndex
      BY <1>4, <1>1
    <3>2. z[jp[1]] = x[jp[1]]
      BY <1>4, <1>1
    <3>3. jp \in (DOMAIN z) \X (1..MaxIndex)
      BY <3>1
    <3>4. jp[2] <= Len(z[jp[1]]) /\ z[jp[1]][jp[2]] = c
      BY <3>2, <1>4
    <3> HIDE DEF A, z
    <3> QED BY <3>3, <3>4 DEF Held
  <2>2. ASSUME NEW u \in B PROVE <<n + u[1], u[2]>> \in D
    <3> DEFINE jp == <<n + u[1], u[2]>>
    <3>1. jp[1] = n + u[1] /\ jp[2] = u[2] /\ n + u[1] \in DOMAIN z /\ u[2] \in 1..MaxIndex
      BY <1>3, <1>1
    <3>2. z[jp[1]] = y[u[1]]
      BY <1>3, <1>1, <3>1
    <3>3. jp \in (DOMAIN z) \X (1..MaxIndex)
      BY <3>1
    <3>4. jp[2] <= Len(z[jp[1]]) /\ z[jp[1]][jp[2]] = c
      BY <3>1, <3>2, <1>3
    <3> HIDE DEF B, z, jp
    <3>5. jp \in Held(z)
      BY <3>3, <3>4 DEF Held
    <3> QED BY <3>4, <3>5 DEF jp
  <2> HIDE DEF A, B, D
  <2> QED BY <2>1, <2>2
<1>9. D \subseteq A \cup C
  <2>1. ASSUME NEW jp \in D, jp[1] \in 1..n PROVE jp \in A
    <3>1. z[jp[1]] = x[jp[1]] /\ jp \in (DOMAIN x) \X (1..MaxIndex)
      BY <2>1, <1>5, <1>1
    <3>2. jp[2] <= Len(x[jp[1]]) /\ x[jp[1]][jp[2]] = c
      BY <3>1, <1>5
    <3> QED BY <3>1, <3>2 DEF Held
  <2>2. ASSUME NEW jp \in D, jp[1] \notin 1..n PROVE jp \in C
    <3> DEFINE u == <<jp[1] - n, jp[2]>>
    <3>0. jp[1] \in 1..(Len(x) + Len(y)) /\ jp[2] \in 1..MaxIndex
      <4> HIDE DEF D, z
      <4> QED BY <1>5, <1>1
    <3>1. jp[1] - n \in 1..Len(y) /\ n + (jp[1] - n) = jp[1] /\ jp[2] \in 1..MaxIndex
      BY <2>2, <3>0, <1>1
    <3>2. z[jp[1]] = y[jp[1] - n]
      BY <3>1, <1>1
    <3>3. u \in (DOMAIN y) \X (1..MaxIndex) /\ u[1] = jp[1] - n /\ u[2] = jp[2]
      BY <3>1, <1>1
    <3>4. u[2] <= Len(y[u[1]]) /\ y[u[1]][u[2]] = c
      BY <3>2, <3>3, <1>5
    <3>5. u \in B
      <4> HIDE DEF u
      <4> QED BY <3>3, <3>4 DEF Held
    <3>6. <<n + u[1], u[2]>> = jp
      BY <3>1, <3>3, <1>5
    <3> HIDE DEF B, u
    <3> QED BY <3>5, <3>6
  <2> HIDE DEF A, C, D
  <2> QED BY <2>1, <2>2
<1> HIDE DEF A, B, C, D, z
<1>10. Cardinality(D) = Cardinality(A) + Cardinality(B)
  <2>1. D = A \cup C
    BY <1>8, <1>9
  <2> QED BY <2>1, <1>2, <1>6, <1>7, PartsNumber
<1> QED BY <1>10 DEF Inside, A, B, D, z

-----------------------------------------------------------------------------
\* One reference: to e.
One(e, c) == IF e = c THEN 1 ELSE 0

\* The references of an archive, list by list.
LEMMA CopiesSplit ==
  ASSUME NEW a, NEW c
  PROVE  Copies(a, c) = Occ(a.h, c) + Occ(a.x, c) + Inside(a.x, c)
BY Zenon DEF Copies, Places, Occ, Inside, Held

LEMMA CopiesParts ==
  ASSUME NEW h, NEW x, NEW c
  PROVE  Copies([h |-> h, x |-> x], c) = Occ(h, c) + Occ(x, c) + Inside(x, c)
<1> DEFINE a == [h |-> h, x |-> x]
<1>1. a.h = h /\ a.x = x
  OBVIOUS
<1> HIDE DEF a
<1>2. Copies(a, c) = Occ(h, c) + Occ(x, c) + Inside(x, c)
  BY <1>1, CopiesSplit, Zenon
<1> QED BY <1>2 DEF a

\* An archive uses what it refers to at least once.
LEMMA CopiesNumber ==
  ASSUME NEW a \in Archive, NEW c
  PROVE  /\ Copies(a, c) \in Nat
         /\ Copies(a, c) # 0 <=> c \in Refs(a)
         /\ Refs(a) \subseteq Chunk
<1>1. a.h \in Seq(Data) /\ a.x \in Seq(Index)
  BY DEF Archive
<1>2. /\ Occ(a.h, c) \in Nat /\ Occ(a.x, c) \in Nat /\ Inside(a.x, c) \in Nat
      /\ Occ(a.h, c) # 0 <=> \E j \in DOMAIN a.h : a.h[j] = c
      /\ Occ(a.x, c) # 0 <=> \E j \in DOMAIN a.x : a.x[j] = c
      /\ Inside(a.x, c) # 0 <=> \E jp \in Held(a.x) : a.x[jp[1]][jp[2]] = c
  <2>1. Occ(a.h, c) \in Nat /\ (Occ(a.h, c) # 0 <=> \E j \in DOMAIN a.h : a.h[j] = c)
    BY <1>1, OccNumber
  <2>2. Occ(a.x, c) \in Nat /\ (Occ(a.x, c) # 0 <=> \E j \in DOMAIN a.x : a.x[j] = c)
    BY <1>1, OccNumber
  <2> QED BY <1>1, <2>1, <2>2, InsideNumber, Zenon
<1>3. Copies(a, c) = Occ(a.h, c) + Occ(a.x, c) + Inside(a.x, c)
  BY CopiesSplit
<1>4. Places(a) = Held(a.x)
  BY Zenon DEF Places, Held
<1>5. c \in Refs(a) <=> \/ \E j \in DOMAIN a.h : a.h[j] = c
                        \/ \E j \in DOMAIN a.x : a.x[j] = c
                        \/ \E jp \in Held(a.x) : a.x[jp[1]][jp[2]] = c
  BY <1>4, Zenon DEF Refs, Range
<1>6. Refs(a) \subseteq Chunk
  <2>1. Range(a.h) \subseteq Data /\ Range(a.x) \subseteq Index
    BY <1>1 DEF Range
  <2>2. ASSUME NEW jp \in Places(a) PROVE a.x[jp[1]][jp[2]] \in Data
    <3>1. jp[1] \in DOMAIN a.x /\ jp[2] \in 1..MaxIndex /\ jp[2] <= Len(a.x[jp[1]])
      BY DEF Places
    <3>2. a.x[jp[1]] \in Seq(Data)
      BY <1>1, <3>1, IndexIs
    <3>3. jp[2] \in DOMAIN (a.x[jp[1]])
      BY <3>1, <3>2, ChunksAssumption
    <3> QED BY <3>2, <3>3
  <2> QED BY <2>1, <2>2 DEF Refs, Chunk
<1>7. Copies(a, c) \in Nat
  BY <1>2, <1>3
<1>8. Copies(a, c) # 0 <=> Occ(a.h, c) # 0 \/ Occ(a.x, c) # 0 \/ Inside(a.x, c) # 0
  BY <1>2, <1>3
<1> QED BY <1>2, <1>5, <1>6, <1>7, <1>8, Zenon

\* Nothing refers to nothing.
LEMMA CopiesNone == ASSUME NEW c PROVE Copies(NoArchive, c) = 0
BY CopiesParts, OccEmpty, InsideEmpty DEF NoArchive

\* The first element of a sequence and the others.
LEMMA OccHead ==
  ASSUME NEW X, NEW s \in Seq(X), s # <<>>, NEW c
  PROVE  /\ Occ(s, c) = One(Head(s), c) + Occ(Tail(s), c)
         /\ Head(s) \in X /\ Tail(s) \in Seq(X)
<1>1. /\ s = <<Head(s)>> \o Tail(s)
      /\ Head(s) \in X /\ Tail(s) \in Seq(X) /\ <<Head(s)>> \in Seq(X)
  OBVIOUS
<1>2. Occ(<<Head(s)>> \o Tail(s), c) = Occ(<<Head(s)>>, c) + Occ(Tail(s), c)
  BY <1>1, OccConcat
<1>3. Occ(<<Head(s)>>, c) = One(Head(s), c)
  BY OccOne DEF One
<1> QED BY <1>1, <1>2, <1>3, Zenon

\* Headers that are added to an archive.
LEMMA CopiesHeaders ==
  ASSUME NEW h \in Seq(Data), NEW t \in Seq(Data), NEW x \in Seq(Index), NEW c
  PROVE  Copies([h |-> h \o t, x |-> x], c) = Copies([h |-> h, x |-> x], c) + Occ(t, c)
<1>1. Occ(h \o t, c) = Occ(h, c) + Occ(t, c)
  BY OccConcat
<1>2. Occ(h, c) \in Nat /\ Occ(t, c) \in Nat /\ Occ(x, c) \in Nat /\ Inside(x, c) \in Nat
  <2>1. Occ(h, c) \in Nat /\ Occ(t, c) \in Nat
    BY OccNumber
  <2>2. Occ(x, c) \in Nat /\ Inside(x, c) \in Nat
    BY OccNumber, InsideNumber
  <2> QED BY <2>1, <2>2
<1>3. /\ Copies([h |-> h \o t, x |-> x], c) = Occ(h \o t, c) + Occ(x, c) + Inside(x, c)
      /\ Copies([h |-> h, x |-> x], c) = Occ(h, c) + Occ(x, c) + Inside(x, c)
  BY CopiesParts, Zenon
<1> QED BY <1>1, <1>2, <1>3

\* A chunk of the index stream, made of the headers that were put off.
LEMMA CopiesCut ==
  ASSUME NEW h \in Seq(Data), NEW b \in Index, NEW x \in Seq(Index), NEW c
  PROVE  Copies([h |-> h, x |-> Append(x, b)], c)
           = Copies([h |-> h \o b, x |-> x], c) + One(b, c)
<1>1. b \in Seq(Data) /\ <<b>> \in Seq(Index) /\ Append(x, b) = x \o <<b>>
  BY IndexIs
<1>2. Occ(x \o <<b>>, c) = Occ(x, c) + One(b, c)
  <2>1. Occ(x \o <<b>>, c) = Occ(x, c) + Occ(<<b>>, c)
    BY <1>1, OccConcat
  <2> QED BY <2>1, OccOne, Zenon DEF One
<1>3. Inside(x \o <<b>>, c) = Inside(x, c) + Occ(b, c)
  <2>1. Inside(x \o <<b>>, c) = Inside(x, c) + Inside(<<b>>, c)
    BY <1>1, InsideConcat
  <2> QED BY <2>1, InsideOne, Zenon
<1>4. Occ(h \o b, c) = Occ(h, c) + Occ(b, c)
  BY <1>1, OccConcat
<1>5. Occ(h, c) \in Nat /\ Occ(b, c) \in Nat /\ Occ(x, c) \in Nat /\ Inside(x, c) \in Nat
  <2>1. Occ(h, c) \in Nat /\ Occ(b, c) \in Nat
    BY <1>1, OccNumber
  <2>2. Occ(x, c) \in Nat /\ Inside(x, c) \in Nat
    BY OccNumber, InsideNumber
  <2> QED BY <2>1, <2>2
<1>6. One(b, c) \in Nat
  BY DEF One
<1>7. /\ Copies([h |-> h, x |-> Append(x, b)], c)
           = Occ(h, c) + Occ(x \o <<b>>, c) + Inside(x \o <<b>>, c)
      /\ Copies([h |-> h \o b, x |-> x], c) = Occ(h \o b, c) + Occ(x, c) + Inside(x, c)
  BY <1>1, CopiesParts, Zenon
<1> QED BY <1>2, <1>3, <1>4, <1>5, <1>6, <1>7

-----------------------------------------------------------------------------
\* Each step of chunkiter leaves one reference less.
LEMMA StepLeaves ==
  ASSUME NEW i \in Walks, i # NoIter, NEW c
  PROVE  /\ Advance(i, FALSE) \in Walks
         /\ Copies(Left(i), c) = Copies(Left(Advance(i, FALSE)), c) + One(Current(i), c)
         /\ Copies(Left(i), c) \in Nat /\ Copies(Left(Advance(i, FALSE)), c) \in Nat
         /\ Current(i) \in Chunk
<1> DEFINE n == Advance(i, FALSE)
<1>1. /\ i.h \in Seq(Data) /\ i.x \in Seq(Index) /\ i.buf \in Seq(Data)
      /\ i = [h |-> i.h, x |-> i.x, buf |-> i.buf]
  BY DEF Walks
<1>2. i.h # <<>> \/ i.buf # <<>> \/ i.x # <<>>
  BY <1>1 DEF NoIter, Iter, NoArchive
<1>3. ASSUME NEW w \in Walks
      PROVE  /\ Copies(Left(w), c) = Occ(w.h, c) + Occ(w.buf, c) + Occ(w.x, c) + Inside(w.x, c)
             /\ {Occ(w.h, c), Occ(w.buf, c), Occ(w.x, c), Inside(w.x, c)} \subseteq Nat
  <2>1. w.h \in Seq(Data) /\ w.x \in Seq(Index) /\ w.buf \in Seq(Data)
    BY DEF Walks
  <2>2. Copies(Left(w), c) = Copies([h |-> w.h, x |-> w.x], c) + Occ(w.buf, c)
    BY <2>1, CopiesHeaders, Zenon DEF Left
  <2>3. {Occ(w.h, c), Occ(w.buf, c), Occ(w.x, c), Inside(w.x, c)} \subseteq Nat
    <3>1. Occ(w.h, c) \in Nat /\ Occ(w.buf, c) \in Nat
      BY <2>1, OccNumber
    <3>2. Occ(w.x, c) \in Nat /\ Inside(w.x, c) \in Nat
      BY <2>1, OccNumber, InsideNumber
    <3> QED BY <3>1, <3>2
  <2> QED BY <2>2, <2>3, CopiesParts
<1>4. n \in Walks /\ Copies(Left(i), c) = Copies(Left(n), c) + One(Current(i), c)
      /\ Current(i) \in Chunk
  <2>0. One(Current(i), c) \in Nat
    BY DEF One
  <2>1. CASE i.h # <<>>
    <3>1. /\ Occ(i.h, c) = One(Head(i.h), c) + Occ(Tail(i.h), c)
          /\ Head(i.h) \in Data /\ Tail(i.h) \in Seq(Data)
      BY <1>1, <2>1, OccHead
    <3>2. n = [i EXCEPT !.h = Tail(i.h)] /\ Current(i) = Head(i.h)
      BY <2>1, Zenon DEF Advance, Current
    <3>3. n \in Walks /\ n.h = Tail(i.h) /\ n.x = i.x /\ n.buf = i.buf
      BY <1>1, <3>1, <3>2 DEF Walks
    <3> HIDE DEF n
    <3>4. /\ Copies(Left(i), c) = Occ(i.h, c) + Occ(i.buf, c) + Occ(i.x, c) + Inside(i.x, c)
          /\ Copies(Left(n), c) = Occ(Tail(i.h), c) + Occ(i.buf, c) + Occ(i.x, c) + Inside(i.x, c)
          /\ {Occ(i.buf, c), Occ(i.x, c), Inside(i.x, c)} \subseteq Nat
          /\ Occ(Tail(i.h), c) \in Nat
      BY <1>3, <3>3
    <3>5. Copies(Left(i), c) = Copies(Left(n), c) + One(Current(i), c)
      BY <2>0, <3>1, <3>2, <3>4
    <3> QED BY <3>1, <3>2, <3>3, <3>5 DEF Chunk
  <2>2. CASE i.h = <<>> /\ i.buf # <<>>
    <3>1. /\ Occ(i.buf, c) = One(Head(i.buf), c) + Occ(Tail(i.buf), c)
          /\ Head(i.buf) \in Data /\ Tail(i.buf) \in Seq(Data)
      BY <1>1, <2>2, OccHead
    <3>2. n = [i EXCEPT !.buf = Tail(i.buf)] /\ Current(i) = Head(i.buf)
      BY <2>2, Zenon DEF Advance, Current
    <3>3. n \in Walks /\ n.h = i.h /\ n.x = i.x /\ n.buf = Tail(i.buf)
      BY <1>1, <3>1, <3>2 DEF Walks
    <3> HIDE DEF n
    <3>4. /\ Copies(Left(i), c) = Occ(i.h, c) + Occ(i.buf, c) + Occ(i.x, c) + Inside(i.x, c)
          /\ Copies(Left(n), c) = Occ(i.h, c) + Occ(Tail(i.buf), c) + Occ(i.x, c) + Inside(i.x, c)
          /\ {Occ(i.h, c), Occ(i.x, c), Inside(i.x, c)} \subseteq Nat
          /\ Occ(Tail(i.buf), c) \in Nat
      BY <1>3, <3>3
    <3>5. Copies(Left(i), c) = Copies(Left(n), c) + One(Current(i), c)
      BY <2>0, <3>1, <3>2, <3>4
    <3> QED BY <3>1, <3>2, <3>3, <3>5 DEF Chunk
  <2>3. CASE i.h = <<>> /\ i.buf = <<>> /\ i.x # <<>>
    <3> DEFINE b == Head(i.x)
    <3>1. b \in Index /\ Tail(i.x) \in Seq(Index) /\ i.x = <<b>> \o Tail(i.x)
      BY <1>1, <2>3
    <3>2. b \in Seq(Data) /\ <<b>> \in Seq(Index)
      BY <3>1, IndexIs
    <3>3. n = [i EXCEPT !.x = Tail(i.x), !.buf = b] /\ Current(i) = b
      BY <2>3, Zenon DEF Advance, Current
    <3>4. n \in Walks /\ n.h = i.h /\ n.x = Tail(i.x) /\ n.buf = b
      BY <1>1, <3>1, <3>2, <3>3 DEF Walks
    <3> HIDE DEF n, b
    <3>5. Occ(i.x, c) = One(b, c) + Occ(Tail(i.x), c)
      BY <1>1, <2>3, OccHead DEF b
    <3>6. Inside(i.x, c) = Occ(b, c) + Inside(Tail(i.x), c)
      <4>1. Inside(<<b>> \o Tail(i.x), c) = Inside(<<b>>, c) + Inside(Tail(i.x), c)
        BY <3>1, <3>2, InsideConcat, Zenon
      <4>2. Inside(<<b>>, c) = Occ(b, c)
        BY <3>1, InsideOne
      <4> QED BY <3>1, <4>1, <4>2, Zenon
    <3>7. Occ(i.buf, c) = 0
      BY <2>3, OccEmpty
    <3>8. /\ Copies(Left(i), c) = Occ(i.h, c) + Occ(i.buf, c) + Occ(i.x, c) + Inside(i.x, c)
          /\ Copies(Left(n), c)
               = Occ(i.h, c) + Occ(b, c) + Occ(Tail(i.x), c) + Inside(Tail(i.x), c)
          /\ Occ(i.h, c) \in Nat
          /\ {Occ(b, c), Occ(Tail(i.x), c), Inside(Tail(i.x), c)} \subseteq Nat
      BY <1>3, <3>4
    <3>9. Copies(Left(i), c) = Copies(Left(n), c) + One(Current(i), c)
      BY <2>0, <3>3, <3>5, <3>6, <3>7, <3>8
    <3> QED BY <3>1, <3>3, <3>4, <3>9 DEF Chunk
  <2> QED BY <1>2, <2>1, <2>2, <2>3
<1> HIDE DEF n
<1>5. Copies(Left(i), c) \in Nat /\ Copies(Left(n), c) \in Nat
  BY <1>3, <1>4
<1> QED BY <1>4, <1>5 DEF n

\* At first all of the archive is left, at last nothing.
LEMMA WholeLeft ==
  ASSUME NEW a \in Archive
  PROVE  Iter(a) \in Walks /\ Left(Iter(a)) = a
<1>1. a.h \in Seq(Data) /\ a.x \in Seq(Index) /\ a = [h |-> a.h, x |-> a.x]
  BY DEF Archive
<1>2. a.h \o <<>> = a.h
  BY <1>1
<1> QED BY <1>1, <1>2 DEF Iter, Left, Walks

LEMMA NothingLeft ==
  ASSUME NEW c
  PROVE  NoIter \in Walks /\ Copies(Left(NoIter), c) = 0
<1>1. NoArchive \in Archive
  BY DEF NoArchive, Archive
<1> QED BY <1>1, WholeLeft, CopiesNone DEF NoIter

-----------------------------------------------------------------------------
\* Of natural numbers the sum is one.
LEMMA SumNumber ==
  ASSUME NEW f, IsFiniteSet(DOMAIN f), \A x \in DOMAIN f : f[x] \in Nat
  PROVE  /\ SumOf(f) \in Nat
         /\ \A x \in DOMAIN f : f[x] <= SumOf(f)
<1>1. SumOf(f) = Total(f, DOMAIN f)
  BY Zenon DEF SumOf, Total
<1>2. SumSplits(f, DOMAIN f) /\ SumCovers(f, DOMAIN f)
  <2>1. \A x \in DOMAIN f : f[x] \in Int
    OBVIOUS
  <2> QED BY <2>1, TotalSplits, TotalCovers
<1>3. Total(f, DOMAIN f) \in Nat
  BY <1>2 DEF SumSplits, SumCovers
<1>4. \A x \in DOMAIN f : f[x] <= Total(f, DOMAIN f)
  BY TotalMember
<1> QED BY <1>1, <1>3, <1>4

\* Nothing added up is nothing.
LEMMA SumEmpty == ASSUME NEW f, DOMAIN f = {} PROVE SumOf(f) = 0
<1>1. SumOf(f) = Total(f, DOMAIN f)
  BY Zenon DEF SumOf, Total
<1> QED BY <1>1, TotalEmpty

\* One number more.
LEMMA SumMore ==
  ASSUME NEW f, IsFiniteSet(DOMAIN f), \A x \in DOMAIN f : f[x] \in Int,
         NEW k, k \notin DOMAIN f,
         NEW g, DOMAIN g = DOMAIN f \cup {k}, g[k] \in Int,
         \A x \in DOMAIN f : g[x] = f[x]
  PROVE  SumOf(g) = SumOf(f) + g[k] /\ SumOf(f) \in Int
<1>1. SumOf(f) = Total(f, DOMAIN f) /\ SumOf(g) = Total(g, DOMAIN g)
  BY Zenon DEF SumOf, Total
<1>2. Total(g, DOMAIN f \cup {k}) = Total(g, DOMAIN f) + g[k] /\ Total(g, DOMAIN f) \in Int
  <2>1. \A x \in DOMAIN f : g[x] \in Int
    OBVIOUS
  <2> QED BY <2>1, TotalAdd
<1>3. Total(g, DOMAIN f) = Total(f, DOMAIN f)
  BY TotalSame
<1> QED BY <1>1, <1>2, <1>3

\* One number changed.
LEMMA SumChanged ==
  ASSUME NEW f, IsFiniteSet(DOMAIN f), \A x \in DOMAIN f : f[x] \in Int,
         NEW k \in DOMAIN f,
         NEW g, DOMAIN g = DOMAIN f, g[k] \in Int,
         \A x \in DOMAIN f : x # k => g[x] = f[x]
  PROVE  SumOf(g) = SumOf(f) - f[k] + g[k] /\ SumOf(f) \in Int
<1> DEFINE S == DOMAIN f \ {k}
<1>1. SumOf(f) = Total(f, DOMAIN f) /\ SumOf(g) = Total(g, DOMAIN f)
  BY Zenon DEF SumOf, Total
<1>2. \A x \in DOMAIN f : g[x] \in Int
  OBVIOUS
<1>3. Total(f, S) = Total(f, DOMAIN f) - f[k] /\ Total(f, DOMAIN f) \in Int
  BY TotalRemove
<1>4. Total(g, S) = Total(g, DOMAIN f) - g[k] /\ Total(g, DOMAIN f) \in Int
  BY <1>2, TotalRemove
<1>5. Total(f, S) = Total(g, S)
  <2>1. IsFiniteSet(S) /\ \A x \in S : f[x] = g[x]
    BY FS_RemoveElement
  <2> HIDE DEF S
  <2> QED BY <2>1, TotalSame
<1> HIDE DEF S
<1> QED BY <1>1, <1>3, <1>4, <1>5

\* If there is something in a sum of natural numbers, it is in one of them.
LEMMA SumZero ==
  ASSUME NEW f, IsFiniteSet(DOMAIN f), \A x \in DOMAIN f : f[x] = 0
  PROVE  SumOf(f) = 0
<1> DEFINE Bad == {T \in SUBSET DOMAIN f : Total(f, T) # 0}
<1>1. SUFFICES ASSUME Bad # {} PROVE FALSE
  <2>1. SumOf(f) = Total(f, DOMAIN f)
    BY Zenon DEF SumOf, Total
  <2> QED BY <2>1
<1>2. PICK T \in Bad : \A U \in Bad : U \subseteq T => U = T
  <2>1. Bad \subseteq SUBSET DOMAIN f OBVIOUS
  <2> HIDE DEF Bad
  <2> QED BY <1>1, <2>1, LeastSet
<1>3. IsFiniteSet(T) /\ T \subseteq DOMAIN f
  BY FS_Subset
<1>4. T # {}
  BY TotalEmpty
<1>5. Others(T) \subseteq T /\ Others(T) # T /\ Chosen(T) \in T
  BY <1>4, ChosenIn DEF Others
<1>6. Total(f, Others(T)) = 0
  BY <1>2, <1>3, <1>5
<1>7. SumFollows(f, T)
  BY <1>3, TotalUnfolds
<1> QED BY <1>2, <1>3, <1>4, <1>5, <1>6, <1>7 DEF SumFollows

-----------------------------------------------------------------------------
\* An archive refers to finitely many chunks, and has some files.
LEMMA RangeFinite ==
  ASSUME NEW X, NEW s \in Seq(X)
  PROVE  IsFiniteSet(Range(s))
<1>1. IsFiniteSet(DOMAIN s)
  BY FS_Interval
<1>2. s \in Surjection(DOMAIN s, Range(s))
  BY DEF Surjection, Range
<1> QED BY <1>1, <1>2, FS_Surjection

LEMMA RefsFinite ==
  ASSUME NEW a \in Archive
  PROVE  IsFiniteSet(Refs(a)) /\ Files(a) \in Nat
<1>1. a.h \in Seq(Data) /\ a.x \in Seq(Index)
  BY DEF Archive
<1> DEFINE V == {a.x[jp[1]][jp[2]] : jp \in Places(a)}
           g == [jp \in Places(a) |-> a.x[jp[1]][jp[2]]]
<1>2. IsFiniteSet(Places(a))
  <2>0. Len(a.x) \in Int /\ DOMAIN a.x = 1..Len(a.x) /\ MaxIndex \in Int
    BY <1>1, ChunksAssumption
  <2>1. IsFiniteSet(DOMAIN a.x) /\ IsFiniteSet(1..MaxIndex)
    BY <2>0, FS_Interval
  <2>2. IsFiniteSet((DOMAIN a.x) \X (1..MaxIndex))
    BY <2>1, FS_Product, Zenon
  <2> QED BY <2>2, FS_Subset DEF Places
<1>3. g \in Surjection(Places(a), V)
  BY DEF Surjection
<1>4. IsFiniteSet(V)
  <2> HIDE DEF g, V
  <2> QED BY <1>2, <1>3, FS_Surjection
<1>5. IsFiniteSet(Range(a.h)) /\ IsFiniteSet(Range(a.x))
  BY <1>1, RangeFinite
<1>6. IsFiniteSet(Refs(a))
  <2>1. Refs(a) = (Range(a.h) \cup Range(a.x)) \cup V
    BY Zenon DEF Refs
  <2> HIDE DEF V
  <2>2. IsFiniteSet(Range(a.h) \cup Range(a.x))
    BY <1>5, FS_Union
  <2> QED BY <1>4, <2>1, <2>2, FS_Union
<1>7. Files(a) \in Nat
  <2> DEFINE m == Len(a.h) + Len(a.x) + 1 + IFrag - 1
  <2>1. m \in Nat /\ IFrag \in Nat \ {0}
    <3>1. Len(a.h) \in Nat /\ Len(a.x) \in Nat
      BY <1>1
    <3>2. IFrag \in Nat /\ IFrag # 0 /\ IFrag \in Nat \ {0}
      BY ChunksAssumption
    <3>3. \A u \in Nat, v \in Nat, w \in Nat \ {0} : u + v + 1 + w - 1 \in Nat
      OBVIOUS
    <3>4. m \in Nat
      BY <3>1, <3>2, <3>3, Zenon
    <3> QED BY <3>2, <3>4
  <2>2. Files(a) = 1 + (m \div IFrag)
    BY Zenon DEF Files
  <2> HIDE DEF m
  <2>3. m \div IFrag \in Nat
    BY <2>1, SMTT(30)
  <2> QED BY <2>2, <2>3
<1> QED BY <1>6, <1>7

-----------------------------------------------------------------------------
\* What archives amount to.
LEMMA ArchivesNumber ==
  ASSUME NEW I, IsArchives(I), NEW c
  PROVE  /\ IsFiniteSet(UsersOf(I, c))
         /\ Cardinality(UsersOf(I, c)) \in Nat /\ UsesOf(I, c) \in Nat /\ FilesOf(I) \in Nat
         /\ c \in RefsOf(I) <=> Cardinality(UsersOf(I, c)) # 0
         /\ Cardinality(UsersOf(I, c)) = 0 => UsesOf(I, c) = 0
         /\ \A k \in DOMAIN I : /\ Copies(I[k], c) <= UsesOf(I, c)
                                /\ Files(I[k]) <= FilesOf(I)
         /\ RefsOf(I) \subseteq Chunk
<1> DEFINE f == [k \in DOMAIN I |-> Copies(I[k], c)]
           g == [k \in DOMAIN I |-> Files(I[k])]
<1>1. /\ IsFiniteSet(DOMAIN I)
      /\ \A k \in DOMAIN I : I[k] \in Archive
  BY DEF IsArchives
<1>2. /\ IsFiniteSet(UsersOf(I, c)) /\ Cardinality(UsersOf(I, c)) \in Nat
      /\ Cardinality(UsersOf(I, c)) # 0 <=> UsersOf(I, c) # {}
  <2>1. IsFiniteSet(UsersOf(I, c))
    BY <1>1, FS_Subset DEF UsersOf
  <2> QED BY <2>1, FS_CardinalityType, FS_EmptySet
<1>3. c \in RefsOf(I) <=> UsersOf(I, c) # {}
  BY DEF RefsOf, UsersOf
<1>4. \A k \in DOMAIN I :
        /\ Copies(I[k], c) \in Nat /\ (Copies(I[k], c) # 0 <=> c \in Refs(I[k]))
        /\ Files(I[k]) \in Nat
  BY <1>1, CopiesNumber, RefsFinite, Zenon
<1>5. /\ DOMAIN f = DOMAIN I /\ \A k \in DOMAIN I : f[k] = Copies(I[k], c)
      /\ DOMAIN g = DOMAIN I /\ \A k \in DOMAIN I : g[k] = Files(I[k])
      /\ UsesOf(I, c) = SumOf(f) /\ FilesOf(I) = SumOf(g)
  BY Zenon DEF UsesOf, FilesOf
<1> HIDE DEF f, g
<1>6. SumOf(f) \in Nat /\ \A k \in DOMAIN f : f[k] <= SumOf(f)
  <2>1. IsFiniteSet(DOMAIN f) /\ \A k \in DOMAIN f : f[k] \in Nat
    BY <1>1, <1>4, <1>5
  <2> QED BY <2>1, SumNumber
<1>7. SumOf(g) \in Nat /\ \A k \in DOMAIN g : g[k] <= SumOf(g)
  <2>1. IsFiniteSet(DOMAIN g) /\ \A k \in DOMAIN g : g[k] \in Nat
    BY <1>1, <1>4, <1>5
  <2> QED BY <2>1, SumNumber
<1>8. ASSUME UsersOf(I, c) = {} PROVE SumOf(f) = 0
  <2>1. \A k \in DOMAIN f : f[k] = 0
    BY <1>4, <1>5, <1>8 DEF UsersOf
  <2> QED BY <1>1, <1>5, <2>1, SumZero
<1>9. RefsOf(I) \subseteq Chunk
  BY <1>1, CopiesNumber DEF RefsOf
<1> QED BY <1>2, <1>3, <1>5, <1>6, <1>7, <1>8, <1>9

\* J is archives I and one more, under key k.
OneMore(I, J, k) ==
  /\ IsArchives(I) /\ IsArchives(J)
  /\ k \notin DOMAIN I /\ DOMAIN J = DOMAIN I \cup {k}
  /\ \A x \in DOMAIN I : J[x] = I[x]

\* It uses its chunks.
LEMMA ArchivesOneMore ==
  ASSUME NEW I, NEW J, NEW k, OneMore(I, J, k), NEW c
  PROVE  /\ Cardinality(UsersOf(J, c)) = Cardinality(UsersOf(I, c)) + Some(Copies(J[k], c))
         /\ UsesOf(J, c) = UsesOf(I, c) + Copies(J[k], c)
         /\ FilesOf(J) = FilesOf(I) + Files(J[k])
         /\ RefsOf(J) = RefsOf(I) \cup Refs(J[k])
<1> DEFINE f == [x \in DOMAIN I |-> Copies(I[x], c)]
           g == [x \in DOMAIN J |-> Copies(J[x], c)]
           u == [x \in DOMAIN I |-> Files(I[x])]
           v == [x \in DOMAIN J |-> Files(J[x])]
<1>1. /\ IsFiniteSet(DOMAIN I) /\ k \notin DOMAIN I /\ DOMAIN J = DOMAIN I \cup {k}
      /\ \A x \in DOMAIN I : J[x] = I[x] /\ I[x] \in Archive
      /\ J[k] \in Archive
  BY DEF OneMore, IsArchives
<1>2. /\ \A x \in DOMAIN I : Copies(I[x], c) \in Nat /\ Files(I[x]) \in Nat
      /\ Copies(J[k], c) \in Nat /\ (Copies(J[k], c) # 0 <=> c \in Refs(J[k]))
      /\ Files(J[k]) \in Nat
  BY <1>1, CopiesNumber, RefsFinite, Zenon
<1>3. /\ DOMAIN f = DOMAIN I /\ \A x \in DOMAIN I : f[x] = Copies(I[x], c)
      /\ DOMAIN g = DOMAIN J /\ \A x \in DOMAIN J : g[x] = Copies(J[x], c)
      /\ DOMAIN u = DOMAIN I /\ \A x \in DOMAIN I : u[x] = Files(I[x])
      /\ DOMAIN v = DOMAIN J /\ \A x \in DOMAIN J : v[x] = Files(J[x])
      /\ UsesOf(I, c) = SumOf(f) /\ UsesOf(J, c) = SumOf(g)
      /\ FilesOf(I) = SumOf(u) /\ FilesOf(J) = SumOf(v)
  BY Zenon DEF UsesOf, FilesOf
<1> HIDE DEF f, g, u, v
<1>4. SumOf(g) = SumOf(f) + g[k]
  <2>1. /\ IsFiniteSet(DOMAIN f) /\ \A x \in DOMAIN f : f[x] \in Int
        /\ k \notin DOMAIN f /\ DOMAIN g = DOMAIN f \cup {k} /\ g[k] \in Int
        /\ \A x \in DOMAIN f : g[x] = f[x]
    BY <1>1, <1>2, <1>3
  <2> QED BY <2>1, SumMore
<1>5. SumOf(v) = SumOf(u) + v[k]
  <2>1. /\ IsFiniteSet(DOMAIN u) /\ \A x \in DOMAIN u : u[x] \in Int
        /\ k \notin DOMAIN u /\ DOMAIN v = DOMAIN u \cup {k} /\ v[k] \in Int
        /\ \A x \in DOMAIN u : v[x] = u[x]
    BY <1>1, <1>2, <1>3
  <2> QED BY <2>1, SumMore
<1>6. Cardinality(UsersOf(J, c)) = Cardinality(UsersOf(I, c)) + Some(Copies(J[k], c))
  <2>1. /\ IsFiniteSet(UsersOf(I, c)) /\ k \notin UsersOf(I, c)
        /\ Cardinality(UsersOf(I, c)) \in Nat
    <3>1. UsersOf(I, c) \subseteq DOMAIN I
      BY DEF UsersOf
    <3> QED BY <3>1, <1>1, FS_Subset, FS_CardinalityType
  <2>2. UsersOf(J, c) = IF c \in Refs(J[k]) THEN UsersOf(I, c) \cup {k} ELSE UsersOf(I, c)
    BY <1>1 DEF UsersOf
  <2>3. Cardinality(UsersOf(I, c) \cup {k}) = Cardinality(UsersOf(I, c)) + 1
    BY <2>1, FS_AddElement
  <2> QED BY <1>2, <2>1, <2>2, <2>3 DEF Some
<1>7. RefsOf(J) = RefsOf(I) \cup Refs(J[k])
  BY <1>1 DEF RefsOf
<1> QED BY <1>1, <1>3, <1>4, <1>5, <1>6, <1>7

-----------------------------------------------------------------------------
\* Tables in memory.

Positive(T) == {c \in DOMAIN T.ht : T.ht[c].nrefs > 0}
CopiesIn(T) == [c \in DOMAIN T.ht |-> T.ht[c].ncopies]

\* A table whose statistics are right is a table.
LEMMA TableIs ==
  ASSUME NEW T,
         T = [ht |-> T.ht, up |-> T.up, total |-> T.total, unique |-> T.unique,
              extra |-> T.extra],
         IsFiniteSet(DOMAIN T.ht), T.ht \in [DOMAIN T.ht -> Entry],
         DOMAIN T.ht \subseteq Chunk, T.up \subseteq Chunk, T.extra \in Nat,
         AddedUp(T)
  PROVE  IsMem(T)
<1>1. SumOf(CopiesIn(T)) \in Nat
  <2>1. /\ IsFiniteSet(DOMAIN CopiesIn(T))
        /\ \A c \in DOMAIN CopiesIn(T) : CopiesIn(T)[c] \in Nat
    BY DEF CopiesIn, Entry
  <2> QED BY <2>1, SumNumber
<1>2. Cardinality(Positive(T)) \in Nat
  BY FS_Subset, FS_CardinalityType DEF Positive
<1>3. T.total = SumOf(CopiesIn(T)) /\ T.unique = Cardinality(Positive(T))
  BY Zenon DEF AddedUp, CopiesIn, Positive
<1>4. {T.total, T.unique, T.extra} \subseteq Nat
  BY <1>1, <1>2, <1>3
<1>5. \A c \in DOMAIN T.ht : T.ht[c] \in Entry
  OBVIOUS
<1> QED BY <1>4, <1>5, Zenon DEF IsMem, IsTable

\* Table T in which the entry of d is e.
Changed(T, d, e) ==
  [ht     |-> [T.ht EXCEPT ![d] = e],
   up     |-> T.up,
   total  |-> T.total - T.ht[d].ncopies + e.ncopies,
   unique |-> T.unique + (IF e.nrefs > 0 THEN 1 ELSE 0)
                       - (IF T.ht[d].nrefs > 0 THEN 1 ELSE 0),
   extra  |-> T.extra]

LEMMA ChangedTable ==
  ASSUME NEW T, IsMem(T), AddedUp(T), NEW d \in DOMAIN T.ht, NEW e \in Entry
  PROVE  IsMem(Changed(T, d, e)) /\ AddedUp(Changed(T, d, e))
<1> DEFINE R == Changed(T, d, e)
<1>1. /\ R.ht = [T.ht EXCEPT ![d] = e] /\ R.up = T.up /\ R.extra = T.extra
      /\ R.total = T.total - T.ht[d].ncopies + e.ncopies
      /\ R.unique = T.unique + (IF e.nrefs > 0 THEN 1 ELSE 0)
                             - (IF T.ht[d].nrefs > 0 THEN 1 ELSE 0)
      /\ R = [ht |-> R.ht, up |-> R.up, total |-> R.total, unique |-> R.unique,
              extra |-> R.extra]
  BY DEF Changed
<1>2. /\ IsFiniteSet(DOMAIN T.ht) /\ T.ht \in [DOMAIN T.ht -> Entry]
      /\ DOMAIN T.ht \subseteq Chunk /\ T.up \subseteq Chunk
      /\ T.total \in Nat /\ T.unique \in Nat /\ T.extra \in Nat
  BY DEF IsMem, IsTable
<1> HIDE DEF R
<1>3. /\ R.ht \in [DOMAIN T.ht -> Entry] /\ DOMAIN R.ht = DOMAIN T.ht /\ R.ht[d] = e
      /\ \A c \in DOMAIN T.ht : c # d => R.ht[c] = T.ht[c]
  BY <1>1, <1>2
<1>4. \A c \in DOMAIN T.ht : T.ht[c].ncopies \in Nat /\ T.ht[c].nrefs \in Nat
  BY <1>2 DEF Entry
<1>5. e.ncopies \in Nat /\ e.nrefs \in Nat
  BY DEF Entry
<1>6. R.total = SumOf(CopiesIn(R))
  <2> DEFINE f == CopiesIn(T)
             g == CopiesIn(R)
  <2>1. /\ DOMAIN f = DOMAIN T.ht /\ DOMAIN g = DOMAIN T.ht
        /\ \A c \in DOMAIN T.ht : f[c] = T.ht[c].ncopies
        /\ \A c \in DOMAIN T.ht : g[c] = R.ht[c].ncopies
    BY <1>3 DEF CopiesIn
  <2>2. T.total = SumOf(f)
    BY Zenon DEF AddedUp, CopiesIn
  <2> HIDE DEF f, g
  <2>3. SumOf(g) = SumOf(f) - f[d] + g[d]
    <3>1. /\ IsFiniteSet(DOMAIN f) /\ \A x \in DOMAIN f : f[x] \in Int
          /\ d \in DOMAIN f /\ DOMAIN g = DOMAIN f /\ g[d] \in Int
          /\ \A x \in DOMAIN f : x # d => g[x] = f[x]
      BY <2>1, <1>2, <1>3, <1>4, <1>5
    <3> QED BY <3>1, SumChanged
  <2> QED BY <2>1, <2>2, <2>3, <1>1, <1>3 DEF g
<1>7. R.unique = Cardinality(Positive(R))
  <2>1. /\ IsFiniteSet(Positive(T)) /\ T.unique = Cardinality(Positive(T))
        /\ d \in Positive(T) <=> T.ht[d].nrefs > 0
    BY <1>2, FS_Subset DEF AddedUp, Positive
  <2>2. Positive(R) = IF e.nrefs > 0 THEN Positive(T) \cup {d} ELSE Positive(T) \ {d}
    BY <1>3 DEF Positive
  <2>3. Cardinality(Positive(T) \cup {d})
          = IF d \in Positive(T) THEN T.unique ELSE T.unique + 1
    BY <2>1, FS_AddElement
  <2>4. Cardinality(Positive(T) \ {d})
          = IF d \in Positive(T) THEN T.unique - 1 ELSE T.unique
    BY <2>1, FS_RemoveElement
  <2> QED BY <1>1, <1>2, <2>1, <2>2, <2>3, <2>4
<1>8. AddedUp(R)
  BY <1>6, <1>7, Zenon DEF AddedUp, CopiesIn, Positive
<1>9. IsMem(R)
  BY <1>1, <1>2, <1>3, <1>8, TableIs
<1> QED BY <1>8, <1>9 DEF R

\* Table T and a new entry e, of d.
Extended(T, d, e) ==
  [ht     |-> [c \in DOMAIN T.ht \cup {d} |-> IF c = d THEN e ELSE T.ht[c]],
   up     |-> T.up \cup {d},
   total  |-> T.total + e.ncopies,
   unique |-> T.unique + 1,
   extra  |-> T.extra]

LEMMA ExtendedTable ==
  ASSUME NEW T, IsMem(T), AddedUp(T), NEW d \in Chunk, d \notin DOMAIN T.ht,
         NEW e \in Entry, e.nrefs > 0
  PROVE  IsMem(Extended(T, d, e)) /\ AddedUp(Extended(T, d, e))
<1> DEFINE R == Extended(T, d, e)
<1>1. /\ R.ht = [c \in DOMAIN T.ht \cup {d} |-> IF c = d THEN e ELSE T.ht[c]]
      /\ R.up = T.up \cup {d} /\ R.extra = T.extra
      /\ R.total = T.total + e.ncopies /\ R.unique = T.unique + 1
      /\ R = [ht |-> R.ht, up |-> R.up, total |-> R.total, unique |-> R.unique,
              extra |-> R.extra]
  BY DEF Extended
<1>2. /\ IsFiniteSet(DOMAIN T.ht) /\ T.ht \in [DOMAIN T.ht -> Entry]
      /\ DOMAIN T.ht \subseteq Chunk /\ T.up \subseteq Chunk
      /\ T.total \in Nat /\ T.unique \in Nat /\ T.extra \in Nat
  BY DEF IsMem, IsTable
<1> HIDE DEF R
<1>3. /\ R.ht \in [DOMAIN T.ht \cup {d} -> Entry] /\ R.ht[d] = e
      /\ DOMAIN R.ht = DOMAIN T.ht \cup {d}
      /\ \A c \in DOMAIN T.ht : R.ht[c] = T.ht[c]
  BY <1>1, <1>2
<1>4. \A c \in DOMAIN T.ht : T.ht[c].ncopies \in Nat /\ T.ht[c].nrefs \in Nat
  BY <1>2 DEF Entry
<1>5. e.ncopies \in Nat /\ e.nrefs \in Nat
  BY DEF Entry
<1>6. R.total = SumOf(CopiesIn(R))
  <2> DEFINE f == CopiesIn(T)
             g == CopiesIn(R)
  <2>1. /\ DOMAIN f = DOMAIN T.ht /\ DOMAIN g = DOMAIN T.ht \cup {d}
        /\ \A c \in DOMAIN T.ht : f[c] = T.ht[c].ncopies
        /\ \A c \in DOMAIN T.ht \cup {d} : g[c] = R.ht[c].ncopies
    BY <1>3 DEF CopiesIn
  <2>2. T.total = SumOf(f)
    BY Zenon DEF AddedUp, CopiesIn
  <2> HIDE DEF f, g
  <2>3. SumOf(g) = SumOf(f) + g[d]
    <3>1. /\ IsFiniteSet(DOMAIN f) /\ \A x \in DOMAIN f : f[x] \in Int
          /\ d \notin DOMAIN f /\ DOMAIN g = DOMAIN f \cup {d} /\ g[d] \in Int
          /\ \A x \in DOMAIN f : g[x] = f[x]
      BY <2>1, <1>2, <1>3, <1>4, <1>5
    <3> QED BY <3>1, SumMore
  <2> QED BY <2>1, <2>2, <2>3, <1>1, <1>3 DEF g
<1>7. R.unique = Cardinality(Positive(R))
  <2>1. /\ IsFiniteSet(Positive(T)) /\ T.unique = Cardinality(Positive(T))
        /\ d \notin Positive(T)
    BY <1>2, FS_Subset DEF AddedUp, Positive
  <2>2. Positive(R) = Positive(T) \cup {d}
    BY <1>3 DEF Positive
  <2> QED BY <1>1, <2>1, <2>2, FS_AddElement
<1>8. AddedUp(R)
  BY <1>6, <1>7, Zenon DEF AddedUp, CopiesIn, Positive
<1>9. IsMem(R)
  <2>1. IsFiniteSet(DOMAIN R.ht) /\ DOMAIN R.ht \subseteq Chunk /\ R.up \subseteq Chunk
    BY <1>1, <1>2, <1>3, FS_AddElement
  <2> QED BY <1>1, <1>2, <1>3, <1>8, <2>1, TableIs
<1> QED BY <1>8, <1>9 DEF R

-----------------------------------------------------------------------------
\* Writing an archive: n[c] references to each chunk c so far.

\* What a table that is written has of a chunk.
WriteEntry(n, c) ==
  Row(NRefs(dir.tab, c) + Some(n[c]), NCopies(dir.tab, c) + n[c], n[c] # 0, 0)

\* The fields of an entry, and what is changed in one.
LEMMA RowFields ==
  ASSUME NEW a, NEW b, NEW f, NEW n
  PROVE  /\ Row(a, b, f, n).nrefs = a /\ Row(a, b, f, n).ncopies = b
         /\ Row(a, b, f, n).ctape = f /\ Row(a, b, f, n).nct = n
BY DEF Row

LEMMA RowEntry ==
  ASSUME NEW a \in Nat, NEW b \in Nat, NEW f \in BOOLEAN, NEW n \in Nat
  PROVE  Row(a, b, f, n) \in Entry
BY DEF Row, Entry

LEMMA DirectoryNumbers ==
  ASSUME IsDirectory(dir), NEW c
  PROVE  /\ NRefs(dir.tab, c) \in Nat /\ NCopies(dir.tab, c) \in Nat
         /\ NRefs(dir.tab, c) # 0 <=> c \in DOMAIN dir.tab
         /\ c \notin DOMAIN dir.tab => NCopies(dir.tab, c) = 0
BY DEF IsDirectory, NRefs, NCopies

LEMMA WriteEntryFields ==
  ASSUME IsDirectory(dir), NEW n \in [Chunk -> Nat], NEW c \in Chunk
  PROVE  /\ WriteEntry(n, c).nrefs = NRefs(dir.tab, c) + Some(n[c])
         /\ WriteEntry(n, c).ncopies = NCopies(dir.tab, c) + n[c]
         /\ WriteEntry(n, c).ctape = (n[c] # 0) /\ WriteEntry(n, c).nct = 0
         /\ WriteEntry(n, c) \in Entry
<1>1. NRefs(dir.tab, c) \in Nat /\ NCopies(dir.tab, c) \in Nat
  BY DirectoryNumbers
<1>2. Some(n[c]) \in Nat /\ n[c] \in Nat
  BY DEF Some
<1>3. /\ NRefs(dir.tab, c) + Some(n[c]) \in Nat /\ NCopies(dir.tab, c) + n[c] \in Nat
      /\ (n[c] # 0) \in BOOLEAN /\ 0 \in Nat
  BY <1>1, <1>2
<1>4. WriteEntry(n, c) \in Entry
  BY <1>3, RowEntry, Zenon DEF WriteEntry
<1> QED BY <1>4, RowFields DEF WriteEntry

\* The table knows which chunks it has, and each is used.
LEMMA WriteEntries ==
  ASSUME IsDirectory(dir), NEW n \in [Chunk -> Nat], NEW T, WriteTable(T, n)
  PROVE  /\ \A c \in Chunk : c \in DOMAIN T.ht <=> n[c] # 0 \/ c \in DOMAIN dir.tab
         /\ \A c \in DOMAIN T.ht : /\ c \in Chunk
                                   /\ T.ht[c] = WriteEntry(n, c) /\ T.ht[c] \in Entry
                                   /\ T.ht[c].nrefs > 0
<1>1. \A c \in Chunk : c \in DOMAIN T.ht <=> n[c] # 0 \/ c \in DOMAIN dir.tab
  BY DEF WriteTable
<1>2. ASSUME NEW c \in DOMAIN T.ht
      PROVE  c \in Chunk /\ T.ht[c] = WriteEntry(n, c) /\ T.ht[c] \in Entry
             /\ T.ht[c].nrefs > 0
  <2>1. c \in Chunk /\ T.ht[c] \in Entry /\ T.ht[c] = WriteEntry(n, c)
    BY DEF WriteTable, IsMem, IsTable, WriteEntry
  <2>2. T.ht[c].nrefs = NRefs(dir.tab, c) + Some(n[c])
    BY <2>1, WriteEntryFields
  <2>3. NRefs(dir.tab, c) \in Nat /\ (NRefs(dir.tab, c) # 0 <=> c \in DOMAIN dir.tab)
    BY DirectoryNumbers
  <2> QED BY <1>1, <2>1, <2>2, <2>3 DEF Some
<1> QED BY <1>1, <1>2

\* chunks_write_chunk counts one reference more.
LEMMA WriteStep ==
  ASSUME IsDirectory(dir), NEW n \in [Chunk -> Nat], NEW T, WriteTable(T, n),
         NEW d \in Chunk, NEW m, m = [c \in Chunk |-> n[c] + One(d, c)]
  PROVE  WriteTable(WriteChunk(T, d), m) /\ WriteChunk(T, d).extra = T.extra
<1> DEFINE e == WriteEntry(m, d)
           R == WriteChunk(T, d)
<1>1. /\ m \in [Chunk -> Nat] /\ m[d] = n[d] + 1 /\ n[d] \in Nat
      /\ \A c \in Chunk : c # d => m[c] = n[c]
  BY DEF One
<1>2. /\ IsMem(T) /\ AddedUp(T)
      /\ T.up = {c \in Chunk : n[c] # 0} \ DOMAIN dir.tab
      /\ DOMAIN T.ht = DOMAIN dir.tab \cup T.up
  BY DEF WriteTable
<1>3. /\ \A c \in Chunk : c \in DOMAIN T.ht <=> n[c] # 0 \/ c \in DOMAIN dir.tab
      /\ \A c \in DOMAIN T.ht : /\ c \in Chunk
                                /\ T.ht[c] = WriteEntry(n, c) /\ T.ht[c] \in Entry
                                /\ T.ht[c].nrefs > 0
  BY WriteEntries
<1>4. /\ NRefs(dir.tab, d) \in Nat /\ NCopies(dir.tab, d) \in Nat
      /\ NRefs(dir.tab, d) # 0 <=> d \in DOMAIN dir.tab
      /\ d \notin DOMAIN dir.tab => NCopies(dir.tab, d) = 0
  BY DirectoryNumbers
<1>5. e = Row(NRefs(dir.tab, d) + 1, NCopies(dir.tab, d) + n[d] + 1, TRUE, 0)
  <2>1. Some(m[d]) = 1 /\ (m[d] # 0) = TRUE
    BY <1>1 DEF Some
  <2>2. NCopies(dir.tab, d) + m[d] = NCopies(dir.tab, d) + n[d] + 1
    BY <1>1, <1>4
  <2> QED BY <2>1, <2>2, Zenon DEF WriteEntry
<1>6. /\ e \in Entry /\ e.nrefs > 0 /\ e.nrefs = NRefs(dir.tab, d) + 1
      /\ e.ncopies = NCopies(dir.tab, d) + n[d] + 1
  <2>1. /\ NRefs(dir.tab, d) + 1 \in Nat /\ NCopies(dir.tab, d) + n[d] + 1 \in Nat
        /\ NRefs(dir.tab, d) + 1 > 0 /\ 0 \in Nat /\ TRUE \in BOOLEAN
    BY <1>1, <1>4
  <2> HIDE DEF e
  <2>2. e \in Entry
    BY <1>5, <2>1, RowEntry, Zenon
  <2>3. e.nrefs = NRefs(dir.tab, d) + 1 /\ e.ncopies = NCopies(dir.tab, d) + n[d] + 1
    BY <1>5 DEF Row
  <2> QED BY <2>1, <2>2, <2>3
<1>7. \A c \in DOMAIN T.ht : c # d => WriteEntry(m, c) = T.ht[c]
  BY <1>1, <1>3 DEF WriteEntry
<1>8. T = [ht |-> T.ht, up |-> T.up, total |-> T.total, unique |-> T.unique,
           extra |-> T.extra]
      /\ T.total \in Nat /\ T.unique \in Nat
  BY <1>2 DEF IsMem, IsTable
<1>9. CASE d \in DOMAIN T.ht
  <2>1. /\ T.ht[d].nrefs = NRefs(dir.tab, d) + Some(n[d])
        /\ T.ht[d].ncopies = NCopies(dir.tab, d) + n[d]
        /\ T.ht[d].ctape = (n[d] # 0) /\ T.ht[d].nct = 0
    BY <1>3, <1>9, WriteEntryFields
  <2>2. Row(IF T.ht[d].ctape THEN T.ht[d].nrefs ELSE T.ht[d].nrefs + 1,
            T.ht[d].ncopies + 1, TRUE, T.ht[d].nct) = e
    <3>1. T.ht[d].ncopies + 1 = NCopies(dir.tab, d) + n[d] + 1
      BY <1>1, <1>4, <2>1
    <3>2. (IF T.ht[d].ctape THEN T.ht[d].nrefs ELSE T.ht[d].nrefs + 1) = NRefs(dir.tab, d) + 1
      <4>1. n[d] = 0 => ~T.ht[d].ctape /\ T.ht[d].nrefs = NRefs(dir.tab, d)
        <5>1. n[d] = 0 => T.ht[d].nrefs = NRefs(dir.tab, d) + 0
          BY <2>1 DEF Some
        <5>2. n[d] = 0 => ~T.ht[d].ctape
          BY <2>1
        <5> QED BY <5>1, <5>2, <1>4
      <4>2. n[d] # 0 => T.ht[d].ctape /\ T.ht[d].nrefs = NRefs(dir.tab, d) + 1
        BY <2>1 DEF Some
      <4> QED BY <4>1, <4>2
    <3>3. e = Row(NRefs(dir.tab, d) + 1, NCopies(dir.tab, d) + n[d] + 1, TRUE, 0)
      BY <1>5
    <3> HIDE DEF e
    <3> QED BY <3>3, <2>1, <3>1, <3>2
  <2>3. R = [T EXCEPT !.total = T.total + 1, !.ht = [T.ht EXCEPT ![d] = e]]
    <3> HIDE DEF e
    <3> QED BY <1>9, <2>2 DEF WriteChunk, AddRef
  <2>4. R = Changed(T, d, e)
    <3>1. T.total - T.ht[d].ncopies + e.ncopies = T.total + 1
      <4> HIDE DEF e
      <4> QED BY <1>1, <1>4, <1>6, <1>8, <2>1
    <3>2. T.unique + (IF e.nrefs > 0 THEN 1 ELSE 0)
                   - (IF T.ht[d].nrefs > 0 THEN 1 ELSE 0) = T.unique
      BY <1>3, <1>6, <1>8, <1>9
    <3> HIDE DEF e, R
    <3> QED BY <1>8, <2>3, <3>1, <3>2 DEF Changed
  <2> HIDE DEF e, R
  <2>5. IsMem(R) /\ AddedUp(R)
    BY <1>2, <1>6, <1>9, <2>4, ChangedTable
  <2>6. /\ R.ht = [T.ht EXCEPT ![d] = e] /\ R.up = T.up /\ R.extra = T.extra
    BY <2>4 DEF Changed
  <2>7. R.up = {c \in Chunk : m[c] # 0} \ DOMAIN dir.tab
    BY <1>1, <1>2, <1>3, <1>9, <2>6
  <2>8. DOMAIN R.ht = DOMAIN dir.tab \cup R.up
    BY <1>2, <2>6
  <2>9. \A c \in DOMAIN R.ht : R.ht[c] = WriteEntry(m, c)
    BY <1>7, <2>6 DEF e
  <2> QED BY <2>5, <2>6, <2>7, <2>8, <2>9, Zenon DEF WriteTable, WriteEntry, R
<1>10. CASE d \notin DOMAIN T.ht
  <2>1. n[d] = 0 /\ d \notin DOMAIN dir.tab
    BY <1>3, <1>10
  <2>2. Row(1, 1, TRUE, 0) = e
    <3>1. NRefs(dir.tab, d) + 1 = 1 /\ NCopies(dir.tab, d) + n[d] + 1 = 1
      BY <1>4, <2>1
    <3>2. e = Row(NRefs(dir.tab, d) + 1, NCopies(dir.tab, d) + n[d] + 1, TRUE, 0)
      BY <1>5
    <3> HIDE DEF e
    <3> QED BY <3>1, <3>2
  <2>3. e.ncopies = 1
    <3> HIDE DEF e
    <3> QED BY <1>4, <1>6, <2>1
  <2>4. R = Extended(T, d, e)
    <3> HIDE DEF e
    <3> QED BY <1>8, <1>10, <2>2, <2>3 DEF WriteChunk, NewChunk, Extended
  <2> HIDE DEF e, R
  <2>5. IsMem(R) /\ AddedUp(R)
    BY <1>2, <1>6, <1>10, <2>4, ExtendedTable
  <2>6. /\ R.ht = [c \in DOMAIN T.ht \cup {d} |-> IF c = d THEN e ELSE T.ht[c]]
        /\ R.up = T.up \cup {d} /\ R.extra = T.extra
    BY <2>4 DEF Extended
  <2>7. R.up = {c \in Chunk : m[c] # 0} \ DOMAIN dir.tab
    BY <1>1, <1>2, <2>1, <2>6
  <2>8. DOMAIN R.ht = DOMAIN dir.tab \cup R.up
    BY <1>2, <2>6
  <2>9. \A c \in DOMAIN R.ht : R.ht[c] = WriteEntry(m, c)
    BY <1>7, <2>6 DEF e
  <2> QED BY <2>5, <2>6, <2>7, <2>8, <2>9, Zenon DEF WriteTable, WriteEntry, R
<1> QED BY <1>9, <1>10

\* What is read from the disk has no references to the archive yet.
LEMMA LoadedTable ==
  ASSUME IsDirectory(dir)
  PROVE  /\ IsMem(Loaded) /\ AddedUp(Loaded) /\ Loaded.extra = dir.extra
         /\ DOMAIN Loaded.ht = DOMAIN dir.tab /\ Loaded.up = {}
         /\ \A c \in DOMAIN dir.tab :
              Loaded.ht[c] = Row(dir.tab[c].nrefs, dir.tab[c].ncopies, FALSE, 0)
<1> DEFINE L == Loaded
<1>1. /\ DOMAIN L.ht = DOMAIN dir.tab /\ L.up = {} /\ L.extra = dir.extra
      /\ L.total = SumOf([c \in DOMAIN dir.tab |-> dir.tab[c].ncopies])
      /\ L.unique = Cardinality(DOMAIN dir.tab)
      /\ L = [ht |-> L.ht, up |-> L.up, total |-> L.total, unique |-> L.unique,
              extra |-> L.extra]
  BY DEF Loaded
<1>2. \A c \in DOMAIN dir.tab :
        L.ht[c] = Row(dir.tab[c].nrefs, dir.tab[c].ncopies, FALSE, 0)
  BY DEF Loaded
<1>3. /\ DOMAIN dir.tab \subseteq Chunk /\ IsFiniteSet(DOMAIN dir.tab)
      /\ \A c \in DOMAIN dir.tab : dir.tab[c].nrefs \in Nat \ {0} /\ dir.tab[c].ncopies \in Nat
      /\ dir.extra \in Nat
  BY DEF IsDirectory
<1>4. L.ht = [c \in DOMAIN L.ht |-> L.ht[c]]
  BY DEF Loaded
<1> HIDE DEF L
<1>5. ASSUME NEW c \in DOMAIN dir.tab
      PROVE  /\ L.ht[c].nrefs = dir.tab[c].nrefs /\ L.ht[c].ncopies = dir.tab[c].ncopies
             /\ L.ht[c] \in Entry
  <2>1. dir.tab[c].nrefs \in Nat /\ dir.tab[c].ncopies \in Nat
    BY <1>3
  <2>2. L.ht[c].nrefs = dir.tab[c].nrefs /\ L.ht[c].ncopies = dir.tab[c].ncopies
    <3>1. L.ht[c] = Row(dir.tab[c].nrefs, dir.tab[c].ncopies, FALSE, 0)
      BY <1>2
    <3> QED BY <3>1 DEF Row
  <2>3. L.ht[c] \in Entry
    <3>1. L.ht[c] = Row(dir.tab[c].nrefs, dir.tab[c].ncopies, FALSE, 0)
      BY <1>2
    <3>2. Row(dir.tab[c].nrefs, dir.tab[c].ncopies, FALSE, 0) \in Entry
      BY <2>1 DEF Row, Entry
    <3> QED BY <3>1, <3>2, Zenon
  <2> QED BY <2>2, <2>3
<1>6. L.ht \in [DOMAIN L.ht -> Entry]
  BY <1>1, <1>4, <1>5
<1>7. AddedUp(L)
  <2>1. {c \in DOMAIN L.ht : L.ht[c].nrefs > 0} = DOMAIN dir.tab
    BY <1>1, <1>3, <1>5
  <2>2. [c \in DOMAIN L.ht |-> L.ht[c].ncopies] = [c \in DOMAIN dir.tab |-> dir.tab[c].ncopies]
    BY <1>1, <1>5
  <2> QED BY <1>1, <2>1, <2>2, Zenon DEF AddedUp
<1>8. IsMem(L)
  BY <1>1, <1>3, <1>6, <1>7, TableIs
<1> QED BY <1>1, <1>2, <1>7, <1>8 DEF L

LEMMA LoadedWrites ==
  ASSUME IsDirectory(dir)
  PROVE  WriteTable(Loaded, [c \in Chunk |-> 0])
<1> DEFINE n == [c \in Chunk |-> 0]
           L == Loaded
<1>1. /\ IsMem(L) /\ AddedUp(L)
      /\ DOMAIN L.ht = DOMAIN dir.tab /\ L.up = {}
      /\ \A c \in DOMAIN dir.tab :
           L.ht[c] = Row(dir.tab[c].nrefs, dir.tab[c].ncopies, FALSE, 0)
  BY LoadedTable
<1>2. \A c \in DOMAIN dir.tab : c \in Chunk /\ dir.tab[c].nrefs \in Nat /\ dir.tab[c].ncopies \in Nat
  BY DEF IsDirectory
<1>3. \A c \in Chunk : n[c] = 0
  OBVIOUS
<1> HIDE DEF L, n
<1>4. ASSUME NEW c \in DOMAIN L.ht PROVE L.ht[c] = WriteEntry(n, c)
  <2>1. n[c] = 0 /\ Some(n[c]) = 0 /\ (n[c] # 0) = FALSE
    BY <1>1, <1>2, <1>3 DEF Some
  <2>2. NRefs(dir.tab, c) + Some(n[c]) = dir.tab[c].nrefs
    BY <1>1, <1>2, <2>1 DEF NRefs
  <2>3. NCopies(dir.tab, c) + n[c] = dir.tab[c].ncopies
    BY <1>1, <1>2, <2>1 DEF NCopies
  <2> QED BY <1>1, <2>1, <2>2, <2>3, Zenon DEF WriteEntry
<1>5. L.up = {c \in Chunk : n[c] # 0} \ DOMAIN dir.tab /\ DOMAIN L.ht = DOMAIN dir.tab \cup L.up
  BY <1>1, <1>3
<1>6. WriteTable(L, n)
  BY <1>1, <1>4, <1>5, Zenon DEF WriteTable, WriteEntry
<1> QED BY <1>6 DEF L, n

-----------------------------------------------------------------------------
\* What a table becomes on the disk.
LEMMA StoredTable ==
  ASSUME NEW T, IsMem(T)
  PROVE  /\ IsDirectory(Stored(T)) /\ Stored(T).extra = T.extra
         /\ \A c \in Chunk :
              /\ NRefs(Stored(T).tab, c) = NRefs(T.ht, c)
              /\ NCopies(Stored(T).tab, c)
                   = IF NRefs(T.ht, c) # 0 THEN NCopies(T.ht, c) ELSE 0
<1> DEFINE D == {c \in DOMAIN T.ht : T.ht[c].nrefs # 0}
           tab == [c \in D |-> [nrefs |-> T.ht[c].nrefs, ncopies |-> T.ht[c].ncopies]]
           S == Stored(T)
<1>1. S = [tab |-> tab, extra |-> T.extra] /\ S.tab = tab /\ S.extra = T.extra
  BY DEF Stored
<1>2. /\ IsFiniteSet(DOMAIN T.ht) /\ DOMAIN T.ht \subseteq Chunk /\ T.extra \in Nat
      /\ \A c \in DOMAIN T.ht : T.ht[c].nrefs \in Nat /\ T.ht[c].ncopies \in Nat
  BY DEF IsMem, IsTable, Entry
<1>3. IsFiniteSet(D) /\ D \subseteq DOMAIN T.ht
  BY <1>2, FS_Subset
<1>4. DOMAIN tab = D /\ tab \in [D -> [nrefs : Nat \ {0}, ncopies : Nat]]
  BY <1>2
<1>5. \A c \in D : tab[c].nrefs = T.ht[c].nrefs /\ tab[c].ncopies = T.ht[c].ncopies
  OBVIOUS
<1>6. \A c : c \in D <=> c \in DOMAIN T.ht /\ T.ht[c].nrefs # 0
  OBVIOUS
<1> HIDE DEF D, tab, S
<1>7. IsDirectory(S)
  BY <1>1, <1>2, <1>3, <1>4 DEF IsDirectory
<1>8. ASSUME NEW c \in Chunk
      PROVE  /\ NRefs(S.tab, c) = NRefs(T.ht, c)
             /\ NCopies(S.tab, c) = IF NRefs(T.ht, c) # 0 THEN NCopies(T.ht, c) ELSE 0
  BY <1>1, <1>4, <1>5, <1>6 DEF NRefs, NCopies
<1> QED BY <1>1, <1>7, <1>8 DEF S

\* The files of an archive are counted beside the table.
LEMMA WithFilesTable ==
  ASSUME NEW T, IsMem(T), NEW a \in Archive
  PROVE  /\ IsMem(WithFiles(T, a)) /\ WithFiles(T, a).ht = T.ht
         /\ WithFiles(T, a).up = T.up /\ WithFiles(T, a).extra = T.extra + Files(a)
<1> DEFINE W == WithFiles(T, a)
<1>1. T = [ht |-> T.ht, up |-> T.up, total |-> T.total, unique |-> T.unique,
           extra |-> T.extra]
  BY DEF IsMem
<1>2. /\ W.ht = T.ht /\ W.up = T.up /\ W.total = T.total /\ W.unique = T.unique
      /\ W.extra = T.extra + Files(a)
      /\ W = [ht |-> W.ht, up |-> W.up, total |-> W.total, unique |-> W.unique,
              extra |-> W.extra]
  BY <1>1 DEF WithFiles
<1>3. Files(a) \in Nat /\ T.extra \in Nat /\ T.total \in Nat /\ T.unique \in Nat
  BY RefsFinite DEF IsMem, IsTable
<1> HIDE DEF W
<1>4. {W.total, W.unique, W.extra} \subseteq Nat
  BY <1>2, <1>3
<1>5. IsMem(W)
  BY <1>2, <1>4 DEF IsMem, IsTable
<1> QED BY <1>2, <1>5 DEF W

\* An archive amounts to numbers of references.
LEMMA CopiesOfArchive ==
  ASSUME NEW a \in Archive
  PROVE  /\ CopiesOf(a) \in [Chunk -> Nat]
         /\ \A c \in Chunk : CopiesOf(a)[c] = Copies(a, c) /\ Copies(a, c) \in Nat
BY CopiesNumber DEF CopiesOf

\* An archive that was written completes the server and the directory.
LEMMA UploadedDurable ==
  ASSUME Durable(srv, dir), synced, NEW a \in Archive, NEW T,
         WriteTable(T, CopiesOf(a)), T.extra = dir.extra,
         NEW k \in Key, k \notin srv.m \cup DOMAIN srv.i
  PROVE  Durable(Uploaded(k, a, T.up), Stored(WithFiles(T, a)))
<1> DEFINE n == CopiesOf(a)
           s == Uploaded(k, a, T.up)
           d == Stored(WithFiles(T, a))
<1>1. /\ IsServer(srv) /\ IsDirectory(dir)
      /\ Describes(dir.tab, dir.extra, srv.i, ~damaged)
      /\ ~damaged => srv.m = DOMAIN srv.i /\ srv.c = RefsOf(srv.i)
  BY DEF Durable
<1>2. n \in [Chunk -> Nat] /\ \A c \in Chunk : n[c] = Copies(a, c)
  BY CopiesOfArchive
<1>3. /\ s.m = srv.m \cup {k} /\ s.c = srv.c \cup T.up
      /\ s.i = [x \in DOMAIN srv.i \cup {k} |-> IF x = k THEN a ELSE srv.i[x]]
      /\ s = [m |-> s.m, i |-> s.i, c |-> s.c]
  BY DEF Uploaded
<1>4. /\ IsMem(T) /\ T.up = {c \in Chunk : n[c] # 0} \ DOMAIN dir.tab
      /\ DOMAIN T.ht = DOMAIN dir.tab \cup T.up
  BY DEF WriteTable
<1>5. /\ \A c \in Chunk : c \in DOMAIN T.ht <=> n[c] # 0 \/ c \in DOMAIN dir.tab
      /\ \A c \in DOMAIN T.ht : /\ c \in Chunk
                                /\ T.ht[c] = WriteEntry(n, c)
                                /\ T.ht[c].nrefs > 0
  BY <1>1, <1>2, WriteEntries
<1>6. /\ IsDirectory(d) /\ d.extra = dir.extra + Files(a)
      /\ \A c \in Chunk :
           /\ NRefs(d.tab, c) = NRefs(T.ht, c)
           /\ NCopies(d.tab, c) = IF NRefs(T.ht, c) # 0 THEN NCopies(T.ht, c) ELSE 0
  <2>1. /\ IsMem(WithFiles(T, a)) /\ WithFiles(T, a).ht = T.ht
        /\ WithFiles(T, a).extra = dir.extra + Files(a)
    BY <1>4, WithFilesTable
  <2> QED BY <2>1, StoredTable
<1> HIDE DEF s, d, n
<1>7. OneMore(srv.i, s.i, k) /\ s.i[k] = a
  <2>1. IsArchives(srv.i)
    BY <1>1 DEF IsServer
  <2>2. IsArchives(s.i)
    <3>1. DOMAIN s.i = DOMAIN srv.i \cup {k}
      BY <1>3
    <3>2. IsFiniteSet(DOMAIN s.i) /\ DOMAIN s.i \subseteq Key
      BY <2>1, <3>1, FS_AddElement DEF IsArchives
    <3>3. s.i \in [DOMAIN srv.i \cup {k} -> Archive]
      BY <1>3, <2>1 DEF IsArchives
    <3> QED BY <3>1, <3>2, <3>3 DEF IsArchives
  <2> QED BY <1>3, <2>1, <2>2 DEF OneMore
<1>8. IsServer(s)
  <2>1. T.up \subseteq DOMAIN T.ht /\ T.up \subseteq Chunk
    BY <1>4
  <2>2. IsFiniteSet(T.up)
    BY <2>1, <1>4, FS_Subset DEF IsMem
  <2>3. IsFiniteSet(s.c)
    <3>1. IsFiniteSet(srv.c \cup T.up)
      BY <1>1, <2>2, FS_Union DEF IsServer
    <3> QED BY <1>3, <3>1
  <2> QED BY <1>1, <1>3, <1>7, <2>1, <2>3 DEF IsServer, OneMore
<1>9. ASSUME NEW c \in Chunk
      PROVE  /\ NRefs(d.tab, c) = NRefs(dir.tab, c) + Some(Copies(a, c))
             /\ NCopies(d.tab, c) = NCopies(dir.tab, c) + Copies(a, c)
  <2>1. /\ NRefs(dir.tab, c) \in Nat /\ NCopies(dir.tab, c) \in Nat
        /\ NRefs(dir.tab, c) # 0 <=> c \in DOMAIN dir.tab
        /\ c \notin DOMAIN dir.tab => NCopies(dir.tab, c) = 0
    BY <1>1, DirectoryNumbers
  <2>2. CASE c \in DOMAIN T.ht
    <3>1. /\ T.ht[c].nrefs = NRefs(dir.tab, c) + Some(n[c])
          /\ T.ht[c].ncopies = NCopies(dir.tab, c) + n[c]
          /\ T.ht[c].nrefs > 0
      BY <1>1, <1>2, <1>5, <2>2, WriteEntryFields
    <3>2. T.ht[c].nrefs # 0
      <4>1. Some(n[c]) \in Nat
        BY DEF Some
      <4> QED BY <3>1, <4>1, <2>1
    <3> QED BY <1>2, <1>6, <2>2, <3>1, <3>2 DEF NRefs, NCopies
  <2>3. CASE c \notin DOMAIN T.ht
    <3>1. Copies(a, c) = 0 /\ NRefs(dir.tab, c) = 0 /\ NCopies(dir.tab, c) = 0
      BY <1>2, <1>5, <2>1, <2>3
    <3>2. NRefs(T.ht, c) = 0 /\ NCopies(T.ht, c) = 0 /\ Some(Copies(a, c)) = 0
      BY <2>3, <3>1 DEF NRefs, NCopies, Some
    <3> QED BY <1>6, <3>1, <3>2
  <2> QED BY <2>2, <2>3
<1>10. Describes(d.tab, d.extra, s.i, ~damaged)
  <2>1. ASSUME NEW c \in Chunk
        PROVE  /\ AtLeast(NRefs(d.tab, c), Cardinality(UsersOf(s.i, c)), ~damaged)
               /\ AtLeast(NCopies(d.tab, c), UsesOf(s.i, c), ~damaged)
    <3>1. /\ Cardinality(UsersOf(s.i, c)) = Cardinality(UsersOf(srv.i, c)) + Some(Copies(a, c))
          /\ UsesOf(s.i, c) = UsesOf(srv.i, c) + Copies(a, c)
      BY <1>7, ArchivesOneMore
    <3>2. /\ Cardinality(UsersOf(srv.i, c)) \in Nat /\ UsesOf(srv.i, c) \in Nat
      BY <1>7, ArchivesNumber DEF OneMore
    <3>3. NRefs(dir.tab, c) \in Nat /\ NCopies(dir.tab, c) \in Nat
      BY <1>1, DirectoryNumbers
    <3>4. Copies(a, c) \in Nat /\ Some(Copies(a, c)) \in Nat
      BY CopiesNumber DEF Some
    <3>5. /\ AtLeast(NRefs(dir.tab, c), Cardinality(UsersOf(srv.i, c)), ~damaged)
          /\ AtLeast(NCopies(dir.tab, c), UsesOf(srv.i, c), ~damaged)
      BY <1>1 DEF Describes
    <3> QED BY <1>9, <3>1, <3>2, <3>3, <3>4, <3>5 DEF AtLeast
  <2>2. AtLeast(d.extra, FilesOf(s.i), ~damaged)
    <3>1. FilesOf(s.i) = FilesOf(srv.i) + Files(a)
      BY <1>7, ArchivesOneMore
    <3>2. FilesOf(srv.i) \in Nat /\ Files(a) \in Nat /\ dir.extra \in Nat
      BY <1>1, <1>7, ArchivesNumber, RefsFinite DEF OneMore, IsDirectory
    <3>3. AtLeast(dir.extra, FilesOf(srv.i), ~damaged)
      BY <1>1 DEF Describes
    <3> QED BY <1>6, <3>1, <3>2, <3>3 DEF AtLeast
  <2> QED BY <2>1, <2>2 DEF Describes
<1>11. ASSUME ~damaged PROVE s.m = DOMAIN s.i /\ s.c = RefsOf(s.i)
  <2>1. RefsOf(s.i) = RefsOf(srv.i) \cup Refs(a)
    BY <1>7, ArchivesOneMore
  <2>2. ASSUME NEW c \in Chunk PROVE c \in DOMAIN dir.tab <=> c \in RefsOf(srv.i)
    <3>1. NRefs(dir.tab, c) = Cardinality(UsersOf(srv.i, c))
      BY <1>1, <1>11 DEF Describes, AtLeast
    <3>2. NRefs(dir.tab, c) # 0 <=> c \in DOMAIN dir.tab
      BY <1>1, DirectoryNumbers
    <3>3. c \in RefsOf(srv.i) <=> Cardinality(UsersOf(srv.i, c)) # 0
      BY <1>7, ArchivesNumber DEF OneMore
    <3> QED BY <3>1, <3>2, <3>3
  <2>3. ASSUME NEW c \in Chunk PROVE n[c] # 0 <=> c \in Refs(a)
    BY <1>2, CopiesNumber
  <2>4. RefsOf(srv.i) \subseteq Chunk /\ Refs(a) \subseteq Chunk
    BY <1>7, ArchivesNumber, CopiesNumber DEF OneMore
  <2>5. s.c = RefsOf(s.i)
    BY SMTT(30), <1>1, <1>3, <1>4, <1>11, <2>1, <2>2, <2>3, <2>4
  <2>6. s.m = DOMAIN s.i
    BY <1>1, <1>3, <1>11
  <2> QED BY <2>5, <2>6
<1>12. Durable(s, d)
  BY <1>6, <1>8, <1>10, <1>11 DEF Durable
<1> QED BY <1>12 DEF s, d

-----------------------------------------------------------------------------
\* What steps leave alone.
LEMMA DurableKept ==
  ASSUME Durable(srv, dir), UNCHANGED <<srv, dir, synced, damaged>>
  PROVE  Durable(srv, dir)'
BY DEF Durable

LEMMA CheckpointKept ==
  ASSUME Checkpointed, UNCHANGED <<srv, saved, synced, damaged>>
  PROVE  Checkpointed'
BY DEF Checkpointed, Durable, Uploaded

\* An empty table.
LEMMA NoTableIs == IsMem(NoTable) /\ NoTable \in Tapes
<1> DEFINE T == NoTable
<1>1. /\ T.ht = [c \in {} |-> Blank] /\ T.up = {}
      /\ T.total = 0 /\ T.unique = 0 /\ T.extra = 0
      /\ T = [ht |-> T.ht, up |-> T.up, total |-> T.total, unique |-> T.unique,
              extra |-> T.extra]
  BY DEF NoTable
<1> HIDE DEF T
<1>2. DOMAIN T.ht = {} /\ T.ht \in [{} -> Entry]
  BY <1>1
<1>3. AddedUp(T)
  <2>1. SumOf([c \in DOMAIN T.ht |-> T.ht[c].ncopies]) = 0
    BY <1>2, SumEmpty
  <2>2. {c \in DOMAIN T.ht : T.ht[c].nrefs > 0} = {}
    BY <1>2
  <2>3. Cardinality({c \in DOMAIN T.ht : T.ht[c].nrefs > 0}) = 0
    BY <2>2, FS_EmptySet, Zenon
  <2> QED BY <1>1, <2>1, <2>3 DEF AddedUp
<1>4. IsMem(T)
  <2>1. /\ IsFiniteSet(DOMAIN T.ht) /\ T.ht \in [DOMAIN T.ht -> Entry]
        /\ DOMAIN T.ht \subseteq Chunk /\ T.up \subseteq Chunk /\ T.extra \in Nat
    BY <1>1, <1>2, FS_EmptySet
  <2> QED BY <1>1, <1>3, <2>1, TableIs
<1>5. T \in Tapes
  BY <1>1 DEF Tapes, T
<1> QED BY <1>4, <1>5 DEF T

\* At the end of a command all that matters is what survives it.
LEMMA IdleInv ==
  ASSUME Idle, Durable(srv, dir)', synced' \in BOOLEAN, damaged' \in BOOLEAN, faults' \in Nat
  PROVE  IInv'
<1>1. /\ op' = "none" /\ mem' = NoTable /\ key' = None /\ ar' = NoArchive /\ buf' = <<>>
      /\ saved' = None /\ it' = NoIter /\ tape' = NoTable /\ todo' = {} /\ keep' = {} /\ del' = {}
  BY DEF Idle
<1>2. NoArchive \in Archive /\ <<>> \in Seq(Data) /\ NoIter \in Walks
  BY NothingLeft DEF NoArchive, Archive
<1>3. Types'
  BY <1>1, <1>2, NoTableIs DEF Types
<1>4. Checkpointed' /\ Resting' /\ Writing' /\ Deleting' /\ Checking'
  BY <1>1 DEF Checkpointed, Resting, Writing, Deleting, Checking
<1> QED BY <1>3, <1>4 DEF IInv

LEMMA InitInv == Init => IInv
<1> SUFFICES ASSUME Init PROVE IInv
  OBVIOUS
<1>1. /\ op = "none" /\ mem = NoTable /\ key = None /\ ar = NoArchive /\ buf = <<>>
      /\ saved = None /\ it = NoIter /\ tape = NoTable /\ todo = {} /\ keep = {} /\ del = {}
      /\ synced = TRUE /\ damaged = FALSE /\ faults = 0
  BY DEF Init
<1>2. NoArchive \in Archive /\ <<>> \in Seq(Data) /\ NoIter \in Walks
  BY NothingLeft DEF NoArchive, Archive
<1>3. Types
  BY <1>1, <1>2, NoTableIs DEF Types
<1>4. Checkpointed /\ Resting /\ Writing /\ Deleting /\ Checking
  BY <1>1 DEF Checkpointed, Resting, Writing, Deleting, Checking
<1>5. Durable(srv, dir)
  <2>1. /\ srv.m = {} /\ srv.c = {} /\ DOMAIN srv.i = {} /\ srv.i \in [{} -> Archive]
        /\ srv = [m |-> srv.m, i |-> srv.i, c |-> srv.c]
        /\ DOMAIN dir.tab = {} /\ dir.extra = 0
        /\ dir.tab \in [{} -> [nrefs : Nat \ {0}, ncopies : Nat]]
        /\ dir = [tab |-> dir.tab, extra |-> dir.extra]
    BY DEF Init
  <2>2. IsServer(srv) /\ IsDirectory(dir)
    BY <2>1, FS_EmptySet DEF IsServer, IsArchives, IsDirectory
  <2>3. /\ \A c : UsersOf(srv.i, c) = {} /\ UsesOf(srv.i, c) = 0
        /\ FilesOf(srv.i) = 0 /\ RefsOf(srv.i) = {}
    BY <2>1, SumEmpty DEF UsersOf, UsesOf, FilesOf, RefsOf
  <2>4. Describes(dir.tab, dir.extra, srv.i, ~damaged)
    <3>1. \A c : Cardinality(UsersOf(srv.i, c)) = 0
      BY <2>3, FS_EmptySet
    <3>2. \A c : NRefs(dir.tab, c) = 0 /\ NCopies(dir.tab, c) = 0
      BY <2>1 DEF NRefs, NCopies
    <3> QED BY <2>1, <2>3, <3>1, <3>2 DEF Describes, AtLeast
  <2> QED BY <2>1, <2>2, <2>3, <2>4 DEF Durable
<1> QED BY <1>3, <1>4, <1>5 DEF IInv

-----------------------------------------------------------------------------
\* The steps of a backup.

\* One reference more, in the archive and in the table.
LEMMA WriteRef ==
  ASSUME IsDirectory(dir), NEW a \in Archive, NEW b \in Archive, NEW d \in Chunk,
         \A c \in Chunk : Copies(b, c) = Copies(a, c) + One(d, c),
         NEW T, WriteTable(T, CopiesOf(a))
  PROVE  WriteTable(WriteChunk(T, d), CopiesOf(b)) /\ WriteChunk(T, d).extra = T.extra
<1>1. CopiesOf(b) = [c \in Chunk |-> CopiesOf(a)[c] + One(d, c)]
  BY DEF CopiesOf
<1>2. CopiesOf(a) \in [Chunk -> Nat]
  BY CopiesOfArchive
<1> HIDE DEF CopiesOf
<1> QED BY <1>1, <1>2, WriteStep

\* The index stream is cut.
LEMMA WriteCut ==
  ASSUME IsDirectory(dir), NEW h \in Seq(Data), NEW x \in Seq(Index), NEW b \in Index,
         NEW T, WriteTable(T, CopiesOf([h |-> h \o b, x |-> x]))
  PROVE  /\ [h |-> h, x |-> Append(x, b)] \in Archive
         /\ WriteTable(WriteChunk(T, b), CopiesOf([h |-> h, x |-> Append(x, b)]))
         /\ WriteChunk(T, b).extra = T.extra
<1> DEFINE a == [h |-> h \o b, x |-> x]
           e == [h |-> h, x |-> Append(x, b)]
<1>1. b \in Seq(Data)
  BY IndexIs
<1>2. a \in Archive /\ e \in Archive
  BY <1>1 DEF Archive
<1>3. \A c \in Chunk : Copies(e, c) = Copies(a, c) + One(b, c)
  BY CopiesCut
<1>4. b \in Chunk
  BY DEF Chunk
<1>5. WriteTable(T, CopiesOf(a))
  OBVIOUS
<1> HIDE DEF a, e
<1>6. WriteTable(WriteChunk(T, b), CopiesOf(e)) /\ WriteChunk(T, b).extra = T.extra
  BY <1>2, <1>3, <1>4, <1>5, WriteRef
<1> QED BY <1>2, <1>6 DEF e

\* A header or a chunk of the header stream is added.
LEMMA WriteAppend ==
  ASSUME IsDirectory(dir), NEW h \in Seq(Data), NEW x \in Seq(Index), NEW d \in Data,
         NEW T, WriteTable(T, CopiesOf([h |-> h, x |-> x]))
  PROVE  /\ [h |-> Append(h, d), x |-> x] \in Archive
         /\ WriteTable(WriteChunk(T, d), CopiesOf([h |-> Append(h, d), x |-> x]))
         /\ WriteChunk(T, d).extra = T.extra
<1> DEFINE a == [h |-> h, x |-> x]
           e == [h |-> Append(h, d), x |-> x]
<1>1. <<d>> \in Seq(Data) /\ Append(h, d) = h \o <<d>> /\ Append(h, d) \in Seq(Data)
  OBVIOUS
<1>2. a \in Archive /\ e \in Archive
  BY <1>1 DEF Archive
<1>3. \A c \in Chunk : Copies(e, c) = Copies(a, c) + One(d, c)
  <2>1. \A c : Copies([h |-> h \o <<d>>, x |-> x], c)
                = Copies([h |-> h, x |-> x], c) + Occ(<<d>>, c)
    BY <1>1, CopiesHeaders
  <2>2. \A c : Occ(<<d>>, c) = One(d, c)
    BY OccOne, Zenon DEF One
  <2> QED BY <1>1, <2>1, <2>2
<1>4. d \in Chunk
  BY DEF Chunk
<1>5. WriteTable(T, CopiesOf(a))
  OBVIOUS
<1> HIDE DEF a, e
<1>6. WriteTable(WriteChunk(T, d), CopiesOf(e)) /\ WriteChunk(T, d).extra = T.extra
  BY <1>2, <1>3, <1>4, <1>5, WriteRef
<1> QED BY <1>2, <1>6 DEF e

\* What holds while an archive is written.
LEMMA WriteFacts ==
  ASSUME IInv, op = "write"
  PROVE  /\ IsDirectory(dir) /\ ar.h \in Seq(Data) /\ ar.x \in Seq(Index)
         /\ ar = [h |-> ar.h, x |-> ar.x]
         /\ buf \in Seq(Data) /\ Len(buf) < MaxIndex /\ synced /\ key \in Key
         /\ WriteTable(mem, CopiesOf([h |-> ar.h \o buf, x |-> ar.x]))
         /\ mem.extra = dir.extra /\ Durable(srv, dir)
         /\ it = NoIter /\ MaxIndex \in Nat
BY ChunksAssumption DEF IInv, Types, Durable, Writing, Far, Resting, Archive

\* The archive and the table at the end of the streams.
LEMMA Flushed ==
  ASSUME IInv, op = "write", NEW hd \in Headers
  PROVE  /\ FlushedArchive(hd) \in Archive
         /\ WriteTable(FlushedTable(hd), CopiesOf(FlushedArchive(hd)))
         /\ FlushedTable(hd).extra = dir.extra
<1> DEFINE x == ar.x \o LastIndex
           T == WriteChunks(mem, LastIndex)
<1>1. /\ IsDirectory(dir) /\ ar.h \in Seq(Data) /\ ar.x \in Seq(Index)
      /\ buf \in Seq(Data) /\ Len(buf) < MaxIndex /\ MaxIndex \in Nat
      /\ WriteTable(mem, CopiesOf([h |-> ar.h \o buf, x |-> ar.x]))
      /\ mem.extra = dir.extra
  BY WriteFacts
<1>2. x \in Seq(Index) /\ WriteTable(T, CopiesOf([h |-> ar.h, x |-> x])) /\ T.extra = dir.extra
  <2>1. CASE buf = <<>>
    <3>1. LastIndex = <<>> /\ x = ar.x /\ ar.h \o buf = ar.h
      BY <1>1, <2>1 DEF LastIndex
    <3>2. T = mem
      BY <3>1, Zenon DEF WriteChunks
    <3> HIDE DEF T, x
    <3> QED BY <1>1, <3>1, <3>2
  <2>2. CASE buf # <<>>
    <3>1. LastIndex = <<buf>> /\ x = Append(ar.x, buf)
      BY <1>1, <2>2 DEF LastIndex
    <3>2. T = WriteChunk(mem, buf)
      BY <3>1 DEF WriteChunks
    <3>3. buf \in Index
      <4>1. Len(buf) \in 1..MaxIndex
        BY <1>1, <2>2
      <4> QED BY <1>1, <4>1, IndexIs
    <3>4. x \in Seq(Index)
      BY <1>1, <3>1, <3>3
    <3> HIDE DEF T, x
    <3>5. WriteTable(T, CopiesOf([h |-> ar.h, x |-> Append(ar.x, buf)])) /\ T.extra = mem.extra
      BY <1>1, <3>2, <3>3, WriteCut
    <3> QED BY <1>1, <3>1, <3>4, <3>5
  <2> QED BY <2>1, <2>2
<1>3. FlushedTable(hd) = WriteChunks(T, hd) /\ FlushedArchive(hd) = [h |-> ar.h \o hd, x |-> x]
  BY Zenon DEF FlushedTable, FlushedArchive
<1> HIDE DEF T, x
<1>4. CASE hd = <<>>
  <2>1. FlushedTable(hd) = T /\ FlushedArchive(hd) = [h |-> ar.h, x |-> x]
    <3>1. ar.h \o hd = ar.h
      BY <1>1, <1>4
    <3>2. WriteChunks(T, hd) = T
      BY <1>4 DEF WriteChunks
    <3> QED BY <1>3, <3>1, <3>2, Zenon
  <2> QED BY <1>1, <1>2, <2>1 DEF Archive
<1>5. CASE hd # <<>>
  <2>1. PICK c \in Header : hd = <<c>>
    BY <1>5 DEF Headers
  <2>2. c \in Data
    BY ChunksAssumption
  <2>3. ar.h \o hd = Append(ar.h, c)
    BY <1>1, <2>1, <2>2
  <2>4. WriteChunks(T, hd) = WriteChunk(T, c)
    BY <2>1 DEF WriteChunks
  <2>5. FlushedTable(hd) = WriteChunk(T, c)
        /\ FlushedArchive(hd) = [h |-> Append(ar.h, c), x |-> x]
    BY <1>3, <2>3, <2>4, Zenon
  <2>6. /\ [h |-> Append(ar.h, c), x |-> x] \in Archive
        /\ WriteTable(WriteChunk(T, c), CopiesOf([h |-> Append(ar.h, c), x |-> x]))
        /\ WriteChunk(T, c).extra = T.extra
    <3>1. /\ IsDirectory(dir) /\ ar.h \in Seq(Data) /\ x \in Seq(Index)
          /\ WriteTable(T, CopiesOf([h |-> ar.h, x |-> x]))
      BY <1>1, <1>2
    <3> QED BY <2>2, <3>1, WriteAppend, ZenonT(40)
  <2> QED BY <1>2, <2>5, <2>6
<1> QED BY <1>4, <1>5

\* writetape_open
LEMMA OpenInv == ASSUME IInv, NEW n \in Name, Open(n) PROVE IInv'
<1>1. /\ op = "none" /\ synced /\ op' = "write" /\ key' = <<n, FALSE>> /\ mem' = Loaded
      /\ UNCHANGED <<srv, dir, synced, ar, buf, saved, it, tape, todo, keep, del, faults, damaged>>
  BY DEF Open, durable, writer, walker, env
<1>2. Types /\ Durable(srv, dir) /\ Checkpointed /\ Resting
  BY DEF IInv
<1>3. /\ IsMem(Loaded) /\ Loaded.extra = dir.extra /\ WriteTable(Loaded, [c \in Chunk |-> 0])
  BY <1>2, LoadedTable, LoadedWrites DEF Durable
<1>4. saved = None /\ it = NoIter /\ ar = NoArchive /\ buf = <<>>
  BY <1>1, <1>2 DEF Resting
<1>5. key' \in Key
  BY <1>1 DEF Key
<1>6. Types'
  BY <1>1, <1>2, <1>3, <1>5 DEF Types
<1>7. Durable(srv, dir)' /\ Checkpointed'
  BY <1>1, <1>2, DurableKept, CheckpointKept
<1>8. Resting'
  BY <1>1, <1>4 DEF Resting
<1>9. Deleting' /\ Checking'
  BY <1>1 DEF Deleting, Checking
<1>10. Writing'
  <2>1. Far' = NoArchive
    BY <1>1, <1>4 DEF Far, NoArchive
  <2>2. CopiesOf(NoArchive) = [c \in Chunk |-> 0]
    BY CopiesNone DEF CopiesOf
  <2>3. WriteTable(mem, CopiesOf(Far))'
    BY <1>1, <1>3, <2>1, <2>2 DEF WriteTable
  <2>4. Len(buf') < MaxIndex
    BY <1>1, <1>4, ChunksAssumption
  <2> QED BY <1>1, <1>3, <1>5, <2>3, <2>4 DEF Writing
<1> QED BY <1>6, <1>7, <1>8, <1>9, <1>10 DEF IInv

\* callback_file and writetape_writechunk
LEMMA WriteFileChunkInv == ASSUME IInv, NEW c \in Data, WriteFileChunk(c) PROVE IInv'
<1> DEFINE T == WriteChunk(mem, c)
           b == Append(buf, c)
<1>1. /\ op = "write"
      /\ IF c \in Cut \/ Len(b) = MaxIndex
           THEN mem' = WriteChunk(T, b) /\ buf' = <<>> /\ ar' = [ar EXCEPT !.x = Append(@, b)]
           ELSE mem' = T /\ buf' = b /\ ar' = ar
      /\ UNCHANGED <<srv, dir, synced, op, key, saved, it, tape, todo, keep, del, faults, damaged>>
  BY DEF WriteFileChunk, durable, walker, env
<1>2. Types /\ Durable(srv, dir) /\ Checkpointed /\ Resting
  BY DEF IInv
<1>3. /\ IsDirectory(dir) /\ ar.h \in Seq(Data) /\ ar.x \in Seq(Index)
      /\ ar = [h |-> ar.h, x |-> ar.x]
      /\ buf \in Seq(Data) /\ Len(buf) < MaxIndex /\ synced /\ key \in Key
      /\ WriteTable(mem, CopiesOf([h |-> ar.h \o buf, x |-> ar.x]))
      /\ mem.extra = dir.extra /\ MaxIndex \in Nat
  BY <1>1, WriteFacts
<1>4. /\ b \in Seq(Data) /\ Len(b) = Len(buf) + 1
      /\ Append(ar.h \o buf, c) = ar.h \o b /\ ar.h \o buf \in Seq(Data)
  <2>1. /\ b \in Seq(Data) /\ Len(b) = Len(buf) + 1 /\ ar.h \o buf \in Seq(Data)
        /\ <<c>> \in Seq(Data)
    BY <1>3
  <2>2. Append(ar.h \o buf, c) = (ar.h \o buf) \o <<c>> /\ b = buf \o <<c>>
    BY <1>3, <2>1, AppendIsConcat
  <2>3. (ar.h \o buf) \o <<c>> = ar.h \o (buf \o <<c>>)
    BY <1>3, <2>1, ConcatAssociative
  <2> QED BY <2>1, <2>2, <2>3
<1>5. WriteTable(T, CopiesOf([h |-> ar.h \o b, x |-> ar.x])) /\ T.extra = dir.extra
  <2>1. /\ WriteTable(WriteChunk(mem, c), CopiesOf([h |-> Append(ar.h \o buf, c), x |-> ar.x]))
        /\ WriteChunk(mem, c).extra = mem.extra
    <3>1. /\ IsDirectory(dir) /\ ar.h \o buf \in Seq(Data) /\ ar.x \in Seq(Index)
          /\ WriteTable(mem, CopiesOf([h |-> ar.h \o buf, x |-> ar.x]))
      BY <1>3, <1>4
    <3> DEFINE h == ar.h \o buf
               x == ar.x
    <3>2. /\ IsDirectory(dir) /\ h \in Seq(Data) /\ x \in Seq(Index)
          /\ WriteTable(mem, CopiesOf([h |-> h, x |-> x]))
      BY <3>1
    <3> HIDE DEF h, x
    <3>3. /\ WriteTable(WriteChunk(mem, c), CopiesOf([h |-> Append(h, c), x |-> x]))
          /\ WriteChunk(mem, c).extra = mem.extra
      BY <3>2, WriteAppend, Zenon
    <3> QED BY <3>3 DEF h, x
  <2> QED BY <1>3, <1>4, <2>1
<1> HIDE DEF T, b
<1>6. /\ WriteTable(mem', CopiesOf(Far')) /\ mem'.extra = dir.extra
      /\ ar' \in Archive /\ buf' \in Seq(Data) /\ Len(buf') < MaxIndex
  <2>1. CASE c \in Cut \/ Len(b) = MaxIndex
    <3>1. /\ mem' = WriteChunk(T, b) /\ buf' = <<>>
          /\ ar' = [h |-> ar.h, x |-> Append(ar.x, b)]
      BY <1>1, <1>3, <2>1
    <3>2. b \in Index
      <4>1. Len(b) \in 1..MaxIndex
        BY <1>3, <1>4
      <4> QED BY <1>4, <4>1, IndexIs
    <3>3. /\ [h |-> ar.h, x |-> Append(ar.x, b)] \in Archive
          /\ WriteTable(WriteChunk(T, b), CopiesOf([h |-> ar.h, x |-> Append(ar.x, b)]))
          /\ WriteChunk(T, b).extra = T.extra
      BY <1>3, <1>5, <3>2, WriteCut, ZenonT(40)
    <3>4. Far' = ar'
      <4>1. ar.h \o <<>> = ar.h
        BY <1>3
      <4> QED BY <3>1, <4>1 DEF Far
    <3>5. Len(buf') < MaxIndex /\ buf' \in Seq(Data)
      BY <3>1, ChunksAssumption
    <3> QED BY <1>5, <3>1, <3>3, <3>4, <3>5
  <2>2. CASE ~(c \in Cut \/ Len(b) = MaxIndex)
    <3>1. mem' = T /\ buf' = b /\ ar' = ar
      BY <1>1, <2>2
    <3>2. Far' = [h |-> ar.h \o b, x |-> ar.x]
      BY <3>1 DEF Far
    <3>3. Len(b) < MaxIndex
      BY <1>3, <1>4, <2>2
    <3> QED BY <1>2, <1>4, <1>5, <3>1, <3>2, <3>3 DEF Types
  <2> QED BY <2>1, <2>2
<1>7. Types'
  BY <1>1, <1>2, <1>6 DEF Types, WriteTable
<1>8. Durable(srv, dir)' /\ Checkpointed'
  BY <1>1, <1>2, DurableKept, CheckpointKept
<1>9. Resting' /\ Deleting' /\ Checking'
  BY <1>1, <1>2 DEF Resting, Deleting, Checking
<1>10. Writing'
  BY <1>1, <1>3, <1>6 DEF Writing, WriteTable
<1> QED BY <1>7, <1>8, <1>9, <1>10 DEF IInv

\* What a flush would put on the server, under key k.
LEMMA FlushedDurable ==
  ASSUME IInv, op = "write", NEW hd \in Headers,
         NEW k \in Key, k \notin srv.m \cup DOMAIN srv.i,
         NEW T, T = WithFiles(FlushedTable(hd), FlushedArchive(hd))
  PROVE  Durable(Uploaded(k, FlushedArchive(hd), T.up), Stored(T))
<1>1. /\ FlushedArchive(hd) \in Archive
      /\ WriteTable(FlushedTable(hd), CopiesOf(FlushedArchive(hd)))
      /\ FlushedTable(hd).extra = dir.extra
  BY Flushed
<1>2. Durable(srv, dir) /\ synced
  BY WriteFacts
<1>3. T.up = FlushedTable(hd).up
  BY <1>1, WithFilesTable DEF WriteTable
<1>4. Durable(Uploaded(k, FlushedArchive(hd), FlushedTable(hd).up),
              Stored(WithFiles(FlushedTable(hd), FlushedArchive(hd))))
  BY <1>1, <1>2, UploadedDurable
<1> QED BY <1>3, <1>4

\* writetape_checkpoint
LEMMA CheckpointInv == ASSUME IInv, NEW hd \in Headers, Checkpoint(hd) PROVE IInv'
<1> DEFINE a == FlushedArchive(hd)
           F == FlushedTable(hd)
           T == WithFiles(F, a)
           k == <<key[1], TRUE>>
<1>1. /\ op = "write" /\ Accepts(k, T.up)
      /\ saved' = [key |-> k, ar |-> a, up |-> T.up, dir |-> Stored(T)]
      /\ mem' = [T EXCEPT !.extra = mem.extra]
      /\ ar' = a /\ buf' = <<>>
      /\ UNCHANGED <<srv, dir, synced, op, key, it, tape, todo, keep, del, faults, damaged>>
  BY DEF Checkpoint, durable, walker, env
<1>2. Types /\ Durable(srv, dir) /\ Resting
  BY DEF IInv
<1>3. synced /\ key \in Key /\ MaxIndex \in Nat /\ MaxIndex # 0 /\ mem.extra = dir.extra
  BY <1>1, WriteFacts, ChunksAssumption
<1>4. k \in Key /\ k \notin srv.m \cup DOMAIN srv.i
  BY <1>1, <1>3 DEF Accepts, Key
<1>5. a \in Archive /\ WriteTable(F, CopiesOf(a)) /\ F.extra = dir.extra
  BY <1>1, Flushed
<1>6. Durable(Uploaded(k, a, T.up), Stored(T))
  BY <1>1, <1>4, FlushedDurable
<1>7. mem' = F
  <2> DEFINE e == F.extra
  <2>1. F = [ht |-> F.ht, up |-> F.up, total |-> F.total, unique |-> F.unique,
             extra |-> F.extra]
    BY <1>5 DEF WriteTable, IsMem
  <2>2. mem' = [T EXCEPT !.extra = F.extra]
    BY <1>1, <1>3, <1>5
  <2>3. T = [F EXCEPT !.extra = F.extra + Files(a)]
    BY DEF WithFiles
  <2> HIDE DEF F, a, T
  <2> QED BY <2>1, <2>2, <2>3
<1>8. Far' = a
  <2>1. a = [h |-> a.h, x |-> a.x] /\ a.h \o <<>> = a.h
    BY <1>5 DEF Archive
  <2> HIDE DEF a
  <2> QED BY <1>1, <2>1 DEF Far
<1> HIDE DEF a, F, T, k
<1>9. Types'
  BY <1>1, <1>2, <1>5, <1>7 DEF Types, WriteTable
<1>10. Durable(srv, dir)'
  BY <1>1, <1>2, DurableKept
<1>11. Checkpointed'
  <2>1. saved'.key = k /\ saved'.ar = a /\ saved'.up = T.up /\ saved'.dir = Stored(T)
    BY <1>1
  <2>2. Uploaded(saved.key, saved.ar, saved.up)' = Uploaded(k, a, T.up)
    BY <1>1, <2>1 DEF Uploaded
  <2>3. Durable(Uploaded(saved.key, saved.ar, saved.up), saved.dir)'
    BY <1>1, <1>6, <2>1, <2>2 DEF Durable
  <2> QED BY <1>1, <1>4, <2>1, <2>3 DEF Checkpointed
<1>12. Resting' /\ Deleting' /\ Checking'
  BY <1>1, <1>2 DEF Resting, Deleting, Checking
<1>13. Writing'
  <2>1. WriteTable(mem, CopiesOf(Far))'
    BY <1>1, <1>5, <1>7, <1>8 DEF WriteTable
  <2>2. Len(buf') < MaxIndex
    BY <1>1, <1>3
  <2> QED BY <1>1, <1>3, <1>5, <1>7, <2>1, <2>2 DEF Writing
<1> QED BY <1>9, <1>10, <1>11, <1>12, <1>13 DEF IInv

\* writetape_close
LEMMA CloseInv ==
  ASSUME IInv, NEW hd \in Headers, NEW eof \in BOOLEAN, Close(hd, eof)
  PROVE  IInv'
<1> DEFINE a == FlushedArchive(hd)
           T == WithFiles(FlushedTable(hd), a)
           k == <<key[1], eof>>
<1>1. /\ op = "write" /\ Accepts(k, T.up)
      /\ srv' = Uploaded(k, a, T.up) /\ dir' = Stored(T)
      /\ Idle /\ UNCHANGED <<synced, faults, damaged>>
  BY DEF Close, env
<1>2. key \in Key
  BY <1>1, WriteFacts
<1>3. k \in Key /\ k \notin srv.m \cup DOMAIN srv.i
  BY <1>1, <1>2 DEF Accepts, Key
<1>4. Durable(Uploaded(k, a, T.up), Stored(T))
  BY <1>1, <1>3, FlushedDurable
<1> HIDE DEF a, T, k
<1>5. Durable(srv, dir)'
  BY <1>1, <1>4 DEF Durable
<1> QED BY <1>1, <1>5, IdleInv DEF IInv, Types

\* A command that gives up, and what the next one commits of it.
LEMMA FailInv == ASSUME IInv, Fail PROVE IInv'
<1>1. /\ Idle /\ UNCHANGED <<synced, faults, damaged>>
      /\ \/ saved = None /\ UNCHANGED <<srv, dir>>
         \/ /\ saved # None
            /\ srv' = Uploaded(saved.key, saved.ar, saved.up) /\ dir' = saved.dir
  BY DEF Fail, env
<1>2. Durable(srv, dir)'
  <2>1. CASE saved = None
    BY <1>1, <2>1, DurableKept DEF IInv
  <2>2. CASE saved # None
    <3>1. Durable(Uploaded(saved.key, saved.ar, saved.up), saved.dir)
      BY <2>2 DEF IInv, Checkpointed
    <3> QED BY <1>1, <2>2, <3>1 DEF Durable
  <2> QED BY <2>1, <2>2
<1> QED BY <1>1, <1>2, IdleInv DEF IInv, Types

-----------------------------------------------------------------------------
\* Deleting an archive.

\* Nothing has been met of an archive at the start, and all of it at the end.
LEMMA StartMet ==
  ASSUME NEW a \in Archive, NEW c
  PROVE  Copies(a, c) - Copies(Left(Iter(a)), c) = 0
BY WholeLeft, CopiesNumber

LEMMA AllMet ==
  ASSUME IsArchives(srv.i), key \in DOMAIN srv.i, it = NoIter, NEW c
  PROVE  Met(c) = Copies(srv.i[key], c) /\ Met(c) \in Nat
<1>1. srv.i[key] \in Archive
  BY DEF IsArchives
<1>2. Copies(srv.i[key], c) \in Nat /\ Copies(Left(it), c) = 0
  BY <1>1, CopiesNumber, NothingLeft
<1> QED BY <1>2 DEF Met

\* The walk is at a chunk of the archive.
LEMMA CurrentRef ==
  ASSUME IsArchives(srv.i), OnWalk, it \in Walks, it # NoIter
  PROVE  Current(it) \in Chunk /\ Current(it) \in Refs(srv.i[key])
<1>1. PICK d : d = Current(it)
  OBVIOUS
<1>2. /\ Copies(Left(it), d) \in Nat /\ Current(it) \in Chunk
      /\ \E n \in Nat : Copies(Left(it), d) = n + One(Current(it), d)
  <2>1. /\ Copies(Left(it), d) = Copies(Left(Advance(it, FALSE)), d) + One(Current(it), d)
        /\ Copies(Left(it), d) \in Nat /\ Copies(Left(Advance(it, FALSE)), d) \in Nat
        /\ Current(it) \in Chunk
    BY StepLeaves, Zenon
  <2> QED BY <2>1, Zenon
<1>3. One(Current(it), d) = 1
  BY <1>1 DEF One
<1>4. d \in Chunk /\ Copies(Left(it), d) # 0 /\ Copies(Left(it), d) \in Nat
  BY <1>1, <1>2, <1>3
<1>5. srv.i[key] \in Archive
  BY DEF IsArchives, OnWalk
<1>6. Copies(srv.i[key], d) \in Nat /\ Copies(srv.i[key], d) - Copies(Left(it), d) \in Nat
  BY <1>4, <1>5, CopiesNumber DEF OnWalk, Met
<1>7. Copies(srv.i[key], d) # 0
  BY <1>4, <1>6
<1> QED BY <1>1, <1>4, <1>5, <1>7, CopiesNumber

\* One more reference is met.
LEMMA OneMet ==
  ASSUME IsArchives(srv.i), OnWalk, it \in Walks, it # NoIter, Oom = FALSE,
         \E oom \in OomAt(it) : it' = Advance(it, oom), UNCHANGED <<srv, key>>
  PROVE  /\ it' \in Walks /\ OnWalk' /\ Current(it) \in Chunk
         /\ \A c \in Chunk : /\ Met(c)' = Met(c) + One(Current(it), c)
                             /\ Met(c)' <= Copies(srv.i[key], c)
                             /\ Met(c) \in Nat /\ Met(c)' \in Nat
<1>1. it' = Advance(it, FALSE)
  BY DEF OomAt
<1>2. it' \in Walks /\ Current(it) \in Chunk
  BY <1>1, StepLeaves
<1>3. srv.i[key] \in Archive /\ key \in DOMAIN srv.i
  BY DEF OnWalk, IsArchives
<1>4. ASSUME NEW c \in Chunk
      PROVE  /\ Met(c)' = Met(c) + One(Current(it), c)
             /\ Met(c)' <= Copies(srv.i[key], c)
             /\ Met(c) \in Nat /\ Met(c)' \in Nat
  <2>1. /\ Copies(Left(it), c) = Copies(Left(it'), c) + One(Current(it), c)
        /\ Copies(Left(it), c) \in Nat /\ Copies(Left(it'), c) \in Nat
    BY <1>1, StepLeaves
  <2>2. Copies(srv.i[key], c) \in Nat /\ One(Current(it), c) \in Nat
    BY <1>3, CopiesNumber DEF One
  <2>3. Met(c) \in Nat /\ Met(c) = Copies(srv.i[key], c) - Copies(Left(it), c)
    BY DEF OnWalk, Met
  <2>4. Met(c)' = Copies(srv.i[key], c) - Copies(Left(it'), c)
    BY DEF Met
  <2> QED BY <2>1, <2>2, <2>3, <2>4
<1>5. OnWalk'
  BY <1>3, <1>4 DEF OnWalk
<1> QED BY <1>2, <1>4, <1>5

\* multitape_delete, up to the first chunk
LEMMA DeleteStartInv == ASSUME IInv, NEW k \in Key, DeleteStart(k) PROVE IInv'
<1>1. /\ op = "none" /\ synced /\ k \in srv.m /\ k \in DOMAIN srv.i
      /\ op' = "delete" /\ key' = k /\ mem' = Loaded
      /\ it' = Iter(srv.i[k]) /\ keep' = srv.m \ {k}
      /\ UNCHANGED <<srv, dir, synced, ar, buf, saved, tape, todo, del, faults, damaged>>
  BY DEF DeleteStart, durable, writer, env
<1>2. Types /\ Durable(srv, dir) /\ Checkpointed /\ Resting
  BY DEF IInv
<1>3. IsServer(srv) /\ IsDirectory(dir)
  BY <1>2 DEF Durable
<1>4. srv.i[k] \in Archive
  BY <1>1, <1>3 DEF IsServer, IsArchives
<1>5. Iter(srv.i[k]) \in Walks
  BY <1>4, WholeLeft
<1>6. ASSUME NEW c PROVE Met(c)' = 0
  BY <1>1, <1>4, StartMet DEF Met
<1>7. /\ IsMem(Loaded) /\ AddedUp(Loaded) /\ Loaded.extra = dir.extra
      /\ DOMAIN Loaded.ht = DOMAIN dir.tab
      /\ \A c \in DOMAIN dir.tab :
           Loaded.ht[c] = Row(dir.tab[c].nrefs, dir.tab[c].ncopies, FALSE, 0)
  BY <1>3, LoadedTable
<1>8. saved = None /\ ar = NoArchive /\ buf = <<>> /\ del = {}
  BY <1>1, <1>2 DEF Resting
<1>9. Types'
  <2>1. keep' \subseteq Key
    BY <1>1, <1>3 DEF IsServer
  <2> QED BY <1>1, <1>2, <1>5, <1>7, <2>1 DEF Types
<1>10. Durable(srv, dir)' /\ Checkpointed'
  BY <1>1, <1>2, DurableKept, CheckpointKept
<1>11. Resting' /\ Writing' /\ Checking'
  BY <1>1, <1>8 DEF Resting, Writing, Checking
<1>12. ASSUME NEW c \in DOMAIN dir.tab
       PROVE  /\ Loaded.ht[c] = Row(dir.tab[c].nrefs - Some(Met(c)'),
                                    dir.tab[c].ncopies - Met(c)', Met(c)' # 0, 0)
              /\ Loaded.ht[c].nrefs # 0
  <2>1. dir.tab[c].nrefs \in Nat \ {0} /\ dir.tab[c].ncopies \in Nat
    BY <1>3 DEF IsDirectory
  <2>2. /\ dir.tab[c].nrefs - Some(Met(c)') = dir.tab[c].nrefs
        /\ dir.tab[c].ncopies - Met(c)' = dir.tab[c].ncopies /\ (Met(c)' # 0) = FALSE
    BY <1>6, <2>1 DEF Some
  <2>3. Loaded.ht[c] = Row(dir.tab[c].nrefs, dir.tab[c].ncopies, FALSE, 0)
    BY <1>7
  <2>4. Loaded.ht[c].nrefs = dir.tab[c].nrefs
    BY <2>3 DEF Row
  <2> QED BY <2>1, <2>2, <2>3, <2>4, Zenon
<1>13. OnWalk'
  BY <1>1, <1>6 DEF OnWalk
<1>14. AddedUp(mem)'
  BY <1>1, <1>7 DEF AddedUp
<1>15. Deleting'
  <2>1. /\ synced' /\ key' \in srv'.m /\ keep' = srv'.m \ {key'} /\ mem'.extra = dir'.extra
        /\ DOMAIN mem'.ht = DOMAIN dir'.tab
    BY <1>1, <1>7
  <2>2. \A c \in DOMAIN mem'.ht :
           mem'.ht[c] = Row(dir'.tab[c].nrefs - Some(Met(c)'),
                            dir'.tab[c].ncopies - Met(c)', Met(c)' # 0, 0)
    BY <1>1, <1>7, <1>12
  <2>3. del' = {c \in DOMAIN mem'.ht : mem'.ht[c].nrefs = 0}
    BY <1>1, <1>7, <1>8, <1>12
  <2> QED BY <1>13, <1>14, <2>1, <2>2, <2>3 DEF Deleting
<1> QED BY <1>9, <1>10, <1>11, <1>15 DEF IInv

\* chunks_delete_chunk
LEMMA DeleteChunkInv == ASSUME IInv, Oom = FALSE, DeleteChunk PROVE IInv'
<1>1. PICK d : d = Current(it)
  OBVIOUS
<1>2. /\ op = "delete" /\ it # NoIter /\ d \in DOMAIN mem.ht
      /\ mem' = Unref(d)
      /\ del' = IF LastRef(d) THEN del \cup {d} ELSE del
      /\ \E oom \in OomAt(it) : it' = Advance(it, oom)
      /\ UNCHANGED <<srv, dir, synced, op, key, ar, buf, saved, tape, todo, keep, faults, damaged>>
  BY <1>1 DEF DeleteChunk, CanUnref, durable, writer, env
<1>3. Types /\ Durable(srv, dir) /\ Checkpointed /\ Resting
  BY DEF IInv
<1>4. IsServer(srv) /\ IsDirectory(dir) /\ IsArchives(srv.i)
  BY <1>3 DEF Durable, IsServer
<1>5. /\ synced /\ key \in srv.m /\ OnWalk /\ keep = srv.m \ {key}
      /\ AddedUp(mem) /\ mem.extra = dir.extra
      /\ DOMAIN mem.ht = DOMAIN dir.tab
      /\ \A c \in DOMAIN mem.ht :
           mem.ht[c] = Row(dir.tab[c].nrefs - Some(Met(c)), dir.tab[c].ncopies - Met(c),
                           Met(c) # 0, 0)
      /\ del = {c \in DOMAIN mem.ht : mem.ht[c].nrefs = 0}
  BY <1>2 DEF IInv, Deleting
<1>6. /\ it' \in Walks /\ OnWalk' /\ d \in Chunk
      /\ \A c \in Chunk : /\ Met(c)' = Met(c) + One(d, c)
                          /\ Met(c)' <= Copies(srv.i[key], c)
                          /\ Met(c) \in Nat /\ Met(c)' \in Nat
  BY <1>1, <1>2, <1>3, <1>4, <1>5, OneMet DEF Types
<1>7. /\ IsMem(mem) /\ DOMAIN mem.ht \subseteq Chunk
      /\ mem = [ht |-> mem.ht, up |-> mem.up, total |-> mem.total, unique |-> mem.unique,
                extra |-> mem.extra]
      /\ mem.total \in Nat /\ mem.unique \in Nat
      /\ \A c \in DOMAIN mem.ht : mem.ht[c] \in Entry
  BY <1>3 DEF Types, IsMem, IsTable
<1>8. \A c \in DOMAIN mem.ht : dir.tab[c].nrefs \in Nat \ {0} /\ dir.tab[c].ncopies \in Nat
  BY <1>4, <1>5 DEF IsDirectory
<1>9. Met(d)' <= dir.tab[d].ncopies
  <2>1. UsesOf(srv.i, d) <= dir.tab[d].ncopies
    BY <1>2, <1>3, <1>5, <1>6 DEF Durable, Describes, AtLeast, NCopies
  <2>2. Copies(srv.i[key], d) <= UsesOf(srv.i, d) /\ UsesOf(srv.i, d) \in Nat
    BY <1>4, <1>5, ArchivesNumber DEF OnWalk
  <2>3. Copies(srv.i[key], d) \in Nat
    BY <1>4, <1>5, CopiesNumber DEF OnWalk, IsArchives
  <2> QED BY <1>2, <1>6, <1>8, <2>1, <2>2, <2>3
<1>10. PICK e : e = Row(dir.tab[d].nrefs - 1, dir.tab[d].ncopies - Met(d)', TRUE, 0)
  OBVIOUS
<1>11. e \in Entry /\ e.nrefs = dir.tab[d].nrefs - 1 /\ e.ncopies = dir.tab[d].ncopies - Met(d)'
  <2>1. /\ dir.tab[d].nrefs - 1 \in Nat /\ dir.tab[d].ncopies - Met(d)' \in Nat
        /\ TRUE \in BOOLEAN /\ 0 \in Nat
    BY <1>2, <1>6, <1>8, <1>9
  <2>2. e \in Entry
    BY <1>10, <2>1, RowEntry, Zenon
  <2> QED BY <1>10, <2>2 DEF Row
<1>12. Met(d)' = Met(d) + 1 /\ \A c \in Chunk : c # d => Met(c)' = Met(c)
  BY <1>6 DEF One
<1>13. /\ mem.ht[d].nrefs = dir.tab[d].nrefs - Some(Met(d))
       /\ mem.ht[d].ncopies = dir.tab[d].ncopies - Met(d)
       /\ mem.ht[d].ctape <=> Met(d) # 0
       /\ mem.ht[d].nct = 0
  <2>1. mem.ht[d] = Row(dir.tab[d].nrefs - Some(Met(d)), dir.tab[d].ncopies - Met(d),
                        Met(d) # 0, 0)
    BY <1>2, <1>5
  <2> DEFINE a == dir.tab[d].nrefs - Some(Met(d))
             b == dir.tab[d].ncopies - Met(d)
             f == Met(d) # 0
  <2>2. mem.ht[d] = Row(a, b, f, 0)
    BY <2>1
  <2> HIDE DEF a, b, f
  <2>3. /\ mem.ht[d].nrefs = a /\ mem.ht[d].ncopies = b /\ mem.ht[d].ctape = f
        /\ mem.ht[d].nct = 0
    BY <2>2, RowFields
  <2> QED BY <2>3 DEF a, b, f
<1>14. Row(IF mem.ht[d].ctape THEN mem.ht[d].nrefs ELSE mem.ht[d].nrefs - 1,
           mem.ht[d].ncopies - 1, TRUE, mem.ht[d].nct) = e
  <2>1. (IF mem.ht[d].ctape THEN mem.ht[d].nrefs ELSE mem.ht[d].nrefs - 1)
          = dir.tab[d].nrefs - 1
    <3>1. Met(d) = 0 => mem.ht[d].nrefs = dir.tab[d].nrefs - 0 /\ ~mem.ht[d].ctape
      BY <1>13 DEF Some
    <3>2. Met(d) # 0 => mem.ht[d].nrefs = dir.tab[d].nrefs - 1 /\ mem.ht[d].ctape
      BY <1>13 DEF Some
    <3> QED BY <3>1, <3>2, <1>2, <1>8
  <2>2. mem.ht[d].ncopies - 1 = dir.tab[d].ncopies - Met(d)'
    BY <1>2, <1>6, <1>8, <1>12, <1>13
  <2> QED BY <1>10, <1>13, <2>1, <2>2
<1>15. mem' = Changed(mem, d, e)
  <2>1. mem' = [mem EXCEPT !.total = mem.total - 1,
                           !.unique = IF LastRef(d) THEN mem.unique - 1 ELSE mem.unique,
                           !.ht = [mem.ht EXCEPT ![d] = e]]
    BY <1>2, <1>14 DEF Unref
  <2>2. mem.total - mem.ht[d].ncopies + e.ncopies = mem.total - 1
    BY <1>2, <1>6, <1>7, <1>8, <1>11, <1>12, <1>13
  <2>3. mem.unique + (IF e.nrefs > 0 THEN 1 ELSE 0)
                   - (IF mem.ht[d].nrefs > 0 THEN 1 ELSE 0)
          = IF LastRef(d) THEN mem.unique - 1 ELSE mem.unique
    BY <1>2, <1>6, <1>7, <1>8, <1>11, <1>13 DEF LastRef, Some
  <2> QED BY <1>7, <2>1, <2>2, <2>3 DEF Changed
<1>16. IsMem(mem') /\ AddedUp(mem')
  BY <1>2, <1>5, <1>7, <1>11, <1>15, ChangedTable
<1>17. mem'.ht = [mem.ht EXCEPT ![d] = e] /\ mem'.extra = mem.extra
  BY <1>15 DEF Changed
<1>18. ASSUME NEW c \in DOMAIN mem.ht
       PROVE  mem'.ht[c] = Row(dir.tab[c].nrefs - Some(Met(c)'), dir.tab[c].ncopies - Met(c)',
                               Met(c)' # 0, 0)
  <2>1. CASE c = d
    <3>1. Some(Met(d)') = 1 /\ (Met(d)' # 0) = TRUE
      BY <1>6, <1>12 DEF Some
    <3>2. mem'.ht[c] = e
      BY <1>2, <1>17, <2>1
    <3> QED BY <1>10, <2>1, <3>1, <3>2
  <2>2. CASE c # d
    <3>1. mem'.ht[c] = mem.ht[c] /\ Met(c)' = Met(c)
      BY <1>7, <1>12, <1>17, <2>2
    <3> QED BY <1>5, <3>1
  <2> QED BY <2>1, <2>2
<1>19. del' = {c \in DOMAIN mem'.ht : mem'.ht[c].nrefs = 0}
  <2>1. LastRef(d) <=> Met(d) = 0 /\ dir.tab[d].nrefs = 1
    BY <1>2, <1>6, <1>8, <1>13 DEF LastRef, Some
  <2>2. mem.ht[d].nrefs = 0 <=> Met(d) # 0 /\ dir.tab[d].nrefs = 1
    BY <1>2, <1>6, <1>8, <1>13 DEF Some
  <2>3. /\ DOMAIN mem'.ht = DOMAIN mem.ht /\ mem'.ht[d] = e
        /\ \A c \in DOMAIN mem.ht : c # d => mem'.ht[c] = mem.ht[c]
    BY <1>2, <1>17
  <2>4. e.nrefs = 0 <=> dir.tab[d].nrefs = 1
    BY <1>2, <1>8, <1>11
  <2> QED BY <1>2, <1>5, <2>1, <2>2, <2>3, <2>4
<1>20. Types'
  <2>1. del' \subseteq Chunk
    BY <1>2, <1>3, <1>7 DEF Types
  <2> QED BY <1>2, <1>3, <1>6, <1>16, <2>1 DEF Types
<1>21. Durable(srv, dir)' /\ Checkpointed'
  BY <1>2, <1>3, DurableKept, CheckpointKept
<1>22. Resting' /\ Writing' /\ Checking'
  BY <1>2, <1>3 DEF Resting, Writing, Checking
<1>23. Deleting'
  <2>1. AddedUp(mem)'
    BY <1>16 DEF AddedUp
  <2>2. /\ synced' /\ key' \in srv'.m /\ keep' = srv'.m \ {key'} /\ mem'.extra = dir'.extra
        /\ DOMAIN mem'.ht = DOMAIN dir'.tab
    BY <1>2, <1>5, <1>17
  <2>3. \A c \in DOMAIN mem'.ht :
           mem'.ht[c] = Row(dir'.tab[c].nrefs - Some(Met(c)'),
                            dir'.tab[c].ncopies - Met(c)', Met(c)' # 0, 0)
    BY <1>2, <1>17, <1>18
  <2> QED BY <1>6, <1>19, <2>1, <2>2, <2>3 DEF Deleting
<1> QED BY <1>20, <1>21, <1>22, <1>23 DEF IInv

\* Some of the archives are archives.
LEMMA SomeArchives ==
  ASSUME IsArchives(srv.i), NEW K, K \subseteq DOMAIN srv.i
  PROVE  IsArchives([k \in K |-> srv.i[k]])
<1>1. IsFiniteSet(K)
  BY FS_Subset DEF IsArchives
<1> QED BY <1>1 DEF IsArchives

\* What is stored describes what the table does.
LEMMA StoredDescribes ==
  ASSUME NEW T, IsMem(T), NEW I, IsArchives(I), NEW exact \in BOOLEAN,
         Describes(T.ht, T.extra, I, exact)
  PROVE  /\ IsDirectory(Stored(T)) /\ Describes(Stored(T).tab, Stored(T).extra, I, exact)
         /\ exact => \A c \in Chunk : c \in RefsOf(I) <=> NRefs(T.ht, c) # 0
<1>1. /\ IsDirectory(Stored(T)) /\ Stored(T).extra = T.extra
      /\ \A c \in Chunk :
           /\ NRefs(Stored(T).tab, c) = NRefs(T.ht, c)
           /\ NCopies(Stored(T).tab, c) = IF NRefs(T.ht, c) # 0 THEN NCopies(T.ht, c) ELSE 0
  BY StoredTable
<1>2. ASSUME NEW c \in Chunk
      PROVE  /\ AtLeast(NRefs(Stored(T).tab, c), Cardinality(UsersOf(I, c)), exact)
             /\ AtLeast(NCopies(Stored(T).tab, c), UsesOf(I, c), exact)
             /\ exact => (c \in RefsOf(I) <=> NRefs(T.ht, c) # 0)
  <2>1. /\ AtLeast(NRefs(T.ht, c), Cardinality(UsersOf(I, c)), exact)
        /\ AtLeast(NCopies(T.ht, c), UsesOf(I, c), exact)
    BY DEF Describes
  <2>2. /\ Cardinality(UsersOf(I, c)) \in Nat /\ UsesOf(I, c) \in Nat
        /\ c \in RefsOf(I) <=> Cardinality(UsersOf(I, c)) # 0
        /\ Cardinality(UsersOf(I, c)) = 0 => UsesOf(I, c) = 0
    BY ArchivesNumber
  <2>3. NRefs(T.ht, c) \in Nat
    BY DEF IsMem, NRefs, Entry
  <2> QED BY <1>1, <2>1, <2>2, <2>3 DEF AtLeast
<1>3. AtLeast(Stored(T).extra, FilesOf(I), exact)
  BY <1>1 DEF Describes
<1> QED BY <1>1, <1>2, <1>3 DEF Describes

\* After the last chunk of an archive, the table describes the others.
LEMMA OthersDescribed ==
  ASSUME IInv, op = "delete", it = NoIter,
         NEW I, I = [k \in DOMAIN srv.i \ {key} |-> srv.i[k]],
         NEW T, T = [mem EXCEPT !.extra = @ - Files(srv.i[key])]
  PROVE  /\ IsMem(T) /\ T.ht = mem.ht /\ OneMore(I, srv.i, key)
         /\ Describes(T.ht, T.extra, I, ~damaged)
<1> DEFINE J == srv.i
<1>1. op = "delete" /\ it = NoIter
  OBVIOUS
<1>2. Types /\ Durable(srv, dir)
  BY DEF IInv
<1>3. /\ IsServer(srv) /\ IsDirectory(dir) /\ IsArchives(J)
      /\ ~damaged => srv.m = DOMAIN J /\ srv.c = RefsOf(J)
  BY <1>2 DEF Durable, IsServer
<1>4. /\ synced /\ key \in srv.m /\ key \in DOMAIN J /\ keep = srv.m \ {key}
      /\ mem.extra = dir.extra
      /\ DOMAIN mem.ht = DOMAIN dir.tab
      /\ \A c \in DOMAIN mem.ht :
           mem.ht[c] = Row(dir.tab[c].nrefs - Some(Met(c)), dir.tab[c].ncopies - Met(c),
                           Met(c) # 0, 0)
      /\ del = {c \in DOMAIN mem.ht : mem.ht[c].nrefs = 0}
  BY <1>1 DEF IInv, Deleting, OnWalk
<1>5. Describes(dir.tab, dir.extra, J, ~damaged)
  BY <1>2, <1>4 DEF Durable
<1>6. OneMore(I, J, key)
  <2>1. IsArchives(I)
    BY <1>3, SomeArchives
  <2> QED BY <1>3, <1>4, <2>1 DEF OneMore
<1>7. \A c : Met(c) = Copies(J[key], c) /\ Met(c) \in Nat
  BY <1>1, <1>3, <1>4, AllMet
<1>8. /\ IsMem(mem) /\ mem.total \in Nat /\ mem.unique \in Nat /\ mem.extra \in Nat
      /\ mem = [ht |-> mem.ht, up |-> mem.up, total |-> mem.total, unique |-> mem.unique,
                extra |-> mem.extra]
  BY <1>2 DEF Types, IsMem, IsTable
<1>9. /\ FilesOf(J) = FilesOf(I) + Files(J[key]) /\ FilesOf(I) \in Nat /\ Files(J[key]) \in Nat
      /\ AtLeast(dir.extra, FilesOf(J), ~damaged) /\ dir.extra \in Nat
  <2>1. FilesOf(I) \in Nat /\ Files(J[key]) \in Nat
    BY <1>4, <1>6, ArchivesNumber, RefsFinite DEF OneMore, IsArchives
  <2> QED BY <1>3, <1>5, <1>6, <2>1, ArchivesOneMore DEF Describes, IsDirectory
<1>10. /\ T.ht = mem.ht /\ T.up = mem.up /\ T.total = mem.total /\ T.unique = mem.unique
       /\ T.extra = dir.extra - Files(J[key])
       /\ T = [ht |-> T.ht, up |-> T.up, total |-> T.total, unique |-> T.unique,
               extra |-> T.extra]
  BY <1>4, <1>8
<1> HIDE DEF J
<1>11. T.extra \in Nat /\ AtLeast(T.extra, FilesOf(I), ~damaged)
  BY <1>9, <1>10 DEF AtLeast
<1>12. IsMem(T)
  BY <1>8, <1>10, <1>11 DEF IsMem, IsTable
<1>13. ASSUME NEW c \in Chunk
       PROVE  /\ AtLeast(NRefs(T.ht, c), Cardinality(UsersOf(I, c)), ~damaged)
              /\ AtLeast(NCopies(T.ht, c), UsesOf(I, c), ~damaged)
  <2>1. /\ AtLeast(NRefs(dir.tab, c), Cardinality(UsersOf(J, c)), ~damaged)
        /\ AtLeast(NCopies(dir.tab, c), UsesOf(J, c), ~damaged)
    BY <1>5 DEF Describes
  <2>2. /\ Cardinality(UsersOf(J, c)) = Cardinality(UsersOf(I, c)) + Some(Met(c))
        /\ UsesOf(J, c) = UsesOf(I, c) + Met(c)
    BY <1>6, <1>7, ArchivesOneMore
  <2>3. Cardinality(UsersOf(I, c)) \in Nat /\ UsesOf(I, c) \in Nat
    BY <1>6, ArchivesNumber DEF OneMore
  <2>4. /\ NRefs(dir.tab, c) \in Nat /\ NCopies(dir.tab, c) \in Nat
        /\ NRefs(dir.tab, c) # 0 <=> c \in DOMAIN dir.tab
        /\ c \notin DOMAIN dir.tab => NCopies(dir.tab, c) = 0
    BY <1>3, DirectoryNumbers
  <2>5. Met(c) \in Nat /\ Some(Met(c)) \in Nat /\ (Some(Met(c)) = 0 <=> Met(c) = 0)
    BY <1>7 DEF Some
  <2>6. CASE c \in DOMAIN mem.ht
    <3>1. mem.ht[c] = Row(dir.tab[c].nrefs - Some(Met(c)), dir.tab[c].ncopies - Met(c),
                          Met(c) # 0, 0)
      BY <1>4, <2>6
    <3>2. /\ NRefs(T.ht, c) = NRefs(dir.tab, c) - Some(Met(c))
          /\ NCopies(T.ht, c) = NCopies(dir.tab, c) - Met(c)
      BY <1>4, <1>10, <2>6, <3>1 DEF NRefs, NCopies, Row
    <3> QED BY <2>1, <2>2, <2>3, <2>4, <2>5, <3>2 DEF AtLeast
  <2>7. CASE c \notin DOMAIN mem.ht
    <3>1. NRefs(T.ht, c) = 0 /\ NCopies(T.ht, c) = 0
      BY <1>10, <2>7 DEF NRefs, NCopies
    <3>2. NRefs(dir.tab, c) = 0 /\ NCopies(dir.tab, c) = 0
      BY <1>4, <2>4, <2>7
    <3> QED BY <2>1, <2>2, <2>3, <2>5, <3>1, <3>2 DEF AtLeast
  <2> QED BY <2>6, <2>7
<1>14. Describes(T.ht, T.extra, I, ~damaged)
  BY <1>11, <1>13 DEF Describes
<1> QED BY <1>6, <1>10, <1>12, <1>14 DEF J

\* multitape_delete, after the last chunk
LEMMA DeleteEndInv == ASSUME IInv, DeleteEnd PROVE IInv'
<1> DEFINE J == srv.i
           I == [k \in DOMAIN srv.i \ {key} |-> srv.i[k]]
           T == [mem EXCEPT !.extra = @ - Files(srv.i[key])]
<1>1. /\ op = "delete" /\ it = NoIter
      /\ srv' = [m |-> keep, i |-> I, c |-> srv.c \ del] /\ dir' = Stored(T)
      /\ Idle /\ UNCHANGED <<synced, faults, damaged>>
  BY DEF DeleteEnd, env
<1>2. Types /\ Durable(srv, dir)
  BY DEF IInv
<1>3. /\ IsServer(srv) /\ IsDirectory(dir) /\ IsArchives(J)
      /\ ~damaged => srv.m = DOMAIN J /\ srv.c = RefsOf(J)
  BY <1>2 DEF Durable, IsServer
<1>4. /\ synced /\ key \in srv.m /\ keep = srv.m \ {key}
      /\ DOMAIN mem.ht = DOMAIN dir.tab
      /\ del = {c \in DOMAIN mem.ht : mem.ht[c].nrefs = 0}
  BY <1>1 DEF IInv, Deleting
<1>5. Describes(dir.tab, dir.extra, J, ~damaged)
  BY <1>2, <1>4 DEF Durable
<1>6. /\ IsMem(T) /\ T.ht = mem.ht /\ OneMore(I, J, key)
      /\ Describes(T.ht, T.extra, I, ~damaged)
  BY <1>1, OthersDescribed
<1> HIDE DEF I, J, T
<1>15. /\ IsDirectory(dir') /\ Describes(dir'.tab, dir'.extra, I, ~damaged)
       /\ ~damaged => \A c \in Chunk : c \in RefsOf(I) <=> NRefs(T.ht, c) # 0
  BY <1>1, <1>6, StoredDescribes DEF OneMore
<1>16. srv'.m = keep /\ srv'.i = I /\ srv'.c = srv.c \ del
       /\ srv' = [m |-> srv'.m, i |-> srv'.i, c |-> srv'.c]
  BY <1>1
<1>17. IsServer(srv')
  <2>1. IsFiniteSet(srv.c \ del)
    BY <1>3, FS_Subset DEF IsServer
  <2> QED BY <1>3, <1>4, <1>6, <1>16, <2>1 DEF IsServer, OneMore
<1>18. ASSUME ~damaged PROVE srv'.m = DOMAIN I /\ srv'.c = RefsOf(I)
  <2>1. srv'.m = DOMAIN I
    BY <1>3, <1>4, <1>6, <1>16, <1>18 DEF OneMore
  <2>2. /\ RefsOf(I) \subseteq RefsOf(J) /\ RefsOf(J) \subseteq Chunk
    <3>1. OneMore(I, J, key) /\ IsArchives(J)
      BY <1>6 DEF OneMore
    <3> QED BY <3>1, ArchivesOneMore, ArchivesNumber
  <2>3. \A c \in RefsOf(I) : c \notin del
    BY <1>4, <1>6, <1>15, <1>18, <2>2 DEF NRefs
  <2>4. \A c \in RefsOf(J) : c \notin del => c \in RefsOf(I)
    <3> SUFFICES ASSUME NEW c \in RefsOf(J), c \notin del PROVE c \in RefsOf(I)
      OBVIOUS
    <3>1. NRefs(dir.tab, c) = Cardinality(UsersOf(J, c))
      BY <1>5, <1>18, <2>2 DEF Describes, AtLeast
    <3>2. Cardinality(UsersOf(J, c)) # 0
      BY <1>6, ArchivesNumber DEF OneMore
    <3>3. c \in DOMAIN mem.ht
      BY <1>3, <1>4, <3>1, <3>2, DirectoryNumbers
    <3> QED BY <1>4, <1>6, <1>15, <1>18, <2>2, <3>3 DEF NRefs
  <2> QED BY <1>3, <1>16, <1>18, <2>1, <2>2, <2>3, <2>4
<1>19. Durable(srv, dir)'
  BY <1>1, <1>15, <1>16, <1>17, <1>18 DEF Durable
<1> QED BY <1>1, <1>2, <1>19, IdleInv DEF Types

-----------------------------------------------------------------------------
\* fsck.

\* What a fsck that is under way knows.
LEMMA CheckFacts ==
  ASSUME IInv, op \in {"fsck", "prune"}
  PROVE  /\ IsServer(srv) /\ IsArchives(srv.i) /\ IsMem(mem) /\ tape \in Tapes
         /\ None \notin keep /\ todo \subseteq keep /\ keep \subseteq Sound
         /\ {k \in Sound : Refs(srv.i[k]) \subseteq srv.c} \subseteq keep
         /\ DOMAIN mem.ht = srv.c /\ srv.c \subseteq Chunk
         /\ Describes(mem.ht, mem.extra, Done, TRUE)
         /\ IsArchives(Done)
         /\ \A c \in srv.c : mem.ht[c] \in Entry
<1>1. Types /\ Durable(srv, dir) /\ Checking
  BY DEF IInv
<1>2. IsServer(srv) /\ IsArchives(srv.i) /\ srv.c \subseteq Chunk
  BY <1>1 DEF Durable, IsServer
<1>3. /\ todo \subseteq keep /\ keep \subseteq Sound
      /\ {k \in Sound : Refs(srv.i[k]) \subseteq srv.c} \subseteq keep
      /\ DOMAIN mem.ht = srv.c
      /\ Describes(mem.ht, mem.extra, Done, TRUE)
  BY <1>1 DEF Checking
<1>4. None \notin keep
  BY <1>1, ChunksAssumption DEF Types, Key
<1>5. IsArchives(Done)
  <2>1. (keep \ todo) \ {key} \subseteq DOMAIN srv.i
    BY <1>3 DEF Sound
  <2> QED BY <1>2, <2>1, SomeArchives DEF Done
<1> QED BY <1>1, <1>2, <1>3, <1>4, <1>5 DEF Types, IsMem

\* fsck, up to the first archive
LEMMA FsckStartInv == ASSUME IInv, NEW p \in {"fsck", "prune"}, FsckStart(p) PROVE IInv'
<1> DEFINE T == [NoTable EXCEPT !.ht = [c \in srv.c |-> Blank]]
<1>1. /\ op = "none" /\ op' = p /\ todo' = Sound /\ keep' = Sound /\ mem' = T
      /\ UNCHANGED <<srv, dir, synced, key, ar, buf, saved, it, tape, del, faults, damaged>>
  BY DEF FsckStart, durable, writer, env
<1>2. Types /\ Durable(srv, dir) /\ Checkpointed /\ Resting
  BY DEF IInv
<1>3. IsServer(srv) /\ IsArchives(srv.i) /\ srv.c \subseteq Chunk /\ IsFiniteSet(srv.c)
  BY <1>2 DEF Durable, IsServer
<1>4. key = None /\ saved = None /\ ar = NoArchive /\ buf = <<>> /\ it = NoIter
  BY <1>1, <1>2 DEF Resting
<1>5. /\ T.ht = [c \in srv.c |-> Blank] /\ T.up = {} /\ T.total = 0 /\ T.unique = 0
      /\ T.extra = 0
      /\ T = [ht |-> T.ht, up |-> T.up, total |-> T.total, unique |-> T.unique,
              extra |-> T.extra]
  <2>1. NoTable.up = {} /\ NoTable.total = 0 /\ NoTable.unique = 0 /\ NoTable.extra = 0
    BY DEF NoTable
  <2>2. NoTable = [ht |-> NoTable.ht, up |-> NoTable.up, total |-> NoTable.total,
                   unique |-> NoTable.unique, extra |-> NoTable.extra]
    BY NoTableIs DEF IsMem
  <2> QED BY <2>1, <2>2
<1>6. Blank \in Entry /\ Blank.nrefs = 0 /\ Blank.ncopies = 0
  BY DEF Blank, Row, Entry
<1> HIDE DEF T
<1>7. IsMem(T)
  BY <1>3, <1>5, <1>6 DEF IsMem, IsTable
<1>8. Types'
  <2>1. Sound \subseteq Key
    BY <1>3 DEF Sound, IsServer
  <2> QED BY <1>1, <1>2, <1>7, <2>1 DEF Types
<1>9. Durable(srv, dir)' /\ Checkpointed'
  BY <1>1, <1>2, DurableKept, CheckpointKept
<1>10. Resting' /\ Writing' /\ Deleting'
  BY <1>1, <1>4 DEF Resting, Writing, Deleting
<1>11. DOMAIN Done' = {}
  BY <1>1 DEF Done
<1>12. Describes(mem.ht, mem.extra, Done, TRUE)'
  <2>1. ASSUME NEW c \in Chunk
        PROVE  /\ NRefs(T.ht, c) = 0 /\ NCopies(T.ht, c) = 0
               /\ Cardinality(UsersOf(Done', c)) = 0 /\ UsesOf(Done', c) = 0
    <3>1. NRefs(T.ht, c) = 0 /\ NCopies(T.ht, c) = 0
      BY <1>5, <1>6 DEF NRefs, NCopies
    <3>2. UsersOf(Done', c) = {}
      BY <1>11 DEF UsersOf
    <3>3. UsesOf(Done', c) = 0
      BY <1>11, SumEmpty DEF UsesOf
    <3> QED BY <3>1, <3>2, <3>3, FS_EmptySet
  <2>2. FilesOf(Done') = 0
    BY <1>11, SumEmpty DEF FilesOf
  <2>3. /\ \A c \in Chunk : /\ AtLeast(NRefs(T.ht, c), Cardinality(UsersOf(Done', c)), TRUE)
                            /\ AtLeast(NCopies(T.ht, c), UsesOf(Done', c), TRUE)
        /\ AtLeast(T.extra, FilesOf(Done'), TRUE)
    BY <1>5, <2>1, <2>2 DEF AtLeast
  <2> QED BY <1>1, <2>3 DEF Describes
<1>13. Checking'
  <2>1. DOMAIN mem'.ht = srv'.c
    BY <1>1, <1>5
  <2>2. Sound' = Sound
    BY <1>1 DEF Sound
  <2> QED BY <1>1, <1>4, <1>12, <2>1, <2>2 DEF Checking
<1> QED BY <1>8, <1>9, <1>10, <1>13 DEF IInv

\* chunks_stats_zeroarchive
LEMMA FsckArchiveInv == ASSUME IInv, NEW k \in todo, FsckArchive(k) PROVE IInv'
<1>1. /\ op \in {"fsck", "prune"} /\ key = None
      /\ key' = k /\ todo' = todo \ {k} /\ it' = Iter(srv.i[k])
      /\ mem' = [mem EXCEPT !.ht =
                    [c \in DOMAIN mem.ht |->
                       Row(mem.ht[c].nrefs, mem.ht[c].ncopies, FALSE, 0)]]
      /\ tape' = WithFiles(NoTable, srv.i[k])
      /\ UNCHANGED <<srv, dir, synced, op, ar, buf, saved, keep, del, faults, damaged>>
  BY DEF FsckArchive, durable, writer, env
<1>2. Types /\ Durable(srv, dir) /\ Checkpointed /\ Resting
  BY DEF IInv
<1>3. /\ IsServer(srv) /\ IsArchives(srv.i) /\ IsMem(mem)
      /\ None \notin keep /\ todo \subseteq keep /\ keep \subseteq Sound
      /\ {x \in Sound : Refs(srv.i[x]) \subseteq srv.c} \subseteq keep
      /\ DOMAIN mem.ht = srv.c /\ srv.c \subseteq Chunk
      /\ Describes(mem.ht, mem.extra, Done, TRUE)
      /\ \A c \in srv.c : mem.ht[c] \in Entry
  BY <1>1, CheckFacts
<1>4. k \in keep /\ k \in DOMAIN srv.i /\ k \in Key /\ srv.i[k] \in Archive
  BY <1>3 DEF Sound, IsArchives
<1>5. Iter(srv.i[k]) \in Walks
  BY <1>4, WholeLeft
<1>6. ASSUME NEW c PROVE Met(c)' = 0
  BY <1>1, <1>4, StartMet DEF Met
<1>7. /\ mem = [ht |-> mem.ht, up |-> mem.up, total |-> mem.total, unique |-> mem.unique,
                extra |-> mem.extra]
  BY <1>3 DEF IsMem
<1>8. /\ mem'.ht = [c \in srv.c |-> Row(mem.ht[c].nrefs, mem.ht[c].ncopies, FALSE, 0)]
      /\ mem'.up = mem.up /\ mem'.total = mem.total /\ mem'.unique = mem.unique
      /\ mem'.extra = mem.extra
      /\ mem' = [ht |-> mem'.ht, up |-> mem'.up, total |-> mem'.total,
                 unique |-> mem'.unique, extra |-> mem'.extra]
  BY <1>1, <1>3, <1>7
<1>9. ASSUME NEW c \in srv.c
      PROVE  /\ mem'.ht[c].nrefs = mem.ht[c].nrefs /\ mem'.ht[c].ncopies = mem.ht[c].ncopies
             /\ mem'.ht[c].ctape = FALSE /\ mem'.ht[c].nct = 0 /\ mem'.ht[c] \in Entry
  <2>1. mem.ht[c].nrefs \in Nat /\ mem.ht[c].ncopies \in Nat
    BY <1>3 DEF Entry
  <2>2. mem'.ht[c] = Row(mem.ht[c].nrefs, mem.ht[c].ncopies, FALSE, 0)
    BY <1>8
  <2> QED BY <2>1, <2>2 DEF Row, Entry
<1>10. IsMem(mem')
  BY <1>3, <1>8, <1>9 DEF IsMem, IsTable
<1>11. tape' \in Tapes /\ tape'.extra = Files(srv.i[k])
  <2>1. Files(srv.i[k]) \in Nat
    BY <1>4, RefsFinite
  <2> QED BY <1>1, <2>1 DEF WithFiles, NoTable, Tapes
<1>12. Types'
  BY <1>1, <1>2, <1>4, <1>5, <1>10, <1>11 DEF Types
<1>13. Durable(srv, dir)' /\ Checkpointed'
  BY <1>1, <1>2, DurableKept, CheckpointKept
<1>14. Resting' /\ Writing' /\ Deleting'
  BY <1>1, <1>2 DEF Resting, Writing, Deleting
<1>15. Done' = Done
  <2>1. (keep' \ todo') \ {key'} = (keep \ todo) \ {key}
    BY <1>1, <1>3
  <2> QED BY <1>1, <2>1 DEF Done
<1>16. Describes(mem.ht, mem.extra, Done, TRUE)'
  <2>1. \A c \in Chunk : /\ NRefs(mem'.ht, c) = NRefs(mem.ht, c)
                         /\ NCopies(mem'.ht, c) = NCopies(mem.ht, c)
    BY <1>3, <1>8, <1>9 DEF NRefs, NCopies
  <2> QED BY <1>3, <1>8, <1>15, <2>1 DEF Describes
<1>17. OnWalk'
  BY <1>1, <1>4, <1>6 DEF OnWalk
<1>18. Checking'
  <2>1. /\ todo' \subseteq keep' /\ keep' \subseteq Sound'
        /\ {x \in Sound' : Refs(srv'.i[x]) \subseteq srv'.c} \subseteq keep'
        /\ DOMAIN mem'.ht = srv'.c /\ key' \in keep' \ todo' /\ key' # None
    BY <1>1, <1>3, <1>4, <1>8 DEF Sound
  <2>2. /\ \A c \in Chunk : Met(c)' # 0 => c \in srv'.c
        /\ \A c \in srv'.c : mem'.ht[c].ctape = (Met(c)' # 0) /\ mem'.ht[c].nct = Met(c)'
    BY <1>1, <1>6, <1>9
  <2> QED BY <1>1, <1>11, <1>16, <1>17, <2>1, <2>2 DEF Checking
<1> QED BY <1>12, <1>13, <1>14, <1>18 DEF IInv

\* chunks_stats_addchunk
LEMMA FsckChunkInv == ASSUME IInv, Oom = FALSE, FsckChunk PROVE IInv'
<1>1. PICK d : d = Current(it)
  OBVIOUS
<1>2. /\ op \in {"fsck", "prune"} /\ it # NoIter /\ d \in DOMAIN mem.ht
      /\ tape' = [tape EXCEPT
                   !.total = @ + 1,
                   !.unique = IF mem.ht[d].nrefs <= 1 /\ ~mem.ht[d].ctape
                                THEN @ + 1 ELSE @]
      /\ mem' = [mem EXCEPT !.ht[d] = Row(@.nrefs, @.ncopies, TRUE, @.nct + 1)]
      /\ \E oom \in OomAt(it) : it' = Advance(it, oom)
      /\ UNCHANGED <<srv, dir, synced, op, key, ar, buf, saved, todo, keep, del, faults, damaged>>
  BY <1>1 DEF FsckChunk, durable, writer, env
<1>3. Types /\ Durable(srv, dir) /\ Checkpointed /\ Resting
  BY DEF IInv
<1>4. /\ IsServer(srv) /\ IsArchives(srv.i) /\ IsMem(mem) /\ tape \in Tapes
      /\ todo \subseteq keep /\ keep \subseteq Sound
      /\ {k \in Sound : Refs(srv.i[k]) \subseteq srv.c} \subseteq keep
      /\ DOMAIN mem.ht = srv.c /\ srv.c \subseteq Chunk
      /\ Describes(mem.ht, mem.extra, Done, TRUE)
      /\ \A c \in srv.c : mem.ht[c] \in Entry
  BY <1>2, CheckFacts
<1>5. /\ key # None /\ key \in keep \ todo /\ OnWalk
      /\ \A c \in Chunk : Met(c) # 0 => c \in srv.c
      /\ \A c \in srv.c : mem.ht[c].ctape = (Met(c) # 0) /\ mem.ht[c].nct = Met(c)
      /\ tape.extra = Files(srv.i[key])
  BY <1>2 DEF IInv, Checking
<1>6. /\ it' \in Walks /\ OnWalk' /\ d \in Chunk
      /\ \A c \in Chunk : Met(c)' = Met(c) + One(d, c) /\ Met(c) \in Nat
  BY <1>1, <1>2, <1>3, <1>4, <1>5, OneMet DEF Types
<1>7. Met(d)' = Met(d) + 1 /\ \A c \in Chunk : c # d => Met(c)' = Met(c)
  BY <1>6 DEF One
<1>8. PICK e : e = Row(mem.ht[d].nrefs, mem.ht[d].ncopies, TRUE, Met(d)')
  OBVIOUS
<1>9. /\ e \in Entry /\ e.nrefs = mem.ht[d].nrefs /\ e.ncopies = mem.ht[d].ncopies
      /\ e.ctape = TRUE /\ e.nct = Met(d)'
  <2>1. mem.ht[d].nrefs \in Nat /\ mem.ht[d].ncopies \in Nat /\ Met(d)' \in Nat
    BY <1>2, <1>4, <1>6, <1>7 DEF Entry
  <2> QED BY <1>8, <2>1 DEF Row, Entry
<1>10. mem = [ht |-> mem.ht, up |-> mem.up, total |-> mem.total, unique |-> mem.unique,
              extra |-> mem.extra]
  BY <1>4 DEF IsMem
<1>11. mem' = [mem EXCEPT !.ht = [mem.ht EXCEPT ![d] = e]]
  <2>1. e = Row(mem.ht[d].nrefs, mem.ht[d].ncopies, TRUE, mem.ht[d].nct + 1)
    BY <1>2, <1>4, <1>5, <1>7, <1>8
  <2> QED BY <1>2, <2>1
<1>12. /\ mem'.ht = [mem.ht EXCEPT ![d] = e] /\ mem'.up = mem.up /\ mem'.total = mem.total
       /\ mem'.unique = mem.unique /\ mem'.extra = mem.extra
       /\ mem' = [ht |-> mem'.ht, up |-> mem'.up, total |-> mem'.total,
                  unique |-> mem'.unique, extra |-> mem'.extra]
  BY <1>10, <1>11
<1>13. /\ DOMAIN mem'.ht = srv.c /\ mem'.ht \in [srv.c -> Entry] /\ mem'.ht[d] = e
       /\ \A c \in srv.c : c # d => mem'.ht[c] = mem.ht[c]
  <2>1. mem.ht \in [srv.c -> Entry]
    BY <1>4 DEF IsMem
  <2> DEFINE f == mem.ht
             g == mem'.ht
  <2>2. f \in [srv.c -> Entry] /\ g = [f EXCEPT ![d] = e] /\ d \in srv.c /\ e \in Entry
    BY <1>2, <1>4, <1>9, <1>12, <2>1
  <2> HIDE DEF f, g
  <2>3. /\ DOMAIN g = srv.c /\ g \in [srv.c -> Entry] /\ g[d] = e
        /\ \A c \in srv.c : c # d => g[c] = f[c]
    BY <2>2
  <2> QED BY <2>3 DEF f, g
<1>14. IsMem(mem')
  BY <1>4, <1>12, <1>13 DEF IsMem, IsTable
<1>15. tape' \in Tapes /\ tape'.extra = tape.extra
  <2>1. /\ tape = [ht |-> NoTable.ht, up |-> {}, total |-> tape.total,
                   unique |-> tape.unique, extra |-> tape.extra]
        /\ tape.total \in Nat /\ tape.unique \in Nat /\ tape.extra \in Nat
    BY <1>4 DEF Tapes
  <2>2. PICK u \in Nat : u = IF mem.ht[d].nrefs <= 1 /\ ~mem.ht[d].ctape
                               THEN tape.unique + 1 ELSE tape.unique
    BY <2>1
  <2>3. tape' = [ht |-> NoTable.ht, up |-> {}, total |-> tape.total + 1,
                 unique |-> u, extra |-> tape.extra]
    <3>1. PICK t : t = [tape EXCEPT !.total = tape.total + 1]
      OBVIOUS
    <3>2. t = [ht |-> NoTable.ht, up |-> {}, total |-> tape.total + 1,
               unique |-> tape.unique, extra |-> tape.extra]
      BY <2>1, <3>1
    <3>3. tape' = [t EXCEPT !.unique = u]
      BY <1>2, <2>2, <3>1, <3>2
    <3> QED BY <3>2, <3>3
  <2> QED BY <2>1, <2>3 DEF Tapes
<1>16. Types'
  BY <1>2, <1>3, <1>6, <1>14, <1>15 DEF Types
<1>17. Durable(srv, dir)' /\ Checkpointed'
  BY <1>2, <1>3, DurableKept, CheckpointKept
<1>18. Resting' /\ Writing' /\ Deleting'
  BY <1>2, <1>3 DEF Resting, Writing, Deleting
<1>19. Describes(mem.ht, mem.extra, Done, TRUE)'
  <2>1. ASSUME NEW c \in Chunk
        PROVE  /\ NRefs(mem'.ht, c) = NRefs(mem.ht, c)
               /\ NCopies(mem'.ht, c) = NCopies(mem.ht, c)
    <3>1. c \in srv.c => /\ mem'.ht[c].nrefs = mem.ht[c].nrefs
                         /\ mem'.ht[c].ncopies = mem.ht[c].ncopies
      BY <1>9, <1>13
    <3>2. DOMAIN mem'.ht = srv.c /\ DOMAIN mem.ht = srv.c
      BY <1>4, <1>13
    <3> QED BY <3>1, <3>2 DEF NRefs, NCopies
  <2>2. Done' = Done
    BY <1>2 DEF Done
  <2> QED BY <1>4, <1>12, <2>1, <2>2 DEF Describes
<1>20. Checking'
  <2>1. /\ todo' \subseteq keep' /\ keep' \subseteq Sound'
        /\ {x \in Sound' : Refs(srv'.i[x]) \subseteq srv'.c} \subseteq keep'
        /\ DOMAIN mem'.ht = srv'.c /\ key' \in keep' \ todo' /\ key' # None
        /\ tape'.extra = Files(srv'.i[key'])
    BY <1>2, <1>4, <1>5, <1>13, <1>15 DEF Sound
  <2>2. \A c \in Chunk : Met(c)' # 0 => c \in srv'.c
    BY <1>2, <1>4, <1>5, <1>7
  <2>3. ASSUME NEW c \in srv.c
        PROVE  mem'.ht[c].ctape = (Met(c)' # 0) /\ mem'.ht[c].nct = Met(c)'
    <3>1. CASE c = d
      <4>1. (Met(d)' # 0) = TRUE
        BY <1>6, <1>7
      <4> QED BY <1>9, <1>13, <3>1, <4>1
    <3>2. CASE c # d
      BY <1>4, <1>5, <1>7, <1>13, <3>2
    <3> QED BY <3>1, <3>2
  <2> QED BY <1>2, <1>6, <1>19, <2>1, <2>2, <2>3 DEF Checking
<1> QED BY <1>16, <1>17, <1>18, <1>20 DEF IInv

\* deletearchive
LEMMA FsckBrokenInv == ASSUME IInv, FsckBroken PROVE IInv'
<1>1. /\ op = "prune" /\ it # NoIter /\ Current(it) \notin DOMAIN mem.ht
      /\ keep' = keep \ {key} /\ key' = None /\ it' = NoIter /\ tape' = NoTable
      /\ UNCHANGED <<srv, dir, synced, op, mem, ar, buf, saved, todo, del, faults, damaged>>
  BY DEF FsckBroken, durable, writer, env
<1>2. Types /\ Durable(srv, dir) /\ Checkpointed /\ Resting
  BY DEF IInv
<1>3. /\ IsServer(srv) /\ IsArchives(srv.i) /\ None \notin keep
      /\ todo \subseteq keep /\ keep \subseteq Sound
      /\ {k \in Sound : Refs(srv.i[k]) \subseteq srv.c} \subseteq keep
      /\ DOMAIN mem.ht = srv.c
      /\ Describes(mem.ht, mem.extra, Done, TRUE)
  BY <1>1, CheckFacts
<1>4. key # None /\ key \in keep \ todo /\ OnWalk
  BY <1>1 DEF IInv, Checking
<1>5. Current(it) \in Refs(srv.i[key])
  BY <1>1, <1>2, <1>3, <1>4, CurrentRef DEF Types
<1>6. Types'
  BY <1>1, <1>2, NothingLeft, NoTableIs DEF Types
<1>7. Durable(srv, dir)' /\ Checkpointed'
  BY <1>1, <1>2, DurableKept, CheckpointKept
<1>8. Resting' /\ Writing' /\ Deleting'
  BY <1>1, <1>2 DEF Resting, Writing, Deleting
<1>9. Done' = Done
  <2>1. (keep' \ todo') \ {key'} = (keep \ todo) \ {key}
    BY <1>1, <1>3
  <2> QED BY <1>1, <2>1 DEF Done
<1>10. Describes(mem.ht, mem.extra, Done, TRUE)'
  BY <1>1, <1>3, <1>9 DEF Describes
<1>11. Checking'
  <2>1. /\ todo' \subseteq keep' /\ keep' \subseteq Sound'
        /\ {x \in Sound' : Refs(srv'.i[x]) \subseteq srv'.c} \subseteq keep'
        /\ DOMAIN mem'.ht = srv'.c
    BY <1>1, <1>3, <1>4, <1>5 DEF Sound
  <2> QED BY <1>1, <1>10, <2>1 DEF Checking
<1> QED BY <1>6, <1>7, <1>8, <1>11 DEF IInv

\* chunks_fsck_archive_add
LEMMA FsckAddInv == ASSUME IInv, FsckAdd PROVE IInv'
<1>1. /\ op \in {"fsck", "prune"} /\ key # None /\ it = NoIter
      /\ mem' = [mem EXCEPT
                   !.total = @ + tape.total,
                   !.unique = @ + tape.unique,
                   !.extra = @ + tape.extra,
                   !.ht = [c \in DOMAIN mem.ht |->
                             Row(IF mem.ht[c].ctape THEN mem.ht[c].nrefs + 1 ELSE mem.ht[c].nrefs,
                                 mem.ht[c].ncopies + mem.ht[c].nct, mem.ht[c].ctape,
                                 mem.ht[c].nct)]]
      /\ key' = None /\ tape' = NoTable
      /\ UNCHANGED <<srv, dir, synced, op, ar, buf, saved, it, todo, keep, del, faults, damaged>>
  BY DEF FsckAdd, durable, writer, env
<1>2. Types /\ Durable(srv, dir) /\ Checkpointed /\ Resting
  BY DEF IInv
<1>3. /\ IsServer(srv) /\ IsArchives(srv.i) /\ IsMem(mem) /\ tape \in Tapes
      /\ None \notin keep /\ todo \subseteq keep /\ keep \subseteq Sound
      /\ {k \in Sound : Refs(srv.i[k]) \subseteq srv.c} \subseteq keep
      /\ DOMAIN mem.ht = srv.c /\ srv.c \subseteq Chunk
      /\ Describes(mem.ht, mem.extra, Done, TRUE) /\ IsArchives(Done)
      /\ \A c \in srv.c : mem.ht[c] \in Entry
  BY <1>1, CheckFacts
<1>4. /\ key \in keep \ todo /\ OnWalk
      /\ \A c \in Chunk : Met(c) # 0 => c \in srv.c
      /\ \A c \in srv.c : mem.ht[c].ctape = (Met(c) # 0) /\ mem.ht[c].nct = Met(c)
      /\ tape.extra = Files(srv.i[key])
  BY <1>1 DEF IInv, Checking
<1>5. \A c : Met(c) = Copies(srv.i[key], c) /\ Met(c) \in Nat
  BY <1>1, <1>3, <1>4, AllMet DEF OnWalk
<1>6. /\ mem = [ht |-> mem.ht, up |-> mem.up, total |-> mem.total, unique |-> mem.unique,
                extra |-> mem.extra]
      /\ mem.total \in Nat /\ mem.unique \in Nat /\ mem.extra \in Nat
      /\ tape.total \in Nat /\ tape.unique \in Nat /\ tape.extra \in Nat
  BY <1>3 DEF IsMem, IsTable, Tapes
<1>7. PICK H : H = [c \in srv.c |->
                      Row(IF mem.ht[c].ctape THEN mem.ht[c].nrefs + 1 ELSE mem.ht[c].nrefs,
                          mem.ht[c].ncopies + mem.ht[c].nct, mem.ht[c].ctape,
                          mem.ht[c].nct)]
  OBVIOUS
<1>8. /\ mem'.ht = H /\ mem'.up = mem.up /\ mem'.total = mem.total + tape.total
      /\ mem'.unique = mem.unique + tape.unique /\ mem'.extra = mem.extra + tape.extra
      /\ mem' = [ht |-> mem'.ht, up |-> mem'.up, total |-> mem'.total,
                 unique |-> mem'.unique, extra |-> mem'.extra]
  <2>1. mem' = [mem EXCEPT !.total = @ + tape.total, !.unique = @ + tape.unique,
                           !.extra = @ + tape.extra, !.ht = H]
    BY <1>1, <1>3, <1>7
  <2> QED BY <1>6, <2>1
<1>9. ASSUME NEW c \in srv.c
      PROVE  /\ H[c].nrefs = mem.ht[c].nrefs + Some(Met(c))
             /\ H[c].ncopies = mem.ht[c].ncopies + Met(c)
             /\ H[c] \in Entry /\ mem.ht[c].nrefs \in Nat /\ mem.ht[c].ncopies \in Nat
  <2>1. /\ mem.ht[c].nrefs \in Nat /\ mem.ht[c].ncopies \in Nat /\ mem.ht[c].ctape \in BOOLEAN
        /\ mem.ht[c].nct \in Nat
    BY <1>3 DEF Entry
  <2>2. PICK r \in Nat : r = IF mem.ht[c].ctape THEN mem.ht[c].nrefs + 1 ELSE mem.ht[c].nrefs
    BY <2>1
  <2>3. H[c] = Row(r, mem.ht[c].ncopies + mem.ht[c].nct, mem.ht[c].ctape, mem.ht[c].nct)
    BY <1>7, <2>2
  <2>4. H[c].nrefs = r /\ H[c].ncopies = mem.ht[c].ncopies + mem.ht[c].nct
    BY <2>3 DEF Row
  <2>5. H[c] \in Entry
    <3>1. mem.ht[c].ncopies + mem.ht[c].nct \in Nat
      BY <2>1
    <3> QED BY <2>1, <2>2, <2>3, <3>1, RowEntry, Zenon
  <2>6. r = mem.ht[c].nrefs + Some(Met(c))
    <3>1. mem.ht[c].ctape <=> Met(c) # 0
      BY <1>4
    <3>2. CASE Met(c) = 0
      BY <2>1, <2>2, <3>1, <3>2 DEF Some
    <3>3. CASE Met(c) # 0
      BY <2>1, <2>2, <3>1, <3>3 DEF Some
    <3> QED BY <3>2, <3>3
  <2> QED BY <1>4, <2>1, <2>4, <2>5, <2>6
<1>10. DOMAIN H = srv.c /\ H \in [srv.c -> Entry]
  BY <1>7, <1>9
<1>11. IsMem(mem')
  <2>1. mem'.total \in Nat /\ mem'.unique \in Nat /\ mem'.extra \in Nat
    BY <1>6, <1>8
  <2> QED BY <1>3, <1>8, <1>10, <2>1 DEF IsMem, IsTable
<1>12. Types'
  BY <1>1, <1>2, <1>11, NoTableIs DEF Types
<1>13. Durable(srv, dir)' /\ Checkpointed'
  BY <1>1, <1>2, DurableKept, CheckpointKept
<1>14. Resting' /\ Writing' /\ Deleting'
  BY <1>1, <1>2 DEF Resting, Writing, Deleting
<1>15. OneMore(Done, Done', key) /\ Done'[key] = srv.i[key]
  <2>1. /\ Done' = [k \in keep \ todo |-> srv.i[k]]
        /\ Done = [k \in (keep \ todo) \ {key} |-> srv.i[k]]
    <3>1. (keep' \ todo') \ {key'} = keep \ todo
      BY <1>1, <1>3
    <3> QED BY <1>1, <3>1 DEF Done
  <2>2. IsArchives(Done')
    <3>1. keep \ todo \subseteq DOMAIN srv.i
      BY <1>3 DEF Sound
    <3> QED BY <1>3, <2>1, <3>1, SomeArchives
  <2> QED BY <1>3, <1>4, <2>1, <2>2 DEF OneMore
<1>16. Describes(mem.ht, mem.extra, Done, TRUE)'
  <2> DEFINE I == Done
             J == Done'
  <2>1. /\ Describes(mem.ht, mem.extra, I, TRUE) /\ OneMore(I, J, key)
        /\ J[key] = srv.i[key] /\ IsArchives(I)
    BY <1>3, <1>15
  <2> HIDE DEF I, J
  <2>2. ASSUME NEW c \in Chunk
        PROVE  /\ NRefs(H, c) = Cardinality(UsersOf(J, c))
               /\ NCopies(H, c) = UsesOf(J, c)
    <3>1. /\ Cardinality(UsersOf(J, c)) = Cardinality(UsersOf(I, c)) + Some(Met(c))
          /\ UsesOf(J, c) = UsesOf(I, c) + Met(c)
      BY <1>5, <2>1, ArchivesOneMore
    <3>2. /\ NRefs(mem.ht, c) = Cardinality(UsersOf(I, c))
          /\ NCopies(mem.ht, c) = UsesOf(I, c)
      BY <2>1 DEF Describes, AtLeast
    <3>3. /\ NRefs(H, c) = NRefs(mem.ht, c) + Some(Met(c))
          /\ NCopies(H, c) = NCopies(mem.ht, c) + Met(c)
      <4>1. CASE c \in srv.c
        BY <1>3, <1>9, <1>10, <4>1 DEF NRefs, NCopies
      <4>2. CASE c \notin srv.c
        <5>1. Met(c) = 0
          BY <1>4, <4>2
        <5> QED BY <1>3, <1>10, <4>2, <5>1 DEF NRefs, NCopies, Some
      <4> QED BY <4>1, <4>2
    <3> QED BY <3>1, <3>2, <3>3
  <2>3. mem.extra + tape.extra = FilesOf(J)
    <3>1. FilesOf(J) = FilesOf(I) + Files(srv.i[key])
      BY <2>1, ArchivesOneMore
    <3>2. mem.extra = FilesOf(I)
      BY <2>1 DEF Describes, AtLeast
    <3> QED BY <1>4, <3>1, <3>2
  <2>4. \A c \in Chunk : Cardinality(UsersOf(J, c)) \in Nat /\ UsesOf(J, c) \in Nat
                         /\ FilesOf(J) \in Nat
    BY <2>1, ArchivesNumber DEF OneMore
  <2>5. /\ \A c \in Chunk : /\ AtLeast(NRefs(H, c), Cardinality(UsersOf(J, c)), TRUE)
                            /\ AtLeast(NCopies(H, c), UsesOf(J, c), TRUE)
        /\ AtLeast(mem'.extra, FilesOf(J), TRUE)
    <3>1. FilesOf(J) \in Nat
      BY <2>1, ArchivesNumber DEF OneMore
    <3> QED BY <1>8, <2>2, <2>3, <2>4, <3>1 DEF AtLeast
  <2> QED BY <1>8, <2>5 DEF Describes, J
<1>17. Checking'
  <2>1. /\ todo' \subseteq keep' /\ keep' \subseteq Sound'
        /\ {x \in Sound' : Refs(srv'.i[x]) \subseteq srv'.c} \subseteq keep'
        /\ DOMAIN mem'.ht = srv'.c /\ it' = NoIter
    BY <1>1, <1>3, <1>8, <1>10 DEF Sound
  <2> QED BY <1>1, <1>16, <2>1 DEF Checking
<1> QED BY <1>12, <1>13, <1>14, <1>17 DEF IInv

\* multitape_fsck, phase 5
LEMMA FsckEndInv == ASSUME IInv, FsckEnd PROVE IInv'
<1> DEFINE I == [k \in keep |-> srv.i[k]]
<1>1. /\ op \in {"fsck", "prune"} /\ key = None /\ todo = {}
      /\ srv' = [m |-> keep, i |-> I, c |-> srv.c \ Unreferenced]
      /\ dir' = Stored(mem) /\ synced' = TRUE /\ damaged' = FALSE
      /\ Idle /\ faults' = faults
  BY DEF FsckEnd, Counted
<1>2. /\ IsServer(srv) /\ IsArchives(srv.i) /\ IsMem(mem)
      /\ None \notin keep /\ keep \subseteq Sound
      /\ DOMAIN mem.ht = srv.c /\ srv.c \subseteq Chunk
      /\ Describes(mem.ht, mem.extra, Done, TRUE) /\ IsArchives(Done)
  BY <1>1, CheckFacts
<1>3. Done = I
  <2>1. (keep \ todo) \ {key} = keep
    BY <1>1, <1>2
  <2> QED BY <2>1 DEF Done
<1>4. DOMAIN I = keep
  OBVIOUS
<1> HIDE DEF I
<1>5. /\ IsDirectory(dir') /\ Describes(dir'.tab, dir'.extra, I, TRUE)
      /\ \A c \in Chunk : c \in RefsOf(I) <=> NRefs(mem.ht, c) # 0
  <2>1. /\ IsDirectory(Stored(mem))
        /\ Describes(Stored(mem).tab, Stored(mem).extra, I, TRUE)
        /\ TRUE => \A c \in Chunk : c \in RefsOf(I) <=> NRefs(mem.ht, c) # 0
    <3>1. TRUE \in BOOLEAN
      OBVIOUS
    <3> QED BY <1>2, <1>3, <3>1, StoredDescribes, Zenon
  <2> QED BY <1>1, <2>1
<1>6. /\ srv'.m = keep /\ srv'.i = I /\ srv'.c = srv.c \ Unreferenced
      /\ srv' = [m |-> srv'.m, i |-> srv'.i, c |-> srv'.c]
  BY <1>1
<1>7. IsServer(srv')
  <2>1. IsFiniteSet(srv.c \ Unreferenced)
    BY <1>2, FS_Subset DEF IsServer
  <2> QED BY <1>2, <1>3, <1>6, <2>1 DEF IsServer, Sound
<1>8. srv'.c = RefsOf(I)
  <2>1. RefsOf(I) \subseteq Chunk
    BY <1>2, <1>3, ArchivesNumber
  <2>2. \A c \in Chunk : c \in srv.c \ Unreferenced <=> NRefs(mem.ht, c) # 0
    BY <1>2 DEF Unreferenced, NRefs
  <2> QED BY <1>2, <1>5, <1>6, <2>1, <2>2
<1>9. Durable(srv, dir)'
  <2>1. Describes(dir'.tab, dir'.extra, srv'.i, ~damaged')
    BY <1>1, <1>5, <1>6 DEF Describes, AtLeast
  <2> QED BY <1>4, <1>5, <1>6, <1>7, <1>8, <2>1 DEF Durable
<1> QED BY <1>1, <1>9, IdleInv DEF IInv, Types

-----------------------------------------------------------------------------
\* The environment, which moves while nothing runs.
LEMMA RestInv ==
  ASSUME IInv, op = "none", UNCHANGED <<op, mem, key, ar, buf, saved, it, tape, todo, keep, del>>,
         Durable(srv, dir)', synced' \in BOOLEAN, damaged' \in BOOLEAN, faults' \in Nat
  PROVE  IInv'
<1>1. Types /\ Resting /\ saved = None
  BY DEF IInv, Resting
<1>2. Types'
  BY <1>1 DEF Types
<1>3. Checkpointed'
  BY <1>1 DEF Checkpointed
<1>4. Resting' /\ Writing' /\ Deleting' /\ Checking'
  BY <1>1 DEF Resting, Writing, Deleting, Checking
<1> QED BY <1>2, <1>3, <1>4 DEF IInv

LEMMA LoseFileInv == ASSUME IInv, LoseFile PROVE IInv'
<1>1. /\ op = "none" /\ faults' = faults + 1 /\ damaged' = TRUE
      /\ \/ \E c \in srv.c : srv' = [srv EXCEPT !.c = @ \ {c}]
         \/ \E k \in DOMAIN srv.i :
              srv' = [srv EXCEPT !.i = [x \in DOMAIN srv.i \ {k} |-> srv.i[x]]]
         \/ \E k \in srv.m : srv' = [srv EXCEPT !.m = @ \ {k}]
      /\ UNCHANGED <<dir, synced, op, mem, key, ar, buf, saved, it, tape, todo, keep, del>>
  BY DEF LoseFile, writer, walker
<1>2. Types /\ Durable(srv, dir)
  BY DEF IInv
<1>3. IsServer(srv) /\ IsArchives(srv.i) /\ IsDirectory(dir)
  BY <1>2 DEF Durable, IsServer
<1>4. srv = [m |-> srv.m, i |-> srv.i, c |-> srv.c]
  BY <1>3 DEF IsServer
<1>5. synced => Describes(dir.tab, dir.extra, srv.i, FALSE)
  BY <1>2 DEF Durable, Describes, AtLeast
<1>6. IsServer(srv') /\ (synced => Describes(dir.tab, dir.extra, srv'.i, FALSE))
  <2>1. CASE \E c \in srv.c : srv' = [srv EXCEPT !.c = @ \ {c}]
    <3>1. PICK c \in srv.c : srv' = [m |-> srv.m, i |-> srv.i, c |-> srv.c \ {c}]
      BY <1>4, <2>1
    <3>2. IsFiniteSet(srv.c \ {c})
      BY <1>3, FS_Subset DEF IsServer
    <3> QED BY <1>3, <1>5, <3>1, <3>2 DEF IsServer
  <2>2. CASE \E k \in srv.m : srv' = [srv EXCEPT !.m = @ \ {k}]
    <3>1. PICK k \in srv.m : srv' = [m |-> srv.m \ {k}, i |-> srv.i, c |-> srv.c]
      BY <1>4, <2>2
    <3> QED BY <1>3, <1>5, <3>1 DEF IsServer
  <2>3. CASE \E k \in DOMAIN srv.i :
               srv' = [srv EXCEPT !.i = [x \in DOMAIN srv.i \ {k} |-> srv.i[x]]]
    <3>1. PICK k \in DOMAIN srv.i :
            srv' = [m |-> srv.m, i |-> [x \in DOMAIN srv.i \ {k} |-> srv.i[x]], c |-> srv.c]
      BY <1>4, <2>3
    <3> DEFINE I == [x \in DOMAIN srv.i \ {k} |-> srv.i[x]]
               J == srv.i
    <3>2. IsArchives(I)
      BY <1>3, SomeArchives
    <3>3. OneMore(I, J, k)
      BY <1>3, <3>2 DEF OneMore
    <3>4. srv'.m = srv.m /\ srv'.i = I /\ srv'.c = srv.c
          /\ srv' = [m |-> srv'.m, i |-> srv'.i, c |-> srv'.c]
      BY <3>1
    <3>5. J[k] \in Archive /\ (synced => Describes(dir.tab, dir.extra, J, FALSE))
      BY <1>3, <1>5 DEF IsArchives
    <3> HIDE DEF I, J
    <3>6. ASSUME synced, NEW c \in Chunk
          PROVE  /\ AtLeast(NRefs(dir.tab, c), Cardinality(UsersOf(I, c)), FALSE)
                 /\ AtLeast(NCopies(dir.tab, c), UsesOf(I, c), FALSE)
      <4>1. /\ Cardinality(UsersOf(J, c)) = Cardinality(UsersOf(I, c)) + Some(Copies(J[k], c))
            /\ UsesOf(J, c) = UsesOf(I, c) + Copies(J[k], c)
        BY <3>3, ArchivesOneMore
      <4>2. Cardinality(UsersOf(I, c)) \in Nat /\ UsesOf(I, c) \in Nat
        BY <3>2, ArchivesNumber
      <4>3. Copies(J[k], c) \in Nat /\ Some(Copies(J[k], c)) \in Nat
        BY <3>5, CopiesNumber DEF Some
      <4>4. /\ Cardinality(UsersOf(J, c)) <= NRefs(dir.tab, c)
            /\ UsesOf(J, c) <= NCopies(dir.tab, c)
        BY <3>5, <3>6 DEF Describes, AtLeast
      <4>5. NRefs(dir.tab, c) \in Nat /\ NCopies(dir.tab, c) \in Nat
        BY <1>3, DirectoryNumbers
      <4> QED BY <4>1, <4>2, <4>3, <4>4, <4>5 DEF AtLeast
    <3>7. ASSUME synced PROVE AtLeast(dir.extra, FilesOf(I), FALSE)
      <4>1. FilesOf(J) = FilesOf(I) + Files(J[k])
        BY <3>3, ArchivesOneMore
      <4>2. FilesOf(I) \in Nat /\ Files(J[k]) \in Nat /\ dir.extra \in Nat
        BY <1>3, <3>2, <3>5, ArchivesNumber, RefsFinite DEF IsDirectory
      <4>3. FilesOf(J) <= dir.extra
        BY <3>5, <3>7 DEF Describes, AtLeast
      <4> QED BY <4>1, <4>2, <4>3 DEF AtLeast
    <3>8. synced => Describes(dir.tab, dir.extra, I, FALSE)
      BY <3>6, <3>7 DEF Describes
    <3>9. IsServer(srv')
      BY <1>3, <3>2, <3>4 DEF IsServer
    <3> QED BY <3>4, <3>8, <3>9
  <2> QED BY <1>1, <2>1, <2>2, <2>3
<1>7. Durable(srv, dir)'
  <2>1. synced' => Describes(dir'.tab, dir'.extra, srv'.i, ~damaged')
    BY <1>1, <1>6 DEF Describes, AtLeast
  <2> QED BY <1>1, <1>3, <1>6, <2>1 DEF Durable
<1>8. synced' \in BOOLEAN /\ damaged' \in BOOLEAN /\ faults' \in Nat
  BY <1>1, <1>2 DEF Types
<1> QED BY <1>1, <1>7, <1>8, RestInv

LEMMA ForeignWriteInv == ASSUME IInv, ForeignWrite PROVE IInv'
<1>1. PICK n \in Name, hd \in Header, b \in Index :
        /\ srv.m \cap {<<n, FALSE>>, <<n, TRUE>>} = {}
        /\ srv' = Uploaded(<<n, FALSE>>, [h |-> <<hd>>, x |-> <<b>>],
                           Refs([h |-> <<hd>>, x |-> <<b>>]))
  BY DEF ForeignWrite
<1>2. /\ op = "none" /\ ~damaged /\ synced' = FALSE /\ faults' = faults + 1
      /\ UNCHANGED <<dir, op, mem, key, ar, buf, saved, it, tape, todo, keep, del, damaged>>
  BY DEF ForeignWrite, writer, walker
<1>3. Types /\ Durable(srv, dir)
  BY DEF IInv
<1>4. /\ IsServer(srv) /\ IsArchives(srv.i) /\ IsDirectory(dir)
      /\ srv.m = DOMAIN srv.i /\ srv.c = RefsOf(srv.i)
  BY <1>2, <1>3 DEF Durable, IsServer
<1>5. PICK a : a = [h |-> <<hd>>, x |-> <<b>>]
  OBVIOUS
<1>6. a \in Archive
  BY <1>5, ChunksAssumption DEF Archive
<1>7. PICK k : k = <<n, FALSE>>
  OBVIOUS
<1>8. k \in Key /\ k \notin srv.m
  BY <1>1, <1>7 DEF Key
<1>9. PICK J : J = [x \in DOMAIN srv.i \cup {k} |-> IF x = k THEN a ELSE srv.i[x]]
  OBVIOUS
<1>10. /\ srv'.m = srv.m \cup {k} /\ srv'.i = J /\ srv'.c = srv.c \cup Refs(a)
       /\ srv' = [m |-> srv'.m, i |-> srv'.i, c |-> srv'.c]
  BY <1>1, <1>5, <1>7, <1>9 DEF Uploaded
<1>11. DOMAIN J = DOMAIN srv.i \cup {k} /\ J[k] = a /\ \A x \in DOMAIN srv.i : J[x] = srv.i[x]
  BY <1>4, <1>8, <1>9
<1>12. OneMore(srv.i, J, k)
  <2>1. IsFiniteSet(DOMAIN J)
    BY <1>4, <1>11, FS_AddElement DEF IsArchives
  <2>2. \A x \in DOMAIN J : J[x] \in Archive
    BY <1>4, <1>6, <1>11 DEF IsArchives
  <2>3. J \in [DOMAIN J -> Archive]
    BY <1>9, <1>11, <2>2
  <2>4. IsArchives(J)
    BY <1>4, <1>8, <1>11, <2>1, <2>3 DEF IsArchives
  <2> QED BY <1>4, <1>8, <1>11, <2>4 DEF OneMore
<1>13. IsServer(srv')
  <2>1. IsFiniteSet(srv.c \cup Refs(a))
    BY <1>4, <1>6, RefsFinite, FS_Union DEF IsServer
  <2>2. Refs(a) \subseteq Chunk
    BY <1>6, CopiesNumber
  <2> QED BY <1>4, <1>8, <1>10, <1>12, <2>1, <2>2 DEF IsServer, OneMore
<1>14. srv'.m = DOMAIN srv'.i /\ srv'.c = RefsOf(srv'.i)
  BY <1>4, <1>10, <1>11, <1>12, ArchivesOneMore
<1>15. Durable(srv, dir)'
  BY <1>2, <1>4, <1>13, <1>14 DEF Durable
<1>16. synced' \in BOOLEAN /\ damaged' \in BOOLEAN /\ faults' \in Nat
  <2>1. faults' \in Nat
    BY <1>2, <1>3 DEF Types
  <2>2. synced' = FALSE /\ damaged' = damaged /\ damaged \in BOOLEAN
    BY <1>2, <1>3 DEF Types
  <2> QED BY <2>1, <2>2
<1> QED BY <1>2, <1>15, <1>16, RestInv

LEMMA ForeignDeleteInv == ASSUME IInv, ForeignDelete PROVE IInv'
<1>1. PICK k \in srv.m :
        srv' = [m |-> srv.m \ {k}, i |-> [x \in srv.m \ {k} |-> srv.i[x]],
                c |-> UNION {Refs(srv.i[x]) : x \in srv.m \ {k}}]
  BY DEF ForeignDelete
<1>2. /\ op = "none" /\ ~damaged /\ synced' = FALSE /\ faults' = faults + 1
      /\ UNCHANGED <<dir, op, mem, key, ar, buf, saved, it, tape, todo, keep, del, damaged>>
  BY DEF ForeignDelete, writer, walker
<1>3. Types /\ Durable(srv, dir)
  BY DEF IInv
<1>4. /\ IsServer(srv) /\ IsArchives(srv.i) /\ IsDirectory(dir)
      /\ srv.m = DOMAIN srv.i /\ srv.c = RefsOf(srv.i)
  BY <1>2, <1>3 DEF Durable, IsServer
<1>5. PICK I : I = [x \in srv.m \ {k} |-> srv.i[x]]
  OBVIOUS
<1>6. /\ srv'.m = srv.m \ {k} /\ srv'.i = I /\ srv'.c = RefsOf(I)
      /\ srv' = [m |-> srv'.m, i |-> srv'.i, c |-> srv'.c]
      /\ DOMAIN I = srv.m \ {k} /\ \A x \in DOMAIN I : I[x] = srv.i[x]
  BY <1>1, <1>5 DEF RefsOf
<1>7. IsArchives(I)
  <2>1. srv.m \ {k} \subseteq DOMAIN srv.i
    BY <1>4
  <2> QED BY <1>4, <1>5, <2>1, SomeArchives
<1>8. RefsOf(I) \subseteq srv.c
  BY <1>4, <1>6 DEF RefsOf
<1>9. IsServer(srv')
  <2>1. IsFiniteSet(RefsOf(I))
    BY <1>4, <1>8, FS_Subset DEF IsServer
  <2> QED BY <1>4, <1>6, <1>7, <1>8, <2>1 DEF IsServer
<1>10. Durable(srv, dir)'
  BY <1>2, <1>4, <1>6, <1>9 DEF Durable
<1>11. synced' \in BOOLEAN /\ damaged' \in BOOLEAN /\ faults' \in Nat
  <2>1. faults' \in Nat
    BY <1>2, <1>3 DEF Types
  <2>2. synced' = FALSE /\ damaged' = damaged /\ damaged \in BOOLEAN
    BY <1>2, <1>3 DEF Types
  <2> QED BY <2>1, <2>2
<1> QED BY <1>2, <1>10, <1>11, RestInv

-----------------------------------------------------------------------------
LEMMA UnchangedInv == ASSUME IInv, UNCHANGED vars PROVE IInv'
<1>1. UNCHANGED <<srv, dir, synced, op, mem, key, ar, buf, saved, it, tape, todo, keep, del,
                  faults, damaged>>
  BY DEF vars, durable, writer, walker, env
<1>2. Types' /\ Durable(srv, dir)' /\ Checkpointed'
  BY <1>1, DurableKept, CheckpointKept DEF IInv, Types
<1>3. Resting' /\ Writing' /\ Deleting' /\ Checking'
  <2>1. Resting' /\ Writing'
    BY <1>1 DEF IInv, Resting, Writing, WriteTable, Far
  <2>2. Deleting' /\ Checking'
    BY <1>1 DEF IInv, Deleting, Checking, OnWalk, Met, AddedUp, Sound, Done
  <2> QED BY <2>1, <2>2
<1> QED BY <1>2, <1>3 DEF IInv

\* Every step keeps the invariant.
LEMMA StepInv == ASSUME Oom = FALSE, IInv, [Next]_vars PROVE IInv'
<1>1. ASSUME NEW n \in Name, Open(n) PROVE IInv'
  BY <1>1, OpenInv
<1>2. ASSUME NEW c \in Data, WriteChunkRef(c) \/ WriteFileChunk(c) PROVE IInv'
  BY <1>2, WriteFileChunkInv DEF WriteChunkRef
<1>3. ASSUME NEW hd \in Headers, Checkpoint(hd) PROVE IInv'
  BY <1>3, CheckpointInv
<1>4. ASSUME NEW hd \in Headers, NEW eof \in BOOLEAN, Close(hd, eof) PROVE IInv'
  BY <1>4, CloseInv
<1>5. ASSUME NEW k \in Key, DeleteStart(k) PROVE IInv'
  BY <1>5, DeleteStartInv
<1>6. ASSUME NEW p \in {"fsck", "prune"}, FsckStart(p) PROVE IInv'
  BY <1>6, FsckStartInv
<1>7. ASSUME NEW k \in todo, FsckArchive(k) PROVE IInv'
  BY <1>7, FsckArchiveInv
<1>8. ASSUME Fail \/ DeleteChunk \/ DeleteEnd \/ FsckChunk \/ FsckBroken \/ FsckAdd \/ FsckEnd
      PROVE  IInv'
  BY <1>8, FailInv, DeleteChunkInv, DeleteEndInv, FsckChunkInv, FsckBrokenInv, FsckAddInv,
     FsckEndInv
<1>9. ASSUME LoseFile \/ ForeignWrite \/ ForeignDelete PROVE IInv'
  BY <1>9, LoseFileInv, ForeignWriteInv, ForeignDeleteInv
<1>10. CASE UNCHANGED vars
  BY <1>10, UnchangedInv
<1> QED BY <1>1, <1>2, <1>3, <1>4, <1>5, <1>6, <1>7, <1>8, <1>9, <1>10 DEF Next

-----------------------------------------------------------------------------
\* What the invariant says.

LEMMA DurableSays ==
  ASSUME IInv
  PROVE  /\ IsArchives(srv.i) /\ IsDirectory(dir) /\ IsServer(srv)
         /\ ~damaged => srv.m = DOMAIN srv.i /\ srv.c = RefsOf(srv.i)
         /\ Described =>
              /\ Describes(dir.tab, dir.extra, srv.i, TRUE)
              /\ DOMAIN dir.tab = RefsOf(srv.i)
              /\ \A c \in DOMAIN dir.tab : /\ c \in Chunk
                                           /\ dir.tab[c].nrefs = Cardinality(UsersOf(srv.i, c))
                                           /\ dir.tab[c].ncopies = UsesOf(srv.i, c)
<1>1. /\ IsArchives(srv.i) /\ IsDirectory(dir) /\ IsServer(srv)
      /\ ~damaged => srv.m = DOMAIN srv.i /\ srv.c = RefsOf(srv.i)
      /\ synced => Describes(dir.tab, dir.extra, srv.i, ~damaged)
  BY DEF IInv, Durable, IsServer
<1>2. ASSUME Described
      PROVE  /\ Describes(dir.tab, dir.extra, srv.i, TRUE)
             /\ DOMAIN dir.tab = RefsOf(srv.i)
             /\ \A c \in DOMAIN dir.tab : /\ c \in Chunk
                                          /\ dir.tab[c].nrefs = Cardinality(UsersOf(srv.i, c))
                                          /\ dir.tab[c].ncopies = UsesOf(srv.i, c)
  <2>1. Describes(dir.tab, dir.extra, srv.i, TRUE)
    BY <1>1, <1>2 DEF Described, Describes, AtLeast
  <2>2. \A c \in Chunk : /\ NRefs(dir.tab, c) = Cardinality(UsersOf(srv.i, c))
                         /\ NCopies(dir.tab, c) = UsesOf(srv.i, c)
    BY <2>1 DEF Describes, AtLeast
  <2>3. DOMAIN dir.tab \subseteq Chunk /\ RefsOf(srv.i) \subseteq Chunk
    BY <1>1, ArchivesNumber DEF IsDirectory
  <2>4. ASSUME NEW c \in Chunk PROVE c \in DOMAIN dir.tab <=> c \in RefsOf(srv.i)
    <3>1. NRefs(dir.tab, c) # 0 <=> c \in DOMAIN dir.tab
      BY <1>1, DirectoryNumbers
    <3>2. c \in RefsOf(srv.i) <=> Cardinality(UsersOf(srv.i, c)) # 0
      BY <1>1, ArchivesNumber
    <3> QED BY <2>2, <3>1, <3>2
  <2>5. \A c \in DOMAIN dir.tab : /\ dir.tab[c].nrefs = Cardinality(UsersOf(srv.i, c))
                                  /\ dir.tab[c].ncopies = UsesOf(srv.i, c)
    BY <2>2, <2>3 DEF NRefs, NCopies
  <2> QED BY <2>1, <2>3, <2>4, <2>5
<1> QED BY <1>1, <1>2

\* The archives on the server, when each has its metadata.
LEMMA SameArchives ==
  ASSUME srv.m = DOMAIN srv.i, NEW c
  PROVE  /\ AllRefs(srv.m) = RefsOf(srv.i) /\ Users(srv.m, c) = UsersOf(srv.i, c)
         /\ Uses(srv.m, c) = UsesOf(srv.i, c)
BY DEF AllRefs, RefsOf, Users, UsersOf, Uses, UsesOf

LEMMA TypesSay == ASSUME IInv PROVE TypeOK /\ NoUnderflow
<1>1. Types /\ IsServer(srv) /\ IsDirectory(dir) /\ IsArchives(srv.i)
  BY DurableSays DEF IInv
<1>2. /\ srv.m \subseteq Key /\ DOMAIN srv.i \subseteq Key /\ srv.c \subseteq Chunk
      /\ \A k \in DOMAIN srv.i : srv.i[k] \in Archive
  BY <1>1 DEF IsServer, IsArchives
<1>3. /\ DOMAIN dir.tab \subseteq Chunk /\ dir.extra \in Nat
      /\ \A c \in DOMAIN dir.tab : dir.tab[c] \in Count
  <2>1. \A c \in DOMAIN dir.tab : dir.tab[c] \in [nrefs : Nat \ {0}, ncopies : Nat]
    BY <1>1 DEF IsDirectory
  <2>2. \A c \in DOMAIN dir.tab : dir.tab[c] \in Count
    BY <2>1 DEF Count
  <2> QED BY <1>1, <2>2 DEF IsDirectory
<1>4. IsTable(tape)
  <2>1. tape.ht = NoTable.ht /\ tape.up = {} /\ {tape.total, tape.unique, tape.extra} \subseteq Nat
    BY <1>1 DEF Types, Tapes
  <2>2. DOMAIN NoTable.ht = {}
    BY DEF NoTable
  <2> QED BY <2>1, <2>2 DEF IsTable
<1>5. it.h \in Seq(Data) /\ it.x \in Seq(Index) /\ it.buf \in Seq(Data)
  BY <1>1 DEF Types, Walks
<1>6. IsTable(mem)
  BY <1>1 DEF Types, IsMem
<1>7. /\ {synced, damaged} \subseteq BOOLEAN
      /\ op \in {"none", "write", "delete", "fsck", "prune"}
      /\ key \in Key \cup {None} /\ ar \in Archive /\ buf \in Seq(Data)
      /\ todo \subseteq Key /\ keep \subseteq Key /\ del \subseteq Chunk
  BY <1>1 DEF Types
<1>8. NoUnderflow
  <2>1. ASSUME NEW T, IsTable(T), NEW c \in DOMAIN T.ht
        PROVE  {T.ht[c].nrefs, T.ht[c].ncopies, T.ht[c].nct} \subseteq Nat
    BY <2>1 DEF IsTable, Entry
  <2>2. \A T \in {mem, tape} : {T.total, T.unique, T.extra} \subseteq Nat
    BY <1>4, <1>6 DEF IsTable
  <2>3. QED BY <1>4, <1>6, <2>1, <2>2 DEF NoUnderflow
<1> QED BY <1>2, <1>3, <1>4, <1>5, <1>6, <1>7, <1>8 DEF TypeOK

LEMMA CountsSay == ASSUME IInv PROVE RefsExact /\ ExtraExact
<1> SUFFICES ASSUME Described
             PROVE  /\ dir.tab = [c \in AllRefs(srv.m) |->
                          [nrefs |-> Cardinality(Users(srv.m, c)), ncopies |-> Uses(srv.m, c)]]
                    /\ dir.extra = SumOf([k \in srv.m |-> Files(srv.i[k])])
  BY DEF RefsExact, ExtraExact
<1>1. srv.m = DOMAIN srv.i
  BY DurableSays DEF Described
<1>2. /\ Describes(dir.tab, dir.extra, srv.i, TRUE) /\ IsDirectory(dir)
      /\ DOMAIN dir.tab = RefsOf(srv.i)
      /\ \A c \in DOMAIN dir.tab : /\ dir.tab[c].nrefs = Cardinality(UsersOf(srv.i, c))
                                   /\ dir.tab[c].ncopies = UsesOf(srv.i, c)
  BY DurableSays
<1>3. dir.extra = SumOf([k \in srv.m |-> Files(srv.i[k])])
  <2>1. dir.extra = FilesOf(srv.i)
    BY <1>2 DEF Describes, AtLeast
  <2> QED BY <1>1, <2>1 DEF FilesOf
<1>4. dir.tab \in [DOMAIN dir.tab -> [nrefs : Nat \ {0}, ncopies : Nat]]
  BY <1>2 DEF IsDirectory
<1>5. \A c \in DOMAIN dir.tab : dir.tab[c] = [nrefs |-> Cardinality(Users(srv.m, c)),
                                             ncopies |-> Uses(srv.m, c)]
  <2> TAKE c \in DOMAIN dir.tab
  <2>1. dir.tab[c] \in [nrefs : Nat \ {0}, ncopies : Nat]
    BY <1>4
  <2>2. dir.tab[c] = [nrefs |-> dir.tab[c].nrefs, ncopies |-> dir.tab[c].ncopies]
    BY <2>1
  <2>3. /\ dir.tab[c].nrefs = Cardinality(Users(srv.m, c))
        /\ dir.tab[c].ncopies = Uses(srv.m, c)
    BY <1>1, <1>2, SameArchives
  <2> QED BY <2>2, <2>3, Zenon
<1>6. DOMAIN dir.tab = AllRefs(srv.m)
  BY <1>1, <1>2, SameArchives
<1>7. dir.tab = [c \in DOMAIN dir.tab |-> dir.tab[c]]
  BY <1>4
<1> QED BY <1>3, <1>5, <1>6, <1>7

LEMMA FilesSay == ASSUME IInv PROVE NoDangling /\ NoOrphans
<1>1. ~damaged => srv.m = DOMAIN srv.i /\ srv.c = RefsOf(srv.i)
  BY DurableSays
<1>2. srv.m = DOMAIN srv.i => AllRefs(srv.m) = RefsOf(srv.i)
  BY SameArchives
<1> QED BY <1>1, <1>2 DEF NoDangling, NoOrphans

LEMMA TableSays == ASSUME IInv PROVE TableExact
<1> SUFFICES ASSUME op = "write", Described
             PROVE  /\ mem.extra = dir.extra
                    /\ DOMAIN mem.ht = AllRefs(srv.m) \cup Refs(Written)
                    /\ \A c \in DOMAIN mem.ht :
                         /\ mem.ht[c].nrefs = Cardinality(Users(srv.m, c))
                                                + (IF c \in Refs(Written) THEN 1 ELSE 0)
                         /\ mem.ht[c].ncopies = Uses(srv.m, c) + Copies(Written, c)
                    /\ mem.total = SumOf([c \in DOMAIN mem.ht |-> mem.ht[c].ncopies])
                    /\ mem.unique = Cardinality({c \in DOMAIN mem.ht : mem.ht[c].nrefs > 0})
  BY DEF TableExact
<1>1. /\ IsDirectory(dir) /\ ar.h \in Seq(Data) /\ ar.x \in Seq(Index)
      /\ ar = [h |-> ar.h, x |-> ar.x] /\ buf \in Seq(Data)
      /\ WriteTable(mem, CopiesOf([h |-> ar.h \o buf, x |-> ar.x]))
      /\ mem.extra = dir.extra
  BY WriteFacts
<1>2. Written = [h |-> ar.h \o buf, x |-> ar.x]
  <2>1. CASE buf = <<>>
    <3>1. ar.h \o buf = ar.h
      BY <1>1, <2>1
    <3> QED BY <1>1, <2>1, <3>1 DEF Written
  <2>2. CASE buf # <<>>
    BY <1>1, <2>2 DEF Written
  <2> QED BY <2>1, <2>2
<1>3. Written \in Archive
  BY <1>1, <1>2 DEF Archive
<1>4. PICK n : n = CopiesOf(Written)
  OBVIOUS
<1>5. n \in [Chunk -> Nat] /\ \A c \in Chunk : n[c] = Copies(Written, c)
  BY <1>3, <1>4, CopiesOfArchive
<1>6. WriteTable(mem, n)
  BY <1>1, <1>2, <1>4
<1>7. \A c \in Chunk : n[c] # 0 <=> c \in Refs(Written)
  BY <1>3, <1>5, CopiesNumber
<1>8. /\ srv.m = DOMAIN srv.i /\ IsArchives(srv.i)
      /\ Describes(dir.tab, dir.extra, srv.i, TRUE)
      /\ DOMAIN dir.tab = RefsOf(srv.i)
  BY DurableSays DEF Described
<1>9. /\ \A c \in Chunk : c \in DOMAIN mem.ht <=> n[c] # 0 \/ c \in DOMAIN dir.tab
      /\ \A c \in DOMAIN mem.ht : c \in Chunk /\ mem.ht[c] = WriteEntry(n, c)
  BY <1>1, <1>5, <1>6, WriteEntries
<1>10. DOMAIN mem.ht = AllRefs(srv.m) \cup Refs(Written)
  <2>1. AllRefs(srv.m) = DOMAIN dir.tab
    BY <1>8, SameArchives
  <2>2. Refs(Written) \subseteq Chunk /\ DOMAIN dir.tab \subseteq Chunk
    BY <1>1, <1>3, CopiesNumber DEF IsDirectory
  <2> QED BY <1>7, <1>9, <2>1, <2>2
<1>11. ASSUME NEW c \in DOMAIN mem.ht
       PROVE  /\ mem.ht[c].nrefs = Cardinality(Users(srv.m, c))
                                     + (IF c \in Refs(Written) THEN 1 ELSE 0)
              /\ mem.ht[c].ncopies = Uses(srv.m, c) + Copies(Written, c)
  <2>1. c \in Chunk /\ mem.ht[c] = WriteEntry(n, c)
    BY <1>9
  <2>2. /\ mem.ht[c].nrefs = NRefs(dir.tab, c) + Some(n[c])
        /\ mem.ht[c].ncopies = NCopies(dir.tab, c) + n[c]
    BY <1>1, <1>5, <2>1, WriteEntryFields
  <2>3. /\ NRefs(dir.tab, c) = Cardinality(UsersOf(srv.i, c))
        /\ NCopies(dir.tab, c) = UsesOf(srv.i, c)
    BY <1>8, <2>1 DEF Describes, AtLeast
  <2>4. Users(srv.m, c) = UsersOf(srv.i, c) /\ Uses(srv.m, c) = UsesOf(srv.i, c)
    BY <1>8, SameArchives
  <2>5. Some(n[c]) = IF c \in Refs(Written) THEN 1 ELSE 0
    BY <1>7, <2>1 DEF Some
  <2> QED BY <1>5, <2>1, <2>2, <2>3, <2>4, <2>5
<1>12. AddedUp(mem)
  BY <1>6 DEF WriteTable
<1> QED BY <1>1, <1>10, <1>11, <1>12 DEF AddedUp

LEMMA DeleteSays == ASSUME IInv PROVE DeleteProceeds
<1> SUFFICES ASSUME op = "delete", Described, it # NoIter PROVE CanUnref(Current(it))
  BY DEF DeleteProceeds
<1>1. /\ key \in srv.m /\ OnWalk /\ DOMAIN mem.ht = DOMAIN dir.tab
  BY DEF IInv, Deleting
<1>2. /\ srv.m = DOMAIN srv.i /\ srv.c = RefsOf(srv.i) /\ IsArchives(srv.i)
      /\ DOMAIN dir.tab = RefsOf(srv.i)
  BY DurableSays DEF Described
<1>3. Current(it) \in Refs(srv.i[key])
  BY <1>1, <1>2, CurrentRef DEF IInv, Types
<1>4. Current(it) \in RefsOf(srv.i)
  BY <1>1, <1>2, <1>3 DEF RefsOf
<1>5. Readable(it)
  BY <1>2, <1>4 DEF Readable, AtIndex, Current
<1> QED BY <1>1, <1>2, <1>4, <1>5 DEF CanUnref

\* Chunks of the archives that are kept have been counted.
LEMMA KeptCounted ==
  ASSUME IInv, Counted, NEW k \in keep, NEW c \in Refs(srv.i[k])
  PROVE  c \notin Unreferenced
<1>1. /\ None \notin keep /\ DOMAIN mem.ht = srv.c /\ srv.c \subseteq Chunk
      /\ Describes(mem.ht, mem.extra, Done, TRUE) /\ IsArchives(Done)
  BY CheckFacts DEF Counted
<1>2. k \in DOMAIN Done /\ Done[k] = srv.i[k]
  BY <1>1 DEF Counted, Done
<1>3. c \in RefsOf(Done)
  BY <1>2 DEF RefsOf
<1>4. Cardinality(UsersOf(Done, c)) # 0
  BY <1>1, <1>3, ArchivesNumber
<1>5. c \in DOMAIN mem.ht => mem.ht[c].nrefs # 0
  BY <1>1, <1>4 DEF Describes, AtLeast, NRefs
<1> QED BY <1>5 DEF Unreferenced

LEMMA PruneSays == ASSUME IInv PROVE PruneSparesReferenced
BY KeptCounted DEF PruneSparesReferenced, AllRefs

-----------------------------------------------------------------------------
\* What a step does to an archive that is complete.

\* An archive that is stored under a name of its own.
LEMMA UploadSpares ==
  ASSUME NEW k, Complete(k), NEW n, n \notin srv.m \cup DOMAIN srv.i, NEW a, NEW up,
         srv' = Uploaded(n, a, up)
  PROVE  Complete(k)'
<1>1. PICK I : I = [x \in DOMAIN srv.i \cup {n} |-> IF x = n THEN a ELSE srv.i[x]]
  OBVIOUS
<1>2. srv'.m = srv.m \cup {n} /\ srv'.i = I /\ srv'.c = srv.c \cup up
  BY <1>1 DEF Uploaded
<1>3. k \in srv.m /\ k \in DOMAIN srv.i /\ Refs(srv.i[k]) \subseteq srv.c
  BY DEF Complete
<1>4. k \in DOMAIN I /\ I[k] = srv.i[k]
  BY <1>1, <1>3
<1> QED BY <1>2, <1>3, <1>4 DEF Complete

\* The chunks that a delete removes are used by no other archive, although
\* the table may count archives that the server has lost.
LEMMA DeleteSpares ==
  ASSUME IInv, DeleteEnd, NEW k, k # key, Complete(k)
  PROVE  Complete(k)'
<1>1. PICK I : I = [x \in DOMAIN srv.i \ {key} |-> srv.i[x]]
  OBVIOUS
<1>2. PICK T : T = [mem EXCEPT !.extra = @ - Files(srv.i[key])]
  OBVIOUS
<1>3. /\ op = "delete" /\ it = NoIter
      /\ srv'.m = keep /\ srv'.i = I /\ srv'.c = srv.c \ del
  BY <1>1 DEF DeleteEnd
<1>4. /\ keep = srv.m \ {key} /\ DOMAIN mem.ht \subseteq Chunk
      /\ del = {c \in DOMAIN mem.ht : mem.ht[c].nrefs = 0}
  BY <1>3 DEF IInv, Deleting, Types, IsMem, IsTable
<1>5. T.ht = mem.ht /\ OneMore(I, srv.i, key) /\ Describes(T.ht, T.extra, I, ~damaged)
  BY <1>1, <1>2, <1>3, OthersDescribed
<1>6. k \in srv.m /\ k \in DOMAIN srv.i /\ Refs(srv.i[k]) \subseteq srv.c
  BY DEF Complete
<1>7. k \in DOMAIN I /\ I[k] = srv.i[k] /\ k \in keep
  BY <1>1, <1>4, <1>6
<1>8. ASSUME NEW c \in Refs(srv.i[k]) PROVE c \notin del
  <2>1. c \in RefsOf(I)
    BY <1>7 DEF RefsOf
  <2>2. Cardinality(UsersOf(I, c)) \in Nat /\ Cardinality(UsersOf(I, c)) # 0
    BY <1>5, <2>1, ArchivesNumber DEF OneMore
  <2>3. c \in DOMAIN mem.ht => Cardinality(UsersOf(I, c)) <= mem.ht[c].nrefs
    BY <1>4, <1>5 DEF Describes, AtLeast, NRefs
  <2> QED BY <1>4, <2>2, <2>3
<1> QED BY <1>3, <1>6, <1>7, <1>8 DEF Complete

\* A fsck counts every archive that is complete.
LEMMA FsckSpares ==
  ASSUME IInv, FsckEnd, NEW k, Complete(k)
  PROVE  Complete(k)'
<1>1. PICK I : I = [x \in keep |-> srv.i[x]]
  OBVIOUS
<1>2. /\ Counted /\ srv'.m = keep /\ srv'.i = I /\ srv'.c = srv.c \ Unreferenced
  BY <1>1 DEF FsckEnd
<1>3. {x \in Sound : Refs(srv.i[x]) \subseteq srv.c} \subseteq keep
  BY <1>2, CheckFacts DEF Counted
<1>4. k \in keep /\ k \in DOMAIN I /\ I[k] = srv.i[k] /\ Refs(srv.i[k]) \subseteq srv.c
  BY <1>1, <1>3 DEF Complete, Sound
<1> QED BY <1>2, <1>4, KeptCounted DEF Complete

LEMMA StepSpares ==
  ASSUME IInv, [Next]_vars, NEW k \in Key, Complete(k), ~(op = "delete" /\ key = k),
         faults' = faults
  PROVE  Complete(k)'
<1>1. CASE UNCHANGED srv
  BY <1>1 DEF Complete
<1>2. ASSUME NEW hd \in Headers, NEW eof \in BOOLEAN, Close(hd, eof) PROVE Complete(k)'
  BY <1>2, UploadSpares DEF Close, Accepts
<1>3. CASE Fail
  <2>1. \/ UNCHANGED srv
        \/ saved # None /\ srv' = Uploaded(saved.key, saved.ar, saved.up)
    BY <1>3 DEF Fail
  <2>2. CASE saved # None /\ srv' = Uploaded(saved.key, saved.ar, saved.up)
    <3>1. saved.key \notin srv.m \cup DOMAIN srv.i
      BY <2>2 DEF IInv, Checkpointed
    <3> QED BY <2>2, <3>1, UploadSpares
  <2> QED BY <1>1, <2>1, <2>2
<1>4. CASE DeleteEnd
  <2>1. op = "delete"
    BY <1>4 DEF DeleteEnd
  <2> QED BY <1>4, <2>1, DeleteSpares
<1>5. CASE FsckEnd
  BY <1>5, FsckSpares
<1>6. CASE LoseFile \/ ForeignWrite \/ ForeignDelete
  <2>1. faults' = faults + 1 /\ faults \in Nat
    BY <1>6 DEF LoseFile, ForeignWrite, ForeignDelete, IInv, Types
  <2> QED BY <2>1
<1>7. ASSUME \/ \E n \in Name : Open(n)
             \/ \E c \in Data : WriteChunkRef(c) \/ WriteFileChunk(c)
             \/ \E hd \in Headers : Checkpoint(hd)
             \/ \E x \in Key : DeleteStart(x)
             \/ DeleteChunk
             \/ \E p \in {"fsck", "prune"} : FsckStart(p)
             \/ \E x \in todo : FsckArchive(x)
             \/ FsckChunk \/ FsckBroken \/ FsckAdd
             \/ UNCHANGED vars
      PROVE  UNCHANGED srv
  BY <1>7 DEF Open, WriteChunkRef, WriteFileChunk, Checkpoint, DeleteStart, DeleteChunk,
     FsckStart, FsckArchive, FsckChunk, FsckBroken, FsckAdd, vars, durable
<1> QED BY <1>1, <1>2, <1>3, <1>4, <1>5, <1>6, <1>7 DEF Next

-----------------------------------------------------------------------------
\* What holds of module Chunks as long as chunkiter is never refused memory.

\* The invariant is one.
LEMMA Inductive == ASSUME Oom = FALSE PROVE Spec => []IInv
<1>1. IInv /\ [Next]_vars => IInv'
  BY StepInv
<1> QED BY InitInv, <1>1, PTL DEF Spec

\* No count of a chunk and no sum in the statistics passes below zero
\* (chunks_delete.c:108 and :119, chunks_stats_internal.c:48), in any sequence
\* of commands, failures and losses of files.
THEOREM CountersInRange == ASSUME Oom = FALSE PROVE Spec => [](TypeOK /\ NoUnderflow)
BY Inductive, TypesSay, PTL

\* While the client knows of everything that happened, the directory has
\* exactly the chunks that archives use, each with the number of archives and
\* of references (nrefs and ncopies of struct chunkdata).
THEOREM DirectoryExact == ASSUME Oom = FALSE PROVE Spec => []RefsExact
BY Inductive, CountsSay, PTL

\* The extra statistics are those of the files of the archives there are, and
\* not of checkpoints (multitape_write.c:887).
THEOREM ExtraOfArchives == ASSUME Oom = FALSE PROVE Spec => []ExtraExact
BY Inductive, CountsSay, PTL

\* As long as the server loses nothing, an archive has its metaindex and its
\* chunks: chunks_delete_chunk and fsck remove none that is used.
THEOREM ArchivesWhole == ASSUME Oom = FALSE PROVE Spec => []NoDangling
BY Inductive, FilesSay, PTL

\* Nor does anything stay that no archive uses: what a delete makes
\* superfluous it removes, what an interrupted backup stored is not kept.
THEOREM NothingLeftBehind == ASSUME Oom = FALSE PROVE Spec => []NoOrphans
BY Inductive, FilesSay, PTL

\* While an archive is written, the table in memory is what the archives and
\* the part written so far amount to, and its statistics are what adding it
\* up gives (chunks_write.c:46, :159, :276, :309).
THEOREM TableOfWrite == ASSUME Oom = FALSE PROVE Spec => []TableExact
BY Inductive, TableSays, PTL

\* chunks_delete_chunk knows every chunk it meets, the server has those it is
\* told to remove, and the index chunk that chunkiter is about to read is
\* still there.
THEOREM DeleteIsNotStopped == ASSUME Oom = FALSE PROVE Spec => []DeleteProceeds
BY Inductive, DeleteSays, PTL

\* --fsck-prune removes no chunk of an archive that it keeps
\* (multitape_fsck.c:438).  The hypothesis cannot be dropped: with memory
\* refused, chunkiter stops and reports success.
THEOREM PruneSparesKept == ASSUME Oom = FALSE PROVE Spec => []PruneSparesReferenced
BY Inductive, PruneSays, PTL

\* An archive that can be restored remains so until it is itself deleted or
\* the server loses a file, also while the directory is out of date and while
\* files of other archives are missing.
THEOREM ArchivesSpared == ASSUME Oom = FALSE PROVE Spec => StaysComplete
<1>1. ASSUME IInv, [Next]_vars
      PROVE  [\A k \in Key :
                Complete(k) /\ ~(op = "delete" /\ key = k) /\ faults' = faults
                  => Complete(k)']_vars
  BY <1>1, StepSpares
<1> QED BY Inductive, <1>1, PTL DEF Spec, StaysComplete
=============================================================================
