-------------------------- MODULE FileCacheProofs ---------------------------
(***************************************************************************)
(* Proofs about FileCache, for any files, chunk contents and clock:        *)
(* what an archive holds is what the file had when it was looked at, the   *)
(* cache never meets its "Programmer error" exits, and a file archived to  *)
(* its end is remembered.  The first part is about FlattenSeq, the         *)
(* sequences one after the other of a sequence of sequences.               *)
(***************************************************************************)
EXTENDS FileCacheInv, Sums

-----------------------------------------------------------------------------
(* Sequences of sequences, one after the other. *)

\* The equation by which FlattenSeq is defined, for the first n of them.
FlatStep(f, s, i) == IF i = 1 THEN s[1] ELSE f[i - 1] \o s[i]
IsFlat(f, s, n) == f = [i \in 1 .. n |-> FlatStep(f, s, i)]

LEMMA FlatIs ==
  ASSUME NEW s, Len(s) # 0
  PROVE  FlattenSeq(s) = (CHOOSE f : IsFlat(f, s, Len(s)))[Len(s)]
<1> DEFINE g == CHOOSE f : f = [i \in 1 .. Len(s) |-> IF i = 1 THEN s[i] ELSE f[i - 1] \o s[i]]
<1>1. FlattenSeq(s) = g[Len(s)]
  BY Zenon DEF FlattenSeq
<1>2. ASSUME NEW f PROVE [i \in 1 .. Len(s) |-> IF i = 1 THEN s[i] ELSE f[i - 1] \o s[i]]
                       = [i \in 1 .. Len(s) |-> FlatStep(f, s, i)]
  BY Zenon DEF FlatStep
<1>3. g = CHOOSE f : IsFlat(f, s, Len(s))
  BY <1>2, Zenon DEF IsFlat
<1> QED BY <1>1, <1>3, Zenon

LEMMA FlatEmpty == FlattenSeq(<<>>) = <<>>
BY DEF FlattenSeq

\* It has a solution for every length.
LEMMA FlatExists ==
  ASSUME NEW s, NEW n \in Nat
  PROVE  \E f : IsFlat(f, s, n)
<1> DEFINE Bad == {k \in Nat : ~ \E f : IsFlat(f, s, k)}
<1>1. SUFFICES ASSUME Bad # {} PROVE FALSE
  BY Zenon
<1>2. PICK m \in Bad : \A k \in Bad : m <= k
  <2>1. Bad \subseteq Nat OBVIOUS
  <2> HIDE DEF Bad
  <2> QED BY <1>1, <2>1, LeastNat
<1>3. CASE m = 0
  <2>1. IsFlat([i \in 1 .. 0 |-> 0], s, 0)
    BY DEF IsFlat
  <2> QED BY <2>1, <1>2, <1>3
<1>4. CASE m > 0
  <2>1. m \in Nat /\ m - 1 \in Nat BY <1>4
  <2>2. PICK f : IsFlat(f, s, m - 1)
    BY <2>1, <1>2
  <2> DEFINE g == [i \in 1 .. m |-> FlatStep(f, s, i)]
  <2>3. ASSUME NEW i \in 1 .. m PROVE g[i] = FlatStep(g, s, i)
    <3>1. CASE i = 1 BY <3>1, <2>1 DEF FlatStep
    <3>2. CASE i # 1
      <4>1. i - 1 \in 1 .. m - 1 /\ i - 1 \in 1 .. m BY <3>2, <2>1
      <4>2. f[i - 1] = FlatStep(f, s, i - 1)
        BY <4>1, <2>2, Zenon DEF IsFlat
      <4>3. g[i - 1] = FlatStep(f, s, i - 1) BY <4>1
      <4>4. g[i] = FlatStep(f, s, i) OBVIOUS
      <4> HIDE DEF g
      <4> QED BY <3>2, <4>2, <4>3, <4>4 DEF FlatStep
    <3> QED BY <3>1, <3>2
  <2>4. g = [i \in 1 .. m |-> g[i]] BY Zenon
  <2>5. IsFlat(g, s, m)
    <3> HIDE DEF g
    <3> QED BY <2>3, <2>4, Zenon DEF IsFlat
  <2> QED BY <2>5, <1>2
<1> QED BY <1>2, <1>3, <1>4

\* Its values depend only on the sequences up to there.
LEMMA FlatAgree ==
  ASSUME NEW s, NEW t, NEW m \in Nat, NEW n \in Nat, NEW f, NEW g,
         IsFlat(f, s, m), IsFlat(g, t, n), m <= n,
         \A i \in 1 .. m : s[i] = t[i]
  PROVE  \A i \in 1 .. m : f[i] = g[i]
<1> DEFINE Bad == {i \in 1 .. m : f[i] # g[i]}
<1>1. SUFFICES ASSUME Bad # {} PROVE FALSE
  BY Zenon
<1>2. PICK i \in Bad : \A k \in Bad : i <= k
  <2>1. Bad \subseteq Nat OBVIOUS
  <2> HIDE DEF Bad
  <2> QED BY <1>1, <2>1, LeastNat
<1>3. i \in 1 .. m /\ i \in 1 .. n
  OBVIOUS
<1>4. f[i] = FlatStep(f, s, i)
  BY <1>3, Zenon DEF IsFlat
<1>5. g[i] = FlatStep(g, t, i)
  BY <1>3, Zenon DEF IsFlat
<1>6. CASE i = 1
  BY <1>2, <1>4, <1>5, <1>6 DEF FlatStep
<1>7. CASE i # 1
  <2>1. i - 1 \in 1 .. m /\ ~(i <= i - 1)
    BY <1>3, <1>7
  <2>2. f[i - 1] = g[i - 1]
    BY <2>1, <1>2
  <2> QED BY <1>2, <1>4, <1>5, <1>7, <2>2 DEF FlatStep
<1> QED BY <1>6, <1>7

\* One sequence more at the end, stated of any functions.
LEMMA FlatLonger ==
  ASSUME NEW s, NEW t, NEW n \in Nat, NEW k \in Nat, k = n + 1, n # 0,
         Len(s) = n, Len(t) = k, \A i \in 1 .. n : s[i] = t[i]
  PROVE  FlattenSeq(t) = FlattenSeq(s) \o t[k]
<1>1. PICK f : IsFlat(f, s, n) /\ FlattenSeq(s) = f[n]
  <2>1. \E f : IsFlat(f, s, n) BY FlatExists
  <2> QED BY <2>1, FlatIs, Zenon
<1>2. PICK g : IsFlat(g, t, k) /\ FlattenSeq(t) = g[k]
  <2>1. \E g : IsFlat(g, t, k) BY FlatExists
  <2>2. k # 0 OBVIOUS
  <2> QED BY <2>1, <2>2, FlatIs, Zenon
<1>3. \A i \in 1 .. n : f[i] = g[i]
  <2>1. n <= k OBVIOUS
  <2>2. IsFlat(f, s, n) /\ IsFlat(g, t, k) BY <1>1, <1>2, Zenon
  <2> QED BY ONLY <2>1, <2>2, n \in Nat, k \in Nat, \A i \in 1 .. n : s[i] = t[i], FlatAgree
<1>4. g[k] = FlatStep(g, t, k)
  <2>1. k \in 1 .. k OBVIOUS
  <2> QED BY <1>2, <2>1, Zenon DEF IsFlat
<1>5. k # 1 /\ k - 1 = n /\ n \in 1 .. n
  OBVIOUS
<1>6. FlatStep(g, t, k) = g[n] \o t[k]
  BY <1>5 DEF FlatStep
<1> QED BY <1>1, <1>2, <1>3, <1>4, <1>5, <1>6

LEMMA FlatAppend ==
  ASSUME NEW S, NEW s \in Seq(Seq(S)), NEW c \in Seq(S)
  PROVE  FlattenSeq(Append(s, c)) = FlattenSeq(s) \o c
<1>1. PICK n \in Nat : n = Len(s)
  OBVIOUS
<1>2. PICK k \in Nat : k = n + 1
  OBVIOUS
<1>3. PICK t : t = Append(s, c)
  OBVIOUS
<1>4. Len(t) = k /\ t[k] = c /\ \A i \in 1 .. n : s[i] = t[i]
  BY <1>1, <1>2, <1>3
<1>5. CASE n = 0
  <2>1. s = <<>>
    <3>1. Len(s) = 0 BY <1>1, <1>5, Zenon
    <3> QED BY <3>1
  <2>2. t = <<c>> BY <2>1, <1>3
  <2>3. FlattenSeq(t) = c
    <3>1. Len(t) = 1 /\ 1 \in Nat BY <1>4, <1>2, <1>5
    <3>2. PICK f : IsFlat(f, t, 1) /\ FlattenSeq(t) = f[1]
      <4>1. \E f : IsFlat(f, t, 1) BY <3>1, FlatExists
      <4>2. Len(t) # 0 BY <3>1
      <4>3. FlattenSeq(t) = (CHOOSE f : IsFlat(f, t, 1))[1]
        BY <3>1, <4>2, FlatIs, Zenon
      <4> QED BY <4>1, <4>3, Zenon
    <3>3. f[1] = FlatStep(f, t, 1)
      <4>1. 1 \in 1 .. 1 OBVIOUS
      <4> QED BY <3>2, <4>1, Zenon DEF IsFlat
    <3> QED BY <3>2, <3>3, <1>2, <1>4, <1>5 DEF FlatStep
  <2>4. <<>> \o c = c OBVIOUS
  <2> QED BY <1>3, <2>1, <2>3, <2>4, FlatEmpty
<1>6. CASE n # 0
  <2>1. FlattenSeq(t) = FlattenSeq(s) \o t[k]
    BY <1>1, <1>2, <1>4, <1>6, FlatLonger, Zenon
  <2> QED BY <1>3, <1>4, <2>1
<1> QED BY <1>5, <1>6

\* The rest of these facts: what they are made of, and the first part.
LEMMA FlatType ==
  ASSUME NEW S, NEW s \in Seq(Seq(S))
  PROVE  FlattenSeq(s) \in Seq(S)
<1> DEFINE P(n) == \A t \in Seq(Seq(S)) : Len(t) = n => FlattenSeq(t) \in Seq(S)
           Bad == {k \in Nat : ~P(k)}
<1>1. SUFFICES ASSUME Bad # {} PROVE FALSE
  <2>1. ASSUME Bad = {} PROVE P(Len(s))
    <3>1. Len(s) \in Nat OBVIOUS
    <3> HIDE DEF P
    <3> QED BY <2>1, <3>1
  <2> QED BY <2>1
<1>2. PICK m \in Bad : \A k \in Bad : m <= k
  <2>1. Bad \subseteq Nat OBVIOUS
  <2> HIDE DEF Bad
  <2> QED BY <1>1, <2>1, LeastNat
<1>3. PICK t \in Seq(Seq(S)) : Len(t) = m /\ FlattenSeq(t) \notin Seq(S)
  OBVIOUS
<1>4. CASE m = 0
  <2>1. t = <<>> BY <1>3, <1>4
  <2> QED BY <1>3, <2>1, FlatEmpty
<1>5. CASE m # 0
  <2> DEFINE u == SubSeq(t, 1, m - 1)
  <2>1. u \in Seq(Seq(S)) /\ Len(u) = m - 1 /\ t = Append(u, t[m]) /\ t[m] \in Seq(S)
    BY <1>3, <1>5
  <2>2. FlattenSeq(u) \in Seq(S)
    <3>1. m - 1 \in Nat /\ ~(m <= m - 1) BY <1>5
    <3>2. P(m - 1) BY <3>1, <1>2
    <3> HIDE DEF u
    <3> QED BY <2>1, <3>2
  <2>3. FlattenSeq(t) = FlattenSeq(u) \o t[m]
    <3> HIDE DEF u
    <3> QED BY <2>1, FlatAppend
  <2> HIDE DEF u
  <2> QED BY <1>3, <2>1, <2>2, <2>3
<1> QED BY <1>4, <1>5

LEMMA FlatNext ==
  ASSUME NEW S, NEW s \in Seq(Seq(S)), NEW n \in Nat, n < Len(s)
  PROVE  /\ FlattenSeq(SubSeq(s, 1, n + 1)) = FlattenSeq(SubSeq(s, 1, n)) \o s[n + 1]
         /\ FlattenSeq(SubSeq(s, 1, n)) \in Seq(S) /\ s[n + 1] \in Seq(S)
<1> DEFINE u == SubSeq(s, 1, n)
<1>1. /\ u \in Seq(Seq(S)) /\ s[n + 1] \in Seq(S)
      /\ SubSeq(s, 1, n + 1) = Append(u, s[n + 1])
  OBVIOUS
<1> HIDE DEF u
<1> QED BY <1>1, FlatAppend, FlatType DEF u

LEMMA FlatNone == ASSUME NEW S, NEW s \in Seq(S) PROVE FlattenSeq(SubSeq(s, 1, 0)) = <<>>
<1>1. SubSeq(s, 1, 0) = <<>> OBVIOUS
<1> QED BY <1>1, FlatEmpty

-----------------------------------------------------------------------------
(* Prefixes. *)

LEMMA PrefixIs ==
  ASSUME NEW S, NEW s \in Seq(S), NEW t \in Seq(S)
  PROVE  IsPrefix(s, t) <=> Len(s) <= Len(t) /\ \A i \in 1 .. Len(s) : s[i] = t[i]
BY DEF IsPrefix

LEMMA PrefixRefl ==
  ASSUME NEW S, NEW s \in Seq(S) PROVE IsPrefix(s, s)
BY PrefixIs

LEMMA PrefixConcat ==
  ASSUME NEW S, NEW s \in Seq(S), NEW u \in Seq(S)
  PROVE  IsPrefix(s, s \o u)
<1>1. s \o u \in Seq(S) /\ Len(s) <= Len(s \o u)
  OBVIOUS
<1>2. \A i \in 1 .. Len(s) : (s \o u)[i] = s[i]
  OBVIOUS
<1> QED BY <1>1, <1>2, PrefixIs

LEMMA PrefixAppend ==
  ASSUME NEW S, NEW s \in Seq(S), NEW t \in Seq(S), NEW v \in S, IsPrefix(s, t)
  PROVE  IsPrefix(s, Append(t, v))
<1>1. Append(t, v) \in Seq(S) /\ Len(Append(t, v)) = Len(t) + 1
  OBVIOUS
<1>2. Len(s) <= Len(t) /\ \A i \in 1 .. Len(s) : s[i] = t[i]
  BY PrefixIs
<1>3. \A i \in 1 .. Len(s) : i \in 1 .. Len(t)
  BY <1>2
<1>4. \A i \in 1 .. Len(t) : Append(t, v)[i] = t[i]
  OBVIOUS
<1>5. Len(s) <= Len(Append(t, v))
  BY <1>1, <1>2
<1> QED BY <1>1, <1>2, <1>3, <1>4, <1>5, PrefixIs

LEMMA ConcatAppend ==
  ASSUME NEW S, NEW s \in Seq(S), NEW t \in Seq(S), NEW v \in S
  PROVE  s \o Append(t, v) = Append(s \o t, v)
OBVIOUS

LEMMA ConcatEmpty == ASSUME NEW S, NEW s \in Seq(S) PROVE s \o <<>> = s /\ <<>> \o s = s
OBVIOUS

-----------------------------------------------------------------------------
(* What was read of a sequence, with nulls behind it. *)

LEMMA AsReadNone ==
  ASSUME NEW S, NEW u \in Seq(S), NEW n
  PROVE  AsRead(<<>>, u, n)
<1>1. Len(<<>>) = 0 /\ Len(u) \in Nat /\ 1 .. 0 = {}
  OBVIOUS
<1> QED BY <1>1 DEF AsRead

LEMMA AsReadShorter ==
  ASSUME NEW S, NEW s \in Seq(S), NEW t \in Seq(S), NEW u \in Seq(S), NEW n \in Nat,
         IsPrefix(s, t), AsRead(t, u, n)
  PROVE  AsRead(s, u, n)
<1>1. Len(s) <= Len(t) /\ \A i \in 1 .. Len(s) : s[i] = t[i]
  BY PrefixIs
<1>2. Len(s) \in Nat /\ Len(t) \in Nat /\ Len(u) \in Nat
  OBVIOUS
<1>3. \A i \in 1 .. Len(s) : i \in 1 .. Len(t)
  BY <1>1, <1>2
<1>4. Len(s) <= Len(u)
  BY <1>1, <1>2 DEF AsRead
<1>5. \A i \in 1 .. Len(s) : s[i] = IF i <= n THEN u[i] ELSE Fill
  BY <1>1, <1>3 DEF AsRead
<1> QED BY <1>4, <1>5 DEF AsRead

\* How much can be read makes no difference to what was read before.
LEMMA AsReadUpTo ==
  ASSUME NEW S, NEW d \in Seq(S), NEW u \in Seq(S), NEW m \in Nat, NEW n \in Nat,
         AsRead(d, u, m), Len(d) <= m, Len(d) <= n
  PROVE  AsRead(d, u, n)
<1>1. Len(d) \in Nat
  OBVIOUS
<1>2. \A i \in 1 .. Len(d) : i <= m /\ i <= n
  BY <1>1
<1> QED BY <1>2 DEF AsRead

LEMMA AsReadNext ==
  ASSUME NEW S, NEW d \in Seq(S), NEW u \in Seq(S), NEW n \in Nat, NEW v \in S,
         AsRead(d, u, n), Len(d) < Len(u),
         v = IF Len(d) + 1 <= n THEN u[Len(d) + 1] ELSE Fill
  PROVE  AsRead(Append(d, v), u, n)
<1> DEFINE e == Append(d, v)
<1>1. /\ Len(d) \in Nat /\ Len(u) \in Nat /\ Len(e) = Len(d) + 1
      /\ e[Len(d) + 1] = v /\ \A i \in 1 .. Len(d) : e[i] = d[i]
  OBVIOUS
<1> HIDE DEF e
<1>2. Len(e) <= Len(u)
  BY <1>1
<1>3. ASSUME NEW i \in 1 .. Len(e) PROVE e[i] = IF i <= n THEN u[i] ELSE Fill
  <2>1. CASE i = Len(d) + 1 BY <1>1, <2>1
  <2>2. CASE i # Len(d) + 1
    <3>1. i \in 1 .. Len(d) BY <1>1, <2>2
    <3> QED BY <1>1, <3>1 DEF AsRead
  <2> QED BY <2>1, <2>2
<1>4. AsRead(e, u, n) BY <1>2, <1>3 DEF AsRead
<1> QED BY <1>4 DEF e

\* The next part of a sequence of which everything was read.
LEMMA AsReadMore ==
  ASSUME NEW S, NEW d \in Seq(S), NEW u \in Seq(S), NEW c \in Seq(S),
         AsRead(d, u, Len(u)), Len(d) + Len(c) <= Len(u),
         SubSeq(u, Len(d) + 1, Len(d) + Len(c)) = c
  PROVE  AsRead(d \o c, u, Len(u))
<1> DEFINE e == d \o c
<1>1. /\ Len(d) \in Nat /\ Len(c) \in Nat /\ Len(u) \in Nat /\ Len(e) = Len(d) + Len(c)
      /\ \A i \in 1 .. Len(d) : e[i] = d[i]
      /\ \A i \in 1 .. Len(c) : e[Len(d) + i] = c[i]
  OBVIOUS
<1>2. \A i \in 1 .. Len(c) : c[i] = u[Len(d) + i]
  <2>1. \A i \in 1 .. Len(c) :
          SubSeq(u, Len(d) + 1, Len(d) + Len(c))[i] = u[Len(d) + i]
    BY <1>1
  <2> QED BY <2>1
<1> HIDE DEF e
<1>3. \A i \in 1 .. Len(d) : d[i] = u[i]
  <2>1. \A i \in 1 .. Len(d) : i <= Len(u) BY <1>1
  <2> QED BY <2>1 DEF AsRead
<1>4. ASSUME NEW i \in 1 .. Len(e) PROVE i <= Len(u) /\ e[i] = u[i]
  <2>1. CASE i \in 1 .. Len(d) BY <1>1, <1>3, <2>1
  <2>2. CASE i \notin 1 .. Len(d)
    <3>1. PICK j \in 1 .. Len(c) : i = Len(d) + j
      <4>1. i - Len(d) \in 1 .. Len(c) /\ i = Len(d) + (i - Len(d)) BY <1>1, <2>2
      <4> QED BY <4>1
    <3> QED BY <1>1, <1>2, <3>1
  <2> QED BY <2>1, <2>2
<1>5. AsRead(e, u, Len(u)) BY <1>1, <1>4 DEF AsRead
<1> QED BY <1>5 DEF e

-----------------------------------------------------------------------------
(* Types. *)

LEMMA ConstantTypes ==
  /\ Fill \in Unit /\ Seq(Unit) # {} /\ NoRecord \in Record /\ NoStat \in Stat
  /\ \A u \in Contents : u \in Seq(Unit)
<1>1. Fill \in Unit BY DEF Unit
<1>2. ASSUME NEW u \in Contents PROVE u \in Seq(Unit)
  <2>1. PICK k \in Lengths : u \in [1 .. k -> Value]
    BY DEF Contents
  <2>2. k \in Nat BY FileCacheAssumption
  <2>3. u \in [1 .. k -> Unit] BY <2>1 DEF Unit
  <2> QED BY <2>2, <2>3
<1>3. <<>> \in Seq(Unit) /\ <<>> \in Seq(Seq(Unit)) OBVIOUS
<1>4. NoRecord \in Record BY <1>3 DEF NoRecord, Record
<1>5. NoStat \in Stat BY <1>3 DEF NoStat, Stat
<1> QED BY <1>1, <1>2, <1>3, <1>4, <1>5

\* What a record stands for.
LEMMA DataType == \A r \in Record : /\ Data(r) \in Seq(Unit)
                                    /\ FlattenSeq(r.chunks) \in Seq(Unit)
                                    /\ r.chunks \in Seq(Seq(Unit)) /\ r.trailer \in Seq(Unit)
<1> TAKE r \in Record
<1>1. r.chunks \in Seq(Seq(Unit)) /\ r.trailer \in Seq(Unit)
  BY DEF Record
<1>2. FlattenSeq(r.chunks) \in Seq(Unit)
  BY <1>1, FlatType
<1> QED BY <1>1, <1>2 DEF Data

\* It depends on its chunks and trailer only.
LEMMA DataSame ==
  ASSUME NEW r, NEW s, r.chunks = s.chunks, r.trailer = s.trailer
  PROVE  Data(r) = Data(s)
BY DEF Data

LEMMA FileTypes ==
  ASSUME TypeOK
  PROVE  file.ino \in Nat /\ file.mtime \in Nat /\ file.units \in Seq(Unit)
BY DEF TypeOK

LEMMA RecordTypes ==
  ASSUME NEW r \in Record
  PROVE  /\ r.ino \in Nat /\ r.size \in Nat /\ r.mtime \in Int
         /\ r.chunks \in Seq(Seq(Unit)) /\ r.trailer \in Seq(Unit)
         /\ r.age \in Nat /\ r.intree \in BOOLEAN /\ r.good \in Nat
BY DEF Record

LEMMA StatTypes ==
  ASSUME TypeOK
  PROVE  /\ st.ino \in Nat /\ st.size \in Nat /\ st.mtime \in Nat
         /\ st.units \in Seq(Unit) /\ st.changed \in BOOLEAN
BY DEF TypeOK, Stat

LEMMA FieldTypes ==
  ASSUME TypeOK
  PROVE  /\ file.ino \in Nat /\ file.mtime \in Nat /\ file.units \in Seq(Unit)
         /\ \A r \in {disk, rec} :
              /\ r \in Record /\ r.ino \in Nat /\ r.size \in Nat /\ r.mtime \in Int
              /\ r.chunks \in Seq(Seq(Unit)) /\ r.trailer \in Seq(Unit)
              /\ r.age \in Nat /\ r.intree \in BOOLEAN /\ r.good \in Nat
         /\ st.ino \in Nat /\ st.size \in Nat /\ st.mtime \in Nat
         /\ st.units \in Seq(Unit) /\ st.changed \in BOOLEAN
<1>1. disk \in Record /\ rec \in Record BY DEF TypeOK
<1> QED BY <1>1, FileTypes, RecordTypes, StatTypes

\* The chunks of a record are available when all are in the chunk table.
LEMMA AvailableIs ==
  ASSUME NEW r \in Record
  PROVE  Available(r) <=> \A i \in 1 .. Len(r.chunks) : r.chunks[i] \in present
<1> DEFINE I == {i \in 1 .. Len(r.chunks) : r.chunks[i] \notin present}
<1>1. Available(r) <=> IF I # {} THEN Min(I) = 0 ELSE TRUE
  BY Zenon DEF Available, SelectInSeq
<1>2. ASSUME I # {} PROVE Min(I) # 0
  <2>1. I \subseteq Nat OBVIOUS
  <2>2. \E m \in I : \A k \in I : m <= k
    <3> HIDE DEF I
    <3> QED BY <1>2, <2>1, LeastNat
  <2>3. Min(I) \in I
    <3> HIDE DEF I
    <3> QED BY <2>2, Zenon DEF Min
  <2>4. 0 \notin I OBVIOUS
  <2> HIDE DEF I
  <2> QED BY <2>3, <2>4
<1>3. Available(r) <=> I = {}
  <2> HIDE DEF I
  <2> QED BY <1>1, <1>2
<1> QED BY <1>3

LEMMA AvailableRec ==
  rec \in Record => (Available(rec) <=> \A i \in 1 .. Len(rec.chunks) : rec.chunks[i] \in present)
BY AvailableIs

LEMMA AvailableNext ==
  (rec \in Record =>
     (Available(rec) <=> \A i \in 1 .. Len(rec.chunks) : rec.chunks[i] \in present))'
BY AvailableRec, PTL

-----------------------------------------------------------------------------
(* The initial states. *)

LEMMA InitIInv == Init => IInv
<1> SUFFICES ASSUME Init PROVE IInv
  OBVIOUS
<1>1. PICK u \in Contents : file = [ino |-> 1, mtime |-> 1, units |-> u]
  BY DEF Init
<1>2. TypeOK
  <2>1. file \in [ino : Nat, mtime : Nat, units : Seq(Unit)]
    BY <1>1, ConstantTypes
  <2>2. <<>> \in Seq(Unit) OBVIOUS
  <2>3. {now, snaptime, backups, writes, fails, cnum, pos} \subseteq Nat
    BY DEF Init
  <2>4. pc \in PCs BY DEF Init, PCs
  <2>5. {disk, rec} \subseteq Record /\ st \in Stat
    BY ConstantTypes DEF Init
  <2>6. {held, entry} \subseteq Seq(Unit) BY <2>2 DEF Init
  <2>7. {hit, keep, whole, cut, fault} \subseteq BOOLEAN
    BY DEF Init
  <2> QED BY <2>1, <2>3, <2>4, <2>5, <2>6, <2>7 DEF TypeOK
<1>3. Clock BY <1>1 DEF Clock, Init
<1>4. RecordsHonest
  <2>1. disk.ino = 0 /\ disk.mtime = 0 BY DEF Init, NoRecord
  <2> QED BY <2>1, <1>1 DEF RecordsHonest, Honest, Init, Looking, Closing
<1> QED BY <1>2, <1>3, <1>4
    DEF IInv, Seen, Fresher, Whole, Verifying, ReadOn, NotWhole, Filling, Kept,
        Init, Looking, Reading, Closing

-----------------------------------------------------------------------------
(* Everybody else: the clock, the file, other invocations of the program. *)

LEMMA TickStep == ASSUME IInv, Tick PROVE IInv'
<1> USE DEF IInv
<1>1. /\ now' = now + 1
      /\ UNCHANGED <<writes, fails, file, backups, disk, saved, present, pc, snaptime, cookie, fault>>
  BY DEF Tick
<1>2. now \in Nat /\ now' \in Nat BY <1>1 DEF TypeOK
<1>3. TypeOK' BY <1>1, <1>2 DEF TypeOK, cookie
<1>4. Clock' BY <1>1, <1>2 DEF Clock, TypeOK
<1>5. RecordsHonest'
  <2>1. \A r \in Record : r.mtime < now => r.mtime < now + 1
    BY <1>2, RecordTypes
  <2>2. disk \in Record /\ rec \in Record BY DEF TypeOK
  <2> QED BY <1>1, <2>1, <2>2 DEF RecordsHonest, Honest, cookie
<1>6. Seen' BY <1>1, <1>2 DEF Seen, cookie
<1>7. Fresher' BY <1>1 DEF Fresher, Fresh, cookie
<1>8. Whole'
  BY <1>1, <1>3, AvailableRec, AvailableNext DEF TypeOK, Whole, InRecord, Fresh, cookie
<1>9. Verifying' /\ ReadOn' BY <1>1 DEF Verifying, ReadOn, Read, cookie
<1>10. NotWhole' /\ Filling' /\ Kept' /\ ~fault'
  BY <1>1 DEF NotWhole, Filling, Kept, Fresh, cookie
<1> QED BY <1>3, <1>4, <1>5, <1>6, <1>7, <1>8, <1>9, <1>10

\* A change of the file: the history says so, and no record knows it as it is.
LEMMA ChangeStep ==
  ASSUME IInv, Changed, file' \in [ino : Nat, mtime : Nat, units : Seq(Unit)],
         writes' \in Nat,
         \/ file'.ino = file.ino /\ file'.mtime = now
         \/ file'.ino = file.ino + 1 /\ file'.mtime \in {file.mtime, now},
         UNCHANGED <<now, fails, backups, disk, saved, present, pc, snaptime, rec, cnum,
                     pos, held, hit, keep, whole, cut, entry, fault>>
  PROVE  IInv'
<1> USE DEF IInv
<1>1. /\ st' \in Stat /\ st'.changed = TRUE
      /\ st'.ino = st.ino /\ st'.size = st.size /\ st'.mtime = st.mtime
      /\ st'.units = st.units
  BY DEF Changed, TypeOK, Stat
<1>2. now \in Nat /\ file'.mtime \in 0 .. now /\ file'.ino >= file.ino /\ file'.ino \in Nat
  <2>1. now \in Nat BY DEF TypeOK
  <2> QED BY <2>1, FileTypes DEF Clock
<1>3. TypeOK' BY <1>1 DEF TypeOK
<1>4. Clock'
  <2>1. file'.ino > 0 BY <1>2, FileTypes DEF Clock
  <2> QED BY <1>2, <2>1 DEF Clock
<1>5. RecordsHonest'
  <2>1. ASSUME NEW r \in Record, Honest(r)
        PROVE  r.ino <= file'.ino /\ r.mtime < now /\ ~(r.ino = file'.ino /\ r.mtime = file'.mtime)
    <3>1. r.ino \in Nat /\ r.mtime \in Int BY RecordTypes
    <3>2. r.ino <= file.ino /\ r.mtime < now BY <2>1 DEF Honest
    <3>3. file.ino \in Nat /\ file'.ino \in Nat /\ now \in Nat BY FileTypes, <1>2
    <3> QED BY <1>2, <3>1, <3>2, <3>3
  <2>2. disk \in Record /\ rec \in Record BY DEF TypeOK
  <2> QED BY <2>1, <2>2 DEF RecordsHonest, Honest
<1>6. Seen'
  <2> SUFFICES ASSUME pc' \in {"lookup", "whole", "verify"} \cup Reading
      PROVE  /\ st'.size = Len(st'.units) /\ st'.mtime \in 0 .. now' /\ st'.ino <= file'.ino
             /\ file'.ino = st'.ino => st'.mtime <= file'.mtime
             /\ file'.ino = st'.ino => snaptime' <= file'.mtime
    BY <1>1 DEF Seen
  <2>1. pc \in {"lookup", "whole", "verify"} \cup Reading /\ pc # "idle"
    BY DEF Reading
  <2>2. st.size = Len(st.units) /\ st.mtime \in 0 .. now /\ st.ino <= file.ino
    BY <2>1 DEF Seen
  <2>3. snaptime <= now BY <2>1 DEF Clock
  <2>4. st.ino \in Nat /\ file.ino \in Nat /\ now \in Nat /\ snaptime \in Nat
    BY StatTypes, FileTypes DEF TypeOK
  <2>5. file'.ino = st.ino => file'.mtime = now
    BY <1>2, <2>2, <2>4
  <2> QED BY <1>1, <1>2, <2>2, <2>3, <2>4, <2>5
<1>7. Fresh(rec)' = Fresh(rec) /\ Available(rec)' = Available(rec)
  <2>1. Fresh(rec)' = Fresh(rec) BY <1>1 DEF Fresh
  <2>2. Available(rec)' <=> Available(rec)
    BY <1>3, AvailableRec, AvailableNext DEF TypeOK
  <2>3. Available(rec)' \in BOOLEAN /\ Available(rec) \in BOOLEAN
    BY Zenon DEF Available
  <2> QED BY <2>1, <2>2, <2>3
<1>8. Fresher' BY <1>1, <1>7 DEF Fresher
<1>9. Whole' BY <1>1, <1>7 DEF Whole, InRecord
<1>10. Verifying' /\ ReadOn' BY <1>1 DEF Verifying, ReadOn, Read
<1>11. NotWhole' /\ Filling' /\ Kept' /\ ~fault'
  BY <1>1 DEF NotWhole, Filling, Kept
<1> QED BY <1>3, <1>4, <1>5, <1>6, <1>8, <1>9, <1>10, <1>11

LEMMA ModifyStep == ASSUME IInv, Modify PROVE IInv'
<1>1. PICK u \in Contents : file' = [file EXCEPT !.units = u, !.mtime = now]
  BY DEF Modify
<1>2. file'.ino = file.ino /\ file'.mtime = now
      /\ file' \in [ino : Nat, mtime : Nat, units : Seq(Unit)]
  <2>1. u \in Seq(Unit) /\ now \in Nat /\ file \in [ino : Nat, mtime : Nat, units : Seq(Unit)]
    BY ConstantTypes DEF IInv, TypeOK
  <2>2. file' = [ino |-> file.ino, mtime |-> now, units |-> u]
    BY <1>1, <2>1
  <2> QED BY <2>1, <2>2
<1>3. writes' \in Nat BY DEF Modify, IInv, TypeOK
<1> QED BY <1>2, <1>3, ChangeStep DEF Modify

LEMMA ReplaceStep == ASSUME IInv, Replace PROVE IInv'
<1>1. PICK u \in Contents, m \in {file.mtime, now} :
        file' = [ino |-> file.ino + 1, mtime |-> m, units |-> u]
  BY DEF Replace
<1>2. file'.ino = file.ino + 1 /\ file'.mtime \in {file.mtime, now}
      /\ file' \in [ino : Nat, mtime : Nat, units : Seq(Unit)]
  BY <1>1, ConstantTypes DEF IInv, TypeOK
<1>3. writes' \in Nat BY DEF Replace, IInv, TypeOK
<1> QED BY <1>2, <1>3, ChangeStep DEF Replace

LEMMA DeleteArchivesStep == ASSUME IInv, DeleteArchives PROVE IInv'
<1>1. UNCHANGED <<now, writes, fails, file, backups, disk, present, pc, snaptime, cookie, fault>>
  BY DEF DeleteArchives, world
<1>2. Fresh(rec)' = Fresh(rec) BY <1>1 DEF Fresh, cookie
<1>3. pc = "idle" BY DEF DeleteArchives
<1> QED BY <1>1, <1>2, <1>3 DEF IInv, TypeOK, Clock, RecordsHonest, Honest, Seen, Fresher, Whole,
      InRecord, Verifying, ReadOn, Read, NotWhole, Filling, Kept, cookie

\* Most of the invariant says nothing between backups.
LEMMA IdleIs ==
  ASSUME TypeOK, pc = "idle", Clock, Honest(disk), ~fault PROVE IInv
BY DEF IInv, RecordsHonest, Seen, Fresher, Whole, Verifying, ReadOn, NotWhole, Filling,
       Kept, Looking, Reading, Closing

LEMMA IdleNext ==
  (TypeOK /\ pc = "idle" /\ Clock /\ Honest(disk) /\ ~fault => IInv)'
<1>1. TypeOK /\ pc = "idle" /\ Clock /\ Honest(disk) /\ ~fault => IInv
  BY IdleIs
<1> QED BY <1>1, PTL

LEMMA FsckStep == ASSUME IInv, Fsck PROVE IInv'
<1>1. /\ UNCHANGED <<now, writes, fails, file, backups, saved, present, pc, snaptime, cookie, fault>>
      /\ pc = "idle" /\ disk' = NoRecord
  BY DEF Fsck, world
<1>2. TypeOK' BY <1>1, ConstantTypes DEF IInv, TypeOK, cookie
<1>3. Clock' BY <1>1 DEF IInv, Clock
<1>4. Honest(disk)'
  <2>1. disk'.ino = 0 /\ disk'.mtime = 0 BY <1>1 DEF NoRecord
  <2>2. file.ino > 0 /\ file.ino \in Nat /\ now \in Nat /\ file' = file /\ now' = now
    BY <1>1, FileTypes DEF IInv, Clock, TypeOK
  <2>3. now > 0 BY DEF IInv, Clock
  <2> QED BY <2>1, <2>2, <2>3 DEF Honest
<1> QED BY <1>1, <1>2, <1>3, <1>4, IdleNext DEF IInv

-----------------------------------------------------------------------------
(* A backup up to the data of the file. *)

LEMMA StartStep == ASSUME IInv, Start PROVE IInv'
<1> USE DEF IInv
<1>1. /\ pc' = "open" /\ snaptime' = now /\ rec' = disk /\ st' = NoStat
      /\ backups' \in Nat
      /\ UNCHANGED <<now, writes, fails, file, disk, saved, fault>>
      /\ cnum' = 0 /\ pos' = 0 /\ held' = <<>> /\ hit' = FALSE /\ keep' = FALSE
      /\ whole' = FALSE /\ cut' = FALSE /\ entry' = <<>>
  BY DEF Start, Cleared, world, TypeOK
<1>2. TypeOK'
  <2>1. <<>> \in Seq(Unit) OBVIOUS
  <2>2. {now, snaptime, backups, writes, fails, cnum, pos}' \subseteq Nat /\ pc' \in PCs
    BY <1>1 DEF TypeOK, PCs, Looking
  <2>3. {disk, rec}' \subseteq Record /\ st' \in Stat
    BY <1>1, ConstantTypes DEF TypeOK
  <2>4. {held, entry}' \subseteq Seq(Unit) /\ {hit, keep, whole, cut, fault}' \subseteq BOOLEAN
    BY <1>1, <2>1 DEF TypeOK
  <2>5. file' \in [ino : Nat, mtime : Nat, units : Seq(Unit)]
    BY <1>1 DEF TypeOK
  <2> QED BY <2>2, <2>3, <2>4, <2>5 DEF TypeOK
<1>3. Clock' BY <1>1 DEF Clock, TypeOK
<1>4. RecordsHonest' BY <1>1 DEF RecordsHonest, Honest
<1>5. Fresher' BY <1>1 DEF Fresher
<1>6. Seen' /\ Whole' /\ Verifying' /\ ReadOn' /\ NotWhole' /\ Filling' /\ Kept' /\ ~fault'
  BY <1>1 DEF Seen, Whole, Verifying, ReadOn, NotWhole, Filling, Kept, Reading, Closing
<1> QED BY <1>2, <1>3, <1>4, <1>5, <1>6

LEMMA LstatStep == ASSUME IInv, Lstat PROVE IInv'
<1> USE DEF IInv
<1>1. /\ pc = "open"
      /\ UNCHANGED <<now, writes, fails, file, backups, disk, saved, present, snaptime, rec, cnum,
                     pos, held, hit, keep, whole, cut, entry, fault>>
  BY DEF Lstat, world
<1>2. ~keep /\ ~whole BY <1>1 DEF Fresher, Looking
<1>3. Clock' BY <1>1 DEF Clock, Lstat
<1>4. Honest(disk)' /\ Honest(rec)' /\ rec.mtime < snaptime
  BY <1>1 DEF RecordsHonest, Honest, Looking
<1>5. CASE pc' = "close" /\ st' = st
  <2>1. TypeOK' BY <1>1, <1>5 DEF TypeOK, PCs, Closing
  <2>2. RecordsHonest' BY <1>1, <1>4 DEF RecordsHonest
  <2> QED BY <1>1, <1>2, <1>3, <1>5, <2>1, <2>2 DEF Seen, Fresher, Whole, Verifying, ReadOn,
             NotWhole, Filling, Kept, Looking, Reading
<1>6. CASE /\ pc' = "lookup"
           /\ st' = [ino |-> file.ino, size |-> Len(file.units),
                     mtime |-> file.mtime, units |-> file.units, changed |-> FALSE]
  <2>1. TypeOK'
    <3>1. st' \in Stat BY <1>6, FileTypes DEF Stat
    <3> QED BY <1>1, <1>6, <3>1 DEF TypeOK, PCs, Looking
  <2>2. RecordsHonest' BY <1>1, <1>4 DEF RecordsHonest
  <2>3. Seen'
    <3>1. file = [ino |-> file.ino, mtime |-> file.mtime, units |-> file.units]
      BY DEF TypeOK
    <3>2. file.mtime \in 0 .. now /\ file.ino \in Nat /\ file.mtime \in Nat
      BY FileTypes DEF Clock
    <3> QED BY <1>1, <1>6, <3>1, <3>2 DEF Seen
  <2>4. Fresher'
    <3>1. Fresh(rec)' => rec.ino = file.ino /\ rec.mtime = file.mtime
      BY <1>1, <1>6 DEF Fresh
    <3>2. Fresh(rec)' => AsRead(Data(rec), file.units, rec.good)
      BY <1>1, <3>1 DEF RecordsHonest, Honest, Looking
    <3> QED BY <1>1, <1>6, <3>2 DEF Fresher, Looking
  <2> QED BY <1>1, <1>3, <1>6, <2>1, <2>2, <2>3, <2>4 DEF Whole, Verifying, ReadOn,
             NotWhole, Filling, Kept, Reading, Closing
<1> QED BY <1>5, <1>6 DEF Lstat

\* Without its trailer a record says less, and nothing else.
LEMMA DropTrailer ==
  ASSUME NEW r \in Record
  PROVE  LET d == [r EXCEPT !.trailer = <<>>]
         IN  /\ d \in Record /\ d.trailer = <<>> /\ d.chunks = r.chunks
             /\ d.ino = r.ino /\ d.size = r.size /\ d.mtime = r.mtime /\ d.intree = r.intree
             /\ d.good = r.good /\ Data(d) = FlattenSeq(r.chunks)
             /\ \A t \in Seq(Unit) : AsRead(Data(r), t, r.good) => AsRead(Data(d), t, d.good)
<1> DEFINE d == [r EXCEPT !.trailer = <<>>]
<1>1. d \in Record
  <2>1. <<>> \in Seq(Unit) OBVIOUS
  <2> QED BY <2>1 DEF Record
<1>2. /\ d.trailer = <<>> /\ d.chunks = r.chunks
      /\ d.ino = r.ino /\ d.size = r.size /\ d.mtime = r.mtime /\ d.intree = r.intree
      /\ d.good = r.good
  BY DEF Record
<1>3. FlattenSeq(r.chunks) \in Seq(Unit) /\ r.trailer \in Seq(Unit)
  BY DataType
<1> HIDE DEF d
<1>4. Data(d) = FlattenSeq(r.chunks)
  BY <1>2, <1>3, ConcatEmpty DEF Data
<1>5. Data(d) \in Seq(Unit) /\ Data(r) \in Seq(Unit) /\ IsPrefix(Data(d), Data(r))
  BY <1>3, <1>4, DataType, PrefixConcat DEF Data
<1>6. \A t \in Seq(Unit) : AsRead(Data(r), t, r.good) => AsRead(Data(d), t, d.good)
  BY <1>2, <1>5, AsReadShorter, RecordTypes
<1> QED BY <1>1, <1>2, <1>4, <1>6 DEF d

LEMMA LookupStep == ASSUME IInv, Lookup PROVE IInv'
<1> USE DEF IInv
<1>1. /\ pc = "lookup" /\ rec' = LookedUp
      /\ whole' = (Fresh(rec) /\ Available(rec) /\ Len(Data(LookedUp)) >= st.size)
      /\ pc' = IF whole' THEN "whole" ELSE "verify"
      /\ UNCHANGED <<now, writes, fails, file, backups, disk, saved, present, snaptime, st, cnum,
                     pos, held, hit, keep, cut, entry, fault>>
  BY DEF Lookup, world
<1>2. rec \in Record BY DEF TypeOK
<1>3. /\ rec' \in Record /\ rec'.chunks = rec.chunks
      /\ rec'.ino = rec.ino /\ rec'.size = rec.size /\ rec'.mtime = rec.mtime
      /\ rec'.intree = rec.intree /\ rec'.good = rec.good
      /\ \A t \in Seq(Unit) : AsRead(Data(rec), t, rec.good) => AsRead(Data(rec'), t, rec'.good)
  BY <1>1, <1>2, DropTrailer DEF LookedUp
<1>4. ~whole' => rec'.trailer = <<>>
  <2>1. CASE /\ Fresh(rec) /\ Available(rec) /\ rec.trailer # <<>>
             /\ Len(Data(rec)) >= st.size
    <3>1. LookedUp = rec BY <2>1 DEF LookedUp
    <3> QED BY <1>1, <2>1, <3>1
  <2>2. CASE ~(/\ Fresh(rec) /\ Available(rec) /\ rec.trailer # <<>>
               /\ Len(Data(rec)) >= st.size)
    <3>1. rec' = [rec EXCEPT !.trailer = <<>>] BY <1>1, <2>2 DEF LookedUp
    <3> QED BY <3>1, <1>2, DropTrailer
  <2> QED BY <2>1, <2>2
<1>5. /\ cnum = 0 /\ pos = 0 /\ entry = <<>>
      /\ held = <<>> /\ ~hit /\ ~keep /\ ~cut
  BY <1>1 DEF Fresher, Looking
<1>6. st.units \in Seq(Unit) /\ st.size = Len(st.units) /\ file.units \in Seq(Unit)
  BY <1>1, StatTypes, FileTypes DEF Seen
<1>7. TypeOK'
  <2>1. whole' \in BOOLEAN BY <1>1, Zenon DEF Fresh, Available
  <2>2. pc' \in PCs BY <1>1 DEF PCs
  <2> QED BY <1>1, <1>3, <2>1, <2>2 DEF TypeOK
<1>8. Clock' BY <1>1 DEF Clock
<1>9. RecordsHonest'
  <2>1. Honest(rec) /\ rec.mtime < snaptime BY <1>1 DEF RecordsHonest, Looking
  <2>2. Honest(rec)' BY <1>1, <1>3, <1>6, <2>1 DEF Honest
  <2>3. Honest(disk)' BY <1>1 DEF Honest, RecordsHonest
  <2> QED BY <1>1, <1>3, <2>1, <2>2, <2>3 DEF RecordsHonest
<1>10. Seen' BY <1>1 DEF Seen, Reading
<1>11. Fresh(rec)' = Fresh(rec) BY <1>1, <1>3 DEF Fresh
<1>12. Fresh(rec) => AsRead(Data(rec'), st.units, rec'.good)
  BY <1>1, <1>3, <1>6 DEF Fresher
<1>13. Fresher' BY <1>1, <1>11, <1>12 DEF Fresher, Looking
<1>14. Whole'
  <2> SUFFICES ASSUME whole' PROVE InRecord' /\ Available(rec)'
    BY <1>1 DEF Whole
  <2>1. Fresh(rec) /\ Available(rec) /\ Len(Data(rec')) >= st.size
    BY <1>1
  <2>2. Len(Data(rec')) = st.size /\ AsRead(Data(rec'), st.units, rec'.good)
    <3>1. Data(rec') \in Seq(Unit) BY <1>3, DataType
    <3>2. Len(Data(rec')) <= Len(st.units) BY <1>12, <2>1 DEF AsRead
    <3> QED BY <1>6, <1>12, <2>1, <3>1, <3>2
  <2>3. Available(rec)'
    BY <1>1, <1>2, <1>3, <2>1, AvailableRec, AvailableNext
  <2> QED BY <1>1, <1>11, <2>1, <2>2, <2>3 DEF InRecord
<1>15. Verifying'
  <2> SUFFICES ASSUME ~whole'
      PROVE  /\ Read(st.size)' /\ rec'.trailer = <<>> /\ cnum' <= Len(rec'.chunks)
             /\ entry' = FlattenSeq(SubSeq(rec'.chunks, 1, cnum'))
             /\ held' = <<>> /\ ~hit' /\ ~keep' /\ ~whole' /\ ~cut'
    BY <1>1 DEF Verifying
  <2>1. rec'.chunks \in Seq(Seq(Unit)) BY <1>3, RecordTypes
  <2>2. FlattenSeq(SubSeq(rec'.chunks, 1, 0)) = <<>> BY <2>1, FlatNone
  <2>3. AsRead(<<>>, st.units, st.size) BY <1>6, AsReadNone
  <2>4. Read(st.size)'
    <3>1. 0 = Len(<<>>) /\ 0 <= st.size BY <1>6
    <3> QED BY <1>1, <1>5, <2>3, <3>1 DEF Read
  <2>5. 0 <= Len(rec'.chunks) BY <2>1
  <2> QED BY <1>1, <1>4, <1>5, <2>2, <2>4, <2>5
<1>16. ReadOn' /\ NotWhole' /\ Filling' /\ Kept' /\ ~fault'
  BY <1>1 DEF ReadOn, NotWhole, Filling, Kept, Reading, Closing
<1> QED BY <1>7, <1>8, <1>9, <1>10, <1>13, <1>14, <1>15, <1>16

LEMMA OpenFailsStep == ASSUME IInv, OpenFails PROVE IInv'
<1> USE DEF IInv
<1>1. /\ pc = "verify" /\ pc' = "close"
      /\ UNCHANGED <<now, writes, fails, file, backups, disk, saved, present, snaptime, rec, st,
                     cnum, pos, held, hit, keep, whole, cut, entry, fault>>
  BY DEF OpenFails, world, cookie
<1>2. ~whole /\ ~keep BY <1>1 DEF Verifying
<1>3. TypeOK' BY <1>1 DEF TypeOK, PCs, Closing
<1>4. RecordsHonest' BY <1>1 DEF RecordsHonest, Honest
<1> QED BY <1>1, <1>2, <1>3, <1>4 DEF Clock, Seen, Fresher, Whole, Verifying, ReadOn,
           NotWhole, Filling, Kept, Looking, Reading

\* All of it was in the record when that was looked up, and no chunk is gone.
LEMMA WriteWholeStep == ASSUME IInv, WriteWhole PROVE IInv'
<1> USE DEF IInv
<1>1. /\ pc = "whole" /\ pc' = "end" /\ entry' = Data(rec)
      /\ fault' = (fault \/ ~Available(rec) \/ ~Fresh(rec))
      /\ UNCHANGED <<now, writes, fails, file, backups, disk, saved, present, snaptime, rec, st,
                     cnum, pos, held, hit, keep, whole, cut>>
  BY DEF WriteWhole, world
<1>2. InRecord /\ Available(rec) BY <1>1 DEF Whole
<1>3. ~fault' BY <1>1, <1>2 DEF InRecord
<1>4. InRecord' BY <1>1, <1>2 DEF InRecord, Fresh
<1>5. TypeOK'
  <2>1. entry' \in Seq(Unit) BY <1>1, DataType DEF TypeOK
  <2>2. fault' \in BOOLEAN BY <1>1, Zenon DEF Available, Fresh
  <2> QED BY <1>1, <2>1, <2>2 DEF TypeOK, PCs, Reading
<1>6. RecordsHonest' BY <1>1 DEF RecordsHonest, Honest, Looking, Closing
<1>7. Whole' /\ ReadOn'
  BY <1>1, <1>2, <1>4 DEF Whole, InRecord, ReadOn
<1>8. Seen' BY <1>1 DEF Seen, Reading
<1> QED BY <1>1, <1>3, <1>5, <1>6, <1>7, <1>8 DEF Clock, Fresher, Verifying,
           NotWhole, Filling, Kept, Looking, Closing

LEMMA VerifyChunkStep == ASSUME IInv, VerifyChunk PROVE IInv'
<1> USE DEF IInv
<1> DEFINE c == rec.chunks[cnum + 1]
<1>1. /\ pc = "verify" /\ cnum < Len(rec.chunks)
      /\ pos + Len(c) <= st.size /\ pos + Len(c) <= Len(file.units)
      /\ SubSeq(file.units, pos + 1, pos + Len(c)) = c
      /\ cnum' = cnum + 1 /\ pos' = pos + Len(c) /\ entry' = entry \o c
      /\ fault' = (fault \/ rec.trailer # <<>>)
      /\ UNCHANGED <<now, writes, fails, file, backups, disk, saved, present, pc, snaptime, rec, st,
                     held, hit, keep, whole, cut>>
  BY DEF VerifyChunk, Usable, world
<1>2. /\ Read(st.size) /\ rec.trailer = <<>>
      /\ entry = FlattenSeq(SubSeq(rec.chunks, 1, cnum))
      /\ held = <<>> /\ ~hit /\ ~keep /\ ~whole /\ ~cut
  BY <1>1 DEF Verifying
<1>3. rec.chunks \in Seq(Seq(Unit)) /\ cnum \in Nat /\ pos \in Nat /\ entry \in Seq(Unit)
      /\ file.units \in Seq(Unit) /\ st.units \in Seq(Unit)
  BY FieldTypes DEF TypeOK
<1>4. c \in Seq(Unit) /\ entry' = FlattenSeq(SubSeq(rec.chunks, 1, cnum + 1))
  BY <1>1, <1>2, <1>3, FlatNext
<1> HIDE DEF c
<1>5. entry' \in Seq(Unit) /\ pos' \in Nat /\ cnum' \in Nat /\ Len(entry') = Len(entry) + Len(c)
  <2>1. Len(c) \in Nat BY <1>4
  <2>2. entry \o c \in Seq(Unit) /\ Len(entry \o c) = Len(entry) + Len(c)
    BY <1>3, <1>4
  <2> QED BY <1>1, <1>3, <2>1, <2>2
<1>6. Read(st.size)'
  <2>1. pos' = Len(entry') /\ pos' <= st'.size
    BY <1>1, <1>2, <1>5 DEF Read
  <2>2. ASSUME ~st.changed PROVE AsRead(entry', st.units, st.size)
    <3>1. file.units = st.units /\ st.size = Len(st.units) BY <1>1, <2>2 DEF Seen
    <3>2. AsRead(entry, st.units, Len(st.units)) /\ pos = Len(entry)
      BY <1>2, <2>2, <3>1 DEF Read
    <3>3. Len(entry) + Len(c) <= Len(st.units)
          /\ SubSeq(st.units, Len(entry) + 1, Len(entry) + Len(c)) = c
      BY <1>1, <3>1, <3>2
    <3>4. AsRead(entry \o c, st.units, Len(st.units))
      BY <1>3, <1>4, <3>2, <3>3, AsReadMore
    <3> QED BY <1>1, <3>1, <3>4
  <2> QED BY <1>1, <2>1, <2>2 DEF Read
<1>7. ~fault' BY <1>1, <1>2
<1>8. TypeOK'
  <2>1. fault' \in BOOLEAN BY <1>7, <1>1, Zenon
  <2> QED BY <1>1, <1>5, <2>1 DEF TypeOK
<1>9. RecordsHonest' BY <1>1 DEF RecordsHonest, Honest
<1>10. Fresher' /\ Seen'
  BY <1>1 DEF Fresher, Fresh, Seen, Looking
<1>11. Verifying'
  <2>1. cnum' <= Len(rec.chunks) BY <1>1, <1>3
  <2> QED BY <1>1, <1>2, <1>4, <1>6, <2>1 DEF Verifying
<1> QED BY <1>1, <1>6, <1>7, <1>8, <1>9, <1>10, <1>11 DEF Clock, Whole, ReadOn,
           NotWhole, Filling, Kept, Reading, Closing

LEMMA VerifiedStep == ASSUME IInv, Verified PROVE IInv'
<1> USE DEF IInv
<1>1. /\ pc = "verify" /\ pc' = "data" /\ keep' \in BOOLEAN
      /\ rec' = [rec EXCEPT !.chunks = SubSeq(@, 1, cnum), !.ino = st.ino,
                            !.size = st.size, !.mtime = st.mtime, !.good = st.size]
      /\ fault' = (fault \/ rec.trailer # <<>>)
      /\ UNCHANGED <<now, writes, fails, file, backups, disk, saved, present, snaptime, st,
                     cnum, pos, held, hit, whole, cut, entry>>
  BY DEF Verified, world
<1>2. /\ Read(st.size) /\ rec.trailer = <<>> /\ cnum <= Len(rec.chunks)
      /\ entry = FlattenSeq(SubSeq(rec.chunks, 1, cnum))
      /\ held = <<>> /\ ~hit /\ ~keep /\ ~whole /\ ~cut
  BY <1>1 DEF Verifying
<1>3. rec.chunks \in Seq(Seq(Unit)) /\ cnum \in Nat /\ entry \in Seq(Unit) /\ rec \in Record
  BY FieldTypes DEF TypeOK
<1>4. SubSeq(rec.chunks, 1, cnum) \in Seq(Seq(Unit))
  BY <1>2, <1>3
<1>5. /\ rec' \in Record /\ rec'.chunks = SubSeq(rec.chunks, 1, cnum)
      /\ rec'.ino = st.ino /\ rec'.size = st.size /\ rec'.mtime = st.mtime
      /\ rec'.trailer = <<>> /\ rec'.good = st.size
  <2>1. st.ino \in Nat /\ st.size \in Nat /\ st.mtime \in Int BY StatTypes
  <2> QED BY <1>1, <1>2, <1>3, <1>4, <2>1 DEF Record
<1>6. Data(rec') = entry /\ entry = FlattenSeq(rec'.chunks) \o held
  BY <1>2, <1>3, <1>5, ConcatEmpty DEF Data
<1>7. ~fault' BY <1>1, <1>2
<1>8. TypeOK'
  <2>1. fault' \in BOOLEAN BY <1>7, <1>1, Zenon
  <2> QED BY <1>1, <1>5, <2>1 DEF TypeOK, PCs, Reading
<1>9. RecordsHonest' BY <1>1 DEF RecordsHonest, Honest, Looking, Closing
<1>10. Fresher' /\ Seen'
  BY <1>1 DEF Fresher, Seen, Looking, Reading
<1>11. ReadOn'
  <2>1. IsPrefix(entry, entry) BY <1>3, PrefixRefl
  <2>2. Read(rec.good)' BY <1>1, <1>2, <1>5 DEF Read
  <2> QED BY <1>1, <1>2, <1>5, <1>6, <2>1, <2>2 DEF ReadOn
<1> QED BY <1>1, <1>2, <1>5, <1>7, <1>8, <1>9, <1>10, <1>11 DEF Clock, Whole, Verifying,
           NotWhole, Filling, Kept, Closing

-----------------------------------------------------------------------------
(* The data of the file, and the callbacks. *)

\* One more unit is in the entry, and in the record or in the chunkifier.
LEMMA PutRecord ==
  ASSUME IInv, pc \in {"data", "fill"}, NEW v \in Unit, Put(v)
  PROVE  /\ rec' \in Record /\ held' \in Seq(Unit) /\ entry' = Append(entry, v)
         /\ rec'.ino = rec.ino /\ rec'.size = rec.size /\ rec'.mtime = rec.mtime
         /\ rec'.good = rec.good /\ IsPrefix(Data(rec'), entry')
         /\ ~hit => rec'.trailer = <<>> /\ entry' = FlattenSeq(rec'.chunks) \o held'
<1> USE DEF IInv
<1>1. /\ rec \in Record /\ held \in Seq(Unit) /\ entry \in Seq(Unit)
      /\ rec.chunks \in Seq(Seq(Unit)) /\ FlattenSeq(rec.chunks) \in Seq(Unit)
      /\ Data(rec) \in Seq(Unit)
  BY DataType DEF TypeOK
<1>2. /\ IsPrefix(Data(rec), entry)
      /\ ~hit => rec.trailer = <<>> /\ entry = FlattenSeq(rec.chunks) \o held
  BY DEF ReadOn, NotWhole, Reading
<1> DEFINE all == Append(held, v)
<1>3. entry' = Append(entry, v) BY DEF Put
<1>4. all \in Seq(Unit) /\ IsPrefix(Data(rec), entry')
  BY <1>1, <1>2, <1>3, PrefixAppend
<1>5. ~hit => entry' = FlattenSeq(rec.chunks) \o all
  <2>1. PICK f \in Seq(Unit) : f = FlattenSeq(rec.chunks)
    BY <1>1
  <2>2. f \o Append(held, v) = Append(f \o held, v)
    BY <1>1, ConcatAppend
  <2> QED BY <1>2, <1>3, <2>1, <2>2
<1>6. CASE Len(all) < ChunkLen
  <2>1. held' = all /\ rec' = rec BY <1>6 DEF Put
  <2> HIDE DEF all
  <2> QED BY <1>1, <1>2, <1>3, <1>4, <1>5, <2>1
<1>7. CASE ~(Len(all) < ChunkLen)
  <2>1. held' = <<>> /\ rec' = AddChunk(rec, all) BY <1>7 DEF Put
  <2>2. <<>> \in Seq(Unit) OBVIOUS
  <2> HIDE DEF all
  <2>3. CASE hit
    <3>1. rec' = rec BY <2>1, <2>3 DEF AddChunk
    <3> QED BY <1>1, <1>3, <1>4, <2>1, <2>2, <2>3, <3>1
  <2>4. CASE ~hit
    <3>1. rec' = [rec EXCEPT !.chunks = Append(@, all)]
      BY <2>1, <2>4 DEF AddChunk
    <3>2. Append(rec.chunks, all) \in Seq(Seq(Unit)) BY <1>1, <1>4
    <3>3. /\ rec' \in Record /\ rec'.chunks = Append(rec.chunks, all)
          /\ rec'.trailer = rec.trailer
          /\ rec'.ino = rec.ino /\ rec'.size = rec.size /\ rec'.mtime = rec.mtime
          /\ rec'.good = rec.good
      BY <1>1, <3>1, <3>2 DEF Record
    <3>4. FlattenSeq(rec'.chunks) = entry'
      BY <1>1, <1>4, <1>5, <2>4, <3>3, FlatAppend
    <3>5. entry' \in Seq(Unit) BY <1>1, <1>3
    <3>6. Data(rec') = entry' /\ entry' = FlattenSeq(rec'.chunks) \o held'
      BY <1>2, <2>1, <2>4, <3>3, <3>4, <3>5, ConcatEmpty DEF Data
    <3>7. IsPrefix(Data(rec'), entry') BY <3>5, <3>6, PrefixRefl
    <3> QED BY <1>2, <1>3, <2>1, <2>2, <2>4, <3>3, <3>6, <3>7
  <2> QED BY <2>3, <2>4
<1> QED BY <1>6, <1>7

\* What the data phase keeps.
LEMMA PutStep ==
  ASSUME IInv, pc \in {"data", "fill"}, pc' = pc, NEW v \in Unit, Put(v), pos' = pos + 1,
         pos < st.size,
         ~st.changed => v = IF pos + 1 <= rec.good THEN st.units[pos + 1] ELSE Fill,
         UNCHANGED <<now, writes, fails, file, backups, disk, saved, snaptime, st, cnum,
                     hit, keep, whole, cut, fault>>
  PROVE  IInv'
<1> USE DEF IInv
<1>1. /\ rec' \in Record /\ held' \in Seq(Unit) /\ entry' = Append(entry, v)
      /\ rec'.ino = rec.ino /\ rec'.size = rec.size /\ rec'.mtime = rec.mtime
      /\ rec'.good = rec.good /\ IsPrefix(Data(rec'), entry')
      /\ ~hit => rec'.trailer = <<>> /\ entry' = FlattenSeq(rec'.chunks) \o held'
  BY PutRecord
<1>2. /\ entry \in Seq(Unit) /\ pos \in Nat /\ st.size \in Nat /\ st.units \in Seq(Unit)
      /\ rec.good \in Nat
  BY StatTypes, RecordTypes DEF TypeOK
<1>3. entry' \in Seq(Unit) /\ Len(entry') = Len(entry) + 1 /\ pos' \in Nat
  BY <1>1, <1>2
<1>4. TypeOK' BY <1>1, <1>3 DEF TypeOK
<1>5. Read(rec.good) /\ ~whole /\ rec.ino = st.ino /\ rec.size = st.size /\ rec.mtime = st.mtime
      /\ st.size = Len(st.units)
  BY DEF ReadOn, NotWhole, Reading, Seen
<1>6. Read(rec.good)'
  <2>1. pos' = Len(entry') /\ pos' <= st.size BY <1>2, <1>3, <1>5 DEF Read
  <2>2. ASSUME ~st.changed PROVE AsRead(entry', st.units, rec.good)
    <3>1. AsRead(entry, st.units, rec.good) /\ pos = Len(entry)
      BY <1>5, <2>2 DEF Read
    <3>2. Len(entry) < Len(st.units) BY <1>5, <3>1
    <3>3. v = IF Len(entry) + 1 <= rec.good THEN st.units[Len(entry) + 1] ELSE Fill
      BY <2>2, <3>1
    <3>4. AsRead(Append(entry, v), st.units, rec.good)
      BY <1>2, <3>1, <3>2, <3>3, AsReadNext
    <3> QED BY <1>1, <3>4
  <2> QED BY <1>1, <2>1, <2>2 DEF Read
<1>7. ReadOn'
  BY <1>1, <1>5, <1>6 DEF ReadOn, Reading
<1>8. RecordsHonest' BY DEF RecordsHonest, Honest, Looking, Closing
<1>9. Seen' BY DEF Seen
<1>10. Filling'
  <2>1. pc = "fill" /\ ~st.changed => rec.good <= pos + 1
    BY <1>2 DEF Filling
  <2> QED BY <1>1, <2>1 DEF Filling
<1> QED BY <1>4, <1>7, <1>8, <1>9, <1>10 DEF Clock, Fresher, Whole, Verifying, NotWhole,
           Kept, Looking, Closing

LEMMA ReadUnitStep == ASSUME IInv, ReadUnit PROVE IInv'
<1> USE DEF IInv
<1>1. /\ pc = "data" /\ pos < st.size
      /\ UNCHANGED <<now, writes, fails, file, backups, disk, saved, snaptime, st, cnum,
                     hit, keep, whole, cut, fault>>
  BY DEF ReadUnit, world
<1>2. pos \in Nat /\ file.units \in Seq(Unit) /\ st.units \in Seq(Unit)
      /\ st.size = Len(st.units)
  BY <1>1, FileTypes, StatTypes DEF TypeOK, Seen, Reading
<1>3. CASE pos < Len(file.units)
  <2>1. Put(file.units[pos + 1]) /\ pos' = pos + 1 /\ pc' = "data"
    BY <1>3 DEF ReadUnit
  <2>2. PICK v \in Unit : v = file.units[pos + 1]
    <3>1. pos + 1 \in 1 .. Len(file.units) BY <1>2, <1>3
    <3> QED BY <1>2, <3>1
  <2>3. pos + 1 <= rec.good /\ (~st.changed => v = st.units[pos + 1])
    BY <1>1, <1>2, <2>2 DEF Seen, Reading, Filling
  <2> QED BY <1>1, <2>1, <2>2, <2>3, PutStep
<1>4. CASE ~(pos < Len(file.units))
  <2>1. pc' = "fill" /\ UNCHANGED <<pos, entry, held, rec, present>>
    BY <1>4 DEF ReadUnit
  <2>2. st.changed
    <3>1. ASSUME ~st.changed PROVE FALSE
      <4>1. file.units = st.units BY <1>1, <3>1 DEF Seen, Reading
      <4> QED BY <1>1, <1>2, <1>4, <4>1
    <3> QED BY <3>1, StatTypes
  <2>3. TypeOK' BY <1>1, <2>1 DEF TypeOK, PCs, Reading
  <2>4. ReadOn' BY <1>1, <2>1 DEF ReadOn, Read, Reading
  <2>5. RecordsHonest' BY <1>1, <2>1 DEF RecordsHonest, Honest, Looking, Closing
  <2>6. Seen' BY <1>1, <2>1 DEF Seen, Reading
  <2> QED BY <1>1, <2>1, <2>2, <2>3, <2>4, <2>5, <2>6 DEF Clock, Fresher, Whole, Verifying,
             NotWhole, Filling, Kept, Looking, Closing
<1> QED BY <1>3, <1>4

\* A failed read: nothing more of the file is archived.
LEMMA ReadFailsStep == ASSUME IInv, ReadFails PROVE IInv'
<1> USE DEF IInv
<1>1. /\ pc = "data" /\ pos < st.size /\ fails' = fails + 1 /\ pc' = "fill"
      /\ rec' = [rec EXCEPT !.good = pos]
      /\ UNCHANGED <<now, writes, file, backups, disk, saved, present, snaptime, st, cnum,
                     pos, held, hit, keep, whole, cut, entry, fault>>
  BY DEF ReadFails
<1>2. /\ rec \in Record /\ pos \in Nat /\ entry \in Seq(Unit) /\ st.units \in Seq(Unit)
      /\ fails' \in Nat /\ st.size \in Nat
  BY <1>1, StatTypes DEF TypeOK
<1>3. /\ rec' \in Record /\ rec'.chunks = rec.chunks /\ rec'.trailer = rec.trailer
      /\ rec'.ino = rec.ino /\ rec'.size = rec.size /\ rec'.mtime = rec.mtime
      /\ rec'.good = pos
  BY <1>1, <1>2 DEF Record
<1>4. TypeOK' BY <1>1, <1>2, <1>3 DEF TypeOK, PCs, Reading
<1>5. ReadOn'
  <2>1. Read(rec.good) /\ rec.good = st.size
    BY <1>1 DEF ReadOn, NotWhole, Reading, Filling
  <2>2. ~st.changed => AsRead(entry, st.units, pos)
    <3>1. pos = Len(entry) BY <2>1 DEF Read
    <3>2. ~st.changed => AsRead(entry, st.units, st.size) BY <2>1 DEF Read
    <3>3. Len(entry) <= st.size /\ Len(entry) <= pos BY <1>1, <1>2, <3>1
    <3> QED BY <1>2, <3>2, <3>3, AsReadUpTo
  <2>3. Read(rec.good)' BY <1>1, <1>3, <2>1, <2>2 DEF Read
  <2>4. Data(rec') = Data(rec) BY <1>3, DataSame
  <2> QED BY <1>1, <1>3, <2>3, <2>4 DEF ReadOn, NotWhole, Reading
<1>6. RecordsHonest' BY <1>1 DEF RecordsHonest, Honest, Looking, Closing
<1>7. Seen' BY <1>1 DEF Seen, Reading
<1>8. Filling' BY <1>1, <1>2, <1>3 DEF Filling
<1> QED BY <1>1, <1>4, <1>5, <1>6, <1>7, <1>8 DEF Clock, Fresher, Whole, Verifying,
           NotWhole, Kept, Looking, Closing

LEMMA FillUnitStep == ASSUME IInv, FillUnit PROVE IInv'
<1>1. /\ pc = "fill" /\ pc' = pc /\ pos < st.size /\ Put(Fill) /\ pos' = pos + 1
      /\ UNCHANGED <<now, writes, fails, file, backups, disk, saved, snaptime, st, cnum, hit,
                     keep, whole, cut, fault>>
  BY DEF FillUnit, world
<1>2. Fill \in Unit /\ (st.changed \/ ~(pos + 1 <= rec.good))
  <2>1. pos \in Nat /\ rec.good \in Nat BY RecordTypes DEF IInv, TypeOK
  <2> QED BY <1>1, <2>1, ConstantTypes DEF IInv, Filling
<1> QED BY <1>1, <1>2, PutStep

\* What is held becomes the trailer; nothing is added after one.
LEMMA EndDataRecord ==
  ASSUME IInv, pc \in {"data", "fill"}, EndData
  PROVE  /\ rec' \in Record /\ held' = <<>> /\ hit' \in BOOLEAN
         /\ rec'.ino = rec.ino /\ rec'.size = rec.size /\ rec'.mtime = rec.mtime
         /\ rec'.good = rec.good /\ IsPrefix(Data(rec'), entry)
         /\ ~hit' => rec'.trailer = <<>> /\ entry = FlattenSeq(rec'.chunks) \o held'
         /\ ~hit /\ keep => Data(rec') = entry
<1> USE DEF IInv
<1>1. /\ rec \in Record /\ held \in Seq(Unit) /\ entry \in Seq(Unit)
      /\ rec.chunks \in Seq(Seq(Unit)) /\ FlattenSeq(rec.chunks) \in Seq(Unit)
      /\ hit \in BOOLEAN /\ keep \in BOOLEAN
  BY DataType DEF TypeOK
<1>2. /\ IsPrefix(Data(rec), entry)
      /\ ~hit => rec.trailer = <<>> /\ entry = FlattenSeq(rec.chunks) \o held
  BY DEF ReadOn, NotWhole, Reading
<1>3. held' = <<>> /\ hit' = (hit \/ held # <<>>)
      /\ rec' = IF held = <<>> THEN rec ELSE AddTrailer(rec, held)
  BY DEF EndData
<1>4. hit' \in BOOLEAN BY <1>3
<1>5. CASE rec' = rec /\ (held = <<>> \/ hit \/ ~keep)
  <2>1. held = <<>> /\ ~hit => Data(rec) = entry BY <1>2 DEF Data
  <2> QED BY <1>1, <1>2, <1>3, <1>4, <1>5, <2>1
<1>6. CASE held # <<>> /\ ~hit /\ keep
  <2>1. rec' = [rec EXCEPT !.trailer = held]
    BY <1>3, <1>6 DEF AddTrailer
  <2>2. /\ rec' \in Record /\ rec'.chunks = rec.chunks /\ rec'.trailer = held
        /\ rec'.ino = rec.ino /\ rec'.size = rec.size /\ rec'.mtime = rec.mtime
        /\ rec'.good = rec.good
    BY <1>1, <2>1 DEF Record
  <2>3. Data(rec') = entry BY <1>2, <1>6, <2>2 DEF Data
  <2>4. IsPrefix(entry, entry) BY <1>1, PrefixRefl
  <2> QED BY <1>3, <1>4, <1>6, <2>2, <2>3, <2>4
<1> QED BY <1>3, <1>5, <1>6 DEF AddTrailer

LEMMA CheckpointInFileStep == ASSUME IInv, CheckpointInFile PROVE IInv'
<1> USE DEF IInv
<1>1. /\ pc = "data" /\ cut' = TRUE /\ EndData
      /\ UNCHANGED <<now, writes, fails, file, backups, disk, present, pc, snaptime, st, cnum, pos,
                     keep, whole, entry, fault>>
  BY DEF CheckpointInFile, world
<1>2. /\ rec' \in Record /\ held' = <<>> /\ hit' \in BOOLEAN
      /\ rec'.ino = rec.ino /\ rec'.size = rec.size /\ rec'.mtime = rec.mtime
      /\ rec'.good = rec.good /\ IsPrefix(Data(rec'), entry)
      /\ ~hit' => rec'.trailer = <<>> /\ entry = FlattenSeq(rec'.chunks) \o held'
  BY <1>1, EndDataRecord
<1>3. TypeOK'
  <2>1. held' \in Seq(Unit) BY <1>2
  <2> QED BY <1>1, <1>2, <2>1 DEF TypeOK
<1>4. ReadOn' BY <1>1, <1>2 DEF ReadOn, Read, NotWhole, Reading
<1>5. RecordsHonest' BY <1>1 DEF RecordsHonest, Honest, Looking, Closing
<1> QED BY <1>1, <1>2, <1>3, <1>4, <1>5 DEF Clock, Seen, Fresher, Whole, Verifying,
           NotWhole, Filling, Kept, Looking, Reading, Closing

LEMMA TruncateInFileStep == ASSUME IInv, TruncateInFile PROVE IInv'
<1> USE DEF IInv
<1>1. /\ pc = "data" /\ cut' = TRUE /\ pc' = "end"
      /\ UNCHANGED <<now, writes, fails, file, backups, disk, saved, present, snaptime, rec, st, cnum,
                     pos, held, hit, keep, whole, entry, fault>>
  BY DEF TruncateInFile, world
<1>2. TypeOK' BY <1>1 DEF TypeOK, PCs, Reading
<1>3. ReadOn' BY <1>1 DEF ReadOn, Read, NotWhole, Reading
<1>4. RecordsHonest' BY <1>1 DEF RecordsHonest, Honest, Looking, Closing
<1> QED BY <1>1, <1>2, <1>3, <1>4 DEF Clock, Seen, Fresher, Whole, Verifying,
           NotWhole, Filling, Kept, Looking, Reading, Closing

LEMMA FinishStep == ASSUME IInv, Finish PROVE IInv'
<1> USE DEF IInv
<1>1. /\ pc \in {"data", "fill"} /\ pos = st.size /\ pc' = "end" /\ EndData
      /\ UNCHANGED <<now, writes, fails, file, backups, disk, saved, present, snaptime, st, cnum, pos,
                     keep, whole, cut, entry, fault>>
  BY DEF Finish, world
<1>2. /\ rec' \in Record /\ held' = <<>> /\ hit' \in BOOLEAN
      /\ rec'.ino = rec.ino /\ rec'.size = rec.size /\ rec'.mtime = rec.mtime
      /\ rec'.good = rec.good /\ IsPrefix(Data(rec'), entry)
      /\ ~hit' => rec'.trailer = <<>> /\ entry = FlattenSeq(rec'.chunks) \o held'
      /\ ~hit /\ keep => Data(rec') = entry
  BY <1>1, EndDataRecord
<1>3. TypeOK'
  <2>1. held' \in Seq(Unit) BY <1>2
  <2> QED BY <1>1, <1>2, <2>1 DEF TypeOK, PCs, Reading
<1>4. ~cut => ~hit BY <1>1 DEF ReadOn, NotWhole, Reading
<1>5. ReadOn' BY <1>1, <1>2, <1>4 DEF ReadOn, Read, NotWhole, Reading
<1>6. RecordsHonest' BY <1>1 DEF RecordsHonest, Honest, Looking, Closing
<1> QED BY <1>1, <1>3, <1>5, <1>6 DEF Clock, Seen, Fresher, Whole, Verifying,
           NotWhole, Filling, Kept, Looking, Reading, Closing

-----------------------------------------------------------------------------
(* The end of the entry and of the backup. *)

\* The record gets a time that the file will not have again.
LEMMA EntryEndStep == ASSUME IInv, EntryEnd PROVE IInv'
<1> USE DEF IInv
<1>1. /\ pc = "end" /\ pc' = "close"
      /\ cnum' = 0 /\ held' = <<>> /\ hit' = FALSE /\ entry' = <<>>
      /\ UNCHANGED <<now, writes, fails, file, backups, disk, saved, present, snaptime, st, pos,
                     keep, whole, cut, fault>>
  BY DEF EntryEnd, world
<1>2. rec.ino = st.ino /\ rec.size = st.size /\ rec.mtime = st.mtime
  BY <1>1 DEF Whole, InRecord, Fresh, ReadOn, Reading
<1>3. rec' = [rec EXCEPT !.mtime = RecordedTime, !.age = 0,
                         !.intree = @ \/ rec.chunks # <<>> \/ rec.trailer # <<>>]
  BY <1>2 DEF EntryEnd
<1>4. rec \in Record /\ rec.good \in Nat /\ rec.intree \in BOOLEAN /\ rec.mtime \in Int
      /\ Data(rec) \in Seq(Unit) /\ entry \in Seq(Unit)
  BY RecordTypes, DataType DEF TypeOK
<1>5. /\ snaptime \in 1 .. now /\ now \in Nat /\ st.ino \in Nat /\ st.mtime \in Nat
      /\ file.ino \in Nat /\ file.mtime \in Nat
      /\ file.units \in Seq(Unit) /\ st.units \in Seq(Unit) /\ st.changed \in BOOLEAN
  BY <1>1, FileTypes, StatTypes DEF Clock, TypeOK
<1>6. /\ st.size = Len(st.units) /\ st.ino <= file.ino
      /\ file.ino = st.ino => st.mtime <= file.mtime
      /\ ~st.changed => file.units = st.units
      /\ st.changed /\ file.ino = st.ino => snaptime <= file.mtime
  BY <1>1 DEF Seen, Reading
<1>7. RecordedTime \in Int /\ RecordedTime < snaptime
      /\ RecordedTime <= st.mtime /\ (st.mtime < snaptime => RecordedTime = st.mtime)
      /\ (RecordedTime # st.mtime => RecordedTime < st.mtime)
  BY <1>2, <1>5 DEF RecordedTime
<1>8. /\ rec' \in Record /\ rec'.mtime = RecordedTime /\ rec'.age = 0
      /\ rec'.ino = st.ino /\ rec'.size = st.size
      /\ rec'.chunks = rec.chunks /\ rec'.trailer = rec.trailer /\ rec'.good = rec.good
      /\ rec'.intree = (rec.intree \/ rec.chunks # <<>> \/ rec.trailer # <<>>)
  <2>1. PICK b \in BOOLEAN : b = (rec.intree \/ rec.chunks # <<>> \/ rec.trailer # <<>>)
    BY Zenon
  <2>2. rec' = [rec EXCEPT !.mtime = RecordedTime, !.age = 0, !.intree = b]
    BY <1>3, <2>1
  <2> QED BY <1>2, <1>4, <1>7, <2>1, <2>2 DEF Record
<1>9. Data(rec') = Data(rec) BY <1>8, DataSame
<1>10. ~st.changed => AsRead(Data(rec), st.units, rec.good)
  <2>1. CASE whole BY <1>1, <2>1 DEF Whole, InRecord
  <2>2. CASE ~whole
    <3>1. IsPrefix(Data(rec), entry) /\ (~st.changed => AsRead(entry, st.units, rec.good))
      BY <1>1, <2>2 DEF ReadOn, Read, Reading
    <3> QED BY <1>4, <1>5, <3>1, AsReadShorter
  <2> QED BY <2>1, <2>2 DEF TypeOK
<1>11. Honest(rec)'
  <2>1. rec'.ino <= file.ino /\ rec'.mtime < now
    BY <1>5, <1>6, <1>7, <1>8
  <2>2. ASSUME rec'.ino = file.ino, rec'.mtime = file.mtime
        PROVE  AsRead(Data(rec'), file.units, rec'.good)
    <3>1. file.mtime < snaptime BY <1>7, <1>8, <2>2
    <3>2. ~st.changed BY <1>5, <1>6, <1>8, <2>2, <3>1
    <3> QED BY <1>6, <1>8, <1>9, <1>10, <3>2
  <2> QED BY <1>1, <2>1, <2>2 DEF Honest
<1>12. RecordsHonest'
  <2>1. Honest(disk)' BY <1>1 DEF RecordsHonest, Honest
  <2> QED BY <1>1, <1>7, <1>8, <1>11, <2>1 DEF RecordsHonest
<1>13. TypeOK'
  <2>1. <<>> \in Seq(Unit) OBVIOUS
  <2>2. {now, snaptime, backups, writes, fails, cnum, pos}' \subseteq Nat /\ pc' \in PCs
    BY <1>1 DEF TypeOK, PCs, Closing
  <2>3. {disk, rec}' \subseteq Record /\ st' \in Stat
    BY <1>1, <1>8 DEF TypeOK
  <2>4. {held, entry}' \subseteq Seq(Unit) /\ {hit, keep, whole, cut, fault}' \subseteq BOOLEAN
    BY <1>1, <2>1 DEF TypeOK
  <2>5. file' \in [ino : Nat, mtime : Nat, units : Seq(Unit)]
    BY <1>1 DEF TypeOK
  <2> QED BY <2>2, <2>3, <2>4, <2>5 DEF TypeOK
<1>14. Kept'
  <2> SUFFICES ASSUME st.size > 0, st.mtime < snaptime, ~st.changed,
                      whole \/ (keep /\ ~cut /\ pos = st.size)
               PROVE  /\ Fresh(rec)' /\ rec'.age = 0 /\ rec'.mtime >= 0
                      /\ Len(Data(rec')) = st.size /\ AsRead(Data(rec'), st.units, rec'.good)
    BY <1>1 DEF Kept
  <2>1. Len(Data(rec)) = st.size
    <3>1. CASE whole BY <1>1, <3>1 DEF Whole, InRecord
    <3>2. CASE ~whole
      <4>1. Data(rec) = entry /\ pos = Len(entry)
        BY <1>1, <3>2 DEF ReadOn, Read, Reading
      <4> QED BY <3>2, <4>1
    <3> QED BY <3>1, <3>2 DEF TypeOK
  <2>2. rec'.intree
    <3>1. ASSUME rec.chunks = <<>>, rec.trailer = <<>> PROVE FALSE
      <4>1. Data(rec) = <<>>
        <5>1. <<>> \o <<>> = <<>> OBVIOUS
        <5> QED BY <3>1, <5>1, FlatEmpty DEF Data
      <4> QED BY <2>1, <4>1
    <3> QED BY <1>8, <3>1
  <2>3. rec'.mtime = st.mtime BY <1>7, <1>8
  <2> QED BY <1>1, <1>5, <1>6, <1>8, <1>9, <1>10, <2>1, <2>2, <2>3 DEF Fresh
<1> QED BY <1>1, <1>12, <1>13, <1>14 DEF Clock, Seen, Fresher, Whole, Verifying, ReadOn,
           NotWhole, Filling, Looking, Reading

\* What the end of a backup has in common: nothing but the phase changes.
LEMMA ClosingStep ==
  ASSUME IInv, pc \in {"close", "unlink"}, pc' \in {"unlink", "rename"},
         disk' = disk \/ disk' = NoRecord,
         UNCHANGED <<now, writes, fails, file, backups, snaptime, cookie, fault>>
  PROVE  IInv'
<1> USE DEF IInv
<1>1. UNCHANGED <<rec, st, cnum, pos, held, hit, keep, whole, cut, entry>>
  BY DEF cookie
<1>2. TypeOK' BY <1>1, ConstantTypes DEF TypeOK, PCs, Closing
<1>3. RecordsHonest'
  <2>1. Honest(disk)'
    <3>1. CASE disk' = disk BY <3>1 DEF Honest, RecordsHonest
    <3>2. CASE disk' = NoRecord
      <4>1. disk'.ino = 0 /\ disk'.mtime = 0 BY <3>2 DEF NoRecord
      <4>2. file.ino > 0 /\ file.ino \in Nat /\ now \in Nat /\ now > 0
        BY FileTypes DEF Clock, TypeOK
      <4> QED BY <4>1, <4>2 DEF Honest
    <3> QED BY <3>1, <3>2
  <2>2. Honest(rec)' /\ rec'.mtime < snaptime'
    BY <1>1 DEF RecordsHonest, Honest, Closing
  <2> QED BY <2>1, <2>2 DEF RecordsHonest
<1>4. Kept' BY <1>1 DEF Kept, Fresh, Closing
<1>5. Clock' BY DEF Clock
<1> QED BY <1>1, <1>2, <1>3, <1>4, <1>5 DEF Seen, Fresher, Whole, Verifying, ReadOn,
           NotWhole, Filling, Looking, Reading

LEMMA CloseStep == ASSUME IInv, Close PROVE IInv'
BY ClosingStep DEF Close, world

LEMMA CacheUnlinkStep == ASSUME IInv, CacheUnlink PROVE IInv'
BY ClosingStep DEF CacheUnlink, world

\* The record as written is the one in memory, or none.
LEMMA AgedRecord ==
  ASSUME NEW r \in Record
  PROVE  /\ Aged(r) \in Record
         /\ \/ Aged(r) = NoRecord
            \/ /\ Data(Aged(r)) = Data(r)
               /\ Aged(r).ino = r.ino /\ Aged(r).mtime = r.mtime
               /\ Aged(r).size = r.size /\ Aged(r).intree = r.intree
               /\ Aged(r).good = r.good
<1>1. CASE Aged(r) = NoRecord BY <1>1, ConstantTypes
<1>2. CASE Aged(r) = [r EXCEPT !.age = @ + 1]
  <2>1. r.age + 1 \in Nat BY RecordTypes
  <2>2. /\ Aged(r).chunks = r.chunks /\ Aged(r).trailer = r.trailer
        /\ Aged(r).ino = r.ino /\ Aged(r).mtime = r.mtime
        /\ Aged(r).size = r.size /\ Aged(r).intree = r.intree
        /\ Aged(r).good = r.good
    BY <1>2 DEF Record
  <2>3. Aged(r) \in Record BY <1>2, <2>1 DEF Record
  <2> QED BY <2>2, <2>3, DataSame
<1> QED BY <1>1, <1>2 DEF Aged

\* The program has ended.
LEMMA EndStep ==
  ASSUME IInv, End, disk' \in Record, Honest(disk)',
         UNCHANGED <<now, writes, fails, file, backups, fault>>
  PROVE  IInv'
<1>1. pc' = "idle" BY DEF End
<1>2. TypeOK'
  <2>1. <<>> \in Seq(Unit) OBVIOUS
  <2>2. {now, snaptime, backups, writes, fails, cnum, pos}' \subseteq Nat /\ pc' \in PCs
    BY DEF IInv, TypeOK, PCs, End, Cleared
  <2>3. {disk, rec}' \subseteq Record /\ st' \in Stat
    BY ConstantTypes DEF End
  <2>4. {held, entry}' \subseteq Seq(Unit) /\ {hit, keep, whole, cut, fault}' \subseteq BOOLEAN
    BY <2>1 DEF IInv, TypeOK, End, Cleared
  <2>5. file' \in [ino : Nat, mtime : Nat, units : Seq(Unit)]
    BY DEF IInv, TypeOK
  <2> QED BY <2>2, <2>3, <2>4, <2>5 DEF TypeOK
<1>3. Clock' BY <1>1 DEF IInv, Clock
<1> QED BY <1>1, <1>2, <1>3, IdleNext DEF IInv

LEMMA CacheRenameStep == ASSUME IInv, CacheRename PROVE IInv'
<1> USE DEF IInv
<1>1. /\ pc = "rename" /\ disk' = Aged(rec) /\ End
      /\ UNCHANGED <<now, writes, fails, file, backups, saved, fault>>
  BY DEF CacheRename, world
<1>2. rec \in Record BY DEF TypeOK
<1>3. disk' \in Record BY <1>1, <1>2, AgedRecord
<1>4. Honest(disk)'
  <2>1. CASE disk' = NoRecord
    <3>1. disk'.ino = 0 /\ disk'.mtime = 0 BY <2>1 DEF NoRecord
    <3>2. file.ino > 0 /\ file.ino \in Nat /\ now \in Nat /\ now > 0
      BY FileTypes DEF Clock, TypeOK
    <3> QED BY <1>1, <3>1, <3>2 DEF Honest
  <2>2. CASE disk' # NoRecord
    <3>1. Data(disk') = Data(rec) /\ disk'.ino = rec.ino /\ disk'.mtime = rec.mtime
          /\ disk'.good = rec.good
      BY <1>1, <1>2, <2>2, AgedRecord
    <3>2. Honest(rec) BY <1>1 DEF RecordsHonest, Closing
    <3> QED BY <1>1, <3>1, <3>2 DEF Honest
  <2> QED BY <2>1, <2>2
<1> QED BY <1>1, <1>3, <1>4, EndStep

LEMMA CrashStep == ASSUME IInv, Crash PROVE IInv'
<1>1. End /\ UNCHANGED <<now, writes, fails, file, backups, disk, fault>>
  BY DEF Crash, world
<1>2. disk' \in Record BY <1>1 DEF IInv, TypeOK
<1>3. Honest(disk)' BY <1>1 DEF IInv, RecordsHonest, Honest
<1> QED BY <1>1, <1>2, <1>3, EndStep

-----------------------------------------------------------------------------
(* The theorems. *)

LEMMA StutterStep == ASSUME IInv, UNCHANGED vars PROVE IInv'
<1> USE DEF IInv
<1>1. UNCHANGED <<now, writes, fails, file, backups, disk, saved, present, pc, snaptime, rec, st,
                  cnum, pos, held, hit, keep, whole, cut, entry, fault>>
  BY DEF vars, world, cookie
<1>2. TypeOK' BY <1>1 DEF TypeOK
<1>3. RecordsHonest' BY <1>1 DEF RecordsHonest, Honest
<1>4. Whole'
  BY <1>1, <1>2, AvailableRec, AvailableNext DEF TypeOK, Whole, InRecord, Fresh
<1>5. Fresher' /\ Kept' BY <1>1 DEF Fresher, Kept, Fresh
<1>6. Verifying' /\ ReadOn' BY <1>1 DEF Verifying, ReadOn, Read
<1> QED BY <1>1, <1>2, <1>3, <1>4, <1>5, <1>6 DEF Clock, Seen, NotWhole, Filling

\* Every step of a backup or of anybody else keeps the invariant.
LEMMA NextIInv == IInv /\ [Next]_vars => IInv'
<1> SUFFICES ASSUME IInv, [Next]_vars PROVE IInv'
  OBVIOUS
<1>1. CASE Tick \/ Modify \/ Replace \/ DeleteArchives \/ Fsck
  BY <1>1, TickStep, ModifyStep, ReplaceStep, DeleteArchivesStep, FsckStep
<1>2. CASE Start \/ Lstat \/ Lookup \/ OpenFails \/ WriteWhole
  BY <1>2, StartStep, LstatStep, LookupStep, OpenFailsStep, WriteWholeStep
<1>3. CASE VerifyChunk \/ Verified \/ ReadUnit \/ ReadFails \/ FillUnit \/ CheckpointInFile
  BY <1>3, VerifyChunkStep, VerifiedStep, ReadUnitStep, ReadFailsStep, FillUnitStep,
     CheckpointInFileStep
<1>4. CASE TruncateInFile \/ Finish \/ EntryEnd \/ Close
  BY <1>4, TruncateInFileStep, FinishStep, EntryEndStep, CloseStep
<1>5. CASE CacheUnlink \/ CacheRename \/ Crash
  BY <1>5, CacheUnlinkStep, CacheRenameStep, CrashStep
<1>6. CASE UNCHANGED vars BY <1>6, StutterStep
<1> QED BY <1>1, <1>2, <1>3, <1>4, <1>5, <1>6 DEF Next

\* Records are honest and the entry is what was read, for any contents, chunk
\* length, age and number of changes.
THEOREM Invariant == Spec => []IInv
BY InitIInv, NextIInv, PTL DEF Spec

\* A record starts as one of a file that can be read, and only ReadFails makes
\* it anything else.
LEMMA UnfailedStep ==
  ASSUME IInv, Unfailed, [Next]_vars
  PROVE  Unfailed'
<1> USE DEF Unfailed
<1>1. rec \in Record /\ disk \in Record /\ fails \in Nat
  BY DEF IInv, TypeOK
<1>2. CASE Tick \/ Modify \/ Replace \/ DeleteArchives \/ OpenFails \/ Lstat
  BY <1>2 DEF Tick, Modify, Replace, DeleteArchives, OpenFails, Lstat, world, cookie, Reading
<1>3. CASE Fsck
  BY <1>3 DEF Fsck, NoRecord, world, cookie
<1>4. CASE Start
  BY <1>4 DEF Start, Reading, world
<1>5. CASE Lookup
  <2>1. rec'.intree = rec.intree /\ rec'.good = rec.good /\ rec'.size = rec.size
    BY <1>1, <1>5 DEF Lookup, LookedUp, Record
  <2>2. UNCHANGED <<fails, disk>> /\ pc' \notin Reading
    BY <1>5 DEF Lookup, world, Reading
  <2> QED BY <2>1, <2>2
<1>6. CASE WriteWhole
  <2>1. rec.intree
    BY <1>6 DEF WriteWhole, IInv, Whole, InRecord, Fresh
  <2> QED BY <1>6, <2>1 DEF WriteWhole, world
<1>7. CASE VerifyChunk
  BY <1>7 DEF VerifyChunk, world
<1>8. CASE Verified
  <2>1. rec'.good = st.size /\ rec'.size = st.size
    BY <1>1, <1>8 DEF Verified, Record
  <2> QED BY <1>8, <2>1 DEF Verified, world
<1>9. CASE ReadFails
  <2>1. fails' # 0
    BY <1>1, <1>9 DEF ReadFails
  <2> QED BY <2>1
<1>10. CASE ReadUnit \/ FillUnit \/ CheckpointInFile \/ Finish
  <2>1. /\ rec'.intree = rec.intree /\ rec'.good = rec.good /\ rec'.size = rec.size
        /\ UNCHANGED <<fails, disk>>
    BY <1>1, <1>10 DEF ReadUnit, FillUnit, CheckpointInFile, Finish, Put, EndData, AddChunk,
                       AddTrailer, Record, world
  <2>2. pc \in Reading
    BY <1>10 DEF ReadUnit, FillUnit, CheckpointInFile, Finish, Reading
  <2> QED BY <2>1, <2>2
<1>11. CASE TruncateInFile
  BY <1>11 DEF TruncateInFile, world, Reading
<1>12. CASE EntryEnd
  <2>1. rec'.good = rec.good /\ rec'.size = rec.size
    BY <1>1, <1>12 DEF EntryEnd, Record
  <2>2. UNCHANGED <<fails, disk>> /\ pc \in Reading
    BY <1>12 DEF EntryEnd, world, Reading
  <2> QED BY <2>1, <2>2
<1>13. CASE Close \/ CacheUnlink
  BY <1>13 DEF Close, CacheUnlink, world, cookie, Reading, NoRecord
<1>14. CASE CacheRename
  <2>1. rec' = NoRecord /\ pc' = "idle" /\ disk' = Aged(rec) /\ fails' = fails
    BY <1>14 DEF CacheRename, End, world
  <2>2. disk'.intree => rec.intree /\ disk'.good = rec.good /\ disk'.size = rec.size
    BY <1>1, <2>1, AgedRecord DEF NoRecord
  <2> QED BY <2>1, <2>2 DEF NoRecord, Reading
<1>15. CASE Crash
  BY <1>15 DEF Crash, End, world, NoRecord, Reading
<1>16. CASE UNCHANGED vars
  BY <1>16 DEF vars, world, cookie
<1> QED BY <1>2, <1>3, <1>4, <1>5, <1>6, <1>7, <1>8, <1>9, <1>10, <1>11, <1>12, <1>13,
           <1>14, <1>15, <1>16 DEF Next

LEMMA UnfailedAlways == Spec => []Unfailed
<1>1. Init => Unfailed
  BY DEF Init, Unfailed, NoRecord, Reading
<1>2. IInv /\ Unfailed /\ [Next]_vars => Unfailed'
  BY UnfailedStep
<1> QED BY <1>1, <1>2, Invariant, PTL DEF Spec

\* What is archived is what the file had when lstat was called, up to the place
\* where a read failed, if one ever did: from the cache without the file being
\* opened always, else unless the file has changed since (write.c:1229-1262,
\* ccache_entry.c:264-282).
THEOREM ArchivedExactly == Spec => []Exact
<1>1. ASSUME IInv, Unfailed, pc = "end" PROVE Exact
  <2>1. fails = 0 => rec.good = st.size
    <3>1. rec.size = st.size
      BY <1>1 DEF IInv, Whole, InRecord, Fresh, ReadOn, Reading
    <3> QED BY <1>1, <3>1 DEF Unfailed, Reading
  <2>2. whole => Len(entry) = st.size /\ AsRead(entry, st.units, rec.good)
    BY <1>1 DEF IInv, Whole, InRecord
  <2>3. ~whole /\ ~st.changed => Len(entry) = pos /\ AsRead(entry, st.units, rec.good)
    BY <1>1 DEF IInv, ReadOn, Read, Reading
  <2> QED BY <2>1, <2>2, <2>3 DEF Exact
<1>2. IInv /\ Unfailed => Exact
  BY <1>1 DEF Exact
<1> QED BY <1>2, Invariant, UnfailedAlways, PTL

\* The "Programmer error" exits of ccache_entry.c are never taken.
THEOREM NeverProgrammerError == Spec => []NoProgrammerError
<1>1. IInv => NoProgrammerError
  BY DEF IInv, NoProgrammerError
<1> QED BY <1>1, Invariant, PTL

\* A file that was archived to its end and is older than the backup is not
\* read by the next one, which takes what was read of it this time.
THEOREM FilesRemembered == Spec => []Remembered
<1> SUFFICES ASSUME TRUE PROVE IInv => Remembered
  BY Invariant, PTL
<1> SUFFICES ASSUME IInv, pc = "rename", st.size > 0, st.mtime < snaptime, ~st.changed,
                    whole \/ (keep /\ ~cut /\ pos = st.size)
             PROVE  /\ Fresh(Aged(rec)) /\ Len(Data(Aged(rec))) = st.size
                    /\ AsRead(Data(Aged(rec)), st.units, Aged(rec).good)
  BY DEF Remembered
<1>1. /\ Fresh(rec) /\ rec.age = 0 /\ rec.mtime >= 0
      /\ Len(Data(rec)) = st.size /\ AsRead(Data(rec), st.units, rec.good)
  BY DEF IInv, Kept, Closing
<1>2. rec \in Record /\ rec.mtime \in Int
  BY RecordTypes DEF IInv, TypeOK
<1>3. Data(rec) # <<>>
  BY <1>1
<1>4. ~(~rec.intree \/ Data(rec) = <<>> \/ rec.age > MaxAge \/ rec.mtime < 0)
  BY <1>1, <1>2, <1>3, FileCacheAssumption DEF Fresh
<1>5. Aged(rec) = [rec EXCEPT !.age = @ + 1]
  BY <1>4 DEF Aged
<1>6. /\ Aged(rec).chunks = rec.chunks /\ Aged(rec).trailer = rec.trailer
      /\ Aged(rec).ino = rec.ino /\ Aged(rec).mtime = rec.mtime
      /\ Aged(rec).size = rec.size /\ Aged(rec).intree = rec.intree
      /\ Aged(rec).good = rec.good
  BY <1>2, <1>5 DEF Record
<1> QED BY <1>1, <1>6, DataSame DEF Fresh
=============================================================================
