----------------------------- MODULE TapeProofs -----------------------------
(***************************************************************************)
(* Whatever is written to an archive is read from it again (RoundTrip),    *)
(* without an error (NoFault) and to the end (WholeRead), by way of the    *)
(* layout and the places of TapeInv.  The first half is the writer's: how  *)
(* a unit, a chunk, a trailer, the end of an entry and a checkpoint each   *)
(* extend the layout.  The second is the reader's: how the readers of the  *)
(* three streams, and the read cookie made of them, keep their places.     *)
(***************************************************************************)
EXTENDS TapeInv, Sums, SequenceTheorems

-----------------------------------------------------------------------------
(* Where the chunks of a stream start. *)

\* What Start is: a sum that each chunk adds its length to.
Starts(ch) ==
  /\ Start(ch, 1) = 0
  /\ \A j \in 1 .. Len(ch) + 1 : Start(ch, j) \in Nat
  /\ \A j \in 1 .. Len(ch) : Start(ch, j + 1) = Start(ch, j) + Len(ch[j])
  /\ \A i, j \in 1 .. Len(ch) + 1 : i <= j => Start(ch, i) <= Start(ch, j)
  /\ \A i \in 1 .. Len(ch) + 1 : \A j \in i - 1 .. Len(ch) :
       Length(ch, i, j) = Start(ch, j + 1) - Start(ch, i)

Lens(ch) == [j \in DOMAIN ch |-> Len(ch[j])]

\* The sums of Tape are those of Sums.
LEMMA LengthIs ==
  ASSUME NEW ch, NEW i, NEW j
  PROVE  Length(ch, i, j) = Total(Lens(ch), i .. j)
BY Zenon DEF Length, SumOver, Total, Lens

\* The lengths of chunks are natural numbers.
LEMMA LensIn ==
  ASSUME NEW ch \in ChunkSeqs
  PROVE  \A j \in 1 .. Len(ch) : Lens(ch)[j] = Len(ch[j]) /\ Lens(ch)[j] \in Nat
<1>1. \A j \in 1 .. Len(ch) : j \in DOMAIN ch /\ ch[j] \in Seq(Item)
  BY DEF ChunkSeqs
<1> QED BY <1>1 DEF Lens

\* One chunk more.
LEMMA LengthNext ==
  ASSUME NEW ch \in ChunkSeqs, NEW i \in 1 .. Len(ch), NEW j \in i .. Len(ch)
  PROVE  /\ Length(ch, i, j) = Length(ch, i, j - 1) + Len(ch[j])
         /\ Length(ch, i, j - 1) \in Int
<1>1. (i .. j - 1) \cup {j} = i .. j /\ j \notin i .. j - 1
  OBVIOUS
<1>2. \A k \in i .. j : Lens(ch)[k] \in Int /\ Lens(ch)[k] = Len(ch[k])
  BY LensIn
<1>3. IsFiniteSet(i .. j - 1)
  BY FS_Interval
<1>4. Total(Lens(ch), (i .. j - 1) \cup {j}) = Total(Lens(ch), i .. j - 1) + Lens(ch)[j]
      /\ Total(Lens(ch), i .. j - 1) \in Int
  BY <1>1, <1>2, <1>3, TotalAdd
<1> QED BY <1>1, <1>2, <1>4, LengthIs

\* No chunks have no length.
LEMMA LengthNone ==
  ASSUME NEW ch, NEW i \in Int
  PROVE  Length(ch, i, i - 1) = 0
<1>1. i .. i - 1 = {} OBVIOUS
<1> QED BY <1>1, LengthIs, TotalEmpty

\* Start is that sum, and the length of chunks i to j the difference of two starts.
LEMMA StartsHold ==
  ASSUME NEW ch \in ChunkSeqs
  PROVE  Starts(ch)
<1> DEFINE n1 == Len(ch) + 1
<1>0. Len(ch) \in Nat /\ n1 \in Nat /\ n1 >= 1 BY DEF ChunkSeqs
<1>1. Start(ch, 1) = 0
  BY LengthNone DEF Start
<1>2. ASSUME NEW j \in 1 .. Len(ch)
      PROVE  Start(ch, j + 1) = Start(ch, j) + Len(ch[j]) /\ Start(ch, j) \in Int
  <2>1. 1 \in 1 .. Len(ch) /\ j \in 1 .. Len(ch) /\ j + 1 - 1 = j BY <1>0
  <2>2. /\ Length(ch, 1, j) = Length(ch, 1, j - 1) + Len(ch[j])
        /\ Length(ch, 1, j - 1) \in Int
    BY <2>1, LengthNext
  <2> QED BY <2>1, <2>2 DEF Start
<1>3. \A j \in 1 .. Len(ch) : Len(ch[j]) \in Nat
  BY DEF ChunkSeqs
<1>4. \A i \in 1 .. n1 : Start(ch, i) \in Nat
  <2> DEFINE Bad == {k \in 1 .. n1 : Start(ch, k) \notin Nat}
  <2>1. SUFFICES ASSUME Bad # {} PROVE FALSE OBVIOUS
  <2>2. PICK k \in Bad : \A l \in Bad : k <= l
    <3>1. Bad \subseteq Nat OBVIOUS
    <3> HIDE DEF Bad
    <3> QED BY <2>1, <3>1, LeastNat
  <2>3. CASE k = 1 BY <2>2, <2>3, <1>1
  <2>4. CASE k # 1
    <3>1. k - 1 \in 1 .. Len(ch) /\ k - 1 + 1 = k BY <2>2, <2>4, <1>0
    <3>2. Start(ch, k - 1) \in Nat BY <2>2, <3>1
    <3> QED BY <3>1, <3>2, <2>2, <1>2, <1>3
  <2> QED BY <2>3, <2>4
<1>5. ASSUME NEW i \in 1 .. n1
      PROVE  \A j \in i .. n1 : Start(ch, i) <= Start(ch, j) /\ Length(ch, i, j - 1) = Start(ch, j) - Start(ch, i)
  <2> DEFINE Good(j) == /\ Start(ch, i) <= Start(ch, j)
                        /\ Length(ch, i, j - 1) = Start(ch, j) - Start(ch, i)
  <2> DEFINE Bad == {k \in i .. n1 : ~Good(k)}
  <2>1. SUFFICES ASSUME Bad # {} PROVE FALSE OBVIOUS
  <2>2. PICK k \in Bad : \A l \in Bad : k <= l
    <3>1. Bad \subseteq Nat BY <1>0
    <3> HIDE DEF Bad
    <3> QED BY <2>1, <3>1, LeastNat
  <2>3. CASE k = i
    <3>1. Length(ch, i, i - 1) = 0 BY LengthNone
    <3> QED BY <2>2, <2>3, <3>1, <1>4
  <2>4. CASE k # i
    <3>1. k - 1 \in 1 .. Len(ch) /\ k - 1 + 1 = k /\ k - 1 \in i .. n1
          /\ k - 1 \in i .. Len(ch) /\ i \in 1 .. Len(ch)
      BY <2>2, <2>4, <1>0
    <3>2. Good(k - 1) BY <2>2, <3>1
    <3>3. Length(ch, i, k - 1) = Length(ch, i, k - 1 - 1) + Len(ch[k - 1])
      BY <3>1, LengthNext
    <3>4. Start(ch, k) = Start(ch, k - 1) + Len(ch[k - 1]) BY <3>1, <1>2
    <3>5. Start(ch, i) \in Nat /\ Start(ch, k - 1) \in Nat /\ Len(ch[k - 1]) \in Nat
      BY <3>1, <1>3, <1>4
    <3>6. Good(k) BY <3>2, <3>3, <3>4, <3>5
    <3> QED BY <2>2, <3>6
  <2> QED BY <2>3, <2>4
<1>6. ASSUME NEW i \in 1 .. n1, NEW j \in i - 1 .. Len(ch)
      PROVE  Length(ch, i, j) = Start(ch, j + 1) - Start(ch, i)
  <2>1. j + 1 \in i .. n1 /\ j + 1 - 1 = j BY <1>0
  <2> QED BY <2>1, <1>5
<1>7. ASSUME NEW i \in 1 .. n1, NEW j \in 1 .. n1, i <= j
      PROVE  Start(ch, i) <= Start(ch, j)
  <2>1. j \in i .. n1 BY <1>7, <1>0
  <2> QED BY <2>1, <1>5
<1> QED BY <1>1, <1>2, <1>4, <1>6, <1>7 DEF Starts

\* Chunks that come later have no part in it.
LEMMA StartSame ==
  ASSUME NEW ch \in ChunkSeqs, NEW c \in Seq(Item), NEW j \in 1 .. Len(ch) + 1
  PROVE  Start(Append(ch, c), j) = Start(ch, j)
<1>1. Append(ch, c) \in ChunkSeqs BY DEF ChunkSeqs
<1>2. \A i \in 1 .. j - 1 : /\ i \in DOMAIN ch /\ i \in DOMAIN Append(ch, c)
                            /\ Append(ch, c)[i] = ch[i]
  BY DEF ChunkSeqs
<1>3. \A i \in 1 .. j - 1 : Lens(Append(ch, c))[i] = Lens(ch)[i]
  BY <1>2 DEF Lens
<1>4. IsFiniteSet(1 .. j - 1) BY FS_Interval
<1>5. Total(Lens(Append(ch, c)), 1 .. j - 1) = Total(Lens(ch), 1 .. j - 1)
  BY <1>3, <1>4, TotalSame
<1> QED BY <1>5, LengthIs, Zenon DEF Start

\* The chunk that is appended follows all others.
LEMMA StartLast ==
  ASSUME NEW ch \in ChunkSeqs, NEW c \in Seq(Item)
  PROVE  /\ Append(ch, c) \in ChunkSeqs /\ Len(Append(ch, c)) = Len(ch) + 1
         /\ Start(Append(ch, c), Len(ch) + 2) = Start(ch, Len(ch) + 1) + Len(c)
         /\ Start(ch, Len(ch) + 1) \in Nat
         /\ \A j \in 1 .. Len(ch) : Append(ch, c)[j] = ch[j]
         /\ Append(ch, c)[Len(ch) + 1] = c
<1>1. Append(ch, c) \in ChunkSeqs /\ Len(Append(ch, c)) = Len(ch) + 1
      /\ Append(ch, c)[Len(ch) + 1] = c /\ Len(ch) \in Nat
      /\ \A j \in 1 .. Len(ch) : Append(ch, c)[j] = ch[j]
  BY DEF ChunkSeqs
<1>2. Starts(ch) /\ Starts(Append(ch, c)) BY <1>1, StartsHold
<1>3. Start(Append(ch, c), Len(ch) + 1 + 1) = Start(Append(ch, c), Len(ch) + 1) + Len(c)
  BY <1>1, <1>2 DEF Starts
<1>4. Start(Append(ch, c), Len(ch) + 1) = Start(ch, Len(ch) + 1) BY <1>1, StartSame
<1>5. Start(ch, Len(ch) + 1) \in Nat BY <1>1, <1>2 DEF Starts
<1>6. Len(ch) + 1 + 1 = Len(ch) + 2 BY <1>1
<1> QED BY <1>1, <1>3, <1>4, <1>5, <1>6

-----------------------------------------------------------------------------
(* Sequences. *)

\* What concatenation gives.
LEMMA ConcatIs ==
  ASSUME NEW x \in Seq(Item), NEW y \in Seq(Item)
  PROVE  /\ x \o y \in Seq(Item) /\ Len(x \o y) = Len(x) + Len(y)
         /\ \A i \in 1 .. Len(x) : (x \o y)[i] = x[i]
         /\ \A i \in 1 .. Len(y) : (x \o y)[Len(x) + i] = y[i]
<1>1. x \o y \in Seq(Item) /\ Len(x \o y) = Len(x) + Len(y) /\ Len(x) \in Nat /\ Len(y) \in Nat
  OBVIOUS
<1>2. \A i \in 1 .. Len(x) : (x \o y)[i] = x[i] OBVIOUS
<1>3. ASSUME NEW i \in 1 .. Len(y) PROVE (x \o y)[Len(x) + i] = y[i]
  <2>1. Len(x) + i \in 1 .. Len(x) + Len(y) /\ ~(Len(x) + i <= Len(x)) /\ Len(x) + i - Len(x) = i
    BY <1>1
  <2> QED BY <2>1
<1> QED BY <1>1, <1>2, <1>3

\* Two sequences with the same elements are the same.
LEMMA SameSeq ==
  ASSUME NEW x \in Seq(Item), NEW y \in Seq(Item), Len(x) = Len(y),
         \A i \in 1 .. Len(x) : x[i] = y[i]
  PROVE  x = y
OBVIOUS

\* What a part of a sequence is.
LEMMA PartIs ==
  ASSUME NEW x \in Seq(Item), NEW a \in 1 .. Len(x) + 1, NEW b \in a - 1 .. Len(x)
  PROVE  /\ SubSeq(x, a, b) \in Seq(Item) /\ Len(SubSeq(x, a, b)) = b - a + 1
         /\ \A i \in 1 .. b - a + 1 : SubSeq(x, a, b)[i] = x[a + i - 1]
<1>1. Len(SubSeq(x, a, b)) = b - a + 1 OBVIOUS
<1>2. \A i \in 1 .. b - a + 1 : SubSeq(x, a, b)[i] = x[a + i - 1] OBVIOUS
<1>3. SubSeq(x, a, b) \in Seq(Item) OBVIOUS
<1> QED BY <1>1, <1>2, <1>3

\* A sequence is its front and the rest.
LEMMA CutIs ==
  ASSUME NEW x \in Seq(Item), NEW k \in 0 .. Len(x)
  PROVE  /\ SubSeq(x, 1, k) \in Seq(Item) /\ SubSeq(x, k + 1, Len(x)) \in Seq(Item)
         /\ SubSeq(x, 1, k) \o SubSeq(x, k + 1, Len(x)) = x
         /\ Len(SubSeq(x, 1, k)) = k /\ Len(SubSeq(x, k + 1, Len(x))) = Len(x) - k
         /\ \A i \in 1 .. k : SubSeq(x, 1, k)[i] = x[i]
         /\ \A i \in 1 .. Len(x) - k : SubSeq(x, k + 1, Len(x))[i] = x[k + i]
<1> DEFINE a == SubSeq(x, 1, k) b == SubSeq(x, k + 1, Len(x))
<1>0. /\ Len(x) \in Nat /\ k \in Nat
      /\ 1 \in 1 .. Len(x) + 1 /\ k \in 1 - 1 .. Len(x) /\ Len(x) \in k .. Len(x)
  OBVIOUS
<1>1. a \in Seq(Item) /\ Len(a) = k /\ \A i \in 1 .. k : a[i] = x[i]
  <2>1. /\ a \in Seq(Item) /\ Len(a) = k - 1 + 1 /\ \A i \in 1 .. k - 1 + 1 : a[i] = x[1 + i - 1]
    BY <1>0, PartIs
  <2> HIDE DEF a
  <2> QED BY <2>1
<1>2. b \in Seq(Item) /\ Len(b) = Len(x) - k /\ \A i \in 1 .. Len(x) - k : b[i] = x[k + i]
  <2>1. /\ b \in Seq(Item) /\ Len(b) = Len(x) - (k + 1) + 1
        /\ \A i \in 1 .. Len(x) - (k + 1) + 1 : b[i] = x[(k + 1) + i - 1]
    BY <1>0, PartIs
  <2> HIDE DEF b
  <2> QED BY <2>1, <1>0
<1>3. a \o b = SubSeq(x, 1, Len(x))
  BY <1>0, ConcatAdjacentSubSeq
<1>4. SubSeq(x, 1, Len(x)) = x
  BY SubSeqFull
<1> QED BY <1>1, <1>2, <1>3, <1>4

-----------------------------------------------------------------------------
(* The data of chunks. *)

\* No chunks have no data.
LEMMA FlatNone == Flat(<<>>, <<>>)
<1>1. <<>> \in ChunkSeqs /\ <<>> \in Seq(Item) /\ Len(<<>>) = 0 BY DEF ChunkSeqs
<1>2. Start(<<>>, 1) = 0 BY <1>1, StartsHold DEF Starts
<1> QED BY <1>1, <1>2 DEF Flat

\* Part of a chunk is part of what the chunk is part of.
LEMMA Within ==
  ASSUME NEW a \in Nat, NEW l \in Nat, NEW b \in Nat, a + l <= b, NEW i \in 1 .. l
  PROVE  a + i \in 1 .. b
OBVIOUS

\* A chunk is appended.
LEMMA FlatAppend ==
  ASSUME NEW ch, NEW x, Flat(ch, x), NEW c \in Seq(Item)
  PROVE  Flat(Append(ch, c), x \o c)
<1> DEFINE d == Append(ch, c) y == x \o c
<1>1. /\ ch \in ChunkSeqs /\ x \in Seq(Item) /\ Len(x) = Start(ch, Len(ch) + 1)
      /\ \A j \in 1 .. Len(ch) : \A i \in 1 .. Len(ch[j]) : ch[j][i] = x[Start(ch, j) + i]
  BY DEF Flat
<1>2. /\ d \in ChunkSeqs /\ Len(d) = Len(ch) + 1 /\ Start(d, Len(ch) + 2) = Len(x) + Len(c)
      /\ (\A j \in 1 .. Len(ch) : d[j] = ch[j]) /\ d[Len(ch) + 1] = c
  BY <1>1, StartLast
<1>3. \A j \in 1 .. Len(ch) + 1 : Start(d, j) = Start(ch, j)
  BY <1>1, StartSame
<1>4. /\ y \in Seq(Item) /\ Len(y) = Len(x) + Len(c)
      /\ (\A i \in 1 .. Len(x) : y[i] = x[i]) /\ \A i \in 1 .. Len(c) : y[Len(x) + i] = c[i]
  BY <1>1, ConcatIs
<1>5. Len(ch) \in Nat /\ Len(x) \in Nat /\ Starts(ch)
      /\ \A j \in 1 .. Len(ch) : ch[j] \in Seq(Item) /\ Len(ch[j]) \in Nat
  BY <1>1, StartsHold DEF ChunkSeqs
<1> HIDE DEF d, y
<1>6. ASSUME NEW j \in 1 .. Len(d), NEW i \in 1 .. Len(d[j]) PROVE d[j][i] = y[Start(d, j) + i]
  <2>1. CASE j = Len(ch) + 1
    BY <2>1, <1>1, <1>2, <1>3, <1>4, <1>5
  <2>2. CASE j # Len(ch) + 1
    <3>1. j \in 1 .. Len(ch) /\ d[j] = ch[j] /\ Start(d, j) = Start(ch, j) /\ i \in 1 .. Len(ch[j])
      BY <2>2, <1>2, <1>3, <1>5
    <3>2. /\ Start(ch, j) \in Nat /\ Start(ch, j + 1) = Start(ch, j) + Len(ch[j])
          /\ Start(ch, j + 1) <= Start(ch, Len(ch) + 1)
      <4>1. j \in 1 .. Len(ch) + 1 /\ j + 1 \in 1 .. Len(ch) + 1 /\ Len(ch) + 1 \in 1 .. Len(ch) + 1
            /\ j + 1 <= Len(ch) + 1
        BY <3>1, <1>5
      <4> QED BY <4>1, <3>1, <1>5 DEF Starts
    <3>3. Start(ch, j) + i \in 1 .. Len(x)
      <4> DEFINE a == Start(ch, j) l == Len(ch[j]) b == Len(x)
      <4>1. a \in Nat /\ l \in Nat /\ b \in Nat /\ i \in 1 .. l BY <3>1, <3>2, <1>5
      <4>2. a + l <= b BY <3>2, <1>1
      <4> HIDE DEF a, l, b
      <4>3. a + i \in 1 .. b BY <4>1, <4>2, Within
      <4> QED BY Zenon, <4>3 DEF a, b
    <3> QED BY <3>1, <3>3, <1>1, <1>4
  <2> QED BY <2>1, <2>2
<1>7. Len(y) = Start(d, Len(d) + 1) BY <1>2, <1>4, <1>5
<1> QED BY <1>2, <1>4, <1>6, <1>7 DEF Flat, d, y

\* The last chunk is taken off.
LEMMA FlatFront ==
  ASSUME NEW ch \in ChunkSeqs, NEW c \in Seq(Item), NEW y, Flat(Append(ch, c), y)
  PROVE  \E x : Flat(ch, x) /\ y = x \o c
<1> DEFINE d == Append(ch, c) k == Start(ch, Len(ch) + 1)
<1>1. /\ d \in ChunkSeqs /\ y \in Seq(Item) /\ Len(y) = Start(d, Len(d) + 1)
      /\ \A j \in 1 .. Len(d) : \A i \in 1 .. Len(d[j]) : d[j][i] = y[Start(d, j) + i]
  BY DEF Flat
<1>2. /\ d \in ChunkSeqs /\ Len(d) = Len(ch) + 1 /\ Start(d, Len(ch) + 2) = k + Len(c)
      /\ (\A j \in 1 .. Len(ch) : d[j] = ch[j]) /\ d[Len(ch) + 1] = c /\ k \in Nat
  BY StartLast
<1>3. \A j \in 1 .. Len(ch) + 1 : Start(d, j) = Start(ch, j)
  BY StartSame
<1>5. Len(ch) \in Nat /\ Len(c) \in Nat /\ Starts(ch)
      /\ \A j \in 1 .. Len(ch) : ch[j] \in Seq(Item) /\ Len(ch[j]) \in Nat
  BY StartsHold DEF ChunkSeqs
<1> HIDE DEF d
<1>6. Len(y) = k + Len(c) BY <1>1, <1>2, <1>5
<1>7. k \in 0 .. Len(y) /\ Start(ch, Len(ch) + 1) = k BY <1>2, <1>5, <1>6
<1>8. k = Start(d, Len(ch) + 1) BY <1>3, <1>5
<1> HIDE DEF k
<1> DEFINE a == SubSeq(y, 1, k) b == SubSeq(y, k + 1, Len(y))
<1>9. /\ a \in Seq(Item) /\ b \in Seq(Item) /\ a \o b = y /\ Len(a) = k /\ Len(b) = Len(y) - k
      /\ (\A i \in 1 .. k : a[i] = y[i]) /\ \A i \in 1 .. Len(y) - k : b[i] = y[k + i]
  BY <1>1, <1>7, CutIs
<1> HIDE DEF a, b
<1>10. b = c
  <2>1. Len(b) = Len(c) BY <1>2, <1>5, <1>6, <1>9
  <2>2. ASSUME NEW i \in 1 .. Len(c) PROVE b[i] = c[i]
    <3>1. Len(ch) + 1 \in 1 .. Len(d) /\ i \in 1 .. Len(d[Len(ch) + 1]) BY <1>2, <1>5
    <3>2. d[Len(ch) + 1][i] = y[k + i] BY <3>1, <1>1, <1>8
    <3> QED BY <3>2, <1>2, <1>9, <2>1
  <2> QED BY <2>1, <2>2, <1>9, SameSeq
<1>11. ASSUME NEW j \in 1 .. Len(ch), NEW i \in 1 .. Len(ch[j]) PROVE ch[j][i] = a[Start(ch, j) + i]
  <2>1. /\ Start(ch, j) \in Nat /\ Start(ch, j + 1) = Start(ch, j) + Len(ch[j])
        /\ Start(ch, j + 1) <= Start(ch, Len(ch) + 1)
    <3>1. j \in 1 .. Len(ch) + 1 /\ j + 1 \in 1 .. Len(ch) + 1 /\ Len(ch) + 1 \in 1 .. Len(ch) + 1
          /\ j + 1 <= Len(ch) + 1
      BY <1>5
    <3> QED BY <3>1, <1>5 DEF Starts
  <2>2. Start(ch, j) + i \in 1 .. k BY <2>1, <1>5, <1>7
  <2>3. d[j][i] = y[Start(d, j) + i] /\ d[j] = ch[j] /\ Start(d, j) = Start(ch, j)
    BY <1>1, <1>2, <1>3, <1>5
  <2> QED BY <2>2, <2>3, <1>9
<1>12. Flat(ch, a) BY <1>7, <1>9, <1>11 DEF Flat
<1> QED BY <1>9, <1>10, <1>12

-----------------------------------------------------------------------------
(* Streams as they are written. *)

\* Nothing is nothing.
LEMMA ConcatNone ==
  ASSUME NEW x \in Seq(Item)
  PROVE  x \o <<>> = x
BY ConcatEmptySeq

\* The order of concatenation.
LEMMA ConcatThree ==
  ASSUME NEW x \in Seq(Item), NEW y \in Seq(Item), NEW z \in Seq(Item)
  PROVE  x \o (y \o z) = (x \o y) \o z
<1>1. (x \o y) \o z = x \o (y \o z) BY ConcatAssociative
<1> QED BY <1>1

\* A stream is its chunks and what is held back.
LEMMA StreamIs ==
  ASSUME NEW a \in ChunkSeqs, NEW b \in Seq(Item)
  PROVE  [chunks |-> a, held |-> b] \in Stream
BY DEF Stream

\* chunkify_end
LEMMA EndedFlat ==
  ASSUME NEW s \in Stream, NEW x, Flat(AllOf(s), x)
  PROVE  /\ Ended(s) \in Stream /\ Ended(s).held = <<>>
         /\ Flat(Ended(s).chunks, x) /\ Flat(AllOf(Ended(s)), x)
<1>1. s.chunks \in ChunkSeqs /\ s.held \in Seq(Item) /\ s = [chunks |-> s.chunks, held |-> s.held]
  BY DEF Stream
<1>2. PICK y : Flat(s.chunks, y) /\ x = y \o s.held
  BY <1>1, FlatFront DEF AllOf
<1>3. y \in Seq(Item) /\ x \in Seq(Item) BY <1>2 DEF Flat
<1>4. CASE s.held = <<>>
  <2>1. x = y BY <1>2, <1>3, <1>4, ConcatNone
  <2> QED BY <1>2, <1>4, <2>1 DEF Ended
<1>5. CASE s.held # <<>>
  <2>1. Ended(s).chunks = AllOf(s) /\ Ended(s).held = <<>> BY <1>5 DEF Ended, AllOf
  <2>2. AllOf(s) \in ChunkSeqs BY DEF Flat
  <2> <<>> \in Seq(Item) OBVIOUS
  <2>3. Ended(s) \in Stream
    <3>2. Ended(s) = [chunks |-> AllOf(s), held |-> <<>>] BY <1>5 DEF Ended, AllOf
    <3> QED BY <2>2, <3>2, StreamIs
  <2>4. Flat(Append(AllOf(s), <<>>), x \o <<>>) BY FlatAppend
  <2>5. Flat(AllOf(Ended(s)), x) BY <2>1, <2>4, <1>3, ConcatNone DEF AllOf
  <2> QED BY <2>1, <2>3, <2>5
<1> QED BY <1>4, <1>5

\* chunkify_write
LEMMA WrittenFlat ==
  ASSUME NEW s \in Stream, NEW x, Flat(AllOf(s), x), NEW items \in Seq(Item),
         NEW t \in Written(s, items)
  PROVE  t \in Stream /\ Flat(AllOf(t), x \o items)
<1>1. s.chunks \in ChunkSeqs /\ s.held \in Seq(Item) /\ s = [chunks |-> s.chunks, held |-> s.held]
  BY DEF Stream
<1>2. PICK y : Flat(s.chunks, y) /\ x = y \o s.held
  BY <1>1, FlatFront DEF AllOf
<1>3. y \in Seq(Item) /\ x \in Seq(Item) BY <1>2 DEF Flat
<1>4. CASE t = [s EXCEPT !.held = @ \o items]
  <2>0. s.held \o items \in Seq(Item) BY <1>1, ConcatIs
  <2>1. t.chunks = s.chunks /\ t.held = s.held \o items /\ t \in Stream
    BY <1>1, <1>4, <2>0 DEF Stream
  <2>2. Flat(Append(s.chunks, s.held \o items), y \o (s.held \o items))
    BY <1>1, <1>2, <2>0, FlatAppend
  <2>3. y \o (s.held \o items) = x \o items BY <1>1, <1>2, <1>3, ConcatThree
  <2> QED BY <2>1, <2>2, <2>3 DEF AllOf
<1>5. ASSUME NEW k \in Cuts \cap 1 .. Len(items),
             t = [Ended([s EXCEPT !.held = @ \o SubSeq(items, 1, k)])
                    EXCEPT !.held = SubSeq(items, k + 1, Len(items))]
      PROVE  t \in Stream /\ Flat(AllOf(t), x \o items)
  <2> DEFINE a == SubSeq(items, 1, k) b == SubSeq(items, k + 1, Len(items))
             u == [s EXCEPT !.held = @ \o a]
  <2>1. a \in Seq(Item) /\ b \in Seq(Item) /\ a \o b = items
    <3>1. k \in 0 .. Len(items) BY <1>5
    <3> QED BY <3>1, CutIs
  <2> HIDE DEF a, b
  <2>0. s.held \o a \in Seq(Item) BY <1>1, <2>1, ConcatIs
  <2>2. u.chunks = s.chunks /\ u.held = s.held \o a /\ u \in Stream
    BY <1>1, <2>0 DEF Stream
  <2>3. t = [Ended(u) EXCEPT !.held = b] BY <1>5 DEF a, b
  <2> HIDE DEF u
  <2>4. Flat(Append(s.chunks, s.held \o a), y \o (s.held \o a))
    BY <1>1, <1>2, <2>0, FlatAppend
  <2>5. y \o (s.held \o a) = x \o a
    <3>1. s.held \in Seq(Item) /\ a \in Seq(Item) /\ y \in Seq(Item) BY <1>1, <1>3, <2>1
    <3>2. y \o (s.held \o a) = (y \o s.held) \o a BY <3>1, ConcatThree
    <3> QED BY <3>2, <1>2, Zenon
  <2>6. Flat(AllOf(u), x \o a) BY <2>2, <2>4, <2>5 DEF AllOf
  <2>7. Ended(u) \in Stream /\ Flat(Ended(u).chunks, x \o a) BY <2>2, <2>6, EndedFlat
  <2>8. t.chunks = Ended(u).chunks /\ t.held = b /\ t \in Stream
    BY <2>1, <2>3, <2>7 DEF Stream
  <2>9. Flat(Append(Ended(u).chunks, b), (x \o a) \o b)
    <3>1. b \in Seq(Item) BY <2>1
    <3> QED BY <3>1, <2>7, FlatAppend
  <2>10. (x \o a) \o b = x \o items
    <3>1. x \in Seq(Item) /\ a \in Seq(Item) /\ b \in Seq(Item) /\ a \o b = items BY Zenon, <1>3, <2>1
    <3>2. x \o (a \o b) = (x \o a) \o b BY Zenon, <3>1, ConcatThree
    <3> QED BY Zenon, <3>1, <3>2
  <2> QED BY <2>8, <2>9, <2>10 DEF AllOf
<1> QED BY <1>4, <1>5 DEF Written

-----------------------------------------------------------------------------
(* Layouts. *)

\* What the marks are.
LEMMA MarkIn ==
  ASSUME NEW m, Marks(m), NEW k \in 1 .. Len(m)
  PROVE  /\ m[k] \in [Streams -> Nat] /\ m[k]["h"] \in Nat /\ m[k]["c"] \in Nat
         /\ m[k]["t"] \in Nat /\ Units(m, k) \in Nat /\ Len(m) \in Nat
<1>1. m[k] \in [Streams -> Nat] /\ Len(m) \in Nat /\ k - 1 <= m[k]["h"] /\ k \in Int BY DEF Marks
<1>2. "h" \in Streams /\ "c" \in Streams /\ "t" \in Streams BY DEF Streams
<1>3. m[k]["h"] \in Nat /\ m[k]["c"] \in Nat /\ m[k]["t"] \in Nat BY <1>1, <1>2
<1> QED BY SMTT(30), <1>1, <1>3 DEF Units

\* An entry and what it takes.
LEMMA EntryIn ==
  ASSUME NEW m, NEW x, Layout(m, x), NEW k \in 1 .. Len(m) - 1, NEW s \in Streams
  PROVE  /\ m[k][s] \in Nat /\ m[k + 1][s] \in Nat /\ Size(m, k, s) \in Nat
         /\ m[k + 1][s] = m[k][s] + Skipped(s) + Size(m, k, s)
         /\ m[k + 1][s] <= Len(x[s]) /\ Len(x[s]) \in Nat /\ Skipped(s) \in 0 .. 1
         /\ (s = "h" => Skipped(s) = 1) /\ (s # "h" => Skipped(s) = 0)
         /\ First(m, k, s) \in Nat
<1>1. Marks(m) /\ HasEntry(m, x, k) /\ x[s] \in Seq(Item) BY DEF Layout
<1>2. Size(m, k, s) >= 0 /\ m[k + 1][s] <= Len(x[s]) /\ Len(x[s]) \in Nat BY <1>1 DEF HasEntry
<1>3. k \in 1 .. Len(m) /\ k + 1 \in 1 .. Len(m) /\ m[k] \in [Streams -> Nat] /\ m[k + 1] \in [Streams -> Nat]
      /\ Units(m, k) \in Nat
  BY <1>1, MarkIn
<1>4. m[k][s] \in Nat /\ m[k + 1][s] \in Nat BY <1>3
<1>5. Skipped(s) \in 0 .. 1 /\ (s = "h" => Skipped(s) = 1) /\ (s # "h" => Skipped(s) = 0) BY DEF Skipped
<1>6. Size(m, k, s) \in Nat /\ m[k + 1][s] = m[k][s] + Skipped(s) + Size(m, k, s)
  BY <1>2, <1>4, <1>5 DEF Size
<1>7. \A y \in Streams : Size(m, k, y) \in Nat
  <2>1. ASSUME NEW y \in Streams PROVE Size(m, k, y) \in Nat
    <3>1. Size(m, k, y) >= 0 BY <1>1 DEF HasEntry
    <3>2. m[k][y] \in Nat /\ m[k + 1][y] \in Nat BY <1>3
    <3>3. Skipped(y) \in Int BY DEF Skipped
    <3> QED BY <3>1, <3>2, <3>3 DEF Size
  <2> QED BY <2>1
<1>8. First(m, k, s) \in Nat
  <2>1. Size(m, k, "h") \in Nat /\ Size(m, k, "c") \in Nat BY <1>7 DEF Streams
  <2> QED BY <1>3, <2>1 DEF First
<1> QED BY <1>2, <1>4, <1>5, <1>6, <1>8

\* The header of an entry is within the header stream.
LEMMA HeaderFits ==
  ASSUME NEW m, NEW x, Layout(m, x), NEW k \in 1 .. Len(m) - 1
  PROVE  m[k]["h"] + 1 \in 1 .. Len(x["h"])
<1>1. "h" \in Streams BY DEF Streams
<1> QED BY <1>1, EntryIn

\* More data does not disturb the entries there are.
LEMMA LayoutMore ==
  ASSUME NEW m, NEW x, Layout(m, x), NEW y \in [Streams -> Seq(Item)],
         \A s \in Streams : /\ Len(x[s]) <= Len(y[s])
                            /\ \A i \in 1 .. Len(x[s]) : y[s][i] = x[s][i]
  PROVE  Layout(m, y)
<1>1. ASSUME NEW k \in 1 .. Len(m) - 1 PROVE HasEntry(m, y, k)
  <2>1. HasEntry(m, x, k) BY DEF Layout
  <2>2. y["h"][m[k]["h"] + 1] = x["h"][m[k]["h"] + 1]
    BY HeaderFits DEF Streams
  <2>3. ASSUME NEW s \in Streams
        PROVE  /\ Size(m, k, s) >= 0 /\ m[k + 1][s] <= Len(y[s])
               /\ \A i \in 1 .. Size(m, k, s) : y[s][m[k][s] + Skipped(s) + i] = Unit(First(m, k, s) + i)
    <3>1. /\ m[k][s] \in Nat /\ m[k + 1][s] = m[k][s] + Skipped(s) + Size(m, k, s)
          /\ m[k + 1][s] <= Len(x[s]) /\ Len(x[s]) \in Nat /\ Skipped(s) \in 0 .. 1
          /\ Size(m, k, s) \in Nat /\ Len(y[s]) \in Nat
      BY EntryIn
    <3>2. Size(m, k, s) >= 0 /\ m[k + 1][s] <= Len(y[s]) BY <3>1, EntryIn
    <3>3. ASSUME NEW i \in 1 .. Size(m, k, s)
          PROVE  y[s][m[k][s] + Skipped(s) + i] = Unit(First(m, k, s) + i)
      <4>1. m[k][s] + Skipped(s) + i \in 1 .. Len(x[s])
        <5> DEFINE a == m[k][s] + Skipped(s) l == Size(m, k, s) b == Len(x[s])
        <5>1. a \in Nat /\ l \in Nat /\ b \in Nat /\ i \in 1 .. l BY SMTT(30), <3>1
        <5>2. a + l <= b BY <3>1
        <5> HIDE DEF a, l, b
        <5>3. a + i \in 1 .. b BY <5>1, <5>2, Within
        <5> QED BY Zenon, <5>3 DEF a, b
      <4>2. x[s][m[k][s] + Skipped(s) + i] = Unit(First(m, k, s) + i) BY <2>1 DEF HasEntry
      <4> QED BY <4>1, <4>2
    <3> QED BY <3>2, <3>3
  <2> QED BY <2>1, <2>2, <2>3 DEF HasEntry
<1> QED BY <1>1 DEF Layout

\* Nor do more chunks put them out of line.
LEMMA AlignedMore ==
  ASSUME NEW m, NEW ch \in ChunkSeqs, NEW c \in Seq(Item), Aligned(m, ch)
  PROVE  Aligned(m, Append(ch, c))
<1>1. ASSUME NEW k \in 1 .. Len(m)
      PROVE  \E j \in 1 .. Len(Append(ch, c)) + 1 : Start(Append(ch, c), j) = m[k]["c"]
  <2>1. PICK j \in 1 .. Len(ch) + 1 : Start(ch, j) = m[k]["c"] BY DEF Aligned
  <2>2. Start(Append(ch, c), j) = m[k]["c"] BY <2>1, StartSame
  <2>3. Len(ch) \in Nat /\ Len(Append(ch, c)) = Len(ch) + 1 BY DEF ChunkSeqs
  <2> QED BY <2>2, <2>3
<1> QED BY <1>1 DEF Aligned

-----------------------------------------------------------------------------
(* The entry under way. *)

Last(m) == m[Len(m)]

\* What Writes says of the streams.
LEMMA WritesIs ==
  ASSUME NEW y, NEW hb, NEW cf, NEW total, NEW m, NEW x, Writes(y, hb, cf, total, m, x)
  PROVE  /\ y \in Entries /\ hb \in Seq(Item) /\ cf \in Seq(Item) /\ Layout(m, x) /\ Marks(m)
         /\ y.hs \in Stream /\ y.cs \in ChunkSeqs /\ y.ts \in Stream /\ y.clen \in Nat /\ y.tlen \in Nat
         /\ x \in [Streams -> Seq(Item)] /\ x["h"] \in Seq(Item) /\ x["c"] \in Seq(Item) /\ x["t"] \in Seq(Item)
         /\ Len(m) \in Nat /\ Len(m) >= 1 /\ Len(m) \in 1 .. Len(m)
         /\ Last(m)["h"] \in Nat /\ Last(m)["c"] \in Nat /\ Last(m)["t"] \in Nat
         /\ Units(m, Len(m)) \in Nat /\ Len(hb) \in Nat /\ Len(cf) \in Nat
         /\ Len(x["h"]) = Last(m)["h"] /\ Len(x["c"]) = Last(m)["c"] + y.clen
         /\ Len(x["t"]) = Last(m)["t"] + y.tlen
         /\ total = Units(m, Len(m)) + Len(hb) + y.clen + y.tlen + Len(cf) /\ total \in Nat
         /\ y = [hs |-> y.hs, cs |-> y.cs, ts |-> y.ts, clen |-> y.clen, tlen |-> y.tlen]
<1>1. y \in Entries /\ hb \in Seq(Item) /\ cf \in Seq(Item) /\ Layout(m, x)
  BY DEF Writes
<1>2. /\ y.hs \in Stream /\ y.cs \in ChunkSeqs /\ y.ts \in Stream /\ y.clen \in Nat /\ y.tlen \in Nat
      /\ y = [hs |-> y.hs, cs |-> y.cs, ts |-> y.ts, clen |-> y.clen, tlen |-> y.tlen]
  BY <1>1 DEF Entries
<1>3. Marks(m) /\ x \in [Streams -> Seq(Item)] BY <1>1 DEF Layout
<1>4. "h" \in Streams /\ "c" \in Streams /\ "t" \in Streams BY DEF Streams
<1>5. x["h"] \in Seq(Item) /\ x["c"] \in Seq(Item) /\ x["t"] \in Seq(Item) BY <1>3, <1>4
<1>6. Len(m) \in Nat /\ Len(m) >= 1 /\ Len(m) \in 1 .. Len(m) BY <1>3 DEF Marks
<1>7. /\ Last(m)["h"] \in Nat /\ Last(m)["c"] \in Nat /\ Last(m)["t"] \in Nat
      /\ Units(m, Len(m)) \in Nat
  BY <1>3, <1>6, MarkIn DEF Last
<1>8. \A s \in Streams : Len(x[s]) = m[Len(m)][s] + Under(y, m, s) BY DEF Writes
<1>9. /\ Len(x["h"]) = Last(m)["h"] /\ Len(x["c"]) = Last(m)["c"] + y.clen
      /\ Len(x["t"]) = Last(m)["t"] + y.tlen
  <2>1. Under(y, m, "h") = 0 /\ Under(y, m, "c") = y.clen /\ Under(y, m, "t") = y.tlen BY DEF Under
  <2>2. /\ Len(x["h"]) = m[Len(m)]["h"] + Under(y, m, "h")
        /\ Len(x["c"]) = m[Len(m)]["c"] + Under(y, m, "c")
        /\ Len(x["t"]) = m[Len(m)]["t"] + Under(y, m, "t")
    BY <1>4, <1>8
  <2> QED BY <2>1, <2>2, <1>7 DEF Last
<1>10. Len(hb) \in Nat /\ Len(cf) \in Nat BY <1>1
<1>11. total = Units(m, Len(m)) + Len(hb) + y.clen + y.tlen + Len(cf) BY DEF Writes
<1>12. total \in Nat BY <1>2, <1>7, <1>10, <1>11
<1> QED BY <1>1, <1>2, <1>3, <1>5, <1>6, <1>7, <1>9, <1>10, <1>11, <1>12, Zenon

\* A unit of data more in the chunkifier, or a whole chunk of it.
LEMMA WritesData ==
  ASSUME NEW y, NEW hb, NEW cf, NEW total, NEW m, NEW x, Writes(y, hb, cf, total, m, x),
         NEW d \in Seq(Item), \A i \in 1 .. Len(d) : d[i] = Unit(total + i)
  PROVE  Writes(y, hb, cf \o d, total + Len(d), m, x)
<1>1. /\ cf \in Seq(Item) /\ Len(cf) \in Nat /\ total \in Nat /\ y.clen \in Nat /\ y.tlen \in Nat
      /\ total = Units(m, Len(m)) + Len(hb) + y.clen + y.tlen + Len(cf) /\ Len(d) \in Nat
      /\ Units(m, Len(m)) \in Nat /\ Len(hb) \in Nat
  BY WritesIs
<1> DEFINE a == cf \o d
<1>2. /\ a \in Seq(Item) /\ Len(a) = Len(cf) + Len(d)
      /\ (\A i \in 1 .. Len(cf) : a[i] = cf[i]) /\ \A i \in 1 .. Len(d) : a[Len(cf) + i] = d[i]
  BY <1>1, ConcatIs
<1> HIDE DEF a
<1> DEFINE u == Units(m, Len(m)) + Len(hb) + y.clen + y.tlen
<1>3. \A i \in 1 .. Len(cf) : cf[i] = Unit(u + i) BY DEF Writes
<1>4. u \in Nat /\ total = u + Len(cf) BY SMTT(30), <1>1
<1> HIDE DEF u
<1>5. ASSUME NEW i \in 1 .. Len(a) PROVE a[i] = Unit(u + i)
  <2>1. CASE i <= Len(cf) BY <2>1, <1>1, <1>2, <1>3
  <2>2. CASE i > Len(cf)
    <3>1. PICK j \in 1 .. Len(d) : i = Len(cf) + j
      <4>1. i - Len(cf) \in 1 .. Len(d) /\ i = Len(cf) + (i - Len(cf)) BY <2>2, <1>1, <1>2
      <4> QED BY <4>1
    <3>2. a[i] = Unit(total + j) BY <3>1, <1>2
    <3>3. total + j = u + i BY <3>1, <1>1, <1>4
    <3> QED BY <3>2, <3>3
  <2> QED BY <2>1, <2>2, <1>1
<1>6. total + Len(d) = u + Len(a) BY <1>1, <1>2, <1>4
<1> QED BY <1>2, <1>5, <1>6 DEF Writes, a, u

\* A unit of the header.
LEMMA WritesHeader ==
  ASSUME NEW y, NEW hb, NEW total, NEW m, NEW x, Writes(y, hb, <<>>, total, m, x),
         y.clen = 0, y.tlen = 0, NEW d \in Item, d = Unit(total + 1)
  PROVE  Writes(y, Append(hb, d), <<>>, total + 1, m, x)
<1>1. /\ hb \in Seq(Item) /\ Len(hb) \in Nat /\ total \in Nat /\ <<>> \in Seq(Item)
      /\ total = Units(m, Len(m)) + Len(hb) + 0 + 0 + Len(<<>>) /\ Len(<<>>) = 0
      /\ Units(m, Len(m)) \in Nat
  BY WritesIs
<1>2. /\ Append(hb, d) \in Seq(Item) /\ Len(Append(hb, d)) = Len(hb) + 1
      /\ (\A i \in 1 .. Len(hb) : Append(hb, d)[i] = hb[i]) /\ Append(hb, d)[Len(hb) + 1] = d
  BY <1>1
<1>3. \A i \in 1 .. Len(hb) : hb[i] = Unit(Units(m, Len(m)) + i) BY DEF Writes
<1>4. total = Units(m, Len(m)) + Len(hb) BY <1>1
<1> DEFINE u == Units(m, Len(m)) a == Append(hb, d)
<1> HIDE DEF u, a
<1>5. ASSUME NEW i \in 1 .. Len(a) PROVE a[i] = Unit(u + i)
  <2>1. CASE i = Len(hb) + 1
    <3>1. total + 1 = u + i BY <2>1, <1>1, <1>4 DEF u
    <3> QED BY <2>1, <3>1, <1>2 DEF a
  <2>2. CASE i # Len(hb) + 1
    <3>1. i \in 1 .. Len(hb) BY <2>2, <1>1, <1>2 DEF a
    <3> QED BY <3>1, <1>2, <1>3 DEF a, u
  <2> QED BY <2>1, <2>2
<1>6. total + 1 = u + Len(a) + y.clen + y.tlen + Len(<<>>) BY <1>1, <1>2, <1>4 DEF a, u
<1>7. \A i \in 1 .. 0 : FALSE OBVIOUS
<1>8. /\ y \in Entries /\ Layout(m, x) /\ Aligned(m, y.cs)
      /\ Flat(AllOf(y.hs), x["h"]) /\ Flat(y.cs, x["c"]) /\ Flat(AllOf(y.ts), x["t"])
      /\ \A s \in Streams : Len(x[s]) = m[Len(m)][s] + Under(y, m, s)
  BY DEF Writes
<1>9. a \in Seq(Item) BY <1>2 DEF a
<1>10. Writes(y, a, <<>>, total + 1, m, x) BY <1>1, <1>5, <1>6, <1>7, <1>8, <1>9 DEF Writes, u
<1> QED BY <1>10 DEF a

\* The chunk stream with one chunk more.
LEMMA WritesChunk ==
  ASSUME NEW y, NEW hb, NEW ck, NEW total, NEW m, NEW x, Writes(y, hb, ck, total, m, x),
         y.tlen = 0, NEW b \in Nat, DataUpTo(x, b), total <= b,
         NEW z, z = [y EXCEPT !.cs = Append(@, ck), !.clen = @ + Len(ck)]
  PROVE  \E x1 : Writes(z, hb, <<>>, total, m, x1) /\ DataUpTo(x1, b)
<1> DEFINE d == x["c"] \o ck
           x1 == [x EXCEPT !["c"] = d]
           u == Units(m, Len(m)) + Len(hb)
<1>1. /\ y \in Entries /\ hb \in Seq(Item) /\ ck \in Seq(Item) /\ Layout(m, x)
      /\ y.hs \in Stream /\ y.cs \in ChunkSeqs /\ y.ts \in Stream /\ y.clen \in Nat
      /\ x \in [Streams -> Seq(Item)] /\ x["c"] \in Seq(Item)
      /\ Len(m) \in Nat /\ Last(m)["c"] \in Nat /\ Len(hb) \in Nat /\ Len(ck) \in Nat
      /\ Len(x["c"]) = Last(m)["c"] + y.clen /\ u \in Nat
      /\ total = u + y.clen + 0 + Len(ck)
      /\ y = [hs |-> y.hs, cs |-> y.cs, ts |-> y.ts, clen |-> y.clen, tlen |-> y.tlen]
  BY WritesIs
<1>2. /\ Aligned(m, y.cs) /\ Flat(AllOf(y.hs), x["h"]) /\ Flat(y.cs, x["c"]) /\ Flat(AllOf(y.ts), x["t"])
      /\ \A s \in Streams : Len(x[s]) = m[Len(m)][s] + Under(y, m, s)
      /\ \A i \in 1 .. Len(hb) : hb[i] = Unit(Units(m, Len(m)) + i)
      /\ \A i \in 1 .. y.clen : x["c"][m[Len(m)]["c"] + i] = Unit(u + i)
      /\ \A i \in 1 .. Len(ck) : ck[i] = Unit(u + y.clen + y.tlen + i)
  BY DEF Writes
<1>3. /\ d \in Seq(Item) /\ Len(d) = Len(x["c"]) + Len(ck)
      /\ (\A i \in 1 .. Len(x["c"]) : d[i] = x["c"][i]) /\ \A i \in 1 .. Len(ck) : d[Len(x["c"]) + i] = ck[i]
  BY <1>1, ConcatIs
<1>4. Append(y.cs, ck) \in ChunkSeqs /\ Aligned(m, Append(y.cs, ck)) /\ Flat(Append(y.cs, ck), d)
  BY <1>1, <1>2, StartLast, AlignedMore, FlatAppend
<1>0. /\ Len(x["c"]) \in Nat /\ Len(ck) \in Nat /\ y.clen \in Nat /\ u \in Nat
      /\ Len(x["c"]) = m[Len(m)]["c"] + y.clen /\ m[Len(m)]["c"] \in Nat
      /\ total = u + y.clen + Len(ck) /\ y.tlen = 0
  BY SMTT(30), <1>1 DEF Last
<1>14. d \in Seq(Item) /\ Len(d) = Len(x["c"]) + Len(ck) /\ Len(x["c"]) \in Nat /\ Len(ck) \in Nat
  BY <1>0, <1>3
<1> HIDE DEF d, u
<1>5. /\ z.hs = y.hs /\ z.cs = Append(y.cs, ck) /\ z.ts = y.ts /\ z.clen = y.clen + Len(ck) /\ z.tlen = 0
      /\ z \in Entries
  <2>1. y.clen + Len(ck) \in Nat BY <1>0
  <2>0. y = [hs |-> y.hs, cs |-> y.cs, ts |-> y.ts, clen |-> y.clen, tlen |-> y.tlen] BY <1>1
  <2>2. z = [hs |-> y.hs, cs |-> Append(y.cs, ck), ts |-> y.ts, clen |-> y.clen + Len(ck), tlen |-> y.tlen]
    <3> DEFINE cs1 == Append(y.cs, ck) l1 == y.clen + Len(ck)
    <3>1. z = [y EXCEPT !.cs = cs1, !.clen = l1] OBVIOUS
    <3> HIDE DEF cs1, l1
    <3>2. z = [hs |-> y.hs, cs |-> cs1, ts |-> y.ts, clen |-> l1, tlen |-> y.tlen] BY <2>0, <3>1
    <3> QED BY <3>2 DEF cs1, l1
  <2>3. y.tlen \in Nat BY <1>0
  <2> QED BY <2>1, <2>2, <2>3, <1>0, <1>1, <1>4 DEF Entries
<1>6. /\ x1 \in [Streams -> Seq(Item)] /\ x1["h"] = x["h"] /\ x1["t"] = x["t"] /\ x1["c"] = d
  BY <1>1, <1>3 DEF Streams
<1> HIDE DEF x1
<1>7. Layout(m, x1)
  <2>1. ASSUME NEW s \in Streams
        PROVE  Len(x[s]) <= Len(x1[s]) /\ \A i \in 1 .. Len(x[s]) : x1[s][i] = x[s][i]
    <3>1. CASE s = "c"
      <4>1. Len(x["c"]) <= Len(d) BY <1>0, <1>3
      <4> QED BY <3>1, <4>1, <1>3, <1>6
    <3>2. CASE s # "c"
      <4>1. x1[s] = x[s] BY <3>2, <1>6 DEF Streams
      <4>2. Len(x[s]) \in Nat BY <1>1
      <4> QED BY <4>1, <4>2
    <3> QED BY <3>1, <3>2
  <2>2. Layout(m, x) BY <1>1
  <2>3. x1 \in [Streams -> Seq(Item)] BY <1>6
  <2> QED BY <2>1, <2>2, <2>3, LayoutMore
<1>8. ASSUME NEW s \in Streams PROVE Len(x1[s]) = m[Len(m)][s] + Under(z, m, s)
  <2>1. CASE s = "c"
    <3>1. Under(z, m, s) = y.clen + Len(ck) BY <2>1, <1>5 DEF Under
    <3>2. Len(d) = m[Len(m)]["c"] + (y.clen + Len(ck)) BY SMTT(30), <1>0, <1>14
    <3> QED BY <2>1, <3>1, <3>2, <1>6
  <2>2. CASE s # "c"
    <3>1. Under(z, m, s) = Under(y, m, s) BY <2>2, <1>5 DEF Under
    <3>2. x1[s] = x[s] BY <2>2, <1>6 DEF Streams
    <3> QED BY <3>1, <3>2, <1>2
  <2> QED BY <2>1, <2>2
<1>15. z.clen = y.clen + Len(ck) /\ y.clen \in Nat /\ Len(ck) \in Nat BY <1>0, <1>5
<1>16. Len(x["c"]) = m[Len(m)]["c"] + y.clen /\ m[Len(m)]["c"] \in Nat /\ y.clen \in Nat BY <1>0
<1>9. ASSUME NEW i \in 1 .. z.clen PROVE x1["c"][m[Len(m)]["c"] + i] = Unit(u + i)
  <2>1. CASE i <= y.clen
    <3>0. i \in 1 .. y.clen BY <2>1, <1>15
    <3>1. i \in 1 .. y.clen /\ m[Len(m)]["c"] + i \in 1 .. Len(x["c"]) BY <3>0, <1>16
    <3>2. x["c"][m[Len(m)]["c"] + i] = Unit(u + i) BY <3>1, <1>2
    <3> QED BY <3>1, <3>2, <1>3, <1>6
  <2>2. CASE i > y.clen
    <3>1. PICK j \in 1 .. Len(ck) : i = y.clen + j
      <4>1. i - y.clen \in 1 .. Len(ck) /\ i = y.clen + (i - y.clen) BY <2>2, <1>15
      <4> QED BY <4>1
    <3>2. m[Len(m)]["c"] + i = Len(x["c"]) + j BY <3>1, <1>16
    <3>3. u + y.clen + y.tlen + j = u + i BY <3>1, <1>0
    <3>4. ck[j] = Unit(u + y.clen + y.tlen + j) BY <1>2
    <3> QED BY <3>1, <3>2, <3>3, <3>4, <1>3, <1>6
  <2> QED BY <2>1, <2>2, <1>0, <1>5
<1>10. DataUpTo(x1, b)
  <2>1. ASSUME NEW i \in 1 .. Len(d) PROVE d[i].unit <= b
    <3>1. CASE i <= Len(x["c"])
      <4>1. i \in 1 .. Len(x["c"]) BY <3>1, <1>0, <1>3
      <4>2. x["c"][i].unit <= b BY <4>1 DEF DataUpTo
      <4> QED BY <4>1, <4>2, <1>3
    <3>2. CASE i > Len(x["c"])
      <4>1. PICK j \in 1 .. Len(ck) : i = Len(x["c"]) + j
        <5>1. i - Len(x["c"]) \in 1 .. Len(ck) /\ i = Len(x["c"]) + (i - Len(x["c"])) BY <3>2, <1>14
        <5> QED BY <5>1
      <4>2. d[i] = Unit(u + y.clen + y.tlen + j) BY <4>1, <1>2, <1>3
      <4>3. u + y.clen + y.tlen + j <= b BY <1>0
      <4> QED BY <4>2, <4>3 DEF Unit
    <3> QED BY <3>1, <3>2, <1>0
  <2> QED BY <2>1, <1>6 DEF DataUpTo
<1>11. <<>> \in Seq(Item) /\ Len(<<>>) = 0 /\ (\A i \in 1 .. 0 : FALSE) OBVIOUS
<1>12. total = u + z.clen + z.tlen + Len(<<>>) BY <1>0, <1>5, <1>11
<1>13. Writes(z, hb, <<>>, total, m, x1)
  <2>1. \A i \in 1 .. z.tlen : FALSE BY <1>5
  <2>2. \A i \in 1 .. Len(<<>>) : FALSE BY <1>11
  <2> QED BY <1>1, <1>2, <1>4, <1>5, <1>6, <1>7, <1>8, <1>9, <1>11, <1>12, <2>1, <2>2 DEF Writes, u
<1> QED BY <1>10, <1>13

\* The trailer stream with the trailer of the file.
LEMMA WritesTrailer ==
  ASSUME NEW y, NEW hb, NEW ck, NEW total, NEW m, NEW x, Writes(y, hb, ck, total, m, x),
         y.tlen = 0, NEW z, z.ts \in Written(y.ts, ck),
         z = [hs |-> y.hs, cs |-> y.cs, ts |-> z.ts, clen |-> y.clen, tlen |-> Len(ck)]
  PROVE  \E x1 : Writes(z, hb, <<>>, total, m, x1) /\ x1["c"] = x["c"]
<1> DEFINE l1 == Len(ck)
           d == x["t"] \o ck
           x1 == [x EXCEPT !["t"] = d]
           u == Units(m, Len(m)) + Len(hb)
<1>1. /\ y \in Entries /\ hb \in Seq(Item) /\ ck \in Seq(Item) /\ Layout(m, x)
      /\ y.hs \in Stream /\ y.cs \in ChunkSeqs /\ y.ts \in Stream /\ y.clen \in Nat
      /\ x \in [Streams -> Seq(Item)] /\ x["t"] \in Seq(Item)
      /\ Len(m) \in Nat /\ Last(m)["t"] \in Nat /\ Len(hb) \in Nat /\ Len(ck) \in Nat
      /\ Len(x["t"]) = Last(m)["t"] + 0 /\ u \in Nat
      /\ total = u + y.clen + 0 + Len(ck)
      /\ y = [hs |-> y.hs, cs |-> y.cs, ts |-> y.ts, clen |-> y.clen, tlen |-> y.tlen]
  BY WritesIs
<1>2. /\ Aligned(m, y.cs) /\ Flat(AllOf(y.hs), x["h"]) /\ Flat(y.cs, x["c"]) /\ Flat(AllOf(y.ts), x["t"])
      /\ \A s \in Streams : Len(x[s]) = m[Len(m)][s] + Under(y, m, s)
      /\ \A i \in 1 .. Len(hb) : hb[i] = Unit(Units(m, Len(m)) + i)
      /\ \A i \in 1 .. y.clen : x["c"][m[Len(m)]["c"] + i] = Unit(u + i)
      /\ \A i \in 1 .. Len(ck) : ck[i] = Unit(u + y.clen + y.tlen + i)
  BY DEF Writes
<1>3. /\ d \in Seq(Item) /\ Len(d) = Len(x["t"]) + Len(ck)
      /\ (\A i \in 1 .. Len(x["t"]) : d[i] = x["t"][i]) /\ \A i \in 1 .. Len(ck) : d[Len(x["t"]) + i] = ck[i]
  BY <1>1, ConcatIs
<1>4. z.ts \in Stream /\ Flat(AllOf(z.ts), d)
  BY <1>1, <1>2, WrittenFlat
<1>0. /\ Len(x["t"]) \in Nat /\ Len(ck) \in Nat /\ y.clen \in Nat /\ u \in Nat
      /\ Len(x["t"]) = m[Len(m)]["t"] /\ m[Len(m)]["t"] \in Nat
      /\ total = u + y.clen + Len(ck) /\ y.tlen = 0
  BY <1>1 DEF Last
<1>14. d \in Seq(Item) /\ Len(d) = Len(x["t"]) + Len(ck) /\ Len(x["t"]) \in Nat /\ Len(ck) \in Nat
       /\ l1 = Len(ck) /\ l1 \in Nat
  BY <1>0, <1>3
<1> HIDE DEF d, u, l1
<1>5. /\ z.hs = y.hs /\ z.cs = y.cs /\ z.clen = y.clen /\ z.tlen = l1 /\ z \in Entries
  <2>2. z = [hs |-> y.hs, cs |-> y.cs, ts |-> z.ts, clen |-> y.clen, tlen |-> l1] BY DEF l1
  <2> QED BY <2>2, <1>1, <1>4, <1>14 DEF Entries
<1>6. /\ x1 \in [Streams -> Seq(Item)] /\ x1["h"] = x["h"] /\ x1["c"] = x["c"] /\ x1["t"] = d
  BY <1>1, <1>3 DEF Streams
<1> HIDE DEF x1
<1>7. Layout(m, x1)
  <2>1. ASSUME NEW s \in Streams
        PROVE  Len(x[s]) <= Len(x1[s]) /\ \A i \in 1 .. Len(x[s]) : x1[s][i] = x[s][i]
    <3>1. CASE s = "t"
      <4>1. Len(x["t"]) <= Len(d) BY <1>14
      <4> QED BY <3>1, <4>1, <1>3, <1>6
    <3>2. CASE s # "t"
      <4>1. x1[s] = x[s] BY <3>2, <1>6 DEF Streams
      <4>2. Len(x[s]) \in Nat BY <1>1
      <4> QED BY <4>1, <4>2
    <3> QED BY <3>1, <3>2
  <2>2. Layout(m, x) BY <1>1
  <2>3. x1 \in [Streams -> Seq(Item)] BY <1>6
  <2> QED BY <2>1, <2>2, <2>3, LayoutMore
<1>8. ASSUME NEW s \in Streams PROVE Len(x1[s]) = m[Len(m)][s] + Under(z, m, s)
  <2>1. CASE s = "t"
    <3>1. Under(z, m, s) = l1 BY <2>1, <1>5 DEF Under
    <3>2. Len(d) = m[Len(m)]["t"] + l1 BY <1>0, <1>14
    <3> QED BY <2>1, <3>1, <3>2, <1>6
  <2>2. CASE s # "t"
    <3>1. Under(z, m, s) = Under(y, m, s) BY <2>2, <1>5 DEF Under
    <3>2. x1[s] = x[s] BY <2>2, <1>6 DEF Streams
    <3> QED BY <3>1, <3>2, <1>2
  <2> QED BY <2>1, <2>2
<1>9. ASSUME NEW i \in 1 .. l1 PROVE x1["t"][m[Len(m)]["t"] + i] = Unit(u + z.clen + i)
  <2>1. i \in 1 .. Len(ck) BY <1>14
  <2>2. d[Len(x["t"]) + i] = ck[i] BY <2>1, <1>3
  <2>3. ck[i] = Unit(u + y.clen + y.tlen + i) BY <2>1, <1>2
  <2>4. u + y.clen + y.tlen + i = u + z.clen + i BY <1>0, <1>5
  <2> QED BY <2>2, <2>3, <2>4, <1>0, <1>6
<1>10. \A i \in 1 .. z.clen : x1["c"][m[Len(m)]["c"] + i] = Unit(u + i) BY <1>2, <1>5, <1>6
<1>11. <<>> \in Seq(Item) /\ Len(<<>>) = 0 /\ (\A i \in 1 .. 0 : FALSE) OBVIOUS
<1>12. total = u + z.clen + z.tlen + Len(<<>>) BY <1>0, <1>5, <1>11, <1>14
<1>13. Writes(z, hb, <<>>, total, m, x1)
  <2>2. \A i \in 1 .. Len(<<>>) : FALSE BY <1>11
  <2> QED BY <1>1, <1>2, <1>4, <1>5, <1>6, <1>7, <1>8, <1>9, <1>10, <1>11, <1>12, <2>2 DEF Writes, u
<1> QED BY <1>6, <1>13

\* chunkify_end of the file's data.
LEMMA PassOutWrites ==
  ASSUME NEW y, NEW hb, NEW ck, NEW total, NEW m, NEW x, Writes(y, hb, ck, total, m, x),
         y.tlen = 0, NEW b \in Nat, DataUpTo(x, b), total <= b, NEW z \in PassOut(y, ck)
  PROVE  /\ \E x1 : Writes(z, hb, <<>>, total, m, x1) /\ DataUpTo(x1, b)
         /\ Len(ck) >= MinChunk => z.tlen = 0
<1>0. MinChunk \in Nat /\ Len(ck) \in Nat /\ y = [hs |-> y.hs, cs |-> y.cs, ts |-> y.ts, clen |-> y.clen, tlen |-> y.tlen]
  BY TapeAssumption, WritesIs
<1>1. CASE Len(ck) < MinChunk
  <2>1. PICK s \in Written(y.ts, ck) : z = [y EXCEPT !.ts = s, !.tlen = Len(ck)]
    BY <1>1 DEF PassOut
  <2>2. PICK x1 : Writes(z, hb, <<>>, total, m, x1) /\ x1["c"] = x["c"]
    <3>1. z = [hs |-> y.hs, cs |-> y.cs, ts |-> z.ts, clen |-> y.clen, tlen |-> Len(ck)] BY <1>0, <2>1
    <3>2. z.ts \in Written(y.ts, ck) BY <1>0, <2>1
    <3> QED BY <3>1, <3>2, WritesTrailer
  <2> QED BY <2>2, <1>0, <1>1 DEF DataUpTo
<1>2. CASE ~(Len(ck) < MinChunk)
  <2>1. z = [y EXCEPT !.cs = Append(@, ck), !.clen = @ + Len(ck)] BY <1>2 DEF PassOut
  <2>2. z.tlen = 0 BY <1>0, <2>1
  <2>3. \E x1 : Writes(z, hb, <<>>, total, m, x1) /\ DataUpTo(x1, b) BY <2>1, WritesChunk
  <2> QED BY <2>2, <2>3
<1> QED BY <1>1, <1>2

\* The same for a file that may have no data in the chunkifier.
LEMMA EndFileWrites ==
  ASSUME NEW y, NEW hb, NEW ck, NEW total, NEW m, NEW x, Writes(y, hb, ck, total, m, x),
         y.tlen = 0, NEW b \in Nat, DataUpTo(x, b), total <= b, NEW z \in EndFile(y, ck)
  PROVE  \E x1 : Writes(z, hb, <<>>, total, m, x1) /\ DataUpTo(x1, b)
<1>1. CASE ck = <<>>
  <2>1. z = y BY <1>1 DEF EndFile
  <2> QED BY <1>1, <2>1
<1>2. CASE ck # <<>>
  <2>1. z \in PassOut(y, ck) BY <1>2 DEF EndFile
  <2> QED BY <2>1, PassOutWrites
<1> QED BY <1>1, <1>2

\* An entry is where its marks say, whatever other marks there are.
LEMMA EntrySame ==
  ASSUME NEW m, NEW m1, NEW x, NEW k, m1[k] = m[k], m1[k + 1] = m[k + 1], HasEntry(m, x, k)
  PROVE  HasEntry(m1, x, k)
<1>1. \A s : Size(m1, k, s) = Size(m, k, s) BY DEF Size
<1>2. Units(m1, k) = Units(m, k) BY DEF Units
<1>3. \A s : First(m1, k, s) = First(m, k, s) BY <1>1, <1>2 DEF First
<1> QED BY <1>1, <1>3 DEF HasEntry

\* endentry, when the header and what there is of the file are complete.
LEMMA EndEntryWrites ==
  ASSUME NEW y, NEW hb, NEW total, NEW m, NEW x, Writes(y, hb, <<>>, total, m, x),
         NEW z \in EndEntry(y, hb)
  PROVE  /\ \E m1, x1 : Writes(z, <<>>, <<>>, total, m1, x1) /\ x1["c"] = x["c"]
         /\ z.clen = 0 /\ z.tlen = 0
<1> DEFINE hd == EntryHeader(Len(hb), y.clen, y.tlen)
           items == <<hd>> \o hb
           d == x["h"] \o items
           x1 == [x EXCEPT !["h"] = d]
           k == Len(m)
           mk == [s \in Streams |-> Len(x1[s])]
           m1 == Append(m, mk)
           u == Units(m, k)
<1>1. /\ y \in Entries /\ hb \in Seq(Item) /\ Layout(m, x) /\ Marks(m)
      /\ y.hs \in Stream /\ y.cs \in ChunkSeqs /\ y.ts \in Stream
      /\ x \in [Streams -> Seq(Item)] /\ x["h"] \in Seq(Item)
      /\ y = [hs |-> y.hs, cs |-> y.cs, ts |-> y.ts, clen |-> y.clen, tlen |-> y.tlen]
  BY WritesIs
<1>2. /\ k \in Nat /\ k >= 1 /\ y.clen \in Nat /\ y.tlen \in Nat /\ Len(hb) \in Nat
      /\ m[k]["h"] \in Nat /\ m[k]["c"] \in Nat /\ m[k]["t"] \in Nat /\ u \in Nat
      /\ Len(x["h"]) = m[k]["h"] /\ Len(x["c"]) = m[k]["c"] + y.clen
      /\ Len(x["t"]) = m[k]["t"] + y.tlen
      /\ u = m[k]["h"] - (k - 1) + m[k]["c"] + m[k]["t"] /\ k - 1 <= m[k]["h"]
  <2>1. k \in 1 .. Len(m) /\ k \in Nat /\ k >= 1 BY WritesIs
  <2>2. k - 1 <= m[k]["h"] BY <1>1, <2>1 DEF Marks
  <2>3. /\ m[k]["h"] \in Nat /\ m[k]["c"] \in Nat /\ m[k]["t"] \in Nat /\ u \in Nat
        /\ y.clen \in Nat /\ y.tlen \in Nat /\ Len(hb) \in Nat
        /\ Len(x["h"]) = m[k]["h"] /\ Len(x["c"]) = m[k]["c"] + y.clen
        /\ Len(x["t"]) = m[k]["t"] + y.tlen
    BY WritesIs DEF Last
  <2>4. u = m[k]["h"] - (k - 1) + m[k]["c"] + m[k]["t"] BY DEF Units
  <2> QED BY <2>1, <2>2, <2>3, <2>4
<1>3. total = u + Len(hb) + y.clen + y.tlen
  <2>1. total = u + Len(hb) + y.clen + y.tlen + Len(<<>>) BY DEF Writes
  <2>2. Len(<<>>) = 0 OBVIOUS
  <2>3. u + Len(hb) + y.clen + y.tlen \in Nat
    <3>1. u \in Nat /\ Len(hb) \in Nat /\ y.clen \in Nat /\ y.tlen \in Nat BY <1>2
    <3> HIDE DEF u
    <3> QED BY <3>1
  <2> HIDE DEF u
  <2> QED BY <2>1, <2>2, <2>3
<1>4. /\ Aligned(m, y.cs) /\ Flat(AllOf(y.hs), x["h"]) /\ Flat(y.cs, x["c"]) /\ Flat(AllOf(y.ts), x["t"])
      /\ \A i \in 1 .. Len(hb) : hb[i] = Unit(u + i)
      /\ \A i \in 1 .. y.clen : x["c"][m[k]["c"] + i] = Unit(u + Len(hb) + i)
      /\ \A i \in 1 .. y.tlen : x["t"][m[k]["t"] + i] = Unit(u + Len(hb) + y.clen + i)
  BY DEF Writes
<1>5. hd \in Item
  <2>1. Lengths(Len(hb), y.clen, y.tlen) \in [Streams -> Nat] BY <1>2 DEF Lengths, Streams
  <2> QED BY <2>1 DEF EntryHeader, Item
<1> HIDE DEF hd
<1>6. /\ items \in Seq(Item) /\ Len(items) = 1 + Len(hb) /\ items[1] = hd
      /\ \A i \in 1 .. Len(hb) : items[1 + i] = hb[i]
  <2>1. <<hd>> \in Seq(Item) /\ Len(<<hd>>) = 1 /\ <<hd>>[1] = hd BY <1>5
  <2>2. /\ items \in Seq(Item) /\ Len(items) = Len(<<hd>>) + Len(hb)
        /\ (\A i \in 1 .. Len(<<hd>>) : items[i] = <<hd>>[i])
        /\ \A i \in 1 .. Len(hb) : items[Len(<<hd>>) + i] = hb[i]
    BY <1>1, <2>1, ConcatIs
  <2> HIDE DEF items
  <2> QED BY <2>1, <2>2
<1>7. PICK hs1 \in Written(y.hs, items) : z = [y EXCEPT !.hs = hs1, !.clen = 0, !.tlen = 0]
  BY DEF EndEntry, hd
<1> HIDE DEF items
<1>8. hs1 \in Stream /\ Flat(AllOf(hs1), d) BY <1>1, <1>4, <1>6, <1>7, WrittenFlat
<1>9. /\ d \in Seq(Item) /\ Len(d) = Len(x["h"]) + Len(items)
      /\ (\A i \in 1 .. Len(x["h"]) : d[i] = x["h"][i]) /\ \A i \in 1 .. Len(items) : d[Len(x["h"]) + i] = items[i]
  BY <1>1, <1>6, ConcatIs
<1>10. Len(d) = m[k]["h"] + 1 + Len(hb) /\ Len(x["h"]) <= Len(d)
  <2>1. Len(d) = Len(x["h"]) + Len(items) BY <1>9
  <2>2. Len(items) = 1 + Len(hb) BY <1>6
  <2>3. Len(x["h"]) = m[k]["h"] /\ m[k]["h"] \in Nat /\ Len(hb) \in Nat BY <1>2
  <2> DEFINE ah == m[k]["h"] lx == Len(x["h"]) li == Len(items) ld == Len(d) lh == Len(hb)
  <2>4. ld = lx + li /\ li = 1 + lh /\ lx = ah /\ ah \in Nat /\ lh \in Nat BY <2>1, <2>2, <2>3
  <2> HIDE DEF ah, lx, li, ld, lh
  <2>5. ld = ah + 1 + lh /\ lx <= ld BY <2>4
  <2> QED BY <2>5 DEF ah, lx, li, ld, lh
<1>30. /\ k \in Nat /\ k >= 1 /\ u \in Nat /\ Len(hb) \in Nat /\ y.clen \in Nat /\ y.tlen \in Nat
       /\ total = u + Len(hb) + y.clen + y.tlen
  BY <1>2, <1>3
<1>31. k \in 1 .. Len(m) /\ Len(m) = k BY <1>2
<1> HIDE DEF d, k, u
<1>11. /\ z.hs = hs1 /\ z.cs = y.cs /\ z.ts = y.ts /\ z.clen = 0 /\ z.tlen = 0 /\ z \in Entries
  <2>1. z = [hs |-> hs1, cs |-> y.cs, ts |-> y.ts, clen |-> 0, tlen |-> 0] BY <1>1, <1>7
  <2> QED BY <2>1, <1>1, <1>8 DEF Entries
<1>12. /\ x1 \in [Streams -> Seq(Item)] /\ x1["h"] = d /\ x1["c"] = x["c"] /\ x1["t"] = x["t"]
  BY <1>1, <1>9 DEF Streams
<1> HIDE DEF x1
<1>13. Layout(m, x1)
  <2>1. ASSUME NEW s \in Streams
        PROVE  Len(x[s]) <= Len(x1[s]) /\ \A i \in 1 .. Len(x[s]) : x1[s][i] = x[s][i]
    <3>1. CASE s = "h" BY <3>1, <1>9, <1>10, <1>12
    <3>2. CASE s # "h"
      <4>1. x1[s] = x[s] BY <3>2, <1>12 DEF Streams
      <4>2. Len(x[s]) \in Nat BY <1>1
      <4> QED BY <4>1, <4>2
    <3> QED BY <3>1, <3>2
  <2>2. Layout(m, x) BY <1>1
  <2>3. x1 \in [Streams -> Seq(Item)] BY <1>12
  <2> QED BY <2>1, <2>2, <2>3, LayoutMore
<1>14. /\ mk \in [Streams -> Nat] /\ mk["h"] = m[k]["h"] + 1 + Len(hb) /\ mk["c"] = m[k]["c"] + y.clen
       /\ mk["t"] = m[k]["t"] + y.tlen /\ \A s \in Streams : mk[s] = Len(x1[s])
  <2>1. \A s \in Streams : Len(x1[s]) \in Nat BY <1>12
  <2> QED BY <2>1, <1>2, <1>10, <1>12 DEF Streams
<1> HIDE DEF mk
<1>15. /\ m1 \in Seq([Streams -> Nat]) /\ Len(m1) = k + 1 /\ m1[k + 1] = mk
       /\ \A j \in 1 .. k : m1[j] = m[j]
  BY SMTT(30), <1>1, <1>14, <1>31 DEF Marks
<1>33. m1[1] = m[1]
  <2>1. 1 \in 1 .. k BY <1>30
  <2> QED BY <2>1, <1>15
<1>34. Len(m1) = k + 1 /\ m1[k + 1] = mk /\ m1[k] = m[k] BY <1>15, <1>30
<1> HIDE DEF m1
<1>16. Marks(m1)
  <2>1. m1[1] = Lengths(0, 0, 0) BY <1>1, <1>30, <1>33 DEF Marks
  <2>2. ASSUME NEW j \in 1 .. Len(m1) PROVE j - 1 <= m1[j]["h"]
    <3>1. CASE j = k + 1
      <4>1. (k + 1) - 1 <= m[k]["h"] + 1 + Len(hb)
        <5>1. m[k]["h"] \in Nat /\ k - 1 <= m[k]["h"] BY <1>2
        <5> QED BY <5>1, <1>30
      <4>2. m1[k + 1]["h"] = m[k]["h"] + 1 + Len(hb) BY <1>14, <1>34
      <4> DEFINE a == m[k]["h"] + 1 + Len(hb)
      <4>3. m1[j]["h"] = a BY <3>1, <4>2, Zenon
      <4>4. j - 1 <= a BY <3>1, <4>1, Zenon
      <4> HIDE DEF a
      <4> QED BY <4>3, <4>4
    <3>2. CASE j # k + 1
      <4>1. j \in 1 .. k BY <3>2, <1>30, <1>15
      <4>2. j - 1 <= m[j]["h"] BY <4>1, <1>1, <1>31 DEF Marks
      <4> QED BY <4>1, <4>2, <1>15
    <3> QED BY <3>1, <3>2
  <2>3. Len(m1) >= 1 BY <1>2, <1>15
  <2> QED BY <2>1, <2>2, <2>3, <1>15 DEF Marks
<1>32. m1[k] = m[k] /\ m1[k + 1] = mk BY <1>34
<1>17. Units(m1, k + 1) = total /\ Units(m1, k) = u
  <2>0. \A j : Units(m1, j) = m1[j]["h"] - (j - 1) + m1[j]["c"] + m1[j]["t"] BY DEF Units
  <2>1. Units(m1, k + 1) = mk["h"] - ((k + 1) - 1) + mk["c"] + mk["t"]
    <3>1. Units(m1, k + 1) = m1[k + 1]["h"] - ((k + 1) - 1) + m1[k + 1]["c"] + m1[k + 1]["t"] BY <2>0, Zenon
    <3>2. m1[k + 1] = mk BY <1>32
    <3> QED BY <3>1, <3>2, Zenon
  <2>2. Units(m1, k) = u BY <1>32 DEF Units, u
  <2>3. mk["h"] - ((k + 1) - 1) + mk["c"] + mk["t"] = total
    <3>1. /\ m[k]["h"] \in Nat /\ m[k]["c"] \in Nat /\ m[k]["t"] \in Nat
          /\ u = m[k]["h"] - (k - 1) + m[k]["c"] + m[k]["t"]
      BY <1>2
    <3>2. /\ mk["h"] = m[k]["h"] + 1 + Len(hb) /\ mk["c"] = m[k]["c"] + y.clen /\ mk["t"] = m[k]["t"] + y.tlen
      BY <1>14
    <3> DEFINE ah == m[k]["h"] ac == m[k]["c"] at == m[k]["t"] lh == Len(hb) cl == y.clen tl == y.tlen
    <3>3. /\ ah \in Nat /\ ac \in Nat /\ at \in Nat /\ u = ah - (k - 1) + ac + at
          /\ lh \in Nat /\ cl \in Nat /\ tl \in Nat /\ k \in Nat /\ total = u + lh + cl + tl
      BY <3>1, <1>30
    <3>4. mk["h"] = ah + 1 + lh /\ mk["c"] = ac + cl /\ mk["t"] = at + tl BY <3>2
    <3> HIDE DEF ah, ac, at, lh, cl, tl
    <3> QED BY <3>3, <3>4
  <2> QED BY <2>1, <2>2, <2>3
<1>18. HasEntry(m1, x1, k)
  <2>1. m1[k] = m[k] /\ m1[k + 1] = mk BY <1>32
  <2>2. Size(m1, k, "h") = Len(hb)
    <3>1. mk["h"] = m[k]["h"] + 1 + Len(hb) /\ m[k]["h"] \in Nat /\ Len(hb) \in Nat BY <1>2, <1>14
    <3> QED BY <2>1, <3>1 DEF Size, Skipped
  <2>3. Size(m1, k, "c") = y.clen
    <3>1. mk["c"] = m[k]["c"] + y.clen /\ m[k]["c"] \in Nat /\ y.clen \in Nat BY <1>2, <1>14
    <3> QED BY <2>1, <3>1 DEF Size, Skipped
  <2>4. Size(m1, k, "t") = y.tlen
    <3>1. mk["t"] = m[k]["t"] + y.tlen /\ m[k]["t"] \in Nat /\ y.tlen \in Nat BY <1>2, <1>14
    <3> QED BY <2>1, <3>1 DEF Size, Skipped
  <2>5. x1["h"][m1[k]["h"] + 1] = EntryHeader(Size(m1, k, "h"), Size(m1, k, "c"), Size(m1, k, "t"))
    <3>1. 1 \in 1 .. Len(items) BY <1>2, <1>6
    <3>2. d[Len(x["h"]) + 1] = hd BY <3>1, <1>6, <1>9
    <3>3. Len(x["h"]) + 1 = m1[k]["h"] + 1 BY <2>1, <1>2
    <3> QED BY <3>2, <3>3, <2>2, <2>3, <2>4, <1>12 DEF hd
  <2>6. First(m1, k, "h") = u /\ First(m1, k, "c") = u + Len(hb) /\ First(m1, k, "t") = u + Len(hb) + y.clen
    BY SMTT(30), <2>2, <2>3, <1>30, <1>17 DEF First
  <2>7. ASSUME NEW i \in 1 .. Len(hb) PROVE x1["h"][m[k]["h"] + 1 + i] = Unit(u + i)
    <3>1. 1 + i \in 1 .. Len(items) BY <1>30, <1>6
    <3>2. d[Len(x["h"]) + (1 + i)] = items[1 + i] BY <3>1, <1>9
    <3>3. Len(x["h"]) + (1 + i) = m[k]["h"] + 1 + i
      <4>1. Len(x["h"]) = m[k]["h"] /\ m[k]["h"] \in Nat BY <1>2
      <4> QED BY <4>1
    <3>4. items[1 + i] = Unit(u + i) BY <1>4, <1>6
    <3> QED BY <3>2, <3>3, <3>4, <1>12
  <2>8. ASSUME NEW s \in Streams
        PROVE  /\ Size(m1, k, s) >= 0 /\ m1[k + 1][s] <= Len(x1[s])
               /\ \A i \in 1 .. Size(m1, k, s) : x1[s][m1[k][s] + Skipped(s) + i] = Unit(First(m1, k, s) + i)
    <3>0. m1[k + 1][s] <= Len(x1[s])
      <4>1. Len(x1[s]) \in Nat /\ mk[s] = Len(x1[s]) BY <1>12, <1>14
      <4> QED BY <4>1, <2>1
    <3>1. CASE s = "h"
      <4>1. Skipped(s) = 1 /\ Size(m1, k, s) = Len(hb) /\ First(m1, k, s) = u /\ m1[k][s] = m[k]["h"]
        BY <3>1, <2>1, <2>2, <2>6 DEF Skipped
      <4> QED BY <3>0, <3>1, <4>1, <2>7, <1>30
    <3>2. CASE s = "c"
      <4>1. Skipped(s) = 0 /\ Size(m1, k, s) = y.clen /\ First(m1, k, s) = u + Len(hb) /\ m1[k][s] = m[k]["c"]
        BY <3>2, <2>1, <2>3, <2>6 DEF Skipped
      <4>2. m[k]["c"] \in Nat BY <1>2
      <4>3. \A i \in 1 .. y.clen : m[k]["c"] + 0 + i = m[k]["c"] + i BY <4>2
      <4>4. \A i \in 1 .. y.clen : x["c"][m[k]["c"] + i] = Unit(u + Len(hb) + i) BY <1>4
      <4> QED BY SMTT(30), <3>0, <3>2, <4>1, <4>3, <4>4, <1>30, <1>12
    <3>3. CASE s = "t"
      <4>1. Skipped(s) = 0 /\ Size(m1, k, s) = y.tlen /\ First(m1, k, s) = u + Len(hb) + y.clen /\ m1[k][s] = m[k]["t"]
        BY <3>3, <2>1, <2>4, <2>6 DEF Skipped
      <4>2. m[k]["t"] \in Nat BY <1>2
      <4>3. \A i \in 1 .. y.tlen : m[k]["t"] + 0 + i = m[k]["t"] + i BY <4>2
      <4>4. \A i \in 1 .. y.tlen : x["t"][m[k]["t"] + i] = Unit(u + Len(hb) + y.clen + i) BY <1>4
      <4> QED BY SMTT(30), <3>0, <3>3, <4>1, <4>3, <4>4, <1>30, <1>12
    <3> QED BY <3>1, <3>2, <3>3 DEF Streams
  <2> QED BY <2>5, <2>8 DEF HasEntry
<1>19. Layout(m1, x1)
  <2>1. ASSUME NEW j \in 1 .. Len(m1) - 1 PROVE HasEntry(m1, x1, j)
    <3>1. CASE j = k BY <3>1, <1>18
    <3>2. CASE j # k
      <4>1. j \in 1 .. Len(m) - 1 /\ j \in 1 .. k /\ j + 1 \in 1 .. k BY <3>2, <1>30, <1>31, <1>34
      <4>2. HasEntry(m, x1, j) BY <4>1, <1>13 DEF Layout
      <4>3. m1[j] = m[j] /\ m1[j + 1] = m[j + 1] BY <4>1, <1>15
      <4> QED BY <4>2, <4>3, EntrySame
    <3> QED BY <3>1, <3>2
  <2> QED BY <2>1, <1>12, <1>16 DEF Layout
<1>20. Aligned(m1, y.cs)
  <2>1. ASSUME NEW j \in 1 .. Len(m1) PROVE \E i \in 1 .. Len(y.cs) + 1 : Start(y.cs, i) = m1[j]["c"]
    <3>1. CASE j = k + 1
      <4>1. Start(y.cs, Len(y.cs) + 1) = Len(x["c"]) /\ Len(y.cs) \in Nat BY <1>1, <1>4 DEF Flat, ChunkSeqs
      <4>2. m1[j]["c"] = Len(x["c"]) BY <3>1, <1>2, <1>14, <1>15
      <4>3. Len(y.cs) + 1 \in 1 .. Len(y.cs) + 1 BY <4>1
      <4> QED BY <4>1, <4>2, <4>3
    <3>2. CASE j # k + 1
      <4>1. j \in 1 .. k BY <3>2, <1>30, <1>15
      <4> QED BY <4>1, <1>4, <1>15, <1>31 DEF Aligned
    <3> QED BY <3>1, <3>2
  <2> QED BY <2>1 DEF Aligned
<1>21. ASSUME NEW s \in Streams PROVE Len(x1[s]) = m1[Len(m1)][s] + Under(z, m1, s)
  <2>1. Under(z, m1, s) = 0 BY <1>11 DEF Under
  <2>2. m1[Len(m1)][s] = Len(x1[s]) /\ Len(x1[s]) \in Nat BY <1>12, <1>14, <1>15
  <2> QED BY <2>1, <2>2
<1>22. <<>> \in Seq(Item) /\ Len(<<>>) = 0 /\ (\A i \in 1 .. 0 : FALSE) OBVIOUS
<1>23. Writes(z, <<>>, <<>>, total, m1, x1)
  <2>1. total = Units(m1, Len(m1)) + Len(<<>>) + z.clen + z.tlen + Len(<<>>)
    <3>1. total \in Nat BY <1>30
    <3>2. Units(m1, Len(m1)) = total /\ z.clen = 0 /\ z.tlen = 0 /\ Len(<<>>) = 0 BY <1>11, <1>15, <1>17, <1>22
    <3> QED BY <3>1, <3>2
  <2>2. \A i \in 1 .. Len(<<>>) : FALSE BY <1>22
  <2>3. \A i \in 1 .. z.clen : FALSE BY <1>11
  <2>4. \A i \in 1 .. z.tlen : FALSE BY <1>11
  <2>5. Flat(AllOf(z.hs), x1["h"]) /\ Flat(z.cs, x1["c"]) /\ Flat(AllOf(z.ts), x1["t"]) /\ Aligned(m1, z.cs)
    BY <1>4, <1>8, <1>11, <1>12, <1>20
  <2>6. z \in Entries BY <1>11
  <2> QED BY <1>19, <1>21, <1>22, <2>1, <2>2, <2>3, <2>4, <2>5, <2>6 DEF Writes
<1> QED BY <1>11, <1>12, <1>23

\* flushtape gives a whole archive.
LEMMA StoredIs ==
  ASSUME NEW y, NEW m, NEW x, Writes(y, <<>>, <<>>, n, m, x), y.clen = 0, y.tlen = 0
  PROVE  /\ IsTape(Stored(y), m, x)
         /\ Writes([y EXCEPT !.hs = Ended(@), !.ts = Ended(@)], <<>>, <<>>, n, m, x)
<1>1. /\ y \in Entries /\ Layout(m, x) /\ y.hs \in Stream /\ y.cs \in ChunkSeqs /\ y.ts \in Stream
      /\ x \in [Streams -> Seq(Item)] /\ y = [hs |-> y.hs, cs |-> y.cs, ts |-> y.ts, clen |-> y.clen, tlen |-> y.tlen]
  BY WritesIs
<1>2. /\ Aligned(m, y.cs) /\ Flat(AllOf(y.hs), x["h"]) /\ Flat(y.cs, x["c"]) /\ Flat(AllOf(y.ts), x["t"])
      /\ \A s \in Streams : Len(x[s]) = m[Len(m)][s] + Under(y, m, s)
      /\ n = Units(m, Len(m)) + Len(<<>>) + y.clen + y.tlen + Len(<<>>)
  BY DEF Writes
<1>3. /\ Ended(y.hs) \in Stream /\ Flat(Ended(y.hs).chunks, x["h"]) /\ Flat(AllOf(Ended(y.hs)), x["h"])
      /\ Ended(y.ts) \in Stream /\ Flat(Ended(y.ts).chunks, x["t"]) /\ Flat(AllOf(Ended(y.ts)), x["t"])
  BY <1>1, <1>2, EndedFlat
<1>4. /\ Stored(y).n = n /\ Stored(y).s["h"] = Ended(y.hs).chunks /\ Stored(y).s["c"] = y.cs
      /\ Stored(y).s["t"] = Ended(y.ts).chunks
  BY DEF Stored, Streams
<1>5. ASSUME NEW s \in Streams PROVE m[Len(m)][s] = Len(x[s])
  <2>1. Under(y, m, s) = 0 BY DEF Under
  <2>2. m[Len(m)][s] \in Nat
    BY WritesIs DEF Streams, Last
  <2> QED BY <2>1, <2>2, <1>2
<1>6. ASSUME NEW s \in Streams PROVE Flat(Stored(y).s[s], x[s])
  BY <1>2, <1>3, <1>4 DEF Streams
<1>7. n = Units(m, Len(m))
  <2>1. Units(m, Len(m)) \in Nat /\ Len(<<>>) = 0 BY WritesIs
  <2> QED BY <2>1, <1>2
<1>8. IsTape(Stored(y), m, x)
  BY <1>1, <1>2, <1>4, <1>5, <1>6, <1>7 DEF IsTape
<1> DEFINE z == [y EXCEPT !.hs = Ended(@), !.ts = Ended(@)]
<1>9. /\ z.hs = Ended(y.hs) /\ z.cs = y.cs /\ z.ts = Ended(y.ts) /\ z.clen = 0 /\ z.tlen = 0 /\ z \in Entries
  <2> DEFINE hs1 == Ended(y.hs) ts1 == Ended(y.ts)
  <2>1. z = [y EXCEPT !.hs = hs1, !.ts = ts1] OBVIOUS
  <2> HIDE DEF z, hs1, ts1
  <2>2. z = [hs |-> hs1, cs |-> y.cs, ts |-> ts1, clen |-> y.clen, tlen |-> y.tlen] BY <2>1, <1>1
  <2>3. hs1 \in Stream /\ ts1 \in Stream BY <1>3 DEF hs1, ts1
  <2>4. z \in Entries BY <2>2, <2>3, <1>1 DEF Entries
  <2> QED BY <2>2, <2>4 DEF hs1, ts1
<1> HIDE DEF z
<1>10. Writes(z, <<>>, <<>>, n, m, x)
  <2>1. \A s \in Streams : Under(z, m, s) = Under(y, m, s) BY <1>9 DEF Under
  <2>2. z.clen = y.clen /\ z.tlen = y.tlen BY <1>9
  <2> QED BY <2>1, <2>2, <1>3, <1>9 DEF Writes
<1> QED BY <1>8, <1>10 DEF z

-----------------------------------------------------------------------------
(* The write cookie. *)

\* Units are items of a stream.
LEMMA UnitIn == ASSUME NEW i \in Nat PROVE Unit(i) \in Item
<1>1. Lengths(0, 0, 0) \in [Streams -> Nat] BY DEF Lengths, Streams
<1> QED BY <1>1 DEF Unit, Item

\* How far the data in the chunk stream goes.
Bound == IF mode = 3 THEN n - 1 ELSE n

\* A cookie that is not used.
LEMMA EmptyWrites ==
  LET m == << Lengths(0, 0, 0) >>
      x == [s \in Streams |-> <<>>]
  IN  Writes(NoEntry, <<>>, <<>>, 0, m, x) /\ IsTape(NoTape, m, x)
<1> DEFINE mk == Lengths(0, 0, 0) m == << mk >> x == [s \in Streams |-> <<>>]
<1>1. mk \in [Streams -> Nat] /\ \A s \in Streams : mk[s] = 0 BY DEF Lengths, Streams
<1>2. mk["h"] = 0 /\ mk["c"] = 0 /\ mk["t"] = 0 BY <1>1 DEF Streams
<1>3. m \in Seq([Streams -> Nat]) /\ Len(m) = 1 /\ m[1] = mk BY <1>1
<1>4. <<>> \in Seq(Item) /\ Len(<<>>) = 0 /\ (\A i \in 1 .. 0 : FALSE) OBVIOUS
<1>5. x \in [Streams -> Seq(Item)] /\ \A s \in Streams : x[s] = <<>> BY <1>4
<1>6. x["h"] = <<>> /\ x["c"] = <<>> /\ x["t"] = <<>> BY <1>5 DEF Streams
<1>0. mk = Lengths(0, 0, 0) OBVIOUS
<1> HIDE DEF mk
<1>13. m = << mk >> OBVIOUS
<1> HIDE DEF m, x
<1>7. Marks(m)
  <2>1. \A k \in 1 .. Len(m) : k = 1 BY <1>3
  <2> QED BY <2>1, <1>0, <1>2, <1>3 DEF Marks
<1>8. Layout(m, x)
  <2>1. \A k \in 1 .. Len(m) - 1 : FALSE BY <1>3
  <2> QED BY <2>1, <1>5, <1>7 DEF Layout
<1>9. <<>> \in ChunkSeqs /\ Start(<<>>, 1) = 0
  <2>1. <<>> \in ChunkSeqs BY DEF ChunkSeqs
  <2> QED BY <2>1, StartsHold DEF Starts
<1>10. Aligned(m, <<>>)
  <2>1. \A k \in 1 .. Len(m) : m[k]["c"] = 0 BY <1>2, <1>3
  <2>2. 1 \in 1 .. Len(<<>>) + 1 BY <1>4
  <2> QED BY <2>1, <2>2, <1>9 DEF Aligned
<1>11. Units(m, 1) = 0 BY <1>2, <1>3 DEF Units
<1>12. IsTape(NoTape, m, x)
  <2>1. \A s \in Streams : NoTape.s[s] = <<>> BY DEF NoTape
  <2>2. NoTape.n = 0 BY DEF NoTape
  <2>3. "c" \in Streams BY DEF Streams
  <2>4. \A s \in Streams : m[Len(m)][s] = Len(x[s]) BY <1>1, <1>3, <1>4, <1>5
  <2> QED BY <2>1, <2>2, <2>3, <2>4, <1>3, <1>5, <1>8, <1>10, <1>11, FlatNone DEF IsTape
<1>14. Writes(NoEntry, <<>>, <<>>, 0, m, x)
  <2>1. /\ NoEntry.hs = NoStream /\ NoEntry.cs = <<>> /\ NoEntry.ts = NoStream /\ NoEntry.clen = 0
        /\ NoEntry.tlen = 0 /\ NoEntry \in Entries
    <3>1. NoStream \in Stream BY <1>4, <1>9, StreamIs DEF NoStream
    <3> QED BY <3>1, <1>9 DEF NoEntry, Entries
  <2>2. Flat(AllOf(NoStream), <<>>)
    <3>1. Flat(Append(<<>>, <<>>), <<>> \o <<>>) BY <1>4, FlatNone, FlatAppend
    <3>2. <<>> \o <<>> = <<>> BY <1>4, ConcatNone
    <3> QED BY <3>1, <3>2 DEF AllOf, NoStream
  <2>3. \A s \in Streams : Len(x[s]) = m[Len(m)][s] + Under(NoEntry, m, s)
    <3>1. \A s \in Streams : Under(NoEntry, m, s) = 0 BY <2>1 DEF Under
    <3> QED BY <3>1, <1>1, <1>3, <1>4, <1>5
  <2>4. 0 = Units(m, Len(m)) + Len(<<>>) + NoEntry.clen + NoEntry.tlen + Len(<<>>)
    BY <2>1, <1>3, <1>4, <1>11
  <2>5. \A i \in 1 .. Len(<<>>) : FALSE BY <1>4
  <2>6. \A i \in 1 .. NoEntry.clen : FALSE BY <2>1
  <2>7. \A i \in 1 .. NoEntry.tlen : FALSE BY <2>1
  <2> QED BY <2>1, <2>2, <2>3, <2>4, <2>5, <2>6, <2>7, <1>4, <1>6, <1>8, <1>10, FlatNone DEF Writes
<1> QED BY <1>0, <1>12, <1>14 DEF m, x

\* The next archive is begun with nothing.
LEMMA IdleKeeps ==
  ASSUME Idle
  PROVE  WriterInPlace' /\ OutWhole' /\ Modes'
<1>1. /\ mode' = 2 /\ n' = 0 /\ hbuf' = <<>> /\ cfile' = <<>> /\ e' = NoEntry /\ out' = NoTape
  BY DEF Idle
<1> DEFINE m == << Lengths(0, 0, 0) >> x == [s \in Streams |-> <<>>]
<1>2. Writes(NoEntry, <<>>, <<>>, 0, m, x) /\ IsTape(NoTape, m, x)
  BY EmptyWrites
<1>3. x["c"] = <<>> /\ Len(<<>>) = 0 BY DEF Streams
<1> HIDE DEF m, x
<1>4. DataUpTo(x, 0) BY <1>3 DEF DataUpTo
<1>5. Writing(m, x)' BY <1>1, <1>2, <1>4 DEF Writing
<1>6. Modes' BY <1>1 DEF Modes, NoEntry
<1> QED BY <1>1, <1>2, <1>5, <1>6 DEF WriterInPlace, OutWhole

\* What Modes and Writing say.
LEMMA CookieIs ==
  ASSUME TypeOK, NEW m, NEW x, Writing(m, x)
  PROVE  /\ Writes(e, hbuf, cfile, n, m, x) /\ n \in Nat /\ mode \in 0 .. 3
         /\ DataUpTo(x, n) /\ (mode = 3 => DataUpTo(x, n - 1)) /\ x["c"] \in Seq(Item)
<1>1. Writes(e, hbuf, cfile, n, m, x) BY DEF Writing
<1>2. n \in Nat /\ mode \in 0 .. 3 BY DEF TypeOK
<1>3. x["c"] \in Seq(Item) BY <1>1, WritesIs
<1>4. DataUpTo(x, n)
  <2>1. ASSUME NEW i \in 1 .. Len(x["c"]) PROVE x["c"][i].unit <= n
    <3>0. x["c"][i] \in Item BY <1>3
    <3>1. x["c"][i].unit \in Nat BY <3>0 DEF Item
    <3>2. x["c"][i].unit <= Bound BY DEF Writing, DataUpTo, Bound
    <3> QED BY <3>1, <3>2, <1>2 DEF Bound
  <2> QED BY <2>1 DEF DataUpTo
<1> QED BY <1>1, <1>2, <1>3, <1>4 DEF Writing

\* What Flushed makes of the entry under way is complete.
LEMMA FlushedWrites ==
  ASSUME TypeOK, Modes, NEW m, NEW x, Writing(m, x), NEW z \in Flushed(e)
  PROVE  /\ \E m1, x1 : Writes(z, <<>>, <<>>, n, m1, x1) /\ DataUpTo(x1, Bound)
         /\ z.clen = 0 /\ z.tlen = 0
<1>1. /\ Writes(e, hbuf, cfile, n, m, x) /\ n \in Nat /\ mode \in 0 .. 3
      /\ DataUpTo(x, n) /\ (mode = 3 => DataUpTo(x, n - 1))
  BY CookieIs
<1>2. DataUpTo(x, Bound) BY <1>1 DEF Bound
<1>3. e.tlen = 0 /\ (mode # 1 => cfile = <<>> /\ e.clen = 0) /\ (mode = 2 => hbuf = <<>>)
  BY DEF Modes
<1>4. CASE mode = 3
  <2>1. z \in EndEntry(e, hbuf) /\ cfile = <<>> BY <1>3, <1>4 DEF Flushed
  <2>2. Writes(e, hbuf, <<>>, n, m, x) BY <1>1, <2>1
  <2>3. /\ \E m1, x1 : Writes(z, <<>>, <<>>, n, m1, x1) /\ x1["c"] = x["c"]
        /\ z.clen = 0 /\ z.tlen = 0
    BY <2>1, <2>2, EndEntryWrites
  <2>4. \A x1 : x1["c"] = x["c"] => DataUpTo(x1, Bound) BY <1>2 DEF DataUpTo
  <2> QED BY <2>3, <2>4, Zenon
<1>5. CASE mode < 2
  <2>1. z \in UNION { EndEntry(y, hbuf) : y \in EndFile(e, IF mode = 1 THEN cfile ELSE <<>>) }
    BY <1>1, <1>5 DEF Flushed, ToDone
  <2>2. PICK y \in EndFile(e, IF mode = 1 THEN cfile ELSE <<>>) : z \in EndEntry(y, hbuf) BY <2>1
  <2>3. y \in EndFile(e, cfile) BY <2>2, <1>3
  <2>4. Bound = n BY <1>5, <1>1 DEF Bound
  <2>5. PICK x1 : Writes(y, hbuf, <<>>, n, m, x1) /\ DataUpTo(x1, n)
    BY <1>1, <1>3, <2>3, EndFileWrites
  <2>6. /\ \E m2, x2 : Writes(z, <<>>, <<>>, n, m2, x2) /\ x2["c"] = x1["c"]
        /\ z.clen = 0 /\ z.tlen = 0
    BY <2>2, <2>5, EndEntryWrites
  <2>7. \A x2 : x2["c"] = x1["c"] => DataUpTo(x2, Bound) BY <2>4, <2>5 DEF DataUpTo
  <2> QED BY <2>6, <2>7, Zenon
<1>6. CASE mode = 2
  <2>1. z = e /\ hbuf = <<>> /\ cfile = <<>> /\ e.clen = 0 /\ e.tlen = 0 BY <1>3, <1>6 DEF Flushed, ToDone
  <2> QED BY <2>1, <1>1, <1>2
<1> QED BY <1>1, <1>4, <1>5, <1>6

\* Archives that are closed are whole,
LEMMA ClosedIs ==
  ASSUME TypeOK, Modes, WriterInPlace, NEW z \in Flushed(e)
  PROVE  \E m, x : IsTape(Stored(z), m, x) /\ DataUpTo(x, Bound)
<1>1. PICK m, x : Writing(m, x) BY DEF WriterInPlace
<1>2. PICK m1, x1 : Writes(z, <<>>, <<>>, n, m1, x1) /\ DataUpTo(x1, Bound) BY <1>1, FlushedWrites
<1>3. z.clen = 0 /\ z.tlen = 0 BY <1>1, FlushedWrites
<1>4. IsTape(Stored(z), m1, x1) BY <1>2, <1>3, StoredIs
<1> QED BY <1>2, <1>4

\* and so are checkpoints, after which the writer goes on.
LEMMA CheckpointKeeps ==
  ASSUME TypeOK, Modes, WriterInPlace, mode # 0, Checkpoint
  PROVE  WriterInPlace' /\ OutWhole' /\ Modes' /\ warning' = warning
<1>1. PICK m, x : Writing(m, x) BY DEF WriterInPlace
<1>2. PICK z \in Flushed(e) : /\ out' = Stored(z)
                              /\ e' = [z EXCEPT !.hs = Ended(@), !.ts = Ended(@)]
  BY DEF Checkpoint
<1>3. PICK m1, x1 : Writes(z, <<>>, <<>>, n, m1, x1) /\ DataUpTo(x1, Bound) BY <1>1, FlushedWrites
<1>4. z.clen = 0 /\ z.tlen = 0 BY <1>1, FlushedWrites
<1>5. IsTape(Stored(z), m1, x1) /\ Writes([z EXCEPT !.hs = Ended(@), !.ts = Ended(@)], <<>>, <<>>, n, m1, x1)
  BY <1>3, <1>4, StoredIs
<1>6. /\ hbuf' = (IF mode = 2 THEN hbuf ELSE <<>>) /\ cfile' = <<>> /\ n' = n /\ mode' = mode
      /\ warning' = IF mode = 1 /\ TwoTrailers(e, cfile) THEN "trailers" ELSE warning
  BY DEF Checkpoint
<1>7. hbuf' = <<>> /\ warning' = warning BY <1>6 DEF Modes, TwoTrailers
<1>8. Writes(e', hbuf', cfile', n', m1, x1) BY <1>2, <1>5, <1>6, <1>7
<1>9. DataUpTo(x1, Bound)' BY <1>3, <1>6 DEF Bound
<1>10. Writing(m1, x1)' BY <1>8, <1>9 DEF Writing, Bound
<1>11. e'.clen = 0 /\ e'.tlen = 0
  <2>1. z = [hs |-> z.hs, cs |-> z.cs, ts |-> z.ts, clen |-> z.clen, tlen |-> z.tlen]
    BY <1>3, WritesIs
  <2> QED BY <1>2, <1>4, <2>1
<1>12. Modes' BY <1>6, <1>7, <1>11 DEF Modes
<1> QED BY <1>2, <1>5, <1>7, <1>10, <1>12 DEF WriterInPlace, OutWhole

\* writetape_setmode
LEMMA SetModeKeeps ==
  ASSUME TypeOK, Modes, WriterInPlace, NEW md \in 0 .. 2, SetMode(md),
         md = 0 => mode = 2, md = 1 => mode = 0
  PROVE  WriterInPlace' /\ Modes' /\ warning' = warning
<1>1. PICK m, x : Writing(m, x) BY DEF WriterInPlace
<1>2. /\ md # mode /\ mode # 3 /\ n' = n /\ mode' = md
      /\ e' \in (IF md = 2 THEN ToDone(e) ELSE EndFile(e, IF mode = 1 THEN cfile ELSE <<>>))
      /\ warning' = (IF mode = 1 /\ TwoTrailers(e, cfile) THEN "trailers" ELSE warning)
      /\ cfile' = (IF mode = 1 THEN <<>> ELSE cfile) /\ hbuf' = (IF md = 2 THEN <<>> ELSE hbuf)
  BY DEF SetMode
<1>3. /\ Writes(e, hbuf, cfile, n, m, x) /\ n \in Nat /\ mode \in 0 .. 3 /\ DataUpTo(x, n)
  BY <1>1, CookieIs
<1>4. e.tlen = 0 /\ (mode # 1 => cfile = <<>> /\ e.clen = 0) /\ (mode = 2 => hbuf = <<>>) BY DEF Modes
<1>5. warning' = warning /\ cfile' = <<>> /\ Bound = n BY <1>2, <1>4 DEF TwoTrailers, Bound
<1>6. CASE md = 2
  <2>1. e' \in Flushed(e) /\ mode < 2 BY <1>2, <1>3, <1>6 DEF Flushed
  <2>2. PICK m1, x1 : Writes(e', <<>>, <<>>, n, m1, x1) /\ DataUpTo(x1, Bound)
    BY <1>1, <2>1, FlushedWrites
  <2>3. e'.clen = 0 /\ e'.tlen = 0 BY <1>1, <2>1, FlushedWrites
  <2>4. Writes(e', hbuf', cfile', n', m1, x1) /\ mode' = 2 /\ hbuf' = <<>> /\ n' = n
    BY <1>2, <1>5, <1>6, <2>2
  <2>5. DataUpTo(x1, IF mode' = 3 THEN n' - 1 ELSE n') BY <1>5, <2>2, <2>4
  <2>6. Writing(m1, x1)' BY <2>4, <2>5 DEF Writing
  <2>7. Modes' BY <2>3, <2>4, <1>5 DEF Modes
  <2> QED BY <1>5, <2>6, <2>7 DEF WriterInPlace
<1>7. CASE md # 2
  <2>1. mode # 1 /\ md \in {0, 1} BY <1>2, <1>7
  <2>2. e' = e /\ hbuf' = hbuf /\ cfile' = cfile /\ n' = n /\ mode' = md
    BY <1>2, <1>4, <1>5, <1>7, <2>1 DEF EndFile
  <2>3. mode = 2 \/ md = 1 BY <2>1
  <2>4. DataUpTo(x, IF mode' = 3 THEN n' - 1 ELSE n') BY <1>3, <2>1, <2>2
  <2>5. Writing(m, x)' BY <2>2, <1>3, <2>4 DEF Writing
  <2>6. Modes' BY <1>4, <2>1, <2>2 DEF Modes
  <2> QED BY <1>5, <2>5, <2>6 DEF WriterInPlace
<1> QED BY <1>6, <1>7

\* writetape_write, of a unit of a header or the marker
LEMMA HeaderKeeps ==
  ASSUME TypeOK, Modes, WriterInPlace, mode \in {0, 2}, WriteHeader(Unit(n + 1))
  PROVE  WriterInPlace' /\ Modes'
<1>1. PICK m, x : Writing(m, x) BY DEF WriterInPlace
<1>2. /\ mode' = (IF mode = 0 THEN 0 ELSE 3) /\ hbuf' = Append(hbuf, Unit(n + 1)) /\ n' = n + 1
      /\ cfile' = cfile /\ e' = e
  BY DEF WriteHeader
<1>3. /\ Writes(e, hbuf, cfile, n, m, x) /\ n \in Nat /\ DataUpTo(x, n) /\ x["c"] \in Seq(Item)
  BY <1>1, CookieIs
<1>4. e.tlen = 0 /\ cfile = <<>> /\ e.clen = 0 BY DEF Modes
<1>5. Unit(n + 1) \in Item BY <1>3, UnitIn
<1>6. Writes(e, Append(hbuf, Unit(n + 1)), <<>>, n + 1, m, x) BY <1>3, <1>4, <1>5, WritesHeader
<1>7. DataUpTo(x, IF mode' = 3 THEN n' - 1 ELSE n')
  <2>1. ASSUME NEW i \in 1 .. Len(x["c"]) PROVE x["c"][i].unit <= n /\ x["c"][i].unit \in Nat
    <3>1. x["c"][i] \in Item BY <1>3
    <3> QED BY <1>3, <3>1 DEF DataUpTo, Item
  <2>2. n <= (IF mode' = 3 THEN n' - 1 ELSE n') BY <1>2, <1>3
  <2>3. (IF mode' = 3 THEN n' - 1 ELSE n') \in Int BY <1>2, <1>3
  <2>4. ASSUME NEW b \in Int, n <= b PROVE DataUpTo(x, b) BY <1>3, <2>1, <2>4 DEF DataUpTo
  <2> QED BY <2>2, <2>3, <2>4
<1>8. Writing(m, x)' BY <1>2, <1>4, <1>6, <1>7 DEF Writing
<1>9. Modes' BY <1>2, <1>4 DEF Modes
<1> QED BY <1>8, <1>9 DEF WriterInPlace

\* writetape_write, of a unit of a file
LEMMA DataKeeps ==
  ASSUME TypeOK, Modes, WriterInPlace, WriteData(Unit(n + 1))
  PROVE  WriterInPlace' /\ Modes'
<1>1. PICK m, x : Writing(m, x) BY DEF WriterInPlace
<1> DEFINE d == << Unit(n + 1) >> all == cfile \o d
<1>2. /\ Writes(e, hbuf, cfile, n, m, x) /\ n \in Nat /\ DataUpTo(x, n) /\ cfile \in Seq(Item)
  BY <1>1, CookieIs, WritesIs
<1>3. d \in Seq(Item) /\ Len(d) = 1 /\ \A i \in 1 .. Len(d) : d[i] = Unit(n + i)
  <2>1. Unit(n + 1) \in Item BY <1>2, UnitIn
  <2> QED BY <2>1
<1> HIDE DEF d
<1>4. Writes(e, hbuf, all, n + 1, m, x) BY <1>2, <1>3, WritesData
<1>5. Append(cfile, Unit(n + 1)) = all
  <2>1. Unit(n + 1) \in Item BY <1>2, UnitIn
  <2> QED BY <2>1, <1>2, AppendIsConcat DEF d
<1>6. /\ mode = 1 /\ n' = n + 1 /\ mode' = mode /\ hbuf' = hbuf
      /\ \/ cfile' = all /\ e' = e
         \/ Len(all) >= MinCut /\ cfile' = <<>> /\ e' \in PassOut(e, all)
  BY <1>5 DEF WriteData
<1>7. e.tlen = 0 BY DEF Modes
<1>8. DataUpTo(x, n + 1)
  <2>1. x["c"] \in Seq(Item) BY <1>2, WritesIs
  <2>2. ASSUME NEW i \in 1 .. Len(x["c"]) PROVE x["c"][i].unit <= n + 1
    <3>1. x["c"][i] \in Item BY <2>1
    <3>2. x["c"][i].unit \in Nat /\ x["c"][i].unit <= n BY <1>2, <3>1 DEF DataUpTo, Item
    <3> QED BY <3>2, <1>2
  <2> QED BY <2>2 DEF DataUpTo
<1> HIDE DEF all
<1>9. CASE cfile' = all /\ e' = e
  <2>1. Writing(m, x)' BY <1>4, <1>6, <1>8, <1>9 DEF Writing
  <2>2. Modes' BY <1>6, <1>7, <1>9 DEF Modes
  <2> QED BY <2>1, <2>2 DEF WriterInPlace
<1>10. CASE Len(all) >= MinCut /\ cfile' = <<>> /\ e' \in PassOut(e, all)
  <2>1. Len(all) \in Nat BY <1>4, WritesIs
  <2>2. Len(all) >= MinChunk BY <2>1, <1>10, TapeAssumption
  <2>3. n + 1 \in Nat /\ n + 1 <= n + 1 BY <1>2
  <2>4. PICK x1 : Writes(e', hbuf, <<>>, n + 1, m, x1) /\ DataUpTo(x1, n + 1)
    BY <1>4, <1>7, <1>8, <1>10, <2>3, PassOutWrites
  <2>5. e'.tlen = 0 BY <1>4, <1>7, <1>8, <1>10, <2>2, <2>3, PassOutWrites
  <2>6. Writing(m, x1)' BY <1>6, <1>10, <2>4 DEF Writing
  <2>7. Modes' BY <1>6, <2>5 DEF Modes
  <2> QED BY <2>6, <2>7 DEF WriterInPlace
<1> QED BY <1>6, <1>9, <1>10

\* writetape_writechunk
LEMMA ChunkKeeps ==
  ASSUME TypeOK, Modes, WriterInPlace, NEW ck \in Seq(Item), WriteChunk(ck),
         \A i \in 1 .. Len(ck) : ck[i] = Unit(n + i)
  PROVE  WriterInPlace' /\ Modes'
<1>1. PICK m, x : Writing(m, x) BY DEF WriterInPlace
<1>2. /\ Writes(e, hbuf, cfile, n, m, x) /\ n \in Nat /\ DataUpTo(x, n) /\ cfile \in Seq(Item)
  BY <1>1, CookieIs, WritesIs
<1>3. /\ mode = 1 /\ cfile = <<>> /\ e' = [e EXCEPT !.cs = Append(@, ck), !.clen = @ + Len(ck)]
      /\ n' = n + Len(ck) /\ mode' = mode /\ hbuf' = hbuf /\ cfile' = cfile
  BY DEF WriteChunk, CanWriteChunk
<1>4. <<>> \o ck = ck BY ConcatEmptySeq
<1>5. Writes(e, hbuf, <<>> \o ck, n + Len(ck), m, x) BY <1>2, <1>3, WritesData
<1>6. Writes(e, hbuf, ck, n + Len(ck), m, x) BY <1>4, <1>5
<1>7. e.tlen = 0 BY DEF Modes
<1>8. n + Len(ck) \in Nat /\ n + Len(ck) <= n + Len(ck) BY <1>2
<1>9. DataUpTo(x, n + Len(ck))
  <2>1. x["c"] \in Seq(Item) BY <1>2, WritesIs
  <2>2. ASSUME NEW i \in 1 .. Len(x["c"]) PROVE x["c"][i].unit <= n + Len(ck)
    <3>1. x["c"][i] \in Item BY <2>1
    <3>2. x["c"][i].unit \in Nat /\ x["c"][i].unit <= n BY <1>2, <3>1 DEF DataUpTo, Item
    <3>3. Len(ck) \in Nat OBVIOUS
    <3> QED BY <3>2, <3>3, <1>2
  <2> QED BY <2>2 DEF DataUpTo
<1>10. PICK x1 : Writes(e', hbuf, <<>>, n + Len(ck), m, x1) /\ DataUpTo(x1, n + Len(ck))
  BY <1>3, <1>6, <1>7, <1>8, <1>9, WritesChunk
<1>11. Writing(m, x1)' BY <1>3, <1>10 DEF Writing
<1>12. e'.tlen = 0
  <2>1. e = [hs |-> e.hs, cs |-> e.cs, ts |-> e.ts, clen |-> e.clen, tlen |-> e.tlen] BY <1>2, WritesIs
  <2> QED BY <1>3, <1>7, <2>1
<1>13. Modes' BY <1>3, <1>12 DEF Modes
<1> QED BY <1>11, <1>13 DEF WriterInPlace

-----------------------------------------------------------------------------
(* The reader of a stream. *)

\* The lesser of two numbers.
LEMMA Min2Is ==
  ASSUME NEW a \in Int, NEW b \in Int
  PROVE  Min2(a, b) \in Int /\ Min2(a, b) <= a /\ Min2(a, b) <= b /\ Min2(a, b) \in {a, b}
BY DEF Min2

\* The first chunk that is not skipped as a whole.
LEMMA NotSkippedIs ==
  ASSUME NEW ch \in ChunkSeqs, NEW i \in 1 .. Len(ch) + 1, NEW k \in Nat
  PROVE  LET j == NotSkipped(ch, i, k)
         IN  /\ j \in i .. Len(ch) + 1 /\ Length(ch, i, j - 1) = Start(ch, j) - Start(ch, i)
             /\ Start(ch, j) - Start(ch, i) <= k
             /\ j = Len(ch) + 1 \/ Start(ch, j + 1) - Start(ch, i) > k
<1> DEFINE P(j) == /\ Length(ch, i, j - 1) <= k
                   /\ j = Len(ch) + 1 \/ Length(ch, i, j) > k
           T == {j \in i .. Len(ch) + 1 : j = Len(ch) + 1 \/ Length(ch, i, j) > k}
<1>0. Len(ch) \in Nat /\ Starts(ch) BY StartsHold DEF ChunkSeqs
<1>1. ASSUME NEW j \in i .. Len(ch) + 1
      PROVE  /\ Length(ch, i, j - 1) = Start(ch, j) - Start(ch, i)
             /\ j # Len(ch) + 1 => Length(ch, i, j) = Start(ch, j + 1) - Start(ch, i)
  <2>1. j - 1 \in i - 1 .. Len(ch) /\ (j - 1) + 1 = j BY <1>0
  <2>2. Length(ch, i, j - 1) = Start(ch, (j - 1) + 1) - Start(ch, i) BY <2>1, <1>0 DEF Starts
  <2>3. j # Len(ch) + 1 => j \in i - 1 .. Len(ch) BY <1>0
  <2>4. j # Len(ch) + 1 => Length(ch, i, j) = Start(ch, j + 1) - Start(ch, i) BY <2>3, <1>0 DEF Starts
  <2> QED BY <2>1, <2>2, <2>4
<1>2. PICK j \in T : \A l \in T : j <= l
  <2>1. T \subseteq Nat BY <1>0
  <2>2. Len(ch) + 1 \in T BY <1>0
  <2>3. T # {} BY <2>2
  <2> HIDE DEF T
  <2> QED BY <2>1, <2>3, LeastNat
<1>3. P(j)
  <2>1. CASE j = i
    <3>1. Length(ch, i, i - 1) = 0 BY LengthNone
    <3> QED BY <2>1, <3>1, <1>2
  <2>2. CASE j # i
    <3>1. j - 1 \in i .. Len(ch) + 1 /\ j - 1 # Len(ch) + 1 /\ j - 1 < j BY <2>2, <1>0, <1>2
    <3>2. ~(Length(ch, i, j - 1) > k) BY <3>1, <1>2
    <3>3. Length(ch, i, j - 1) \in Int
      <4>1. Length(ch, i, j - 1) = Start(ch, j) - Start(ch, i) BY <1>1, <1>2
      <4>2. Start(ch, j) \in Nat /\ Start(ch, i) \in Nat BY <1>0, <1>2 DEF Starts
      <4> QED BY <4>1, <4>2
    <3> QED BY <3>2, <3>3, <1>2
  <2> QED BY <2>1, <2>2
<1>4. NotSkipped(ch, i, k) = CHOOSE l \in i .. Len(ch) + 1 : P(l) BY DEF NotSkipped
<1>5. NotSkipped(ch, i, k) \in i .. Len(ch) + 1 /\ P(NotSkipped(ch, i, k))
  <2>1. j \in i .. Len(ch) + 1 BY <1>2
  <2> HIDE DEF P, T
  <2> QED BY <1>3, <1>4, <2>1
<1> QED BY <1>1, <1>5

\* What StreamAt says.
LEMMA ReaderIs ==
  ASSUME NEW s \in Readers
  PROVE  /\ s.cur \in Nat /\ s.len \in Nat /\ s.pos \in Nat /\ s.skip \in Nat /\ s.next \in Nat
         /\ s.valid \in BOOLEAN
         /\ s = [cur |-> s.cur, len |-> s.len, pos |-> s.pos, skip |-> s.skip, next |-> s.next, valid |-> s.valid]
BY DEF Readers

\* Between two chunks: where the next one starts.
LEMMA BetweenIs ==
  ASSUME NEW s, NEW ch \in ChunkSeqs, NEW p, StreamAt(s, ch, p), s.pos = s.len
  PROVE  LET first == IF s.valid THEN s.next ELSE s.next + 1
         IN  first \in 1 .. Len(ch) + 1 /\ p = s.skip + Start(ch, first)
<1>1. s \in Readers /\ s.next <= Len(ch) /\ (s.valid => s.next >= 1)
      /\ p = s.skip + (IF s.valid THEN Start(ch, s.next) ELSE Start(ch, s.next + 1) - (s.len - s.pos))
  BY DEF StreamAt
<1>2. s.len \in Nat /\ s.skip \in Nat /\ s.next \in Nat /\ s.valid \in BOOLEAN BY <1>1, ReaderIs
<1>3. Len(ch) \in Nat /\ Starts(ch) BY StartsHold DEF ChunkSeqs
<1>4. CASE s.valid BY <1>1, <1>2, <1>3, <1>4
<1>5. CASE ~s.valid
  <2>1. s.next + 1 \in 1 .. Len(ch) + 1 BY <1>1, <1>2, <1>3
  <2>2. Start(ch, s.next + 1) \in Nat BY <2>1, <1>3 DEF Starts
  <2>3. s.len - s.pos = 0 BY <1>2
  <2> QED BY <1>1, <1>5, <2>1, <2>2, <2>3
<1> QED BY <1>4, <1>5

\* A chunk header has been read, or there is none.
HeaderRead(t, ch, p) ==
  /\ StreamAt(t, ch, p) /\ t.pos = t.len
  /\ t.valid => t.next \in 1 .. Len(ch) /\ p = Start(ch, t.next) + t.skip /\ t.skip < Len(ch[t.next])
  /\ ~t.valid => p >= Start(ch, Len(ch) + 1)

\* stream_get_chunkheader
LEMMA ChunkHeaderIs ==
  ASSUME NEW s, NEW ch \in ChunkSeqs, NEW p, StreamAt(s, ch, p), s.pos = s.len
  PROVE  HeaderRead(ChunkHeader(s, ch), ch, p)
<1> DEFINE first == IF s.valid THEN s.next ELSE s.next + 1
           j == NotSkipped(ch, first, s.skip)
           t == ChunkHeader(s, ch)
           k1 == s.skip - Length(ch, first, j - 1)
           n1 == Min2(j, Len(ch))
           v1 == j <= Len(ch)
<1>1. first \in 1 .. Len(ch) + 1 /\ p = s.skip + Start(ch, first) BY BetweenIs
<1>2. s \in Readers BY DEF StreamAt
<1>3. /\ s.cur \in Nat /\ s.len \in Nat /\ s.pos \in Nat /\ s.skip \in Nat /\ s.next \in Nat
      /\ s.valid \in BOOLEAN
      /\ s = [cur |-> s.cur, len |-> s.len, pos |-> s.pos, skip |-> s.skip, next |-> s.next, valid |-> s.valid]
  BY <1>2, ReaderIs
<1>4. t = [s EXCEPT !.skip = k1, !.next = n1, !.valid = v1]
  BY DEF ChunkHeader, HeaderAt
<1> SUFFICES HeaderRead(t, ch, p)
  OBVIOUS
<1> HIDE DEF first
<1>5. /\ j \in first .. Len(ch) + 1 /\ Length(ch, first, j - 1) = Start(ch, j) - Start(ch, first)
      /\ Start(ch, j) - Start(ch, first) <= s.skip
      /\ j = Len(ch) + 1 \/ Start(ch, j + 1) - Start(ch, first) > s.skip
  BY <1>1, <1>3, NotSkippedIs
<1> HIDE DEF j, k1, n1, v1, t
<1>6. t = [cur |-> s.cur, len |-> s.len, pos |-> s.pos, skip |-> k1, next |-> n1, valid |-> v1]
  BY <1>3, <1>4
<1>7. Len(ch) \in Nat /\ Starts(ch) BY StartsHold DEF ChunkSeqs
<1>8. j \in 1 .. Len(ch) + 1 BY <1>1, <1>5
<1>9. Start(ch, first) \in Nat /\ Start(ch, j) \in Nat BY <1>1, <1>7, <1>8 DEF Starts
<1>10. k1 \in Nat /\ p = k1 + Start(ch, j) BY <1>1, <1>3, <1>5, <1>9 DEF k1
<1>11. t.pos = t.len /\ t.skip = k1 /\ t.next = n1 /\ t.valid = v1 /\ t.cur = s.cur /\ t.len = s.len BY <1>6
<1>12. CASE j <= Len(ch)
  <2>1. n1 = j /\ v1 = TRUE BY <1>7, <1>8, <1>12 DEF n1, v1, Min2
  <2>2. j \in 1 .. Len(ch) /\ Start(ch, j + 1) = Start(ch, j) + Len(ch[j]) /\ Len(ch[j]) \in Nat
    BY <1>7, <1>8, <1>12 DEF Starts, ChunkSeqs
  <2>3. k1 < Len(ch[j])
    <3>1. j # Len(ch) + 1 BY <1>7, <1>12
    <3>2. Start(ch, j + 1) - Start(ch, first) > s.skip BY <1>5, <3>1
    <3>4. k1 + Start(ch, j) = s.skip + Start(ch, first) BY <1>1, <1>10
    <3> DEFINE a == Start(ch, j)
               b == Len(ch[j])
               c == Start(ch, first)
               d == s.skip
               f == Start(ch, j + 1)
    <3>5. a \in Nat /\ b \in Nat /\ c \in Nat /\ d \in Nat /\ k1 \in Nat BY <1>3, <1>9, <1>10, <2>2
    <3>6. f - c > d /\ f = a + b /\ k1 + a = d + c BY <2>2, <3>2, <3>4
    <3> HIDE DEF a, b, c, d, f
    <3>7. k1 < b BY <3>5, <3>6
    <3> QED BY <3>7 DEF b
  <2>4. t \in Readers BY <1>3, <1>6, <1>10, <2>1, <2>2 DEF Readers
  <2>5. t.next = j /\ t.valid = TRUE /\ t.skip = k1 BY <1>11, <2>1
  <2>6. t.pos <= t.len /\ ~(t.pos < t.len) BY <1>3, <1>11
  <2>7. j <= Len(ch) /\ j >= 1 BY <2>2, <1>7
  <2>8. StreamAt(t, ch, p) BY <1>10, <1>11, <2>4, <2>5, <2>6, <2>7 DEF StreamAt
  <2>9. p = Start(ch, j) + k1 BY <1>9, <1>10
  <2>10. t.next \in 1 .. Len(ch) /\ p = Start(ch, t.next) + t.skip /\ t.skip < Len(ch[t.next])
    BY Zenon, <2>2, <2>3, <2>5, <2>9
  <2>11. t.pos = t.len BY <1>11
  <2> QED BY Zenon, <2>5, <2>8, <2>10, <2>11 DEF HeaderRead
<1>13. CASE ~(j <= Len(ch))
  <2>1. n1 = Len(ch) /\ v1 = FALSE /\ j = Len(ch) + 1 BY <1>7, <1>8, <1>13 DEF n1, v1, Min2
  <2>2. t \in Readers BY <1>3, <1>6, <1>10, <1>7, <2>1 DEF Readers
  <2>3. p = k1 + Start(ch, n1 + 1) /\ Start(ch, n1 + 1) \in Nat BY <1>9, <1>10, <2>1
  <2>4. p = t.skip + (Start(ch, t.next + 1) - (t.len - t.pos))
    <3>1. t.len - t.pos = 0 BY <1>3, <1>11
    <3> QED BY <1>10, <1>11, <2>3, <3>1
  <2>5. StreamAt(t, ch, p) BY <1>3, <1>7, <1>11, <2>1, <2>2, <2>4 DEF StreamAt
  <2>6. p >= Start(ch, Len(ch) + 1)
    <3>1. p >= Start(ch, n1 + 1) BY <1>10, <2>3
    <3> QED BY <2>1, <3>1
  <2>7. ~t.valid BY <1>11, <2>1
  <2>8. t.pos = t.len BY <1>11
  <2> QED BY Zenon, <2>5, <2>6, <2>7, <2>8 DEF HeaderRead
<1> QED BY <1>12, <1>13

\* The reader has data, or the stream has ended.
HasData(t, ch, p) ==
  /\ StreamAt(t, ch, p) /\ t.skip = 0 /\ ~t.valid /\ t.pos < t.len
  /\ t.cur \in 1 .. Len(ch) /\ t.len = Len(ch[t.cur]) /\ t.next = t.cur
  /\ p = Start(ch, t.cur) + t.pos
Rest(t) == t.len - t.pos
HasEnded(t, ch, p) ==
  /\ StreamAt(t, ch, p) /\ t.pos = t.len /\ p >= Start(ch, Len(ch) + 1)

\* A reader is its fields.
LEMMA ReaderMade ==
  ASSUME NEW a \in Nat, NEW b \in Nat, NEW c \in Nat, NEW d \in Nat, NEW f \in Nat, NEW g \in BOOLEAN
  PROVE  [cur |-> a, len |-> b, pos |-> c, skip |-> d, next |-> f, valid |-> g] \in Readers
BY DEF Readers

\* The chunk whose header was read.
LEMMA ChunkInIs ==
  ASSUME NEW t, NEW ch \in ChunkSeqs, NEW p, HeaderRead(t, ch, p)
  PROVE  HasData(ChunkIn(t, ch), ch, p) \/ HasEnded(ChunkIn(t, ch), ch, p)
<1>1. StreamAt(t, ch, p) /\ t.pos = t.len BY DEF HeaderRead
<1>2. t \in Readers BY <1>1 DEF StreamAt
<1>3. /\ t.cur \in Nat /\ t.len \in Nat /\ t.pos \in Nat /\ t.skip \in Nat /\ t.next \in Nat
      /\ t.valid \in BOOLEAN
      /\ t = [cur |-> t.cur, len |-> t.len, pos |-> t.pos, skip |-> t.skip, next |-> t.next, valid |-> t.valid]
  BY <1>2, ReaderIs
<1>4. CASE ~t.valid
  <2>1. ChunkIn(t, ch) = t BY <1>4 DEF ChunkIn
  <2>2. p >= Start(ch, Len(ch) + 1) BY <1>4 DEF HeaderRead
  <2> QED BY <1>1, <2>1, <2>2 DEF HasEnded
<1>5. CASE t.valid
  <2> DEFINE u == ChunkIn(t, ch)
  <2>1. t.next \in 1 .. Len(ch) /\ p = Start(ch, t.next) + t.skip /\ t.skip < Len(ch[t.next])
    BY <1>5 DEF HeaderRead
  <2>2. u = [t EXCEPT !.cur = t.next, !.len = Len(ch[t.next]), !.pos = t.skip, !.skip = 0, !.valid = FALSE]
    BY <1>5 DEF ChunkIn
  <2>3. u = [cur |-> t.next, len |-> Len(ch[t.next]), pos |-> t.skip, skip |-> 0, next |-> t.next, valid |-> FALSE]
    BY <1>3, <2>2
  <2>4. Len(ch) \in Nat /\ Starts(ch) BY StartsHold DEF ChunkSeqs
  <2>5. Start(ch, t.next + 1) = Start(ch, t.next) + Len(ch[t.next]) /\ Start(ch, t.next) \in Nat
        /\ Len(ch[t.next]) \in Nat
    BY <2>1, <2>4 DEF Starts, ChunkSeqs
  <2>6. u \in Readers BY <1>3, <2>3, <2>5 DEF Readers
  <2> HIDE DEF u
  <2>7. /\ u.cur = t.next /\ u.len = Len(ch[t.next]) /\ u.pos = t.skip /\ u.skip = 0 /\ u.next = t.next
        /\ u.valid = FALSE BY <2>3
  <2>8. u.pos < u.len /\ u.cur \in 1 .. Len(ch) /\ u.len = Len(ch[u.cur]) /\ u.next = u.cur BY <2>1, <2>7
  <2>9. p = Start(ch, u.cur) + u.pos BY <2>1, <2>7
  <2>10. p = 0 + (Start(ch, u.next + 1) - (u.len - u.pos))
    <3> DEFINE a == Start(ch, t.next)
               b == Len(ch[t.next])
               f == Start(ch, t.next + 1)
    <3>1. p = a + t.skip /\ f = a + b /\ a \in Nat /\ b \in Nat BY <2>1, <2>5
    <3> HIDE DEF a, b, f
    <3>2. p = 0 + (f - (b - t.skip)) BY <1>3, <3>1
    <3> QED BY Zenon, <3>2, <2>7 DEF a, b, f
  <2>11. u.pos <= u.len /\ u.next <= Len(ch) /\ u.cur >= 1 /\ ~u.valid BY <1>3, <2>5, <2>7, <2>8, <2>4
  <2>12. StreamAt(u, ch, p) BY <2>6, <2>7, <2>8, <2>10, <2>11 DEF StreamAt
  <2>13. HasData(u, ch, p) BY <2>7, <2>8, <2>9, <2>11, <2>12 DEF HasData
  <2> QED BY <2>13 DEF u
<1> QED BY <1>4, <1>5

\* stream_get_chunk
LEMMA ChunkIs ==
  ASSUME NEW s, NEW ch \in ChunkSeqs, NEW p, StreamAt(s, ch, p)
  PROVE  HasData(Chunk(s, ch), ch, p) \/ HasEnded(Chunk(s, ch), ch, p)
<1> DEFINE k == Min2(s.len - s.pos, s.skip)
           b == s.pos + k
           c == s.skip - k
           a == [s EXCEPT !.pos = b, !.skip = c]
<1>1. s \in Readers BY DEF StreamAt
<1>2. /\ s.cur \in Nat /\ s.len \in Nat /\ s.pos \in Nat /\ s.skip \in Nat /\ s.next \in Nat
      /\ s.valid \in BOOLEAN
      /\ s = [cur |-> s.cur, len |-> s.len, pos |-> s.pos, skip |-> s.skip, next |-> s.next, valid |-> s.valid]
  BY <1>1, ReaderIs
<1>3. /\ s.pos <= s.len /\ s.next <= Len(ch)
      /\ s.pos < s.len => ~s.valid /\ s.cur = s.next /\ s.cur >= 1 /\ s.len = Len(ch[s.cur])
      /\ s.valid => s.pos = s.len /\ s.next >= 1
      /\ p = s.skip + (IF s.valid THEN Start(ch, s.next) ELSE Start(ch, s.next + 1) - (s.len - s.pos))
  BY DEF StreamAt
<1>4. k \in Nat /\ k <= s.len - s.pos /\ k <= s.skip /\ (k = s.skip \/ k = s.len - s.pos)
  BY <1>2, <1>3 DEF Min2
<1>6. Chunk(s, ch) = IF a.pos < a.len THEN a ELSE ChunkIn(ChunkHeader(a, ch), ch) BY DEF Chunk
<1> HIDE DEF k
<1>0. b = s.pos + k /\ c = s.skip - k OBVIOUS
<1> HIDE DEF b, c
<1>16. a = [s EXCEPT !.pos = b, !.skip = c] OBVIOUS
<1> HIDE DEF a
<1>15. a = [cur |-> s.cur, len |-> s.len, pos |-> b, skip |-> c, next |-> s.next, valid |-> s.valid]
  BY <1>2, <1>16
<1>5. a = [cur |-> s.cur, len |-> s.len, pos |-> s.pos + k, skip |-> s.skip - k, next |-> s.next, valid |-> s.valid]
  BY <1>0, <1>15
<1>7. /\ a.cur = s.cur /\ a.len = s.len /\ a.pos = s.pos + k /\ a.skip = s.skip - k /\ a.next = s.next
      /\ a.valid = s.valid BY <1>5
<1>8. s.pos + k \in Nat /\ s.skip - k \in Nat BY <1>2, <1>4
<1>9. a \in Readers BY <1>2, <1>5, <1>8, ReaderMade
<1>10. Len(ch) \in Nat /\ Starts(ch) BY StartsHold DEF ChunkSeqs
<1>11. p = a.skip + (IF a.valid THEN Start(ch, a.next) ELSE Start(ch, a.next + 1) - (a.len - a.pos))
  <2>1. CASE s.valid
    <3>1. k = 0 BY <1>2, <1>3, <1>4, <2>1
    <3>2. a.skip = s.skip BY <1>2, <1>7, <3>1
    <3> QED BY <1>3, <1>7, <2>1, <3>2
  <2>2. CASE ~s.valid
    <3> DEFINE f == Start(ch, s.next + 1)
    <3>1. s.next + 1 \in 1 .. Len(ch) + 1 BY <1>2, <1>3, <1>10
    <3>2. f \in Nat BY <3>1, <1>10 DEF Starts
    <3>3. p = s.skip + (f - (s.len - s.pos)) BY <1>3, <2>2
    <3> HIDE DEF f
    <3>4. p = (s.skip - k) + (f - (s.len - (s.pos + k))) BY <1>2, <1>4, <3>2, <3>3
    <3>5. p = a.skip + (f - (a.len - a.pos)) BY Zenon, <1>7, <3>4
    <3> QED BY <1>7, <2>2, <3>5 DEF f
  <2> QED BY <2>1, <2>2
<1>12. a.pos <= a.len /\ a.next <= Len(ch) BY <1>2, <1>3, <1>4, <1>7
<1>13. CASE a.pos < a.len
  <2>1. s.pos < s.len /\ k = s.skip BY <1>2, <1>3, <1>4, <1>7, <1>13
  <2>2. ~a.valid /\ a.cur = a.next /\ a.cur >= 1 /\ a.len = Len(ch[a.cur]) BY <1>3, <1>7, <2>1
  <2>3. a.skip = 0 BY <1>2, <1>7, <2>1
  <2>4. StreamAt(a, ch, p) BY <1>9, <1>11, <1>12, <2>2 DEF StreamAt
  <2>5. a.cur \in 1 .. Len(ch) BY <1>2, <1>7, <1>10, <1>12, <2>2
  <2>6. p = Start(ch, a.cur) + a.pos
    <3> DEFINE f == Start(ch, a.cur + 1)
               g == Start(ch, a.cur)
    <3>1. f = g + Len(ch[a.cur]) /\ g \in Nat BY <1>10, <2>5 DEF Starts
    <3>2. f = g + a.len BY <2>2, <3>1
    <3>3. p = a.skip + (f - (a.len - a.pos)) BY <1>11, <2>2
    <3>4. a.len \in Nat /\ a.pos \in Nat BY <1>2, <1>7, <1>8
    <3> HIDE DEF f, g
    <3>5. p = 0 + (f - (a.len - a.pos)) BY <2>3, <3>3
    <3>6. p = g + a.pos BY SMTT(30), <3>1, <3>2, <3>4, <3>5
    <3> QED BY <3>6 DEF g
  <2>7. HasData(a, ch, p) BY <1>13, <2>2, <2>3, <2>4, <2>5, <2>6 DEF HasData
  <2> QED BY <1>6, <1>13, <2>7
<1>14. CASE ~(a.pos < a.len)
  <2>1. a.pos = a.len BY <1>2, <1>7, <1>8, <1>12, <1>14
  <2>2. a.valid => a.next >= 1 BY <1>3, <1>7
  <2>3. StreamAt(a, ch, p) BY <1>9, <1>11, <1>12, <1>14, <2>1, <2>2 DEF StreamAt
  <2>4. HeaderRead(ChunkHeader(a, ch), ch, p) BY <2>1, <2>3, ChunkHeaderIs
  <2> QED BY <1>6, <1>14, <2>4, ChunkInIs
<1> QED BY <1>13, <1>14

\* What a reader that has data gives.
LEMMA DataIs ==
  ASSUME NEW t, NEW ch, NEW p, NEW x, Flat(ch, x), HasData(t, ch, p)
  PROVE  /\ Rest(t) \in Nat \ {0} /\ t.pos \in Nat /\ t.len \in Nat /\ t.len = Len(ch[t.cur])
         /\ ch[t.cur] \in Seq(Item) /\ p \in Nat /\ p + Rest(t) <= Len(x)
         /\ p + Rest(t) = Start(ch, t.cur + 1) /\ t.cur \in 1 .. Len(ch)
<1>1. /\ ch \in ChunkSeqs /\ x \in Seq(Item) /\ Len(x) = Start(ch, Len(ch) + 1)
      /\ \A j \in 1 .. Len(ch) : \A i \in 1 .. Len(ch[j]) : ch[j][i] = x[Start(ch, j) + i]
  BY DEF Flat
<1>2. /\ StreamAt(t, ch, p) /\ t.pos < t.len /\ t.cur \in 1 .. Len(ch) /\ t.len = Len(ch[t.cur])
      /\ p = Start(ch, t.cur) + t.pos
  BY DEF HasData
<1>3. t \in Readers BY <1>2 DEF StreamAt
<1>4. t.len \in Nat /\ t.pos \in Nat BY <1>3, ReaderIs
<1>5. Len(ch) \in Nat /\ Starts(ch) BY <1>1, StartsHold DEF ChunkSeqs
<1> DEFINE a == Start(ch, t.cur)
           b == Start(ch, t.cur + 1)
<1>6. b = a + t.len /\ a \in Nat /\ b \in Nat BY <1>2, <1>5 DEF Starts
<1>7. b <= Len(x)
  <2>1. t.cur + 1 \in 1 .. Len(ch) + 1 /\ Len(ch) + 1 \in t.cur + 1 .. Len(ch) + 1 BY <1>2, <1>5
  <2> QED BY <1>1, <1>5, <2>1 DEF Starts
<1>9. ch[t.cur] \in Seq(Item) BY <1>1, <1>2 DEF ChunkSeqs
<1>10. p = a + t.pos BY <1>2
<1> HIDE DEF a, b
<1>11. p \in Nat /\ p + (t.len - t.pos) = b BY <1>4, <1>6, <1>10
<1>12. Len(x) \in Nat BY <1>1
<1>14. t.len - t.pos \in Nat /\ t.len - t.pos >= 1 BY <1>2, <1>4
<1>15. p + (t.len - t.pos) <= Len(x) BY <1>7, <1>11
<1> QED BY <1>2, <1>4, <1>9, <1>11, <1>14, <1>15 DEF b, Rest

\* And they are the data of the stream from there on.
LEMMA DataAre ==
  ASSUME NEW t, NEW ch, NEW p, NEW x, Flat(ch, x), HasData(t, ch, p)
  PROVE  \A i \in 1 .. Rest(t) : ch[t.cur][t.pos + i] = x[p + i]
<1>1. /\ ch \in ChunkSeqs /\ x \in Seq(Item) /\ Len(x) = Start(ch, Len(ch) + 1)
      /\ \A j \in 1 .. Len(ch) : \A i \in 1 .. Len(ch[j]) : ch[j][i] = x[Start(ch, j) + i]
  BY DEF Flat
<1>2. /\ StreamAt(t, ch, p) /\ t.pos < t.len /\ t.cur \in 1 .. Len(ch) /\ t.len = Len(ch[t.cur])
      /\ p = Start(ch, t.cur) + t.pos
  BY DEF HasData
<1>3. t \in Readers BY <1>2 DEF StreamAt
<1>4. t.len \in Nat /\ t.pos \in Nat BY <1>3, ReaderIs
<1>5. Len(ch) \in Nat /\ Starts(ch) BY <1>1, StartsHold DEF ChunkSeqs
<1> DEFINE a == Start(ch, t.cur)
           b == Start(ch, t.cur + 1)
<1>6. b = a + t.len /\ a \in Nat /\ b \in Nat BY <1>2, <1>5 DEF Starts
<1>8. \A i \in 1 .. t.len : ch[t.cur][i] = x[a + i] BY <1>1, <1>2
<1>10. p = a + t.pos BY <1>2
<1> HIDE DEF a, b
<1>13. ASSUME NEW i \in 1 .. t.len - t.pos
       PROVE  ch[t.cur][t.pos + i] = x[p + i]
  <2>1. t.pos + i \in 1 .. t.len /\ a + (t.pos + i) = p + i BY <1>4, <1>6, <1>10
  <2>2. ch[t.cur][t.pos + i] = x[a + (t.pos + i)] BY <1>8, <2>1
  <2> QED BY <2>1, <2>2
<1> QED BY <1>13 DEF Rest

\* A stream has not ended before its data.
LEMMA EndIs ==
  ASSUME NEW t, NEW ch, NEW p, NEW x, Flat(ch, x), HasEnded(t, ch, p)
  PROVE  p >= Len(x)
BY DEF Flat, HasEnded

\* k units of the chunk are read.
LEMMA ReadOn ==
  ASSUME NEW t, NEW ch \in ChunkSeqs, NEW p \in Nat, HasData(t, ch, p), NEW k \in 0 .. Rest(t)
  PROVE  LET u == [t EXCEPT !.pos = @ + k]
         IN  StreamAt(u, ch, p + k) /\ (k = Rest(t) => u.pos = u.len)
<1> DEFINE u == [t EXCEPT !.pos = @ + k]
<1>1. /\ StreamAt(t, ch, p) /\ t.skip = 0 /\ ~t.valid /\ t.pos < t.len
      /\ t.cur \in 1 .. Len(ch) /\ t.len = Len(ch[t.cur]) /\ t.next = t.cur
      /\ p = Start(ch, t.cur) + t.pos
  BY DEF HasData
<1>2. t \in Readers BY <1>1 DEF StreamAt
<1>3. /\ t.cur \in Nat /\ t.len \in Nat /\ t.pos \in Nat /\ t.skip \in Nat /\ t.next \in Nat
      /\ t.valid \in BOOLEAN
      /\ t = [cur |-> t.cur, len |-> t.len, pos |-> t.pos, skip |-> t.skip, next |-> t.next, valid |-> t.valid]
  BY <1>2, ReaderIs
<1>4. u = [cur |-> t.cur, len |-> t.len, pos |-> t.pos + k, skip |-> t.skip, next |-> t.next, valid |-> t.valid]
  BY <1>3
<1>5. t.pos + k \in Nat /\ t.pos + k <= t.len BY <1>3 DEF Rest
<1>6. u \in Readers BY SMTT(30), <1>3, <1>4, <1>5, ReaderMade
<1>7. Len(ch) \in Nat /\ Starts(ch) BY StartsHold DEF ChunkSeqs
<1> SUFFICES StreamAt(u, ch, p + k) /\ (k = Rest(t) => u.pos = u.len)
  OBVIOUS
<1> HIDE DEF u
<1>8. /\ u.cur = t.cur /\ u.len = t.len /\ u.pos = t.pos + k /\ u.skip = 0 /\ u.next = t.cur
      /\ u.valid = t.valid BY <1>1, <1>4
<1>9. p + k = u.skip + (Start(ch, u.next + 1) - (u.len - u.pos))
  <2> DEFINE a == Start(ch, t.cur)
             b == Start(ch, t.cur + 1)
  <2>1. b = a + t.len /\ a \in Nat /\ p = a + t.pos BY <1>1, <1>7 DEF Starts
  <2> HIDE DEF a, b
  <2>2. p + k = 0 + (b - (t.len - (t.pos + k))) BY <1>3, <2>1
  <2> QED BY Zenon, <1>8, <2>2 DEF b
<1>10. u.pos <= u.len /\ u.next <= Len(ch) BY <1>1, <1>5, <1>7, <1>8
<1>11. ~u.valid /\ u.cur = u.next /\ u.cur >= 1 /\ u.len = Len(ch[u.cur]) BY <1>1, <1>8
<1>12. StreamAt(u, ch, p + k) BY <1>6, <1>9, <1>10, <1>11 DEF StreamAt
<1>13. k = Rest(t) => u.pos = u.len BY <1>3, <1>8 DEF Rest
<1> QED BY <1>12, <1>13

\* k units more are to be skipped.
LEMMA SkipOn ==
  ASSUME NEW t, NEW ch \in ChunkSeqs, NEW p \in Int, StreamAt(t, ch, p), NEW k \in Nat
  PROVE  LET u == [t EXCEPT !.skip = @ + k]
         IN  StreamAt(u, ch, p + k) /\ u.pos = t.pos /\ u.len = t.len
<1> DEFINE u == [t EXCEPT !.skip = @ + k]
           f == IF t.valid THEN Start(ch, t.next) ELSE Start(ch, t.next + 1) - (t.len - t.pos)
<1>1. t \in Readers BY DEF StreamAt
<1>2. /\ t.cur \in Nat /\ t.len \in Nat /\ t.pos \in Nat /\ t.skip \in Nat /\ t.next \in Nat
      /\ t.valid \in BOOLEAN
      /\ t = [cur |-> t.cur, len |-> t.len, pos |-> t.pos, skip |-> t.skip, next |-> t.next, valid |-> t.valid]
  BY <1>1, ReaderIs
<1>3. u = [cur |-> t.cur, len |-> t.len, pos |-> t.pos, skip |-> t.skip + k, next |-> t.next, valid |-> t.valid]
  BY <1>2
<1>4. u \in Readers BY SMTT(30), <1>2, <1>3, ReaderMade
<1> SUFFICES StreamAt(u, ch, p + k) /\ u.pos = t.pos /\ u.len = t.len
  OBVIOUS
<1> HIDE DEF u
<1>5. /\ u.cur = t.cur /\ u.len = t.len /\ u.pos = t.pos /\ u.skip = t.skip + k /\ u.next = t.next
      /\ u.valid = t.valid BY <1>3
<1>6. p = t.skip + f BY DEF StreamAt
<1>7. p + k = u.skip + (IF u.valid THEN Start(ch, u.next) ELSE Start(ch, u.next + 1) - (u.len - u.pos))
  <2>0. f \in Int
    <3>1. Len(ch) \in Nat /\ Starts(ch) BY StartsHold DEF ChunkSeqs
    <3>2. t.next <= Len(ch) /\ (t.valid => t.next >= 1) BY DEF StreamAt
    <3>3. t.next + 1 \in 1 .. Len(ch) + 1 /\ (t.valid => t.next \in 1 .. Len(ch) + 1) BY <1>2, <3>1, <3>2
    <3>4. Start(ch, t.next + 1) \in Nat /\ (t.valid => Start(ch, t.next) \in Nat) BY <3>1, <3>3 DEF Starts
    <3> QED BY <1>2, <3>4
  <2> HIDE DEF f
  <2>1. p + k = (t.skip + k) + f BY <1>2, <1>6, <2>0
  <2> QED BY Zenon, <1>5, <2>1 DEF f
<1> QED BY <1>4, <1>5, <1>7 DEF StreamAt

-----------------------------------------------------------------------------
(* The reader of an archive. *)

\* What IsTape says of the streams.
LEMMA TapeIs ==
  ASSUME NEW t, NEW m, NEW x, IsTape(t, m, x)
  PROVE  /\ Layout(m, x) /\ Marks(m) /\ Len(m) \in Nat /\ Len(m) >= 1 /\ m[Len(m)] \in [Streams -> Nat]
         /\ Aligned(m, t.s["c"]) /\ t.n = Units(m, Len(m)) /\ t.n \in Nat
         /\ \A s \in Streams : /\ Flat(t.s[s], x[s]) /\ m[Len(m)][s] = Len(x[s]) /\ t.s[s] \in ChunkSeqs
                               /\ x[s] \in Seq(Item) /\ Len(x[s]) \in Nat
<1>1. /\ Layout(m, x) /\ Aligned(m, t.s["c"]) /\ t.n = Units(m, Len(m))
      /\ \A s \in Streams : Flat(t.s[s], x[s]) /\ m[Len(m)][s] = Len(x[s])
  BY DEF IsTape
<1>2. Marks(m) BY <1>1 DEF Layout
<1>3. Len(m) \in Nat /\ Len(m) >= 1 BY <1>2 DEF Marks
<1>4. Len(m) \in 1 .. Len(m) BY <1>3
<1>5. m[Len(m)] \in [Streams -> Nat] /\ Units(m, Len(m)) \in Nat BY <1>2, <1>4, MarkIn
<1>6. \A s \in Streams : t.s[s] \in ChunkSeqs /\ x[s] \in Seq(Item) BY <1>1 DEF Flat
<1>7. \A s \in Streams : Len(x[s]) \in Nat BY <1>6
<1> QED BY <1>1, <1>2, <1>3, <1>5, <1>6, <1>7

\* A reader in its place, from its parts.
LEMMA PlaceMade ==
  ASSUME NEW t, NEW m, NEW k \in 0 .. Len(m) - 1, NEW p,
         NEW S \in [Streams -> Readers], NEW L \in [Streams -> Nat], NEW b \in {"", "eof"},
         \A s \in Streams : /\ L[s] <= IF k = 0 THEN 0 ELSE Size(m, k, s)
                            /\ StreamAt(S[s], t.s[s], m[k + 1][s] - L[s]),
         L["h"] > 0 => L["c"] = Size(m, k, "c"),
         L["h"] > 0 \/ L["c"] > 0 => L["t"] = Size(m, k, "t"),
         S["c"].pos = S["c"].len,
         p = Units(m, k + 1) - L["h"] - L["c"] - L["t"],
         b = "eof" => k = Len(m) - 1 /\ \A s \in Streams : L[s] = 0,
         NEW z, z = [s |-> S, left |-> L, bad |-> b]
  PROVE  AtPlace(z, t, m, k, p)
<1>1. z.s = S /\ z.left = L /\ z.bad = b OBVIOUS
<1>2. z = [s |-> z.s, left |-> z.left, bad |-> z.bad] BY <1>1
<1>3. Had(z, m, k) = Units(m, k + 1) - L["h"] - L["c"] - L["t"] BY <1>1 DEF Had
<1>4. \A s \in Streams : HadOf(z, m, k, s) = m[k + 1][s] - L[s] BY <1>1 DEF HadOf
<1>5. \A s \in Streams : StreamAt(z.s[s], t.s[s], HadOf(z, m, k, s)) BY Zenon, <1>1, <1>4
<1>6. p = Had(z, m, k) BY <1>3
<1> QED BY <1>1, <1>2, <1>5, <1>6 DEF AtPlace

\* What AtPlace says, part by part.
LEMMA PlaceIs ==
  ASSUME NEW r, NEW t, NEW m, NEW k, NEW p, AtPlace(r, t, m, k, p)
  PROVE  /\ k \in 0 .. Len(m) - 1 /\ r.bad \in {"", "eof"}
         /\ r = [s |-> r.s, left |-> r.left, bad |-> r.bad]
         /\ r.s \in [Streams -> Readers] /\ r.left \in [Streams -> Nat]
         /\ \A s \in Streams : /\ r.left[s] <= IF k = 0 THEN 0 ELSE Size(m, k, s)
                               /\ StreamAt(r.s[s], t.s[s], HadOf(r, m, k, s))
                               /\ r.left[s] \in Nat /\ r.s[s] \in Readers
         /\ r.left["h"] > 0 => r.left["c"] = Size(m, k, "c")
         /\ r.left["h"] > 0 \/ r.left["c"] > 0 => r.left["t"] = Size(m, k, "t")
         /\ r.s["c"].pos = r.s["c"].len
         /\ r.bad = "eof" => k = Len(m) - 1 /\ \A s \in Streams : r.left[s] = 0
BY DEF AtPlace

\* What an entry header says.
LEMMA LengthsAre ==
  ASSUME NEW a \in Nat, NEW b \in Nat, NEW c \in Nat
  PROVE  /\ Lengths(a, b, c) \in [Streams -> Nat] /\ Lengths(a, b, c)["h"] = a
         /\ Lengths(a, b, c)["c"] = b /\ Lengths(a, b, c)["t"] = c
         /\ EntryHeader(a, b, c).unit = 0 /\ EntryHeader(a, b, c).left = Lengths(a, b, c)
BY DEF Lengths, EntryHeader, Streams

\* How much a reader in its place has had.
LEMMA PlaceHad ==
  ASSUME NEW r, NEW t, NEW m, NEW k, NEW p, AtPlace(r, t, m, k, p)
  PROVE  p = Had(r, m, k)
BY DEF AtPlace

\* Numbers.
LEMMA NatIsInt == \A i \in Nat : i \in Int OBVIOUS

\* Nothing is taken away.
LEMMA MinusNone ==
  ASSUME NEW a \in Int, NEW b, b = 0
  PROVE  a - b = a
OBVIOUS

\* get_entryheader
LEMMA NextIs ==
  ASSUME NEW m, NEW x, IsTape(tape, m, x), NEW r, NEW k, NEW p, AtPlace(r, tape, m, k, p), AtEntryEnd(r)
  PROVE  LET z == NextEntry(r)
         IN  \/ k + 1 < Len(m) /\ AtPlace(z, tape, m, k + 1, p) /\ z.bad = ""
             \/ k + 1 = Len(m) /\ AtPlace(z, tape, m, k, p) /\ z.bad = "eof"
<1> DEFINE ch == tape.s["h"]
           y == x["h"]
           w == Chunk(r.s["h"], ch)
           item == ch[w.cur][w.pos + 1]
           z == NextEntry(r)
           a == m[k + 1]["h"]
<1>1. /\ Layout(m, x) /\ Marks(m) /\ Len(m) \in Nat /\ Len(m) >= 1
      /\ Flat(ch, y) /\ m[Len(m)]["h"] = Len(y) /\ ch \in ChunkSeqs /\ Len(y) \in Nat
  BY TapeIs DEF Streams
<1>2. /\ k \in 0 .. Len(m) - 1 /\ r.s \in [Streams -> Readers] /\ r.left \in [Streams -> Nat]
      /\ r = [s |-> r.s, left |-> r.left, bad |-> r.bad]
      /\ \A s \in Streams : StreamAt(r.s[s], tape.s[s], HadOf(r, m, k, s))
      /\ r.s["c"].pos = r.s["c"].len
      /\ p = Had(r, m, k)
  <2>1. k \in 0 .. Len(m) - 1 /\ r.s \in [Streams -> Readers] /\ r.left \in [Streams -> Nat] BY PlaceIs
  <2>2. r = [s |-> r.s, left |-> r.left, bad |-> r.bad] BY PlaceIs
  <2>3. \A s \in Streams : StreamAt(r.s[s], tape.s[s], HadOf(r, m, k, s)) BY PlaceIs
  <2>4. r.s["c"].pos = r.s["c"].len BY PlaceIs
  <2>5. p = Had(r, m, k) BY PlaceHad
  <2> QED BY <2>1, <2>2, <2>3, <2>4, <2>5
<1>3. r.bad = "" /\ \A s \in Streams : r.left[s] = 0 BY DEF AtEntryEnd
<1>4. k + 1 \in 1 .. Len(m) BY <1>1, <1>2
<1>5. /\ m[k + 1] \in [Streams -> Nat] /\ \A s \in Streams : m[k + 1][s] \in Nat
      /\ Units(m, k + 1) \in Nat /\ a \in Nat
  BY <1>1, <1>4, MarkIn DEF Streams
<1>6. \A s \in Streams : StreamAt(r.s[s], tape.s[s], m[k + 1][s])
  <2> TAKE s \in Streams
  <2>0. m[k + 1][s] \in Int /\ r.left[s] = 0 BY Zenon, <1>3, <1>5, NatIsInt
  <2>1. m[k + 1][s] - r.left[s] = m[k + 1][s] BY Zenon, <2>0, MinusNone
  <2>2. StreamAt(r.s[s], tape.s[s], HadOf(r, m, k, s)) /\ HadOf(r, m, k, s) = m[k + 1][s] - r.left[s]
    BY <1>2 DEF HadOf
  <2> QED BY Zenon, <2>1, <2>2
<1>7. p = Units(m, k + 1)
  <2>1. Had(r, m, k) = Units(m, k + 1) - r.left["h"] - r.left["c"] - r.left["t"] BY DEF Had
  <2>2. r.left["h"] = 0 /\ r.left["c"] = 0 /\ r.left["t"] = 0 BY <1>3 DEF Streams
  <2> DEFINE u == Units(m, k + 1)
             b == r.left["h"]
             c == r.left["c"]
             d == r.left["t"]
  <2>3. p = u - b - c - d /\ b = 0 /\ c = 0 /\ d = 0 /\ u \in Nat BY <1>2, <1>5, <2>1, <2>2
  <2> HIDE DEF u, b, c, d
  <2>4. p = u BY <2>3
  <2> QED BY <2>4 DEF u
<1>8. HasData(w, ch, a) \/ HasEnded(w, ch, a) BY <1>1, <1>6, ChunkIs DEF Streams
<1>9. z = IF w.pos = w.len THEN [r EXCEPT !.s["h"] = w, !.bad = "eof"]
          ELSE IF item.unit # 0 THEN [r EXCEPT !.bad = "garbage"]
          ELSE [r EXCEPT !.s["h"] = [w EXCEPT !.pos = @ + 1], !.left = item.left]
  BY DEF NextEntry, HeaderIn
<1> SUFFICES \/ k + 1 < Len(m) /\ AtPlace(z, tape, m, k + 1, p) /\ z.bad = ""
             \/ k + 1 = Len(m) /\ AtPlace(z, tape, m, k, p) /\ z.bad = "eof"
  OBVIOUS
<1> HIDE DEF w, z
<1>10. CASE HasEnded(w, ch, a)
  <2>1. a >= Len(y) BY <1>1, <1>10, EndIs
  <2>2. StreamAt(w, ch, a) /\ w.pos = w.len /\ w \in Readers BY <1>10 DEF HasEnded, StreamAt
  <2>3. ~(k + 1 < Len(m))
    <3> SUFFICES ASSUME k + 1 < Len(m) PROVE FALSE OBVIOUS
    <3>1. k + 1 \in 1 .. Len(m) - 1 BY <1>1, <1>4
    <3>2. /\ m[(k + 1) + 1]["h"] = a + Skipped("h") + Size(m, k + 1, "h") /\ Size(m, k + 1, "h") \in Nat
          /\ m[(k + 1) + 1]["h"] <= Len(y) /\ Skipped("h") = 1
      BY <1>1, <3>1, EntryIn DEF Streams
    <3> DEFINE g == m[(k + 1) + 1]["h"]
               l == Size(m, k + 1, "h")
    <3>3. g = a + 1 + l /\ l \in Nat /\ g <= Len(y) BY <3>2
    <3> HIDE DEF g, l
    <3> QED BY <1>1, <1>5, <2>1, <3>3
  <2>4. k + 1 = Len(m) BY <1>1, <1>4, <2>3
  <2> DEFINE S == [r.s EXCEPT !["h"] = w]
  <2>5. z = [r EXCEPT !.s["h"] = w, !.bad = "eof"] BY <1>9, <2>2
  <2>6. z = [s |-> S, left |-> r.left, bad |-> "eof"] BY <1>2, <2>5
  <2>7. S \in [Streams -> Readers] BY <1>2, <2>2
  <2>8. S["h"] = w /\ S["c"] = r.s["c"] /\ \A s \in Streams \ {"h"} : S[s] = r.s[s] BY <1>2 DEF Streams
  <2> HIDE DEF S
  <2>9. \A s \in Streams : StreamAt(S[s], tape.s[s], m[k + 1][s] - r.left[s])
    <3> TAKE s \in Streams
    <3>0. m[k + 1][s] \in Int /\ r.left[s] = 0 BY Zenon, <1>3, <1>5, NatIsInt
    <3>1. m[k + 1][s] - r.left[s] = m[k + 1][s] BY Zenon, <3>0, MinusNone
    <3>2. CASE s = "h" BY <2>2, <2>8, <3>1, <3>2
    <3>3. CASE s # "h" BY <1>6, <2>8, <3>1, <3>3
    <3> QED BY <3>2, <3>3
  <2>10. \A s \in Streams : r.left[s] <= IF k = 0 THEN 0 ELSE Size(m, k, s)
    BY Zenon, PlaceIs
  <2>11. ~(r.left["h"] > 0) /\ ~(r.left["c"] > 0)
    <3>1. r.left["h"] = 0 /\ r.left["c"] = 0 BY <1>3 DEF Streams
    <3> QED BY <3>1
  <2>12. k = Len(m) - 1 BY <1>1, <1>2, <2>4
  <2>18. p = Units(m, k + 1) - r.left["h"] - r.left["c"] - r.left["t"] BY Zenon, <1>2 DEF Had
  <2>13. AtPlace(z, tape, m, k, p)
    BY <2>18, <1>2, <1>3, <2>6, <2>7, <2>8, <2>9, <2>10, <2>11, <2>12, PlaceMade
  <2>14. z.bad = "eof" BY <2>6
  <2> QED BY <2>4, <2>13, <2>14
<1>11. CASE HasData(w, ch, a)
  <2>1. /\ Rest(w) \in Nat \ {0} /\ a + Rest(w) <= Len(y) /\ w.pos \in Nat
        /\ \A i \in 1 .. Rest(w) : ch[w.cur][w.pos + i] = y[a + i]
    <3>1. Flat(ch, y) /\ HasData(w, ch, a) BY <1>1, <1>11
    <3> HIDE DEF ch, y, a
    <3>2. /\ Rest(w) \in Nat \ {0} /\ a + Rest(w) <= Len(y) /\ w.pos \in Nat
          /\ \A i \in 1 .. Rest(w) : ch[w.cur][w.pos + i] = y[a + i]
      BY <3>1, DataIs, DataAre
    <3> QED BY <3>2 DEF ch, y, a
  <2>2. 1 \in 1 .. Rest(w) /\ 1 \in 0 .. Rest(w) BY <2>1
  <2>3. item = y[a + 1] BY <2>1, <2>2
  <2>4. a < Len(y) BY <1>1, <1>5, <2>1
  <2>5. k + 1 # Len(m) BY <1>1, <1>5, <2>4
  <2>6. k + 1 < Len(m) /\ k + 1 \in 1 .. Len(m) - 1 BY <1>1, <1>4, <2>5
  <2> DEFINE l == k + 1
             h == Size(m, l, "h")
             c == Size(m, l, "c")
             t == Size(m, l, "t")
             L == Lengths(h, c, t)
             v == [w EXCEPT !.pos = @ + 1]
             S == [r.s EXCEPT !["h"] = v]
  <2>7. \A s \in Streams : /\ m[l][s] \in Nat /\ m[l + 1][s] \in Nat /\ Size(m, l, s) \in Nat
                           /\ m[l + 1][s] = m[l][s] + Skipped(s) + Size(m, l, s)
    BY <1>1, <2>6, EntryIn
  <2>8. h \in Nat /\ c \in Nat /\ t \in Nat BY <2>7 DEF Streams
  <2>9. item = EntryHeader(h, c, t) BY <1>1, <2>3, <2>6 DEF Layout, HasEntry
  <2>10. item.unit = 0 /\ item.left = L /\ L \in [Streams -> Nat] /\ L["h"] = h /\ L["c"] = c /\ L["t"] = t
    BY <2>8, <2>9, LengthsAre
  <2>11. StreamAt(v, ch, a + 1) /\ v \in Readers
    <3>1. StreamAt(v, ch, a + 1) BY <1>1, <1>5, <1>11, <2>2, ReadOn
    <3> QED BY <3>1 DEF StreamAt
  <2>12. z = [r EXCEPT !.s["h"] = v, !.left = L]
    <3>1. w.pos # w.len BY <1>11 DEF HasData, StreamAt, Readers
    <3> QED BY <1>9, <2>10, <3>1
  <2> HIDE DEF v, L, item
  <2>13. z = [s |-> S, left |-> L, bad |-> ""] BY <1>2, <1>3, <2>12
  <2>14. S \in [Streams -> Readers] BY <1>2, <2>11
  <2>15. S["h"] = v /\ S["c"] = r.s["c"] /\ \A s \in Streams \ {"h"} : S[s] = r.s[s] BY <1>2 DEF Streams
  <2> HIDE DEF S
  <2>16. \A s \in Streams : L[s] = Size(m, l, s) BY <2>10 DEF Streams
  <2>17. \A s \in Streams : StreamAt(S[s], tape.s[s], m[l + 1][s] - L[s])
    <3> TAKE s \in Streams
    <3>1. m[l + 1][s] - L[s] = m[l][s] + Skipped(s)
      <4>1. Skipped(s) \in Nat BY DEF Skipped
      <4> QED BY <2>7, <2>16, <4>1
    <3>2. CASE s = "h"
      <4>1. m[l + 1][s] - L[s] = a + 1 BY <3>1, <3>2 DEF Skipped
      <4> QED BY <2>11, <2>15, <3>2, <4>1
    <3>3. CASE s # "h"
      <4>1. m[l + 1][s] - L[s] = m[l][s] BY <2>7, <3>1, <3>3 DEF Skipped
      <4> QED BY <1>6, <2>15, <3>3, <4>1
    <3> QED BY <3>2, <3>3
  <2>18. p = Units(m, l + 1) - L["h"] - L["c"] - L["t"]
    <3>1. /\ m[l + 1]["h"] = m[l]["h"] + 1 + h /\ m[l + 1]["c"] = m[l]["c"] + c /\ m[l + 1]["t"] = m[l]["t"] + t
          /\ m[l]["h"] \in Nat /\ m[l]["c"] \in Nat /\ m[l]["t"] \in Nat
      BY <2>7 DEF Streams, Skipped
    <3>2. Units(m, l + 1) = m[l + 1]["h"] - ((l + 1) - 1) + m[l + 1]["c"] + m[l + 1]["t"]
          /\ Units(m, l) = m[l]["h"] - (l - 1) + m[l]["c"] + m[l]["t"]
      BY DEF Units
    <3>3. l \in Nat BY <1>2
    <3> DEFINE h1 == m[l]["h"]
               c1 == m[l]["c"]
               t1 == m[l]["t"]
               h2 == m[l + 1]["h"]
               c2 == m[l + 1]["c"]
               t2 == m[l + 1]["t"]
               u1 == Units(m, l)
               u2 == Units(m, l + 1)
    <3>4. /\ u2 = h2 - ((l + 1) - 1) + c2 + t2 /\ u1 = h1 - (l - 1) + c1 + t1
          /\ h2 = h1 + 1 + h /\ c2 = c1 + c /\ t2 = t1 + t /\ h1 \in Nat /\ c1 \in Nat /\ t1 \in Nat
      BY <3>1, <3>2
    <3>5. p = u1 BY <1>7
    <3> HIDE DEF h1, c1, t1, h2, c2, t2, u1, u2, h, c, t, l
    <3>6. p = u2 - h - c - t BY <2>8, <3>3, <3>4, <3>5
    <3> QED BY Zenon, <2>10, <3>6 DEF u2
  <2>19. l # 0 /\ l \in 0 .. Len(m) - 1 BY <1>2, <2>6
  <2>20. \A s \in Streams : L[s] <= IF l = 0 THEN 0 ELSE Size(m, l, s) BY <2>7, <2>16, <2>19
  <2>21. L["c"] = Size(m, l, "c") /\ L["t"] = Size(m, l, "t") BY <2>10
  <2>22. AtPlace(z, tape, m, l, p)
    <3> HIDE DEF l, h, c, t
    <3> QED BY <1>2, <2>10, <2>13, <2>14, <2>15, <2>17, <2>18, <2>19, <2>20, <2>21, PlaceMade
  <2>23. z.bad = "" BY <2>13
  <2> QED BY <2>6, <2>22, <2>23
<1> QED BY <1>8, <1>10, <1>11

\* The units of an entry, part by part.
LEMMA UnitsNext ==
  ASSUME NEW m, NEW x, Layout(m, x), NEW k \in 1 .. Len(m) - 1
  PROVE  /\ Units(m, k + 1) = Units(m, k) + Size(m, k, "h") + Size(m, k, "c") + Size(m, k, "t")
         /\ Units(m, k) \in Nat /\ Units(m, k + 1) \in Nat
         /\ Size(m, k, "h") \in Nat /\ Size(m, k, "c") \in Nat /\ Size(m, k, "t") \in Nat
<1>1. Marks(m) /\ Len(m) \in Nat BY DEF Layout, Marks
<1>2. k \in 1 .. Len(m) /\ k + 1 \in 1 .. Len(m) /\ k \in Nat BY <1>1
<1>3. Units(m, k) \in Nat /\ Units(m, k + 1) \in Nat BY <1>1, <1>2, MarkIn
<1>4. \A s \in Streams : /\ m[k][s] \in Nat /\ m[k + 1][s] \in Nat /\ Size(m, k, s) \in Nat
                         /\ m[k + 1][s] = m[k][s] + Skipped(s) + Size(m, k, s)
  BY EntryIn
<1> DEFINE h1 == m[k]["h"]
           c1 == m[k]["c"]
           t1 == m[k]["t"]
           h2 == m[k + 1]["h"]
           c2 == m[k + 1]["c"]
           t2 == m[k + 1]["t"]
           u1 == Units(m, k)
           u2 == Units(m, k + 1)
           h == Size(m, k, "h")
           c == Size(m, k, "c")
           t == Size(m, k, "t")
<1>5. /\ h1 \in Nat /\ c1 \in Nat /\ t1 \in Nat /\ h \in Nat /\ c \in Nat /\ t \in Nat
      /\ h2 = h1 + 1 + h /\ c2 = c1 + c /\ t2 = t1 + t
  BY <1>4 DEF Streams, Skipped
<1>6. u2 = h2 - ((k + 1) - 1) + c2 + t2 /\ u1 = h1 - (k - 1) + c1 + t1 BY DEF Units
<1> HIDE DEF h1, c1, t1, h2, c2, t2, u1, u2, h, c, t
<1>7. u2 = u1 + h + c + t BY <1>2, <1>5, <1>6
<1> QED BY <1>3, <1>5, <1>7 DEF u1, u2, h, c, t

\* Part q of the entry is what is read next; j units of it are, by reader w of its
\* stream; which makes z of r.
Unread(r, q) == r.bad = "" /\ q = Part(r) /\ r.left[q] # 0
Goes(r, m, k, q, j, w) ==
  /\ j \in 1 .. r.left[q] /\ StreamAt(w, tape.s[q], HadOf(r, m, k, q) + j)
  /\ q = "c" => w.pos = w.len
Gone(z, r, q, j, w) ==
  z = [s |-> [r.s EXCEPT ![q] = w], left |-> [r.left EXCEPT ![q] = @ - j], bad |-> ""]

\* A reader with something left is in an entry, and in its first part that is left.
LEMMA PartOf ==
  ASSUME NEW m, NEW x, IsTape(tape, m, x), NEW r, NEW k, NEW p, AtPlace(r, tape, m, k, p),
         NEW q, Unread(r, q)
  PROVE  /\ q \in Streams /\ k \in 1 .. Len(m) - 1 /\ r.left[q] \in 1 .. Size(m, k, q)
         /\ \A s \in Streams : r.left[s] \in Nat
         /\ q # "h" => r.left["h"] = 0
         /\ q = "t" => r.left["c"] = 0
         /\ q = "h" => r.left["c"] = Size(m, k, "c")
         /\ q # "t" => r.left["t"] = Size(m, k, "t")
<1>1. /\ k \in 0 .. Len(m) - 1
      /\ \A s \in Streams : r.left[s] \in Nat
      /\ \A s \in Streams : r.left[s] <= IF k = 0 THEN 0 ELSE Size(m, k, s)
      /\ r.left["h"] > 0 => r.left["c"] = Size(m, k, "c")
      /\ r.left["h"] > 0 \/ r.left["c"] > 0 => r.left["t"] = Size(m, k, "t")
  <2>1. k \in 0 .. Len(m) - 1 BY PlaceIs
  <2>2. \A s \in Streams : r.left[s] \in Nat BY PlaceIs
  <2>3. \A s \in Streams : r.left[s] <= IF k = 0 THEN 0 ELSE Size(m, k, s) BY PlaceIs
  <2>4. r.left["h"] > 0 => r.left["c"] = Size(m, k, "c") BY Zenon DEF AtPlace
  <2>5. r.left["h"] > 0 \/ r.left["c"] > 0 => r.left["t"] = Size(m, k, "t") BY Zenon DEF AtPlace
  <2> QED BY <2>1, <2>2, <2>3, <2>4, <2>5
<1>2. r.left["h"] \in Nat /\ r.left["c"] \in Nat /\ r.left["t"] \in Nat BY <1>1 DEF Streams
<1>3. /\ q \in Streams /\ (q = "h" => r.left["h"] > 0) /\ (q # "h" => ~(r.left["h"] > 0))
      /\ (q = "c" => r.left["c"] > 0) /\ (q = "t" => ~(r.left["c"] > 0))
  BY DEF Part, Streams, Unread
<1>4. (q # "h" => r.left["h"] = 0) /\ (q = "t" => r.left["c"] = 0) BY <1>2, <1>3
<1>5. (q = "h" => r.left["c"] = Size(m, k, "c")) /\ (q # "t" => r.left["t"] = Size(m, k, "t"))
  BY <1>1, <1>3 DEF Streams
<1>6. r.left[q] \in Nat /\ r.left[q] >= 1
  <2>1. r.left[q] \in Nat /\ r.left[q] # 0 BY <1>1, <1>3 DEF Unread
  <2> QED BY <2>1
<1>7. k # 0 BY <1>1, <1>3, <1>6
<1>8. Len(m) \in Nat /\ Layout(m, x) BY TapeIs
<1>9. k \in 1 .. Len(m) - 1 BY <1>1, <1>7, <1>8
<1>10. Size(m, k, q) \in Nat BY <1>3, <1>8, <1>9, EntryIn
<1>11. r.left[q] <= Size(m, k, q) BY <1>1, <1>3, <1>7
<1>12. r.left[q] \in 1 .. Size(m, k, q) BY <1>6, <1>10, <1>11
<1> QED BY <1>1, <1>3, <1>4, <1>5, <1>9, <1>12

\* Where it is in the archive, and in the stream.
LEMMA PartAt ==
  ASSUME NEW m, NEW x, IsTape(tape, m, x), NEW r, NEW k, NEW p, AtPlace(r, tape, m, k, p),
         NEW q, Unread(r, q)
  PROVE  /\ p = First(m, k, q) + (Size(m, k, q) - r.left[q])
         /\ HadOf(r, m, k, q) = m[k][q] + Skipped(q) + (Size(m, k, q) - r.left[q])
         /\ HadOf(r, m, k, q) \in Nat /\ p \in Nat /\ HadOf(r, m, k, q) + r.left[q] = m[k + 1][q]
         /\ HadOf(r, m, k, q) + r.left[q] <= Len(x[q])
<1>1. /\ q \in Streams /\ k \in 1 .. Len(m) - 1 /\ r.left[q] \in 1 .. Size(m, k, q)
      /\ \A s \in Streams : r.left[s] \in Nat
      /\ q # "h" => r.left["h"] = 0
      /\ q = "t" => r.left["c"] = 0
      /\ q = "h" => r.left["c"] = Size(m, k, "c")
      /\ q # "t" => r.left["t"] = Size(m, k, "t")
  BY PartOf
<1>2. Layout(m, x) BY TapeIs
<1>3. p = Had(r, m, k) BY PlaceHad
<1> DEFINE u1 == Units(m, k)
           u2 == Units(m, k + 1)
           h == Size(m, k, "h")
           c == Size(m, k, "c")
           t == Size(m, k, "t")
           lh == r.left["h"]
           lc == r.left["c"]
           lt == r.left["t"]
<1>4. /\ u2 = u1 + h + c + t /\ u1 \in Nat /\ u2 \in Nat /\ h \in Nat /\ c \in Nat /\ t \in Nat
  BY <1>1, <1>2, UnitsNext
<1>5. lh \in Nat /\ lc \in Nat /\ lt \in Nat BY <1>1 DEF Streams
<1>6. p = u2 - lh - lc - lt BY <1>3 DEF Had
<1>7. /\ q = "h" => First(m, k, q) = u1 + 0 + 0 /\ Size(m, k, q) = h /\ r.left[q] = lh /\ lc = c /\ lt = t
      /\ q = "c" => First(m, k, q) = u1 + h + 0 /\ Size(m, k, q) = c /\ r.left[q] = lc /\ lh = 0 /\ lt = t
      /\ q = "t" => First(m, k, q) = u1 + h + c /\ Size(m, k, q) = t /\ r.left[q] = lt /\ lh = 0 /\ lc = 0
  BY <1>1 DEF First
<1>8. p = First(m, k, q) + (Size(m, k, q) - r.left[q])
  <2> DEFINE f == First(m, k, q)
             g == Size(m, k, q)
             l == r.left[q]
  <2>1. q = "h" \/ q = "c" \/ q = "t" BY <1>1 DEF Streams
  <2>2. /\ q = "h" => f = u1 + 0 + 0 /\ g = h /\ l = lh /\ lc = c /\ lt = t
        /\ q = "c" => f = u1 + h + 0 /\ g = c /\ l = lc /\ lh = 0 /\ lt = t
        /\ q = "t" => f = u1 + h + c /\ g = t /\ l = lt /\ lh = 0 /\ lc = 0
    BY <1>7
  <2> HIDE DEF u1, u2, h, c, t, lh, lc, lt, f, g, l
  <2>3. p = f + (g - l) BY <1>4, <1>5, <1>6, <2>1, <2>2
  <2> QED BY <2>3 DEF f, g, l
<1>9. /\ m[k][q] \in Nat /\ m[k + 1][q] \in Nat /\ Size(m, k, q) \in Nat
      /\ m[k + 1][q] = m[k][q] + Skipped(q) + Size(m, k, q)
      /\ m[k + 1][q] <= Len(x[q]) /\ Skipped(q) \in 0 .. 1 /\ First(m, k, q) \in Nat
  BY <1>1, <1>2, EntryIn
<1> DEFINE a == m[k][q]
           b == m[k + 1][q]
           g == Size(m, k, q)
           l == r.left[q]
           d == Skipped(q)
           v == HadOf(r, m, k, q)
           f == First(m, k, q)
           y == Len(x[q])
<1>10. /\ a \in Nat /\ b \in Nat /\ g \in Nat /\ b = a + d + g /\ b <= y /\ d \in 0 .. 1 /\ f \in Nat
       /\ l \in 1 .. g /\ p = f + (g - l)
  BY <1>1, <1>8, <1>9
<1>11. v = b - l BY DEF HadOf
<1> HIDE DEF a, b, g, l, d, v, f, y
<1>12. v = a + d + (g - l) /\ v \in Nat /\ p \in Nat /\ v + l = b /\ v + l <= y BY <1>10, <1>11
<1> QED BY <1>8, <1>12 DEF a, b, g, l, d, v, f, y

\* What it reads next.
LEMMA PartUnits ==
  ASSUME NEW m, NEW x, IsTape(tape, m, x), NEW r, NEW k, NEW p, AtPlace(r, tape, m, k, p),
         NEW q, Unread(r, q)
  PROVE  \A i \in 1 .. r.left[q] : x[q][HadOf(r, m, k, q) + i] = Unit(p + i)
<1>1. /\ q \in Streams /\ k \in 1 .. Len(m) - 1 /\ r.left[q] \in 1 .. Size(m, k, q)
  BY PartOf
<1>2. /\ p = First(m, k, q) + (Size(m, k, q) - r.left[q])
      /\ HadOf(r, m, k, q) = m[k][q] + Skipped(q) + (Size(m, k, q) - r.left[q])
  BY PartAt
<1>3. Layout(m, x) BY TapeIs
<1>4. \A i \in 1 .. Size(m, k, q) : x[q][m[k][q] + Skipped(q) + i] = Unit(First(m, k, q) + i)
  BY <1>1, <1>3 DEF Layout, HasEntry
<1>5. m[k][q] \in Nat /\ Size(m, k, q) \in Nat /\ First(m, k, q) \in Nat /\ Skipped(q) \in 0 .. 1
  BY <1>1, <1>3, EntryIn
<1> DEFINE a == m[k][q] + Skipped(q)
           f == First(m, k, q)
           g == Size(m, k, q)
           l == r.left[q]
           v == HadOf(r, m, k, q)
<1>6. \A i \in 1 .. g : x[q][a + i] = Unit(f + i) BY <1>4
<1>8. a \in Nat BY <1>5
<1>9. f \in Nat /\ g \in Nat /\ l \in 1 .. g BY <1>1, <1>5
<1>10. p = f + (g - l) /\ v = a + (g - l) BY <1>2
<1> HIDE DEF a, f, g, l, v
<1>7. ASSUME NEW i \in 1 .. l PROVE x[q][v + i] = Unit(p + i)
  <2>1. (g - l) + i \in 1 .. g /\ v + i = a + ((g - l) + i) /\ p + i = f + ((g - l) + i) BY <1>8, <1>9, <1>10
  <2>2. x[q][a + ((g - l) + i)] = Unit(f + ((g - l) + i)) BY <1>6, <2>1
  <2> QED BY <2>1, <2>2
<1> QED BY <1>7 DEF l, v

\* It goes on by j units.
LEMMA Advanced ==
  ASSUME NEW m, NEW x, IsTape(tape, m, x), NEW r, NEW k, NEW p, AtPlace(r, tape, m, k, p),
         NEW q, Unread(r, q), NEW j, NEW w, Goes(r, m, k, q, j, w), NEW z, Gone(z, r, q, j, w)
  PROVE  AtPlace(z, tape, m, k, p + j)
<1>1. /\ q \in Streams /\ k \in 1 .. Len(m) - 1 /\ r.left[q] \in 1 .. Size(m, k, q)
      /\ \A s \in Streams : r.left[s] \in Nat
      /\ q # "h" => r.left["h"] = 0
      /\ q = "t" => r.left["c"] = 0
      /\ q = "h" => r.left["c"] = Size(m, k, "c")
      /\ q # "t" => r.left["t"] = Size(m, k, "t")
  BY PartOf
<1>2. /\ k \in 0 .. Len(m) - 1 /\ r.s \in [Streams -> Readers] /\ r.left \in [Streams -> Nat]
      /\ r.s["c"].pos = r.s["c"].len
  BY PlaceIs
<1>3. \A s \in Streams : r.left[s] <= IF k = 0 THEN 0 ELSE Size(m, k, s) BY PlaceIs
<1>4. \A s \in Streams : StreamAt(r.s[s], tape.s[s], HadOf(r, m, k, s)) BY PlaceIs
<1> DEFINE S == [r.s EXCEPT ![q] = w]
           l == r.left[q]
           d == l - j
           L == [r.left EXCEPT ![q] = d]
           g == Size(m, k, q)
<1>15. z = [s |-> S, left |-> L, bad |-> ""] BY DEF Gone
<1>20. /\ j \in 1 .. l /\ StreamAt(w, tape.s[q], HadOf(r, m, k, q) + j)
       /\ q = "c" => w.pos = w.len
  BY DEF Goes
<1>5. w \in Readers BY <1>20 DEF StreamAt
<1>16. Layout(m, x) BY TapeIs
<1>17. g \in Nat BY <1>1, <1>16, EntryIn
<1>18. l \in 1 .. g BY <1>1
<1>21. d = l - j OBVIOUS
<1> HIDE DEF l, g, d
<1>19. l \in Nat /\ j \in Nat /\ d \in Nat /\ d < l /\ d <= g BY <1>17, <1>18, <1>20, <1>21
<1>6. d \in Nat /\ k # 0 BY <1>1, <1>19
<1>7. S \in [Streams -> Readers] /\ L \in [Streams -> Nat] BY <1>2, <1>5, <1>6
<1>8. S[q] = w /\ L[q] = d /\ \A s \in Streams : s # q => S[s] = r.s[s] /\ L[s] = r.left[s]
  BY <1>1, <1>2
<1> HIDE DEF S, L
<1>9. Layout(m, x) /\ \A s \in Streams : m[k + 1][s] \in Nat
  BY <1>1, TapeIs, EntryIn
<1>10. ASSUME NEW s \in Streams
       PROVE  /\ L[s] <= IF k = 0 THEN 0 ELSE Size(m, k, s)
              /\ StreamAt(S[s], tape.s[s], m[k + 1][s] - L[s])
  <2>1. HadOf(r, m, k, s) = m[k + 1][s] - r.left[s] BY DEF HadOf
  <2>2. CASE s = q
    <3> DEFINE b == m[k + 1][q]
               v == HadOf(r, m, k, q)
    <3>6. b \in Nat BY <1>1, <1>9
    <3>7. v = b - l BY <2>1, <2>2 DEF l
    <3> HIDE DEF b, v
    <3>2. v + j = b - d BY <1>19, <1>21, <3>6, <3>7
    <3>3. HadOf(r, m, k, q) + j = m[k + 1][q] - d BY <3>2 DEF v, b
    <3>4. StreamAt(w, tape.s[q], m[k + 1][q] - d) BY Zenon, <1>20, <3>3
    <3>5. d <= Size(m, k, q) BY <1>19 DEF g
    <3> QED BY <1>6, <1>8, <2>2, <3>4, <3>5
  <2>3. CASE s # q
    <3>1. StreamAt(r.s[s], tape.s[s], m[k + 1][s] - r.left[s]) BY Zenon, <1>4, <2>1
    <3> QED BY <1>3, <1>8, <2>3, <3>1
  <2> QED BY <2>2, <2>3
<1>11. L["h"] > 0 => L["c"] = Size(m, k, "c")
  <2>1. CASE q = "h" BY <1>1, <1>8, <2>1 DEF Streams
  <2>2. CASE q # "h"
    <3>1. L["h"] = 0 BY <1>1, <1>8, <2>2 DEF Streams
    <3> QED BY <3>1
  <2> QED BY <2>1, <2>2
<1>12. L["h"] > 0 \/ L["c"] > 0 => L["t"] = Size(m, k, "t")
  <2>1. CASE q = "t"
    <3>1. L["h"] = 0 /\ L["c"] = 0 BY <1>1, <1>8, <2>1 DEF Streams
    <3> QED BY <3>1
  <2>2. CASE q # "t" BY <1>1, <1>8, <2>2 DEF Streams
  <2> QED BY <2>1, <2>2
<1>13. S["c"].pos = S["c"].len BY <1>2, <1>8, <1>20 DEF Streams
<1>14. p + j = Units(m, k + 1) - L["h"] - L["c"] - L["t"]
  <2> DEFINE u == Units(m, k + 1)
             lh == r.left["h"]
             lc == r.left["c"]
             lt == r.left["t"]
             nh == L["h"]
             nc == L["c"]
             nt == L["t"]
  <2>1. p = u - lh - lc - lt
    <3>1. p = Had(r, m, k) BY PlaceHad
    <3> QED BY <3>1 DEF Had
  <2>2. u \in Nat BY <1>1, <1>9, UnitsNext
  <2>3. lh \in Nat /\ lc \in Nat /\ lt \in Nat BY <1>1 DEF Streams
  <2>5. j \in Nat BY <1>19
  <2>7. d = l - j BY <1>21
  <2>8. q = "h" \/ q = "c" \/ q = "t" BY <1>1 DEF Streams
  <2>9. CASE q = "h"
    <3>1. nh = d /\ nc = lc /\ nt = lt /\ l = lh BY <1>8, <2>9 DEF Streams, l
    <3> HIDE DEF u, lh, lc, lt, nh, nc, nt
    <3>2. p + j = u - nh - nc - nt BY <2>1, <2>2, <2>3, <2>5, <2>7, <3>1
    <3> QED BY <3>2 DEF u, nh, nc, nt
  <2>10. CASE q = "c"
    <3>1. nh = lh /\ nc = d /\ nt = lt /\ l = lc BY <1>8, <2>10 DEF Streams, l
    <3> HIDE DEF u, lh, lc, lt, nh, nc, nt
    <3>2. p + j = u - nh - nc - nt BY <2>1, <2>2, <2>3, <2>5, <2>7, <3>1
    <3> QED BY <3>2 DEF u, nh, nc, nt
  <2>11. CASE q = "t"
    <3>1. nh = lh /\ nc = lc /\ nt = d /\ l = lt BY <1>8, <2>11 DEF Streams, l
    <3> HIDE DEF u, lh, lc, lt, nh, nc, nt
    <3>2. p + j = u - nh - nc - nt BY <2>1, <2>2, <2>3, <2>5, <2>7, <3>1
    <3> QED BY <3>2 DEF u, nh, nc, nt
  <2> QED BY <2>8, <2>9, <2>10, <2>11
<1> QED BY <1>2, <1>7, <1>10, <1>11, <1>12, <1>13, <1>14, <1>15, PlaceMade

-----------------------------------------------------------------------------
(* The loop of get_entryheader, and readtape_skip unit by unit. *)

\* One turn of the loop, or one unit that is skipped.
Turn(r, skip) == IF skip THEN SkipUnit(Entry(r)) ELSE EntryTurn(r)
IsRun(g, r, k, skip) == g = [i \in 0 .. k |-> IF i = 0 THEN r ELSE Turn(g[i - 1], skip)]

\* Every number of turns can be made.
LEMMA RunExists ==
  ASSUME NEW r, NEW k \in Nat, NEW skip
  PROVE  \E g : IsRun(g, r, k, skip)
<1> DEFINE Bad == {l \in Nat : ~ \E g : IsRun(g, r, l, skip)}
<1>1. SUFFICES ASSUME Bad # {} PROVE FALSE
  BY Zenon
<1>2. PICK l \in Bad : \A j \in Bad : l <= j
  <2>1. Bad \subseteq Nat OBVIOUS
  <2> HIDE DEF Bad
  <2> QED BY <1>1, <2>1, LeastNat
<1>3. CASE l = 0
  <2> DEFINE g == [i \in 0 .. 0 |-> r]
  <2>1. IsRun(g, r, 0, skip)
    <3>1. \A i \in 0 .. 0 : i = 0 OBVIOUS
    <3> QED BY <3>1, Zenon DEF IsRun
  <2> QED BY <2>1, <1>2, <1>3
<1>4. CASE l > 0
  <2>1. l \in Nat /\ l - 1 \in Nat BY <1>4
  <2>2. PICK f : IsRun(f, r, l - 1, skip)
    <3>1. ~(l <= l - 1) BY <2>1
    <3> QED BY <2>1, <3>1, <1>2
  <2> DEFINE g == [i \in 0 .. l |-> IF i = 0 THEN r ELSE Turn(f[i - 1], skip)]
  <2>3. ASSUME NEW i \in 0 .. l PROVE g[i] = IF i = 0 THEN r ELSE Turn(g[i - 1], skip)
    <3>1. CASE i = 0 BY <3>1, <2>1
    <3>2. CASE i # 0
      <4>1. i - 1 \in 0 .. l - 1 /\ i - 1 \in 0 .. l BY <3>2, <2>1
      <4>2. f[i - 1] = IF i - 1 = 0 THEN r ELSE Turn(f[i - 1 - 1], skip)
        BY <4>1, <2>2, Zenon DEF IsRun
      <4>3. g[i - 1] = IF i - 1 = 0 THEN r ELSE Turn(f[i - 1 - 1], skip) BY <4>1
      <4>4. g[i] = Turn(f[i - 1], skip) BY <3>2
      <4> HIDE DEF g
      <4> QED BY <3>2, <4>2, <4>3, <4>4
    <3> QED BY <3>1, <3>2
  <2>4. g = [i \in 0 .. l |-> g[i]] BY Zenon
  <2>5. IsRun(g, r, l, skip)
    <3> HIDE DEF g
    <3> QED BY <2>3, <2>4, Zenon DEF IsRun
  <2> QED BY <2>5, <1>2
<1> QED BY <1>2, <1>3, <1>4

IsEntryRun(g, r, k) == g = [i \in 0 .. k |-> IF i = 0 THEN r ELSE EntryTurn(g[i - 1])]
IsSkipRun(g, r, k) == g = [i \in 0 .. k |-> IF i = 0 THEN r ELSE SkipUnit(Entry(g[i - 1]))]

\* Entry is the last of its turns,
LEMMA EntryRun ==
  ASSUME NEW r, Turns \in Nat
  PROVE  \E g : /\ Entry(r) = g[Turns] /\ g[0] = r
                /\ \A i \in 1 .. Turns : g[i] = EntryTurn(g[i - 1])
<1>1. PICK f : IsRun(f, r, Turns, FALSE) BY RunExists
<1>2. \A a : Turn(a, FALSE) = EntryTurn(a) BY DEF Turn
<1>3. IsEntryRun(f, r, Turns) BY Zenon, <1>1, <1>2 DEF IsRun, IsEntryRun
<1> DEFINE g == CHOOSE h : IsEntryRun(h, r, Turns)
<1>4. IsEntryRun(g, r, Turns) BY Zenon, <1>3
<1>5. Entry(r) = g[Turns] BY Zenon DEF Entry, IsEntryRun
<1> HIDE DEF g
<1>6. \A i \in 0 .. Turns : g[i] = IF i = 0 THEN r ELSE EntryTurn(g[i - 1])
  BY Zenon, <1>4 DEF IsEntryRun
<1>7. 0 \in 0 .. Turns /\ \A i \in 1 .. Turns : i \in 0 .. Turns /\ i # 0 OBVIOUS
<1>8. g[0] = r BY Zenon, <1>6, <1>7
<1>9. \A i \in 1 .. Turns : g[i] = EntryTurn(g[i - 1]) BY Zenon, <1>6, <1>7
<1> QED BY Zenon, <1>5, <1>8, <1>9

\* and SkipTape of its.
LEMMA SkipRun ==
  ASSUME NEW r, NEW k \in Nat
  PROVE  \E g : /\ SkipTape(r, k) = g[k] /\ g[0] = r
                /\ \A i \in 1 .. k : g[i] = SkipUnit(Entry(g[i - 1]))
<1>1. PICK f : IsRun(f, r, k, TRUE) BY RunExists
<1>2. \A a : Turn(a, TRUE) = SkipUnit(Entry(a)) BY DEF Turn
<1>3. IsSkipRun(f, r, k) BY Zenon, <1>1, <1>2 DEF IsRun, IsSkipRun
<1> DEFINE g == CHOOSE h : IsSkipRun(h, r, k)
<1>4. IsSkipRun(g, r, k) BY Zenon, <1>3
<1>5. SkipTape(r, k) = g[k] BY Zenon DEF SkipTape, IsSkipRun
<1> HIDE DEF g
<1>6. \A i \in 0 .. k : g[i] = IF i = 0 THEN r ELSE SkipUnit(Entry(g[i - 1]))
  BY Zenon, <1>4 DEF IsSkipRun
<1>7. 0 \in 0 .. k /\ \A i \in 1 .. k : i \in 0 .. k /\ i # 0 OBVIOUS
<1>8. g[0] = r BY Zenon, <1>6, <1>7
<1>9. \A i \in 1 .. k : g[i] = SkipUnit(Entry(g[i - 1])) BY Zenon, <1>6, <1>7
<1> QED BY Zenon, <1>5, <1>8, <1>9

\* The loop ends in an entry with something left, or at the end.
LEMMA EntryIs ==
  ASSUME NEW m, NEW x, IsTape(tape, m, x), NEW r, NEW k, NEW p, AtPlace(r, tape, m, k, p)
  PROVE  \E l : AtPlace(Entry(r), tape, m, l, p) /\ ~AtEntryEnd(Entry(r))
<1> DEFINE y == x["h"]
           ch == tape.s["h"]
<1>1. /\ Marks(m) /\ Len(m) \in Nat /\ Len(m) >= 1
      /\ Flat(ch, y) /\ m[Len(m)]["h"] = Len(y) /\ ch \in ChunkSeqs /\ Len(y) \in Nat
  BY TapeIs DEF Streams
<1>2. Turns = Len(y) + 1
  <2>1. Len(ch) \in Nat BY <1>1 DEF ChunkSeqs
  <2>2. Length(ch, 1, Len(ch)) = Length(ch, 1, (Len(ch) + 1) - 1)
    <3>1. (Len(ch) + 1) - 1 = Len(ch) BY <2>1
    <3> QED BY <3>1
  <2>3. Len(y) = Start(ch, Len(ch) + 1) BY <1>1 DEF Flat
  <2> QED BY <2>2, <2>3 DEF Turns, Start
<1>3. Len(m) - 1 <= Len(y)
  <2>1. Len(m) \in 1 .. Len(m) BY <1>1
  <2> QED BY <1>1, <2>1 DEF Marks
<1>4. Turns \in Nat BY <1>1, <1>2
<1>5. PICK g : /\ Entry(r) = g[Turns] /\ g[0] = r
               /\ \A i \in 1 .. Turns : g[i] = EntryTurn(g[i - 1])
  BY <1>4, EntryRun
<1> HIDE DEF y, ch
<1> DEFINE Fine(i) == \E l : AtPlace(g[i], tape, m, l, p) /\ (AtEntryEnd(g[i]) => l >= i)
           Bad == {i \in 0 .. Turns : ~Fine(i)}
<1>6. k \in Nat
  <2>1. k \in 0 .. Len(m) - 1 BY PlaceIs
  <2> QED BY <2>1
<1>7. Fine(0) BY <1>5, <1>6
<1>8. ASSUME NEW i \in 1 .. Turns, Fine(i - 1)
      PROVE  Fine(i)
  <2>1. PICK l : AtPlace(g[i - 1], tape, m, l, p) /\ (AtEntryEnd(g[i - 1]) => l >= i - 1) BY <1>8
  <2>2. g[i] = EntryTurn(g[i - 1]) BY <1>5
  <2>3. l \in Nat /\ i \in Nat
    <3>1. l \in 0 .. Len(m) - 1 BY <2>1, PlaceIs
    <3> QED BY <1>4, <3>1
  <2>4. CASE AtEntryEnd(g[i - 1])
    <3>1. g[i] = NextEntry(g[i - 1]) BY <2>2, <2>4 DEF EntryTurn
    <3>2. \/ AtPlace(g[i], tape, m, l + 1, p)
          \/ AtPlace(g[i], tape, m, l, p) /\ g[i].bad = "eof"
      <4> DEFINE a == g[i - 1]
      <4>1. AtPlace(a, tape, m, l, p) /\ AtEntryEnd(a) BY <2>1, <2>4
      <4> HIDE DEF a
      <4>2. \/ l + 1 < Len(m) /\ AtPlace(NextEntry(a), tape, m, l + 1, p)
            \/ l + 1 = Len(m) /\ AtPlace(NextEntry(a), tape, m, l, p) /\ NextEntry(a).bad = "eof"
        BY Zenon, <4>1, NextIs
      <4> QED BY <3>1, <4>2 DEF a
    <3>3. CASE AtPlace(g[i], tape, m, l + 1, p)
      <4>1. l + 1 >= i BY <2>1, <2>3, <2>4
      <4> QED BY <3>3, <4>1
    <3>4. CASE AtPlace(g[i], tape, m, l, p) /\ g[i].bad = "eof"
      <4>1. ~AtEntryEnd(g[i]) BY <3>4 DEF AtEntryEnd
      <4> QED BY <3>4, <4>1
    <3> QED BY <3>2, <3>3, <3>4
  <2>5. CASE ~AtEntryEnd(g[i - 1])
    <3>1. g[i] = g[i - 1] BY <2>2, <2>5 DEF EntryTurn
    <3> QED BY Zenon, <2>1, <2>5, <3>1
  <2> QED BY <2>4, <2>5
<1>9. Bad = {}
  <2> SUFFICES ASSUME Bad # {} PROVE FALSE OBVIOUS
  <2>1. PICK i \in Bad : \A j \in Bad : i <= j
    <3>1. Bad \subseteq Nat BY <1>4
    <3> HIDE DEF Bad
    <3> QED BY <3>1, LeastNat
  <2>2. i \in 0 .. Turns /\ ~Fine(i) BY <2>1
  <2> HIDE DEF Fine
  <2>3. i # 0 BY <1>7, <2>2
  <2>4. i \in 1 .. Turns /\ i - 1 \in 0 .. Turns /\ ~(i <= i - 1) BY <1>4, <2>2, <2>3
  <2>5. Fine(i - 1) BY <2>1, <2>4
  <2> QED BY <1>8, <2>2, <2>4, <2>5
<1>10. Turns \in 0 .. Turns BY <1>4
<1>11. Fine(Turns)
  <2> HIDE DEF Fine
  <2> QED BY <1>9, <1>10
<1>12. PICK l : AtPlace(g[Turns], tape, m, l, p) /\ (AtEntryEnd(g[Turns]) => l >= Turns) BY <1>11
<1>13. l \in 0 .. Len(m) - 1 BY <1>12, PlaceIs
<1>14. ~(l >= Turns) BY <1>1, <1>2, <1>3, <1>13
<1> QED BY <1>5, <1>12, <1>14

\* A reader that is not at the end of an entry has something left, or is at the end.
LEMMA LeftIs ==
  ASSUME NEW m, NEW r, NEW k, NEW p, AtPlace(r, tape, m, k, p), ~AtEntryEnd(r)
  PROVE  r.bad = "eof" \/ (r.bad = "" /\ Unread(r, Part(r)))
<1>1. r.bad \in {"", "eof"} /\ \A s \in Streams : r.left[s] \in Nat BY PlaceIs
<1>2. r.left["h"] \in Nat /\ r.left["c"] \in Nat /\ r.left["t"] \in Nat BY <1>1 DEF Streams
<1>3. r.bad = "" => r.left["h"] # 0 \/ r.left["c"] # 0 \/ r.left["t"] # 0 BY DEF AtEntryEnd, Streams
<1> DEFINE h == r.left["h"]
           c == r.left["c"]
           q == Part(r)
<1>4. q = IF h > 0 THEN "h" ELSE IF c > 0 THEN "c" ELSE "t" BY DEF Part
<1>5. h \in Nat /\ c \in Nat BY <1>2
<1> HIDE DEF h, c, q
<1>6. (q = "h" /\ h # 0) \/ (q = "c" /\ c # 0) \/ (q = "t" /\ h = 0 /\ c = 0) BY <1>4, <1>5
<1>7. r.bad = "" => r.left[q] # 0 BY <1>3, <1>6 DEF h, c
<1>8. q = Part(r) BY DEF q
<1>9. r.bad = "" => Unread(r, Part(r)) BY Zenon, <1>7, <1>8 DEF Unread
<1>10. r.bad = "" \/ r.bad = "eof" BY <1>1
<1> QED BY Zenon, <1>9, <1>10

\* At the end it has had everything.
LEMMA EndHad ==
  ASSUME NEW m, NEW x, IsTape(tape, m, x), NEW r, NEW k, NEW p, AtPlace(r, tape, m, k, p), r.bad = "eof"
  PROVE  p = tape.n
<1>1. k = Len(m) - 1 /\ \A s \in Streams : r.left[s] = 0 BY PlaceIs
<1>2. p = Units(m, k + 1) - r.left["h"] - r.left["c"] - r.left["t"]
  <2>1. p = Had(r, m, k) BY PlaceHad
  <2> QED BY <2>1 DEF Had
<1>3. Len(m) \in Nat /\ tape.n = Units(m, Len(m)) /\ tape.n \in Nat BY TapeIs
<1>4. k + 1 = Len(m) BY <1>1, <1>3
<1> DEFINE h == r.left["h"]
           c == r.left["c"]
           t == r.left["t"]
           u == Units(m, k + 1)
<1>5. h = 0 /\ c = 0 /\ t = 0 BY <1>1 DEF Streams
<1>6. p = u - h - c - t /\ u = tape.n BY <1>2, <1>3, <1>4
<1> HIDE DEF h, c, t, u
<1> QED BY <1>3, <1>5, <1>6

\* And never more.
LEMMA HadIn ==
  ASSUME NEW m, NEW x, IsTape(tape, m, x), NEW r, NEW k, NEW p, AtPlace(r, tape, m, k, p)
  PROVE  p \in Int
<1>1. \A s \in Streams : r.left[s] \in Nat BY PlaceIs
<1>2. k \in 0 .. Len(m) - 1 BY PlaceIs
<1>3. Marks(m) /\ Len(m) \in Nat BY TapeIs
<1>4. k + 1 \in 1 .. Len(m) BY <1>2, <1>3
<1>5. Units(m, k + 1) \in Nat BY <1>3, <1>4, MarkIn
<1>6. p = Had(r, m, k) BY PlaceHad
<1>7. r.left["h"] \in Nat /\ r.left["c"] \in Nat /\ r.left["t"] \in Nat BY <1>1 DEF Streams
<1>8. p = Units(m, k + 1) - r.left["h"] - r.left["c"] - r.left["t"] BY <1>6 DEF Had
<1> DEFINE h == r.left["h"]
           c == r.left["c"]
           t == r.left["t"]
           u == Units(m, k + 1)
<1>9. p = u - h - c - t /\ u \in Nat /\ h \in Nat /\ c \in Nat /\ t \in Nat BY <1>5, <1>7, <1>8
<1> HIDE DEF h, c, t, u
<1> QED BY <1>9

\* A unit is skipped.
LEMMA SkipUnitIs ==
  ASSUME NEW m, NEW x, IsTape(tape, m, x), NEW r, NEW k, NEW p, AtPlace(r, tape, m, k, p),
         ~AtEntryEnd(r), p # tape.n
  PROVE  AtPlace(SkipUnit(r), tape, m, k, p + 1)
<1>1. r.bad = "" /\ Unread(r, Part(r)) BY LeftIs, EndHad
<1> DEFINE q == Part(r)
           w == [r.s[q] EXCEPT !.skip = @ + 1]
           z == SkipUnit(r)
<1>2. Unread(r, q) BY <1>1
<1>3. z = [r EXCEPT !.left[q] = @ - 1, !.s[q].skip = @ + 1] BY <1>1 DEF SkipUnit
<1>4. r = [s |-> r.s, left |-> r.left, bad |-> r.bad] BY PlaceIs
<1>5. z = [s |-> [r.s EXCEPT ![q] = w], left |-> [r.left EXCEPT ![q] = @ - 1], bad |-> ""]
  <2> HIDE DEF q, z
  <2> DEFINE S == [r.s EXCEPT ![q] = w]
             L == [r.left EXCEPT ![q] = @ - 1]
  <2>1. z = [r EXCEPT !.left = L, !.s = S] BY <1>3
  <2> HIDE DEF S, L
  <2>2. z = [s |-> S, left |-> L, bad |-> r.bad] BY <1>4, <2>1
  <2> QED BY <1>1, <2>2 DEF S, L
<1>6. /\ q \in Streams /\ r.left[q] \in 1 .. Size(m, k, q) BY <1>2, PartOf
<1>7. HadOf(r, m, k, q) \in Nat BY <1>2, PartAt
<1>8. tape.s[q] \in ChunkSeqs BY <1>6, TapeIs
<1>9. StreamAt(r.s[q], tape.s[q], HadOf(r, m, k, q)) BY <1>6, PlaceIs
<1>10. r.s["c"].pos = r.s["c"].len BY PlaceIs
<1>11. StreamAt(w, tape.s[q], HadOf(r, m, k, q) + 1) /\ w.pos = r.s[q].pos /\ w.len = r.s[q].len
  <2> HIDE DEF q
  <2>1. HadOf(r, m, k, q) \in Int /\ 1 \in Nat BY <1>7
  <2> QED BY <1>8, <1>9, <2>1, SkipOn
<1>12. 1 \in 1 .. r.left[q] BY <1>6
<1> HIDE DEF w, z, q
<1>13. q = "c" => w.pos = w.len BY <1>10, <1>11
<1>14. Goes(r, m, k, q, 1, w) BY <1>11, <1>12, <1>13 DEF Goes
<1>15. Gone(z, r, q, 1, w) BY <1>5 DEF Gone
<1>16. AtPlace(z, tape, m, k, p + 1) BY <1>2, <1>14, <1>15, Advanced
<1> QED BY <1>16 DEF z

\* readtape_skip
LEMMA SkipTapeIs ==
  ASSUME NEW m, NEW x, IsTape(tape, m, x), NEW r, NEW k, NEW p, AtPlace(r, tape, m, k, p),
         NEW j \in Nat, p + j <= tape.n
  PROVE  \E l : AtPlace(SkipTape(r, j), tape, m, l, p + j)
<1>1. PICK g : /\ SkipTape(r, j) = g[j] /\ g[0] = r
               /\ \A i \in 1 .. j : g[i] = SkipUnit(Entry(g[i - 1]))
  BY SkipRun
<1>2. p \in Int /\ tape.n \in Nat BY HadIn, TapeIs
<1> DEFINE Fine(i) == \E l : AtPlace(g[i], tape, m, l, p + i)
           Bad == {i \in 0 .. j : ~Fine(i)}
<1>3. Fine(0)
  <2>1. p + 0 = p BY <1>2
  <2> QED BY <1>1, <2>1
<1>4. ASSUME NEW i \in 1 .. j, Fine(i - 1)
      PROVE  Fine(i)
  <2>1. PICK l : AtPlace(g[i - 1], tape, m, l, p + (i - 1)) BY <1>4
  <2> DEFINE a == Entry(g[i - 1])
  <2>2. PICK h : AtPlace(a, tape, m, h, p + (i - 1)) /\ ~AtEntryEnd(a) BY <2>1, EntryIs
  <2>3. g[i] = SkipUnit(a) BY <1>1
  <2>4. p + (i - 1) # tape.n /\ (p + (i - 1)) + 1 = p + i BY <1>2
  <2> HIDE DEF a
  <2>5. AtPlace(SkipUnit(a), tape, m, h, (p + (i - 1)) + 1) BY <2>2, <2>4, SkipUnitIs
  <2>6. AtPlace(g[i], tape, m, h, p + i) BY Zenon, <2>3, <2>4, <2>5
  <2> QED BY <2>6
<1>5. Bad = {}
  <2> SUFFICES ASSUME Bad # {} PROVE FALSE OBVIOUS
  <2>1. PICK i \in Bad : \A h \in Bad : i <= h
    <3>1. Bad \subseteq Nat OBVIOUS
    <3> HIDE DEF Bad
    <3> QED BY <3>1, LeastNat
  <2>2. i \in 0 .. j /\ ~Fine(i) BY <2>1
  <2> HIDE DEF Fine
  <2>3. i # 0 BY <1>3, <2>2
  <2>4. i \in 1 .. j /\ i - 1 \in 0 .. j /\ ~(i <= i - 1) BY <2>2, <2>3
  <2>5. Fine(i - 1) BY <2>1, <2>4
  <2> QED BY <1>4, <2>2, <2>4, <2>5
<1>6. j \in 0 .. j OBVIOUS
<1>7. Fine(j)
  <2> HIDE DEF Fine
  <2> QED BY <1>5, <1>6
<1> QED BY <1>1, <1>7

\* A chunk of the chunk stream is read to its end, as entries end with chunks.
LEMMA WholeChunk ==
  ASSUME NEW m, NEW x, IsTape(tape, m, x), NEW r, NEW k, NEW p, AtPlace(r, tape, m, k, p), Unread(r, "c"),
         NEW j \in 1 .. Len(tape.s["c"]), Start(tape.s["c"], j) <= HadOf(r, m, k, "c")
  PROVE  Start(tape.s["c"], j + 1) <= HadOf(r, m, k, "c") + r.left["c"]
<1> DEFINE ch == tape.s["c"]
           v == HadOf(r, m, k, "c")
           l == r.left["c"]
<1>1. ch \in ChunkSeqs /\ Aligned(m, ch) /\ Len(m) \in Nat BY TapeIs DEF Streams
<1>2. Starts(ch) /\ Len(ch) \in Nat BY <1>1, StartsHold DEF ChunkSeqs
<1>3. k \in 1 .. Len(m) - 1 /\ l \in 1 .. Size(m, k, "c") BY PartOf
<1>4. v \in Nat /\ v + l = m[k + 1]["c"] BY PartAt
<1>5. k + 1 \in 1 .. Len(m) BY <1>1, <1>3
<1>6. PICK i \in 1 .. Len(ch) + 1 : Start(ch, i) = m[k + 1]["c"] BY <1>1, <1>5 DEF Aligned
<1>7. l \in Nat /\ l >= 1 BY <1>3
<1>8. Start(ch, j) <= v OBVIOUS
<1> HIDE DEF ch, v, l
<1>9. j \in 1 .. Len(ch) BY DEF ch
<1>10. Start(ch, i) \in Nat /\ Start(ch, j) \in Nat BY <1>2, <1>6, <1>9 DEF Starts
<1>11. Start(ch, i) = v + l BY <1>4, <1>6
<1>12. ~(Start(ch, i) <= Start(ch, j)) BY <1>4, <1>7, <1>8, <1>10, <1>11
<1>13. j \in 1 .. Len(ch) + 1 /\ j + 1 \in 1 .. Len(ch) + 1 BY <1>2, <1>9
<1>14. ~(i <= j) BY <1>2, <1>12, <1>13, <1>6 DEF Starts
<1>15. j + 1 <= i BY <1>9, <1>14, <1>6
<1>16. Start(ch, j + 1) <= Start(ch, i) BY <1>2, <1>13, <1>15, <1>6 DEF Starts
<1>17. Start(ch, j + 1) <= v + l BY Zenon, <1>11, <1>16
<1> QED BY <1>17 DEF ch, v, l

\* The chunk that is read from is a part of the entry.
LEMMA ChunkRead ==
  ASSUME NEW m, NEW x, IsTape(tape, m, x), NEW r, NEW k, NEW p, AtPlace(r, tape, m, k, p),
         NEW q, Unread(r, q)
  PROVE  LET s == Chunk(r.s[q], tape.s[q])
         IN  /\ HasData(s, tape.s[q], HadOf(r, m, k, q))
             /\ q = "c" => Rest(s) <= r.left[q]
<1> DEFINE ch == tape.s[q]
           s == Chunk(r.s[q], ch)
           v == HadOf(r, m, k, q)
           l == r.left[q]
<1>1. q \in Streams /\ l \in 1 .. Size(m, k, q) BY PartOf
<1>2. ch \in ChunkSeqs /\ Flat(ch, x[q]) /\ Len(x[q]) \in Nat BY <1>1, TapeIs
<1>3. StreamAt(r.s[q], ch, v) BY <1>1, PlaceIs
<1>4. v \in Nat /\ v + l <= Len(x[q]) BY PartAt
<1>5. l \in Nat /\ l >= 1 BY <1>1
<1>6. HasData(s, ch, v) \/ HasEnded(s, ch, v) BY <1>2, <1>3, ChunkIs
<1>7. HasData(s, ch, v)
  <2>1. ASSUME HasEnded(s, ch, v) PROVE FALSE
    <3> HIDE DEF s, ch, v, l
    <3>1. v >= Len(x[q]) BY <1>2, <2>1, EndIs
    <3> QED BY <1>2, <1>4, <1>5, <3>1
  <2> QED BY <1>6, <2>1
<1>8. ASSUME q = "c" PROVE Rest(s) <= l
  <2> HIDE DEF s
  <2>1. s.cur \in 1 .. Len(ch) /\ v = Start(ch, s.cur) + s.pos BY <1>7 DEF HasData
  <2>2. Rest(s) \in Nat /\ s.pos \in Nat /\ v + Rest(s) = Start(ch, s.cur + 1)
    <3> HIDE DEF ch, v
    <3> QED BY <1>2, <1>7, DataIs
  <2>3. Start(ch, s.cur) \in Nat
    <3>1. Starts(ch) /\ Len(ch) \in Nat BY <1>2, StartsHold DEF ChunkSeqs
    <3> QED BY <2>1, <3>1 DEF Starts
  <2>4. Start(ch, s.cur) <= v
    <3> HIDE DEF ch, v
    <3> QED BY <2>1, <2>2, <2>3
  <2>5. Start(ch, s.cur + 1) <= v + l BY <1>8, <2>1, <2>4, WholeChunk
  <2> HIDE DEF v, l, ch
  <2>6. v + Rest(s) <= v + l BY Zenon, <2>2, <2>5
  <2> QED BY <1>4, <1>5, <2>2, <2>6
<1> QED BY <1>7, <1>8

\* The units after the first p.
UnitsFrom(d, p) ==
  d \in Seq(Item) /\ \A i \in 1 .. Len(d) : d[i] = Unit(p + i)

\* No data.
LEMMA NoUnits ==
  ASSUME NEW p
  PROVE  UnitsFrom(<<>>, p) /\ Len(<<>>) = 0
<1>1. <<>> \in Seq(Item) /\ Len(<<>>) = 0 OBVIOUS
<1> QED BY <1>1 DEF UnitsFrom

\* What readtape_read takes of a part of an entry.
LEMMA PartReadIs ==
  ASSUME NEW m, NEW x, IsTape(tape, m, x), NEW r, NEW k, NEW p, AtPlace(r, tape, m, k, p),
         NEW q, Unread(r, q)
  PROVE  LET y == PartRead(r, q, Chunk(r.s[q], tape.s[q]))
         IN  AtPlace(y.r, tape, m, k, p + Len(y.data)) /\ UnitsFrom(y.data, p)
<1> DEFINE ch == tape.s[q]
           s == Chunk(r.s[q], ch)
           v == HadOf(r, m, k, q)
           l == r.left[q]
           j == Min2(s.len - s.pos, l)
           w == [s EXCEPT !.pos = @ + j]
           z == [r EXCEPT !.s[q] = w, !.left[q] = @ - j]
           d == SubSeq(ch[s.cur], s.pos + 1, s.pos + j)
           y == PartRead(r, q, s)
<1>1. q \in Streams /\ l \in 1 .. Size(m, k, q) BY PartOf
<1>2. ch \in ChunkSeqs /\ Flat(ch, x[q]) BY <1>1, TapeIs
<1>3. HasData(s, ch, v) /\ (q = "c" => Rest(s) <= l) BY ChunkRead
<1>4. v \in Nat /\ p \in Nat BY PartAt
<1>5. \A i \in 1 .. l : x[q][v + i] = Unit(p + i) BY PartUnits
<1>6. l \in Nat /\ l >= 1
  <2> HIDE DEF l
  <2> QED BY <1>1
<1>27. r.bad = "" BY DEF Unread
<1>7. y = IF j = 0 THEN [r |-> [r EXCEPT !.bad = "premature"], data |-> <<>>] ELSE [r |-> z, data |-> d]
  BY DEF PartRead
<1>8. r = [s |-> r.s, left |-> r.left, bad |-> r.bad] BY PlaceIs
<1>9. z = [s |-> [r.s EXCEPT ![q] = w], left |-> [r.left EXCEPT ![q] = @ - j], bad |-> ""]
  <2> HIDE DEF w, j, z
  <2> DEFINE S == [r.s EXCEPT ![q] = w]
             L == [r.left EXCEPT ![q] = @ - j]
  <2>1. z = [r EXCEPT !.s = S, !.left = L] BY DEF z
  <2> HIDE DEF S, L
  <2>2. z = [s |-> S, left |-> L, bad |-> r.bad] BY <1>8, <2>1
  <2> QED BY <1>27, <2>2 DEF S, L
<1> HIDE DEF s
<1>10. /\ Rest(s) \in Nat \ {0} /\ s.pos \in Nat /\ s.len \in Nat /\ s.len = Len(ch[s.cur]) /\ ch[s.cur] \in Seq(Item)
       /\ s.cur \in 1 .. Len(ch)
  <2> HIDE DEF ch, v
  <2> QED BY <1>2, <1>3, DataIs
<1>11. \A i \in 1 .. Rest(s) : ch[s.cur][s.pos + i] = x[q][v + i]
  <2> HIDE DEF ch, v
  <2> QED BY <1>2, <1>3, DataAre
<1>24. Rest(s) \in Nat \ {0} BY <1>10
<1>25. s.pos \in Nat /\ s.len \in Nat BY <1>10
<1>26. q = "c" => Rest(s) <= l BY <1>3
<1>12. Rest(s) = s.len - s.pos BY DEF Rest
<1>13. /\ j \in Nat /\ j >= 1 /\ j <= Rest(s) /\ j <= l /\ j = Min2(Rest(s), l)
  <2>1. j = Min2(Rest(s), l) BY <1>12
  <2> HIDE DEF j, l
  <2> QED BY <1>6, <1>24, <2>1 DEF Min2
<1>14. y = [r |-> z, data |-> d]
  <2> HIDE DEF j, z, d, y
  <2>1. j # 0 BY <1>13
  <2> QED BY <1>7, <2>1
<1> HIDE DEF z, y
<1>15. StreamAt(w, ch, v + j) /\ (j = Rest(s) => w.pos = w.len)
  <2> HIDE DEF ch, v, j, l
  <2>1. j \in 0 .. Rest(s) BY <1>24, <1>13
  <2> QED BY <1>2, <1>3, <1>4, <2>1, ReadOn
<1>16. q = "c" => w.pos = w.len
  <2> HIDE DEF w, l, j
  <2>1. q = "c" => j = Rest(s) BY <1>26, <1>6, <1>24, <1>13 DEF Min2
  <2> QED BY <1>15, <2>1
<1>17. j \in 1 .. l
  <2> HIDE DEF l, j
  <2> QED BY <1>6, <1>13
<1>18. Goes(r, m, k, q, j, w) /\ Gone(z, r, q, j, w)
  <2> HIDE DEF w, j
  <2>1. Goes(r, m, k, q, j, w) BY <1>15, <1>16, <1>17 DEF Goes
  <2>2. Gone(z, r, q, j, w) BY <1>9 DEF Gone
  <2> QED BY <2>1, <2>2
<1>19. AtPlace(z, tape, m, k, p + j)
  <2> HIDE DEF w, j
  <2> QED BY <1>18, Advanced
<1>20. d \in Seq(Item) /\ Len(d) = j /\ \A i \in 1 .. j : d[i] = ch[s.cur][s.pos + i]
  <2> DEFINE f == ch[s.cur]
             a == s.pos + 1
             b == s.pos + j
  <2>1. f \in Seq(Item) /\ Len(f) = s.len BY <1>10
  <2> HIDE DEF f, j
  <2>2. a \in 1 .. Len(f) + 1 /\ b \in a - 1 .. Len(f) /\ b - a + 1 = j BY SMTT(30), <1>25, <1>12, <1>24, <1>13, <2>1
  <2>3. \A i \in 1 .. j : a + i - 1 = s.pos + i BY <1>25, <1>13
  <2>4. d = SubSeq(f, a, b) BY DEF f
  <2> HIDE DEF a, b, d
  <2>5. d \in Seq(Item) /\ Len(d) = b - a + 1 /\ \A i \in 1 .. b - a + 1 : d[i] = f[a + i - 1]
    BY <2>1, <2>2, <2>4, PartIs
  <2> QED BY <2>2, <2>3, <2>5 DEF f
<1> HIDE DEF d
<1>21. UnitsFrom(d, p)
  <2> HIDE DEF ch, v, l, j
  <2>1. ASSUME NEW i \in 1 .. Len(d) PROVE d[i] = Unit(p + i)
    <3>0. Len(d) = j BY <1>20
    <3>1. i \in 1 .. j /\ i \in 1 .. Rest(s) /\ i \in 1 .. l BY <1>6, <1>24, <1>13, <2>1, <3>0
    <3> QED BY <1>5, <1>11, <1>20, <3>1
  <2> QED BY <1>20, <2>1 DEF UnitsFrom
<1>22. y.r = z /\ y.data = d
  <2> HIDE DEF j
  <2> QED BY <1>14
<1>23. AtPlace(y.r, tape, m, k, p + Len(y.data)) /\ UnitsFrom(y.data, p)
  <2> HIDE DEF j
  <2> QED BY Zenon, <1>19, <1>20, <1>21, <1>22
<1> QED BY <1>23 DEF y, s

\* readtape_read
LEMMA ReadTapeIs ==
  ASSUME NEW m, NEW x, IsTape(tape, m, x), NEW r, NEW k, NEW p, AtPlace(r, tape, m, k, p)
  PROVE  LET y == ReadTape(r)
         IN  UnitsFrom(y.data, p) /\ \E l : AtPlace(y.r, tape, m, l, p + Len(y.data))
<1> DEFINE a == Entry(r)
           y == ReadTape(r)
<1>1. PICK l : AtPlace(a, tape, m, l, p) /\ ~AtEntryEnd(a) BY EntryIs
<1>2. a.bad = "eof" \/ (a.bad = "" /\ Unread(a, Part(a))) BY <1>1, LeftIs
<1>3. y = EntryRead(a) BY DEF ReadTape
<1> SUFFICES UnitsFrom(y.data, p) /\ AtPlace(y.r, tape, m, l, p + Len(y.data))
  OBVIOUS
<1> HIDE DEF a, y
<1>4. CASE a.bad = "eof"
  <2>1. y = [r |-> a, data |-> <<>>] BY <1>3, <1>4 DEF EntryRead
  <2>2. y.r = a /\ y.data = <<>> BY <2>1
  <2>3. p \in Int BY HadIn
  <2>4. p + 0 = p BY <2>3
  <2>5. UnitsFrom(<<>>, p) /\ Len(<<>>) = 0 BY NoUnits
  <2> QED BY Zenon, <1>1, <2>2, <2>4, <2>5
<1>5. CASE a.bad = "" /\ Unread(a, Part(a))
  <2> DEFINE q == Part(a)
  <2>1. y = PartRead(a, q, Chunk(a.s[q], tape.s[q])) BY <1>3, <1>5 DEF EntryRead
  <2>2. Unread(a, q) BY <1>5
  <2> HIDE DEF q
  <2> QED BY Zenon, <1>1, <1>5, <2>1, <2>2, PartReadIs
<1> QED BY <1>2, <1>4, <1>5

\* The chunk that readtape_readchunk gives is the next part of the entry.
LEMMA ChunkData ==
  ASSUME NEW m, NEW x, IsTape(tape, m, x), NEW r, NEW k, NEW p, AtPlace(r, tape, m, k, p), Unread(r, "c"),
         NEW j \in 1 .. Len(tape.s["c"]), HadOf(r, m, k, "c") = Start(tape.s["c"], j)
  PROVE  /\ UnitsFrom(tape.s["c"][j], p)
         /\ \A b \in Int : DataUpTo(x, b) /\ tape.s["c"][j] # <<>> => p + Len(tape.s["c"][j]) <= b
<1> DEFINE ch == tape.s["c"]
           y == x["c"]
           v == HadOf(r, m, k, "c")
           l == r.left["c"]
           c == ch[j]
           a == Start(ch, j)
           z == Start(ch, j + 1)
<1>1. ch \in ChunkSeqs /\ Flat(ch, y) /\ y \in Seq(Item) BY TapeIs DEF Streams
<1>2. Starts(ch) /\ Len(ch) \in Nat BY <1>1, StartsHold DEF ChunkSeqs
<1>3. v \in Nat /\ p \in Nat /\ v + l <= Len(y) BY PartAt
<1>4. \A i \in 1 .. l : y[v + i] = Unit(p + i) BY PartUnits
<1>5. l \in Nat
  <2>1. l \in 1 .. Size(m, k, "c") BY PartOf
  <2> HIDE DEF l
  <2> QED BY <2>1
<1>6. j \in 1 .. Len(ch) OBVIOUS
<1>7. v = a OBVIOUS
<1>8. z <= v + l
  <2>1. a <= v BY <1>3
  <2> QED BY <2>1, WholeChunk
<1> HIDE DEF ch, y, v, l
<1>9. c \in Seq(Item) /\ Len(c) \in Nat BY <1>1, <1>6 DEF ChunkSeqs
<1>10. z = a + Len(c) /\ a \in Nat BY <1>2, <1>6 DEF Starts
<1>11. \A i \in 1 .. Len(c) : c[i] = y[a + i] BY <1>1, <1>6 DEF Flat
<1> HIDE DEF c, a, z
<1>12. Len(c) <= l BY <1>3, <1>5, <1>7, <1>8, <1>9, <1>10
<1>13. ASSUME NEW i \in 1 .. Len(c) PROVE c[i] = Unit(p + i)
  <2>1. i \in 1 .. l BY <1>5, <1>9, <1>12
  <2>2. c[i] = y[v + i] BY <1>7, <1>11
  <2> QED BY <1>4, <2>1, <2>2
<1>14. UnitsFrom(c, p) BY <1>9, <1>13 DEF UnitsFrom
<1>15. ASSUME NEW b \in Int, DataUpTo(x, b), c # <<>> PROVE p + Len(c) <= b
  <2> DEFINE i == Len(c)
  <2>1. i # 0
    <3>1. c \in Seq(Item) BY <1>9
    <3> HIDE DEF i
    <3> QED BY <1>15, <3>1, EmptySeq DEF i
  <2>2. i \in 1 .. Len(c) BY <1>9, <2>1
  <2>3. Len(y) \in Nat BY <1>1
  <2> HIDE DEF i
  <2>4. i \in 1 .. l BY <1>5, <1>9, <1>12, <2>2
  <2>5. v + i \in 1 .. Len(y) BY <1>3, <1>5, <2>3, <2>4
  <2>6. y[v + i] = Unit(p + i) BY <1>4, <2>4
  <2>7. y[v + i].unit <= b BY <1>15, <2>5 DEF DataUpTo, y
  <2>8. Unit(p + i).unit = p + i BY DEF Unit
  <2>9. p + i <= b BY Zenon, <2>6, <2>7, <2>8
  <2> QED BY Zenon, <2>9 DEF i
<1> QED BY <1>14, <1>15 DEF c, ch

\* A chunk header is read ahead; the reader is where it was.
LEMMA HeaderAhead ==
  ASSUME NEW m, NEW r, NEW k, NEW p, AtPlace(r, tape, m, k, p),
         NEW w, StreamAt(w, tape.s["c"], HadOf(r, m, k, "c")), w.pos = w.len
  PROVE  AtPlace([r EXCEPT !.s["c"] = w], tape, m, k, p)
<1> DEFINE z == [r EXCEPT !.s["c"] = w]
           S == [r.s EXCEPT !["c"] = w]
<1>1. r = [s |-> r.s, left |-> r.left, bad |-> r.bad] BY PlaceIs
<1>2. z = [s |-> S, left |-> r.left, bad |-> r.bad]
  <2>1. z = [r EXCEPT !.s = S] OBVIOUS
  <2> HIDE DEF S
  <2> QED BY <1>1, <2>1
<1>3. r.s \in [Streams -> Readers] BY PlaceIs
<1>4. w \in Readers BY DEF StreamAt
<1>5. S \in [Streams -> Readers] BY <1>3, <1>4
<1>6. S["c"] = w /\ \A s \in Streams : s # "c" => S[s] = r.s[s] BY <1>3 DEF Streams
<1> HIDE DEF z, S
<1>7. z.s = S /\ z.left = r.left /\ z.bad = r.bad BY <1>2
<1>8. Had(z, m, k) = Had(r, m, k) /\ \A s : HadOf(z, m, k, s) = HadOf(r, m, k, s)
  BY Zenon, <1>7 DEF Had, HadOf
<1>9. p = Had(z, m, k) BY Zenon, <1>8, PlaceHad
<1>10. \A s \in Streams : StreamAt(z.s[s], tape.s[s], HadOf(z, m, k, s))
  <2> TAKE s \in Streams
  <2>1. CASE s = "c" BY <1>6, <1>7, <1>8, <2>1
  <2>2. CASE s # "c"
    <3>1. StreamAt(r.s[s], tape.s[s], HadOf(r, m, k, s)) BY PlaceIs
    <3>2. z.s[s] = r.s[s] BY <1>6, <1>7, <2>2
    <3> QED BY Zenon, <1>8, <3>1, <3>2
  <2> QED BY <2>1, <2>2
<1>11. z.s["c"].pos = z.s["c"].len BY <1>6, <1>7
<1>12. z = [s |-> z.s, left |-> z.left, bad |-> z.bad] BY <1>2, <1>7
<1>13. z.s \in [Streams -> Readers] BY <1>5, <1>7
<1>14. AtPlace(z, tape, m, k, p)
  BY Zenon, <1>7, <1>9, <1>10, <1>11, <1>12, <1>13 DEF AtPlace
<1> QED BY <1>14 DEF z

\* readtape_readchunk, once there is an entry.
LEMMA ChunkOfIs ==
  ASSUME NEW m, NEW x, IsTape(tape, m, x), NEW r, NEW k, NEW p, AtPlace(r, tape, m, k, p)
  PROVE  LET y == ChunkOf(r)
         IN  /\ UnitsFrom(y.chunk, p) /\ AtPlace(y.r, tape, m, k, p)
             /\ \A b \in Int : DataUpTo(x, b) /\ y.chunk # <<>> => p + Len(y.chunk) <= b
<1> DEFINE ch == tape.s["c"]
           c == r.s["c"]
           s == ChunkHeader(c, ch)
           v == HadOf(r, m, k, "c")
           y == ChunkOf(r)
           no == r.bad # "" \/ r.left["h"] # 0 \/ r.left["c"] = 0
<1> SUFFICES /\ UnitsFrom(y.chunk, p) /\ AtPlace(y.r, tape, m, k, p)
             /\ \A b \in Int : DataUpTo(x, b) /\ y.chunk # <<>> => p + Len(y.chunk) <= b
  OBVIOUS
<1>1. ch \in ChunkSeqs BY TapeIs DEF Streams
<1>2. StreamAt(c, ch, v)
  <2>1. "c" \in Streams BY DEF Streams
  <2> QED BY <2>1, PlaceIs
<1>3. c.pos = c.len BY PlaceIs
<1>4. HeaderRead(s, ch, v)
  <2> HIDE DEF c, ch, v
  <2> QED BY <1>1, <1>2, <1>3, ChunkHeaderIs
<1>5. y = CASE no -> [r |-> r, chunk |-> <<>>]
            [] c.pos # c.len -> [[r |-> r, chunk |-> <<>>] EXCEPT !.r.bad = "chunkpos"]
            [] OTHER -> [r |-> [r EXCEPT !.s["c"] = s],
                         chunk |-> IF s.valid /\ s.skip = 0 THEN ch[s.next] ELSE <<>>]
  BY DEF ChunkOf
<1> HIDE DEF s, y
<1>6. CASE no
  <2>1. y = [r |-> r, chunk |-> <<>>] BY <1>3, <1>5, <1>6
  <2>2. y.r = r /\ y.chunk = <<>> BY <2>1
  <2> QED BY Zenon, <2>2, NoUnits
<1>7. CASE ~no
  <2> DEFINE z == [r EXCEPT !.s["c"] = s]
             d == IF s.valid /\ s.skip = 0 THEN ch[s.next] ELSE <<>>
  <2>1. y = [r |-> z, chunk |-> d]
    <3> HIDE DEF z, d, no, c
    <3> QED BY <1>3, <1>5, <1>7 DEF z, d
  <2>2. StreamAt(s, ch, v) /\ s.pos = s.len BY <1>4 DEF HeaderRead
  <2>3. AtPlace(z, tape, m, k, p) BY <2>2, HeaderAhead
  <2>4. Unread(r, "c")
    <3>1. r.bad = "" /\ r.left["h"] = 0 /\ r.left["c"] # 0 BY <1>7
    <3>2. r.left["c"] \in Nat
      <4>1. "c" \in Streams BY DEF Streams
      <4> QED BY <4>1, PlaceIs
    <3>3. ~(r.left["h"] > 0) /\ r.left["c"] > 0
      <4> DEFINE h == r.left["h"]
                 g == r.left["c"]
      <4>1. h = 0 /\ g # 0 BY <3>1
      <4>2. g \in Nat BY <3>2
      <4> HIDE DEF h, g, no, c, v, ch
      <4>3. ~(h > 0) /\ g > 0 BY <4>1, <4>2
      <4> QED BY Zenon, <4>3 DEF h, g
    <3> QED BY <3>1, <3>3 DEF Unread, Part
  <2>5. y.r = z /\ y.chunk = d
    <3> HIDE DEF z, d
    <3> QED BY <2>1
  <2>6. CASE s.valid /\ s.skip = 0
    <3>1. d = ch[s.next] BY <2>6
    <3>2. s.next \in 1 .. Len(ch) /\ v = Start(ch, s.next) + s.skip BY <1>4, <2>6 DEF HeaderRead
    <3>3. v = Start(ch, s.next)
      <4>1. Starts(ch) /\ Len(ch) \in Nat BY <1>1, StartsHold DEF ChunkSeqs
      <4>2. Start(ch, s.next) \in Nat BY <3>2, <4>1 DEF Starts
      <4> HIDE DEF v, ch
      <4> QED BY <2>6, <3>2, <4>2
    <3>4. /\ UnitsFrom(ch[s.next], p)
          /\ \A b \in Int : DataUpTo(x, b) /\ ch[s.next] # <<>> => p + Len(ch[s.next]) <= b
      BY <2>4, <3>2, <3>3, ChunkData
    <3> HIDE DEF z, d, ch
    <3> QED BY Zenon, <2>3, <2>5, <3>1, <3>4
  <2>7. CASE ~(s.valid /\ s.skip = 0)
    <3>1. d = <<>> BY <2>7
    <3> HIDE DEF z, d
    <3> QED BY Zenon, <2>3, <2>5, <3>1, NoUnits
  <2> QED BY <2>6, <2>7
<1> QED BY <1>6, <1>7

\* readtape_readchunk
LEMMA ReadChunkIs ==
  ASSUME NEW m, NEW x, IsTape(tape, m, x), NEW r, NEW k, NEW p, AtPlace(r, tape, m, k, p)
  PROVE  LET y == ReadChunk(r)
         IN  /\ UnitsFrom(y.chunk, p) /\ \E l : AtPlace(y.r, tape, m, l, p)
             /\ \A b \in Int : DataUpTo(x, b) /\ y.chunk # <<>> => p + Len(y.chunk) <= b
<1> DEFINE a == IF AtEntryEnd(r) THEN NextEntry(r) ELSE r
<1>1. ReadChunk(r) = ChunkOf(a) BY DEF ReadChunk
<1>2. \E l : AtPlace(a, tape, m, l, p)
  <2>1. CASE AtEntryEnd(r)
    <3>1. AtPlace(NextEntry(r), tape, m, k + 1, p) \/ AtPlace(NextEntry(r), tape, m, k, p)
      BY <2>1, NextIs
    <3> QED BY <2>1, <3>1
  <2>2. CASE ~AtEntryEnd(r) BY <2>2
  <2> QED BY <2>1, <2>2
<1>3. PICK l : AtPlace(a, tape, m, l, p) BY <1>2
<1> HIDE DEF a
<1>4. /\ UnitsFrom(ChunkOf(a).chunk, p) /\ AtPlace(ChunkOf(a).r, tape, m, l, p)
      /\ \A b \in Int : DataUpTo(x, b) /\ ChunkOf(a).chunk # <<>> => p + Len(ChunkOf(a).chunk) <= b
  BY <1>3, ChunkOfIs
<1> QED BY Zenon, <1>1, <1>4

\* A reader that was just opened.
LEMMA OpenedIs ==
  ASSUME NEW t, NEW m, NEW x, IsTape(t, m, x)
  PROVE  AtPlace(Opened, t, m, 0, 0)
<1> DEFINE S == [q \in Streams |-> Reader0]
           L == [q \in Streams |-> 0]
<1>1. Opened = [s |-> S, left |-> L, bad |-> ""] BY DEF Opened
<1>2. Reader0 = [cur |-> 0, len |-> 0, pos |-> 0, skip |-> 0, next |-> 0, valid |-> FALSE] BY DEF Reader0
<1>3. /\ Reader0 \in Readers /\ Reader0.cur = 0 /\ Reader0.len = 0 /\ Reader0.pos = 0 /\ Reader0.skip = 0
      /\ Reader0.next = 0 /\ Reader0.valid = FALSE
  BY <1>2 DEF Readers
<1>4. Marks(m) /\ Len(m) \in Nat /\ Len(m) >= 1 /\ \A s \in Streams : t.s[s] \in ChunkSeqs BY TapeIs
<1>5. m[1] = Lengths(0, 0, 0) BY <1>4 DEF Marks
<1>6. \A s \in Streams : m[1][s] = 0 BY <1>5 DEF Lengths
<1>7. Units(m, 1) = 0
  <2>1. m[1]["h"] = 0 /\ m[1]["c"] = 0 /\ m[1]["t"] = 0 BY <1>6 DEF Streams
  <2> QED BY <2>1 DEF Units
<1>8. ASSUME NEW ch \in ChunkSeqs PROVE StreamAt(Reader0, ch, 0)
  <2>1. Starts(ch) /\ Len(ch) \in Nat BY StartsHold DEF ChunkSeqs
  <2>2. Start(ch, 0 + 1) = 0
    <3>1. 0 + 1 = 1 OBVIOUS
    <3> QED BY <2>1, <3>1 DEF Starts
  <2>3. 0 = 0 + (Start(ch, 0 + 1) - (0 - 0)) BY <2>2
  <2>4. 0 = Reader0.skip + (Start(ch, Reader0.next + 1) - (Reader0.len - Reader0.pos)) BY <1>3, <2>3
  <2>5. Reader0.pos <= Reader0.len /\ ~(Reader0.pos < Reader0.len) /\ Reader0.next <= Len(ch) BY <1>3, <2>1
  <2> QED BY <1>3, <2>4, <2>5 DEF StreamAt
<1>9. /\ S \in [Streams -> Readers] /\ L \in [Streams -> Nat]
      /\ \A s \in Streams : S[s] = Reader0 /\ L[s] = 0
      /\ S["c"] = Reader0 /\ L["h"] = 0 /\ L["c"] = 0 /\ L["t"] = 0
  BY <1>3 DEF Streams
<1> HIDE DEF S, L
<1>10. \A s \in Streams : /\ L[s] <= IF 0 = 0 THEN 0 ELSE Size(m, 0, s)
                          /\ StreamAt(S[s], t.s[s], m[0 + 1][s] - L[s])
  <2> TAKE s \in Streams
  <2>1. m[0 + 1][s] - L[s] = 0
    <3>1. 0 + 1 = 1 OBVIOUS
    <3>2. m[0 + 1][s] = 0 /\ L[s] = 0 BY <1>6, <1>9, <3>1
    <3> QED BY <3>2
  <2>2. StreamAt(Reader0, t.s[s], 0) BY <1>4, <1>8
  <2>3. StreamAt(S[s], t.s[s], m[0 + 1][s] - L[s]) BY Zenon, <1>9, <2>1, <2>2
  <2> QED BY <1>9, <2>3
<1>11. 0 = Units(m, 0 + 1) - L["h"] - L["c"] - L["t"]
  <2>1. 0 + 1 = 1 OBVIOUS
  <2>2. Units(m, 0 + 1) = 0 BY <1>7, <2>1
  <2> QED BY <1>9, <2>2
<1>12. 0 \in 0 .. Len(m) - 1 BY <1>4
<1>13. ~(L["h"] > 0) /\ ~(L["c"] > 0) BY <1>9
<1>14. S["c"].pos = S["c"].len BY <1>3, <1>9
<1> QED BY <1>1, <1>9, <1>10, <1>11, <1>12, <1>13, <1>14, PlaceMade

-----------------------------------------------------------------------------
(* The steps. *)

Kind == {"h", "i", "d", "e"}

\* What the writer's place says of the types.
LEMMA WriterTypes ==
  ASSUME WriterInPlace'
  PROVE  n' \in Nat /\ hbuf' \in Seq(Item) /\ cfile' \in Seq(Item)
<1>1. PICK m, x : Writes(e', hbuf', cfile', n', m, x) BY DEF WriterInPlace, Writing
<1> QED BY <1>1, WritesIs

\* A reader that nothing is done to.
LEMMA ReaderSame ==
  ASSUME ReaderInPlace, RoundTrip, phase' = phase, tape' = tape, UNCHANGED rvars
  PROVE  ReaderInPlace' /\ RoundTrip'
<1>1. rd' = rd /\ backlog' = backlog /\ pos' = pos /\ data' = data BY DEF rvars
<1>2. RoundTrip' BY <1>1 DEF RoundTrip
<1>3. PICK m, x, k : Reading(m, x, k) BY DEF ReaderInPlace
<1>4. IsTape(tape, m, x) /\ AtPlace(rd, tape, m, k, pos) /\ (phase = "copy" => DataUpTo(x, tape.n - 1))
  BY <1>3 DEF Reading
<1>5. IsTape(tape', m, x) /\ AtPlace(rd', tape', m, k, pos') /\ (phase' = "copy" => DataUpTo(x, tape'.n - 1))
  BY Zenon, <1>1, <1>4
<1>6. ReaderInPlace' BY Zenon, <1>5 DEF ReaderInPlace, Reading
<1> QED BY <1>2, <1>6

\* Note
LEMMA NoteIs ==
  ASSUME kind \in Seq(Kind), NEW k \in Nat, NEW ty \in Kind, Note(k, ty)
  PROVE  /\ kind' \in Seq(Kind) /\ Len(kind') = Len(kind) + k /\ Len(kind) \in Nat
         /\ \A i \in 1 .. Len(kind) : kind'[i] = kind[i]
         /\ \A i \in 1 .. k : kind'[Len(kind) + i] = ty
<1> DEFINE d == [i \in 1 .. k |-> ty]
<1>1. d \in Seq(Kind) /\ Len(d) = k /\ \A i \in 1 .. k : d[i] = ty OBVIOUS
<1>2. kind' = kind \o d BY DEF Note
<1> HIDE DEF d
<1>3. Len(kind \o d) = Len(kind) + Len(d) /\ kind \o d \in Seq(Kind) /\ Len(kind) \in Nat
  BY <1>1
<1>4. \A i \in 1 .. Len(kind) + Len(d) : (kind \o d)[i] = IF i <= Len(kind) THEN kind[i] ELSE d[i - Len(kind)]
  BY <1>1
<1>5. \A i \in 1 .. Len(kind) : kind'[i] = kind[i] BY <1>1, <1>2, <1>3, <1>4
<1>6. ASSUME NEW i \in 1 .. k PROVE kind'[Len(kind) + i] = ty
  <2>1. /\ Len(kind) + i \in 1 .. Len(kind) + Len(d) /\ ~(Len(kind) + i <= Len(kind))
        /\ (Len(kind) + i) - Len(kind) = i
    BY <1>1, <1>3
  <2> QED BY <1>1, <1>2, <1>4, <2>1
<1> QED BY <1>1, <1>2, <1>3, <1>5, <1>6

\* Units are noted, of which none is the marker.
LEMMA KindsNext ==
  ASSUME TypeOK, Kinds, phase = "write", phase' = phase, mode # 3, mode' # 3,
         NEW k \in Nat, NEW ty \in Kind \ {"e"}, Note(k, ty), n' = n + k
  PROVE  Kinds' /\ kind' \in Seq(Kind)
<1>1. kind \in Seq(Kind) /\ n \in Nat BY DEF TypeOK, Kind
<1>2. Len(kind) = n /\ \A i \in 1 .. n : kind[i] # "e" BY DEF Kinds
<1>3. /\ kind' \in Seq(Kind) /\ Len(kind') = Len(kind) + k
      /\ \A i \in 1 .. Len(kind) : kind'[i] = kind[i]
      /\ \A i \in 1 .. k : kind'[Len(kind) + i] = ty
  BY <1>1, NoteIs
<1>4. ASSUME NEW i \in 1 .. n' PROVE kind'[i] # "e"
  <2>1. CASE i <= n
    <3>1. i \in 1 .. n BY <1>1, <2>1
    <3> QED BY <1>2, <1>3, <3>1
  <2>2. CASE ~(i <= n)
    <3>1. i - n \in 1 .. k /\ n + (i - n) = i BY <1>1, <2>2
    <3>2. kind'[n + (i - n)] = ty BY <1>2, <1>3, <3>1
    <3> QED BY <3>1, <3>2
  <2> QED BY <2>1, <2>2
<1>5. Len(kind') = n' BY <1>2, <1>3
<1> QED BY <1>3, <1>4, <1>5 DEF Kinds

\* What IInv says.
LEMMA IInvIs ==
  ASSUME IInv
  PROVE  /\ TypeOK /\ Modes /\ Kinds /\ Backlog /\ RoundTrip /\ WriterInPlace /\ OutWhole /\ ReaderInPlace
         /\ warning = ""
BY DEF IInv

\* The rest of the types.
LEMMA TypesMade ==
  ASSUME TypeOK, WriterInPlace', phase' \in {"write", "copy", "read"}, kind' \in Seq(Kind),
         mode' \in 0 .. 3, eof' \in BOOLEAN, pos' \in Nat, ckpts' \in Nat, backlog' \in Seq(Item), data' \in Seq(Item)
  PROVE  TypeOK'
<1>1. n' \in Nat /\ hbuf' \in Seq(Item) /\ cfile' \in Seq(Item) BY WriterTypes
<1> QED BY <1>1 DEF TypeOK, Kind

\* What TypeOK says, for each variable.
LEMMA TypesAre ==
  ASSUME TypeOK
  PROVE  /\ phase \in {"write", "copy", "read"} /\ kind \in Seq(Kind) /\ n \in Nat /\ pos \in Nat /\ ckpts \in Nat
         /\ mode \in 0 .. 3 /\ eof \in BOOLEAN /\ hbuf \in Seq(Item) /\ cfile \in Seq(Item)
         /\ backlog \in Seq(Item) /\ data \in Seq(Item)
BY DEF TypeOK, Kind

\* The front end sets the mode, between the parts of an entry.
LEMMA PutModeStep ==
  ASSUME IInv, NEW md \in 0 .. 2, PutMode(md)
  PROVE  IInv'
<1>1. /\ phase = "write" /\ phase' = phase /\ kind' = kind /\ tape' = tape /\ UNCHANGED rvars /\ SetMode(md)
      /\ (md = 0 => mode = 2) /\ (md = 1 => mode = 0)
  <2>1. /\ SetMode(md) /\ UNCHANGED <<phase, kind, tape, rvars>> /\ phase = "write"
        /\ (md = 0 /\ mode = 2) \/ (md \in {1, 2} /\ mode < md)
    BY DEF PutMode, Room
  <2>2. mode \in 0 .. 3 BY IInvIs, TypesAre
  <2>3. (md = 0 => mode = 2) /\ (md = 1 => mode = 0) BY <2>1, <2>2
  <2> QED BY <2>1, <2>3
<1>2. WriterInPlace' /\ Modes' /\ warning' = warning BY <1>1, IInvIs, SetModeKeeps
<1>3. n' = n /\ eof' = eof /\ out' = out /\ ckpts' = ckpts /\ mode # 3 /\ mode' = md
  BY <1>1 DEF SetMode
<1>10. mode' \in 0 .. 3 /\ mode' # 3 BY <1>3
<1>4. ReaderInPlace' /\ RoundTrip' BY <1>1, IInvIs, ReaderSame
<1>5. rd' = rd /\ backlog' = backlog /\ pos' = pos /\ data' = data BY <1>1 DEF rvars
<1>6. TypeOK'
  <2>1. /\ TypeOK /\ phase' \in {"write", "copy", "read"} /\ kind' \in Seq(Kind) /\ eof' \in BOOLEAN
        /\ pos' \in Nat /\ ckpts' \in Nat /\ backlog' \in Seq(Item) /\ data' \in Seq(Item)
    BY <1>1, <1>3, <1>5, IInvIs, TypesAre
  <2> QED BY <1>2, <1>10, <2>1, TypesMade
<1>7. OutWhole' BY <1>3, IInvIs DEF OutWhole
<1>8. Kinds'
  <2>1. phase' = "write" /\ kind' = kind /\ n' = n BY <1>1, <1>3
  <2>2. Len(kind) = n /\ \A i \in 1 .. n : kind[i] # "e" BY <1>1, <1>3, IInvIs DEF Kinds
  <2> QED BY <1>10, <2>1, <2>2 DEF Kinds
<1>9. Backlog' BY <1>1 DEF Backlog
<1> QED BY <1>2, <1>4, <1>6, <1>7, <1>8, <1>9, IInvIs DEF IInv

\* It writes a unit of a header,
LEMMA PutHeaderStep ==
  ASSUME IInv, PutHeader
  PROVE  IInv'
<1> DEFINE ty == IF hbuf = <<>> THEN "h" ELSE "i"
<1>1. /\ phase = "write" /\ phase' = phase /\ tape' = tape /\ UNCHANGED rvars /\ mode = 0
      /\ WriteHeader(Unit(n + 1)) /\ Note(1, ty)
  BY DEF PutHeader, Room
<1>2. WriterInPlace' /\ Modes' BY <1>1, IInvIs, HeaderKeeps
<1>3. n' = n + 1 /\ eof' = eof /\ out' = out /\ ckpts' = ckpts /\ mode' = 0 /\ warning' = warning
  BY <1>1 DEF WriteHeader
<1>4. ReaderInPlace' /\ RoundTrip' BY <1>1, IInvIs, ReaderSame
<1>5. rd' = rd /\ backlog' = backlog /\ pos' = pos /\ data' = data BY <1>1 DEF rvars
<1>6. Kinds' /\ kind' \in Seq(Kind)
  <2>1. ty \in Kind \ {"e"} BY DEF Kind
  <2>2. mode # 3 /\ mode' # 3 BY <1>1, <1>3
  <2> HIDE DEF ty
  <2> QED BY <1>1, <1>3, <2>1, <2>2, IInvIs, KindsNext
<1>7. TypeOK' BY <1>1, <1>2, <1>3, <1>5, <1>6, IInvIs, TypesAre, TypesMade
<1>8. OutWhole' BY <1>3, IInvIs DEF OutWhole
<1>9. Backlog' BY <1>1 DEF Backlog
<1> QED BY <1>2, <1>3, <1>4, <1>6, <1>7, <1>8, <1>9, IInvIs DEF IInv

\* of the data of a file,
LEMMA PutDataStep ==
  ASSUME IInv, PutData
  PROVE  IInv'
<1>1. /\ phase = "write" /\ phase' = phase /\ tape' = tape /\ UNCHANGED rvars
      /\ WriteData(Unit(n + 1)) /\ Note(1, "d")
  BY DEF PutData, Room
<1>2. WriterInPlace' /\ Modes' BY <1>1, IInvIs, DataKeeps
<1>3. n' = n + 1 /\ eof' = eof /\ out' = out /\ ckpts' = ckpts /\ mode = 1 /\ mode' = mode /\ warning' = warning
  BY <1>1 DEF WriteData
<1>4. ReaderInPlace' /\ RoundTrip' BY <1>1, IInvIs, ReaderSame
<1>5. rd' = rd /\ backlog' = backlog /\ pos' = pos /\ data' = data BY <1>1 DEF rvars
<1>6. Kinds' /\ kind' \in Seq(Kind)
  <2>1. "d" \in Kind \ {"e"} BY DEF Kind
  <2>2. mode # 3 /\ mode' # 3 BY <1>3
  <2> QED BY <1>1, <1>3, <2>1, <2>2, IInvIs, KindsNext
<1>7. TypeOK' BY <1>1, <1>2, <1>3, <1>5, <1>6, IInvIs, TypesAre, TypesMade
<1>8. OutWhole' BY <1>3, IInvIs DEF OutWhole
<1>9. Backlog' BY <1>1 DEF Backlog
<1> QED BY <1>2, <1>3, <1>4, <1>6, <1>7, <1>8, <1>9, IInvIs DEF IInv

\* a chunk that the chunkification cache knows,
LEMMA PutChunkStep ==
  ASSUME IInv, PutChunk
  PROVE  IInv'
<1>1. PICK k \in MinChunk .. MaxChunk :
        /\ phase = "write" /\ phase' = phase /\ tape' = tape /\ UNCHANGED rvars
        /\ WriteChunk([i \in 1 .. k |-> Unit(n + i)]) /\ Note(k, "d")
  BY DEF PutChunk, Room
<1> DEFINE ck == [i \in 1 .. k |-> Unit(n + i)]
<1>2. k \in Nat BY TapeAssumption
<1>3. n \in Nat BY IInvIs, TypesAre
<1>4. \A i \in 1 .. k : Unit(n + i) \in Item
  <2> TAKE i \in 1 .. k
  <2>1. n + i \in Nat BY <1>2, <1>3
  <2> QED BY <2>1, UnitIn
<1>5. ck \in Seq(Item) /\ Len(ck) = k /\ \A i \in 1 .. k : ck[i] = Unit(n + i) BY <1>2, <1>4
<1>6. WriteChunk(ck) BY <1>1
<1> HIDE DEF ck
<1>7. WriterInPlace' /\ Modes' BY <1>5, <1>6, IInvIs, ChunkKeeps
<1>8. /\ n' = n + k /\ eof' = eof /\ out' = out /\ ckpts' = ckpts /\ mode = 1 /\ mode' = mode
      /\ warning' = warning
  BY <1>5, <1>6 DEF WriteChunk, CanWriteChunk
<1>9. ReaderInPlace' /\ RoundTrip' BY <1>1, IInvIs, ReaderSame
<1>10. rd' = rd /\ backlog' = backlog /\ pos' = pos /\ data' = data BY <1>1 DEF rvars
<1>11. Kinds' /\ kind' \in Seq(Kind)
  <2>1. "d" \in Kind \ {"e"} BY DEF Kind
  <2>2. mode # 3 /\ mode' # 3 BY <1>8
  <2> QED BY <1>1, <1>2, <1>8, <2>1, <2>2, IInvIs, KindsNext
<1>12. TypeOK' BY <1>1, <1>7, <1>8, <1>10, <1>11, IInvIs, TypesAre, TypesMade
<1>13. OutWhole' BY <1>8, IInvIs DEF OutWhole
<1>14. Backlog' BY <1>1 DEF Backlog
<1> QED BY <1>7, <1>8, <1>9, <1>11, <1>12, <1>13, <1>14, IInvIs DEF IInv

\* A cookie that nothing was written to.
LEMMA IdleTypes ==
  ASSUME Idle
  PROVE  mode' \in 0 .. 3 /\ eof' \in BOOLEAN
<1>1. mode' = 2 BY DEF Idle
<1>2. eof' = FALSE BY DEF Idle
<1>3. mode' \in 0 .. 3 BY <1>1
<1>4. eof' \in BOOLEAN BY Zenon, <1>2
<1> QED BY <1>3, <1>4

\* and the end of archive marker.
LEMMA PutMarkerStep ==
  ASSUME IInv, PutMarker
  PROVE  IInv'
<1>1. /\ phase = "write" /\ phase' = phase /\ tape' = tape /\ UNCHANGED rvars /\ mode = 2
      /\ WriteHeader(Unit(n + 1)) /\ Note(1, "e")
  BY DEF PutMarker
<1>2. WriterInPlace' /\ Modes' BY <1>1, IInvIs, HeaderKeeps
<1>3. n' = n + 1 /\ eof' = eof /\ out' = out /\ ckpts' = ckpts /\ mode' = 3 /\ warning' = warning
  BY <1>1 DEF WriteHeader
<1>4. ReaderInPlace' /\ RoundTrip' BY <1>1, IInvIs, ReaderSame
<1>5. rd' = rd /\ backlog' = backlog /\ pos' = pos /\ data' = data BY <1>1 DEF rvars
<1>6. /\ kind' \in Seq(Kind) /\ Len(kind') = Len(kind) + 1 /\ Len(kind) \in Nat
      /\ \A i \in 1 .. Len(kind) : kind'[i] = kind[i]
      /\ kind'[Len(kind) + 1] = "e"
  <2> DEFINE one == 1
  <2>1. kind \in Seq(Kind) /\ "e" \in Kind /\ one \in Nat BY IInvIs, TypesAre DEF Kind
  <2>2. Note(one, "e") BY <1>1
  <2> HIDE DEF one
  <2>3. /\ kind' \in Seq(Kind) /\ Len(kind') = Len(kind) + one /\ Len(kind) \in Nat
        /\ \A i \in 1 .. Len(kind) : kind'[i] = kind[i]
        /\ \A i \in 1 .. one : kind'[Len(kind) + i] = "e"
    BY <2>1, <2>2, NoteIs
  <2>4. one \in 1 .. one BY DEF one
  <2>5. kind'[Len(kind) + one] = "e" BY <2>3, <2>4
  <2>6. Len(kind') = Len(kind) + one BY <2>3
  <2> QED BY Zenon, <2>3, <2>5, <2>6 DEF one
<1>7. Len(kind) = n /\ \A i \in 1 .. n : kind[i] # "e"
  <2>1. Kinds BY IInvIs
  <2>2. phase = "write" /\ mode = 2 BY <1>1
  <2>3. mode # 3 BY <2>2
  <2>4. Len(kind) = n /\ \A i \in 1 .. n : kind[i] = "e" <=> i = n /\ mode = 3
    BY Zenon, <2>1, <2>2 DEF Kinds
  <2> QED BY Zenon, <2>3, <2>4
<1>8. n \in Nat BY IInvIs, TypesAre
<1>9. kind'[n + 1] = "e" BY Zenon, <1>6, <1>7
<1>10. ASSUME NEW i \in 1 .. n + 1 PROVE kind'[i] = "e" <=> i = n + 1
  <2>1. CASE i = n + 1 BY <1>9, <2>1
  <2>2. CASE i # n + 1
    <3>1. i \in 1 .. n BY <1>8, <2>2
    <3>2. kind'[i] # "e" BY <1>6, <1>7, <3>1
    <3> QED BY <2>2, <3>2
  <2> QED BY <2>1, <2>2
<1>11. Kinds'
  <2>1. Len(kind') = n' /\ n' >= 1 BY <1>3, <1>6, <1>7, <1>8
  <2>2. \A i \in 1 .. n' : kind'[i] = "e" <=> i = n' /\ mode' = 3 BY <1>3, <1>10
  <2>3. phase' # "copy" /\ (mode' = 3 => n' >= 1) BY <1>1, <2>1
  <2>4. /\ Len(kind') = n' /\ (mode' = 3 => n' >= 1)
        /\ \A i \in 1 .. n' : kind'[i] = "e" <=> i = n' /\ mode' = 3
    BY Zenon, <2>1, <2>2, <2>3
  <2> QED BY Zenon, <2>3, <2>4 DEF Kinds
<1>12. TypeOK'
  <2>1. mode' \in 0 .. 3 BY <1>3
  <2>2. /\ TypeOK /\ phase' \in {"write", "copy", "read"} /\ eof' \in BOOLEAN
        /\ pos' \in Nat /\ ckpts' \in Nat /\ backlog' \in Seq(Item) /\ data' \in Seq(Item)
    BY <1>1, <1>3, <1>5, IInvIs, TypesAre
  <2>3. kind' \in Seq(Kind) BY <1>6
  <2> QED BY <1>2, <2>1, <2>2, <2>3, TypesMade
<1>13. OutWhole' BY <1>3, IInvIs DEF OutWhole
<1>14. Backlog' BY <1>1 DEF Backlog
<1> QED BY <1>2, <1>3, <1>4, <1>11, <1>12, <1>13, <1>14, IInvIs DEF IInv

\* A checkpoint, of an archive that is written or copied.
LEMMA CheckpointStep ==
  ASSUME IInv, mode # 0, Checkpoint, phase' = phase, kind' = kind, tape' = tape, UNCHANGED rvars
  PROVE  IInv'
<1>1. WriterInPlace' /\ OutWhole' /\ Modes' /\ warning' = warning BY IInvIs, CheckpointKeeps
<1>2. n' = n /\ mode' = mode /\ eof' = eof /\ ckpts' = ckpts + 1 BY DEF Checkpoint
<1>3. ReaderInPlace' /\ RoundTrip' BY IInvIs, ReaderSame
<1>4. rd' = rd /\ backlog' = backlog /\ pos' = pos /\ data' = data BY DEF rvars
<1>5. TypeOK'
  <2>2. ckpts \in Nat BY IInvIs, TypesAre
  <2>1. ckpts' \in Nat BY <1>2, <2>2
  <2> QED BY <1>1, <1>2, <1>4, <2>1, IInvIs, TypesAre, TypesMade
<1>6. Kinds
  BY IInvIs
<1>7. Kinds' BY <1>2, <1>4, <1>6 DEF Kinds
<1>8. Backlog
  BY IInvIs
<1>9. Backlog' BY <1>2, <1>4, <1>8 DEF Backlog
<1> QED BY <1>1, <1>3, <1>5, <1>7, <1>9, IInvIs DEF IInv

\* truncate_archive: only the flag changes.
LEMMA TruncateStep ==
  ASSUME IInv, Truncate
  PROVE  IInv'
<1>1. /\ phase = "write" /\ phase' = phase /\ kind' = kind /\ tape' = tape /\ UNCHANGED rvars /\ eof' = TRUE
      /\ n' = n /\ mode' = mode /\ hbuf' = hbuf /\ cfile' = cfile /\ e' = e /\ out' = out /\ ckpts' = ckpts
      /\ warning' = warning
  BY DEF Truncate
<1>2. ReaderInPlace' /\ RoundTrip' BY <1>1, IInvIs, ReaderSame
<1>3. rd' = rd /\ backlog' = backlog /\ pos' = pos /\ data' = data BY <1>1 DEF rvars
<1>4. WriterInPlace' BY <1>1, IInvIs DEF WriterInPlace, Writing
<1>5. Modes' BY <1>1, IInvIs DEF Modes
<1>6. OutWhole' BY <1>1, IInvIs DEF OutWhole
<1>7. Kinds' BY <1>1, IInvIs DEF Kinds
<1>8. Backlog' BY <1>1 DEF Backlog
<1>9. TypeOK' BY <1>1, <1>3, <1>4, IInvIs, TypesAre, TypesMade
<1> QED BY <1>1, <1>2, <1>4, <1>5, <1>6, <1>7, <1>8, <1>9, IInvIs DEF IInv

\* An archive is opened.
LEMMA OpenKeeps ==
  ASSUME NEW t, OpenTape(t), NEW m, NEW x, IsTape(t, m, x),
         phase' = "copy" => DataUpTo(x, t.n - 1)
  PROVE  /\ ReaderInPlace' /\ RoundTrip' /\ Backlog'
         /\ tape' = t /\ backlog' = <<>> /\ pos' = 0 /\ data' = <<>>
<1>1. tape' = t /\ rd' = Opened /\ backlog' = <<>> /\ pos' = 0 /\ data' = <<>> BY DEF OpenTape
<1>2. AtPlace(Opened, t, m, 0, 0) BY OpenedIs
<1>3. IsTape(tape', m, x) /\ AtPlace(rd', tape', m, 0, pos') /\ (phase' = "copy" => DataUpTo(x, tape'.n - 1))
  BY Zenon, <1>1, <1>2
<1>4. ReaderInPlace' BY Zenon, <1>3 DEF ReaderInPlace, Reading
<1>5. RoundTrip' BY <1>1 DEF RoundTrip
<1>6. Backlog' BY <1>1 DEF Backlog
<1> QED BY <1>1, <1>4, <1>5, <1>6

\* The write cookie is closed, and what is opened is an archive.
LEMMA OpenStep ==
  ASSUME IInv, NEW t, OpenTape(t), NEW m, NEW x, IsTape(t, m, x), Idle, warning' = warning,
         \/ phase' = "read" /\ kind' = <<>>
         \/ /\ phase' = "copy" /\ phase = "write" /\ kind' = kind /\ mode = 3 /\ t.n = n
            /\ DataUpTo(x, n - 1)
  PROVE  IInv'
<1>1. WriterInPlace' /\ OutWhole' /\ Modes' BY IdleKeeps
<1>2. mode' = 2 /\ eof' = FALSE /\ n' = 0 /\ ckpts' = 0 BY DEF Idle
<1>3. phase' = "copy" => DataUpTo(x, t.n - 1) OBVIOUS
<1>4. /\ ReaderInPlace' /\ RoundTrip' /\ Backlog'
      /\ tape' = t /\ backlog' = <<>> /\ pos' = 0 /\ data' = <<>>
  BY <1>3, OpenKeeps
<1>5. TypeOK'
  <2>1. kind \in Seq(Kind) BY IInvIs, TypesAre
  <2>2. <<>> \in Seq(Kind) /\ <<>> \in Seq(Item) OBVIOUS
  <2>3. kind' \in Seq(Kind) /\ phase' \in {"write", "copy", "read"} BY <2>1, <2>2
  <2>4. pos' \in Nat /\ ckpts' \in Nat BY <1>2, <1>4
  <2>6. backlog' \in Seq(Item) /\ data' \in Seq(Item) BY <1>4, <2>2
  <2>5. mode' \in 0 .. 3 /\ eof' \in BOOLEAN BY IdleTypes
  <2> QED BY <1>1, <2>3, <2>4, <2>5, <2>6, IInvIs, TypesMade
<1>6. Kinds'
  <2>1. CASE phase' = "read" BY <2>1 DEF Kinds
  <2>2. CASE phase' # "read"
    <3>1. /\ phase' = "copy" /\ kind' = kind /\ tape'.n = n /\ phase = "write" /\ mode = 3 BY <1>4, <2>2
    <3>2. Len(kind) = n /\ n >= 1 /\ \A i \in 1 .. n : kind[i] = "e" <=> i = n BY <3>1, IInvIs DEF Kinds
    <3>3. n \in Nat BY IInvIs, TypesAre
    <3>6. pos' = 0 /\ Len(backlog') = 0
      <4>1. Len(<<>>) = 0 OBVIOUS
      <4> QED BY Zenon, <1>4, <4>1
    <3>4. pos' - Len(backlog') = 0 BY <3>6
    <3>5. n' = pos' - Len(backlog') /\ n' < tape'.n /\ mode' # 3 BY <1>2, <3>1, <3>2, <3>3, <3>4
    <3> QED BY <3>1, <3>2, <3>5 DEF Kinds
  <2> QED BY <2>1, <2>2
<1> QED BY <1>1, <1>4, <1>5, <1>6, IInvIs DEF IInv

\* writetape_close: the archive is read or copied next.
LEMMA CloseStep ==
  ASSUME IInv, Close
  PROVE  IInv'
<1>1. PICK z \in Flushed(e) : OpenTape(Stored(z)) BY DEF Close
<1>2. /\ phase = "write" /\ (mode = 3 \/ eof) /\ Idle
      /\ warning' = IF mode = 1 /\ TwoTrailers(e, cfile) THEN "trailers" ELSE warning
      /\ \/ phase' = "read" /\ kind' = <<>>
         \/ ~eof /\ phase' = "copy" /\ kind' = kind
  BY DEF Close
<1>3. warning' = warning
  <2>1. e.tlen = 0 BY IInvIs DEF Modes
  <2> QED BY <1>2, <2>1 DEF TwoTrailers
<1>4. PICK m, x : IsTape(Stored(z), m, x) /\ DataUpTo(x, Bound) BY IInvIs, ClosedIs
<1>5. Stored(z).n = n BY DEF Stored
<1>6. mode = 3 => DataUpTo(x, n - 1) BY <1>4 DEF Bound
<1> QED BY <1>1, <1>2, <1>3, <1>4, <1>5, <1>6, OpenStep

\* The program ends, and the last checkpoint is read.
LEMMA AbandonStep ==
  ASSUME IInv, Abandon
  PROVE  IInv'
<1>1. OpenTape(out) /\ phase' = "read" /\ kind' = <<>> /\ Idle /\ warning' = warning BY DEF Abandon
<1>2. PICK m, x : IsTape(out, m, x) BY IInvIs DEF OutWhole
<1> QED BY <1>1, <1>2, OpenStep

\* A copy is closed, and read.
LEMMA CopyCloseStep ==
  ASSUME IInv, CopyClose
  PROVE  IInv'
<1>1. PICK z \in Flushed(e) : OpenTape(Stored(z)) BY DEF CopyClose
<1>2. phase' = "read" /\ kind' = <<>> /\ Idle /\ warning' = warning BY DEF CopyClose
<1>3. PICK m, x : IsTape(Stored(z), m, x) /\ DataUpTo(x, Bound) BY IInvIs, ClosedIs
<1> QED BY <1>1, <1>2, <1>3, OpenStep

\* A copy sets the mode by what comes next in the old archive.
LEMMA CopyModeStep ==
  ASSUME IInv, NEW md \in 0 .. 2, CopyMode(md)
  PROVE  IInv'
<1>1. /\ phase = "copy" /\ phase' = phase /\ kind' = kind /\ tape' = tape /\ UNCHANGED rvars /\ SetMode(md)
      /\ (md = 0 => mode = 2) /\ (md = 1 => mode = 0)
  <2>1. /\ phase = "copy" /\ UNCHANGED <<phase, kind, tape, rvars>> /\ SetMode(md)
        /\ (md = 0 /\ mode = 2) \/ (md = 1 /\ mode = 0) \/ md = 2
    BY Zenon DEF CopyMode
  <2>2. (md = 0 => mode = 2) /\ (md = 1 => mode = 0) BY <2>1
  <2> QED BY <2>1, <2>2
<1>2. WriterInPlace' /\ Modes' /\ warning' = warning BY <1>1, IInvIs, SetModeKeeps
<1>3. n' = n /\ eof' = eof /\ out' = out /\ ckpts' = ckpts /\ mode # 3 /\ mode' = md
  BY <1>1 DEF SetMode
<1>4. mode' \in 0 .. 3 /\ mode' # 3 BY <1>3
<1>5. ReaderInPlace' /\ RoundTrip' BY <1>1, IInvIs, ReaderSame
<1>6. rd' = rd /\ backlog' = backlog /\ pos' = pos /\ data' = data BY <1>1 DEF rvars
<1>7. TypeOK'
  <2>1. /\ TypeOK /\ phase' \in {"write", "copy", "read"} /\ kind' \in Seq(Kind) /\ eof' \in BOOLEAN
        /\ pos' \in Nat /\ ckpts' \in Nat /\ backlog' \in Seq(Item) /\ data' \in Seq(Item)
    BY <1>1, <1>3, <1>6, IInvIs, TypesAre
  <2> QED BY <1>2, <1>4, <2>1, TypesMade
<1>8. OutWhole' BY <1>3, IInvIs DEF OutWhole
<1>9. Kinds'
  <2>1. /\ Len(kind) = tape.n /\ (\A i \in 1 .. tape.n : kind[i] = "e" <=> i = tape.n)
        /\ n = pos - Len(backlog) /\ n < tape.n
    BY <1>1, <1>3, IInvIs DEF Kinds
  <2>2. /\ phase' = "copy" /\ Len(kind') = tape'.n /\ (\A i \in 1 .. tape'.n : kind'[i] = "e" <=> i = tape'.n)
        /\ n' = pos' - Len(backlog') /\ n' < tape'.n
    BY Zenon, <1>1, <1>3, <1>6, <2>1
  <2> QED BY <1>4, <2>2 DEF Kinds
<1>10. Backlog'
  <2>1. \A i \in 1 .. Len(backlog) : backlog[i] = Unit(pos - Len(backlog) + i) BY <1>1, <1>3, IInvIs DEF Backlog
  <2> QED BY Zenon, <1>6, <2>1 DEF Backlog
<1> QED BY <1>2, <1>5, <1>7, <1>8, <1>9, <1>10, IInvIs DEF IInv

\* checkpoint_archive while an archive is written,
LEMMA PutCheckpointStep ==
  ASSUME IInv, PutCheckpoint
  PROVE  IInv'
<1>1. /\ mode # 0 /\ Checkpoint /\ phase' = phase /\ kind' = kind /\ tape' = tape /\ UNCHANGED rvars
  BY DEF PutCheckpoint
<1> QED BY <1>1, CheckpointStep

\* and while one is copied.
LEMMA CopyCheckpointStep ==
  ASSUME IInv, CopyCheckpoint
  PROVE  IInv'
<1>1. /\ mode = 2 /\ Checkpoint /\ phase' = phase /\ kind' = kind /\ tape' = tape /\ UNCHANGED rvars
  BY DEF CopyCheckpoint
<1>2. mode # 0 BY <1>1
<1> QED BY <1>1, <1>2, CheckpointStep

\* Nothing is written.
LEMMA WriterSame ==
  ASSUME IInv, UNCHANGED wvars
  PROVE  /\ WriterInPlace' /\ OutWhole' /\ Modes'
         /\ mode' = mode /\ eof' = eof /\ n' = n /\ ckpts' = ckpts
<1>1. /\ mode' = mode /\ eof' = eof /\ n' = n /\ ckpts' = ckpts /\ hbuf' = hbuf /\ cfile' = cfile
      /\ e' = e /\ out' = out
  BY DEF wvars
<1>2. WriterInPlace' BY <1>1, IInvIs DEF WriterInPlace, Writing
<1>3. OutWhole' BY <1>1, IInvIs DEF OutWhole
<1>4. Modes
  BY IInvIs
<1>5. Modes' BY <1>1, <1>4 DEF Modes
<1> QED BY <1>1, <1>2, <1>3, <1>5

\* A reader that is where it was, whatever is done with the backlog.
LEMMA ReaderKept ==
  ASSUME IInv, phase' = phase, tape' = tape, rd' = rd, pos' = pos, data' = data
  PROVE  ReaderInPlace' /\ RoundTrip'
<1>1. RoundTrip
  BY IInvIs
<1>2. RoundTrip' BY <1>1 DEF RoundTrip
<1>3. PICK m, x, k : Reading(m, x, k) BY IInvIs DEF ReaderInPlace
<1>4. IsTape(tape, m, x) /\ AtPlace(rd, tape, m, k, pos) /\ (phase = "copy" => DataUpTo(x, tape.n - 1))
  BY <1>3 DEF Reading
<1>5. IsTape(tape', m, x) /\ AtPlace(rd', tape', m, k, pos') /\ (phase' = "copy" => DataUpTo(x, tape'.n - 1))
  BY Zenon, <1>4
<1>6. ReaderInPlace' BY Zenon, <1>5 DEF ReaderInPlace, Reading
<1> QED BY <1>2, <1>6

\* A reader that moves on.
LEMMA ReaderMoves ==
  ASSUME phase' = phase, tape' = tape, NEW m, NEW x, NEW l,
         IsTape(tape, m, x), phase = "copy" => DataUpTo(x, tape.n - 1), AtPlace(rd', tape, m, l, pos')
  PROVE  ReaderInPlace'
<1>1. IsTape(tape', m, x) /\ AtPlace(rd', tape', m, l, pos') /\ (phase' = "copy" => DataUpTo(x, tape'.n - 1))
  BY Zenon
<1> QED BY Zenon, <1>1 DEF ReaderInPlace, Reading

\* What it gives is what comes next.
LEMMA DataNext ==
  ASSUME NEW p \in Nat, UnitsFrom(data', p), pos' = p + Len(data')
  PROVE  /\ RoundTrip' /\ data' \in Seq(Item) /\ Len(data') \in Nat /\ pos' \in Nat
         /\ pos' - Len(data') = p
         /\ \A i \in 1 .. Len(data') : data'[i] = Unit(pos' - Len(data') + i)
<1>1. data' \in Seq(Item) /\ \A i \in 1 .. Len(data') : data'[i] = Unit(p + i) BY DEF UnitsFrom
<1>2. Len(data') \in Nat BY <1>1
<1>3. pos' \in Nat /\ pos' - Len(data') = p BY <1>2
<1>4. DOMAIN data' = 1 .. Len(data') BY <1>1
<1>5. \A i \in 1 .. Len(data') : data'[i] = Unit(pos' - Len(data') + i) BY Zenon, <1>1, <1>3
<1>6. RoundTrip' BY Zenon, <1>4, <1>5 DEF RoundTrip
<1> QED BY <1>1, <1>2, <1>3, <1>5, <1>6

\* How far a copy is.
LEMMA CopyIs ==
  ASSUME IInv, phase = "copy", mode # 3
  PROVE  /\ Len(kind) = tape.n /\ tape.n \in Nat /\ (\A i \in 1 .. tape.n : kind[i] = "e" <=> i = tape.n)
         /\ n = pos - Len(backlog) /\ n < tape.n /\ n \in Nat /\ pos \in Nat
         /\ backlog \in Seq(Item) /\ Len(backlog) \in Nat
         /\ \A i \in 1 .. Len(backlog) : backlog[i] = Unit(n + i)
<1>1. Kinds /\ Backlog BY IInvIs
<1>2. /\ Len(kind) = tape.n /\ (\A i \in 1 .. tape.n : kind[i] = "e" <=> i = tape.n)
      /\ n = pos - Len(backlog) /\ n < tape.n
  BY <1>1 DEF Kinds
<1>3. kind \in Seq(Kind) /\ n \in Nat /\ pos \in Nat /\ backlog \in Seq(Item) BY IInvIs, TypesAre
<1>4. Len(kind) \in Nat /\ Len(backlog) \in Nat BY <1>3
<1>5. \A i \in 1 .. Len(backlog) : backlog[i] = Unit(pos - Len(backlog) + i) BY <1>1 DEF Backlog
<1>6. \A i \in 1 .. Len(backlog) : backlog[i] = Unit(n + i) BY Zenon, <1>2, <1>5
<1> QED BY <1>2, <1>3, <1>4, <1>6

\* The next unit of the copy is the marker if it is the last.
LEMMA CopyNext ==
  ASSUME IInv, phase = "copy", mode # 3
  PROVE  Next1 = "e" <=> n + 1 = tape.n
<1>1. n + 1 \in 1 .. tape.n BY CopyIs
<1>2. kind[n + 1] = "e" <=> n + 1 = tape.n BY <1>1, CopyIs
<1>3. Next1 = kind[n + 1] BY CopyIs DEF Next1
<1> QED BY <1>2, <1>3

\* A copy goes on.
LEMMA CopyKinds ==
  ASSUME IInv, phase = "copy", mode # 3, phase' = phase, kind' = kind, tape' = tape, mode' # 3,
         n' = pos' - Len(backlog'), n' < tape.n
  PROVE  Kinds'
<1>1. Len(kind) = tape.n /\ (\A i \in 1 .. tape.n : kind[i] = "e" <=> i = tape.n) BY CopyIs
<1>2. /\ phase' = "copy" /\ Len(kind') = tape'.n /\ (\A i \in 1 .. tape'.n : kind'[i] = "e" <=> i = tape'.n)
      /\ n' = pos' - Len(backlog') /\ n' < tape'.n
  BY Zenon, <1>1
<1> QED BY <1>2 DEF Kinds

\* The marker of a copy takes the place of that of the original.
LEMMA CopyEndStep ==
  ASSUME IInv, CopyEnd
  PROVE  IInv'
<1>1. /\ phase = "copy" /\ phase' = phase /\ kind' = kind /\ tape' = tape /\ UNCHANGED rvars /\ mode = 2
      /\ WriteHeader(Unit(n + 1)) /\ Next1 = "e"
  BY DEF CopyEnd
<1>2. mode # 3 BY <1>1
<1>3. WriterInPlace' /\ Modes' BY <1>1, IInvIs, HeaderKeeps
<1>4. n' = n + 1 /\ eof' = eof /\ out' = out /\ ckpts' = ckpts /\ mode' = 3 /\ warning' = warning
  BY <1>1 DEF WriteHeader
<1>5. ReaderInPlace' /\ RoundTrip' BY <1>1, IInvIs, ReaderSame
<1>6. rd' = rd /\ backlog' = backlog /\ pos' = pos /\ data' = data BY <1>1 DEF rvars
<1>7. n + 1 = tape.n BY <1>1, <1>2, CopyNext
<1>8. Kinds'
  <2>1. Len(kind) = tape.n /\ (\A i \in 1 .. tape.n : kind[i] = "e" <=> i = tape.n) BY <1>1, <1>2, CopyIs
  <2>2. /\ phase' = "copy" /\ Len(kind') = tape'.n /\ (\A i \in 1 .. tape'.n : kind'[i] = "e" <=> i = tape'.n)
        /\ mode' = 3 /\ n' = tape'.n
    BY Zenon, <1>1, <1>4, <1>7, <2>1
  <2> QED BY <2>2 DEF Kinds
<1>9. TypeOK'
  <2>1. mode' \in 0 .. 3 BY <1>4
  <2>2. /\ TypeOK /\ phase' \in {"write", "copy", "read"} /\ eof' \in BOOLEAN /\ kind' \in Seq(Kind)
        /\ pos' \in Nat /\ ckpts' \in Nat /\ backlog' \in Seq(Item) /\ data' \in Seq(Item)
    BY <1>1, <1>4, <1>6, IInvIs, TypesAre
  <2> QED BY <1>3, <2>1, <2>2, TypesMade
<1>10. OutWhole' BY <1>4, IInvIs DEF OutWhole
<1>11. Backlog' BY <1>4 DEF Backlog
<1> QED BY <1>3, <1>4, <1>5, <1>8, <1>9, <1>10, <1>11, IInvIs DEF IInv

\* A unit that libarchive had read goes to the writer.
LEMMA CopyDrainStep ==
  ASSUME IInv, CopyDrain
  PROVE  IInv'
<1> DEFINE hd == Head(backlog)
<1>1. /\ phase = "copy" /\ phase' = phase /\ kind' = kind /\ tape' = tape /\ rd' = rd /\ pos' = pos
      /\ data' = data /\ warning' = warning
      /\ backlog # <<>> /\ backlog' = Tail(backlog)
      /\ IF mode = 0 THEN WriteHeader(hd) ELSE WriteData(hd)
  BY DEF CopyDrain
<1>2. (mode = 0 \/ mode = 1) /\ Next1 # "e" BY DEF CopyDrain, Wanted
<1>3. mode # 3 BY <1>2
<1>4. /\ n = pos - Len(backlog) /\ n < tape.n /\ n \in Nat /\ pos \in Nat /\ tape.n \in Nat
      /\ backlog \in Seq(Item) /\ Len(backlog) \in Nat
  BY <1>1, <1>3, CopyIs
<1>5. \A i \in 1 .. Len(backlog) : backlog[i] = Unit(n + i) BY <1>1, <1>3, CopyIs
<1>6. /\ hd = backlog[1] /\ Len(backlog) >= 1
      /\ backlog' \in Seq(Item) /\ Len(backlog') = Len(backlog) - 1
      /\ \A i \in 1 .. Len(backlog) - 1 : backlog'[i] = backlog[i + 1]
  BY <1>1, <1>4
<1>7. hd = Unit(n + 1)
  <2>1. 1 \in 1 .. Len(backlog) BY <1>4, <1>6
  <2> QED BY Zenon, <1>5, <1>6, <2>1
<1> HIDE DEF hd
<1>8. n + 1 # tape.n BY <1>1, <1>2, <1>3, CopyNext
<1>9. /\ WriterInPlace' /\ Modes' /\ n' = n + 1 /\ mode' # 3 /\ mode' \in 0 .. 3
      /\ eof' = eof /\ out' = out /\ ckpts' = ckpts
  <2>1. CASE mode = 0
    <3>1. WriteHeader(Unit(n + 1)) BY Zenon, <1>1, <1>7, <2>1
    <3>2. mode \in {0, 2} BY <2>1
    <3>3. WriterInPlace' /\ Modes' BY <3>1, <3>2, IInvIs, HeaderKeeps
    <3>4. mode' = 0 /\ n' = n + 1 /\ eof' = eof /\ out' = out /\ ckpts' = ckpts BY <2>1, <3>1 DEF WriteHeader
    <3> QED BY <3>3, <3>4
  <2>2. CASE mode # 0
    <3>1. WriteData(Unit(n + 1)) BY Zenon, <1>1, <1>7, <2>2
    <3>2. WriterInPlace' /\ Modes' BY <3>1, IInvIs, DataKeeps
    <3>3. mode = 1 /\ mode' = mode /\ n' = n + 1 /\ eof' = eof /\ out' = out /\ ckpts' = ckpts
      BY <3>1 DEF WriteData
    <3> QED BY <3>2, <3>3
  <2> QED BY <2>1, <2>2
<1>10. ReaderInPlace' /\ RoundTrip' BY <1>1, ReaderKept
<1>11. Kinds'
  <2>1. n' = pos' - Len(backlog') /\ n' < tape.n BY <1>1, <1>4, <1>6, <1>8, <1>9
  <2> QED BY <1>1, <1>3, <1>9, <2>1, CopyKinds
<1>12. Backlog'
  <2>1. ASSUME NEW i \in 1 .. Len(backlog') PROVE backlog'[i] = Unit(pos' - Len(backlog') + i)
    <3>1. i \in 1 .. Len(backlog) - 1 /\ i + 1 \in 1 .. Len(backlog) BY <1>4, <1>6
    <3>2. n + (i + 1) = pos' - Len(backlog') + i BY <1>1, <1>4, <1>6, <3>1
    <3>3. backlog'[i] = Unit(n + (i + 1)) BY <1>5, <1>6, <3>1
    <3> QED BY Zenon, <3>2, <3>3
  <2> QED BY Zenon, <2>1 DEF Backlog
<1>13. TypeOK'
  <2>1. /\ TypeOK /\ phase' \in {"write", "copy", "read"} /\ eof' \in BOOLEAN /\ kind' \in Seq(Kind)
        /\ pos' \in Nat /\ ckpts' \in Nat /\ data' \in Seq(Item)
    BY <1>1, <1>9, IInvIs, TypesAre
  <2> QED BY <1>6, <1>9, <2>1, TypesMade
<1>14. OutWhole' BY <1>9, IInvIs DEF OutWhole
<1>15. warning' = "" BY <1>1, IInvIs
<1> QED BY <1>9, <1>10, <1>11, <1>12, <1>13, <1>14, <1>15 DEF IInv

\* libarchive reads a block.
LEMMA CopyReadStep ==
  ASSUME IInv, CopyRead
  PROVE  IInv'
<1> DEFINE r == IF mode = 1 THEN ReadChunk(rd).r ELSE rd
           y == ReadTape(r)
<1>1. /\ phase = "copy" /\ phase' = phase /\ kind' = kind /\ tape' = tape /\ UNCHANGED wvars
      /\ warning' = warning /\ backlog = <<>> /\ backlog' = data'
      /\ rd' = y.r /\ data' = y.data /\ pos' = pos + Len(y.data)
  BY DEF CopyRead, Got
<1>2. mode # 3
  <2>1. Wanted BY DEF CopyRead
  <2>2. mode = 0 \/ mode = 1 BY Zenon, <2>1 DEF Wanted
  <2> QED BY <2>2
<1>3. PICK m, x, k : Reading(m, x, k) BY IInvIs DEF ReaderInPlace
<1>4. IsTape(tape, m, x) /\ AtPlace(rd, tape, m, k, pos) /\ (phase = "copy" => DataUpTo(x, tape.n - 1))
  BY <1>3 DEF Reading
<1>5. PICK j : AtPlace(r, tape, m, j, pos)
  <2>1. \E l : AtPlace(ReadChunk(rd).r, tape, m, l, pos) BY <1>4, ReadChunkIs
  <2> QED BY <1>4, <2>1
<1> HIDE DEF r
<1>6. UnitsFrom(y.data, pos) /\ \E l : AtPlace(y.r, tape, m, l, pos + Len(y.data))
  BY <1>4, <1>5, ReadTapeIs
<1>7. PICK l : AtPlace(y.r, tape, m, l, pos + Len(y.data)) BY <1>6
<1> HIDE DEF y
<1>8. pos \in Nat /\ n = pos - Len(backlog) /\ n < tape.n BY <1>1, <1>2, CopyIs
<1>9. UnitsFrom(data', pos) /\ pos' = pos + Len(data') BY Zenon, <1>1, <1>6
<1>10. /\ RoundTrip' /\ data' \in Seq(Item) /\ pos' \in Nat /\ pos' - Len(data') = pos
       /\ \A i \in 1 .. Len(data') : data'[i] = Unit(pos' - Len(data') + i)
  BY <1>8, <1>9, DataNext
<1>11. AtPlace(rd', tape, m, l, pos') BY Zenon, <1>1, <1>7
<1>12. ReaderInPlace' BY <1>1, <1>4, <1>11, ReaderMoves
<1>13. /\ WriterInPlace' /\ OutWhole' /\ Modes' /\ mode' = mode /\ eof' = eof /\ n' = n /\ ckpts' = ckpts
  BY <1>1, WriterSame
<1>14. Kinds'
  <2>1. Len(backlog) = 0 BY <1>1
  <2>2. n = pos BY <1>8, <2>1
  <2>3. pos' - Len(backlog') = n' BY Zenon, <1>1, <1>10, <1>13, <2>2
  <2>4. n' < tape.n BY <1>8, <1>13
  <2>5. mode' # 3 BY <1>2, <1>13
  <2> QED BY <1>1, <1>2, <2>3, <2>4, <2>5, CopyKinds
<1>15. Backlog' BY Zenon, <1>1, <1>10 DEF Backlog
<1>16. TypeOK'
  <2>1. /\ TypeOK /\ phase' \in {"write", "copy", "read"} /\ eof' \in BOOLEAN /\ kind' \in Seq(Kind)
        /\ ckpts' \in Nat /\ mode' \in 0 .. 3
    BY <1>1, <1>13, IInvIs, TypesAre
  <2>2. backlog' \in Seq(Item) BY Zenon, <1>1, <1>10
  <2> QED BY <1>10, <1>13, <2>1, <2>2, TypesMade
<1>17. warning' = "" BY <1>1, IInvIs
<1> QED BY <1>10, <1>12, <1>13, <1>14, <1>15, <1>16, <1>17 DEF IInv

\* A chunk of the old archive becomes one of the new.
LEMMA CopyChunkStep ==
  ASSUME IInv, CopyChunk
  PROVE  IInv'
<1> DEFINE c == ReadChunk(rd)
           ck == c.chunk
           z == SkipTape(c.r, Len(ck))
<1>1. /\ phase = "copy" /\ phase' = phase /\ kind' = kind /\ tape' = tape /\ backlog' = backlog
      /\ backlog = <<>> /\ mode = 1
      /\ ck # <<>> /\ WriteChunk(ck) /\ rd' = z /\ data' = ck /\ pos' = pos + Len(ck)
  BY DEF CopyChunk
<1>2. mode # 3 BY <1>1
<1>3. PICK m, x, k : Reading(m, x, k) BY IInvIs DEF ReaderInPlace
<1>4. IsTape(tape, m, x) /\ AtPlace(rd, tape, m, k, pos) /\ (phase = "copy" => DataUpTo(x, tape.n - 1))
  BY <1>3 DEF Reading
<1>5. pos \in Nat /\ n = pos - Len(backlog) /\ n \in Nat /\ tape.n \in Nat BY <1>1, <1>2, CopyIs
<1>6. n = pos
  <2>1. Len(backlog) = 0 BY <1>1
  <2> QED BY <1>5, <2>1
<1>7. UnitsFrom(ck, pos) /\ \E l : AtPlace(c.r, tape, m, l, pos) BY <1>4, ReadChunkIs
<1>8. PICK l : AtPlace(c.r, tape, m, l, pos) BY <1>7
<1>9. pos + Len(ck) <= tape.n - 1
  <2> DEFINE b == tape.n - 1
  <2>1. b \in Int BY <1>5
  <2>2. DataUpTo(x, b) BY <1>1, <1>4
  <2> HIDE DEF b
  <2>3. pos + Len(ck) <= b BY <1>1, <1>4, <2>1, <2>2, ReadChunkIs
  <2> QED BY <2>3 DEF b
<1>10. ck \in Seq(Item) /\ \A i \in 1 .. Len(ck) : ck[i] = Unit(pos + i) BY <1>7 DEF UnitsFrom
<1> HIDE DEF ck
<1>11. Len(ck) \in Nat BY <1>10
<1>12. PICK j : AtPlace(z, tape, m, j, pos + Len(ck))
  <2> DEFINE w == c.r
             d == Len(ck)
  <2>1. d \in Nat /\ pos + d <= tape.n BY <1>5, <1>9, <1>11
  <2>2. AtPlace(w, tape, m, l, pos) BY <1>8
  <2>3. z = SkipTape(w, d) OBVIOUS
  <2> HIDE DEF w, d, c, z
  <2>4. \E a : AtPlace(SkipTape(w, d), tape, m, a, pos + d) BY <1>4, <2>1, <2>2, SkipTapeIs
  <2>5. \E a : AtPlace(z, tape, m, a, pos + d) BY Zenon, <2>3, <2>4
  <2> QED BY Zenon, <2>5 DEF d
<1> HIDE DEF z, c
<1>13. WriterInPlace' /\ Modes'
  <2>1. \A i \in 1 .. Len(ck) : ck[i] = Unit(n + i) BY Zenon, <1>6, <1>10
  <2> QED BY <1>1, <1>10, <2>1, IInvIs, ChunkKeeps
<1>14. n' = n + Len(ck) /\ mode' = mode /\ eof' = eof /\ out' = out /\ ckpts' = ckpts /\ warning' = warning
  BY <1>1 DEF WriteChunk
<1>15. AtPlace(rd', tape, m, j, pos') BY Zenon, <1>1, <1>12
<1>16. ReaderInPlace' BY <1>1, <1>4, <1>15, ReaderMoves
<1>17. UnitsFrom(data', pos) /\ pos' = pos + Len(data') BY Zenon, <1>1, <1>7
<1>18. RoundTrip' /\ data' \in Seq(Item) /\ pos' \in Nat BY <1>5, <1>17, DataNext
<1>19. Kinds'
  <2>1. Len(backlog') = 0 BY <1>1
  <2>2. n' = pos' - Len(backlog') /\ n' < tape.n BY <1>1, <1>5, <1>6, <1>9, <1>11, <1>14, <2>1
  <2>3. mode' # 3 BY <1>2, <1>14
  <2> QED BY <1>1, <1>2, <2>2, <2>3, CopyKinds
<1>20. Backlog'
  <2>1. Len(backlog') = 0 BY <1>1
  <2> QED BY <2>1 DEF Backlog
<1>21. TypeOK'
  <2>1. /\ TypeOK /\ phase' \in {"write", "copy", "read"} /\ eof' \in BOOLEAN /\ kind' \in Seq(Kind)
        /\ ckpts' \in Nat /\ mode' \in 0 .. 3 /\ backlog' \in Seq(Item)
    BY <1>1, <1>14, IInvIs, TypesAre
  <2> QED BY <1>13, <1>18, <2>1, TypesMade
<1>22. OutWhole' BY <1>14, IInvIs DEF OutWhole
<1>23. warning' = "" BY <1>14, IInvIs
<1> QED BY <1>13, <1>16, <1>18, <1>19, <1>20, <1>21, <1>22, <1>23 DEF IInv

\* A step of an archive that is read.
LEMMA ReadingStep ==
  ASSUME IInv, phase = "read", phase' = phase, kind' = kind, UNCHANGED wvars, tape' = tape,
         backlog' = backlog, warning' = warning,
         ReaderInPlace', RoundTrip', pos' \in Nat, data' \in Seq(Item)
  PROVE  IInv'
<1>1. /\ WriterInPlace' /\ OutWhole' /\ Modes'
      /\ mode' = mode /\ eof' = eof /\ n' = n /\ ckpts' = ckpts
  BY WriterSame
<1>2. phase' = "read" OBVIOUS
<1>3. Kinds' BY <1>2 DEF Kinds
<1>4. Backlog' BY <1>2 DEF Backlog
<1>5. TypeOK'
  <2>1. /\ TypeOK /\ phase' \in {"write", "copy", "read"} /\ eof' \in BOOLEAN /\ kind' \in Seq(Kind)
        /\ ckpts' \in Nat /\ mode' \in 0 .. 3 /\ backlog' \in Seq(Item)
    BY <1>1, <1>2, IInvIs, TypesAre
  <2> QED BY <1>1, <2>1, TypesMade
<1>6. warning' = "" BY IInvIs
<1> QED BY <1>1, <1>3, <1>4, <1>5, <1>6 DEF IInv

\* The reader of an archive and where it is.
LEMMA ReaderAt ==
  ASSUME IInv
  PROVE  \E m, x, k : /\ IsTape(tape, m, x) /\ AtPlace(rd, tape, m, k, pos)
                      /\ (phase = "copy" => DataUpTo(x, tape.n - 1))
BY IInvIs DEF ReaderInPlace, Reading

\* readtape_read of an archive that is only read.
LEMMA ReadStep ==
  ASSUME IInv, Read
  PROVE  IInv'
<1> DEFINE y == ReadTape(rd)
<1>1. /\ phase = "read" /\ phase' = phase /\ kind' = kind /\ tape' = tape /\ UNCHANGED wvars
      /\ warning' = warning /\ backlog' = backlog
      /\ rd' = y.r /\ data' = y.data /\ pos' = pos + Len(y.data)
  BY DEF Read, Got
<1>2. PICK m, x, k : /\ IsTape(tape, m, x) /\ AtPlace(rd, tape, m, k, pos)
                     /\ (phase = "copy" => DataUpTo(x, tape.n - 1))
  BY ReaderAt
<1>3. UnitsFrom(y.data, pos) /\ \E l : AtPlace(y.r, tape, m, l, pos + Len(y.data))
  BY <1>2, ReadTapeIs
<1>4. PICK l : AtPlace(y.r, tape, m, l, pos + Len(y.data)) BY <1>3
<1> HIDE DEF y
<1>5. pos \in Nat BY IInvIs, TypesAre
<1>6. UnitsFrom(data', pos) /\ pos' = pos + Len(data') BY Zenon, <1>1, <1>3
<1>7. RoundTrip' /\ data' \in Seq(Item) /\ pos' \in Nat BY <1>5, <1>6, DataNext
<1>8. AtPlace(rd', tape, m, l, pos') BY Zenon, <1>1, <1>4
<1>9. ReaderInPlace' BY <1>1, <1>2, <1>8, ReaderMoves
<1> QED BY <1>1, <1>7, <1>9, ReadingStep

\* Nothing is given.
LEMMA NoDataNext ==
  ASSUME data' = <<>>
  PROVE  RoundTrip' /\ data' \in Seq(Item)
<1>1. <<>> \in Seq(Item) /\ DOMAIN <<>> = {} OBVIOUS
<1>2. data' \in Seq(Item) /\ DOMAIN data' = {} BY Zenon, <1>1
<1>3. RoundTrip' BY <1>2 DEF RoundTrip
<1> QED BY <1>2, <1>3

\* readtape_skip within the archive.
LEMMA SkipStep ==
  ASSUME IInv, NEW j \in 1 .. MaxChunk, Skip(j)
  PROVE  IInv'
<1> DEFINE z == SkipTape(rd, j)
<1>1. /\ phase = "read" /\ phase' = phase /\ kind' = kind /\ tape' = tape /\ UNCHANGED wvars
      /\ warning' = warning /\ backlog' = backlog /\ pos + j <= tape.n
      /\ rd' = z /\ data' = <<>> /\ pos' = pos + j
  BY DEF Skip
<1>2. PICK m, x, k : /\ IsTape(tape, m, x) /\ AtPlace(rd, tape, m, k, pos)
                     /\ (phase = "copy" => DataUpTo(x, tape.n - 1))
  BY ReaderAt
<1>3. j \in Nat /\ pos \in Nat
  <2>1. MaxChunk \in Nat BY TapeAssumption
  <2>2. j \in Nat BY <2>1
  <2>3. pos \in Nat BY IInvIs, TypesAre
  <2> QED BY <2>2, <2>3
<1>4. \E l : AtPlace(z, tape, m, l, pos + j) BY <1>1, <1>2, <1>3, SkipTapeIs
<1>5. PICK l : AtPlace(z, tape, m, l, pos + j) BY <1>4
<1> HIDE DEF z
<1>6. AtPlace(rd', tape, m, l, pos') BY Zenon, <1>1, <1>5
<1>7. ReaderInPlace' BY <1>1, <1>2, <1>6, ReaderMoves
<1>8. RoundTrip' /\ data' \in Seq(Item) BY <1>1, NoDataNext
<1>9. pos' \in Nat BY <1>1, <1>3
<1> QED BY <1>1, <1>7, <1>8, <1>9, ReadingStep

\* readtape_readchunk without a use for the chunk.
LEMMA PeekStep ==
  ASSUME IInv, Peek
  PROVE  IInv'
<1> DEFINE z == ReadChunk(rd).r
<1>1. /\ phase = "read" /\ phase' = phase /\ kind' = kind /\ tape' = tape /\ UNCHANGED wvars
      /\ warning' = warning /\ backlog' = backlog
      /\ rd' = z /\ data' = <<>> /\ pos' = pos
  BY DEF Peek
<1>2. PICK m, x, k : /\ IsTape(tape, m, x) /\ AtPlace(rd, tape, m, k, pos)
                     /\ (phase = "copy" => DataUpTo(x, tape.n - 1))
  BY ReaderAt
<1>3. pos \in Nat BY IInvIs, TypesAre
<1>4. \E l : AtPlace(z, tape, m, l, pos) BY <1>2, ReadChunkIs
<1>5. PICK l : AtPlace(z, tape, m, l, pos) BY <1>4
<1> HIDE DEF z
<1>6. AtPlace(rd', tape, m, l, pos') BY Zenon, <1>1, <1>5
<1>7. ReaderInPlace' BY <1>1, <1>2, <1>6, ReaderMoves
<1>8. RoundTrip' /\ data' \in Seq(Item) BY <1>1, NoDataNext
<1>9. pos' \in Nat BY <1>1, <1>3
<1> QED BY <1>1, <1>7, <1>8, <1>9, ReadingStep

\* Nothing happens.
LEMMA StutterStep ==
  ASSUME IInv, UNCHANGED vars
  PROVE  IInv'
<1>1. /\ phase' = phase /\ kind' = kind /\ tape' = tape /\ UNCHANGED wvars /\ UNCHANGED rvars
      /\ warning' = warning
  BY DEF vars
<1>2. rd' = rd /\ backlog' = backlog /\ pos' = pos /\ data' = data BY <1>1 DEF rvars
<1>3. /\ WriterInPlace' /\ OutWhole' /\ Modes'
      /\ mode' = mode /\ eof' = eof /\ n' = n /\ ckpts' = ckpts
  BY <1>1, WriterSame
<1>4. ReaderInPlace' /\ RoundTrip' BY <1>1, <1>2, ReaderKept
<1>5. Kinds /\ Backlog BY IInvIs
<1>6. Kinds' BY <1>1, <1>2, <1>3, <1>5 DEF Kinds
<1>7. Backlog' BY <1>1, <1>2, <1>3, <1>5 DEF Backlog
<1>8. TypeOK'
  <2>1. /\ TypeOK /\ phase' \in {"write", "copy", "read"} /\ eof' \in BOOLEAN /\ kind' \in Seq(Kind)
        /\ ckpts' \in Nat /\ mode' \in 0 .. 3 /\ backlog' \in Seq(Item) /\ pos' \in Nat /\ data' \in Seq(Item)
    BY <1>1, <1>2, <1>3, IInvIs, TypesAre
  <2> QED BY <1>3, <2>1, TypesMade
<1>9. warning' = "" BY <1>1, IInvIs
<1> QED BY <1>3, <1>4, <1>6, <1>7, <1>8, <1>9 DEF IInv

\* The empty sequence.
LEMMA NoSequence == \A S : <<>> \in Seq(S) OBVIOUS

\* The first archive is begun with nothing.
LEMMA InitIInv ==
  ASSUME Init
  PROVE  IInv
<1>1. /\ phase = "write" /\ kind = <<>> /\ n = 0 /\ mode = 2 /\ eof = FALSE /\ hbuf = <<>> /\ cfile = <<>>
      /\ e = NoEntry /\ out = NoTape /\ ckpts = 0 /\ tape = NoTape /\ rd = Opened /\ backlog = <<>>
      /\ pos = 0 /\ data = <<>> /\ warning = ""
  BY DEF Init
<1>2. PICK m, x : Writes(NoEntry, <<>>, <<>>, 0, m, x) /\ IsTape(NoTape, m, x) /\ x["c"] = <<>>
  <2> DEFINE m0 == << Lengths(0, 0, 0) >>
             x0 == [s \in Streams |-> <<>>]
  <2>1. Writes(NoEntry, <<>>, <<>>, 0, m0, x0) /\ IsTape(NoTape, m0, x0) BY EmptyWrites
  <2>2. x0["c"] = <<>> BY DEF Streams
  <2> HIDE DEF m0, x0
  <2> QED BY <2>1, <2>2
<1>3. DataUpTo(x, IF mode = 3 THEN n - 1 ELSE n)
  <2>1. Len(x["c"]) = 0 BY <1>2
  <2> QED BY <2>1 DEF DataUpTo
<1>4. WriterInPlace
  <2>1. Writes(e, hbuf, cfile, n, m, x) BY <1>1, <1>2
  <2> QED BY Zenon, <1>3, <2>1 DEF WriterInPlace, Writing
<1>5. OutWhole BY <1>1, <1>2 DEF OutWhole
<1>6. ReaderInPlace
  <2>1. AtPlace(Opened, NoTape, m, 0, 0) BY <1>2, OpenedIs
  <2>2. AtPlace(rd, tape, m, 0, pos) /\ IsTape(tape, m, x) BY Zenon, <1>1, <1>2, <2>1
  <2>3. phase # "copy" BY <1>1
  <2> QED BY Zenon, <2>2, <2>3 DEF ReaderInPlace, Reading
<1>7. RoundTrip
  <2>1. data = <<>> BY <1>1
  <2>2. DOMAIN data = {} BY <2>1
  <2> QED BY <2>2 DEF RoundTrip
<1>8. Modes
  <2>1. e = NoEntry /\ hbuf = <<>> /\ cfile = <<>> BY <1>1
  <2>2. NoEntry.tlen = 0 /\ NoEntry.clen = 0 BY DEF NoEntry
  <2>3. e.tlen = 0 /\ e.clen = 0 BY Zenon, <2>1, <2>2
  <2> QED BY Zenon, <2>1, <2>3 DEF Modes
<1>9. Kinds
  <2>1. phase = "write" /\ kind = <<>> /\ n = 0 /\ mode = 2 BY Zenon, <1>1
  <2>2. Len(kind) = n BY <2>1
  <2>3. \A i \in 1 .. n : kind[i] = "e" <=> i = n /\ mode = 3 BY <2>1
  <2>4. phase # "copy" /\ mode # 3 BY <2>1
  <2> QED BY Zenon, <2>2, <2>3, <2>4 DEF Kinds
<1>10. Backlog BY <1>1 DEF Backlog
<1>11. TypeOK
  <2>1. <<>> \in Seq(Item) /\ <<>> \in Seq({"h", "i", "d", "e"}) BY NoSequence
  <2>2. mode \in 0 .. 3
    <3>1. mode = 2 BY Zenon, <1>1
    <3> QED BY <3>1
  <2>7. eof = FALSE BY <1>1
  <2>3. eof \in BOOLEAN BY Zenon, <2>7
  <2>4. {n, pos, ckpts} \subseteq Nat
    <3>1. n = 0 /\ pos = 0 /\ ckpts = 0 BY Zenon, <1>1
    <3> QED BY <3>1
  <2>5. {hbuf, cfile, backlog, data} \subseteq Seq(Item) BY Zenon, <1>1, <2>1
  <2>6. phase \in {"write", "copy", "read"} /\ kind \in Seq({"h", "i", "d", "e"}) BY Zenon, <1>1, <2>1
  <2> QED BY Zenon, <2>2, <2>3, <2>4, <2>5, <2>6 DEF TypeOK
<1> QED BY <1>1, <1>4, <1>5, <1>6, <1>7, <1>8, <1>9, <1>10, <1>11 DEF IInv

\* Every step keeps the invariant.
LEMMA NextIInv ==
  ASSUME IInv, [Next]_vars
  PROVE  IInv'
<1>1. CASE \E md \in 0 .. 2 : PutMode(md) \/ CopyMode(md) BY <1>1, PutModeStep, CopyModeStep
<1>2. CASE PutHeader \/ PutData \/ PutChunk \/ PutMarker \/ PutCheckpoint
  BY <1>2, PutHeaderStep, PutDataStep, PutChunkStep, PutMarkerStep, PutCheckpointStep
<1>3. CASE Truncate \/ Close \/ Abandon BY <1>3, TruncateStep, CloseStep, AbandonStep
<1>4. CASE CopyRead \/ CopyDrain \/ CopyChunk \/ CopyCheckpoint \/ CopyEnd \/ CopyClose
  BY <1>4, CopyReadStep, CopyDrainStep, CopyChunkStep, CopyCheckpointStep, CopyEndStep, CopyCloseStep
<1>5. CASE Read \/ Peek \/ \E j \in 1 .. MaxChunk : Skip(j) BY <1>5, ReadStep, PeekStep, SkipStep
<1>6. CASE UNCHANGED vars BY <1>6, StutterStep
<1> QED BY Zenon, <1>1, <1>2, <1>3, <1>4, <1>5, <1>6 DEF Next

\* The layout of archives and the places in them are kept by every operation of
\* the write cookie and the read cookie, and by archive_multitape_copy.
THEOREM Places == Spec => []IInv
<1>1. Init => IInv BY InitIInv
<1>2. IInv /\ [Next]_vars => IInv' BY NextIInv
<1> QED BY <1>1, <1>2, PTL DEF Spec

\* readtape_read and readtape_readchunk give what writetape_write and
\* writetape_writechunk were given at that place of the archive, whatever the
\* chunkifiers cut, checkpoints fell, was skipped or copied.
THEOREM RoundTrips == Spec => []RoundTrip
<1>1. IInv => RoundTrip BY IInvIs
<1> QED BY <1>1, Places, PTL

\* "Premature EOF", "c.chunkpos != c.chunklen", an entry header that is none
\* and "Archive entry has two trailers?" are not reported of an archive that
\* the writer made.
THEOREM NeverFault == Spec => []NoFault
<1>1. IInv => NoFault
  <2> SUFFICES ASSUME IInv PROVE NoFault OBVIOUS
  <2>1. PICK m, x, k : /\ IsTape(tape, m, x) /\ AtPlace(rd, tape, m, k, pos)
                       /\ (phase = "copy" => DataUpTo(x, tape.n - 1))
    BY ReaderAt
  <2>2. rd.bad \in {"", "eof"} BY <2>1, PlaceIs
  <2>3. warning = "" BY IInvIs
  <2> QED BY <2>2, <2>3 DEF NoFault
<1> QED BY <1>1, Places, PTL

\* get_entryheader finds the end of the archive after all of it, and the copy
\* of an archive has as many units as the original.
THEOREM ReadWhole == Spec => []WholeRead
<1>1. IInv => WholeRead
  <2> SUFFICES ASSUME IInv PROVE WholeRead OBVIOUS
  <2>1. PICK m, x, k : /\ IsTape(tape, m, x) /\ AtPlace(rd, tape, m, k, pos)
                       /\ (phase = "copy" => DataUpTo(x, tape.n - 1))
    BY ReaderAt
  <2>2. rd.bad = "eof" => pos = tape.n BY <2>1, EndHad
  <2>3. phase = "copy" /\ mode = 3 => n = Len(kind)
    <3>1. Kinds BY IInvIs
    <3> QED BY <3>1 DEF Kinds
  <2> QED BY <2>2, <2>3 DEF WholeRead
<1> QED BY <1>1, Places, PTL
=============================================================================
