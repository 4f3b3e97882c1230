--------------------------- MODULE StorageProofs ----------------------------
(***************************************************************************)
(* Proofs about the storage layer.                                         *)
(*                                                                         *)
(* The cache: the doubly linked list of storage_read_cache.c stays a list, *)
(* for any files, lengths, limits and reads under way.  IInv is an         *)
(* invariant, first of cache_lru_remove, cache_lru_add and each turn of    *)
(* cache_prune, then of the operations.                                    *)
(*                                                                         *)
(* The queues: for any files, sizes, limits and number of connections, the *)
(* window holds and a flush that succeeds has everything stored.           *)
(***************************************************************************)
EXTENDS ReadCacheInv, StorageQueue, Sums

-----------------------------------------------------------------------------
(* Lists. *)

\* Sums are those of module Sums, and of natural numbers.
LEMMA SumIs == ASSUME NEW w, NEW S PROVE SumOver(w, S) = Total(w, S)
BY Zenon DEF SumOver, Total

LEMMA TakenIs ==
  ASSUME NEW c, c \in Caches
  PROVE  \A f \in Files : Taken(c.ht)[f] = c.ht[f].buflen /\ c.ht[f].buflen \in Nat
BY DEF Taken, Caches, Entries

\* A list is finite and has no more places than there are files.
LEMMA ListFinite ==
  ASSUME NEW s \in Seq(Files)
  PROVE  /\ ToSet(s) \subseteq Files /\ IsFiniteSet(ToSet(s))
         /\ \A f : f \in ToSet(s) <=> \E i \in 1 .. Len(s) : s[i] = f
<1>1. DOMAIN s = 1 .. Len(s)
  OBVIOUS
<1>2. ToSet(s) \subseteq Files
  BY DEF ToSet
<1>3. IsFiniteSet(ToSet(s))
  BY <1>2, FS_Subset, ReadCacheAssumption
<1> QED BY <1>1, <1>2, <1>3, Zenon DEF ToSet

LEMMA ListShort ==
  ASSUME NEW s \in Seq(Files), \A i, j \in 1 .. Len(s) : s[i] = s[j] => i = j
  PROVE  Len(s) <= Cardinality(Files) /\ Cardinality(Files) \in Nat
<1>1. s \in Injection(1 .. Len(s), Files)
  BY DEF Injection, IsInjective
<1>2. Cardinality(1 .. Len(s)) = Len(s) /\ IsFiniteSet(Files)
  <2>1. Len(s) \in Nat OBVIOUS
  <2>2. Cardinality(1 .. Len(s)) = IF 1 > Len(s) THEN 0 ELSE Len(s) - 1 + 1
    BY <2>1, FS_Interval
  <2> QED BY <2>1, <2>2, ReadCacheAssumption
<1>3. Cardinality(1 .. Len(s)) <= Cardinality(Files)
  BY <1>1, <1>2, FS_Injection, Zenon
<1> QED BY <1>2, <1>3, FS_CardinalityType

\* What cache_lru_remove makes of a cache.
NewEntry(c, f, g) ==
  LET e == c.ht[f]
  IN IF g = f THEN [e EXCEPT !.inqueue = FALSE, !.next_lru = NULL, !.next_mru = NULL]
     ELSE IF g = e.next_mru THEN [c.ht[g] EXCEPT !.next_lru = e.next_lru]
     ELSE IF g = e.next_lru THEN [c.ht[g] EXCEPT !.next_mru = e.next_mru]
     ELSE c.ht[g]

LEMMA RemoveIs ==
  ASSUME NEW c, c \in Caches, NEW f \in Files, c.ht[f].inqueue
  PROVE  LET r == LruRemove(c, f) IN
         /\ r \in Caches /\ r.maxsz = c.maxsz
         /\ r.sz = c.sz - c.ht[f].buflen
         /\ r.lru = IF c.ht[f].next_lru = NULL THEN c.ht[f].next_mru ELSE c.lru
         /\ r.mru = IF c.ht[f].next_mru = NULL THEN c.ht[f].next_lru ELSE c.mru
         /\ \A g \in Files : r.ht[g] = NewEntry(c, f, g)
<1> DEFINE h == [g \in Files |-> NewEntry(c, f, g)]
           r == LruRemove(c, f)
<1>1. \A g \in Files : c.ht[g] \in Entries
  BY DEF Caches
<1>2. ASSUME NEW g \in Files PROVE NewEntry(c, f, g) \in Entries
  <2>1. c.ht[g] \in Entries /\ c.ht[f] \in Entries BY <1>1
  <2>2. c.ht[f].next_lru \in OrNull /\ c.ht[f].next_mru \in OrNull /\ NULL \in OrNull
    BY <2>1 DEF Entries, OrNull
  <2> QED BY <2>1, <2>2 DEF NewEntry, Entries
<1>3. h \in [Files -> Entries]
  BY <1>2
<1>4. r = [c EXCEPT !.ht = h,
             !.lru = IF c.ht[f].next_lru = NULL THEN c.ht[f].next_mru ELSE c.lru,
             !.mru = IF c.ht[f].next_mru = NULL THEN c.ht[f].next_lru ELSE @,
             !.sz = @ - c.ht[f].buflen, !.fault = @ \/ ~c.ht[f].inqueue]
  BY Zenon DEF LruRemove, Unlinked, NewEntry
<1>5. /\ c.fault = FALSE /\ c.sz \in Int /\ c.maxsz \in Nat
      /\ c.lru \in OrNull /\ c.mru \in OrNull
  BY DEF Caches
<1>6. /\ c.ht[f].buflen \in Nat /\ c.ht[f].next_lru \in OrNull
      /\ c.ht[f].next_mru \in OrNull
  BY <1>1 DEF Entries
<1>7. (c.fault \/ ~c.ht[f].inqueue) = FALSE
  BY <1>5
<1>8. r = [ht |-> h,
           mru |-> IF c.ht[f].next_mru = NULL THEN c.ht[f].next_lru ELSE c.mru,
           lru |-> IF c.ht[f].next_lru = NULL THEN c.ht[f].next_mru ELSE c.lru,
           sz |-> c.sz - c.ht[f].buflen, maxsz |-> c.maxsz, fault |-> FALSE]
  <2> HIDE DEF h, r
  <2> QED BY <1>4, <1>7 DEF Caches
<1>9. r \in Caches
  <2>1. (IF c.ht[f].next_mru = NULL THEN c.ht[f].next_lru ELSE c.mru) \in OrNull
    BY <1>5, <1>6
  <2>2. (IF c.ht[f].next_lru = NULL THEN c.ht[f].next_mru ELSE c.lru) \in OrNull
    BY <1>5, <1>6
  <2>3. c.sz - c.ht[f].buflen \in Int
    BY <1>5, <1>6
  <2> HIDE DEF h, r
  <2> QED BY <1>3, <1>5, <1>8, <2>1, <2>2, <2>3 DEF Caches
<1>10. r.ht = h
  <2> HIDE DEF h, r
  <2> QED BY <1>8
<1>11. \A g \in Files : r.ht[g] = NewEntry(c, f, g)
  <2> HIDE DEF r
  <2> QED BY <1>10
<1> HIDE DEF h, r
<1>12. QED BY <1>8, <1>9, <1>11 DEF r

\* cache_lru_remove takes one file out of the list.
IsWithout(t, s, i) ==
  /\ t \in Seq(Files) /\ Len(t) = Len(s) - 1
  /\ \A k \in 1 .. Len(t) : t[k] = IF k < i THEN s[k] ELSE s[k + 1]

TakesOut(r, c, f, t) ==
  /\ IsList(r, t) /\ r.maxsz = c.maxsz
  /\ \A g \in Files : r.ht[g].buf = c.ht[g].buf /\ r.ht[g].buflen = c.ht[g].buflen
  /\ \A g \in Files : r.ht[g].inqueue <=> c.ht[g].inqueue /\ g # f

LEMMA Removed ==
  ASSUME NEW c, NEW s, IsList(c, s), NEW i \in 1 .. Len(s),
         NEW t, IsWithout(t, s, i)
  PROVE  TakesOut(LruRemove(c, s[i]), c, s[i], t)
<1>0. /\ t \in Seq(Files) /\ Len(t) = Len(s) - 1
      /\ \A k \in 1 .. Len(t) : t[k] = IF k < i THEN s[k] ELSE s[k + 1]
  BY DEF IsWithout
<1> USE <1>0
<1> DEFINE a == s[i]
           r == LruRemove(c, a)
<1>1. c \in Caches /\ s \in Seq(Files) /\ Linked(c, s) /\ a \in Files /\ Len(s) \in Nat
  BY DEF IsList
<1>2. /\ \A k, l \in 1 .. Len(s) : s[k] = s[l] => k = l
      /\ \A k \in 1 .. Len(s) : s[k] \in Files /\ s[k] # NULL
      /\ c.ht[a].inqueue
  BY <1>1, ReadCacheAssumption DEF Linked
<1>3. /\ r \in Caches /\ r.maxsz = c.maxsz
      /\ r.sz = c.sz - c.ht[a].buflen
      /\ r.lru = IF c.ht[a].next_lru = NULL THEN c.ht[a].next_mru ELSE c.lru
      /\ r.mru = IF c.ht[a].next_mru = NULL THEN c.ht[a].next_lru ELSE c.mru
      /\ \A g \in Files : r.ht[g] = NewEntry(c, a, g)
  BY <1>1, <1>2, RemoveIs
<1>4. /\ c.ht[a].next_mru = IF i = 1 THEN NULL ELSE s[i - 1]
      /\ c.ht[a].next_lru = IF i = Len(s) THEN NULL ELSE s[i + 1]
  BY <1>1 DEF Linked
<1>5. ASSUME NEW g \in Files
      PROVE  /\ r.ht[g].buf = c.ht[g].buf /\ r.ht[g].buflen = c.ht[g].buflen
             /\ r.ht[g].inqueue <=> c.ht[g].inqueue /\ g # a
             /\ r.ht[g].next_lru = IF g = a THEN NULL
                                   ELSE IF g = c.ht[a].next_mru THEN c.ht[a].next_lru
                                   ELSE c.ht[g].next_lru
             /\ r.ht[g].next_mru = IF g = a THEN NULL
                                   ELSE IF g = c.ht[a].next_mru THEN c.ht[g].next_mru
                                   ELSE IF g = c.ht[a].next_lru THEN c.ht[a].next_mru
                                   ELSE c.ht[g].next_mru
  <2>1. c.ht[g] \in Entries /\ c.ht[a] \in Entries
    BY <1>1 DEF Caches
  <2>2. r.ht[g] = NewEntry(c, a, g)
    BY <1>3
  <2> HIDE DEF r, a
  <2> QED BY <2>1, <2>2 DEF NewEntry, Entries
<1> HIDE DEF r
<1>6. ASSUME NEW p \in 1 .. Len(s), p # i
      PROVE  /\ r.ht[s[p]].next_mru = IF p = i + 1 THEN IF i = 1 THEN NULL ELSE s[i - 1]
                                      ELSE IF p = 1 THEN NULL ELSE s[p - 1]
             /\ r.ht[s[p]].next_lru = IF p = i - 1 THEN IF i = Len(s) THEN NULL ELSE s[i + 1]
                                      ELSE IF p = Len(s) THEN NULL ELSE s[p + 1]
  <2>1. s[p] # a /\ s[p] \in Files /\ s[p] # NULL
    BY <1>2, <1>6
  <2>2. s[p] = c.ht[a].next_mru <=> p = i - 1
    BY <1>1, <1>2, <1>4, <2>1
  <2>3. s[p] = c.ht[a].next_lru <=> p = i + 1
    BY <1>1, <1>2, <1>4, <2>1
  <2>4. /\ c.ht[s[p]].next_mru = IF p = 1 THEN NULL ELSE s[p - 1]
        /\ c.ht[s[p]].next_lru = IF p = Len(s) THEN NULL ELSE s[p + 1]
    BY <1>1 DEF Linked
  <2> HIDE DEF a
  <2> QED BY <1>4, <1>5, <2>1, <2>2, <2>3, <2>4
<1>7. \A k \in 1 .. Len(t) :
        LET p == IF k < i THEN k ELSE k + 1 IN p \in 1 .. Len(s) /\ p # i /\ t[k] = s[p]
  BY <1>1
<1>8. Linked(r, t)
  <2>1. \A k, l \in 1 .. Len(t) : t[k] = t[l] => k = l
    BY <1>1, <1>2, <1>7
  <2>2. ASSUME NEW f \in Files
        PROVE  r.ht[f].inqueue <=> \E k \in 1 .. Len(t) : t[k] = f
    <3>1. c.ht[f].inqueue <=> \E k \in 1 .. Len(s) : s[k] = f
      BY <1>1 DEF Linked
    <3>2. ASSUME NEW k \in 1 .. Len(t) PROVE t[k] # a /\ \E l \in 1 .. Len(s) : s[l] = t[k]
      BY <1>2, <1>7
    <3>3. ASSUME NEW l \in 1 .. Len(s), s[l] # a PROVE \E k \in 1 .. Len(t) : t[k] = s[l]
      <4>1. CASE l < i
        <5>1. l \in 1 .. Len(t) /\ t[l] = s[l] BY <1>1, <4>1
        <5> QED BY <5>1
      <4>2. CASE l > i
        <5>1. l - 1 \in 1 .. Len(t) /\ ~(l - 1 < i) /\ l - 1 + 1 = l BY <1>1, <4>2
        <5>2. t[l - 1] = s[l] BY <5>1
        <5> QED BY <5>1, <5>2
      <4>3. l # i BY <3>3
      <4> QED BY <4>1, <4>2, <4>3, <1>1
    <3>4. r.ht[f].inqueue <=> c.ht[f].inqueue /\ f # a
      BY <1>5
    <3>5. (\E k \in 1 .. Len(t) : t[k] = f) <=> (\E l \in 1 .. Len(s) : s[l] = f) /\ f # a
      <4>1. ASSUME NEW k \in 1 .. Len(t), t[k] = f
            PROVE  (\E l \in 1 .. Len(s) : s[l] = f) /\ f # a
        BY <3>2, <4>1, Zenon
      <4>2. ASSUME NEW l \in 1 .. Len(s), s[l] = f, f # a
            PROVE  \E k \in 1 .. Len(t) : t[k] = f
        BY <3>3, <4>2, Zenon
      <4> QED BY <4>1, <4>2, Zenon
    <3> QED BY <3>1, <3>4, <3>5, Zenon
  <2>3. r.mru = IF Len(t) = 0 THEN NULL ELSE t[1]
    <3>1. c.mru = s[1] BY <1>1 DEF Linked
    <3>2. CASE i = 1
      <4>1. r.mru = IF i = Len(s) THEN NULL ELSE s[i + 1] BY <1>3, <1>4, <3>2
      <4>2. Len(t) # 0 => t[1] = s[2] BY <1>1, <3>2
      <4> QED BY <1>1, <3>2, <4>1, <4>2
    <3>3. CASE i # 1
      <4>1. c.ht[a].next_mru # NULL BY <1>1, <1>2, <1>4, <3>3
      <4>2. r.mru = s[1] BY <1>3, <3>1, <4>1
      <4>3. Len(t) # 0 /\ t[1] = s[1] BY <1>1, <3>3
      <4> QED BY <4>2, <4>3
    <3> QED BY <3>2, <3>3
  <2>4. r.lru = IF Len(t) = 0 THEN NULL ELSE t[Len(t)]
    <3>1. c.lru = s[Len(s)] BY <1>1 DEF Linked
    <3>2. CASE i = Len(s)
      <4>1. r.lru = IF i = 1 THEN NULL ELSE s[i - 1] BY <1>3, <1>4, <3>2
      <4>2. Len(t) # 0 => t[Len(t)] = s[i - 1] BY <1>1, <3>2
      <4> QED BY <1>1, <3>2, <4>1, <4>2
    <3>3. CASE i # Len(s)
      <4>1. c.ht[a].next_lru # NULL BY <1>1, <1>2, <1>4, <3>3
      <4>2. r.lru = s[Len(s)] BY <1>3, <3>1, <4>1
      <4>3. Len(t) \in 1 .. Len(t) /\ ~(Len(t) < i) /\ Len(t) + 1 = Len(s)
        BY <1>1, <3>3
      <4>4. t[Len(t)] = s[Len(s)] BY <4>3
      <4> QED BY <4>2, <4>3, <4>4
    <3> QED BY <3>2, <3>3
  <2>5. ASSUME NEW k \in 1 .. Len(t)
        PROVE  /\ r.ht[t[k]].next_mru = IF k = 1 THEN NULL ELSE t[k - 1]
               /\ r.ht[t[k]].next_lru = IF k = Len(t) THEN NULL ELSE t[k + 1]
    <3> DEFINE p == IF k < i THEN k ELSE k + 1
    <3>1. p \in 1 .. Len(s) /\ p # i /\ t[k] = s[p] BY <1>7
    <3>2. k # 1 => t[k - 1] = IF k - 1 < i THEN s[k - 1] ELSE s[k]
      <4>1. k # 1 => k - 1 \in 1 .. Len(t) /\ k - 1 + 1 = k BY <1>1
      <4> QED BY <4>1
    <3>3. k # Len(t) => t[k + 1] = IF k + 1 < i THEN s[k + 1] ELSE s[k + 2]
      <4>1. k # Len(t) => k + 1 \in 1 .. Len(t) /\ k + 1 + 1 = k + 2 BY <1>1
      <4> QED BY <4>1
    <3>4. r.ht[s[p]].next_mru = IF p = i + 1 THEN IF i = 1 THEN NULL ELSE s[i - 1]
                                      ELSE IF p = 1 THEN NULL ELSE s[p - 1]
      BY <1>6, <3>1
    <3>5. r.ht[s[p]].next_lru = IF p = i - 1 THEN IF i = Len(s) THEN NULL ELSE s[i + 1]
                                      ELSE IF p = Len(s) THEN NULL ELSE s[p + 1]
      BY <1>6, <3>1
    <3>6. CASE k < i
      <4>1. r.ht[t[k]].next_mru = IF k = 1 THEN NULL ELSE t[k - 1]
        BY <1>1, <3>1, <3>2, <3>4, <3>6
      <4>2. CASE k = i - 1
        BY <1>1, <3>1, <3>3, <3>5, <3>6, <4>1, <4>2
      <4>3. CASE k # i - 1
        BY <1>1, <3>1, <3>3, <3>5, <3>6, <4>1, <4>3
      <4> QED BY <4>2, <4>3
    <3>7. CASE ~(k < i)
      <4>1. r.ht[t[k]].next_lru = IF k = Len(t) THEN NULL ELSE t[k + 1]
        BY <1>1, <3>1, <3>3, <3>5, <3>7
      <4>2. CASE k = i
        BY <1>1, <3>1, <3>2, <3>4, <3>7, <4>1, <4>2
      <4>3. CASE k # i
        <5>1. p = k + 1 /\ p # i + 1 /\ p # 1 /\ k # 1 /\ ~(k - 1 < i) /\ p - 1 = k
          BY <1>1, <3>7, <4>3
        <5>2. r.ht[t[k]].next_mru = s[k] BY <3>1, <3>4, <5>1
        <5> QED BY <3>2, <4>1, <5>1, <5>2
      <4> QED BY <4>2, <4>3
    <3> QED BY <3>6, <3>7
  <2> QED BY <2>1, <2>2, <2>3, <2>4, <2>5, Zenon DEF Linked
<1>9. r.sz = SumOver(Taken(r.ht), ToSet(t))
  <2>1. ToSet(t) = ToSet(s) \ {a} /\ IsFiniteSet(ToSet(s)) /\ ToSet(s) \subseteq Files /\ a \in ToSet(s)
    <3>1. \A f \in Files : f \in ToSet(t) <=> r.ht[f].inqueue
      BY <1>8, ListFinite DEF Linked
    <3>2. \A f \in Files : f \in ToSet(s) <=> c.ht[f].inqueue
      BY <1>1, ListFinite DEF Linked
    <3>3. ToSet(t) \subseteq Files /\ ToSet(s) \subseteq Files /\ IsFiniteSet(ToSet(s))
      BY <1>1, ListFinite
    <3>4. \A f \in Files : r.ht[f].inqueue <=> c.ht[f].inqueue /\ f # a
      BY <1>5
    <3>5. \A f \in Files : f \in ToSet(t) <=> f \in ToSet(s) /\ f # a
      BY <3>1, <3>2, <3>4, Zenon
    <3>6. a \in ToSet(s)
      BY <1>1, <1>2, <3>2
    <3> HIDE DEF a
    <3> QED BY <3>3, <3>5, <3>6
  <2>2. /\ \A f \in Files : Taken(c.ht)[f] = c.ht[f].buflen /\ c.ht[f].buflen \in Nat
        /\ \A f \in Files : Taken(r.ht)[f] = r.ht[f].buflen
    BY <1>1, <1>3, TakenIs
  <2>3. Total(Taken(c.ht), ToSet(s) \ {a}) = Total(Taken(c.ht), ToSet(s)) - Taken(c.ht)[a]
    <3>1. \A f \in ToSet(s) : Taken(c.ht)[f] \in Int BY <2>1, <2>2
    <3> QED BY <2>1, <3>1, TotalRemove
  <2>4. Total(Taken(r.ht), ToSet(t)) = Total(Taken(c.ht), ToSet(t))
    <3>1. IsFiniteSet(ToSet(t)) BY ListFinite
    <3>2. \A f \in ToSet(t) : Taken(r.ht)[f] = Taken(c.ht)[f] BY <1>5, <2>1, <2>2
    <3> QED BY <3>1, <3>2, TotalSame
  <2>5. c.sz = Total(Taken(c.ht), ToSet(s)) BY SumIs DEF IsList
  <2>6. r.sz = Total(Taken(c.ht), ToSet(s)) - Taken(c.ht)[a] BY <1>1, <1>3, <2>2, <2>5
  <2> QED BY <2>1, <2>3, <2>4, <2>6, SumIs, Zenon
<1>10. IsList(r, t)
  <2>1. \A f \in Files : /\ r.ht[f].buf \in {NULL, f}
                         /\ r.ht[f].buflen = IF r.ht[f].buf = NULL THEN 0 ELSE Length[f]
    BY <1>5 DEF IsList
  <2> QED BY <1>3, <1>8, <1>9, <2>1 DEF IsList
<1> QED BY <1>3, <1>5, <1>10 DEF r, TakesOut

\* cache_lru_add puts one in front.
LEMMA Added ==
  ASSUME NEW c, NEW s, IsList(c, s), NEW f \in Files, ~c.ht[f].inqueue
  PROVE  LET r == LruAdd(c, f) IN
         /\ IsList(r, <<f>> \o s) /\ r.maxsz = c.maxsz
         /\ \A g \in Files : r.ht[g].buf = c.ht[g].buf
         /\ \A g \in Files : r.ht[g].inqueue <=> c.ht[g].inqueue \/ g = f
<1> DEFINE t == <<f>> \o s
           E(g) == IF g = f THEN [c.ht[f] EXCEPT !.inqueue = TRUE, !.next_mru = NULL,
                                                 !.next_lru = c.mru]
                   ELSE IF g = c.mru THEN [c.ht[g] EXCEPT !.next_mru = f]
                   ELSE c.ht[g]
           h == [g \in Files |-> E(g)]
           r == LruAdd(c, f)
<1>1. c \in Caches /\ s \in Seq(Files) /\ Linked(c, s) /\ Len(s) \in Nat
  BY DEF IsList
<1>2. /\ c.ht \in [Files -> Entries] /\ c.fault = FALSE /\ c.sz \in Int /\ c.maxsz \in Nat
      /\ c.lru \in OrNull /\ c.mru \in OrNull
  BY <1>1 DEF Caches
<1>3. ASSUME NEW g \in Files
      PROVE  /\ E(g) \in Entries
             /\ E(g).buf = c.ht[g].buf /\ E(g).buflen = c.ht[g].buflen
             /\ E(g).inqueue <=> c.ht[g].inqueue \/ g = f
             /\ E(g).next_mru = IF g = f THEN NULL ELSE IF g = c.mru THEN f ELSE c.ht[g].next_mru
             /\ E(g).next_lru = IF g = f THEN c.mru ELSE c.ht[g].next_lru
  <2>1. c.ht[g] \in Entries /\ c.ht[f] \in Entries /\ f \in OrNull /\ NULL \in OrNull
    BY <1>2 DEF OrNull
  <2> QED BY <1>2, <2>1 DEF Entries
<1>4. h \in [Files -> Entries] /\ \A g \in Files : h[g] = E(g)
  BY <1>3
<1> HIDE DEF E, h
<1>5. r = [c EXCEPT !.ht = h, !.mru = f, !.lru = IF @ = NULL THEN f ELSE @,
                    !.sz = @ + c.ht[f].buflen, !.fault = @ \/ c.ht[f].inqueue]
  BY Zenon DEF LruAdd, h, E
<1>6. (c.fault \/ c.ht[f].inqueue) = FALSE
  BY <1>2
<1>7. r = [ht |-> h, mru |-> f, lru |-> IF c.lru = NULL THEN f ELSE c.lru,
           sz |-> c.sz + c.ht[f].buflen, maxsz |-> c.maxsz, fault |-> FALSE]
  <2> HIDE DEF r
  <2> QED BY <1>1, <1>5, <1>6 DEF Caches
<1> HIDE DEF r
<1>8. c.ht[f].buflen \in Nat
  BY <1>2 DEF Entries
<1>9. r \in Caches
  BY <1>2, <1>4, <1>7, <1>8 DEF Caches, OrNull
<1>10. /\ r.mru = f /\ r.lru = IF c.lru = NULL THEN f ELSE c.lru
       /\ r.sz = c.sz + c.ht[f].buflen /\ r.maxsz = c.maxsz
  BY <1>7
<1>11. ASSUME NEW g \in Files
       PROVE  /\ r.ht[g].buf = c.ht[g].buf /\ r.ht[g].buflen = c.ht[g].buflen
              /\ r.ht[g].inqueue <=> c.ht[g].inqueue \/ g = f
              /\ r.ht[g].next_mru = IF g = f THEN NULL
                                    ELSE IF g = c.mru THEN f ELSE c.ht[g].next_mru
              /\ r.ht[g].next_lru = IF g = f THEN c.mru ELSE c.ht[g].next_lru
  <2>1. r.ht[g] = E(g) BY <1>4, <1>7
  <2> QED BY <1>3, <2>1
<1>12. /\ t \in Seq(Files) /\ Len(t) = Len(s) + 1 /\ t[1] = f
       /\ \A k \in 2 .. Len(t) : t[k] = s[k - 1]
       /\ \A k \in 1 .. Len(s) : t[k + 1] = s[k]
  BY <1>1
<1> HIDE DEF t
<1>13. /\ \A k, l \in 1 .. Len(s) : s[k] = s[l] => k = l
       /\ \A k \in 1 .. Len(s) : s[k] \in Files /\ s[k] # NULL /\ s[k] # f
       /\ c.mru = IF Len(s) = 0 THEN NULL ELSE s[1]
       /\ c.lru = IF Len(s) = 0 THEN NULL ELSE s[Len(s)]
  BY <1>1, ReadCacheAssumption DEF Linked
<1>14. Linked(r, t)
  <2>1. ASSUME NEW k \in 1 .. Len(t), NEW l \in 1 .. Len(t), t[k] = t[l] PROVE k = l
    <3>1. k # 1 => k - 1 \in 1 .. Len(s) /\ t[k] = s[k - 1] BY <1>1, <1>12
    <3>2. l # 1 => l - 1 \in 1 .. Len(s) /\ t[l] = s[l - 1] BY <1>1, <1>12
    <3> QED BY <1>12, <1>13, <2>1, <3>1, <3>2
  <2>2. ASSUME NEW g \in Files
        PROVE  r.ht[g].inqueue <=> \E k \in 1 .. Len(t) : t[k] = g
    <3>1. c.ht[g].inqueue <=> \E k \in 1 .. Len(s) : s[k] = g BY <1>1 DEF Linked
    <3>2. ASSUME NEW k \in 1 .. Len(s) PROVE \E l \in 1 .. Len(t) : t[l] = s[k]
      <4>1. k + 1 \in 1 .. Len(t) BY <1>1, <1>12
      <4> QED BY <1>12, <4>1
    <3>3. ASSUME NEW k \in 1 .. Len(t) PROVE t[k] = f \/ \E l \in 1 .. Len(s) : s[l] = t[k]
      <4>1. k # 1 => k - 1 \in 1 .. Len(s) /\ t[k] = s[k - 1] BY <1>1, <1>12
      <4> QED BY <1>12, <4>1
    <3>4. 1 \in 1 .. Len(t) BY <1>1, <1>12
    <3> QED BY <1>11, <1>12, <3>1, <3>2, <3>3, <3>4
  <2>3. r.mru = IF Len(t) = 0 THEN NULL ELSE t[1]
    BY <1>1, <1>10, <1>12
  <2>4. r.lru = IF Len(t) = 0 THEN NULL ELSE t[Len(t)]
    <3>1. CASE Len(s) = 0 BY <1>10, <1>12, <1>13, <3>1
    <3>2. CASE Len(s) # 0
      <4>1. Len(s) \in 1 .. Len(s) BY <1>1, <3>2
      <4>2. t[Len(t)] = s[Len(s)] BY <1>12, <4>1
      <4>3. c.lru = s[Len(s)] /\ c.lru # NULL BY <1>13, <3>2, <4>1
      <4> QED BY <1>1, <1>10, <1>12, <4>2, <4>3
    <3> QED BY <3>1, <3>2
  <2>5. ASSUME NEW k \in 1 .. Len(t)
        PROVE  /\ r.ht[t[k]].next_mru = IF k = 1 THEN NULL ELSE t[k - 1]
               /\ r.ht[t[k]].next_lru = IF k = Len(t) THEN NULL ELSE t[k + 1]
    <3>1. CASE k = 1
      <4>1. r.ht[f].next_mru = NULL /\ r.ht[f].next_lru = c.mru BY <1>11
      <4>2. Len(s) # 0 => 1 \in 1 .. Len(s) /\ t[2] = s[1]
        <5>1. Len(s) # 0 => 1 \in 1 .. Len(s) BY <1>1
        <5>2. Len(s) # 0 => t[1 + 1] = s[1] BY <1>12, <5>1
        <5> QED BY <5>1, <5>2
      <4> QED BY <1>1, <1>12, <1>13, <3>1, <4>1, <4>2
    <3>2. CASE k # 1
      <4> DEFINE p == k - 1
      <4>1. p \in 1 .. Len(s) /\ p + 1 = k /\ t[k] = s[p] BY <1>1, <1>12, <3>2
      <4>2. s[p] \in Files /\ s[p] # f /\ (s[p] = c.mru <=> p = 1)
        <5>1. 1 \in 1 .. Len(s) /\ c.mru = s[1] BY <1>1, <1>13, <4>1
        <5> QED BY <1>13, <4>1, <5>1
      <4>3. /\ c.ht[s[p]].next_mru = IF p = 1 THEN NULL ELSE s[p - 1]
            /\ c.ht[s[p]].next_lru = IF p = Len(s) THEN NULL ELSE s[p + 1]
        BY <1>1, <4>1 DEF Linked
      <4>4. p # 1 => t[p] = s[p - 1]
        <5>1. p # 1 => p \in 2 .. Len(t) BY <1>1, <1>12, <4>1
        <5> QED BY <1>12, <5>1
      <4>5. p # Len(s) => t[k + 1] = s[p + 1]
        <5>1. p # Len(s) => p + 1 \in 1 .. Len(s) /\ p + 1 + 1 = k + 1 BY <1>1, <4>1
        <5> QED BY <1>12, <5>1
      <4>6. r.ht[s[p]].next_mru = IF p = 1 THEN f ELSE c.ht[s[p]].next_mru
        BY <1>11, <4>2
      <4>7. r.ht[s[p]].next_lru = c.ht[s[p]].next_lru
        BY <1>11, <4>2
      <4>8. p = 1 => t[p] = f BY <1>12
      <4>9. k - 1 = p /\ (k = Len(t) <=> p = Len(s)) BY <1>1, <1>12, <4>1
      <4> HIDE DEF p
      <4> QED BY <3>2, <4>1, <4>3, <4>4, <4>5, <4>6, <4>7, <4>8, <4>9
    <3> QED BY <3>1, <3>2
  <2> QED BY <2>1, <2>2, <2>3, <2>4, <2>5, Zenon DEF Linked
<1>15. r.sz = SumOver(Taken(r.ht), ToSet(t))
  <2>1. ToSet(t) = ToSet(s) \cup {f} /\ IsFiniteSet(ToSet(s)) /\ ToSet(s) \subseteq Files /\ f \notin ToSet(s)
    <3>1. \A g \in Files : g \in ToSet(t) <=> r.ht[g].inqueue
      BY <1>12, <1>14, ListFinite DEF Linked
    <3>2. \A g \in Files : g \in ToSet(s) <=> c.ht[g].inqueue
      BY <1>1, ListFinite DEF Linked
    <3>3. ToSet(t) \subseteq Files /\ ToSet(s) \subseteq Files /\ IsFiniteSet(ToSet(s))
      BY <1>1, <1>12, ListFinite
    <3>4. \A g \in Files : r.ht[g].inqueue <=> c.ht[g].inqueue \/ g = f
      BY <1>11
    <3>5. \A g \in Files : g \in ToSet(t) <=> g \in ToSet(s) \/ g = f
      BY <3>1, <3>2, <3>4, Zenon
    <3>6. f \notin ToSet(s)
      BY <3>2
    <3> QED BY <3>3, <3>5, <3>6
  <2>2. /\ \A g \in Files : Taken(c.ht)[g] = c.ht[g].buflen /\ c.ht[g].buflen \in Nat
        /\ \A g \in Files : Taken(r.ht)[g] = r.ht[g].buflen
    BY <1>1, <1>9, TakenIs
  <2>3. Total(Taken(c.ht), ToSet(s) \cup {f}) = Total(Taken(c.ht), ToSet(s)) + Taken(c.ht)[f]
    <3>1. \A g \in ToSet(s) : Taken(c.ht)[g] \in Int BY <2>1, <2>2
    <3>2. Taken(c.ht)[f] \in Int BY <2>2
    <3> QED BY <2>1, <3>1, <3>2, TotalAdd
  <2>4. Total(Taken(r.ht), ToSet(t)) = Total(Taken(c.ht), ToSet(t))
    <3>1. IsFiniteSet(ToSet(t)) /\ ToSet(t) \subseteq Files BY <1>12, ListFinite
    <3>2. \A g \in ToSet(t) : Taken(r.ht)[g] = Taken(c.ht)[g] BY <1>11, <2>2, <3>1
    <3> QED BY <3>1, <3>2, TotalSame
  <2>5. c.sz = Total(Taken(c.ht), ToSet(s)) BY SumIs DEF IsList
  <2>6. r.sz = Total(Taken(c.ht), ToSet(s)) + Taken(c.ht)[f] BY <1>1, <1>10, <2>2, <2>5
  <2> QED BY <2>1, <2>3, <2>4, <2>6, SumIs, Zenon
<1>16. IsList(r, t)
  <2>1. \A g \in Files : /\ r.ht[g].buf \in {NULL, g}
                         /\ r.ht[g].buflen = IF r.ht[g].buf = NULL THEN 0 ELSE Length[g]
    BY <1>11 DEF IsList
  <2> QED BY <1>9, <1>12, <1>14, <1>15, <2>1 DEF IsList
<1> QED BY <1>10, <1>11, <1>16 DEF r, t

\* A cache that differs only in the data of files out of the list has the list.
LEMMA SameList ==
  ASSUME NEW c, NEW s, IsList(c, s), NEW d, d \in Caches,
         d.mru = c.mru, d.lru = c.lru, d.sz = c.sz,
         \A f \in Files : /\ d.ht[f].inqueue <=> c.ht[f].inqueue
                          /\ d.ht[f].next_mru = c.ht[f].next_mru
                          /\ d.ht[f].next_lru = c.ht[f].next_lru
                          /\ d.ht[f].buf \in {NULL, f}
                          /\ d.ht[f].buflen = IF d.ht[f].buf = NULL THEN 0 ELSE Length[f]
                          /\ c.ht[f].inqueue => d.ht[f].buflen = c.ht[f].buflen
  PROVE  IsList(d, s)
<1>1. c \in Caches /\ s \in Seq(Files) /\ Linked(c, s)
  BY DEF IsList
<1>2. \A k \in 1 .. Len(s) : s[k] \in Files
  BY <1>1
<1>3. Linked(d, s)
  BY <1>1, <1>2 DEF Linked
<1>4. \A f \in ToSet(s) : Taken(d.ht)[f] = Taken(c.ht)[f]
  <2>1. \A f \in ToSet(s) : f \in Files /\ c.ht[f].inqueue
    BY <1>1, ListFinite DEF Linked
  <2> QED BY <1>1, <2>1, TakenIs
<1>5. Total(Taken(d.ht), ToSet(s)) = Total(Taken(c.ht), ToSet(s))
  BY <1>1, <1>4, ListFinite, TotalSame
<1>6. d.sz = SumOver(Taken(d.ht), ToSet(s))
  <2>1. c.sz = SumOver(Taken(c.ht), ToSet(s)) BY DEF IsList
  <2> QED BY <1>5, <2>1, SumIs
<1> QED BY <1>1, <1>3, <1>6 DEF IsList

\* One turn of cache_prune takes the last file out.
LEMMA TurnPrunes ==
  ASSUME NEW c, NEW s, IsList(c, s), OnlyListed(c), c.sz > c.maxsz,
         NEW t \in Seq(Files), NEW n \in Nat, n = Len(s), n # 0 => Len(t) = n - 1,
         \A k \in 1 .. n - 1 : t[k] = s[k]
  PROVE  /\ n # 0
         /\ IsList(PruneTurn(c), t) /\ OnlyListed(PruneTurn(c))
         /\ PruneTurn(c).maxsz = c.maxsz
         /\ \A k \in 1 .. n - 1 : PruneTurn(c).ht[s[k]].buflen = c.ht[s[k]].buflen
<1>1. c \in Caches /\ s \in Seq(Files) /\ Linked(c, s)
  BY DEF IsList
<1>2. c.sz \in Int /\ c.maxsz \in Nat /\ c.fault = FALSE
  BY <1>1 DEF Caches
<1>3. n # 0
  <2>1. SUFFICES ASSUME n = 0 PROVE FALSE
    OBVIOUS
  <2>2. ToSet(s) = {}
    <3>1. 1 .. Len(s) = {} BY <2>1
    <3>2. \A f : f \notin ToSet(s) BY <1>1, <3>1, ListFinite
    <3> QED BY <3>2
  <2>3. c.sz = 0
    BY <2>2, SumIs, TotalEmpty DEF IsList
  <2> QED BY <1>2, <2>3
<1> DEFINE a == s[n]
           q == LruRemove(c, a)
           r == PruneTurn(c)
<1>4. c.lru = a /\ a \in Files /\ a # NULL /\ c.ht[a].inqueue /\ n \in 1 .. Len(s)
  BY <1>1, <1>3, ReadCacheAssumption DEF Linked
<1>5. /\ IsList(q, t) /\ q.maxsz = c.maxsz
      /\ \A f \in Files : q.ht[f].buf = c.ht[f].buf /\ q.ht[f].buflen = c.ht[f].buflen
      /\ \A f \in Files : q.ht[f].inqueue <=> c.ht[f].inqueue /\ f # a
  <2>1. Len(t) = Len(s) - 1 /\ \A k \in 1 .. Len(t) : t[k] = IF k < n THEN s[k] ELSE s[k + 1]
    BY <1>3
  <2>2. TakesOut(LruRemove(c, s[n]), c, s[n], t)
    BY <1>4, <2>1, Removed DEF IsWithout
  <2> QED BY <2>2 DEF TakesOut
<1>6. r = [q EXCEPT !.ht[a].buf = NULL, !.ht[a].buflen = 0]
  <2>1. ~(c.sz <= c.maxsz \/ c.fault) /\ c.lru # NULL
    BY <1>2, <1>4
  <2> QED BY <1>4, <2>1, Zenon DEF PruneTurn
<1> DEFINE e == [[q.ht[a] EXCEPT !.buf = NULL] EXCEPT !.buflen = 0]
           h == [q.ht EXCEPT ![a] = e]
<1>7. q \in Caches /\ q.ht \in [Files -> Entries] /\ q.ht[a] \in Entries
  BY <1>4, <1>5 DEF IsList, Caches
<1>8. e \in Entries /\ e.buf = NULL /\ e.buflen = 0
      /\ e.inqueue = q.ht[a].inqueue /\ e.next_lru = q.ht[a].next_lru
      /\ e.next_mru = q.ht[a].next_mru
  <2>1. NULL \in OrNull /\ 0 \in Nat BY DEF OrNull
  <2> HIDE DEF q
  <2> QED BY <1>7, <2>1 DEF Entries
<1>9. r = [q EXCEPT !.ht = h]
  <2> HIDE DEF r, q
  <2> QED BY <1>6, <1>7, <1>4 DEF Caches
<1>10. h \in [Files -> Entries] /\ h[a] = e /\ \A f \in Files : f # a => h[f] = q.ht[f]
  <2> HIDE DEF e, q
  <2> QED BY <1>4, <1>7, <1>8
<1>11. /\ r \in Caches /\ r.mru = q.mru /\ r.lru = q.lru /\ r.sz = q.sz /\ r.maxsz = q.maxsz
       /\ r.ht = h
  <2> HIDE DEF r, q, h
  <2> QED BY <1>7, <1>9, <1>10 DEF Caches
<1> HIDE DEF r, q, e, h
<1>12. IsList(r, t)
  <2>1. ~q.ht[a].inqueue BY <1>4, <1>5
  <2>2. \A f \in Files : /\ q.ht[f].buf \in {NULL, f}
                         /\ q.ht[f].buflen = IF q.ht[f].buf = NULL THEN 0 ELSE Length[f]
    BY <1>5 DEF IsList
  <2>3. ASSUME NEW f \in Files
        PROVE  /\ r.ht[f].inqueue <=> q.ht[f].inqueue
               /\ r.ht[f].next_mru = q.ht[f].next_mru
               /\ r.ht[f].next_lru = q.ht[f].next_lru
               /\ r.ht[f].buf \in {NULL, f}
               /\ r.ht[f].buflen = IF r.ht[f].buf = NULL THEN 0 ELSE Length[f]
               /\ q.ht[f].inqueue => r.ht[f].buflen = q.ht[f].buflen
    <3>1. CASE f = a BY <1>8, <1>10, <1>11, <2>1, <3>1
    <3>2. CASE f # a BY <1>10, <1>11, <2>2, <3>2
    <3> QED BY <3>1, <3>2
  <2> QED BY <1>5, <1>11, <2>3, SameList
<1>13. OnlyListed(r)
  <2>1. ASSUME NEW f \in Files, r.ht[f].buf # NULL PROVE r.ht[f].inqueue
    <3>1. f # a BY <1>8, <1>10, <1>11, <2>1
    <3>2. q.ht[f].buf # NULL /\ r.ht[f] = q.ht[f] BY <1>10, <1>11, <2>1, <3>1
    <3> QED BY <1>5, <3>1, <3>2 DEF OnlyListed
  <2> QED BY <2>1 DEF OnlyListed
<1>14. \A k \in 1 .. n - 1 : r.ht[s[k]].buflen = c.ht[s[k]].buflen
  <2>1. \A k \in 1 .. n - 1 : s[k] \in Files /\ s[k] # a
    BY <1>1, <1>4 DEF Linked, a
  <2> QED BY <1>5, <1>10, <1>11, <2>1
<1> QED BY <1>3, <1>5, <1>11, <1>12, <1>13, <1>14 DEF r

-----------------------------------------------------------------------------
(* The loop of cache_prune. *)

IsRun(g, c, n) == g = [i \in 0 .. n |-> IF i = 0 THEN c ELSE PruneTurn(g[i - 1])]

LEMMA RunExists ==
  ASSUME NEW c, NEW n \in Nat
  PROVE  \E g : IsRun(g, c, n)
<1> DEFINE Bad == {k \in Nat : ~ \E g : IsRun(g, c, k)}
<1>1. SUFFICES ASSUME Bad # {} PROVE FALSE
  BY Zenon
<1>2. PICK m \in Bad : \A k \in Bad : m <= k
  <2>1. Bad \subseteq Nat OBVIOUS
  <2> HIDE DEF Bad
  <2> QED BY <1>1, <2>1, LeastNat
<1>3. CASE m = 0
  <2> DEFINE g == [i \in 0 .. 0 |-> c]
  <2>1. IsRun(g, c, 0)
    <3>1. \A i \in 0 .. 0 : i = 0 OBVIOUS
    <3> QED BY <3>1, Zenon DEF IsRun
  <2> QED BY <2>1, <1>2, <1>3
<1>4. CASE m > 0
  <2>1. m \in Nat /\ m - 1 \in Nat BY <1>4
  <2>2. PICK f : IsRun(f, c, m - 1)
    BY <2>1, <1>2
  <2> DEFINE g == [i \in 0 .. m |-> IF i = 0 THEN c ELSE PruneTurn(f[i - 1])]
  <2>3. ASSUME NEW i \in 0 .. m PROVE g[i] = IF i = 0 THEN c ELSE PruneTurn(g[i - 1])
    <3>1. CASE i = 0 BY <3>1, <2>1
    <3>2. CASE i # 0
      <4>1. i - 1 \in 0 .. m - 1 /\ i - 1 \in 0 .. m BY <3>2, <2>1
      <4>2. f[i - 1] = IF i - 1 = 0 THEN c ELSE PruneTurn(f[i - 1 - 1])
        BY <4>1, <2>2, Zenon DEF IsRun
      <4>3. g[i - 1] = IF i - 1 = 0 THEN c ELSE PruneTurn(f[i - 1 - 1]) BY <4>1
      <4>4. g[i] = PruneTurn(f[i - 1]) BY <3>2
      <4> HIDE DEF g
      <4> QED BY <3>2, <4>2, <4>3, <4>4
    <3> QED BY <3>1, <3>2
  <2>4. g = [i \in 0 .. m |-> g[i]] BY Zenon
  <2>5. IsRun(g, c, m)
    <3> HIDE DEF g
    <3> QED BY <2>3, <2>4, Zenon DEF IsRun
  <2> QED BY <2>5, <1>2
<1> QED BY <1>2, <1>3, <1>4

LEMMA PruneIs ==
  ASSUME NEW c
  PROVE  \E g : IsRun(g, c, Turns) /\ Prune(c) = g[Turns]
<1>1. Turns \in Nat
  BY ReadCacheAssumption, FS_CardinalityType DEF Turns
<1>2. Prune(c) = (CHOOSE g : IsRun(g, c, Turns))[Turns]
  BY Zenon DEF Prune, IsRun
<1>3. \E g : IsRun(g, c, Turns)
  BY <1>1, RunExists
<1> QED BY <1>2, <1>3, Zenon

\* The front of a list.
LEMMA FrontIs ==
  ASSUME NEW s \in Seq(Files), NEW m \in 0 .. Len(s)
  PROVE  /\ SubSeq(s, 1, m) \in Seq(Files) /\ Len(SubSeq(s, 1, m)) = m
         /\ \A k \in 1 .. m : SubSeq(s, 1, m)[k] = s[k]
OBVIOUS

SizeOf(c, s, m) == SumOver(Taken(c.ht), ToSet(SubSeq(s, 1, m)))

\* r is cache c, with list s, after k turns: the first m files are left.
Left(r, c, s, m, k) ==
  /\ m \in 0 .. Len(s) /\ IsList(r, SubSeq(s, 1, m)) /\ OnlyListed(r)
  /\ r.maxsz = c.maxsz
  /\ \A i \in 1 .. m : r.ht[s[i]].buflen = c.ht[s[i]].buflen
  /\ r.sz <= c.maxsz \/ m <= Len(s) - k
  /\ \A j \in m + 1 .. Len(s) : SizeOf(c, s, j) > c.maxsz

LEMMA LeftSize ==
  ASSUME NEW c, NEW s, IsList(c, s), NEW r, NEW m, NEW k, Left(r, c, s, m, k)
  PROVE  r.sz = SizeOf(c, s, m) /\ r.sz \in Int /\ r.maxsz \in Nat
<1>1. /\ m \in 0 .. Len(s) /\ IsList(r, SubSeq(s, 1, m)) /\ s \in Seq(Files)
      /\ \A i \in 1 .. m : r.ht[s[i]].buflen = c.ht[s[i]].buflen
  BY DEF Left, IsList
<1> DEFINE u == SubSeq(s, 1, m)
<1>2. u \in Seq(Files) /\ Len(u) = m /\ \A i \in 1 .. m : u[i] = s[i]
  BY <1>1, FrontIs
<1>3. r \in Caches /\ c \in Caches /\ r.sz = SumOver(Taken(r.ht), ToSet(u))
  BY <1>1 DEF IsList
<1> HIDE DEF u
<1>4. ToSet(u) \subseteq Files /\ IsFiniteSet(ToSet(u))
      /\ \A f : f \in ToSet(u) <=> \E i \in 1 .. m : u[i] = f
  BY <1>2, ListFinite
<1>5. \A f \in ToSet(u) : Taken(r.ht)[f] = Taken(c.ht)[f]
  <2>1. \A f \in ToSet(u) : r.ht[f].buflen = c.ht[f].buflen
    BY <1>1, <1>2, <1>4
  <2> QED BY <1>3, <1>4, <2>1, TakenIs
<1>6. Total(Taken(r.ht), ToSet(u)) = Total(Taken(c.ht), ToSet(u))
  BY <1>4, <1>5, TotalSame
<1>7. r.sz \in Int /\ r.maxsz \in Nat
  BY <1>3 DEF Caches
<1> QED BY <1>3, <1>6, <1>7, SumIs, Zenon DEF SizeOf, u

LEMMA TurnLeaves ==
  ASSUME NEW c, NEW s, IsList(c, s), NEW r, NEW m, NEW k \in Nat, Left(r, c, s, m, k)
  PROVE  \E l : Left(PruneTurn(r), c, s, l, k + 1)
<1>1. /\ m \in 0 .. Len(s) /\ IsList(r, SubSeq(s, 1, m)) /\ OnlyListed(r)
      /\ r.maxsz = c.maxsz
      /\ \A i \in 1 .. m : r.ht[s[i]].buflen = c.ht[s[i]].buflen
      /\ r.sz <= c.maxsz \/ m <= Len(s) - k
      /\ \A j \in m + 1 .. Len(s) : SizeOf(c, s, j) > c.maxsz
      /\ s \in Seq(Files) /\ Len(s) \in Nat
  BY DEF Left, IsList
<1>2. r.sz = SizeOf(c, s, m) /\ r.sz \in Int /\ r.maxsz \in Nat
  BY LeftSize
<1>3. CASE r.sz <= r.maxsz
  <2>1. PruneTurn(r) = r BY <1>3 DEF PruneTurn
  <2>2. Left(r, c, s, m, k + 1) BY <1>1, <1>3 DEF Left
  <2> QED BY <2>1, <2>2
<1>4. CASE r.sz > r.maxsz
  <2> DEFINE u == SubSeq(s, 1, m)
             t == IF m = 0 THEN <<>> ELSE SubSeq(s, 1, m - 1)
  <2>1. u \in Seq(Files) /\ Len(u) = m /\ \A i \in 1 .. m : u[i] = s[i]
    BY <1>1, FrontIs
  <2>2. /\ t \in Seq(Files) /\ (m # 0 => Len(t) = m - 1)
        /\ \A i \in 1 .. m - 1 : t[i] = u[i]
    <3>1. CASE m = 0
      <4>1. 1 .. m - 1 = {} /\ t = <<>> BY <3>1
      <4> QED BY <3>1, <4>1
    <3>2. CASE m # 0
      <4>1. m - 1 \in 0 .. Len(s) BY <1>1, <3>2
      <4>2. /\ SubSeq(s, 1, m - 1) \in Seq(Files) /\ Len(SubSeq(s, 1, m - 1)) = m - 1
            /\ \A i \in 1 .. m - 1 : SubSeq(s, 1, m - 1)[i] = s[i]
        BY <1>1, <4>1, FrontIs
      <4>3. t = SubSeq(s, 1, m - 1) BY <3>2
      <4>4. \A i \in 1 .. m - 1 : u[i] = s[i] BY <1>1, <2>1
      <4> HIDE DEF t, u
      <4> QED BY <4>2, <4>3, <4>4
    <3> QED BY <3>1, <3>2
  <2>3. IsList(r, u) BY <1>1
  <2> HIDE DEF t, u
  <2>4. /\ m # 0
        /\ IsList(PruneTurn(r), t) /\ OnlyListed(PruneTurn(r)) /\ PruneTurn(r).maxsz = r.maxsz
        /\ \A i \in 1 .. m - 1 : PruneTurn(r).ht[u[i]].buflen = r.ht[u[i]].buflen
    <3>1. m \in Nat /\ m = Len(u) BY <1>1, <2>1
    <3>2. OnlyListed(r) BY <1>1
    <3> QED BY ONLY <1>4, <2>2, <2>3, <3>1, <3>2, TurnPrunes
  <2>5. t = SubSeq(s, 1, m - 1) BY <2>4 DEF t
  <2>6. m - 1 \in 0 .. Len(s) BY <1>1, <2>4
  <2>7. \A i \in 1 .. m - 1 : PruneTurn(r).ht[s[i]].buflen = c.ht[s[i]].buflen
    <3>1. \A i \in 1 .. m - 1 : i \in 1 .. m /\ u[i] = s[i] BY <1>1, <2>1
    <3> QED BY <1>1, <2>4, <3>1
  <2>8. m - 1 <= Len(s) - (k + 1)
    <3>1. ~(r.sz <= c.maxsz) BY <1>1, <1>2, <1>4
    <3> QED BY <1>1, <3>1
  <2>9. \A j \in m - 1 + 1 .. Len(s) : SizeOf(c, s, j) > c.maxsz
    <3>1. SizeOf(c, s, m) > c.maxsz BY <1>1, <1>2, <1>4
    <3>2. \A j \in m - 1 + 1 .. Len(s) : j = m \/ j \in m + 1 .. Len(s) BY <1>1
    <3> QED BY <1>1, <3>1, <3>2
  <2>10. Left(PruneTurn(r), c, s, m - 1, k + 1)
    BY <1>1, <2>4, <2>5, <2>6, <2>7, <2>8, <2>9 DEF Left
  <2> QED BY <2>10
<1> QED BY <1>2, <1>3, <1>4

\* cache_prune leaves as much of the front of the list as fits.
LEMMA Pruned ==
  ASSUME NEW c, NEW s, IsList(c, s), OnlyListed(c)
  PROVE  \E m \in 0 .. Len(s) :
           /\ IsList(Prune(c), SubSeq(s, 1, m)) /\ OnlyListed(Prune(c))
           /\ Prune(c).maxsz = c.maxsz
           /\ SizeOf(c, s, m) <= c.maxsz
           /\ \A j \in m + 1 .. Len(s) : SizeOf(c, s, j) > c.maxsz
<1>1. Turns \in Nat /\ s \in Seq(Files) /\ Len(s) \in Nat /\ Len(s) < Turns
  <2>1. s \in Seq(Files) /\ \A i, j \in 1 .. Len(s) : s[i] = s[j] => i = j
    BY DEF IsList, Linked
  <2>2. Len(s) <= Cardinality(Files) /\ Cardinality(Files) \in Nat
    BY <2>1, ListShort
  <2> QED BY <2>1, <2>2 DEF Turns
<1>2. PICK g : IsRun(g, c, Turns) /\ Prune(c) = g[Turns]
  BY PruneIs
<1>3. \A k \in 0 .. Turns : g[k] = IF k = 0 THEN c ELSE PruneTurn(g[k - 1])
  BY <1>2, Zenon DEF IsRun
<1>4. \A k \in 0 .. Turns : \E m : Left(g[k], c, s, m, k)
  <2> DEFINE Bad == {k \in 0 .. Turns : ~ \E m : Left(g[k], c, s, m, k)}
  <2>1. SUFFICES ASSUME Bad # {} PROVE FALSE
    BY Zenon
  <2>2. PICK k \in Bad : \A l \in Bad : k <= l
    <3>1. Bad \subseteq Nat BY <1>1
    <3> HIDE DEF Bad
    <3> QED BY <2>1, <3>1, LeastNat
  <2>3. k \in 0 .. Turns /\ ~ \E m : Left(g[k], c, s, m, k)
    BY <2>2
  <2>4. k # 0
    <3>1. SUFFICES ASSUME k = 0 PROVE FALSE
      OBVIOUS
    <3>2. g[0] = c BY <1>1, <1>3, <3>1
    <3>3. SubSeq(s, 1, Len(s)) = s BY <1>1
    <3>4. Left(c, c, s, Len(s), 0)
      <4>1. Len(s) \in 0 .. Len(s) /\ Len(s) <= Len(s) - 0 BY <1>1
      <4>2. Len(s) + 1 .. Len(s) = {} BY <1>1
      <4> QED BY <3>3, <4>1, <4>2 DEF Left
    <3> QED BY <2>3, <3>1, <3>2, <3>4
  <2>5. k - 1 \in 0 .. Turns /\ k - 1 \in Nat /\ k - 1 + 1 = k /\ ~(k <= k - 1)
    BY <1>1, <2>3, <2>4
  <2>6. PICK m : Left(g[k - 1], c, s, m, k - 1)
    BY <2>2, <2>5
  <2>7. \E l : Left(PruneTurn(g[k - 1]), c, s, l, k)
    BY <2>5, <2>6, TurnLeaves
  <2>8. g[k] = PruneTurn(g[k - 1])
    BY <1>3, <2>3, <2>4
  <2> QED BY <2>3, <2>7, <2>8
<1>5. PICK m : Left(Prune(c), c, s, m, Turns)
  BY <1>1, <1>2, <1>4
<1>6. /\ m \in 0 .. Len(s) /\ IsList(Prune(c), SubSeq(s, 1, m)) /\ OnlyListed(Prune(c))
      /\ Prune(c).maxsz = c.maxsz
      /\ Prune(c).sz <= c.maxsz \/ m <= Len(s) - Turns
      /\ \A j \in m + 1 .. Len(s) : SizeOf(c, s, j) > c.maxsz
  BY <1>5 DEF Left
<1>7. Prune(c).sz = SizeOf(c, s, m)
  BY <1>5, LeftSize
<1>8. ~(m <= Len(s) - Turns)
  BY <1>1, <1>6
<1> QED BY <1>6, <1>7, <1>8

-----------------------------------------------------------------------------
(* The operations. *)

\* The first f of a list in which it is only once.
LEMMA FirstRemoved ==
  ASSUME NEW u \in Seq(Files), NEW i \in 1 .. Len(u),
         \A k, l \in 1 .. Len(u) : u[k] = u[l] => k = l
  PROVE  IsWithout(RemoveFirst(u, u[i]), u, i)
<1> DEFINE I == {k \in 1 .. Len(u) : u[k] = u[i]}
<1>1. I = {i}
  OBVIOUS
<1>2. Min(I) = i
  <2>1. \A x \in {i} : x = i OBVIOUS
  <2>2. i \in {i} /\ i <= i OBVIOUS
  <2> HIDE DEF I
  <2> QED BY <1>1, <2>1, <2>2 DEF Min
<1>3. SelectInSeq(u, LAMBDA v : v = u[i]) = i
  <2>1. SelectInSeq(u, LAMBDA v : v = u[i]) = IF I # {} THEN Min(I) ELSE 0
    BY Zenon DEF SelectInSeq
  <2>2. I # {} BY <1>1
  <2> QED BY <1>2, <2>1, <2>2, Zenon
<1>4. RemoveFirst(u, u[i]) = RemoveAt(u, i)
  BY <1>3, Zenon DEF RemoveFirst
<1>5. RemoveAt(u, i) = SubSeq(u, 1, i - 1) \o SubSeq(u, i + 1, Len(u))
  BY Zenon DEF RemoveAt
<1> DEFINE a == SubSeq(u, 1, i - 1)
           b == SubSeq(u, i + 1, Len(u))
<1>6. /\ a \in Seq(Files) /\ Len(a) = i - 1 /\ \A k \in 1 .. i - 1 : a[k] = u[k]
  OBVIOUS
<1>7. /\ b \in Seq(Files) /\ Len(b) = Len(u) - i
      /\ \A k \in 1 .. Len(u) - i : b[k] = u[k + i]
  OBVIOUS
<1> HIDE DEF a, b
<1>8. a \o b \in Seq(Files) /\ Len(a \o b) = Len(u) - 1
  BY <1>6, <1>7
<1>9. ASSUME NEW k \in 1 .. Len(u) - 1
      PROVE  (a \o b)[k] = IF k < i THEN u[k] ELSE u[k + 1]
  <2>1. CASE k < i
    BY <1>6, <1>7, <2>1
  <2>2. CASE ~(k < i)
    <3>1. (a \o b)[k] = b[k - (i - 1)] BY <1>6, <1>7, <2>2
    <3>2. k - (i - 1) \in 1 .. Len(u) - i /\ k - (i - 1) + i = k + 1 BY <2>2
    <3>3. b[k - (i - 1)] = u[k + 1] BY <1>7, <3>2
    <3> QED BY <2>2, <3>1, <3>3
  <2> QED BY <2>1, <2>2
<1> QED BY <1>4, <1>5, <1>8, <1>9 DEF IsWithout, a, b

\* A cache that becomes the one of the next state.
LEMMA BecomesIs ==
  ASSUME NEW c, c \in Caches, Becomes(c)
  PROVE  Whole' = c
BY DEF Becomes, Whole, Caches

LEMMA FitsIs ==
  ASSUME NEW m \in 0 .. Len(order), Len(order) \in Nat,
         SizeOf(Whole, order, m) <= list.maxsz,
         \A j \in m + 1 .. Len(order) : SizeOf(Whole, order, j) > list.maxsz,
         list.maxsz \in Nat, \A j \in 0 .. Len(order) : SizeOf(Whole, order, j) \in Int
  PROVE  Fits(order) = SubSeq(order, 1, m)
<1>1. \A j : Size(SubSeq(order, 1, j)) = SizeOf(Whole, order, j)
  BY DEF Size, SizeOf, Whole
<1> DEFINE OK(n) == /\ Size(SubSeq(order, 1, n)) <= list.maxsz
                    /\ \A j \in n + 1 .. Len(order) : Size(SubSeq(order, 1, j)) > list.maxsz
<1>2. OK(m)
  BY <1>1
<1>3. ASSUME NEW n \in 0 .. Len(order), OK(n) PROVE n = m
  <2>1. CASE n < m
    <3>1. m \in n + 1 .. Len(order) BY <2>1
    <3>2. Size(SubSeq(order, 1, m)) > list.maxsz BY <1>3, <3>1
    <3> QED BY <1>1, <3>2
  <2>2. CASE m < n
    <3>1. n \in m + 1 .. Len(order) BY <2>2
    <3>2. SizeOf(Whole, order, n) > list.maxsz BY <3>1
    <3>3. SizeOf(Whole, order, n) <= list.maxsz BY <1>1, <1>3
    <3> QED BY <3>2, <3>3
  <2> QED BY <2>1, <2>2
<1>4. (CHOOSE n \in 0 .. Len(order) : OK(n)) = m
  <2> HIDE DEF OK
  <2> QED BY <1>2, <1>3
<1> QED BY <1>4, Zenon DEF Fits

\* Sizes are integers.
LEMMA SizeInt ==
  ASSUME NEW c, NEW s, IsList(c, s), NEW j \in 0 .. Len(s)
  PROVE  SizeOf(c, s, j) \in Int
<1>1. s \in Seq(Files) /\ c \in Caches
  BY DEF IsList
<1> DEFINE u == SubSeq(s, 1, j)
<1>2. u \in Seq(Files)
  BY <1>1, FrontIs
<1> HIDE DEF u
<1>3. IsFiniteSet(ToSet(u)) /\ \A f \in ToSet(u) : Taken(c.ht)[f] \in Int
  BY <1>1, <1>2, ListFinite, TakenIs
<1>4. Total(Taken(c.ht), ToSet(u)) \in Int
  BY <1>3, TotalSplits DEF SumSplits
<1> QED BY <1>4, SumIs DEF SizeOf, u

\* An entry that is made known.
LEMMA MadeKnown ==
  ASSUME NEW c, NEW s, IsList(c, s), NEW f \in Files
  PROVE  LET d == [c EXCEPT !.ht[f].known = TRUE] IN
         /\ IsList(d, s)
         /\ \A g \in Files : d.ht[g].buf = c.ht[g].buf /\ (d.ht[g].inqueue <=> c.ht[g].inqueue)
<1> DEFINE d == [c EXCEPT !.ht[f].known = TRUE]
           e == [c.ht[f] EXCEPT !.known = TRUE]
           h == [c.ht EXCEPT ![f] = e]
<1>1. c \in Caches /\ c.ht \in [Files -> Entries] /\ c.ht[f] \in Entries
  BY DEF IsList, Caches
<1>2. /\ e \in Entries /\ e.buf = c.ht[f].buf /\ e.buflen = c.ht[f].buflen
      /\ e.inqueue = c.ht[f].inqueue /\ e.next_lru = c.ht[f].next_lru
      /\ e.next_mru = c.ht[f].next_mru
  BY <1>1 DEF Entries
<1>3. d = [c EXCEPT !.ht = h]
  BY <1>1 DEF Caches
<1>4. h \in [Files -> Entries] /\ h[f] = e /\ \A g \in Files : g # f => h[g] = c.ht[g]
  <2> HIDE DEF e
  <2> QED BY <1>1, <1>2
<1>5. /\ d \in Caches /\ d.mru = c.mru /\ d.lru = c.lru /\ d.sz = c.sz /\ d.ht = h
  <2> HIDE DEF d, h
  <2> QED BY <1>1, <1>3, <1>4 DEF Caches
<1> HIDE DEF d, e, h
<1>6. ASSUME NEW g \in Files
      PROVE  /\ d.ht[g].inqueue = c.ht[g].inqueue
             /\ d.ht[g].next_mru = c.ht[g].next_mru
             /\ d.ht[g].next_lru = c.ht[g].next_lru
             /\ d.ht[g].buf = c.ht[g].buf /\ d.ht[g].buflen = c.ht[g].buflen
  BY <1>2, <1>4, <1>5
<1>7. \A g \in Files : /\ c.ht[g].buf \in {NULL, g}
                       /\ c.ht[g].buflen = IF c.ht[g].buf = NULL THEN 0 ELSE Length[g]
  BY DEF IsList
<1>8. IsList(d, s)
  BY <1>5, <1>6, <1>7, SameList
<1> QED BY <1>6, <1>8 DEF d

\* cache_prune leaves what fits of the front of the list.
LEMMA PruneFits ==
  ASSUME IInv
  PROVE  \E m \in 0 .. Len(order) : /\ Fits(order) = SubSeq(order, 1, m)
                                    /\ IsList(Prune(Whole), SubSeq(order, 1, m))
                                    /\ OnlyListed(Prune(Whole))
<1>1. IsList(Whole, order) /\ OnlyListed(Whole) /\ order \in Seq(Files) /\ Len(order) \in Nat
  BY DEF IInv, IsList
<1>2. Whole.maxsz = list.maxsz /\ list.maxsz \in Nat
  BY <1>1 DEF IsList, Whole, Caches
<1> DEFINE p == Prune(Whole)
<1> HIDE DEF p
<1>3. PICK m \in 0 .. Len(order) :
        /\ IsList(p, SubSeq(order, 1, m)) /\ OnlyListed(p)
        /\ SizeOf(Whole, order, m) <= list.maxsz
        /\ \A j \in m + 1 .. Len(order) : SizeOf(Whole, order, j) > list.maxsz
  BY <1>1, <1>2, Pruned DEF p
<1>4. \A j \in 0 .. Len(order) : SizeOf(Whole, order, j) \in Int
  BY <1>1, SizeInt
<1>5. Fits(order) = SubSeq(order, 1, m)
  BY <1>1, <1>2, <1>3, <1>4, FitsIs
<1> QED BY <1>3, <1>5 DEF p

\* storage_read_cache_add_name.
LEMMA StepAddName ==
  ASSUME IInv, NEW f \in Files, AddName(f)
  PROVE  IInv'
<1> DEFINE p == Prune(Whole)
           q == IF p.ht[f].inqueue THEN LruRemove(p, f) ELSE p
           d == [q EXCEPT !.ht[f].known = TRUE]
           r == LruAdd(d, f)
<1>3. Becomes(r) /\ order' = <<f>> \o RemoveFirst(Fits(order), f)
  BY Zenon DEF AddName
<1>4. UNCHANGED <<reads, stored, got>>
  BY DEF AddName
<1>5. PICK m \in 0 .. Len(order) :
        /\ IsList(p, SubSeq(order, 1, m)) /\ OnlyListed(p)
        /\ Fits(order) = SubSeq(order, 1, m)
  <2> HIDE DEF p
  <2> QED BY PruneFits DEF p
<1> DEFINE u == SubSeq(order, 1, m)
           t == RemoveFirst(u, f)
<1>7. u \in Seq(Files) /\ Linked(p, u) /\ IsList(p, u)
  BY <1>5 DEF IsList
<1> HIDE DEF p, u
<1>8. /\ IsList(q, t) /\ ~q.ht[f].inqueue
      /\ \A g \in Files : q.ht[g].buf = p.ht[g].buf
      /\ \A g \in Files : q.ht[g].inqueue <=> p.ht[g].inqueue /\ g # f
  <2>1. CASE p.ht[f].inqueue
    <3>1. PICK i \in 1 .. Len(u) : u[i] = f
      BY <1>7, <2>1 DEF Linked
    <3>2. IsWithout(t, u, i)
      <4>1. \A k, l \in 1 .. Len(u) : u[k] = u[l] => k = l BY <1>7 DEF Linked
      <4> QED BY <1>7, <3>1, <4>1, FirstRemoved
    <3>3. TakesOut(LruRemove(p, f), p, f, t)
      <4> HIDE DEF t
      <4> QED BY <1>7, <3>1, <3>2, Removed
    <3>4. q = LruRemove(p, f) BY <2>1
    <3> HIDE DEF q, t
    <3> QED BY <3>3, <3>4 DEF TakesOut
  <2>2. CASE ~p.ht[f].inqueue
    <3>1. ~ \E i \in 1 .. Len(u) : u[i] = f
      BY <1>7, <2>2 DEF Linked
    <3>2. t = u BY <3>1, Zenon DEF RemoveFirst
    <3>3. q = p BY <2>2
    <3> HIDE DEF q, t
    <3>4. ASSUME NEW g \in Files PROVE p.ht[g].inqueue <=> p.ht[g].inqueue /\ g # f
      BY <2>2, Zenon
    <3> QED BY <1>7, <2>2, <3>2, <3>3, <3>4
  <2> QED BY <2>1, <2>2
<1> HIDE DEF q, t
<1>9. /\ IsList(d, t)
      /\ \A g \in Files : d.ht[g].buf = q.ht[g].buf /\ (d.ht[g].inqueue <=> q.ht[g].inqueue)
  BY <1>8, MadeKnown
<1> HIDE DEF d
<1>10. ~d.ht[f].inqueue
  BY <1>8, <1>9
<1>11. /\ IsList(r, <<f>> \o t)
       /\ \A g \in Files : r.ht[g].buf = d.ht[g].buf
       /\ \A g \in Files : r.ht[g].inqueue <=> d.ht[g].inqueue \/ g = f
  BY <1>9, <1>10, Added
<1>12. OnlyListed(r)
  <2>1. ASSUME NEW g \in Files, r.ht[g].buf # NULL PROVE r.ht[g].inqueue
    <3>1. p.ht[g].buf # NULL BY <1>8, <1>9, <1>11, <2>1
    <3>2. p.ht[g].inqueue BY <1>5, <3>1 DEF OnlyListed
    <3>3. q.ht[g].inqueue \/ g = f BY <1>8, <3>2
    <3> QED BY <1>9, <1>11, <3>3
  <2> HIDE DEF r
  <2> QED BY <2>1 DEF OnlyListed
<1> HIDE DEF r
<1>13. Whole' = r /\ order' = <<f>> \o t
  <2>1. r \in Caches BY <1>11 DEF IsList
  <2> QED BY <1>3, <1>5, <2>1, BecomesIs DEF t, u
<1>14. IsList(Whole', order') /\ OnlyListed(Whole')
  BY <1>11, <1>12, <1>13
<1>15. IsList(Whole, order)' /\ OnlyListed(Whole)'
  BY <1>14 DEF IsList, OnlyListed, Linked
<1>16. list' \in Lists
  <2>1. r \in Caches BY <1>11 DEF IsList
  <2> QED BY <1>3, <2>1 DEF Becomes, Caches, Lists
<1> QED BY <1>4, <1>15, <1>16 DEF IInv, Served

\* storage_read_cache_add_name without memory.
LEMMA StepAddNameFails ==
  ASSUME IInv, NEW f \in Files, AddNameFails(f)
  PROVE  IInv'
<1> DEFINE p == Prune(Whole)
<1>1. Becomes(p) /\ order' = Fits(order) /\ UNCHANGED <<reads, stored, got>>
  BY Zenon DEF AddNameFails
<1> HIDE DEF p
<1>2. PICK m \in 0 .. Len(order) :
        /\ IsList(p, SubSeq(order, 1, m)) /\ OnlyListed(p)
        /\ Fits(order) = SubSeq(order, 1, m)
  BY PruneFits DEF p
<1>3. p \in Caches
  BY <1>2 DEF IsList
<1>4. Whole' = p
  BY <1>1, <1>3, BecomesIs
<1>5. IsList(Whole', order') /\ OnlyListed(Whole')
  BY <1>1, <1>2, <1>4
<1>6. IsList(Whole, order)' /\ OnlyListed(Whole)'
  BY <1>5 DEF IsList, OnlyListed, Linked
<1>7. list' \in Lists
  BY <1>1, <1>3 DEF Becomes, Caches, Lists
<1> QED BY <1>1, <1>6, <1>7 DEF IInv, Served

\* Nothing of the cache changes.
LEMMA SameCache ==
  ASSUME IInv, UNCHANGED cache
  PROVE  IsList(Whole, order)' /\ OnlyListed(Whole)'
<1>1. Whole' = Whole /\ order' = order
  BY DEF cache, Whole
<1>2. IsList(Whole', order') /\ OnlyListed(Whole')
  BY <1>1 DEF IInv
<1> QED BY <1>2 DEF IsList, OnlyListed, Linked

\* storage_read_cache_add_data.
LEMMA StepAddData ==
  ASSUME IInv, NEW f \in Files, AddData(f)
  PROVE  IsList(Whole, order)' /\ OnlyListed(Whole)'
<1>1. CASE ~ht[f].known \/ ~ht[f].inqueue \/ ht[f].buf # NULL
  BY <1>1, SameCache, Zenon DEF AddData
<1>2. CASE ht[f].known /\ ht[f].inqueue /\ ht[f].buf = NULL
  <2>1. /\ ht' = [ht EXCEPT ![f].buf = f, ![f].buflen = Length[f]]
        /\ list' = [list EXCEPT !.sz = @ + Length[f]]
        /\ UNCHANGED <<order, fault>>
    BY <1>2 DEF AddData
  <2>2. IsList(Whole, order) /\ OnlyListed(Whole)
    BY DEF IInv
  <2>3. /\ Whole \in Caches /\ order \in Seq(Files) /\ Linked(Whole, order)
        /\ Whole.sz = SumOver(Taken(Whole.ht), ToSet(order))
        /\ \A g \in Files :
             /\ Whole.ht[g].buf \in {NULL, g}
             /\ Whole.ht[g].buflen = IF Whole.ht[g].buf = NULL THEN 0 ELSE Length[g]
    BY <2>2 DEF IsList
  <2>4. /\ Whole.ht = ht /\ Whole.mru = list.mru /\ Whole.lru = list.lru
        /\ Whole.sz = list.sz /\ Whole.maxsz = list.maxsz /\ Whole.fault = fault
    BY DEF Whole
  <2>5. /\ ht \in [Files -> Entries] /\ list.mru \in OrNull /\ list.lru \in OrNull
        /\ list.sz \in Int /\ list.maxsz \in Nat /\ fault = FALSE
    BY <2>3, <2>4 DEF Caches
  <2>6. Length[f] \in Nat /\ f \in OrNull /\ f # NULL
    BY ReadCacheAssumption DEF OrNull
  <2> DEFINE e == [[ht[f] EXCEPT !.buf = f] EXCEPT !.buflen = Length[f]]
             w == Whole'
  <2>7. /\ e \in Entries /\ e.buf = f /\ e.buflen = Length[f]
        /\ e.inqueue = ht[f].inqueue /\ e.next_lru = ht[f].next_lru
        /\ e.next_mru = ht[f].next_mru
    BY <2>5, <2>6 DEF Entries
  <2>8. ht' = [ht EXCEPT ![f] = e]
    BY <2>1, <2>5 DEF Entries
  <2> HIDE DEF e
  <2>9. /\ ht' \in [Files -> Entries] /\ ht'[f] = e
        /\ \A g \in Files : g # f => ht'[g] = ht[g]
    BY <2>5, <2>7, <2>8
  <2>10. w = [ht |-> ht', mru |-> list'.mru, lru |-> list'.lru, sz |-> list'.sz,
              maxsz |-> list'.maxsz, fault |-> fault']
    BY DEF Whole
  <2>11. /\ list'.mru = list.mru /\ list'.lru = list.lru /\ list'.maxsz = list.maxsz
         /\ list'.sz = list.sz + Length[f]
    <3>1. list \in Lists
      BY DEF IInv
    <3> QED BY <2>1, <3>1 DEF Lists
  <2> HIDE DEF w
  <2>12. /\ w.ht = ht' /\ w.mru = Whole.mru /\ w.lru = Whole.lru /\ w.maxsz = Whole.maxsz
         /\ w.sz = Whole.sz + Length[f]
    BY <2>4, <2>10, <2>11
  <2>13. w \in Caches
    <3>1. fault' = FALSE /\ list'.sz \in Int BY <2>1, <2>5, <2>6, <2>11
    <3>2. list'.mru \in OrNull /\ list'.lru \in OrNull /\ list'.maxsz \in Nat
      BY <2>5, <2>11
    <3> QED BY <2>9, <2>10, <3>1, <3>2 DEF Caches
  <2>14. ASSUME NEW g \in Files
         PROVE  /\ w.ht[g].inqueue = Whole.ht[g].inqueue
                /\ w.ht[g].next_mru = Whole.ht[g].next_mru
                /\ w.ht[g].next_lru = Whole.ht[g].next_lru
                /\ g # f => w.ht[g] = Whole.ht[g]
    BY <2>4, <2>7, <2>9, <2>12
  <2>15. Linked(w, order)
    <3>1. \A k \in 1 .. Len(order) : order[k] \in Files BY <2>3
    <3>2. \A g \in Files : w.ht[g].inqueue <=> \E k \in 1 .. Len(order) : order[k] = g
      BY <2>3, <2>14 DEF Linked
    <3>3. \A k \in 1 .. Len(order) :
            /\ w.ht[order[k]].next_mru = IF k = 1 THEN NULL ELSE order[k - 1]
            /\ w.ht[order[k]].next_lru = IF k = Len(order) THEN NULL ELSE order[k + 1]
      BY <2>3, <2>14, <3>1 DEF Linked
    <3> QED BY <2>3, <2>12, <3>2, <3>3 DEF Linked
  <2>16. w.sz = SumOver(Taken(w.ht), ToSet(order))
    <3> DEFINE S == ToSet(order)
               v == Taken(Whole.ht)
               x == Taken(w.ht)
    <3>1. S \subseteq Files /\ IsFiniteSet(S) /\ f \in S
      BY <1>2, <2>3, <2>4, ListFinite DEF Linked
    <3>2. /\ \A g \in Files : v[g] = Whole.ht[g].buflen /\ v[g] \in Nat
          /\ \A g \in Files : x[g] = w.ht[g].buflen /\ x[g] \in Nat
      BY <2>3, <2>13, TakenIs
    <3>3. v[f] = 0 /\ x[f] = Length[f]
      BY <1>2, <2>3, <2>4, <2>7, <2>9, <2>12, <3>2
    <3>4. \A g \in S \ {f} : x[g] = v[g]
      BY <2>14, <3>1, <3>2
    <3> HIDE DEF S, v, x
    <3>5. IsFiniteSet(S \ {f})
      BY <3>1, FS_Subset
    <3>6. Total(x, S \ {f}) = Total(v, S \ {f})
      BY <3>4, <3>5, TotalSame
    <3>7. \A g \in S : v[g] \in Int /\ x[g] \in Int
      BY <3>1, <3>2
    <3>8. /\ Total(v, S \ {f}) = Total(v, S) - v[f] /\ Total(v, S) \in Int
      BY <3>1, <3>7, TotalRemove
    <3>9. /\ Total(x, S \ {f}) = Total(x, S) - x[f] /\ Total(x, S) \in Int
      BY <3>1, <3>7, TotalRemove
    <3>10. Whole.sz = Total(v, S)
      BY <2>3, SumIs DEF v, S
    <3>11. w.sz = Total(x, S)
      BY <2>6, <2>12, <3>3, <3>6, <3>8, <3>9, <3>10
    <3> QED BY <3>11, SumIs DEF x, S
  <2>17. \A g \in Files :
           /\ w.ht[g].buf \in {NULL, g}
           /\ w.ht[g].buflen = IF w.ht[g].buf = NULL THEN 0 ELSE Length[g]
    <3>1. ASSUME NEW g \in Files
          PROVE  /\ w.ht[g].buf \in {NULL, g}
                 /\ w.ht[g].buflen = IF w.ht[g].buf = NULL THEN 0 ELSE Length[g]
      <4>1. CASE g = f BY <2>6, <2>7, <2>9, <2>12, <4>1
      <4>2. CASE g # f BY <2>3, <2>14, <4>2
      <4> QED BY <4>1, <4>2
    <3> QED BY <3>1
  <2>18. IsList(w, order)
    BY <2>3, <2>13, <2>15, <2>16, <2>17 DEF IsList
  <2>19. OnlyListed(w)
    <3>1. ASSUME NEW g \in Files, w.ht[g].buf # NULL PROVE w.ht[g].inqueue
      <4>1. CASE g = f BY <1>2, <2>4, <2>14, <4>1
      <4>2. CASE g # f BY <2>2, <2>14, <3>1, <4>2 DEF OnlyListed
      <4> QED BY <4>1, <4>2
    <3> QED BY <3>1 DEF OnlyListed
  <2>20. IsList(Whole', order') /\ OnlyListed(Whole')
    BY <2>1, <2>18, <2>19 DEF w
  <2> QED BY <2>20 DEF IsList, OnlyListed, Linked
<1> QED BY <1>1, <1>2

LEMMA AddDataList ==
  ASSUME IInv, NEW f \in Files, AddData(f)
  PROVE  list' \in Lists
<1>1. list \in Lists /\ Length[f] \in Nat
  BY ReadCacheAssumption DEF IInv
<1>2. list' = list \/ list' = [list EXCEPT !.sz = @ + Length[f]]
  BY DEF AddData, cache
<1> QED BY <1>1, <1>2 DEF Lists

\* storage_read_cache_set_limit.
LEMMA StepSetLimit ==
  ASSUME IInv, NEW n \in Limits, SetLimit(n)
  PROVE  IInv'
<1>1. /\ list' = [list EXCEPT !.maxsz = n] /\ n \in Nat
      /\ UNCHANGED <<ht, order, fault, reads, stored, got>>
  BY ReadCacheAssumption DEF SetLimit
<1>2. list \in Lists /\ IsList(Whole, order) /\ OnlyListed(Whole)
  BY DEF IInv
<1>3. list' \in Lists /\ list'.mru = list.mru /\ list'.lru = list.lru /\ list'.sz = list.sz
  BY <1>1, <1>2 DEF Lists
<1> DEFINE w == Whole'
<1>4. Whole \in Caches /\ w = [ht |-> ht, mru |-> list.mru, lru |-> list.lru, sz |-> list.sz,
                               maxsz |-> list'.maxsz, fault |-> fault]
  BY <1>1, <1>2, <1>3 DEF IsList, Whole
<1>5. Whole = [ht |-> ht, mru |-> list.mru, lru |-> list.lru, sz |-> list.sz,
               maxsz |-> list.maxsz, fault |-> fault]
  BY DEF Whole
<1> HIDE DEF w
<1>6. /\ w \in Caches /\ w.mru = Whole.mru /\ w.lru = Whole.lru /\ w.sz = Whole.sz
      /\ w.ht = Whole.ht
  BY <1>3, <1>4, <1>5 DEF Caches, Lists
<1>7. IsList(w, order)
  <2>1. \A g \in Files : /\ Whole.ht[g].buf \in {NULL, g}
                         /\ Whole.ht[g].buflen = IF Whole.ht[g].buf = NULL THEN 0 ELSE Length[g]
    BY <1>2 DEF IsList
  <2> QED BY <1>2, <1>6, <2>1, SameList
<1>8. OnlyListed(w)
  BY <1>2, <1>6 DEF OnlyListed
<1>9. IsList(Whole', order') /\ OnlyListed(Whole')
  BY <1>1, <1>7, <1>8 DEF w
<1>10. IsList(Whole, order)' /\ OnlyListed(Whole)'
  BY <1>9 DEF IsList, OnlyListed, Linked
<1> QED BY <1>1, <1>3, <1>10 DEF IInv, Served

\* storage_read_file and the like, from the cache.
LEMMA StepReadCached ==
  ASSUME IInv, NEW f \in Files, NEW len \in Lens(f), ReadCached(f, len)
  PROVE  IInv'
<1>1. /\ ht[f].buf # NULL /\ UNCHANGED <<cache, reads, stored>>
      /\ got' = Result(f, len, CachedStatus(f, len),
                       IF CachedStatus(f, len) = 0 THEN ht[f].buf ELSE NULL)
  BY DEF ReadCached
<1>2. IsList(Whole, order)' /\ OnlyListed(Whole)'
  BY <1>1, SameCache
<1>3. ht[f].buf = f /\ ht[f].buflen = Length[f]
  <2>1. IsList(Whole, order) /\ Whole.ht = ht
    BY DEF IInv, Whole
  <2> QED BY <1>1, <2>1 DEF IsList
<1>4. /\ got'.file = f /\ got'.len = len /\ got'.status = CachedStatus(f, len)
      /\ got'.data = IF CachedStatus(f, len) = 0 THEN f ELSE NULL
  BY <1>1, <1>3 DEF Result
<1>5. CachedStatus(f, len) = IF len \in {AnyLength, Length[f]} THEN 0 ELSE 2
  BY <1>3 DEF CachedStatus
<1>6. Served'
  BY <1>4, <1>5 DEF Served
<1>7. list' = list
  BY <1>1 DEF cache
<1> QED BY <1>1, <1>2, <1>4, <1>6, <1>7 DEF IInv, OrNull

\* From the server.
LEMMA StepReadFile ==
  ASSUME IInv, NEW f \in Files, NEW len \in Lens(f), NEW wait \in BOOLEAN,
         ReadFile(f, len, wait)
  PROVE  IInv'
<1>1. /\ reads' = Append(reads, Request(f, len))
      /\ UNCHANGED <<cache, stored, got>>
  BY DEF ReadFile
<1>2. IsList(Whole, order)' /\ OnlyListed(Whole)'
  BY <1>1, SameCache
<1>3. len \in Int
  BY ReadCacheAssumption DEF Lens, AnyLength
<1>4. reads' \in Seq(Requests)
  <2>1. Request(f, len) \in Requests BY <1>3 DEF Request, Requests
  <2> QED BY <1>1, <2>1 DEF IInv
<1>5. list' = list
  BY <1>1 DEF cache
<1> QED BY <1>1, <1>2, <1>4, <1>5 DEF IInv, Served

\* callback_read_file_response.
LEMMA StepAnswer ==
  ASSUME IInv, NEW memory \in BOOLEAN, Answer(memory)
  PROVE  IInv'
<1> DEFINE r == Head(reads)
<1>1. reads \in Seq(Requests) /\ reads # <<>> /\ r \in Requests /\ Tail(reads) \in Seq(Requests)
  <2>1. reads \in Seq(Requests) /\ reads # <<>>
    BY DEF IInv, Answer
  <2> QED BY <2>1
<1>2. r.file \in Files /\ r.len \in Int
  BY <1>1 DEF Requests
<1>3. PICK sc \in Status(r) :
        /\ got' = Result(r.file, r.len, sc, IF sc = 0 THEN r.file ELSE NULL)
        /\ IF sc = 0 /\ memory THEN AddData(r.file) ELSE UNCHANGED cache
  BY Zenon DEF Answer
<1>4. reads' = Tail(reads) /\ stored' = stored
  BY DEF Answer
<1> HIDE DEF r
<1>5. IsList(Whole, order)' /\ OnlyListed(Whole)' /\ list' \in Lists
  <2>1. CASE sc = 0 /\ memory
    <3>1. AddData(r.file) BY <1>3, <2>1
    <3> QED BY <1>2, <3>1, StepAddData, AddDataList
  <2>2. CASE ~(sc = 0 /\ memory)
    <3>1. UNCHANGED cache BY <1>3, <2>2
    <3>2. list' \in Lists BY <3>1 DEF cache, IInv
    <3> QED BY <3>1, <3>2, SameCache
  <2> QED BY <2>1, <2>2
<1>6. /\ got'.file = r.file /\ got'.len = r.len /\ got'.status = sc
      /\ got'.data = IF sc = 0 THEN r.file ELSE NULL
  BY <1>3 DEF Result
<1>7. Served'
  BY <1>2, <1>3, <1>4, <1>6 DEF Served, Status
<1> QED BY <1>1, <1>2, <1>4, <1>5, <1>6, <1>7 DEF IInv, OrNull

\* A file is lost.
LEMMA StepLose ==
  ASSUME IInv, NEW f \in Files, Lose(f)
  PROVE  IInv'
<1>1. stored' = [stored EXCEPT ![f] = FALSE] /\ UNCHANGED <<cache, reads, got>>
  BY DEF Lose
<1>2. IsList(Whole, order)' /\ OnlyListed(Whole)'
  BY <1>1, SameCache
<1>3. stored \in [Files -> BOOLEAN] /\ got.file \in OrNull /\ Served
  BY DEF IInv
<1>4. stored' \in [Files -> BOOLEAN] /\ \A g \in Files : stored'[g] => stored[g]
  BY <1>1, <1>3
<1>5. Served'
  BY <1>1, <1>3, <1>4 DEF Served, OrNull
<1>6. list' = list
  BY <1>1 DEF cache
<1> QED BY <1>1, <1>2, <1>4, <1>5, <1>6 DEF IInv

-----------------------------------------------------------------------------
(* The invariant, and what it says. *)

LEMMA InitIInv == Init => IInv
<1> SUFFICES ASSUME Init PROVE IInv
  OBVIOUS
<1>1. /\ ht = [f \in Files |-> NoEntry] /\ reads = <<>> /\ stored = [f \in Files |-> TRUE]
      /\ list = [mru |-> NULL, lru |-> NULL, sz |-> 0, maxsz |-> Unlimited]
      /\ got = NoResult /\ order = <<>> /\ fault = FALSE
  BY DEF Init
<1>2. Unlimited \in Nat
  <2>1. IsFiniteSet(Files) /\ \A f \in Files : Length[f] \in Nat
    BY ReadCacheAssumption
  <2>2. Total(Length, Files) \in Nat
    BY <2>1, TotalSplits, TotalCovers DEF SumSplits, SumCovers
  <2> QED BY <2>2, SumIs DEF Unlimited
<1>3. /\ NULL \in OrNull /\ list \in Lists /\ stored \in [Files -> BOOLEAN]
      /\ reads \in Seq(Requests) /\ order \in Seq(Files) /\ Len(order) = 0
      /\ got.file = NULL
  BY <1>1, <1>2 DEF OrNull, Lists, NoResult, Result
<1>4. Served
  BY <1>3 DEF Served
<1>5. \A f \in Files : /\ ht[f] \in Entries /\ ~ht[f].inqueue
                       /\ ht[f].buf = NULL /\ ht[f].buflen = 0
  BY <1>1, <1>3 DEF NoEntry, Entries
<1>6. /\ Whole.ht = ht /\ Whole.mru = NULL /\ Whole.lru = NULL /\ Whole.sz = 0
      /\ Whole.maxsz = Unlimited /\ Whole.fault = FALSE
  BY <1>1 DEF Whole
<1>7. Whole \in Caches
  <2>1. ht \in [Files -> Entries]
    <3>1. ht = [f \in Files |-> ht[f]]
      BY <1>1
    <3> QED BY <3>1, <1>5
  <2>2. list.mru \in OrNull /\ list.lru \in OrNull /\ list.sz \in Int /\ list.maxsz \in Nat
    BY <1>3 DEF Lists
  <2>3. fault \in {FALSE}
    BY <1>1
  <2> QED BY <2>1, <2>2, <2>3 DEF Whole, Caches
<1>8. Linked(Whole, order)
  BY <1>3, <1>5, <1>6 DEF Linked
<1>9. ToSet(order) = {}
  <2>1. 1 .. Len(order) = {} BY <1>3
  <2>2. \A f : f \notin ToSet(order) BY <1>3, <2>1, ListFinite
  <2> QED BY <2>2
<1>10. Whole.sz = SumOver(Taken(Whole.ht), ToSet(order))
  BY <1>6, <1>9, SumIs, TotalEmpty
<1>11. IsList(Whole, order) /\ OnlyListed(Whole)
  BY <1>3, <1>5, <1>6, <1>7, <1>8, <1>10 DEF IsList, OnlyListed
<1> QED BY <1>3, <1>4, <1>11 DEF IInv

LEMMA StepIInv == IInv /\ [Next]_vars => IInv'
<1> SUFFICES ASSUME IInv, [Next]_vars PROVE IInv'
  OBVIOUS
<1>1. ASSUME NEW f \in Files, AddName(f) PROVE IInv'
  BY <1>1, StepAddName
<1>2. ASSUME NEW f \in Files, Lose(f) PROVE IInv'
  BY <1>2, StepLose
<1>3. ASSUME NEW f \in Files, NEW l \in Lens(f), ReadCached(f, l) PROVE IInv'
  BY <1>3, StepReadCached
<1>4. ASSUME NEW f \in Files, NEW l \in Lens(f), NEW w \in BOOLEAN, ReadFile(f, l, w) PROVE IInv'
  BY <1>4, StepReadFile
<1>5. ASSUME NEW n \in Limits, SetLimit(n) PROVE IInv'
  BY <1>5, StepSetLimit
<1>6. ASSUME NEW m \in BOOLEAN, Answer(m) PROVE IInv'
  BY <1>6, StepAnswer
<1>7. CASE UNCHANGED vars
  <2>1. UNCHANGED cache /\ UNCHANGED <<reads, stored, got>> /\ list' = list
    BY <1>7 DEF vars, cache
  <2> QED BY <2>1, SameCache DEF IInv, Served
<1>8. ASSUME NEW f \in Files, AddNameFails(f) PROVE IInv'
  BY <1>8, StepAddNameFails
<1> QED BY <1>1, <1>2, <1>3, <1>4, <1>5, <1>6, <1>7, <1>8 DEF Next

\* The invariant says what the run checks.
LEMMA ListSays == IInv => LRUOrder
<1> SUFFICES ASSUME IInv PROVE LRUOrder
  OBVIOUS
<1>1. Whole \in Caches /\ order \in Seq(Files) /\ Linked(Whole, order)
  BY DEF IInv, IsList
<1>2. Whole.ht = ht /\ Whole.mru = list.mru /\ Whole.lru = list.lru /\ Whole.fault = fault
  BY DEF Whole
<1>3. ~fault
  BY <1>1, <1>2 DEF Caches
<1>4. {f \in Files : ht[f].inqueue} = ToSet(order)
  <2>1. \A f \in Files : ht[f].inqueue <=> f \in ToSet(order)
    BY <1>1, <1>2, ListFinite DEF Linked
  <2>2. ToSet(order) \subseteq Files
    BY <1>1, ListFinite
  <2> QED BY <2>1, <2>2
<1>5. DOMAIN order = 1 .. Len(order) /\ (order = <<>> <=> Len(order) = 0)
  BY <1>1
<1>6. order # <<>> => Head(order) = order[1] /\ Last(order) = order[Len(order)]
  BY <1>1 DEF Last
<1>7. /\ list.mru = IF order = <<>> THEN NULL ELSE Head(order)
      /\ list.lru = IF order = <<>> THEN NULL ELSE Last(order)
  BY <1>1, <1>2, <1>5, <1>6 DEF Linked
<1>8. \A i \in DOMAIN order :
        /\ ht[order[i]].next_mru = IF i = 1 THEN NULL ELSE order[i - 1]
        /\ ht[order[i]].next_lru = IF i = Len(order) THEN NULL ELSE order[i + 1]
  BY <1>1, <1>2, <1>5 DEF Linked
<1> QED BY <1>3, <1>4, <1>7, <1>8, Zenon DEF LRUOrder

LEMMA SizeSays == IInv => Accounted
<1> SUFFICES ASSUME IInv PROVE Accounted
  OBVIOUS
<1>1. IsList(Whole, order) /\ OnlyListed(Whole) /\ Whole.ht = ht /\ Whole.sz = list.sz
  BY DEF IInv, Whole
<1>2. list.sz = Size(order)
  BY <1>1 DEF IsList, Size
<1> QED BY <1>1, <1>2 DEF IsList, OnlyListed, Accounted

LEMMA Inductive == Spec => []IInv
BY InitIInv, StepIInv, PTL DEF Spec

\* The list is a list from either end, in the order of the names given, and
\* cache_prune takes no more from its end than it has to; no null pointer is
\* followed and no assertion of cache_lru_remove and cache_lru_add fails.
THEOREM ListKept == Spec => []LRUOrder
BY Inductive, ListSays, PTL

\* sz is what the buffers of the listed files take, and there are no others:
\* cache_prune comes to an end when it should.
THEOREM SizeKept == Spec => []Accounted
BY Inductive, SizeSays, PTL

\* Every read that succeeds has the file that was asked for, from the cache or
\* not, and a read fails only for a file that was lost or for a wrong length.
THEOREM FilesServed == Spec => []Served
<1>1. IInv => Served
  BY DEF IInv
<1> QED BY Inductive, <1>1, PTL

-----------------------------------------------------------------------------
(* The queues: numbers. *)

\* What requests count for; the limits are as the code has them.
LEMMA CostType ==
  ASSUME kind \in {"write", "delete", "fsck"}
  PROVE  \A r \in Jobs : Cost[r] \in Nat /\ 1 <= Cost[r]
BY StorageQueueAssumption DEF Cost

\* Nobody waits for more room than there is.
LEMMA LevelLimit ==
  ASSUME kind \in {"write", "delete", "fsck"}, NEW n \in Int
  PROVE  Level(n) \in Int /\ Level(n) <= Limit
<1>1. MaxDeletes \in Nat /\ MaxDeletes >= 1 /\ MaxBytes \in Nat
  BY StorageQueueAssumption
<1>2. MaxDeletes \div 2 + 1 <= MaxDeletes /\ MaxDeletes \div 2 + 1 \in Int
  BY <1>1
<1>3. CASE kind = "write"
  BY <1>1, <1>3 DEF Level, Limit
<1>4. CASE kind # "write"
  BY <1>1, <1>2, <1>4 DEF Level, Limit
<1> QED BY <1>3, <1>4

\* The load of a set is a sum in the sense of Sums.
LEMMA LoadIs == ASSUME NEW S PROVE Load(S) = Total(Cost, S)
BY Zenon DEF Load, Total

\* Connections.
LEMMA ConnsType == Conns \subseteq Int /\ 0 \in Conns
BY StorageQueueAssumption DEF Conns

\* What it means to be in a queue.
LEMMA SentIs ==
  ASSUME NEW r
  PROVE  r \in Sent <=> \E c \in Conns : \E i \in DOMAIN queue[c] : queue[c][i] = r
BY DEF Sent, Range

-----------------------------------------------------------------------------
(* The queues: the initial states. *)

LEMMA QueueInvInit == QueueInit => QueueInv
<1> SUFFICES ASSUME QueueInit PROVE QueueInv
  OBVIOUS
<1>0. queue = [c \in Conns |-> <<>>] BY DEF QueueInit
<1>1. TypeOK
  <2>1. queue \in [Conns -> Seq(Jobs)] BY <1>0
  <2> QED BY <2>1, ConnsType DEF TypeOK, QueueInit
<1>2. Unsettled = {}
  <2>1. Sent = {} BY <1>0, SentIs
  <2> QED BY <2>1 DEF Unsettled, QueueInit
<1>3. Load(Unsettled) = 0 /\ Load(Sent) = 0
  <2>1. Sent = {} BY <1>2 DEF Unsettled
  <2> QED BY <1>2, <2>1, LoadIs, TotalEmpty
<1>4. Counted
  BY <1>2, <1>3, FS_EmptySet DEF Counted, Requested, QueueInit
<1>5. 0 <= Limit
  BY StorageQueueAssumption DEF Limit
<1>6. OnceQueued
  BY <1>0 DEF OnceQueued
<1> QED
  BY <1>1, <1>3, <1>4, <1>5, <1>6 DEF QueueInv, NewJob, Window, FlushStored, QueueInit

-----------------------------------------------------------------------------
(* The queues: every step preserves the invariant. *)

\* The sums in the next state.
LEMMA LoadsNow == Load(Unsettled) = Total(Cost, Unsettled) /\ Load(Sent) = Total(Cost, Sent)
BY LoadIs

LEMMA LoadsNext ==
  (Load(Unsettled) = Total(Cost, Unsettled) /\ Load(Sent) = Total(Cost, Sent))'
BY LoadsNow, PTL

LEMMA SentNext ==
  ASSUME NEW r
  PROVE  r \in Sent' <=> \E c \in Conns : \E i \in DOMAIN queue'[c] : queue'[c][i] = r
BY DEF Sent, Range

\* What the sums over the requests not settled come to.
LEMMA QueueFacts ==
  ASSUME QueueInv
  PROVE  /\ Unsettled \subseteq Jobs /\ IsFiniteSet(Unsettled)
         /\ \A r \in Unsettled : Cost[r] \in Nat /\ 1 <= Cost[r]
         /\ Total(Cost, Unsettled) \in Int /\ npending \in Int /\ level \in Int
         /\ Total(Cost, Unsettled) + Requested <= npending
         /\ Requested \in Nat /\ Limit \in Int
         /\ Total(Cost, Sent) <= Total(Cost, Unsettled)
         /\ Total(Cost, Sent) <= Limit /\ 0 <= Total(Cost, Sent)
         /\ Total(Cost, Sent) \in Int
<1> USE DEF QueueInv
<1>1. Unsettled \subseteq Jobs /\ Sent \subseteq Unsettled
  <2>1. ASSUME NEW r \in Sent PROVE r \in Jobs
    <3>1. PICK c \in Conns : \E i \in DOMAIN queue[c] : queue[c][i] = r
      BY <2>1, SentIs
    <3>2. queue[c] \in Seq(Jobs) BY DEF TypeOK
    <3> QED BY <3>1, <3>2
  <2> QED BY <2>1 DEF Unsettled, TypeOK
<1>2. \A r \in Unsettled : Cost[r] \in Nat /\ 1 <= Cost[r]
  BY <1>1, CostType DEF TypeOK
<1>3. IsFiniteSet(Unsettled) /\ IsFiniteSet(Sent)
  BY <1>1, FS_Subset DEF Counted
<1>4. Total(Cost, Unsettled) \in Int /\ Total(Cost, Sent) \in Int
  BY <1>1, <1>2, <1>3, TotalSplits DEF SumSplits
<1>5. /\ Total(Cost, Sent) <= Total(Cost, Unsettled)
      /\ 0 <= Total(Cost, Sent)
  BY <1>1, <1>2, <1>3, TotalCovers DEF SumCovers
<1>6. Requested \in Nat
  BY CostType DEF Requested, NewJob, TypeOK
<1>7. Limit \in Int
  BY StorageQueueAssumption DEF Limit
<1>8. Total(Cost, Unsettled) + Requested <= npending /\ Total(Cost, Sent) <= Limit
  BY LoadsNow DEF Counted, Window
<1>9. npending \in Int /\ level \in Int
  BY DEF TypeOK
<1> QED BY <1>1, <1>2, <1>3, <1>4, <1>5, <1>6, <1>7, <1>8, <1>9

\* What follows when the queues stay and no request is settled or taken up.
LEMMA QueueKept ==
  ASSUME QueueInv, UNCHANGED <<kind, queue>>, accepted' = accepted,
         done' = done \/ \E r \in Sent : done' = done \cup {r}
  PROVE  /\ Unsettled' = Unsettled /\ Cost' = Cost /\ Limit' = Limit
         /\ Load(Unsettled)' = Load(Unsettled)
         /\ OnceQueued' /\ Window'
<1>1. Sent' = Sent BY DEF Sent
<1>2. Cost' = Cost /\ Limit' = Limit BY DEF Cost, Limit
<1>3. Unsettled' = Unsettled BY <1>1 DEF Unsettled
<1>4. Load(Unsettled)' = Load(Unsettled) /\ Load(Sent)' = Load(Sent)
  BY <1>1, <1>2, <1>3, LoadsNow, LoadsNext
<1>5. OnceQueued' BY DEF OnceQueued, QueueInv
<1> QED BY <1>1, <1>2, <1>3, <1>4, <1>5 DEF Window, QueueInv

LEMMA FileStep == ASSUME QueueInv, NEW r \in Jobs, File(r) PROVE QueueInv'
<1> USE DEF QueueInv
<1>1. /\ Unsettled' = Unsettled /\ Cost' = Cost /\ Limit' = Limit
      /\ Load(Unsettled)' = Load(Unsettled) /\ OnceQueued' /\ Window'
  <2>1. UNCHANGED <<kind, queue>> /\ accepted' = accepted /\ done' = done
    BY DEF File
  <2> QED BY <2>1, QueueKept
<1>2. Cost[r] \in Nat /\ npending + Cost[r] \in Int
  BY CostType DEF TypeOK
<1>3. level' \in Int /\ level' <= Limit
  BY <1>2, LevelLimit DEF File, TypeOK
<1>4. TypeOK'
  BY <1>2, <1>3 DEF TypeOK, File
<1>5. Counted'
  <2>1. Requested = 0 /\ Requested' = Cost[r]
    BY <1>1 DEF File, Requested
  <2>2. npending' = npending + Cost[r] BY DEF File
  <2>3. Load(Unsettled) <= npending /\ Load(Unsettled) \in Int /\ npending \in Int
    BY <2>1, LoadsNow, QueueFacts
  <2>4. Load(Unsettled)' + Requested' <= npending'
    BY <1>1, <1>2, <2>1, <2>2, <2>3
  <2> QED BY <1>1, <2>4 DEF Counted
<1>6. NewJob'
  <2>1. r \notin Unsettled /\ call' = "file" /\ req' = r
    BY DEF File, Unsettled
  <2> QED BY <1>1, <1>3, <2>1 DEF NewJob
<1>7. FlushStored' BY DEF FlushStored, File
<1> QED BY <1>1, <1>4, <1>5, <1>6, <1>7

\* Less waits than before, nothing else changes.
LEMMA CalmStep ==
  ASSUME QueueInv, UNCHANGED <<kind, queue, npending, level>>, accepted' = accepted,
         done' = done \/ \E r \in Sent : done' = done \cup {r},
         (call' = call /\ req' = req) \/ call' # "file", TypeOK', FlushStored'
  PROVE  QueueInv'
<1> USE DEF QueueInv
<1>1. /\ Unsettled' = Unsettled /\ Cost' = Cost /\ Limit' = Limit
      /\ Load(Unsettled)' = Load(Unsettled) /\ OnceQueued' /\ Window'
  BY QueueKept
<1>2. Counted'
  <2>1. Requested' <= Requested /\ Requested \in Nat /\ Requested' \in Int
    BY <1>1, QueueFacts DEF Requested
  <2>2. /\ Load(Unsettled) + Requested <= npending /\ Load(Unsettled) \in Int
        /\ npending \in Int
    BY LoadsNow, QueueFacts
  <2>3. Load(Unsettled)' + Requested' <= npending'
    BY <1>1, <2>1, <2>2
  <2> QED BY <1>1, <2>3 DEF Counted
<1>3. NewJob'
  BY <1>1 DEF NewJob
<1> QED BY <1>1, <1>2, <1>3

LEMMA ServeStep == ASSUME QueueInv, NEW r \in Jobs, Serve(r) PROVE QueueInv'
<1>1. TypeOK' BY DEF QueueInv, TypeOK, Serve, transaction
<1>2. FlushStored' BY DEF QueueInv, FlushStored, Serve
<1> QED BY <1>1, <1>2, CalmStep DEF Serve, transaction

LEMMA WaitStep == ASSUME QueueInv, NEW how \in {"flush", "end"}, Wait(how) PROVE QueueInv'
<1>1. TypeOK' BY DEF QueueInv, TypeOK, Wait, transaction
<1>2. FlushStored' BY DEF QueueInv, FlushStored, Wait
<1> QED BY <1>1, <1>2, CalmStep DEF Wait, transaction

LEMMA FreeStep == ASSUME QueueInv, Free PROVE QueueInv'
<1>1. TypeOK' BY DEF QueueInv, TypeOK, Free, transaction
<1>2. FlushStored' BY DEF QueueInv, FlushStored, Free
<1> QED BY <1>1, <1>2, CalmStep DEF Free, transaction

\* Nothing pending: nothing unsettled, so all that was accepted is stored.
LEMMA DrainedStep == ASSUME QueueInv, Drained PROVE QueueInv'
<1>1. TypeOK' BY DEF QueueInv, TypeOK, Drained, transaction
<1>2. Unsettled = {}
  <2>1. SUFFICES ASSUME NEW r \in Unsettled PROVE FALSE
    BY Zenon
  <2>2. Cost[r] <= Total(Cost, Unsettled) /\ 1 <= Cost[r] /\ Cost[r] \in Nat
    BY QueueFacts, TotalMember
  <2>3. npending = 0 BY DEF Drained
  <2> QED BY <2>2, <2>3, QueueFacts
<1>3. accepted \subseteq done BY <1>2 DEF Unsettled
<1>4. FlushStored' BY <1>3 DEF FlushStored, Drained
<1> QED BY <1>1, <1>4, CalmStep DEF Drained, transaction
LEMMA NextConnType == TypeOK => NextConn \in Conns
<1> SUFFICES ASSUME TypeOK PROVE NextConn \in Conns
  OBVIOUS
<1>1. (lastcnum + 1) % NumConns \in Conns
  BY StorageQueueAssumption, ConnsType DEF Conns, TypeOK
<1> QED BY <1>1, ConnsType DEF NextConn

\* A request that has room is sent: the sums grow by what was reserved.
LEMMA EnqueueStep ==
  ASSUME QueueInv, call = "file", npending <= level, call' = "none", req' \in Jobs \cup {NoJob},
         lastcnum' = NextConn, queue' = Enqueued,
         accepted' = accepted \/ accepted' = accepted \cup {req}, failed' \in BOOLEAN,
         UNCHANGED <<kind, npending, level, done, flushed>>
  PROVE  QueueInv'
<1> USE DEF QueueInv
<1>1. PICK c \in Conns : queue' = [queue EXCEPT ![c] = Append(@, req)] /\ lastcnum' = c
  BY NextConnType DEF Enqueued
<1>2. req \in Jobs \ Unsettled /\ Requested = Cost[req]
  BY DEF NewJob, Requested
<1>3. req \notin Sent BY <1>2 DEF Unsettled
<1>4. queue[c] \in Seq(Jobs) /\ queue' \in [Conns -> Seq(Jobs)]
  BY <1>1, <1>2 DEF TypeOK
<1>5. \A d \in Conns : queue'[d] = IF d = c THEN Append(queue[c], req) ELSE queue[d]
  BY <1>1 DEF TypeOK
<1>6. Sent' = Sent \cup {req}
  <2>1. ASSUME NEW r \in Sent' PROVE r \in Sent \cup {req}
    <3>1. PICK d \in Conns : \E i \in DOMAIN queue'[d] : queue'[d][i] = r
      BY <2>1, SentNext
    <3>2. PICK i \in DOMAIN queue'[d] : queue'[d][i] = r BY <3>1
    <3>3. CASE d = c BY <3>2, <3>3, <1>4, <1>5, SentIs
    <3>4. CASE d # c BY <3>2, <3>4, <1>5, SentIs
    <3> QED BY <3>3, <3>4
  <2>2. req \in Sent'
    <3>1. Len(queue[c]) + 1 \in DOMAIN queue'[c] /\ queue'[c][Len(queue[c]) + 1] = req
      BY <1>4, <1>5
    <3> QED BY <3>1, SentNext
  <2>3. ASSUME NEW r \in Sent PROVE r \in Sent'
    <3>1. PICK d \in Conns : \E i \in DOMAIN queue[d] : queue[d][i] = r
      BY <2>3, SentIs
    <3>2. PICK i \in DOMAIN queue[d] : queue[d][i] = r BY <3>1
    <3>3. i \in DOMAIN queue'[d] /\ queue'[d][i] = r
      <4>1. queue[d] \in Seq(Jobs) BY DEF TypeOK
      <4>2. CASE d # c BY <4>2, <3>2, <1>5
      <4>3. CASE d = c
        <5>1. i \in 1 .. Len(queue[c]) BY <4>3, <3>2, <1>4
        <5>2. queue'[c] = Append(queue[c], req) BY <1>5
        <5>3. i \in DOMAIN queue'[c] /\ queue'[c][i] = queue[c][i]
          BY <5>1, <5>2, <1>2, <1>4
        <5> QED BY <5>3, <4>3, <3>2
      <4> QED BY <4>2, <4>3
    <3> QED BY <3>3, SentNext
  <2> QED BY <2>1, <2>2, <2>3
<1>7. OnceQueued'
  <2> SUFFICES ASSUME NEW d \in Conns, NEW e \in Conns,
                      NEW i \in 1 .. Len(queue'[d]), NEW j \in 1 .. Len(queue'[e]),
                      queue'[d][i] = queue'[e][j]
               PROVE  d = e /\ i = j
    BY DEF OnceQueued
  <2>1. \A b \in Conns : \A k \in 1 .. Len(queue'[b]) :
          \/ k \in 1 .. Len(queue[b]) /\ queue'[b][k] = queue[b][k] /\ queue[b][k] # req
          \/ b = c /\ k = Len(queue[c]) + 1 /\ queue'[b][k] = req
    <3> TAKE b \in Conns
    <3> TAKE k \in 1 .. Len(queue'[b])
    <3>1. queue[b] \in Seq(Jobs) BY DEF TypeOK
    <3>2. k \in 1 .. Len(queue[b]) => queue[b][k] # req
      BY <3>1, <1>3, SentIs
    <3>3. CASE b # c BY <3>2, <3>3, <1>5
    <3>4. CASE b = c
      <4>1. queue'[b] = Append(queue[c], req) /\ req \in Jobs BY <3>4, <1>2, <1>5
      <4>2. \/ k \in 1 .. Len(queue[c]) /\ queue'[b][k] = queue[c][k]
            \/ k = Len(queue[c]) + 1 /\ queue'[b][k] = req
        BY <4>1, <1>4
      <4> QED BY <3>2, <3>4, <4>2
    <3> QED BY <3>3, <3>4
  <2>2. \/ i \in 1 .. Len(queue[d]) /\ queue'[d][i] = queue[d][i] /\ queue[d][i] # req
        \/ d = c /\ i = Len(queue[c]) + 1 /\ queue'[d][i] = req
    BY <2>1
  <2>3. \/ j \in 1 .. Len(queue[e]) /\ queue'[e][j] = queue[e][j] /\ queue[e][j] # req
        \/ e = c /\ j = Len(queue[c]) + 1 /\ queue'[e][j] = req
    BY <2>1
  <2> QED BY <2>2, <2>3 DEF OnceQueued
<1>8. Unsettled' = Unsettled \cup {req}
  BY <1>6 DEF Unsettled
<1>9. Cost' = Cost /\ Limit' = Limit BY DEF Cost, Limit
<1>10. /\ Total(Cost, Unsettled \cup {req}) = Total(Cost, Unsettled) + Cost[req]
       /\ IsFiniteSet(Unsettled \cup {req})
       /\ \A r \in Unsettled \cup {req} : Cost[r] \in Nat
  <2>1. Cost[req] \in Nat BY <1>2, CostType DEF TypeOK
  <2>2. \A r \in Unsettled : Cost[r] \in Nat BY QueueFacts
  <2>3. \A r \in Unsettled : Cost[r] \in Int BY <2>2
  <2>4. Total(Cost, Unsettled \cup {req}) = Total(Cost, Unsettled) + Cost[req]
    BY <1>2, <2>1, <2>3, QueueFacts, TotalAdd
  <2>5. IsFiniteSet(Unsettled \cup {req})
    BY QueueFacts, FS_AddElement
  <2> QED BY <2>1, <2>2, <2>4, <2>5
<1>11. Load(Unsettled)' <= npending
  BY <1>2, <1>8, <1>9, <1>10, LoadsNext, QueueFacts
<1>12. Load(Sent)' <= Load(Unsettled)' /\ Load(Sent)' \in Int /\ Load(Unsettled)' \in Int
  <2>1. Sent' \in SUBSET (Unsettled \cup {req})
    BY <1>6 DEF Unsettled
  <2>2. /\ Total(Cost, Sent') <= Total(Cost, Unsettled \cup {req})
        /\ IsFiniteSet(Sent')
    BY <2>1, <1>10, TotalCovers, FS_Subset DEF SumCovers
  <2>3. Total(Cost, Sent') \in Int /\ Total(Cost, Unsettled \cup {req}) \in Int
    BY <2>1, <2>2, <1>10, TotalSplits DEF SumSplits
  <2> QED BY <1>8, <1>9, <2>2, <2>3, LoadsNext
<1>13. Window'
  <2>1. npending <= level /\ level <= Limit BY DEF NewJob
  <2>2. Load(Sent)' <= Limit BY <2>1, <1>11, <1>12, QueueFacts
  <2> QED BY <2>2, <1>9 DEF Window
<1>14. Counted'
  <2>1. Requested' = 0 /\ npending' = npending BY DEF Requested
  <2> QED BY <2>1, <1>8, <1>10, <1>11, <1>12 DEF Counted
<1>15. TypeOK'
  BY <1>1, <1>2, <1>4 DEF TypeOK
<1>16. NewJob' /\ FlushStored'
  BY <1>9 DEF NewJob, FlushStored
<1> QED BY <1>7, <1>13, <1>14, <1>15, <1>16

LEMMA SendStep == ASSUME QueueInv, Send PROVE QueueInv'
<1>1. failed' \in BOOLEAN BY DEF QueueInv, TypeOK, Send
<1> QED BY <1>1, EnqueueStep DEF Send

\* A request that was not sent stays counted.
LEMMA SendFailsStep == ASSUME QueueInv, SendFails PROVE QueueInv'
<1>1. CASE queue' = Enqueued
  BY <1>1, EnqueueStep DEF SendFails
<1>2. CASE queue' = queue
  <2>1. TypeOK' BY <1>2, NextConnType DEF QueueInv, TypeOK, SendFails
  <2>2. FlushStored' BY DEF QueueInv, FlushStored, SendFails
  <2> QED BY <1>2, <2>1, <2>2, CalmStep DEF SendFails
<1> QED BY <1>1, <1>2 DEF SendFails

\* The rest of a queue.
LEMMA TailIs ==
  ASSUME NEW S, NEW q \in Seq(S), Len(q) > 0
  PROVE  /\ \A i \in 1 .. Len(Tail(q)) :
              i + 1 \in 1 .. Len(q) /\ Tail(q)[i] = q[i + 1]
         /\ \A k \in 1 .. Len(q) :
              k # 1 => k - 1 \in DOMAIN Tail(q) /\ Tail(q)[k - 1] = q[k - 1 + 1]
<1>1. Len(Tail(q)) = Len(q) - 1 /\ Len(q) \in Nat
  OBVIOUS
<1>2. DOMAIN Tail(q) = 1 .. Len(q) - 1
  OBVIOUS
<1>3. \A i \in 1 .. Len(q) - 1 : Tail(q)[i] = q[i + 1]
  OBVIOUS
<1> QED BY <1>1, <1>2, <1>3

\* What an answer does to the queue it is the first of.
LEMMA AnsweredQueues ==
  ASSUME QueueInv, NEW c \in Conns, queue[c] # <<>>,
         queue' = [queue EXCEPT ![c] = Tail(@)]
  PROVE  /\ Head(queue[c]) \in Sent /\ Sent' = Sent \ {Head(queue[c])}
         /\ OnceQueued' /\ queue' \in [Conns -> Seq(Jobs)]
<1> USE DEF QueueInv
<1>1. queue[c] \in Seq(Jobs) /\ Len(queue[c]) > 0 /\ Head(queue[c]) = queue[c][1]
  BY DEF TypeOK
<1>2. \A d \in Conns : queue'[d] = IF d = c THEN Tail(queue[c]) ELSE queue[d]
  BY DEF TypeOK
<1>3. queue' \in [Conns -> Seq(Jobs)]
  BY <1>1 DEF TypeOK
<1>4. \A d \in Conns : \A i \in 1 .. Len(queue'[d]) :
        LET k == IF d = c THEN i + 1 ELSE i
        IN  k \in 1 .. Len(queue[d]) /\ queue'[d][i] = queue[d][k]
  <2> TAKE d \in Conns
  <2> TAKE i \in 1 .. Len(queue'[d])
  <2>1. CASE d # c BY <2>1, <1>2
  <2>2. CASE d = c
    <3>1. queue'[d] = Tail(queue[c]) BY <2>2, <1>2
    <3>2. i \in 1 .. Len(Tail(queue[c])) BY <3>1
    <3>3. i + 1 \in 1 .. Len(queue[c]) /\ Tail(queue[c])[i] = queue[c][i + 1]
      BY <3>2, <1>1, TailIs
    <3> QED BY <2>2, <3>1, <3>3
  <2> QED BY <2>1, <2>2
<1>5. Head(queue[c]) \in Sent
  BY <1>1, SentIs
<1>6. ASSUME NEW r \in Sent' PROVE r \in Sent /\ r # Head(queue[c])
  <2>1. PICK d \in Conns : \E i \in DOMAIN queue'[d] : queue'[d][i] = r
    BY <1>6, SentNext
  <2>2. PICK i \in DOMAIN queue'[d] : queue'[d][i] = r BY <2>1
  <2>3. queue'[d] \in Seq(Jobs) /\ queue[d] \in Seq(Jobs)
    BY <1>3 DEF TypeOK
  <2>4. i \in 1 .. Len(queue'[d]) BY <2>2, <2>3
  <2>5. PICK k \in 1 .. Len(queue[d]) :
          queue[d][k] = r /\ k = IF d = c THEN i + 1 ELSE i
    BY <1>4, <2>2, <2>4
  <2>6. r \in Sent BY <2>3, <2>5, SentIs
  <2>7. r # Head(queue[c])
    <3>1. 1 \in 1 .. Len(queue[c]) BY <1>1
    <3>2. ~(d = c /\ k = 1) BY <2>4, <2>5
    <3> QED BY <1>1, <2>5, <3>1, <3>2 DEF OnceQueued
  <2> QED BY <2>6, <2>7
<1>7. ASSUME NEW r \in Sent, r # Head(queue[c]) PROVE r \in Sent'
  <2>1. PICK d \in Conns : \E i \in DOMAIN queue[d] : queue[d][i] = r
    BY <1>7, SentIs
  <2>2. PICK k \in DOMAIN queue[d] : queue[d][k] = r BY <2>1
  <2>3. queue[d] \in Seq(Jobs) BY DEF TypeOK
  <2>4. CASE d # c BY <2>2, <2>4, <1>2, SentNext
  <2>5. CASE d = c
    <3>1. k # 1 BY <2>2, <2>5, <1>1, <1>7
    <3>2. k - 1 \in DOMAIN queue'[c] /\ queue'[c][k - 1] = r
      <4>1. k \in 1 .. Len(queue[c]) /\ queue[c][k] = r
        BY <2>2, <2>3, <2>5
      <4>2. queue'[c] = Tail(queue[c]) BY <1>2
      <4>3. /\ k - 1 \in DOMAIN Tail(queue[c])
            /\ Tail(queue[c])[k - 1] = queue[c][k - 1 + 1] /\ k - 1 + 1 = k
        BY <4>1, <3>1, <1>1, TailIs
      <4> QED BY <4>1, <4>2, <4>3
    <3> QED BY <3>2, SentNext
  <2> QED BY <2>4, <2>5
<1>8. OnceQueued'
  <2> SUFFICES ASSUME NEW d \in Conns, NEW e \in Conns,
                      NEW i \in 1 .. Len(queue'[d]), NEW j \in 1 .. Len(queue'[e]),
                      queue'[d][i] = queue'[e][j]
               PROVE  d = e /\ i = j
    BY DEF OnceQueued
  <2>1. PICK k \in 1 .. Len(queue[d]) :
          queue'[d][i] = queue[d][k] /\ k = IF d = c THEN i + 1 ELSE i
    BY <1>4
  <2>2. PICK l \in 1 .. Len(queue[e]) :
          queue'[e][j] = queue[e][l] /\ l = IF e = c THEN j + 1 ELSE j
    BY <1>4
  <2>3. d = e /\ k = l BY <2>1, <2>2 DEF OnceQueued
  <2>4. i \in Int /\ j \in Int OBVIOUS
  <2> QED BY <2>1, <2>2, <2>3, <2>4
<1> QED BY <1>3, <1>5, <1>6, <1>7, <1>8

\* A stored request is answered: its place is free.
LEMMA SuccessStep == ASSUME QueueInv, NEW c \in Conns, Success(c) PROVE QueueInv'
<1> USE DEF QueueInv
<1> DEFINE h == Head(queue[c])
<1>1. /\ h \in Sent /\ Sent' = Sent \ {h}
      /\ OnceQueued' /\ queue' \in [Conns -> Seq(Jobs)]
  BY AnsweredQueues DEF Success, Answered
<1>2. /\ h \in done /\ npending' = npending - Cost[h]
      /\ UNCHANGED <<kind, lastcnum, level, req, done, accepted, flushed, call, failed>>
  BY DEF Success, Answered
<1> HIDE DEF h
<1>3. Unsettled' = Unsettled \ {h} /\ h \in Unsettled
  BY <1>1, <1>2 DEF Unsettled
<1>4. Cost' = Cost /\ Limit' = Limit /\ Requested' = Requested
  BY <1>2 DEF Cost, Limit, Requested
<1>5. /\ Total(Cost, Unsettled \ {h}) = Total(Cost, Unsettled) - Cost[h]
      /\ Total(Cost, Unsettled \ {h}) \in Int /\ Cost[h] \in Nat
      /\ IsFiniteSet(Unsettled \ {h})
  BY <1>3, QueueFacts, TotalRemove, FS_RemoveElement
<1>6. Load(Unsettled)' + Requested' <= npending'
  BY <1>2, <1>3, <1>4, <1>5, LoadsNext, QueueFacts
<1>7. Window'
  <2>1. Sent \subseteq Unsettled /\ IsFiniteSet(Sent)
    BY QueueFacts, FS_Subset DEF Unsettled
  <2>2. Total(Cost, Sent \ {h}) <= Total(Cost, Sent) /\ Total(Cost, Sent \ {h}) \in Int
    BY <1>1, <2>1, QueueFacts, TotalRemove
  <2>3. Load(Sent)' <= Limit BY <1>1, <1>4, <2>2, LoadsNext, QueueFacts
  <2> QED BY <2>3, <1>4 DEF Window
<1>8. TypeOK'
  <2>1. npending' \in Int BY <1>2, <1>5, QueueFacts
  <2> QED BY <1>1, <1>2, <2>1 DEF TypeOK
<1>9. Counted' BY <1>3, <1>5, <1>6 DEF Counted
<1>10. NewJob' /\ FlushStored'
  BY <1>2, <1>3, <1>4 DEF NewJob, FlushStored
<1> QED BY <1>1, <1>7, <1>8, <1>9, <1>10

\* An answer is lost: the request keeps its place, whoever waits is told.
LEMMA FailureStep == ASSUME QueueInv, NEW c \in Conns, Failure(c) PROVE QueueInv'
<1> USE DEF QueueInv
<1> DEFINE h == Head(queue[c])
<1>1. /\ h \in Sent /\ Sent' = Sent \ {h}
      /\ OnceQueued' /\ queue' \in [Conns -> Seq(Jobs)]
  BY AnsweredQueues DEF Failure, Answered
<1>2. /\ npending' = npending /\ call' \in {"none", "dead"} /\ failed' = TRUE
      /\ UNCHANGED <<kind, lastcnum, level, req, done, accepted, flushed>>
  BY DEF Failure, Answered, AfterFailure
<1> HIDE DEF h
<1>3. Unsettled' \in SUBSET Unsettled
  BY <1>1, <1>2 DEF Unsettled
<1>4. Cost' = Cost /\ Limit' = Limit /\ Requested' = 0
  BY <1>2 DEF Cost, Limit, Requested
<1>5. /\ Total(Cost, Unsettled') <= Total(Cost, Unsettled)
      /\ IsFiniteSet(Unsettled') /\ Total(Cost, Unsettled') \in Int
  <2>1. IsFiniteSet(Unsettled') BY <1>3, QueueFacts, FS_Subset
  <2> QED BY <2>1, <1>3, QueueFacts, TotalCovers, TotalSplits DEF SumCovers, SumSplits
<1>6. Load(Unsettled)' + Requested' <= npending'
  BY <1>2, <1>4, <1>5, LoadsNext, QueueFacts
<1>7. Window'
  <2>1. Sent \subseteq Unsettled /\ IsFiniteSet(Sent)
    BY QueueFacts, FS_Subset DEF Unsettled
  <2>2. /\ Total(Cost, Sent \ {h}) <= Total(Cost, Sent)
        /\ Total(Cost, Sent \ {h}) \in Int
    <3>1. h \in Unsettled /\ Cost[h] \in Nat BY <1>1, <2>1, QueueFacts
    <3> QED BY <1>1, <2>1, <3>1, QueueFacts, TotalRemove
  <2>3. Load(Sent)' <= Limit BY <1>1, <1>4, <2>2, LoadsNext, QueueFacts
  <2> QED BY <2>3, <1>4 DEF Window
<1>8. TypeOK'
  BY <1>1, <1>2 DEF TypeOK
<1>9. Counted' BY <1>5, <1>6 DEF Counted
<1>10. NewJob' /\ FlushStored'
  BY <1>2, <1>4 DEF NewJob, FlushStored
<1> QED BY <1>1, <1>7, <1>8, <1>9, <1>10

-----------------------------------------------------------------------------
(* The queues: the theorems. *)

\* Every step of the program, the network or the server keeps the invariant.
LEMMA QueueInvNext == QueueInv /\ [QueueNext]_queueVars => QueueInv'
<1> SUFFICES ASSUME QueueInv, [QueueNext]_queueVars PROVE QueueInv'
  OBVIOUS
<1>1. ASSUME NEW r \in Jobs, File(r) \/ Serve(r) PROVE QueueInv'
  BY <1>1, FileStep, ServeStep
<1>2. ASSUME NEW how \in {"flush", "end"}, Wait(how) PROVE QueueInv'
  BY <1>2, WaitStep
<1>3. ASSUME NEW c \in Conns, Success(c) \/ Failure(c) PROVE QueueInv'
  BY <1>3, SuccessStep, FailureStep
<1>4. CASE Send \/ SendFails \/ Drained \/ Free
  BY <1>4, SendStep, SendFailsStep, DrainedStep, FreeStep
<1>5. CASE UNCHANGED queueVars
  <2>1. TypeOK' BY <1>5 DEF QueueInv, TypeOK, queueVars, transaction
  <2>2. FlushStored' BY <1>5 DEF QueueInv, FlushStored, queueVars
  <2> QED BY <1>5, <2>1, <2>2, CalmStep DEF queueVars, transaction
<1> QED BY <1>1, <1>2, <1>3, <1>4, <1>5 DEF QueueNext

\* What is not settled is counted, for any requests, lengths and connections.
THEOREM QueueInvKept == QueueSpec => []QueueInv
BY QueueInvInit, QueueInvNext, PTL DEF QueueSpec

\* A flush or end that returns success has stored all that was accepted before
\* it, whatever failed in between (FlushStored).
THEOREM FlushesStored == QueueSpec => []FlushStored
<1>1. QueueInv => FlushStored BY DEF QueueInv
<1> QED BY <1>1, QueueInvKept, PTL

\* No more bytes or deletes are in the hands of the network than the limit.
THEOREM WindowHolds == QueueSpec => []Window
<1>1. QueueInv => Window BY DEF QueueInv
<1> QED BY <1>1, QueueInvKept, PTL
=============================================================================
