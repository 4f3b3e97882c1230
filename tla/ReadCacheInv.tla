---------------------------- MODULE ReadCacheInv ----------------------------
(***************************************************************************)
(* The inductive invariant behind LRUOrder, Accounted and Served of module *)
(* ReadCache, stated of any cache so that it can be followed through       *)
(* cache_prune, cache_lru_remove and cache_lru_add.                        *)
(***************************************************************************)
EXTENDS ReadCache

OrNull == Files \cup {NULL}
Entries == [known : BOOLEAN, inqueue : BOOLEAN, buf : OrNull, buflen : Nat,
            next_lru : OrNull, next_mru : OrNull]
Caches == [ht : [Files -> Entries], mru : OrNull, lru : OrNull, sz : Int,
           maxsz : Nat, fault : {FALSE}]
Lists == [mru : OrNull, lru : OrNull, sz : Int, maxsz : Nat]

\* The files of s, each once, are those in the list of cache c, in its order.
Linked(c, s) ==
  /\ \A i, j \in 1 .. Len(s) : s[i] = s[j] => i = j
  /\ \A f \in Files : c.ht[f].inqueue <=> \E i \in 1 .. Len(s) : s[i] = f
  /\ c.mru = IF Len(s) = 0 THEN NULL ELSE s[1]
  /\ c.lru = IF Len(s) = 0 THEN NULL ELSE s[Len(s)]
  /\ \A i \in 1 .. Len(s) :
       /\ c.ht[s[i]].next_mru = IF i = 1 THEN NULL ELSE s[i - 1]
       /\ c.ht[s[i]].next_lru = IF i = Len(s) THEN NULL ELSE s[i + 1]

\* Cache c has the list s and its size; a buffer has the file it is of.
IsList(c, s) ==
  /\ c \in Caches /\ s \in Seq(Files) /\ Linked(c, s)
  /\ c.sz = SumOver(Taken(c.ht), ToSet(s))
  /\ \A f \in Files :
       /\ c.ht[f].buf \in {NULL, f}
       /\ c.ht[f].buflen = IF c.ht[f].buf = NULL THEN 0 ELSE Length[f]

OnlyListed(c) == \A f \in Files : c.ht[f].buf # NULL => c.ht[f].inqueue

\* The server is asked for files, with a length or without.
Requests == [file : Files, len : Int]

IInv ==
  /\ list \in Lists /\ IsList(Whole, order) /\ OnlyListed(Whole)
  /\ reads \in Seq(Requests) /\ stored \in [Files -> BOOLEAN]
  /\ got.file \in OrNull /\ Served
=============================================================================
