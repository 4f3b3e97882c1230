----------------------------- MODULE ReadCache -----------------------------
(***************************************************************************)
(* The cache in front of the server's files (storage_read_cache.c) and the *)
(* reads that go through it (storage_read.c).  It is a hash table of files *)
(* named in advance and a doubly linked list of them, the most recently    *)
(* named first; the data come later, when a read that may have been sent   *)
(* long before is answered.  An entry that was evicted stays in the table. *)
(*                                                                         *)
(* What a file contains is its name; a file on the server may be lost or   *)
(* damaged at any time.                                                    *)
(***************************************************************************)
EXTENDS Integers, Sequences, FiniteSets, SequencesExt, FiniteSetsExt

CONSTANTS
  Files, NULL,
  Length,    \* the length of each file
  Limits,    \* the limits that are ever set
  MaxReads   \* bound: reads at a time

ASSUME ReadCacheAssumption ==
  /\ NULL \notin Files /\ IsFiniteSet(Files) /\ Length \in [Files -> Nat \ {0}]
  /\ Limits \subseteq Nat /\ Limits # {} /\ MaxReads \in Nat

VARIABLES
  ht,     \* of each file: known (is it in the table?), inqueue, buf, buflen,
          \* next_lru and next_mru
  list,   \* of the cache: mru, lru, sz and maxsz
  reads,  \* requests sent to the server, oldest first
  spin,   \* does storage_read_file wait for the newest of them?
  stored, \* server: is the file there, and undamaged?
  got,    \* the last read that ended
  order,  \* history: the list as it should be
  fault   \* a null pointer was followed or an assertion failed

cache == <<ht, list, order, fault>>
vars == <<cache, reads, spin, stored, got>>

NoEntry == [known |-> FALSE, inqueue |-> FALSE, buf |-> NULL, buflen |-> 0,
            next_lru |-> NULL, next_mru |-> NULL]

AnyLength == -1     \* no length is given

\* The sum of the values of w on S.
SumOver(w, S) == MapThenSumSet(LAMBDA f : w[f], S)

Unlimited == SumOver(Length, Files)   \* SIZE_MAX: never exceeded

-----------------------------------------------------------------------------
(* The list.  c is a record of the hash table, the list and fault.         *)

\* f is taken out of the list, whose new tail is lru.
Unlinked(c, f, lru) ==
  LET e == c.ht[f]
      h == [g \in Files |->
             IF g = f THEN [e EXCEPT !.inqueue = FALSE,
                                     !.next_lru = NULL, !.next_mru = NULL]
             ELSE IF g = e.next_mru THEN [c.ht[g] EXCEPT !.next_lru = e.next_lru]
             ELSE IF g = e.next_lru THEN [c.ht[g] EXCEPT !.next_mru = e.next_mru]
             ELSE c.ht[g]]
  IN [c EXCEPT !.ht = h, !.lru = lru,
               !.mru = IF e.next_mru = NULL THEN e.next_lru ELSE @,
               !.sz = @ - e.buflen, !.fault = @ \/ ~e.inqueue]

\* Mutant: the tail is not updated.
LruRemoveHead(c, f) == Unlinked(c, f, c.lru)

\* cache_lru_remove.
LruRemove(c, f) ==
  Unlinked(c, f, IF c.ht[f].next_lru = NULL THEN c.ht[f].next_mru ELSE c.lru)

\* cache_lru_add.
LruAdd(c, f) ==
  LET h == [g \in Files |->
             IF g = f THEN [c.ht[f] EXCEPT !.inqueue = TRUE, !.next_mru = NULL,
                                           !.next_lru = c.mru]
             ELSE IF g = c.mru THEN [c.ht[g] EXCEPT !.next_mru = f]
             ELSE c.ht[g]]
  IN [c EXCEPT !.ht = h, !.mru = f,
               !.lru = IF @ = NULL THEN f ELSE @,
               !.sz = @ + c.ht[f].buflen, !.fault = @ \/ c.ht[f].inqueue]

\* One turn of the loop in cache_prune.
PruneTurn(c) ==
  IF c.sz <= c.maxsz \/ c.fault THEN c
  ELSE IF c.lru = NULL THEN [c EXCEPT !.fault = TRUE]
  ELSE LET r == LruRemove(c, c.lru)
       IN [r EXCEPT !.ht[c.lru].buf = NULL, !.ht[c.lru].buflen = 0]

\* cache_prune: no list is so long that it takes more turns.
Turns == Cardinality(Files) + 1
Prune(c) ==
  LET after[n \in 0 .. Turns] == IF n = 0 THEN c ELSE PruneTurn(after[n - 1])
  IN after[Turns]

Whole == [ht |-> ht, mru |-> list.mru, lru |-> list.lru, sz |-> list.sz,
          maxsz |-> list.maxsz, fault |-> fault]

Becomes(c) ==
  /\ ht' = c.ht /\ fault' = c.fault
  /\ list' = [mru |-> c.mru, lru |-> c.lru, sz |-> c.sz, maxsz |-> c.maxsz]

-----------------------------------------------------------------------------
(* The operations of the cache.                                            *)

\* What pruning should leave: as much of the front of the list as fits.
Taken(h) == [f \in Files |-> h[f].buflen]
Size(s) == SumOver(Taken(ht), ToSet(s))
Fits(s) == LET n == CHOOSE n \in 0 .. Len(s) :
                      /\ Size(SubSeq(s, 1, n)) <= list.maxsz
                      /\ \A m \in n + 1 .. Len(s) :
                           Size(SubSeq(s, 1, m)) > list.maxsz
           IN SubSeq(s, 1, n)

\* storage_read_cache_add_name.
AddName(f) ==
  /\ ~spin
  /\ LET p == Prune(Whole)
         q == IF p.ht[f].inqueue THEN LruRemove(p, f) ELSE p
     IN Becomes(LruAdd([q EXCEPT !.ht[f].known = TRUE], f))
  /\ order' = <<f>> \o RemoveFirst(Fits(order), f)
  /\ UNCHANGED <<reads, spin, stored, got>>

\* The same without memory for a new entry: the cache has been pruned, and
\* chunkiter, which asked for it, goes on.
AddNameFails(f) ==
  /\ ~spin /\ ~ht[f].known
  /\ Becomes(Prune(Whole)) /\ order' = Fits(order)
  /\ UNCHANGED <<reads, spin, stored, got>>

\* storage_read_cache_set_limit.
SetLimit(n) ==
  /\ ~spin
  /\ list' = [list EXCEPT !.maxsz = n]
  /\ UNCHANGED <<ht, order, fault, reads, spin, stored, got>>

\* Mutant: data that are there already are replaced.
AddDataAgain(f) ==
  IF ~ht[f].inqueue THEN UNCHANGED cache
  ELSE /\ ht' = [ht EXCEPT ![f].buf = f, ![f].buflen = Length[f]]
       /\ list' = [list EXCEPT !.sz = @ + Length[f]]
       /\ UNCHANGED <<order, fault>>

\* storage_read_cache_add_data, when there is memory.
AddData(f) ==
  IF ~ht[f].known \/ ~ht[f].inqueue \/ ht[f].buf # NULL THEN UNCHANGED cache
  ELSE /\ ht' = [ht EXCEPT ![f].buf = f, ![f].buflen = Length[f]]
       /\ list' = [list EXCEPT !.sz = @ + Length[f]]
       /\ UNCHANGED <<order, fault>>

-----------------------------------------------------------------------------
(* Reads.  len is the length the caller expects.                           *)

Request(f, len) == [file |-> f, len |-> len]
Result(f, len, status, data) ==
  [file |-> f, len |-> len, status |-> status, data |-> data]
NoResult == Result(NULL, AnyLength, -1, NULL)

\* Mutant: a length that differs from what is cached is not noticed.
CachedStatusAny(f, len) == 0

CachedStatus(f, len) == IF len \in {AnyLength, ht[f].buflen} THEN 0 ELSE 2

\* storage_read_file, storage_read_file_alloc: from the cache ...
ReadCached(f, len) ==
  /\ ~spin /\ ht[f].known /\ ht[f].buf # NULL
  /\ got' = Result(f, len, CachedStatus(f, len),
                   IF CachedStatus(f, len) = 0 THEN ht[f].buf ELSE NULL)
  /\ UNCHANGED <<cache, reads, spin, stored>>

\* ... or from the server; or storage_read_file_callback, which does not wait
\* and is only ever called without a buffer.
ReadFile(f, len, wait) ==
  /\ ~spin /\ Len(reads) < MaxReads
  /\ IF wait THEN ht[f].buf = NULL ELSE len = AnyLength
  /\ reads' = Append(reads, Request(f, len))
  /\ spin' = wait
  /\ UNCHANGED <<cache, stored, got>>

\* The server answers (external): 1 if the file is gone, 2 if it is damaged or
\* the length is not the one asked for.
Status(r) ==
  IF stored[r.file] THEN {IF r.len \in {AnyLength, Length[r.file]} THEN 0 ELSE 2}
  ELSE {1, 2}

\* callback_read_file_response, and the end of a spin for it; memory says
\* whether there is some for the cache.
Answer(memory) ==
  /\ reads # <<>>
  /\ LET r == Head(reads) IN
       \E sc \in Status(r) :
         /\ got' = Result(r.file, r.len, sc, IF sc = 0 THEN r.file ELSE NULL)
         /\ IF sc = 0 /\ memory THEN AddData(r.file) ELSE UNCHANGED cache
  /\ reads' = Tail(reads)
  /\ spin' = (spin /\ Len(reads) > 1)
  /\ UNCHANGED stored

\* External: a file is deleted by another transaction, or damaged.
Lose(f) ==
  /\ stored[f] /\ stored' = [stored EXCEPT ![f] = FALSE]
  /\ UNCHANGED <<cache, reads, spin, got>>

-----------------------------------------------------------------------------
Init ==
  /\ ht = [f \in Files |-> NoEntry]
  /\ list = [mru |-> NULL, lru |-> NULL, sz |-> 0, maxsz |-> Unlimited]
  /\ reads = <<>> /\ spin = FALSE
  /\ stored = [f \in Files |-> TRUE]
  /\ got = NoResult /\ order = <<>> /\ fault = FALSE

Lens(f) == {AnyLength, Length[f], Length[f] + 1}

Next ==
  \/ \E f \in Files :
       \/ AddName(f) \/ AddNameFails(f) \/ Lose(f)
       \/ \E l \in Lens(f) : ReadCached(f, l)
       \/ \E l \in Lens(f), w \in BOOLEAN : ReadFile(f, l, w)
  \/ \E n \in Limits : SetLimit(n)
  \/ \E m \in BOOLEAN : Answer(m)

Spec == Init /\ [][Next]_vars

-----------------------------------------------------------------------------
(* What it promises.                                                       *)

\* The list from either end is the queue of what was named most recently, and
\* pruning takes from its end no more than it has to.
LRUOrder ==
  /\ ~fault
  /\ {f \in Files : ht[f].inqueue} = ToSet(order)
  /\ list.mru = IF order = <<>> THEN NULL ELSE Head(order)
  /\ list.lru = IF order = <<>> THEN NULL ELSE Last(order)
  /\ \A i \in DOMAIN order :
       LET e == ht[order[i]] IN
         /\ e.next_mru = IF i = 1 THEN NULL ELSE order[i - 1]
         /\ e.next_lru = IF i = Len(order) THEN NULL ELSE order[i + 1]

\* sz is what the buffers in the list take, and no other file has one: what
\* was evicted while a read was under way is neither kept nor counted.
Accounted ==
  /\ list.sz = Size(order)
  /\ \A f \in Files : ht[f].buf # NULL => ht[f].inqueue
  /\ \A f \in Files : ht[f].buflen = IF ht[f].buf = NULL THEN 0 ELSE Length[f]

\* A read that succeeds returns the file and it has the length expected; it
\* fails only if the length is wrong or the file has been lost.
Served ==
  got.file # NULL =>
    IF got.status = 0
    THEN got.data = got.file /\ got.len \in {AnyLength, Length[got.file]}
    ELSE got.len \notin {AnyLength, Length[got.file]} \/ ~stored[got.file]
=============================================================================
