------------------------------ MODULE ChunksInv ------------------------------
(***************************************************************************)
(* The inductive invariant behind the counts of module Chunks.             *)
(*                                                                         *)
(* What the chunk directory says of a chunk is at least what the archives  *)
(* on the server amount to, and just that as long as the server has lost   *)
(* nothing.  A command that is under way has in memory what the directory  *)
(* says, and what it has met so far of the archive at hand.                *)
(***************************************************************************)
EXTENDS Chunks

-----------------------------------------------------------------------------
\* Archives I, under their keys: who uses chunk c, how often they do, the
\* chunks they use, and their files.
UsersOf(I, c) == {k \in DOMAIN I : c \in Refs(I[k])}
UsesOf(I, c)  == SumOf([k \in DOMAIN I |-> Copies(I[k], c)])
RefsOf(I)     == UNION {Refs(I[k]) : k \in DOMAIN I}
FilesOf(I)    == SumOf([k \in DOMAIN I |-> Files(I[k])])

\* What a table says of chunk c; of one that it does not have, nothing.
NRefs(tab, c)   == IF c \in DOMAIN tab THEN tab[c].nrefs ELSE 0
NCopies(tab, c) == IF c \in DOMAIN tab THEN tab[c].ncopies ELSE 0

\* A count is at least n, or just n.
AtLeast(count, n, exact) == n <= count /\ (exact => count = n)

\* A table, with extra statistics e, describes archives I.
Describes(tab, e, I, exact) ==
  /\ \A c \in Chunk :
       /\ AtLeast(NRefs(tab, c), Cardinality(UsersOf(I, c)), exact)
       /\ AtLeast(NCopies(tab, c), UsesOf(I, c), exact)
  /\ AtLeast(e, FilesOf(I), exact)

IsArchives(I) == /\ DOMAIN I \subseteq Key /\ IsFiniteSet(DOMAIN I)
                 /\ I \in [DOMAIN I -> Archive]

IsServer(s) == /\ s = [m |-> s.m, i |-> s.i, c |-> s.c]
               /\ s.m \subseteq Key /\ IsArchives(s.i)
               /\ s.c \subseteq Chunk /\ IsFiniteSet(s.c)

IsDirectory(d) ==
  /\ d = [tab |-> d.tab, extra |-> d.extra]
  /\ DOMAIN d.tab \subseteq Chunk /\ IsFiniteSet(DOMAIN d.tab)
  /\ d.tab \in [DOMAIN d.tab -> [nrefs : Nat \ {0}, ncopies : Nat]]
  /\ d.extra \in Nat

\* What survives a crash.
Durable(s, d) ==
  /\ IsServer(s) /\ IsDirectory(d)
  /\ synced => Describes(d.tab, d.extra, s.i, ~damaged)
  /\ ~damaged => s.m = DOMAIN s.i /\ s.c = RefsOf(s.i)

-----------------------------------------------------------------------------
\* A table in memory.
IsMem(T) ==
  /\ T = [ht |-> T.ht, up |-> T.up, total |-> T.total, unique |-> T.unique,
          extra |-> T.extra]
  /\ IsFiniteSet(DOMAIN T.ht) /\ T.ht \in [DOMAIN T.ht -> Entry]
  /\ IsTable(T)

\* Statistics are what adding up the table gives.
AddedUp(T) ==
  /\ T.total = SumOf([c \in DOMAIN T.ht |-> T.ht[c].ncopies])
  /\ T.unique = Cardinality({c \in DOMAIN T.ht : T.ht[c].nrefs > 0})

\* What is left of an archive for chunkiter to visit; how often it has met c.
Left(i) == [h |-> i.h \o i.buf, x |-> i.x]
Walks == [h : Seq(Data), x : Seq(Index), buf : Seq(Data)]
Met(c) == Copies(srv.i[key], c) - Copies(Left(it), c)
OnWalk == key \in DOMAIN srv.i /\ \A c \in Chunk : Met(c) \in Nat

Some(n) == IF n # 0 THEN 1 ELSE 0

\* T has what the directory has and n[c] references to each chunk c.
WriteTable(T, n) ==
  /\ IsMem(T) /\ AddedUp(T)
  /\ T.up = {c \in Chunk : n[c] # 0} \ DOMAIN dir.tab
  /\ DOMAIN T.ht = DOMAIN dir.tab \cup T.up
  /\ \A c \in DOMAIN T.ht :
       T.ht[c] = Row(NRefs(dir.tab, c) + Some(n[c]), NCopies(dir.tab, c) + n[c],
                     n[c] # 0, 0)

CopiesOf(a) == [c \in Chunk |-> Copies(a, c)]

Far == [h |-> ar.h \o buf, x |-> ar.x]

Writing ==
  op = "write" =>
    /\ synced /\ key \in Key
    /\ WriteTable(mem, CopiesOf(Far)) /\ mem.extra = dir.extra
    /\ Len(buf) < MaxIndex

\* The last checkpoint could be committed as it is.
Checkpointed ==
  saved # None =>
    /\ Durable(Uploaded(saved.key, saved.ar, saved.up), saved.dir)
    /\ saved.key \notin srv.m \cup DOMAIN srv.i

\* The table has what the directory has, without what was met.
Deleting ==
  op = "delete" =>
    /\ synced /\ key \in srv.m /\ OnWalk /\ keep = srv.m \ {key}
    /\ AddedUp(mem) /\ mem.extra = dir.extra
    /\ DOMAIN mem.ht = DOMAIN dir.tab
    /\ \A c \in DOMAIN mem.ht :
         mem.ht[c] = Row(dir.tab[c].nrefs - Some(Met(c)), dir.tab[c].ncopies - Met(c),
                         Met(c) # 0, 0)
    /\ del = {c \in DOMAIN mem.ht : mem.ht[c].nrefs = 0}

\* Archives that fsck has counted.
Done == [k \in (keep \ todo) \ {key} |-> srv.i[k]]

Checking ==
  op \in {"fsck", "prune"} =>
    /\ todo \subseteq keep /\ keep \subseteq Sound
    /\ {k \in Sound : Refs(srv.i[k]) \subseteq srv.c} \subseteq keep
    /\ DOMAIN mem.ht = srv.c
    /\ Describes(mem.ht, mem.extra, Done, TRUE)
    /\ key = None => it = NoIter
    /\ key # None =>
         /\ key \in keep \ todo /\ OnWalk
         /\ \A c \in Chunk : Met(c) # 0 => c \in srv.c
         /\ \A c \in srv.c : mem.ht[c].ctape = (Met(c) # 0) /\ mem.ht[c].nct = Met(c)
         /\ tape.extra = Files(srv.i[key])

Resting ==
  /\ op = "none" => key = None /\ del = {}
  /\ op # "write" => saved = None /\ ar = NoArchive /\ buf = <<>>
  /\ op \in {"none", "write"} => it = NoIter

Tapes == [ht : {NoTable.ht}, up : {{}}, total : Nat, unique : Nat, extra : Nat]

Types ==
  /\ synced \in BOOLEAN /\ damaged \in BOOLEAN /\ faults \in Nat
  /\ op \in {"none", "write", "delete", "fsck", "prune"}
  /\ IsMem(mem) /\ tape \in Tapes
  /\ key \in Key \cup {None}
  /\ ar \in Archive /\ buf \in Seq(Data) /\ it \in Walks
  /\ todo \subseteq Key /\ keep \subseteq Key /\ del \subseteq Chunk

IInv == /\ Types /\ Durable(srv, dir) /\ Checkpointed
        /\ Resting /\ Writing /\ Deleting /\ Checking
=============================================================================
