------------------------------- MODULE Chunks -------------------------------
(***************************************************************************)
(* The chunk layer of tarsnap: tar/chunks/chunks_{write,delete,stats,      *)
(* directory}.c, with the commands of tar/multitape that drive it.         *)
(*                                                                         *)
(* An archive is a list of references to chunks, and a chunk is stored     *)
(* once however many archives refer to it.  The client keeps, for every    *)
(* chunk on the server, how many archives use it (nrefs) and how many      *)
(* references there are in all (ncopies); nothing else says which chunks a *)
(* delete may remove.  The counts are changed one reference at a time, by  *)
(* a writer that is interrupted and restarted from a checkpoint, by a      *)
(* delete that reads the list of references from the very chunks it        *)
(* removes, and by an fsck that counts again from nothing.                 *)
(*                                                                         *)
(* Simplifications.  A chunk is named by its contents, so a chunk of the   *)
(* chunk index stream IS the sequence of chunk headers in it, and headers  *)
(* do not straddle two such chunks.  Statistics count chunks and files and *)
(* not bytes.  The header and the trailer stream of an archive, which the  *)
(* code treats alike, are one list, "h".  A metaindex is there or not, as  *)
(* a whole.  Contents of files are never corrupt.  A commit takes effect   *)
(* on the server and on the client in one step: module Multitape is about  *)
(* that.  There are no dry runs.                                           *)
(***************************************************************************)
EXTENDS Integers, Sequences, FiniteSets, FiniteSetsExt, Functions

CONSTANTS
  Data,       \* chunks of file data
  Header,     \* chunks that the header stream is cut into; they may be data
  Name,       \* names of archives
  None,       \* no archive, no checkpoint
  Cut,        \* data after whose header the index stream is cut
  MaxIndex,   \* headers in a chunk of the index stream
  MaxRefs,    \* bound: references to data and headers in one archive
  MaxCkpt,    \* bound: checkpoints in one write transaction
  IFrag,      \* chunk headers in one file of an archive's metaindex
  MaxFault,   \* bound: files lost and transactions by other machines
  Oom         \* may the memory for a cache entry be refused?

ASSUME ChunksAssumption ==
  /\ Header \subseteq Data /\ Cut \subseteq Data
  /\ {MaxIndex, IFrag} \subseteq Nat \ {0}
  /\ {MaxRefs, MaxCkpt, MaxFault} \subseteq Nat
  /\ Oom \in BOOLEAN
  /\ None \notin Name \X BOOLEAN

VARIABLES
  \* what survives a crash
  srv,        \* files on the server: "m"etadata, meta"i"ndex, "c"hunks
  dir,        \* the file "directory" in the cache directory
  synced,     \* is the client's sequence number the server's?
  \* the command that runs
  op,         \* "none", "write", "delete", "fsck", "prune"
  mem,        \* the chunk table and statistics in its memory
  key,        \* the archive it works on
  ar, buf,    \* write: references so far, index headers not yet in a chunk
  saved,      \* write: the last checkpoint
  nck,        \* write: checkpoints so far
  it,         \* delete, fsck: what chunkiter has still to visit
  tape,       \* fsck: statistics of this archive
  todo,       \* fsck: archives not yet counted
  keep, del,  \* delete, fsck: archives that stay, chunks to be deleted
  \* the environment
  faults,     \* bound
  damaged     \* has a file been lost since the last fsck?

durable == <<srv, dir, synced>>
writer  == <<ar, buf, saved, nck>>
walker  == <<it, tape, todo, keep, del>>
env     == <<faults, damaged>>
vars    == <<durable, op, mem, key, writer, walker, env>>

-----------------------------------------------------------------------------
\* Archives and the references they consist of.

Index == UNION {[1..n -> Data] : n \in 1..MaxIndex}
Chunk == Data \cup Index

\* An archive is called "name", or "name.part" if it was cut short.
Key == Name \X BOOLEAN

\* The streams of a tapemetaindex.
Archive == [h : Seq(Data), x : Seq(Index)]
NoArchive == [h |-> <<>>, x |-> <<>>]

\* The places in the index stream of archive a: header p of index chunk j.
Places(a) == {jp \in (DOMAIN a.x) \X (1..MaxIndex) : jp[2] <= Len(a.x[jp[1]])}

\* The chunks that archive a refers to.
Refs(a) == Range(a.h) \cup Range(a.x) \cup {a.x[jp[1]][jp[2]] : jp \in Places(a)}

\* How often archive a refers to chunk c.
Copies(a, c) ==
    Cardinality({j \in DOMAIN a.h : a.h[j] = c})
  + Cardinality({j \in DOMAIN a.x : a.x[j] = c})
  + Cardinality({jp \in Places(a) : a.x[jp[1]][jp[2]] = c})

\* The metadata file, and the fragments of the metaindex (which is never
\* empty: it starts with the lengths of the streams).
Files(a) == 1 + ((Len(a.h) + Len(a.x) + 1 + IFrag - 1) \div IFrag)

\* The sum of the values of a function.
SumOf(f) == MapThenSumSet(LAMBDA x : f[x], DOMAIN f)

-----------------------------------------------------------------------------
\* The chunk table: chunks_internal.h, chunks_directory.c.

\* An entry: struct chunkdata, and the count of one archive beside it.
Row(nrefs, ncopies, ctape, nct) ==
  [nrefs |-> nrefs, ncopies |-> ncopies, ctape |-> ctape, nct |-> nct]
Blank == Row(0, 0, FALSE, 0)

NoTable == [ht |-> [c \in {} |-> Blank], up |-> {},
            total |-> 0, unique |-> 0, extra |-> 0]

\* Mutant: every reference counts as one more archive.
AddRefAlways(T, c) ==
  [T EXCEPT !.total = @ + 1,
            !.ht[c] = Row(@.nrefs + 1, @.ncopies + 1, TRUE, @.nct)]

\* Entry c of table T, marked as used in the current archive.
AddRef(T, c) ==
  [T EXCEPT !.total = @ + 1,
            !.ht[c] = Row(IF @.ctape THEN @.nrefs ELSE @.nrefs + 1,
                          @.ncopies + 1, TRUE, @.nct)]

\* Mutant: a new chunk is not marked as used in the current archive.
NewChunkUnmarked(T, c) ==
  [T EXCEPT !.total = @ + 1,
            !.unique = @ + 1,
            !.up = @ \cup {c},
            !.ht = [x \in DOMAIN T.ht \cup {c} |->
                      IF x = c THEN Row(1, 1, FALSE, 0) ELSE T.ht[x]]]

NewChunk(T, c) ==
  [T EXCEPT !.total = @ + 1,
            !.unique = @ + 1,
            !.up = @ \cup {c},
            !.ht = [x \in DOMAIN T.ht \cup {c} |->
                      IF x = c THEN Row(1, 1, TRUE, 0) ELSE T.ht[x]]]

\* chunks_write_chunk: compress and upload a chunk unless it is there.
WriteChunk(T, c) == IF c \in DOMAIN T.ht THEN AddRef(T, c) ELSE NewChunk(T, c)

\* chunks_directory_read: nothing is marked, statistics are added up.
Loaded ==
  [ht     |-> [c \in DOMAIN dir.tab |->
                 Row(dir.tab[c].nrefs, dir.tab[c].ncopies, FALSE, 0)],
   up     |-> {},
   total  |-> SumOf([c \in DOMAIN dir.tab |-> dir.tab[c].ncopies]),
   unique |-> Cardinality(DOMAIN dir.tab),
   extra  |-> dir.extra]

\* chunks_directory_write: entries without references are left out.
Stored(T) ==
  [tab   |-> [c \in {x \in DOMAIN T.ht : T.ht[x].nrefs # 0} |->
                [nrefs |-> T.ht[c].nrefs, ncopies |-> T.ht[c].ncopies]],
   extra |-> T.extra]

-----------------------------------------------------------------------------
\* multitape_chunkiter_tmd: the chunks of the header stream, then each index
\* chunk followed by the chunks whose headers it holds.

Iter(a) == [h |-> a.h, x |-> a.x, buf |-> <<>>]
NoIter  == Iter(NoArchive)

AtIndex(i) == i.h = <<>> /\ i.buf = <<>> /\ i.x # <<>>

Current(i) == IF i.h # <<>> THEN Head(i.h)
              ELSE IF i.buf # <<>> THEN Head(i.buf) ELSE Head(i.x)

\* The step to the next header.  An index chunk is read after it has been
\* visited; if no memory can be had to remember it in the read cache,
\* chunkiter leaves at once, with the return code of the visit: success.
Advance(i, oom) ==
  IF i.h # <<>> THEN [i EXCEPT !.h = Tail(@)]
  ELSE IF i.buf # <<>> THEN [i EXCEPT !.buf = Tail(@)]
  ELSE IF oom THEN NoIter
  ELSE [i EXCEPT !.x = Tail(@), !.buf = Head(i.x)]

\* An index chunk must be on the server to be read.
Readable(i) == AtIndex(i) => Head(i.x) \in srv.c

\* When memory may be refused, and matters.
OomAt(i) == IF Oom /\ AtIndex(i) THEN BOOLEAN ELSE {FALSE}

-----------------------------------------------------------------------------
Idle ==
  /\ op' = "none" /\ mem' = NoTable /\ key' = None
  /\ ar' = NoArchive /\ buf' = <<>> /\ saved' = None /\ nck' = 0
  /\ it' = NoIter /\ tape' = NoTable /\ todo' = {} /\ keep' = {} /\ del' = {}

Init ==
  /\ srv = [m |-> {}, i |-> [k \in {} |-> NoArchive], c |-> {}]
  /\ dir = [tab |-> [c \in {} |-> [nrefs |-> 0, ncopies |-> 0]], extra |-> 0]
  /\ synced = TRUE
  /\ op = "none" /\ mem = NoTable /\ key = None
  /\ ar = NoArchive /\ buf = <<>> /\ saved = None /\ nck = 0
  /\ it = NoIter /\ tape = NoTable /\ todo = {} /\ keep = {} /\ del = {}
  /\ faults = 0 /\ damaged = FALSE

-----------------------------------------------------------------------------
\* Writing an archive: multitape_write.c, chunks_write.c.

\* The files of archive a appear under key k, with the chunks in up.
Uploaded(k, a, up) ==
  [m |-> srv.m \cup {k},
   i |-> [x \in DOMAIN srv.i \cup {k} |-> IF x = k THEN a ELSE srv.i[x]],
   c |-> srv.c \cup up]

\* The server refuses to store a file that exists.
Accepts(k, up) == k \notin srv.m \cup DOMAIN srv.i /\ up \cap srv.c = {}

\* writetape_open: neither the archive nor its .part may exist.
Open(n) ==
  /\ op = "none" /\ synced
  /\ srv.m \cap {<<n, FALSE>>, <<n, TRUE>>} = {}
  /\ op' = "write" /\ key' = <<n, FALSE>> /\ mem' = Loaded
  /\ UNCHANGED <<durable, writer, walker, env>>

\* Bound: may the archive become longer?
Room == Len(ar.h) + Cardinality(Places(ar)) + Len(buf) < MaxRefs

\* callback_file: a chunk of a file is stored, and its header goes to the
\* chunk index stream, of which a chunk may thereby be complete.
WriteFileChunk(c) ==
  LET T == WriteChunk(mem, c)
      b == Append(buf, c)
  IN /\ op = "write" /\ Room
     /\ IF c \in Cut \/ Len(b) = MaxIndex
          THEN mem' = WriteChunk(T, b) /\ buf' = <<>>
               /\ ar' = [ar EXCEPT !.x = Append(@, b)]
          ELSE mem' = T /\ buf' = b /\ ar' = ar
     /\ mem'.up \cap srv.c = {}
     /\ UNCHANGED <<durable, op, key, saved, nck, walker, env>>

\* writetape_writechunk: the cache says what chunks an unchanged file was
\* cut into, and they are referenced unread if they are still there.
WriteChunkRef(c) == c \in DOMAIN mem.ht /\ WriteFileChunk(c)

\* flushtape: end the index stream, then the header stream, in each of which
\* there may be data that makes one more chunk; write metaindex and metadata.
Headers == {<<>>} \cup IF Room THEN {<<c>> : c \in Header} ELSE {}
WriteChunks(T, s) == IF s = <<>> THEN T ELSE WriteChunk(T, Head(s))
LastIndex == IF buf = <<>> THEN <<>> ELSE <<buf>>
FlushedTable(hd) == WriteChunks(WriteChunks(mem, LastIndex), hd)
FlushedArchive(hd) == [h |-> ar.h \o hd, x |-> ar.x \o LastIndex]
WithFiles(T, a) == [T EXCEPT !.extra = @ + Files(a)]

\* Mutant: the statistics are not restored.
CheckpointKeepingExtra(hd) ==
  LET a == FlushedArchive(hd)
      T == WithFiles(FlushedTable(hd), a)
      k == <<key[1], TRUE>>
  IN /\ op = "write" /\ nck < MaxCkpt
     /\ Accepts(k, T.up)
     /\ saved' = [key |-> k, ar |-> a, up |-> T.up, dir |-> Stored(T)]
     /\ mem' = T
     /\ ar' = a /\ buf' = <<>> /\ nck' = nck + 1
     /\ UNCHANGED <<durable, op, key, walker, env>>

\* writetape_checkpoint: the directory counts the files of the .part archive,
\* the statistics that the transaction goes on with do not.
Checkpoint(hd) ==
  LET a == FlushedArchive(hd)
      T == WithFiles(FlushedTable(hd), a)
      k == <<key[1], TRUE>>
  IN /\ op = "write" /\ nck < MaxCkpt
     /\ Accepts(k, T.up)
     /\ saved' = [key |-> k, ar |-> a, up |-> T.up, dir |-> Stored(T)]
     /\ mem' = [T EXCEPT !.extra = mem.extra]
     /\ ar' = a /\ buf' = <<>> /\ nck' = nck + 1
     /\ UNCHANGED <<durable, op, key, walker, env>>

\* writetape_close: as a checkpoint, and committed.  eof: the archive was
\* truncated.  The files of an earlier .part are not part of the commit.
Close(hd, eof) ==
  LET a == FlushedArchive(hd)
      T == WithFiles(FlushedTable(hd), a)
      k == <<key[1], eof>>
  IN /\ op = "write"
     /\ Accepts(k, T.up)
     /\ srv' = Uploaded(k, a, T.up)
     /\ dir' = Stored(T)
     /\ Idle
     /\ UNCHANGED <<synced, env>>

\* Mutant: the chunk directory of the checkpoint is not installed.
FailKeepingDir ==
  /\ op # "none"
  /\ srv' = IF saved = None THEN srv ELSE Uploaded(saved.key, saved.ar, saved.up)
  /\ Idle
  /\ UNCHANGED <<dir, synced, env>>

\* A command gives up or is killed.  A checkpoint is committed by the next
\* command, without which nothing else happens; all else is forgotten.
Fail ==
  /\ op # "none"
  /\ IF saved = None
       THEN UNCHANGED <<srv, dir>>
       ELSE /\ srv' = Uploaded(saved.key, saved.ar, saved.up)
            /\ dir' = saved.dir
  /\ Idle
  /\ UNCHANGED <<synced, env>>

-----------------------------------------------------------------------------
\* Deleting an archive: multitape_delete.c, chunks_delete.c.

DeleteStart(k) ==
  /\ op = "none" /\ synced
  /\ k \in srv.m /\ k \in DOMAIN srv.i
  /\ op' = "delete" /\ key' = k /\ mem' = Loaded
  /\ it' = Iter(srv.i[k]) /\ keep' = srv.m \ {k}
  /\ UNCHANGED <<durable, writer, tape, todo, del, env>>

\* Mutants: the flag is not looked at; the count is looked at too early.
LastRefUnmarked(c) == mem.ht[c].nrefs <= 1
LastRefEarly(c) == ~mem.ht[c].ctape /\ mem.ht[c].nrefs = 0

\* Is this the last archive that uses the chunk, which is visited for the
\* first time?
LastRef(c) == ~mem.ht[c].ctape /\ mem.ht[c].nrefs = 1

\* Mutant: one archive less for each reference.
UnrefAlways(c) ==
  [mem EXCEPT !.total = @ - 1,
              !.unique = IF LastRef(c) THEN @ - 1 ELSE @,
              !.ht[c] = Row(@.nrefs - 1, @.ncopies - 1, TRUE, @.nct)]

\* chunks_delete_chunk: one reference less; one archive less if this is the
\* first reference met; no chunk when no archive is left.
Unref(c) ==
  [mem EXCEPT !.total = @ - 1,
              !.unique = IF LastRef(c) THEN @ - 1 ELSE @,
              !.ht[c] = Row(IF @.ctape THEN @.nrefs ELSE @.nrefs - 1,
                            @.ncopies - 1, TRUE, @.nct)]

\* What chunks_delete_chunk, the server and chunkiter insist on.
CanUnref(c) ==
  /\ c \in DOMAIN mem.ht
  /\ LastRef(c) => c \in srv.c
  /\ Readable(it)

DeleteChunk ==
  LET c == Current(it)
  IN /\ op = "delete" /\ it # NoIter
     /\ CanUnref(c)
     /\ mem' = Unref(c)
     /\ del' = IF LastRef(c) THEN del \cup {c} ELSE del
     /\ \E oom \in OomAt(it) : it' = Advance(it, oom)
     /\ UNCHANGED <<durable, op, key, writer, tape, todo, keep, env>>

\* Metaindex and metadata are deleted, the directory is written, and all of
\* it committed.
DeleteEnd ==
  /\ op = "delete" /\ it = NoIter
  /\ srv' = [m |-> keep,
             i |-> [k \in DOMAIN srv.i \ {key} |-> srv.i[k]],
             c |-> srv.c \ del]
  /\ dir' = Stored([mem EXCEPT !.extra = @ - Files(srv.i[key])])
  /\ Idle
  /\ UNCHANGED <<synced, env>>

-----------------------------------------------------------------------------
\* --fsck and --fsck-prune: multitape_fsck.c, chunks_stats.c.

\* Archives with both metadata and metaindex.
Sound == srv.m \cap DOMAIN srv.i

\* Phases 1 to 3.  Only --fsck-prune may delete what does not belong.
FsckStart(p) ==
  /\ op = "none"
  /\ p = "fsck" => Sound = srv.m /\ Sound = DOMAIN srv.i
  /\ op' = p /\ todo' = Sound /\ keep' = Sound
  /\ mem' = [NoTable EXCEPT !.ht = [c \in srv.c |-> Blank]]
  /\ UNCHANGED <<durable, key, writer, it, tape, del, env>>

\* Phase 4, the beginning of an archive: chunks_stats_zeroarchive.
FsckArchive(k) ==
  /\ op \in {"fsck", "prune"} /\ key = None
  /\ key' = k /\ todo' = todo \ {k}
  /\ it' = Iter(srv.i[k])
  /\ mem' = [mem EXCEPT !.ht =
                [c \in DOMAIN mem.ht |->
                   Row(mem.ht[c].nrefs, mem.ht[c].ncopies, FALSE, 0)]]
  /\ tape' = WithFiles(NoTable, srv.i[k])
  /\ UNCHANGED <<durable, op, writer, keep, del, env>>

\* chunks_stats_addchunk
FsckChunk ==
  LET c == Current(it)
  IN /\ op \in {"fsck", "prune"} /\ it # NoIter
     /\ c \in DOMAIN mem.ht
     /\ Readable(it)
     /\ tape' = [tape EXCEPT
                   !.total = @ + 1,
                   !.unique = IF mem.ht[c].nrefs <= 1 /\ ~mem.ht[c].ctape
                                THEN @ + 1 ELSE @]
     /\ mem' = [mem EXCEPT !.ht[c] = Row(@.nrefs, @.ncopies, TRUE, @.nct + 1)]
     /\ \E oom \in OomAt(it) : it' = Advance(it, oom)
     /\ UNCHANGED <<durable, op, key, writer, todo, keep, del, env>>

\* A chunk is missing: deletearchive.
FsckBroken ==
  /\ op = "prune" /\ it # NoIter
  /\ Current(it) \notin DOMAIN mem.ht
  /\ keep' = keep \ {key}
  /\ key' = None /\ it' = NoIter /\ tape' = NoTable
  /\ UNCHANGED <<durable, op, mem, writer, todo, del, env>>

\* Mutant: the archive is counted only if it is the first to use a chunk.
FsckAddFirst ==
  /\ op \in {"fsck", "prune"} /\ key # None /\ it = NoIter
  /\ mem' = [mem EXCEPT
               !.total = @ + tape.total,
               !.unique = @ + tape.unique,
               !.extra = @ + tape.extra,
               !.ht = [c \in DOMAIN mem.ht |->
                         Row(IF mem.ht[c].ctape THEN 1 ELSE 0, mem.ht[c].nct,
                             mem.ht[c].ctape, mem.ht[c].nct)]]
  /\ key' = None /\ tape' = NoTable
  /\ UNCHANGED <<durable, op, writer, it, todo, keep, del, env>>

\* chunks_fsck_archive_add
FsckAdd ==
  /\ op \in {"fsck", "prune"} /\ key # None /\ it = NoIter
  /\ mem' = [mem EXCEPT
               !.total = @ + tape.total,
               !.unique = @ + tape.unique,
               !.extra = @ + tape.extra,
               !.ht = [c \in DOMAIN mem.ht |->
                         LET e == mem.ht[c]
                         IN Row(IF e.ctape THEN e.nrefs + 1 ELSE e.nrefs,
                                e.ncopies + e.nct, e.ctape, e.nct)]]
  /\ key' = None /\ tape' = NoTable
  /\ UNCHANGED <<durable, op, writer, it, todo, keep, del, env>>

\* Phase 5, the new directory, and the commit.
Unreferenced == {c \in DOMAIN mem.ht : mem.ht[c].nrefs = 0}
Counted == op \in {"fsck", "prune"} /\ key = None /\ todo = {}
FsckEnd ==
  /\ Counted
  /\ op = "fsck" => Unreferenced = {}
  /\ srv' = [m |-> keep, i |-> [k \in keep |-> srv.i[k]], c |-> srv.c \ Unreferenced]
  /\ dir' = Stored(mem)
  /\ synced' = TRUE /\ damaged' = FALSE
  /\ Idle
  /\ UNCHANGED faults

-----------------------------------------------------------------------------
\* The environment.

\* The server loses a chunk, a metaindex or the metadata of an archive.
LoseFile ==
  /\ op = "none" /\ faults < MaxFault
  /\ \/ \E c \in srv.c : srv' = [srv EXCEPT !.c = @ \ {c}]
     \/ \E k \in DOMAIN srv.i :
          srv' = [srv EXCEPT !.i = [x \in DOMAIN srv.i \ {k} |-> srv.i[x]]]
     \/ \E k \in srv.m : srv' = [srv EXCEPT !.m = @ \ {k}]
  /\ faults' = faults + 1 /\ damaged' = TRUE
  /\ UNCHANGED <<dir, synced, op, mem, key, writer, walker>>

\* Another machine with the same keys stores an archive, or deletes one with
\* the chunks that no other archive uses.
ForeignWrite ==
  /\ op = "none" /\ ~damaged /\ faults < MaxFault
  /\ \E n \in Name, hd \in Header, b \in Index :
       LET a == [h |-> <<hd>>, x |-> <<b>>]
       IN /\ srv.m \cap {<<n, FALSE>>, <<n, TRUE>>} = {}
          /\ srv' = Uploaded(<<n, FALSE>>, a, Refs(a))
  /\ synced' = FALSE /\ faults' = faults + 1
  /\ UNCHANGED <<dir, op, mem, key, writer, walker, damaged>>

ForeignDelete ==
  /\ op = "none" /\ ~damaged /\ faults < MaxFault
  /\ \E k \in srv.m :
       LET rest == srv.m \ {k}
       IN srv' = [m |-> rest, i |-> [x \in rest |-> srv.i[x]],
                  c |-> UNION {Refs(srv.i[x]) : x \in rest}]
  /\ synced' = FALSE /\ faults' = faults + 1
  /\ UNCHANGED <<dir, op, mem, key, writer, walker, damaged>>

Next ==
  \/ \E n \in Name : Open(n)
  \/ \E c \in Data : WriteChunkRef(c) \/ WriteFileChunk(c)
  \/ \E hd \in Headers : Checkpoint(hd)
  \/ \E hd \in Headers, eof \in BOOLEAN : Close(hd, eof)
  \/ Fail
  \/ \E k \in Key : DeleteStart(k)
  \/ DeleteChunk \/ DeleteEnd
  \/ \E p \in {"fsck", "prune"} : FsckStart(p)
  \/ \E k \in todo : FsckArchive(k)
  \/ FsckChunk \/ FsckBroken \/ FsckAdd \/ FsckEnd
  \/ LoseFile \/ ForeignWrite \/ ForeignDelete

Spec == Init /\ [][Next]_vars

-----------------------------------------------------------------------------
\* Properties.

Count == [nrefs : Nat, ncopies : Nat]
Entry == [nrefs : Nat, ncopies : Nat, ctape : BOOLEAN, nct : Nat]
IsTable(T) == /\ DOMAIN T.ht \subseteq Chunk
              /\ \A c \in DOMAIN T.ht : T.ht[c] \in Entry
              /\ T.up \subseteq Chunk
              /\ {T.total, T.unique, T.extra} \subseteq Nat

\* Every variable has its type.
TypeOK ==
  /\ srv.m \subseteq Key /\ DOMAIN srv.i \subseteq Key /\ srv.c \subseteq Chunk
  /\ \A k \in DOMAIN srv.i : srv.i[k] \in Archive
  /\ DOMAIN dir.tab \subseteq Chunk /\ dir.extra \in Nat
  /\ \A c \in DOMAIN dir.tab : dir.tab[c] \in Count
  /\ {synced, damaged} \subseteq BOOLEAN
  /\ op \in {"none", "write", "delete", "fsck", "prune"}
  /\ IsTable(mem) /\ IsTable(tape)
  /\ key \in Key \cup {None}
  /\ ar \in Archive /\ buf \in Seq(Data)
  /\ it.h \in Seq(Data) /\ it.x \in Seq(Index) /\ it.buf \in Seq(Data)
  /\ todo \subseteq Key /\ keep \subseteq Key /\ del \subseteq Chunk

\* The counters of a chunk, which are uint32_t, and the statistics, which are
\* uint64_t, are not taken below zero by deletes, checkpoints that fail and
\* the passes of fsck (chunks_delete.c:108, :119; chunks_stats_internal.c:48).
NoUnderflow ==
  \A T \in {mem, tape} :
    /\ {T.total, T.unique, T.extra} \subseteq Nat
    /\ \A c \in DOMAIN T.ht : {T.ht[c].nrefs, T.ht[c].ncopies, T.ht[c].nct} \subseteq Nat

\* Nothing has happened that the client could not know of.
Described == synced /\ ~damaged

\* The archives in ks that use chunk c, and how often they do.
Users(ks, c) == {k \in ks : c \in Refs(srv.i[k])}
Uses(ks, c) == SumOf([k \in ks |-> Copies(srv.i[k], c)])
AllRefs(ks) == UNION {Refs(srv.i[k]) : k \in ks}

\* The chunk directory lists exactly the chunks that archives use, with the
\* number of archives that use each and the number of references, after any
\* sequence of backups, interrupted and checkpointed backups, deletes and
\* fscks (chunks_internal.h: "Number of existing tapes using this").
RefsExact ==
  Described =>
    dir.tab = [c \in AllRefs(srv.m) |->
                 [nrefs |-> Cardinality(Users(srv.m, c)), ncopies |-> Uses(srv.m, c)]]

\* The directory counts the metadata and metaindex files on the server, and
\* not those of checkpoints that were superseded (multitape_write.c:887).
ExtraExact ==
  Described => dir.extra = SumOf([k \in srv.m |-> Files(srv.i[k])])

\* Whatever an archive refers to is on the server, unless the server lost it.
NoDangling ==
  ~damaged => /\ srv.m \subseteq DOMAIN srv.i
              /\ AllRefs(srv.m) \subseteq srv.c

\* Nothing is on the server that no archive refers to.
NoOrphans ==
  ~damaged => /\ DOMAIN srv.i \subseteq srv.m
              /\ srv.c \subseteq AllRefs(srv.m)

\* While an archive is written, the counters in memory are those of the
\* archives there are and of the part written so far; the statistics that are
\* printed ("All archives", "unique data") are what adding up the table gives;
\* and the next checkpoint starts from the extra statistics of the archives
\* there are (chunks_write.c:46, :159, :276, :309).
Written == IF buf = <<>> THEN ar
           ELSE [ar EXCEPT !.h = @ \o buf]
TableExact ==
  op = "write" /\ Described =>
    /\ mem.extra = dir.extra
    /\ DOMAIN mem.ht = AllRefs(srv.m) \cup Refs(Written)
    /\ \A c \in DOMAIN mem.ht :
         /\ mem.ht[c].nrefs = Cardinality(Users(srv.m, c))
                                + (IF c \in Refs(Written) THEN 1 ELSE 0)
         /\ mem.ht[c].ncopies = Uses(srv.m, c) + Copies(Written, c)
    /\ mem.total = SumOf([c \in DOMAIN mem.ht |-> mem.ht[c].ncopies])
    /\ mem.unique = Cardinality({c \in DOMAIN mem.ht : mem.ht[c].nrefs > 0})

\* A delete of an archive that is complete is never stopped by the chunk layer:
\* each chunk that chunkiter meets is in the table, a chunk to be deleted is on
\* the server, and the index chunk it reads next is still there.
DeleteProceeds ==
  op = "delete" /\ Described /\ it # NoIter => CanUnref(Current(it))

\* An archive that can be restored remains so until it is itself deleted or
\* the server loses a file, also while the directory is stale and files of
\* other archives are missing: no backup, delete of another archive, fsck or
\* crash takes it, or a chunk of it, away.
Complete(k) == k \in srv.m \cap DOMAIN srv.i /\ Refs(srv.i[k]) \subseteq srv.c
StaysComplete ==
  [][\A k \in Key :
       Complete(k) /\ ~(op = "delete" /\ key = k) /\ faults' = faults
         => Complete(k)']_vars

\* "Delete any chunks which aren't referenced by any archives"
\* (multitape_fsck.c:438): --fsck-prune spares the chunks of the archives that
\* it keeps.
PruneSparesReferenced ==
  op = "prune" /\ Counted => Unreferenced \cap AllRefs(keep) = {}
=============================================================================
