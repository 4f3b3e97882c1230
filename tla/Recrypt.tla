------------------------------ MODULE Recrypt ------------------------------
(***************************************************************************)
(* tarsnap-recrypt (recrypt/recrypt.c): the blocks of one machine are      *)
(* copied to another, under its keys, in batches that are committed one by *)
(* one; then they are deleted from the old machine in one transaction that *)
(* was started before they were listed.  It may be killed, or power may    *)
(* fail, at any step; it is then run again; and in between tarsnap is used *)
(* with the cache directories, which it shares with recrypt.               *)
(*                                                                         *)
(* Abstractions.  A block is the same whichever keys it is stored under.   *)
(* A batch is any set of blocks; in the code, chunks come before indexes   *)
(* and metadata.  A checkpoint of a backup is followed by a commit marker  *)
(* (module Multitape), and only that is left here.                         *)
(***************************************************************************)
EXTENDS Naturals, FiniteSets

CONSTANTS
  Archives,   \* sets of blocks: all archives that can be
  First,      \* those the old machine starts with
  BatchLen,   \* BATCHLEN: blocks in one write transaction
  Retired,    \* are the old keys left alone once their blocks are deleted?
  Pruned,     \* machines on which tarsnap --fsck-prune is used
  Interrupted,  \* those where --fsck may fail before its commit marker
  MaxCrash,   \* bound: crashes and power failures
  MaxRuns,    \* bound: how often recrypt is started
  MaxUse      \* bound: how often tarsnap is used

Machines == {"old", "new"}

ASSUME RecryptAssumption ==
  /\ First \subseteq Archives /\ {Pruned, Interrupted} \subseteq SUBSET Machines
  /\ BatchLen \in Nat \ {0} /\ Retired \in BOOLEAN
  /\ {MaxCrash, MaxRuns, MaxUse} \subseteq Nat

VARIABLES
  srv,    \* of each machine: its blocks, the last transaction committed, the
          \* one in progress (0: none) and what that will add and take away
  cache,  \* cache directories: cseq and commit_m (0: none), directory and
          \* directory.tmp
  disk,   \* what "directory" may be after a power failure
  pc, sub,  \* where main is, and multitape_docommit within it
  loc,    \* variables of main
  next,   \* the next unused transaction number
  moved,  \* history: blocks that recrypt has deleted
  saved,  \* history: archives that were committed, by anyone
  crashes, runs, uses  \* bounds

files == <<cache, disk>>
proc  == <<pc, sub, loc>>
past  == <<moved, saved>>
spent == <<crashes, runs, uses>>
vars  == <<srv, files, proc, next, past, spent>>

-----------------------------------------------------------------------------
(* Chunk directories.  "torn" is any file chunks_directory_read refuses.   *)

Directory(bs) == [is |-> "valid", blocks |-> bs]
Absent == [is |-> "absent", blocks |-> {}]
Torn   == [is |-> "torn", blocks |-> {}]

\* chunks_directory_commit.
Moved(c) == IF c.tmp = Absent THEN c
            ELSE [c EXCEPT !.directory = c.tmp, !.tmp = Absent]

(* The server.  A transaction is committed if it is still in progress.     *)

Commit(s, t) ==
  IF s.cur = t THEN [s EXCEPT !.blocks = (@ \cup s.adds) \ s.dels,
                              !.seq = t, !.cur = 0, !.arch = {}]
  ELSE s

Started(s, adds, dels, arch) ==
  [s EXCEPT !.cur = next, !.adds = adds, !.dels = dels, !.arch = arch]

\* Another transaction ends the one in progress and is committed.
Extended(s, a) ==
  [s EXCEPT !.blocks = @ \cup a, !.seq = next, !.cur = 0, !.arch = {}]

Committed(s, t) == IF s.cur = t THEN s.arch ELSE {}

\* What t, if it is committed now, removes from the old machine.
Removed(m, t) == IF m = "old" /\ srv[m].cur = t THEN srv[m].dels ELSE {}

\* The blocks that --fsck finds to be part of an archive that is complete.
Referenced(bs) == UNION {a \in Archives : a \subseteq bs}

-----------------------------------------------------------------------------
(* multitape_commit, from the marker on; sub is "out" outside it.          *)

Here == IF pc \in {"cleanNew", "commitNew"} THEN "new" ELSE "old"

Pending(m) == IF cache[m].commit = 0 THEN "out" ELSE "dir"

\* Renaming a file over "directory" leaves the one main has open without a
\* name.
CommitDir ==
  /\ sub = "dir" /\ sub' = "srv"
  /\ cache' = [cache EXCEPT ![Here] = Moved(@)]
  /\ disk' = IF cache[Here].tmp = Absent THEN disk
             ELSE [disk EXCEPT ![Here] = {cache[Here].tmp}]
  /\ loc' = [loc EXCEPT !.linked = @ /\ ~(Here = "new" /\ cache[Here].tmp # Absent)]
  /\ UNCHANGED <<srv, pc, next, past, spent>>

CommitServer ==
  /\ sub = "srv" /\ sub' = "seq"
  /\ LET t == cache[Here].commit IN
       /\ srv' = [srv EXCEPT ![Here] = Commit(@, t)]
       /\ saved' = saved \cup Committed(srv[Here], t)
       /\ moved' = moved \cup Removed(Here, t)
  /\ UNCHANGED <<files, pc, loc, next, spent>>

CommitSeq ==
  /\ sub = "seq" /\ sub' = "unmark"
  /\ cache' = [cache EXCEPT ![Here].cseq = cache[Here].commit]
  /\ UNCHANGED <<srv, disk, pc, loc, next, past, spent>>

CommitEnd ==
  /\ sub = "unmark" /\ sub' = "out"
  /\ cache' = [cache EXCEPT ![Here].commit = 0]
  /\ UNCHANGED <<srv, disk, pc, loc, next, past, spent>>

-----------------------------------------------------------------------------
(* main.                                                                   *)

At(p) == pc = p /\ sub = "out"
Goto(p) == pc' = p /\ sub' = "out"

NoLocals == [nlist |-> {}, olist |-> {}, todo |-> {}, batch |-> {},
             last |-> 0, del |-> 0, linked |-> FALSE]

\* lockdirs, getblist of the new machine; then multitape_cleanstate.
Begin ==
  /\ pc = "idle" /\ runs < MaxRuns /\ runs' = runs + 1
  /\ loc' = [NoLocals EXCEPT !.nlist = srv["new"].blocks]
  /\ pc' = "cleanNew" /\ sub' = Pending("new")
  /\ UNCHANGED <<srv, files, next, past, crashes, uses>>

CleanOld ==
  /\ At("cleanNew")
  /\ loc' = [loc EXCEPT !.last = cache["new"].cseq]
  /\ pc' = "cleanOld" /\ sub' = Pending("old")
  /\ UNCHANGED <<srv, files, next, past, spent>>

DeleteStart ==
  /\ At("cleanOld") /\ cache["old"].cseq = srv["old"].seq
  /\ srv' = [srv EXCEPT !["old"] = Started(@, {}, {}, {})]
  /\ loc' = [loc EXCEPT !.del = next]
  /\ next' = next + 1
  /\ Goto("list")
  /\ UNCHANGED <<files, past, spent>>

ToCopyAll(o, n) == o                      \* Mutant: copy what is there, too

\* compareblists; it is an error if the new machine has any other block.
ToCopy(o, n) == o \ n

Compare ==
  /\ At("list")
  /\ loc.nlist \subseteq srv["old"].blocks
  /\ loc' = [loc EXCEPT !.olist = srv["old"].blocks, !.linked = TRUE,
                        !.todo = ToCopy(srv["old"].blocks, loc.nlist)]
  /\ cache["old"].directory # Absent
  /\ cache' = [cache EXCEPT !["new"].directory = Torn]
  /\ disk' = [disk EXCEPT !["new"] = @ \cup {Torn}]
  /\ Goto("copy")
  /\ UNCHANGED <<srv, next, past, spent>>

\* Without an old chunk directory there must be no block: nothing to do.
NothingToDo ==
  /\ At("list")
  /\ loc.nlist \subseteq srv["old"].blocks
  /\ cache["old"].directory = Absent /\ srv["old"].blocks = {}
  /\ Goto("done")
  /\ UNCHANGED <<srv, files, loc, next, past, spent>>

\* storage_write_start, copyblocks and storage_write_end.
CopyBatch ==
  /\ At("copy") /\ cache["new"].cseq = srv["new"].seq
  /\ \E b \in SUBSET loc.todo :
       /\ Cardinality(b) = IF Cardinality(loc.todo) > BatchLen THEN BatchLen
                           ELSE Cardinality(loc.todo)
       /\ b # {} /\ b \cap srv["new"].blocks = {}
       /\ b \subseteq srv["old"].blocks
       /\ srv' = [srv EXCEPT !["new"] = Started(@, b, {}, {})]
       /\ loc' = [loc EXCEPT !.batch = b, !.last = next]
  /\ next' = next + 1
  /\ Goto("copied")
  /\ UNCHANGED <<files, past, spent>>

MarkNew ==
  /\ At("copied")
  /\ cache' = [cache EXCEPT !["new"].commit = loc.last]
  /\ pc' = "commitNew" /\ sub' = "dir"
  /\ UNCHANGED <<srv, disk, loc, next, past, spent>>

NextBatch ==
  /\ At("commitNew")
  /\ loc' = [loc EXCEPT !.todo = @ \ loc.batch]
  /\ Goto("copy")
  /\ UNCHANGED <<srv, files, next, past, spent>>

AllCopiedEarly == Cardinality(loc.todo) <= BatchLen   \* Mutant: one too few

AllCopied == loc.todo = {}

\* copydirectory; what is in the file system's buffers is not on disk.
CopyDirectory ==
  /\ At("copy") /\ AllCopied
  /\ disk' = IF loc.linked
             THEN [disk EXCEPT !["new"] = @ \cup {cache["old"].directory}]
             ELSE disk
  /\ Goto("directory")
  /\ UNCHANGED <<srv, cache, loc, next, past, spent>>

OnDiskLater(d) == disk["new"] \cup {d}    \* Mutant: no fileutil_fsync

\* What may be found after a power failure once the file is synced.
OnDisk(d) == {d}

\* fileutil_fsync, fclose and dirutil_fsyncdir.
SyncDirectory ==
  /\ At("directory")
  /\ LET d == IF loc.linked THEN cache["old"].directory
              ELSE cache["new"].directory IN
       /\ cache' = [cache EXCEPT !["new"].directory = d]
       /\ disk' = [disk EXCEPT !["new"] = OnDisk(d)]
  /\ Goto("delete")
  /\ UNCHANGED <<srv, loc, next, past, spent>>

Refuses == srv["old"].cur # loc.del

DeleteBlocks ==
  /\ At("delete") /\ ~Refuses
  /\ srv' = [srv EXCEPT !["old"].dels = loc.olist]
  /\ Goto("deleted")
  /\ UNCHANGED <<files, loc, next, past, spent>>

MarkOld ==
  /\ At("deleted")
  /\ cache' = [cache EXCEPT !["old"].commit = loc.del]
  /\ pc' = "commitOld" /\ sub' = "dir"
  /\ UNCHANGED <<srv, disk, loc, next, past, spent>>

\* unlink(odirpath), which nothing syncs.
Unlink ==
  /\ At("commitOld")
  /\ cache' = [cache EXCEPT !["old"].directory = Absent]
  /\ disk' = [disk EXCEPT !["old"] = @ \cup {Absent}]
  /\ Goto("done")
  /\ UNCHANGED <<srv, loc, next, past, spent>>

\* exit(1), when something that main asks for is refused or not there.
Fail ==
  /\ sub = "out"
  /\ \/ pc = "cleanOld" /\ cache["old"].cseq # srv["old"].seq
     \/ pc = "list" /\ ~(loc.nlist \subseteq srv["old"].blocks)
     \/ pc = "list" /\ cache["old"].directory = Absent /\ srv["old"].blocks # {}
     \/ pc = "copy" /\ cache["new"].cseq # srv["new"].seq
     \/ pc = "copy" /\ loc.todo \cap srv["new"].blocks # {}
     \/ pc = "delete" /\ Refuses
  /\ pc' = "idle" /\ sub' = "out" /\ loc' = NoLocals
  /\ UNCHANGED <<srv, files, next, past, spent>>

\* Any other error, or a signal, ends it too.  After a power failure
\* "directory" is one of what it may be on disk; it may also happen later.
Crash ==
  /\ crashes < MaxCrash /\ crashes' = crashes + 1
  /\ \/ pc \notin {"idle", "done"} /\ UNCHANGED files
     \/ \E o \in disk["old"], n \in disk["new"] :
          /\ cache' = [cache EXCEPT !["old"].directory = o, !["new"].directory = n]
          /\ disk' = [old |-> {o}, new |-> {n}]
  /\ pc' = "idle" /\ sub' = "out" /\ loc' = NoLocals
  /\ UNCHANGED <<srv, next, past, runs, uses>>

Main ==
  \/ CommitDir \/ CommitServer \/ CommitSeq \/ CommitEnd
  \/ CleanOld \/ DeleteStart \/ Compare \/ NothingToDo
  \/ CopyBatch \/ MarkNew \/ NextBatch \/ CopyDirectory \/ SyncDirectory
  \/ DeleteBlocks \/ MarkOld \/ Unlink \/ Fail

-----------------------------------------------------------------------------
(* tarsnap, when recrypt does not hold the locks.                          *)

Free(m) == pc \in {"idle", "done"} /\ (m = "old" /\ Retired => moved = {})

Spend == uses < MaxUse /\ uses' = uses + 1

\* multitape_cleanstate, before any command.
Clean(m) ==
  /\ Free(m) /\ cache[m].commit # 0
  /\ LET c == Moved(cache[m]) IN
       /\ cache' = [cache EXCEPT ![m] = [c EXCEPT !.cseq = c.commit, !.commit = 0]]
       /\ disk' = IF cache[m].tmp = Absent THEN disk
                  ELSE [disk EXCEPT ![m] = {c.directory}]
       /\ srv' = [srv EXCEPT ![m] = Commit(@, c.commit)]
       /\ saved' = saved \cup Committed(srv[m], c.commit)
       /\ moved' = moved \cup Removed(m, c.commit)
  /\ UNCHANGED <<proc, next, spent>>

\* A backup, up to its last checkpoint: what is in the chunk directory is not
\* uploaded again.
Backup(m, a) ==
  /\ Free(m) /\ Spend
  /\ cache[m].commit = 0 /\ cache[m].cseq = srv[m].seq
  /\ cache[m].directory # Torn
  /\ LET d == cache[m].directory.blocks IN
       /\ srv' = [srv EXCEPT ![m] = Started(@, a \ d, {}, {a})]
       /\ cache' = [cache EXCEPT ![m] = [@ EXCEPT !.tmp = Directory(d \cup a),
                                                  !.commit = next]]
  /\ next' = next + 1
  /\ UNCHANGED <<disk, proc, past, crashes, runs>>

\* --fsck, up to its commit marker or to an error before it.  If there are
\* blocks that no archive needs it insists on --fsck-prune.
Fsck(m, whole) ==
  /\ Free(m) /\ Spend
  /\ cache[m].commit = 0
  /\ whole \/ m \in Interrupted
  /\ LET r == Referenced(srv[m].blocks) IN
       /\ r = srv[m].blocks \/ m \in Pruned
       /\ srv' = [srv EXCEPT ![m] = Started(@, {}, srv[m].blocks \ r, {})]
       /\ cache' = [cache EXCEPT ![m] = [@ EXCEPT !.tmp = Directory(r),
                                                  !.commit = IF whole THEN next ELSE 0]]
  /\ next' = next + 1
  /\ UNCHANGED <<disk, proc, past, crashes, runs>>

\* Another system with the old keys and a cache directory of its own.
Foreign(a) ==
  /\ Spend
  /\ srv' = [srv EXCEPT !["old"] = Extended(@, a)]
  /\ saved' = saved \cup {a}
  /\ next' = next + 1
  /\ UNCHANGED <<files, proc, moved, crashes, runs>>

Tarsnap ==
  \/ \E m \in Machines : Clean(m) \/ \E w \in BOOLEAN : Fsck(m, w)
  \/ \E a \in Archives : Backup("old", a) \/ Foreign(a)

-----------------------------------------------------------------------------
\* Without archives there is no chunk directory either.
Init ==
  \E f \in SUBSET First :
    /\ srv = [m \in Machines |->
                [blocks |-> IF m = "old" THEN UNION f ELSE {}, seq |-> 0,
                 cur |-> 0, adds |-> {}, dels |-> {}, arch |-> {}]]
    /\ cache = [m \in Machines |->
                  [cseq |-> 0, commit |-> 0, tmp |-> Absent,
                   directory |-> IF m = "old" /\ f # {} THEN Directory(UNION f)
                                 ELSE Absent]]
    /\ disk = [m \in Machines |-> {cache[m].directory}]
    /\ pc = "idle" /\ sub = "out" /\ loc = NoLocals
    /\ next = 1
    /\ moved = {} /\ saved = f
    /\ crashes = 0 /\ runs = 0 /\ uses = 0

Next == Begin \/ Main \/ Crash \/ Tarsnap

Spec == Init /\ [][Next]_vars

\* main goes on, and is run again until it has ended well.
FairSpec == Spec /\ WF_vars(Main) /\ WF_vars(Begin)

-----------------------------------------------------------------------------
(* What it promises.                                                       *)

\* Every archive ever committed can be read in full with one of the two sets
\* of keys, at any time, wherever recrypt was cut off and whoever else was
\* using the old machine ("we won't delete anything", recrypt.c:538-541).
NeverLost ==
  \A a \in saved : a \subseteq srv["old"].blocks \/ a \subseteq srv["new"].blocks

\* Once the server has deleted blocks, the new chunk directory describes them,
\* and a power failure cannot take that away (recrypt.c:653-658).
DirectoryFirst ==
  \A d \in disk["new"] \cup {cache["new"].directory} :
     moved \ srv["old"].blocks \subseteq d.blocks

\* However often it is interrupted, it ends with nothing left on the old
\* machine if it is run again and nobody else uses the machine's data ("if it
\* is interrupted it can be re-run", tarsnap-recrypt.1-mdoc:39-42).
Finishes == [](uses = 0) => <>[](srv["old"].blocks = {})
=============================================================================
