----------------------------- MODULE FileCache ------------------------------
(***************************************************************************)
(* The chunkification cache: tar/ccache, as write_entry_backend in         *)
(* tar/write.c uses it for one file, in backups one after the other.       *)
(*                                                                         *)
(* A cache record says that a file with a certain inode number, size and   *)
(* modification time consists of certain chunks and a trailer.  If lstat   *)
(* gives the same three, the file is archived without being opened.  The   *)
(* file can be changed at any time by others; modification times have the  *)
(* resolution of the clock, so a change may leave all three as they were.  *)
(*                                                                         *)
(* Data is a sequence of units, of which the chunkifier makes chunks of    *)
(* ChunkLen; a rest is a trailer.  Only the file changes its own           *)
(* modification time, to the time of the clock, unless it is replaced by   *)
(* another file, which may be older.                                       *)
(***************************************************************************)
EXTENDS Integers, Sequences, SequencesExt

CONSTANTS
  Value, Fill,  \* contents of a unit; what write_nulls writes
  ChunkLen,     \* units of a chunk: a shorter one is a trailer
  Lengths,      \* bound: how many units the file can have
  MaxAge,       \* MAXAGE: backups a record survives unused
  MaxTime, MaxWrites, MaxFails, MaxBackups  \* bounds: clock, changes, errors, backups

ASSUME FileCacheAssumption ==
  /\ ChunkLen \in Nat /\ ChunkLen > 1 /\ Fill \notin Value
  /\ Lengths \subseteq Nat \ {0}
  /\ {MaxAge, MaxTime, MaxWrites, MaxFails, MaxBackups} \subseteq Nat

VARIABLES
  now, writes, fails, backups,
  file,     \* [ino, mtime, units] on disk
  disk,     \* the record in the file "cache", or NoRecord
  saved,    \* chunks of the chunk directory as committed
  present,  \* chunks of the chunk table of the running backup
  pc,
  snaptime, \* of the running backup: when it started
  rec,      \* ccr: the record in memory; history, good: units that could be read
  st,       \* what lstat said; history: the contents then, whether they changed
  cnum, pos,\* position in the record's chunks and in the file
  held,     \* data in the chunkifier
  hit,      \* hittrailer
  keep,     \* are trailers kept?  "notrailer" depends on options and memory
  whole,    \* fullentry, filecached: the file is not opened
  cut,      \* history: the archive was truncated or has a checkpoint in the file
  entry,    \* history: data of the archive entry
  fault     \* history: a "Programmer error" was met

cookie == <<rec, st, cnum, pos, held, hit, keep, whole, cut, entry>>
world  == <<now, writes, fails, file>>
vars   == <<world, backups, disk, saved, present, pc, snaptime, cookie, fault>>

NoRecord == [ino |-> 0, size |-> 0, mtime |-> 0, chunks |-> <<>>,
             trailer |-> <<>>, age |-> 0, intree |-> FALSE, good |-> 0]
NoStat == [ino |-> 0, size |-> 0, mtime |-> 0, units |-> <<>>, changed |-> FALSE]

Contents == UNION { [1..k -> Value] : k \in Lengths }

Fresh(r) == r.intree /\ r.ino = st.ino /\ r.size = st.size /\ r.mtime = st.mtime
Available(r) == SelectInSeq(r.chunks, LAMBDA c : c \notin present) = 0
Data(r) == FlattenSeq(r.chunks) \o r.trailer

\* d is the first part of u, with nulls for all that comes after n units.
AsRead(d, u, n) ==
  /\ Len(d) <= Len(u)
  /\ \A i \in 1 .. Len(d) : d[i] = IF i <= n THEN u[i] ELSE Fill

-----------------------------------------------------------------------------
(* Everybody else. *)

Tick ==
  /\ now < MaxTime /\ now' = now + 1
  /\ UNCHANGED <<writes, fails, file, backups, disk, saved, present, pc,
                 snaptime, cookie, fault>>

Changed == st' = [st EXCEPT !.changed = TRUE]

Modify ==
  /\ writes < MaxWrites /\ writes' = writes + 1
  /\ \E u \in Contents \ {file.units} :
       file' = [file EXCEPT !.units = u, !.mtime = now]
  /\ Changed
  /\ UNCHANGED <<now, fails, backups, disk, saved, present, pc, snaptime, rec,
                 cnum, pos, held, hit, keep, whole, cut, entry, fault>>

\* Another file takes its name; a copy of the old one cannot have its inode.
Replace ==
  /\ writes < MaxWrites /\ writes' = writes + 1
  /\ \E u \in Contents \ {file.units}, m \in {file.mtime, now} :
       file' = [ino |-> file.ino + 1, mtime |-> m, units |-> u]
  /\ Changed
  /\ UNCHANGED <<now, fails, backups, disk, saved, present, pc, snaptime, rec,
                 cnum, pos, held, hit, keep, whole, cut, entry, fault>>

\* tarsnap -d: chunks nothing uses any more leave the chunk directory.
DeleteArchives ==
  /\ pc = "idle" /\ saved # {}
  /\ \E d \in SUBSET saved \ {{}} : saved' = saved \ d
  /\ UNCHANGED <<world, backups, disk, present, pc, snaptime, cookie, fault>>

\* tarsnap --fsck: ccache_remove
Fsck ==
  /\ pc = "idle" /\ disk # NoRecord /\ disk' = NoRecord
  /\ UNCHANGED <<world, backups, saved, present, pc, snaptime, cookie, fault>>

-----------------------------------------------------------------------------
(* A backup: the cache is read, the file is looked at. *)

Cleared ==
  /\ cnum' = 0 /\ pos' = 0 /\ held' = <<>> /\ hit' = FALSE /\ keep' = FALSE
  /\ whole' = FALSE /\ cut' = FALSE /\ entry' = <<>>

\* The program ends.
End ==
  /\ pc' = "idle" /\ Cleared
  /\ rec' = NoRecord /\ st' = NoStat /\ present' = {} /\ snaptime' = 0

\* main: snaptime; chunks_write_start; ccache_read
Start ==
  /\ pc = "idle" /\ backups < MaxBackups /\ backups' = backups + 1
  /\ snaptime' = now /\ present' = saved /\ rec' = disk
  /\ st' = NoStat /\ Cleared
  /\ pc' = "open"
  /\ UNCHANGED <<world, disk, saved, fault>>

\* write_hierarchy: lstat.  The file may also not be archived this time.
Lstat ==
  /\ pc = "open"
  /\ \/ /\ st' = [ino |-> file.ino, size |-> Len(file.units),
                  mtime |-> file.mtime, units |-> file.units, changed |-> FALSE]
        /\ pc' = "lookup"
     \/ st' = st /\ pc' = "close"
  /\ UNCHANGED <<world, backups, disk, saved, present, snaptime, rec, cnum,
                 pos, held, hit, keep, whole, cut, entry, fault>>

\* Mutant: a trailer that is not used stays in the record.
LookedUpKeep == rec

\* The record after ccache_entry_lookup: a trailer is kept only with all of
\* the file.
LookedUp ==
  IF Fresh(rec) /\ Available(rec) /\ rec.trailer # <<>>
     /\ Len(Data(rec)) >= st.size
  THEN rec ELSE [rec EXCEPT !.trailer = <<>>]

\* ccache_entry_lookup
Lookup ==
  /\ pc = "lookup"
  /\ rec' = LookedUp
  /\ whole' = /\ Fresh(rec) /\ Available(rec)
              /\ Len(Data(LookedUp)) >= st.size
  /\ pc' = IF whole' THEN "whole" ELSE "verify"
  /\ UNCHANGED <<world, backups, disk, saved, present, snaptime, st, cnum,
                 pos, held, hit, keep, cut, entry, fault>>

\* The file cannot be opened: ccache_entry_free.
OpenFails ==
  /\ pc = "verify" /\ cnum = 0
  /\ pc' = "close"
  /\ UNCHANGED <<world, backups, disk, saved, present, snaptime, cookie, fault>>

\* ccache_entry_write: everything comes from the cache.
WriteWhole ==
  /\ pc = "whole"
  /\ entry' = Data(rec)
  /\ fault' = (fault \/ ~Available(rec) \/ ~Fresh(rec))
  /\ pc' = "end"
  /\ UNCHANGED <<world, backups, disk, saved, present, snaptime, rec, st, cnum,
                 pos, held, hit, keep, whole, cut>>

\* ccache_entry_writefile: the next chunk of the record is compared with the
\* file.
Usable ==
  /\ cnum < Len(rec.chunks)
  /\ LET c == rec.chunks[cnum + 1]
     IN  /\ pos + Len(c) <= st.size /\ pos + Len(c) <= Len(file.units)
         /\ SubSeq(file.units, pos + 1, pos + Len(c)) = c
         /\ c \in present

VerifyChunk ==
  /\ pc = "verify" /\ Usable
  /\ cnum' = cnum + 1
  /\ pos' = pos + Len(rec.chunks[cnum + 1])
  /\ entry' = entry \o rec.chunks[cnum + 1]
  /\ fault' = (fault \/ rec.trailer # <<>>)
  /\ UNCHANGED <<world, backups, disk, saved, present, pc, snaptime, rec, st,
                 held, hit, keep, whole, cut>>

\* Its end: the rest of the record is dropped, callbacks are set.
Verified ==
  /\ pc = "verify" /\ ~Usable
  /\ rec' = [rec EXCEPT !.chunks = SubSeq(@, 1, cnum), !.ino = st.ino,
                        !.size = st.size, !.mtime = st.mtime, !.good = st.size]
  /\ keep' \in BOOLEAN
  /\ fault' = (fault \/ rec.trailer # <<>>)
  /\ pc' = "data"
  /\ UNCHANGED <<world, backups, disk, saved, present, snaptime, st, cnum, pos,
                 held, hit, whole, cut, entry>>

-----------------------------------------------------------------------------
(* write_file_data and the callbacks from the multitape layer. *)

\* callback_addchunk
AddChunk(r, c) == IF hit THEN r ELSE [r EXCEPT !.chunks = Append(@, c)]

\* callback_addtrailer, callback_faketrailer
AddTrailer(r, t) == IF hit \/ ~keep THEN r ELSE [r EXCEPT !.trailer = t]

\* One more unit goes through the chunkifier.
Put(v) ==
  LET all == Append(held, v)
  IN  /\ entry' = Append(entry, v)
      /\ IF Len(all) < ChunkLen
         THEN held' = all /\ UNCHANGED <<rec, present>>
         ELSE /\ held' = <<>>
              /\ rec' = AddChunk(rec, all)
              /\ present' = present \cup {all}

ReadUnit ==
  /\ pc = "data" /\ pos < st.size
  /\ IF pos < Len(file.units)
     THEN Put(file.units[pos + 1]) /\ pos' = pos + 1 /\ pc' = "data"
     ELSE pc' = "fill" /\ UNCHANGED <<pos, entry, held, rec, present>>
  /\ UNCHANGED <<world, backups, disk, saved, snaptime, st, cnum, hit, keep,
                 whole, cut, fault>>

\* write_file_data: read returns -1, which is taken for the end of the file.
ReadFails ==
  /\ pc = "data" /\ pos < st.size
  /\ fails < MaxFails /\ fails' = fails + 1
  /\ rec' = [rec EXCEPT !.good = pos]
  /\ pc' = "fill"
  /\ UNCHANGED <<now, writes, file, backups, disk, saved, present, snaptime, st,
                 cnum, pos, held, hit, keep, whole, cut, entry, fault>>

\* finish_entry: less was read than lstat said.
FillUnit ==
  /\ pc = "fill" /\ pos < st.size
  /\ Put(Fill) /\ pos' = pos + 1
  /\ UNCHANGED <<world, backups, disk, saved, pc, snaptime, st, cnum, hit, keep,
                 whole, cut, fault>>

\* chunkify_end(c_file): what is held is too short for a chunk.
EndData ==
  /\ held' = <<>>
  /\ rec' = IF held = <<>> THEN rec ELSE AddTrailer(rec, held)
  /\ hit' = (hit \/ held # <<>>)

\* A checkpoint within the data of the file; it may be what is left.
CheckpointInFile ==
  /\ pc = "data" /\ ~cut /\ pos > 0
  /\ EndData /\ cut' = TRUE
  /\ saved' \in {saved, present}
  /\ UNCHANGED <<world, backups, disk, present, pc, snaptime, st, cnum, pos,
                 keep, whole, entry, fault>>

\* SIGQUIT: the entry is not finished.
TruncateInFile ==
  /\ pc = "data"
  /\ cut' = TRUE /\ pc' = "end"
  /\ UNCHANGED <<world, backups, disk, saved, present, snaptime, rec, st, cnum,
                 pos, held, hit, keep, whole, entry, fault>>

\* MODE_DONE
Finish ==
  /\ pc \in {"data", "fill"} /\ pos = st.size
  /\ EndData /\ pc' = "end"
  /\ UNCHANGED <<world, backups, disk, saved, present, snaptime, st, cnum, pos,
                 keep, whole, cut, entry, fault>>

-----------------------------------------------------------------------------
(* The end of the entry and of the backup. *)

\* Mutant: a modification time in the second of the snapshot is recorded.
RecordedTimeLate == IF rec.mtime > snaptime THEN snaptime - 1 ELSE rec.mtime

\* Mutant: every record looks changed the next time.
RecordedTimeAlways == snaptime - 1

\* A file that may change again in the second of its time looks changed.
RecordedTime == IF rec.mtime >= snaptime THEN snaptime - 1 ELSE rec.mtime

\* ccache_entry_end.  Chunks of a record that is of another state of the file
\* than lstat saw, and was not compared with the file, are dropped.
EntryEnd ==
  /\ pc = "end"
  /\ LET r == IF rec.ino = st.ino /\ rec.size = st.size /\ rec.mtime = st.mtime
              THEN rec ELSE [rec EXCEPT !.chunks = <<>>]
     IN  rec' = [r EXCEPT !.mtime = RecordedTime, !.age = 0,
                          !.intree = @ \/ r.chunks # <<>> \/ r.trailer # <<>>]
  /\ pc' = "close"
  /\ cnum' = 0 /\ held' = <<>> /\ hit' = FALSE /\ entry' = <<>>
  /\ UNCHANGED <<world, backups, disk, saved, present, snaptime, st, pos,
                 keep, whole, cut, fault>>

\* writetape_close; if it fails the cache is written all the same.
Close ==
  /\ pc = "close"
  /\ saved' \in {saved, present} /\ present' = {}
  /\ pc' = "unlink"
  /\ UNCHANGED <<world, backups, disk, snaptime, cookie, fault>>

\* skiprecord and callback_write_rec: the record as it is written.
Aged(r) ==
  IF ~r.intree \/ Data(r) = <<>> \/ r.age > MaxAge \/ r.mtime < 0
  THEN NoRecord ELSE [r EXCEPT !.age = @ + 1]

\* ccache_write: cache.new is written, then the old file is removed,
CacheUnlink ==
  /\ pc = "unlink" /\ disk' = NoRecord /\ pc' = "rename"
  /\ UNCHANGED <<world, backups, saved, present, snaptime, cookie, fault>>

\* and the new one takes its place.
CacheRename ==
  /\ pc = "rename" /\ disk' = Aged(rec) /\ End
  /\ UNCHANGED <<world, backups, saved, fault>>

\* A crash, or an error that ends the program: one while the file is compared
\* with the record is fatal, other than in write_file_data.
Crash ==
  /\ pc # "idle" /\ End
  /\ UNCHANGED <<world, backups, disk, saved, fault>>

Init ==
  /\ now = 1 /\ writes = 0 /\ fails = 0 /\ backups = 0
  /\ \E u \in Contents : file = [ino |-> 1, mtime |-> 1, units |-> u]
  /\ disk = NoRecord /\ saved = {} /\ present = {} /\ pc = "idle"
  /\ snaptime = 0 /\ rec = NoRecord /\ st = NoStat
  /\ cnum = 0 /\ pos = 0 /\ held = <<>> /\ hit = FALSE /\ keep = FALSE
  /\ whole = FALSE /\ cut = FALSE /\ entry = <<>> /\ fault = FALSE

Next ==
  \/ Tick \/ Modify \/ Replace \/ DeleteArchives \/ Fsck
  \/ Start \/ Lstat \/ Lookup \/ OpenFails \/ WriteWhole
  \/ VerifyChunk \/ Verified \/ ReadUnit \/ ReadFails \/ FillUnit \/ CheckpointInFile
  \/ TruncateInFile \/ Finish \/ EntryEnd \/ Close
  \/ CacheUnlink \/ CacheRename \/ Crash

Spec == Init /\ [][Next]_vars

-----------------------------------------------------------------------------
(* Properties. *)

\* What is archived is what the file had when lstat was called: always if it
\* came from the cache without the file being opened, and as far as it was
\* read if it was not changed since.  The one exception is a read that failed,
\* now or when the record was made: from there on the entry has nulls.  As long
\* as no read has failed there are none.
Exact ==
  pc = "end" =>
    /\ fails = 0 => rec.good = st.size
    /\ whole => Len(entry) = st.size /\ AsRead(entry, st.units, rec.good)
    /\ ~whole /\ ~st.changed =>
         Len(entry) = pos /\ AsRead(entry, st.units, rec.good)

\* No "Programmer error": a chunk that was available when the entry was looked
\* up still is when it is written, and no trailer is left in a record that
\* is used as a hint only.
NoProgrammerError == ~fault

\* A file archived without a checkpoint or signal in between and not changed
\* in the second of the snapshot or later need not be read the next time; that
\* goes for the nulls of a failed read as well.
Remembered ==
  /\ pc = "rename" /\ st.size > 0 /\ st.mtime < snaptime /\ ~st.changed
  /\ whole \/ (keep /\ ~cut /\ pos = st.size)
  => LET r == Aged(rec)
     IN  /\ Fresh(r) /\ Len(Data(r)) = st.size
         /\ AsRead(Data(r), st.units, r.good)
=============================================================================
