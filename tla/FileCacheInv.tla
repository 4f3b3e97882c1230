---------------------------- MODULE FileCacheInv ----------------------------
(***************************************************************************)
(* The inductive invariant of FileCache.                                   *)
(*                                                                         *)
(* A record says something about the file only as long as it has the inode *)
(* number and the modification time of the record.  It is true because a   *)
(* record is never as young as the clock: whoever changes the file later   *)
(* gives it another time, and whoever replaces it another number.          *)
(***************************************************************************)
EXTENDS FileCache

Unit == Value \cup {Fill}

Record == [ino : Nat, size : Nat, mtime : Int, chunks : Seq(Seq(Unit)),
           trailer : Seq(Unit), age : Nat, intree : BOOLEAN, good : Nat]
Stat == [ino : Nat, size : Nat, mtime : Nat, units : Seq(Unit),
         changed : BOOLEAN]

Looking == {"open", "lookup"}
Reading == {"data", "fill", "end"}
Closing == {"close", "unlink", "rename"}
PCs == {"idle", "whole", "verify"} \cup Looking \cup Reading \cup Closing

TypeOK ==
  /\ {now, snaptime, backups, writes, fails, cnum, pos} \subseteq Nat /\ pc \in PCs
  /\ file \in [ino : Nat, mtime : Nat, units : Seq(Unit)]
  /\ {disk, rec} \subseteq Record /\ st \in Stat
  /\ {held, entry} \subseteq Seq(Unit)
  /\ {hit, keep, whole, cut, fault} \subseteq BOOLEAN

\* The clock: nothing is from the future, a backup starts before it ends.
Clock ==
  /\ now > 0 /\ file.mtime \in 0 .. now /\ file.ino > 0
  /\ pc # "idle" => snaptime \in 1 .. now

\* A record is older than the clock; what it says is true of the file it knows.
Honest(r) ==
  /\ r.ino <= file.ino /\ r.mtime < now
  /\ r.ino = file.ino /\ r.mtime = file.mtime =>
       AsRead(Data(r), file.units, r.good)

RecordsHonest ==
  /\ Honest(disk)
  /\ pc \in {"whole", "verify"} \cup Looking \cup Closing =>
       Honest(rec) /\ rec.mtime < snaptime

\* What lstat said is still true, unless the file has changed since, when it
\* is another file or has a time that no record is given.
Seen ==
  pc \in {"lookup", "whole", "verify"} \cup Reading =>
    /\ st.size = Len(st.units) /\ st.mtime \in 0 .. now /\ st.ino <= file.ino
    /\ file.ino = st.ino => st.mtime <= file.mtime
    /\ ~st.changed => file = [ino |-> st.ino, mtime |-> st.mtime, units |-> st.units]
    /\ st.changed /\ file.ino = st.ino => snaptime <= file.mtime

\* Nothing of the file has been taken yet.
Fresher ==
  /\ pc \in Looking =>
       /\ cnum = 0 /\ pos = 0 /\ entry = <<>>
       /\ held = <<>> /\ ~hit /\ ~keep /\ ~whole /\ ~cut
  /\ pc \in {"lookup", "verify"} /\ Fresh(rec) =>
       AsRead(Data(rec), st.units, rec.good)

\* The file is not opened: all of it is in the record.
InRecord ==
  /\ whole /\ Fresh(rec)
  /\ Len(Data(rec)) = st.size /\ AsRead(Data(rec), st.units, rec.good)
Whole ==
  /\ pc = "whole" => InRecord /\ Available(rec)
  /\ pc = "end" /\ whole => InRecord /\ entry = Data(rec)

\* Of the first n units what was read is as lstat saw it, unless the file has
\* changed.
Read(n) ==
  /\ pos = Len(entry) /\ pos <= st.size
  /\ ~st.changed => AsRead(entry, st.units, n)

Verifying ==
  pc = "verify" =>
    /\ Read(st.size) /\ rec.trailer = <<>> /\ cnum <= Len(rec.chunks)
    /\ entry = FlattenSeq(SubSeq(rec.chunks, 1, cnum))
    /\ held = <<>> /\ ~hit /\ ~keep /\ ~whole /\ ~cut

\* The record has the first part of what was read: all but what is held, until
\* a trailer ended it.
ReadOn ==
  pc \in Reading /\ ~whole =>
    /\ Read(rec.good) /\ rec.ino = st.ino /\ rec.size = st.size /\ rec.mtime = st.mtime
    /\ IsPrefix(Data(rec), entry)
    /\ ~hit => rec.trailer = <<>> /\ entry = FlattenSeq(rec.chunks) \o held
    /\ pc # "end" /\ ~cut => ~hit
    /\ pc = "end" /\ keep /\ ~cut /\ pos = st.size => Data(rec) = entry

NotWhole == pc \in {"data", "fill"} => ~whole

\* Nulls are written only behind what could be read.
Filling ==
  /\ pc = "data" => rec.good = st.size
  /\ pc = "fill" => st.changed \/ rec.good <= pos

\* The record that will be written has all of a file that was read to its end.
Kept ==
  /\ pc \in Closing /\ st.size > 0 /\ st.mtime < snaptime /\ ~st.changed
  /\ whole \/ (keep /\ ~cut /\ pos = st.size)
  => /\ Fresh(rec) /\ rec.age = 0 /\ rec.mtime >= 0
     /\ Len(Data(rec)) = st.size /\ AsRead(Data(rec), st.units, rec.good)

\* As long as no read has failed every record is of a file that was read to its
\* end.  IInv holds without it.
Unfailed ==
  fails = 0 =>
    /\ disk.intree => disk.good = disk.size
    /\ rec.intree \/ pc \in Reading => rec.good = rec.size

IInv ==
  /\ TypeOK /\ Clock /\ RecordsHonest /\ Seen /\ Fresher /\ Whole
  /\ Verifying /\ ReadOn /\ NotWhole /\ Filling /\ Kept /\ ~fault
=============================================================================
