------------------------------ MODULE Multitape ------------------------------
(***************************************************************************)
(* The transaction layer of tarsnap: how the cache directory of one        *)
(* machine and the archives kept for it by the server are moved from one   *)
(* committed state to the next (tar/multitape/multitape_transaction.c, the *)
(* operations that call it, chunks_directory_write and                     *)
(* chunks_directory_commit, storage_transaction.c).                        *)
(*                                                                         *)
(* Abstractions.                                                           *)
(*  - What an archive set or a chunk directory contains is a version       *)
(*    [seq, ck, whole]: checkpoint ck of transaction seq; whole says that  *)
(*    it holds everything it should.  A version also stands for the inode  *)
(*    of the file that holds it: two names of the cache directory have the *)
(*    same version exactly when they are links to the same file, because   *)
(*    a version is written to one file only.                               *)
(*  - A sequence number is the ordinal of its transaction, a checkpoint    *)
(*    nonce the ordinal of the checkpoint: both are random and only ever   *)
(*    compared for equality.                                               *)
(*  - An fsync and the directory operation after it are one step: all that *)
(*    a crash between the two can leave behind, a crash before the first   *)
(*    or after the second can leave behind as well.                        *)
(*  - Any error path that just gives up (no memory, disk full, network     *)
(*    down for too long, kill) is the action Crash.                        *)
(***************************************************************************)
EXTENDS Naturals

CONSTANTS
    Procs,      \* processes run on this machine with the same cache directory
    NoProc,     \* the lock is free
    Ops,        \* the commands these processes run
    MaxSeq,     \* bound: transactions ever started
    MaxCkpt,    \* bound: checkpoints in one write transaction
    MaxCrash,   \* bound: crashes and power failures
    HardLinks,  \* does the file system support link(2)?
    PowerFail,  \* may power fail, losing what was not yet synced?
    Foreign     \* may another machine use the same keys?

AllOps == {"write", "delete", "fsck", "recover", "nuke"}

ASSUME ConstAssumption ==
    /\ NoProc \notin Procs
    /\ Ops \subseteq AllOps
    /\ MaxSeq \in Nat /\ MaxCkpt \in Nat /\ MaxCrash \in Nat
    /\ HardLinks \in BOOLEAN /\ PowerFail \in BOOLEAN /\ Foreign \in BOOLEAN

VARIABLES
    dir,    \* the cache directory as processes see it: name -> entry
    disk,   \* name -> the entries it may have after a power failure
    lock,   \* the process that has locked "lockf"
    pc, loc,  \* where each process is, and its local variables
    out,    \* the result of the last command of each process
    ver,    \* server: the committed version of the archive set
    cur, kind,  \* server: the transaction in progress (0: none), its type
    ckpt,   \* server: the last checkpoint of that transaction
    work,   \* server: has it all the files that the next checkpoint (of a
            \* write) or the commit (of a delete or fsck) stands for?
    next,   \* the next unused sequence number
    crashes,
    hist, acked  \* history: versions committed, transactions reported done

cacheVars == <<dir, disk>>
srvVars == <<ver, cur, kind, ckpt, work>>
procVars == <<lock, pc, loc, out>>
histVars == <<next, crashes, hist, acked>>
vars == <<cacheVars, srvVars, procVars, histVars>>

(***************************************************************************)
(* Entries of the cache directory.                                         *)
(***************************************************************************)
Links == {"cseq", "commit_m", "ckpt_m"}
Files == {"directory", "directory.tmp", "directory.ckpt"}
Names == Links \cup Files

Entry == [seq : Nat, ck : Nat, whole : BOOLEAN]

\* A name that does not exist.  A missing "cseq" is read as sequence number
\* zero and a missing "directory" as an empty one, which is what the server
\* starts from.
Absent == [seq |-> 0, ck |-> 0, whole |-> TRUE]

LinkOffByOne(s, c) == [seq |-> s - 1, ck |-> c, whole |-> TRUE]  \* mutant

Link(s, c) == [seq |-> s, ck |-> c, whole |-> TRUE]

Contents(c, m, k, d, t, f) ==
    [n \in Names |-> CASE n = "cseq" -> c [] n = "commit_m" -> m
                       [] n = "ckpt_m" -> k [] n = "directory" -> d
                       [] n = "directory.tmp" -> t [] OTHER -> f]

Flushed == [n \in Names |-> {dir[n]}]

\* Make n the entry v, when k[n] are the entries it may fall back to.
Alter(k, n, v) ==
    /\ dir' = [dir EXCEPT ![n] = v]
    /\ disk' = [k EXCEPT ![n] = @ \cup {v}]

Fsync == UNCHANGED dir /\ disk' = Flushed

\* fopen(n, "w"): the file truncated is seen through every link to it.
Truncate(n, v) ==
    LET new(x) == IF dir[n] # Absent /\ x = dir[n] THEN v ELSE x IN
    /\ dir' = [m \in Names |-> IF m = n THEN v
                               ELSE IF m \in Files THEN new(dir[m]) ELSE dir[m]]
    /\ disk' = [m \in Names |-> IF m = n THEN {new(x) : x \in disk[m]} \cup {v}
                                ELSE IF m \in Files THEN {new(x) : x \in disk[m]}
                                ELSE disk[m]]

\* The file under construction gets its last byte and is synced, wherever it
\* is linked, and so is the directory.
Finish(v, w) ==
    LET d == [m \in Names |-> IF m \in Files /\ dir[m] = v THEN w ELSE dir[m]] IN
    /\ dir' = d
    /\ disk' = [m \in Names |-> {d[m]}]

(***************************************************************************)
(* The server.  It is not part of the repository: this is what             *)
(* lib/netpacket/packets.txt says of it and storage_transaction.c relies   *)
(* on.  A machine has at most one transaction in progress.  A write        *)
(* transaction commits what was uploaded before its last checkpoint, a     *)
(* delete or fsck transaction all it was told to delete.                   *)
(***************************************************************************)
SrvCancel(lastseq, force) ==
    /\ cur' = IF force \/ lastseq = ver.seq THEN 0 ELSE cur
    /\ UNCHANGED <<ver, kind, ckpt, work>>

SrvStart(k) ==
    /\ cur' = next
    /\ next' = next + 1
    /\ kind' = k
    /\ ckpt' = Absent
    /\ work' = FALSE
    /\ UNCHANGED ver

\* A request with the nonce of the last checkpoint is a replay.
SrvCheckpoint(s, c) ==
    /\ IF ckpt.ck = c
       THEN UNCHANGED <<ckpt, work>>
       ELSE ckpt' = [seq |-> s, ck |-> c, whole |-> work] /\ work' = FALSE
    /\ UNCHANGED <<ver, cur, kind>>

\* What the server would have if the transaction in progress were committed.
Outcome == IF kind = "write"
           THEN [seq |-> cur, ck |-> ckpt.ck, whole |-> ckpt.whole]
           ELSE [seq |-> cur, ck |-> 1, whole |-> work]

SrvTryCommit(s) ==
    IF s = cur /\ cur # 0
    THEN /\ ver' = Outcome
         /\ hist' = hist \cup {Outcome}
         /\ cur' = 0
         /\ UNCHANGED <<kind, ckpt, work>>
    ELSE UNCHANGED <<srvVars, hist>>

IsCheckpointed == cur # 0 /\ kind = "write" /\ ckpt # Absent

(***************************************************************************)
(* Processes.  loc[p] holds:                                               *)
(*   op     the command;                                                   *)
(*   stage  "clean" while multitape_cleanstate runs before the             *)
(*          transaction, "work" in the transaction, "close" in the last    *)
(*          checkpoint of writetape_close, "commit" in the commit at the   *)
(*          end of the transaction;                                        *)
(*   move   which rename chunks_directory_commit is doing;                 *)
(*   mark   the sequence number (and checkpoint nonce) read from a link;   *)
(*   seq    the transaction of this process, and ck its checkpoints;       *)
(*   good   did the chunk directory it read describe the archives that the *)
(*          server had?                                                    *)
(***************************************************************************)
Idle == [op |-> "none", stage |-> "clean", move |-> "ckpt", mark |-> Absent,
         seq |-> 0, ck |-> 0, good |-> FALSE]

LocType == [op : AllOps \cup {"none"},
            stage : {"clean", "work", "close", "commit"},
            move : {"ckpt", "commit"}, mark : Entry,
            seq : Nat, ck : Nat, good : BOOLEAN]

Labels == {"idle", "dk_read", "mv_stat", "mv_link", "mv_unlink", "mv_end",
           "remote", "dk_unlink", "dk_link", "dk_done", "dk_end",
           "dm_read", "cs_unlink", "cs_link", "cs_done", "cs_end",
           "isck", "isck_commit", "cancel", "start", "open", "work",
           "flush", "wr_open", "wr_close", "mark", "nk_commit"}

Results == {"none", "ok", "fail", "locked", "refused", "mismatch"}

Goto(p, l) == pc' = [pc EXCEPT ![p] = l] /\ UNCHANGED <<lock, loc, out>>

GotoWith(p, l, r) ==
    /\ pc' = [pc EXCEPT ![p] = l]
    /\ loc' = [loc EXCEPT ![p] = r]
    /\ UNCHANGED <<lock, out>>

\* The process ends and the kernel drops its lock.
Exit(p, res) ==
    /\ pc' = [pc EXCEPT ![p] = "idle"]
    /\ loc' = [loc EXCEPT ![p] = Idle]
    /\ out' = [out EXCEPT ![p] = [op |-> loc[p].op, res |-> res]]
    /\ lock' = IF lock = p THEN NoProc ELSE lock

Fail(p, res) == Exit(p, res) /\ UNCHANGED cacheVars

NeedsLock(o) == o \in {"write", "delete", "fsck"}
NeedsDirectory(o) == o \in {"delete", "recover"}

\* A command is run: bsdtar.c checks that there is a chunk directory,
\* multitape_lock takes the lock if it is free.
Begin(p, o) ==
    /\ pc[p] = "idle"
    /\ \/ /\ NeedsDirectory(o) /\ dir["directory"] = Absent
          /\ out' = [out EXCEPT ![p] = [op |-> o, res |-> "refused"]]
          /\ UNCHANGED <<lock, pc, loc>>
       \/ /\ NeedsDirectory(o) => dir["directory"] # Absent
          /\ NeedsLock(o) /\ lock # NoProc
          /\ out' = [out EXCEPT ![p] = [op |-> o, res |-> "locked"]]
          /\ UNCHANGED <<lock, pc, loc>>
       \/ /\ NeedsDirectory(o) => dir["directory"] # Absent
          /\ NeedsLock(o) => lock = NoProc
          /\ lock' = IF NeedsLock(o) THEN p ELSE lock
          /\ loc' = [loc EXCEPT ![p] = [Idle EXCEPT !.op = o]]
          /\ pc' = [pc EXCEPT ![p] = IF o = "nuke" THEN "cancel" ELSE "dk_read"]
          /\ out' = [out EXCEPT ![p] = [op |-> o, res |-> "none"]]
    /\ UNCHANGED <<cacheVars, srvVars, histVars>>

(***************************************************************************)
(* multitape_docheckpoint and multitape_docommit, with                     *)
(* chunks_directory_commit inside both.                                    *)
(***************************************************************************)
OldName(p) == IF loc[p].move = "ckpt" THEN "directory.ckpt" ELSE "directory.tmp"
NewName(p) == IF loc[p].move = "ckpt" THEN "directory.tmp" ELSE "directory"

\* multitape_docheckpoint returns: into multitape_docommit when it was called
\* by multitape_cleanstate, to the caller of multitape_checkpoint otherwise.
AfterCkpt(p) ==
    CASE loc[p].stage = "work" -> Goto(p, "work")
      [] loc[p].stage = "close" ->
             GotoWith(p, "dk_read", [loc[p] EXCEPT !.stage = "commit"])
      [] OTHER -> Goto(p, "dm_read")

\* Mutant: a pending checkpoint is left for later.
ReadCkptMSkip(p) ==
    /\ pc[p] = "dk_read"
    /\ Fsync
    /\ IF dir["ckpt_m"] = Absent \/ loc[p].stage = "clean"
       THEN AfterCkpt(p)
       ELSE GotoWith(p, "mv_stat",
                     [loc[p] EXCEPT !.mark = dir["ckpt_m"], !.move = "ckpt"])
    /\ UNCHANGED <<srvVars, histVars>>

ReadCkptM(p) ==
    /\ pc[p] = "dk_read"
    /\ Fsync
    /\ IF dir["ckpt_m"] = Absent
       THEN AfterCkpt(p)
       ELSE GotoWith(p, "mv_stat",
                     [loc[p] EXCEPT !.mark = dir["ckpt_m"], !.move = "ckpt"])
    /\ UNCHANGED <<srvVars, histVars>>

\* The two lstats of chunks_directory_commit, and the unlink of a new name
\* that is another file.
MvStat(p) ==
    /\ pc[p] = "mv_stat"
    /\ LET old == dir[OldName(p)]
           new == dir[NewName(p)]
       IN  IF old = Absent THEN Goto(p, "remote") /\ UNCHANGED cacheVars
           ELSE IF new = old THEN Goto(p, "mv_unlink") /\ UNCHANGED cacheVars
           ELSE Goto(p, "mv_link") /\ Alter(disk, NewName(p), Absent)
    /\ UNCHANGED <<srvVars, histVars>>

MvLink(p) ==
    /\ pc[p] = "mv_link"
    /\ LET old == dir[OldName(p)]
           new == dir[NewName(p)]
       IN  IF old = Absent \/ (HardLinks /\ new # Absent) THEN Fail(p, "fail")
           ELSE IF HardLinks
           THEN Goto(p, "mv_unlink") /\ Alter(disk, NewName(p), old)
           ELSE /\ Goto(p, "mv_end")
                /\ dir' = [dir EXCEPT ![NewName(p)] = old, ![OldName(p)] = Absent]
                /\ disk' = [disk EXCEPT ![NewName(p)] = @ \cup {old},
                                        ![OldName(p)] = @ \cup {Absent}]
    /\ UNCHANGED <<srvVars, histVars>>

\* Mutant: the link is not synced before the old name is removed.
MvUnlinkNoSync(p) ==
    /\ pc[p] = "mv_unlink"
    /\ IF dir[OldName(p)] = Absent THEN Fail(p, "fail")
       ELSE Goto(p, "mv_end") /\ Alter(disk, OldName(p), Absent)
    /\ UNCHANGED <<srvVars, histVars>>

MvUnlink(p) ==
    /\ pc[p] = "mv_unlink"
    /\ IF dir[OldName(p)] = Absent THEN Fail(p, "fail")
       ELSE Goto(p, "mv_end") /\ Alter(Flushed, OldName(p), Absent)
    /\ UNCHANGED <<srvVars, histVars>>

MvEnd(p) ==
    /\ pc[p] = "mv_end"
    /\ Fsync
    /\ Goto(p, "remote")
    /\ UNCHANGED <<srvVars, histVars>>

\* storage_transaction_checkpoint: the server's answer arrives.
RemoteCheckpoint(p) ==
    /\ pc[p] = "remote" /\ loc[p].move = "ckpt"
    /\ IF cur = loc[p].mark.seq /\ kind = "write"
       THEN /\ SrvCheckpoint(cur, loc[p].mark.ck)
            /\ Goto(p, "dk_unlink")
       ELSE Exit(p, "mismatch") /\ UNCHANGED srvVars
    /\ UNCHANGED <<cacheVars, histVars>>

\* Mutant: "try again later" is taken for success.
RemoteCommitOnce(p) ==
    /\ pc[p] = "remote" /\ loc[p].move = "commit"
    /\ Goto(p, "cs_unlink")
    /\ UNCHANGED <<cacheVars, srvVars, histVars>>

\* storage_transaction_commit: the server answers "success", which says only
\* that the transaction has been committed if it was the one in progress.
RemoteCommit(p) ==
    /\ pc[p] = "remote" /\ loc[p].move = "commit"
    /\ SrvTryCommit(loc[p].mark.seq)
    /\ Goto(p, "cs_unlink")
    /\ UNCHANGED <<cacheVars, next, crashes, acked>>

DkUnlink(p) ==
    /\ pc[p] = "dk_unlink"
    /\ Alter(disk, "commit_m", Absent)
    /\ Goto(p, "dk_link")
    /\ UNCHANGED <<srvVars, histVars>>

DkLink(p) ==
    /\ pc[p] = "dk_link"
    /\ IF dir["commit_m"] # Absent THEN Fail(p, "fail")
       ELSE /\ Alter(disk, "commit_m", Link(loc[p].mark.seq, 0))
            /\ Goto(p, "dk_done")
    /\ UNCHANGED <<srvVars, histVars>>

DkDone(p) ==
    /\ pc[p] = "dk_done"
    /\ IF dir["ckpt_m"] = Absent THEN Fail(p, "fail")
       ELSE Alter(Flushed, "ckpt_m", Absent) /\ Goto(p, "dk_end")
    /\ UNCHANGED <<srvVars, histVars>>

DkEnd(p) ==
    /\ pc[p] = "dk_end"
    /\ Fsync
    /\ AfterCkpt(p)
    /\ UNCHANGED <<srvVars, histVars>>

\* The cache directory is clean: go on with the command, or end it.
AfterClean(p) ==
    IF loc[p].stage = "commit"
    THEN Exit(p, "ok") /\ acked' = acked \cup {loc[p].seq}
    ELSE /\ Goto(p, IF loc[p].op \in {"fsck", "recover"} THEN "isck" ELSE "cancel")
         /\ UNCHANGED acked

\* Mutant: the commit marker is acted on before it is on disk.
ReadCommitMNoSync(p) ==
    /\ pc[p] = "dm_read"
    /\ UNCHANGED cacheVars
    /\ IF dir["commit_m"] = Absent
       THEN AfterClean(p)
       ELSE /\ GotoWith(p, "mv_stat",
                [loc[p] EXCEPT !.mark = dir["commit_m"], !.move = "commit"])
            /\ UNCHANGED acked
    /\ UNCHANGED <<srvVars, next, crashes, hist>>

ReadCommitM(p) ==
    /\ pc[p] = "dm_read"
    /\ Fsync
    /\ IF dir["commit_m"] = Absent
       THEN AfterClean(p)
       ELSE /\ GotoWith(p, "mv_stat",
                [loc[p] EXCEPT !.mark = dir["commit_m"], !.move = "commit"])
            /\ UNCHANGED acked
    /\ UNCHANGED <<srvVars, next, crashes, hist>>

CsUnlink(p) ==
    /\ pc[p] = "cs_unlink"
    /\ Alter(disk, "cseq", Absent)
    /\ Goto(p, "cs_link")
    /\ UNCHANGED <<srvVars, histVars>>

CsLink(p) ==
    /\ pc[p] = "cs_link"
    /\ IF dir["cseq"] # Absent THEN Fail(p, "fail")
       ELSE /\ Alter(disk, "cseq", Link(loc[p].mark.seq, 0))
            /\ Goto(p, "cs_done")
    /\ UNCHANGED <<srvVars, histVars>>

\* Mutant: the marker goes before the new sequence number is on disk.
CsDoneNoSync(p) ==
    /\ pc[p] = "cs_done"
    /\ Alter(disk, "commit_m", Absent) /\ Goto(p, "cs_end")
    /\ UNCHANGED <<srvVars, histVars>>

\* Mutant: the marker is left behind.
CsDoneKeep(p) ==
    /\ pc[p] = "cs_done"
    /\ Fsync /\ Goto(p, "cs_end")
    /\ UNCHANGED <<srvVars, histVars>>

CsDone(p) ==
    /\ pc[p] = "cs_done"
    /\ IF dir["commit_m"] = Absent THEN Fail(p, "fail")
       ELSE Alter(Flushed, "commit_m", Absent) /\ Goto(p, "cs_end")
    /\ UNCHANGED <<srvVars, histVars>>

CsEnd(p) ==
    /\ pc[p] = "cs_end"
    /\ Fsync
    /\ AfterClean(p)
    /\ UNCHANGED <<srvVars, next, crashes, hist>>

(***************************************************************************)
(* storage_transaction_commitfromcheckpoint, in --recover and --fsck.      *)
(***************************************************************************)
AfterIsCk(p) ==
    IF loc[p].op = "fsck" THEN Goto(p, "cancel") ELSE Exit(p, "ok")

IsCk(p) ==
    /\ pc[p] = "isck"
    /\ IF IsCheckpointed
       THEN GotoWith(p, "isck_commit", [loc[p] EXCEPT !.mark = Link(cur, 0)])
       ELSE AfterIsCk(p)
    /\ UNCHANGED <<cacheVars, srvVars, histVars>>

IsCkCommit(p) ==
    /\ pc[p] = "isck_commit"
    /\ SrvTryCommit(loc[p].mark.seq)
    /\ AfterIsCk(p)
    /\ UNCHANGED <<cacheVars, next, crashes, acked>>

(***************************************************************************)
(* A transaction: storage_transaction_start, the work of writetape_*,      *)
(* deletetape, fscktape or nuketape, and what each does to end it.         *)
(***************************************************************************)
Forced(p) == loc[p].op \in {"fsck", "nuke"}

\* multitape_sequence, then storage_transaction_cancel.
Cancel(p) ==
    /\ pc[p] = "cancel"
    /\ SrvCancel(dir["cseq"].seq, Forced(p))
    /\ GotoWith(p, "start", [loc[p] EXCEPT !.mark = Link(dir["cseq"].seq, 0)])
    /\ UNCHANGED <<cacheVars, histVars>>

Startable(p) == Forced(p) \/ loc[p].mark.seq = ver.seq

KindOf(p) == IF loc[p].op = "write" THEN "write" ELSE "delete"

Start(p) ==
    /\ pc[p] = "start"
    /\ IF Startable(p)
       THEN /\ next <= MaxSeq
            /\ SrvStart(KindOf(p))
            /\ GotoWith(p, "open", [loc[p] EXCEPT !.seq = next])
       ELSE Exit(p, "mismatch") /\ UNCHANGED <<srvVars, next>>
    /\ UNCHANGED <<cacheVars, crashes, hist, acked>>

\* The server refuses for another reason (the account has no money left).
StartRefused(p) ==
    /\ pc[p] = "start"
    /\ Fail(p, "fail")
    /\ UNCHANGED <<srvVars, histVars>>

\* chunks_write_start or chunks_delete_start reads the chunk directory; fsck
\* lists and reads everything on the server instead.
Open(p) ==
    /\ pc[p] = "open"
    /\ GotoWith(p, CASE loc[p].op = "write" -> "work"
                     [] loc[p].op = "fsck" -> "wr_open"
                     [] OTHER -> "flush",
                [loc[p] EXCEPT !.stage = "work",
                               !.ck = IF loc[p].op = "write" THEN 0 ELSE 1,
                               !.good = Forced(p) \/ dir["directory"] = ver])
    /\ UNCHANGED <<cacheVars, srvVars, histVars>>

\* Some of the archive has been written: make a checkpoint, or close it.
Work(p) ==
    /\ pc[p] = "work"
    /\ loc[p].ck < MaxCkpt
    /\ \E s \in IF loc[p].ck + 1 < MaxCkpt THEN {"work", "close"} ELSE {"close"} :
           GotoWith(p, "flush", [loc[p] EXCEPT !.stage = s, !.ck = @ + 1])
    /\ UNCHANGED <<cacheVars, srvVars, histVars>>

AfterFlush(p) ==
    CASE loc[p].op = "nuke" -> Goto(p, "nk_commit")
      [] loc[p].op = "fsck" -> Goto(p, "mark")
      [] OTHER -> Goto(p, "wr_open")

\* Mutant: requests still unanswered are forgotten.
FlushNoWait(p) ==
    /\ pc[p] = "flush"
    /\ \E w \in {TRUE, work} : work' = w
    /\ AfterFlush(p)
    /\ UNCHANGED <<cacheVars, ver, cur, kind, ckpt, histVars>>

\* flushtape, storage_delete_flush or storage_delete_end: every request of
\* the transaction has been answered; a wrong nonce is an error.  An fsck
\* may have had nothing to delete.
Flush(p) ==
    /\ pc[p] = "flush"
    /\ \/ cur = loc[p].seq /\ work' = TRUE /\ AfterFlush(p)
       \/ cur # loc[p].seq /\ Exit(p, "fail") /\ UNCHANGED work
       \/ cur # loc[p].seq /\ loc[p].op \in {"fsck", "nuke"} /\ AfterFlush(p)
          /\ UNCHANGED work
    /\ UNCHANGED <<cacheVars, ver, cur, kind, ckpt, histVars>>

WrittenFile(p) == IF loc[p].op = "write" THEN "directory.ckpt" ELSE "directory.tmp"

Torn(p) == [seq |-> loc[p].seq, ck |-> loc[p].ck, whole |-> FALSE]

\* chunks_directory_write: the file is opened, then written and synced.
WrOpen(p) ==
    /\ pc[p] = "wr_open"
    /\ Truncate(WrittenFile(p), Torn(p))
    /\ Goto(p, "wr_close")
    /\ UNCHANGED <<srvVars, histVars>>

WrClose(p) ==
    /\ pc[p] = "wr_close"
    /\ Finish(Torn(p), [Torn(p) EXCEPT !.whole = loc[p].good])
    /\ Goto(p, IF loc[p].op = "fsck" THEN "flush" ELSE "mark")
    /\ UNCHANGED <<srvVars, histVars>>

\* multitape_checkpoint (write) or multitape_commit (delete, fsck).
Mark(p) ==
    /\ pc[p] = "mark"
    /\ IF loc[p].op = "write"
       THEN IF dir["ckpt_m"] # Absent THEN Fail(p, "fail")
            ELSE /\ Alter(disk, "ckpt_m", Link(loc[p].seq, loc[p].ck))
                 /\ Goto(p, "dk_read")
       ELSE IF dir["commit_m"] # Absent THEN Fail(p, "fail")
            ELSE /\ Alter(disk, "commit_m", Link(loc[p].seq, 0))
                 /\ GotoWith(p, "dm_read", [loc[p] EXCEPT !.stage = "commit"])
    /\ UNCHANGED <<srvVars, histVars>>

\* nuketape bypasses the cache directory.
NukeCommit(p) ==
    /\ pc[p] = "nk_commit"
    /\ SrvTryCommit(loc[p].seq)
    /\ Exit(p, "ok")
    /\ acked' = acked \cup {loc[p].seq}
    /\ UNCHANGED <<cacheVars, next, crashes>>

Step(p) ==
    \/ ReadCkptM(p) \/ MvStat(p) \/ MvLink(p) \/ MvUnlink(p) \/ MvEnd(p)
    \/ RemoteCheckpoint(p) \/ RemoteCommit(p)
    \/ DkUnlink(p) \/ DkLink(p) \/ DkDone(p) \/ DkEnd(p)
    \/ ReadCommitM(p) \/ CsUnlink(p) \/ CsLink(p) \/ CsDone(p) \/ CsEnd(p)
    \/ IsCk(p) \/ IsCkCommit(p) \/ Cancel(p) \/ Start(p) \/ StartRefused(p) \/ Open(p) \/ Work(p)
    \/ Flush(p) \/ WrOpen(p) \/ WrClose(p) \/ Mark(p) \/ NukeCommit(p)

(***************************************************************************)
(* The environment.                                                        *)
(***************************************************************************)

\* A request takes effect but its answer does not arrive, or is "try again
\* later": the request is repeated.  A repeated start uses new nonces.
LostReply(p) ==
    /\ \/ /\ pc[p] = "remote" /\ loc[p].move = "ckpt"
          /\ cur = loc[p].mark.seq /\ kind = "write"
          /\ SrvCheckpoint(cur, loc[p].mark.ck)
          /\ UNCHANGED <<next, hist>>
       \/ /\ \/ pc[p] = "remote" /\ loc[p].move = "commit"
             \/ pc[p] = "isck_commit"
          /\ SrvTryCommit(loc[p].mark.seq)
          /\ UNCHANGED next
       \/ /\ pc[p] = "nk_commit"
          /\ SrvTryCommit(loc[p].seq)
          /\ UNCHANGED next
       \/ /\ pc[p] = "start" /\ Startable(p)
          /\ next < MaxSeq
          /\ SrvStart(KindOf(p))
          /\ UNCHANGED hist
    /\ UNCHANGED <<cacheVars, procVars, crashes, acked>>

Crash(p) ==
    /\ pc[p] # "idle"
    /\ crashes < MaxCrash
    /\ crashes' = crashes + 1
    /\ Exit(p, "fail")
    /\ UNCHANGED <<cacheVars, srvVars, next, hist, acked>>

\* Each name keeps one of the entries it has had since the last fsync.
PowerLoss ==
    /\ PowerFail
    /\ crashes < MaxCrash
    /\ crashes' = crashes + 1
    /\ \E c \in disk["cseq"], m \in disk["commit_m"], k \in disk["ckpt_m"],
          d \in disk["directory"], t \in disk["directory.tmp"],
          f \in disk["directory.ckpt"] : dir' = Contents(c, m, k, d, t, f)
    /\ disk' = [n \in Names |-> {dir'[n]}]
    /\ lock' = NoProc
    /\ pc' = [p \in Procs |-> "idle"]
    /\ loc' = [p \in Procs |-> Idle]
    /\ out' = [p \in Procs |-> IF pc[p] = "idle" THEN out[p]
                               ELSE [op |-> loc[p].op, res |-> "fail"]]
    /\ UNCHANGED <<srvVars, next, hist, acked>>

\* Another machine runs --recover, which commits a checkpointed transaction.
ForeignRecover ==
    /\ Foreign
    /\ IsCheckpointed
    /\ SrvTryCommit(cur)
    /\ UNCHANGED <<cacheVars, procVars, next, crashes, acked>>

\* Another machine starts to write an archive and checkpoints it.
ForeignCheckpoint ==
    /\ Foreign
    /\ next <= MaxSeq
    /\ cur' = next
    /\ next' = next + 1
    /\ kind' = "write"
    /\ ckpt' = [seq |-> next, ck |-> 1, whole |-> TRUE]
    /\ work' = FALSE
    /\ UNCHANGED <<cacheVars, procVars, ver, crashes, hist, acked>>

\* Another machine runs --fsck or --nuke: a transaction of its own, which
\* does away with one in progress.
ForeignCommit ==
    /\ Foreign
    /\ next <= MaxSeq
    /\ ver' = [seq |-> next, ck |-> 1, whole |-> TRUE]
    /\ hist' = hist \cup {ver'}
    /\ cur' = 0
    /\ next' = next + 1
    /\ UNCHANGED <<cacheVars, procVars, kind, ckpt, work, crashes, acked>>

Init ==
    /\ dir = [n \in Names |-> Absent]
    /\ disk = [n \in Names |-> {Absent}]
    /\ lock = NoProc
    /\ pc = [p \in Procs |-> "idle"]
    /\ loc = [p \in Procs |-> Idle]
    /\ out = [p \in Procs |-> [op |-> "none", res |-> "none"]]
    /\ ver = Absent /\ cur = 0 /\ kind = "none" /\ ckpt = Absent /\ work = FALSE
    /\ next = 1 /\ crashes = 0 /\ hist = {} /\ acked = {}

Next ==
    \/ \E p \in Procs : \/ \E o \in Ops : Begin(p, o)
                        \/ Step(p)
                        \/ LostReply(p)
                        \/ Crash(p)
    \/ PowerLoss
    \/ ForeignRecover
    \/ ForeignCheckpoint
    \/ ForeignCommit

Spec == Init /\ [][Next]_vars

\* A process that runs is scheduled, the server answers in the end, and
\* backups keep being made.
Fairness == \A p \in Procs : WF_vars(Step(p)) /\ SF_vars(Begin(p, "write"))

FairSpec == Spec /\ Fairness

(***************************************************************************)
(* Properties.                                                             *)
(***************************************************************************)
CacheOK == dir \in [Names -> Entry] /\ disk \in [Names -> SUBSET Entry]

ProcOK ==
    /\ lock \in Procs \cup {NoProc}
    /\ pc \in [Procs -> Labels]
    /\ loc \in [Procs -> LocType]
    /\ out \in [Procs -> [op : AllOps \cup {"none"}, res : Results]]

SrvOK ==
    /\ ver \in Entry /\ cur \in Nat /\ kind \in {"none", "write", "delete"}
    /\ ckpt \in Entry /\ work \in BOOLEAN

HistOK == next \in Nat /\ crashes \in Nat /\ hist \subseteq Entry /\ acked \subseteq Nat

\* The cache directory, the processes, the server and the histories have
\* the types that their declarations give.
TypeOK == CacheOK /\ ProcOK /\ SrvOK /\ HistOK

\* When no commit is pending and the cache directory names the transaction
\* that the server committed last, so that the server will accept the next
\* transaction, the chunk directory describes the archives on the server.
InSync ==
    dir["commit_m"] = Absent /\ dir["cseq"].seq = ver.seq
        => dir["directory"] = ver

\* The server never commits a transaction some of whose files it lacks.
NeverPartial == ver.whole

\* A pending commit of the transaction in progress, with no checkpoint
\* pending: committing it leaves "directory" with what the server will have.
CommitBacked ==
    LET d == IF dir["directory.tmp"] # Absent THEN dir["directory.tmp"]
             ELSE dir["directory"]
    IN  dir["commit_m"] # Absent /\ dir["ckpt_m"] = Absent
        /\ cur = dir["commit_m"].seq => d = Outcome

\* chunks_directory_write never opens a file that has another name: it would
\* truncate a chunk directory that is still needed.
NoAliasTruncated ==
    \A p \in Procs : pc[p] = "wr_open" =>
        \A m \in Files \ {WrittenFile(p)} :
            dir[m] = Absent \/ dir[m] # dir[WrittenFile(p)]

\* A command that says it succeeded has had its transaction committed.
AckedCommitted == \A s \in acked : \E v \in hist : v.seq = s

\* Crashes alone never put the client and the server out of sequence, so
\* that the user has to run --fsck.
NeverOutOfSequence == \A p \in Procs : out[p].res # "mismatch"

\* InSync when every command has ended and nothing is pending.
InSyncAtRest ==
    (\A p \in Procs : pc[p] = "idle") /\ dir["ckpt_m"] = Absent => InSync

\* The cache directory and the server change as one (module TwoSite): the
\* client is in doubt while a commit is pending.
TS == INSTANCE TwoSite WITH
        Zero <- Absent,
        server <- ver,
        client <- IF dir["commit_m"] # Absent THEN << >>
                  ELSE <<dir["cseq"].seq, dir["directory"]>>
Atomic == TS!TSSpec

\* A pending commit is completed in the end.
PendingResolved == dir["commit_m"] # Absent ~> dir["commit_m"] = Absent

=============================================================================
