---------------------------- MODULE MultitapeInv ----------------------------
(***************************************************************************)
(* The inductive invariant behind InSync, NeverPartial, CommitBacked and   *)
(* NoAliasTruncated (module Multitape).                                    *)
(***************************************************************************)
EXTENDS Multitape

\* --recover, which takes no lock, is not run beside another command.
RecoverAlone == "recover" \notin Ops \/ \A p, q \in Procs : p = q

\* A rename that replaces the link and unlink is not cut by a power failure.
RenameSafe == HardLinks \/ ~PowerFail

(***************************************************************************)
(* Good(d): a cache directory whose contents are d can be left to the next *)
(* process, whatever it runs.                                              *)
(***************************************************************************)
Pending(e) == e # Absent

\* Markers name transactions.  The last number that the client has completed
\* is never the one in progress.
GoodSeqs(d) ==
    /\ \A n \in Links : Pending(d[n]) => d[n].seq # 0
    /\ Pending(d["ckpt_m"]) => d["ckpt_m"].ck # 0
    /\ cur # 0 => d["cseq"].seq # cur

\* Only a pending commit lets "directory" differ from what the server has.
GoodSync(d) ==
    d["cseq"].seq = ver.seq /\ (Pending(d["ckpt_m"]) \/ ~Pending(d["commit_m"]))
        => d["directory"] = ver

\* The chunk directory a pending commit will install.
ToInstall(d) == IF d["directory.tmp"] # Absent THEN d["directory.tmp"]
                ELSE d["directory"]

\* ... is the one for what the server will commit, or has committed.
GoodCommit(d) ==
    LET s == d["commit_m"].seq IN
    Pending(d["commit_m"]) /\ ~Pending(d["ckpt_m"]) =>
        /\ s = cur => ToInstall(d) = Outcome /\ Outcome.whole
        /\ s = ver.seq => ToInstall(d) = ver

\* A pending checkpoint of the transaction in progress: the server has it or
\* has all it needs to make it.
GoodCkpt(d) ==
    LET k == d["ckpt_m"]
        f == IF d["directory.ckpt"] # Absent THEN d["directory.ckpt"]
             ELSE d["directory.tmp"]
    IN  Pending(k) /\ k.seq = cur =>
            /\ kind = "write"
            /\ f = Link(k.seq, k.ck)
            /\ ckpt = Link(k.seq, k.ck) \/ (ckpt.ck # k.ck /\ work)

\* Names that may share a file.
GoodAlias(d) ==
    /\ d["directory.ckpt"] # Absent => d["directory.ckpt"] # d["directory"]
    /\ d["directory.ckpt"] # Absent /\ ~Pending(d["ckpt_m"])
           => d["directory.ckpt"] # d["directory.tmp"]
    /\ d["directory.tmp"] # Absent /\ (Pending(d["ckpt_m"]) \/ ~Pending(d["commit_m"]))
           => d["directory.tmp"] # d["directory"]

Good(d) == GoodSeqs(d) /\ GoodSync(d) /\ GoodCommit(d) /\ GoodCkpt(d) /\ GoodAlias(d)

\* Every sequence number was given out by the server.
DiskInv ==
    \A n \in Names : dir[n] \in disk[n] /\ \A e \in disk[n] : e.seq < next

\* The cache directory is good, and so is whatever a power failure may make
\* of it.
CacheInv ==
    /\ Good(dir)
    /\ PowerFail =>
         \A c \in disk["cseq"], m \in disk["commit_m"], k \in disk["ckpt_m"],
            d \in disk["directory"], t \in disk["directory.tmp"],
            f \in disk["directory.ckpt"] : Good(Contents(c, m, k, d, t, f))

(***************************************************************************)
(* The server.                                                             *)
(***************************************************************************)
SrvInv ==
    /\ next # 0
    /\ cur < next /\ ver.seq < next
    /\ cur # 0 => cur # ver.seq
    /\ cur # 0 => kind \in {"write", "delete"}
    /\ ver.whole
    /\ ckpt.whole
    /\ cur # 0 /\ ckpt # Absent => ckpt.seq = cur

(***************************************************************************)
(* The processes.                                                          *)
(***************************************************************************)

\* A process that may change the cache directory.  The lock, or there being
\* one process only, keeps it alone.
Active(p) == pc[p] # "idle" /\ loc[p].op # "nuke"

LockInv ==
    \A p \in Procs :
        /\ loc[p].seq < next
        /\ pc[p] # "idle" => loc[p].op \in Ops
        /\ Active(p) /\ NeedsLock(loc[p].op) => lock = p

\* A nuke works apart from the cache directory, in a transaction that
\* nothing else knows of.
NukeTxn(p) ==
    LET s == loc[p].seq IN
    /\ s # 0
    /\ cur = s => kind = "delete"
    /\ pc[p] = "nk_commit" /\ cur = s => work
    /\ \A q \in Procs \ {p} : loc[q].seq # s
    /\ \A n \in Names : \A e \in disk[n] : e.seq # s

NukeInv(p) ==
    pc[p] # "idle" /\ loc[p].op = "nuke" =>
        /\ pc[p] \in {"cancel", "start", "open", "flush", "nk_commit"}
        /\ pc[p] \in {"open", "flush", "nk_commit"} => NukeTxn(p)

Synced(S) == \A n \in Names \ S : disk[n] = {dir[n]}

\* What a process knows of its transaction while it works in it.
InTxn(p) ==
    LET s == loc[p].seq IN
    /\ s # 0
    /\ cur = s => loc[p].good /\ kind = KindOf(p)
    /\ dir["cseq"].seq = ver.seq => dir["directory"] = ver
    /\ dir["cseq"].seq # s /\ dir["directory"].seq # s
    /\ dir["directory.tmp"] # Absent => dir["directory.tmp"] # dir["directory"]
    /\ loc[p].op = "write" =>
          /\ \A n \in {"ckpt_m", "directory.tmp", "directory.ckpt"} :
                dir[n].seq = s => dir[n].ck <= loc[p].ck
          /\ cur = s => ckpt.ck <= loc[p].ck
    /\ loc[p].op # "write" =>
          /\ loc[p].ck = 1
          /\ ver.seq # s
          /\ dir["commit_m"] = Absent /\ dir["ckpt_m"] = Absent
          /\ dir["directory.ckpt"].seq # s

\* ... while it makes its next checkpoint, before the marker.
NewCkpt(p) ==
    loc[p].op = "write" =>
        /\ loc[p].ck # 0
        /\ dir["directory.tmp"].seq = loc[p].seq => dir["directory.tmp"].ck < loc[p].ck
        /\ cur = loc[p].seq => ckpt.ck < loc[p].ck

InMove == {"mv_stat", "mv_link", "mv_unlink", "mv_end"}
InDoCkpt == {"dk_unlink", "dk_link", "dk_done"}
InDoCommit == {"cs_unlink", "cs_link", "cs_done"}

MoveInv(p) ==
    LET old == dir[OldName(p)]  new == dir[NewName(p)] IN
    /\ pc[p] = "mv_stat" => Synced({})
    /\ pc[p] = "mv_link" => Synced({NewName(p)}) /\ old # Absent /\ new = Absent
    /\ pc[p] = "mv_unlink" => Synced({NewName(p)}) /\ old # Absent /\ new = old
    /\ pc[p] = "mv_end" => Synced({NewName(p), OldName(p)}) /\ old = Absent
                           /\ new # Absent
                           /\ (HardLinks => Synced({OldName(p)}))
    /\ pc[p] = "remote" => Synced({}) /\ old = Absent

CkptInv(p) ==
    LET mark == loc[p].mark IN
    /\ (pc[p] \in InMove \cup {"remote"} /\ loc[p].move = "ckpt") \/ pc[p] \in InDoCkpt =>
          dir["ckpt_m"] = mark /\ mark # Absent /\ disk["ckpt_m"] = {mark}
          /\ loc[p].stage \in {"clean", "work", "close"}
    /\ pc[p] \in InDoCkpt =>
          /\ dir["directory.tmp"] = Link(mark.seq, mark.ck)
          /\ dir["directory.ckpt"] = Absent
          /\ cur = mark.seq => kind = "write" /\ ckpt = Link(mark.seq, mark.ck)
          /\ ver.seq = mark.seq => ver = Link(mark.seq, mark.ck)
    /\ pc[p] = "dk_unlink" => Synced({})
    /\ pc[p] = "dk_link" => Synced({"commit_m"}) /\ dir["commit_m"] = Absent
    /\ pc[p] = "dk_done" => Synced({"commit_m"}) /\ dir["commit_m"] = Link(mark.seq, 0)
    /\ pc[p] = "dk_end" =>
          /\ Synced({"ckpt_m"}) /\ dir["ckpt_m"] = Absent
          /\ loc[p].stage \in {"work", "close"} => loc[p].op = "write"

CommitInv(p) ==
    LET mark == loc[p].mark IN
    /\ pc[p] = "dm_read" => Synced({"commit_m"}) /\ dir["ckpt_m"] = Absent
                            /\ loc[p].stage \in {"clean", "commit"}
    /\ (pc[p] \in InMove \cup {"remote"} /\ loc[p].move = "commit") \/ pc[p] \in InDoCommit =>
          /\ dir["ckpt_m"] = Absent
          /\ dir["commit_m"] = mark /\ mark # Absent
          /\ loc[p].stage \in {"clean", "commit"}
    /\ pc[p] \in InDoCommit => cur # mark.seq /\ dir["directory.tmp"] = Absent
    /\ pc[p] = "cs_unlink" => Synced({})
    /\ pc[p] = "cs_link" => Synced({"cseq"}) /\ dir["cseq"] = Absent
    /\ pc[p] = "cs_done" => Synced({"cseq"}) /\ dir["cseq"] = Link(mark.seq, 0)
    /\ pc[p] = "cs_end" => Synced({"commit_m"}) /\ dir["commit_m"] = Absent
                           /\ dir["ckpt_m"] = Absent
                           /\ loc[p].stage \in {"clean", "commit"}

InWork == {"work", "flush", "wr_open", "wr_close", "mark"}
BeforeWork == {"isck", "isck_commit", "cancel", "start", "open"}

TxnInv(p) ==
    /\ pc[p] # "nk_commit"
    /\ pc[p] \in BeforeWork =>
          /\ Synced({})
          /\ dir["commit_m"] = Absent /\ dir["ckpt_m"] = Absent
          /\ loc[p].stage = "clean"
    /\ pc[p] = "isck_commit" =>
          loc[p].mark.seq < next /\ (cur = loc[p].mark.seq /\ cur # 0 => kind = "write")
    /\ pc[p] \in {"cancel", "start", "open"} => loc[p].op # "recover"
    /\ pc[p] = "start" => loc[p].mark.seq = dir["cseq"].seq
    /\ pc[p] = "open" =>
          /\ loc[p].seq # 0
          /\ \A n \in Names : dir[n].seq # loc[p].seq
          /\ ver.seq # loc[p].seq
          /\ cur = loc[p].seq => kind = KindOf(p) /\ ckpt = Absent
          /\ cur = loc[p].seq /\ loc[p].op # "fsck" => dir["cseq"].seq = ver.seq
    /\ loc[p].stage \in {"work", "close"} /\ pc[p] \notin BeforeWork =>
          InTxn(p)
    /\ pc[p] \in InWork =>
          /\ loc[p].stage \in {"work", "close"}
          /\ dir["ckpt_m"] = Absent
          /\ pc[p] # "wr_close" => Synced({})
          /\ pc[p] # "work" => NewCkpt(p)
    /\ pc[p] = "work" => loc[p].op = "write" /\ loc[p].stage = "work"
    /\ pc[p] \in {"flush", "wr_open"} /\ loc[p].op = "delete" =>
          dir["directory.tmp"].seq # loc[p].seq
    /\ pc[p] = "wr_open" /\ loc[p].op = "fsck" => dir["directory.tmp"].seq # loc[p].seq
    /\ pc[p] = "wr_close" => Synced({WrittenFile(p)}) /\ dir[WrittenFile(p)] = Torn(p)
    /\ pc[p] = "mark" \/ (pc[p] = "flush" /\ loc[p].op = "fsck") =>
          dir[WrittenFile(p)] = [Torn(p) EXCEPT !.whole = loc[p].good]
    /\ (pc[p] = "mark" \/ (pc[p] \in {"wr_open", "wr_close"} /\ loc[p].op # "fsck"))
          /\ cur = loc[p].seq => work
    /\ pc[p] = "dk_read" =>
          /\ loc[p].stage = "commit" => dir["ckpt_m"] = Absent
          /\ loc[p].stage # "clean" => loc[p].op = "write"
          /\ loc[p].stage \in {"work", "close"} => Synced({"ckpt_m"})

ProcInv(p) == Active(p) => MoveInv(p) /\ CkptInv(p) /\ CommitInv(p) /\ TxnInv(p)

IInv ==
    /\ TypeOK /\ SrvInv /\ DiskInv /\ CacheInv /\ LockInv
    /\ \A p \in Procs : NukeInv(p) /\ ProcInv(p)

(***************************************************************************)
(* A machine that is alone with its keys: the client and the server stay   *)
(* in sequence.                                                            *)
(***************************************************************************)

\* No other machine uses the keys, and no command goes past the cache
\* directory.
Alone == ~Foreign /\ "nuke" \notin Ops

\* What the markers name, now and after any power failure: a checkpoint or a
\* commit of the transaction in progress, or, when there is none, the commit
\* of the last one that the server committed.
MarkerInv ==
    /\ \A e \in disk["ckpt_m"] : Pending(e) => cur # 0 /\ e.seq = cur
    /\ \A e \in disk["commit_m"] :
          Pending(e) => e.seq = IF cur # 0 THEN cur ELSE ver.seq
    /\ cur # 0 \/ Absent \in disk["commit_m"] =>
          \A e \in disk["cseq"] : e.seq = ver.seq
    /\ Absent \in disk["commit_m"] /\ Absent \in disk["ckpt_m"] => ~IsCheckpointed

\* Every transaction started is newer than those committed.
OrderInv ==
    /\ cur # 0 => ver.seq < cur
    /\ ver.seq # 0 => ver \in hist

\* A process in the middle of its transaction is in the one in progress; one
\* that commits it sees its marker until the server has committed it.
SeqInv(p) ==
    LET s == loc[p].seq IN
    Active(p) =>
        /\ pc[p] # "isck_commit"
        /\ pc[p] = "open" \/ (loc[p].stage \in {"work", "close"} /\ pc[p] \notin BeforeWork)
              => cur = s
        /\ pc[p] = "dk_read" /\ loc[p].stage \in {"work", "close"} => dir["ckpt_m"] # Absent
        /\ pc[p] = "dk_end" /\ loc[p].stage \in {"work", "close"} => dir["commit_m"].seq = s
        /\ loc[p].stage = "commit" =>
              /\ s # 0
              /\ IF pc[p] = "cs_end" THEN ver.seq = s ELSE dir["commit_m"].seq = s

AInv == IInv /\ MarkerInv /\ OrderInv /\ AckedCommitted /\ \A p \in Procs : SeqInv(p)
=============================================================================
