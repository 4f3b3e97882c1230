--------------------------- MODULE MultitapeProofs ---------------------------
(***************************************************************************)
(* Type correctness of module Multitape, with a lemma for each operator    *)
(* that changes variables and a case of StepType for each action.  Then    *)
(* IInv: the steps that change the cache directory (what a power failure   *)
(* can make of it, what a step of one process is for the others, and one   *)
(* lemma for each action of chunks_directory_commit,                       *)
(* multitape_docheckpoint and multitape_docommit), those that talk to the  *)
(* server, those that do the work of a transaction, and those of the       *)
(* environment, and what follows from IInv.  The last part is about a      *)
(* machine that is alone with its keys: AInv is an invariant, and          *)
(* Multitape implements TwoSite.                                           *)
(***************************************************************************)
EXTENDS MultitapeInv, TLAPS

USE DEF Names, Links, Files

(***************************************************************************)
(* Types.                                                                  *)
(***************************************************************************)

\* A missing name and a marker are entries of the cache directory.
LEMMA EntryFacts ==
    /\ Absent \in Entry
    /\ \A s, c \in Nat : Link(s, c) \in Entry
BY DEF Absent, Entry, Link

\* Linking or unlinking a name keeps the types of the cache directory.
LEMMA AlterType ==
    ASSUME CacheOK, NEW k \in [Names -> SUBSET Entry], NEW n \in Names,
           NEW v \in Entry, Alter(k, n, v)
    PROVE  CacheOK'
BY DEF CacheOK, Alter

\* What an fsync of the directory leaves on disk has the type of disk.
LEMMA FlushedType == CacheOK => Flushed \in [Names -> SUBSET Entry]
BY DEF CacheOK, Flushed

\* An fsync of the directory (dirutil_fsyncdir) keeps its types.
LEMMA FsyncType == CacheOK /\ Fsync => CacheOK'
BY DEF CacheOK, Fsync, Flushed

\* Opening a file for writing, with what its other links see, keeps the types.
LEMMA TruncateType ==
    ASSUME CacheOK, NEW n \in Names, NEW v \in Entry, Truncate(n, v)
    PROVE  CacheOK'
<1> DEFINE new(x) == IF dir[n] # Absent /\ x = dir[n] THEN v ELSE x
<1>1. \A x \in Entry : new(x) \in Entry
  OBVIOUS
<1>2. dir' \in [Names -> Entry]
  BY <1>1 DEF CacheOK, Truncate
<1>3. \A m \in Names : disk[m] \in SUBSET Entry
  BY DEF CacheOK
<1>4. disk' \in [Names -> SUBSET Entry]
  BY <1>1, <1>3 DEF Truncate
<1>5. QED BY <1>2, <1>4 DEF CacheOK

\* Completing and syncing the file under construction keeps the types.
LEMMA FinishType ==
    ASSUME CacheOK, NEW v \in Entry, NEW w \in Entry, Finish(v, w)
    PROVE  CacheOK'
BY DEF CacheOK, Finish

\* A process that goes on keeps the types of the processes.
LEMMA GotoType ==
    ASSUME ProcOK, NEW p \in Procs, NEW l \in Labels, Goto(p, l)
    PROVE  ProcOK'
BY DEF ProcOK, Goto

\* So does one that also changes its local variables.
LEMMA GotoWithType ==
    ASSUME ProcOK, NEW p \in Procs, NEW l \in Labels, NEW r \in LocType,
           GotoWith(p, l, r)
    PROVE  ProcOK'
BY DEF ProcOK, GotoWith

\* The local variables of a process that does not run have their type.
LEMMA IdleType == Idle \in LocType
BY EntryFacts DEF Idle, LocType

\* The end of a process keeps the types of the processes.
LEMMA ExitType ==
    ASSUME ProcOK, NEW p \in Procs, NEW res \in Results, Exit(p, res)
    PROVE  ProcOK'
<1>1. "idle" \in Labels
  BY DEF Labels
<1>2. loc[p].op \in AllOps \cup {"none"}
  BY DEF ProcOK, LocType
<1>3. [op |-> loc[p].op, res |-> res] \in [op : AllOps \cup {"none"}, res : Results]
  BY <1>2
<1>4. QED BY <1>1, <1>3, IdleType DEF ProcOK, Exit

\* A commit keeps the types of what the server and the histories hold.
LEMMA TryCommitType ==
    ASSUME SrvOK, hist \subseteq Entry, NEW s \in Nat, SrvTryCommit(s)
    PROVE  SrvOK' /\ hist' \subseteq Entry
<1>1. Outcome \in Entry
  BY DEF SrvOK, Outcome, Entry
<1>2. QED BY <1>1 DEF SrvOK, SrvTryCommit, srvVars

\* A new transaction keeps the types of the server.
LEMMA StartType ==
    ASSUME SrvOK, next \in Nat, NEW k \in {"write", "delete"}, SrvStart(k)
    PROVE  SrvOK' /\ next' \in Nat
<1>1. work' \in BOOLEAN
  BY Zenon DEF SrvStart
<1>2. QED BY <1>1, EntryFacts, SMT DEF SrvOK, SrvStart

\* So does a checkpoint.
LEMMA CheckpointType ==
    ASSUME SrvOK, NEW s \in Nat, NEW c \in Nat, SrvCheckpoint(s, c)
    PROVE  SrvOK'
<1>1. work' \in BOOLEAN
  BY Zenon DEF SrvOK, SrvCheckpoint
<1>2. [seq |-> s, ck |-> c, whole |-> work] \in Entry
  BY DEF SrvOK, Entry
<1>3. ckpt' \in Entry
  BY <1>2, Zenon DEF SrvOK, SrvCheckpoint
<1>4. QED BY <1>1, <1>3 DEF SrvOK, SrvCheckpoint

\* The local variables of a process have the types their declaration gives.
LEMMA LocFacts ==
    ASSUME ProcOK, NEW p \in Procs
    PROVE  /\ loc[p] \in LocType
           /\ loc[p].mark \in Entry /\ loc[p].mark.seq \in Nat /\ loc[p].mark.ck \in Nat
           /\ loc[p].seq \in Nat /\ loc[p].ck \in Nat
BY DEF ProcOK, LocType, Entry

\* The end of multitape_docheckpoint keeps the types, wherever it returns to.
LEMMA AfterCkptType ==
    ASSUME ProcOK, NEW p \in Procs, AfterCkpt(p)
    PROVE  ProcOK'
<1>1. [loc[p] EXCEPT !.stage = "commit"] \in LocType
  BY LocFacts DEF LocType
<1>2. {"work", "dk_read", "dm_read"} \subseteq Labels
  BY DEF Labels
<1>3. \/ Goto(p, "work")
      \/ GotoWith(p, "dk_read", [loc[p] EXCEPT !.stage = "commit"])
      \/ Goto(p, "dm_read")
  BY DEF AfterCkpt
<1>4. QED BY <1>1, <1>2, <1>3, GotoType, GotoWithType

\* The end of multitape_docommit keeps the types, wherever it returns to.
LEMMA AfterCleanType ==
    ASSUME ProcOK, acked \subseteq Nat, NEW p \in Procs, AfterClean(p)
    PROVE  ProcOK' /\ acked' \subseteq Nat
<1>1. CASE loc[p].stage = "commit"
  <2>1. Exit(p, "ok") /\ acked' = acked \cup {loc[p].seq}
    BY <1>1 DEF AfterClean
  <2>2. "ok" \in Results
    BY DEF Results
  <2>3. QED BY <2>1, <2>2, ExitType, LocFacts
<1>2. CASE loc[p].stage # "commit"
  <2>1. PICK l \in {"isck", "cancel"} : Goto(p, l)
    BY <1>2 DEF AfterClean
  <2>2. l \in Labels
    BY DEF Labels
  <2>3. QED BY <1>2, <2>1, <2>2, GotoType DEF AfterClean
<1>3. QED BY <1>1, <1>2

\* The end of storage_transaction_commitfromcheckpoint keeps the types.
LEMMA AfterIsCkType ==
    ASSUME ProcOK, NEW p \in Procs, AfterIsCk(p)
    PROVE  ProcOK'
BY GotoType, ExitType DEF AfterIsCk, Labels, Results

\* A flush of the pending requests keeps the types, whatever comes next.
LEMMA AfterFlushType ==
    ASSUME ProcOK, NEW p \in Procs, AfterFlush(p)
    PROVE  ProcOK'
<1>1. {"nk_commit", "mark", "wr_open"} \subseteq Labels
  BY DEF Labels
<1>2. \/ Goto(p, "nk_commit") \/ Goto(p, "mark") \/ Goto(p, "wr_open")
  BY DEF AfterFlush
<1>3. QED BY <1>1, <1>2, GotoType

\* A command that gives up keeps the types.
LEMMA FailType ==
    ASSUME ProcOK, CacheOK, NEW p \in Procs, NEW res \in Results, Fail(p, res)
    PROVE  ProcOK' /\ CacheOK'
BY ExitType DEF Fail, cacheVars, CacheOK

\* A command that is started, or turned away, keeps the types.
LEMMA BeginType ==
    ASSUME TypeOK, NEW p \in Procs, NEW o \in Ops, Begin(p, o)
    PROVE  TypeOK'
<1>1. o \in AllOps
  BY ConstAssumption
<1>2. /\ {"idle", "cancel", "dk_read"} \subseteq Labels
      /\ {"refused", "locked", "none"} \subseteq Results
  BY DEF Labels, Results
<1>3. [Idle EXCEPT !.op = o] \in LocType
  BY <1>1, IdleType DEF LocType
<1>4. \A r \in Results : [op |-> o, res |-> r] \in [op : AllOps \cup {"none"}, res : Results]
  BY <1>1
<1>5. ProcOK'
  <2>1. lock' \in Procs \cup {NoProc}
    BY DEF Begin, TypeOK, ProcOK
  <2>2. pc' \in [Procs -> Labels]
    BY <1>2 DEF Begin, TypeOK, ProcOK
  <2>3. loc' \in [Procs -> LocType]
    BY <1>3, Zenon DEF Begin, TypeOK, ProcOK
  <2>4. out' \in [Procs -> [op : AllOps \cup {"none"}, res : Results]]
    <3>1. PICK r \in Results : out' = [out EXCEPT ![p] = [op |-> o, res |-> r]]
      BY <1>2 DEF Begin
    <3>2. QED BY <1>4, <3>1 DEF TypeOK, ProcOK
  <2>5. QED BY <2>1, <2>2, <2>3, <2>4 DEF ProcOK
<1>6. QED BY <1>5 DEF Begin, TypeOK, CacheOK, SrvOK, HistOK, cacheVars, srvVars, histVars

\* chunks_directory_commit works on names of the cache directory.
LEMMA NamesFacts ==
    ASSUME NEW p \in Procs
    PROVE  OldName(p) \in Names /\ NewName(p) \in Names
BY DEF OldName, NewName

\* What does not change keeps its type.
LEMMA UnchangedType ==
    /\ CacheOK /\ UNCHANGED cacheVars => CacheOK'
    /\ SrvOK /\ UNCHANGED srvVars => SrvOK'
    /\ ProcOK /\ UNCHANGED procVars => ProcOK'
    /\ HistOK /\ UNCHANGED histVars => HistOK'
BY DEF CacheOK, SrvOK, ProcOK, HistOK, cacheVars, srvVars, procVars, histVars

\* Every step of a command keeps the types: one case per action.
LEMMA StepType ==
    ASSUME TypeOK, NEW p \in Procs, Step(p)
    PROVE  TypeOK'
<1> USE UnchangedType DEF TypeOK
<1>1. CASE MvEnd(p)
  BY <1>1, FsyncType, GotoType DEF MvEnd, Labels
<1>2. CASE ReadCkptM(p)
  <2>1. CASE dir["ckpt_m"] = Absent
    BY <1>2, <2>1, FsyncType, AfterCkptType DEF ReadCkptM
  <2>2. CASE dir["ckpt_m"] # Absent
    <3>1. [loc[p] EXCEPT !.mark = dir["ckpt_m"], !.move = "ckpt"] \in LocType
      BY LocFacts DEF CacheOK, LocType
    <3>2. QED BY <1>2, <2>2, <3>1, FsyncType, GotoWithType DEF ReadCkptM, Labels
  <2>3. QED BY <2>1, <2>2
<1>3. CASE MvStat(p)
  BY <1>3, AlterType, GotoType, EntryFacts, NamesFacts DEF MvStat, Labels, CacheOK
<1>4. CASE MvLink(p)
  <2>1. CASE Fail(p, "fail")
    BY <1>4, <2>1, FailType DEF MvLink, Results
  <2>2. CASE Goto(p, "mv_unlink") /\ Alter(disk, NewName(p), dir[OldName(p)])
    BY <1>4, <2>2, AlterType, GotoType, NamesFacts DEF MvLink, Labels, CacheOK
  <2>3. CASE /\ Goto(p, "mv_end")
             /\ dir' = [dir EXCEPT ![NewName(p)] = dir[OldName(p)], ![OldName(p)] = Absent]
             /\ disk' = [disk EXCEPT ![NewName(p)] = @ \cup {dir[OldName(p)]},
                                     ![OldName(p)] = @ \cup {Absent}]
    <3>1. CacheOK'
      BY <2>3, EntryFacts, NamesFacts DEF CacheOK
    <3>2. QED BY <1>4, <2>3, <3>1, GotoType DEF MvLink, Labels
  <2>4. QED BY <1>4, <2>1, <2>2, <2>3 DEF MvLink
<1>5. CASE MvUnlink(p)
  BY <1>5, FailType, AlterType, GotoType, EntryFacts, FlushedType, NamesFacts
     DEF MvUnlink, Labels, Results
<1>6. CASE RemoteCheckpoint(p)
  BY <1>6, CheckpointType, GotoType, ExitType, LocFacts
     DEF RemoteCheckpoint, Labels, Results, SrvOK, srvVars
<1>7. CASE RemoteCommit(p)
  BY <1>7, TryCommitType, GotoType, LocFacts DEF RemoteCommit, Labels, HistOK
<1>8. CASE DkUnlink(p)
  BY <1>8, AlterType, GotoType, EntryFacts DEF DkUnlink, Labels, CacheOK
<1>9. CASE DkLink(p)
  BY <1>9, FailType, AlterType, GotoType, EntryFacts, LocFacts DEF DkLink, Labels, Results, CacheOK
<1>10. CASE DkDone(p)
  BY <1>10, FailType, AlterType, GotoType, EntryFacts, FlushedType DEF DkDone, Labels, Results
<1>11. CASE DkEnd(p)
  BY <1>11, FsyncType, AfterCkptType DEF DkEnd, Labels
<1>12. CASE ReadCommitM(p)
  <2>1. CASE dir["commit_m"] = Absent
    BY <1>12, <2>1, FsyncType, AfterCleanType DEF ReadCommitM, HistOK
  <2>2. CASE dir["commit_m"] # Absent
    <3>1. [loc[p] EXCEPT !.mark = dir["commit_m"], !.move = "commit"] \in LocType
      BY LocFacts DEF CacheOK, LocType
    <3>2. QED BY <1>12, <2>2, <3>1, FsyncType, GotoWithType DEF ReadCommitM, Labels, HistOK
  <2>3. QED BY <2>1, <2>2
<1>13. CASE CsUnlink(p)
  BY <1>13, AlterType, GotoType, EntryFacts DEF CsUnlink, Labels, CacheOK
<1>14. CASE CsLink(p)
  BY <1>14, FailType, AlterType, GotoType, EntryFacts, LocFacts DEF CsLink, Labels, Results, CacheOK
<1>15. CASE CsDone(p)
  BY <1>15, FailType, AlterType, GotoType, EntryFacts, FlushedType DEF CsDone, Labels, Results
<1>16. CASE CsEnd(p)
  BY <1>16, FsyncType, AfterCleanType DEF CsEnd, HistOK
<1>17. CASE IsCk(p)
  <2>1. [loc[p] EXCEPT !.mark = Link(cur, 0)] \in LocType
    BY LocFacts, EntryFacts DEF LocType, SrvOK
  <2>2. QED BY <1>17, <2>1, GotoWithType, AfterIsCkType DEF IsCk, Labels
<1>18. CASE IsCkCommit(p)
  BY <1>18, TryCommitType, AfterIsCkType, LocFacts DEF IsCkCommit, HistOK
<1>19. CASE Cancel(p)
  <2>1. [loc[p] EXCEPT !.mark = Link(dir["cseq"].seq, 0)] \in LocType
    BY LocFacts, EntryFacts DEF LocType, CacheOK, Entry
  <2>2. SrvOK'
    BY <1>19 DEF Cancel, SrvCancel, SrvOK
  <2>3. QED BY <1>19, <2>1, <2>2, GotoWithType DEF Cancel, Labels
<1>20. CASE Start(p)
  <2>1. [loc[p] EXCEPT !.seq = next] \in LocType
    BY LocFacts DEF LocType, HistOK
  <2>2. KindOf(p) \in {"write", "delete"}
    BY DEF KindOf
  <2>3. CASE Startable(p)
    BY <1>20, <2>1, <2>2, <2>3, StartType, GotoWithType DEF Start, Labels, HistOK
  <2>4. CASE ~Startable(p)
    BY <1>20, <2>4, ExitType DEF Start, Results, HistOK
  <2>5. QED BY <2>3, <2>4
<1>21. CASE StartRefused(p)
  BY <1>21, FailType DEF StartRefused, Results
<1>22. CASE Open(p)
  <2>1. [loc[p] EXCEPT !.stage = "work",
                      !.ck = IF loc[p].op = "write" THEN 0 ELSE 1,
                      !.good = Forced(p) \/ dir["directory"] = ver] \in LocType
    BY LocFacts DEF LocType
  <2>2. PICK l \in {"work", "wr_open", "flush"} :
            GotoWith(p, l, [loc[p] EXCEPT !.stage = "work",
                      !.ck = IF loc[p].op = "write" THEN 0 ELSE 1,
                      !.good = Forced(p) \/ dir["directory"] = ver])
    BY <1>22 DEF Open
  <2>3. QED BY <1>22, <2>1, <2>2, GotoWithType DEF Open, Labels
<1>23. CASE Work(p)
  <2>1. PICK s \in {"work", "close"} :
            GotoWith(p, "flush", [loc[p] EXCEPT !.stage = s, !.ck = @ + 1])
    BY <1>23 DEF Work
  <2>2. [loc[p] EXCEPT !.stage = s, !.ck = @ + 1] \in LocType
    <3>1. loc[p].ck + 1 \in Nat
      BY LocFacts
    <3>2. QED BY <3>1, LocFacts DEF LocType
  <2>3. QED BY <1>23, <2>1, <2>2, GotoWithType DEF Work, Labels
<1>24. CASE Flush(p)
  <2>1. work' \in BOOLEAN
    BY <1>24, Zenon DEF Flush, SrvOK
  <2>2. QED BY <1>24, <2>1, AfterFlushType, ExitType DEF Flush, Results, SrvOK
<1>25. CASE WrOpen(p)
  <2>1. Torn(p) \in Entry /\ WrittenFile(p) \in Names
    BY LocFacts DEF Torn, Entry, WrittenFile
  <2>2. QED BY <1>25, <2>1, TruncateType, GotoType DEF WrOpen, Labels
<1>26. CASE WrClose(p)
  <2>1. Torn(p) \in Entry /\ [Torn(p) EXCEPT !.whole = loc[p].good] \in Entry
    BY LocFacts DEF Torn, Entry, LocType
  <2>2. QED BY <1>26, <2>1, FinishType, GotoType DEF WrClose, Labels
<1>27. CASE Mark(p)
  <2>1. [loc[p] EXCEPT !.stage = "commit"] \in LocType
    BY LocFacts DEF LocType
  <2>2. Link(loc[p].seq, loc[p].ck) \in Entry /\ Link(loc[p].seq, 0) \in Entry
    BY LocFacts, EntryFacts
  <2>3. QED BY <1>27, <2>1, <2>2, AlterType, FailType, GotoType, GotoWithType
            DEF Mark, Labels, Results, CacheOK
<1>28. CASE NukeCommit(p)
  BY <1>28, TryCommitType, ExitType, LocFacts DEF NukeCommit, Results, HistOK
<1>29. QED BY <1>1, <1>2, <1>3, <1>4, <1>5, <1>6, <1>7, <1>8, <1>9, <1>10,
            <1>11, <1>12, <1>13, <1>14, <1>15, <1>16, <1>17, <1>18, <1>19, <1>20,
            <1>21, <1>22, <1>23, <1>24, <1>25, <1>26, <1>27, <1>28 DEF Step

\* A request that is repeated keeps the types.
LEMMA LostReplyType ==
    ASSUME TypeOK, NEW p \in Procs, LostReply(p)
    PROVE  TypeOK'
<1> USE UnchangedType DEF TypeOK
<1>1. CASE cur = loc[p].mark.seq /\ SrvCheckpoint(cur, loc[p].mark.ck) /\ UNCHANGED <<next, hist>>
  BY <1>1, CheckpointType, LocFacts DEF LostReply, HistOK
<1>2. CASE (SrvTryCommit(loc[p].mark.seq) \/ SrvTryCommit(loc[p].seq)) /\ UNCHANGED next
  BY <1>2, TryCommitType, LocFacts DEF LostReply, HistOK
<1>3. CASE SrvStart(KindOf(p)) /\ UNCHANGED hist
  <2>1. KindOf(p) \in {"write", "delete"}
    BY DEF KindOf
  <2>2. QED BY <1>3, <2>1, StartType DEF LostReply, HistOK
<1>4. QED BY <1>1, <1>2, <1>3 DEF LostReply

\* What a power failure leaves has the types of the cache directory.
LEMMA PowerLossType ==
    ASSUME TypeOK, PowerLoss
    PROVE  TypeOK'
<1> USE UnchangedType DEF TypeOK
<1>1. PICK c \in disk["cseq"], m \in disk["commit_m"], k \in disk["ckpt_m"],
           d \in disk["directory"], t \in disk["directory.tmp"],
           f \in disk["directory.ckpt"] : dir' = Contents(c, m, k, d, t, f)
  BY DEF PowerLoss
<1>2. {c, m, k, d, t, f} \subseteq Entry
  BY DEF CacheOK
<1>3. dir' \in [Names -> Entry]
  BY <1>1, <1>2 DEF Contents
<1>4. disk' \in [Names -> SUBSET Entry]
  BY <1>3 DEF PowerLoss
<1>5. ProcOK'
  <2>1. out' \in [Procs -> [op : AllOps \cup {"none"}, res : Results]]
    <3>1. \A q \in Procs : [op |-> loc[q].op, res |-> "fail"]
                           \in [op : AllOps \cup {"none"}, res : Results]
      BY DEF ProcOK, LocType, Results
    <3>2. QED BY <3>1 DEF PowerLoss, ProcOK
  <2>2. "idle" \in Labels
    BY DEF Labels
  <2>3. QED BY <2>1, <2>2, IdleType DEF PowerLoss, ProcOK
<1>6. QED BY <1>3, <1>4, <1>5 DEF PowerLoss, CacheOK, HistOK

\* The other machine keeps the types of the server.
LEMMA ForeignType ==
    ASSUME TypeOK, ForeignRecover \/ ForeignCheckpoint \/ ForeignCommit
    PROVE  TypeOK'
<1> USE UnchangedType DEF TypeOK
<1>1. CASE ForeignRecover
  BY <1>1, TryCommitType DEF ForeignRecover, SrvOK, HistOK
<1>2. CASE ForeignCheckpoint
  <2>1. [seq |-> next, ck |-> 1, whole |-> TRUE] \in Entry
    BY DEF HistOK, Entry
  <2>2. work' \in BOOLEAN
    BY <1>2, Zenon DEF ForeignCheckpoint
  <2>3. QED BY <1>2, <2>1, <2>2 DEF ForeignCheckpoint, SrvOK, HistOK
<1>3. CASE ForeignCommit
  <2>1. [seq |-> next, ck |-> 1, whole |-> TRUE] \in Entry
    BY DEF HistOK, Entry
  <2>2. SrvOK'
    BY <1>3, <2>1 DEF ForeignCommit, SrvOK
  <2>3. HistOK'
    <3>1. hist' \subseteq Entry
      BY <1>3, <2>1, Zenon DEF ForeignCommit, HistOK
    <3>2. QED BY <1>3, <3>1, SMT DEF ForeignCommit, HistOK
  <2>4. QED BY <1>3, <2>2, <2>3 DEF ForeignCommit
<1>4. QED BY <1>1, <1>2, <1>3

\* The initial state has the types of TypeOK.
LEMMA TypeInit == Init => TypeOK
<1> SUFFICES ASSUME Init PROVE TypeOK
  OBVIOUS
<1>1. CacheOK
  BY EntryFacts DEF Init, CacheOK
<1>2. ProcOK
  BY IdleType DEF Init, ProcOK, Labels, Results
<1>3. SrvOK
  <2>1. work \in BOOLEAN
    BY Zenon DEF Init
  <2>2. QED BY <2>1, EntryFacts DEF Init, SrvOK
<1>4. HistOK
  BY DEF Init, HistOK
<1>5. QED BY <1>1, <1>2, <1>3, <1>4 DEF TypeOK

\* Every step keeps them.
LEMMA TypeNext == TypeOK /\ [Next]_vars => TypeOK'
<1> SUFFICES ASSUME TypeOK, [Next]_vars PROVE TypeOK'
  OBVIOUS
<1>1. ASSUME NEW p \in Procs, Crash(p) PROVE TypeOK'
  BY <1>1, ExitType, UnchangedType DEF Crash, Results, TypeOK, HistOK
<1>2. CASE UNCHANGED vars
  BY <1>2, UnchangedType DEF vars, TypeOK
<1>3. QED BY <1>1, <1>2, BeginType, StepType, LostReplyType, PowerLossType, ForeignType DEF Next

\* Type correctness: in every state of every run of the transaction layer, with
\* any processes, commands and bounds, TypeOK holds.
THEOREM TypeCorrect == Spec => []TypeOK
BY TypeInit, TypeNext, PTL DEF Spec

(***************************************************************************)
(* What a power failure can make of the cache directory.                   *)
(***************************************************************************)

\* A cache directory is made of the entries of its names.
LEMMA ContentsOf ==
    ASSUME NEW d \in [Names -> Entry]
    PROVE  Contents(d["cseq"], d["commit_m"], d["ckpt_m"], d["directory"],
                    d["directory.tmp"], d["directory.ckpt"]) = d
BY DEF Contents

\* What is good depends on the server only.
LEMMA GoodSame ==
    ASSUME NEW d, UNCHANGED srvVars
    PROVE  Good(d)' <=> Good(d)
BY DEF Good, GoodSeqs, GoodSync, GoodCommit, GoodCkpt, GoodAlias, Outcome,
       ToInstall, srvVars

\* All is synced: what is good now is all there is.
LEMMA SyncedCache ==
    ASSUME TypeOK', Good(dir)', \A n \in Names : disk'[n] = {dir'[n]},
           \A n \in Names : dir'[n].seq < next'
    PROVE  CacheInv' /\ DiskInv' /\ Synced({})'
<1>1. ASSUME NEW c \in disk'["cseq"], NEW m \in disk'["commit_m"],
             NEW k \in disk'["ckpt_m"], NEW d \in disk'["directory"],
             NEW t \in disk'["directory.tmp"], NEW f \in disk'["directory.ckpt"]
      PROVE  Good(Contents(c, m, k, d, t, f))'
  <2>1. Contents(c, m, k, d, t, f) = dir'
    <3>1. dir' \in [Names -> Entry]
      BY DEF TypeOK, CacheOK
    <3>2. QED BY <3>1, ContentsOf
  <2>2. QED BY <2>1
<1>2. QED BY <1>1 DEF CacheInv, DiskInv, Synced

\* An fsync leaves a good cache directory good, and nothing waits to be synced.
LEMMA FsyncCache ==
    ASSUME IInv, TypeOK', Fsync, UNCHANGED <<srvVars, next>>
    PROVE  CacheInv' /\ DiskInv' /\ Synced({})'
<1>1. Good(dir)'
  BY GoodSame DEF IInv, CacheInv, Fsync
<1>2. \A n \in Names : disk'[n] = {dir'[n]} /\ dir'[n].seq < next'
  BY DEF IInv, DiskInv, Fsync, Flushed
<1>3. QED BY <1>1, <1>2, SyncedCache

\* One name changes, and nothing else waits to be synced.
LEMMA AlterCache ==
    ASSUME IInv, TypeOK', NEW n \in Names, NEW v \in Entry, v.seq < next,
           NEW k, (k = disk /\ Synced({n})) \/ k = Flushed,
           Alter(k, n, v), Good(dir)', UNCHANGED <<srvVars, next>>
    PROVE  CacheInv' /\ DiskInv' /\ Synced({n})'
<1>1. \A x \in Names \ {n} : k[x] = {dir[x]} /\ disk'[x] = {dir[x]} /\ dir'[x] = dir[x]
  BY DEF Synced, Flushed, Alter, IInv, TypeOK, CacheOK
<1>2. dir'[n] = v /\ disk'[n] = k[n] \cup {v}
  BY FlushedType DEF Alter, IInv, TypeOK, CacheOK
<1>3. k[n] \subseteq disk[n]
  BY DEF Flushed, IInv, DiskInv
<1>4. DiskInv'
  BY <1>1, <1>2, <1>3 DEF IInv, DiskInv
<1>5. ASSUME PowerFail,
             NEW c \in disk'["cseq"], NEW m \in disk'["commit_m"],
             NEW x \in disk'["ckpt_m"], NEW d \in disk'["directory"],
             NEW t \in disk'["directory.tmp"], NEW f \in disk'["directory.ckpt"]
      PROVE  Good(Contents(c, m, x, d, t, f))'
  <2> DEFINE w == Contents(c, m, x, d, t, f)
  <2>1. CASE w = dir'
    BY <2>1
  <2>2. CASE w # dir'
    <3>1. w[n] # v
      <4>1. \A y \in Names \ {n} : w[y] = dir'[y]
        BY <1>1 DEF Contents
      <4>2. w \in [Names -> Entry] /\ dir' \in [Names -> Entry]
        BY DEF Contents, TypeOK, CacheOK
      <4>3. QED BY <2>2, <4>1, <4>2, <1>2
    <3>2. w[n] \in disk[n]
      BY <3>1, <1>2, <1>3 DEF Contents
    <3>3. /\ c \in disk["cseq"] /\ m \in disk["commit_m"] /\ x \in disk["ckpt_m"]
          /\ d \in disk["directory"] /\ t \in disk["directory.tmp"]
          /\ f \in disk["directory.ckpt"]
      BY <1>1, <3>2 DEF Contents, IInv, DiskInv
    <3>4. Good(w)
      BY <1>5, <3>3 DEF IInv, CacheInv
    <3>5. QED BY <3>4, GoodSame
  <2>3. QED BY <2>1, <2>2
<1>6. Synced({n})'
  BY <1>1 DEF Synced
<1>7. QED BY <1>4, <1>5, <1>6 DEF CacheInv

(***************************************************************************)
(* The server starts, drops or commits a transaction.                      *)
(***************************************************************************)
Shift ==
    /\ cur' = 0 \/ cur' = next
    /\ next' \in Nat /\ next <= next'
    /\ \/ ver' = ver
       \/ ver'.seq = next
       \/ cur # 0 /\ cur' = 0 /\ ver' = Outcome

\* What was good before the server started, dropped or committed a transaction
\* is good afterwards.
LEMMA GoodShift ==
    ASSUME IInv, Shift, NEW d \in [Names -> Entry], Good(d),
           \A n \in Names : d[n].seq < next
    PROVE  Good(d)'
<1>1. /\ cur \in Nat /\ next \in Nat /\ next # 0
      /\ \A n \in Names : d[n].seq \in Nat
  BY DEF IInv, TypeOK, SrvOK, HistOK, SrvInv, Entry
<1>2. GoodSeqs(d)'
  BY <1>1 DEF Good, GoodSeqs, Shift, Pending
<1>3. Outcome.seq = cur
  BY DEF Outcome, IInv, TypeOK, SrvOK, Entry
<1>4. GoodSync(d)'
  BY <1>1, <1>3 DEF Good, GoodSync, GoodSeqs, Shift
<1>5. GoodCommit(d)'
  <2> SUFFICES ASSUME Pending(d["commit_m"]), ~Pending(d["ckpt_m"])
               PROVE  /\ d["commit_m"].seq # cur'
                      /\ d["commit_m"].seq = ver'.seq => ToInstall(d) = ver'
    BY DEF GoodCommit, ToInstall, Pending
  <2>1. d["commit_m"].seq # cur'
    BY <1>1 DEF Good, GoodSeqs, Shift
  <2>2. QED BY <1>1, <1>3, <2>1 DEF Good, GoodCommit, Shift
<1>6. GoodCkpt(d)'
  BY <1>1 DEF Good, GoodSeqs, GoodCkpt, Shift, Pending
<1>7. GoodAlias(d)'
  BY DEF Good, GoodAlias, Pending
<1>8. QED BY <1>2, <1>4, <1>5, <1>6, <1>7 DEF Good

\* So the cache directory, and all that a power failure can make of it, stay good.
LEMMA CacheShift ==
    ASSUME IInv, Shift, UNCHANGED cacheVars
    PROVE  CacheInv' /\ DiskInv'
<1>1. DiskInv'
  <2>1. \A n \in Names : \A e \in disk[n] : e.seq \in Nat
    BY DEF IInv, TypeOK, CacheOK, Entry
  <2>2. next \in Nat
    BY DEF IInv, TypeOK, HistOK
  <2>3. QED BY <2>1, <2>2 DEF IInv, DiskInv, cacheVars, Shift
<1>2. Good(dir)'
  <2>1. dir \in [Names -> Entry] /\ Good(dir) /\ \A n \in Names : dir[n].seq < next
    BY DEF IInv, TypeOK, CacheOK, CacheInv, DiskInv
  <2>2. dir' = dir
    BY DEF cacheVars
  <2>3. QED BY <2>1, <2>2, GoodShift
<1>3. ASSUME PowerFail,
             NEW c \in disk["cseq"], NEW m \in disk["commit_m"],
             NEW k \in disk["ckpt_m"], NEW d \in disk["directory"],
             NEW t \in disk["directory.tmp"], NEW f \in disk["directory.ckpt"]
      PROVE  Good(Contents(c, m, k, d, t, f))'
  <2> DEFINE w == Contents(c, m, k, d, t, f)
  <2>1. Good(w)
    BY <1>3 DEF IInv, CacheInv
  <2>2. {c, m, k, d, t, f} \subseteq Entry
    BY DEF IInv, TypeOK, CacheOK
  <2>3. w \in [Names -> Entry]
    BY <2>2 DEF Contents
  <2>4. \A n \in Names : w[n] \in disk[n]
    BY DEF Contents
  <2>5. \A n \in Names : w[n].seq < next
    BY <2>4 DEF IInv, DiskInv
  <2>6. QED BY <2>1, <2>3, <2>5, GoodShift
<1>4. QED BY <1>1, <1>2, <1>3 DEF CacheInv, cacheVars

\* A process that the server's step is not an answer to.
Bystander(q) == pc'[q] = pc[q] /\ loc'[q] = loc[q]

\* No other process ends a transaction that q has to end itself.
OwnTxn(q) == pc[q] = "open" \/ (loc[q].op # "write" /\ loc[q].stage \in {"work", "close"})

\* A checkpointed write transaction commits its checkpoint.
LEMMA OutcomeLink ==
    ASSUME NEW s, NEW c, cur = s, kind = "write", ckpt = Link(s, c)
    PROVE  Outcome = Link(s, c)
BY DEF Outcome, Link

\* A process that the server's step is not an answer to keeps its invariant.
LEMMA ProcShift ==
    ASSUME IInv, Shift, UNCHANGED cacheVars, NEW q \in Procs, Bystander(q),
           ver' = ver \/ ver'.seq = next \/ (Active(q) /\ OwnTxn(q) => cur # loc[q].seq)
    PROVE  ProcInv(q)'
<1> SUFFICES ASSUME Active(q)
             PROVE  MoveInv(q)' /\ CkptInv(q)' /\ CommitInv(q)' /\ TxnInv(q)'
  BY DEF ProcInv, Active, Bystander
<1>1. MoveInv(q) /\ CkptInv(q) /\ CommitInv(q) /\ TxnInv(q)
  BY DEF IInv, ProcInv
<1>2. /\ cur \in Nat /\ next \in Nat /\ next # 0
      /\ ver.seq \in Nat /\ ver.seq < next /\ cur < next
      /\ \A n \in Names : dir[n].seq \in Nat /\ dir[n].seq < next
      /\ loc[q].seq \in Nat /\ loc[q].seq < next /\ loc[q].mark.seq \in Nat
  BY LocFacts DEF IInv, TypeOK, SrvOK, HistOK, SrvInv, CacheOK, DiskInv, LockInv, Entry
<1>3. Outcome.seq = cur
  BY DEF Outcome, IInv, TypeOK, SrvOK, Entry
<1>4. Good(dir)
  BY DEF IInv, CacheInv
<1>5. MoveInv(q)'
  BY <1>1 DEF MoveInv, Bystander, cacheVars, Synced, OldName, NewName
<1>6. CkptInv(q)'
  <2>1. ASSUME pc[q] \in InDoCkpt
        PROVE  /\ cur' # loc[q].mark.seq
               /\ ver'.seq = loc[q].mark.seq => ver' = Link(loc[q].mark.seq, loc[q].mark.ck)
    <3>1. dir["ckpt_m"] = loc[q].mark /\ loc[q].mark # Absent
      BY <1>1, <2>1 DEF CkptInv
    <3>2. loc[q].mark.seq # 0 /\ loc[q].mark.seq < next
      BY <1>2, <1>4, <3>1 DEF Good, GoodSeqs, Pending
    <3>3. cur = loc[q].mark.seq => Outcome = Link(loc[q].mark.seq, loc[q].mark.ck)
      <4>1. cur = loc[q].mark.seq => kind = "write" /\ ckpt = Link(loc[q].mark.seq, loc[q].mark.ck)
        BY <1>1, <2>1 DEF CkptInv
      <4>2. QED BY <4>1, OutcomeLink
    <3>4. ver.seq = loc[q].mark.seq => ver = Link(loc[q].mark.seq, loc[q].mark.ck)
      BY <1>1, <2>1 DEF CkptInv
    <3>5. QED BY <1>2, <1>3, <3>2, <3>3, <3>4 DEF Shift
  <2>2. QED BY <1>1, <2>1 DEF CkptInv, Bystander, cacheVars, Synced
<1>7. CommitInv(q)'
  BY <1>1, <1>2, <1>4 DEF CommitInv, Bystander, cacheVars, Synced, Shift, Good, GoodSeqs, Pending
<1>8. ASSUME loc[q].stage \in {"work", "close"}, pc[q] \notin BeforeWork
      PROVE  InTxn(q)'
  <2>1. InTxn(q)
    BY <1>1, <1>8 DEF TxnInv
  <2>2. cur' # loc[q].seq
    BY <1>2, <2>1 DEF InTxn, Shift
  <2>3. dir["cseq"].seq = ver'.seq => dir["directory"] = ver'
    BY <1>2, <1>3, <1>4, <2>1 DEF InTxn, Shift, Good, GoodSeqs
  <2>4. loc[q].op # "write" => ver'.seq # loc[q].seq
    <3>1. loc[q].op # "write" => ver.seq # loc[q].seq
      BY <2>1 DEF InTxn
    <3>2. loc[q].op # "write" => ver' = ver \/ ver'.seq = next \/ cur # loc[q].seq
      BY <1>8 DEF OwnTxn
    <3>3. QED BY <1>2, <1>3, <3>1, <3>2 DEF Shift
  <2>5. QED BY <2>1, <2>2, <2>3, <2>4 DEF InTxn, Bystander, cacheVars
<1>9. TxnInv(q)'
  <2>1. ASSUME pc[q] = "open"
        PROVE  ver'.seq # loc[q].seq /\ cur' # loc[q].seq
    BY <1>1, <1>2, <1>3, <2>1 DEF TxnInv, Shift, OwnTxn
  <2>2. ASSUME pc[q] = "isck_commit"
        PROVE  cur' # 0 => cur' # loc[q].mark.seq
    BY <1>1, <1>2, <2>2 DEF TxnInv, Shift
  <2>3. ASSUME loc[q].stage \in {"work", "close"}, pc[q] \notin BeforeWork
        PROVE  cur' # loc[q].seq
    BY <1>1, <1>2, <2>3 DEF TxnInv, InTxn, Shift
  <2>4. QED
    BY <1>1, <1>2, <1>8, <2>1, <2>2, <2>3
    DEF TxnInv, Bystander, cacheVars, Shift, Synced, NewCkpt, InWork, BeforeWork,
        WrittenFile, Torn
<1>10. QED BY <1>5, <1>6, <1>7, <1>9

\* What another process does to its own transaction does not concern a nuke.
OthersApart(q) ==
    \A r \in Procs \ {q} : loc'[r].seq \in {loc[r].seq, 0, next}

\* A nuke keeps its invariant when the server starts, drops or commits.
LEMMA NukeShift ==
    ASSUME IInv, Shift, UNCHANGED disk, NEW q \in Procs, Bystander(q), OthersApart(q)
    PROVE  NukeInv(q)'
<1>1. NukeInv(q)
  BY DEF IInv
<1>2. loc[q].seq \in Nat /\ loc[q].seq < next /\ next \in Nat
  BY LocFacts DEF IInv, LockInv, TypeOK, HistOK
<1>3. NukeTxn(q) => NukeTxn(q)'
  <2> SUFFICES ASSUME NukeTxn(q) PROVE NukeTxn(q)'
    OBVIOUS
  <2>1. cur' # loc[q].seq
    BY <1>2 DEF Shift, NukeTxn
  <2>2. \A r \in Procs \ {q} : loc'[r].seq # loc[q].seq
    BY <1>2 DEF NukeTxn, OthersApart
  <2>3. QED BY <2>1, <2>2 DEF NukeTxn, Bystander
<1>4. QED BY <1>1, <1>3 DEF NukeInv, Bystander

\* The server does nothing new: work is done, a checkpoint is made, or the
\* cache directory changes.
LEMMA NukeQuiet ==
    ASSUME IInv, UNCHANGED <<cur, kind>>, NEW q \in Procs, Bystander(q), OthersApart(q),
           work /\ NukeTxn(q) => work' \/ cur # loc[q].seq,
           \A n \in Names : \A e \in disk'[n] :
               e.seq = 0 \/ (\E r \in Procs \ {q} : e.seq = loc[r].seq)
               \/ (\E m \in Names : \E x \in disk[m] : e.seq = x.seq)
    PROVE  NukeInv(q)'
<1>1. NukeInv(q)
  BY DEF IInv
<1>2. loc[q].seq \in Nat /\ loc[q].seq < next /\ next \in Nat
  BY LocFacts DEF IInv, LockInv, TypeOK, HistOK
<1>3. NukeTxn(q) => NukeTxn(q)'
  <2> SUFFICES ASSUME NukeTxn(q) PROVE NukeTxn(q)'
    OBVIOUS
  <2>1. \A r \in Procs \ {q} : loc'[r].seq # loc[q].seq
    BY <1>2 DEF NukeTxn, OthersApart
  <2>2. \A n \in Names : \A e \in disk'[n] : e.seq # loc[q].seq
    BY DEF NukeTxn
  <2>3. QED BY <2>1, <2>2 DEF NukeTxn, Bystander
<1>4. QED BY <1>1, <1>3 DEF NukeInv, Bystander

(***************************************************************************)
(* A step of one process, seen by the others.                              *)
(***************************************************************************)

\* The lock, or there being one process only, keeps an active process alone.
LEMMA AloneActive ==
    ASSUME IInv, RecoverAlone, NEW p \in Procs, NEW q \in Procs, Active(p), Active(q)
    PROVE  p = q
<1>1. CASE \A a, b \in Procs : a = b
  BY <1>1
<1>2. CASE "recover" \notin Ops
  <2>1. ASSUME NEW r \in Procs, Active(r) PROVE lock = r
    <3>1. loc[r].op \in AllOps \ {"recover", "nuke"}
      BY <1>2, <2>1, ConstAssumption DEF IInv, LockInv, Active
    <3>2. QED BY <2>1, <3>1 DEF IInv, LockInv, AllOps, NeedsLock
  <2>2. QED BY <2>1
<1>3. QED BY <1>1, <1>2 DEF RecoverAlone

\* p goes on, or ends.
Goes(p) ==
    /\ \A q \in Procs \ {p} : Bystander(q)
    /\ loc'[p].op = loc[p].op /\ lock' = lock /\ pc'[p] # "idle"
Ends(p) ==
    /\ \A q \in Procs \ {p} : Bystander(q)
    /\ pc'[p] = "idle" /\ loc'[p].op = "none" /\ loc'[p].seq = 0
    /\ lock' = IF lock = p THEN NoProc ELSE lock

\* Goto is a step after which the process goes on.
LEMMA GotoGoes ==
    ASSUME IInv, NEW p \in Procs, NEW l, l # "idle", Goto(p, l)
    PROVE  Goes(p) /\ pc'[p] = l /\ loc'[p] = loc[p]
BY DEF Goto, Goes, Bystander, IInv, TypeOK, ProcOK

\* So is GotoWith.
LEMMA GotoWithGoes ==
    ASSUME IInv, NEW p \in Procs, NEW l, l # "idle", NEW r, r.op = loc[p].op, GotoWith(p, l, r)
    PROVE  Goes(p) /\ pc'[p] = l /\ loc'[p] = r
BY DEF GotoWith, Goes, Bystander, IInv, TypeOK, ProcOK

\* Exit is a step after which the process is idle and its lock is free.
LEMMA ExitEnds ==
    ASSUME IInv, NEW p \in Procs, NEW res, Exit(p, res)
    PROVE  Ends(p)
BY DEF Exit, Ends, Bystander, Idle, IInv, TypeOK, ProcOK

\* A step of one process keeps the lock's invariant.
LEMMA LockStep ==
    ASSUME IInv, NEW p \in Procs, pc[p] # "idle", Goes(p) \/ Ends(p), TypeOK',
           next <= next', loc'[p].seq < next'
    PROVE  LockInv'
<1>1. next \in Nat /\ next' \in Nat /\ \A q \in Procs : loc[q].seq \in Nat
  BY LocFacts DEF IInv, TypeOK, HistOK
<1>2. ASSUME NEW q \in Procs \ {p}
      PROVE  /\ loc'[q].seq < next'
             /\ pc'[q] # "idle" => loc'[q].op \in Ops
             /\ (Active(q) /\ NeedsLock(loc[q].op) => lock = q)'
  BY <1>1 DEF IInv, LockInv, Goes, Ends, Bystander, Active, NeedsLock
<1>3. /\ pc'[p] # "idle" => loc'[p].op \in Ops
      /\ (Active(p) /\ NeedsLock(loc[p].op) => lock = p)'
  BY DEF IInv, LockInv, Goes, Ends, Active, NeedsLock
<1>4. QED BY <1>2, <1>3 DEF LockInv

\* A step of an active process.
LEMMA ActiveStep ==
    ASSUME IInv, RecoverAlone, NEW p \in Procs, Active(p), Goes(p) \/ Ends(p),
           TypeOK', next <= next', loc'[p].seq < next',
           SrvInv', CacheInv', DiskInv', ProcInv(p)',
           \A q \in Procs \ {p} : NukeInv(q)'
    PROVE  IInv'
<1>1. LockInv'
  BY LockStep DEF Active
<1>2. NukeInv(p)'
  BY DEF NukeInv, Goes, Ends, Active
<1>3. ASSUME NEW q \in Procs \ {p} PROVE ProcInv(q)'
  <2>1. ~Active(q)
    BY AloneActive
  <2>2. QED BY <2>1 DEF ProcInv, Active, Goes, Ends, Bystander
<1>4. QED BY <1>1, <1>2, <1>3 DEF IInv

\* A process keeps its invariant when neither it nor what it looks at changes.
LEMMA ProcSame ==
    ASSUME IInv, NEW q \in Procs, Bystander(q), UNCHANGED <<cacheVars, srvVars, next>>
    PROVE  ProcInv(q)'
<1> SUFFICES ASSUME Active(q)
             PROVE  MoveInv(q)' /\ CkptInv(q)' /\ CommitInv(q)' /\ TxnInv(q)'
  BY DEF ProcInv, Active, Bystander
<1>1. MoveInv(q) /\ CkptInv(q) /\ CommitInv(q) /\ TxnInv(q)
  BY DEF IInv, ProcInv
<1>2. \A S : Synced(S) <=> Synced(S)'
  BY DEF Synced, cacheVars
<1>3. MoveInv(q)'
  BY <1>1, <1>2 DEF MoveInv, Bystander, cacheVars, OldName, NewName
<1>4. CkptInv(q)'
  BY <1>1, <1>2 DEF CkptInv, Bystander, cacheVars, srvVars
<1>5. CommitInv(q)'
  BY <1>1, <1>2 DEF CommitInv, Bystander, cacheVars, srvVars
<1>6. InTxn(q) <=> InTxn(q)'
  BY DEF InTxn, Bystander, cacheVars, srvVars, KindOf
<1>7. NewCkpt(q) <=> NewCkpt(q)'
  BY DEF NewCkpt, Bystander, cacheVars, srvVars
<1>8. KindOf(q)' = KindOf(q) /\ WrittenFile(q)' = WrittenFile(q) /\ Torn(q)' = Torn(q)
  BY DEF Bystander, KindOf, WrittenFile, Torn
<1>9. TxnInv(q)'
  BY <1>1, <1>2, <1>6, <1>7, <1>8 DEF TxnInv, Bystander, cacheVars, srvVars
<1>10. QED BY <1>3, <1>4, <1>5, <1>9

\* So do the cache directory and the server.
LEMMA CacheSame ==
    ASSUME IInv, UNCHANGED <<cacheVars, srvVars, next>>
    PROVE  CacheInv' /\ DiskInv' /\ SrvInv'
<1>1. \A d : Good(d) <=> Good(d)'
  BY GoodSame
<1>2. CacheInv'
  BY <1>1 DEF IInv, CacheInv, cacheVars
<1>3. QED BY <1>2 DEF IInv, DiskInv, SrvInv, cacheVars, srvVars

\* A process that ends, or dies, can do so anywhere: it leaves IInv true.
LEMMA EndInv ==
    ASSUME IInv, NEW p \in Procs, pc[p] # "idle", Ends(p), TypeOK',
           UNCHANGED <<cacheVars, srvVars, next>>
    PROVE  IInv'
<1>1. CacheInv' /\ DiskInv' /\ SrvInv'
  BY CacheSame
<1>2. loc'[p].seq < next' /\ next <= next'
  BY DEF Ends, IInv, SrvInv, TypeOK, HistOK
<1>3. LockInv'
  BY <1>2, LockStep
<1>4. ProcInv(p)' /\ NukeInv(p)'
  BY DEF Ends, ProcInv, NukeInv, Active
<1>5. ASSUME NEW q \in Procs \ {p} PROVE ProcInv(q)' /\ NukeInv(q)'
  <2>1. Bystander(q)
    BY DEF Ends
  <2>2. OthersApart(q)
    BY DEF Ends, OthersApart, Bystander
  <2>3. NukeInv(q)'
    BY <2>1, <2>2, NukeQuiet DEF cacheVars, srvVars
  <2>4. QED BY <2>1, <2>3, ProcSame
<1>6. QED BY <1>1, <1>3, <1>4, <1>5 DEF IInv

\* An active process works on the cache directory.
LEMMA CacheStep ==
    ASSUME IInv, RecoverAlone, NEW p \in Procs, Active(p), Goes(p), TypeOK',
           loc'[p].seq = loc[p].seq, UNCHANGED <<srvVars, next>>,
           CacheInv', DiskInv', ProcInv(p)',
           \A n \in Names : \A e \in disk'[n] :
               e.seq = 0 \/ e.seq = loc[p].seq
               \/ (\E m \in Names : \E x \in disk[m] : e.seq = x.seq)
    PROVE  IInv'
<1>1. SrvInv'
  BY DEF IInv, SrvInv, srvVars
<1>2. loc'[p].seq < next' /\ next <= next'
  BY DEF IInv, LockInv, TypeOK, HistOK
<1>3. ASSUME NEW q \in Procs \ {p} PROVE NukeInv(q)'
  <2>1. Bystander(q) /\ OthersApart(q)
    BY DEF Goes, Bystander, OthersApart
  <2>2. QED BY <2>1, NukeQuiet DEF srvVars
<1>4. QED BY <1>1, <1>2, <1>3, ActiveStep

\* A step that syncs the cache directory.
LEMMA FsyncStep ==
    ASSUME IInv, RecoverAlone, NEW p \in Procs, Active(p), Goes(p), TypeOK',
           loc'[p].seq = loc[p].seq, UNCHANGED <<srvVars, next>>, Fsync,
           Synced({})' => ProcInv(p)'
    PROVE  IInv'
<1>1. CacheInv' /\ DiskInv' /\ Synced({})'
  BY FsyncCache
<1>2. \A n \in Names : \A e \in disk'[n] : e \in disk[n]
  BY DEF Fsync, Flushed, IInv, DiskInv
<1>3. QED BY <1>1, <1>2, CacheStep

\* A step that links or unlinks one name of it.
LEMMA AlterStep ==
    ASSUME IInv, RecoverAlone, NEW p \in Procs, Active(p), Goes(p), TypeOK',
           loc'[p].seq = loc[p].seq, UNCHANGED <<srvVars, next>>,
           NEW n \in Names, NEW v \in Entry,
           NEW k, (k = disk /\ Synced({n})) \/ k = Flushed, Alter(k, n, v),
           v.seq = 0 \/ v.seq = loc[p].seq \/ (\E m \in Names : v.seq = dir[m].seq),
           Good(dir)', Synced({n})' => ProcInv(p)'
    PROVE  IInv'
<1>1. v.seq < next
  BY DEF IInv, DiskInv, LockInv, SrvInv, TypeOK, HistOK
<1>2. CacheInv' /\ DiskInv' /\ Synced({n})'
  BY <1>1, AlterCache
<1>3. \A m \in Names : \A e \in disk'[m] : e = v \/ e \in disk[m]
  BY FlushedType DEF Alter, Flushed, IInv, DiskInv, TypeOK, CacheOK
<1>4. ASSUME NEW m \in Names, NEW e \in disk'[m]
      PROVE  e.seq = 0 \/ e.seq = loc[p].seq
             \/ (\E x \in Names : \E y \in disk[x] : e.seq = y.seq)
  BY <1>3 DEF IInv, DiskInv
<1>5. QED BY <1>2, <1>4, CacheStep

\* A step that only changes where the process is.
LEMMA QuietStep ==
    ASSUME IInv, RecoverAlone, NEW p \in Procs, Active(p), Goes(p), TypeOK',
           loc'[p].seq = loc[p].seq, UNCHANGED <<cacheVars, srvVars, next>>,
           ProcInv(p)'
    PROVE  IInv'
<1>1. CacheInv' /\ DiskInv'
  BY CacheSame
<1>2. \A n \in Names : \A e \in disk'[n] : e \in disk[n]
  BY DEF cacheVars
<1>3. QED BY <1>1, <1>2, CacheStep

Known(p) ==
    Active(p) /\ MoveInv(p) /\ CkptInv(p) /\ CommitInv(p) /\ TxnInv(p) /\ Good(dir)

\* A process at a label of the cache directory's code is active.
LEMMA ActiveAt ==
    ASSUME IInv, NEW p \in Procs,
           pc[p] \notin {"idle", "cancel", "start", "open", "flush", "nk_commit"}
    PROVE  Known(p)
BY DEF IInv, NukeInv, ProcInv, Active, CacheInv, Known

\* A command that gives up leaves IInv true.
LEMMA FailInv ==
    ASSUME IInv, NEW p \in Procs, pc[p] # "idle", NEW res, Fail(p, res), TypeOK',
           UNCHANGED <<srvVars, next>>
    PROVE  IInv'
BY ExitEnds, EndInv DEF Fail

(***************************************************************************)
(* chunks_directory_commit.                                                *)
(***************************************************************************)

\* The move of directory.ckpt to directory.tmp, when a checkpoint is pending:
\* each name it links or unlinks leaves a good cache directory good.
LEMMA GoodCkptMove ==
    ASSUME NEW d \in [Names -> Entry], Good(d), Pending(d["ckpt_m"])
    PROVE  /\ d["directory.ckpt"] # Absent =>
                 /\ Good([d EXCEPT !["directory.tmp"] = Absent])
                 /\ Good([d EXCEPT !["directory.tmp"] = d["directory.ckpt"]])
           /\ d["directory.tmp"] = d["directory.ckpt"] =>
                 Good([d EXCEPT !["directory.ckpt"] = Absent])
BY DEF Good, GoodSeqs, GoodSync, GoodCommit, GoodCkpt, GoodAlias, Pending

\* The same for the move of directory.tmp, when a commit is pending.
LEMMA GoodCommitMove ==
    ASSUME NEW d \in [Names -> Entry], Good(d), Pending(d["commit_m"]), ~Pending(d["ckpt_m"])
    PROVE  /\ d["directory.tmp"] # Absent =>
                 /\ Good([d EXCEPT !["directory"] = Absent])
                 /\ Good([d EXCEPT !["directory"] = d["directory.tmp"]])
           /\ d["directory"] = d["directory.tmp"] =>
                 Good([d EXCEPT !["directory.tmp"] = Absent])
BY DEF Good, GoodSeqs, GoodSync, GoodCommit, GoodCkpt, GoodAlias, Pending, ToInstall

\* One of the two moves.
LEMMA MoveCases ==
    ASSUME IInv, NEW p \in Procs, Known(p), pc[p] \in InMove \cup {"remote"}
    PROVE  \/ /\ loc[p].move = "ckpt" /\ OldName(p) = "directory.ckpt"
              /\ NewName(p) = "directory.tmp" /\ Pending(dir["ckpt_m"])
              /\ dir["ckpt_m"] = loc[p].mark
           \/ /\ loc[p].move = "commit" /\ OldName(p) = "directory.tmp"
              /\ NewName(p) = "directory" /\ Pending(dir["commit_m"])
              /\ ~Pending(dir["ckpt_m"]) /\ dir["commit_m"] = loc[p].mark
BY DEF IInv, TypeOK, ProcOK, LocType, OldName, NewName, Pending, Known, CkptInv, CommitInv

\* Each name that the move links or unlinks leaves the cache directory good.
LEMMA GoodMove ==
    ASSUME IInv, NEW p \in Procs, Known(p), pc[p] \in InMove \cup {"remote"}
    PROVE  /\ dir[OldName(p)] # Absent =>
                 /\ Good([dir EXCEPT ![NewName(p)] = Absent])
                 /\ Good([dir EXCEPT ![NewName(p)] = dir[OldName(p)]])
           /\ dir[NewName(p)] = dir[OldName(p)] =>
                 Good([dir EXCEPT ![OldName(p)] = Absent])
<1>1. dir \in [Names -> Entry] /\ Good(dir)
  BY DEF IInv, TypeOK, CacheOK, Known
<1>2. QED BY <1>1, MoveCases, GoodCkptMove, GoodCommitMove

\* A transaction goes on while its checkpoint is moved.
LEMMA InTxnMove ==
    ASSUME IInv, TypeOK', NEW p \in Procs, InTxn(p), Pending(dir["ckpt_m"]), Good(dir),
           loc'[p] = loc[p], UNCHANGED srvVars,
           \A n \in Names \ {"directory.tmp", "directory.ckpt"} : dir'[n] = dir[n],
           dir'["directory.tmp"] \in {dir["directory.tmp"], Absent, dir["directory.ckpt"]},
           dir'["directory.ckpt"] \in {dir["directory.ckpt"], Absent}
    PROVE  InTxn(p)'
<1>1. loc[p].op = "write"
  BY DEF InTxn, Pending
<1>2. Absent.seq = 0
  BY DEF Absent
<1>3. QED BY <1>1, <1>2 DEF InTxn, KindOf, srvVars, Good, GoodAlias

\* The lstats, and the unlink of another file under the new name.
LEMMA MvStatInv ==
    ASSUME IInv, RecoverAlone, TypeOK', NEW p \in Procs, MvStat(p)
    PROVE  IInv'
<1> DEFINE old == dir[OldName(p)]
           new == dir[NewName(p)]
<1>1. Known(p) /\ pc[p] = "mv_stat" /\ UNCHANGED <<srvVars, next>>
  BY ActiveAt DEF MvStat, histVars
<1>2. CASE old = Absent
  <2>1. Goto(p, "remote") /\ UNCHANGED cacheVars
    BY <1>2 DEF MvStat
  <2>2. Goes(p) /\ pc'[p] = "remote" /\ loc'[p] = loc[p] /\ dir' = dir /\ disk' = disk
    BY <2>1, GotoGoes DEF cacheVars
  <2>3. ProcInv(p)'
    BY <1>1, <1>2, <2>2
    DEF Known, ProcInv, MoveInv, CkptInv, CommitInv, TxnInv, InTxn, Synced,
        OldName, NewName, InMove, InDoCkpt, InDoCommit, InWork, BeforeWork, srvVars, KindOf
  <2>4. QED BY <1>1, <2>1, <2>2, <2>3, QuietStep DEF Known
<1>3. CASE old # Absent /\ new = old
  <2>1. Goto(p, "mv_unlink") /\ UNCHANGED cacheVars
    BY <1>3 DEF MvStat
  <2>2. Goes(p) /\ pc'[p] = "mv_unlink" /\ loc'[p] = loc[p] /\ dir' = dir /\ disk' = disk
    BY <2>1, GotoGoes DEF cacheVars
  <2>3. ProcInv(p)'
    BY <1>1, <1>3, <2>2
    DEF Known, ProcInv, MoveInv, CkptInv, CommitInv, TxnInv, InTxn, Synced,
        OldName, NewName, InMove, InDoCkpt, InDoCommit, InWork, BeforeWork, srvVars, KindOf
  <2>4. QED BY <1>1, <2>1, <2>2, <2>3, QuietStep DEF Known
<1>4. CASE old # Absent /\ new # old
  <2>1. Goto(p, "mv_link") /\ Alter(disk, NewName(p), Absent)
    BY <1>4 DEF MvStat
  <2>2. Goes(p) /\ pc'[p] = "mv_link" /\ loc'[p] = loc[p]
    BY <2>1, GotoGoes
  <2>3. PICK n \in Names : n = NewName(p)
    BY NamesFacts
  <2>4. Good(dir)'
    <3>1. dir' = [dir EXCEPT ![n] = Absent]
      BY <2>1, <2>3 DEF Alter
    <3>2. Good(dir')
      BY <1>1, <1>4, <2>3, <3>1, GoodMove DEF InMove
    <3>3. QED BY <1>1, <3>2, GoodSame
  <2>5. ASSUME Synced({n})' PROVE ProcInv(p)'
    <3>1. /\ dir'[n] = Absent
          /\ \A m \in Names \ {n} : dir'[m] = dir[m] /\ disk'[m] = disk[m]
      BY <2>1, <2>3 DEF Alter, IInv, TypeOK, CacheOK
    <3>2. QED
      BY ZenonT(40), <1>1, <1>4, <2>2, <2>3, <2>5, <3>1, MoveCases, InTxnMove
      DEF Known, ProcInv, MoveInv, CkptInv, CommitInv, TxnInv,
        OldName, NewName, InMove, InDoCkpt, InDoCommit, InWork, BeforeWork
  <2>6. Synced({n}) /\ Active(p)
    BY <1>1 DEF Known, MoveInv, Synced
  <2>7. Absent.seq = 0 /\ Absent \in Entry
    BY EntryFacts DEF Absent
  <2>8. QED BY <1>1, <2>1, <2>2, <2>3, <2>4, <2>5, <2>6, <2>7, AlterStep
<1>5. QED BY <1>2, <1>3, <1>4

\* The link, or the rename where there are no hard links.
LEMMA MvLinkInv ==
    ASSUME IInv, RecoverAlone, RenameSafe, TypeOK', NEW p \in Procs, MvLink(p)
    PROVE  IInv'
<1>1. Known(p) /\ pc[p] = "mv_link" /\ UNCHANGED <<srvVars, next>>
  BY ActiveAt DEF MvLink, histVars
<1>2. PICK n \in Names, o \in Names : n = NewName(p) /\ o = OldName(p)
  BY NamesFacts
<1>3. Synced({n}) /\ Active(p) /\ dir[o] # Absent /\ dir[n] = Absent /\ n # o
  BY <1>1, <1>2, MoveCases DEF Known, MoveInv, InMove
<1>4. CASE HardLinks
  <2>1. Goto(p, "mv_unlink") /\ Alter(disk, n, dir[o])
    BY <1>2, <1>3, <1>4 DEF MvLink
  <2>2. Goes(p) /\ pc'[p] = "mv_unlink" /\ loc'[p] = loc[p]
    BY <2>1, GotoGoes
  <2>3. Good(dir)'
    <3>1. dir' = [dir EXCEPT ![n] = dir[o]]
      BY <2>1 DEF Alter
    <3>2. Good(dir')
      BY <1>1, <1>2, <1>3, <3>1, GoodMove DEF InMove
    <3>3. QED BY <1>1, <3>2, GoodSame
  <2>4. ASSUME Synced({n})' PROVE ProcInv(p)'
    <3>1. /\ dir'[n] = dir[o]
          /\ \A m \in Names \ {n} : dir'[m] = dir[m] /\ disk'[m] = disk[m]
      BY <2>1 DEF Alter, IInv, TypeOK, CacheOK
    <3>2. QED
      BY ZenonT(40), <1>1, <1>2, <1>3, <2>2, <2>4, <3>1, MoveCases, InTxnMove
      DEF Known, ProcInv, MoveInv, CkptInv, CommitInv, TxnInv,
          OldName, NewName, InMove, InDoCkpt, InDoCommit, InWork, BeforeWork
  <2>5. dir[o] \in Entry
    BY DEF IInv, TypeOK, CacheOK
  <2>6. QED BY <1>1, <1>3, <2>1, <2>2, <2>3, <2>4, <2>5, AlterStep
<1>5. CASE ~HardLinks
  <2>1. /\ Goto(p, "mv_end")
        /\ dir' = [dir EXCEPT ![n] = dir[o], ![o] = Absent]
        /\ disk' = [disk EXCEPT ![n] = @ \cup {dir[o]}, ![o] = @ \cup {Absent}]
    BY <1>2, <1>3, <1>5 DEF MvLink
  <2>2. Goes(p) /\ pc'[p] = "mv_end" /\ loc'[p] = loc[p]
    BY <2>1, GotoGoes
  <2>3. /\ dir'[n] = dir[o] /\ dir'[o] = Absent
        /\ disk'[n] = disk[n] \cup {dir[o]} /\ disk'[o] = disk[o] \cup {Absent}
        /\ \A m \in Names \ {n, o} : dir'[m] = dir[m] /\ disk'[m] = disk[m]
    BY <1>3, <2>1 DEF IInv, TypeOK, CacheOK
  <2>4. Good(dir)'
    <3> DEFINE d == [dir EXCEPT ![n] = dir[o]]
    <3>1. Good(d) /\ d \in [Names -> Entry]
      BY <1>1, <1>2, <1>3, GoodMove DEF InMove, IInv, TypeOK, CacheOK
    <3>2. dir' = [d EXCEPT ![o] = Absent]
      BY <1>3, <2>1 DEF IInv, TypeOK, CacheOK
    <3>3. Good(dir')
      BY <1>1, <1>2, <1>3, <3>1, <3>2, MoveCases, GoodCkptMove, GoodCommitMove
      DEF InMove
    <3>4. QED BY <1>1, <3>3, GoodSame
  <2>5. Absent.seq = 0 /\ next # 0 /\ next \in Nat
    BY DEF Absent, IInv, SrvInv, TypeOK, HistOK
  <2>6. CacheInv' /\ DiskInv'
    <3>1. DiskInv'
      BY <1>1, <2>3, <2>5 DEF IInv, DiskInv
    <3>2. ~PowerFail
      BY <1>5 DEF RenameSafe
    <3>3. QED BY <2>4, <3>1, <3>2 DEF CacheInv
  <2>7. ProcInv(p)'
    <3>1. MoveInv(p)'
      BY <1>2, <1>3, <1>5, <2>2, <2>3 DEF MoveInv, Synced, OldName, NewName
    <3>2. CkptInv(p)'
      BY <1>1, <1>2, <2>2, <2>3, MoveCases DEF Known, CkptInv, InMove, InDoCkpt
    <3>3. CommitInv(p)'
      BY <1>1, <1>2, <2>2, <2>3, MoveCases DEF Known, CommitInv, InMove, InDoCommit
    <3>4. TxnInv(p)'
      BY ZenonT(40), <1>1, <1>2, <2>2, <2>3, MoveCases, InTxnMove
      DEF Known, CommitInv, TxnInv, InMove, InWork, BeforeWork
    <3>5. QED BY <3>1, <3>2, <3>3, <3>4 DEF ProcInv
  <2>8. \A m \in Names : \A e \in disk'[m] :
            e.seq = 0 \/ (\E x \in Names : \E y \in disk[x] : e.seq = y.seq)
    BY <2>3, <2>5 DEF IInv, DiskInv
  <2>9. QED BY <1>1, <1>3, <2>2, <2>6, <2>7, <2>8, CacheStep
<1>6. QED BY <1>4, <1>5, ConstAssumption

\* The fsync and the unlink of the old name.
LEMMA MvUnlinkInv ==
    ASSUME IInv, RecoverAlone, TypeOK', NEW p \in Procs, MvUnlink(p)
    PROVE  IInv'
<1>1. Known(p) /\ pc[p] = "mv_unlink" /\ UNCHANGED <<srvVars, next>>
  BY ActiveAt DEF MvUnlink, histVars
<1>2. PICK n \in Names, o \in Names : n = NewName(p) /\ o = OldName(p)
  BY NamesFacts
<1>3. Active(p) /\ dir[o] # Absent /\ dir[n] = dir[o] /\ n # o
  BY <1>1, <1>2, MoveCases DEF Known, MoveInv, InMove
<1>4. Goto(p, "mv_end") /\ Alter(Flushed, o, Absent)
  BY <1>2, <1>3 DEF MvUnlink
<1>5. Goes(p) /\ pc'[p] = "mv_end" /\ loc'[p] = loc[p]
  BY <1>4, GotoGoes
<1>6. Good(dir)'
  <2>1. dir' = [dir EXCEPT ![o] = Absent]
    BY <1>4 DEF Alter
  <2>2. Good(dir')
    BY <1>1, <1>2, <1>3, <2>1, GoodMove DEF InMove
  <2>3. QED BY <1>1, <2>2, GoodSame
<1>7. ASSUME Synced({o})' PROVE ProcInv(p)'
  <2>1. /\ dir'[o] = Absent
        /\ \A m \in Names \ {o} : dir'[m] = dir[m] /\ disk'[m] = {dir[m]}
    BY <1>4 DEF Alter, Flushed, IInv, TypeOK, CacheOK
  <2>2. MoveInv(p)'
    BY <1>2, <1>3, <1>5, <2>1 DEF MoveInv, Synced, OldName, NewName
  <2>3. CkptInv(p)'
    BY <1>1, <1>2, <1>5, <2>1, MoveCases DEF Known, CkptInv, InMove, InDoCkpt
  <2>4. CommitInv(p)'
    BY <1>1, <1>2, <1>5, <2>1, MoveCases DEF Known, CommitInv, InMove, InDoCommit
  <2>5. TxnInv(p)'
    BY <1>1, <1>2, <1>5, <2>1, MoveCases, InTxnMove
    DEF Known, CommitInv, TxnInv, InMove, InWork, BeforeWork
  <2>6. QED BY <2>2, <2>3, <2>4, <2>5 DEF ProcInv
<1>8. Absent.seq = 0 /\ Absent \in Entry
  BY EntryFacts DEF Absent
<1>9. QED BY <1>1, <1>3, <1>4, <1>5, <1>6, <1>7, <1>8, AlterStep

\* The last fsync.
LEMMA MvEndInv ==
    ASSUME IInv, RecoverAlone, TypeOK', NEW p \in Procs, MvEnd(p)
    PROVE  IInv'
<1>1. Known(p) /\ pc[p] = "mv_end" /\ UNCHANGED <<srvVars, next>>
  BY ActiveAt DEF MvEnd, histVars
<1>2. Goes(p) /\ pc'[p] = "remote" /\ loc'[p] = loc[p]
  BY GotoGoes DEF MvEnd
<1>3. Fsync /\ dir' = dir /\ \A n \in Names : disk'[n] = {dir[n]}
  BY DEF MvEnd, Fsync, Flushed
<1>4. ASSUME Synced({})' PROVE ProcInv(p)'
  BY <1>1, <1>2, <1>3, <1>4, MoveCases, InTxnMove
  DEF Known, ProcInv, MoveInv, CkptInv, CommitInv, TxnInv,
      OldName, NewName, InMove, InDoCkpt, InDoCommit, InWork, BeforeWork
<1>5. QED BY <1>1, <1>2, <1>3, <1>4, FsyncStep DEF Known

(***************************************************************************)
(* multitape_docheckpoint.                                                 *)
(***************************************************************************)

\* A transaction goes on while only the process moves.
LEMMA InTxnSame ==
    ASSUME NEW p \in Procs, InTxn(p), UNCHANGED <<dir, srvVars>>,
           loc'[p].seq = loc[p].seq, loc'[p].ck = loc[p].ck, loc'[p].op = loc[p].op,
           loc'[p].good = loc[p].good
    PROVE  InTxn(p)'
BY DEF InTxn, KindOf, srvVars

\* The return from multitape_docheckpoint.
LEMMA AfterCkptInv ==
    ASSUME IInv, RecoverAlone, TypeOK', NEW p \in Procs, Active(p), Fsync, AfterCkpt(p),
           UNCHANGED <<srvVars, next>>, dir["ckpt_m"] = Absent,
           loc[p].stage \in {"work", "close"} => InTxn(p) /\ loc[p].op = "write"
    PROVE  IInv'
<1>1. dir' = dir /\ disk' = [n \in Names |-> {dir[n]}]
  BY DEF Fsync, Flushed
<1>2. loc[p] \in LocType
  BY LocFacts DEF IInv, TypeOK
<1>3. CASE loc[p].stage = "work"
  <2>1. Goto(p, "work")
    BY <1>3 DEF AfterCkpt
  <2>2. Goes(p) /\ pc'[p] = "work" /\ loc'[p] = loc[p]
    BY <2>1, GotoGoes
  <2>3. ASSUME Synced({})' PROVE ProcInv(p)'
    BY <1>1, <1>3, <2>2, <2>3, InTxnSame
    DEF ProcInv, MoveInv, CkptInv, CommitInv, TxnInv,
        InMove, InDoCkpt, InDoCommit, InWork, BeforeWork
  <2>4. QED BY <2>2, <2>3, FsyncStep
<1>4. CASE loc[p].stage = "close"
  <2> DEFINE r == [loc[p] EXCEPT !.stage = "commit"]
  <2>1. GotoWith(p, "dk_read", r)
    BY <1>4 DEF AfterCkpt
  <2>2. r.op = loc[p].op /\ r.seq = loc[p].seq /\ r.stage = "commit"
    BY <1>2 DEF LocType
  <2>3. Goes(p) /\ pc'[p] = "dk_read" /\ loc'[p] = r
    BY <2>1, <2>2, GotoWithGoes
  <2>4. ProcInv(p)'
    BY <1>1, <1>4, <2>2, <2>3
    DEF ProcInv, MoveInv, CkptInv, CommitInv, TxnInv,
        InMove, InDoCkpt, InDoCommit, InWork, BeforeWork
  <2>5. QED BY <2>2, <2>3, <2>4, FsyncStep
<1>5. CASE loc[p].stage \notin {"work", "close"}
  <2>1. Goto(p, "dm_read")
    BY <1>5 DEF AfterCkpt
  <2>2. Goes(p) /\ pc'[p] = "dm_read" /\ loc'[p] = loc[p]
    BY <2>1, GotoGoes
  <2>3. loc[p].stage \in {"clean", "commit"}
    BY <1>2, <1>5 DEF LocType
  <2>4. ASSUME Synced({})' PROVE ProcInv(p)'
    BY <1>1, <2>2, <2>3, <2>4
    DEF ProcInv, MoveInv, CkptInv, CommitInv, TxnInv, Synced,
        InMove, InDoCkpt, InDoCommit, InWork, BeforeWork
  <2>5. QED BY <2>2, <2>4, FsyncStep
<1>6. QED BY <1>3, <1>4, <1>5

\* The fsync and the read of the checkpoint marker.
LEMMA ReadCkptMInv ==
    ASSUME IInv, RecoverAlone, TypeOK', NEW p \in Procs, ReadCkptM(p)
    PROVE  IInv'
<1>1. Known(p) /\ pc[p] = "dk_read" /\ UNCHANGED <<srvVars, next>> /\ Fsync
  BY ActiveAt DEF ReadCkptM, histVars
<1>2. loc[p].stage \in {"work", "close"} => InTxn(p) /\ loc[p].op = "write"
  BY <1>1 DEF Known, TxnInv, BeforeWork
<1>3. CASE dir["ckpt_m"] = Absent
  BY <1>1, <1>2, <1>3, AfterCkptInv DEF ReadCkptM, Known
<1>4. CASE dir["ckpt_m"] # Absent
  <2> DEFINE r == [loc[p] EXCEPT !.mark = dir["ckpt_m"], !.move = "ckpt"]
  <2>1. GotoWith(p, "mv_stat", r)
    BY <1>4 DEF ReadCkptM
  <2>2. /\ r.op = loc[p].op /\ r.seq = loc[p].seq /\ r.ck = loc[p].ck
        /\ r.good = loc[p].good /\ r.stage = loc[p].stage
        /\ r.mark = dir["ckpt_m"] /\ r.move = "ckpt"
    BY LocFacts DEF LocType, IInv, TypeOK
  <2>3. Goes(p) /\ pc'[p] = "mv_stat" /\ loc'[p] = r
    BY <2>1, <2>2, GotoWithGoes
  <2>4. dir' = dir /\ disk'["ckpt_m"] = {dir["ckpt_m"]}
    BY <1>1 DEF Fsync, Flushed
  <2>5. loc[p].stage \in {"clean", "work", "close"}
    BY <1>1, <1>4, LocFacts DEF Known, TxnInv, IInv, TypeOK, LocType
  <2>6. loc[p].stage \in {"work", "close"} => InTxn(p)'
    BY <1>1, <1>2, <2>2, <2>3, <2>4, InTxnSame
  <2>7. ASSUME Synced({})' PROVE ProcInv(p)'
    BY <1>4, <2>2, <2>3, <2>4, <2>5, <2>6, <2>7
    DEF ProcInv, MoveInv, CkptInv, CommitInv, TxnInv,
        InMove, InDoCkpt, InDoCommit, InWork, BeforeWork
  <2>8. QED BY <1>1, <2>2, <2>3, <2>7, FsyncStep DEF Known
<1>5. QED BY <1>3, <1>4

\* While a checkpoint is pending, the commit marker can be replaced.
LEMMA GoodMarker ==
    ASSUME NEW d \in [Names -> Entry], Good(d), Pending(d["ckpt_m"]),
           NEW e, e = Absent \/ e.seq # 0
    PROVE  Good([d EXCEPT !["commit_m"] = e])
BY DEF Good, GoodSeqs, GoodSync, GoodCommit, GoodCkpt, GoodAlias, Pending

\* What is known in the last steps of multitape_docheckpoint.
LEMMA DkFacts ==
    ASSUME IInv, NEW p \in Procs, Known(p), pc[p] \in InDoCkpt
    PROVE  /\ dir["ckpt_m"] = loc[p].mark /\ disk["ckpt_m"] = {loc[p].mark}
           /\ loc[p].mark # Absent /\ loc[p].mark.seq # 0
           /\ loc[p].mark.seq \in Nat /\ loc[p].mark.ck \in Nat
           /\ loc[p].stage \in {"clean", "work", "close"}
           /\ loc[p].stage \in {"work", "close"} => InTxn(p) /\ loc[p].op = "write"
<1>1. dir["ckpt_m"] = loc[p].mark /\ disk["ckpt_m"] = {loc[p].mark} /\ loc[p].mark # Absent
      /\ loc[p].stage \in {"clean", "work", "close"}
  BY DEF Known, CkptInv
<1>2. loc[p].stage \in {"work", "close"} => InTxn(p)
  BY DEF Known, TxnInv, InDoCkpt, BeforeWork
<1>3. InTxn(p) => loc[p].op = "write"
  BY <1>1 DEF InTxn
<1>4. loc[p].mark.seq # 0
  BY <1>1 DEF Known, Good, GoodSeqs, Pending
<1>5. QED BY <1>1, <1>2, <1>3, <1>4, LocFacts DEF IInv, TypeOK

\* The markers change, the files do not.
LEMMA InTxnMarker ==
    ASSUME NEW p \in Procs, InTxn(p), loc[p].op = "write", loc'[p] = loc[p], UNCHANGED srvVars,
           \A n \in Names \ {"commit_m", "ckpt_m"} : dir'[n] = dir[n],
           dir'["ckpt_m"] = dir["ckpt_m"] \/ dir'["ckpt_m"] = Absent
    PROVE  InTxn(p)'
<1>1. Absent.seq = 0
  BY DEF Absent
<1>2. QED BY <1>1 DEF InTxn, KindOf, srvVars

\* The old commit marker is removed.
LEMMA DkUnlinkInv ==
    ASSUME IInv, RecoverAlone, TypeOK', NEW p \in Procs, DkUnlink(p)
    PROVE  IInv'
<1>1. Known(p) /\ pc[p] = "dk_unlink" /\ UNCHANGED <<srvVars, next>>
  BY ActiveAt DEF DkUnlink, histVars
<1>2. Goto(p, "dk_link") /\ Alter(disk, "commit_m", Absent)
  BY DEF DkUnlink
<1>3. Goes(p) /\ pc'[p] = "dk_link" /\ loc'[p] = loc[p]
  BY <1>2, GotoGoes
<1>4. Good(dir)'
  <2>1. Good(dir) /\ dir \in [Names -> Entry] /\ Pending(dir["ckpt_m"])
    BY <1>1, DkFacts DEF Known, IInv, TypeOK, CacheOK, Pending, InDoCkpt
  <2>2. dir' = [dir EXCEPT !["commit_m"] = Absent]
    BY <1>2 DEF Alter
  <2>3. Good(dir')
    BY <2>1, <2>2, GoodMarker
  <2>4. QED BY <1>1, <2>3, GoodSame
<1>5. ASSUME Synced({"commit_m"})' PROVE ProcInv(p)'
  <2>1. /\ dir'["commit_m"] = Absent
        /\ \A m \in Names \ {"commit_m"} : dir'[m] = dir[m] /\ disk'[m] = disk[m]
    BY <1>2 DEF Alter, IInv, TypeOK, CacheOK
  <2>2. loc[p].stage \in {"work", "close"} => InTxn(p)'
    BY <1>1, <1>3, <2>1, DkFacts, InTxnMarker DEF InDoCkpt
  <2>3. QED
    BY <1>1, <1>3, <1>5, <2>1, <2>2, DkFacts
    DEF Known, ProcInv, MoveInv, CkptInv, CommitInv, TxnInv, srvVars,
        InMove, InDoCkpt, InDoCommit, InWork, BeforeWork
<1>6. Synced({"commit_m"}) /\ Active(p)
  BY <1>1 DEF Known, CkptInv, Synced
<1>7. Absent.seq = 0 /\ Absent \in Entry
  BY EntryFacts DEF Absent
<1>8. QED BY <1>1, <1>2, <1>3, <1>4, <1>5, <1>6, <1>7, AlterStep

\* The new commit marker is made.
LEMMA DkLinkInv ==
    ASSUME IInv, RecoverAlone, TypeOK', NEW p \in Procs, DkLink(p)
    PROVE  IInv'
<1>1. Known(p) /\ pc[p] = "dk_link" /\ UNCHANGED <<srvVars, next>>
  BY ActiveAt DEF DkLink, histVars
<1>2. PICK e \in Entry : e = Link(loc[p].mark.seq, 0)
  BY <1>1, DkFacts, EntryFacts DEF InDoCkpt
<1>3. e.seq = loc[p].mark.seq /\ e.seq # 0 /\ e.seq = dir["ckpt_m"].seq
  BY <1>1, <1>2, DkFacts DEF Link, InDoCkpt
<1>4. Synced({"commit_m"}) /\ Active(p) /\ dir["commit_m"] = Absent
  BY <1>1 DEF Known, CkptInv
<1>5. Goto(p, "dk_done") /\ Alter(disk, "commit_m", e)
  BY <1>2, <1>4 DEF DkLink
<1>6. Goes(p) /\ pc'[p] = "dk_done" /\ loc'[p] = loc[p]
  BY <1>5, GotoGoes
<1>7. Good(dir)'
  <2>1. Good(dir) /\ dir \in [Names -> Entry] /\ Pending(dir["ckpt_m"])
    BY <1>1, DkFacts DEF Known, IInv, TypeOK, CacheOK, Pending, InDoCkpt
  <2>2. dir' = [dir EXCEPT !["commit_m"] = e]
    BY <1>5 DEF Alter
  <2>3. Good(dir')
    BY <1>3, <2>1, <2>2, GoodMarker
  <2>4. QED BY <1>1, <2>3, GoodSame
<1>8. ASSUME Synced({"commit_m"})' PROVE ProcInv(p)'
  <2>1. /\ dir'["commit_m"] = e
        /\ \A m \in Names \ {"commit_m"} : dir'[m] = dir[m] /\ disk'[m] = disk[m]
    BY <1>5 DEF Alter, IInv, TypeOK, CacheOK
  <2>2. loc[p].stage \in {"work", "close"} => InTxn(p)'
    BY <1>1, <1>6, <2>1, DkFacts, InTxnMarker DEF InDoCkpt
  <2>3. QED
    BY <1>1, <1>2, <1>6, <1>8, <2>1, <2>2, DkFacts
    DEF Known, ProcInv, MoveInv, CkptInv, CommitInv, TxnInv, srvVars,
        InMove, InDoCkpt, InDoCommit, InWork, BeforeWork
<1>9. QED BY <1>1, <1>3, <1>4, <1>5, <1>6, <1>7, <1>8, AlterStep

\* The commit marker is synced and the checkpoint marker removed: from here on
\* the commit is pending, and the server has what it needs for it.
LEMMA DkDoneInv ==
    ASSUME IInv, RecoverAlone, TypeOK', NEW p \in Procs, DkDone(p)
    PROVE  IInv'
<1>1. Known(p) /\ pc[p] = "dk_done" /\ UNCHANGED <<srvVars, next>> /\ Active(p)
  BY ActiveAt DEF DkDone, histVars, Known
<1>2. Goto(p, "dk_end") /\ Alter(Flushed, "ckpt_m", Absent)
  BY <1>1, DkFacts DEF DkDone, InDoCkpt
<1>3. Goes(p) /\ pc'[p] = "dk_end" /\ loc'[p] = loc[p]
  BY <1>2, GotoGoes
<1>4. /\ dir'["ckpt_m"] = Absent
      /\ \A m \in Names \ {"ckpt_m"} : dir'[m] = dir[m]
  BY <1>2 DEF Alter, Flushed, IInv, TypeOK, CacheOK
<1>5. Good(dir)'
  <2> DEFINE l == Link(loc[p].mark.seq, loc[p].mark.ck)
  <2>1. /\ dir["directory.tmp"] = l /\ dir["directory.ckpt"] = Absent
        /\ cur = loc[p].mark.seq => kind = "write" /\ ckpt = l
        /\ ver.seq = loc[p].mark.seq => ver = l
        /\ dir["commit_m"] = Link(loc[p].mark.seq, 0)
    BY <1>1 DEF Known, CkptInv, InDoCkpt
  <2>2. cur = loc[p].mark.seq => Outcome = l /\ Outcome.whole
    BY <2>1, OutcomeLink DEF Link
  <2>3. l # Absent /\ Link(loc[p].mark.seq, 0).seq = loc[p].mark.seq
        /\ Link(loc[p].mark.seq, 0) # Absent /\ loc[p].mark.seq # 0
    BY <1>1, DkFacts DEF Link, Absent, InDoCkpt
  <2>4. Good(dir)
    BY <1>1 DEF Known
  <2>5. Good(dir')
    BY <1>4, <2>1, <2>2, <2>3, <2>4
    DEF Good, GoodSeqs, GoodSync, GoodCommit, GoodCkpt, GoodAlias, Pending, ToInstall
  <2>6. QED BY <1>1, <2>5, GoodSame
<1>6. ASSUME Synced({"ckpt_m"})' PROVE ProcInv(p)'
  <2>1. loc[p].stage \in {"work", "close"} => InTxn(p)' /\ loc[p].op = "write"
    BY <1>1, <1>3, <1>4, DkFacts, InTxnMarker DEF InDoCkpt
  <2>2. QED
    BY <1>1, <1>3, <1>4, <1>6, <2>1, DkFacts
    DEF ProcInv, MoveInv, CkptInv, CommitInv, TxnInv, srvVars,
        InMove, InDoCkpt, InDoCommit, InWork, BeforeWork
<1>7. Absent.seq = 0 /\ Absent \in Entry
  BY EntryFacts DEF Absent
<1>8. QED BY <1>1, <1>2, <1>3, <1>5, <1>6, <1>7, AlterStep

\* The last fsync.
LEMMA DkEndInv ==
    ASSUME IInv, RecoverAlone, TypeOK', NEW p \in Procs, DkEnd(p)
    PROVE  IInv'
<1>1. Known(p) /\ pc[p] = "dk_end" /\ UNCHANGED <<srvVars, next>>
  BY ActiveAt DEF DkEnd, histVars
<1>2. dir["ckpt_m"] = Absent
  BY <1>1 DEF Known, CkptInv
<1>3. loc[p].stage \in {"work", "close"} => InTxn(p) /\ loc[p].op = "write"
  BY <1>1 DEF Known, CkptInv, TxnInv, BeforeWork
<1>4. QED BY <1>1, <1>2, <1>3, AfterCkptInv DEF DkEnd, Known

(***************************************************************************)
(* multitape_docommit.                                                     *)
(***************************************************************************)

\* The return from multitape_docommit.
LEMMA AfterCleanInv ==
    ASSUME IInv, RecoverAlone, TypeOK', NEW p \in Procs, Active(p), Fsync, AfterClean(p),
           UNCHANGED <<srvVars, next>>, dir["ckpt_m"] = Absent, dir["commit_m"] = Absent,
           loc[p].stage \in {"clean", "commit"}
    PROVE  IInv'
<1>1. CASE loc[p].stage = "commit"
  <2>1. Ends(p)
    BY <1>1, ExitEnds DEF AfterClean
  <2>2. CacheInv' /\ DiskInv'
    BY FsyncCache
  <2>3. SrvInv' /\ loc'[p].seq < next' /\ next <= next'
    BY <2>1 DEF IInv, SrvInv, srvVars, Ends, TypeOK, HistOK
  <2>4. ProcInv(p)'
    BY <2>1 DEF Ends, ProcInv, Active
  <2>5. ASSUME NEW q \in Procs \ {p} PROVE NukeInv(q)'
    <3>1. Bystander(q) /\ OthersApart(q)
      BY <2>1 DEF Ends, Bystander, OthersApart
    <3>2. \A n \in Names : \A e \in disk'[n] : e \in disk[n]
      BY DEF Fsync, Flushed, IInv, DiskInv
    <3>3. QED BY <3>1, <3>2, NukeQuiet DEF srvVars
  <2>6. QED BY <2>1, <2>2, <2>3, <2>4, <2>5, ActiveStep
<1>2. CASE loc[p].stage = "clean"
  <2>1. PICK l \in {"isck", "cancel"} : Goto(p, l) /\ (l = "cancel" => loc[p].op # "recover")
    BY <1>2 DEF AfterClean
  <2>2. Goes(p) /\ pc'[p] = l /\ loc'[p] = loc[p] /\ dir' = dir
    BY <2>1, GotoGoes DEF Fsync
  <2>3. ASSUME Synced({})' PROVE ProcInv(p)'
    BY <1>2, <2>1, <2>2, <2>3
    DEF ProcInv, MoveInv, CkptInv, CommitInv, TxnInv,
        InMove, InDoCkpt, InDoCommit, InWork, BeforeWork
  <2>4. QED BY <2>2, <2>3, FsyncStep
<1>3. QED BY <1>1, <1>2

\* The fsync and the read of the commit marker.
LEMMA ReadCommitMInv ==
    ASSUME IInv, RecoverAlone, TypeOK', NEW p \in Procs, ReadCommitM(p)
    PROVE  IInv'
<1>1. Known(p) /\ pc[p] = "dm_read" /\ UNCHANGED <<srvVars, next>> /\ Fsync
  BY ActiveAt DEF ReadCommitM, histVars
<1>2. dir["ckpt_m"] = Absent /\ loc[p].stage \in {"clean", "commit"}
  BY <1>1 DEF Known, CommitInv
<1>3. CASE dir["commit_m"] = Absent
  BY <1>1, <1>2, <1>3, AfterCleanInv DEF ReadCommitM, Known
<1>4. CASE dir["commit_m"] # Absent
  <2> DEFINE r == [loc[p] EXCEPT !.mark = dir["commit_m"], !.move = "commit"]
  <2>1. GotoWith(p, "mv_stat", r)
    BY <1>4 DEF ReadCommitM
  <2>2. /\ r.op = loc[p].op /\ r.seq = loc[p].seq /\ r.stage = loc[p].stage
        /\ r.mark = dir["commit_m"] /\ r.move = "commit"
    BY LocFacts DEF LocType, IInv, TypeOK
  <2>3. Goes(p) /\ pc'[p] = "mv_stat" /\ loc'[p] = r
    BY <2>1, <2>2, GotoWithGoes
  <2>4. dir' = dir
    BY <1>1 DEF Fsync
  <2>5. ASSUME Synced({})' PROVE ProcInv(p)'
    BY <1>2, <1>4, <2>2, <2>3, <2>4, <2>5
    DEF ProcInv, MoveInv, CkptInv, CommitInv, TxnInv,
        InMove, InDoCkpt, InDoCommit, InWork, BeforeWork
  <2>6. QED BY <1>1, <2>2, <2>3, <2>5, FsyncStep DEF Known
<1>5. QED BY <1>3, <1>4

\* What is known in the last steps of multitape_docommit.
LEMMA CsFacts ==
    ASSUME IInv, NEW p \in Procs, Known(p), pc[p] \in InDoCommit
    PROVE  /\ dir["commit_m"] = loc[p].mark /\ dir["ckpt_m"] = Absent
           /\ dir["directory.tmp"] = Absent
           /\ loc[p].mark # Absent /\ loc[p].mark.seq # 0 /\ loc[p].mark.seq \in Nat
           /\ loc[p].stage \in {"clean", "commit"} /\ cur # loc[p].mark.seq
           /\ Good(dir) /\ Active(p)
BY LocFacts DEF IInv, TypeOK, Known, CommitInv, Good, GoodSeqs, Pending

\* The old sequence number is removed.
LEMMA CsUnlinkInv ==
    ASSUME IInv, RecoverAlone, TypeOK', NEW p \in Procs, CsUnlink(p)
    PROVE  IInv'
<1>1. Known(p) /\ pc[p] = "cs_unlink" /\ UNCHANGED <<srvVars, next>>
  BY ActiveAt DEF CsUnlink, histVars
<1>2. Goto(p, "cs_link") /\ Alter(disk, "cseq", Absent)
  BY DEF CsUnlink
<1>3. Goes(p) /\ pc'[p] = "cs_link" /\ loc'[p] = loc[p]
  BY <1>2, GotoGoes
<1>4. dir'["cseq"] = Absent /\ \A m \in Names \ {"cseq"} : dir'[m] = dir[m]
  BY <1>2 DEF Alter, IInv, TypeOK, CacheOK
<1>5. Absent.seq = 0 /\ Absent \in Entry
  BY EntryFacts DEF Absent
<1>6. Good(dir)'
  <2>1. Good(dir')
    BY <1>1, <1>4, <1>5, CsFacts
    DEF InDoCommit, Good, GoodSeqs, GoodSync, GoodCommit, GoodCkpt, GoodAlias, Pending, ToInstall
  <2>2. QED BY <1>1, <2>1, GoodSame
<1>7. ASSUME Synced({"cseq"})' PROVE ProcInv(p)'
  BY <1>1, <1>3, <1>4, <1>7, CsFacts
  DEF ProcInv, MoveInv, CkptInv, CommitInv, TxnInv, srvVars,
      InMove, InDoCkpt, InDoCommit, InWork, BeforeWork
<1>8. Synced({"cseq"}) /\ Active(p)
  BY <1>1 DEF Known, CommitInv, Synced
<1>9. QED BY <1>1, <1>2, <1>3, <1>5, <1>6, <1>7, <1>8, AlterStep

\* The new sequence number is made.
LEMMA CsLinkInv ==
    ASSUME IInv, RecoverAlone, TypeOK', NEW p \in Procs, CsLink(p)
    PROVE  IInv'
<1>1. Known(p) /\ pc[p] = "cs_link" /\ UNCHANGED <<srvVars, next>>
  BY ActiveAt DEF CsLink, histVars
<1>2. PICK e \in Entry : e = Link(loc[p].mark.seq, 0)
  BY <1>1, CsFacts, EntryFacts DEF InDoCommit
<1>3. e.seq = loc[p].mark.seq /\ e.seq # 0 /\ e.seq = dir["commit_m"].seq
  BY <1>1, <1>2, CsFacts DEF Link, InDoCommit
<1>4. Synced({"cseq"}) /\ Active(p) /\ dir["cseq"] = Absent
  BY <1>1 DEF Known, CommitInv
<1>5. Goto(p, "cs_done") /\ Alter(disk, "cseq", e)
  BY <1>2, <1>4 DEF CsLink
<1>6. Goes(p) /\ pc'[p] = "cs_done" /\ loc'[p] = loc[p]
  BY <1>5, GotoGoes
<1>7. dir'["cseq"] = e /\ \A m \in Names \ {"cseq"} : dir'[m] = dir[m]
  BY <1>5 DEF Alter, IInv, TypeOK, CacheOK
<1>8. Good(dir)'
  <2>1. Good(dir')
    BY <1>1, <1>3, <1>7, CsFacts
    DEF InDoCommit, Good, GoodSeqs, GoodSync, GoodCommit, GoodCkpt, GoodAlias, Pending, ToInstall
  <2>2. QED BY <1>1, <2>1, GoodSame
<1>9. ASSUME Synced({"cseq"})' PROVE ProcInv(p)'
  BY <1>1, <1>2, <1>6, <1>7, <1>9, CsFacts
  DEF ProcInv, MoveInv, CkptInv, CommitInv, TxnInv, srvVars,
      InMove, InDoCkpt, InDoCommit, InWork, BeforeWork
<1>10. QED BY <1>1, <1>3, <1>4, <1>5, <1>6, <1>8, <1>9, AlterStep

\* The sequence number is synced and the commit marker removed: the directory is
\* what the server has, if the server has committed this transaction.
LEMMA CsDoneInv ==
    ASSUME IInv, RecoverAlone, TypeOK', NEW p \in Procs, CsDone(p)
    PROVE  IInv'
<1>1. Known(p) /\ pc[p] = "cs_done" /\ UNCHANGED <<srvVars, next>>
  BY ActiveAt DEF CsDone, histVars
<1>2. Goto(p, "cs_end") /\ Alter(Flushed, "commit_m", Absent)
  BY <1>1, CsFacts DEF CsDone, InDoCommit
<1>3. Goes(p) /\ pc'[p] = "cs_end" /\ loc'[p] = loc[p]
  BY <1>2, GotoGoes
<1>4. dir'["commit_m"] = Absent /\ \A m \in Names \ {"commit_m"} : dir'[m] = dir[m]
  BY <1>2 DEF Alter, Flushed, IInv, TypeOK, CacheOK
<1>5. dir["cseq"].seq = loc[p].mark.seq
  BY <1>1 DEF Known, CommitInv, Link
<1>6. Good(dir)'
  <2>1. dir["cseq"].seq = ver.seq => dir["directory"] = ver
    BY <1>1, <1>5, CsFacts DEF InDoCommit, Good, GoodCommit, Pending, ToInstall
  <2>2. Good(dir')
    BY <1>1, <1>4, <2>1, CsFacts
    DEF InDoCommit, Good, GoodSeqs, GoodSync, GoodCommit, GoodCkpt, GoodAlias, Pending
  <2>3. QED BY <1>1, <2>2, GoodSame
<1>7. ASSUME Synced({"commit_m"})' PROVE ProcInv(p)'
  BY <1>1, <1>3, <1>4, <1>7, CsFacts
  DEF ProcInv, MoveInv, CkptInv, CommitInv, TxnInv,
      InMove, InDoCkpt, InDoCommit, InWork, BeforeWork
<1>8. Absent.seq = 0 /\ Absent \in Entry
  BY EntryFacts DEF Absent
<1>9. Active(p)
  BY <1>1 DEF Known
<1>10. QED BY <1>1, <1>2, <1>3, <1>6, <1>7, <1>8, <1>9, AlterStep

\* The last fsync.
LEMMA CsEndInv ==
    ASSUME IInv, RecoverAlone, TypeOK', NEW p \in Procs, CsEnd(p)
    PROVE  IInv'
<1>1. Known(p) /\ pc[p] = "cs_end" /\ UNCHANGED <<srvVars, next>>
  BY ActiveAt DEF CsEnd
<1>2. dir["ckpt_m"] = Absent /\ dir["commit_m"] = Absent /\ loc[p].stage \in {"clean", "commit"}
  BY <1>1 DEF Known, CommitInv
<1>3. QED BY <1>1, <1>2, AfterCleanInv DEF CsEnd, Known

(***************************************************************************)
(* Requests to the server.                                                 *)
(***************************************************************************)

\* The parts of IInv, put together after a step of one process.
LEMMA AnyStep ==
    ASSUME IInv, NEW p \in Procs, pc[p] # "idle", Goes(p) \/ Ends(p), TypeOK',
           next <= next', loc'[p].seq < next', SrvInv', CacheInv', DiskInv',
           \A q \in Procs : NukeInv(q)' /\ ProcInv(q)'
    PROVE  IInv'
BY LockStep DEF IInv

\* A step of one process in which the server starts, drops or commits.
LEMMA ShiftStep ==
    ASSUME IInv, NEW p \in Procs, pc[p] # "idle", Goes(p) \/ Ends(p), TypeOK',
           Shift, UNCHANGED cacheVars, SrvInv',
           loc'[p].seq \in {loc[p].seq, 0, next}, loc'[p].seq < next',
           \/ ver' = ver \/ ver'.seq = next
           \/ \A q \in Procs \ {p} : Active(q) /\ OwnTxn(q) => cur # loc[q].seq,
           NukeInv(p)', ProcInv(p)'
    PROVE  IInv'
<1>1. CacheInv' /\ DiskInv'
  BY CacheShift
<1>2. ASSUME NEW q \in Procs \ {p} PROVE NukeInv(q)' /\ ProcInv(q)'
  <2>1. Bystander(q)
    BY DEF Goes, Ends
  <2>2. OthersApart(q)
    BY DEF Goes, Ends, OthersApart, Bystander
  <2>3. ProcInv(q)'
    BY <2>1, ProcShift
  <2>4. NukeInv(q)'
    BY <2>1, <2>2, NukeShift DEF cacheVars
  <2>5. QED BY <2>3, <2>4
<1>3. next <= next'
  BY DEF Shift
<1>4. QED BY <1>1, <1>2, <1>3, AnyStep

\* A commit of the transaction in progress, when it is whole.
LEMMA CommitShift ==
    ASSUME IInv, TypeOK', NEW s, SrvTryCommit(s), s = cur, cur # 0, Outcome.whole, next' = next
    PROVE  Shift /\ SrvInv' /\ cur' = 0 /\ ver' = Outcome
<1>1. ver' = Outcome /\ cur' = 0 /\ UNCHANGED <<kind, ckpt, work>>
  BY DEF SrvTryCommit
<1>2. Outcome.seq = cur /\ next \in Nat
  BY DEF Outcome, IInv, TypeOK, HistOK
<1>3. Shift
  BY <1>1, <1>2 DEF Shift
<1>4. SrvInv'
  BY <1>1, <1>2 DEF IInv, SrvInv
<1>5. QED BY <1>1, <1>3, <1>4

\* A commit of anything else changes nothing.
LEMMA NoCommit ==
    ASSUME NEW s, SrvTryCommit(s), s # cur \/ cur = 0
    PROVE  UNCHANGED srvVars
BY DEF SrvTryCommit, srvVars


(***************************************************************************)
(* storage_transaction_checkpoint.                                         *)
(***************************************************************************)

\* A pending checkpoint is made, or was made before: the server has it now.
LEMMA CkptMade ==
    ASSUME IInv, TypeOK', NEW p \in Procs, Known(p), pc[p] = "remote", loc[p].move = "ckpt",
           cur = loc[p].mark.seq, kind = "write", SrvCheckpoint(cur, loc[p].mark.ck),
           UNCHANGED <<cacheVars, next>>, loc'[p] = loc[p]
    PROVE  /\ dir["directory.tmp"] = Link(loc[p].mark.seq, loc[p].mark.ck)
           /\ ckpt' = Link(loc[p].mark.seq, loc[p].mark.ck)
           /\ dir["ckpt_m"] = loc[p].mark /\ dir["directory.ckpt"] = Absent
           /\ loc[p].mark # Absent /\ loc[p].mark.seq # 0 /\ disk["ckpt_m"] = {loc[p].mark}
           /\ loc[p].stage \in {"clean", "work", "close"}
           /\ SrvInv' /\ CacheInv' /\ DiskInv' /\ Synced({}) /\ Synced({})'
           /\ InTxn(p) => InTxn(p)'
<1> DEFINE mark == loc[p].mark
<1>1. /\ dir["ckpt_m"] = mark /\ Pending(mark) /\ dir["directory.ckpt"] = Absent
      /\ Synced({}) /\ disk["ckpt_m"] = {mark} /\ loc[p].stage \in {"clean", "work", "close"}
  <2>1. dir["ckpt_m"] = mark /\ Pending(mark) /\ OldName(p) = "directory.ckpt"
    BY MoveCases
  <2>2. QED BY <2>1 DEF Known, MoveInv, CkptInv
<1>2. mark \in Entry /\ mark.seq \in Nat /\ mark.ck \in Nat
  BY LocFacts DEF IInv, TypeOK, LocType, Entry
<1>3. /\ dir["directory.tmp"] = Link(mark.seq, mark.ck)
      /\ ckpt = Link(mark.seq, mark.ck) \/ (ckpt.ck # mark.ck /\ work)
      /\ mark.seq # 0 /\ mark.ck # 0
  BY <1>1 DEF Known, Good, GoodSeqs, GoodCkpt, Pending
<1>4. UNCHANGED <<ver, cur, kind, dir, disk>>
  BY DEF SrvCheckpoint, cacheVars
<1>5. ckpt' = Link(mark.seq, mark.ck)
  <2>1. CASE ckpt.ck = mark.ck
    BY <1>3, <2>1 DEF SrvCheckpoint
  <2>2. CASE ckpt.ck # mark.ck
    <3>1. ckpt # Link(mark.seq, mark.ck)
      BY <2>2 DEF Link
    <3>2. work = TRUE
      BY <1>3, <3>1, ZenonT(20) DEF IInv, TypeOK, SrvOK
    <3>3. ckpt' = [seq |-> mark.seq, ck |-> mark.ck, whole |-> work]
      BY <2>2 DEF SrvCheckpoint
    <3>4. QED BY <3>2, <3>3 DEF Link
  <2>3. QED BY <2>1, <2>2
<1>6. ckpt'.seq = mark.seq /\ ckpt'.ck = mark.ck /\ ckpt'.whole
  BY <1>5 DEF Link
<1>7. SrvInv'
  BY <1>4, <1>6 DEF IInv, SrvInv
<1>8. Good(dir)'
  <2>1. Good(dir)
    BY DEF Known
  <2>2. QED
    BY <1>1, <1>3, <1>4, <1>5, <2>1
    DEF Good, GoodSeqs, GoodSync, GoodCommit, GoodCkpt, GoodAlias, Pending
<1>9. CacheInv' /\ DiskInv' /\ Synced({})'
  <2>1. \A n \in Names : disk'[n] = {dir'[n]} /\ dir'[n].seq < next'
    BY <1>1, <1>4 DEF Synced, IInv, DiskInv
  <2>2. QED BY <1>8, <2>1, SyncedCache
<1>10. InTxn(p) => InTxn(p)'
  <2> SUFFICES ASSUME InTxn(p) PROVE InTxn(p)'
    OBVIOUS
  <2>1. loc[p].op = "write"
    BY <1>1 DEF InTxn, Pending
  <2>2. cur = loc[p].seq => ckpt'.ck <= loc[p].ck
    BY <1>1, <1>6, <2>1 DEF InTxn
  <2>3. QED BY <1>4, <2>1, <2>2 DEF InTxn, KindOf
<1>11. QED BY <1>1, <1>3, <1>5, <1>7, <1>9, <1>10 DEF Pending

\* A checkpoint does not concern a nuke: its transaction is not a write.
LEMMA CkptNuke ==
    ASSUME IInv, NEW p \in Procs, kind = "write", SrvCheckpoint(cur, loc[p].mark.ck),
           UNCHANGED cacheVars, Goes(p), loc'[p] = loc[p], NEW q \in Procs \ {p}
    PROVE  NukeInv(q)'
<1>1. Bystander(q) /\ OthersApart(q)
  BY DEF Goes, Bystander, OthersApart
<1>2. NukeTxn(q) => cur # loc[q].seq
  BY DEF NukeTxn
<1>3. UNCHANGED <<cur, kind>>
  BY DEF SrvCheckpoint
<1>4. QED BY <1>1, <1>2, <1>3, NukeQuiet DEF cacheVars

\* The answer to a checkpoint arrives.
LEMMA RemoteCheckpointInv ==
    ASSUME IInv, RecoverAlone, TypeOK', NEW p \in Procs, RemoteCheckpoint(p)
    PROVE  IInv'
<1>1. Known(p) /\ pc[p] = "remote" /\ loc[p].move = "ckpt" /\ UNCHANGED <<cacheVars, next>>
      /\ Active(p)
  BY ActiveAt DEF RemoteCheckpoint, histVars, Known
<1>2. CASE cur = loc[p].mark.seq /\ kind = "write"
  <2>1. SrvCheckpoint(cur, loc[p].mark.ck) /\ Goto(p, "dk_unlink")
    BY <1>2 DEF RemoteCheckpoint
  <2>2. Goes(p) /\ pc'[p] = "dk_unlink" /\ loc'[p] = loc[p]
    BY <2>1, GotoGoes
  <2>3. UNCHANGED <<ver, cur, kind, dir, disk>>
    BY <1>1, <2>1 DEF SrvCheckpoint, cacheVars
  <2>4. ver.seq # loc[p].mark.seq
    BY <1>1, <1>2, <2>1, <2>2, CkptMade DEF IInv, SrvInv
  <2>5. loc[p].stage \in {"work", "close"} => InTxn(p)'
    BY <1>1, <1>2, <2>1, <2>2, CkptMade DEF Known, TxnInv, BeforeWork
  <2>6. MoveInv(p)' /\ CommitInv(p)'
    BY <2>2 DEF MoveInv, CommitInv, InMove, InDoCommit
  <2>7. CkptInv(p)'
    BY <1>1, <1>2, <2>1, <2>2, <2>3, <2>4, CkptMade DEF CkptInv, InMove, InDoCkpt
  <2>8. TxnInv(p)'
    BY <2>2, <2>5 DEF TxnInv, InWork, BeforeWork
  <2>9. ProcInv(p)'
    BY <2>6, <2>7, <2>8 DEF ProcInv
  <2>10. SrvInv' /\ CacheInv' /\ DiskInv'
    BY <1>1, <1>2, <2>1, <2>2, CkptMade
  <2>11. loc'[p].seq < next' /\ next <= next'
    BY <1>1, <2>2 DEF IInv, LockInv, TypeOK, HistOK
  <2>12. \A q \in Procs \ {p} : NukeInv(q)'
    BY <1>1, <1>2, <2>1, <2>2, CkptNuke
  <2>13. QED BY <1>1, <2>2, <2>9, <2>10, <2>11, <2>12, ActiveStep
<1>3. CASE ~(cur = loc[p].mark.seq /\ kind = "write")
  BY <1>1, <1>3, ExitEnds, EndInv DEF RemoteCheckpoint
<1>4. QED BY <1>2, <1>3

\* The answer does not arrive, and the request is repeated.
LEMMA LostCheckpointInv ==
    ASSUME IInv, RecoverAlone, TypeOK', NEW p \in Procs, pc[p] = "remote", loc[p].move = "ckpt",
           cur = loc[p].mark.seq, kind = "write", SrvCheckpoint(cur, loc[p].mark.ck),
           UNCHANGED <<cacheVars, procVars, next>>
    PROVE  IInv'
<1>1. Known(p) /\ Active(p)
  BY ActiveAt DEF Known
<1>2. Goes(p) /\ pc'[p] = "remote" /\ loc'[p] = loc[p]
  BY DEF Goes, Bystander, procVars
<1>3. UNCHANGED <<ver, cur, kind, dir, disk>>
  BY DEF SrvCheckpoint, cacheVars
<1>4. loc[p].stage \in {"work", "close"} => InTxn(p)'
  BY <1>1, <1>2, CkptMade DEF Known, TxnInv, BeforeWork
<1>5. MoveInv(p)'
  BY <1>1, <1>2, <1>3, CkptMade DEF MoveInv, OldName
<1>6. CkptInv(p)' /\ CommitInv(p)'
  BY <1>1, <1>2, <1>3, CkptMade DEF CkptInv, CommitInv, InMove, InDoCkpt, InDoCommit
<1>7. TxnInv(p)'
  BY <1>2, <1>4 DEF TxnInv, InWork, BeforeWork
<1>8. ProcInv(p)'
  BY <1>5, <1>6, <1>7 DEF ProcInv
<1>9. SrvInv' /\ CacheInv' /\ DiskInv'
  BY <1>1, <1>2, CkptMade
<1>10. loc'[p].seq < next' /\ next <= next'
  BY <1>2 DEF IInv, LockInv, TypeOK, HistOK
<1>11. \A q \in Procs \ {p} : NukeInv(q)'
  BY <1>1, <1>2, CkptNuke
<1>12. QED BY <1>1, <1>2, <1>8, <1>9, <1>10, <1>11, ActiveStep

(***************************************************************************)
(* storage_transaction_commit.                                             *)
(***************************************************************************)

\* Nothing changes that IInv is about.
LEMMA SameInv ==
    ASSUME IInv, TypeOK', UNCHANGED <<cacheVars, srvVars, lock, pc, loc, next>>
    PROVE  IInv'
<1>1. CacheInv' /\ DiskInv' /\ SrvInv'
  BY CacheSame
<1>2. LockInv'
  BY DEF IInv, LockInv, Active, NeedsLock
<1>3. ASSUME NEW q \in Procs PROVE ProcInv(q)' /\ NukeInv(q)'
  <2>1. Bystander(q) /\ OthersApart(q)
    BY DEF Bystander, OthersApart
  <2>2. NukeInv(q)'
    BY <2>1, NukeQuiet DEF cacheVars, srvVars
  <2>3. QED BY <2>1, <2>2, ProcSame
<1>4. QED BY <1>1, <1>2, <1>3 DEF IInv

\* A pending commit is made, whether or not the answer arrives.
LEMMA CommitMade ==
    ASSUME IInv, RecoverAlone, TypeOK', NEW p \in Procs, pc[p] = "remote",
           loc[p].move = "commit", SrvTryCommit(loc[p].mark.seq),
           UNCHANGED <<cacheVars, next>>, Goes(p), loc'[p] = loc[p],
           pc'[p] = "cs_unlink" \/ (pc'[p] = "remote" /\ UNCHANGED procVars)
    PROVE  IInv'
<1> DEFINE mark == loc[p].mark
<1>1. Known(p) /\ Active(p)
  BY ActiveAt DEF Known
<1>2. /\ dir["commit_m"] = mark /\ Pending(mark) /\ ~Pending(dir["ckpt_m"])
      /\ OldName(p) = "directory.tmp"
  BY <1>1, MoveCases
<1>3. /\ dir["directory.tmp"] = Absent /\ Synced({})
      /\ loc[p].stage \in {"clean", "commit"} /\ mark.seq # 0
  BY <1>1, <1>2 DEF Known, MoveInv, CommitInv, Good, GoodSeqs
<1>4. dir' = dir /\ disk' = disk
  BY DEF cacheVars
<1>5. ASSUME cur' # mark.seq PROVE ProcInv(p)'
  <2>1. Synced({})'
    BY <1>3, <1>4 DEF Synced
  <2>2. MoveInv(p)'
    BY <1>2, <1>3, <1>4, <2>1 DEF MoveInv, OldName
  <2>3. CkptInv(p)' /\ CommitInv(p)'
    BY <1>2, <1>3, <1>4, <1>5, <2>1
    DEF CkptInv, CommitInv, InMove, InDoCkpt, InDoCommit, Pending
  <2>4. TxnInv(p)'
    BY <1>3 DEF TxnInv, InWork, BeforeWork
  <2>5. QED BY <2>2, <2>3, <2>4 DEF ProcInv
<1>6. CASE mark.seq = cur /\ cur # 0
  <2>1. Outcome.whole
    BY <1>1, <1>2, <1>6 DEF Known, Good, GoodCommit
  <2>2. Shift /\ SrvInv' /\ cur' = 0
    BY <1>6, <2>1, CommitShift
  <2>3. ProcInv(p)'
    BY <1>3, <1>5, <2>2
  <2>4. NukeInv(p)'
    BY <1>1 DEF NukeInv, Active, Goes
  <2>5. \A q \in Procs \ {p} : ~Active(q)
    BY <1>1, AloneActive
  <2>6. loc'[p].seq < next'
    BY DEF IInv, LockInv
  <2>7. QED BY <1>1, <2>2, <2>3, <2>4, <2>5, <2>6, ShiftStep
<1>7. CASE ~(mark.seq = cur /\ cur # 0)
  <2>1. UNCHANGED srvVars
    BY <1>7, NoCommit
  <2>2. ProcInv(p)'
    BY <1>3, <1>5, <1>7, <2>1 DEF srvVars
  <2>3. QED BY <1>1, <2>1, <2>2, QuietStep
<1>8. QED BY <1>6, <1>7

\* The answer to a commit arrives.
LEMMA RemoteCommitInv ==
    ASSUME IInv, RecoverAlone, TypeOK', NEW p \in Procs, RemoteCommit(p)
    PROVE  IInv'
<1>1. Goes(p) /\ pc'[p] = "cs_unlink" /\ loc'[p] = loc[p]
  BY GotoGoes DEF RemoteCommit
<1>2. QED BY <1>1, CommitMade DEF RemoteCommit

(***************************************************************************)
(* storage_transaction_commitfromcheckpoint.                               *)
(***************************************************************************)

\* The server is asked whether a transaction is checkpointed.
LEMMA IsCkInv ==
    ASSUME IInv, RecoverAlone, TypeOK', NEW p \in Procs, IsCk(p)
    PROVE  IInv'
<1>1. Known(p) /\ Active(p) /\ pc[p] = "isck" /\ UNCHANGED <<cacheVars, srvVars, next>>
  BY ActiveAt DEF IsCk, histVars, Known
<1>2. /\ Synced({}) /\ Synced({})' /\ dir' = dir
      /\ dir["commit_m"] = Absent /\ dir["ckpt_m"] = Absent /\ loc[p].stage = "clean"
  BY <1>1 DEF Known, TxnInv, BeforeWork, Synced, cacheVars
<1>3. CASE IsCheckpointed
  <2> DEFINE r == [loc[p] EXCEPT !.mark = Link(cur, 0)]
  <2>1. GotoWith(p, "isck_commit", r)
    BY <1>3 DEF IsCk
  <2>2. r.op = loc[p].op /\ r.seq = loc[p].seq /\ r.stage = loc[p].stage /\ r.mark.seq = cur
    BY LocFacts DEF LocType, IInv, TypeOK, Link
  <2>3. Goes(p) /\ pc'[p] = "isck_commit" /\ loc'[p] = r
    BY <2>1, <2>2, GotoWithGoes
  <2>4. r.mark.seq < next' /\ kind' = "write"
    BY <1>1, <1>3, <2>2 DEF IInv, SrvInv, IsCheckpointed, srvVars
  <2>5. ProcInv(p)'
    BY <1>2, <2>2, <2>3, <2>4
    DEF ProcInv, MoveInv, CkptInv, CommitInv, TxnInv,
        InMove, InDoCkpt, InDoCommit, InWork, BeforeWork
  <2>6. QED BY <1>1, <2>2, <2>3, <2>5, QuietStep
<1>4. CASE ~IsCheckpointed /\ loc[p].op = "fsck"
  <2>1. Goes(p) /\ pc'[p] = "cancel" /\ loc'[p] = loc[p]
    BY <1>4, GotoGoes DEF IsCk, AfterIsCk
  <2>2. ProcInv(p)'
    BY <1>2, <1>4, <2>1
    DEF ProcInv, MoveInv, CkptInv, CommitInv, TxnInv,
        InMove, InDoCkpt, InDoCommit, InWork, BeforeWork
  <2>3. QED BY <1>1, <2>1, <2>2, QuietStep
<1>5. CASE ~IsCheckpointed /\ loc[p].op # "fsck"
  BY <1>1, <1>5, ExitEnds, EndInv DEF IsCk, AfterIsCk
<1>6. QED BY <1>3, <1>4, <1>5

\* The checkpointed transaction is committed, whether or not the answer
\* arrives.
LEMMA IsCkMade ==
    ASSUME IInv, RecoverAlone, TypeOK', NEW p \in Procs, pc[p] = "isck_commit",
           SrvTryCommit(loc[p].mark.seq), UNCHANGED <<cacheVars, next>>,
           \/ Goes(p) /\ loc'[p] = loc[p] /\ pc'[p] = "isck_commit"
           \/ Goes(p) /\ loc'[p] = loc[p] /\ pc'[p] = "cancel" /\ loc[p].op = "fsck"
           \/ Ends(p)
    PROVE  IInv'
<1>1. Known(p) /\ Active(p)
  BY ActiveAt DEF Known
<1>2. /\ Synced({}) /\ Synced({})' /\ dir' = dir
      /\ dir["commit_m"] = Absent /\ dir["ckpt_m"] = Absent /\ loc[p].stage = "clean"
      /\ loc[p].mark.seq < next
      /\ cur = loc[p].mark.seq /\ cur # 0 => kind = "write"
  BY <1>1 DEF Known, TxnInv, BeforeWork, Synced, cacheVars
<1>3. ASSUME cur' # 0 => UNCHANGED <<cur, kind>> PROVE ProcInv(p)'
  <2>1. CASE Ends(p)
    BY <2>1 DEF ProcInv, Active, Ends
  <2>2. CASE ~Ends(p)
    BY <1>2, <1>3, <2>2
    DEF ProcInv, MoveInv, CkptInv, CommitInv, TxnInv,
        InMove, InDoCkpt, InDoCommit, InWork, BeforeWork
  <2>3. QED BY <2>1, <2>2
<1>4. CASE loc[p].mark.seq = cur /\ cur # 0
  <2>1. Outcome.whole
    BY <1>2, <1>4 DEF Outcome, IInv, SrvInv
  <2>2. Shift /\ SrvInv' /\ cur' = 0
    BY <1>4, <2>1, CommitShift
  <2>3. ProcInv(p)'
    BY <1>3, <2>2
  <2>4. NukeInv(p)'
    BY <1>1 DEF NukeInv, Active, Goes, Ends
  <2>5. \A q \in Procs \ {p} : ~Active(q)
    BY <1>1, AloneActive
  <2>6. loc'[p].seq \in {loc[p].seq, 0} /\ loc'[p].seq < next'
    BY DEF IInv, LockInv, SrvInv, TypeOK, HistOK, Ends
  <2>7. QED BY <1>1, <2>2, <2>3, <2>4, <2>5, <2>6, ShiftStep
<1>5. CASE ~(loc[p].mark.seq = cur /\ cur # 0)
  <2>1. UNCHANGED srvVars
    BY <1>5, NoCommit
  <2>2. CASE Ends(p)
    BY <1>1, <2>1, <2>2, EndInv
  <2>3. CASE ~Ends(p)
    <3>1. ProcInv(p)'
      BY <1>3, <2>1 DEF srvVars
    <3>2. QED BY <1>1, <2>1, <2>3, <3>1, QuietStep
  <2>4. QED BY <2>2, <2>3
<1>6. QED BY <1>4, <1>5

\* The answer to the commit of a checkpointed transaction arrives.
LEMMA IsCkCommitInv ==
    ASSUME IInv, RecoverAlone, TypeOK', NEW p \in Procs, IsCkCommit(p)
    PROVE  IInv'
<1>1. CASE loc[p].op = "fsck"
  <2>1. Goes(p) /\ pc'[p] = "cancel" /\ loc'[p] = loc[p]
    BY <1>1, GotoGoes DEF IsCkCommit, AfterIsCk
  <2>2. QED BY <1>1, <2>1, IsCkMade DEF IsCkCommit
<1>2. CASE loc[p].op # "fsck"
  BY <1>2, ExitEnds, IsCkMade DEF IsCkCommit, AfterIsCk
<1>3. QED BY <1>1, <1>2

(***************************************************************************)
(* nuketape.                                                               *)
(***************************************************************************)

\* A nuke commits, whether or not the answer arrives.
LEMMA NukeMade ==
    ASSUME IInv, TypeOK', NEW p \in Procs, pc[p] = "nk_commit",
           SrvTryCommit(loc[p].seq), UNCHANGED <<cacheVars, next>>,
           (UNCHANGED <<pc, loc, lock>>) \/ Ends(p)
    PROVE  IInv'
<1>1. loc[p].op = "nuke" /\ pc[p] # "idle" /\ NukeTxn(p)
  BY DEF IInv, ProcInv, TxnInv, Active, NukeInv
<1>2. Goes(p) \/ Ends(p)
  BY <1>1 DEF Goes, Bystander
<1>3. CASE loc[p].seq = cur /\ cur # 0
  <2>1. Outcome.whole
    BY <1>1, <1>3 DEF Outcome, NukeTxn
  <2>2. Shift /\ SrvInv' /\ cur' = 0
    BY <1>3, <2>1, CommitShift
  <2>3. ProcInv(p)'
    BY <1>1 DEF ProcInv, Active, Ends
  <2>4. NukeInv(p)'
    <3>1. CASE Ends(p)
      BY <3>1 DEF NukeInv, Ends
    <3>2. CASE UNCHANGED <<pc, loc, lock>>
      BY <1>1, <2>2, <3>2 DEF NukeInv, NukeTxn, cacheVars
    <3>3. QED BY <3>1, <3>2
  <2>5. \A q \in Procs \ {p} : cur # loc[q].seq
    BY <1>1, <1>3 DEF NukeTxn
  <2>6. loc'[p].seq \in {loc[p].seq, 0} /\ loc'[p].seq < next'
    BY DEF IInv, LockInv, SrvInv, TypeOK, HistOK, Ends
  <2>7. QED BY <1>1, <1>2, <2>2, <2>3, <2>4, <2>5, <2>6, ShiftStep
<1>4. CASE ~(loc[p].seq = cur /\ cur # 0)
  <2>1. UNCHANGED srvVars
    BY <1>4, NoCommit
  <2>2. CASE Ends(p)
    BY <1>1, <2>1, <2>2, EndInv
  <2>3. CASE UNCHANGED <<pc, loc, lock>>
    BY <2>1, <2>3, SameInv
  <2>4. QED BY <2>2, <2>3
<1>5. QED BY <1>3, <1>4

\* A nuke commits and ends.
LEMMA NukeCommitInv ==
    ASSUME IInv, TypeOK', NEW p \in Procs, NukeCommit(p)
    PROVE  IInv'
BY ExitEnds, NukeMade DEF NukeCommit

(***************************************************************************)
(* storage_transaction_start.                                              *)
(***************************************************************************)

\* A nuke goes on.
LEMMA NukeStep ==
    ASSUME IInv, TypeOK', NEW p \in Procs, pc[p] # "idle", loc[p].op = "nuke",
           Goes(p), loc'[p].seq = loc[p].seq, UNCHANGED <<cacheVars, srvVars, next>>,
           NukeInv(p)'
    PROVE  IInv'
<1>1. CacheInv' /\ DiskInv' /\ SrvInv'
  BY CacheSame
<1>2. loc'[p].seq < next' /\ next <= next'
  BY DEF IInv, LockInv, TypeOK, HistOK
<1>3. ProcInv(p)'
  BY DEF ProcInv, Active, Goes
<1>4. ASSUME NEW q \in Procs \ {p} PROVE ProcInv(q)' /\ NukeInv(q)'
  <2>1. Bystander(q) /\ OthersApart(q)
    BY DEF Goes, Bystander, OthersApart
  <2>2. NukeInv(q)'
    BY <2>1, NukeQuiet DEF cacheVars, srvVars
  <2>3. QED BY <2>1, <2>2, ProcSame
<1>5. QED BY <1>1, <1>2, <1>3, <1>4, AnyStep

\* What is known before the transaction.
LEMMA BeforeFacts ==
    ASSUME IInv, NEW p \in Procs, pc[p] \in {"cancel", "start", "open"}, Active(p)
    PROVE  /\ Synced({}) /\ dir["commit_m"] = Absent /\ dir["ckpt_m"] = Absent
           /\ loc[p].stage = "clean" /\ loc[p].op # "recover" /\ loc[p].op # "nuke"
           /\ Good(dir) /\ TxnInv(p)
BY DEF IInv, ProcInv, TxnInv, BeforeWork, CacheInv, Active

\* A transaction in progress is cancelled, or not.
LEMMA CancelInv ==
    ASSUME IInv, RecoverAlone, TypeOK', NEW p \in Procs, Cancel(p)
    PROVE  IInv'
<1> DEFINE r == [loc[p] EXCEPT !.mark = Link(dir["cseq"].seq, 0)]
<1>1. pc[p] = "cancel" /\ UNCHANGED <<cacheVars, ver, kind, ckpt, work, next>>
      /\ cur' \in {0, cur}
  BY DEF Cancel, SrvCancel, histVars
<1>2. /\ r.op = loc[p].op /\ r.seq = loc[p].seq /\ r.stage = loc[p].stage
      /\ r.mark.seq = dir["cseq"].seq
  BY LocFacts DEF LocType, IInv, TypeOK, Link
<1>3. Goes(p) /\ pc'[p] = "start" /\ loc'[p] = r
  BY ZenonT(40), <1>2, GotoWithGoes DEF Cancel
<1>4. ProcInv(p)'
  <2> SUFFICES ASSUME Active(p) PROVE ProcInv(p)'
    BY <1>1, <1>2, <1>3 DEF ProcInv, Active
  <2>1. Synced({})' /\ dir' = dir
    BY <1>1, BeforeFacts DEF Synced, cacheVars
  <2>2. QED
    BY <1>1, <1>2, <1>3, <2>1, BeforeFacts
    DEF ProcInv, MoveInv, CkptInv, CommitInv, TxnInv,
        InMove, InDoCkpt, InDoCommit, InWork, BeforeWork
<1>5. NukeInv(p)'
  BY <1>3 DEF NukeInv
<1>6. CASE cur' = cur
  <2>1. UNCHANGED srvVars
    BY <1>1, <1>6 DEF srvVars
  <2>2. CASE loc[p].op = "nuke"
    BY <1>1, <1>2, <1>3, <1>5, <2>1, <2>2, NukeStep
  <2>3. CASE loc[p].op # "nuke"
    <3>1. Active(p)
      BY <1>1, <2>3 DEF Active
    <3>2. QED BY <1>1, <1>2, <1>3, <1>4, <2>1, <3>1, QuietStep
  <2>4. QED BY <2>2, <2>3
<1>7. CASE cur' = 0
  <2>1. Shift
    BY <1>1, <1>7 DEF Shift, IInv, TypeOK, HistOK
  <2>2. SrvInv'
    BY <1>1, <1>7 DEF IInv, SrvInv, TypeOK, HistOK
  <2>3. loc'[p].seq < next'
    BY <1>1, <1>2, <1>3 DEF IInv, LockInv
  <2>4. QED BY <1>1, <1>2, <1>3, <1>4, <1>5, <2>1, <2>2, <2>3, ShiftStep
<1>8. QED BY <1>1, <1>6, <1>7

\* The server starts a transaction.
LEMMA Started ==
    ASSUME IInv, TypeOK', NEW k \in {"write", "delete"}, SrvStart(k)
    PROVE  Shift /\ SrvInv' /\ next' = next + 1 /\ next \in Nat /\ cur' = next
           /\ kind' = k /\ ckpt' = Absent /\ ver' = ver
<1>1. cur' = next /\ next' = next + 1 /\ kind' = k /\ ckpt' = Absent /\ ver' = ver
  BY DEF SrvStart
<1>2. next \in Nat /\ cur \in Nat /\ ver.seq \in Nat
  BY DEF IInv, TypeOK, HistOK, SrvOK, Entry
<1>3. Shift
  BY <1>1, <1>2 DEF Shift
<1>4. SrvInv'
  BY <1>1, <1>2 DEF IInv, SrvInv, Absent
<1>5. QED BY <1>1, <1>2, <1>3, <1>4

\* The answer to a start arrives.
LEMMA StartInv ==
    ASSUME IInv, RecoverAlone, TypeOK', NEW p \in Procs, Start(p)
    PROVE  IInv'
<1>1. pc[p] = "start" /\ UNCHANGED cacheVars
  BY DEF Start
<1>2. CASE Startable(p)
  <2> DEFINE r == [loc[p] EXCEPT !.seq = next]
  <2>1. SrvStart(KindOf(p)) /\ GotoWith(p, "open", r)
    BY <1>2 DEF Start
  <2>2. /\ r.op = loc[p].op /\ r.seq = next /\ r.stage = loc[p].stage
        /\ r.mark = loc[p].mark
    BY LocFacts DEF LocType, IInv, TypeOK
  <2>3. Goes(p) /\ pc'[p] = "open" /\ loc'[p] = r
    BY <2>1, <2>2, GotoWithGoes
  <2>4. /\ Shift /\ SrvInv' /\ next' = next + 1 /\ next \in Nat /\ next # 0
        /\ kind' = KindOf(p) /\ ckpt' = Absent /\ ver' = ver /\ cur' = next
    BY <2>1, Started DEF KindOf, IInv, SrvInv
  <2>5. /\ \A n \in Names : \A e \in disk[n] : e.seq \in Nat /\ e.seq < next
        /\ \A n \in Names : dir[n].seq \in Nat /\ dir[n].seq < next
        /\ ver.seq \in Nat /\ ver.seq < next
    BY DEF IInv, DiskInv, SrvInv, TypeOK, CacheOK, SrvOK, Entry
  <2>6. ProcInv(p)'
    <3> SUFFICES ASSUME Active(p) PROVE ProcInv(p)'
      BY <1>1, <2>2, <2>3 DEF ProcInv, Active
    <3>1. Synced({})' /\ dir' = dir
      BY <1>1, BeforeFacts DEF Synced, cacheVars
    <3>2. loc[p].op # "fsck" => dir["cseq"].seq = ver.seq
      BY <1>1, <1>2, BeforeFacts DEF Startable, Forced, TxnInv
    <3>3. KindOf(p)' = KindOf(p)
      BY <2>2, <2>3 DEF KindOf
    <3>4. \A n \in Names : dir'[n].seq # loc'[p].seq
      BY <2>2, <2>3, <2>4, <2>5, <3>1
    <3>5. ver'.seq # loc'[p].seq
      BY <2>2, <2>3, <2>4, <2>5
    <3>6. TxnInv(p)'
      BY ZenonT(40), <1>1, <2>2, <2>3, <2>4, <3>1, <3>2, <3>3, <3>4, <3>5, BeforeFacts
      DEF TxnInv, InWork, BeforeWork
    <3>7. QED
      BY <2>3, <3>6
      DEF ProcInv, MoveInv, CkptInv, CommitInv, InMove, InDoCkpt, InDoCommit
  <2>7. NukeInv(p)'
    <3> SUFFICES ASSUME loc[p].op = "nuke" PROVE NukeTxn(p)'
      BY <2>2, <2>3 DEF NukeInv
    <3>1. \A q \in Procs \ {p} : loc'[q].seq # next
      BY <2>3, <2>4, LocFacts DEF Goes, Bystander, IInv, LockInv, TypeOK
    <3>2. kind' = "delete"
      BY <2>4 DEF KindOf
    <3>3. \A n \in Names : \A e \in disk'[n] : e.seq # next
      BY <1>1, <2>4, <2>5 DEF cacheVars
    <3>4. QED BY <2>2, <2>3, <2>4, <3>1, <3>2, <3>3 DEF NukeTxn
  <2>8. loc'[p].seq < next'
    BY <2>2, <2>3, <2>4
  <2>9. QED BY <1>1, <2>2, <2>3, <2>4, <2>6, <2>7, <2>8, ShiftStep
<1>3. CASE ~Startable(p)
  BY <1>1, <1>3, ExitEnds, EndInv DEF Start
<1>4. QED BY <1>2, <1>3

\* The answer to a start does not arrive: nobody has that transaction.
LEMMA LostStartInv ==
    ASSUME IInv, TypeOK', NEW p \in Procs, pc[p] = "start", SrvStart(KindOf(p)),
           UNCHANGED <<cacheVars, procVars>>
    PROVE  IInv'
<1>1. Goes(p) /\ loc' = loc /\ pc' = pc
  BY DEF Goes, Bystander, procVars
<1>2. Shift /\ SrvInv' /\ ver' = ver /\ next' = next + 1 /\ next \in Nat
  BY Started DEF KindOf
<1>3. ProcInv(p)'
  <2> SUFFICES ASSUME Active(p) PROVE ProcInv(p)'
    BY <1>1 DEF ProcInv, Active
  <2>1. Synced({})' /\ dir' = dir
    BY BeforeFacts DEF Synced, cacheVars
  <2>2. TxnInv(p)'
    BY <1>1, <2>1, BeforeFacts DEF TxnInv, InWork, BeforeWork
  <2>3. QED
    BY <1>1, <2>2
    DEF ProcInv, MoveInv, CkptInv, CommitInv, InMove, InDoCkpt, InDoCommit
<1>4. NukeInv(p)'
  BY <1>1 DEF NukeInv
<1>5. loc'[p].seq < next'
  BY <1>1, <1>2, LocFacts DEF IInv, LockInv, TypeOK
<1>6. QED BY <1>1, <1>2, <1>3, <1>4, <1>5, ShiftStep

\* The request that is repeated is one of the five.
LEMMA LostReplyInv ==
    ASSUME IInv, RecoverAlone, TypeOK', NEW p \in Procs, LostReply(p)
    PROVE  IInv'
<1>1. UNCHANGED <<cacheVars, procVars>>
  BY DEF LostReply
<1>2. pc' = pc /\ loc' = loc /\ lock' = lock /\ (pc[p] # "idle" => Goes(p))
  BY <1>1 DEF procVars, Goes, Bystander
<1>3. CASE pc[p] = "remote" /\ loc[p].move = "ckpt"
  BY <1>1, <1>3, LostCheckpointInv DEF LostReply
<1>4. CASE pc[p] = "remote" /\ loc[p].move = "commit"
  BY <1>1, <1>2, <1>4, CommitMade DEF LostReply
<1>5. CASE pc[p] = "isck_commit"
  BY <1>1, <1>2, <1>5, IsCkMade DEF LostReply
<1>6. CASE pc[p] = "nk_commit"
  BY <1>1, <1>2, <1>6, NukeMade DEF LostReply
<1>7. CASE pc[p] = "start"
  BY <1>1, <1>7, LostStartInv DEF LostReply
<1>8. QED BY <1>3, <1>4, <1>5, <1>6, <1>7 DEF LostReply

(***************************************************************************)
(* The work of a transaction.                                              *)
(***************************************************************************)

\* The chunk directory is read, and what it says is what the server has.
LEMMA OpenInv ==
    ASSUME IInv, RecoverAlone, TypeOK', NEW p \in Procs, Open(p)
    PROVE  IInv'
<1> DEFINE l == CASE loc[p].op = "write" -> "work"
                  [] loc[p].op = "fsck" -> "wr_open"
                  [] OTHER -> "flush"
           r == [loc[p] EXCEPT !.stage = "work",
                               !.ck = IF loc[p].op = "write" THEN 0 ELSE 1,
                               !.good = Forced(p) \/ dir["directory"] = ver]
<1>1. pc[p] = "open" /\ UNCHANGED <<cacheVars, srvVars, next>>
  BY DEF Open, histVars
<1>2. /\ r.op = loc[p].op /\ r.seq = loc[p].seq /\ r.stage = "work"
      /\ r.ck = IF loc[p].op = "write" THEN 0 ELSE 1
      /\ r.good = (Forced(p) \/ dir["directory"] = ver)
  BY LocFacts DEF LocType, IInv, TypeOK
<1>3. GotoWith(p, l, r) /\ l # "idle"
  BY DEF Open
<1> HIDE DEF l, r
<1>4. Goes(p) /\ pc'[p] = l /\ loc'[p] = r
  BY <1>2, <1>3, GotoWithGoes
<1>5. CASE loc[p].op = "nuke"
  <2>1. l = "flush"
    BY <1>5 DEF l
  <2>2. NukeTxn(p)
    BY <1>1, <1>5 DEF IInv, NukeInv
  <2>3. NukeTxn(p)'
    BY <1>1, <1>2, <1>4, <2>1, <2>2 DEF NukeTxn, Goes, Bystander, cacheVars, srvVars
  <2>4. NukeInv(p)'
    BY <1>4, <2>1, <2>3 DEF NukeInv
  <2>5. QED BY <1>1, <1>2, <1>4, <1>5, <2>4, NukeStep
<1>6. CASE loc[p].op # "nuke"
  <2>1. Active(p)
    BY <1>1, <1>6 DEF Active
  <2>2. Synced({})' /\ dir' = dir /\ disk' = disk
    BY <1>1, <2>1, BeforeFacts DEF Synced, cacheVars
  <2>3. /\ loc[p].seq # 0
        /\ \A n \in Names : dir[n].seq # loc[p].seq
        /\ ver.seq # loc[p].seq
        /\ cur = loc[p].seq => kind = KindOf(p) /\ ckpt = Absent
        /\ cur = loc[p].seq /\ loc[p].op # "fsck" => dir["cseq"].seq = ver.seq
    BY <1>1, <2>1, BeforeFacts DEF TxnInv
  <2>4. dir["cseq"].seq = ver.seq => dir["directory"] = ver
    BY <1>1, <2>1, BeforeFacts DEF Good, GoodSync, Pending
  <2>5. dir["directory.tmp"] # Absent => dir["directory.tmp"] # dir["directory"]
    BY <1>1, <2>1, BeforeFacts DEF Good, GoodAlias, Pending
  <2>6. cur = loc[p].seq => r.good
    BY <1>2, <2>3, <2>4 DEF Forced
  <2>7. dir["commit_m"] = Absent /\ dir["ckpt_m"] = Absent
    BY <1>1, <2>1, BeforeFacts
  <2>8. InTxn(p)'
    <3>1. KindOf(p)' = KindOf(p)
      BY <1>2, <1>4 DEF KindOf
    <3>2. ckpt = Absent => ckpt.ck = 0
      BY DEF Absent
    <3>3. QED
      BY <1>1, <1>2, <1>4, <2>2, <2>3, <2>4, <2>5, <2>6, <2>7, <3>1, <3>2
      DEF InTxn, srvVars
  <2>9. loc[p].op \in {"write", "fsck", "delete"}
    BY <1>1, <2>1, BeforeFacts, ConstAssumption DEF IInv, LockInv, AllOps
  <2>10. TxnInv(p)'
    <3>1. CASE loc[p].op = "write"
      BY <1>2, <1>4, <2>2, <2>7, <2>8, <3>1 DEF l, TxnInv, InWork, BeforeWork
    <3>2. CASE loc[p].op # "write"
      BY <1>2, <1>4, <2>2, <2>3, <2>7, <2>8, <2>9, <3>2
      DEF l, TxnInv, NewCkpt, InWork, BeforeWork
    <3>3. QED BY <3>1, <3>2
  <2>11. ProcInv(p)'
    BY <1>4, <2>10
    DEF l, ProcInv, MoveInv, CkptInv, CommitInv, InMove, InDoCkpt, InDoCommit
  <2>12. QED BY <1>1, <1>2, <1>4, <2>1, <2>11, QuietStep
<1>7. QED BY <1>5, <1>6

\* An archive grows to its next checkpoint.
LEMMA WorkInv ==
    ASSUME IInv, RecoverAlone, TypeOK', NEW p \in Procs, Work(p)
    PROVE  IInv'
<1>1. Known(p) /\ Active(p) /\ pc[p] = "work" /\ UNCHANGED <<cacheVars, srvVars, next>>
  BY ActiveAt DEF Work, histVars, Known
<1>2. /\ InTxn(p) /\ loc[p].op = "write" /\ loc[p].stage = "work"
      /\ dir["ckpt_m"] = Absent /\ Synced({})
  BY <1>1 DEF Known, TxnInv, InWork, BeforeWork
<1>3. PICK s \in {"work", "close"} :
          GotoWith(p, "flush", [loc[p] EXCEPT !.stage = s, !.ck = @ + 1])
  BY DEF Work
<1> DEFINE r == [loc[p] EXCEPT !.stage = s, !.ck = @ + 1]
<1>4. /\ r.op = loc[p].op /\ r.seq = loc[p].seq /\ r.stage = s
      /\ r.ck = loc[p].ck + 1 /\ r.good = loc[p].good /\ loc[p].ck \in Nat
  BY LocFacts DEF LocType, IInv, TypeOK
<1>5. Goes(p) /\ pc'[p] = "flush" /\ loc'[p] = r
  BY <1>3, <1>4, GotoWithGoes
<1>6. dir' = dir /\ Synced({})' /\ ckpt.ck \in Nat
      /\ \A n \in Names : dir[n].ck \in Nat
  BY <1>1, <1>2 DEF Synced, cacheVars, IInv, TypeOK, SrvOK, CacheOK, Entry
<1>7. InTxn(p)'
  BY <1>1, <1>2, <1>4, <1>5, <1>6 DEF InTxn, KindOf, srvVars
<1>8. NewCkpt(p)'
  BY <1>1, <1>2, <1>4, <1>5, <1>6 DEF InTxn, NewCkpt, srvVars
<1>9. TxnInv(p)'
  BY <1>2, <1>4, <1>5, <1>6, <1>7, <1>8 DEF TxnInv, InWork, BeforeWork
<1>10. ProcInv(p)'
  BY <1>5, <1>9
  DEF ProcInv, MoveInv, CkptInv, CommitInv, InMove, InDoCkpt, InDoCommit
<1>11. QED BY <1>1, <1>4, <1>5, <1>10, QuietStep

\* More files are on the server.
LEMMA GoodWork ==
    ASSUME IInv, NEW d, Good(d), work' = TRUE, UNCHANGED <<ver, cur, kind, ckpt>>
    PROVE  Good(d)'
<1>1. GoodSeqs(d)' /\ GoodSync(d)' /\ GoodAlias(d)'
  BY DEF Good, GoodSeqs, GoodSync, GoodAlias
<1>2. GoodCkpt(d)'
  BY DEF Good, GoodCkpt
<1>3. Outcome.whole => Outcome' = Outcome
  <2>1. CASE kind = "write"
    BY <2>1 DEF Outcome
  <2>2. CASE kind # "write"
    <3>1. Outcome = [seq |-> cur, ck |-> 1, whole |-> work]
      BY <2>2 DEF Outcome
    <3>2. Outcome.whole = work
      BY <3>1
    <3>3. Outcome' = [seq |-> cur, ck |-> 1, whole |-> TRUE]
      BY <2>2 DEF Outcome
    <3>4. Outcome.whole => work = TRUE
      BY <3>2, ZenonT(20) DEF IInv, TypeOK, SrvOK
    <3>5. QED BY <3>1, <3>3, <3>4
  <2>3. QED BY <2>1, <2>2
<1>4. GoodCommit(d)'
  BY <1>3 DEF Good, GoodCommit, ToInstall
<1>5. QED BY <1>1, <1>2, <1>4 DEF Good

\* That does not concern the other processes.
LEMMA ProcWork ==
    ASSUME IInv, NEW q \in Procs, Bystander(q), work' = TRUE,
           UNCHANGED <<cacheVars, ver, cur, kind, ckpt, next>>
    PROVE  ProcInv(q)'
<1> SUFFICES ASSUME Active(q)
             PROVE  MoveInv(q)' /\ CkptInv(q)' /\ CommitInv(q)' /\ TxnInv(q)'
  BY DEF ProcInv, Active, Bystander
<1>1. MoveInv(q) /\ CkptInv(q) /\ CommitInv(q) /\ TxnInv(q)
  BY DEF IInv, ProcInv
<1>2. \A S : Synced(S) <=> Synced(S)'
  BY DEF Synced, cacheVars
<1>3. MoveInv(q)'
  BY <1>1, <1>2 DEF MoveInv, Bystander, cacheVars, OldName, NewName
<1>4. CkptInv(q)' /\ CommitInv(q)'
  BY <1>1, <1>2 DEF CkptInv, CommitInv, Bystander, cacheVars
<1>5. InTxn(q) <=> InTxn(q)'
  BY DEF InTxn, Bystander, cacheVars, KindOf
<1>6. NewCkpt(q) <=> NewCkpt(q)'
  BY DEF NewCkpt, Bystander, cacheVars
<1>7. KindOf(q)' = KindOf(q) /\ WrittenFile(q)' = WrittenFile(q) /\ Torn(q)' = Torn(q)
  BY DEF Bystander, KindOf, WrittenFile, Torn
<1>8. TxnInv(q)'
  BY <1>1, <1>2, <1>5, <1>6, <1>7 DEF TxnInv, Bystander, cacheVars
<1>9. QED BY <1>3, <1>4, <1>8

\* An active process has all it asked for done.
LEMMA FlushedProc ==
    ASSUME IInv, TypeOK', NEW p \in Procs, pc[p] = "flush", Active(p), AfterFlush(p),
           work' \/ cur # loc[p].seq, cur = loc[p].seq \/ loc[p].op = "fsck",
           UNCHANGED <<cacheVars, ver, cur, kind, ckpt>>
    PROVE  ProcInv(p)'
<1> DEFINE l == IF loc[p].op = "fsck" THEN "mark" ELSE "wr_open"
<1>1. /\ InTxn(p) /\ NewCkpt(p) /\ Synced({}) /\ dir["ckpt_m"] = Absent
      /\ loc[p].stage \in {"work", "close"}
      /\ loc[p].op = "delete" => dir["directory.tmp"].seq # loc[p].seq
      /\ loc[p].op = "fsck" => dir[WrittenFile(p)] = [Torn(p) EXCEPT !.whole = loc[p].good]
  BY DEF IInv, ProcInv, TxnInv, InWork, BeforeWork
<1>2. Goes(p) /\ pc'[p] = l /\ loc'[p] = loc[p]
  BY GotoGoes DEF AfterFlush, Active
<1>3. Synced({})' /\ dir' = dir
  BY <1>1 DEF Synced, cacheVars
<1>4. InTxn(p)' /\ NewCkpt(p)'
  BY <1>1, <1>2, <1>3 DEF InTxn, NewCkpt, KindOf
<1>5. WrittenFile(p)' = WrittenFile(p) /\ Torn(p)' = Torn(p)
  BY <1>2 DEF WrittenFile, Torn
<1>6. TxnInv(p)'
  BY <1>1, <1>2, <1>3, <1>4, <1>5 DEF TxnInv, InWork, BeforeWork
<1>7. QED
  BY <1>2, <1>6
  DEF ProcInv, MoveInv, CkptInv, CommitInv, InMove, InDoCkpt, InDoCommit

\* All requests of the transaction have been answered.
LEMMA FlushInv ==
    ASSUME IInv, RecoverAlone, TypeOK', NEW p \in Procs, Flush(p)
    PROVE  IInv'
<1>1. pc[p] = "flush" /\ UNCHANGED <<cacheVars, ver, cur, kind, ckpt, next>>
  BY DEF Flush, histVars
<1>2. CASE Exit(p, "fail") /\ UNCHANGED work
  <2>1. UNCHANGED srvVars
    BY <1>1, <1>2 DEF srvVars
  <2>2. QED BY <1>1, <1>2, <2>1, ExitEnds, EndInv
<1>3. ASSUME AfterFlush(p), work' = TRUE \/ UNCHANGED work,
             cur = loc[p].seq => work' = TRUE,
             cur # loc[p].seq => loc[p].op \in {"fsck", "nuke"}
      PROVE  IInv'
  <2> DEFINE l == CASE loc[p].op = "nuke" -> "nk_commit"
                    [] loc[p].op = "fsck" -> "mark"
                    [] OTHER -> "wr_open"
  <2>1. Goes(p) /\ pc'[p] = l /\ loc'[p] = loc[p]
    BY <1>3, GotoGoes DEF AfterFlush
  <2>2. SrvInv' /\ CacheInv' /\ DiskInv'
    <3>1. CASE UNCHANGED work
      <4>1. UNCHANGED srvVars
        BY <1>1, <3>1 DEF srvVars
      <4>2. QED BY <1>1, <4>1, CacheSame
    <3>2. CASE work' = TRUE
      <4>1. \A d : Good(d) => Good(d)'
        BY <1>1, <3>2, GoodWork
      <4>2. CacheInv'
        BY <1>1, <4>1 DEF IInv, CacheInv, cacheVars
      <4>3. QED BY <1>1, <4>2 DEF IInv, SrvInv, DiskInv, cacheVars
    <3>3. QED BY <1>3, <3>1, <3>2
  <2>3. ASSUME NEW q \in Procs \ {p} PROVE ProcInv(q)' /\ NukeInv(q)'
    <3>1. Bystander(q) /\ OthersApart(q)
      BY <2>1 DEF Goes, Bystander, OthersApart
    <3>2. work => work'
      <4>1. CASE work' = TRUE
        BY <4>1, Zenon
      <4>2. CASE UNCHANGED work
        BY <4>2, Zenon
      <4>3. QED BY <1>3, <4>1, <4>2
    <3>3. NukeInv(q)'
      BY <1>1, <3>1, <3>2, NukeQuiet DEF cacheVars
    <3>4. CASE UNCHANGED work
      <4>1. UNCHANGED srvVars
        BY <1>1, <3>4 DEF srvVars
      <4>2. QED BY <1>1, <3>1, <3>3, <4>1, ProcSame
    <3>5. CASE work' = TRUE
      BY <1>1, <3>1, <3>3, <3>5, ProcWork
    <3>6. QED BY <1>3, <3>4, <3>5
  <2>4. loc'[p].seq < next' /\ next <= next'
    BY <1>1, <2>1 DEF IInv, LockInv, TypeOK, HistOK
  <2>5. NukeInv(p)'
    <3> SUFFICES ASSUME loc[p].op = "nuke" PROVE NukeTxn(p)'
      BY <2>1 DEF NukeInv
    <3>1. NukeTxn(p)
      BY <1>1 DEF IInv, NukeInv
    <3>2. cur = loc[p].seq => work'
      BY <1>3
    <3>3. QED BY <1>1, <2>1, <3>1, <3>2 DEF NukeTxn, Goes, Bystander, cacheVars
  <2>6. ProcInv(p)'
    <3> SUFFICES ASSUME Active(p) PROVE ProcInv(p)'
      BY <1>1, <2>1 DEF ProcInv, Active
    <3>1. loc[p].op # "nuke"
      BY DEF Active
    <3>2. QED BY <1>1, <1>3, <3>1, FlushedProc
  <2>7. QED BY <1>1, <2>1, <2>2, <2>3, <2>4, <2>5, <2>6, AnyStep
<1>4. CASE cur = loc[p].seq
  <2>1. AfterFlush(p) /\ work' = TRUE
    BY <1>4 DEF Flush
  <2>2. QED BY <1>3, <1>4, <2>1
<1>5. CASE cur # loc[p].seq
  <2>1. \/ Exit(p, "fail") /\ UNCHANGED work
        \/ AfterFlush(p) /\ UNCHANGED work /\ loc[p].op \in {"fsck", "nuke"}
    BY <1>5 DEF Flush
  <2>2. QED BY <1>2, <1>3, <1>5, <2>1
<1>6. QED BY <1>4, <1>5

(***************************************************************************)
(* chunks_directory_write.                                                 *)
(***************************************************************************)

\* A file of the transaction in place of the one it writes.
LEMMA GoodWrite ==
    ASSUME IInv, NEW p \in Procs, pc[p] \in {"wr_open", "wr_close"}, Known(p),
           NEW f \in Names, f = WrittenFile(p), NEW e \in Entry,
           e.seq = loc[p].seq, e.ck = loc[p].ck
    PROVE  Good([dir EXCEPT ![f] = e])
<1>1. /\ InTxn(p) /\ NewCkpt(p) /\ dir["ckpt_m"] = Absent /\ Good(dir)
      /\ dir \in [Names -> Entry]
  BY DEF Known, TxnInv, InWork, BeforeWork, IInv, TypeOK, CacheOK
<1>2. Absent.seq = 0 /\ loc[p].seq # 0
  BY <1>1 DEF InTxn, Absent
<1>3. CASE loc[p].op = "write"
  <2>1. f = "directory.ckpt"
    BY <1>3 DEF WrittenFile
  <2>2. dir["directory.tmp"] # e /\ dir["directory"] # e
    BY <1>1, <1>3, LocFacts DEF InTxn, NewCkpt, IInv, TypeOK
  <2>3. QED
    BY <1>1, <2>1, <2>2
    DEF Good, GoodSeqs, GoodSync, GoodCommit, GoodCkpt, GoodAlias, Pending, ToInstall
<1>4. CASE loc[p].op # "write"
  <2>1. f = "directory.tmp"
    BY <1>4 DEF WrittenFile
  <2>2. /\ dir["directory.ckpt"] # e /\ dir["directory"] # e
        /\ dir["commit_m"] = Absent
    BY <1>1, <1>4 DEF InTxn
  <2>3. QED
    BY <1>1, <2>1, <2>2
    DEF Good, GoodSeqs, GoodSync, GoodCommit, GoodCkpt, GoodAlias, Pending, ToInstall
<1>5. QED BY <1>3, <1>4

\* A transaction goes on while its file is written.
LEMMA InTxnWrite ==
    ASSUME IInv, NEW p \in Procs, InTxn(p), NewCkpt(p), NEW f \in Names, f = WrittenFile(p),
           dir["ckpt_m"] = Absent,
           NEW e \in Entry, e.seq = loc[p].seq, e.ck = loc[p].ck,
           loc'[p] = loc[p], UNCHANGED srvVars, dir' = [dir EXCEPT ![f] = e]
    PROVE  InTxn(p)' /\ NewCkpt(p)'
<1>1. /\ dir'[f] = e /\ \A n \in Names \ {f} : dir'[n] = dir[n]
      /\ loc[p].ck \in Nat /\ f \in {"directory.tmp", "directory.ckpt"}
  BY LocFacts DEF IInv, TypeOK, CacheOK, WrittenFile
<1>2. CASE loc[p].op = "write"
  <2>1. f = "directory.ckpt"
    BY <1>2 DEF WrittenFile
  <2>2. QED BY <1>1, <1>2, <2>1 DEF InTxn, NewCkpt, KindOf, srvVars
<1>3. CASE loc[p].op # "write"
  <2>1. f = "directory.tmp"
    BY <1>3 DEF WrittenFile
  <2>2. QED BY <1>1, <1>3, <2>1 DEF InTxn, NewCkpt, KindOf, srvVars
<1>4. QED BY <1>2, <1>3

\* What is known while a chunk directory is written.
LEMMA WrFacts ==
    ASSUME IInv, NEW p \in Procs, pc[p] \in {"wr_open", "wr_close"}
    PROVE  /\ Known(p) /\ Active(p) /\ InTxn(p) /\ NewCkpt(p) /\ dir["ckpt_m"] = Absent
           /\ loc[p].stage \in {"work", "close"}
           /\ pc[p] = "wr_open" => Synced({})
           /\ loc[p].op # "fsck" /\ cur = loc[p].seq => work
           /\ WrittenFile(p) \in Files /\ Torn(p) \in Entry
           /\ [Torn(p) EXCEPT !.whole = loc[p].good] \in Entry
<1>1. Known(p)
  BY ActiveAt
<1>2. loc[p] \in LocType
  BY LocFacts DEF IInv, TypeOK
<1>3. WrittenFile(p) \in Files /\ Torn(p) \in Entry
      /\ [Torn(p) EXCEPT !.whole = loc[p].good] \in Entry
  BY <1>2 DEF WrittenFile, Torn, Entry, LocType
<1>4. QED BY <1>1, <1>3 DEF Known, TxnInv, InWork, BeforeWork

\* The file is opened, which truncates it: no other name sees that.
LEMMA WrOpenInv ==
    ASSUME IInv, RecoverAlone, TypeOK', NEW p \in Procs, WrOpen(p)
    PROVE  IInv'
<1>1. pc[p] = "wr_open" /\ UNCHANGED <<srvVars, next>> /\ Goto(p, "wr_close")
      /\ Truncate(WrittenFile(p), Torn(p))
  BY DEF WrOpen, histVars
<1>2. /\ Known(p) /\ Active(p) /\ InTxn(p) /\ NewCkpt(p) /\ dir["ckpt_m"] = Absent
      /\ loc[p].stage \in {"work", "close"} /\ Synced({})
      /\ loc[p].op # "fsck" /\ cur = loc[p].seq => work
  BY <1>1, WrFacts
<1>3. PICK f \in Files, e \in Entry : f = WrittenFile(p) /\ e = Torn(p)
  BY <1>1, WrFacts
<1>4. e.seq = loc[p].seq /\ e.ck = loc[p].ck
  BY <1>3 DEF Torn
<1>5. Goes(p) /\ pc'[p] = "wr_close" /\ loc'[p] = loc[p]
  BY <1>1, GotoGoes
<1>6. \A n \in Files \ {f} : dir[f] = Absent \/ dir[n] # dir[f]
  <2>1. CASE loc[p].op = "write"
    BY <1>2, <1>3, <2>1 DEF WrittenFile, Known, Good, GoodAlias, Pending
  <2>2. CASE loc[p].op # "write"
    BY <1>2, <1>3, <2>2 DEF WrittenFile, Known, Good, GoodAlias, Pending, InTxn
  <2>3. QED BY <2>1, <2>2
<1>7. /\ dir' = [dir EXCEPT ![f] = e]
      /\ \A n \in Names \ {f} : disk'[n] = {dir[n]}
      /\ disk'[f] = {e} \/ (dir[f] = Absent /\ disk'[f] = {Absent, e})
  <2>1. \A n \in Files \ {f} : (IF dir[f] # Absent /\ dir[n] = dir[f] THEN e ELSE dir[n]) = dir[n]
    BY <1>6
  <2>2. \A n \in Names : disk[n] = {dir[n]}
    BY <1>2 DEF Synced
  <2>3. \A n \in Names : dir'[n] = [dir EXCEPT ![f] = e][n]
    BY <1>1, <1>3, <2>1 DEF Truncate, IInv, TypeOK, CacheOK
  <2>4. dir' \in [Names -> Entry] /\ [dir EXCEPT ![f] = e] \in [Names -> Entry]
    BY DEF IInv, TypeOK, CacheOK
  <2>5. dir' = [dir EXCEPT ![f] = e]
    BY <2>3, <2>4
  <2>6. \A n \in Names \ {f} : disk'[n] = {dir[n]}
    BY <1>1, <1>3, <2>1, <2>2 DEF Truncate
  <2>7. disk'[f] = {e} \/ (dir[f] = Absent /\ disk'[f] = {Absent, e})
    BY <1>1, <1>3, <2>2 DEF Truncate
  <2>8. QED BY <2>5, <2>6, <2>7
<1>8. dir'[f] = e /\ \A n \in Names \ {f} : dir'[n] = dir[n]
  BY <1>7 DEF IInv, TypeOK, CacheOK
<1>9. Good(dir)'
  <2>1. Good(dir')
    BY <1>1, <1>2, <1>3, <1>4, <1>7, GoodWrite
  <2>2. QED BY <1>1, <2>1, GoodSame
<1>10. DiskInv'
  <2>1. Absent.seq = 0
    BY DEF Absent
  <2>2. e.seq < next' /\ 0 < next'
    BY <1>1, <1>4 DEF IInv, LockInv, SrvInv, TypeOK, HistOK
  <2>3. \A n \in Names : dir'[n] \in disk'[n]
    BY <1>7, <1>8
  <2>4. ASSUME NEW n \in Names, NEW x \in disk'[n] PROVE x.seq < next'
    <3>1. x = e \/ x = Absent \/ x = dir[n]
      BY <1>7
    <3>2. QED BY <1>1, <2>1, <2>2, <3>1 DEF IInv, DiskInv
  <2>5. QED BY <2>3, <2>4 DEF DiskInv
<1>11. CacheInv'
  <2>1. ASSUME NEW c \in disk'["cseq"], NEW m \in disk'["commit_m"],
               NEW x \in disk'["ckpt_m"], NEW d \in disk'["directory"],
               NEW t \in disk'["directory.tmp"], NEW k \in disk'["directory.ckpt"]
        PROVE  Good(Contents(c, m, x, d, t, k))'
    <3> DEFINE w == Contents(c, m, x, d, t, k)
    <3>1. w \in [Names -> Entry] /\ dir \in [Names -> Entry] /\ dir' \in [Names -> Entry]
      BY DEF Contents, IInv, TypeOK, CacheOK
    <3>2. \A n \in Names \ {f} : w[n] = dir[n] /\ w[n] = dir'[n]
      BY <1>7, <1>8 DEF Contents
    <3>3. w[f] \in disk'[f]
      BY DEF Contents
    <3>4. w[f] = dir'[f] \/ w[f] = dir[f]
      BY <1>7, <1>8, <3>3
    <3>5. w = dir' \/ w = dir
      BY <3>1, <3>2, <3>4
    <3>6. Good(w)
      BY <1>1, <1>2, <1>9, <3>5, GoodSame DEF Known
    <3>7. QED BY <1>1, <3>6, GoodSame
  <2>2. QED BY <1>9, <2>1 DEF CacheInv
<1>12. ProcInv(p)'
  <2>1. InTxn(p)' /\ NewCkpt(p)'
    BY <1>1, <1>2, <1>3, <1>4, <1>5, <1>7, InTxnWrite
  <2>2. WrittenFile(p)' = f /\ Torn(p)' = e
    BY <1>3, <1>5 DEF WrittenFile, Torn
  <2>3. Synced({f})'
    BY <1>7, <1>8 DEF Synced
  <2>4. dir'["ckpt_m"] = Absent
    BY <1>2, <1>8
  <2>5. TxnInv(p)'
    BY <1>1, <1>2, <1>5, <1>8, <2>1, <2>2, <2>3, <2>4
    DEF TxnInv, InWork, BeforeWork, srvVars
  <2>6. QED
    BY <1>5, <2>5
    DEF ProcInv, MoveInv, CkptInv, CommitInv, InMove, InDoCkpt, InDoCommit
<1>13. \A n \in Names : \A x \in disk'[n] :
          x.seq = 0 \/ x.seq = loc[p].seq \/ (\E m \in Names : \E y \in disk[m] : x.seq = y.seq)
  <2>1. ASSUME NEW n \in Names, NEW x \in disk'[n]
        PROVE  x = e \/ x = Absent \/ x \in disk[n]
    BY <1>7 DEF IInv, DiskInv
  <2>2. Absent.seq = 0
    BY DEF Absent
  <2>3. QED BY <1>4, <2>1, <2>2
<1>14. QED BY <1>1, <1>2, <1>5, <1>10, <1>11, <1>12, <1>13, CacheStep

\* The file is complete and synced.
LEMMA WrCloseInv ==
    ASSUME IInv, RecoverAlone, TypeOK', NEW p \in Procs, WrClose(p)
    PROVE  IInv'
<1>1. pc[p] = "wr_close" /\ UNCHANGED <<srvVars, next>>
      /\ Finish(Torn(p), [Torn(p) EXCEPT !.whole = loc[p].good])
      /\ Goto(p, IF loc[p].op = "fsck" THEN "flush" ELSE "mark")
  BY DEF WrClose, histVars
<1>2. /\ Known(p) /\ Active(p) /\ InTxn(p) /\ NewCkpt(p) /\ dir["ckpt_m"] = Absent
      /\ loc[p].stage \in {"work", "close"}
      /\ loc[p].op # "fsck" /\ cur = loc[p].seq => work
  BY <1>1, WrFacts
<1>3. PICK f \in Files, e \in Entry :
          f = WrittenFile(p) /\ e = [Torn(p) EXCEPT !.whole = loc[p].good]
  BY <1>1, WrFacts
<1>4. e.seq = loc[p].seq /\ e.ck = loc[p].ck /\ Torn(p).seq = loc[p].seq
      /\ Torn(p).ck = loc[p].ck
  BY <1>3 DEF Torn
<1>5. Goes(p) /\ pc'[p] = (IF loc[p].op = "fsck" THEN "flush" ELSE "mark") /\ loc'[p] = loc[p]
  BY <1>1, GotoGoes
<1>6. dir[f] = Torn(p) /\ \A n \in Files \ {f} : dir[n] # Torn(p)
  <2>1. dir[f] = Torn(p)
    BY <1>1, <1>2, <1>3 DEF Known, TxnInv
  <2>2. CASE loc[p].op = "write"
    BY <1>2, <1>3, <1>4, <2>1, <2>2, LocFacts DEF WrittenFile, InTxn, NewCkpt, IInv, TypeOK
  <2>3. CASE loc[p].op # "write"
    BY <1>2, <1>3, <1>4, <2>1, <2>3 DEF WrittenFile, InTxn
  <2>4. QED BY <2>1, <2>2, <2>3
<1>7. dir' = [dir EXCEPT ![f] = e] /\ \A n \in Names : disk'[n] = {dir'[n]}
  <2>1. dir' = [n \in Names |-> IF n \in Files /\ dir[n] = Torn(p) THEN e ELSE dir[n]]
        /\ disk' = [n \in Names |-> {dir'[n]}]
    BY <1>1, <1>3 DEF Finish
  <2>2. \A n \in Names : dir'[n] = [dir EXCEPT ![f] = e][n]
    BY <1>6, <2>1 DEF IInv, TypeOK, CacheOK
  <2>3. dir' \in [Names -> Entry] /\ [dir EXCEPT ![f] = e] \in [Names -> Entry]
    BY DEF IInv, TypeOK, CacheOK
  <2>4. QED BY <2>1, <2>2, <2>3
<1>8. dir'[f] = e /\ \A n \in Names \ {f} : dir'[n] = dir[n]
  BY <1>7 DEF IInv, TypeOK, CacheOK
<1>9. Good(dir)'
  <2>1. Good(dir')
    BY <1>1, <1>2, <1>3, <1>4, <1>7, GoodWrite
  <2>2. QED BY <1>1, <2>1, GoodSame
<1>10. CacheInv' /\ DiskInv' /\ Synced({})'
  <2>1. \A n \in Names : dir'[n].seq < next'
    BY <1>1, <1>4, <1>8 DEF IInv, LockInv, DiskInv
  <2>2. QED BY <1>7, <1>9, <2>1, SyncedCache
<1>11. ProcInv(p)'
  <2>1. InTxn(p)' /\ NewCkpt(p)'
    BY <1>1, <1>2, <1>3, <1>4, <1>5, <1>7, InTxnWrite
  <2>2. WrittenFile(p)' = f /\ [Torn(p) EXCEPT !.whole = loc[p].good]' = e
    BY <1>3, <1>5 DEF WrittenFile, Torn
  <2>3. dir'["ckpt_m"] = Absent
    BY <1>2, <1>8
  <2>4. TxnInv(p)'
    BY <1>1, <1>2, <1>5, <1>8, <1>10, <2>1, <2>2, <2>3
    DEF TxnInv, InWork, BeforeWork, srvVars
  <2>5. QED
    BY <1>5, <2>4
    DEF ProcInv, MoveInv, CkptInv, CommitInv, InMove, InDoCkpt, InDoCommit
<1>12. \A n \in Names : \A x \in disk'[n] :
          x.seq = 0 \/ x.seq = loc[p].seq \/ (\E m \in Names : \E y \in disk[m] : x.seq = y.seq)
  BY <1>4, <1>7, <1>8 DEF IInv, DiskInv
<1>13. QED BY <1>1, <1>2, <1>5, <1>10, <1>11, <1>12, CacheStep

(***************************************************************************)
(* multitape_checkpoint and multitape_commit.                              *)
(***************************************************************************)

\* What is known before the marker is made.
LEMMA MarkFacts ==
    ASSUME IInv, NEW p \in Procs, pc[p] = "mark"
    PROVE  /\ Known(p) /\ Active(p) /\ InTxn(p) /\ NewCkpt(p) /\ dir["ckpt_m"] = Absent
           /\ loc[p].stage \in {"work", "close"} /\ Synced({})
           /\ dir[WrittenFile(p)].seq = loc[p].seq /\ dir[WrittenFile(p)].ck = loc[p].ck
           /\ dir[WrittenFile(p)].whole = loc[p].good
           /\ dir[WrittenFile(p)] = [seq |-> loc[p].seq, ck |-> loc[p].ck, whole |-> loc[p].good]
           /\ cur = loc[p].seq => work
           /\ loc[p].seq # 0 /\ loc[p].seq \in Nat /\ loc[p].ck \in Nat
           /\ Good(dir) /\ dir \in [Names -> Entry]
<1>1. Known(p)
  BY ActiveAt
<1>2. dir[WrittenFile(p)] = [Torn(p) EXCEPT !.whole = loc[p].good]
  BY <1>1 DEF Known, TxnInv
<1>3. dir[WrittenFile(p)] = [seq |-> loc[p].seq, ck |-> loc[p].ck, whole |-> loc[p].good]
  BY <1>2 DEF Torn
<1>4. InTxn(p) /\ NewCkpt(p) /\ dir["ckpt_m"] = Absent /\ Synced({})
      /\ loc[p].stage \in {"work", "close"} /\ (cur = loc[p].seq => work)
  BY <1>1 DEF Known, TxnInv, InWork, BeforeWork
<1>5. QED BY <1>1, <1>3, <1>4, LocFacts DEF Known, InTxn, IInv, TypeOK, CacheOK

\* The marker that makes the checkpoint or commit pending.
LEMMA MarkInv ==
    ASSUME IInv, RecoverAlone, TypeOK', NEW p \in Procs, Mark(p)
    PROVE  IInv'
<1>1. pc[p] = "mark" /\ UNCHANGED <<srvVars, next>>
  BY DEF Mark, histVars
<1>2. Absent.seq = 0
  BY DEF Absent
<1>3. CASE loc[p].op = "write"
  <2>1. PICK e \in Entry : e = Link(loc[p].seq, loc[p].ck)
    BY <1>1, MarkFacts, EntryFacts
  <2>2. e.seq = loc[p].seq /\ e.ck = loc[p].ck
    BY <2>1 DEF Link
  <2>3. Alter(disk, "ckpt_m", e) /\ Goto(p, "dk_read")
    BY <1>1, <1>3, <2>1, MarkFacts DEF Mark
  <2>4. Goes(p) /\ pc'[p] = "dk_read" /\ loc'[p] = loc[p]
    BY <2>3, GotoGoes
  <2>5. dir'["ckpt_m"] = e /\ \A n \in Names \ {"ckpt_m"} : dir'[n] = dir[n]
    BY <2>3 DEF Alter, IInv, TypeOK, CacheOK
  <2>6. Good(dir)'
    <3>1. dir["directory.ckpt"] = [seq |-> loc[p].seq, ck |-> loc[p].ck, whole |-> loc[p].good]
      BY <1>1, <1>3, MarkFacts DEF WrittenFile
    <3>2. dir["directory.ckpt"] # Absent
      BY <1>1, <1>2, <3>1, MarkFacts
    <3>3. cur = loc[p].seq => dir["directory.ckpt"] = e
      <4>1. cur = loc[p].seq => loc[p].good = TRUE
        BY <1>1, MarkFacts, ZenonT(20) DEF InTxn, IInv, TypeOK, ProcOK, LocType
      <4>2. QED BY <2>1, <3>1, <4>1 DEF Link
    <3>4. cur = loc[p].seq => ckpt.ck # e.ck /\ work /\ kind = "write"
      <4>1. cur = loc[p].seq => kind = "write"
        BY <1>1, <1>3, MarkFacts DEF InTxn, KindOf
      <4>2. cur = loc[p].seq => ckpt.ck < loc[p].ck
        BY <1>1, <1>3, MarkFacts DEF NewCkpt
      <4>3. ckpt.ck \in Nat /\ loc[p].ck \in Nat
        BY LocFacts DEF IInv, TypeOK, SrvOK, Entry
      <4>4. cur = loc[p].seq => work
        BY <1>1, MarkFacts
      <4>5. QED BY <2>2, <4>1, <4>2, <4>3, <4>4
    <3>5. e # Absent /\ e.seq # 0 /\ e.ck # 0
      BY <1>1, <1>2, <1>3, <2>2, MarkFacts DEF NewCkpt
    <3>6. Good(dir) /\ InTxn(p)
      BY <1>1, MarkFacts
    <3>7. GoodSeqs(dir') /\ GoodSync(dir') /\ GoodCommit(dir') /\ GoodAlias(dir')
      BY <2>5, <3>5, <3>6
      DEF Good, GoodSeqs, GoodSync, GoodCommit, GoodAlias, Pending, InTxn
    <3>8. GoodCkpt(dir')
      BY <2>1, <2>2, <2>5, <3>2, <3>3, <3>4 DEF GoodCkpt
    <3>9. QED BY <1>1, <3>7, <3>8, GoodSame DEF Good
  <2>7. ASSUME Synced({"ckpt_m"})' PROVE ProcInv(p)'
    <3>1. InTxn(p)'
      <4>1. InTxn(p) /\ loc[p].ck \in Nat
        BY <1>1, MarkFacts
      <4>2. dir'["ckpt_m"].ck <= loc[p].ck
        BY <2>2, <2>5, <4>1
      <4>3. QED BY <1>1, <1>3, <2>4, <2>5, <4>1, <4>2 DEF InTxn, KindOf, srvVars
    <3>2. QED
      BY <1>1, <1>3, <2>4, <2>7, <3>1, MarkFacts
      DEF ProcInv, MoveInv, CkptInv, CommitInv, TxnInv,
          InMove, InDoCkpt, InDoCommit, InWork, BeforeWork
  <2>8. Synced({"ckpt_m"}) /\ Active(p)
    BY <1>1, MarkFacts DEF Synced
  <2>9. QED BY <1>1, <2>2, <2>3, <2>4, <2>6, <2>7, <2>8, AlterStep
<1>4. CASE loc[p].op # "write"
  <2>1. PICK e \in Entry : e = Link(loc[p].seq, 0)
    BY <1>1, MarkFacts, EntryFacts
  <2>2. e.seq = loc[p].seq
    BY <2>1 DEF Link
  <2>3. dir["commit_m"] = Absent /\ dir["ckpt_m"] = Absent /\ ver.seq # loc[p].seq
        /\ loc[p].ck = 1
    BY <1>1, <1>4, MarkFacts DEF InTxn
  <2> DEFINE r == [loc[p] EXCEPT !.stage = "commit"]
  <2>4. Alter(disk, "commit_m", e) /\ GotoWith(p, "dm_read", r)
    BY <1>1, <1>4, <2>1, <2>3 DEF Mark
  <2>5. r.op = loc[p].op /\ r.seq = loc[p].seq /\ r.stage = "commit"
    BY LocFacts DEF LocType, IInv, TypeOK
  <2>6. Goes(p) /\ pc'[p] = "dm_read" /\ loc'[p] = r
    BY <2>4, <2>5, GotoWithGoes
  <2>7. dir'["commit_m"] = e /\ \A n \in Names \ {"commit_m"} : dir'[n] = dir[n]
    BY <2>4 DEF Alter, IInv, TypeOK, CacheOK
  <2>8. Good(dir)'
    <3>1. dir["directory.tmp"] = [seq |-> loc[p].seq, ck |-> 1, whole |-> loc[p].good]
      BY <1>1, <1>4, <2>3, MarkFacts DEF WrittenFile
    <3>2. dir["directory.tmp"] # Absent
      <4>1. loc[p].seq # 0
        BY <1>1, MarkFacts
      <4>2. QED BY <1>2, <3>1, <4>1
    <3>3. cur = loc[p].seq => dir["directory.tmp"] = Outcome /\ Outcome.whole
      <4>1. cur = loc[p].seq => loc[p].good = TRUE /\ work = TRUE
        BY <1>1, MarkFacts, ZenonT(20) DEF InTxn, IInv, TypeOK, ProcOK, LocType, SrvOK
      <4>2. cur = loc[p].seq => kind # "write"
        BY <1>1, <1>4, MarkFacts DEF InTxn, KindOf
      <4>3. cur = loc[p].seq => Outcome = [seq |-> cur, ck |-> 1, whole |-> TRUE]
        BY <4>1, <4>2 DEF Outcome
      <4>4. cur = loc[p].seq => dir["directory.tmp"] = [seq |-> cur, ck |-> 1, whole |-> TRUE]
        BY <3>1, <4>1
      <4>5. cur = loc[p].seq => Outcome.whole
        <5>1. [seq |-> cur, ck |-> 1, whole |-> TRUE].whole
          OBVIOUS
        <5>2. QED BY <4>3, <5>1, Zenon
      <4>6. cur = loc[p].seq => dir["directory.tmp"] = Outcome
        BY <4>3, <4>4
      <4>7. QED BY <4>5, <4>6
    <3>4. e # Absent /\ e.seq # 0
      BY <1>1, <1>2, <2>2, MarkFacts
    <3>5. Good(dir) /\ InTxn(p)
      BY <1>1, MarkFacts
    <3>6. Good(dir')
      BY <2>2, <2>3, <2>7, <3>2, <3>3, <3>4, <3>5
      DEF Good, GoodSeqs, GoodSync, GoodCommit, GoodCkpt, GoodAlias, Pending, ToInstall
    <3>7. QED BY <1>1, <3>6, GoodSame
  <2>9. ASSUME Synced({"commit_m"})' PROVE ProcInv(p)'
    BY <2>3, <2>5, <2>6, <2>7, <2>9
    DEF ProcInv, MoveInv, CkptInv, CommitInv, TxnInv,
        InMove, InDoCkpt, InDoCommit, InWork, BeforeWork
  <2>10. Synced({"commit_m"}) /\ Active(p)
    BY <1>1, MarkFacts DEF Synced
  <2>11. QED BY <1>1, <2>2, <2>4, <2>5, <2>6, <2>8, <2>9, <2>10, AlterStep
<1>5. QED BY <1>3, <1>4

(***************************************************************************)
(* Commands start; processes crash; power fails.                           *)
(***************************************************************************)

\* A command is started, or turned away.
LEMMA BeginInv ==
    ASSUME IInv, RecoverAlone, TypeOK', NEW p \in Procs, NEW o \in Ops, Begin(p, o)
    PROVE  IInv'
<1>1. pc[p] = "idle" /\ UNCHANGED <<cacheVars, srvVars, next>>
  BY DEF Begin, histVars
<1>2. CASE UNCHANGED <<lock, pc, loc>>
  BY <1>1, <1>2, SameInv
<1>3. CASE ~UNCHANGED <<lock, pc, loc>>
  <2> DEFINE r == [Idle EXCEPT !.op = o]
             l == IF o = "nuke" THEN "cancel" ELSE "dk_read"
  <2>1. /\ NeedsLock(o) => lock = NoProc
        /\ lock' = IF NeedsLock(o) THEN p ELSE lock
        /\ loc' = [loc EXCEPT ![p] = r]
        /\ pc' = [pc EXCEPT ![p] = l]
    BY <1>3 DEF Begin
  <2>2. r.op = o /\ r.seq = 0 /\ r.stage = "clean"
    BY DEF Idle
  <2>3. pc'[p] = l /\ loc'[p] = r /\ \A q \in Procs \ {p} : Bystander(q)
    BY <2>1 DEF Bystander, IInv, TypeOK, ProcOK
  <2>4. CacheInv' /\ DiskInv' /\ SrvInv'
    BY <1>1, CacheSame
  <2>5. LockInv'
    <3>1. p # NoProc /\ NoProc \notin Procs /\ next' = next /\ 0 < next
      BY <1>1, ConstAssumption DEF IInv, SrvInv, TypeOK, HistOK
    <3>2. ASSUME NEW q \in Procs \ {p}
          PROVE  /\ loc'[q].seq < next'
                 /\ pc'[q] # "idle" => loc'[q].op \in Ops
                 /\ (Active(q) /\ NeedsLock(loc[q].op) => lock = q)'
      BY <2>1, <2>3, <3>1 DEF IInv, LockInv, Bystander, Active, NeedsLock
    <3>3. /\ loc'[p].seq < next'
          /\ pc'[p] # "idle" => loc'[p].op \in Ops
          /\ (Active(p) /\ NeedsLock(loc[p].op) => lock = p)'
      BY <2>1, <2>2, <2>3, <3>1 DEF NeedsLock
    <3>4. QED BY <3>2, <3>3 DEF LockInv
  <2>6. NukeInv(p)'
    BY <2>2, <2>3 DEF NukeInv
  <2>7. ProcInv(p)'
    BY <2>2, <2>3
    DEF ProcInv, Active, MoveInv, CkptInv, CommitInv, TxnInv,
        InMove, InDoCkpt, InDoCommit, InWork, BeforeWork
  <2>8. ASSUME NEW q \in Procs \ {p} PROVE ProcInv(q)' /\ NukeInv(q)'
    <3>1. Bystander(q) /\ OthersApart(q)
      BY <2>2, <2>3 DEF Bystander, OthersApart
    <3>2. NukeInv(q)'
      BY <1>1, <3>1, NukeQuiet DEF cacheVars, srvVars
    <3>3. QED BY <1>1, <3>1, <3>2, ProcSame
  <2>9. QED BY <2>4, <2>5, <2>6, <2>7, <2>8 DEF IInv
<1>4. QED BY <1>2, <1>3

\* A process may die anywhere.
LEMMA CrashInv ==
    ASSUME IInv, TypeOK', NEW p \in Procs, Crash(p)
    PROVE  IInv'
BY ExitEnds, EndInv DEF Crash

\* Power may fail anywhere: every process dies, and the cache directory is one
\* of those that CacheInv allows.
LEMMA PowerLossInv ==
    ASSUME IInv, TypeOK', PowerLoss
    PROVE  IInv'
<1>1. UNCHANGED <<srvVars, next>> /\ PowerFail
  BY DEF PowerLoss
<1>2. PICK c \in disk["cseq"], m \in disk["commit_m"], k \in disk["ckpt_m"],
           d \in disk["directory"], t \in disk["directory.tmp"],
           f \in disk["directory.ckpt"] : dir' = Contents(c, m, k, d, t, f)
  BY DEF PowerLoss
<1>3. Good(dir)'
  <2>1. Good(dir')
    BY <1>1, <1>2 DEF IInv, CacheInv
  <2>2. QED BY <1>1, <2>1, GoodSame
<1>4. \A n \in Names : disk'[n] = {dir'[n]} /\ dir'[n].seq < next'
  <2>1. \A n \in Names : dir'[n] \in disk[n]
    BY <1>2 DEF Contents
  <2>2. QED BY <1>1, <2>1 DEF PowerLoss, IInv, DiskInv
<1>5. CacheInv' /\ DiskInv'
  BY <1>3, <1>4, SyncedCache
<1>6. SrvInv'
  BY <1>1 DEF IInv, SrvInv, srvVars
<1>7. \A p \in Procs : pc'[p] = "idle" /\ loc'[p].seq = 0
  BY DEF PowerLoss, Idle
<1>8. LockInv'
  BY <1>1, <1>7 DEF LockInv, Active, IInv, SrvInv, TypeOK, HistOK
<1>9. \A p \in Procs : NukeInv(p)' /\ ProcInv(p)'
  BY <1>7 DEF NukeInv, ProcInv, Active
<1>10. QED BY <1>5, <1>6, <1>8, <1>9 DEF IInv

(***************************************************************************)
(* The other machine.                                                      *)
(***************************************************************************)

\* The server starts, drops or commits a transaction for the other machine.
LEMMA EnvShift ==
    ASSUME IInv, TypeOK', Shift, UNCHANGED <<cacheVars, procVars>>, SrvInv',
           \/ ver' = ver \/ ver'.seq = next
           \/ \A q \in Procs : Active(q) /\ OwnTxn(q) => cur # loc[q].seq
    PROVE  IInv'
<1>1. CacheInv' /\ DiskInv'
  BY CacheShift
<1>2. ASSUME NEW q \in Procs PROVE NukeInv(q)' /\ ProcInv(q)'
  <2>1. Bystander(q) /\ OthersApart(q)
    BY DEF Bystander, OthersApart, procVars
  <2>2. ProcInv(q)'
    BY <2>1, ProcShift
  <2>3. QED BY <2>1, <2>2, NukeShift DEF cacheVars
<1>3. LockInv'
  <2>1. next \in Nat /\ next' \in Nat /\ next <= next' /\ \A q \in Procs : loc[q].seq \in Nat
    BY LocFacts DEF IInv, TypeOK, HistOK, Shift
  <2>2. QED BY <2>1 DEF IInv, LockInv, Active, NeedsLock, procVars
<1>4. QED BY <1>1, <1>2, <1>3 DEF IInv

\* Another machine commits the checkpointed transaction.
LEMMA ForeignRecoverInv ==
    ASSUME IInv, TypeOK', ForeignRecover
    PROVE  IInv'
<1>1. cur # 0 /\ kind = "write" /\ ckpt # Absent /\ SrvTryCommit(cur)
      /\ UNCHANGED <<cacheVars, procVars, next>>
  BY DEF ForeignRecover, IsCheckpointed
<1>2. Outcome.whole
  BY <1>1 DEF Outcome, IInv, SrvInv
<1>3. Shift /\ SrvInv'
  BY <1>1, <1>2, CommitShift
<1>4. ASSUME NEW q \in Procs, Active(q), OwnTxn(q) PROVE cur # loc[q].seq
  <2>1. TxnInv(q)
    BY <1>4 DEF IInv, ProcInv
  <2>2. CASE pc[q] = "open"
    BY <1>1, <2>1, <2>2 DEF TxnInv
  <2>3. CASE pc[q] # "open"
    <3>1. loc[q].op # "write" /\ InTxn(q)
      BY <1>4, <2>1, <2>3 DEF OwnTxn, TxnInv, BeforeWork
    <3>2. QED BY <1>1, <3>1 DEF InTxn, KindOf
  <2>4. QED BY <2>2, <2>3
<1>5. QED BY <1>1, <1>3, <1>4, EnvShift

\* Another machine has a transaction with a checkpoint in progress.
LEMMA ForeignCheckpointInv ==
    ASSUME IInv, TypeOK', ForeignCheckpoint
    PROVE  IInv'
<1>1. /\ cur' = next /\ next' = next + 1 /\ ver' = ver /\ next \in Nat
      /\ kind' = "write" /\ UNCHANGED <<cacheVars, procVars>>
      /\ ckpt'.seq = next /\ ckpt'.whole
  BY DEF ForeignCheckpoint, IInv, TypeOK, HistOK
<1>2. Shift
  BY <1>1 DEF Shift
<1>3. SrvInv'
  <2>1. ver.seq \in Nat
    BY DEF IInv, TypeOK, SrvOK, Entry
  <2>2. QED BY <1>1, <2>1 DEF IInv, SrvInv
<1>4. QED BY <1>1, <1>2, <1>3, EnvShift

\* Another machine commits a transaction of its own.
LEMMA ForeignCommitInv ==
    ASSUME IInv, TypeOK', ForeignCommit
    PROVE  IInv'
<1>1. /\ cur' = 0 /\ next' = next + 1 /\ next \in Nat
      /\ ver'.seq = next /\ ver'.whole
      /\ UNCHANGED <<cacheVars, procVars, kind, ckpt, work>>
  BY DEF ForeignCommit, IInv, TypeOK, HistOK
<1>2. Shift
  BY <1>1 DEF Shift
<1>3. SrvInv'
  BY <1>1 DEF IInv, SrvInv
<1>4. QED BY <1>1, <1>2, <1>3, EnvShift

(***************************************************************************)
(* IInv is an inductive invariant.                                         *)
(***************************************************************************)

\* The initial state satisfies IInv.
LEMMA InitInv == Init => IInv
<1> SUFFICES ASSUME Init PROVE IInv
  OBVIOUS
<1>1. TypeOK
  BY TypeInit
<1>2. SrvInv
  BY DEF Init, SrvInv, Absent
<1>3. \A n \in Names : dir[n] = Absent /\ disk[n] = {Absent}
  BY DEF Init
<1>4. Absent.seq = 0
  BY DEF Absent
<1>5. DiskInv
  BY <1>3, <1>4 DEF Init, DiskInv
<1>6. \A d \in [Names -> Entry] : (\A n \in Names : d[n] = Absent) => Good(d)
  BY <1>4 DEF Init, Good, GoodSeqs, GoodSync, GoodCommit, GoodCkpt, GoodAlias, Pending
<1>7. CacheInv
  <2>1. Good(dir)
    BY <1>1, <1>3, <1>6 DEF TypeOK, CacheOK
  <2>2. Good(Contents(Absent, Absent, Absent, Absent, Absent, Absent))
    <3>1. Contents(Absent, Absent, Absent, Absent, Absent, Absent) = dir
      BY <1>1, <1>3 DEF Contents, TypeOK, CacheOK
    <3>2. QED BY <2>1, <3>1
  <2>3. QED BY <1>3, <2>1, <2>2 DEF CacheInv
<1>8. LockInv /\ \A p \in Procs : NukeInv(p) /\ ProcInv(p)
  BY DEF Init, LockInv, NukeInv, ProcInv, Active, Idle
<1>9. QED BY <1>1, <1>2, <1>5, <1>7, <1>8 DEF IInv

\* Every step of a command keeps IInv: one lemma per action.
LEMMA StepInv ==
    ASSUME IInv, RecoverAlone, RenameSafe, TypeOK', NEW p \in Procs, Step(p)
    PROVE  IInv'
<1>1. CASE StartRefused(p)
  BY <1>1, FailInv DEF StartRefused, histVars
<1>2. QED
  BY <1>1, ReadCkptMInv, MvStatInv, MvLinkInv, MvUnlinkInv, MvEndInv,
     RemoteCheckpointInv, RemoteCommitInv, DkUnlinkInv, DkLinkInv, DkDoneInv, DkEndInv,
     ReadCommitMInv, CsUnlinkInv, CsLinkInv, CsDoneInv, CsEndInv, IsCkInv, IsCkCommitInv,
     CancelInv, StartInv, OpenInv, WorkInv, FlushInv, WrOpenInv, WrCloseInv, MarkInv,
     NukeCommitInv
  DEF Step

\* Every step keeps IInv.
LEMMA NextInv ==
    ASSUME RecoverAlone, RenameSafe
    PROVE  IInv /\ [Next]_vars => IInv'
<1> SUFFICES ASSUME IInv, [Next]_vars PROVE IInv'
  OBVIOUS
<1>1. TypeOK'
  BY TypeNext DEF IInv
<1>2. CASE UNCHANGED vars
  BY <1>1, <1>2, SameInv DEF vars, procVars, histVars
<1>3. CASE Next
  BY <1>1, <1>3, BeginInv, StepInv, LostReplyInv, CrashInv, PowerLossInv,
     ForeignRecoverInv, ForeignCheckpointInv, ForeignCommitInv
  DEF Next
<1>4. QED BY <1>2, <1>3

\* IInv holds in every state: whatever crashes, is lost or is done by another
\* machine between two steps of multitape_docheckpoint, multitape_docommit and
\* chunks_directory_commit, the next process finds a cache directory it can go on
\* from.  It needs --recover, which takes no lock, to run alone, and hard links
\* wherever power may fail.
THEOREM Inductive ==
    ASSUME RecoverAlone, RenameSafe
    PROVE  Spec => []IInv
BY InitInv, NextInv, PTL DEF Spec

(***************************************************************************)
(* What it is for.                                                         *)
(***************************************************************************)

\* When no commit is pending and the client is in sequence with the server, the
\* chunk directory describes the archives that the server has: whatever order of
\* crashes, power failures, lost replies and other machines led here, the next
\* transaction starts from the truth.
THEOREM Synchronised ==
    ASSUME RecoverAlone, RenameSafe
    PROVE  Spec => []InSync
<1>1. IInv => InSync
  BY DEF IInv, CacheInv, Good, GoodSync, InSync, Pending
<1>2. QED BY <1>1, Inductive, PTL

\* The server never commits a transaction some of whose files it lacks: the
\* flush comes before the marker, and the marker before the request.
THEOREM WholeCommitted ==
    ASSUME RecoverAlone, RenameSafe
    PROVE  Spec => []NeverPartial
<1>1. IInv => NeverPartial
  BY DEF IInv, SrvInv, NeverPartial
<1>2. QED BY <1>1, Inductive, PTL

\* A pending commit of the transaction in progress installs the chunk directory
\* for exactly what the server will commit.
THEOREM PendingBacked ==
    ASSUME RecoverAlone, RenameSafe
    PROVE  Spec => []CommitBacked
<1>1. IInv => CommitBacked
  BY DEF IInv, CacheInv, Good, GoodCommit, ToInstall, CommitBacked, Pending
<1>2. QED BY <1>1, Inductive, PTL

\* chunks_directory_write never truncates a file that is linked under another
\* name, in spite of chunks_directory_commit leaving two links to one file when
\* it is cut short.
THEOREM SafeToOverwrite ==
    ASSUME RecoverAlone, RenameSafe
    PROVE  Spec => []NoAliasTruncated
<1>1. IInv => NoAliasTruncated
  <2> SUFFICES ASSUME IInv, NEW p \in Procs, pc[p] = "wr_open",
                      NEW m \in Files \ {WrittenFile(p)}
               PROVE  dir[m] = Absent \/ dir[m] # dir[WrittenFile(p)]
    BY DEF NoAliasTruncated
  <2>1. Good(dir) /\ InTxn(p) /\ dir["ckpt_m"] = Absent
    BY WrFacts DEF Known
  <2>2. CASE loc[p].op = "write"
    BY <2>1, <2>2 DEF WrittenFile, Good, GoodAlias, Pending
  <2>3. CASE loc[p].op # "write"
    BY <2>1, <2>3 DEF WrittenFile, InTxn, Good, GoodAlias, Pending
  <2>4. QED BY <2>2, <2>3
<1>2. QED BY <1>1, Inductive, PTL

(***************************************************************************)
(* A machine that is alone with its keys stays in sequence with the        *)
(* server: AInv is an invariant, and Multitape implements TwoSite.  First  *)
(* what every step needs.                                                  *)
(***************************************************************************)

\* What is known where a command runs.
LEMMA Here ==
    ASSUME AInv, Alone, NEW p \in Procs, pc[p] # "idle"
    PROVE  /\ Known(p) /\ SeqInv(p) /\ IInv
           /\ loc[p] \in LocType /\ loc[p].op \in AllOps \ {"nuke"}
           /\ Absent.seq = 0
<1>1. loc[p].op \in Ops /\ IInv /\ SeqInv(p)
  BY DEF AInv, IInv, LockInv
<1>2. loc[p].op \in AllOps \ {"nuke"}
  BY <1>1, ConstAssumption DEF Alone
<1>3. Known(p)
  BY <1>1, <1>2 DEF IInv, ProcInv, Active, CacheInv, Known
<1>4. QED BY <1>1, <1>2, <1>3, LocFacts DEF IInv, TypeOK, Absent

\* What the client and the server know of each other, beside the processes.
Paired == MarkerInv /\ OrderInv /\ AckedCommitted

\* A step of one process: the others are at rest.
LEMMA PairStep ==
    ASSUME AInv, Alone, RecoverAlone, IInv', NEW p \in Procs, pc[p] # "idle",
           Goes(p) \/ Ends(p), Paired', Goes(p) => SeqInv(p)'
    PROVE  AInv'
<1>1. Active(p)
  BY Here DEF Known
<1>2. ASSUME NEW q \in Procs \ {p} PROVE SeqInv(q)'
  <2>1. ~Active(q)
    BY <1>1, AloneActive DEF AInv
  <2>2. QED BY <2>1 DEF SeqInv, Active, Goes, Ends, Bystander
<1>3. Ends(p) => SeqInv(p)'
  BY DEF Ends, SeqInv, Active
<1>4. QED BY <1>2, <1>3 DEF AInv, Paired

\* An fsync, or a change of the chunk directory files, leaves the markers as they
\* are, or with less that a power failure could bring back.
LEMMA Shrinks ==
    ASSUME AInv, UNCHANGED <<ver, cur, kind, ckpt, hist, acked>>,
           \A n \in Links : disk'[n] \subseteq disk[n]
    PROVE  Paired'
<1>1. IsCheckpointed' <=> IsCheckpointed
  BY DEF IsCheckpointed
<1>2. MarkerInv'
  BY <1>1 DEF AInv, MarkerInv
<1>3. QED BY <1>2 DEF AInv, OrderInv, AckedCommitted, Paired

\* The entries of a name after a change of another one.
LEMMA AlterLinks ==
    ASSUME IInv, NEW n \in Names, NEW v, NEW k, k \in {disk, Flushed}, Alter(k, n, v)
    PROVE  /\ dir'[n] = v /\ disk'[n] = k[n] \cup {v} /\ disk'[n] \subseteq disk[n] \cup {v}
           /\ \A m \in Names \ {n} : dir'[m] = dir[m] /\ disk'[m] \subseteq disk[m]
<1>1. \A m \in Names : dir[m] \in disk[m]
  BY DEF IInv, DiskInv
<1>2. /\ k \in [Names -> SUBSET Entry] /\ dir \in [Names -> Entry]
      /\ \A m \in Names : k[m] \subseteq disk[m]
  BY <1>1 DEF Flushed, IInv, TypeOK, CacheOK
<1>3. QED BY <1>2 DEF Alter

\* So it is with an fsync.
LEMMA FsyncLinks ==
    ASSUME IInv, Fsync
    PROVE  dir' = dir /\ \A m \in Names : disk'[m] = {dir[m]} /\ disk'[m] \subseteq disk[m]
BY DEF Fsync, Flushed, IInv, DiskInv

\* A command that gives up.
LEMMA FailPair ==
    ASSUME AInv, Alone, RecoverAlone, IInv', NEW p \in Procs, pc[p] # "idle", NEW res,
           Fail(p, res), UNCHANGED <<srvVars, hist, acked>>
    PROVE  AInv'
<1>1. Ends(p) /\ Paired'
  BY ExitEnds, Shrinks DEF Fail, cacheVars, srvVars, AInv
<1>2. QED BY <1>1, PairStep DEF Goes, Ends

(***************************************************************************)
(* chunks_directory_commit: only the chunk directory files change.         *)
(***************************************************************************)

\* A step that goes on and changes no marker.
LEMMA FileStep ==
    ASSUME AInv, Alone, RecoverAlone, IInv', NEW p \in Procs, pc[p] # "idle", Goes(p),
           UNCHANGED <<ver, cur, kind, ckpt, hist, acked>>,
           \A n \in Links : disk'[n] \subseteq disk[n] /\ dir'[n] = dir[n],
           loc'[p] = loc[p], pc[p] \notin BeforeWork, pc[p] # "dk_end", pc[p] # "cs_end",
           pc'[p] \notin BeforeWork \cup {"dk_read", "dk_end", "cs_end"}
    PROVE  AInv'
<1>1. Paired'
  BY Shrinks
<1>2. SeqInv(p)'
  BY Here DEF SeqInv, Known, BeforeWork
<1>3. QED BY <1>1, <1>2, PairStep

\* The two lstats, and the unlink of the new name.
LEMMA MvStatPair ==
    ASSUME AInv, Alone, RecoverAlone, IInv', NEW p \in Procs, MvStat(p)
    PROVE  AInv'
<1>1. pc[p] = "mv_stat" /\ UNCHANGED <<srvVars, hist, acked>> /\ IInv
  BY DEF MvStat, histVars, AInv
<1>2. PICK l \in {"remote", "mv_unlink", "mv_link"} :
         Goto(p, l) /\ (UNCHANGED cacheVars \/ Alter(disk, NewName(p), Absent))
  BY DEF MvStat
<1>3. Goes(p) /\ pc'[p] = l /\ loc'[p] = loc[p]
  BY <1>1, <1>2, GotoGoes
<1>4. NewName(p) \in Files
  BY DEF NewName
<1>5. \A n \in Links : disk'[n] \subseteq disk[n] /\ dir'[n] = dir[n]
  BY <1>1, <1>2, <1>4, AlterLinks DEF cacheVars
<1>6. QED BY <1>1, <1>2, <1>3, <1>5, FileStep DEF srvVars, BeforeWork

\* The link, or the rename.
LEMMA MvLinkPair ==
    ASSUME AInv, Alone, RecoverAlone, IInv', NEW p \in Procs, MvLink(p)
    PROVE  AInv'
<1>1. pc[p] = "mv_link" /\ UNCHANGED <<srvVars, hist, acked>> /\ IInv
  BY DEF MvLink, histVars, AInv
<1>2. NewName(p) \in Files /\ OldName(p) \in Files
  BY DEF NewName, OldName
<1>3. CASE Goto(p, "mv_unlink") /\ Alter(disk, NewName(p), dir[OldName(p)])
  <2>1. Goes(p) /\ pc'[p] = "mv_unlink" /\ loc'[p] = loc[p]
    BY <1>1, <1>3, GotoGoes
  <2>2. \A n \in Links : disk'[n] \subseteq disk[n] /\ dir'[n] = dir[n]
    BY <1>1, <1>2, <1>3, AlterLinks
  <2>3. QED BY <1>1, <2>1, <2>2, FileStep DEF srvVars, BeforeWork
<1>4. CASE /\ Goto(p, "mv_end")
           /\ dir' = [dir EXCEPT ![NewName(p)] = dir[OldName(p)], ![OldName(p)] = Absent]
           /\ disk' = [disk EXCEPT ![NewName(p)] = @ \cup {dir[OldName(p)]},
                                   ![OldName(p)] = @ \cup {Absent}]
  <2>1. Goes(p) /\ pc'[p] = "mv_end" /\ loc'[p] = loc[p]
    BY <1>1, <1>4, GotoGoes
  <2>2. \A n \in Links : disk'[n] \subseteq disk[n] /\ dir'[n] = dir[n]
    BY <1>1, <1>2, <1>4 DEF IInv, TypeOK, CacheOK
  <2>3. QED BY <1>1, <2>1, <2>2, FileStep DEF srvVars, BeforeWork
<1>5. CASE Fail(p, "fail")
  BY <1>1, <1>5, FailPair
<1>6. QED BY <1>3, <1>4, <1>5 DEF MvLink

\* The unlink of the old name.
LEMMA MvUnlinkPair ==
    ASSUME AInv, Alone, RecoverAlone, IInv', NEW p \in Procs, MvUnlink(p)
    PROVE  AInv'
<1>1. pc[p] = "mv_unlink" /\ UNCHANGED <<srvVars, hist, acked>> /\ IInv
  BY DEF MvUnlink, histVars, AInv
<1>2. CASE Goto(p, "mv_end") /\ Alter(Flushed, OldName(p), Absent)
  <2>1. Goes(p) /\ pc'[p] = "mv_end" /\ loc'[p] = loc[p]
    BY <1>1, <1>2, GotoGoes
  <2>2. OldName(p) \in Files
    BY DEF OldName
  <2>3. \A n \in Links : disk'[n] \subseteq disk[n] /\ dir'[n] = dir[n]
    BY <1>1, <1>2, <2>2, AlterLinks
  <2>4. QED BY <1>1, <2>1, <2>3, FileStep DEF srvVars, BeforeWork
<1>3. CASE Fail(p, "fail")
  BY <1>1, <1>3, FailPair
<1>4. QED BY <1>2, <1>3 DEF MvUnlink

\* The last fsync.
LEMMA MvEndPair ==
    ASSUME AInv, Alone, RecoverAlone, IInv', NEW p \in Procs, MvEnd(p)
    PROVE  AInv'
<1>1. pc[p] = "mv_end" /\ UNCHANGED <<srvVars, hist, acked>> /\ IInv
  BY DEF MvEnd, histVars, AInv
<1>2. Goes(p) /\ pc'[p] = "remote" /\ loc'[p] = loc[p]
  BY <1>1, GotoGoes DEF MvEnd
<1>3. \A n \in Links : disk'[n] \subseteq disk[n] /\ dir'[n] = dir[n]
  BY <1>1, FsyncLinks DEF MvEnd
<1>4. QED BY <1>1, <1>2, <1>3, FileStep DEF srvVars, BeforeWork

(***************************************************************************)
(* multitape_docheckpoint.                                                 *)
(***************************************************************************)

\* A step that goes on after an fsync.
LEMMA FsyncPair ==
    ASSUME AInv, Alone, RecoverAlone, IInv', NEW p \in Procs, pc[p] # "idle", Fsync,
           Goes(p), UNCHANGED <<srvVars, hist, acked>>, dir' = dir => SeqInv(p)'
    PROVE  AInv'
<1>1. Paired' /\ dir' = dir
  BY Shrinks, FsyncLinks DEF AInv, srvVars
<1>2. QED BY <1>1, PairStep

\* The return from multitape_docheckpoint.
LEMMA AfterCkptPair ==
    ASSUME AInv, Alone, RecoverAlone, IInv', NEW p \in Procs, Fsync, AfterCkpt(p),
           pc[p] = "dk_end" \/ (pc[p] = "dk_read" /\ dir["ckpt_m"] = Absent),
           UNCHANGED <<srvVars, hist, acked>>
    PROVE  AInv'
<1>1. Known(p) /\ SeqInv(p) /\ IInv /\ loc[p] \in LocType /\ pc[p] # "idle"
  BY Here
<1>2. CASE loc[p].stage = "work"
  <2>1. Goes(p) /\ pc'[p] = "work" /\ loc'[p] = loc[p]
    BY <1>1, <1>2, GotoGoes DEF AfterCkpt
  <2>2. dir' = dir => SeqInv(p)'
    BY <1>1, <1>2, <2>1 DEF SeqInv, Known, BeforeWork, srvVars
  <2>3. QED BY <1>1, <2>1, <2>2, FsyncPair
<1>3. CASE loc[p].stage = "close"
  <2> DEFINE r == [loc[p] EXCEPT !.stage = "commit"]
  <2>1. r.op = loc[p].op /\ r.seq = loc[p].seq /\ r.stage = "commit"
    BY <1>1 DEF LocType
  <2>2. Goes(p) /\ pc'[p] = "dk_read" /\ loc'[p] = r
    BY <1>1, <1>3, <2>1, GotoWithGoes DEF AfterCkpt
  <2>3. loc[p].seq # 0
    BY <1>1, <1>3 DEF Known, TxnInv, InTxn, BeforeWork
  <2>4. dir' = dir => SeqInv(p)'
    BY <1>1, <1>3, <2>1, <2>2, <2>3 DEF SeqInv, Known, BeforeWork, srvVars
  <2>5. QED BY <1>1, <2>2, <2>4, FsyncPair
<1>4. CASE loc[p].stage \notin {"work", "close"}
  <2>1. Goes(p) /\ pc'[p] = "dm_read" /\ loc'[p] = loc[p]
    BY <1>1, <1>4, GotoGoes DEF AfterCkpt
  <2>2. dir' = dir => SeqInv(p)'
    BY <1>1, <1>4, <2>1 DEF SeqInv, Known, BeforeWork, srvVars
  <2>3. QED BY <1>1, <2>1, <2>2, FsyncPair
<1>5. QED BY <1>2, <1>3, <1>4

\* The fsync and the read of the checkpoint marker.
LEMMA ReadCkptMPair ==
    ASSUME AInv, Alone, RecoverAlone, IInv', NEW p \in Procs, ReadCkptM(p)
    PROVE  AInv'
<1>1. pc[p] = "dk_read" /\ Fsync /\ UNCHANGED <<srvVars, hist, acked>>
  BY DEF ReadCkptM, histVars
<1>2. Known(p) /\ SeqInv(p) /\ IInv /\ loc[p] \in LocType
  BY <1>1, Here
<1>3. CASE dir["ckpt_m"] = Absent
  BY <1>1, <1>3, AfterCkptPair DEF ReadCkptM
<1>4. CASE dir["ckpt_m"] # Absent
  <2> DEFINE r == [loc[p] EXCEPT !.mark = dir["ckpt_m"], !.move = "ckpt"]
  <2>1. r.op = loc[p].op /\ r.seq = loc[p].seq /\ r.stage = loc[p].stage
    BY <1>2 DEF LocType
  <2>2. Goes(p) /\ pc'[p] = "mv_stat" /\ loc'[p] = r
    BY <1>2, <1>4, <2>1, GotoWithGoes DEF ReadCkptM
  <2>3. dir' = dir => SeqInv(p)'
    BY <1>1, <1>2, <2>1, <2>2 DEF SeqInv, Known, BeforeWork, srvVars
  <2>4. QED BY <1>1, <2>2, <2>3, FsyncPair
<1>5. QED BY <1>3, <1>4

\* The server makes a pending checkpoint, which is one of the transaction in
\* progress: the answer is never a mismatch.
LEMMA RemoteCheckpointPair ==
    ASSUME AInv, Alone, RecoverAlone, IInv', NEW p \in Procs, RemoteCheckpoint(p)
    PROVE  AInv' /\ cur = loc[p].mark.seq /\ kind = "write"
<1>1. /\ pc[p] = "remote" /\ loc[p].move = "ckpt"
      /\ UNCHANGED <<cacheVars, hist, acked>>
  BY DEF RemoteCheckpoint, histVars
<1>2. Known(p) /\ SeqInv(p) /\ IInv /\ Absent.seq = 0
  BY <1>1, Here
<1>3. /\ dir["ckpt_m"] = loc[p].mark /\ disk["ckpt_m"] = {loc[p].mark} /\ loc[p].mark # Absent
  BY <1>1, <1>2 DEF Known, CkptInv
<1>4. cur # 0 /\ loc[p].mark.seq = cur
  BY <1>3 DEF AInv, MarkerInv, Pending
<1>5. kind = "write"
  BY <1>2, <1>3, <1>4 DEF Known, Good, GoodCkpt, Pending
<1>6. SrvCheckpoint(cur, loc[p].mark.ck) /\ Goto(p, "dk_unlink")
  BY <1>4, <1>5 DEF RemoteCheckpoint
<1>7. Goes(p) /\ pc'[p] = "dk_unlink" /\ loc'[p] = loc[p] /\ dir' = dir /\ disk' = disk
      /\ UNCHANGED <<ver, cur, kind>>
  BY <1>1, <1>2, <1>6, GotoGoes DEF cacheVars, SrvCheckpoint
<1>8. Paired'
  BY <1>1, <1>3, <1>7 DEF AInv, Paired, MarkerInv, OrderInv, AckedCommitted
<1>9. SeqInv(p)'
  BY <1>1, <1>2, <1>7 DEF SeqInv, Known, BeforeWork
<1>10. QED BY <1>1, <1>4, <1>5, <1>7, <1>8, <1>9, PairStep

\* The old commit marker is removed.
LEMMA DkUnlinkPair ==
    ASSUME AInv, Alone, RecoverAlone, IInv', NEW p \in Procs, DkUnlink(p)
    PROVE  AInv'
<1>1. /\ pc[p] = "dk_unlink" /\ UNCHANGED <<srvVars, hist, acked>>
      /\ Alter(disk, "commit_m", Absent) /\ Goto(p, "dk_link")
  BY DEF DkUnlink, histVars
<1>2. Known(p) /\ SeqInv(p) /\ IInv /\ Absent.seq = 0
  BY <1>1, Here
<1>3. /\ disk["ckpt_m"] = {loc[p].mark} /\ loc[p].mark # Absent
      /\ loc[p].stage \in {"clean", "work", "close"}
  BY <1>1, <1>2, DkFacts DEF InDoCkpt
<1>4. cur # 0 /\ loc[p].mark.seq = cur
  BY <1>3 DEF AInv, MarkerInv, Pending
<1>5. Goes(p) /\ pc'[p] = "dk_link" /\ loc'[p] = loc[p]
  BY <1>1, <1>2, GotoGoes
<1>6. /\ disk'["commit_m"] \subseteq disk["commit_m"] \cup {Absent}
      /\ \A m \in Names \ {"commit_m"} : dir'[m] = dir[m] /\ disk'[m] \subseteq disk[m]
  BY <1>1, <1>2, AlterLinks
<1>7. Paired'
  BY <1>1, <1>3, <1>4, <1>6
  DEF AInv, Paired, MarkerInv, OrderInv, AckedCommitted, Pending, srvVars
<1>8. SeqInv(p)'
  BY <1>1, <1>2, <1>3, <1>5, <1>6 DEF SeqInv, Known, BeforeWork, srvVars
<1>9. QED BY <1>1, <1>5, <1>7, <1>8, PairStep

\* The new commit marker is made.
LEMMA DkLinkPair ==
    ASSUME AInv, Alone, RecoverAlone, IInv', NEW p \in Procs, DkLink(p)
    PROVE  AInv'
<1> DEFINE e == Link(loc[p].mark.seq, 0)
<1>1. pc[p] = "dk_link" /\ UNCHANGED <<srvVars, hist, acked>>
  BY DEF DkLink, histVars
<1>2. Known(p) /\ SeqInv(p) /\ IInv /\ Absent.seq = 0
  BY <1>1, Here
<1>3. /\ disk["ckpt_m"] = {loc[p].mark} /\ loc[p].mark # Absent
      /\ loc[p].stage \in {"clean", "work", "close"}
  BY <1>1, <1>2, DkFacts DEF InDoCkpt
<1>4. cur # 0 /\ loc[p].mark.seq = cur
  BY <1>3 DEF AInv, MarkerInv, Pending
<1>5. CASE Alter(disk, "commit_m", e) /\ Goto(p, "dk_done")
  <2>1. Goes(p) /\ pc'[p] = "dk_done" /\ loc'[p] = loc[p]
    BY <1>2, <1>5, GotoGoes
  <2>2. /\ disk'["commit_m"] \subseteq disk["commit_m"] \cup {e}
        /\ \A m \in Names \ {"commit_m"} : dir'[m] = dir[m] /\ disk'[m] \subseteq disk[m]
    BY <1>2, <1>5, AlterLinks
  <2>3. e.seq = cur
    BY <1>4 DEF Link
  <2>4. Paired'
    BY <1>1, <1>3, <1>4, <2>2, <2>3
    DEF AInv, Paired, MarkerInv, OrderInv, AckedCommitted, Pending, srvVars
  <2>5. SeqInv(p)'
    BY <1>1, <1>2, <1>3, <2>1, <2>2 DEF SeqInv, Known, BeforeWork, srvVars
  <2>6. QED BY <1>1, <2>1, <2>4, <2>5, PairStep
<1>6. CASE Fail(p, "fail")
  BY <1>1, <1>6, FailPair
<1>7. QED BY <1>5, <1>6 DEF DkLink

\* The checkpoint marker is removed: a commit of its transaction is pending.
LEMMA DkDonePair ==
    ASSUME AInv, Alone, RecoverAlone, IInv', NEW p \in Procs, DkDone(p)
    PROVE  AInv'
<1>1. pc[p] = "dk_done" /\ UNCHANGED <<srvVars, hist, acked>>
  BY DEF DkDone, histVars
<1>2. Known(p) /\ SeqInv(p) /\ IInv /\ Absent.seq = 0
  BY <1>1, Here
<1>3. /\ disk["ckpt_m"] = {loc[p].mark} /\ loc[p].mark # Absent /\ loc[p].mark.seq # 0
      /\ loc[p].stage \in {"clean", "work", "close"}
  BY <1>1, <1>2, DkFacts DEF InDoCkpt
<1>4. cur # 0 /\ loc[p].mark.seq = cur
  BY <1>3 DEF AInv, MarkerInv, Pending
<1>5. dir["commit_m"].seq = loc[p].mark.seq
  BY <1>1, <1>2 DEF Known, CkptInv, Link
<1>6. CASE Alter(Flushed, "ckpt_m", Absent) /\ Goto(p, "dk_end")
  <2>1. Goes(p) /\ pc'[p] = "dk_end" /\ loc'[p] = loc[p]
    BY <1>2, <1>6, GotoGoes
  <2>2. /\ disk'["ckpt_m"] \subseteq disk["ckpt_m"] \cup {Absent}
        /\ \A m \in Names \ {"ckpt_m"} : dir'[m] = dir[m] /\ disk'[m] \subseteq disk[m]
    BY <1>2, <1>6, AlterLinks
  <2>3. disk'["commit_m"] = {dir["commit_m"]}
    BY <1>6 DEF Alter, Flushed
  <2>4. Absent \notin disk'["commit_m"]
    BY <1>2, <1>3, <1>5, <2>3
  <2>5. Paired'
    BY <1>1, <2>2, <2>4
    DEF AInv, Paired, MarkerInv, OrderInv, AckedCommitted, Pending, srvVars
  <2>6. SeqInv(p)'
    BY <1>1, <1>2, <1>3, <1>4, <1>5, <2>1, <2>2 DEF SeqInv, Known, BeforeWork, srvVars
  <2>7. QED BY <1>1, <2>1, <2>5, <2>6, PairStep
<1>7. CASE Fail(p, "fail")
  BY <1>1, <1>7, FailPair
<1>8. QED BY <1>6, <1>7 DEF DkDone

\* The last fsync of multitape_docheckpoint.
LEMMA DkEndPair ==
    ASSUME AInv, Alone, RecoverAlone, IInv', NEW p \in Procs, DkEnd(p)
    PROVE  AInv'
BY AfterCkptPair DEF DkEnd, histVars

(***************************************************************************)
(* multitape_docommit.                                                     *)
(***************************************************************************)

\* The server is asked for the pending commit.
LEMMA CommitPair ==
    ASSUME AInv, Alone, NEW p \in Procs, pc[p] = "remote", loc[p].move = "commit",
           SrvTryCommit(loc[p].mark.seq), UNCHANGED <<cacheVars, acked>>
    PROVE  Paired'
<1>1. Known(p) /\ IInv /\ Absent.seq = 0
  BY Here
<1>2. /\ dir["ckpt_m"] = Absent /\ dir["commit_m"] = loc[p].mark /\ loc[p].mark # Absent
      /\ Synced({})
  BY <1>1 DEF Known, CommitInv, MoveInv
<1>3. /\ disk'["ckpt_m"] = {Absent} /\ disk'["commit_m"] = {loc[p].mark}
      /\ disk' = disk
  BY <1>2 DEF Synced, cacheVars
<1>4. CASE loc[p].mark.seq = cur /\ cur # 0
  <2>1. /\ ver' = Outcome /\ hist' = hist \cup {Outcome} /\ cur' = 0
        /\ Outcome.seq = cur
    BY <1>4 DEF SrvTryCommit, Outcome
  <2>2. MarkerInv'
    BY <1>2, <1>3, <1>4, <2>1 DEF MarkerInv, Pending, IsCheckpointed
  <2>3. QED BY <2>1, <2>2 DEF AInv, Paired, OrderInv, AckedCommitted
<1>5. CASE ~(loc[p].mark.seq = cur /\ cur # 0)
  <2>1. UNCHANGED <<srvVars, hist>>
    BY <1>5 DEF SrvTryCommit
  <2>2. QED BY <1>3, <2>1, Shrinks DEF srvVars
<1>6. QED BY <1>4, <1>5

\* The answer arrives.
LEMMA RemoteCommitPair ==
    ASSUME AInv, Alone, RecoverAlone, IInv', NEW p \in Procs, RemoteCommit(p)
    PROVE  AInv'
<1>1. /\ pc[p] = "remote" /\ loc[p].move = "commit"
      /\ SrvTryCommit(loc[p].mark.seq) /\ UNCHANGED <<cacheVars, acked>>
  BY DEF RemoteCommit
<1>2. Known(p) /\ SeqInv(p) /\ IInv
  BY <1>1, Here
<1>3. loc[p].stage \in {"clean", "commit"}
  BY <1>1, <1>2 DEF Known, CommitInv
<1>4. Goes(p) /\ pc'[p] = "cs_unlink" /\ loc'[p] = loc[p] /\ dir' = dir
  BY <1>1, <1>2, GotoGoes DEF RemoteCommit, cacheVars
<1>5. SeqInv(p)'
  BY <1>1, <1>2, <1>3, <1>4 DEF SeqInv, Known, BeforeWork
<1>6. QED BY <1>1, <1>4, <1>5, CommitPair, PairStep

\* Then the transaction that the marker names is the last one committed.
LEMMA CsPair ==
    ASSUME AInv, Alone, NEW p \in Procs, pc[p] \in InDoCommit
    PROVE  /\ IInv /\ Known(p) /\ SeqInv(p) /\ Absent.seq = 0
           /\ cur = 0 /\ ver.seq = loc[p].mark.seq /\ ver.seq # 0
           /\ dir["commit_m"] = loc[p].mark /\ disk["commit_m"] = {loc[p].mark}
           /\ disk["ckpt_m"] = {Absent}
           /\ loc[p].stage \in {"clean", "commit"}
<1>1. Known(p) /\ SeqInv(p) /\ IInv /\ Absent.seq = 0
  BY Here DEF InDoCommit
<1>2. /\ dir["commit_m"] = loc[p].mark /\ dir["ckpt_m"] = Absent
      /\ loc[p].mark # Absent /\ loc[p].mark.seq # 0
      /\ loc[p].stage \in {"clean", "commit"} /\ cur # loc[p].mark.seq
  BY <1>1, CsFacts
<1>3. disk["commit_m"] = {loc[p].mark} /\ disk["ckpt_m"] = {Absent}
  BY <1>1, <1>2 DEF Known, CommitInv, InDoCommit, Synced
<1>4. cur = 0 /\ ver.seq = loc[p].mark.seq
  BY <1>2, <1>3 DEF AInv, MarkerInv, Pending
<1>5. QED BY <1>1, <1>2, <1>3, <1>4

\* The old sequence number is removed: the pending commit is that of ver.
LEMMA CsUnlinkPair ==
    ASSUME AInv, Alone, RecoverAlone, IInv', NEW p \in Procs, CsUnlink(p)
    PROVE  AInv'
<1>1. /\ pc[p] = "cs_unlink" /\ UNCHANGED <<srvVars, hist, acked>>
      /\ Alter(disk, "cseq", Absent) /\ Goto(p, "cs_link")
  BY DEF CsUnlink, histVars
<1>2. /\ IInv /\ SeqInv(p) /\ Absent.seq = 0 /\ cur = 0 /\ ver.seq # 0
      /\ ver.seq = loc[p].mark.seq /\ disk["commit_m"] = {loc[p].mark}
      /\ loc[p].stage \in {"clean", "commit"}
  BY <1>1, CsPair DEF InDoCommit
<1>3. Goes(p) /\ pc'[p] = "cs_link" /\ loc'[p] = loc[p]
  BY <1>1, <1>2, GotoGoes
<1>4. \A m \in Names \ {"cseq"} : dir'[m] = dir[m] /\ disk'[m] \subseteq disk[m]
  BY <1>1, <1>2, AlterLinks
<1>5. Paired'
  BY <1>1, <1>2, <1>4
  DEF AInv, Paired, MarkerInv, OrderInv, AckedCommitted, Pending, srvVars, IsCheckpointed
<1>6. SeqInv(p)'
  BY <1>1, <1>2, <1>3, <1>4 DEF SeqInv, BeforeWork, Active, Goes, srvVars
<1>7. QED BY <1>1, <1>3, <1>5, <1>6, PairStep

\* The new sequence number is that of the transaction committed.
LEMMA CsLinkPair ==
    ASSUME AInv, Alone, RecoverAlone, IInv', NEW p \in Procs, CsLink(p)
    PROVE  AInv'
<1>1. pc[p] = "cs_link" /\ UNCHANGED <<srvVars, hist, acked>>
  BY DEF CsLink, histVars
<1>2. /\ IInv /\ SeqInv(p) /\ Absent.seq = 0 /\ cur = 0 /\ ver.seq # 0
      /\ ver.seq = loc[p].mark.seq /\ disk["commit_m"] = {loc[p].mark}
      /\ loc[p].stage \in {"clean", "commit"}
  BY <1>1, CsPair DEF InDoCommit
<1>3. CASE Alter(disk, "cseq", Link(loc[p].mark.seq, 0)) /\ Goto(p, "cs_done")
  <2>1. Goes(p) /\ pc'[p] = "cs_done" /\ loc'[p] = loc[p]
    BY <1>2, <1>3, GotoGoes
  <2>2. \A m \in Names \ {"cseq"} : dir'[m] = dir[m] /\ disk'[m] \subseteq disk[m]
    BY <1>2, <1>3, AlterLinks
  <2>3. Paired'
    BY <1>1, <1>2, <2>2
    DEF AInv, Paired, MarkerInv, OrderInv, AckedCommitted, Pending, srvVars, IsCheckpointed
  <2>4. SeqInv(p)'
    BY <1>1, <1>2, <2>1, <2>2 DEF SeqInv, BeforeWork, Active, Goes, srvVars
  <2>5. QED BY <1>1, <2>1, <2>3, <2>4, PairStep
<1>4. CASE Fail(p, "fail")
  BY <1>1, <1>4, FailPair
<1>5. QED BY <1>3, <1>4 DEF CsLink

\* The commit marker is removed: the sequence number is on disk.
LEMMA CsDonePair ==
    ASSUME AInv, Alone, RecoverAlone, IInv', NEW p \in Procs, CsDone(p)
    PROVE  AInv'
<1>1. pc[p] = "cs_done" /\ UNCHANGED <<srvVars, hist, acked>>
  BY DEF CsDone, histVars
<1>2. /\ IInv /\ Known(p) /\ SeqInv(p) /\ Absent.seq = 0 /\ cur = 0 /\ ver.seq # 0
      /\ ver.seq = loc[p].mark.seq /\ disk["commit_m"] = {loc[p].mark}
      /\ dir["commit_m"] = loc[p].mark /\ loc[p].stage \in {"clean", "commit"}
  BY <1>1, CsPair DEF InDoCommit
<1>3. dir["cseq"].seq = ver.seq
  BY <1>1, <1>2 DEF Known, CommitInv, Link
<1>4. CASE Alter(Flushed, "commit_m", Absent) /\ Goto(p, "cs_end")
  <2>1. Goes(p) /\ pc'[p] = "cs_end" /\ loc'[p] = loc[p]
    BY <1>2, <1>4, GotoGoes
  <2>2. /\ \A m \in Names \ {"commit_m"} : dir'[m] = dir[m] /\ disk'[m] \subseteq disk[m]
        /\ disk'["commit_m"] \subseteq disk["commit_m"] \cup {Absent}
        /\ disk'["cseq"] = {dir["cseq"]}
    BY <1>2, <1>4, AlterLinks DEF Alter, Flushed
  <2>3. Paired'
    BY <1>1, <1>2, <1>3, <2>2
    DEF AInv, Paired, MarkerInv, OrderInv, AckedCommitted, Pending, srvVars, IsCheckpointed
  <2>4. SeqInv(p)'
    BY <1>1, <1>2, <2>1, <2>2 DEF SeqInv, BeforeWork, Active, Goes, srvVars
  <2>5. QED BY <1>1, <2>1, <2>3, <2>4, PairStep
<1>5. CASE Fail(p, "fail")
  BY <1>1, <1>5, FailPair
<1>6. QED BY <1>4, <1>5 DEF CsDone

\* The cache directory is clean.  A command that says its transaction has been
\* committed has had it committed.
LEMMA AfterCleanPair ==
    ASSUME AInv, Alone, RecoverAlone, IInv', NEW p \in Procs, Fsync, AfterClean(p),
           pc[p] = "cs_end" \/ (pc[p] = "dm_read" /\ dir["commit_m"] = Absent),
           UNCHANGED <<srvVars, hist>>
    PROVE  AInv'
<1>1. Known(p) /\ SeqInv(p) /\ IInv /\ loc[p] \in LocType /\ pc[p] # "idle" /\ Absent.seq = 0
  BY Here
<1>2. loc[p].stage \in {"clean", "commit"}
  BY <1>1 DEF Known, CommitInv
<1>3. CASE loc[p].stage = "commit"
  <2>1. Ends(p) /\ acked' = acked \cup {loc[p].seq}
    BY <1>1, <1>3, ExitEnds DEF AfterClean
  <2>2. ver \in hist /\ ver.seq = loc[p].seq
    BY <1>1, <1>3 DEF SeqInv, Known, AInv, OrderInv
  <2>3. /\ UNCHANGED <<ver, cur, kind, ckpt, hist>>
        /\ \A n \in Links : disk'[n] \subseteq disk[n]
    BY <1>1, FsyncLinks DEF srvVars
  <2>4. Paired'
    BY <2>1, <2>2, <2>3 DEF AInv, Paired, MarkerInv, OrderInv, AckedCommitted, IsCheckpointed
  <2>5. QED BY <1>1, <2>1, <2>4, PairStep DEF Goes, Ends
<1>4. CASE loc[p].stage = "clean"
  <2>1. PICK l \in {"isck", "cancel"} : Goto(p, l) /\ UNCHANGED acked
    BY <1>4 DEF AfterClean
  <2>2. Goes(p) /\ pc'[p] = l /\ loc'[p] = loc[p]
    BY <1>1, <2>1, GotoGoes
  <2>3. dir' = dir => SeqInv(p)'
    BY <1>1, <1>4, <2>1, <2>2 DEF SeqInv, BeforeWork
  <2>4. QED BY <1>1, <2>1, <2>2, <2>3, FsyncPair
<1>5. QED BY <1>2, <1>3, <1>4

\* The fsync and the read of the commit marker.
LEMMA ReadCommitMPair ==
    ASSUME AInv, Alone, RecoverAlone, IInv', NEW p \in Procs, ReadCommitM(p)
    PROVE  AInv'
<1>1. pc[p] = "dm_read" /\ Fsync /\ UNCHANGED <<srvVars, hist>>
  BY DEF ReadCommitM
<1>2. Known(p) /\ SeqInv(p) /\ IInv /\ loc[p] \in LocType
  BY <1>1, Here
<1>3. CASE dir["commit_m"] = Absent
  BY <1>1, <1>3, AfterCleanPair DEF ReadCommitM
<1>4. CASE dir["commit_m"] # Absent
  <2> DEFINE r == [loc[p] EXCEPT !.mark = dir["commit_m"], !.move = "commit"]
  <2>1. r.op = loc[p].op /\ r.seq = loc[p].seq /\ r.stage = loc[p].stage
    BY <1>2 DEF LocType
  <2>2. Goes(p) /\ pc'[p] = "mv_stat" /\ loc'[p] = r /\ UNCHANGED acked
    BY <1>2, <1>4, <2>1, GotoWithGoes DEF ReadCommitM
  <2>3. loc[p].stage \in {"clean", "commit"}
    BY <1>1, <1>2 DEF Known, CommitInv
  <2>4. dir' = dir => SeqInv(p)'
    BY <1>1, <1>2, <2>1, <2>2, <2>3 DEF SeqInv, Known, BeforeWork
  <2>5. QED BY <1>1, <2>2, <2>4, FsyncPair
<1>5. QED BY <1>3, <1>4

\* The last fsync of multitape_docommit.
LEMMA CsEndPair ==
    ASSUME AInv, Alone, RecoverAlone, IInv', NEW p \in Procs, CsEnd(p)
    PROVE  AInv'
BY AfterCleanPair DEF CsEnd

(***************************************************************************)
(* storage_transaction_commitfromcheckpoint, and the transaction itself.   *)
(***************************************************************************)

\* A step that changes neither the cache directory nor what is committed.
LEMMA CalmPair ==
    ASSUME AInv, Alone, RecoverAlone, IInv', NEW p \in Procs, pc[p] # "idle",
           Goes(p) \/ Ends(p), UNCHANGED <<cacheVars, ver, cur, kind, ckpt, hist, acked>>,
           Goes(p) => SeqInv(p)'
    PROVE  AInv'
<1>1. Paired'
  BY Shrinks DEF cacheVars
<1>2. QED BY <1>1, PairStep

\* What is known before the transaction: the client is in sequence.
LEMMA BeforePair ==
    ASSUME AInv, Alone, NEW p \in Procs, pc[p] \in BeforeWork
    PROVE  /\ IInv /\ Known(p) /\ SeqInv(p) /\ loc[p] \in LocType /\ Absent.seq = 0
           /\ \A n \in Names : disk[n] = {dir[n]}
           /\ dir["commit_m"] = Absent /\ dir["ckpt_m"] = Absent
           /\ loc[p].stage = "clean" /\ dir["cseq"].seq = ver.seq /\ ~IsCheckpointed
<1>1. Known(p) /\ SeqInv(p) /\ IInv /\ loc[p] \in LocType /\ Absent.seq = 0
  BY Here DEF BeforeWork
<1>2. /\ \A n \in Names : disk[n] = {dir[n]}
      /\ dir["commit_m"] = Absent /\ dir["ckpt_m"] = Absent /\ loc[p].stage = "clean"
  BY <1>1 DEF Known, TxnInv, Synced
<1>3. dir["cseq"].seq = ver.seq /\ ~IsCheckpointed
  BY <1>2 DEF AInv, MarkerInv
<1>4. QED BY <1>1, <1>2, <1>3

\* The server is asked whether a transaction is checkpointed: none is.
LEMMA IsCkPair ==
    ASSUME AInv, Alone, RecoverAlone, IInv', NEW p \in Procs, IsCk(p)
    PROVE  AInv'
<1>1. pc[p] = "isck" /\ UNCHANGED <<cacheVars, srvVars, hist, acked>>
  BY DEF IsCk, histVars
<1>2. IInv /\ SeqInv(p) /\ loc[p].stage = "clean" /\ AfterIsCk(p)
  BY <1>1, BeforePair DEF IsCk, BeforeWork
<1>3. CASE Goto(p, "cancel")
  <2>1. Goes(p) /\ pc'[p] = "cancel" /\ loc'[p] = loc[p]
    BY <1>2, <1>3, GotoGoes
  <2>2. SeqInv(p)'
    BY <1>2, <2>1 DEF SeqInv, BeforeWork
  <2>3. QED BY <1>1, <2>1, <2>2, CalmPair DEF srvVars
<1>4. CASE Exit(p, "ok")
  BY <1>1, <1>2, <1>4, ExitEnds, CalmPair DEF srvVars, Goes, Ends
<1>5. QED BY <1>2, <1>3, <1>4 DEF AfterIsCk

\* The transaction in progress is cancelled.
LEMMA CancelPair ==
    ASSUME AInv, Alone, RecoverAlone, IInv', NEW p \in Procs, Cancel(p)
    PROVE  AInv'
<1> DEFINE r == [loc[p] EXCEPT !.mark = Link(dir["cseq"].seq, 0)]
<1>1. /\ pc[p] = "cancel" /\ UNCHANGED <<cacheVars, ver, kind, ckpt, hist, acked>>
      /\ cur' \in {0, cur}
  BY DEF Cancel, SrvCancel, histVars
<1>2. /\ IInv /\ SeqInv(p) /\ loc[p].stage = "clean" /\ loc[p] \in LocType
      /\ dir["commit_m"] = Absent /\ dir["ckpt_m"] = Absent /\ dir["cseq"].seq = ver.seq
      /\ ~IsCheckpointed /\ \A n \in Names : disk[n] = {dir[n]}
  BY <1>1, BeforePair DEF BeforeWork
<1>3. r.op = loc[p].op /\ r.seq = loc[p].seq /\ r.stage = loc[p].stage
  BY <1>2 DEF LocType
<1>4. Goes(p) /\ pc'[p] = "start" /\ loc'[p] = r
  BY ZenonT(40), <1>2, <1>3, GotoWithGoes DEF Cancel
<1>5. Paired'
  BY <1>1, <1>2
  DEF AInv, Paired, MarkerInv, OrderInv, AckedCommitted, Pending, IsCheckpointed, cacheVars
<1>6. SeqInv(p)'
  BY <1>2, <1>3, <1>4 DEF SeqInv, BeforeWork
<1>7. QED BY <1>1, <1>4, <1>5, <1>6, PairStep

\* The server starts a transaction: nothing names one before it.
LEMMA StartedPair ==
    ASSUME AInv, Alone, NEW p \in Procs, pc[p] = "start", NEW k, SrvStart(k),
           UNCHANGED <<cacheVars, hist, acked>>
    PROVE  Paired'
<1>1. cur' = next /\ ckpt' = Absent /\ ver' = ver
  BY DEF SrvStart
<1>2. /\ dir["commit_m"] = Absent /\ dir["ckpt_m"] = Absent /\ dir["cseq"].seq = ver.seq
      /\ \A n \in Names : disk[n] = {dir[n]}
  BY BeforePair DEF BeforeWork
<1>3. ver.seq < next
  BY DEF AInv, IInv, SrvInv
<1>4. MarkerInv'
  BY <1>1, <1>2 DEF MarkerInv, Pending, IsCheckpointed, cacheVars
<1>5. QED BY <1>1, <1>3, <1>4 DEF AInv, Paired, OrderInv, AckedCommitted

\* The answer arrives: it is never a mismatch.
LEMMA StartPair ==
    ASSUME AInv, Alone, RecoverAlone, IInv', NEW p \in Procs, Start(p)
    PROVE  AInv' /\ Startable(p)
<1> DEFINE r == [loc[p] EXCEPT !.seq = next]
<1>1. pc[p] = "start" /\ UNCHANGED <<cacheVars, hist, acked>>
  BY DEF Start
<1>2. /\ IInv /\ SeqInv(p) /\ loc[p].stage = "clean" /\ loc[p] \in LocType
      /\ dir["cseq"].seq = ver.seq /\ Known(p)
  BY <1>1, BeforePair DEF BeforeWork
<1>3. Startable(p)
  BY <1>1, <1>2 DEF Startable, Known, TxnInv
<1>4. SrvStart(KindOf(p)) /\ GotoWith(p, "open", r)
  BY <1>3 DEF Start
<1>5. r.op = loc[p].op /\ r.seq = next /\ r.stage = loc[p].stage
  BY <1>2 DEF LocType
<1>6. Goes(p) /\ pc'[p] = "open" /\ loc'[p] = r
  BY <1>2, <1>4, <1>5, GotoWithGoes
<1>7. cur' = next
  BY <1>4 DEF SrvStart
<1>8. Paired'
  BY <1>1, <1>4, StartedPair
<1>9. SeqInv(p)'
  BY <1>2, <1>5, <1>6, <1>7 DEF SeqInv, BeforeWork
<1>10. QED BY <1>1, <1>3, <1>6, <1>8, <1>9, PairStep

\* chunks_write_start or chunks_delete_start.
LEMMA OpenPair ==
    ASSUME AInv, Alone, RecoverAlone, IInv', NEW p \in Procs, Open(p)
    PROVE  AInv'
<1>1. pc[p] = "open" /\ UNCHANGED <<cacheVars, srvVars, hist, acked>>
  BY DEF Open, histVars
<1>2. IInv /\ SeqInv(p) /\ Known(p) /\ loc[p] \in LocType
  BY <1>1, BeforePair DEF BeforeWork
<1>3. PICK l \in {"work", "wr_open", "flush"}, r \in {loc'[p]} :
         /\ GotoWith(p, l, r)
         /\ r.op = loc[p].op /\ r.seq = loc[p].seq /\ r.stage = "work"
  BY <1>2 DEF Open, GotoWith, LocType, IInv, TypeOK, ProcOK
<1>4. Goes(p) /\ pc'[p] = l /\ loc'[p] = r
  BY <1>2, <1>3, GotoWithGoes
<1>5. SeqInv(p)'
  BY <1>1, <1>2, <1>3, <1>4 DEF SeqInv, BeforeWork, Known, srvVars
<1>6. QED BY <1>1, <1>4, <1>5, CalmPair DEF srvVars

\* Some of the archive has been written.
LEMMA WorkPair ==
    ASSUME AInv, Alone, RecoverAlone, IInv', NEW p \in Procs, Work(p)
    PROVE  AInv'
<1>1. pc[p] = "work" /\ UNCHANGED <<cacheVars, srvVars, hist, acked>>
  BY DEF Work, histVars
<1>2. IInv /\ SeqInv(p) /\ Known(p) /\ loc[p] \in LocType
  BY <1>1, Here
<1>3. PICK s \in {"work", "close"} :
         GotoWith(p, "flush", [loc[p] EXCEPT !.stage = s, !.ck = @ + 1])
  BY DEF Work
<1>4. PICK r \in {[loc[p] EXCEPT !.stage = s, !.ck = @ + 1]} :
         GotoWith(p, "flush", r) /\ r.op = loc[p].op /\ r.seq = loc[p].seq /\ r.stage = s
  BY <1>2, <1>3 DEF LocType
<1>5. Goes(p) /\ pc'[p] = "flush" /\ loc'[p] = r
  BY <1>2, <1>4, GotoWithGoes
<1>6. loc[p].stage = "work"
  BY <1>1, <1>2 DEF Known, TxnInv
<1>7. SeqInv(p)'
  BY <1>1, <1>2, <1>3, <1>4, <1>5, <1>6 DEF SeqInv, BeforeWork, Known, srvVars
<1>8. QED BY <1>1, <1>5, <1>7, CalmPair DEF srvVars

\* The requests of the transaction are answered.
LEMMA FlushPair ==
    ASSUME AInv, Alone, RecoverAlone, IInv', NEW p \in Procs, Flush(p)
    PROVE  AInv'
<1>1. pc[p] = "flush" /\ UNCHANGED <<cacheVars, ver, cur, kind, ckpt, hist, acked>>
  BY DEF Flush, histVars
<1>2. IInv /\ SeqInv(p) /\ Known(p) /\ loc[p].op # "nuke"
  BY <1>1, Here
<1>3. loc[p].stage \in {"work", "close"}
  BY <1>1, <1>2 DEF Known, TxnInv, InWork
<1>4. CASE AfterFlush(p)
  <2>1. PICK l \in {"mark", "wr_open"} : Goto(p, l)
    BY <1>2, <1>4 DEF AfterFlush
  <2>2. Goes(p) /\ pc'[p] = l /\ loc'[p] = loc[p]
    BY <1>2, <2>1, GotoGoes
  <2>3. SeqInv(p)'
    BY <1>1, <1>2, <1>3, <2>1, <2>2 DEF SeqInv, BeforeWork, Known
  <2>4. QED BY <1>1, <2>2, <2>3, CalmPair
<1>5. CASE Exit(p, "fail")
  BY <1>1, <1>2, <1>5, ExitEnds, CalmPair DEF Goes, Ends
<1>6. QED BY <1>4, <1>5 DEF Flush

\* The new chunk directory is opened for writing.
LEMMA WrOpenPair ==
    ASSUME AInv, Alone, RecoverAlone, IInv', NEW p \in Procs, WrOpen(p)
    PROVE  AInv'
<1>1. /\ pc[p] = "wr_open" /\ UNCHANGED <<srvVars, hist, acked>>
      /\ Truncate(WrittenFile(p), Torn(p)) /\ Goto(p, "wr_close")
  BY DEF WrOpen, histVars
<1>2. IInv /\ SeqInv(p) /\ Known(p)
  BY <1>1, Here
<1>3. Goes(p) /\ pc'[p] = "wr_close" /\ loc'[p] = loc[p]
  BY <1>1, <1>2, GotoGoes
<1>4. \A n \in Links : disk'[n] \subseteq disk[n] /\ dir'[n] = dir[n]
  BY <1>1 DEF Truncate, WrittenFile
<1>5. QED BY <1>1, <1>3, <1>4, FileStep DEF srvVars, BeforeWork

\* It is written and synced.
LEMMA WrClosePair ==
    ASSUME AInv, Alone, RecoverAlone, IInv', NEW p \in Procs, WrClose(p)
    PROVE  AInv'
<1>1. pc[p] = "wr_close" /\ UNCHANGED <<srvVars, hist, acked>>
  BY DEF WrClose, histVars
<1>2. IInv /\ SeqInv(p) /\ Known(p)
  BY <1>1, Here
<1>3. PICK l \in {"flush", "mark"} : Goto(p, l)
  BY DEF WrClose
<1>4. Goes(p) /\ pc'[p] = l /\ loc'[p] = loc[p]
  BY <1>2, <1>3, GotoGoes
<1>5. \A n \in Links : disk'[n] \subseteq disk[n] /\ dir'[n] = dir[n]
  BY <1>2 DEF WrClose, Finish, IInv, DiskInv
<1>6. QED BY <1>1, <1>3, <1>4, <1>5, FileStep DEF srvVars, BeforeWork

\* The marker of a checkpoint, or of a commit, names the transaction in progress.
LEMMA MarkPair ==
    ASSUME AInv, Alone, RecoverAlone, IInv', NEW p \in Procs, Mark(p)
    PROVE  AInv'
<1>1. pc[p] = "mark" /\ UNCHANGED <<srvVars, hist, acked>>
  BY DEF Mark, histVars
<1>2. IInv /\ SeqInv(p) /\ Known(p) /\ loc[p] \in LocType /\ Absent.seq = 0
  BY <1>1, Here
<1>3. loc[p].stage \in {"work", "close"} /\ Synced({}) /\ InTxn(p) /\ dir["ckpt_m"] = Absent
  BY <1>1, <1>2 DEF Known, TxnInv, InWork, BeforeWork
<1>4. cur = loc[p].seq /\ cur # 0
  BY <1>1, <1>2, <1>3 DEF SeqInv, Known, InTxn, BeforeWork
<1>5. CASE Fail(p, "fail")
  BY <1>1, <1>5, FailPair
<1>6. CASE /\ loc[p].op = "write"
           /\ Alter(disk, "ckpt_m", Link(loc[p].seq, loc[p].ck)) /\ Goto(p, "dk_read")
  <2>1. Goes(p) /\ pc'[p] = "dk_read" /\ loc'[p] = loc[p]
    BY <1>2, <1>6, GotoGoes
  <2>2. /\ dir'["ckpt_m"] = Link(loc[p].seq, loc[p].ck)
        /\ disk'["ckpt_m"] \subseteq disk["ckpt_m"] \cup {Link(loc[p].seq, loc[p].ck)}
        /\ \A m \in Names \ {"ckpt_m"} : dir'[m] = dir[m] /\ disk'[m] \subseteq disk[m]
    BY <1>2, <1>6, AlterLinks
  <2>3. Link(loc[p].seq, loc[p].ck).seq = cur
    BY <1>4 DEF Link
  <2>4. disk["ckpt_m"] = {Absent}
    BY <1>3 DEF Synced
  <2>5. Paired'
    BY <1>1, <1>4, <2>2, <2>3, <2>4
    DEF AInv, Paired, MarkerInv, OrderInv, AckedCommitted, Pending, srvVars, IsCheckpointed
  <2>6. SeqInv(p)'
    BY <1>1, <1>2, <1>3, <1>4, <2>1, <2>2, <2>3 DEF SeqInv, BeforeWork, Known, srvVars
  <2>7. QED BY <1>1, <2>1, <2>5, <2>6, PairStep
<1>7. CASE /\ loc[p].op # "write"
           /\ Alter(disk, "commit_m", Link(loc[p].seq, 0))
           /\ GotoWith(p, "dm_read", [loc[p] EXCEPT !.stage = "commit"])
  <2> DEFINE r == [loc[p] EXCEPT !.stage = "commit"]
  <2>1. r.op = loc[p].op /\ r.seq = loc[p].seq /\ r.stage = "commit"
    BY <1>2 DEF LocType
  <2>2. Goes(p) /\ pc'[p] = "dm_read" /\ loc'[p] = r
    BY <1>2, <1>7, <2>1, GotoWithGoes
  <2>3. /\ dir'["commit_m"] = Link(loc[p].seq, 0)
        /\ disk'["commit_m"] \subseteq disk["commit_m"] \cup {Link(loc[p].seq, 0)}
        /\ \A m \in Names \ {"commit_m"} : dir'[m] = dir[m] /\ disk'[m] \subseteq disk[m]
    BY <1>2, <1>7, AlterLinks
  <2>4. Link(loc[p].seq, 0).seq = cur
    BY <1>4 DEF Link
  <2>5. disk["commit_m"] = {Absent} /\ disk["ckpt_m"] = {Absent}
    BY <1>3, <1>7 DEF Synced, InTxn
  <2>6. Paired'
    BY <1>1, <1>4, <2>3, <2>4, <2>5
    DEF AInv, Paired, MarkerInv, OrderInv, AckedCommitted, Pending, srvVars, IsCheckpointed
  <2>7. SeqInv(p)'
    BY <1>1, <1>2, <1>3, <1>4, <2>1, <2>2, <2>3, <2>4 DEF SeqInv, BeforeWork, Known, srvVars
  <2>8. QED BY <1>1, <2>2, <2>6, <2>7, PairStep
<1>8. QED BY <1>5, <1>6, <1>7 DEF Mark

(***************************************************************************)
(* The environment.                                                        *)
(***************************************************************************)

\* Every step of a command keeps AInv.
LEMMA StepPair ==
    ASSUME AInv, Alone, RecoverAlone, IInv', NEW p \in Procs, Step(p)
    PROVE  AInv'
<1>1. CASE StartRefused(p)
  BY <1>1, FailPair DEF StartRefused, histVars
<1>2. CASE IsCkCommit(p)
  BY <1>2, Here DEF IsCkCommit, SeqInv, Known
<1>3. CASE NukeCommit(p)
  BY <1>3, Here DEF NukeCommit, Known, TxnInv
<1>4. QED
  BY <1>1, <1>2, <1>3, ReadCkptMPair, MvStatPair, MvLinkPair, MvUnlinkPair, MvEndPair,
     RemoteCheckpointPair, RemoteCommitPair, DkUnlinkPair, DkLinkPair, DkDonePair, DkEndPair,
     ReadCommitMPair, CsUnlinkPair, CsLinkPair, CsDonePair, CsEndPair, IsCkPair,
     CancelPair, StartPair, OpenPair, WorkPair, FlushPair, WrOpenPair, WrClosePair, MarkPair
  DEF Step

\* A request is repeated.
LEMMA LostReplyPair ==
    ASSUME AInv, Alone, RecoverAlone, IInv', NEW p \in Procs, LostReply(p)
    PROVE  AInv'
<1>1. UNCHANGED <<cacheVars, procVars, acked>> /\ pc[p] # "idle"
  BY DEF LostReply
<1>2. Known(p) /\ SeqInv(p) /\ IInv /\ Absent.seq = 0
  BY <1>1, Here
<1>3. Goes(p) /\ pc'[p] = pc[p] /\ loc'[p] = loc[p] /\ dir' = dir
  BY <1>1 DEF Goes, Bystander, procVars, cacheVars
<1>4. CASE /\ pc[p] = "remote" /\ loc[p].move = "ckpt"
           /\ SrvCheckpoint(cur, loc[p].mark.ck) /\ UNCHANGED hist
  <2>1. dir["ckpt_m"] = loc[p].mark /\ disk["ckpt_m"] = {loc[p].mark} /\ loc[p].mark # Absent
    BY <1>2, <1>4 DEF Known, CkptInv
  <2>2. UNCHANGED <<ver, cur, kind>> /\ disk' = disk
    BY <1>1, <1>4 DEF SrvCheckpoint, cacheVars
  <2>3. Paired'
    BY <1>1, <1>4, <2>1, <2>2 DEF AInv, Paired, MarkerInv, OrderInv, AckedCommitted
  <2>4. SeqInv(p)'
    BY <1>2, <1>3, <1>4, <2>2 DEF SeqInv, Known, BeforeWork
  <2>5. QED BY <1>1, <1>3, <2>3, <2>4, PairStep
<1>5. CASE pc[p] = "remote" /\ loc[p].move = "commit" /\ SrvTryCommit(loc[p].mark.seq)
  <2>1. loc[p].stage \in {"clean", "commit"}
    BY <1>2, <1>5 DEF Known, CommitInv
  <2>2. SeqInv(p)'
    BY <1>2, <1>3, <1>5, <2>1 DEF SeqInv, Known, BeforeWork
  <2>3. QED BY <1>1, <1>3, <1>5, <2>2, CommitPair, PairStep
<1>6. CASE pc[p] = "start" /\ SrvStart(KindOf(p)) /\ UNCHANGED hist
  <2>1. loc[p].stage = "clean"
    BY <1>6, BeforePair DEF BeforeWork
  <2>2. SeqInv(p)'
    BY <1>2, <1>3, <1>6, <2>1 DEF SeqInv, BeforeWork
  <2>3. QED BY <1>1, <1>3, <1>6, <2>2, StartedPair, PairStep
<1>7. pc[p] # "isck_commit" /\ pc[p] # "nk_commit"
  BY <1>2 DEF SeqInv, Known, TxnInv
<1>8. QED BY <1>4, <1>5, <1>6, <1>7 DEF LostReply

\* A command is run.
LEMMA BeginPair ==
    ASSUME AInv, Alone, RecoverAlone, IInv', NEW p \in Procs, NEW o \in Ops, Begin(p, o)
    PROVE  AInv'
<1>1. pc[p] = "idle" /\ UNCHANGED <<cacheVars, srvVars, hist, acked>> /\ IInv
  BY DEF Begin, histVars, AInv
<1>2. Paired'
  BY <1>1, Shrinks DEF cacheVars, srvVars
<1>3. o # "nuke"
  BY DEF Alone
<1>4. SeqInv(p)'
  <2>1. CASE UNCHANGED <<pc, loc>>
    BY <1>1, <2>1 DEF SeqInv, Active
  <2>2. CASE loc' = [loc EXCEPT ![p] = [Idle EXCEPT !.op = o]] /\ pc' = [pc EXCEPT ![p] = "dk_read"]
    <3>1. loc'[p].stage = "clean" /\ pc'[p] = "dk_read"
      BY <1>1, <2>2 DEF Idle, IInv, TypeOK, ProcOK
    <3>2. QED BY <3>1 DEF SeqInv
  <2>3. QED BY <1>3, <2>1, <2>2 DEF Begin
<1>5. ASSUME NEW q \in Procs \ {p} PROVE SeqInv(q)'
  <2>1. pc'[q] = pc[q] /\ loc'[q] = loc[q]
    BY <1>1 DEF Begin, IInv, TypeOK, ProcOK
  <2>2. SeqInv(q)
    BY DEF AInv
  <2>3. QED BY <1>1, <2>1, <2>2 DEF SeqInv, Active, cacheVars, srvVars, BeforeWork
<1>6. QED BY <1>2, <1>4, <1>5 DEF AInv, Paired

\* A process dies.
LEMMA CrashPair ==
    ASSUME AInv, Alone, RecoverAlone, IInv', NEW p \in Procs, Crash(p)
    PROVE  AInv'
<1>1. /\ pc[p] # "idle" /\ Exit(p, "fail")
      /\ UNCHANGED <<cacheVars, srvVars, hist, acked>>
  BY DEF Crash
<1>2. Ends(p)
  BY <1>1, ExitEnds DEF AInv
<1>3. QED BY <1>1, <1>2, CalmPair DEF srvVars, Goes, Ends

\* Power fails: what it can bring back is known.
LEMMA PowerLossPair ==
    ASSUME AInv, IInv', PowerLoss
    PROVE  AInv'
<1>1. PICK c \in disk["cseq"], m \in disk["commit_m"], k \in disk["ckpt_m"],
           d \in disk["directory"], t \in disk["directory.tmp"],
           f \in disk["directory.ckpt"] : dir' = Contents(c, m, k, d, t, f)
  BY DEF PowerLoss
<1>2. dir'["cseq"] = c /\ dir'["commit_m"] = m /\ dir'["ckpt_m"] = k
  BY <1>1 DEF Contents
<1>3. \A n \in Links : disk'[n] = {dir'[n]}
  BY DEF PowerLoss
<1>4. Paired'
  BY <1>2, <1>3, Shrinks DEF PowerLoss, srvVars
<1>5. \A p \in Procs : SeqInv(p)'
  BY DEF PowerLoss, SeqInv, Active
<1>6. QED BY <1>4, <1>5 DEF AInv, Paired

\* The initial state.
LEMMA InitPair == Init => AInv
<1> SUFFICES ASSUME Init PROVE AInv
  OBVIOUS
<1>1. IInv
  BY InitInv
<1>2. Absent.seq = 0
  BY DEF Absent
<1>3. MarkerInv /\ OrderInv /\ AckedCommitted
  BY <1>2 DEF Init, MarkerInv, OrderInv, AckedCommitted, Pending, IsCheckpointed
<1>4. \A p \in Procs : SeqInv(p)
  BY DEF Init, SeqInv, Active
<1>5. QED BY <1>1, <1>3, <1>4 DEF AInv

\* Every step keeps AInv.
LEMMA NextPair ==
    ASSUME Alone, RecoverAlone, RenameSafe
    PROVE  AInv /\ [Next]_vars => AInv'
<1> SUFFICES ASSUME AInv, [Next]_vars PROVE AInv'
  OBVIOUS
<1>1. IInv'
  BY NextInv DEF AInv
<1>2. CASE UNCHANGED vars
  <2>1. UNCHANGED <<cacheVars, srvVars, hist, acked, pc, loc>>
    BY <1>2 DEF vars, procVars, histVars
  <2>2. Paired'
    BY <2>1, Shrinks DEF cacheVars, srvVars
  <2>3. \A p \in Procs : SeqInv(p)'
    BY <2>1 DEF AInv, SeqInv, Active, cacheVars, srvVars, BeforeWork
  <2>4. QED BY <1>1, <2>2, <2>3 DEF AInv, Paired
<1>3. CASE Next
  <2>1. ~(ForeignRecover \/ ForeignCheckpoint \/ ForeignCommit)
    BY DEF Alone, ForeignRecover, ForeignCheckpoint, ForeignCommit
  <2>2. QED
    BY <1>1, <1>3, <2>1, BeginPair, StepPair, LostReplyPair, CrashPair, PowerLossPair DEF Next
<1>4. QED BY <1>2, <1>3

\* AInv holds in every state of a machine that is alone with its keys: the markers
\* of the cache directory name the transaction in progress or the one committed
\* last, whatever crashes, power failures and lost replies come between.
THEOREM Sequenced ==
    ASSUME Alone, RecoverAlone, RenameSafe
    PROVE  Spec => []AInv
BY InitPair, NextPair, PTL DEF Spec

(***************************************************************************)
(* What it is for.                                                         *)
(***************************************************************************)

\* A command that reports success has had its transaction committed by the
\* server, though the answer to a commit says nothing of what it committed.
THEOREM SuccessMeansCommitted ==
    ASSUME Alone, RecoverAlone, RenameSafe
    PROVE  Spec => []AckedCommitted
<1>1. AInv => AckedCommitted
  BY DEF AInv
<1>2. QED BY <1>1, Sequenced, PTL

\* Only the answers to a checkpoint and to a start can be a mismatch.
LEMMA Sequences ==
    ASSUME Alone, RecoverAlone, AInv, IInv', NeverOutOfSequence, [Next]_vars
    PROVE  NeverOutOfSequence'
<1>1. out \in [Procs -> [op : AllOps \cup {"none"}, res : Results]]
  BY DEF AInv, IInv, TypeOK, ProcOK
<1>2. ASSUME NEW p \in Procs, NEW res, res # "mismatch", Exit(p, res)
      PROVE  NeverOutOfSequence'
  BY <1>1, <1>2 DEF Exit, NeverOutOfSequence
<1>3. ASSUME NEW p \in Procs, Step(p) PROVE NeverOutOfSequence'
  <2>1. CASE out' = out
    BY <2>1 DEF NeverOutOfSequence
  <2>2. CASE Fail(p, "fail") \/ Exit(p, "fail") \/ Exit(p, "ok")
    BY <1>2, <2>2 DEF Fail
  <2>3. RemoteCheckpoint(p) => out' = out
    BY RemoteCheckpointPair DEF RemoteCheckpoint, Goto
  <2>4. Start(p) => out' = out
    BY StartPair DEF Start, GotoWith
  <2>5. CASE AfterCkpt(p) \/ AfterClean(p) \/ AfterIsCk(p) \/ AfterFlush(p)
    BY <1>2, <2>1, <2>5 DEF AfterCkpt, AfterClean, AfterIsCk, AfterFlush, Goto, GotoWith
  <2>6. ReadCkptM(p) \/ MvStat(p) \/ MvLink(p) \/ MvUnlink(p) \/ MvEnd(p) \/ RemoteCommit(p)
        \/ DkUnlink(p) \/ DkLink(p) \/ DkDone(p) \/ DkEnd(p) => NeverOutOfSequence'
    BY <2>1, <2>2, <2>5
    DEF ReadCkptM, MvStat, MvLink, MvUnlink, MvEnd, RemoteCommit, DkUnlink, DkLink, DkDone,
        DkEnd, Goto, GotoWith
  <2>7. ReadCommitM(p) \/ CsUnlink(p) \/ CsLink(p) \/ CsDone(p) \/ CsEnd(p) \/ IsCk(p)
        \/ IsCkCommit(p) \/ Cancel(p) \/ StartRefused(p) => NeverOutOfSequence'
    BY <2>1, <2>2, <2>5
    DEF ReadCommitM, CsUnlink, CsLink, CsDone, CsEnd, IsCk, IsCkCommit, Cancel, StartRefused,
        Goto, GotoWith
  <2>8. Open(p) \/ Work(p) \/ Flush(p) \/ WrOpen(p) \/ WrClose(p) \/ Mark(p) \/ NukeCommit(p)
        => NeverOutOfSequence'
    BY <2>1, <2>2, <2>5
    DEF Open, Work, Flush, WrOpen, WrClose, Mark, NukeCommit, Goto, GotoWith
  <2>9. QED BY <1>3, <2>1, <2>3, <2>4, <2>6, <2>7, <2>8 DEF Step
<1>4. ASSUME NEW p \in Procs, NEW o \in Ops, Begin(p, o) PROVE NeverOutOfSequence'
  BY <1>1, <1>4 DEF Begin, NeverOutOfSequence
<1>5. ASSUME NEW p \in Procs, Crash(p) PROVE NeverOutOfSequence'
  BY <1>2, <1>5 DEF Crash
<1>6. ASSUME NEW p \in Procs, LostReply(p) PROVE NeverOutOfSequence'
  BY <1>6 DEF LostReply, procVars, NeverOutOfSequence
<1>7. CASE PowerLoss
  BY <1>7 DEF PowerLoss, NeverOutOfSequence
<1>8. CASE UNCHANGED vars
  BY <1>8 DEF vars, procVars, NeverOutOfSequence
<1>9. ~(ForeignRecover \/ ForeignCheckpoint \/ ForeignCommit)
  BY DEF Alone, ForeignRecover, ForeignCheckpoint, ForeignCommit
<1>10. QED BY <1>3, <1>4, <1>5, <1>6, <1>7, <1>8, <1>9 DEF Next

\* Crashes, power failures and lost replies never put the client and the server
\* out of sequence, so that the user would have to run --fsck.
THEOREM InSequence ==
    ASSUME Alone, RecoverAlone, RenameSafe
    PROVE  Spec => []NeverOutOfSequence
<1>1. Init => NeverOutOfSequence
  <2>1. \A p \in Procs : Init => out[p].res = "none"
    BY DEF Init
  <2>2. QED BY <2>1 DEF NeverOutOfSequence
<1>2. AInv /\ AInv' /\ NeverOutOfSequence /\ [Next]_vars => NeverOutOfSequence'
  BY Sequences DEF AInv
<1>3. QED BY <1>1, <1>2, Sequenced, PTL DEF Spec

(***************************************************************************)
(* Multitape implements TwoSite.                                           *)
(***************************************************************************)
Client == IF dir["commit_m"] # Absent THEN << >> ELSE <<dir["cseq"].seq, dir["directory"]>>

\* The client is in doubt, or agrees with the server.
LEMMA ClientAgrees ==
    ASSUME AInv
    PROVE  Client = << >> \/ Client = <<ver.seq, ver>>
<1> SUFFICES ASSUME dir["commit_m"] = Absent
             PROVE  dir["cseq"].seq = ver.seq /\ dir["directory"] = ver
  BY DEF Client
<1>1. \A n \in Names : dir[n] \in disk[n]
  BY DEF AInv, IInv, DiskInv
<1>2. dir["cseq"].seq = ver.seq
  BY <1>1 DEF AInv, MarkerInv
<1>3. QED BY <1>2 DEF AInv, IInv, CacheInv, Good, GoodSync, Pending

\* The server commits a whole transaction, newer than the last, and only while
\* the client is in doubt.
LEMMA ServerCommits ==
    ASSUME AInv, Alone, NEW p \in Procs, pc[p] = "remote", loc[p].move = "commit",
           SrvTryCommit(loc[p].mark.seq), UNCHANGED cacheVars, ver' # ver
    PROVE  /\ dir["commit_m"] # Absent /\ dir' = dir
           /\ ver'.seq > ver.seq /\ ver'.whole
<1>1. ver' = Outcome /\ loc[p].mark.seq = cur /\ cur # 0
  BY DEF SrvTryCommit, srvVars
<1>2. Known(p) /\ IInv
  BY Here
<1>3. dir["ckpt_m"] = Absent /\ dir["commit_m"] = loc[p].mark /\ loc[p].mark # Absent
  BY <1>2 DEF Known, CommitInv
<1>4. Outcome.whole /\ Outcome.seq = cur
  BY <1>1, <1>2, <1>3 DEF Known, Good, GoodCommit, Pending, Outcome
<1>5. ver.seq < cur /\ ver.seq \in Nat /\ cur \in Nat
  BY <1>1 DEF AInv, OrderInv, IInv, TypeOK, SrvOK, Entry
<1>6. QED BY <1>1, <1>3, <1>4, <1>5 DEF cacheVars

\* Only the answer to a commit changes what is committed.
LEMMA ServerMoves ==
    ASSUME AInv, Alone, [Next]_vars, ver' # ver
    PROVE  \E p \in Procs : /\ pc[p] = "remote" /\ loc[p].move = "commit"
                            /\ SrvTryCommit(loc[p].mark.seq) /\ UNCHANGED cacheVars
<1>1. ~(ForeignRecover \/ ForeignCheckpoint \/ ForeignCommit) /\ ~PowerLoss /\ ~UNCHANGED vars
  BY DEF Alone, ForeignRecover, ForeignCheckpoint, ForeignCommit, PowerLoss, vars, srvVars
<1>2. ASSUME NEW p \in Procs, NEW o, Begin(p, o) PROVE FALSE
  BY <1>2 DEF Begin, srvVars
<1>3. ASSUME NEW p \in Procs, Crash(p) PROVE FALSE
  BY <1>3 DEF Crash, srvVars
<1>4. PICK p \in Procs : Step(p) \/ LostReply(p)
  BY <1>1, <1>2, <1>3 DEF Next
<1>5. pc[p] # "idle" => pc[p] # "isck_commit" /\ pc[p] # "nk_commit"
  BY Here DEF SeqInv, Known, TxnInv
<1>6. CASE LostReply(p)
  BY <1>5, <1>6 DEF LostReply, SrvCheckpoint, SrvStart
<1>7. CASE Step(p)
  <2>1. ~IsCkCommit(p) /\ ~NukeCommit(p)
    BY <1>5 DEF IsCkCommit, NukeCommit
  <2>2. ~RemoteCheckpoint(p) /\ ~Cancel(p) /\ ~Start(p) /\ ~Flush(p)
    BY DEF RemoteCheckpoint, SrvCheckpoint, Cancel, SrvCancel, Start, SrvStart, Flush, srvVars
  <2>3. RemoteCommit(p)
    BY <1>7, <2>1, <2>2
    DEF Step, ReadCkptM, MvStat, MvLink, MvUnlink, MvEnd, DkUnlink, DkLink, DkDone, DkEnd,
        ReadCommitM, CsUnlink, CsLink, CsDone, CsEnd, IsCk, StartRefused, Open, Work,
        WrOpen, WrClose, Mark, srvVars
  <2>4. QED BY <2>3 DEF RemoteCommit
<1>8. QED BY <1>4, <1>6, <1>7

\* The cache directory and the server change as one: every step of Multitape is a
\* decision, a commit, the end of the client's doubt, or nothing to TwoSite.
THEOREM ImplementsTwoSite ==
    ASSUME Alone, RecoverAlone, RenameSafe
    PROVE  Spec => Atomic
<1>1. Init => TS!TSInit
  BY DEF Init, TS!TSInit, TS!Agreed
<1>2. AInv /\ AInv' /\ [Next]_vars => [TS!TSNext]_<<ver, Client>>
  <2> SUFFICES ASSUME AInv, AInv', [Next]_vars
               PROVE  [TS!TSNext]_<<ver, Client>>
    OBVIOUS
  <2>1. CASE ver' = ver
    <3>1. Client \in {<< >>, <<ver.seq, ver>>} /\ Client' \in {<< >>, <<ver.seq, ver>>}
      <4>1. (Client = << >> \/ Client = <<ver.seq, ver>>)'
        BY ClientAgrees, PTL
      <4>2. QED BY <2>1, <4>1, ClientAgrees
    <3>2. QED BY <2>1, <3>1 DEF TS!TSNext, TS!Decide, TS!Resolve, TS!Agreed, Client
  <2>2. CASE ver' # ver
    <3>1. /\ dir["commit_m"] # Absent /\ dir' = dir
          /\ ver'.seq > ver.seq /\ ver'.whole
      BY <2>2, ServerMoves, ServerCommits
    <3>2. QED BY <3>1 DEF TS!TSNext, TS!Commit, Client
  <2>3. QED BY <2>1, <2>2
<1>3. QED BY <1>1, <1>2, Sequenced, PTL DEF Spec, Atomic, TS!TSSpec, Client
=============================================================================
