--------------------------- MODULE RecryptProofs ---------------------------
(***************************************************************************)
(* However often tarsnap-recrypt is interrupted, and whatever else is done *)
(* in between, no archive is lost (NeverLost) and the new chunk directory  *)
(* describes what was deleted (DirectoryFirst).                            *)
(***************************************************************************)
EXTENDS RecryptInv, TLAPS

USE DEF Machines, O, N, files, proc, past, spent

(***************************************************************************)
(* Types.                                                                  *)
(***************************************************************************)

\* What the helpers on servers and directories return.
LEMMA CommitType ==
    ASSUME NEW s \in Server, NEW t \in Nat
    PROVE  Commit(s, t) \in Server /\ Committed(s, t) \subseteq Archives
<1>1. Commit(s, t) \in Server
  BY Zenon DEF Commit, Server
<1>2. QED BY <1>1 DEF Committed, Server

LEMMA RemovedType ==
    ASSUME TypeOK, NEW m \in Machines, NEW t
    PROVE  Removed(m, t) \subseteq Blocks
BY DEF TypeOK, Removed, Server

LEMMA StartedType ==
    ASSUME NEW s \in Server, next \in Nat, NEW a \in SUBSET Blocks,
           NEW d \in SUBSET Blocks, NEW r \in SUBSET Archives
    PROVE  Started(s, a, d, r) \in Server
BY Zenon DEF Started, Server

LEMMA ExtendedType ==
    ASSUME NEW s \in Server, next \in Nat, NEW a \in SUBSET Blocks
    PROVE  Extended(s, a) \in Server
<1>1. s.blocks \cup a \in SUBSET Blocks
  BY DEF Server
<1>2. QED BY <1>1, Zenon DEF Extended, Server

LEMMA DirsType ==
    /\ Absent \in Dirs /\ Torn \in Dirs
    /\ \A bs \in SUBSET Blocks : Directory(bs) \in Dirs
BY DEF Absent, Torn, Directory, Dirs

LEMMA MovedType ==
    ASSUME NEW c \in CacheDir
    PROVE  Moved(c) \in CacheDir
BY DirsType, Zenon DEF Moved, CacheDir

LEMMA NoLocalsType == NoLocals \in Locals
BY DEF NoLocals, Locals

\* The blocks of an archive are blocks.
LEMMA BlocksFacts ==
    /\ \A a \in Archives : a \subseteq Blocks
    /\ \A bs : Referenced(bs) \subseteq bs
BY DEF Blocks, Referenced

\* Steps of main, and its end.
LEMMA MainType ==
    ASSUME TypeOK, Begin \/ Main \/ Crash
    PROVE  TypeOK'
<1>1. Here \in Machines
  BY DEF Here
<1>2. /\ \A m \in Machines : /\ srv[m] \in Server /\ cache[m] \in CacheDir
                             /\ srv[m].blocks \in SUBSET Blocks
                             /\ cache[m].commit \in Nat /\ cache[m].cseq \in Nat
                             /\ cache[m].tmp \in Dirs /\ cache[m].directory \in Dirs
      /\ next \in Nat /\ 0 \in Nat /\ next + 1 \in Nat
  BY DEF TypeOK, Server, CacheDir
<1>3. CASE CommitDir
  <2>1. cache' \in [Machines -> CacheDir]
    BY <1>1, <1>2, <1>3, MovedType DEF TypeOK, CommitDir
  <2>2. disk' \in [Machines -> SUBSET Dirs]
    BY <1>1, <1>2, <1>3 DEF TypeOK, CommitDir
  <2>3. loc' \in Locals
    BY <1>3, Zenon DEF TypeOK, CommitDir, Locals
  <2>4. QED BY <1>3, <2>1, <2>2, <2>3 DEF TypeOK, CommitDir
<1>4. CASE CommitServer
  <2>1. srv' \in [Machines -> Server]
    BY <1>1, <1>2, <1>4, CommitType DEF TypeOK, CommitServer
  <2>2. saved' \in SUBSET Archives /\ moved' \in SUBSET Blocks
    BY <1>1, <1>2, <1>4, CommitType, RemovedType DEF TypeOK, CommitServer
  <2>3. QED BY <1>4, <2>1, <2>2 DEF TypeOK, CommitServer
<1>5. CASE CommitSeq
  <2>1. cache' \in [Machines -> CacheDir]
    BY <1>1, <1>2, <1>5, Zenon DEF TypeOK, CommitSeq, CacheDir
  <2>2. QED BY <1>5, <2>1 DEF TypeOK, CommitSeq
<1>6. CASE CommitEnd
  <2>1. cache' \in [Machines -> CacheDir]
    BY <1>1, <1>2, <1>6, Zenon DEF TypeOK, CommitEnd, CacheDir
  <2>2. QED BY <1>6, <2>1 DEF TypeOK, CommitEnd
<1>7. CASE Begin
  <2>1. loc' \in Locals
    BY <1>2, <1>7, NoLocalsType, Zenon DEF Begin, Locals
  <2>2. QED BY <1>7, <2>1 DEF TypeOK, Begin, Pending, Steps
<1>8. CASE CleanOld
  <2>1. loc' \in Locals
    BY <1>2, <1>8, Zenon DEF TypeOK, CleanOld, Locals
  <2>2. QED BY <1>8, <2>1 DEF TypeOK, CleanOld, Pending, Steps
<1>9. CASE DeleteStart
  <2>1. srv' \in [Machines -> Server]
    BY <1>2, <1>9, StartedType DEF TypeOK, DeleteStart
  <2>2. loc' \in Locals
    BY <1>2, <1>9, Zenon DEF TypeOK, DeleteStart, Locals
  <2>3. QED BY <1>2, <1>9, <2>1, <2>2 DEF TypeOK, DeleteStart, Goto, Steps
<1>10. CASE Compare
  <2>1. ToCopy(srv["old"].blocks, loc.nlist) \in SUBSET Blocks
    BY <1>2 DEF ToCopy
  <2>2. loc' \in Locals
    BY <1>2, <1>10, <2>1, Zenon DEF TypeOK, Compare, Locals
  <2>3. cache' \in [Machines -> CacheDir]
    BY <1>2, <1>10, DirsType, Zenon DEF TypeOK, Compare, CacheDir
  <2>4. disk' \in [Machines -> SUBSET Dirs]
    BY <1>10, DirsType DEF TypeOK, Compare
  <2>5. QED BY <1>10, <2>2, <2>3, <2>4 DEF TypeOK, Compare, Goto, Steps
<1>11. CASE NothingToDo
  BY <1>11 DEF TypeOK, NothingToDo, Goto, Steps
<1>12. CASE CopyBatch
  <2>1. PICK b \in SUBSET loc.todo :
          /\ srv' = [srv EXCEPT !["new"] = Started(@, b, {}, {})]
          /\ loc' = [loc EXCEPT !.batch = b, !.last = next]
    BY <1>12 DEF CopyBatch
  <2>2. b \in SUBSET Blocks
    BY <2>1 DEF TypeOK, Locals
  <2>3. srv' \in [Machines -> Server]
    BY <1>2, <2>1, <2>2, StartedType DEF TypeOK
  <2>4. loc' \in Locals
    BY <1>2, <2>1, <2>2, Zenon DEF TypeOK, Locals
  <2>5. QED BY <1>2, <1>12, <2>3, <2>4 DEF TypeOK, CopyBatch, Goto, Steps
<1>13. CASE MarkNew
  <2>1. loc.last \in Nat
    BY DEF TypeOK, Locals
  <2>2. cache' \in [Machines -> CacheDir]
    BY <1>13, <2>1, Zenon DEF TypeOK, MarkNew, CacheDir
  <2>3. QED BY <1>13, <2>2 DEF TypeOK, MarkNew, Steps
<1>14. CASE NextBatch
  <2>1. loc.todo \ loc.batch \in SUBSET Blocks
    BY DEF TypeOK, Locals
  <2>2. loc' \in Locals
    BY <1>14, <2>1, Zenon DEF TypeOK, NextBatch, Locals
  <2>3. QED BY <1>14, <2>2 DEF TypeOK, NextBatch, Goto, Steps
<1>15. CASE CopyDirectory
  <2>1. disk' \in [Machines -> SUBSET Dirs]
    BY <1>2, <1>15 DEF TypeOK, CopyDirectory
  <2>2. QED BY <1>15, <2>1 DEF TypeOK, CopyDirectory, Goto, Steps
<1>16. CASE SyncDirectory
  <2>1. PICK d \in Dirs : /\ cache' = [cache EXCEPT !["new"].directory = d]
                          /\ disk' = [disk EXCEPT !["new"] = {d}]
    BY <1>2, <1>16 DEF SyncDirectory, OnDisk
  <2>2. cache' \in [Machines -> CacheDir]
    BY <2>1, Zenon DEF TypeOK, CacheDir
  <2>3. disk' \in [Machines -> SUBSET Dirs]
    BY <2>1 DEF TypeOK
  <2>4. QED BY <1>16, <2>2, <2>3 DEF TypeOK, SyncDirectory, Goto, Steps
<1>17. CASE DeleteBlocks
  <2>1. loc.olist \in SUBSET Blocks
    BY DEF TypeOK, Locals
  <2>2. srv' \in [Machines -> Server]
    BY <1>17, <2>1, Zenon DEF TypeOK, DeleteBlocks, Server
  <2>3. QED BY <1>17, <2>2 DEF TypeOK, DeleteBlocks, Goto, Steps
<1>18. CASE MarkOld
  <2>1. loc.del \in Nat
    BY DEF TypeOK, Locals
  <2>2. cache' \in [Machines -> CacheDir]
    BY <1>18, <2>1, Zenon DEF TypeOK, MarkOld, CacheDir
  <2>3. QED BY <1>18, <2>2 DEF TypeOK, MarkOld, Steps
<1>19. CASE Unlink
  <2>1. cache' \in [Machines -> CacheDir]
    BY <1>19, DirsType, Zenon DEF TypeOK, Unlink, CacheDir
  <2>2. disk' \in [Machines -> SUBSET Dirs]
    BY <1>19, DirsType DEF TypeOK, Unlink
  <2>3. QED BY <1>19, <2>1, <2>2 DEF TypeOK, Unlink, Goto, Steps
<1>20. CASE Fail
  BY <1>20, NoLocalsType DEF TypeOK, Fail, Steps
<1>21. CASE Crash
  <2>1. CASE UNCHANGED files
    BY <1>21, <2>1, NoLocalsType DEF TypeOK, Crash, Steps
  <2>2. CASE \E o \in disk["old"], n \in disk["new"] :
          /\ cache' = [cache EXCEPT !["old"].directory = o, !["new"].directory = n]
          /\ disk' = [old |-> {o}, new |-> {n}]
    <3>1. PICK o \in disk["old"], n \in disk["new"] :
          /\ cache' = [cache EXCEPT !["old"].directory = o, !["new"].directory = n]
          /\ disk' = [old |-> {o}, new |-> {n}]
      BY <2>2
    <3>2. o \in Dirs /\ n \in Dirs
      BY DEF TypeOK
    <3>3. cache' \in [Machines -> CacheDir]
      BY <3>1, <3>2, Zenon DEF TypeOK, CacheDir
    <3>4. disk' \in [Machines -> SUBSET Dirs]
      BY <3>1, <3>2
    <3>5. QED BY <1>21, <3>3, <3>4, NoLocalsType DEF TypeOK, Crash, Steps
  <2>3. QED BY <1>21, <2>1, <2>2 DEF Crash
<1>22. QED
  BY <1>3, <1>4, <1>5, <1>6, <1>7, <1>8, <1>9, <1>10, <1>11, <1>12, <1>13, <1>14, <1>15,
     <1>16, <1>17, <1>18, <1>19, <1>20, <1>21 DEF Main

\* Steps of tarsnap.
LEMMA TarsnapType ==
    ASSUME TypeOK, Tarsnap
    PROVE  TypeOK'
<1>1. /\ \A m \in Machines : /\ srv[m] \in Server /\ cache[m] \in CacheDir
                             /\ srv[m].blocks \in SUBSET Blocks
                             /\ cache[m].commit \in Nat /\ cache[m].cseq \in Nat
                             /\ cache[m].tmp \in Dirs /\ cache[m].directory \in Dirs
                             /\ cache[m].directory.blocks \in SUBSET Blocks
      /\ next \in Nat /\ 0 \in Nat /\ next + 1 \in Nat
  BY DEF TypeOK, Server, CacheDir, Dirs
<1>2. ASSUME NEW m \in Machines, Clean(m) PROVE TypeOK'
  <2>1. Moved(cache[m]) \in CacheDir /\ Moved(cache[m]).commit \in Nat
        /\ Moved(cache[m]).directory \in Dirs
    BY <1>1, MovedType DEF CacheDir
  <2>2. [Moved(cache[m]) EXCEPT !.cseq = Moved(cache[m]).commit, !.commit = 0] \in CacheDir
    BY <1>1, <2>1, Zenon DEF CacheDir
  <2>3. cache' \in [Machines -> CacheDir]
    BY <1>2, <2>2 DEF TypeOK, Clean
  <2>4. disk' \in [Machines -> SUBSET Dirs]
    BY <1>2, <2>1 DEF TypeOK, Clean
  <2>5. srv' \in [Machines -> Server]
    BY <1>1, <1>2, <2>1, CommitType DEF TypeOK, Clean
  <2>6. saved' \in SUBSET Archives /\ moved' \in SUBSET Blocks
    BY <1>1, <1>2, <2>1, CommitType, RemovedType DEF TypeOK, Clean
  <2>7. QED BY <1>2, <2>3, <2>4, <2>5, <2>6 DEF TypeOK, Clean
<1>3. ASSUME NEW m \in Machines, NEW w \in BOOLEAN, Fsck(m, w) PROVE TypeOK'
  <2>1. Referenced(srv[m].blocks) \in SUBSET Blocks
        /\ srv[m].blocks \ Referenced(srv[m].blocks) \in SUBSET Blocks
    BY <1>1, BlocksFacts
  <2>2. srv' \in [Machines -> Server]
    BY <1>1, <1>3, <2>1, StartedType DEF TypeOK, Fsck
  <2>3. Directory(Referenced(srv[m].blocks)) \in Dirs /\ (IF w THEN next ELSE 0) \in Nat
    BY <1>1, <2>1, DirsType
  <2>4. [cache[m] EXCEPT !.tmp = Directory(Referenced(srv[m].blocks)),
                         !.commit = IF w THEN next ELSE 0] \in CacheDir
    BY <1>1, <2>3, Zenon DEF CacheDir
  <2>5. cache' \in [Machines -> CacheDir]
    BY <1>3, <2>4 DEF TypeOK, Fsck
  <2>6. QED BY <1>1, <1>3, <2>2, <2>5 DEF TypeOK, Fsck
<1>4. ASSUME NEW a \in Archives, Backup("old", a) PROVE TypeOK'
  <2>1. /\ a \ cache["old"].directory.blocks \in SUBSET Blocks
        /\ cache["old"].directory.blocks \cup a \in SUBSET Blocks
    BY <1>1, BlocksFacts
  <2>2. srv' \in [Machines -> Server]
    BY <1>1, <1>4, <2>1, StartedType DEF TypeOK, Backup
  <2>3. Directory(cache["old"].directory.blocks \cup a) \in Dirs
    BY <2>1, DirsType
  <2>4. [cache["old"] EXCEPT !.tmp = Directory(cache["old"].directory.blocks \cup a),
                             !.commit = next] \in CacheDir
    BY <1>1, <2>3, Zenon DEF CacheDir
  <2>5. cache' \in [Machines -> CacheDir]
    BY <1>4, <2>4 DEF TypeOK, Backup
  <2>6. QED BY <1>1, <1>4, <2>2, <2>5 DEF TypeOK, Backup
<1>5. ASSUME NEW a \in Archives, Foreign(a) PROVE TypeOK'
  <2>1. srv' \in [Machines -> Server]
    BY <1>1, <1>5, BlocksFacts, ExtendedType DEF TypeOK, Foreign
  <2>2. QED BY <1>1, <1>5, <2>1 DEF TypeOK, Foreign
<1>6. QED BY <1>2, <1>3, <1>4, <1>5 DEF Tarsnap

LEMMA InitType ==
    ASSUME RecryptAssumption, Init
    PROVE  TypeOK
<1>1. PICK f \in SUBSET First :
        /\ srv = [m \in Machines |->
                [blocks |-> IF m = "old" THEN UNION f ELSE {}, seq |-> 0,
                 cur |-> 0, adds |-> {}, dels |-> {}, arch |-> {}]]
        /\ cache = [m \in Machines |->
                  [cseq |-> 0, commit |-> 0, tmp |-> Absent,
                   directory |-> IF m = "old" /\ f # {} THEN Directory(UNION f)
                                 ELSE Absent]]
        /\ saved = f
  BY DEF Init
<1>2. UNION f \in SUBSET Blocks /\ saved \subseteq Archives
  BY <1>1, BlocksFacts DEF RecryptAssumption
<1>3. srv \in [Machines -> Server]
  BY <1>1, <1>2, Zenon DEF Server
<1>4. \A m \in Machines : (IF m = "old" /\ f # {} THEN Directory(UNION f) ELSE Absent) \in Dirs
  BY <1>2, DirsType
<1>5. cache \in [Machines -> CacheDir]
  BY <1>1, <1>4, DirsType, Zenon DEF CacheDir
<1>6. disk \in [Machines -> SUBSET Dirs]
  BY <1>5 DEF Init, CacheDir
<1>7. QED BY <1>2, <1>3, <1>5, <1>6, NoLocalsType DEF TypeOK, Init, Steps

(***************************************************************************)
(* Each step keeps the invariant.                                          *)
(***************************************************************************)

USE DEF Absent, Torn

\* A complete set of blocks is what its archives need, and one more archive
\* does not change that.
LEMMA ClosedFacts ==
    /\ \A bs : Closed(bs) => Referenced(bs) = bs
    /\ \A bs : \A a \in Archives : Closed(bs) => Closed(bs \cup a)
<1>1. ASSUME NEW bs, Closed(bs) PROVE Referenced(bs) = bs
  BY <1>1 DEF Closed, Referenced
<1>2. ASSUME NEW bs, Closed(bs), NEW a \in Archives PROVE Closed(bs \cup a)
  <2>1. ASSUME NEW x \in bs \cup a PROVE \E b \in Archives : x \in b /\ b \subseteq bs \cup a
    <3>1. CASE x \in bs
      BY <1>2, <3>1 DEF Closed
    <3>2. CASE x \in a
      BY <3>2
    <3>3. QED BY <2>1, <3>1, <3>2
  <2>2. QED BY <2>1 DEF Closed
<1>3. QED BY <1>1, <1>2

\* After the commit of a marker, the directory to be installed is in sequence.
LEMMA CommitSynced ==
    ASSUME IInv, NEW t, t = cache["old"].commit, t # 0, O' = Commit(O, t),
           moved' = moved \cup Removed("old", t), moved' = {}
    PROVE  /\ O'.cur # t
           /\ O'.seq = t => \A d \in Installed : d.blocks = O'.blocks
<1>1. CASE O.cur = t
  <2>1. O.dels = {} /\ moved = {}
    BY <1>1 DEF Removed
  <2>2. O'.blocks = O.blocks \cup O.adds /\ O'.cur = 0
    BY <1>1, <2>1 DEF Commit, IInv, TypeOK, Server
  <2>3. QED BY <1>1, <2>1, <2>2 DEF IInv, OldSynced
<1>2. CASE O.cur # t
  <2>1. O' = O /\ moved = {}
    BY <1>2 DEF Commit
  <2>2. QED BY <1>2, <2>1 DEF IInv, OldSynced
<1>3. QED BY <1>1, <1>2

\* Whichever transaction is committed, what remains is complete.
LEMMA CommitWhole ==
    ASSUME IInv, NEW m \in Machines, NEW t \in Nat \ {0},
           srv' = [srv EXCEPT ![m] = Commit(@, t)], moved' = moved \cup Removed(m, t)
    PROVE  OldWhole'
<1>1. srv' = [srv EXCEPT ![m] = Commit(srv[m], t)]
  OBVIOUS
<1>2. CASE m = "new"
  <2>1. O' = O /\ moved' = moved /\ N' = Commit(N, t)
    BY <1>1, <1>2 DEF IInv, TypeOK, Removed
  <2>2. N.blocks \subseteq N'.blocks
    BY <2>1 DEF Commit, IInv, TypeOK, Server, NewOnlyGrows
  <2>3. QED BY <2>1, <2>2 DEF IInv, OldWhole, Adding, Deleting
<1>3. CASE m = "old"
  <2>1. O' = Commit(O, t) /\ N' = N
    BY <1>1, <1>3 DEF IInv, TypeOK
  <2>2. CASE O.cur = t
    <3>1. O'.cur = 0 /\ O'.blocks = (O.blocks \cup O.adds) \ O.dels
      BY ZenonT(40), <2>1, <2>2 DEF Commit, IInv, TypeOK, Server
    <3>2. O'.blocks = O.blocks \cup O.adds \/ O'.blocks = {}
      BY <2>2, <3>1 DEF IInv, OldWhole, Adding, Deleting
    <3>3. Closed(O'.blocks)
      BY <2>2, <3>1, <3>2 DEF IInv, OldWhole, Adding, Deleting, Closed
    <3>4. QED BY <3>1, <3>3 DEF OldWhole
  <2>3. CASE O.cur # t
    <3>1. O' = O /\ moved' = moved
      BY <1>3, <2>1, <2>3 DEF Commit, Removed
    <3>2. QED BY <2>1, <3>1 DEF IInv, OldWhole, Adding, Deleting
  <2>4. QED BY <2>2, <2>3
<1>4. QED BY <1>2, <1>3

LEMMA CommitDirKeeps ==
    ASSUME Careful, IInv, TypeOK', CommitDir
    PROVE  IInv'
<1>1. NewOnlyGrows' /\ OldWhole' /\ NeverLost'
  BY DEF IInv, NewOnlyGrows, OldWhole, NeverLost, CommitDir, Adding, Deleting
<1>2. ListInv'
  BY DEF IInv, ListInv, CommitDir
<1>3. Numbers'
  BY DEF IInv, Numbers, CommitDir, Moved
<1>4. OldSynced'
  BY DEF IInv, TypeOK, OldSynced, CommitDir, Moved, OldDirs, Installed
<1>5. OldRetired'
  BY DEF IInv, OldRetired, CommitDir, Moved
<1>6. SubInv'
  BY DEF IInv, TypeOK, SubInv, CommitDir, Here, Moved
<1>7. WorkInv'
  BY DEF IInv, WorkInv, CommitDir, Moved
<1>8. BatchInv'
  BY DEF IInv, BatchInv, CommitDir, Moved
<1>9. DeleteInv'
  BY DEF IInv, DeleteInv, CommitDir, Moved
<1>10. QED BY <1>1, <1>2, <1>3, <1>4, <1>5, <1>6, <1>7, <1>8, <1>9 DEF IInv

LEMMA CommitServerKeeps ==
    ASSUME Careful, IInv, TypeOK', CommitServer
    PROVE  IInv'
<1>1. Numbers'
  BY DEF IInv, TypeOK, Locals, Numbers, CommitServer, Commit
<1>2. NewOnlyGrows'
  BY DEF IInv, NewOnlyGrows, CommitServer, Commit
<1>3. OldWhole'
  <2>1. /\ Here \in Machines /\ cache[Here].commit \in Nat \ {0}
        /\ srv' = [srv EXCEPT ![Here] = Commit(@, cache[Here].commit)]
        /\ moved' = moved \cup Removed(Here, cache[Here].commit)
    BY DEF CommitServer, IInv, TypeOK, CacheDir, SubInv, Here
  <2>2. QED BY <2>1, CommitWhole
<1>4. NeverLost'
  BY DEF IInv, TypeOK, NeverLost, CommitServer, Commit, Committed, Adding,
    Deleting, SubInv, NewOnlyGrows, OldWhole
<1>5. OldSynced'
  <2> DEFINE c == cache["old"]
  <2>1. UNCHANGED <<cache, disk>> /\ UNCHANGED <<OldDirs, Installed>>
    BY DEF CommitServer, OldDirs, Installed
  <2>2. CASE Here = "new"
    <3>1. UNCHANGED <<srv["old"], moved>>
      BY <2>2 DEF CommitServer, IInv, TypeOK, Removed
    <3>2. QED BY <2>1, <3>1 DEF IInv, OldSynced
  <2>3. CASE Here = "old"
    <3>1. /\ O' = Commit(O, c.commit) /\ moved' = moved \cup Removed("old", c.commit)
          /\ c.commit # 0
      BY <2>3 DEF CommitServer, IInv, TypeOK, SubInv
    <3>2. QED BY <2>1, <3>1, CommitSynced DEF OldSynced
  <2>4. QED BY <2>2, <2>3 DEF Here
<1>6. OldRetired'
  BY DEF IInv, TypeOK, OldRetired, CommitServer, Commit, Removed, Adding,
    Deleting, SubInv, NewOnlyGrows, OldWhole
<1>7. SubInv'
  BY DEF IInv, TypeOK, SubInv, CommitServer, Here, Commit
<1>8. ListInv'
  BY DEF IInv, ListInv, CommitServer, Commit, Removed, SubInv, NewOnlyGrows
<1>9. WorkInv'
  BY DEF IInv, WorkInv, CommitServer, Commit, Removed, SubInv, NewOnlyGrows
<1>10. BatchInv'
  BY DEF IInv, TypeOK, BatchInv, CommitServer, Here, Commit, SubInv,
    NewOnlyGrows
<1>11. DeleteInv'
  BY DEF IInv, DeleteInv, CommitServer, Commit, SubInv
<1>12. QED BY <1>1, <1>2, <1>3, <1>4, <1>5, <1>6, <1>7, <1>8, <1>9, <1>10, <1>11 DEF IInv

LEMMA CommitSeqKeeps ==
    ASSUME Careful, IInv, TypeOK', CommitSeq
    PROVE  IInv'
<1>1. Numbers' /\ NewOnlyGrows' /\ OldWhole' /\ NeverLost'
  BY DEF IInv, Numbers, NewOnlyGrows, OldWhole, NeverLost, CommitSeq, Adding,
    Deleting
<1>2. ListInv' /\ BatchInv'
  BY DEF IInv, ListInv, BatchInv, CommitSeq
<1>3. OldSynced'
  BY DEF IInv, OldSynced, CommitSeq, OldDirs, Installed, SubInv
<1>4. OldRetired'
  BY DEF IInv, OldRetired, CommitSeq, SubInv
<1>5. SubInv'
  BY DEF IInv, TypeOK, SubInv, CommitSeq, Here
<1>6. WorkInv'
  BY DEF IInv, WorkInv, CommitSeq, SubInv
<1>7. DeleteInv'
  BY DEF IInv, DeleteInv, CommitSeq, SubInv
<1>8. QED BY <1>1, <1>2, <1>3, <1>4, <1>5, <1>6, <1>7 DEF IInv

LEMMA CommitEndKeeps ==
    ASSUME Careful, IInv, TypeOK', CommitEnd
    PROVE  IInv'
<1>1. NewOnlyGrows' /\ OldWhole' /\ NeverLost' /\ OldRetired'
  BY DEF IInv, NewOnlyGrows, OldWhole, NeverLost, OldRetired, CommitEnd,
    Adding, Deleting
<1>2. ListInv' /\ WorkInv' /\ BatchInv'
  BY DEF IInv, ListInv, WorkInv, BatchInv, CommitEnd
<1>3. Numbers'
  BY DEF IInv, TypeOK, Locals, Numbers, CommitEnd
<1>4. OldSynced'
  BY DEF IInv, OldSynced, CommitEnd, OldDirs, Installed, SubInv
<1>5. SubInv'
  BY DEF TypeOK, SubInv, CommitEnd, Here
<1>6. DeleteInv'
  BY DEF IInv, DeleteInv, CommitEnd, SubInv
<1>7. QED BY <1>1, <1>2, <1>3, <1>4, <1>5, <1>6 DEF IInv

LEMMA BeginKeeps ==
    ASSUME Careful, IInv, TypeOK', Begin
    PROVE  IInv'
<1>1. NewOnlyGrows' /\ OldWhole' /\ NeverLost' /\ OldSynced' /\ OldRetired'
  BY DEF IInv, NewOnlyGrows, OldWhole, NeverLost, OldSynced, OldRetired, Begin,
    Adding, Deleting, OldDirs, Installed
<1>2. WorkInv' /\ BatchInv' /\ DeleteInv'
  BY DEF WorkInv, BatchInv, DeleteInv, Begin, Working
<1>3. Numbers'
  BY DEF IInv, TypeOK, Locals, Numbers, Begin, NoLocals
<1>4. SubInv'
  BY DEF SubInv, Begin, Pending, Here, Committing
<1>5. ListInv'
  BY DEF IInv, ListInv, Begin, Adding, Deleting, OldRetired, OldWhole
<1>6. QED BY <1>1, <1>2, <1>3, <1>4, <1>5 DEF IInv

LEMMA CleanOldKeeps ==
    ASSUME Careful, IInv, TypeOK', CleanOld
    PROVE  IInv'
<1>1.
    Numbers' /\ NewOnlyGrows' /\ OldWhole' /\ NeverLost' /\ OldSynced' /\ OldRetired'
  BY DEF IInv, Numbers, NewOnlyGrows, OldWhole, NeverLost, OldSynced,
    OldRetired, CleanOld, Adding, Deleting, OldDirs, Installed
<1>2. ListInv' /\ WorkInv' /\ BatchInv' /\ DeleteInv'
  BY DEF IInv, ListInv, WorkInv, BatchInv, DeleteInv, CleanOld, At, Working
<1>3. SubInv'
  BY DEF SubInv, CleanOld, Pending, Here, Committing
<1>4. QED BY <1>1, <1>2, <1>3 DEF IInv

LEMMA DeleteStartKeeps ==
    ASSUME Careful, IInv, TypeOK', DeleteStart
    PROVE  IInv'
<1>1. NewOnlyGrows'
  BY DEF IInv, NewOnlyGrows, DeleteStart
<1>2. SubInv' /\ BatchInv' /\ DeleteInv'
  BY DEF SubInv, BatchInv, DeleteInv, DeleteStart, Goto, Committing
<1>3. Numbers'
  BY DEF IInv, TypeOK, Server, CacheDir, Locals, Numbers, DeleteStart, Started
<1>4. OldWhole'
  BY DEF IInv, TypeOK, OldWhole, DeleteStart, Started, Adding
<1>5. NeverLost'
  BY DEF IInv, NeverLost, DeleteStart, Started
<1>6. OldSynced'
  BY DEF IInv, OldSynced, DeleteStart, At, Started, Here, Committing, OldDirs,
    SubInv
<1>7. OldRetired'
  BY DEF IInv, TypeOK, OldRetired, DeleteStart, Started, Numbers
<1>8. ListInv'
  BY DEF IInv, ListInv, DeleteStart, At, Started
<1>9. WorkInv'
  BY DEF IInv, TypeOK, WorkInv, DeleteStart, At, Goto, Started, Here,
    Committing, Numbers, SubInv
<1>10. QED BY <1>1, <1>2, <1>3, <1>4, <1>5, <1>6, <1>7, <1>8, <1>9 DEF IInv

LEMMA CompareKeeps ==
    ASSUME Careful, IInv, TypeOK', Compare
    PROVE  IInv'
<1>1.
    Numbers' /\ NewOnlyGrows' /\ OldWhole' /\ NeverLost' /\ OldSynced' /\ OldRetired'
  BY DEF IInv, Numbers, NewOnlyGrows, OldWhole, NeverLost, OldSynced,
    OldRetired, Compare, Adding, Deleting, OldDirs, Installed
<1>2. SubInv' /\ ListInv' /\ BatchInv' /\ DeleteInv'
  BY DEF SubInv, ListInv, BatchInv, DeleteInv, Compare, Goto, Committing
<1>3. WorkInv'
  BY DEF IInv, WorkInv, Compare, At, Goto, ToCopy, Working, OldRetired,
    ListInv
<1>4. QED BY <1>1, <1>2, <1>3 DEF IInv

LEMMA NothingToDoKeeps ==
    ASSUME Careful, IInv, TypeOK', NothingToDo
    PROVE  IInv'
<1>1. Numbers' /\ NewOnlyGrows' /\ NeverLost' /\ OldSynced' /\ OldRetired'
  BY DEF IInv, Numbers, NewOnlyGrows, NeverLost, OldSynced, OldRetired,
    NothingToDo, OldDirs, Installed
<1>2. SubInv' /\ ListInv' /\ WorkInv' /\ BatchInv' /\ DeleteInv'
  BY DEF SubInv, ListInv, WorkInv, BatchInv, DeleteInv, NothingToDo, Goto,
    Committing, Working
<1>3. OldWhole'
  BY DEF IInv, OldWhole, NothingToDo, Closed, Adding, Deleting
<1>4. QED BY <1>1, <1>2, <1>3 DEF IInv

LEMMA CopyBatchKeeps ==
    ASSUME Careful, IInv, TypeOK', CopyBatch
    PROVE  IInv'
<1>1. OldWhole' /\ OldSynced'
  BY DEF IInv, OldWhole, OldSynced, CopyBatch, Adding, Deleting, OldDirs,
    Installed
<1>2. SubInv' /\ ListInv' /\ DeleteInv'
  BY DEF SubInv, ListInv, DeleteInv, CopyBatch, Goto, Committing
<1>3. Numbers'
  BY DEF IInv, TypeOK, Server, CacheDir, Locals, Numbers, CopyBatch, Started
<1>4. NewOnlyGrows'
  BY DEF TypeOK, NewOnlyGrows, CopyBatch, Started
<1>5. NeverLost'
  BY DEF IInv, NeverLost, CopyBatch, Started
<1>6. OldRetired'
  BY DEF IInv, OldRetired, CopyBatch, Started
<1>7. WorkInv'
  BY DEF IInv, WorkInv, CopyBatch, At, Goto, Started, Working
<1>8. BatchInv'
  BY DEF IInv, TypeOK, BatchInv, CopyBatch, At, Goto, Started, Working,
    Numbers, WorkInv
<1>9. QED BY <1>1, <1>2, <1>3, <1>4, <1>5, <1>6, <1>7, <1>8 DEF IInv

LEMMA MarkNewKeeps ==
    ASSUME Careful, IInv, TypeOK', MarkNew
    PROVE  IInv'
<1>1.
    Numbers' /\ NewOnlyGrows' /\ OldWhole' /\ NeverLost' /\ OldSynced' /\ OldRetired'
  BY DEF IInv, Numbers, NewOnlyGrows, OldWhole, NeverLost, OldSynced,
    OldRetired, MarkNew, Adding, Deleting, OldDirs, Installed
<1>2. ListInv' /\ DeleteInv'
  BY DEF ListInv, DeleteInv, MarkNew
<1>3. SubInv'
  BY DEF IInv, TypeOK, SubInv, MarkNew, At, Here, Committing, BatchInv
<1>4. WorkInv'
  BY DEF IInv, WorkInv, MarkNew, At, Working
<1>5. BatchInv'
  BY DEF IInv, TypeOK, BatchInv, MarkNew, At
<1>6. QED BY <1>1, <1>2, <1>3, <1>4, <1>5 DEF IInv

LEMMA NextBatchKeeps ==
    ASSUME Careful, IInv, TypeOK', NextBatch
    PROVE  IInv'
<1>1.
    Numbers' /\ NewOnlyGrows' /\ OldWhole' /\ NeverLost' /\ OldSynced' /\ OldRetired'
  BY DEF IInv, Numbers, NewOnlyGrows, OldWhole, NeverLost, OldSynced,
    OldRetired, NextBatch, Adding, Deleting, OldDirs, Installed
<1>2. SubInv' /\ ListInv' /\ BatchInv' /\ DeleteInv'
  BY DEF SubInv, ListInv, BatchInv, DeleteInv, NextBatch, Goto, Committing
<1>3. WorkInv'
  BY DEF IInv, WorkInv, NextBatch, At, Goto, Working, BatchInv
<1>4. QED BY <1>1, <1>2, <1>3 DEF IInv

LEMMA CopyDirectoryKeeps ==
    ASSUME Careful, IInv, TypeOK', CopyDirectory
    PROVE  IInv'
<1>1.
    Numbers' /\ NewOnlyGrows' /\ OldWhole' /\ NeverLost' /\ OldSynced' /\ OldRetired'
  BY DEF IInv, Numbers, NewOnlyGrows, OldWhole, NeverLost, OldSynced,
    OldRetired, CopyDirectory, Adding, Deleting, OldDirs, Installed
<1>2. SubInv' /\ ListInv' /\ BatchInv' /\ DeleteInv'
  BY DEF SubInv, ListInv, BatchInv, DeleteInv, CopyDirectory, Goto, Committing
<1>3. WorkInv'
  BY DEF IInv, WorkInv, CopyDirectory, At, Goto, AllCopied, Working
<1>4. QED BY <1>1, <1>2, <1>3 DEF IInv

LEMMA SyncDirectoryKeeps ==
    ASSUME Careful, IInv, TypeOK', SyncDirectory
    PROVE  IInv'
<1>1.
    Numbers' /\ NewOnlyGrows' /\ OldWhole' /\ NeverLost' /\ OldSynced' /\ OldRetired'
  BY DEF IInv, Numbers, NewOnlyGrows, OldWhole, NeverLost, OldSynced,
    OldRetired, SyncDirectory, Adding, Deleting, OldDirs, Installed
<1>2. SubInv' /\ ListInv' /\ BatchInv' /\ DeleteInv'
  BY DEF SubInv, ListInv, BatchInv, DeleteInv, SyncDirectory, Goto, Committing
<1>3. WorkInv'
  BY DEF IInv, WorkInv, SyncDirectory, At, Goto, Working
<1>4. QED BY <1>1, <1>2, <1>3 DEF IInv

LEMMA DeleteBlocksKeeps ==
    ASSUME Careful, IInv, TypeOK', DeleteBlocks
    PROVE  IInv'
<1>1. Numbers' /\ NewOnlyGrows' /\ NeverLost' /\ OldRetired'
  BY DEF IInv, Numbers, NewOnlyGrows, NeverLost, OldRetired, DeleteBlocks
<1>2. SubInv' /\ ListInv' /\ BatchInv' /\ DeleteInv'
  BY DEF SubInv, ListInv, BatchInv, DeleteInv, DeleteBlocks, Goto, Committing
<1>3. OldWhole'
  BY DEF IInv, TypeOK, OldWhole, DeleteBlocks, At, Working, Deleting, WorkInv
<1>4. OldSynced'
  BY DEF IInv, OldSynced, DeleteBlocks, At, Working, OldDirs, WorkInv
<1>5. WorkInv'
  BY DEF IInv, TypeOK, WorkInv, DeleteBlocks, At, Goto, Working
<1>6. QED BY <1>1, <1>2, <1>3, <1>4, <1>5 DEF IInv

LEMMA MarkOldKeeps ==
    ASSUME Careful, IInv, TypeOK', MarkOld
    PROVE  IInv'
<1>1. Numbers' /\ NewOnlyGrows' /\ OldWhole' /\ NeverLost'
  BY DEF IInv, Numbers, NewOnlyGrows, OldWhole, NeverLost, MarkOld, Adding,
    Deleting
<1>2. ListInv' /\ WorkInv' /\ BatchInv'
  BY DEF ListInv, WorkInv, BatchInv, MarkOld, Working
<1>3. OldSynced'
  BY DEF IInv, OldSynced, MarkOld, At, Working, OldDirs, Installed, WorkInv
<1>4. OldRetired'
  BY DEF IInv, OldRetired, MarkOld, At, Working, WorkInv
<1>5. SubInv'
  BY DEF IInv, TypeOK, SubInv, MarkOld, At, Here, Committing, Working, WorkInv
<1>6. DeleteInv'
  BY DEF IInv, TypeOK, DeleteInv, MarkOld, At, Working, WorkInv
<1>7. QED BY <1>1, <1>2, <1>3, <1>4, <1>5, <1>6 DEF IInv

LEMMA UnlinkKeeps ==
    ASSUME Careful, IInv, TypeOK', Unlink
    PROVE  IInv'
<1>1. Numbers' /\ NewOnlyGrows' /\ OldWhole' /\ NeverLost' /\ OldRetired'
  BY DEF IInv, Numbers, NewOnlyGrows, OldWhole, NeverLost, OldRetired, Unlink,
    Adding, Deleting
<1>2. SubInv' /\ ListInv' /\ WorkInv' /\ BatchInv' /\ DeleteInv'
  BY DEF SubInv, ListInv, WorkInv, BatchInv, DeleteInv, Unlink, Goto,
    Committing, Working
<1>3. OldSynced'
  <2> DEFINE c == cache["old"]
  <2>1. /\ c.commit = 0 /\ cache'["old"].commit = 0 /\ cache'["old"].cseq = c.cseq
        /\ cache'["old"].tmp = c.tmp /\ OldDirs' \subseteq OldDirs \cup {Absent}
        /\ UNCHANGED <<srv, moved>>
    BY DEF IInv, TypeOK, CacheDir, Unlink, At, SubInv, Here, Committing, OldDirs
  <2>2. c.cseq = O.seq => O.blocks = {}
    BY <2>1 DEF IInv, Unlink, At, DeleteInv
  <2> SUFFICES ASSUME moved = {}, c.cseq = O.seq
               PROVE  (\A d \in OldDirs' : d.blocks = {}) /\ (c.tmp # Absent => c.tmp.blocks = {})
    BY <2>1, <2>2 DEF OldSynced
  <2>3. \A d \in OldDirs : d.blocks = {}
    BY <2>1, <2>2 DEF IInv, OldSynced
  <2>4. QED BY <2>1, <2>2, <2>3 DEF IInv, OldSynced
<1>4. QED BY <1>1, <1>2, <1>3 DEF IInv

LEMMA FailKeeps ==
    ASSUME Careful, IInv, TypeOK', Fail
    PROVE  IInv'
<1>1. NewOnlyGrows' /\ OldWhole' /\ NeverLost' /\ OldSynced' /\ OldRetired'
  BY DEF IInv, NewOnlyGrows, OldWhole, NeverLost, OldSynced, OldRetired, Fail,
    Adding, Deleting, OldDirs, Installed
<1>2. SubInv' /\ ListInv' /\ WorkInv' /\ BatchInv' /\ DeleteInv'
  BY DEF SubInv, ListInv, WorkInv, BatchInv, DeleteInv, Fail, Committing,
    Working
<1>3. Numbers'
  BY DEF IInv, TypeOK, Locals, Numbers, Fail, NoLocals
<1>4. QED BY <1>1, <1>2, <1>3 DEF IInv

LEMMA CrashKeeps ==
    ASSUME Careful, IInv, TypeOK', Crash
    PROVE  IInv'
<1>1. NewOnlyGrows' /\ OldWhole' /\ NeverLost'
  BY DEF IInv, NewOnlyGrows, OldWhole, NeverLost, Crash, Adding, Deleting
<1>2. SubInv' /\ ListInv' /\ WorkInv' /\ BatchInv' /\ DeleteInv'
  BY DEF SubInv, ListInv, WorkInv, BatchInv, DeleteInv, Crash, Committing,
    Working
<1>3. Numbers'
  BY DEF IInv, TypeOK, CacheDir, Numbers, Crash, NoLocals
<1>4. OldSynced'
  BY DEF IInv, TypeOK, CacheDir, OldSynced, Crash, OldDirs, Installed
<1>5. OldRetired'
  BY DEF IInv, TypeOK, CacheDir, OldRetired, Crash
<1>6. QED BY <1>1, <1>2, <1>3, <1>4, <1>5 DEF IInv

LEMMA CleanKeeps ==
    ASSUME Careful, IInv, TypeOK', NEW m \in Machines, Clean(m)
    PROVE  IInv'
<1>1. Numbers'
  BY DEF IInv, TypeOK, Locals, Numbers, Clean, Moved, Commit
<1>2. NewOnlyGrows'
  BY DEF IInv, NewOnlyGrows, Clean, Commit
<1>3. OldWhole'
  <2>1. /\ cache[m].commit \in Nat \ {0}
        /\ srv' = [srv EXCEPT ![m] = Commit(@, cache[m].commit)]
        /\ moved' = moved \cup Removed(m, cache[m].commit)
    BY DEF Clean, Moved, IInv, TypeOK, CacheDir
  <2>2. QED BY <2>1, CommitWhole
<1>4. NeverLost'
  BY DEF IInv, TypeOK, NeverLost, Clean, Moved, Commit, Committed, Adding,
    Deleting, NewOnlyGrows, OldWhole
<1>5. OldSynced'
  <2>1. CASE m = "new"
    <3>1. /\ UNCHANGED <<srv["old"], cache["old"], disk["old"]>>
          /\ moved' = moved
      BY <2>1 DEF Clean, IInv, TypeOK, Removed
    <3>2. QED BY <3>1 DEF IInv, OldSynced, OldDirs, Installed
  <2>2. CASE m = "old"
    <3> DEFINE c == cache["old"]
    <3>1. /\ c.commit # 0 /\ cache'["old"].commit = 0 /\ cache'["old"].cseq = c.commit
          /\ cache'["old"].tmp = Absent
          /\ O' = Commit(O, c.commit) /\ moved' = moved \cup Removed("old", c.commit)
      BY <2>2 DEF Clean, IInv, TypeOK, Moved, CacheDir
    <3>2. OldDirs' = Installed
      BY <2>2 DEF Clean, IInv, TypeOK, Moved, CacheDir, OldDirs, Installed
    <3>3. QED BY <3>1, <3>2, CommitSynced DEF OldSynced
  <2>3. QED BY <2>1, <2>2
<1>6. OldRetired'
  BY DEF IInv, TypeOK, OldRetired, Clean, Moved, Commit, Removed, Adding,
    Deleting, NewOnlyGrows, OldWhole
<1>7. SubInv'
  BY DEF IInv, SubInv, Clean, Free, Committing
<1>8. ListInv'
  BY DEF ListInv, Clean, Free
<1>9. WorkInv'
  BY DEF WorkInv, Clean, Free, Working
<1>10. BatchInv'
  BY DEF BatchInv, Clean, Free
<1>11. DeleteInv'
  BY DEF DeleteInv, Clean, Free
<1>12. QED BY <1>1, <1>2, <1>3, <1>4, <1>5, <1>6, <1>7, <1>8, <1>9, <1>10, <1>11 DEF IInv

LEMMA ForeignKeeps ==
    ASSUME Careful, IInv, TypeOK', NEW a \in Archives, Foreign(a)
    PROVE  IInv'
<1>1. Numbers'
  BY DEF IInv, TypeOK, Server, CacheDir, Locals, Numbers, Foreign, Extended
<1>2. NewOnlyGrows'
  BY DEF IInv, TypeOK, NewOnlyGrows, Foreign, Extended, Server
<1>3. OldWhole'
  BY ClosedFacts DEF IInv, TypeOK, Server, OldWhole, Foreign, Extended
<1>4. NeverLost'
  BY DEF IInv, TypeOK, Server, NeverLost, Foreign, Extended
<1>5. OldSynced'
  BY DEF IInv, TypeOK, OldSynced, Foreign, Numbers, Extended, Server
<1>6. OldRetired'
  BY DEF IInv, TypeOK, OldRetired, Foreign, Numbers, Extended, Server
<1>7. SubInv'
  BY DEF IInv, TypeOK, SubInv, Foreign, Here, Extended, Server
<1>8. ListInv'
  BY DEF IInv, TypeOK, ListInv, Foreign, Extended, Server
<1>9. WorkInv'
  BY DEF IInv, TypeOK, WorkInv, Foreign, Numbers, Extended, Server
<1>10. BatchInv'
  BY DEF IInv, TypeOK, BatchInv, Foreign, Extended, Server
<1>11. DeleteInv'
  BY DEF IInv, TypeOK, DeleteInv, Foreign, Numbers, Extended, Server
<1>12. QED BY <1>1, <1>2, <1>3, <1>4, <1>5, <1>6, <1>7, <1>8, <1>9, <1>10, <1>11 DEF IInv

\* A backup of the old machine adds what its chunk directory, which is in
\* sequence, does not list.
LEMMA BackupKeeps ==
    ASSUME Careful, IInv, TypeOK', NEW a \in Archives, Backup("old", a)
    PROVE  IInv'
<1> DEFINE c == cache["old"]
           d == c.directory.blocks
<1>1. /\ srv' = [srv EXCEPT !["old"] = Started(O, a \ d, {}, {a})]
      /\ cache' = [cache EXCEPT !["old"] = [c EXCEPT !.tmp = Directory(d \cup a), !.commit = next]]
      /\ next' = next + 1 /\ c.commit = 0 /\ c.cseq = O.seq
      /\ UNCHANGED <<disk, proc, past>>
      /\ pc \in {"idle", "done"} /\ moved = {}
  BY DEF Backup, Free, Careful
<1>2. /\ O'.blocks = O.blocks /\ O'.seq = O.seq /\ O'.cur = next
      /\ O'.adds = a \ d /\ O'.dels = {} /\ O'.arch = {a} /\ N' = N
  BY <1>1 DEF IInv, TypeOK, Server, Started
<1>3. /\ cache'["old"].cseq = c.cseq /\ cache'["old"].directory = c.directory
      /\ cache'["old"].commit = next /\ cache'["old"].tmp = Directory(d \cup a)
      /\ cache'["new"] = cache["new"]
  BY <1>1 DEF IInv, TypeOK, CacheDir
<1>4. next \in Nat /\ O.seq < next /\ c.cseq < next /\ 0 < next
  BY DEF IInv, TypeOK, Server, CacheDir, Numbers
<1>5. d = O.blocks
  BY <1>1 DEF IInv, OldSynced, OldDirs
<1> HIDE DEF c, d
<1>6. Numbers'
  BY <1>1, <1>2, <1>3, <1>4 DEF c, IInv, TypeOK, Server, CacheDir, Locals, Numbers
<1>7. NewOnlyGrows' /\ NeverLost'
  BY <1>1, <1>2 DEF IInv, NewOnlyGrows, NeverLost
<1>8. OldWhole'
  <2>1. O'.blocks \cup O'.adds = O.blocks \cup a /\ Closed(O.blocks) /\ Closed(O.blocks \cup a)
    BY <1>2, <1>5, ClosedFacts DEF IInv, OldWhole
  <2>2. QED BY <1>2, <2>1 DEF OldWhole, Adding
<1>9. OldSynced'
  <2>1. Installed' = {Directory(d \cup a)}
    BY <1>3 DEF Installed, Directory
  <2>2. d \cup a = O'.blocks \cup O'.adds
    BY <1>2, <1>5
  <2>3. Directory(d \cup a).blocks = O'.blocks \cup O'.adds
    BY <2>2 DEF Directory
  <2>4. cache'["old"].commit # 0 /\ cache'["old"].commit # O'.seq
    BY <1>2, <1>3, <1>4
  <2>5. QED BY <2>1, <2>3, <2>4 DEF OldSynced
<1>10. OldRetired'
  BY <1>1, <1>2 DEF IInv, OldRetired
<1>11. SubInv' /\ ListInv' /\ WorkInv' /\ BatchInv' /\ DeleteInv'
  BY <1>1 DEF IInv, SubInv, Committing, ListInv, WorkInv, Working, BatchInv, DeleteInv
<1>12. QED BY <1>6, <1>7, <1>8, <1>9, <1>10, <1>11 DEF IInv

\* There is nothing on the old machine that --fsck deletes, and it deletes
\* nothing on the new one.
LEMMA FsckKeeps ==
    ASSUME Careful, IInv, TypeOK', NEW m \in Machines, NEW w \in BOOLEAN, Fsck(m, w)
    PROVE  IInv'
<1>1. Referenced(srv[m].blocks) = srv[m].blocks
  BY ClosedFacts DEF Fsck, Careful, IInv, OldWhole
<1> DEFINE s == srv[m]
           c == cache[m]
           t == IF w THEN next ELSE 0
<1>2. /\ srv' = [srv EXCEPT ![m] = Started(s, {}, {}, {})]
      /\ cache' = [cache EXCEPT ![m] = [c EXCEPT !.tmp = Directory(s.blocks), !.commit = t]]
      /\ next' = next + 1 /\ c.commit = 0
      /\ UNCHANGED <<disk, proc, past>>
      /\ pc \in {"idle", "done"} /\ (m = "old" => moved = {})
  <2>1. s.blocks \ s.blocks = {}
    OBVIOUS
  <2>2. QED BY <1>1, <2>1 DEF Fsck, Free, Careful
<1>3. /\ srv'[m].blocks = s.blocks /\ srv'[m].seq = s.seq /\ srv'[m].cur = next
      /\ srv'[m].adds = {} /\ srv'[m].dels = {} /\ srv'[m].arch = {}
      /\ \A x \in Machines \ {m} : srv'[x] = srv[x]
  BY <1>2 DEF IInv, TypeOK, Server, Started
<1>4. /\ cache'[m].cseq = c.cseq /\ cache'[m].directory = c.directory
      /\ cache'[m].commit = t /\ cache'[m].tmp = Directory(s.blocks)
      /\ \A x \in Machines \ {m} : cache'[x] = cache[x]
  BY <1>2 DEF IInv, TypeOK, CacheDir
<1>5. next \in Nat /\ (t = 0 \/ t = next) /\ s.seq < next /\ c.cseq < next /\ 0 < next
  BY DEF IInv, TypeOK, Server, CacheDir, Numbers
<1> HIDE DEF s, c, t
<1>6. Numbers'
  BY <1>2, <1>3, <1>4, <1>5 DEF s, c, IInv, TypeOK, Server, CacheDir, Locals, Numbers
<1>7. NewOnlyGrows'
  BY <1>3 DEF IInv, NewOnlyGrows
<1>8. OldWhole'
  <2>1. CASE m = "new"
    BY <1>2, <1>3, <2>1 DEF s, IInv, OldWhole, Adding, Deleting
  <2>2. CASE m = "old"
    <3>1. Closed(O'.blocks) /\ O'.blocks \cup O'.adds = O'.blocks
      BY <1>3, <2>2 DEF s, IInv, OldWhole
    <3>2. QED BY <1>3, <2>2, <3>1 DEF OldWhole, Adding
  <2>3. QED BY <2>1, <2>2
<1>9. NeverLost'
  BY <1>2, <1>3 DEF s, IInv, NeverLost
<1>10. OldSynced'
  BY <1>2, <1>3, <1>4, <1>5 DEF s, c, IInv, OldSynced, OldDirs, Installed, Directory
<1>11. OldRetired'
  BY <1>2, <1>3, <1>4 DEF s, c, IInv, OldRetired
<1>12. SubInv' /\ ListInv' /\ WorkInv' /\ BatchInv' /\ DeleteInv'
  BY <1>2 DEF IInv, SubInv, Committing, ListInv, WorkInv, Working, BatchInv, DeleteInv
<1>13. QED
  BY <1>6, <1>7, <1>8, <1>9, <1>10, <1>11, <1>12 DEF IInv

(***************************************************************************)
(* The invariant.                                                          *)
(***************************************************************************)

\* What is there at first.
LEMMA InitFacts ==
    ASSUME Init
    PROVE  \E f \in SUBSET First :
            /\ O.blocks = UNION f /\ saved = f
            /\ \A m \in Machines :
                  /\ srv[m].seq = 0 /\ srv[m].cur = 0
                  /\ cache[m].cseq = 0 /\ cache[m].commit = 0 /\ cache[m].tmp = Absent
                  /\ disk[m] = {cache[m].directory}
            /\ cache["old"].directory.blocks = O.blocks
            /\ pc = "idle" /\ sub = "out" /\ loc = NoLocals /\ next = 1 /\ moved = {}
<1>1. PICK f \in SUBSET First :
        /\ srv = [m \in Machines |->
                [blocks |-> IF m = "old" THEN UNION f ELSE {}, seq |-> 0,
                 cur |-> 0, adds |-> {}, dels |-> {}, arch |-> {}]]
        /\ cache = [m \in Machines |->
                  [cseq |-> 0, commit |-> 0, tmp |-> Absent,
                   directory |-> IF m = "old" /\ f # {} THEN Directory(UNION f)
                                 ELSE Absent]]
        /\ disk = [m \in Machines |-> {cache[m].directory}]
        /\ pc = "idle" /\ sub = "out" /\ loc = NoLocals /\ next = 1
        /\ moved = {} /\ saved = f
  BY DEF Init
<1>2. f = {} => UNION f = {}
  OBVIOUS
<1>3. O.blocks = UNION f /\ cache["old"].directory.blocks = UNION f
  BY <1>1, <1>2 DEF Directory
<1>4. QED BY <1>1, <1>3

\* The invariant holds initially, and each step keeps it.
LEMMA InitKeeps ==
    ASSUME RecryptAssumption, Init
    PROVE  IInv
<1>1. TypeOK
  BY InitType
<1>2. PICK f \in SUBSET First :
        /\ O.blocks = UNION f /\ saved = f
        /\ \A m \in Machines :
              /\ srv[m].seq = 0 /\ srv[m].cur = 0
              /\ cache[m].cseq = 0 /\ cache[m].commit = 0 /\ cache[m].tmp = Absent
              /\ disk[m] = {cache[m].directory}
        /\ cache["old"].directory.blocks = O.blocks
        /\ pc = "idle" /\ sub = "out" /\ loc = NoLocals /\ next = 1 /\ moved = {}
  BY InitFacts
<1>3. f \subseteq Archives
  BY DEF RecryptAssumption
<1>4. Numbers /\ NewOnlyGrows
  BY <1>2 DEF Numbers, NewOnlyGrows, NoLocals
<1>5. OldWhole
  BY <1>2, <1>3 DEF OldWhole, Closed
<1>6. NeverLost
  BY <1>2 DEF NeverLost
<1>7. OldSynced /\ OldRetired
  BY <1>2 DEF OldSynced, OldRetired, OldDirs, Installed
<1>8. SubInv /\ ListInv /\ WorkInv /\ BatchInv /\ DeleteInv
  BY <1>2 DEF SubInv, Committing, ListInv, NoLocals, WorkInv, Working, BatchInv, DeleteInv
<1>9. QED BY <1>1, <1>4, <1>5, <1>6, <1>7, <1>8 DEF IInv

LEMMA StepKeeps ==
    ASSUME Careful, IInv, Next
    PROVE  IInv'
<1>1. TypeOK'
  BY MainType, TarsnapType DEF Next, IInv
<1>2. CASE Main
  BY <1>1, <1>2, CommitDirKeeps, CommitServerKeeps, CommitSeqKeeps, CommitEndKeeps,
     CleanOldKeeps, DeleteStartKeeps, CompareKeeps, NothingToDoKeeps, CopyBatchKeeps,
     MarkNewKeeps, NextBatchKeeps, CopyDirectoryKeeps, SyncDirectoryKeeps,
     DeleteBlocksKeeps, MarkOldKeeps, UnlinkKeeps, FailKeeps DEF Main
<1>3. CASE Tarsnap
  BY <1>1, <1>3, CleanKeeps, FsckKeeps, BackupKeeps, ForeignKeeps DEF Tarsnap
<1>4. QED BY <1>1, <1>2, <1>3, BeginKeeps, CrashKeeps DEF Next

LEMMA StutterKeeps ==
    ASSUME IInv, UNCHANGED vars
    PROVE  IInv'
BY DEF vars, IInv, TypeOK, Numbers, NewOnlyGrows, OldWhole, Closed, Adding, Deleting, NeverLost,
       OldSynced, OldDirs, Installed, OldRetired, SubInv, Here, ListInv, WorkInv, BatchInv,
       DeleteInv

\* The inductive invariant, for careful users.
THEOREM Invariant ==
    ASSUME Careful
    PROVE  Spec => []IInv
<1>1. Init => IInv
  BY InitKeeps, RecryptAssumption
<1>2. IInv /\ [Next]_vars => IInv'
  BY StepKeeps, StutterKeeps
<1>3. QED BY <1>1, <1>2, PTL DEF Spec

\* No archive that was ever committed is lost: whenever recrypt is interrupted
\* (recrypt.c:376-737), however often it is run again, and whatever backups are
\* made before it deletes something.
THEOREM NothingLost ==
    ASSUME Careful
    PROVE  Spec => []NeverLost
BY Invariant, PTL DEF IInv

(***************************************************************************)
(* The new chunk directory.                                                *)
(***************************************************************************)

\* The directory is replaced by one that is installed with its marker.
LEMMA CleanLists ==
    ASSUME Careful, IInv, NewDirInv, NEW m \in Machines, Clean(m)
    PROVE  NewDirInv'
<1> DEFINE c == cache[m]
<1>1. /\ cache' = [cache EXCEPT ![m] = [Moved(c) EXCEPT !.cseq = c.commit, !.commit = 0]]
      /\ srv' = [srv EXCEPT ![m] = Commit(srv[m], c.commit)]
      /\ moved' = moved \cup Removed(m, c.commit)
      /\ disk' = IF c.tmp = Absent THEN disk ELSE [disk EXCEPT ![m] = {c.tmp}]
      /\ pc' = pc /\ pc \in {"idle", "done"} /\ c.commit # 0
  BY DEF Clean, Free, Moved, IInv, TypeOK, CacheDir
<1>2. CASE m = "new"
  <2>1. /\ O' = O /\ moved' = moved
        /\ cache'["new"].tmp = Absent /\ cache'["new"].commit = 0
    BY <1>1, <1>2 DEF Moved, Removed, IInv, TypeOK, CacheDir
  <2>2. NewDirs' = IF c.tmp # Absent THEN {c.tmp} ELSE NewDirs
    BY <1>1, <1>2 DEF Moved, IInv, TypeOK, CacheDir, NewDirs
  <2>3. QED BY <1>1, <1>2, <2>1, <2>2 DEF NewDirInv, DirectoryFirst, NewDirs, Working
<1>3. CASE m = "old"
  <2>1. UNCHANGED <<NewDirs, cache["new"]>> /\ O' = Commit(O, c.commit)
    BY <1>1, <1>3 DEF IInv, TypeOK, NewDirs
  <2>2. \/ /\ O' = O /\ moved' = moved
        \/ /\ O.cur # 0 /\ O'.cur = 0 /\ moved' = moved \cup O.dels
           /\ O.blocks \ O.dels \subseteq O'.blocks
    BY <1>1, <1>3, <2>1 DEF Commit, Removed, IInv, TypeOK, Server
  <2>3. QED BY <1>1, <1>3, <2>1, <2>2 DEF NewDirInv, DirectoryFirst, NewDirs, Working
<1>4. QED BY <1>2, <1>3

\* Recrypt opens the new directory, before it deletes anything.
LEMMA CompareLists ==
    ASSUME IInv, NewDirInv, Compare
    PROVE  NewDirInv'
<1>1. /\ O' = O /\ moved' = moved /\ disk'["new"] \subseteq disk["new"] \cup {Torn}
      /\ cache'["new"].directory = Torn /\ cache'["new"].tmp = cache["new"].tmp
      /\ cache'["new"].commit = cache["new"].commit
      /\ loc'.linked /\ pc' = "copy" /\ loc'.olist = O.blocks
  BY DEF Compare, Goto, IInv, TypeOK, CacheDir, Locals
<1>2. moved \subseteq O.blocks /\ (O.cur # 0 => O.dels = {})
  BY DEF Compare, At, IInv, ListInv, WorkInv, Working
<1>3. cache["new"].tmp = Absent
  BY DEF Compare, At, NewDirInv, Working
<1>4. QED BY <1>1, <1>2, <1>3 DEF NewDirInv, DirectoryFirst, NewDirs, Working

\* A directory made by --fsck lists all blocks of the new machine, and is not
\* left without its marker.
LEMMA FsckLists ==
    ASSUME Careful, "new" \notin Interrupted, IInv, NewDirInv,
           NEW m \in Machines, NEW w \in BOOLEAN, Fsck(m, w)
    PROVE  NewDirInv'
<1> DEFINE s == srv[m]
           t == IF w THEN next ELSE 0
<1>1. Referenced(srv[m].blocks) = srv[m].blocks
  BY ClosedFacts DEF Fsck, Careful, IInv, OldWhole
<1>2. /\ srv' = [srv EXCEPT ![m] = Started(s, {}, {}, {})]
      /\ cache' = [cache EXCEPT ![m] = [@ EXCEPT !.tmp = Directory(s.blocks), !.commit = t]]
      /\ disk' = disk /\ moved' = moved /\ pc' = pc /\ pc \in {"idle", "done"}
      /\ (m = "new" => t = next /\ next # 0)
  <2>1. s.blocks \ s.blocks = {}
    OBVIOUS
  <2>2. next # 0
    BY DEF IInv, Numbers, TypeOK, Server
  <2>3. QED BY <1>1, <2>1, <2>2 DEF Fsck, Free
<1>3. /\ UNCHANGED NewDirs /\ O'.dels \subseteq O.dels /\ O'.blocks = O.blocks
      /\ (O'.cur # 0 => O.cur # 0 \/ O'.dels = {})
      /\ (m = "old" => cache'["new"] = cache["new"])
  BY <1>2 DEF IInv, TypeOK, Server, CacheDir, Started, NewDirs
<1>4. m = "new" => /\ cache'["new"].tmp = Directory(N.blocks) /\ cache'["new"].commit # 0
                   /\ moved \subseteq N.blocks /\ (O.cur # 0 => O.dels \subseteq N.blocks)
  BY <1>2 DEF IInv, TypeOK, CacheDir, OldRetired, OldWhole, Adding, Deleting
<1>5. QED BY <1>2, <1>3, <1>4 DEF NewDirInv, DirectoryFirst, NewDirs, Working, Directory

\* The other steps.
LEMMA MainLists ==
    ASSUME IInv, NewDirInv, Begin \/ Main \/ Crash
    PROVE  NewDirInv'
<1>1. CASE CommitDir
  BY <1>1 DEF CommitDir, IInv, Moved, TypeOK, Locals, Working, NewDirs,
       NewDirInv, DirectoryFirst
<1>2. CASE CommitServer
  BY <1>2 DEF CommitServer, Commit, Removed, IInv, NewDirs, NewDirInv,
       DirectoryFirst, SubInv, WorkInv
<1>3. CASE CommitSeq
  BY <1>3 DEF CommitSeq, NewDirs, NewDirInv, DirectoryFirst
<1>4. CASE CommitEnd
  BY <1>4 DEF CommitEnd, IInv, NewDirs, NewDirInv, DirectoryFirst, SubInv
<1>5. CASE Begin
  BY <1>5 DEF Begin, Working, NewDirs, NewDirInv, DirectoryFirst
<1>6. CASE CleanOld
  BY <1>6 DEF CleanOld, At, IInv, Here, Committing, Working, NewDirs,
       NewDirInv, DirectoryFirst, SubInv
<1>7. CASE DeleteStart
  BY <1>7 DEF DeleteStart, At, Goto, Started, NewDirs, NewDirInv,
       DirectoryFirst
<1>8. CASE NothingToDo
  BY <1>8 DEF NothingToDo, Goto, Working, NewDirs, NewDirInv, DirectoryFirst
<1>9. CASE CopyBatch
  BY <1>9 DEF CopyBatch, At, Goto, Working, NewDirs, NewDirInv, DirectoryFirst
<1>10. CASE MarkNew
  BY <1>10 DEF MarkNew, At, Working, NewDirs, NewDirInv, DirectoryFirst
<1>11. CASE NextBatch
  BY <1>11 DEF NextBatch, At, Goto, Working, NewDirs, NewDirInv,
       DirectoryFirst
<1>12. CASE CopyDirectory
  BY <1>12 DEF CopyDirectory, At, Goto, IInv, Working, NewDirInv,
       DirectoryFirst, WorkInv
<1>13. CASE SyncDirectory
  BY <1>13 DEF SyncDirectory, At, OnDisk, IInv, TypeOK, Working, NewDirInv,
       DirectoryFirst, WorkInv, OldSynced, OldDirs
<1>14. CASE DeleteBlocks
  BY <1>14 DEF DeleteBlocks, At, Goto, Working, NewDirs, NewDirInv,
       DirectoryFirst
<1>15. CASE MarkOld
  BY <1>15 DEF MarkOld, At, Working, NewDirs, NewDirInv, DirectoryFirst
<1>16. CASE Unlink
  BY <1>16 DEF Unlink, Goto, Working, NewDirs, NewDirInv, DirectoryFirst
<1>17. CASE Fail
  BY <1>17 DEF Fail, Working, NewDirs, NewDirInv, DirectoryFirst
<1>18. CASE Crash
  BY <1>18 DEF Crash, IInv, TypeOK, CacheDir, Working, NewDirs, NewDirInv,
       DirectoryFirst
<1>19. CASE Compare
  BY <1>19, CompareLists
<1>20. QED
  BY <1>1, <1>2, <1>3, <1>4, <1>5, <1>6, <1>7, <1>8, <1>9, <1>10, <1>11, <1>12,
     <1>13, <1>14, <1>15, <1>16, <1>17, <1>18, <1>19 DEF Main

LEMMA TarsnapLists ==
    ASSUME Careful, "new" \notin Interrupted, IInv, NewDirInv, Tarsnap
    PROVE  NewDirInv'
<1>1. ASSUME NEW a \in Archives, Backup("old", a) PROVE NewDirInv'
  BY <1>1 DEF Backup, Free, Started, NewDirs, NewDirInv, DirectoryFirst
<1>2. ASSUME NEW a \in Archives, Foreign(a) PROVE NewDirInv'
  BY <1>2 DEF IInv, TypeOK, Server, Foreign, Extended, NewDirs, NewDirInv,
       DirectoryFirst
<1>3. QED BY <1>1, <1>2, CleanLists, FsckLists DEF Tarsnap

\* The inductive invariant of the new chunk directory.
THEOREM DirectoryInvariant ==
    ASSUME Careful, "new" \notin Interrupted
    PROVE  Spec => []DInv
<1>1. Init => DInv
  <2> SUFFICES ASSUME Init PROVE NewDirInv
    BY InitKeeps, RecryptAssumption DEF DInv
  <2>1. moved = {} /\ O.cur = 0 /\ cache["new"].tmp = Absent /\ pc = "idle"
    BY InitFacts
  <2>2. QED BY <2>1 DEF NewDirInv, DirectoryFirst, Working
<1>2. DInv /\ [Next]_vars => DInv'
  <2>1. CASE Next
    BY <2>1, StepKeeps, MainLists, TarsnapLists DEF DInv, Next
  <2>2. CASE UNCHANGED vars
    BY <2>2, StutterKeeps DEF DInv, NewDirInv, NewDirs, DirectoryFirst, vars
  <2>3. QED BY <2>1, <2>2
<1>3. QED BY <1>1, <1>2, PTL DEF Spec

\* Whatever recrypt has deleted is listed in any chunk directory that the new
\* machine has or may find after a power failure: it is synced before the
\* deletion (recrypt.c:653-658), and kept by what tarsnap does to it, unless an
\* interrupted --fsck of the new machine leaves a directory without its marker.
THEOREM DirectoryKept ==
    ASSUME Careful, "new" \notin Interrupted
    PROVE  Spec => []DirectoryFirst
BY DirectoryInvariant, PTL DEF DInv, NewDirInv
=============================================================================
