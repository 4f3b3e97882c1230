----------------------------- MODULE RecryptInv -----------------------------
(***************************************************************************)
(* The inductive invariant behind NeverLost and DirectoryFirst (module     *)
(* Recrypt).                                                               *)
(***************************************************************************)
EXTENDS Recrypt

\* Nobody uses the old keys again, and --fsck-prune never takes blocks of a
\* half filled new machine for rubbish.
Careful == Retired /\ "new" \notin Pruned

Blocks == UNION Archives
Dirs   == [is : {"valid", "absent", "torn"}, blocks : SUBSET Blocks]

Steps == {"idle", "cleanNew", "cleanOld", "list", "copy", "copied",
          "commitNew", "directory", "delete", "deleted", "commitOld", "done"}

Server   == [blocks : SUBSET Blocks, seq : Nat, cur : Nat, adds : SUBSET Blocks,
             dels : SUBSET Blocks, arch : SUBSET Archives]
CacheDir == [cseq : Nat, commit : Nat, tmp : Dirs, directory : Dirs]
Locals   == [nlist : SUBSET Blocks, olist : SUBSET Blocks, todo : SUBSET Blocks,
             batch : SUBSET Blocks, last : Nat, del : Nat, linked : BOOLEAN]

TypeOK ==
    /\ srv \in [Machines -> Server] /\ cache \in [Machines -> CacheDir]
    /\ disk \in [Machines -> SUBSET Dirs]
    /\ pc \in Steps /\ sub \in {"out", "dir", "srv", "seq", "unmark"}
    /\ loc \in Locals
    /\ next \in Nat
    /\ moved \in SUBSET Blocks /\ saved \in SUBSET Archives

(***************************************************************************)
(* The servers.                                                            *)
(***************************************************************************)
O == srv["old"]
N == srv["new"]

\* Transaction numbers are handed out once.
Numbers ==
    /\ \A m \in Machines :
          /\ srv[m].seq < next /\ srv[m].cur < next
          /\ srv[m].cur # 0 => srv[m].cur # srv[m].seq
          /\ cache[m].cseq < next /\ cache[m].commit < next
    /\ loc.last < next /\ loc.del < next

\* Nothing is ever taken away from the new machine.
NewOnlyGrows == N.cur # 0 => N.dels = {} /\ N.arch = {}

\* Every block belongs to an archive all of which is there.
Closed(bs) == \A x \in bs : \E a \in Archives : x \in a /\ a \subseteq bs

\* A transaction on the old machine adds what an archive still needs, or takes
\* everything away that the new machine has.
Adding   == /\ O.dels = {} /\ Closed(O.blocks \cup O.adds)
            /\ \A a \in O.arch : a \subseteq O.blocks \cup O.adds
Deleting == /\ O.dels = O.blocks /\ O.dels \subseteq N.blocks
            /\ O.adds = {} /\ O.arch = {} /\ moved = {}
OldWhole == Closed(O.blocks) /\ (O.cur # 0 => Adding \/ Deleting)

(***************************************************************************)
(* The old cache directory.                                                *)
(***************************************************************************)
OldDirs   == disk["old"] \cup {cache["old"].directory}
Installed == IF cache["old"].tmp # Absent THEN {cache["old"].tmp} ELSE OldDirs

\* A directory in sequence lists what the server has, and one to be installed
\* what it will have then, also after a power failure.
OldSynced ==
    moved = {} =>
      LET c == cache["old"] IN
      /\ c.commit = 0 /\ c.cseq = O.seq =>
           /\ \A d \in OldDirs : d.blocks = O.blocks
           /\ c.tmp # Absent => c.tmp.blocks = O.blocks
      /\ c.commit # 0 /\ c.commit = O.seq =>
           \A d \in Installed : d.blocks = O.blocks
      /\ c.commit # 0 /\ c.commit = O.cur /\ O.dels = {} =>
           \A d \in Installed : d.blocks = O.blocks \cup O.adds

\* Once recrypt has deleted the old blocks, an old cache directory is out of
\* sequence or there is nothing on the server.
OldRetired ==
    LET c == cache["old"] IN
    /\ moved \subseteq N.blocks
    /\ moved # {} =>
         /\ c.cseq = O.seq \/ (c.commit # 0 /\ c.commit = O.seq) => O.blocks = {}
         /\ c.commit # 0 => c.commit # O.cur

(***************************************************************************)
(* main.                                                                   *)
(***************************************************************************)
Committing == {"cleanNew", "cleanOld", "commitNew", "commitOld"}

\* Where multitape_docommit is.
SubInv ==
    LET c == cache[Here] IN
    /\ sub # "out" =>
         /\ pc \in Committing /\ c.commit # 0
         /\ sub # "dir" => c.tmp = Absent
         /\ sub \in {"seq", "unmark"} => srv[Here].cur # c.commit
         /\ sub = "unmark" => c.cseq = c.commit
    /\ sub = "out" /\ pc \in Committing => c.commit = 0

Working == {"list", "copy", "copied", "commitNew", "directory", "delete",
            "deleted"}

\* The list of the new machine's blocks.
ListInv ==
    pc \in {"cleanNew", "cleanOld", "list"} =>
        /\ loc.nlist \subseteq N.blocks
        /\ moved \subseteq loc.nlist
        /\ O.cur # 0 => O.dels \subseteq loc.nlist

\* While the delete transaction is the one in progress nothing changes on the
\* old machine; what is not to be copied any more has been.
WorkInv ==
    /\ pc \in Working =>
         /\ cache["old"].commit = 0
         /\ loc.del # 0 /\ loc.del # O.seq /\ O.cur \in {0, loc.del}
         /\ O.cur # 0 =>
              /\ cache["old"].cseq = O.seq
              /\ O.adds = {} /\ O.arch = {}
              /\ pc # "deleted" => O.dels = {}
    /\ pc \in Working \ {"list"} =>
         /\ loc.olist \ loc.todo \subseteq N.blocks
         /\ O.cur # 0 => moved = {} /\ O.blocks = loc.olist
    /\ pc \in {"directory", "delete", "deleted"} => loc.todo = {}
    /\ pc = "deleted" /\ O.cur # 0 => O.dels = loc.olist

BatchInv ==
    /\ pc = "copied" => N.cur = loc.last /\ N.adds = loc.batch /\ loc.last # 0
    /\ pc = "commitNew" =>
         IF sub \in {"dir", "srv"}
         THEN cache["new"].commit = loc.last /\ N.cur = loc.last /\ N.adds = loc.batch
         ELSE loc.batch \subseteq N.blocks

\* The deletion leaves nothing, if it is committed.
DeleteInv ==
    LET c == cache["old"] IN
    pc = "commitOld" =>
        /\ c.commit # 0 /\ c.commit = O.cur => O.dels = O.blocks /\ O.adds = {}
        /\ c.commit # 0 /\ c.commit = O.seq => O.blocks = {}
        /\ c.commit = 0 /\ c.cseq = O.seq => O.blocks = {}

IInv ==
    /\ TypeOK /\ Numbers /\ NewOnlyGrows /\ OldWhole /\ NeverLost
    /\ OldSynced /\ OldRetired
    /\ SubInv /\ ListInv /\ WorkInv /\ BatchInv /\ DeleteInv

(***************************************************************************)
(* The new chunk directory, if no --fsck of the new machine failed before  *)
(* its marker.                                                             *)
(***************************************************************************)
NewDirs == disk["new"] \cup {cache["new"].directory}

\* What is deleted, or about to be, is listed in the new directory and in one
\* that will replace it.
NewDirInv ==
    LET c == cache["new"] IN
    /\ DirectoryFirst
    /\ O.cur # 0 => \A d \in NewDirs : O.dels \subseteq d.blocks
    /\ c.tmp # Absent =>
         /\ c.commit # 0 /\ moved \subseteq c.tmp.blocks
         /\ O.cur # 0 => O.dels \subseteq c.tmp.blocks
    /\ pc \in Working \cup {"cleanOld", "commitOld"} => c.tmp = Absent
    /\ pc \in Working \ {"list"} => moved \subseteq O.blocks
    /\ pc \in {"copy", "copied", "commitNew", "directory"} => loc.linked
    /\ pc = "delete" =>
         /\ disk["new"] = {c.directory}
         /\ O.cur # 0 => c.directory.blocks = loc.olist

DInv == IInv /\ NewDirInv
=============================================================================
