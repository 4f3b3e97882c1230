---------------------------- MODULE StorageQueue ----------------------------
(***************************************************************************)
(* The queues of the storage layer (tar/storage/storage_write.c,           *)
(* storage_delete.c): files of a transaction are uploaded or deleted while *)
(* the program goes on, over one or several connections, with a limit on   *)
(* what may be pending; flush and end wait for all of it.                  *)
(*                                                                         *)
(* A connection is what RequestQueue says of it: the server may carry out  *)
(* requests more than once and in any order, the answers come in order.    *)
(* Callbacks run only while the program waits: in the calls below, or for  *)
(* something else in between, when a failure is reported to whoever waits  *)
(* and the program need not know that it concerns this transaction.        *)
(***************************************************************************)
EXTENDS Integers, Sequences, FiniteSets, Functions, FiniteSetsExt

CONSTANTS
  Jobs,        \* files to write or delete, each at most once
  NoJob,       \* none of them
  Sizes,       \* the length of each when encrypted
  MaxBytes,    \* MAXPENDING_WRITEBYTES
  MaxDeletes,  \* MAXPENDING_DELETE
  NumConns     \* AGGRESSIVE_CNUM, or 1

Conns == 0 .. NumConns - 1

ASSUME StorageQueueAssumption ==
  /\ NoJob \notin Jobs
  /\ Sizes \in [Jobs -> 1 .. MaxBytes]
  /\ {MaxBytes, MaxDeletes, NumConns} \subseteq Nat \ {0}

VARIABLES
  kind,      \* "write", "delete"; "fsck" when it may not delete (readonly)
  call, req, \* what the program waits in, and for which request
  level,     \* at most this much may be pending for it to go on
  npending,  \* nbytespending or npending
  lastcnum,
  queue,     \* of each connection: the requests not answered yet
  done,      \* server: the requests it has carried out
  accepted,  \* history: requests for which the program was told "success"
  flushed,   \* history: those before the last successful flush
  failed     \* history: has a request failed?

transaction == <<kind, npending, lastcnum, level>>
queueVars == <<transaction, call, req, queue, done, accepted, flushed, failed>>

\* What a request counts for: a write its length, a delete one.
Cost == IF kind = "write" THEN Sizes ELSE [r \in Jobs |-> 1]

\* Mutants: less than the limit may be pending; as of before the request.
LevelBelow(n) == IF kind = "write" THEN MaxBytes - 1
                 ELSE IF n > MaxDeletes THEN MaxDeletes \div 2 + 1 ELSE n
LevelTwice(n) == IF kind = "write" THEN 2 * MaxBytes
                 ELSE IF n > MaxDeletes THEN MaxDeletes \div 2 + 1 ELSE n

\* A write waits until it fits; a delete that does not fit waits until half of
\* the deletes are gone.
Level(n) == IF kind = "write" THEN MaxBytes
            ELSE IF n > MaxDeletes THEN MaxDeletes \div 2 + 1 ELSE n

-----------------------------------------------------------------------------
(* storage_write_file, storage_delete_file.                                *)

Sent == UNION {Range(queue[c]) : c \in Conns}

\* The request is counted before there is room for it.
File(r) ==
  /\ call = "none" /\ kind # "fsck"
  /\ r \notin accepted \cup Sent \cup done
  /\ call' = "file" /\ req' = r
  /\ npending' = npending + Cost[r]
  /\ level' = Level(npending + Cost[r])
  /\ UNCHANGED <<kind, lastcnum, queue, done, accepted, flushed, failed>>

\* netpacket_op, on the next connection.
NextConn == IF kind = "write" THEN (lastcnum + 1) % NumConns ELSE 0
Enqueued == [queue EXCEPT ![NextConn] = Append(@, req)]

Send ==
  /\ call = "file" /\ npending <= level
  /\ lastcnum' = NextConn /\ queue' = Enqueued
  /\ accepted' = accepted \cup {req}
  /\ call' = "none" /\ req' = NoJob
  /\ UNCHANGED <<kind, npending, level, done, flushed, failed>>

\* It fails for want of memory, or cannot connect or send; then the request is
\* in the queue all the same, and may be sent with the next one.
SendFails ==
  /\ call = "file" /\ npending <= level
  /\ lastcnum' = NextConn /\ queue' \in {queue, Enqueued}
  /\ failed' = TRUE
  /\ call' = "none" /\ req' = NoJob
  /\ UNCHANGED <<kind, npending, level, done, accepted, flushed>>

(* The network: the server at any time, answers while something waits.     *)

Serve(r) ==
  /\ r \in Sent /\ done' = done \cup {r}
  /\ UNCHANGED <<transaction, call, req, queue, accepted, flushed, failed>>

Running == call \notin {"ended", "dead"}

Answered(c, n) ==
  /\ npending' = n
  /\ queue' = [queue EXCEPT ![c] = Tail(@)]
  /\ UNCHANGED <<kind, lastcnum, level, req, done, accepted, flushed>>

\* Mutant: a failed request is not pending any more.
AfterFailureLess(r) == npending - Cost[r]

\* What is pending after a request has failed.
AfterFailure(r) == npending

\* callback_write_file_response, callback_delete_file_response.
Success(c) ==
  /\ Running /\ queue[c] # <<>> /\ Head(queue[c]) \in done
  /\ Answered(c, npending - Cost[Head(queue[c])])
  /\ UNCHANGED <<call, failed>>

\* The file is there already, the transaction is gone, the answer is not
\* right, or the connection has failed for good.  The call that waits fails;
\* end has freed the transaction by then.
Failure(c) ==
  /\ Running /\ queue[c] # <<>>
  /\ Answered(c, AfterFailure(Head(queue[c])))
  /\ call' = IF call = "end" THEN "dead" ELSE "none"
  /\ failed' = TRUE

(* storage_write_flush and _end, storage_delete_flush and _end.            *)

Wait(how) ==
  /\ call = "none" /\ call' = how
  /\ UNCHANGED <<transaction, req, queue, done, accepted, flushed, failed>>

Drained ==
  /\ call \in {"flush", "end"} /\ npending = 0
  /\ call' = IF call = "end" THEN "ended" ELSE "none"
  /\ flushed' = accepted
  /\ UNCHANGED <<transaction, req, queue, done, accepted, failed>>

\* storage_write_free, storage_delete_free: the program has had enough.
Free ==
  /\ call = "none" /\ call' = "dead"
  /\ UNCHANGED <<transaction, req, queue, done, accepted, flushed, failed>>

-----------------------------------------------------------------------------
QueueInit ==
  /\ kind \in {"write", "delete", "fsck"}
  /\ call = "none" /\ req = NoJob
  /\ level = 0 /\ npending = 0 /\ lastcnum = 0
  /\ queue = [c \in Conns |-> <<>>]
  /\ done = {} /\ accepted = {} /\ flushed = {} /\ failed = FALSE

QueueNext ==
  \/ \E r \in Jobs : File(r) \/ Serve(r)
  \/ Send \/ SendFails \/ Drained \/ Free
  \/ \E how \in {"flush", "end"} : Wait(how)
  \/ \E c \in Conns : Success(c) \/ Failure(c)

QueueSpec == QueueInit /\ [][QueueNext]_queueVars

\* The server carries out what it is sent, answers arrive, and the program
\* goes on when it need not wait.
FairSpec ==
  /\ QueueSpec /\ WF_queueVars(Send) /\ WF_queueVars(Drained)
  /\ \A r \in Jobs : WF_queueVars(Serve(r))
  /\ \A c \in Conns : WF_queueVars(Success(c))

-----------------------------------------------------------------------------
(* What it promises.                                                       *)

\* A flush or end that returns success means that all that was accepted before
\* is stored, even if a failure was reported to somebody else in between.
FlushStored == flushed \subseteq done

\* No more is in the hands of the network than the limit.
Load(S) == MapThenSumSet(LAMBDA r : Cost[r], S)
Limit == IF kind = "write" THEN MaxBytes ELSE MaxDeletes
Window == Load(Sent) <= Limit

-----------------------------------------------------------------------------
(* Why flushes and windows are right: the inductive invariant.             *)

TypeOK ==
  /\ kind \in {"write", "delete", "fsck"}
  /\ call \in {"none", "file", "flush", "end", "ended", "dead"}
  /\ req \in Jobs \cup {NoJob}
  /\ {level, npending} \subseteq Int /\ lastcnum \in Conns
  /\ queue \in [Conns -> Seq(Jobs)]
  /\ {done, accepted, flushed} \subseteq SUBSET Jobs
  /\ failed \in BOOLEAN

\* No request waits for two answers.
OnceQueued ==
  \A c, d \in Conns : \A i \in 1 .. Len(queue[c]), j \in 1 .. Len(queue[d]) :
    queue[c][i] = queue[d][j] => c = d /\ i = j

\* What is not stored, or not known to be, counts as pending for good: an
\* answer that is lost to a failure keeps its place.
Unsettled == Sent \cup (accepted \ done)
Requested == IF call = "file" THEN Cost[req] ELSE 0
Counted == IsFiniteSet(Unsettled) /\ Load(Unsettled) + Requested <= npending

\* A request that waits for room is a new one, and waits for enough of it.
NewJob ==
  /\ call = "file" => req \in Jobs \ Unsettled
  /\ level <= Limit

QueueInv ==
  TypeOK /\ OnceQueued /\ Counted /\ NewJob /\ Window /\ FlushStored

-----------------------------------------------------------------------------
\* Unless something fails every call returns: a request never waits for
\* itself, and a flush not for what was answered.
Returns == call \in {"file", "flush", "end"}
             ~> call \notin {"file", "flush", "end"} \/ failed
=============================================================================
