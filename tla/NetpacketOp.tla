---------------------------- MODULE NetpacketOp -----------------------------
(***************************************************************************)
(* The queue of requests to the server: lib/netpacket/netpacket_op.c, as   *)
(* seen from its users in tar/storage, over lib/netproto.                  *)
(*                                                                         *)
(* Operations wait in a queue; all of them are sent as soon as there is a  *)
(* connection, before the first is answered, and an answer belongs to the  *)
(* operation at the head because nothing in it says which it answers.      *)
(* When the connection is lost the client waits, connects again and sends  *)
(* everything that is queued again.                                        *)
(*                                                                         *)
(* One action for each callback and each call from above; the event loop   *)
(* runs callbacks one at a time.  Contents of packets, and the limits on   *)
(* time and bandwidth, are left out: a packet is the operation it belongs  *)
(* to and its stage.                                                       *)
(***************************************************************************)
EXTENDS Integers, Sequences, Functions

CONSTANTS
  Op,            \* operations, each submitted once
  Double,        \* those with a second request, sent when the first is answered
  MaxReconnects, \* MAXRECONNECTS
  MaxAwol,       \* MAXRECONNECTS_AWOL
  MaxDrops       \* bound: connections lost or refused

ASSUME NetpacketAssumption ==
  /\ Double \subseteq Op
  /\ {MaxReconnects, MaxAwol, MaxDrops} \subseteq Nat
  /\ MaxReconnects # 0  \* else reconnect_wait has no element to sleep for

VARIABLES
  retryforever, \* tarsnap_opt_retry_forever, an option of the command line
  state,       \* 0 disconnected, 1 connecting, 2 connected
  timer,       \* state 1: is it a "connect" or a "sleep" that will call back?
  queue,       \* pending_head ... pending_tail
  reading,     \* is a netproto_readpacket call pending?
  ndrops, serveralive,
  status,      \* "open", "failed" (an error was returned), "closed"
  unsent,      \* write queue of the connection: packets still to be sent
  wire,        \* requests sent, not yet carried out by the server
  answers,     \* responses on their way back
  late,        \* requests sent on a connection that was given up
  executed,    \* history: final requests carried out
  submitted,   \* history: operations in the order of netpacket_op
  done,        \* history: packets taken for the final answer of an operation
  drops        \* bound

queues == <<queue, unsent, wire, answers>>
hist   == <<executed, submitted, done>>
opts   == <<retryforever, drops>>
vars   == <<state, timer, reading, ndrops, serveralive, status, late, opts,
            queues, hist>>

\* handlepacket of an operation: not assigned since the malloc, NULL, or
\* the callback for the response to its first or second request.
Garbage == -1
Null    == 0
Stages  == {1, 2}

Final(o) == IF o \in Double THEN 2 ELSE 1
Packet(o, s) == [op |-> o, stage |-> s]

Submitted == Range(submitted)

-----------------------------------------------------------------------------
Init ==
  /\ retryforever \in BOOLEAN
  /\ state = 0 /\ timer = "none" /\ queue = <<>> /\ reading = FALSE
  /\ ndrops = 0 /\ serveralive = FALSE /\ status = "open"
  /\ unsent = <<>> /\ wire = <<>> /\ answers = <<>> /\ late = {}
  /\ executed = {} /\ submitted = <<>> /\ done = <<>> /\ drops = 0

\* Where a second request may have to be sent, nothing else is queued: the
\* users of such operations open a connection of their own and wait for each.
Alone(o, q) == q # <<>> => o \notin Double /\ q[1].op \notin Double

\* netpacket_op
Submit(o) ==
  /\ status = "open"
  /\ o \notin Submitted /\ Alone(o, queue)
  /\ submitted' = Append(submitted, o)
  /\ IF state = 2
       THEN /\ queue' = Append(queue, [op |-> o, handle |-> 1])
            /\ unsent' = Append(unsent, Packet(o, 1))
       ELSE /\ queue' = Append(queue, [op |-> o, handle |-> Garbage])
            /\ unsent' = unsent
  /\ IF state = 0
       THEN state' = 1 /\ timer' = "connect"
       ELSE UNCHANGED <<state, timer>>
  /\ UNCHANGED <<reading, ndrops, serveralive, status, late, opts, wire,
                 answers, executed, done>>

\* Mutant: only what was never written is sent again.
ConnectedUnsentOnly ==
  /\ status = "open" /\ timer = "connect"
  /\ state' = 2 /\ timer' = "none" /\ serveralive' = TRUE
  /\ queue' = [i \in DOMAIN queue |-> [queue[i] EXCEPT !.handle = 1]]
  /\ LET new == SelectSeq(queue, LAMBDA e : e.handle = Garbage)
     IN unsent' = [i \in DOMAIN new |-> Packet(new[i].op, 1)]
  /\ UNCHANGED <<reading, ndrops, status, late, opts, wire, answers, hist>>

\* callback_connect: everything that is queued is sent, from its beginning.
Connected ==
  /\ status = "open" /\ timer = "connect"
  /\ state' = 2 /\ timer' = "none" /\ serveralive' = TRUE
  /\ queue' = [i \in DOMAIN queue |-> [queue[i] EXCEPT !.handle = 1]]
  /\ unsent' = [i \in DOMAIN queue |-> Packet(queue[i].op, 1)]
  /\ UNCHANGED <<reading, ndrops, status, late, opts, wire, answers, hist>>

\* Mutant: one failure too many is allowed.
TooManyLate(n) == n > MaxReconnects + 1 \/ (~serveralive /\ n > MaxAwol)

\* The count of failures in a row, and whether there have been too many.
Drops == IF retryforever /\ ndrops + 1 > MaxReconnects
           THEN MaxReconnects ELSE ndrops + 1
TooMany(n) == n > MaxReconnects \/ (~serveralive /\ n > MaxAwol)

\* Mutant: the pending read is forgotten about.
ReconnectReading ==
  /\ state' = 1 /\ ndrops' = Drops
  /\ IF TooMany(Drops)
       THEN timer' = "none" /\ status' = "failed"
       ELSE timer' = "sleep" /\ status' = status
  /\ unsent' = <<>> /\ wire' = <<>> /\ answers' = <<>>
  /\ late' = late \cup Range(wire)
  /\ UNCHANGED <<retryforever, reading, serveralive, queue, hist>>

\* Mutant: what arrived on the old connection is still read.
ReconnectNoFlush ==
  /\ state' = 1 /\ reading' = FALSE /\ ndrops' = Drops
  /\ IF TooMany(Drops)
       THEN timer' = "none" /\ status' = "failed"
       ELSE timer' = "sleep" /\ status' = status
  /\ unsent' = <<>> /\ wire' = <<>>
  /\ late' = late \cup Range(wire)
  /\ UNCHANGED <<retryforever, serveralive, queue, answers, hist>>

\* reconnect: netproto_flush cancels what is being sent and read; then sleep,
\* unless there have been too many failures.
Reconnect ==
  /\ state' = 1 /\ reading' = FALSE /\ ndrops' = Drops
  /\ IF TooMany(Drops)
       THEN timer' = "none" /\ status' = "failed"
       ELSE timer' = "sleep" /\ status' = status
  /\ unsent' = <<>> /\ wire' = <<>> /\ answers' = <<>>
  /\ late' = late \cup Range(wire)
  /\ UNCHANGED <<retryforever, serveralive, queue, hist>>

ConnectFailed ==
  /\ status = "open" /\ timer = "connect"
  /\ drops < MaxDrops /\ drops' = drops + 1
  /\ Reconnect

\* callback_reconnect
Wake ==
  /\ status = "open" /\ timer = "sleep"
  /\ timer' = "connect"
  /\ UNCHANGED <<state, reading, ndrops, serveralive, status, late, opts,
                 queues, hist>>

\* netpacket_op_packetsent: a packet is sent, and an answer expected.
Sent ==
  /\ status = "open" /\ unsent # <<>>
  /\ unsent' = Tail(unsent) /\ wire' = Append(wire, Head(unsent))
  /\ reading' = TRUE
  /\ UNCHANGED <<state, timer, ndrops, serveralive, status, late, opts,
                 queue, answers, hist>>

\* netpacket_op_packetsent or callback_packetreceived with an error or after
\* a timeout.  A connection that is neither written nor read is not watched.
Lost ==
  /\ status = "open" /\ (unsent # <<>> \/ reading)
  /\ drops < MaxDrops /\ drops' = drops + 1
  /\ Reconnect

\* The server carries out a request: what it promises counts from then on.
Effect(p) == IF p.stage = Final(p.op) THEN executed \cup {p.op} ELSE executed

Execute ==
  /\ wire # <<>>
  /\ wire' = Tail(wire) /\ answers' = Append(answers, Head(wire))
  /\ executed' = Effect(Head(wire))
  /\ UNCHANGED <<state, timer, reading, ndrops, serveralive, status, late,
                 opts, queue, unsent, submitted, done>>

\* ... or what is left of a connection that the client has given up.
ExecuteLate ==
  \E p \in late :
    /\ late' = late \ {p} /\ executed' = Effect(p)
    /\ UNCHANGED <<state, timer, reading, ndrops, serveralive, status, opts,
                   queues, submitted, done>>

\* Mutant: handlepacket is cleared after the callback, not before.
ReceiveFirstSwapped ==
  /\ status = "open" /\ reading /\ answers # <<>>
  /\ queue[1].op \in Double /\ queue[1].handle = 1
  /\ queue' = Tail(queue) /\ done' = Append(done, Head(answers))
  /\ unsent' = Append(unsent, Packet(queue[1].op, 2))
  /\ answers' = Tail(answers) /\ reading' = (Tail(queue) # <<>>)
  /\ UNCHANGED <<state, timer, ndrops, serveralive, status, late, opts, wire,
                 executed, submitted>>

\* callback_packetreceived, when the callback of the head sends its second
\* request.
ReceiveFirst ==
  /\ status = "open" /\ reading /\ answers # <<>>
  /\ queue[1].op \in Double /\ queue[1].handle = 1
  /\ queue' = [queue EXCEPT ![1].handle = 2]
  /\ unsent' = Append(unsent, Packet(queue[1].op, 2))
  /\ answers' = Tail(answers)
  /\ UNCHANGED <<state, timer, reading, ndrops, serveralive, status, late,
                 opts, wire, hist>>

\* Mutant: no other packet is read.
ReceiveLastNoRead(more) ==
  /\ status = "open" /\ reading /\ answers # <<>>
  /\ ~(queue[1].op \in Double /\ queue[1].handle = 1)
  /\ queue' = Tail(queue) \o [i \in DOMAIN more |-> [op |-> more[i], handle |-> 1]]
  /\ unsent' = unsent \o [i \in DOMAIN more |-> Packet(more[i], 1)]
  /\ submitted' = submitted \o more
  /\ done' = Append(done, Head(answers)) /\ answers' = Tail(answers)
  /\ ndrops' = 0 /\ reading' = FALSE
  /\ UNCHANGED <<state, timer, serveralive, status, late, opts, wire, executed>>

\* ... when it does not, and the head is done.  The callback of a lone
\* operation may submit another (storage_directory.c).
ReceiveLast(more) ==
  LET sent == [i \in DOMAIN more |-> [op |-> more[i], handle |-> 1]]
      rest == Tail(queue) \o sent
  IN /\ status = "open" /\ reading /\ answers # <<>>
     /\ ~(queue[1].op \in Double /\ queue[1].handle = 1)
     /\ queue' = rest
     /\ unsent' = unsent \o [i \in DOMAIN more |-> Packet(more[i], 1)]
     /\ submitted' = submitted \o more
     /\ done' = Append(done, Head(answers))
     /\ answers' = Tail(answers)
     /\ ndrops' = 0
     /\ reading' = (rest # <<>> /\ rest[1].handle # Null)
     /\ UNCHANGED <<state, timer, serveralive, status, late, opts, wire,
                    executed>>

Followers ==
  {<<>>} \cup {<<o>> : o \in {x \in Double \ Submitted :
                              Len(queue) = 1 /\ queue[1].op \in Double}}

\* netpacket_close, after an error or at the end.
Close ==
  /\ status \in {"open", "failed"}
  /\ status' = "closed" /\ state' = 0 /\ timer' = "none" /\ reading' = FALSE
  /\ queue' = <<>> /\ unsent' = <<>> /\ wire' = <<>> /\ answers' = <<>>
  /\ late' = late \cup Range(wire)
  /\ UNCHANGED <<ndrops, serveralive, opts, hist>>

Next ==
  \/ \E o \in Op : Submit(o)
  \/ Connected \/ ConnectFailed \/ Wake
  \/ Sent \/ Lost \/ Execute \/ ExecuteLate
  \/ ReceiveFirst \/ \E more \in Followers : ReceiveLast(more)
  \/ Close

Spec == Init /\ [][Next]_vars

\* The event loop runs callbacks whose time has come, and an answer comes in
\* the end or a timeout does.
FairSpec ==
  /\ Spec
  /\ WF_vars(Connected \/ ConnectFailed) /\ WF_vars(Wake) /\ WF_vars(Sent)
  /\ WF_vars(Execute \/ Lost)
  /\ WF_vars(ReceiveFirst \/ \E more \in Followers : ReceiveLast(more))

-----------------------------------------------------------------------------
\* Properties.

PacketType == [op : Op, stage : Stages]

\* Every variable has its type.
TypeOK ==
  /\ state \in 0..2 /\ timer \in {"none", "connect", "sleep"}
  /\ queue \in Seq([op : Op, handle : {Garbage, Null} \cup Stages])
  /\ retryforever \in BOOLEAN /\ reading \in BOOLEAN /\ serveralive \in BOOLEAN
  /\ ndrops \in Nat
  /\ status \in {"open", "failed", "closed"}
  /\ unsent \in Seq(PacketType) /\ wire \in Seq(PacketType)
  /\ answers \in Seq(PacketType)
  /\ late \subseteq PacketType
  /\ executed \subseteq Op /\ submitted \in Seq(Op) /\ done \in Seq(PacketType)
  /\ drops \in 0..MaxDrops

\* Whenever the client waits before it connects again, the failures since the
\* last operation that was completed are an index of reconnect_wait, with
\* --retry-forever too (netpacket_op.c:250, :261); and no more than
\* MAXRECONNECTS_AWOL of them if the server was never reached (:253).
WaitsInTable ==
  timer = "sleep" =>
    /\ ndrops \in 1..MaxReconnects
    /\ serveralive \/ ndrops <= MaxAwol

\* While connected, what is on its way there and back is one packet for each
\* queued operation, in the order of the queue, at the stage that its
\* handlepacket stands for: an answer is never taken for that of another
\* operation, and no handlepacket is used that was not assigned.  Nothing is
\* written to a connection that was given up (netproto_flush).
InOrder ==
  answers \o wire \o unsent =
    IF state = 2
      THEN [i \in DOMAIN queue |-> Packet(queue[i].op, queue[i].handle)]
      ELSE <<>>

\* An answer that will come is waited for (a read missed would hang the
\* client), and a read is pending only when there is an operation at the
\* head to take what is read (netpacket_op.c:321, :406), on a connection that
\* has not been given up.
ReadPending ==
  /\ wire \o answers # <<>> => reading
  /\ reading => state = 2 /\ queue # <<>> /\ queue[1].handle \in Stages

\* Each operation that is done was given the final answer to itself.
OwnAnswer ==
  /\ Len(done) <= Len(submitted)
  /\ \A i \in DOMAIN done : done[i] = Packet(submitted[i], Final(submitted[i]))

\* The promise to the storage layer.
Abstract ==
  INSTANCE RequestQueue
    WITH answered <- [i \in DOMAIN done |-> done[i].op],
         ended <- status # "open"
ExactlyOnce == Abstract!Spec

\* Every operation is answered, unless the connection is given up or closed.
Answered ==
  \A o \in Op : o \in Submitted ~>
    ((\E i \in DOMAIN done : done[i].op = o) \/ status # "open")
=============================================================================
