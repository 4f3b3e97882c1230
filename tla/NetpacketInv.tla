---------------------------- MODULE NetpacketInv ----------------------------
(***************************************************************************)
(* The inductive invariant of the request queue (module NetpacketOp).      *)
(***************************************************************************)
EXTENDS NetpacketOp

Entry == [op : Op, handle : {Garbage, Null} \cup Stages]

\* What is on its way there and back, and what should be.
Flow       == answers \o wire \o unsent
Packets(q) == [i \in DOMAIN q |-> Packet(q[i].op, q[i].handle)]

\* A callback is awaited while the client has no connection and wants one.
Connection ==
    /\ timer # "none" <=> state = 1 /\ status = "open"
    /\ status = "failed" => state = 1
    /\ status = "closed" => state = 0
    /\ state = 0 => queue = <<>>

\* What was submitted is answered or is in the queue, in that order.
Order ==
    status # "closed" =>
        /\ Len(submitted) = Len(done) + Len(queue)
        /\ \A i \in DOMAIN queue : queue[i].op = submitted[Len(done) + i]

\* Only a lone operation has a second request.
Lone ==
    \A i \in DOMAIN queue :
        /\ queue[i].op \in Double => Len(queue) = 1
        /\ queue[i].handle = 2 => queue[i].op \in Double

\* What is answered has been carried out, and nothing else is sent than what
\* was submitted.
Carried ==
    /\ \A i \in DOMAIN done : done[i].op \in executed
    /\ \A i \in DOMAIN answers :
          answers[i].stage = Final(answers[i].op) => answers[i].op \in executed
    /\ \A p \in late : p.op \in Submitted

IInv ==
    /\ TypeOK /\ WaitsInTable /\ InOrder /\ ReadPending /\ OwnAnswer
    /\ Connection /\ Order /\ Lone /\ Carried
=============================================================================
