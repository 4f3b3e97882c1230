------------------------------- MODULE TwoSite -------------------------------
(***************************************************************************)
(* What the transaction layer promises: two copies of the state of an      *)
(* archive set, one described by the client's cache directory and one kept *)
(* by the server, that change as one.  The client is either in agreement   *)
(* with the server or knows that it is in doubt, and the server only moves *)
(* on while the client is in doubt.                                        *)
(***************************************************************************)
EXTENDS Naturals

CONSTANT Zero  \* the version both sites start from

VARIABLES
    server,  \* the version the server has committed
    client   \* <<last sequence number, version>>, or << >> in doubt

Agreed(v) == <<v.seq, v>>

TSInit == server = Zero /\ client = Agreed(Zero)

Decide == client # << >> /\ client' = << >> /\ UNCHANGED server

Commit ==
    /\ client = << >>
    /\ server'.seq > server.seq
    /\ server'.whole
    /\ UNCHANGED client

Resolve == client = << >> /\ client' = Agreed(server) /\ UNCHANGED server

TSNext == Decide \/ Commit \/ Resolve

TSSpec == TSInit /\ [][TSNext]_<<server, client>>
=============================================================================
