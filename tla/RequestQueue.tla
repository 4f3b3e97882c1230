---------------------------- MODULE RequestQueue ----------------------------
(***************************************************************************)
(* What netpacket_op promises to the storage layer: operations are         *)
(* answered in the order in which they were submitted, each once, each     *)
(* after the server has carried it out.  The server may carry out an       *)
(* operation several times, and even after its connection has been given   *)
(* up; and the connection may be given up at any time, but not resumed.    *)
(***************************************************************************)
EXTENDS Integers, Sequences

CONSTANT Op

VARIABLES submitted, executed, answered, ended

vars == <<submitted, executed, answered, ended>>

Init == submitted = <<>> /\ executed = {} /\ answered = <<>> /\ ended = FALSE

Fresh(s) == \E o \in Op : (\A i \in DOMAIN submitted : submitted[i] # o)
                          /\ s = Append(submitted, o)

Submit ==
  /\ ~ended /\ Fresh(submitted')
  /\ UNCHANGED <<executed, answered, ended>>

Execute ==
  /\ \E i \in DOMAIN submitted : executed' = executed \cup {submitted[i]}
  /\ UNCHANGED <<submitted, answered, ended>>

\* The oldest operation is answered; in the course of which another may be
\* submitted.
Answer ==
  /\ ~ended /\ Len(answered) < Len(submitted)
  /\ submitted[Len(answered) + 1] \in executed
  /\ answered' = Append(answered, submitted[Len(answered) + 1])
  /\ submitted' = submitted \/ Fresh(submitted')
  /\ UNCHANGED <<executed, ended>>

End == ~ended /\ ended' = TRUE /\ UNCHANGED <<submitted, executed, answered>>

Next == Submit \/ Execute \/ Answer \/ End

Spec == Init /\ [][Next]_vars
=============================================================================
