-------------------------- MODULE NetpacketProofs --------------------------
(***************************************************************************)
(* The request queue keeps packets and operations in step (InOrder,        *)
(* ReadPending, OwnAnswer), and implements RequestQueue.                   *)
(***************************************************************************)
EXTENDS NetpacketInv, SequenceTheorems, TLAPS

(***************************************************************************)
(* Sequences.                                                              *)
(***************************************************************************)

\* An element that goes from the head of one queue to the end of another.
LEMMA MoveAlong ==
    ASSUME NEW S, NEW a \in Seq(S), NEW b \in Seq(S), b # <<>>
    PROVE  /\ Head(b) \in S /\ Tail(b) \in Seq(S) /\ Append(a, Head(b)) \in Seq(S)
           /\ Append(a, Head(b)) \o Tail(b) = a \o b
<1>1. Head(b) \in S /\ Tail(b) \in Seq(S) /\ Append(a, Head(b)) \in Seq(S)
  BY HeadTailProperties, AppendProperties
<1>2. Append(a, Head(b)) \o Tail(b) = a \o b
  <2> DEFINE l == Append(a, Head(b)) \o Tail(b)
             r == a \o b
  <2>1. /\ l \in Seq(S) /\ Len(l) = Len(a) + 1 + Len(Tail(b))
        /\ \A i \in 1 .. Len(a) + 1 + Len(Tail(b)) :
             l[i] = IF i <= Len(a) + 1 THEN Append(a, Head(b))[i]
                    ELSE Tail(b)[i - (Len(a) + 1)]
    BY <1>1, ConcatProperties, AppendProperties
  <2>2. /\ r \in Seq(S) /\ Len(r) = Len(a) + Len(b)
        /\ \A i \in 1 .. Len(a) + Len(b) :
             r[i] = IF i <= Len(a) THEN a[i] ELSE b[i - Len(a)]
    BY ConcatProperties
  <2>3. /\ Len(a) \in Nat /\ Len(b) \in Nat \ {0} /\ Len(Tail(b)) = Len(b) - 1
        /\ \A i \in 1 .. Len(b) - 1 : Tail(b)[i] = b[i + 1]
        /\ Head(b) = b[1]
    BY EmptySeq, LenProperties, HeadTailProperties
  <2>4. /\ \A i \in 1 .. Len(a) : Append(a, Head(b))[i] = a[i]
        /\ Append(a, Head(b))[Len(a) + 1] = b[1]
    BY <1>1, <2>3, AppendProperties
  <2>5. ASSUME NEW i \in 1 .. Len(l) PROVE l[i] = r[i]
    <3>1. CASE i <= Len(a)
      BY <2>1, <2>2, <2>3, <2>4, <3>1
    <3>2. CASE i = Len(a) + 1
      BY <2>1, <2>2, <2>3, <2>4, <3>2
    <3>3. CASE i > Len(a) + 1
      BY <2>1, <2>2, <2>3, <3>3
    <3>4. QED BY <2>1, <2>3, <3>1, <3>2, <3>3
  <2>6. Len(l) = Len(r)
    BY <2>1, <2>2, <2>3
  <2> HIDE DEF l, r
  <2>7. l = r
    BY <2>1, <2>2, <2>5, <2>6, SeqEqual
  <2>8. QED BY <2>7 DEF l, r
<1>3. QED BY <1>1, <1>2

\* Three queues one after the other, and the same between the last two.
Three(a, b, c) == (a \o b) \o c

LEMMA Regroup ==
    ASSUME NEW a \in Seq(PacketType), NEW b \in Seq(PacketType), NEW c \in Seq(PacketType)
    PROVE  Three(a, b, c) = a \o (b \o c)
BY DEF Three

LEMMA MoveAcross ==
    ASSUME NEW a \in Seq(PacketType), NEW w \in Seq(PacketType), NEW u \in Seq(PacketType),
           u # <<>>
    PROVE  Three(a, Append(w, Head(u)), Tail(u)) = Three(a, w, u)
<1>1. /\ Append(w, Head(u)) \in Seq(PacketType) /\ Tail(u) \in Seq(PacketType)
      /\ Append(w, Head(u)) \o Tail(u) = w \o u
  BY MoveAlong
<1>2. Three(a, w, u) = a \o (w \o u)
  BY Regroup, Zenon
<1>3. Three(a, Append(w, Head(u)), Tail(u)) = a \o (Append(w, Head(u)) \o Tail(u))
  BY <1>1, Regroup, Zenon
<1>4. QED BY <1>1, <1>2, <1>3, Zenon

\* Something is appended to the last of two queues, or taken from the first.
LEMMA ConcatEnds ==
    ASSUME NEW S, NEW a \in Seq(S), NEW b \in Seq(S)
    PROVE  /\ \A e \in S : a \o Append(b, e) = Append(a \o b, e)
           /\ a # <<>> => Tail(a) \o b = Tail(a \o b) /\ Head(a) = Head(a \o b) /\ a \o b # <<>>
<1>1. ASSUME NEW e \in S PROVE a \o Append(b, e) = Append(a \o b, e)
  <2>1. <<e>> \in Seq(S)
    OBVIOUS
  <2>2. Append(b, e) = b \o <<e>> /\ Append(a \o b, e) = (a \o b) \o <<e>>
    BY AppendIsConcat, ConcatProperties
  <2>3. QED BY <2>1, <2>2, ConcatAssociative
<1>2. ASSUME a # <<>>
      PROVE  Tail(a) \o b = Tail(a \o b) /\ Head(a) = Head(a \o b) /\ a \o b # <<>>
  <2>1. /\ Len(a) \in Nat \ {0} /\ Len(b) \in Nat
    BY <1>2, EmptySeq, LenProperties
  <2>2. /\ a \o b \in Seq(S) /\ Len(a \o b) = Len(a) + Len(b)
        /\ \A i \in 1 .. Len(a) + Len(b) :
             (a \o b)[i] = IF i <= Len(a) THEN a[i] ELSE b[i - Len(a)]
    BY ConcatProperties
  <2>3. a \o b # <<>>
    BY <2>1, <2>2, EmptySeq
  <2>4. /\ Tail(a) \in Seq(S) /\ Len(Tail(a)) = Len(a) - 1
        /\ \A i \in 1 .. Len(Tail(a)) : Tail(a)[i] = a[i + 1]
    BY <1>2, HeadTailProperties
  <2>5. /\ Tail(a \o b) \in Seq(S) /\ Len(Tail(a \o b)) = Len(a) + Len(b) - 1
        /\ \A i \in 1 .. Len(a) + Len(b) - 1 : Tail(a \o b)[i] = (a \o b)[i + 1]
    BY <2>2, <2>3, HeadTailProperties
  <2>6. /\ Tail(a) \o b \in Seq(S) /\ Len(Tail(a) \o b) = Len(a) + Len(b) - 1
        /\ \A i \in 1 .. Len(a) + Len(b) - 1 :
             (Tail(a) \o b)[i] = IF i <= Len(a) - 1 THEN Tail(a)[i] ELSE b[i - (Len(a) - 1)]
    BY <2>1, <2>4, ConcatProperties
  <2>7. ASSUME NEW i \in 1 .. Len(a) + Len(b) - 1 PROVE (Tail(a) \o b)[i] = Tail(a \o b)[i]
    <3>1. Tail(a \o b)[i] = IF i + 1 <= Len(a) THEN a[i + 1] ELSE b[i + 1 - Len(a)]
      BY <2>1, <2>2, <2>5
    <3>2. QED BY <2>1, <2>4, <2>6, <3>1
  <2>8. Tail(a) \o b = Tail(a \o b)
    BY <2>5, <2>6, <2>7, SeqEqual
  <2>9. Head(a) = Head(a \o b)
    BY <2>1, <2>2, <2>3
  <2>10. QED BY <2>3, <2>8, <2>9
<1>3. QED BY <1>1, <1>2

USE NetpacketAssumption DEF Stages, Garbage, Null, queues, hist, opts

(***************************************************************************)
(* Packets of a queue.                                                     *)
(***************************************************************************)

\* They are packets if each operation has been sent.
LEMMA PacketsType ==
    ASSUME NEW q \in Seq(Entry), \A i \in DOMAIN q : q[i].handle \in Stages
    PROVE  /\ Packets(q) \in Seq(PacketType) /\ Len(Packets(q)) = Len(q)
           /\ \A i \in 1 .. Len(q) : Packets(q)[i] = Packet(q[i].op, q[i].handle)
<1>1. \A i \in 1 .. Len(q) : q[i] \in Entry
  BY ElementOfSeq
<1>2. \A i \in 1 .. Len(q) : Packet(q[i].op, q[i].handle) \in PacketType
  BY <1>1, LenProperties DEF Packet, PacketType, Entry
<1>3. Packets(q) = [i \in 1 .. Len(q) |-> Packet(q[i].op, q[i].handle)] /\ Len(q) \in Nat
  BY LenProperties DEF Packets
<1>4. QED BY <1>2, <1>3

\* An operation that is submitted adds its packet, and one that is done takes
\* it away.
LEMMA PacketsEnds ==
    ASSUME NEW q \in Seq(Entry), \A i \in DOMAIN q : q[i].handle \in Stages
    PROVE  /\ \A o \in Op : Packets(Append(q, [op |-> o, handle |-> 1]))
                              = Append(Packets(q), Packet(o, 1))
           /\ q # <<>> => Packets(Tail(q)) = Tail(Packets(q))
<1>1. ASSUME NEW o \in Op
      PROVE  Packets(Append(q, [op |-> o, handle |-> 1])) = Append(Packets(q), Packet(o, 1))
  <2> DEFINE e == [op |-> o, handle |-> 1]
             r == Append(q, e)
  <2>1. e \in Entry /\ e.op = o /\ e.handle = 1 /\ Packet(o, 1) \in PacketType
    BY DEF Entry, Packet, PacketType
  <2> HIDE DEF e
  <2>2. /\ r \in Seq(Entry) /\ Len(r) = Len(q) + 1 /\ r[Len(q) + 1] = e
        /\ \A i \in 1 .. Len(q) : r[i] = q[i]
    BY <2>1, AppendProperties
  <2>3. Len(q) \in Nat /\ DOMAIN q = 1 .. Len(q) /\ DOMAIN r = 1 .. Len(r)
    BY <2>2, LenProperties
  <2>4. \A i \in DOMAIN r : r[i].handle \in Stages
    <3>1. \A i \in 1 .. Len(q) : r[i].handle \in Stages
      BY <2>2, <2>3
    <3>2. QED BY <2>1, <2>2, <2>3, <3>1
  <2>5. /\ Packets(r) \in Seq(PacketType) /\ Len(Packets(r)) = Len(q) + 1
        /\ \A i \in 1 .. Len(q) + 1 : Packets(r)[i] = Packet(r[i].op, r[i].handle)
    BY <2>2, <2>4, PacketsType
  <2>6. /\ Packets(q) \in Seq(PacketType) /\ Len(Packets(q)) = Len(q)
        /\ \A i \in 1 .. Len(q) : Packets(q)[i] = Packet(q[i].op, q[i].handle)
    BY PacketsType
  <2> DEFINE a == Append(Packets(q), Packet(o, 1))
  <2>7. /\ a \in Seq(PacketType) /\ Len(a) = Len(q) + 1 /\ a[Len(q) + 1] = Packet(o, 1)
        /\ \A i \in 1 .. Len(q) : a[i] = Packets(q)[i]
    BY <2>1, <2>6, AppendProperties
  <2> HIDE DEF a, r
  <2>8. ASSUME NEW i \in 1 .. Len(q) + 1 PROVE Packets(r)[i] = a[i]
    <3>1. CASE i = Len(q) + 1
      BY <2>1, <2>2, <2>5, <2>7, <3>1
    <3>2. CASE i \in 1 .. Len(q)
      BY <2>2, <2>5, <2>6, <2>7, <3>2
    <3>3. QED BY <2>3, <3>1, <3>2
  <2>9. Packets(r) = a
    BY <2>5, <2>7, <2>8, SeqEqual
  <2>10. QED BY <2>9 DEF a, r, e
<1>2. ASSUME q # <<>> PROVE Packets(Tail(q)) = Tail(Packets(q))
  <2> DEFINE t == Tail(q)
             p == Packets(q)
  <2>1. /\ t \in Seq(Entry) /\ Len(t) = Len(q) - 1 /\ Len(q) \in Nat \ {0}
        /\ \A i \in 1 .. Len(q) - 1 : t[i] = q[i + 1]
    BY <1>2, HeadTailProperties, EmptySeq
  <2>2. DOMAIN t = 1 .. Len(q) - 1 /\ DOMAIN q = 1 .. Len(q)
    BY <2>1, LenProperties
  <2> HIDE DEF t
  <2>3. \A i \in DOMAIN t : t[i].handle \in Stages
    BY SMTT(30), <2>1, <2>2
  <2>4. /\ Packets(t) \in Seq(PacketType) /\ Len(Packets(t)) = Len(q) - 1
        /\ \A i \in 1 .. Len(q) - 1 : Packets(t)[i] = Packet(t[i].op, t[i].handle)
    BY <2>1, <2>3, PacketsType
  <2>5. /\ p \in Seq(PacketType) /\ Len(p) = Len(q)
        /\ \A i \in 1 .. Len(q) : p[i] = Packet(q[i].op, q[i].handle)
    BY PacketsType
  <2> HIDE DEF p
  <2>6. p # <<>>
    BY <2>1, <2>5, EmptySeq
  <2>7. /\ Tail(p) \in Seq(PacketType) /\ Len(Tail(p)) = Len(q) - 1
        /\ \A i \in 1 .. Len(q) - 1 : Tail(p)[i] = p[i + 1]
    BY <2>5, <2>6, HeadTailProperties
  <2>8. \A i \in 1 .. Len(q) - 1 : Packets(t)[i] = Tail(p)[i]
    BY SMTT(30), <2>1, <2>4, <2>5, <2>7
  <2>9. Packets(t) = Tail(p)
    BY <2>4, <2>7, <2>8, SeqEqual
  <2>10. QED BY <2>9 DEF t, p
<1>3. QED BY <1>1, <1>2

(***************************************************************************)
(* Types.                                                                  *)
(***************************************************************************)

\* What the other proofs need of TypeOK.
LEMMA TypeFacts ==
    ASSUME TypeOK
    PROVE  /\ queue \in Seq(Entry) /\ submitted \in Seq(Op) /\ done \in Seq(PacketType)
           /\ unsent \in Seq(PacketType) /\ wire \in Seq(PacketType)
           /\ answers \in Seq(PacketType) /\ Flow \in Seq(PacketType)
           /\ answers \o wire \in Seq(PacketType)
           /\ Len(queue) \in Nat /\ DOMAIN queue = 1 .. Len(queue)
           /\ Len(submitted) \in Nat /\ DOMAIN submitted = 1 .. Len(submitted)
           /\ Len(done) \in Nat /\ DOMAIN done = 1 .. Len(done)
<1>1. /\ queue \in Seq(Entry) /\ submitted \in Seq(Op) /\ done \in Seq(PacketType)
      /\ unsent \in Seq(PacketType) /\ wire \in Seq(PacketType) /\ answers \in Seq(PacketType)
  BY DEF TypeOK, Entry
<1>2. answers \o wire \in Seq(PacketType)
  BY <1>1, ConcatProperties
<1>3. Flow \in Seq(PacketType)
  <2>1. (answers \o wire) \o unsent \in Seq(PacketType)
    BY <1>1, <1>2, ConcatProperties
  <2>2. QED BY <2>1 DEF Flow
<1>4. QED BY <1>1, <1>2, <1>3, LenProperties

\* A reconnection.
LEMMA ReconnectType ==
    ASSUME TypeOK, Reconnect, drops' \in 0 .. MaxDrops
    PROVE  TypeOK'
<1>1. ndrops' \in Nat /\ timer' \in {"none", "sleep"} /\ status' \in {"open", "failed", "closed"}
  BY DEF TypeOK, Reconnect, Drops
<1>2. late' \subseteq PacketType
  <2>1. Range(wire) \subseteq PacketType
    BY TypeFacts, RangeOfSeq
  <2>2. QED BY <2>1 DEF TypeOK, Reconnect
<1>3. unsent' \in Seq(PacketType) /\ wire' \in Seq(PacketType) /\ answers' \in Seq(PacketType)
  BY DEF Reconnect
<1>4. reading' \in BOOLEAN
  BY Zenon DEF Reconnect
<1>5. QED BY <1>1, <1>2, <1>3, <1>4 DEF TypeOK, Reconnect

\* What ReceiveLast adds to the queues.
LEMMA ReceiveLastCases ==
    ASSUME IInv, NEW more \in Followers, ReceiveLast(more)
    PROVE  \/ /\ queue' = Tail(queue) /\ unsent' = unsent /\ submitted' = submitted
           \/ \E o \in Double \ Submitted :
                /\ Len(queue) = 1 /\ queue' = <<[op |-> o, handle |-> 1]>>
                /\ unsent' = Append(unsent, Packet(o, 1))
                /\ submitted' = Append(submitted, o)
<1>1. queue \in Seq(Entry) /\ unsent \in Seq(PacketType) /\ submitted \in Seq(Op)
      /\ Len(queue) \in Nat
  BY TypeFacts DEF IInv
<1>2. queue # <<>>
  BY DEF ReceiveLast, IInv, ReadPending
<1>3. CASE more = <<>>
  <2>1. [i \in DOMAIN more |-> [op |-> more[i], handle |-> 1]] = <<>>
        /\ [i \in DOMAIN more |-> Packet(more[i], 1)] = <<>>
    BY <1>3
  <2>2. Tail(queue) \in Seq(Entry)
    BY <1>1, <1>2, HeadTailProperties
  <2>3. /\ Tail(queue) \o <<>> = Tail(queue) /\ unsent \o <<>> = unsent
        /\ submitted \o <<>> = submitted
    BY <1>1, <2>2, ConcatEmptySeq
  <2>4. QED BY <1>3, <2>1, <2>3 DEF ReceiveLast
<1>4. CASE more # <<>>
  <2>1. PICK o \in Double \ Submitted : more = <<o>> /\ Len(queue) = 1
    BY <1>4 DEF Followers
  <2>2. o \in Op /\ Packet(o, 1) \in PacketType /\ [op |-> o, handle |-> 1] \in Entry
    BY DEF Packet, PacketType, Entry
  <2>3. [i \in DOMAIN more |-> [op |-> more[i], handle |-> 1]] = <<[op |-> o, handle |-> 1]>>
        /\ [i \in DOMAIN more |-> Packet(more[i], 1)] = <<Packet(o, 1)>>
    BY <2>1
  <2>4. Tail(queue) = <<>>
    <3>1. Tail(queue) \in Seq(Entry) /\ Len(Tail(queue)) = 0
      BY <1>1, <1>2, <2>1, HeadTailProperties
    <3>2. QED BY <3>1, EmptySeq
  <2>5. /\ <<>> \o <<[op |-> o, handle |-> 1]>> = <<[op |-> o, handle |-> 1]>>
        /\ unsent \o <<Packet(o, 1)>> = Append(unsent, Packet(o, 1))
        /\ submitted \o <<o>> = Append(submitted, o)
    <3>1. <<[op |-> o, handle |-> 1]>> \in Seq(Entry)
      BY <2>2
    <3>2. QED BY <1>1, <2>2, <3>1, AppendIsConcat, ConcatEmptySeq
  <2>6. QED BY <2>1, <2>3, <2>4, <2>5 DEF ReceiveLast
<1>5. QED BY <1>3, <1>4

LEMMA EffectType ==
    ASSUME TypeOK, NEW p \in PacketType
    PROVE  Effect(p) \subseteq Op
BY DEF TypeOK, Effect, PacketType

\* Each step keeps the types.
LEMMA Typed ==
    ASSUME IInv, Next
    PROVE  TypeOK'
<1> USE TypeFacts DEF IInv
<1>1. ASSUME NEW o \in Op, Submit(o) PROVE TypeOK'
  <2>1. \A h \in {Garbage, 1} : Append(queue, [op |-> o, handle |-> h]) \in Seq(Entry)
    <3>1. \A h \in {Garbage, 1} : [op |-> o, handle |-> h] \in Entry
      BY DEF Entry
    <3>2. QED BY <3>1, AppendProperties
  <2>2. queue' \in Seq(Entry)
    BY <1>1, <2>1 DEF Submit
  <2>3. unsent' \in Seq(PacketType)
    <3>1. Packet(o, 1) \in PacketType
      BY DEF Packet, PacketType
    <3>2. Append(unsent, Packet(o, 1)) \in Seq(PacketType)
      BY <3>1, AppendProperties
    <3>3. QED BY <1>1, <3>2 DEF Submit
  <2>4. submitted' \in Seq(Op)
    BY <1>1, AppendProperties DEF Submit
  <2>5. state' \in 0 .. 2 /\ timer' \in {"none", "connect", "sleep"}
        /\ (timer' = "sleep" => timer = "sleep")
    BY <1>1 DEF Submit, TypeOK
  <2>6. UNCHANGED <<reading, ndrops, serveralive, status, late, opts, wire, answers,
                    executed, done>>
    BY <1>1 DEF Submit
  <2>7. QED BY <2>2, <2>3, <2>4, <2>5, <2>6 DEF TypeOK, Entry
<1>2. CASE Connected
  <2>1. \A i \in 1 .. Len(queue) : queue[i] \in Entry
    BY ElementOfSeq
  <2>2. \A i \in 1 .. Len(queue) :
          [queue[i] EXCEPT !.handle = 1] \in Entry /\ Packet(queue[i].op, 1) \in PacketType
    BY <2>1 DEF Entry, Packet, PacketType
  <2> DEFINE e(i) == [queue[i] EXCEPT !.handle = 1]
             p(i) == Packet(queue[i].op, 1)
  <2>3. /\ queue' = [i \in 1 .. Len(queue) |-> e(i)]
        /\ unsent' = [i \in 1 .. Len(queue) |-> p(i)]
    BY <1>2 DEF Connected
  <2> HIDE DEF e, p
  <2>4. queue' \in Seq(Entry) /\ unsent' \in Seq(PacketType)
    <3>1. \A i \in 1 .. Len(queue) : e(i) \in Entry /\ p(i) \in PacketType
      BY <2>2 DEF e, p
    <3>2. QED BY <2>3, <3>1
  <2>5. QED BY <1>2, <2>4 DEF Connected, TypeOK, Entry
<1>3. CASE ConnectFailed
  <2>1. Reconnect /\ drops' \in 0 .. MaxDrops
    BY <1>3 DEF ConnectFailed, TypeOK
  <2>2. QED BY <2>1, ReconnectType
<1>4. CASE Wake
  BY <1>4 DEF Wake, TypeOK
<1>5. CASE Sent
  <2>1. unsent' \in Seq(PacketType) /\ wire' \in Seq(PacketType)
    BY <1>5, MoveAlong DEF Sent
  <2>2. QED BY <1>5, <2>1 DEF Sent, TypeOK
<1>6. CASE Lost
  <2>1. Reconnect /\ drops' \in 0 .. MaxDrops
    BY <1>6 DEF Lost, TypeOK
  <2>2. QED BY <2>1, ReconnectType
<1>7. CASE Execute
  <2>1. wire' \in Seq(PacketType) /\ answers' \in Seq(PacketType) /\ Head(wire) \in PacketType
    BY <1>7, MoveAlong DEF Execute
  <2>2. QED BY <1>7, <2>1, EffectType DEF Execute, TypeOK
<1>8. CASE ExecuteLate
  BY <1>8, EffectType DEF ExecuteLate, TypeOK
<1>9. CASE ReceiveFirst
  <2>1. 1 \in 1 .. Len(queue) /\ queue[1] \in Entry
    BY <1>9, EmptySeq, ElementOfSeq DEF ReceiveFirst, ReadPending
  <2>2. [queue[1] EXCEPT !.handle = 2] \in Entry /\ Packet(queue[1].op, 2) \in PacketType
    BY <2>1 DEF Entry, Packet, PacketType
  <2>3. queue' = [queue EXCEPT ![1] = [queue[1] EXCEPT !.handle = 2]]
    BY <1>9 DEF ReceiveFirst
  <2>4. queue' \in Seq(Entry) /\ unsent' \in Seq(PacketType) /\ answers' \in Seq(PacketType)
    BY <1>9, <2>1, <2>2, <2>3, ExceptSeq, AppendProperties, HeadTailProperties DEF ReceiveFirst
  <2>5. QED BY <1>9, <2>4 DEF ReceiveFirst, TypeOK, Entry
<1>10. ASSUME NEW more \in Followers, ReceiveLast(more) PROVE TypeOK'
  <2>1. /\ status = "open" /\ queue # <<>> /\ answers # <<>> /\ reading' \in BOOLEAN
        /\ done' = Append(done, Head(answers)) /\ answers' = Tail(answers) /\ ndrops' = 0
        /\ UNCHANGED <<state, timer, serveralive, status, late, opts, wire, executed>>
        /\ timer # "sleep"
    BY <1>10 DEF ReceiveLast, ReadPending, Connection
  <2>2. done' \in Seq(PacketType) /\ answers' \in Seq(PacketType)
    BY <2>1, HeadTailProperties, AppendProperties
  <2>3. queue' \in Seq(Entry) /\ unsent' \in Seq(PacketType) /\ submitted' \in Seq(Op)
    <3>1. Tail(queue) \in Seq(Entry)
      BY <2>1, HeadTailProperties
    <3>2. ASSUME NEW o \in Double
          PROVE  /\ <<[op |-> o, handle |-> 1]>> \in Seq(Entry)
                 /\ Append(unsent, Packet(o, 1)) \in Seq(PacketType)
                 /\ Append(submitted, o) \in Seq(Op)
      <4>1. o \in Op /\ [op |-> o, handle |-> 1] \in Entry /\ Packet(o, 1) \in PacketType
        BY DEF Entry, Packet, PacketType
      <4>2. QED BY <4>1, AppendProperties
    <3>3. QED BY <1>10, <3>1, <3>2, ReceiveLastCases
  <2>4. QED BY <2>1, <2>2, <2>3 DEF TypeOK, Entry
<1>11. CASE Close
  <2>1. Range(wire) \subseteq PacketType
    BY RangeOfSeq
  <2>2. reading' \in BOOLEAN
    BY <1>11, Zenon DEF Close
  <2>3. QED BY <1>11, <2>1, <2>2 DEF Close, TypeOK
<1>12. QED
  BY <1>1, <1>2, <1>3, <1>4, <1>5, <1>6, <1>7, <1>8, <1>9, <1>10, <1>11 DEF Next

(***************************************************************************)
(* What the invariant says of a connection.                                *)
(***************************************************************************)

\* The lengths of three queues and of what is in them.
LEMMA FlowLength ==
    ASSUME NEW S, NEW a \in Seq(S), NEW w \in Seq(S), NEW u \in Seq(S)
    PROVE  /\ Len(a) \in Nat /\ Len(w) \in Nat /\ Len(u) \in Nat
           /\ (Len(a) = 0 <=> a = <<>>) /\ (Len(w) = 0 <=> w = <<>>)
           /\ (Len(u) = 0 <=> u = <<>>)
           /\ Len(a \o w \o u) = Len(a) + Len(w) + Len(u)
           /\ \A i \in 1 .. Len(a) : (a \o w \o u)[i] = a[i]
           /\ \A i \in 1 .. Len(w) : (a \o w \o u)[Len(a) + i] = w[i]
<1>1. Len(a) \in Nat /\ Len(w) \in Nat /\ Len(u) \in Nat
  BY LenProperties
<1>2. (Len(a) = 0 <=> a = <<>>) /\ (Len(w) = 0 <=> w = <<>>) /\ (Len(u) = 0 <=> u = <<>>)
  BY EmptySeq
<1>3. /\ a \o w \in Seq(S) /\ Len(a \o w) = Len(a) + Len(w)
      /\ \A i \in 1 .. Len(a) + Len(w) :
           (a \o w)[i] = IF i <= Len(a) THEN a[i] ELSE w[i - Len(a)]
  BY ConcatProperties
<1>4. /\ Len((a \o w) \o u) = Len(a \o w) + Len(u)
      /\ \A i \in 1 .. Len(a \o w) + Len(u) :
           ((a \o w) \o u)[i] = IF i <= Len(a \o w) THEN (a \o w)[i]
                                ELSE u[i - Len(a \o w)]
  BY <1>3, ConcatProperties
<1>5. \A i \in 1 .. Len(a) : (a \o w \o u)[i] = a[i]
  BY <1>1, <1>3, <1>4
<1>6. ASSUME NEW i \in 1 .. Len(w) PROVE (a \o w \o u)[Len(a) + i] = w[i]
  <2>1. Len(a) + i \in 1 .. Len(a) + Len(w) /\ Len(a) + i \in 1 .. Len(a \o w) + Len(u)
        /\ ~(Len(a) + i <= Len(a)) /\ Len(a) + i - Len(a) = i /\ Len(a) + i <= Len(a \o w)
    BY <1>1, <1>3
  <2>2. QED BY <1>3, <1>4, <2>1
<1>7. QED BY <1>1, <1>2, <1>3, <1>4, <1>5, <1>6

\* While there is no connection nothing is on its way.
LEMMA Silence ==
    ASSUME TypeOK, InOrder, state # 2
    PROVE  answers = <<>> /\ wire = <<>> /\ unsent = <<>>
<1>1. Len(Flow) = 0
  BY DEF InOrder, Flow
<1>2. Len(Flow) = Len(answers) + Len(wire) + Len(unsent)
  BY TypeFacts, FlowLength DEF Flow
<1>3. /\ Len(answers) \in Nat /\ Len(wire) \in Nat /\ Len(unsent) \in Nat
      /\ Len(answers) = 0 => answers = <<>>
      /\ Len(wire) = 0 => wire = <<>>
      /\ Len(unsent) = 0 => unsent = <<>>
  BY TypeFacts, FlowLength
<1>4. Len(answers) = 0 /\ Len(wire) = 0 /\ Len(unsent) = 0
  <2>1. \A a, w, u \in Nat : 0 = a + w + u => a = 0 /\ w = 0 /\ u = 0
    OBVIOUS
  <2>2. QED BY <1>1, <1>2, <1>3, <2>1, Zenon
<1>5. QED BY <1>3, <1>4, Zenon

\* While there is, each operation in the queue has its packet somewhere.
LEMMA Matching ==
    ASSUME TypeOK, InOrder, state = 2
    PROVE  /\ Flow = Packets(queue)
           /\ Len(answers) + Len(wire) + Len(unsent) = Len(queue)
           /\ \A i \in DOMAIN queue : queue[i].handle \in Stages
           /\ \A i \in 1 .. Len(answers) :
                i \in DOMAIN queue /\ answers[i] = Packet(queue[i].op, queue[i].handle)
           /\ \A i \in 1 .. Len(wire) :
                \E j \in DOMAIN queue : wire[i] = Packet(queue[j].op, queue[j].handle)
<1>1. /\ Flow = Packets(queue)
      /\ Flow = [i \in 1 .. Len(queue) |-> Packet(queue[i].op, queue[i].handle)]
  BY TypeFacts DEF InOrder, Flow, Packets
<1>2. Len(Flow) = Len(queue)
  <2>1. DOMAIN Flow = 1 .. Len(queue) /\ Flow \in Seq(PacketType) /\ Len(queue) \in Nat
    BY <1>1, TypeFacts
  <2>2. QED BY <2>1
<1>3. \A i \in DOMAIN queue : queue[i].handle \in Stages
  <2>1. \A i \in 1 .. Len(Flow) : Flow[i] \in PacketType
    BY TypeFacts, ElementOfSeq
  <2>2. \A i \in 1 .. Len(queue) : Packet(queue[i].op, queue[i].handle) \in PacketType
    BY <1>1, <1>2, <2>1
  <2>3. QED BY <2>2, TypeFacts DEF Packet, PacketType
<1>4. /\ Len(Flow) = Len(answers) + Len(wire) + Len(unsent)
      /\ Len(answers) \in Nat /\ Len(wire) \in Nat /\ Len(unsent) \in Nat
      /\ \A i \in 1 .. Len(answers) : Flow[i] = answers[i]
      /\ \A i \in 1 .. Len(wire) : Flow[Len(answers) + i] = wire[i]
  <2>1. {answers, wire, unsent} \subseteq Seq(PacketType)
    BY TypeFacts
  <2>2. /\ Len(answers) \in Nat /\ Len(wire) \in Nat /\ Len(unsent) \in Nat
        /\ Len(answers \o wire \o unsent) = Len(answers) + Len(wire) + Len(unsent)
        /\ \A i \in 1 .. Len(answers) : (answers \o wire \o unsent)[i] = answers[i]
        /\ \A i \in 1 .. Len(wire) : (answers \o wire \o unsent)[Len(answers) + i] = wire[i]
    <3> HIDE DEF Flow
    <3> QED BY ONLY <2>1, FlowLength
  <2>3. QED BY <2>2, Zenon DEF Flow
<1>5. \A i \in 1 .. Len(answers) : i \in 1 .. Len(queue)
  BY <1>2, <1>4, TypeFacts
<1>6. \A i \in 1 .. Len(wire) : Len(answers) + i \in 1 .. Len(queue)
  BY <1>2, <1>4, TypeFacts
<1>7. \A i \in 1 .. Len(answers) :
        i \in DOMAIN queue /\ answers[i] = Packet(queue[i].op, queue[i].handle)
  BY <1>1, <1>4, <1>5, TypeFacts
<1>8. \A i \in 1 .. Len(wire) :
        \E j \in DOMAIN queue : wire[i] = Packet(queue[j].op, queue[j].handle)
  BY <1>1, <1>4, <1>6, TypeFacts
<1>9. QED BY <1>1, <1>2, <1>3, <1>4, <1>7, <1>8

\* An answer that will come is to something queued.
LEMMA Expected ==
    TypeOK /\ InOrder /\ state = 2
      => /\ \A i \in DOMAIN queue : queue[i].handle \in Stages
         /\ wire \o answers # <<>> => queue # <<>>
<1> SUFFICES ASSUME TypeOK, InOrder, state = 2, queue = <<>> PROVE wire \o answers = <<>>
  BY Matching
<1>1. Len(answers) + Len(wire) + Len(unsent) = Len(queue) /\ Len(queue) = 0
  BY Matching
<1>2. /\ Len(answers) \in Nat /\ Len(wire) \in Nat /\ Len(unsent) \in Nat
      /\ Len(answers) = 0 => answers = <<>>
      /\ Len(wire) = 0 => wire = <<>>
  BY TypeFacts, FlowLength
<1>3. \A a, w, u \in Nat : 0 = a + w + u => a = 0 /\ w = 0
  OBVIOUS
<1>4. Len(answers) = 0 /\ Len(wire) = 0
  BY <1>1, <1>2, <1>3, Zenon
<1>5. answers = <<>> /\ wire = <<>>
  BY <1>2, <1>4, Zenon
<1>6. wire \o <<>> = wire
  BY TypeFacts, ConcatEmptySeq
<1>7. QED BY <1>5, <1>6, Zenon

\* The same after a step.
LEMMA ExpectedNext ==
    (TypeOK /\ InOrder /\ state = 2
      => /\ \A i \in DOMAIN queue : queue[i].handle \in Stages
         /\ wire \o answers # <<>> => queue # <<>>)'
BY Expected, PTL

\* What is queued or sent was submitted.
LEMMA QueuedSubmitted ==
    ASSUME IInv
    PROVE  /\ \A i \in DOMAIN queue : queue[i].op \in Submitted
           /\ \A p \in Range(wire) : p.op \in Submitted
<1>1. status = "closed" => queue = <<>>
  BY DEF IInv, Connection
<1>2. \A i \in DOMAIN queue : queue[i].op \in Submitted
  <2>1. CASE status = "closed"
    BY <1>1, <2>1
  <2>2. CASE status # "closed"
    <3>1. ASSUME NEW i \in DOMAIN queue PROVE queue[i].op \in Submitted
      <4>1. Len(done) + i \in DOMAIN submitted /\ queue[i].op = submitted[Len(done) + i]
        BY <2>2, TypeFacts DEF IInv, Order
      <4>2. QED BY <4>1 DEF Submitted, Range
    <3>2. QED BY <3>1
  <2>3. QED BY <2>1, <2>2
<1>3. ASSUME NEW p \in Range(wire) PROVE p.op \in Submitted
  <2>1. PICK i \in 1 .. Len(wire) : p = wire[i]
    BY TypeFacts, RangeEquality DEF IInv
  <2>2. state = 2
    <3>1. wire # <<>>
      BY <2>1
    <3>2. QED BY <3>1, Silence DEF IInv
  <2>3. PICK j \in DOMAIN queue : p = Packet(queue[j].op, queue[j].handle)
    BY <2>1, <2>2, Matching DEF IInv
  <2>4. QED BY <1>2, <2>3 DEF Packet
<1>4. QED BY <1>2, <1>3

\* When an answer is read, it belongs to the head of the queue.
LEMMA Answering ==
    ASSUME IInv, reading, answers # <<>>
    PROVE  /\ state = 2 /\ status = "open" /\ timer = "none"
           /\ queue # <<>> /\ 1 \in DOMAIN queue /\ Len(queue) \in Nat \ {0}
           /\ answers[1] = Packet(queue[1].op, queue[1].handle) /\ Head(answers) = answers[1]
           /\ queue[1] \in Entry /\ queue[1].handle \in Stages
           /\ queue[1].op = submitted[Len(done) + 1] /\ Len(done) + 1 \in DOMAIN submitted
           /\ Len(queue) = 1 => Len(answers) = 1 /\ wire = <<>> /\ unsent = <<>>
<1>1. state = 2 /\ status = "open" /\ timer = "none" /\ queue # <<>>
  BY DEF IInv, ReadPending, Connection, TypeOK
<1>2. Len(queue) \in Nat \ {0} /\ DOMAIN queue = 1 .. Len(queue) /\ 1 \in DOMAIN queue
  BY <1>1, TypeFacts, EmptySeq DEF IInv
<1>3. Len(answers) \in Nat \ {0} /\ Head(answers) = answers[1]
  BY TypeFacts, EmptySeq DEF IInv
<1>4. answers[1] = Packet(queue[1].op, queue[1].handle) /\ queue[1].handle \in Stages
  BY <1>1, <1>2, <1>3, Matching DEF IInv
<1>5. queue[1] \in Entry
  BY <1>2, TypeFacts, ElementOfSeq DEF IInv
<1>6. queue[1].op = submitted[Len(done) + 1] /\ Len(done) + 1 \in DOMAIN submitted
  <2>1. Len(submitted) = Len(done) + Len(queue)
        /\ \A i \in DOMAIN queue : queue[i].op = submitted[Len(done) + i]
    BY <1>1 DEF IInv, Order
  <2>2. Len(done) \in Nat /\ DOMAIN submitted = 1 .. Len(submitted)
    BY TypeFacts DEF IInv
  <2>3. QED BY <1>2, <2>1, <2>2
<1>7. Len(queue) = 1 => Len(answers) = 1 /\ wire = <<>> /\ unsent = <<>>
  <2>1. Len(answers) + Len(wire) + Len(unsent) = Len(queue)
    BY <1>1, Matching DEF IInv
  <2>2. /\ Len(wire) \in Nat /\ Len(unsent) \in Nat
        /\ Len(wire) = 0 => wire = <<>>
        /\ Len(unsent) = 0 => unsent = <<>>
    BY TypeFacts, FlowLength DEF IInv
  <2>3. Len(queue) = 1 => Len(answers) = 1 /\ Len(wire) = 0 /\ Len(unsent) = 0
    <3>1. \A a \in Nat \ {0}, w, u \in Nat : a + w + u = 1 => a = 1 /\ w = 0 /\ u = 0
      OBVIOUS
    <3>2. QED BY <1>3, <2>1, <2>2, <3>1, Zenon
  <2>4. QED BY <2>2, <2>3, Zenon
<1>8. QED BY <1>1, <1>2, <1>3, <1>4, <1>5, <1>6, <1>7

(***************************************************************************)
(* Each step keeps the invariant.                                          *)
(***************************************************************************)

Keeps == /\ InOrder' /\ ReadPending' /\ OwnAnswer' /\ Connection' /\ Order'
         /\ Lone' /\ Carried'

\* An operation is submitted.
LEMMA SubmitKeeps ==
    ASSUME IInv, NEW o \in Op, Submit(o)
    PROVE  Keeps
<1> DEFINE h == IF state = 2 THEN 1 ELSE Garbage
           e == [op |-> o, handle |-> h]
<1>1. /\ status = "open" /\ o \notin Submitted /\ Alone(o, queue)
      /\ submitted' = Append(submitted, o) /\ queue' = Append(queue, e)
      /\ UNCHANGED <<reading, status, late, wire, answers, executed, done>>
      /\ e \in Entry /\ e.op = o /\ (e.handle = 1 \/ e.handle = Garbage)
  BY DEF Submit, Entry
<1> HIDE DEF e, h
<1>2. /\ Len(queue') = Len(queue) + 1 /\ queue'[Len(queue) + 1] = e
      /\ \A i \in 1 .. Len(queue) : queue'[i] = queue[i]
      /\ queue' \in Seq(Entry) /\ DOMAIN queue' = 1 .. Len(queue) + 1
      /\ DOMAIN queue = 1 .. Len(queue) /\ Len(queue) \in Nat
  BY <1>1, TypeFacts, AppendProperties, LenProperties DEF IInv
<1>3. /\ Len(submitted') = Len(submitted) + 1 /\ submitted'[Len(submitted) + 1] = o
      /\ \A i \in 1 .. Len(submitted) : submitted'[i] = submitted[i]
      /\ DOMAIN submitted = 1 .. Len(submitted) /\ Len(submitted) \in Nat
      /\ DOMAIN submitted' = 1 .. Len(submitted) + 1
  BY <1>1, TypeFacts, AppendProperties, LenProperties DEF IInv
<1>4. DOMAIN done = 1 .. Len(done) /\ Len(done) \in Nat
  BY TypeFacts DEF IInv
<1>5. InOrder'
  <2>1. CASE state = 2
    <3>1. queue' = Append(queue, [op |-> o, handle |-> 1]) /\ unsent' = Append(unsent, Packet(o, 1))
          /\ state' = 2
      BY <2>1 DEF Submit
    <3>2. Packets(queue') = Append(Packets(queue), Packet(o, 1))
      BY <2>1, <3>1, Matching, TypeFacts, PacketsEnds DEF IInv
    <3>3. /\ Packet(o, 1) \in PacketType /\ unsent \in Seq(PacketType)
          /\ answers \o wire \in Seq(PacketType)
      BY TypeFacts DEF Packet, PacketType, IInv
    <3>4. (answers \o wire) \o Append(unsent, Packet(o, 1))
            = Append((answers \o wire) \o unsent, Packet(o, 1))
      BY SMTT(30), <3>3, ConcatEnds
    <3>5. Flow = Packets(queue)
      BY <2>1, Matching DEF IInv
    <3>6. QED BY <1>1, <3>1, <3>2, <3>4, <3>5 DEF InOrder, Flow, Packets
  <2>2. CASE state # 2
    <3>1. unsent' = unsent /\ state' # 2
      BY <2>2 DEF Submit
    <3>2. QED BY <1>1, <2>2, <3>1 DEF InOrder, IInv
  <2>3. QED BY <2>1, <2>2
<1>6. ReadPending'
  <2>1. reading => state' = 2 /\ queue # <<>>
    BY DEF Submit, IInv, ReadPending
  <2>2. reading => queue'[1] = queue[1] /\ queue' # <<>>
    <3>1. queue # <<>> => Len(queue) # 0
      BY TypeFacts, EmptySeq DEF IInv
    <3>2. queue' # <<>>
      <4>1. queue \in Seq(Entry)
        BY TypeFacts DEF IInv
      <4>2. QED BY <1>1, <4>1, AppendProperties
    <3>3. QED BY <1>2, <2>1, <3>1, <3>2
  <2>3. QED BY <1>1, <2>1, <2>2 DEF IInv, ReadPending
<1>7. OwnAnswer'
  BY <1>1, <1>3, <1>4 DEF IInv, OwnAnswer
<1>8. Connection'
  BY SMTT(30), <1>1 DEF Submit, IInv, Connection, TypeOK
<1>9. Order'
  <2>1. Len(submitted) = Len(done) + Len(queue)
        /\ \A i \in DOMAIN queue : queue[i].op = submitted[Len(done) + i]
    BY <1>1 DEF IInv, Order
  <2>2. ASSUME NEW i \in DOMAIN queue' PROVE queue'[i].op = submitted'[Len(done) + i]
    <3>1. CASE i \in DOMAIN queue
      BY <1>2, <1>3, <1>4, <2>1, <3>1
    <3>2. CASE i = Len(queue) + 1
      BY <1>1, <1>2, <1>3, <1>4, <2>1, <3>2
    <3>3. QED BY <1>2, <3>1, <3>2
  <2>3. QED BY <1>1, <1>2, <1>3, <1>4, <2>1, <2>2 DEF Order
<1>10. Lone'
  <2>1. ASSUME NEW i \in DOMAIN queue' PROVE
          /\ queue'[i].op \in Double => Len(queue') = 1
          /\ queue'[i].handle = 2 => queue'[i].op \in Double
    <3>1. CASE i \in DOMAIN queue
      <4>1. queue # <<>>
        BY <3>1
      <4>2. queue[i].op \notin Double
        <5>1. queue[i].op \in Double => i = 1
          BY <1>2, <3>1 DEF IInv, Lone
        <5>2. QED BY <1>1, <4>1, <5>1 DEF Alone
      <4>3. QED BY <1>2, <3>1, <4>2 DEF IInv, Lone
    <3>2. CASE i = Len(queue) + 1
      <4>1. o \in Double => Len(queue) = 0
        BY <1>1, TypeFacts, EmptySeq DEF Alone, IInv
      <4>2. QED BY <1>1, <1>2, <3>2, <4>1
    <3>3. QED BY <1>2, <3>1, <3>2
  <2>2. QED BY <2>1 DEF Lone
<1>11. Carried'
  <2>1. Submitted \subseteq Submitted'
    BY <1>3 DEF Submitted, Range
  <2>2. QED BY <1>1, <2>1 DEF IInv, Carried, Final
<1>12. QED BY <1>5, <1>6, <1>7, <1>8, <1>9, <1>10, <1>11 DEF Keeps

\* A connection is made: everything is sent.
LEMMA ConnectedKeeps ==
    ASSUME IInv, TypeOK', Connected
    PROVE  Keeps
<1>1. /\ state = 1 /\ state' = 2 /\ timer' = "none" /\ status = "open" /\ ~reading
      /\ UNCHANGED <<reading, status, late, wire, answers, hist>>
      /\ answers = <<>> /\ wire = <<>>
  BY Silence DEF Connected, IInv, Connection, ReadPending
<1>2. /\ DOMAIN queue' = DOMAIN queue /\ Len(queue') = Len(queue)
      /\ \A i \in DOMAIN queue : queue'[i].op = queue[i].op /\ queue'[i].handle = 1
  <2>1. \A i \in DOMAIN queue : queue[i] \in Entry
    BY TypeFacts, ElementOfSeq DEF IInv
  <2>2. \A i \in DOMAIN queue : queue'[i] = [queue[i] EXCEPT !.handle = 1]
    BY DEF Connected
  <2>3. DOMAIN queue' = DOMAIN queue
    BY DEF Connected
  <2>4. Len(queue') = Len(queue)
    <3>1. queue' \in Seq(Entry) /\ queue \in Seq(Entry)
      BY TypeFacts DEF TypeOK, Entry, IInv
    <3>2. QED BY <2>3, <3>1, LenProperties
  <2>5. QED BY <2>1, <2>2, <2>3, <2>4 DEF Entry
<1>3. InOrder'
  <2>1. unsent' = [i \in DOMAIN queue |-> Packet(queue[i].op, 1)] /\ unsent' \in Seq(PacketType)
    BY DEF Connected, TypeOK
  <2>2. answers' \o wire' \o unsent' = unsent'
    BY <1>1, <2>1, ConcatEmptySeq
  <2>3. QED BY <1>1, <1>2, <2>1, <2>2 DEF InOrder
<1>4. Order' /\ Lone'
  BY <1>1, <1>2 DEF IInv, Order, Lone
<1>5. Connection' /\ ReadPending'
  BY <1>1 DEF Connection, ReadPending, IInv
<1>6. OwnAnswer' /\ Carried'
  BY <1>1 DEF IInv, OwnAnswer, Carried, Submitted
<1>7. QED BY <1>3, <1>4, <1>5, <1>6 DEF Keeps

\* A connection is given up, after a failure or at the end.
LEMMA GivenUp ==
    ASSUME IInv, ~reading', unsent' = <<>>, wire' = <<>>, answers' = <<>>, state' # 2,
           late' = late \cup Range(wire), UNCHANGED hist
    PROVE  InOrder' /\ ReadPending' /\ OwnAnswer' /\ Carried'
<1>1. InOrder'
  BY DEF InOrder
<1>2. ReadPending'
  BY DEF ReadPending
<1>3. OwnAnswer'
  BY DEF IInv, OwnAnswer
<1>4. Carried'
  BY QueuedSubmitted DEF IInv, Carried, Submitted
<1>5. QED BY <1>1, <1>2, <1>3, <1>4

LEMMA ReconnectKeeps ==
    ASSUME IInv, status = "open", Reconnect
    PROVE  Keeps
<1>1. InOrder' /\ ReadPending' /\ OwnAnswer' /\ Carried'
  BY GivenUp DEF Reconnect
<1>2. Connection'
  BY DEF Reconnect, Connection, IInv
<1>3. Order' /\ Lone'
  BY DEF Reconnect, Order, Lone, IInv
<1>4. QED BY <1>1, <1>2, <1>3 DEF Keeps

LEMMA CloseKeeps ==
    ASSUME IInv, Close
    PROVE  Keeps
<1>1. InOrder' /\ ReadPending' /\ OwnAnswer' /\ Carried'
  BY GivenUp DEF Close
<1>2. Connection' /\ Order' /\ Lone'
  BY DEF Close, Connection, Order, Lone
<1>3. QED BY <1>1, <1>2 DEF Keeps

\* A packet is sent.
LEMMA SentKeeps ==
    ASSUME IInv, Sent
    PROVE  Keeps
<1>1. state = 2 /\ unsent # <<>> /\ reading'
  BY Silence DEF Sent, IInv
<1>2. InOrder'
  <2>1. /\ unsent \in Seq(PacketType) /\ wire \in Seq(PacketType)
        /\ answers \in Seq(PacketType)
    BY TypeFacts DEF IInv
  <2>2. answers' \o wire' \o unsent' = answers \o wire \o unsent
    <3>1. Three(answers, Append(wire, Head(unsent)), Tail(unsent)) = Three(answers, wire, unsent)
      BY <1>1, <2>1, MoveAcross
    <3>2. QED BY <3>1 DEF Sent, Three
  <2>3. QED BY <2>2 DEF Sent, IInv, InOrder
<1>3. ReadPending'
  <2>1. Len(queue) # 0
    <3>1. Len(answers) + Len(wire) + Len(unsent) = Len(queue)
      BY <1>1, Matching DEF IInv
    <3>2. Len(answers) \in Nat /\ Len(wire) \in Nat /\ Len(unsent) \in Nat \ {0}
      BY <1>1, TypeFacts, EmptySeq, FlowLength DEF IInv
    <3>3. \A a, w \in Nat, u \in Nat \ {0} : a + w + u # 0
      OBVIOUS
    <3>4. QED BY <3>1, <3>2, <3>3, Zenon
  <2>2. queue # <<>> /\ 1 \in DOMAIN queue
    BY <2>1, TypeFacts DEF IInv
  <2>3. queue[1].handle \in Stages
    BY <1>1, <2>2, Matching DEF IInv
  <2>4. QED BY <1>1, <2>2, <2>3 DEF Sent, ReadPending
<1>4. Connection' /\ Order' /\ Lone' /\ OwnAnswer' /\ Carried'
  BY DEF Sent, IInv, Connection, Order, Lone, OwnAnswer, Carried, Submitted
<1>5. QED BY <1>2, <1>3, <1>4 DEF Keeps

\* A request is carried out.
LEMMA ExecuteKeeps ==
    ASSUME IInv, Execute
    PROVE  Keeps
<1>1. state = 2 /\ wire # <<>> /\ reading
  BY Silence DEF Execute, IInv, ReadPending
<1>2. /\ Head(wire) \in PacketType /\ answers' = Append(answers, Head(wire))
      /\ answers' \o wire' = answers \o wire
  <2>1. wire \in Seq(PacketType) /\ answers \in Seq(PacketType)
    BY TypeFacts DEF IInv
  <2>2. /\ Head(wire) \in PacketType
        /\ Append(answers, Head(wire)) \o Tail(wire) = answers \o wire
    BY <1>1, <2>1, MoveAlong
  <2>3. QED BY <2>2 DEF Execute
<1>3. InOrder'
  BY <1>2 DEF Execute, IInv, InOrder
<1>4. ReadPending'
  BY <1>1 DEF Execute, IInv, ReadPending
<1>5. Carried'
  <2>1. executed \subseteq executed'
        /\ (Head(wire).stage = Final(Head(wire).op) => Head(wire).op \in executed')
    BY DEF Execute, Effect
  <2>2. \A i \in DOMAIN answers' : \/ i \in DOMAIN answers /\ answers'[i] = answers[i]
                                   \/ answers'[i] = Head(wire)
    BY SMTT(30), <1>2, TypeFacts, AppendProperties, LenProperties DEF IInv
  <2>3. QED BY <2>1, <2>2 DEF Execute, IInv, Carried, Final, Submitted
<1>6. Connection' /\ Order' /\ Lone' /\ OwnAnswer'
  BY DEF Execute, IInv, Connection, Order, Lone, OwnAnswer
<1>7. QED BY <1>3, <1>4, <1>5, <1>6 DEF Keeps

LEMMA ExecuteLateKeeps ==
    ASSUME IInv, ExecuteLate
    PROVE  Keeps
<1>1. executed \subseteq executed' /\ late' \subseteq late
      /\ UNCHANGED <<state, timer, reading, status, queue, unsent, wire, answers, submitted, done>>
  BY DEF ExecuteLate, Effect
<1>2. Carried'
  BY <1>1 DEF IInv, Carried, Final, Submitted
<1>3. QED
  BY <1>1, <1>2 DEF Keeps, IInv, InOrder, ReadPending, OwnAnswer, Connection, Order, Lone

\* The answer to the first request of a lone operation.
LEMMA ReceiveFirstKeeps ==
    ASSUME IInv, ReceiveFirst
    PROVE  Keeps
<1>1. /\ state = 2 /\ status = "open" /\ queue # <<>> /\ 1 \in DOMAIN queue /\ queue[1] \in Entry
      /\ reading /\ answers # <<>>
      /\ Len(queue) = 1 => Len(answers) = 1 /\ wire = <<>> /\ unsent = <<>>
  BY Answering DEF ReceiveFirst
<1>2. Len(queue) = 1 /\ Len(answers) = 1 /\ wire = <<>> /\ unsent = <<>>
  BY <1>1 DEF ReceiveFirst, IInv, Lone
<1>3. /\ queue' \in Seq(Entry) /\ Len(queue') = 1 /\ DOMAIN queue' = {1}
      /\ queue'[1].op = queue[1].op /\ queue'[1].handle = 2
  <2>1. queue' = [queue EXCEPT ![1] = [queue[1] EXCEPT !.handle = 2]]
    BY DEF ReceiveFirst
  <2> DEFINE e == [queue[1] EXCEPT !.handle = 2]
  <2>2. e \in Entry /\ e.op = queue[1].op /\ e.handle = 2
    BY <1>1 DEF Entry
  <2> HIDE DEF e
  <2>3. queue \in Seq(Entry) /\ 1 \in 1 .. Len(queue)
    BY <1>1, TypeFacts DEF IInv
  <2>4. queue' \in Seq(Entry) /\ Len(queue') = Len(queue) /\ queue'[1] = e
    BY <2>1, <2>2, <2>3, ExceptSeq DEF e
  <2>5. DOMAIN queue' = 1 .. 1
    BY <1>2, <2>4, LenProperties
  <2>6. QED BY <1>2, <2>2, <2>4, <2>5
<1>4. /\ answers' = <<>> /\ wire' = <<>> /\ unsent' = <<Packet(queue[1].op, 2)>>
      /\ Packet(queue[1].op, 2) \in PacketType
  <2>1. Tail(answers) \in Seq(PacketType) /\ Len(Tail(answers)) = 0
    BY <1>1, <1>2, HeadTailProperties, TypeFacts DEF IInv
  <2>2. Tail(answers) = <<>>
    BY <2>1, EmptySeq
  <2>3. Packet(queue[1].op, 2) \in PacketType
    BY <1>1 DEF Packet, PacketType, Entry
  <2>4. QED BY <1>2, <2>2, <2>3 DEF ReceiveFirst
<1>5. InOrder'
  <2>1. answers' \o wire' \o unsent' = <<Packet(queue[1].op, 2)>>
    <3>1. <<Packet(queue[1].op, 2)>> \in Seq(PacketType)
      BY <1>4
    <3>2. QED BY <1>4, <3>1, ConcatEmptySeq
  <2>2. [i \in DOMAIN queue' |-> Packet(queue'[i].op, queue'[i].handle)]
          = <<Packet(queue[1].op, 2)>>
    <3>1. [i \in {1} |-> Packet(queue'[i].op, queue'[i].handle)]
            = [i \in {1} |-> Packet(queue[1].op, 2)]
      BY <1>3
    <3>2. <<Packet(queue[1].op, 2)>> = [i \in {1} |-> Packet(queue[1].op, 2)]
      OBVIOUS
    <3>3. QED BY <1>3, <3>1, <3>2
  <2>3. QED BY <1>1, <2>1, <2>2 DEF ReceiveFirst, InOrder
<1>6. ReadPending'
  BY <1>1, <1>3, <1>4 DEF ReceiveFirst, ReadPending
<1>7. Order' /\ Lone'
  <2>1. queue[1].op \in Double /\ queue[1].op = submitted[Len(done) + 1]
    BY <1>1, Answering DEF ReceiveFirst
  <2>2. QED BY <1>1, <1>2, <1>3, <2>1 DEF ReceiveFirst, IInv, Order, Lone
<1>8. Carried'
  BY <1>4 DEF ReceiveFirst, IInv, Carried, Submitted, Final
<1>9. Connection' /\ OwnAnswer'
  BY <1>1 DEF ReceiveFirst, IInv, Connection, OwnAnswer
<1>10. QED BY <1>5, <1>6, <1>7, <1>8, <1>9 DEF Keeps

\* The final answer to an operation.
LEMMA ReceiveLastKeeps ==
    ASSUME IInv, TypeOK', NEW more \in Followers, ReceiveLast(more)
    PROVE  Keeps
<1>1. /\ state = 2 /\ status = "open" /\ timer = "none" /\ queue # <<>> /\ 1 \in DOMAIN queue
      /\ Len(queue) \in Nat \ {0}
      /\ answers # <<>> /\ Head(answers) = Packet(queue[1].op, queue[1].handle)
      /\ answers[1] = Head(answers)
      /\ queue[1].handle \in Stages /\ queue[1] \in Entry
      /\ queue[1].op = submitted[Len(done) + 1] /\ Len(done) + 1 \in DOMAIN submitted
      /\ Len(queue) = 1 => Len(answers) = 1 /\ wire = <<>> /\ unsent = <<>>
  BY Answering DEF ReceiveLast
<1>2. queue[1].handle = Final(queue[1].op)
  BY <1>1 DEF ReceiveLast, Final, IInv, Lone
<1>3. /\ state' = 2 /\ status' = "open" /\ timer' = "none"
      /\ answers' = Tail(answers) /\ done' = Append(done, Head(answers))
      /\ UNCHANGED <<late, wire, executed>>
      /\ (reading' <=> queue' # <<>> /\ queue'[1].handle # Null)
  BY <1>1 DEF ReceiveLast
<1>4. /\ queue \in Seq(Entry) /\ answers \in Seq(PacketType) /\ wire \in Seq(PacketType)
      /\ unsent \in Seq(PacketType) /\ answers \o wire \in Seq(PacketType)
      /\ done \in Seq(PacketType) /\ submitted \in Seq(Op)
      /\ DOMAIN done = 1 .. Len(done) /\ Len(done) \in Nat
      /\ DOMAIN submitted = 1 .. Len(submitted) /\ Len(submitted) \in Nat
      /\ DOMAIN queue = 1 .. Len(queue) /\ DOMAIN answers = 1 .. Len(answers)
      /\ Len(answers) \in Nat \ {0}
  BY <1>1, TypeFacts, LenProperties, EmptySeq DEF IInv
<1>5. /\ Len(done') = Len(done) + 1 /\ DOMAIN done' = 1 .. Len(done) + 1
      /\ done'[Len(done) + 1] = Packet(queue[1].op, Final(queue[1].op))
      /\ \A i \in 1 .. Len(done) : done'[i] = done[i]
  <2>1. Head(answers) \in PacketType
    BY <1>1, <1>4, HeadTailProperties
  <2>2. Append(done, Head(answers)) \in Seq(PacketType)
        /\ Len(Append(done, Head(answers))) = Len(done) + 1
        /\ Append(done, Head(answers))[Len(done) + 1] = Head(answers)
        /\ \A i \in 1 .. Len(done) : Append(done, Head(answers))[i] = done[i]
    BY <1>4, <2>1, AppendProperties
  <2>3. QED BY <1>1, <1>2, <1>3, <2>2, LenProperties
<1>6. \A i \in DOMAIN done' : i \in DOMAIN done \/ i = Len(done) + 1
  <2>1. \A n \in Nat : \A i \in 1 .. n + 1 : i \in 1 .. n \/ i = n + 1
    OBVIOUS
  <2>2. QED BY <1>4, <1>5, <2>1, Zenon
<1>7. \A i \in DOMAIN answers' : \E j \in DOMAIN answers : answers'[i] = answers[j]
  <2>1. /\ Tail(answers) \in Seq(PacketType) /\ Len(Tail(answers)) = Len(answers) - 1
        /\ \A i \in 1 .. Len(Tail(answers)) : Tail(answers)[i] = answers[i + 1]
    BY <1>1, <1>4, HeadTailProperties
  <2>2. DOMAIN Tail(answers) = 1 .. Len(answers) - 1
    BY <2>1, LenProperties
  <2>3. \A i \in 1 .. Len(answers) - 1 : i + 1 \in DOMAIN answers
    BY <1>4
  <2>4. QED BY <1>3, <2>1, <2>2, <2>3
<1>8. /\ Len(submitted) = Len(done) + Len(queue)
      /\ \A i \in DOMAIN queue : queue[i].op = submitted[Len(done) + i]
  BY <1>1 DEF IInv, Order
<1>9. ASSUME queue' = Tail(queue), unsent' = unsent, submitted' = submitted
      PROVE  InOrder' /\ Order' /\ Lone' /\ Len(submitted') >= Len(submitted)
             /\ \A i \in DOMAIN submitted : i \in DOMAIN submitted' /\ submitted'[i] = submitted[i]
  <2>1. /\ queue' \in Seq(Entry) /\ Len(queue') = Len(queue) - 1
        /\ DOMAIN queue' = 1 .. Len(queue) - 1
        /\ \A i \in 1 .. Len(queue) - 1 : queue'[i] = queue[i + 1]
    BY <1>1, <1>4, <1>9, HeadTailProperties, LenProperties
  <2>2. InOrder'
    <3>1. Flow = Packets(queue) /\ Packets(Tail(queue)) = Tail(Packets(queue))
      BY <1>1, <1>4, Matching, PacketsEnds DEF IInv
    <3>2. (Tail(answers) \o wire) \o unsent = Tail((answers \o wire) \o unsent)
      <4>1. Tail(answers) \o wire = Tail(answers \o wire) /\ answers \o wire # <<>>
        BY <1>1, <1>4, ConcatEnds
      <4>2. QED BY <1>4, <4>1, ConcatEnds
    <3>3. QED BY <1>3, <1>9, <3>1, <3>2 DEF InOrder, Flow, Packets
  <2>3. Order'
    <3>1. ASSUME NEW i \in DOMAIN queue' PROVE queue'[i].op = submitted'[Len(done') + i]
      <4>1. i + 1 \in DOMAIN queue /\ queue'[i] = queue[i + 1]
            /\ Len(done) + (i + 1) = Len(done) + 1 + i
        BY SMTT(30), <1>4, <2>1
      <4>2. QED BY <1>5, <1>8, <1>9, <4>1
    <3>2. Len(submitted') = Len(done') + Len(queue')
      <4>1. \A d, q \in Nat : d + q = (d + 1) + (q - 1)
        OBVIOUS
      <4>2. /\ Len(submitted') = Len(done) + Len(queue) /\ Len(done') = Len(done) + 1
            /\ Len(queue') = Len(queue) - 1 /\ Len(done) \in Nat /\ Len(queue) \in Nat
        BY <1>1, <1>4, <1>5, <1>8, <1>9, <2>1
      <4>3. QED BY <4>1, <4>2, Zenon
    <3>3. QED BY <3>1, <3>2 DEF Order
  <2>4. Lone'
    <3>1. ASSUME NEW i \in DOMAIN queue'
          PROVE  queue'[i].op \notin Double /\ queue'[i].handle # 2
      <4>1. i + 1 \in DOMAIN queue /\ queue'[i] = queue[i + 1] /\ Len(queue) # 1
        BY <1>4, <2>1
      <4>2. QED BY <4>1 DEF IInv, Lone
    <3>2. QED BY <3>1 DEF Lone
  <2>5. QED BY <1>4, <1>9, <2>2, <2>3, <2>4
<1>10. ASSUME NEW o \in Double \ Submitted, Len(queue) = 1,
             queue' = <<[op |-> o, handle |-> 1]>>,
             unsent' = Append(unsent, Packet(o, 1)), submitted' = Append(submitted, o)
      PROVE  InOrder' /\ Order' /\ Lone' /\ Len(submitted') >= Len(submitted)
             /\ \A i \in DOMAIN submitted : i \in DOMAIN submitted' /\ submitted'[i] = submitted[i]
  <2>1. o \in Op /\ Packet(o, 1) \in PacketType /\ [op |-> o, handle |-> 1] \in Entry
    BY DEF Packet, PacketType, Entry
  <2>2. answers' = <<>> /\ wire' = <<>> /\ unsent' = <<Packet(o, 1)>>
    <3>1. Tail(answers) \in Seq(PacketType) /\ Len(Tail(answers)) = 0
      BY <1>1, <1>4, <1>10, HeadTailProperties
    <3>2. Tail(answers) = <<>> /\ unsent = <<>> /\ wire = <<>>
      BY <1>1, <1>10, <3>1, EmptySeq
    <3>3. QED BY <1>3, <1>10, <3>2
  <2>3. Len(queue') = 1 /\ DOMAIN queue' = {1} /\ queue'[1].op = o /\ queue'[1].handle = 1
    BY <1>10
  <2>4. InOrder'
    <3>1. answers' \o wire' \o unsent' = <<Packet(o, 1)>>
      <4>1. <<Packet(o, 1)>> \in Seq(PacketType)
        BY <2>1
      <4>2. QED BY <2>2, <4>1, ConcatEmptySeq
    <3>2. [i \in DOMAIN queue' |-> Packet(queue'[i].op, queue'[i].handle)] = <<Packet(o, 1)>>
      <4>1. [i \in {1} |-> Packet(queue'[i].op, queue'[i].handle)] = [i \in {1} |-> Packet(o, 1)]
        BY <2>3
      <4>2. <<Packet(o, 1)>> = [i \in {1} |-> Packet(o, 1)]
        OBVIOUS
      <4>3. QED BY <2>3, <4>1, <4>2
    <3>3. QED BY <1>3, <3>1, <3>2 DEF InOrder
  <2>5. /\ Len(submitted') = Len(submitted) + 1 /\ submitted'[Len(submitted) + 1] = o
        /\ \A i \in 1 .. Len(submitted) : submitted'[i] = submitted[i]
        /\ DOMAIN submitted' = 1 .. Len(submitted) + 1
    <3>1. submitted' \in Seq(Op) /\ Len(submitted') = Len(submitted) + 1
          /\ submitted'[Len(submitted) + 1] = o
          /\ \A i \in 1 .. Len(submitted) : submitted'[i] = submitted[i]
      BY <1>4, <1>10, <2>1, AppendProperties
    <3>2. QED BY <3>1, LenProperties
  <2>6. Order'
    BY <1>4, <1>5, <1>8, <1>10, <2>3, <2>5 DEF Order
  <2>7. Lone'
    BY <2>3 DEF Lone
  <2>8. QED BY <1>4, <2>4, <2>5, <2>6, <2>7
<1>11. /\ InOrder' /\ Order' /\ Lone' /\ Len(submitted') >= Len(submitted)
       /\ \A i \in DOMAIN submitted : i \in DOMAIN submitted' /\ submitted'[i] = submitted[i]
  BY <1>9, <1>10, ReceiveLastCases
<1>12. OwnAnswer'
  <2>1. Len(done') <= Len(submitted') /\ Len(submitted') \in Nat
    BY <1>1, <1>4, <1>5, <1>11, LenProperties DEF TypeOK
  <2>2. ASSUME NEW i \in DOMAIN done' PROVE done'[i] = Packet(submitted'[i], Final(submitted'[i]))
    <3>1. CASE i \in DOMAIN done
      <4>1. i \in DOMAIN submitted
        BY <1>1, <1>4, <3>1
      <4>2. QED BY <1>4, <1>5, <1>11, <3>1, <4>1 DEF IInv, OwnAnswer
    <3>2. CASE i = Len(done) + 1
      BY <1>1, <1>5, <1>11, <3>2
    <3>3. i \in DOMAIN done \/ i = Len(done) + 1
      BY <1>6
    <3>4. QED BY <3>1, <3>2, <3>3
  <2>3. QED BY <2>1, <2>2 DEF OwnAnswer
<1>13. Carried'
  <2>1. queue[1].op \in executed
    BY SMTT(30), <1>1, <1>2, <1>4 DEF IInv, Carried, Packet
  <2>2. ASSUME NEW i \in DOMAIN done' PROVE done'[i].op \in executed
    <3>1. i \in DOMAIN done \/ i = Len(done) + 1
      BY <1>6
    <3>2. i \in DOMAIN done => done'[i] = done[i] /\ done[i].op \in executed
      BY <1>4, <1>5 DEF IInv, Carried
    <3>3. i = Len(done) + 1 => done'[i].op = queue[1].op
      BY <1>5 DEF Packet
    <3>4. QED BY <2>1, <3>1, <3>2, <3>3
  <2>3. \A i \in DOMAIN answers' :
          answers'[i].stage = Final(answers'[i].op) => answers'[i].op \in executed
    BY <1>7 DEF IInv, Carried
  <2>4. Submitted \subseteq Submitted'
    BY <1>11 DEF Submitted, Range
  <2>5. QED BY <1>3, <2>2, <2>3, <2>4 DEF IInv, Carried, Final
<1>14. Connection'
  BY <1>3 DEF Connection
<1>15. ReadPending'
  <2>1. \A i \in DOMAIN queue' : queue'[i].handle \in Stages
    BY <1>3, <1>11, ExpectedNext
  <2>2. wire' \o answers' # <<>> => queue' # <<>>
    BY <1>3, <1>11, ExpectedNext
  <2>3. queue' # <<>> => 1 \in DOMAIN queue'
    <3>1. queue' \in Seq(Entry)
      BY DEF TypeOK, Entry
    <3>2. QED BY <3>1, EmptySeq, LenProperties
  <2>4. QED BY <1>3, <2>1, <2>2, <2>3 DEF ReadPending
<1>16. QED BY <1>11, <1>12, <1>13, <1>14, <1>15 DEF Keeps

(***************************************************************************)
(* How long the client waits: only Reconnect starts to wait, and it does   *)
(* not when there have been too many failures.                             *)
(***************************************************************************)

LEMMA WaitsKept ==
    ASSUME IInv, Next
    PROVE  WaitsInTable'
<1>1. ASSUME Reconnect PROVE WaitsInTable'
  <2>1. ndrops' = Drops /\ serveralive' = serveralive
        /\ (timer' = "sleep" => ~TooMany(Drops))
    BY <1>1 DEF Reconnect
  <2>2. Drops \in Nat \ {0}
    BY DEF IInv, TypeOK, Drops
  <2>3. QED BY <2>1, <2>2 DEF TooMany, WaitsInTable, IInv, TypeOK
<1>2. ASSUME timer' \notin {"sleep"} PROVE WaitsInTable'
  BY <1>2 DEF WaitsInTable
<1>3. ASSUME UNCHANGED <<timer, ndrops, serveralive>> PROVE WaitsInTable'
  BY <1>3 DEF WaitsInTable, IInv
<1>4. ASSUME NEW o \in Op, Submit(o) PROVE WaitsInTable'
  BY <1>2, <1>3, <1>4 DEF Submit
<1>5. CASE Connected \/ Wake \/ Close
  BY <1>2, <1>5 DEF Connected, Wake, Close
<1>6. CASE ConnectFailed \/ Lost
  BY <1>1, <1>6 DEF ConnectFailed, Lost
<1>7. CASE Sent \/ Execute \/ ExecuteLate \/ ReceiveFirst
  BY <1>3, <1>7 DEF Sent, Execute, ExecuteLate, ReceiveFirst
<1>8. ASSUME NEW more \in Followers, ReceiveLast(more) PROVE WaitsInTable'
  \* There is a connection: no callback of reconnect is awaited.
  <2>1. timer' = timer /\ reading /\ state = 2
    BY <1>8 DEF ReceiveLast, IInv, ReadPending
  <2>2. timer # "sleep"
    BY <2>1 DEF IInv, Connection
  <2>3. QED BY <1>2, <2>1, <2>2
<1>9. QED BY <1>4, <1>5, <1>6, <1>7, <1>8 DEF Next

(***************************************************************************)
(* The invariant.                                                          *)
(***************************************************************************)

\* The invariant holds initially, and each step keeps it.
LEMMA Inductive ==
    /\ Init => IInv
    /\ IInv /\ [Next]_vars => IInv'
<1>1. ASSUME Init PROVE IInv
  <2>1. TypeOK
    <3>1. retryforever \in BOOLEAN /\ reading \in BOOLEAN /\ serveralive \in BOOLEAN
      BY <1>1, Zenon DEF Init
    <3>2. QED BY <1>1, <3>1 DEF Init, TypeOK
  <2>2. WaitsInTable /\ InOrder /\ ReadPending /\ OwnAnswer
    BY <1>1 DEF Init, WaitsInTable, InOrder, ReadPending, OwnAnswer
  <2>3. Connection /\ Order /\ Lone /\ Carried
    BY <1>1 DEF Init, Connection, Order, Lone, Carried
  <2>4. QED BY <2>1, <2>2, <2>3 DEF IInv
<1>2. ASSUME IInv, Next PROVE IInv'
  <2>1. TypeOK'
    BY <1>2, Typed
  <2>2. ConnectFailed => Keeps
    BY <1>2, ReconnectKeeps DEF ConnectFailed
  <2>3. Lost => Keeps
    BY <1>2, ReconnectKeeps DEF Lost
  <2>4. Wake => Keeps
    BY <1>2 DEF Wake, Keeps, IInv, InOrder, ReadPending, OwnAnswer, Connection, Order, Lone,
                Carried, Submitted
  <2>5. Keeps
    BY <1>2, <2>1, <2>2, <2>3, <2>4, SubmitKeeps, ConnectedKeeps, SentKeeps, ExecuteKeeps,
       ExecuteLateKeeps, ReceiveFirstKeeps, ReceiveLastKeeps, CloseKeeps DEF Next
  <2>6. WaitsInTable'
    BY <1>2, WaitsKept
  <2>7. QED BY <2>1, <2>5, <2>6 DEF IInv, Keeps
<1>3. ASSUME IInv, UNCHANGED vars PROVE IInv'
  BY <1>3 DEF vars, IInv, TypeOK, WaitsInTable, InOrder, ReadPending, OwnAnswer, Connection, Order, Lone,
              Carried, Submitted
<1>4. QED BY <1>1, <1>2, <1>3

\* The inductive invariant of netpacket_op.c's queue: see its parts in
\* NetpacketInv.
THEOREM Invariant == Spec => []IInv
BY Inductive, PTL DEF Spec

\* Every variable of the queue keeps its type.
THEOREM TypeCorrect == Spec => []TypeOK
BY Invariant, PTL DEF IInv

\* A wait is one of the table reconnect_wait, for as long as the failures
\* last, and with --retry-forever (netpacket_op.c:250-261).
THEOREM WaitsKnown == Spec => []WaitsInTable
BY Invariant, PTL DEF IInv

\* What is on its way is one packet for each queued operation, in the order of
\* the queue, whatever was lost and sent again (netpacket_op.c:304-310).
THEOREM PacketsInOrder == Spec => []InOrder
BY Invariant, PTL DEF IInv

\* An answer that will come is waited for, and only by an operation at the
\* head of the queue of a live connection (netpacket_op.c:321, :406).
THEOREM AnswersAwaited == Spec => []ReadPending
BY Invariant, PTL DEF IInv

\* No operation is given the answer to another one.
THEOREM OwnAnswers == Spec => []OwnAnswer
BY Invariant, PTL DEF IInv

(***************************************************************************)
(* What the queue promises.  Its steps are those of RequestQueue: packets  *)
(* that come and go, and connections, are of no concern to the callers.    *)
(***************************************************************************)

Answers(d) == [i \in DOMAIN d |-> d[i].op]

\* The operations that have been answered, and one more.
LEMMA AnswersAppend ==
    ASSUME NEW d \in Seq(PacketType), NEW p \in PacketType
    PROVE  Len(Answers(d)) = Len(d) /\ Answers(Append(d, p)) = Append(Answers(d), p.op)
<1> DEFINE r == Append(d, p)
<1>1. /\ r \in Seq(PacketType) /\ Len(r) = Len(d) + 1 /\ r[Len(d) + 1] = p
      /\ \A i \in 1 .. Len(d) : r[i] = d[i]
  BY AppendProperties
<1>2. Len(d) \in Nat /\ DOMAIN d = 1 .. Len(d) /\ DOMAIN r = 1 .. Len(d) + 1
  BY <1>1, LenProperties
<1> HIDE DEF r
<1>3. (\A i \in 1 .. Len(d) : d[i] \in PacketType) /\ p.op \in Op
  BY ElementOfSeq DEF PacketType
<1>4. Answers(d) = [i \in 1 .. Len(d) |-> d[i].op] /\ \A i \in 1 .. Len(d) : d[i].op \in Op
  BY <1>2, <1>3 DEF Answers, PacketType
<1>5. Answers(d) \in Seq(Op) /\ Len(Answers(d)) = Len(d)
  BY <1>2, <1>4
<1> DEFINE a == Append(Answers(d), p.op)
<1>6. /\ a \in Seq(Op) /\ Len(a) = Len(d) + 1 /\ a[Len(d) + 1] = p.op
      /\ \A i \in 1 .. Len(d) : a[i] = Answers(d)[i]
  BY <1>3, <1>5, AppendProperties
<1> HIDE DEF a
<1>7. DOMAIN a = 1 .. Len(d) + 1
  BY <1>6, LenProperties
<1>8. Answers(r) = [i \in 1 .. Len(d) + 1 |-> r[i].op]
  BY <1>2 DEF Answers
<1>9. a = [i \in 1 .. Len(d) + 1 |-> a[i]]
  BY <1>6, <1>7
<1>10. ASSUME NEW i \in 1 .. Len(d) + 1 PROVE r[i].op = a[i]
  <2>1. CASE i \in 1 .. Len(d)
    BY <1>1, <1>4, <1>6, <2>1
  <2>2. CASE i = Len(d) + 1
    BY <1>1, <1>6, <2>2
  <2>3. QED BY <1>2, <2>1, <2>2
<1>11. Answers(r) = a
  BY <1>8, <1>9, <1>10
<1>12. QED BY <1>5, <1>11 DEF r, a

\* A step of the queue is one of RequestQueue, or none.
LEMMA StepRefines ==
    ASSUME IInv, [Next]_vars
    PROVE  [Abstract!Next]_(Abstract!vars)
<1> DEFINE Same == UNCHANGED <<submitted, executed, done>>
<1>1. ASSUME Same, status' = status PROVE UNCHANGED Abstract!vars
  BY <1>1 DEF Abstract!vars
<1>2. ASSUME Same, status = "open", status' # "open" PROVE Abstract!End
  BY <1>2 DEF Abstract!End
<1>3. ASSUME NEW o \in Op, Submit(o) PROVE Abstract!Submit
  <2>1. \A i \in DOMAIN submitted : submitted[i] # o
    BY <1>3 DEF Submit, Submitted, Range
  <2>2. Abstract!Fresh(submitted')
    BY <1>3, <2>1 DEF Submit, Abstract!Fresh
  <2>3. QED BY <1>3, <2>2 DEF Submit, Abstract!Submit
<1>4. ASSUME NEW p, p.op \in Submitted, executed' = Effect(p),
             UNCHANGED <<submitted, done, status>>
      PROVE  Abstract!Execute \/ UNCHANGED Abstract!vars
  <2>1. PICK i \in DOMAIN submitted : submitted[i] = p.op
    BY <1>4 DEF Submitted, Range
  <2>2. CASE executed' = executed
    BY <1>1, <1>4, <2>2
  <2>3. CASE executed' = executed \cup {submitted[i]}
    BY <1>4, <2>3 DEF Abstract!Execute
  <2>4. QED BY <1>4, <2>1, <2>2, <2>3 DEF Effect
<1>5. CASE Execute
  <2>1. Head(wire) \in Range(wire)
    BY <1>5, TypeFacts, EmptySeq, RangeEquality DEF IInv, Execute
  <2>2. PICK p : p = Head(wire)
    OBVIOUS
  <2>3. p.op \in Submitted /\ executed' = Effect(p) /\ UNCHANGED <<submitted, done, status>>
    BY <1>5, <2>1, <2>2, QueuedSubmitted DEF Execute
  <2>4. QED BY <1>4, <2>3 DEF Abstract!Next
<1>6. CASE ExecuteLate
  <2>1. PICK p \in late : executed' = Effect(p) /\ UNCHANGED <<submitted, done, status>>
    BY <1>6 DEF ExecuteLate
  <2>2. p.op \in Submitted
    BY DEF IInv, Carried
  <2>3. QED BY <1>4, <2>1, <2>2 DEF Abstract!Next
<1>7. ASSUME NEW more \in Followers, ReceiveLast(more) PROVE Abstract!Answer
  <2>1. /\ status = "open" /\ Head(answers) = answers[1] /\ 1 \in DOMAIN answers
        /\ answers[1] = Packet(queue[1].op, queue[1].handle)
        /\ queue[1].op = submitted[Len(done) + 1] /\ Len(done) + 1 \in DOMAIN submitted
        /\ queue[1].handle = Final(queue[1].op)
    <3>1. 1 \in DOMAIN answers
      BY <1>7, TypeFacts, EmptySeq, LenProperties DEF ReceiveLast, IInv
    <3>2. queue[1].handle \in Stages /\ 1 \in DOMAIN queue
      BY <1>7, Answering DEF ReceiveLast
    <3>3. queue[1].handle = Final(queue[1].op)
      BY <1>7, <3>2 DEF ReceiveLast, Final, IInv, Lone
    <3>4. QED BY <1>7, <3>1, <3>3, Answering DEF ReceiveLast
  <2>2. submitted[Len(done) + 1] \in executed
    BY <2>1 DEF IInv, Carried, Packet
  <2>3. Len(Answers(done)) = Len(done)
        /\ Answers(done') = Append(Answers(done), submitted[Len(done) + 1])
    <3>1. Head(answers) \in PacketType /\ Head(answers).op = submitted[Len(done) + 1]
      BY <2>1, TypeFacts, ElementOfSeq, LenProperties DEF IInv, Packet
    <3>2. done' = Append(done, Head(answers)) /\ done \in Seq(PacketType)
      BY <1>7, TypeFacts DEF ReceiveLast, IInv
    <3>3. QED BY <3>1, <3>2, AnswersAppend
  <2>4. Len(Answers(done)) < Len(submitted)
    BY <2>1, <2>3, TypeFacts DEF IInv
  <2>5. submitted' = submitted \/ Abstract!Fresh(submitted')
    <3>1. ASSUME NEW o \in Double \ Submitted, submitted' = Append(submitted, o)
          PROVE  Abstract!Fresh(submitted')
      BY <3>1 DEF Abstract!Fresh, Submitted, Range
    <3>2. QED BY <1>7, <3>1, ReceiveLastCases
  <2>6. executed' = executed /\ status' = status
    BY <1>7 DEF ReceiveLast
  <2>7. QED BY <2>1, <2>2, <2>3, <2>4, <2>5, <2>6 DEF Abstract!Answer, Answers
<1>8. ASSUME Reconnect, status = "open" PROVE Abstract!End \/ UNCHANGED Abstract!vars
  BY <1>1, <1>2, <1>8 DEF Reconnect
<1>9. CASE Close
  <2>1. Same /\ status' = "closed" /\ status \in {"open", "failed"}
    BY <1>9 DEF Close
  <2>2. status = "failed" => UNCHANGED Abstract!vars
    BY <2>1 DEF Abstract!vars
  <2>3. QED BY <1>2, <2>1, <2>2 DEF Abstract!Next
<1>10. CASE Connected \/ Wake \/ Sent \/ ReceiveFirst
  BY <1>1, <1>10 DEF Connected, Wake, Sent, ReceiveFirst
<1>11. CASE ConnectFailed \/ Lost
  BY <1>8, <1>11 DEF ConnectFailed, Lost, Abstract!Next
<1>12. CASE UNCHANGED vars
  BY <1>1, <1>12 DEF vars
<1>13. QED
  BY <1>3, <1>5, <1>6, <1>7, <1>9, <1>10, <1>11, <1>12 DEF Next, Abstract!Next

\* Operations are answered once each, in the order in which they were
\* submitted, after the server has carried them out (storage_*.c rely on it).
THEOREM Refines == Spec => ExactlyOnce
<1>1. Init => Abstract!Init
  BY DEF Init, Abstract!Init
<1>2. IInv /\ [Next]_vars => [Abstract!Next]_(Abstract!vars)
  BY StepRefines
<1>3. QED
  BY <1>1, <1>2, Invariant, PTL DEF Spec, ExactlyOnce, Abstract!Spec
=============================================================================
