-------------------------- MODULE SessionBusProofs --------------------------
(***************************************************************************)
(* What SessionBus guarantees for any number of frames, any sizes of its   *)
(* queues, buffer and sockets, and any number of events, drops and buses:  *)
(* a gap event is never sent to a frame whose queue is no longer than the  *)
(* replay buffer; every event a frame has passed by is accounted for;      *)
(* frames show events once and in order; and none is stuck.                *)
(***************************************************************************)
EXTENDS SessionBus, SequenceTheorems, FiniteSetTheorems, TLAPS

----------------------------------------------------------------------------
(* The inductive invariant *)

Subscription == [queue: Seq(Message), overflowed: BOOLEAN, attached: BOOLEAN, pumping: BOOLEAN]

Plain == {m \in Message : m.kind # "gap"}

\* What may be on its way to a frame.
Sendable(c) == IF QueueMax[c] <= ReplayMax THEN Plain ELSE Message

\* The replay buffer is the tail of what the bus published, of length
\* replay_max unless the bus has published less.
BufferInv ==
    LET h == bus.history IN
    /\ bus \in [seq: Nat, history: Seq(Plain), base: Nat]
    /\ Len(h) <= ReplayMax
    /\ Len(h) < ReplayMax => Len(h) = bus.seq
    /\ \A i \in 1 .. Len(h) : h[i].from = bus.seq - Len(h) + i

RouteInv ==
    /\ sub \in [Clients -> Subscription]
    /\ wire \in [Clients -> Seq(Message)]
    /\ \A c \in Clients : sub[c].queue \in Seq(Sendable(c)) /\ wire[c] \in Seq(Sendable(c))

CountInv == lastSeq \in [Clients -> Nat] /\ published \in Nat

\* What the stream is made of, and the case of publish() in which the bus is
\* open.
stream == <<bus, sub, wire, conn, lastSeq, published, view, drops, buses>>
Stamped ==
    /\ published < MaxPublished
    /\ Stamp
    /\ UNCHANGED <<wire, conn, lastSeq, drops, buses>>

\* A turn holds no bus, the session's own, or one that was closed.
TurnInv ==
    /\ holds \in [Turns -> 0 .. MaxBuses]
    /\ \A t \in Turns : holds[t] \in {0, buses} \cup closed
    /\ closed \in SUBSET (1 .. MaxBuses)
    /\ \A b \in closed : b < buses
    /\ unstamped \in Nat /\ published + unstamped <= MaxPublished
    /\ unstamped # 0 => closed # {}

GapInv == BufferInv /\ RouteInv /\ CountInv

----------------------------------------------------------------------------
(* The helpers *)

\* The terminators are sendable to anyone.
LEMMA TerminatorsSendable ==
    ASSUME NEW c \in Clients
    PROVE  /\ End \in Sendable(c) /\ CloseFrame \in Sendable(c)
           /\ Plain \subseteq Sendable(c) /\ Sendable(c) \subseteq Message
BY DEF End, CloseFrame, Sendable, Plain, Message, Kinds

\* A queue without subscription is a subscription of any kind.
LEMMA NoSubType ==
    /\ NoSub \in Subscription
    /\ <<>> \in Seq(Message)
    /\ \A c \in Clients : NoSub.queue \in Seq(Sendable(c)) /\ <<>> \in Seq(Sendable(c))
<1>1. NoSub \in Subscription /\ NoSub.queue = <<>>
  BY DEF NoSub, Subscription
<1>2. \A S : <<>> \in Seq(S)
  OBVIOUS
<1>3. QED
  BY <1>1, <1>2

\* put_nowait, overflow included, keeps a queue of sendable messages one.
LEMMA PutType ==
    ASSUME NEW c \in Clients, NEW s \in Subscription, s.queue \in Seq(Sendable(c)),
           NEW m \in Sendable(c)
    PROVE  Put(c, s, m) \in Subscription /\ Put(c, s, m).queue \in Seq(Sendable(c))
<1>1. QueueMax[c] \in Nat \ {0} /\ Len(s.queue) \in Nat
  BY QueueAssumption DEF Subscription
<1>2. /\ End \in Sendable(c) /\ Sendable(c) \subseteq Message
      /\ \A q \in Seq(Sendable(c)) : q \in Seq(Message)
  BY TerminatorsSendable
<1>3. CASE Len(s.queue) < QueueMax[c]
  <2>1. Append(s.queue, m) \in Seq(Sendable(c))
    BY AppendProperties
  <2>2. QED
    BY <1>2, <1>3, <2>1 DEF Put, Subscription
<1>4. CASE ~(Len(s.queue) < QueueMax[c]) /\ s.overflowed
  BY <1>4 DEF Put
<1>5. CASE ~(Len(s.queue) < QueueMax[c]) /\ ~s.overflowed
  <2>1. s.queue # <<>>
    BY <1>1, <1>5
  <2>2. Tail(s.queue) \in Seq(Sendable(c))
    BY <2>1, HeadTailProperties
  <2>3. Append(Tail(s.queue), End) \in Seq(Sendable(c))
    BY <1>2, <2>2, AppendProperties
  <2>4. Append(Tail(s.queue), End) \in Seq(Message)
    BY <1>2, <2>3
  <2>5. QED
    BY <1>5, <2>3, <2>4 DEF Put, Subscription
<1>6. QED
  BY <1>3, <1>4, <1>5

\* The events after "since" are events of the buffer, all of them when the
\* buffer starts after it.
LEMMA MissedEvents ==
    ASSUME BufferInv, NEW since \in Nat
    PROVE  LET h == bus.history
               aged == Cardinality({i \in DOMAIN h : h[i].from <= since})
               missed == SubSeq(h, aged + 1, Len(h))
           IN  /\ missed \in Seq(Plain)
               /\ h # <<>> /\ since < h[1].from => Len(missed) = Len(h)
<1> DEFINE h == bus.history
           old == {i \in DOMAIN h : h[i].from <= since}
           aged == Cardinality(old)
           missed == SubSeq(h, aged + 1, Len(h))
<1>1. h \in Seq(Plain) /\ Len(h) \in Nat /\ DOMAIN h = 1 .. Len(h) /\ bus.seq \in Nat
  BY DEF BufferInv
<1>2. aged \in Nat
  <2>1. old \in SUBSET (1 .. Len(h))
    BY <1>1
  <2>2. IsFiniteSet(1 .. Len(h))
    BY <1>1, FS_Interval
  <2>3. QED
    BY <2>1, <2>2, FS_Subset, FS_CardinalityType
<1>3. \A i \in aged + 1 .. Len(h) : h[i] \in Plain
  BY <1>1, <1>2
<1>4. /\ missed \in Seq(Plain)
      /\ Len(missed) = IF aged + 1 <= Len(h) THEN Len(h) - (aged + 1) + 1 ELSE 0
  <2>1. aged + 1 \in Int /\ Len(h) \in Int
    BY <1>1, <1>2
  <2>2. QED
    BY <1>3, <2>1, SubSeqProperties
<1>5. ASSUME h # <<>>, since < h[1].from
      PROVE  Len(missed) = Len(h)
  <2>1. Len(h) >= 1 /\ 1 \in 1 .. Len(h)
    BY <1>1, <1>5
  <2>2. \A i \in 1 .. Len(h) : h[i].from = bus.seq - Len(h) + i
    BY DEF BufferInv
  <2>3. \A i \in 1 .. Len(h) : ~(h[i].from <= since)
    BY <1>1, <1>5, <2>1, <2>2
  <2>4. old = {}
    BY <1>1, <2>3
  <2>5. aged = 0
    BY <2>4, FS_EmptySet
  <2>6. QED
    BY <1>1, <1>4, <2>1, <2>5
<1>6. QED
  BY <1>4, <1>5

\* What a backfill leaves on the queue of a frame is sendable to it: when
\* there is a gap in front, the buffer behind it is full.
LEMMA BackfillSendable ==
    ASSUME BufferInv, NEW c \in Clients, NEW since \in Nat
    PROVE  LET s == Backfilled(c, ReplayFrom(since))
           IN  s \in Subscription /\ s.queue \in Seq(Sendable(c))
<1> DEFINE h == bus.history
           missed == SubSeq(h, Cardinality({i \in DOMAIN h : h[i].from <= since}) + 1, Len(h))
           msgs == ReplayFrom(since)
           gap == Gap(since + 1, h[1].from - 1)
<1>1. /\ missed \in Seq(Plain)
      /\ h # <<>> /\ since < h[1].from => Len(missed) = Len(h)
  BY MissedEvents
<1>2. /\ h \in Seq(Plain) /\ Len(h) \in Nat /\ bus.seq \in Nat /\ bus.base \in Nat
      /\ Len(h) <= ReplayMax /\ (Len(h) < ReplayMax => Len(h) = bus.seq)
      /\ QueueMax[c] \in Nat \ {0} /\ ReplayMax \in Nat \ {0}
  BY QueueAssumption, ReplayAssumption DEF BufferInv
<1>3. End \in Sendable(c) /\ Plain \subseteq Sendable(c) /\ Sendable(c) \subseteq Message
  BY TerminatorsSendable
<1> HIDE DEF missed, msgs, gap
<1>4. /\ msgs \in Seq(Message)
      /\ \A i \in 2 .. Len(msgs) : msgs[i] \in Plain
      /\ Len(msgs) <= QueueMax[c] => msgs \in Seq(Sendable(c))
  <2>1. CASE h # <<>> /\ since + 1 < h[1].from
    <3>1. msgs = <<gap>> \o missed
      BY <2>1 DEF ReplayFrom, missed, msgs, gap
    <3>2. 1 \in 1 .. Len(h) /\ h[1] \in Plain /\ h[1].from = bus.seq - Len(h) + 1
      BY <1>2, <2>1 DEF BufferInv
    <3>3. Len(h) = ReplayMax
      BY <1>2, <2>1, <3>2
    <3>4. Len(missed) = Len(h)
      BY <1>1, <1>2, <2>1, <3>2
    <3>5. gap \in Message
      <4>1. h[1].from \in Nat /\ h[1].from - 1 \in Nat /\ since + 1 \in Nat
        BY <1>2, <2>1, <3>2
      <4>2. QED
        BY <1>2, <4>1 DEF Gap, Message, Kinds, gap
    <3>6. <<gap>> \in Seq(Message) /\ Len(<<gap>>) = 1 /\ missed \in Seq(Message)
      BY <1>1, <3>5 DEF Plain
    <3>7. /\ msgs \in Seq(Message)
          /\ Len(msgs) = 1 + Len(missed)
          /\ \A i \in 1 .. 1 + Len(missed) :
                msgs[i] = IF i <= 1 THEN <<gap>>[i] ELSE missed[i - 1]
      BY <3>1, <3>6, ConcatProperties
    <3>8. \A i \in 2 .. Len(msgs) : msgs[i] \in Plain
      <4>1. ASSUME NEW i \in 2 .. Len(msgs) PROVE msgs[i] \in Plain
        <5>1. i - 1 \in 1 .. Len(missed) /\ msgs[i] = missed[i - 1]
          BY <1>2, <3>4, <3>7, SMTT(30)
        <5>2. QED
          BY <1>1, <5>1
      <4>2. QED
        BY <4>1
    <3>9. Len(msgs) <= QueueMax[c] => Sendable(c) = Message
      BY <1>2, <3>3, <3>4, <3>7 DEF Sendable
    <3>10. QED
      BY <3>7, <3>8, <3>9
  <2>2. CASE ~(h # <<>> /\ since + 1 < h[1].from)
    <3>1. msgs = missed
      BY <2>2 DEF ReplayFrom, missed, msgs
    <3>2. \A i \in 1 .. Len(msgs) : msgs[i] \in Plain
      BY <1>1, <3>1
    <3>3. msgs \in Seq(Message) /\ msgs \in Seq(Sendable(c))
      BY <1>1, <1>3, <3>1
    <3>4. QED
      BY <3>2, <3>3
  <2>3. QED
    BY <2>1, <2>2
<1> DEFINE q == IF Len(msgs) <= QueueMax[c] THEN msgs
                ELSE Append(SubSeq(msgs, 2, QueueMax[c]), End)
<1>5. q \in Seq(Sendable(c)) /\ q \in Seq(Message)
  <2>1. CASE Len(msgs) <= QueueMax[c]
    BY <1>4, <2>1
  <2>2. CASE ~(Len(msgs) <= QueueMax[c])
    <3>1. Len(msgs) \in Nat
      BY <1>4
    <3>2. \A i \in 2 .. QueueMax[c] : msgs[i] \in Sendable(c)
      BY <1>2, <1>3, <1>4, <2>2, <3>1
    <3>3. SubSeq(msgs, 2, QueueMax[c]) \in Seq(Sendable(c))
      BY <1>2, <3>2, SubSeqProperties
    <3>4. Append(SubSeq(msgs, 2, QueueMax[c]), End) \in Seq(Sendable(c))
      BY <1>3, <3>3, AppendProperties
    <3>5. QED
      BY <1>3, <2>2, <3>4
  <2>3. QED
    BY <2>1, <2>2
<1>6. (Len(msgs) > QueueMax[c]) \in BOOLEAN
  BY <1>2, <1>4
<1>7. Backfilled(c, msgs) = [NoSub EXCEPT !.queue = q, !.overflowed = Len(msgs) > QueueMax[c],
                                          !.attached = TRUE, !.pumping = TRUE]
  BY DEF Backfilled, q
<1> HIDE DEF q
<1>8. Backfilled(c, msgs) \in Subscription /\ Backfilled(c, msgs).queue \in Seq(Sendable(c))
  BY <1>5, <1>6, <1>7 DEF NoSub, Subscription
<1>9. QED
  BY <1>8 DEF msgs

\* A sequence of sendable messages without its head is one.
LEMMA TailSendable ==
    ASSUME NEW c \in Clients, NEW q \in Seq(Sendable(c)), q # <<>>
    PROVE  /\ Head(q) \in Sendable(c) /\ Head(q) \in Message
           /\ Tail(q) \in Seq(Sendable(c)) /\ Tail(q) \in Seq(Message)
<1>1. Head(q) \in Sendable(c) /\ Tail(q) \in Seq(Sendable(c))
  BY HeadTailProperties
<1>2. Sendable(c) \subseteq Message
  BY TerminatorsSendable
<1>3. QED
  BY <1>1, <1>2

\* Putting the same sendable message on the queue of everyone attached, and
\* taking some of them off the bus, leaves every queue sendable.
LEMMA PutToAll ==
    ASSUME RouteInv, NEW m \in Plain
    PROVE  \A c \in Clients :
              /\ Put(c, sub[c], m) \in Subscription
              /\ Put(c, sub[c], m).queue \in Seq(Sendable(c))
<1>1. SUFFICES ASSUME NEW c \in Clients
               PROVE  /\ Put(c, sub[c], m) \in Subscription
                      /\ Put(c, sub[c], m).queue \in Seq(Sendable(c))
  OBVIOUS
<1>2. sub[c] \in Subscription /\ sub[c].queue \in Seq(Sendable(c)) /\ m \in Sendable(c)
  BY TerminatorsSendable DEF RouteInv
<1>3. QED
  BY <1>2, PutType

----------------------------------------------------------------------------
(* The steps *)

\* A published event enters the buffer at its end and pushes the oldest one
\* out of a full one.
LEMMA PublishStep == ASSUME GapInv, Stamped PROVE GapInv'
<1> DEFINE h == bus.history
           m == Event(bus.seq + 1)
<1>1. /\ bus \in [seq: Nat, history: Seq(Plain), base: Nat]
      /\ h \in Seq(Plain) /\ Len(h) \in Nat /\ bus.seq \in Nat /\ bus.base \in Nat
      /\ Len(h) <= ReplayMax /\ (Len(h) < ReplayMax => Len(h) = bus.seq)
      /\ \A i \in 1 .. Len(h) : h[i].from = bus.seq - Len(h) + i
      /\ ReplayMax \in Nat \ {0}
  BY ReplayAssumption DEF GapInv, BufferInv
<1>2. m \in Plain /\ m.from = bus.seq + 1
  BY <1>1 DEF Event, Plain, Message, Kinds
<1>3. /\ bus'.seq = bus.seq + 1 /\ bus'.base = bus.base /\ bus'.history = Retain(h, m)
      /\ bus' = [seq |-> bus.seq + 1, history |-> Retain(h, m), base |-> bus.base]
  BY <1>1 DEF Stamped, Stamp
<1> HIDE DEF m, h
<1>4. ASSUME Len(h) < ReplayMax PROVE BufferInv'
  <2>1. /\ Retain(h, m) \in Seq(Plain)
        /\ Len(Retain(h, m)) = Len(h) + 1
        /\ \A i \in 1 .. Len(h) : Retain(h, m)[i] = h[i]
        /\ Retain(h, m)[Len(h) + 1] = m
    BY <1>1, <1>2, <1>4, AppendProperties DEF Retain
  <2>2. \A i \in 1 .. Len(h) + 1 : Retain(h, m)[i].from = (bus.seq + 1) - (Len(h) + 1) + i
    <3>1. ASSUME NEW i \in 1 .. Len(h)
          PROVE  Retain(h, m)[i].from = (bus.seq + 1) - (Len(h) + 1) + i
      <4>1. h[i].from = bus.seq - Len(h) + i /\ Retain(h, m)[i] = h[i]
        BY <1>1, <2>1
      <4>2. QED
        BY <1>1, <4>1
    <3>2. Retain(h, m)[Len(h) + 1].from = (bus.seq + 1) - (Len(h) + 1) + (Len(h) + 1)
      BY <1>1, <1>2, <2>1
    <3>3. QED
      BY <1>1, <3>1, <3>2
  <2>3. QED
    BY <1>1, <1>3, <1>4, <2>1, <2>2 DEF BufferInv
<1>5. ASSUME ~(Len(h) < ReplayMax) PROVE BufferInv'
  <2>1. h # <<>>
    BY <1>1, <1>5
  <2>2. /\ Tail(h) \in Seq(Plain)
        /\ Len(Tail(h)) = Len(h) - 1
        /\ \A i \in 1 .. Len(h) - 1 : Tail(h)[i] = h[i + 1]
    BY <1>1, <2>1, HeadTailProperties
  <2>3. /\ Retain(h, m) \in Seq(Plain)
        /\ Len(Retain(h, m)) = Len(h)
        /\ \A i \in 1 .. Len(h) - 1 : Retain(h, m)[i] = h[i + 1]
        /\ Retain(h, m)[Len(h)] = m
    BY <1>1, <1>2, <1>5, <2>1, <2>2, AppendProperties DEF Retain
  <2>4. \A i \in 1 .. Len(h) : Retain(h, m)[i].from = (bus.seq + 1) - Len(h) + i
    <3>1. ASSUME NEW i \in 1 .. Len(h) - 1
          PROVE  Retain(h, m)[i].from = (bus.seq + 1) - Len(h) + i
      <4>1. i + 1 \in 1 .. Len(h) /\ Retain(h, m)[i] = h[i + 1]
        BY <1>1, <2>3
      <4>2. h[i + 1].from = bus.seq - Len(h) + (i + 1)
        BY <1>1, <4>1
      <4>3. QED
        BY <1>1, <4>1, <4>2
    <3>2. Retain(h, m)[Len(h)].from = (bus.seq + 1) - Len(h) + Len(h)
      BY <1>1, <1>2, <2>3
    <3>3. QED
      BY <1>1, <3>1, <3>2
  <2>5. QED
    BY <1>1, <1>3, <1>5, <2>3, <2>4 DEF BufferInv
<1>6. BufferInv'
  BY <1>4, <1>5
<1>7. RouteInv'
  <2>1. /\ sub' = [c \in Clients |-> IF sub[c].attached THEN Put(c, sub[c], m) ELSE sub[c]]
        /\ wire' = wire
    BY DEF Stamped, Stamp, m
  <2>2. QED
    BY <1>2, <2>1, PutToAll DEF GapInv, RouteInv
<1>8. CountInv'
  BY DEF GapInv, CountInv, Stamped, Stamp
<1>9. QED
  BY <1>6, <1>7, <1>8 DEF GapInv

\* A new bus starts with an empty buffer.
LEMMA NewBusBuffer == ASSUME CountInv, NewBus PROVE BufferInv'
BY ReplayAssumption DEF CountInv, NewBus, BufferInv

\* The bus is closed: the terminator goes on every queue.
LEMMA DiscardStep == ASSUME GapInv, Discard PROVE GapInv'
<1>1. End \in Plain
  BY DEF End, Plain, Message, Kinds
<1>2. \A c \in Clients : /\ [Put(c, sub[c], End) EXCEPT !.attached = FALSE] \in Subscription
                         /\ [Put(c, sub[c], End) EXCEPT !.attached = FALSE].queue
                               \in Seq(Sendable(c))
  BY <1>1, PutToAll DEF GapInv, Subscription
<1>3. RouteInv'
  BY <1>2 DEF GapInv, RouteInv, Discard
<1>4. QED
  BY <1>3, NewBusBuffer DEF GapInv, CountInv, Discard

\* A restart empties every queue and every socket.
LEMMA RestartStep == ASSUME GapInv, Restart PROVE GapInv'
<1>1. RouteInv'
  BY NoSubType DEF RouteInv, Restart
<1>2. QED
  BY <1>1, NewBusBuffer DEF GapInv, CountInv, Restart

\* A frame subscribes.
LEMMA ConnectStep == ASSUME GapInv, NEW c \in Clients, Connect(c) PROVE GapInv'
<1> DEFINE msgs == IF lastSeq[c] = 0 THEN <<>> ELSE ReplayFrom(lastSeq[c])
<1>1. Backfilled(c, msgs) \in Subscription /\ Backfilled(c, msgs).queue \in Seq(Sendable(c))
  <2>1. CASE lastSeq[c] = 0
    <3>1. msgs = <<>> /\ Len(msgs) = 0
      BY <2>1
    <3>2. QueueMax[c] \in Nat \ {0} /\ <<>> \in Seq(Sendable(c)) /\ <<>> \in Seq(Message)
      BY QueueAssumption, NoSubType
    <3> HIDE DEF msgs
    <3>3. Len(msgs) <= QueueMax[c] /\ (Len(msgs) > QueueMax[c]) \in BOOLEAN
      BY <3>1, <3>2
    <3>4. Backfilled(c, msgs) = [NoSub EXCEPT !.queue = msgs, !.overflowed = Len(msgs) > QueueMax[c],
                                              !.attached = TRUE, !.pumping = TRUE]
      BY <3>3 DEF Backfilled
    <3>5. QED
      BY <3>1, <3>2, <3>3, <3>4 DEF NoSub, Subscription
  <2>2. CASE lastSeq[c] # 0
    BY <2>2, BackfillSendable DEF GapInv, CountInv
  <2>3. QED
    BY <2>1, <2>2
<1>2. sub' = [sub EXCEPT ![c] = Backfilled(c, msgs)] /\ UNCHANGED <<bus, wire, lastSeq, published>>
  BY DEF Connect
<1> HIDE DEF msgs
<1>3. RouteInv'
  BY <1>1, <1>2 DEF GapInv, RouteInv
<1>4. QED
  BY <1>2, <1>3 DEF GapInv, BufferInv, CountInv

\* The pump moves a message from the queue to the socket.
LEMMA PumpStep == ASSUME GapInv, NEW c \in Clients, Pump(c) PROVE GapInv'
<1> DEFINE q == sub[c].queue
<1>1. /\ q \in Seq(Sendable(c)) /\ q # <<>> /\ sub[c] \in Subscription
      /\ wire[c] \in Seq(Sendable(c))
  BY DEF GapInv, RouteInv, Pump
<1>2. /\ Head(q) \in Sendable(c) /\ Tail(q) \in Seq(Sendable(c)) /\ Tail(q) \in Seq(Message)
  BY <1>1, TailSendable
<1>3. \A c2 \in Clients : wire'[c2] \in Seq(Sendable(c2)) /\ wire'[c2] \in Seq(Message)
  <2>1. CloseFrame \in Sendable(c) /\ Sendable(c) \subseteq Message
    BY TerminatorsSendable
  <2>2. /\ Append(wire[c], Head(q)) \in Seq(Sendable(c))
        /\ Append(wire[c], CloseFrame) \in Seq(Sendable(c))
    BY <1>1, <1>2, <2>1, AppendProperties
  <2>3. \/ wire' = wire
        \/ wire' = [wire EXCEPT ![c] = Append(wire[c], Head(q))]
        \/ wire' = [wire EXCEPT ![c] = Append(wire[c], CloseFrame)]
    BY DEF Pump
  <2>4. wire \in [Clients -> Seq(Message)] /\ \A x \in Clients : wire[x] \in Seq(Sendable(x))
    BY DEF GapInv, RouteInv
  <2>5. ASSUME NEW q2 \in Seq(Sendable(c)), wire' = [wire EXCEPT ![c] = q2]
        PROVE  \A c2 \in Clients : wire'[c2] \in Seq(Sendable(c2)) /\ wire'[c2] \in Seq(Message)
    <3>1. q2 \in Seq(Message)
      BY <2>1
    <3>2. QED
      BY <2>4, <2>5, <3>1
  <2>6. QED
    BY <2>2, <2>3, <2>4, <2>5
<1>4. RouteInv'
  <2>1. /\ sub' = [sub EXCEPT ![c] = [sub[c] EXCEPT !.queue = Tail(q), !.pumping = Head(q) # End]]
        /\ DOMAIN wire' = Clients /\ wire' = [x \in Clients |-> wire'[x]]
    BY DEF Pump, GapInv, RouteInv
  <2>2. /\ [sub[c] EXCEPT !.queue = Tail(q), !.pumping = Head(q) # End] \in Subscription
        /\ [sub[c] EXCEPT !.queue = Tail(q), !.pumping = Head(q) # End].queue = Tail(q)
    BY <1>1, <1>2 DEF Subscription
  <2>3. /\ sub' \in [Clients -> Subscription]
        /\ \A x \in Clients : sub'[x].queue \in Seq(Sendable(x))
    BY <1>2, <2>1, <2>2 DEF GapInv, RouteInv
  <2>4. wire' \in [Clients -> Seq(Message)]
    BY <1>3, <2>1
  <2>5. QED
    BY <1>3, <2>3, <2>4 DEF RouteInv
<1>5. QED
  BY <1>4 DEF GapInv, BufferInv, CountInv, Pump

\* A connection that ends leaves no subscription and an empty socket.
LEMMA DisconnectRoute == ASSUME RouteInv, NEW c \in Clients, Disconnect(c) PROVE RouteInv'
BY NoSubType DEF RouteInv, Disconnect

\* The frame reads a message, or the close frame.
LEMMA ReceiveStep == ASSUME GapInv, NEW c \in Clients, Receive(c) PROVE GapInv'
<1>1. wire[c] \in Seq(Sendable(c)) /\ wire[c] # <<>>
  BY DEF GapInv, RouteInv, Receive
<1>2. /\ Tail(wire[c]) \in Seq(Sendable(c)) /\ Tail(wire[c]) \in Seq(Message)
      /\ Head(wire[c]).from \in Nat
  BY <1>1, TailSendable DEF Message
<1>3. RouteInv'
  <2>1. CASE wire' = [wire EXCEPT ![c] = Tail(@)] /\ UNCHANGED <<sub, conn>>
    BY <1>2, <2>1 DEF GapInv, RouteInv
  <2>2. CASE Disconnect(c)
    BY <2>2, DisconnectRoute DEF GapInv
  <2>3. QED
    BY <2>1, <2>2 DEF Receive
<1>4. CountInv'
  BY <1>2 DEF GapInv, CountInv, Receive
<1>5. QED
  BY <1>3, <1>4 DEF GapInv, BufferInv, Receive

\* The network takes a connection away.
LEMMA DropStep == ASSUME GapInv, NEW c \in Clients, Drop(c) PROVE GapInv'
<1>1. RouteInv'
  BY DisconnectRoute DEF GapInv, Drop
<1>2. QED
  BY <1>1 DEF GapInv, BufferInv, CountInv, Drop

\* A closed bus touches nothing of the stream, and an open one stamps.
LEMMA PublishCases ==
    ASSUME CountInv, TurnInv, NEW b \in 1 .. MaxBuses, Publish(b)
    PROVE  Stamped \/ UNCHANGED stream
<1>1. published + unstamped < MaxPublished /\ published \in Nat /\ unstamped \in Nat
  BY DEF Publish, CountInv, TurnInv
<1>2. published < MaxPublished
  BY <1>1, LimitsAssumption
<1>3. CASE b \in closed
  BY <1>3 DEF Publish, GiveBack, stream
<1>4. CASE b \notin closed
  BY <1>2, <1>4 DEF Publish, Stamped
<1>5. QED
  BY <1>3, <1>4

\* A turn's begin and end are no matter of the stream.
LEMMA TurnSteps ==
    ASSUME NEW t \in Turns, BeginTurn(t) \/ EndTurn(t)
    PROVE  UNCHANGED stream
BY DEF BeginTurn, EndTurn, stream

\* So a step is one of the stream's, or leaves it alone.
LEMMA NextCases ==
    ASSUME CountInv, TurnInv, [Next]_vars
    PROVE  \/ Stamped \/ Discard \/ Restart
           \/ \E c \in Clients : ClientStep(c) \/ Drop(c)
           \/ UNCHANGED stream
<1>1. CASE \E b \in 1 .. MaxBuses : Publish(b)
  BY <1>1, PublishCases
<1>2. CASE \E t \in Turns : BeginTurn(t) \/ EndTurn(t)
  BY <1>2, TurnSteps
<1>3. CASE UNCHANGED vars
  BY <1>3 DEF vars, stream
<1>4. QED
  BY <1>1, <1>2, <1>3 DEF Next

\* Every step keeps the invariant.
LEMMA NextGapInv == GapInv /\ TurnInv /\ [Next]_vars => GapInv'
<1> SUFFICES ASSUME GapInv, TurnInv, [Next]_vars PROVE GapInv'
  OBVIOUS
<1>1. CASE Stamped
  BY <1>1, PublishStep
<1>2. CASE Discard
  BY <1>2, DiscardStep
<1>3. CASE Restart
  BY <1>3, RestartStep
<1>4. ASSUME NEW c \in Clients, ClientStep(c) \/ Drop(c) PROVE GapInv'
  BY <1>4, ConnectStep, PumpStep, ReceiveStep, DropStep DEF ClientStep
<1>5. CASE UNCHANGED stream
  BY <1>5 DEF stream, GapInv, BufferInv, RouteInv, CountInv
<1>6. QED
  BY <1>1, <1>2, <1>3, <1>4, <1>5, NextCases DEF GapInv

\* The invariant holds at first.
LEMMA InitGapInv == Init => GapInv
<1> SUFFICES ASSUME Init PROVE GapInv
  OBVIOUS
<1>1. BufferInv
  BY ReplayAssumption DEF Init, BufferInv
<1>2. RouteInv
  BY NoSubType DEF Init, RouteInv
<1>3. CountInv
  BY DEF Init, CountInv
<1>4. QED
  BY <1>1, <1>2, <1>3 DEF GapInv

\* Messages sendable to a frame with a short queue are not gaps.
LEMMA NoGapSendable == GapInv => GapNeverSent
<1> SUFFICES ASSUME GapInv, NEW c \in Clients, QueueMax[c] <= ReplayMax,
                    NEW m \in Elements(sub[c].queue) \cup Elements(wire[c])
             PROVE  m.kind # "gap"
  BY DEF GapNeverSent
<1>1. sub[c].queue \in Seq(Plain) /\ wire[c] \in Seq(Plain)
  BY DEF GapInv, RouteInv, Sendable
<1>2. m \in Plain
  BY <1>1 DEF Elements
<1>3. QED
  BY <1>2 DEF Plain

----------------------------------------------------------------------------
(* Order and completeness: the messages on the way to a frame *)

Below(S, T) == \A m \in S, n \in T : m < n

Sorted(q) == \A i, j \in 1 .. Len(q) : i < j => Below(Covers(q[i]), Covers(q[j]))

Proper(m) == m.kind = "event" => m.from = m.to /\ m.from # 0

\* What a socket w and a queue q carry to a frame that has shown events up to
\* "last": in order, after what it has shown, and of this bus or from before it.
InOrder(w, q, last, base, upto) ==
    /\ Sorted(w) /\ Sorted(q)
    /\ \A m \in Elements(w), k \in Elements(q) : Below(Covers(m), Covers(k))
    /\ \A m \in Elements(w) \cup Elements(q) :
          /\ Proper(m)
          /\ \A n \in Covers(m) : last < n /\ n <= upto /\ (m.base = base \/ n <= base)

Held(w, q) == UNION {Covers(m) : m \in Elements(q) \cup Elements(w)}

\* All that precedes m is known, from the event the frame joined at.
Reaches(known, joined, m) == \A n \in Covers(m) : joined + 1 .. n \subseteq known

\* Up to the last event shown everything is settled, up to what comes before
\* the terminator everything is settled or on its way; and up to the last one
\* published as long as the reader keeps up.
Complete(w, s, joined, last, settled, upto) ==
    /\ joined + 1 .. last \subseteq settled
    /\ \A m \in Elements(w) : Reaches(settled \cup Held(w, s.queue), joined, m)
    /\ s.pumping => \A i \in 1 .. Len(s.queue) :
          (\A j \in 1 .. i - 1 : s.queue[j] # End)
              => Reaches(settled \cup Held(w, s.queue), joined, s.queue[i])
    /\ s.attached /\ ~s.overflowed => /\ joined + 1 .. upto \subseteq settled \cup Held(w, s.queue)
                                     /\ End \notin Elements(s.queue)
    /\ s.overflowed /\ s.pumping => End \in Elements(s.queue)

\* Events are numbered by natural numbers.
LEMMA CoversNat == \A m \in Message : Covers(m) \subseteq Nat
BY DEF Covers, Message

\* The terminators stand for no event.
LEMMA EndCovers == End \in Message /\ CloseFrame \in Message
                   /\ Covers(End) = {} /\ Covers(CloseFrame) = {}
                   /\ Proper(End) /\ Proper(CloseFrame) /\ End # CloseFrame
BY DEF End, CloseFrame, Covers, Message, Kinds, Proper

\* An empty queue holds nothing.
LEMMA EmptyElements == Elements(<<>>) = {} /\ Sorted(<<>>)
BY DEF Elements, Sorted

\* What a queue holds is at its places.
LEMMA ElementsIn ==
    ASSUME NEW S, NEW q \in Seq(S)
    PROVE  Elements(q) = {q[i] : i \in 1 .. Len(q)} /\ Elements(q) \subseteq S
BY DEF Elements

\* A message put at the end of a queue.
LEMMA AppendMessage ==
    ASSUME NEW q \in Seq(Message), NEW m \in Message
    PROVE  /\ Append(q, m) \in Seq(Message)
           /\ Elements(Append(q, m)) = Elements(q) \cup {m}
           /\ Sorted(q) /\ (\A k \in Elements(q) : Below(Covers(k), Covers(m)))
                  => Sorted(Append(q, m))
<1>1. /\ Append(q, m) \in Seq(Message)
      /\ Len(Append(q, m)) = Len(q) + 1 /\ Len(q) \in Nat
      /\ Append(q, m)[Len(q) + 1] = m
      /\ \A i \in 1 .. Len(q) : Append(q, m)[i] = q[i]
  OBVIOUS
<1>2. /\ Elements(q) = {q[i] : i \in 1 .. Len(q)}
      /\ Elements(Append(q, m)) = {Append(q, m)[i] : i \in 1 .. Len(q) + 1}
  BY <1>1, ElementsIn
<1>3. Elements(Append(q, m)) \subseteq Elements(q) \cup {m}
  BY <1>1, <1>2
<1>4. Elements(q) \cup {m} \subseteq Elements(Append(q, m))
  BY <1>1, <1>2
<1>5. ASSUME Sorted(q), \A k \in Elements(q) : Below(Covers(k), Covers(m))
      PROVE  Sorted(Append(q, m))
  <2> SUFFICES ASSUME NEW i \in 1 .. Len(q) + 1, NEW j \in 1 .. Len(q) + 1, i < j
               PROVE  Below(Covers(Append(q, m)[i]), Covers(Append(q, m)[j]))
    BY <1>1 DEF Sorted
  <2>1. i \in 1 .. Len(q) /\ Append(q, m)[i] = q[i] /\ q[i] \in Elements(q)
    BY <1>1, <1>2
  <2>2. CASE j = Len(q) + 1
    BY <1>1, <1>5, <2>1, <2>2
  <2>3. CASE j # Len(q) + 1
    <3>1. j \in 1 .. Len(q) /\ Append(q, m)[j] = q[j]
      BY <1>1, <2>3
    <3> QED BY <1>5, <2>1, <3>1 DEF Sorted
  <2> QED BY <2>2, <2>3
<1> QED BY <1>1, <1>3, <1>4, <1>5

\* A queue without its head.
LEMMA TailMessages ==
    ASSUME NEW q \in Seq(Message), q # <<>>
    PROVE  /\ Head(q) \in Message /\ Head(q) = q[1] /\ Tail(q) \in Seq(Message)
           /\ Len(q) \in Nat \ {0} /\ Len(Tail(q)) = Len(q) - 1
           /\ \A i \in 1 .. Len(q) - 1 : Tail(q)[i] = q[i + 1]
           /\ Elements(q) = Elements(Tail(q)) \cup {Head(q)}
           /\ Sorted(q) => /\ Sorted(Tail(q))
                           /\ \A k \in Elements(Tail(q)) : Below(Covers(Head(q)), Covers(k))
<1>1. /\ Len(q) \in Nat \ {0}
      /\ Head(q) = q[1] /\ Head(q) \in Message
      /\ Tail(q) \in Seq(Message) /\ Len(Tail(q)) = Len(q) - 1
      /\ \A i \in 1 .. Len(q) - 1 : Tail(q)[i] = q[i + 1]
  OBVIOUS
<1>2. /\ Elements(q) = {q[i] : i \in 1 .. Len(q)}
      /\ Elements(Tail(q)) = {Tail(q)[i] : i \in 1 .. Len(q) - 1}
  BY <1>1, ElementsIn
<1>3. Elements(Tail(q)) \cup {Head(q)} \subseteq Elements(q)
  BY <1>1, <1>2
<1>4. ASSUME NEW n \in Elements(q), n # Head(q) PROVE n \in Elements(Tail(q))
  <2>1. PICK i \in 1 .. Len(q) : n = q[i]
    BY <1>2
  <2>2. i - 1 \in 1 .. Len(q) - 1 /\ n = Tail(q)[i - 1]
    BY <1>1, <1>4, <2>1
  <2> QED BY <1>2, <2>2
<1>5. ASSUME Sorted(q)
      PROVE  /\ Sorted(Tail(q))
             /\ \A k \in Elements(Tail(q)) : Below(Covers(Head(q)), Covers(k))
  <2>1. \A i, j \in 1 .. Len(q) : i < j => Below(Covers(q[i]), Covers(q[j]))
    BY <1>5 DEF Sorted
  <2>2. Sorted(Tail(q))
    BY <1>1, <2>1 DEF Sorted
  <2>3. ASSUME NEW k \in Elements(Tail(q)) PROVE Below(Covers(Head(q)), Covers(k))
    <3>1. PICK i \in 1 .. Len(q) - 1 : k = Tail(q)[i]
      BY <1>2
    <3>2. i + 1 \in 1 .. Len(q) /\ k = q[i + 1] /\ 1 \in 1 .. Len(q) /\ 1 < i + 1
      BY <1>1, <3>1
    <3> QED BY <1>1, <2>1, <3>2
  <2> QED BY <2>2, <2>3
<1> QED BY <1>1, <1>3, <1>4, <1>5

\* A message at the end of the queue, after everything else.
LEMMA InOrderAppend ==
    ASSUME NEW w \in Seq(Message), NEW q \in Seq(Message), NEW m \in Message,
           NEW last \in Nat, NEW base \in Nat, NEW upto \in Nat, NEW next \in Nat,
           InOrder(w, q, last, base, upto), upto <= next, last <= upto, Proper(m),
           \A n \in Covers(m) : upto < n /\ n <= next /\ (m.base = base \/ n <= base)
    PROVE  InOrder(w, Append(q, m), last, base, next)
<1>1. \A k \in Elements(w) \cup Elements(q) : k \in Message /\ Covers(k) \subseteq Nat
  BY ElementsIn, CoversNat
<1>2. Covers(m) \subseteq Nat
  BY CoversNat
<1>3. \A k \in Elements(w) \cup Elements(q) : Below(Covers(k), Covers(m))
  <2> SUFFICES ASSUME NEW k \in Elements(w) \cup Elements(q), NEW x \in Covers(k),
                      NEW y \in Covers(m)
               PROVE  x < y
    BY DEF Below
  <2>1. x \in Nat /\ y \in Nat /\ x <= upto /\ upto < y
    BY <1>1, <1>2 DEF InOrder
  <2> QED BY <2>1
<1>4. /\ Elements(Append(q, m)) = Elements(q) \cup {m}
      /\ Sorted(Append(q, m))
  BY <1>3, AppendMessage DEF InOrder
<1>5. \A a \in Elements(w), k \in Elements(q) \cup {m} : Below(Covers(a), Covers(k))
  BY <1>3 DEF InOrder
<1>6. ASSUME NEW k \in Elements(w) \cup Elements(q)
      PROVE  /\ Proper(k)
             /\ \A n \in Covers(k) : last < n /\ n <= next /\ (k.base = base \/ n <= base)
  <2>1. /\ Proper(k)
        /\ \A n \in Covers(k) : last < n /\ n <= upto /\ (k.base = base \/ n <= base)
    BY DEF InOrder
  <2> QED BY <1>1, <2>1
<1>7. \A n \in Covers(m) : last < n
  BY <1>2
<1> QED BY <1>4, <1>5, <1>6, <1>7 DEF InOrder

\* Fewer messages on the queue.
LEMMA InOrderTail ==
    ASSUME NEW w \in Seq(Message), NEW q \in Seq(Message), q # <<>>,
           NEW last, NEW base, NEW upto, InOrder(w, q, last, base, upto)
    PROVE  InOrder(w, Tail(q), last, base, upto)
<1>1. /\ Elements(q) = Elements(Tail(q)) \cup {Head(q)} /\ Sorted(Tail(q))
  BY TailMessages DEF InOrder
<1> QED BY <1>1 DEF InOrder

\* More has been published.
LEMMA InOrderMore ==
    ASSUME NEW w \in Seq(Message), NEW q \in Seq(Message), NEW last, NEW base,
           NEW upto \in Nat, NEW next \in Nat, InOrder(w, q, last, base, upto), upto <= next
    PROVE  InOrder(w, q, last, base, next)
<1>1. \A k \in Elements(w) \cup Elements(q) : Covers(k) \subseteq Nat
  BY ElementsIn, CoversNat
<1> QED BY <1>1 DEF InOrder

\* put_nowait, overflow included, keeps the order.
LEMMA PutOrder ==
    ASSUME NEW c \in Clients, NEW w \in Seq(Message), NEW s \in Subscription,
           NEW m \in Message,
           NEW last \in Nat, NEW base \in Nat, NEW upto \in Nat, NEW next \in Nat,
           InOrder(w, s.queue, last, base, upto), upto <= next, last <= upto, Proper(m),
           \A n \in Covers(m) : upto < n /\ n <= next /\ (m.base = base \/ n <= base)
    PROVE  InOrder(w, Put(c, s, m).queue, last, base, next)
<1>1. s.queue \in Seq(Message) /\ QueueMax[c] \in Nat \ {0} /\ Len(s.queue) \in Nat
  BY QueueAssumption DEF Subscription
<1>2. InOrder(w, s.queue, last, base, next)
  BY <1>1, InOrderMore
<1>3. CASE Len(s.queue) < QueueMax[c]
  <2>1. Put(c, s, m).queue = Append(s.queue, m)
    BY <1>3 DEF Put, Subscription
  <2> QED BY <1>1, <2>1, InOrderAppend
<1>4. CASE ~(Len(s.queue) < QueueMax[c]) /\ s.overflowed
  BY <1>1, <1>2, <1>4 DEF Put
<1>5. CASE ~(Len(s.queue) < QueueMax[c]) /\ ~s.overflowed
  <2>1. Put(c, s, m).queue = Append(Tail(s.queue), End)
    BY <1>5 DEF Put, Subscription
  <2>2. s.queue # <<>>
    BY <1>1, <1>5
  <2>3. Tail(s.queue) \in Seq(Message) /\ InOrder(w, Tail(s.queue), last, base, upto)
    BY <1>1, <2>2, InOrderTail, TailMessages
  <2>4. /\ End \in Message /\ Proper(End)
        /\ \A n \in Covers(End) : upto < n /\ n <= next /\ (End.base = base \/ n <= base)
    BY EndCovers
  <2>5. PICK rest \in Seq(Message) : rest = Tail(s.queue)
    BY <2>3
  <2>6. InOrder(w, Append(rest, End), last, base, next)
    BY <2>3, <2>4, <2>5, InOrderAppend
  <2> QED BY <2>1, <2>5, <2>6
<1> QED BY <1>3, <1>4, <1>5

\* Another bus: its base is the number of events there are.
LEMMA InOrderRebase ==
    ASSUME NEW w \in Seq(Message), NEW q \in Seq(Message), NEW last, NEW base, NEW upto,
           InOrder(w, q, last, base, upto)
    PROVE  InOrder(w, q, last, upto, upto)
BY DEF InOrder

\* The pump takes the head of the queue to the end of the socket.
LEMMA InOrderPump ==
    ASSUME NEW w \in Seq(Message), NEW q \in Seq(Message), q # <<>>, NEW last, NEW base,
           NEW upto, InOrder(w, q, last, base, upto)
    PROVE  InOrder(Append(w, Head(q)), Tail(q), last, base, upto)
<1>1. /\ Head(q) \in Message /\ Elements(q) = Elements(Tail(q)) \cup {Head(q)}
      /\ Sorted(Tail(q))
      /\ \A k \in Elements(Tail(q)) : Below(Covers(Head(q)), Covers(k))
  BY TailMessages DEF InOrder
<1>2. \A k \in Elements(w) : Below(Covers(k), Covers(Head(q)))
  BY <1>1 DEF InOrder
<1>3. Elements(Append(w, Head(q))) = Elements(w) \cup {Head(q)} /\ Sorted(Append(w, Head(q)))
  BY <1>1, <1>2, AppendMessage DEF InOrder
<1> QED BY <1>1, <1>3 DEF InOrder

\* A close frame at the end of the socket.
LEMMA InOrderClose ==
    ASSUME NEW w \in Seq(Message), NEW q \in Seq(Message), NEW last, NEW base,
           NEW upto, InOrder(w, q, last, base, upto)
    PROVE  InOrder(Append(w, CloseFrame), q, last, base, upto)
<1>1. \A k \in Elements(w) : Below(Covers(k), Covers(CloseFrame))
  BY EndCovers DEF Below
<1>2. /\ Elements(Append(w, CloseFrame)) = Elements(w) \cup {CloseFrame}
      /\ Sorted(Append(w, CloseFrame))
  BY <1>1, AppendMessage, EndCovers DEF InOrder
<1>3. \A k \in Elements(q) : Below(Covers(CloseFrame), Covers(k))
  BY EndCovers DEF Below
<1> QED BY <1>2, <1>3, EndCovers DEF InOrder

\* The frame takes the head of the socket, and what it has shown by then is
\* what the head covers at most.
LEMMA InOrderTaken ==
    ASSUME NEW w \in Seq(Message), NEW q \in Seq(Message), w # <<>>, NEW last, NEW base,
           NEW upto, InOrder(w, q, last, base, upto),
           NEW now, now = last \/ now \in Covers(Head(w))
    PROVE  InOrder(Tail(w), q, now, base, upto)
<1>1. /\ Elements(w) = Elements(Tail(w)) \cup {Head(w)} /\ Sorted(Tail(w))
      /\ \A k \in Elements(Tail(w)) : Below(Covers(Head(w)), Covers(k))
  BY TailMessages DEF InOrder
<1>2. \A k \in Elements(Tail(w)) \cup Elements(q) : \A n \in Covers(k) : now < n
  BY <1>1 DEF InOrder, Below
<1> QED BY <1>1, <1>2 DEF InOrder

\* More is known.
LEMMA ReachesMore ==
    ASSUME NEW known, NEW more, known \subseteq more, NEW joined, NEW m,
           Reaches(known, joined, m)
    PROVE  Reaches(more, joined, m)
BY DEF Reaches

\* put, overflow included: what the queue gives up counts as lost.
LEMMA PutComplete ==
    ASSUME NEW c \in Clients, NEW w \in Seq(Message), NEW s \in Subscription,
           NEW m \in Message, NEW joined \in Nat, NEW last \in Nat, NEW settled,
           NEW upto \in Nat, NEW next \in Nat, upto <= next,
           Covers(m) = upto + 1 .. next,
           Complete(w, s, joined, last, settled, upto), s.attached,
           NEW t, t.queue = Put(c, s, m).queue,
           t.overflowed = Put(c, s, m).overflowed, t.pumping = Put(c, s, m).pumping,
           t.attached => Put(c, s, m).attached /\ m # End
    PROVE  Complete(w, t, joined, last, settled \cup Evicts(c, s), next)
<1> DEFINE q == s.queue
           known == settled \cup Held(w, q)
           settled2 == settled \cup Evicts(c, s)
           known2 == settled2 \cup Held(w, t.queue)
<1>1. /\ q \in Seq(Message) /\ QueueMax[c] \in Nat \ {0} /\ Len(q) \in Nat
      /\ s.overflowed \in BOOLEAN /\ s.pumping \in BOOLEAN
  BY QueueAssumption DEF Subscription
<1>2. /\ joined + 1 .. last \subseteq settled
      /\ \A k \in Elements(w) : Reaches(known, joined, k)
      /\ s.pumping => \A i \in 1 .. Len(q) :
            (\A j \in 1 .. i - 1 : q[j] # End) => Reaches(known, joined, q[i])
      /\ ~s.overflowed => joined + 1 .. upto \subseteq known /\ End \notin Elements(q)
      /\ s.overflowed /\ s.pumping => End \in Elements(q)
  BY DEF Complete
<1>3. Elements(q) = {q[i] : i \in 1 .. Len(q)}
  BY <1>1, ElementsIn
<1> SUFFICES /\ \A k \in Elements(w) : Reaches(known2, joined, k)
             /\ t.pumping => \A i \in 1 .. Len(t.queue) :
                   (\A j \in 1 .. i - 1 : t.queue[j] # End) => Reaches(known2, joined, t.queue[i])
             /\ t.attached /\ ~t.overflowed =>
                   joined + 1 .. next \subseteq known2 /\ End \notin Elements(t.queue)
             /\ t.overflowed /\ t.pumping => End \in Elements(t.queue)
  BY <1>2 DEF Complete
<1>4. CASE Len(q) < QueueMax[c]
  <2>1. /\ t.queue = Append(q, m) /\ t.overflowed = s.overflowed /\ t.pumping = s.pumping
        /\ settled2 = settled
    BY <1>4 DEF Put, Subscription, Evicts
  <2>2. /\ Elements(t.queue) = Elements(q) \cup {m}
        /\ Len(t.queue) = Len(q) + 1 /\ t.queue[Len(q) + 1] = m
        /\ \A i \in 1 .. Len(q) : t.queue[i] = q[i]
    BY <1>1, <2>1, AppendMessage
  <2>3. known2 = known \cup (upto + 1 .. next)
    BY <2>1, <2>2 DEF Held
  <2>4. ~s.overflowed => joined + 1 .. next \subseteq known2
    BY <1>2, <2>3
  <2>5. ASSUME t.pumping, NEW i \in 1 .. Len(t.queue), \A j \in 1 .. i - 1 : t.queue[j] # End
        PROVE  Reaches(known2, joined, t.queue[i])
    <3>1. CASE i \in 1 .. Len(q)
      <4>1. t.queue[i] = q[i] /\ \A j \in 1 .. i - 1 : q[j] # End
        <5>1. \A j \in 1 .. i - 1 : j \in 1 .. Len(q)
          BY <1>1, <3>1
        <5> QED BY <2>2, <2>5, <3>1, <5>1
      <4>2. Reaches(known, joined, q[i])
        BY <1>2, <2>1, <2>5, <3>1, <4>1
      <4> QED BY <2>3, <4>1, <4>2, ReachesMore
    <3>2. CASE i = Len(q) + 1
      <4>1. \A j \in 1 .. Len(q) : q[j] # End
        <5>1. \A j \in 1 .. Len(q) : j \in 1 .. i - 1
          BY <1>1, <3>2
        <5> QED BY <2>2, <2>5, <5>1
      <4>2. End \notin Elements(q)
        BY <1>3, <4>1
      <4>3. joined + 1 .. next \subseteq known2
        BY <1>2, <2>1, <2>4, <2>5, <4>2
      <4>4. \A n \in upto + 1 .. next : joined + 1 .. n \subseteq joined + 1 .. next
        OBVIOUS
      <4> QED BY <2>2, <3>2, <4>3, <4>4 DEF Reaches
    <3>3. i \in 1 .. Len(q) \/ i = Len(q) + 1
      BY <1>1, <2>2
    <3> QED BY <3>1, <3>2, <3>3
  <2>6. \A k \in Elements(w) : Reaches(known2, joined, k)
    BY <1>2, <2>3, ReachesMore
  <2> QED BY <1>2, <2>1, <2>2, <2>4, <2>5, <2>6
<1>5. CASE ~(Len(q) < QueueMax[c]) /\ s.overflowed
  <2>1. /\ t.queue = q /\ t.overflowed = TRUE /\ t.pumping = s.pumping /\ settled2 = settled
    BY <1>1, <1>5 DEF Put, Evicts
  <2> QED BY <1>2, <1>5, <2>1
<1>6. CASE ~(Len(q) < QueueMax[c]) /\ ~s.overflowed
  <2>1. /\ t.queue = Append(Tail(q), End) /\ t.overflowed = TRUE /\ t.pumping = s.pumping
        /\ settled2 = settled \cup Covers(Head(q))
    BY <1>1, <1>6 DEF Put, Subscription, Evicts
  <2>2. /\ Tail(q) \in Seq(Message) /\ Len(Tail(q)) = Len(q) - 1 /\ Head(q) = q[1]
        /\ \A i \in 1 .. Len(q) - 1 : Tail(q)[i] = q[i + 1]
        /\ Elements(q) = Elements(Tail(q)) \cup {Head(q)}
        /\ Len(q) \in Nat \ {0}
    BY <1>1, <1>6, TailMessages
  <2>3. /\ Elements(t.queue) = Elements(Tail(q)) \cup {End}
        /\ Len(t.queue) = Len(q) /\ t.queue[Len(q)] = End
        /\ \A i \in 1 .. Len(q) - 1 : t.queue[i] = q[i + 1]
    <3>1. PICK rest \in Seq(Message) : rest = Tail(q)
      BY <2>2
    <3>2. /\ Elements(Append(rest, End)) = Elements(rest) \cup {End}
          /\ Len(Append(rest, End)) = Len(rest) + 1
          /\ Append(rest, End)[Len(rest) + 1] = End
          /\ \A i \in 1 .. Len(rest) : Append(rest, End)[i] = rest[i]
      BY AppendMessage, EndCovers
    <3> QED BY <2>1, <2>2, <3>1, <3>2
  <2>4. known \subseteq known2
    BY <2>1, <2>2, <2>3 DEF Held
  <2>5. \A i \in 1 .. Len(q) : q[i] # End
    BY <1>2, <1>3, <1>6
  <2>6. ASSUME t.pumping, NEW i \in 1 .. Len(t.queue) PROVE Reaches(known2, joined, t.queue[i])
    <3>1. CASE i = Len(q)
      BY <2>3, <3>1, EndCovers DEF Reaches
    <3>2. CASE i # Len(q)
      <4>1. i + 1 \in 1 .. Len(q) /\ t.queue[i] = q[i + 1]
        BY <2>2, <2>3, <3>2
      <4>2. \A j \in 1 .. (i + 1) - 1 : q[j] # End
        BY <2>2, <2>5, <4>1
      <4>3. Reaches(known, joined, q[i + 1])
        BY <1>2, <2>1, <2>6, <4>1, <4>2
      <4> QED BY <2>4, <4>1, <4>3, ReachesMore
    <3> QED BY <3>1, <3>2
  <2>7. \A k \in Elements(w) : Reaches(known2, joined, k)
    BY <1>2, <2>4, ReachesMore
  <2> QED BY <2>1, <2>3, <2>6, <2>7
<1> QED BY <1>1, <1>4, <1>5, <1>6

\* The place before a place that is not the first.
LEMMA OneBefore ==
    ASSUME NEW i \in Nat, NEW j \in Nat, NEW l \in Nat, 1 <= j, j # 1, j <= i, i + 1 <= l
    PROVE  j - 1 \in 1 .. i - 1 /\ j - 1 \in 1 .. l - 1 /\ j = (j - 1) + 1
OBVIOUS

\* The pump takes the head of the queue: it is the terminator, after which a
\* close frame may be sent, or it goes out.
LEMMA PumpComplete ==
    ASSUME NEW w \in Seq(Message), NEW s \in Subscription, s.queue # <<>>, s.pumping,
           NEW joined \in Nat, NEW last \in Nat, NEW settled, NEW upto \in Nat,
           Complete(w, s, joined, last, settled, upto),
           NEW w2, IF Head(s.queue) # End THEN w2 = Append(w, Head(s.queue))
                                          ELSE w2 \in {w, Append(w, CloseFrame)},
           NEW t, t = [s EXCEPT !.queue = Tail(s.queue), !.pumping = Head(s.queue) # End]
    PROVE  Complete(w2, t, joined, last, settled, upto)
<1> DEFINE q == s.queue
           known == settled \cup Held(w, q)
           known2 == settled \cup Held(w2, t.queue)
<1>1. q \in Seq(Message)
  BY DEF Subscription
<1>2. /\ t.queue = Tail(q) /\ t.pumping = (Head(q) # End)
      /\ t.attached = s.attached /\ t.overflowed = s.overflowed
  BY DEF Subscription
<1>3. /\ Tail(q) \in Seq(Message) /\ Len(Tail(q)) = Len(q) - 1
      /\ Head(q) = q[1] /\ Head(q) \in Message /\ Len(q) \in Nat \ {0}
      /\ \A i \in 1 .. Len(q) - 1 : Tail(q)[i] = q[i + 1]
      /\ Elements(q) = Elements(Tail(q)) \cup {Head(q)}
  BY <1>1, TailMessages
<1>4. /\ joined + 1 .. last \subseteq settled
      /\ \A k \in Elements(w) : Reaches(known, joined, k)
      /\ \A i \in 1 .. Len(q) :
            (\A j \in 1 .. i - 1 : q[j] # End) => Reaches(known, joined, q[i])
      /\ s.attached /\ ~s.overflowed => joined + 1 .. upto \subseteq known /\ End \notin Elements(q)
      /\ s.overflowed => End \in Elements(q)
  BY DEF Complete
<1>5. CASE Head(q) # End
  <2>1. Elements(w2) = Elements(w) \cup {Head(q)}
    BY <1>3, <1>5, AppendMessage
  <2>2. known2 = known
    BY <1>2, <1>3, <2>1 DEF Held
  <2>3. Reaches(known, joined, Head(q))
    <3>1. 1 \in 1 .. Len(q) /\ \A j \in 1 .. 1 - 1 : q[j] # End
      BY <1>3
    <3> QED BY <1>3, <1>4, <3>1
  <2>4. ASSUME NEW i \in 1 .. Len(t.queue), \A j \in 1 .. i - 1 : t.queue[j] # End
        PROVE  Reaches(known, joined, t.queue[i])
    <3>1. i + 1 \in 1 .. Len(q) /\ t.queue[i] = q[i + 1] /\ i \in Nat
      BY <1>2, <1>3
    <3>2. ASSUME NEW j \in 1 .. (i + 1) - 1 PROVE q[j] # End
      <4>1. CASE j = 1
        BY <1>3, <1>5, <4>1
      <4>2. CASE j # 1
        <5>1. j - 1 \in 1 .. i - 1 /\ j - 1 \in 1 .. Len(q) - 1 /\ j = (j - 1) + 1
          <6>1. j \in Nat /\ i \in Nat /\ 1 <= j /\ j <= i /\ i + 1 <= Len(q) /\ Len(q) \in Nat
            BY <1>3, <3>1
          <6> QED BY <4>2, <6>1, OneBefore
        <5>2. t.queue[j - 1] # End /\ t.queue[j - 1] = q[j]
          BY <1>2, <1>3, <2>4, <5>1
        <5> QED BY <5>2
      <4> QED BY <4>1, <4>2
    <3> QED BY <1>4, <3>1, <3>2
  <2>5. s.overflowed => End \in Elements(t.queue)
    BY <1>2, <1>3, <1>4, <1>5
  <2>6. s.attached /\ ~s.overflowed => End \notin Elements(t.queue)
    BY <1>2, <1>3, <1>4
  <2> QED BY <1>2, <1>4, <2>1, <2>2, <2>3, <2>4, <2>5, <2>6 DEF Complete
<1>6. CASE Head(q) = End
  <2>1. Elements(w2) = Elements(w) \/ Elements(w2) = Elements(w) \cup {CloseFrame}
    BY <1>6, AppendMessage, EndCovers
  <2>2. known2 = known
    BY <1>2, <1>3, <1>6, <2>1, EndCovers DEF Held
  <2>3. \A k \in Elements(w2) : Reaches(known, joined, k)
    BY <1>4, <2>1, EndCovers DEF Reaches
  <2>4. ~(s.attached /\ ~s.overflowed)
    BY <1>3, <1>4, <1>6
  <2> QED BY <1>2, <1>4, <1>6, <2>2, <2>3, <2>4 DEF Complete
<1> QED BY <1>5, <1>6

\* The frame takes the head of the socket: an event it shows, or a gap.
LEMMA TakenComplete ==
    ASSUME NEW w \in Seq(Message), NEW s \in Subscription, w # <<>>,
           NEW joined \in Nat, NEW last \in Nat, NEW settled, NEW base, NEW upto \in Nat,
           Complete(w, s, joined, last, settled, upto),
           InOrder(w, s.queue, last, base, upto),
           NEW now \in Nat, now = last \/ Covers(Head(w)) = {now}
    PROVE  Complete(Tail(w), s, joined, now, settled \cup Covers(Head(w)), upto)
<1> DEFINE q == s.queue
           known == settled \cup Held(w, q)
           settled2 == settled \cup Covers(Head(w))
           known2 == settled2 \cup Held(Tail(w), q)
<1>1. /\ Elements(w) = Elements(Tail(w)) \cup {Head(w)}
      /\ \A k \in Elements(Tail(w)) : Below(Covers(Head(w)), Covers(k))
  BY TailMessages DEF InOrder
<1>2. known2 = known
  BY <1>1 DEF Held
<1>3. joined + 1 .. now \subseteq settled2
  <2>1. CASE now = last
    BY <2>1 DEF Complete
  <2>2. CASE Covers(Head(w)) = {now}
    <3>1. joined + 1 .. now \subseteq known
      BY <1>1, <2>2 DEF Complete, Reaches
    <3>2. \A k \in Elements(Tail(w)) \cup Elements(q) : \A n \in Covers(k) : now < n
      BY <1>1, <2>2 DEF InOrder, Below
    <3>3. ASSUME NEW n \in joined + 1 .. now, n \notin settled PROVE n \in Covers(Head(w))
      <4>1. PICK k \in Elements(q) \cup Elements(w) : n \in Covers(k)
        BY <3>1, <3>3 DEF Held
      <4>2. ~(now < n)
        OBVIOUS
      <4> QED BY <1>1, <3>2, <4>1, <4>2
    <3> QED BY <3>3
  <2> QED BY <2>1, <2>2
<1> QED BY <1>1, <1>2, <1>3 DEF Complete

\* A connection that has ended.
LEMMA GoneComplete ==
    ASSUME NEW joined, NEW last, NEW settled, NEW upto, joined + 1 .. last \subseteq settled
    PROVE  Complete(<<>>, NoSub, joined, last, settled, upto)
BY EmptyElements DEF Complete, NoSub

\* Whoever is not on the bus owes nothing of what is published.
LEMMA DetachedComplete ==
    ASSUME NEW w, NEW s, NEW joined, NEW last, NEW settled, NEW upto, NEW next,
           Complete(w, s, joined, last, settled, upto), ~s.attached
    PROVE  Complete(w, s, joined, last, settled, next)
BY DEF Complete

----------------------------------------------------------------------------
(* What a reconnect is replayed *)

\* The buffer holds the last events of the bus, which has all events since its
\* base.
StreamInv ==
    LET h == bus.history IN
    /\ bus.base + bus.seq = published
    /\ Len(h) <= bus.seq
    /\ \A i \in 1 .. Len(h) :
          h[i].kind = "event" /\ h[i].to = h[i].from /\ h[i].base = bus.base

\* Messages of one bus that follow "since" without a hole, up to its last event.
Contiguous(msgs, base, since, upto) ==
    /\ msgs \in Seq(Message)
    /\ Sorted(msgs)
    /\ \A i \in 1 .. Len(msgs) :
          /\ Proper(msgs[i]) /\ msgs[i].base = base /\ msgs[i] # End
          /\ \A n \in Covers(msgs[i]) :
                /\ base + since < n /\ n <= upto
                /\ \A k \in base + since + 1 .. n : \E j \in 1 .. i : k \in Covers(msgs[j])
    /\ \A k \in base + since + 1 .. upto : \E j \in 1 .. Len(msgs) : k \in Covers(msgs[j])

\* An event stands for itself.
LEMMA EventCovers ==
    ASSUME NEW m, NEW base \in Nat, NEW n \in Nat, m.base = base, m.from = n, m.to = n
    PROVE  Covers(m) = {base + n}
<1>1. Covers(m) = base + n .. base + n
  BY DEF Covers
<1> QED BY <1>1

\* Without a gap, the i-th message is the i-th event after "since".
LEMMA EventsContiguous ==
    ASSUME NEW since \in Nat, NEW msgs \in Seq(Message), NEW base \in Nat, NEW seq \in Nat,
           Len(msgs) = IF since < seq THEN seq - since ELSE 0,
           \A i \in 1 .. Len(msgs) : /\ msgs[i].kind = "event" /\ msgs[i].base = base
                                     /\ msgs[i].from = since + i /\ msgs[i].to = since + i
    PROVE  Contiguous(msgs, base, since, base + seq)
<1> DEFINE len == Len(msgs)
<1>1. len \in Nat /\ (len # 0 => since + len = seq) /\ (len = 0 => seq <= since)
  OBVIOUS
<1>2. ASSUME NEW i \in 1 .. len
      PROVE  Covers(msgs[i]) = {base + (since + i)} /\ Proper(msgs[i]) /\ msgs[i] # End
  <2>1. /\ msgs[i].kind = "event" /\ msgs[i].base = base
        /\ msgs[i].from = since + i /\ msgs[i].to = since + i /\ since + i \in Nat
        /\ since + i # 0
    OBVIOUS
  <2>2. Proper(msgs[i]) /\ msgs[i] # End
    BY <2>1 DEF Proper, End
  <2> QED BY <2>1, <2>2, EventCovers
<1> HIDE DEF len
<1>3. \A i, j \in 1 .. len : i < j => Below(Covers(msgs[i]), Covers(msgs[j]))
  <2>1. \A i, j \in 1 .. len : i < j => base + (since + i) < base + (since + j)
    BY <1>1
  <2> QED BY <1>2, <2>1 DEF Below
<1>4. ASSUME NEW i \in 1 .. len
      PROVE  base + since < base + (since + i) /\ base + (since + i) <= base + seq
  BY <1>1
<1>5. ASSUME NEW i \in 1 .. len, NEW k \in base + since + 1 .. base + (since + i)
      PROVE  \E j \in 1 .. i : k \in Covers(msgs[j])
  <2>1. /\ k - (base + since) \in 1 .. i /\ k - (base + since) \in 1 .. len
        /\ k = base + (since + (k - (base + since)))
    BY <1>1
  <2> QED BY <1>2, <2>1
<1>6. ASSUME NEW k \in base + since + 1 .. base + seq
      PROVE  \E j \in 1 .. len : k \in Covers(msgs[j])
  <2>1. len \in 1 .. len /\ base + (since + len) = base + seq
    BY <1>1
  <2> QED BY <1>5, <2>1
<1>7. Sorted(msgs)
  BY <1>3 DEF Sorted, len
<1>8. \A i \in 1 .. len : \A n \in Covers(msgs[i]) :
          /\ base + since < n /\ n <= base + seq
          /\ \A k \in base + since + 1 .. n : \E j \in 1 .. i : k \in Covers(msgs[j])
  <2> SUFFICES ASSUME NEW i \in 1 .. len, NEW n \in Covers(msgs[i])
               PROVE  /\ base + since < n /\ n <= base + seq
                      /\ \A k \in base + since + 1 .. n : \E j \in 1 .. i : k \in Covers(msgs[j])
    OBVIOUS
  <2>1. n = base + (since + i)
    BY <1>2
  <2> QED BY <1>4, <1>5, <2>1
<1>9. \A i \in 1 .. len : msgs[i].base = base
  BY DEF len
<1> QED BY <1>2, <1>6, <1>7, <1>8, <1>9 DEF Contiguous, len

\* The numbers a gap covers, and those of the events behind it.
LEMMA BeforeFirst ==
    ASSUME NEW base \in Nat, NEW since \in Nat, NEW first \in Nat, NEW seq \in Nat,
           first <= seq, NEW n \in base + (since + 1) .. base + (first - 1)
    PROVE  /\ n \in Nat /\ base + since < n /\ n <= base + (first - 1) /\ n <= base + seq
           /\ \A j \in Nat : 2 <= j => n < base + (first + j - 2)
OBVIOUS

\* With one, it covers what lies between "since" and the buffer.
LEMMA GapContiguous ==
    ASSUME NEW since \in Nat, NEW msgs \in Seq(Message), NEW first \in Nat,
           NEW base \in Nat, NEW seq \in Nat, since + 1 < first, first <= seq,
           Len(msgs) = seq - first + 2,
           /\ msgs[1].kind = "gap" /\ msgs[1].base = base
           /\ msgs[1].from = since + 1 /\ msgs[1].to = first - 1,
           \A i \in 2 .. Len(msgs) : /\ msgs[i].kind = "event" /\ msgs[i].base = base
                                     /\ msgs[i].from = first + i - 2 /\ msgs[i].to = first + i - 2
    PROVE  Contiguous(msgs, base, since, base + seq)
<1> DEFINE len == Len(msgs)
<1>1. len \in Nat /\ len = seq - first + 2
  OBVIOUS
<1>2. /\ Covers(msgs[1]) = base + (since + 1) .. base + (first - 1)
      /\ Proper(msgs[1]) /\ msgs[1] # End
  BY DEF Covers, Proper, End
<1>3. ASSUME NEW i \in 2 .. len
      PROVE  Covers(msgs[i]) = {base + (first + i - 2)} /\ Proper(msgs[i]) /\ msgs[i] # End
  <2>1. /\ msgs[i].kind = "event" /\ msgs[i].base = base
        /\ msgs[i].from = first + i - 2 /\ msgs[i].to = first + i - 2 /\ first + i - 2 \in Nat
        /\ first + i - 2 # 0
    OBVIOUS
  <2>2. Proper(msgs[i]) /\ msgs[i] # End
    BY <2>1 DEF Proper, End
  <2>3. PICK n \in Nat : n = first + i - 2
    BY <2>1
  <2>4. Covers(msgs[i]) = {base + n}
    <3>1. msgs[i].base = base /\ msgs[i].from = n /\ msgs[i].to = n
      BY <2>1, <2>3
    <3> HIDE DEF len
    <3> QED BY <3>1, EventCovers
  <2> QED BY <2>2, <2>3, <2>4
<1>4. \A i \in 1 .. len : msgs[i].base = base
  OBVIOUS
<1> HIDE DEF len
<1>5. ASSUME NEW i \in 1 .. len, NEW j \in 1 .. len, i < j
      PROVE  Below(Covers(msgs[i]), Covers(msgs[j]))
  <2>1. j \in 2 .. len /\ Covers(msgs[j]) = {base + (first + j - 2)}
    <3>1. j \in 2 .. len
      BY <1>1, <1>5
    <3> QED BY <1>3, <3>1
  <2>2. CASE i = 1
    <3>1. \A n \in base + (since + 1) .. base + (first - 1) : n < base + (first + j - 2)
      <4>1. j \in Nat /\ 2 <= j
        BY <2>1
      <4> QED BY <4>1, BeforeFirst
    <3> QED BY <1>2, <2>1, <2>2, <3>1 DEF Below
  <2>3. CASE i # 1
    <3>1. i \in 2 .. len /\ base + (first + i - 2) < base + (first + j - 2)
      BY <1>1, <1>5, <2>3
    <3>2. Covers(msgs[i]) = {base + (first + i - 2)}
      BY <1>3, <3>1
    <3> QED BY <2>1, <3>1, <3>2 DEF Below
  <2> QED BY <2>2, <2>3
<1>6. ASSUME NEW i \in 1 .. len, NEW n \in Covers(msgs[i])
      PROVE  /\ n \in Nat /\ base + since < n /\ n <= base + (first + i - 2) /\ n <= base + seq
  <2>1. CASE i = 1
    <3>1. n \in base + (since + 1) .. base + (first - 1)
      BY <1>2, <2>1
    <3>2. first + i - 2 = first - 1
      BY <2>1
    <3>3. /\ n \in Nat /\ base + since < n /\ n <= base + (first - 1)
          /\ n <= base + seq
      BY <3>1, BeforeFirst
    <3> QED BY <3>2, <3>3
  <2>2. CASE i # 1
    <3>1. i \in 2 .. len
      BY <1>1, <2>2
    <3>2. n = base + (first + i - 2)
      BY <1>3, <3>1
    <3> QED BY <1>1, <3>1, <3>2
  <2> QED BY <2>1, <2>2
<1>7. ASSUME NEW i \in 1 .. len, NEW k \in base + since + 1 .. base + (first + i - 2)
      PROVE  \E j \in 1 .. i : k \in Covers(msgs[j])
  <2>1. CASE k <= base + (first - 1)
    <3>1. 1 \in 1 .. i /\ k \in base + (since + 1) .. base + (first - 1)
      BY <1>1, <2>1
    <3> QED BY <1>2, <3>1
  <2>2. CASE ~(k <= base + (first - 1))
    <3> DEFINE j == k - (base + first) + 2
    <3>1. /\ j \in 2 .. i /\ j \in 2 .. len /\ j \in 1 .. i
          /\ k = base + (first + j - 2)
      BY <1>1, <2>2
    <3> HIDE DEF j
    <3> QED BY <1>3, <3>1
  <2> QED BY <2>1, <2>2
<1>8. \A i \in 1 .. len : \A n \in Covers(msgs[i]) :
          /\ base + since < n /\ n <= base + seq
          /\ \A k \in base + since + 1 .. n : \E j \in 1 .. i : k \in Covers(msgs[j])
  <2> SUFFICES ASSUME NEW i \in 1 .. len, NEW n \in Covers(msgs[i]),
                      NEW k \in base + since + 1 .. n
               PROVE  \E j \in 1 .. i : k \in Covers(msgs[j])
    BY <1>6
  <2>1. n \in Nat /\ n <= base + (first + i - 2)
    BY <1>6
  <2>2. k \in base + since + 1 .. base + (first + i - 2)
    BY <1>1, <2>1
  <2> QED BY <1>7, <2>2
<1>9. ASSUME NEW k \in base + since + 1 .. base + seq
      PROVE  \E j \in 1 .. len : k \in Covers(msgs[j])
  <2>1. len \in 1 .. len /\ base + (first + len - 2) = base + seq
    BY <1>1
  <2> QED BY <1>7, <2>1
<1>10. \A i \in 1 .. len : Proper(msgs[i]) /\ msgs[i] # End
  <2> SUFFICES ASSUME NEW i \in 1 .. len PROVE Proper(msgs[i]) /\ msgs[i] # End
    OBVIOUS
  <2>1. i = 1 \/ i \in 2 .. len
    BY <1>1
  <2> QED BY <1>2, <1>3, <2>1
<1>11. Sorted(msgs)
  BY <1>5 DEF Sorted, len
<1> QED BY <1>4, <1>8, <1>9, <1>10, <1>11 DEF Contiguous, len

\* A replay begins where the frame left off and goes up to the last event.
LEMMA ReplayContiguous ==
    ASSUME BufferInv, StreamInv, NEW since \in Nat
    PROVE  Contiguous(ReplayFrom(since), bus.base, since, published)
<1>1. PICK h \in Seq(Message), base \in Nat, seq \in Nat :
          h = bus.history /\ base = bus.base /\ seq = bus.seq
  <2>1. bus.history \in Seq(Plain) /\ bus.base \in Nat /\ bus.seq \in Nat
    BY DEF BufferInv
  <2>2. Plain \subseteq Message
    BY DEF Plain
  <2>3. bus.history \in Seq(Message)
    BY <2>1, <2>2
  <2> QED BY <2>1, <2>3
<1>len. PICK len \in Nat : len = Len(h) /\ DOMAIN h = 1 .. len
  OBVIOUS
<1> DEFINE old == {i \in DOMAIN h : h[i].from <= since}
           missed == SubSeq(h, Cardinality(old) + 1, len)
           msgs == ReplayFrom(since)
<1>2. /\ len < ReplayMax => len = seq
      /\ len <= seq /\ published = base + seq /\ ReplayMax \in Nat \ {0}
  BY <1>1, <1>len, ReplayAssumption DEF BufferInv, StreamInv
<1>events. /\ \A i \in 1 .. len : h[i].kind = "event" /\ h[i].to = h[i].from /\ h[i].base = base
      /\ \A i \in 1 .. len : h[i].from = seq - len + i
  BY <1>1, <1>len DEF BufferInv, StreamInv
<1>3. /\ h = <<>> => len = 0 /\ seq = 0
      /\ h # <<>> => 1 \in 1 .. len /\ h[1].from = seq - len + 1
  <2>1. h = <<>> <=> len = 0
    BY <1>len
  <2>2. len # 0 => 1 \in 1 .. len
    BY <2>1
  <2> QED BY <1>2, <1>events, <2>1, <2>2
<1>4. old = {i \in 1 .. len : seq - len + i <= since}
  BY <1>events, <1>len
<1>5. msgs = IF h # <<>> /\ since + 1 < h[1].from
             THEN <<Gap(since + 1, h[1].from - 1)>> \o missed
             ELSE missed
  BY <1>1, <1>len DEF ReplayFrom
<1> HIDE DEF old, missed, msgs
<1>6. CASE h # <<>> /\ since + 1 < h[1].from
  <2>1. PICK first \in Nat : first = seq - len + 1 /\ first = h[1].from
    BY <1>2, <1>3, <1>6
  <2>2. since + 1 < first /\ first <= seq /\ len = seq - first + 1
    BY <1>2, <1>3, <1>6, <2>1
  <2>3. ASSUME NEW i \in 1 .. len PROVE ~(seq - len + i <= since)
    <3>1. first <= seq - len + i
      BY <2>1
    <3> QED BY <2>2, <3>1
  <2>4. Cardinality(old) = 0
    <3>1. old = {}
      BY <1>4, <2>3
    <3> QED BY <3>1, FS_EmptySet
  <2>5. missed = h
    <3>1. missed = SubSeq(h, 1, Len(h))
      BY <1>len, <2>4 DEF missed
    <3> QED BY <3>1, SubSeqFull
  <2>6. PICK gap \in Message : /\ gap = Gap(since + 1, first - 1)
                               /\ gap.kind = "gap" /\ gap.base = base
                               /\ gap.from = since + 1 /\ gap.to = first - 1
    <3>1. since + 1 \in Nat /\ first - 1 \in Nat
      BY <2>2
    <3>2. PICK from \in Nat, to \in Nat : from = since + 1 /\ to = first - 1
      BY <3>1
    <3>3. Gap(from, to) = [kind |-> "gap", from |-> from, to |-> to, base |-> base]
      BY <1>1 DEF Gap
    <3>4. Gap(from, to) \in Message
      BY <3>3 DEF Message, Kinds
    <3> QED BY <3>2, <3>3, <3>4
  <2>7. msgs = <<gap>> \o h
    BY <1>5, <1>6, <2>1, <2>5, <2>6
  <2>8. /\ msgs \in Seq(Message) /\ Len(msgs) = 1 + len /\ msgs[1] = gap
        /\ \A i \in 2 .. 1 + len : msgs[i] = h[i - 1]
    <3>1. <<gap>> \in Seq(Message) /\ Len(<<gap>>) = 1 /\ <<gap>>[1] = gap
      OBVIOUS
    <3>2. /\ <<gap>> \o h \in Seq(Message) /\ Len(<<gap>> \o h) = 1 + len
          /\ \A i \in 1 .. 1 + len :
                (<<gap>> \o h)[i] = IF i <= 1 THEN <<gap>>[i] ELSE h[i - 1]
      BY <1>len, <3>1, ConcatProperties
    <3> QED BY <1>2, <2>7, <3>1, <3>2
  <2> HIDE DEF msgs
  <2>9. Len(msgs) = seq - first + 2
    BY <1>2, <2>2, <2>8
  <2>10. ASSUME NEW i \in 2 .. Len(msgs)
         PROVE  /\ msgs[i].kind = "event" /\ msgs[i].base = base
                /\ msgs[i].from = first + i - 2 /\ msgs[i].to = first + i - 2
    <3>1. i - 1 \in 1 .. len /\ msgs[i] = h[i - 1] /\ seq - len + (i - 1) = first + i - 2
      <4>1. i \in 2 .. 1 + len
        BY <2>8
      <4>2. i - 1 \in 1 .. len
        BY <4>1
      <4>3. msgs[i] = h[i - 1]
        BY <2>8, <4>1
      <4>4. seq - len + (i - 1) = first + i - 2
        BY <2>1, <4>1
      <4> QED BY <4>2, <4>3, <4>4
    <3> QED BY <1>events, <3>1
  <2>11. Contiguous(msgs, base, since, base + seq)
    <3>1. /\ msgs[1].kind = "gap" /\ msgs[1].base = base
          /\ msgs[1].from = since + 1 /\ msgs[1].to = first - 1
      BY <2>6, <2>8
    <3>2. msgs \in Seq(Message) /\ since + 1 < first /\ first <= seq
      BY <2>2, <2>8
    <3> QED BY <2>9, <2>10, <3>1, <3>2, GapContiguous
  <2> QED BY <1>1, <1>2, <2>11 DEF msgs
<1>7. CASE ~(h # <<>> /\ since + 1 < h[1].from)
  <2>1. seq - len <= since
    BY <1>2, <1>3, <1>7
  <2>2. PICK aged \in 0 .. len : aged = IF since < seq THEN since - (seq - len) ELSE len
    <3>1. CASE since < seq
      <4>1. since - (seq - len) \in 0 .. len
        BY <1>2, <2>1, <3>1
      <4> QED BY <3>1, <4>1
    <3>2. CASE ~(since < seq)
      BY <3>2
    <3> QED BY <3>1, <3>2
  <2>3. old = 1 .. aged
    <3>1. \A i \in 1 .. len : seq - len + i <= since <=> i <= aged
      BY <1>2, <2>1, <2>2
    <3> QED BY <1>2, <1>4, <2>2, <3>1
  <2>4. Cardinality(old) = aged
    <3>1. Cardinality(1 .. aged) = IF 1 > aged THEN 0 ELSE aged - 1 + 1
      <4>1. 1 \in Int /\ aged \in Int
        BY <2>2
      <4> QED BY <4>1, FS_Interval
    <3> QED BY <2>2, <2>3, <3>1
  <2>5. msgs = SubSeq(h, aged + 1, len)
    BY <1>5, <1>7, <2>4 DEF missed
  <2>6. len - aged = IF since < seq THEN seq - since ELSE 0
    BY <1>2, <2>1, <2>2
  <2>7. ASSUME NEW i \in 1 .. len - aged
        PROVE  aged + i \in 1 .. len /\ seq - len + (aged + i) = since + i
    BY <1>2, <2>1, <2>2
  <2>8. /\ msgs \in Seq(Message) /\ Len(msgs) = len - aged
        /\ \A i \in 1 .. len - aged : msgs[i] = h[aged + i]
    <3>1. aged + 1 \in Int /\ len \in Int /\ \A i \in aged + 1 .. len : h[i] \in Message
      <4>1. \A i \in 1 .. len : h[i] \in Message
        BY <1>len
      <4>2. \A i \in aged + 1 .. len : i \in 1 .. len
        BY <1>2, <2>2
      <4> QED BY <1>2, <2>2, <4>1, <4>2
    <3>2. /\ SubSeq(h, aged + 1, len) \in Seq(Message)
          /\ Len(SubSeq(h, aged + 1, len)) =
                IF aged + 1 <= len THEN len - (aged + 1) + 1 ELSE 0
          /\ \A i \in 1 .. len - (aged + 1) + 1 :
                SubSeq(h, aged + 1, len)[i] = h[aged + 1 + i - 1]
      BY <3>1, SubSeqProperties
    <3>3. len - (aged + 1) + 1 = len - aged /\ \A i \in 1 .. len - aged : aged + 1 + i - 1 = aged + i
      BY <1>2, <2>2
    <3>4. Len(SubSeq(h, aged + 1, len)) = len - aged
      <4>1. aged + 1 <= len \/ aged = len
        BY <1>2, <2>2
      <4>2. CASE aged + 1 <= len
        BY <3>2, <3>3, <4>2
      <4>3. CASE aged = len
        <5>1. ~(aged + 1 <= len) /\ len - aged = 0
          BY <1>2, <4>3
        <5> QED BY <3>2, <5>1
      <4> QED BY <4>1, <4>2, <4>3
    <3>5. \A i \in 1 .. len - aged : SubSeq(h, aged + 1, len)[i] = h[aged + i]
      BY <3>2, <3>3
    <3> QED BY <2>5, <3>2, <3>4, <3>5
  <2>9. \A i \in 1 .. Len(msgs) : /\ msgs[i].kind = "event" /\ msgs[i].base = base
                                  /\ msgs[i].from = since + i /\ msgs[i].to = since + i
    <3> SUFFICES ASSUME NEW i \in 1 .. len - aged
                 PROVE  /\ msgs[i].kind = "event" /\ msgs[i].base = base
                        /\ msgs[i].from = since + i /\ msgs[i].to = since + i
      BY <2>8
    <3>1. msgs[i] = h[aged + i] /\ aged + i \in 1 .. len
      BY <2>7, <2>8
    <3> QED BY <1>events, <2>7, <3>1
  <2>10. Contiguous(msgs, base, since, base + seq)
    BY <2>6, <2>8, <2>9, EventsContiguous
  <2> QED BY <1>1, <1>2, <2>10 DEF msgs
<1> QED BY <1>6, <1>7

\* The queue of a new subscription.
LEMMA BackfilledQueue ==
    ASSUME NEW c \in Clients, NEW msgs \in Seq(Message)
    PROVE  LET s == Backfilled(c, msgs) IN
           /\ s.attached = TRUE /\ s.pumping = TRUE
           /\ Len(msgs) <= QueueMax[c] => s.queue = msgs /\ s.overflowed = FALSE
           /\ ~(Len(msgs) <= QueueMax[c]) =>
                 /\ s.overflowed = TRUE
                 /\ s.queue \in Seq(Message) /\ Len(s.queue) = QueueMax[c]
                 /\ s.queue[QueueMax[c]] = End
                 /\ \A i \in 1 .. QueueMax[c] - 1 : s.queue[i] = msgs[i + 1]
<1>1. PICK max \in Nat \ {0} : max = QueueMax[c]
  BY QueueAssumption
<1>2. PICK len \in Nat : len = Len(msgs) /\ \A i \in 1 .. len : msgs[i] \in Message
  OBVIOUS
<1> DEFINE part == SubSeq(msgs, 2, max)
           q == IF len <= max THEN msgs ELSE Append(part, End)
<1>3. Backfilled(c, msgs) = [queue |-> q, overflowed |-> len > max, attached |-> TRUE,
                             pumping |-> TRUE]
  <2>1. Backfilled(c, msgs) = [NoSub EXCEPT !.queue = q, !.overflowed = len > max,
                                            !.attached = TRUE, !.pumping = TRUE]
    BY <1>1, <1>2 DEF Backfilled
  <2> HIDE DEF q
  <2> QED BY <2>1 DEF NoSub
<1>4. ASSUME ~(len <= max)
      PROVE  /\ q \in Seq(Message) /\ Len(q) = max /\ q[max] = End
             /\ \A i \in 1 .. max - 1 : q[i] = msgs[i + 1]
  <2>1. \A i \in 2 .. max : msgs[i] \in Message
    BY <1>2, <1>4
  <2>2. /\ part \in Seq(Message) /\ Len(part) = IF 2 <= max THEN max - 2 + 1 ELSE 0
        /\ \A i \in 1 .. max - 2 + 1 : part[i] = msgs[2 + i - 1]
    BY <1>1, <2>1, SubSeqProperties
  <2> HIDE DEF part
  <2>3. Len(part) = max - 1 /\ \A i \in 1 .. max - 1 : part[i] = msgs[i + 1]
    <3>1. max - 2 + 1 = max - 1 /\ \A i \in 1 .. max - 1 : 2 + i - 1 = i + 1
      OBVIOUS
    <3> QED BY <2>2, <3>1
  <2>4. /\ Append(part, End) \in Seq(Message) /\ Len(Append(part, End)) = max
        /\ Append(part, End)[max] = End
        /\ \A i \in 1 .. max - 1 : Append(part, End)[i] = part[i]
    BY <2>2, <2>3, EndCovers, AppendProperties
  <2> QED BY <1>4, <2>3, <2>4
<1>5. (len > max) = ~(len <= max)
  OBVIOUS
<1> HIDE DEF q
<1>6. len <= max => q = msgs
  BY DEF q
<1>7. PICK s : s = Backfilled(c, msgs)
  OBVIOUS
<1>8. s.queue = q /\ s.overflowed = ~(len <= max) /\ s.attached = TRUE /\ s.pumping = TRUE
  BY <1>3, <1>5, <1>7
<1>9. len <= max => s.queue = msgs /\ s.overflowed = FALSE
  BY <1>6, <1>8
<1>10. ~(len <= max) => /\ s.overflowed = TRUE
                        /\ s.queue \in Seq(Message) /\ Len(s.queue) = max /\ s.queue[max] = End
                        /\ \A i \in 1 .. max - 1 : s.queue[i] = msgs[i + 1]
  BY <1>4, <1>8
<1> QED BY <1>1, <1>2, <1>7, <1>8, <1>9, <1>10

\* A replay comes after what the frame has shown, in order.
LEMMA BackfillInOrder ==
    ASSUME NEW c \in Clients, NEW msgs, NEW base \in Nat, NEW since \in Nat, NEW upto \in Nat,
           NEW last \in Nat, Contiguous(msgs, base, since, upto), last <= base + since
    PROVE  InOrder(<<>>, Backfilled(c, msgs).queue, last, base, upto)
<1> DEFINE q == Backfilled(c, msgs).queue
           max == QueueMax[c]
<1>1. msgs \in Seq(Message) /\ max \in Nat \ {0} /\ Len(msgs) \in Nat
  BY QueueAssumption DEF Contiguous
<1>2. \A i \in 1 .. Len(msgs) :
          /\ Proper(msgs[i]) /\ msgs[i].base = base
          /\ \A n \in Covers(msgs[i]) : base + since < n /\ n <= upto
  BY DEF Contiguous
<1>3. \A i \in 1 .. Len(msgs) : Covers(msgs[i]) \subseteq Nat
  BY <1>1, CoversNat
<1>4. ASSUME NEW i \in 1 .. Len(msgs)
      PROVE  /\ Proper(msgs[i])
             /\ \A n \in Covers(msgs[i]) : last < n /\ n <= upto /\ (msgs[i].base = base \/ n <= base)
  <2> SUFFICES ASSUME NEW n \in Covers(msgs[i]) PROVE last < n /\ n <= upto
    BY <1>2
  <2>1. n \in Nat /\ base + since < n /\ n <= upto
    BY <1>2, <1>3
  <2> QED BY <2>1
<1>5. \A i, j \in 1 .. Len(msgs) : i < j => Below(Covers(msgs[i]), Covers(msgs[j]))
  BY DEF Contiguous, Sorted
<1>6. CASE Len(msgs) <= max
  <2>1. q = msgs
    BY <1>1, <1>6, BackfilledQueue
  <2>2. Elements(q) = {msgs[i] : i \in 1 .. Len(msgs)}
    BY <1>1, <2>1, ElementsIn
  <2>3. Sorted(q)
    BY <2>1 DEF Contiguous
  <2> HIDE DEF q
  <2>4. \A m \in Elements(q) :
           /\ Proper(m)
           /\ \A n \in Covers(m) : last < n /\ n <= upto /\ (m.base = base \/ n <= base)
    BY <1>4, <2>2
  <2>5. InOrder(<<>>, q, last, base, upto)
    BY <2>3, <2>4, EmptyElements DEF InOrder
  <2> QED BY <2>5 DEF q
<1>7. CASE ~(Len(msgs) <= max)
  <2>1. /\ q \in Seq(Message) /\ Len(q) = max /\ q[max] = End
        /\ \A i \in 1 .. max - 1 : q[i] = msgs[i + 1]
    BY <1>1, <1>7, BackfilledQueue
  <2> HIDE DEF q, max
  <2>2. ASSUME NEW i \in 1 .. max
        PROVE  q[i] = End \/ (i + 1 \in 1 .. Len(msgs) /\ q[i] = msgs[i + 1])
    <3>1. CASE i = max
      BY <2>1, <3>1
    <3>2. CASE i # max
      <4>1. i \in 1 .. max - 1 /\ i + 1 \in 1 .. Len(msgs)
        BY <1>1, <1>7, <3>2
      <4> QED BY <2>1, <4>1
    <3> QED BY <3>1, <3>2
  <2>3. Sorted(q)
    <3> SUFFICES ASSUME NEW i \in 1 .. max, NEW j \in 1 .. max, i < j
                 PROVE  Below(Covers(q[i]), Covers(q[j]))
      BY <2>1 DEF Sorted
    <3>1. CASE q[i] = End \/ q[j] = End
      BY <3>1, EndCovers DEF Below
    <3>2. CASE q[i] # End /\ q[j] # End
      <4>1. /\ i + 1 \in 1 .. Len(msgs) /\ q[i] = msgs[i + 1]
            /\ j + 1 \in 1 .. Len(msgs) /\ q[j] = msgs[j + 1]
        BY <2>2, <3>2
      <4>2. i + 1 < j + 1
        BY <1>1
      <4> QED BY <1>5, <4>1, <4>2
    <3> QED BY <3>1, <3>2
  <2>4. Elements(q) = {q[i] : i \in 1 .. max}
    BY <2>1, ElementsIn
  <2>5. ASSUME NEW m \in Elements(q)
        PROVE  /\ Proper(m)
               /\ \A n \in Covers(m) : last < n /\ n <= upto /\ (m.base = base \/ n <= base)
    <3>1. PICK i \in 1 .. max : m = q[i]
      BY <2>4
    <3>2. CASE q[i] = End
      BY <3>1, <3>2, EndCovers
    <3>3. CASE i + 1 \in 1 .. Len(msgs) /\ q[i] = msgs[i + 1]
      BY <1>4, <3>1, <3>3
    <3> QED BY <2>2, <3>2, <3>3
  <2>6. InOrder(<<>>, q, last, base, upto)
    BY <2>3, <2>5, EmptyElements DEF InOrder
  <2> QED BY <2>6 DEF q
<1> QED BY <1>6, <1>7

\* And what it lacks has been settled, or is evicted by the overflow.
LEMMA BackfillComplete ==
    ASSUME NEW c \in Clients, NEW msgs, NEW base \in Nat, NEW since \in Nat, NEW upto \in Nat,
           NEW joined \in Nat, NEW last \in Nat, NEW settled,
           Contiguous(msgs, base, since, upto),
           joined + 1 .. last \subseteq settled,
           \A k \in joined + 1 .. upto : k <= base + since => k \in settled
    PROVE  Complete(<<>>, Backfilled(c, msgs), joined, last,
                    settled \cup (IF Len(msgs) > QueueMax[c] THEN Covers(msgs[1]) ELSE {}), upto)
<1> DEFINE s == Backfilled(c, msgs)
           q == s.queue
           max == QueueMax[c]
           settled2 == settled \cup (IF Len(msgs) > max THEN Covers(msgs[1]) ELSE {})
           known == settled2 \cup Held(<<>>, q)
<1>1. msgs \in Seq(Message) /\ max \in Nat \ {0} /\ Len(msgs) \in Nat
  BY QueueAssumption DEF Contiguous
<1>2. \A i \in 1 .. Len(msgs) :
          /\ msgs[i] # End
          /\ \A n \in Covers(msgs[i]) :
                /\ n <= upto
                /\ \A k \in base + since + 1 .. n : \E j \in 1 .. i : k \in Covers(msgs[j])
  BY DEF Contiguous
<1>3. \A k \in base + since + 1 .. upto : \E j \in 1 .. Len(msgs) : k \in Covers(msgs[j])
  BY DEF Contiguous
<1>4. s.attached = TRUE /\ s.pumping = TRUE
  BY <1>1, BackfilledQueue
<1>5. Held(<<>>, q) = UNION {Covers(m) : m \in Elements(q)}
  BY EmptyElements DEF Held
<1>6. CASE Len(msgs) <= max
  <2>1. q = msgs /\ s.overflowed = FALSE /\ settled \subseteq settled2
    BY <1>1, <1>6, BackfilledQueue
  <2>2. Elements(q) = {msgs[i] : i \in 1 .. Len(msgs)}
    BY <1>1, <2>1, ElementsIn
  <2>3. \A j \in 1 .. Len(msgs) : Covers(msgs[j]) \subseteq known
    BY <1>5, <2>2
  <2> HIDE DEF known, settled2
  <2>4. settled \subseteq known
    BY <2>1 DEF known
  <2>5. ASSUME NEW k \in joined + 1 .. upto PROVE k \in known
    <3>1. CASE k <= base + since
      BY <2>4, <3>1
    <3>2. CASE ~(k <= base + since)
      <4>1. k \in base + since + 1 .. upto
        BY <3>2
      <4> QED BY <1>3, <2>3, <4>1
    <3> QED BY <3>1, <3>2
  <2>6. ASSUME NEW i \in 1 .. Len(msgs) PROVE Reaches(known, joined, msgs[i])
    <3> SUFFICES ASSUME NEW n \in Covers(msgs[i]), NEW k \in joined + 1 .. n PROVE k \in known
      BY DEF Reaches
    <3>1. n \in Nat /\ n <= upto
      BY <1>1, <1>2, CoversNat
    <3>2. k \in joined + 1 .. upto
      BY <3>1
    <3> QED BY <2>5, <3>2
  <2>7. End \notin Elements(q)
    BY <1>2, <2>2
  <2>8. /\ joined + 1 .. last \subseteq settled2
        /\ joined + 1 .. upto \subseteq known
    BY <2>1, <2>5
  <2> HIDE DEF s
  <2>9. Complete(<<>>, s, joined, last, settled2, upto)
    BY <2>1, <2>6, <2>7, <2>8, EmptyElements DEF Complete, known
  <2> QED BY <2>9 DEF s, settled2
<1>7. CASE ~(Len(msgs) <= max)
  <2>1. /\ q \in Seq(Message) /\ Len(q) = max /\ q[max] = End /\ s.overflowed = TRUE
        /\ \A i \in 1 .. max - 1 : q[i] = msgs[i + 1]
    BY <1>1, <1>7, BackfilledQueue
  <2>2. settled2 = settled \cup Covers(msgs[1])
    BY <1>1, <1>7
  <2>3. Elements(q) = {q[i] : i \in 1 .. max}
    BY <2>1, ElementsIn
  <2>4. ASSUME NEW j \in 1 .. max PROVE Covers(msgs[j]) \subseteq known
    <3>1. CASE j = 1
      BY <2>2, <3>1
    <3>2. CASE j # 1
      <4>1. j - 1 \in 1 .. max - 1 /\ j = (j - 1) + 1 /\ j - 1 \in 1 .. max
        BY <1>1, <3>2
      <4>2. q[j - 1] = msgs[j] /\ q[j - 1] \in Elements(q)
        BY <2>1, <2>3, <4>1
      <4> QED BY <1>5, <4>2
    <3> QED BY <3>1, <3>2
  <2>5. settled \subseteq known /\ settled \subseteq settled2
    OBVIOUS
  <2> HIDE DEF known, settled2, max
  <2>6. ASSUME NEW i \in 1 .. max PROVE Reaches(known, joined, q[i])
    <3>1. CASE i = max
      BY <2>1, <3>1, EndCovers DEF Reaches
    <3>2. CASE i # max
      <4>1. /\ i \in 1 .. max - 1 /\ i + 1 \in 1 .. max /\ i + 1 \in 1 .. Len(msgs)
        BY <1>1, <1>7, <3>2
      <4>2. q[i] = msgs[i + 1]
        BY <2>1, <4>1
      <4> SUFFICES ASSUME NEW n \in Covers(msgs[i + 1]), NEW k \in joined + 1 .. n
                   PROVE  k \in known
        BY <4>2 DEF Reaches
      <4>3. n \in Nat /\ n <= upto
        BY <1>1, <1>2, <4>1, CoversNat
      <4>4. k \in joined + 1 .. upto
        BY <4>3
      <4>5. CASE k <= base + since
        BY <2>5, <4>4, <4>5
      <4>6. CASE ~(k <= base + since)
        <5>1. k \in base + since + 1 .. n
          BY <4>3, <4>6
        <5>2. PICK j \in 1 .. i + 1 : k \in Covers(msgs[j])
          BY <1>2, <4>1, <5>1
        <5>3. j \in 1 .. max
          BY <1>1, <4>1
        <5> QED BY <2>4, <5>2, <5>3
      <4> QED BY <4>5, <4>6
    <3> QED BY <3>1, <3>2
  <2>7. End \in Elements(q)
    BY <1>1, <2>1, <2>3
  <2> HIDE DEF s
  <2>8. Complete(<<>>, s, joined, last, settled2, upto)
    BY <2>1, <2>5, <2>6, <2>7, EmptyElements DEF Complete, known
  <2> QED BY <2>8 DEF s, settled2, max
<1> QED BY <1>6, <1>7

----------------------------------------------------------------------------
(* The inductive invariant of delivery *)

View == [joined: Nat, base: Nat, shown: Seq(Nat), announced: SUBSET Nat, lost: SUBSET Nat]

\* What a frame knows lies behind what was published, and its lastSeq is the
\* number of the last event it has shown, on that event's bus; a frame without
\* connection has nothing on its way.
FrameInv(c) ==
    /\ view[c].joined <= published /\ view[c].base <= published
    /\ Settled(c) \subseteq 1 .. published
    /\ view[c].shown = <<>> => lastSeq[c] = 0
    /\ view[c].shown # <<>> => /\ lastSeq[c] # 0
                               /\ LastShown(c) = view[c].base + lastSeq[c]
                               /\ view[c].base = bus.base \/ LastShown(c) <= bus.base
    /\ conn[c] # "open" => wire[c] = <<>> /\ sub[c] = NoSub
    /\ conn[c] = "new" => lastSeq[c] = 0

FlowInv(c) ==
    /\ InOrder(wire[c], sub[c].queue, LastShown(c), bus.base, published)
    /\ Complete(wire[c], sub[c], view[c].joined, LastShown(c), Settled(c), published)

\* Queues, sockets and counters keep within their bounds.
BoundInv ==
    /\ \A c \in Clients : Len(sub[c].queue) <= QueueMax[c] /\ Len(wire[c]) <= WireMax
    /\ published <= MaxPublished /\ drops \in 0 .. MaxDrops /\ buses \in 1 .. MaxBuses

DeliveryInv ==
    /\ StreamInv /\ BoundInv
    /\ view \in [Clients -> View]
    /\ conn \in [Clients -> {"new", "closed", "open"}]
    /\ \A c \in Clients : FrameInv(c) /\ FlowInv(c)

\* The types of what belongs to one frame.
LEMMA FrameTypes ==
    ASSUME GapInv, DeliveryInv, NEW c \in Clients
    PROVE  /\ sub[c] \in Subscription /\ sub[c].queue \in Seq(Message) /\ wire[c] \in Seq(Message)
           /\ view[c] \in View /\ conn[c] \in {"new", "closed", "open"} /\ lastSeq[c] \in Nat
           /\ published \in Nat /\ bus.base \in Nat /\ bus.seq \in Nat
           /\ published = bus.base + bus.seq
           /\ LastShown(c) \in Nat /\ LastShown(c) <= published
<1>1. /\ sub[c] \in Subscription /\ sub[c].queue \in Seq(Message) /\ wire[c] \in Seq(Message)
      /\ view[c] \in View /\ conn[c] \in {"new", "closed", "open"} /\ lastSeq[c] \in Nat
      /\ published \in Nat /\ bus.base \in Nat /\ bus.seq \in Nat
      /\ published = bus.base + bus.seq
  BY DEF GapInv, DeliveryInv, BufferInv, RouteInv, CountInv, StreamInv, Subscription
<1>2. PICK shown \in Seq(Nat), joined \in Nat : shown = view[c].shown /\ joined = view[c].joined
  BY <1>1 DEF View
<1>3. LastShown(c) = IF shown = <<>> THEN joined ELSE shown[Len(shown)]
  BY <1>2 DEF LastShown
<1>4. joined <= published /\ Elements(shown) \subseteq 1 .. published
  BY <1>2 DEF DeliveryInv, FrameInv, Settled
<1>5. shown # <<>> => shown[Len(shown)] \in Elements(shown)
  BY DEF Elements
<1> QED BY <1>1, <1>3, <1>4, <1>5

\* What a frame has shown and settled is in its view.
LEMMA SameView ==
    ASSUME NEW c \in Clients, view'[c] = view[c]
    PROVE  LastShown(c)' = LastShown(c) /\ Settled(c)' = Settled(c)
BY DEF LastShown, Settled

\* What a frame loses is settled for it.
LEMMA MoreLost ==
    ASSUME NEW c \in Clients, view[c] \in View, NEW more,
           view'[c] = [view[c] EXCEPT !.lost = @ \cup more]
    PROVE  /\ LastShown(c)' = LastShown(c) /\ Settled(c)' = Settled(c) \cup more
           /\ view'[c].joined = view[c].joined /\ view'[c].base = view[c].base
           /\ view'[c].shown = view[c].shown
           /\ more \subseteq Nat => view'[c] \in View
<1>1. /\ view'[c].joined = view[c].joined /\ view'[c].base = view[c].base
      /\ view'[c].shown = view[c].shown /\ view'[c].announced = view[c].announced
      /\ view'[c].lost = view[c].lost \cup more
      /\ more \subseteq Nat => view'[c] \in View
  BY DEF View
<1> QED BY <1>1 DEF LastShown, Settled

\* A frame that a step leaves alone.
LEMMA FrameUntouched ==
    ASSUME NEW c \in Clients, FrameInv(c), FlowInv(c), UNCHANGED <<bus, published>>,
           sub'[c] = sub[c], wire'[c] = wire[c], conn'[c] = conn[c],
           lastSeq'[c] = lastSeq[c], view'[c] = view[c]
    PROVE  FrameInv(c)' /\ FlowInv(c)'
BY SameView DEF FrameInv, FlowInv

\* Nothing on the way is in order.
LEMMA EmptyInOrder ==
    ASSUME NEW last, NEW base, NEW upto
    PROVE  InOrder(<<>>, <<>>, last, base, upto)
BY EmptyElements DEF InOrder

\* What put costs the reader has been published.
LEMMA EvictsPublished ==
    ASSUME GapInv, DeliveryInv, NEW c \in Clients
    PROVE  Evicts(c, sub[c]) \subseteq 1 .. published
<1>1. /\ sub[c].queue \in Seq(Message) /\ LastShown(c) \in Nat /\ published \in Nat
      /\ QueueMax[c] \in Nat \ {0}
  BY FrameTypes, QueueAssumption
<1>2. ASSUME sub[c].queue # <<>> PROVE Covers(Head(sub[c].queue)) \subseteq 1 .. published
  <2>1. Head(sub[c].queue) \in Elements(sub[c].queue) /\ Head(sub[c].queue) \in Message
    BY <1>1, <1>2, TailMessages
  <2>2. \A n \in Covers(Head(sub[c].queue)) : n \in Nat /\ LastShown(c) < n /\ n <= published
    BY <2>1, CoversNat DEF DeliveryInv, FlowInv, InOrder
  <2> QED BY <1>1, <2>2
<1>3. ~(Len(sub[c].queue) < QueueMax[c]) => sub[c].queue # <<>>
  BY <1>1
<1> QED BY <1>2, <1>3 DEF Evicts

\* put keeps a queue within its size.
LEMMA PutBound ==
    ASSUME NEW c \in Clients, NEW s \in Subscription, NEW m, Len(s.queue) <= QueueMax[c]
    PROVE  Len(Put(c, s, m).queue) <= QueueMax[c]
<1>1. QueueMax[c] \in Nat \ {0} /\ s.queue \in Seq(Message) /\ Len(s.queue) \in Nat
  BY QueueAssumption DEF Subscription
<1>2. CASE Len(s.queue) < QueueMax[c]
  <2>1. Put(c, s, m).queue = Append(s.queue, m)
    BY <1>2 DEF Put, Subscription
  <2>2. Len(Append(s.queue, m)) = Len(s.queue) + 1
    BY <1>1
  <2> QED BY <1>1, <1>2, <2>1, <2>2
<1>3. CASE ~(Len(s.queue) < QueueMax[c]) /\ s.overflowed
  BY <1>3 DEF Put
<1>4. CASE ~(Len(s.queue) < QueueMax[c]) /\ ~s.overflowed
  <2>1. Put(c, s, m).queue = Append(Tail(s.queue), End)
    BY <1>4 DEF Put, Subscription
  <2>2. Len(Append(Tail(s.queue), End)) = Len(s.queue)
    <3>1. PICK rest \in Seq(Message) : rest = Tail(s.queue) /\ Len(rest) = Len(s.queue) - 1
      <4>1. s.queue # <<>>
        BY <1>1, <1>4
      <4>2. Tail(s.queue) \in Seq(Message) /\ Len(Tail(s.queue)) = Len(s.queue) - 1
        BY <1>1, <4>1, TailMessages
      <4> QED BY <4>2
    <3>2. Len(Append(rest, End)) = Len(rest) + 1
      OBVIOUS
    <3> QED BY <1>1, <3>1, <3>2
  <2> QED BY <2>1, <2>2
<1> QED BY <1>2, <1>3, <1>4

----------------------------------------------------------------------------
(* Each step keeps it *)

\* An event enters the buffer and the queues of those on the bus.
LEMMA PublishBuffer == ASSUME GapInv, StreamInv, Stamped PROVE StreamInv'
<1>1. PICK h \in Seq(Message), base \in Nat, seq \in Nat :
          h = bus.history /\ base = bus.base /\ seq = bus.seq
  <2>1. bus.history \in Seq(Plain) /\ bus.base \in Nat /\ bus.seq \in Nat
    BY DEF GapInv, BufferInv
  <2>2. bus.history \in Seq(Message)
    BY <2>1 DEF Plain
  <2> QED BY <2>1, <2>2
<1>2. PICK m \in Message : /\ m = Event(bus.seq + 1) /\ m.kind = "event" /\ m.to = m.from
                           /\ m.base = base
  <2>1. Event(seq + 1) = [kind |-> "event", from |-> seq + 1, to |-> seq + 1, base |-> base]
    BY <1>1 DEF Event
  <2>2. Event(seq + 1) \in Message
    BY <2>1 DEF Message, Kinds
  <2> QED BY <1>1, <2>1, <2>2
<1>3. /\ bus'.seq = seq + 1 /\ bus'.base = base /\ bus'.history = Retain(h, m)
      /\ published' = published + 1
  BY <1>1, <1>2 DEF Stamped, Stamp, GapInv, BufferInv
<1>4. /\ base + seq = published /\ Len(h) <= seq
      /\ \A i \in 1 .. Len(h) : h[i].kind = "event" /\ h[i].to = h[i].from /\ h[i].base = base
  BY <1>1 DEF StreamInv
<1>5. PICK len \in Nat : len = Len(h)
  OBVIOUS
<1>6. len <= seq /\ base + (seq + 1) = published + 1
  BY <1>1, <1>4, <1>5
<1>7. CASE len < ReplayMax
  <2>1. /\ Retain(h, m) = Append(h, m) /\ Len(Append(h, m)) = len + 1
        /\ Append(h, m)[len + 1] = m
        /\ \A i \in 1 .. len : Append(h, m)[i] = h[i]
    BY <1>5, <1>7 DEF Retain
  <2>2. PICK next \in Seq(Message) : next = Append(h, m)
    <3>1. Append(h, m) \in Seq(Message)
      OBVIOUS
    <3> QED BY <3>1
  <2>3. ASSUME NEW i \in 1 .. len + 1
        PROVE  next[i].kind = "event" /\ next[i].to = next[i].from /\ next[i].base = base
    <3>1. CASE i = len + 1
      BY <1>2, <2>1, <2>2, <3>1
    <3>2. CASE i # len + 1
      <4>1. i \in 1 .. len /\ next[i] = h[i]
        BY <2>1, <2>2, <3>2
      <4> QED BY <1>4, <1>5, <4>1
    <3> QED BY <3>1, <3>2
  <2>4. bus'.history = next /\ Len(next) = len + 1 /\ len + 1 <= seq + 1
    BY <1>3, <1>6, <2>1, <2>2
  <2> QED BY <1>3, <1>6, <2>3, <2>4 DEF StreamInv
<1>8. CASE ~(len < ReplayMax)
  <2>1. len # 0 /\ h # <<>>
    BY <1>5, <1>8, ReplayAssumption
  <2>2. PICK rest \in Seq(Message) : /\ rest = Tail(h) /\ Len(rest) = len - 1
                                     /\ \A i \in 1 .. len - 1 : rest[i] = h[i + 1]
    <3>1. Tail(h) \in Seq(Message) /\ Len(Tail(h)) = len - 1
          /\ \A i \in 1 .. len - 1 : Tail(h)[i] = h[i + 1]
      BY <1>5, <2>1, TailMessages
    <3> QED BY <3>1
  <2>3. /\ Retain(h, m) = Append(rest, m) /\ Len(Append(rest, m)) = len
        /\ Append(rest, m)[len] = m
        /\ \A i \in 1 .. len - 1 : Append(rest, m)[i] = h[i + 1]
    BY <1>5, <1>8, <2>1, <2>2 DEF Retain
  <2>4. PICK next \in Seq(Message) : next = Append(rest, m)
    <3>1. Append(rest, m) \in Seq(Message)
      OBVIOUS
    <3> QED BY <3>1
  <2>5. ASSUME NEW i \in 1 .. len
        PROVE  next[i].kind = "event" /\ next[i].to = next[i].from /\ next[i].base = base
    <3>1. CASE i = len
      BY <1>2, <2>3, <2>4, <3>1
    <3>2. CASE i # len
      <4>1. i \in 1 .. len - 1 /\ i + 1 \in 1 .. len
        BY <3>2
      <4>2. next[i] = h[i + 1]
        BY <2>3, <2>4, <4>1
      <4> QED BY <1>4, <1>5, <4>1, <4>2
    <3> QED BY <3>1, <3>2
  <2>6. bus'.history = next /\ Len(next) = len /\ len <= seq + 1
    BY <1>3, <1>6, <2>3, <2>4
  <2> QED BY <1>3, <1>6, <2>5, <2>6 DEF StreamInv
<1> QED BY <1>7, <1>8

\* An event is put on the queue of everyone on the bus.
LEMMA PublishDelivery == ASSUME GapInv, DeliveryInv, Stamped PROVE DeliveryInv'
<1>1. PICK m \in Message : /\ m = Event(bus.seq + 1) /\ m # End /\ Proper(m) /\ m.base = bus.base
                           /\ Covers(m) = published + 1 .. published + 1
  <2>1. PICK seq \in Nat, base \in Nat : seq = bus.seq /\ base = bus.base /\ published = base + seq
    BY DEF GapInv, BufferInv, DeliveryInv, StreamInv
  <2>2. Event(seq + 1) = [kind |-> "event", from |-> seq + 1, to |-> seq + 1, base |-> base]
    BY <2>1 DEF Event
  <2>3. Event(seq + 1) \in Message /\ Event(seq + 1) # End /\ Proper(Event(seq + 1))
    BY <2>2 DEF Message, Kinds, End, Proper
  <2>4. Covers(Event(seq + 1)) = {base + (seq + 1)}
    BY <2>2, EventCovers
  <2>5. {base + (seq + 1)} = published + 1 .. published + 1
    BY <2>1
  <2> QED BY <2>1, <2>2, <2>3, <2>4, <2>5
<1>2. /\ published' = published + 1 /\ published < MaxPublished /\ bus'.base = bus.base
      /\ UNCHANGED <<wire, conn, lastSeq, drops, buses>>
      /\ \A c \in Clients :
            /\ sub'[c] = IF sub[c].attached THEN Put(c, sub[c], m) ELSE sub[c]
            /\ view'[c] = IF sub[c].attached
                          THEN [view[c] EXCEPT !.lost = @ \cup Evicts(c, sub[c])]
                          ELSE view[c]
      /\ DOMAIN view' = Clients
  BY <1>1 DEF Stamped, Stamp, GapInv, BufferInv
<1>3. published \in Nat /\ MaxPublished \in Nat /\ bus.base \in Nat
  BY LimitsAssumption DEF GapInv, CountInv, BufferInv
<1>4. ASSUME NEW c \in Clients
      PROVE  /\ view'[c] \in View /\ FrameInv(c)' /\ FlowInv(c)'
             /\ Len(sub'[c].queue) <= QueueMax[c]
  <2>1. /\ sub[c] \in Subscription /\ sub[c].queue \in Seq(Message) /\ wire[c] \in Seq(Message)
        /\ view[c] \in View /\ LastShown(c) \in Nat /\ LastShown(c) <= published
        /\ view[c].joined \in Nat /\ view[c].base \in Nat
    BY FrameTypes DEF View
  <2>2. FrameInv(c) /\ FlowInv(c) /\ Len(sub[c].queue) <= QueueMax[c]
    BY DEF DeliveryInv, BoundInv
  <2>3. 1 .. published \subseteq 1 .. (published + 1)
    BY <1>3
  <2>4. CASE ~sub[c].attached
    <3>1. sub'[c] = sub[c] /\ view'[c] = view[c] /\ wire'[c] = wire[c]
      BY <1>2, <2>4
    <3>2. LastShown(c)' = LastShown(c) /\ Settled(c)' = Settled(c)
      BY <3>1, SameView
    <3>3. InOrder(wire[c], sub[c].queue, LastShown(c), bus.base, published + 1)
      BY <1>3, <2>1, <2>2, InOrderMore DEF FlowInv
    <3>4. Complete(wire[c], sub[c], view[c].joined, LastShown(c), Settled(c), published + 1)
      BY <2>2, <2>4, DetachedComplete DEF FlowInv
    <3>5. FlowInv(c)'
      BY <1>2, <3>1, <3>2, <3>3, <3>4 DEF FlowInv
    <3>6. FrameInv(c)'
      BY <1>2, <1>3, <2>1, <2>2, <2>3, <3>1, <3>2 DEF FrameInv
    <3> QED BY <2>1, <2>2, <3>1, <3>5, <3>6
  <2>5. CASE sub[c].attached
    <3> DEFINE more == Evicts(c, sub[c])
    <3>1. /\ sub'[c] = Put(c, sub[c], m) /\ wire'[c] = wire[c]
          /\ view'[c] = [view[c] EXCEPT !.lost = @ \cup more]
      BY <1>2, <2>5
    <3>2. more \subseteq 1 .. published
      BY EvictsPublished
    <3> HIDE DEF more
    <3>3. /\ LastShown(c)' = LastShown(c) /\ Settled(c)' = Settled(c) \cup more
          /\ view'[c].joined = view[c].joined /\ view'[c].base = view[c].base
          /\ view'[c].shown = view[c].shown /\ view'[c] \in View
      <4>1. more \subseteq Nat
        BY <3>2
      <4> QED BY <2>1, <3>1, <4>1, MoreLost
    <3>4. InOrder(wire[c], Put(c, sub[c], m).queue, LastShown(c), bus.base, published + 1)
      <4>1. \A n \in Covers(m) : published < n /\ n <= published + 1
        BY <1>1, <1>3
      <4>2. InOrder(wire[c], sub[c].queue, LastShown(c), bus.base, published)
        BY <2>2 DEF FlowInv
      <4>3. published + 1 \in Nat /\ published <= published + 1
        BY <1>3
      <4> QED BY <1>1, <1>3, <2>1, <4>1, <4>2, <4>3, PutOrder
    <3>5. Complete(wire[c], Put(c, sub[c], m), view[c].joined, LastShown(c),
                   Settled(c) \cup more, published + 1)
      <4>1. Complete(wire[c], sub[c], view[c].joined, LastShown(c), Settled(c), published)
        BY <2>2 DEF FlowInv
      <4>2. published + 1 \in Nat /\ published <= published + 1
        BY <1>3
      <4> QED BY <1>1, <1>3, <2>1, <2>5, <4>1, <4>2, PutComplete DEF more
    <3>6. FlowInv(c)'
      BY <1>2, <3>1, <3>3, <3>4, <3>5 DEF FlowInv
    <3>7. sub[c] # NoSub
      BY <2>5 DEF NoSub
    <3>8. FrameInv(c)'
      BY <1>2, <1>3, <2>1, <2>2, <2>3, <3>1, <3>2, <3>3, <3>7 DEF FrameInv
    <3>9. Len(sub'[c].queue) <= QueueMax[c]
      BY <2>1, <2>2, <3>1, PutBound
    <3> QED BY <3>3, <3>6, <3>8, <3>9
  <2> QED BY <2>4, <2>5
<1>5. view' \in [Clients -> View]
  <2>1. view' = [c \in Clients |-> view'[c]]
    BY DEF Stamped, Stamp
  <2> QED BY <1>4, <2>1
<1>6. BoundInv'
  BY <1>2, <1>3, <1>4 DEF BoundInv, DeliveryInv
<1>7. StreamInv'
  BY PublishBuffer DEF DeliveryInv
<1> QED BY <1>2, <1>4, <1>5, <1>6, <1>7 DEF DeliveryInv

\* A new bus has no events yet, and its base is all that were published.
LEMMA NewBusStream ==
    ASSUME GapInv, BoundInv, NewBus, published' = published
    PROVE  StreamInv' /\ bus'.base = published /\ buses' \in 1 .. MaxBuses
<1>1. published \in Nat /\ MaxBuses \in Nat
  BY LimitsAssumption DEF GapInv, CountInv
<1>2. bus'.seq = 0 /\ bus'.base = published /\ bus'.history = <<>>
  BY DEF NewBus
<1>3. Len(bus'.history) = 0
  BY <1>2
<1>4. StreamInv'
  BY <1>1, <1>2, <1>3 DEF StreamInv
<1>5. buses' \in 1 .. MaxBuses
  BY <1>1 DEF NewBus, BoundInv
<1> QED BY <1>2, <1>4, <1>5

\* A frame whose bus was replaced by another.
LEMMA FrameRebased ==
    ASSUME GapInv, DeliveryInv, NEW c \in Clients, published' = published,
           bus'.base = published, lastSeq'[c] = lastSeq[c], FrameInv(c),
           view'[c].joined = view[c].joined, view'[c].base = view[c].base,
           view'[c].shown = view[c].shown, LastShown(c)' = LastShown(c),
           Settled(c)' \subseteq 1 .. published,
           conn'[c] # "open" => wire'[c] = <<>> /\ sub'[c] = NoSub,
           conn'[c] = "new" => conn[c] = "new"
    PROVE  FrameInv(c)'
<1>1. LastShown(c) <= published
  BY FrameTypes
<1> QED BY <1>1 DEF FrameInv

\* The terminator is put on the queue of everyone on the bus, and the next bus has
\* none of them.
LEMMA DiscardDelivery == ASSUME GapInv, DeliveryInv, Discard PROVE DeliveryInv'
<1>1. /\ published' = published /\ bus'.base = published
      /\ UNCHANGED <<wire, conn, lastSeq, drops>>
      /\ \A c \in Clients :
            /\ sub'[c] = IF sub[c].attached
                         THEN [Put(c, sub[c], End) EXCEPT !.attached = FALSE] ELSE sub[c]
            /\ view'[c] = IF sub[c].attached
                          THEN [view[c] EXCEPT !.lost = @ \cup Evicts(c, sub[c])]
                          ELSE view[c]
      /\ DOMAIN view' = Clients /\ view' = [c \in Clients |-> view'[c]]
  BY DEF Discard, NewBus
<1>2. StreamInv' /\ buses' \in 1 .. MaxBuses
  BY NewBusStream DEF Discard, DeliveryInv
<1>3. published \in Nat
  BY DEF GapInv, CountInv
<1>4. ASSUME NEW c \in Clients
      PROVE  /\ view'[c] \in View /\ FrameInv(c)' /\ FlowInv(c)'
             /\ Len(sub'[c].queue) <= QueueMax[c]
  <2>1. /\ sub[c] \in Subscription /\ sub[c].queue \in Seq(Message) /\ wire[c] \in Seq(Message)
        /\ view[c] \in View /\ LastShown(c) \in Nat /\ LastShown(c) <= published
        /\ view[c].joined \in Nat /\ bus.base \in Nat
    BY FrameTypes DEF View
  <2>2. /\ FrameInv(c) /\ FlowInv(c) /\ Len(sub[c].queue) <= QueueMax[c]
        /\ Settled(c) \subseteq 1 .. published
    BY DEF DeliveryInv, BoundInv, FrameInv
  <2>3. /\ InOrder(wire[c], sub[c].queue, LastShown(c), bus.base, published)
        /\ Complete(wire[c], sub[c], view[c].joined, LastShown(c), Settled(c), published)
    BY <2>2 DEF FlowInv
  <2>4. CASE ~sub[c].attached
    <3>1. sub'[c] = sub[c] /\ view'[c] = view[c] /\ wire'[c] = wire[c]
      BY <1>1, <2>4
    <3>2. LastShown(c)' = LastShown(c) /\ Settled(c)' = Settled(c)
      BY <3>1, SameView
    <3>3. InOrder(wire[c], sub[c].queue, LastShown(c), published, published)
      BY <2>1, <2>3, InOrderRebase
    <3>4. FlowInv(c)'
      BY <1>1, <2>3, <3>1, <3>2, <3>3 DEF FlowInv
    <3>5. FrameInv(c)'
      <4>1. conn'[c] = conn[c] /\ (conn[c] # "open" => wire[c] = <<>> /\ sub[c] = NoSub)
        BY <1>1, <2>2 DEF FrameInv
      <4> QED BY <1>1, <2>2, <3>1, <3>2, <4>1, FrameRebased
    <3> QED BY <2>1, <2>2, <3>1, <3>4, <3>5
  <2>5. CASE sub[c].attached
    <3> DEFINE more == Evicts(c, sub[c])
               put == Put(c, sub[c], End)
               t == [put EXCEPT !.attached = FALSE]
    <3>1. /\ sub'[c] = t /\ wire'[c] = wire[c]
          /\ view'[c] = [view[c] EXCEPT !.lost = @ \cup more]
      BY <1>1, <2>5
    <3>2. more \subseteq 1 .. published
      BY EvictsPublished
    <3>3. put \in Subscription
      <4>1. sub[c].queue \in Seq(Sendable(c)) /\ End \in Sendable(c)
        BY TerminatorsSendable DEF GapInv, RouteInv
      <4> QED BY <2>1, <4>1, PutType
    <3>4. InOrder(wire[c], put.queue, LastShown(c), published, published)
      <4>1. /\ End \in Message /\ Proper(End)
            /\ \A n \in Covers(End) : published < n /\ n <= published
                                     /\ (End.base = bus.base \/ n <= bus.base)
        BY EndCovers
      <4>2. published <= published
        BY <1>3
      <4>3. InOrder(wire[c], sub[c].queue, LastShown(c), bus.base, published)
        BY <2>3
      <4>4. InOrder(wire[c], put.queue, LastShown(c), bus.base, published)
        BY <1>3, <2>1, <4>1, <4>2, <4>3, PutOrder
      <4>5. put.queue \in Seq(Message)
        BY <3>3 DEF Subscription
      <4> QED BY <2>1, <4>4, <4>5, InOrderRebase
    <3>5. Len(put.queue) <= QueueMax[c]
      BY <2>1, <2>2, PutBound
    <3> HIDE DEF put
    <3>6. /\ t.queue = put.queue /\ t.overflowed = put.overflowed /\ t.pumping = put.pumping
          /\ t.attached = FALSE
      BY <3>3 DEF Subscription
    <3>7. PICK t2 : t2 = t
      OBVIOUS
    <3> HIDE DEF t
    <3>8. Complete(wire[c], t2, view[c].joined, LastShown(c), Settled(c) \cup more, published)
      <4>1. End \in Message /\ Covers(End) = published + 1 .. published
        BY <1>3, EndCovers
      <4>2. /\ t2.queue = put.queue /\ t2.overflowed = put.overflowed
            /\ t2.pumping = put.pumping /\ ~t2.attached
        BY <3>6, <3>7
      <4>3. /\ t2.queue = Put(c, sub[c], End).queue
            /\ t2.overflowed = Put(c, sub[c], End).overflowed
            /\ t2.pumping = Put(c, sub[c], End).pumping
            /\ t2.attached => Put(c, sub[c], End).attached /\ End # End
        BY <4>2 DEF put
      <4>4. published <= published
        BY <1>3
      <4> HIDE DEF more
      <4>5. Complete(wire[c], t2, view[c].joined, LastShown(c),
                     Settled(c) \cup Evicts(c, sub[c]), published)
        BY <1>3, <2>1, <2>3, <2>5, <4>1, <4>3, <4>4, PutComplete
      <4> QED BY <4>5 DEF more
    <3> HIDE DEF more
    <3>9. /\ LastShown(c)' = LastShown(c) /\ Settled(c)' = Settled(c) \cup more
          /\ view'[c].joined = view[c].joined /\ view'[c].base = view[c].base
          /\ view'[c].shown = view[c].shown /\ view'[c] \in View
      <4>1. more \subseteq Nat
        BY <3>2
      <4> QED BY <2>1, <3>1, <4>1, MoreLost
    <3>10. FlowInv(c)'
      BY <1>1, <3>1, <3>4, <3>6, <3>7, <3>8, <3>9 DEF FlowInv
    <3>11. FrameInv(c)'
      <4>1. conn'[c] = "open"
        BY <1>1, <2>2, <2>5 DEF FrameInv, NoSub
      <4>2. Settled(c)' \subseteq 1 .. published
        BY <2>2, <3>2, <3>9
      <4> QED BY <1>1, <2>2, <3>9, <4>1, <4>2, FrameRebased
    <3> QED BY <3>1, <3>5, <3>6, <3>9, <3>10, <3>11
  <2> QED BY <2>4, <2>5
<1>5. view' \in [Clients -> View]
  BY <1>1, <1>4
<1>6. BoundInv'
  BY <1>1, <1>2, <1>4 DEF BoundInv, DeliveryInv
<1> QED BY <1>1, <1>2, <1>4, <1>5, <1>6 DEF DeliveryInv

\* A frame without connection lacks nothing but what it never asked for.
LEMMA GoneFrame ==
    ASSUME NEW c \in Clients, FlowInv(c), view'[c] = view[c], wire'[c] = <<>>, sub'[c] = NoSub
    PROVE  FlowInv(c)'
<1>1. LastShown(c)' = LastShown(c) /\ Settled(c)' = Settled(c)
  BY SameView
<1>2. view[c].joined + 1 .. LastShown(c) \subseteq Settled(c)
  BY DEF FlowInv, Complete
<1>3. NoSub.queue = <<>>
  BY DEF NoSub
<1> QED BY <1>1, <1>2, <1>3, EmptyInOrder, GoneComplete DEF FlowInv

\* A restart takes every connection.
LEMMA RestartDelivery == ASSUME GapInv, DeliveryInv, Restart PROVE DeliveryInv'
<1>1. /\ published' = published /\ bus'.base = published
      /\ UNCHANGED <<lastSeq, published, view, drops>>
      /\ conn' \in [Clients -> {"new", "closed", "open"}]
      /\ \A c \in Clients : /\ sub'[c] = NoSub /\ wire'[c] = <<>>
                            /\ conn'[c] = "new" => conn[c] = "new"
  BY DEF Restart, NewBus, DeliveryInv
<1>2. StreamInv' /\ buses' \in 1 .. MaxBuses
  BY NewBusStream DEF Restart, DeliveryInv
<1>3. ASSUME NEW c \in Clients PROVE FrameInv(c)' /\ FlowInv(c)'
  <2>1. FrameInv(c) /\ FlowInv(c) /\ Settled(c) \subseteq 1 .. published
    BY DEF DeliveryInv, FrameInv
  <2>2. FlowInv(c)'
    BY <1>1, <2>1, GoneFrame
  <2>3. LastShown(c)' = LastShown(c) /\ Settled(c)' = Settled(c)
    BY <1>1, SameView
  <2> QED BY <1>1, <2>1, <2>2, <2>3, FrameRebased
<1>4. BoundInv'
  <2>1. Len(NoSub.queue) = 0 /\ Len(<<>>) = 0
    BY DEF NoSub
  <2>2. \A c \in Clients : QueueMax[c] \in Nat \ {0} /\ WireMax \in Nat \ {0}
    BY QueueAssumption, WireAssumption
  <2> QED BY <1>1, <1>2, <2>1, <2>2 DEF BoundInv, DeliveryInv
<1> QED BY <1>1, <1>2, <1>3, <1>4 DEF DeliveryInv

Others(c) ==
    \A d \in Clients : d # c =>
        /\ sub'[d] = sub[d] /\ wire'[d] = wire[d] /\ conn'[d] = conn[d]
        /\ lastSeq'[d] = lastSeq[d] /\ view'[d] = view[d]

\* A step of one frame leaves the others alone.
LEMMA OneFrame ==
    ASSUME DeliveryInv, NEW c \in Clients, UNCHANGED <<bus, published, buses>>, Others(c),
           drops' \in 0 .. MaxDrops, view' \in [Clients -> View],
           conn' \in [Clients -> {"new", "closed", "open"}],
           Len(sub'[c].queue) <= QueueMax[c], Len(wire'[c]) <= WireMax,
           FrameInv(c)', FlowInv(c)'
    PROVE  DeliveryInv'
<1>1. StreamInv'
  BY DEF DeliveryInv, StreamInv
<1>2. ASSUME NEW d \in Clients PROVE FrameInv(d)' /\ FlowInv(d)'
  <2>1. CASE d = c
    BY <2>1
  <2>2. CASE d # c
    BY <2>2, FrameUntouched DEF DeliveryInv, Others
  <2> QED BY <2>1, <2>2
<1>3. BoundInv'
  <2>1. ASSUME NEW d \in Clients
        PROVE  Len(sub'[d].queue) <= QueueMax[d] /\ Len(wire'[d]) <= WireMax
    <3>1. CASE d = c
      BY <3>1
    <3>2. CASE d # c
      BY <3>2 DEF DeliveryInv, BoundInv, Others
    <3> QED BY <3>1, <3>2
  <2> QED BY <2>1 DEF DeliveryInv, BoundInv
<1> QED BY <1>1, <1>2, <1>3 DEF DeliveryInv

\* A backfill fits the queue.
LEMMA BackfillBound ==
    ASSUME NEW c \in Clients, NEW msgs \in Seq(Message)
    PROVE  Len(Backfilled(c, msgs).queue) <= QueueMax[c]
<1>1. QueueMax[c] \in Nat \ {0}
  BY QueueAssumption
<1>2. CASE Len(msgs) <= QueueMax[c]
  BY <1>2, BackfilledQueue
<1>3. CASE ~(Len(msgs) <= QueueMax[c])
  <2>1. Len(Backfilled(c, msgs).queue) = QueueMax[c]
    BY <1>3, BackfilledQueue
  <2> QED BY <1>1, <2>1
<1> QED BY <1>2, <1>3

\* Nothing to replay: the frame joins at the last event published.
LEMMA NothingContiguous ==
    ASSUME NEW base \in Nat, NEW seq \in Nat
    PROVE  Contiguous(<<>>, base, seq, base + seq)
<1>1. <<>> \in Seq(Message) /\ Len(<<>>) = 0 /\ Sorted(<<>>)
  BY EmptyElements
<1>2. base + seq + 1 .. base + seq = {}
  OBVIOUS
<1> QED BY <1>1, <1>2 DEF Contiguous

\* The messages a frame is backfilled with, and what it knew or will not hear
\* of, leave nothing open.
LEMMA ConnectFlow ==
    ASSUME GapInv, DeliveryInv, NEW c \in Clients, conn[c] # "new",
           NEW msgs, msgs = IF lastSeq[c] = 0 THEN <<>> ELSE ReplayFrom(lastSeq[c])
    PROVE  /\ Unasked(c) \subseteq 1 .. published
           /\ \E since \in Nat :
                /\ Contiguous(msgs, bus.base, since, published)
                /\ LastShown(c) <= bus.base + since
                /\ \A k \in view[c].joined + 1 .. published :
                      k <= bus.base + since => k \in Settled(c) \cup Unasked(c)
<1>1. /\ view[c] \in View /\ lastSeq[c] \in Nat /\ published \in Nat /\ bus.base \in Nat
      /\ bus.seq \in Nat /\ published = bus.base + bus.seq
      /\ LastShown(c) \in Nat /\ LastShown(c) <= published
  BY FrameTypes
<1>2. PICK joined \in Nat, base \in Nat : joined = view[c].joined /\ base = view[c].base
  BY <1>1 DEF View
<1>3. FrameInv(c) /\ joined + 1 .. LastShown(c) \subseteq Settled(c)
  BY <1>2 DEF DeliveryInv, FlowInv, Complete
<1>4. CASE lastSeq[c] = 0
  <2>1. Unasked(c) = joined + 1 .. published
    BY <1>2, <1>4 DEF Unasked
  <2>2. Contiguous(msgs, bus.base, bus.seq, published)
    BY <1>1, <1>4, NothingContiguous
  <2>3. Unasked(c) \subseteq 1 .. published
    BY <1>1, <1>2, <2>1
  <2>4. LastShown(c) <= bus.base + bus.seq
    BY <1>1
  <2> QED BY <1>1, <1>2, <2>1, <2>2, <2>3, <2>4
<1>5. CASE lastSeq[c] # 0
  <2>1. PICK since \in Nat : since = lastSeq[c]
    BY <1>1
  <2>2. /\ view[c].shown # <<>> /\ LastShown(c) = base + since
        /\ base = bus.base \/ LastShown(c) <= bus.base
    BY <1>2, <1>3, <1>5, <2>1 DEF FrameInv
  <2>3. Contiguous(msgs, bus.base, since, published)
    <3>1. msgs = ReplayFrom(since) /\ BufferInv /\ StreamInv
      BY <1>5, <2>1 DEF GapInv, DeliveryInv
    <3> QED BY <1>1, <3>1, ReplayContiguous
  <2>4. LastShown(c) <= bus.base + since
    BY <1>1, <1>2, <2>2
  <2>5. CASE base = bus.base
    <3>1. Unasked(c) = {}
      BY <1>2, <1>5, <2>5 DEF Unasked
    <3>2. \A k \in joined + 1 .. published : k <= bus.base + since => k \in Settled(c)
      BY <1>1, <1>2, <1>3, <2>2, <2>5
    <3> QED BY <1>2, <2>3, <2>4, <3>1, <3>2
  <2>6. CASE base # bus.base
    <3>1. PICK low \in Nat : /\ low = LowerOf(since, bus.seq) /\ low <= since /\ low <= bus.seq
                             /\ low = since \/ low = bus.seq
      <4>1. LowerOf(since, bus.seq) = since \/ LowerOf(since, bus.seq) = bus.seq
        BY DEF LowerOf
      <4> QED BY <1>1, <4>1 DEF LowerOf
    <3>2. Unasked(c) = LastShown(c) + 1 .. bus.base + low
      BY <1>2, <1>5, <2>1, <2>6, <3>1 DEF Unasked
    <3>3. Unasked(c) \subseteq 1 .. published
      BY <1>1, <3>1, <3>2
    <3>4. ASSUME NEW k \in joined + 1 .. published, k <= bus.base + since
          PROVE  k \in Settled(c) \cup Unasked(c)
      <4>1. k <= bus.base + low /\ k \in Nat
        <5>1. k \in Nat /\ k <= bus.base + bus.seq
          BY <1>1
        <5> QED BY <3>1, <3>4, <5>1
      <4>2. CASE k <= LastShown(c)
        <5>1. k \in joined + 1 .. LastShown(c)
          BY <1>1, <1>2, <4>2
        <5> QED BY <1>3, <5>1
      <4>3. CASE ~(k <= LastShown(c))
        BY <1>1, <3>1, <3>2, <4>1, <4>3
      <4> QED BY <4>2, <4>3
    <3> QED BY <1>2, <2>3, <2>4, <3>3, <3>4
  <2> QED BY <2>5, <2>6
<1> QED BY <1>4, <1>5

\* A frame joins the session, or comes back with its last seq.
LEMMA ConnectDelivery == ASSUME GapInv, DeliveryInv, NEW c \in Clients, Connect(c) PROVE DeliveryInv'
<1>1. PICK msgs : msgs = IF lastSeq[c] = 0 THEN <<>> ELSE ReplayFrom(lastSeq[c])
  OBVIOUS
<1> DEFINE evicted == IF Len(msgs) > QueueMax[c] THEN Covers(msgs[1]) ELSE {}
<1>2. /\ conn[c] # "open" /\ conn' = [conn EXCEPT ![c] = "open"]
      /\ sub' = [sub EXCEPT ![c] = Backfilled(c, msgs)]
      /\ view' = IF conn[c] = "new"
                 THEN [view EXCEPT ![c].joined = published, ![c].base = bus.base]
                 ELSE [view EXCEPT ![c].lost = @ \cup Unasked(c) \cup evicted]
      /\ UNCHANGED <<bus, wire, lastSeq, published, drops, buses>>
  BY <1>1 DEF Connect
<1>3. /\ sub \in [Clients -> Subscription] /\ wire \in [Clients -> Seq(Message)]
      /\ conn \in [Clients -> {"new", "closed", "open"}] /\ view \in [Clients -> View]
  BY DEF GapInv, RouteInv, DeliveryInv
<1>4. /\ view[c] \in View /\ lastSeq[c] \in Nat /\ published \in Nat /\ bus.base \in Nat
      /\ bus.seq \in Nat /\ published = bus.base + bus.seq
      /\ LastShown(c) \in Nat /\ LastShown(c) <= published
      /\ view[c].joined \in Nat
  BY FrameTypes DEF View
<1>5. FrameInv(c) /\ FlowInv(c) /\ Len(wire[c]) <= WireMax /\ drops \in 0 .. MaxDrops
  BY DEF DeliveryInv, BoundInv
<1>6. wire'[c] = <<>> /\ sub'[c] = Backfilled(c, msgs) /\ conn'[c] = "open"
  BY <1>2, <1>3, <1>5 DEF FrameInv
<1>7. Others(c)
  BY <1>2, <1>3 DEF Others
<1>8. conn' \in [Clients -> {"new", "closed", "open"}]
  BY <1>2, <1>3
<1>9. CASE conn[c] = "new"
  <2>1. lastSeq[c] = 0 /\ view[c].shown = <<>> /\ msgs = <<>>
    BY <1>1, <1>5, <1>9 DEF FrameInv
  <2>2. /\ view'[c] = [view[c] EXCEPT !.joined = published, !.base = bus.base]
        /\ view' = [view EXCEPT ![c] = [view[c] EXCEPT !.joined = published, !.base = bus.base]]
    BY <1>2, <1>3, <1>9
  <2>3. /\ view'[c] \in View /\ view'[c].joined = published /\ view'[c].base = bus.base
        /\ view'[c].shown = <<>> /\ Settled(c)' = Settled(c)
    <3>1. /\ view'[c] \in View /\ view'[c].joined = published /\ view'[c].base = bus.base
          /\ view'[c].shown = view[c].shown /\ view'[c].announced = view[c].announced
          /\ view'[c].lost = view[c].lost
      <4>1. view[c] \in View /\ published \in Nat /\ bus.base \in Nat
        BY <1>4
      <4>2. view'[c] = [view[c] EXCEPT !.joined = published, !.base = bus.base]
        BY <2>2
      <4>3. view'[c].joined = published /\ view'[c].base = bus.base
        BY <4>1, <4>2 DEF View
      <4>4. /\ view'[c].shown = view[c].shown /\ view'[c].announced = view[c].announced
            /\ view'[c].lost = view[c].lost
        BY <4>1, <4>2 DEF View
      <4>5. view'[c] \in View
        BY <4>1, <4>2 DEF View
      <4> QED BY <4>3, <4>4, <4>5
    <3> QED BY <2>1, <3>1 DEF Settled
  <2>4. view' \in [Clients -> View]
    BY <1>3, <2>2, <2>3
  <2>5. LastShown(c)' = published
    BY <2>3 DEF LastShown
  <2>6. Contiguous(msgs, bus.base, bus.seq, published)
    BY <1>4, <2>1, NothingContiguous
  <2>7. InOrder(<<>>, Backfilled(c, msgs).queue, published, bus.base, published)
    BY <1>4, <2>6, BackfillInOrder
  <2>8. Complete(<<>>, Backfilled(c, msgs), published, published, Settled(c) \cup evicted, published)
    <3>1. /\ published + 1 .. published \subseteq Settled(c)
          /\ \A k \in published + 1 .. published : k <= bus.base + bus.seq => k \in Settled(c)
      BY <1>4
    <3> QED BY <1>4, <2>6, <3>1, BackfillComplete
  <2>9. evicted = {}
    <3>1. Len(msgs) = 0 /\ QueueMax[c] \in Nat \ {0}
      BY <2>1, QueueAssumption
    <3> QED BY <3>1
  <2> HIDE DEF evicted
  <2>10. FlowInv(c)'
    BY <1>2, <1>6, <2>3, <2>5, <2>7, <2>8, <2>9 DEF FlowInv
  <2>11. FrameInv(c)'
    BY <1>2, <1>4, <1>5, <1>6, <2>1, <2>3 DEF FrameInv
  <2>12. msgs \in Seq(Message)
    BY <2>1
  <2>13. Len(sub'[c].queue) <= QueueMax[c] /\ Len(wire'[c]) <= WireMax
    BY <1>2, <1>5, <1>6, <2>12, BackfillBound
  <2> QED BY <1>2, <1>5, <1>7, <1>8, <2>4, <2>10, <2>11, <2>13, OneFrame
<1>10. CASE conn[c] # "new"
  <2>1. Unasked(c) \subseteq 1 .. published
    BY <1>1, <1>10, ConnectFlow
  <2>2. PICK since \in Nat :
            /\ Contiguous(msgs, bus.base, since, published)
            /\ LastShown(c) <= bus.base + since
            /\ \A k \in view[c].joined + 1 .. published :
                  k <= bus.base + since => k \in Settled(c) \cup Unasked(c)
    BY <1>1, <1>10, ConnectFlow
  <2>3. evicted \subseteq 1 .. published
    <3>1. msgs \in Seq(Message) /\ Len(msgs) \in Nat /\ QueueMax[c] \in Nat \ {0}
      BY <2>2, QueueAssumption DEF Contiguous
    <3>2. CASE Len(msgs) > QueueMax[c]
      <4>1. 1 \in 1 .. Len(msgs) /\ msgs[1] \in Message
        BY <3>1, <3>2
      <4>2. \A n \in Covers(msgs[1]) : n \in Nat /\ bus.base + since < n /\ n <= published
        BY <2>2, <4>1, CoversNat DEF Contiguous
      <4>3. \A n \in Covers(msgs[1]) : n \in 1 .. published
        BY <1>4, <4>2
      <4> QED BY <3>2, <4>3
    <3>3. CASE ~(Len(msgs) > QueueMax[c])
      BY <3>3
    <3> QED BY <3>2, <3>3
  <2>4. InOrder(<<>>, Backfilled(c, msgs).queue, LastShown(c), bus.base, published)
    BY <1>4, <2>2, BackfillInOrder
  <2>5. Complete(<<>>, Backfilled(c, msgs), view[c].joined, LastShown(c),
                 (Settled(c) \cup Unasked(c)) \cup evicted, published)
    <3>1. view[c].joined + 1 .. LastShown(c) \subseteq Settled(c) \cup Unasked(c)
      BY <1>5 DEF FlowInv, Complete
    <3> QED BY <1>4, <2>2, <3>1, BackfillComplete
  <2>6. Len(sub'[c].queue) <= QueueMax[c] /\ Len(wire'[c]) <= WireMax
    BY <1>2, <1>5, <1>6, <2>2, BackfillBound DEF Contiguous
  <2> HIDE DEF evicted
  <2>7. PICK more : more = Unasked(c) \cup evicted
    OBVIOUS
  <2>8. more \subseteq 1 .. published /\ more \subseteq Nat
    <3>1. more \subseteq 1 .. published
      BY <2>1, <2>3, <2>7
    <3> QED BY <1>4, <3>1
  <2>9. view' = [view EXCEPT ![c] = [view[c] EXCEPT !.lost = @ \cup more]]
    <3>1. view[c].lost \cup Unasked(c) \cup evicted = view[c].lost \cup more
      BY <2>7
    <3> QED BY <1>2, <1>3, <1>10, <3>1
  <2>10. view'[c] = [view[c] EXCEPT !.lost = @ \cup more]
    BY <1>3, <2>9
  <2>11. /\ LastShown(c)' = LastShown(c) /\ Settled(c)' = Settled(c) \cup more
         /\ view'[c].joined = view[c].joined /\ view'[c].base = view[c].base
         /\ view'[c].shown = view[c].shown /\ view'[c] \in View
    BY <1>4, <2>8, <2>10, MoreLost
  <2>12. view' \in [Clients -> View]
    BY <1>3, <2>9, <2>10, <2>11
  <2>13. (Settled(c) \cup Unasked(c)) \cup evicted = Settled(c)'
    BY <2>7, <2>11
  <2>14. FlowInv(c)'
    BY <1>2, <1>6, <2>4, <2>5, <2>11, <2>13 DEF FlowInv
  <2>15. FrameInv(c)'
    BY <1>2, <1>4, <1>5, <1>6, <2>8, <2>11 DEF FrameInv
  <2> QED BY <1>2, <1>5, <1>7, <1>8, <2>6, <2>12, <2>14, <2>15, OneFrame
<1> QED BY <1>9, <1>10

\* A message goes from the queue to the socket.
LEMMA PumpDelivery == ASSUME GapInv, DeliveryInv, NEW c \in Clients, Pump(c) PROVE DeliveryInv'
<1> DEFINE q == sub[c].queue
<1>1. /\ sub[c].pumping /\ q # <<>> /\ Len(wire[c]) < WireMax
      /\ sub' = [sub EXCEPT ![c].queue = Tail(@), ![c].pumping = Head(q) # End]
      /\ wire' = IF Head(q) # End THEN [wire EXCEPT ![c] = Append(@, Head(q))]
                 ELSE IF sub[c].overflowed THEN [wire EXCEPT ![c] = Append(@, CloseFrame)]
                 ELSE wire
      /\ UNCHANGED <<bus, conn, lastSeq, published, view, drops, buses>>
  BY DEF Pump
<1>2. /\ sub \in [Clients -> Subscription] /\ wire \in [Clients -> Seq(Message)]
      /\ conn \in [Clients -> {"new", "closed", "open"}] /\ view \in [Clients -> View]
  BY DEF GapInv, RouteInv, DeliveryInv
<1>3. /\ sub[c] \in Subscription /\ q \in Seq(Message) /\ wire[c] \in Seq(Message)
      /\ view[c] \in View /\ published \in Nat /\ bus.base \in Nat /\ LastShown(c) \in Nat
      /\ view[c].joined \in Nat
  BY FrameTypes DEF View
<1>4. /\ FrameInv(c) /\ FlowInv(c) /\ Len(wire[c]) <= WireMax /\ Len(q) <= QueueMax[c]
      /\ drops \in 0 .. MaxDrops
  BY DEF DeliveryInv, BoundInv
<1>5. /\ sub' = [sub EXCEPT ![c] = [sub[c] EXCEPT !.queue = Tail(q), !.pumping = Head(q) # End]]
      /\ sub'[c] = [sub[c] EXCEPT !.queue = Tail(q), !.pumping = Head(q) # End]
      /\ sub'[c].queue = Tail(q)
  <2>1. sub' = [sub EXCEPT ![c] = [sub[c] EXCEPT !.queue = Tail(q), !.pumping = Head(q) # End]]
    BY <1>1
  <2>2. sub'[c] = [sub[c] EXCEPT !.queue = Tail(q), !.pumping = Head(q) # End]
    BY <1>2, <2>1
  <2>3. sub'[c].queue = Tail(q)
    BY <1>3, <2>2 DEF Subscription
  <2> QED BY <2>1, <2>2, <2>3
<1>6. /\ Head(q) # End => wire'[c] = Append(wire[c], Head(q))
      /\ Head(q) = End => wire'[c] \in {wire[c], Append(wire[c], CloseFrame)}
  BY <1>1, <1>2
<1>7. Others(c)
  <2>1. \A d \in Clients : d # c => wire'[d] = wire[d]
    BY <1>1, <1>2
  <2>2. \A d \in Clients : d # c => sub'[d] = sub[d]
    BY <1>2, <1>5
  <2> QED BY <1>1, <2>1, <2>2 DEF Others
<1>8. /\ Head(q) \in Message /\ Tail(q) \in Seq(Message) /\ Len(Tail(q)) = Len(q) - 1
      /\ Len(q) \in Nat
  BY <1>1, <1>3, TailMessages
<1> HIDE DEF q
<1>9. Len(sub'[c].queue) <= QueueMax[c]
  <2>1. QueueMax[c] \in Nat \ {0}
    BY QueueAssumption
  <2> QED BY <1>4, <1>5, <1>8, <2>1
<1>10. Len(wire'[c]) <= WireMax
  <2>1. Len(Append(wire[c], Head(q))) = Len(wire[c]) + 1
        /\ Len(Append(wire[c], CloseFrame)) = Len(wire[c]) + 1 /\ Len(wire[c]) \in Nat
    BY <1>3, <1>8, EndCovers
  <2>2. Len(wire'[c]) = Len(wire[c]) \/ Len(wire'[c]) = Len(wire[c]) + 1
    BY <1>6, <2>1
  <2>3. WireMax \in Nat
    BY WireAssumption
  <2> QED BY <1>1, <2>1, <2>2, <2>3
<1>11. LastShown(c)' = LastShown(c) /\ Settled(c)' = Settled(c) /\ view'[c] = view[c]
  BY <1>1, SameView
<1>12. /\ InOrder(wire[c], q, LastShown(c), bus.base, published)
       /\ Complete(wire[c], sub[c], view[c].joined, LastShown(c), Settled(c), published)
  BY <1>4 DEF FlowInv, q
<1>13. InOrder(wire'[c], Tail(q), LastShown(c), bus.base, published)
  <2>1. q \in Seq(Message) /\ q # <<>>
    BY <1>1, <1>3 DEF q
  <2>2. InOrder(wire[c], Tail(q), LastShown(c), bus.base, published)
    BY <1>3, <1>12, <2>1, InOrderTail
  <2>3. InOrder(Append(wire[c], Head(q)), Tail(q), LastShown(c), bus.base, published)
    BY <1>3, <1>12, <2>1, InOrderPump
  <2>4. InOrder(Append(wire[c], CloseFrame), Tail(q), LastShown(c), bus.base, published)
    BY <1>3, <1>8, <2>2, InOrderClose
  <2> QED BY <1>6, <2>2, <2>3, <2>4
<1>14. Complete(wire'[c], sub'[c], view[c].joined, LastShown(c), Settled(c), published)
  <2>1. PICK w2 : w2 = wire'[c]
    OBVIOUS
  <2>2. PICK t : t = sub'[c]
    OBVIOUS
  <2>3. IF Head(sub[c].queue) # End THEN w2 = Append(wire[c], Head(sub[c].queue))
                                    ELSE w2 \in {wire[c], Append(wire[c], CloseFrame)}
    BY <1>6, <2>1 DEF q
  <2>4. t = [sub[c] EXCEPT !.queue = Tail(sub[c].queue), !.pumping = Head(sub[c].queue) # End]
    BY <1>5, <2>2 DEF q
  <2>5. sub[c].queue # <<>> /\ sub[c].pumping
    BY <1>1 DEF q
  <2>6. Complete(w2, t, view[c].joined, LastShown(c), Settled(c), published)
    BY <1>3, <1>12, <2>3, <2>4, <2>5, PumpComplete
  <2> QED BY <2>1, <2>2, <2>6
<1>15. FlowInv(c)'
  BY <1>1, <1>5, <1>11, <1>13, <1>14 DEF FlowInv
<1>16. conn[c] = "open"
  BY <1>1, <1>2, <1>4 DEF FrameInv, NoSub
<1>17. FrameInv(c)'
  BY <1>1, <1>4, <1>11, <1>16 DEF FrameInv
<1> QED BY <1>1, <1>2, <1>4, <1>7, <1>9, <1>10, <1>15, <1>17, OneFrame

\* A connection that ends, with what it was carrying.
LEMMA DisconnectDelivery ==
    ASSUME GapInv, DeliveryInv, NEW c \in Clients, Disconnect(c),
           UNCHANGED <<bus, lastSeq, published, view, buses>>, drops' \in 0 .. MaxDrops,
           conn[c] = "open"
    PROVE  DeliveryInv'
<1>1. /\ sub \in [Clients -> Subscription] /\ wire \in [Clients -> Seq(Message)]
      /\ conn \in [Clients -> {"new", "closed", "open"}] /\ view \in [Clients -> View]
  BY DEF GapInv, RouteInv, DeliveryInv
<1>2. /\ sub'[c] = NoSub /\ wire'[c] = <<>> /\ conn'[c] = "closed"
      /\ conn' \in [Clients -> {"new", "closed", "open"}] /\ Others(c)
  BY <1>1 DEF Disconnect, Others
<1>3. FrameInv(c) /\ FlowInv(c)
  BY DEF DeliveryInv
<1>4. FlowInv(c)'
  BY <1>2, <1>3, GoneFrame
<1>5. FrameInv(c)'
  <2>1. LastShown(c)' = LastShown(c) /\ Settled(c)' = Settled(c)
    BY SameView
  <2> QED BY <1>2, <1>3, <2>1 DEF FrameInv
<1>6. Len(sub'[c].queue) <= QueueMax[c] /\ Len(wire'[c]) <= WireMax
  <2>1. QueueMax[c] \in Nat \ {0} /\ WireMax \in Nat \ {0} /\ Len(<<>>) = 0
    BY QueueAssumption, WireAssumption
  <2>2. NoSub.queue = <<>>
    BY DEF NoSub
  <2> QED BY <1>2, <2>1, <2>2
<1> QED BY <1>1, <1>2, <1>4, <1>5, <1>6, OneFrame

\* A frame whose socket carries something is connected.
LEMMA WireOpen ==
    ASSUME DeliveryInv, NEW c \in Clients, wire[c] # <<>> \/ sub[c] # NoSub
    PROVE  conn[c] = "open"
BY DEF DeliveryInv, FrameInv

\* What the head of the socket says of an event: it is later than all the
\* frame has shown, and of the current bus or from before it.
LEMMA HeadOfWire ==
    ASSUME GapInv, DeliveryInv, NEW c \in Clients, wire[c] # <<>>
    PROVE  LET m == Head(wire[c]) IN
           /\ m \in Message /\ Proper(m)
           /\ \A n \in Covers(m) : /\ n \in Nat /\ LastShown(c) < n /\ n <= published
                                   /\ m.base = bus.base \/ n <= bus.base
           /\ m.kind = "event" => /\ m.to = m.from /\ m.from # 0
                                  /\ Covers(m) = {m.base + m.from}
<1>1. wire[c] \in Seq(Message) /\ FlowInv(c)
  BY FrameTypes DEF DeliveryInv
<1>2. PICK m \in Message : m = Head(wire[c]) /\ m \in Elements(wire[c])
  BY <1>1, TailMessages
<1>3. /\ Proper(m)
      /\ \A n \in Covers(m) : LastShown(c) < n /\ n <= published /\ (m.base = bus.base \/ n <= bus.base)
  BY <1>1, <1>2 DEF FlowInv, InOrder
<1>4. Covers(m) \subseteq Nat
  BY CoversNat
<1>5. ASSUME m.kind = "event" PROVE m.to = m.from /\ m.from # 0 /\ Covers(m) = {m.base + m.from}
  <2>1. m.to = m.from /\ m.from # 0
    BY <1>3, <1>5 DEF Proper
  <2>2. m.base \in Nat /\ m.from \in Nat
    BY DEF Message
  <2> QED BY <2>1, <2>2, EventCovers
<1> QED BY <1>2, <1>3, <1>4, <1>5

\* The head of the socket is taken: an event shown or a gap told.
LEMMA TakeFlow ==
    ASSUME GapInv, DeliveryInv, NEW c \in Clients, wire[c] # <<>>,
           UNCHANGED <<bus, published, sub, conn, drops, buses>>,
           wire' = [wire EXCEPT ![c] = Tail(@)],
           view'[c].joined = view[c].joined, LastShown(c)' \in Nat,
           LastShown(c)' = LastShown(c) \/ Covers(Head(wire[c])) = {LastShown(c)'},
           Settled(c)' = Settled(c) \cup Covers(Head(wire[c]))
    PROVE  /\ FlowInv(c)' /\ Settled(c)' \subseteq 1 .. published
           /\ Len(wire'[c]) <= WireMax
<1>1. /\ sub[c] \in Subscription /\ sub[c].queue \in Seq(Message) /\ wire[c] \in Seq(Message)
      /\ view[c] \in View /\ published \in Nat /\ bus.base \in Nat /\ LastShown(c) \in Nat
      /\ view[c].joined \in Nat
  BY FrameTypes DEF View
<1>2. wire'[c] = Tail(wire[c])
  BY DEF GapInv, RouteInv
<1>3. /\ InOrder(wire[c], sub[c].queue, LastShown(c), bus.base, published)
      /\ Complete(wire[c], sub[c], view[c].joined, LastShown(c), Settled(c), published)
      /\ Settled(c) \subseteq 1 .. published /\ Len(wire[c]) <= WireMax
  BY DEF DeliveryInv, FlowInv, FrameInv, BoundInv
<1>4. PICK now \in Nat : now = LastShown(c)'
  OBVIOUS
<1>5. now = LastShown(c) \/ Covers(Head(wire[c])) = {now}
  BY <1>4
<1>6. now = LastShown(c) \/ now \in Covers(Head(wire[c]))
  BY <1>5
<1>7. InOrder(Tail(wire[c]), sub[c].queue, now, bus.base, published)
  BY <1>1, <1>3, <1>6, InOrderTaken
<1>8. Complete(Tail(wire[c]), sub[c], view[c].joined, now,
               Settled(c) \cup Covers(Head(wire[c])), published)
  BY <1>1, <1>3, <1>5, TakenComplete
<1>9. FlowInv(c)'
  BY <1>2, <1>4, <1>7, <1>8 DEF FlowInv
<1>10. Covers(Head(wire[c])) \subseteq 1 .. published
  <2>1. \A n \in Covers(Head(wire[c])) : n \in Nat /\ LastShown(c) < n /\ n <= published
    BY HeadOfWire
  <2> QED BY <1>1, <2>1
<1>11. Len(wire'[c]) <= WireMax
  <2>1. Len(Tail(wire[c])) = Len(wire[c]) - 1 /\ Len(wire[c]) \in Nat
    BY <1>1, TailMessages
  <2>2. WireMax \in Nat
    BY WireAssumption
  <2> QED BY <1>2, <1>3, <2>1, <2>2
<1> QED BY <1>3, <1>9, <1>10, <1>11

\* A number at the end of those shown.
LEMMA AppendNumber ==
    ASSUME NEW q \in Seq(Nat), NEW n \in Nat
    PROVE  /\ Append(q, n) \in Seq(Nat) /\ Append(q, n) # <<>>
           /\ Append(q, n)[Len(Append(q, n))] = n
           /\ Elements(Append(q, n)) = Elements(q) \cup {n}
<1>1. /\ Append(q, n) \in Seq(Nat)
      /\ Len(Append(q, n)) = Len(q) + 1 /\ Len(q) \in Nat
      /\ Append(q, n)[Len(q) + 1] = n
      /\ \A i \in 1 .. Len(q) : Append(q, n)[i] = q[i]
  OBVIOUS
<1>2. /\ Elements(q) = {q[i] : i \in 1 .. Len(q)}
      /\ Elements(Append(q, n)) = {Append(q, n)[i] : i \in 1 .. Len(q) + 1}
  BY <1>1, ElementsIn
<1>3. Elements(Append(q, n)) \subseteq Elements(q) \cup {n}
  BY <1>1, <1>2
<1>4. Elements(q) \cup {n} \subseteq Elements(Append(q, n))
  BY <1>1, <1>2
<1>5. Append(q, n) # <<>>
  BY <1>1
<1> QED BY <1>1, <1>3, <1>4, <1>5

\* The frame shows an event.
ShowsEvent(c) ==
    LET m == Head(wire[c]) IN
    /\ m.kind = "event"
    /\ lastSeq' = [lastSeq EXCEPT ![c] = m.from]
    /\ view' = [view EXCEPT ![c].shown = Append(@, m.base + m.from), ![c].base = m.base]
    /\ wire' = [wire EXCEPT ![c] = Tail(@)]
    /\ UNCHANGED <<sub, conn>>

\* Showing an event keeps the invariant.
LEMMA ShowDelivery ==
    ASSUME GapInv, DeliveryInv, NEW c \in Clients, wire[c] # <<>>, ShowsEvent(c),
           UNCHANGED <<bus, published, drops, buses>>
    PROVE  DeliveryInv'
<1>1. PICK m : m = Head(wire[c])
  OBVIOUS
<1>2. /\ m \in Message /\ m.base \in Nat /\ m.from \in Nat /\ m.kind = "event"
      /\ m.to = m.from /\ m.from # 0 /\ Covers(m) = {m.base + m.from}
      /\ LastShown(c) < m.base + m.from /\ m.base + m.from <= published
      /\ m.base = bus.base \/ m.base + m.from <= bus.base
  <2>1. m \in Message /\ m.kind = "event"
    BY <1>1, HeadOfWire DEF ShowsEvent
  <2>2. m.base \in Nat /\ m.from \in Nat
    BY <2>1 DEF Message
  <2>3. m.to = m.from /\ m.from # 0 /\ Covers(m) = {m.base + m.from}
    BY <1>1, <2>1, HeadOfWire
  <2>4. \A n \in Covers(m) : LastShown(c) < n /\ n <= published /\ (m.base = bus.base \/ n <= bus.base)
    BY <1>1, HeadOfWire
  <2> QED BY <2>1, <2>2, <2>3, <2>4
<1>3. PICK n \in Nat : n = m.base + m.from
  BY <1>2
<1>4. /\ view[c] \in View /\ view[c].shown \in Seq(Nat) /\ published \in Nat
      /\ view \in [Clients -> View] /\ wire \in [Clients -> Seq(Message)]
      /\ lastSeq \in [Clients -> Nat] /\ conn \in [Clients -> {"new", "closed", "open"}]
      /\ LastShown(c) \in Nat
  BY FrameTypes DEF View, DeliveryInv, GapInv, RouteInv, CountInv
<1>5. FrameInv(c) /\ drops \in 0 .. MaxDrops /\ Len(sub[c].queue) <= QueueMax[c]
  BY DEF DeliveryInv, BoundInv
<1>6. conn[c] = "open"
  BY WireOpen
<1>7. /\ lastSeq' = [lastSeq EXCEPT ![c] = m.from] /\ lastSeq'[c] = m.from
      /\ wire' = [wire EXCEPT ![c] = Tail(@)] /\ UNCHANGED <<sub, conn>>
      /\ view' = [view EXCEPT ![c] = [view[c] EXCEPT !.shown = Append(view[c].shown, n),
                                                      !.base = m.base]]
      /\ view'[c] = [view[c] EXCEPT !.shown = Append(view[c].shown, n), !.base = m.base]
  <2>1. view' = [view EXCEPT ![c] = [view[c] EXCEPT !.shown = Append(view[c].shown, n),
                                                    !.base = m.base]]
    BY <1>1, <1>3 DEF ShowsEvent
  <2>2. view'[c] = [view[c] EXCEPT !.shown = Append(view[c].shown, n), !.base = m.base]
    BY <1>4, <2>1
  <2> QED BY <1>1, <1>4, <2>1, <2>2 DEF ShowsEvent
<1>8. /\ Append(view[c].shown, n) \in Seq(Nat) /\ Append(view[c].shown, n) # <<>>
      /\ Append(view[c].shown, n)[Len(Append(view[c].shown, n))] = n
      /\ Elements(Append(view[c].shown, n)) = Elements(view[c].shown) \cup {n}
  BY <1>4, AppendNumber
<1>9. view'[c].shown = Append(view[c].shown, n) /\ view'[c].base = m.base
  BY <1>4, <1>7 DEF View
<1>10. /\ view'[c].joined = view[c].joined /\ view'[c].announced = view[c].announced
       /\ view'[c].lost = view[c].lost
  BY <1>4, <1>7 DEF View
<1>11. view'[c] \in View
  BY <1>2, <1>4, <1>7, <1>8 DEF View
<1>12. view' \in [Clients -> View]
  BY <1>4, <1>7, <1>11
<1>13. LastShown(c)' = n
  BY <1>8, <1>9 DEF LastShown
<1>14. Covers(Head(wire[c])) = {n}
  BY <1>1, <1>2, <1>3
<1>15. Settled(c)' = Settled(c) \cup Covers(Head(wire[c]))
  BY <1>8, <1>9, <1>10, <1>14 DEF Settled
<1>16. FlowInv(c)' /\ Settled(c)' \subseteq 1 .. published /\ Len(wire'[c]) <= WireMax
  BY <1>7, <1>10, <1>13, <1>14, <1>15, TakeFlow
<1>17. FrameInv(c)'
  <2>1. view'[c].joined <= published /\ view'[c].base <= published
    BY <1>2, <1>3, <1>4, <1>5, <1>9, <1>10 DEF FrameInv
  <2>2. view'[c].shown # <<>> /\ lastSeq'[c] # 0
    BY <1>2, <1>7, <1>8, <1>9
  <2>3. LastShown(c)' = view'[c].base + lastSeq'[c]
    BY <1>3, <1>7, <1>9, <1>13
  <2>4. view'[c].base = bus.base \/ LastShown(c)' <= bus.base
    BY <1>2, <1>3, <1>9, <1>13
  <2>5. conn'[c] = "open"
    BY <1>6, <1>7
  <2> QED BY <1>16, <2>1, <2>2, <2>3, <2>4, <2>5 DEF FrameInv
<1>18. Others(c)
  <2>1. \A d \in Clients : d # c => lastSeq'[d] = lastSeq[d] /\ wire'[d] = wire[d]
    BY <1>4, <1>7
  <2>2. \A d \in Clients : d # c => view'[d] = view[d]
    BY <1>4, <1>7
  <2> QED BY <1>7, <2>1, <2>2 DEF Others
<1> QED BY <1>4, <1>5, <1>7, <1>12, <1>16, <1>17, <1>18, OneFrame

\* The frame is told of a gap.
TellsGap(c) ==
    LET m == Head(wire[c]) IN
    /\ view' = [view EXCEPT ![c].announced = @ \cup Covers(m)]
    /\ wire' = [wire EXCEPT ![c] = Tail(@)]
    /\ UNCHANGED <<sub, conn, lastSeq>>

\* Telling of a gap keeps the invariant.
LEMMA TellDelivery ==
    ASSUME GapInv, DeliveryInv, NEW c \in Clients, wire[c] # <<>>, TellsGap(c),
           UNCHANGED <<bus, published, drops, buses>>
    PROVE  DeliveryInv'
<1>1. PICK told : told = Covers(Head(wire[c]))
  OBVIOUS
<1>2. told \subseteq Nat
  BY <1>1, HeadOfWire, CoversNat
<1>3. /\ view[c] \in View /\ view \in [Clients -> View] /\ wire \in [Clients -> Seq(Message)]
      /\ conn \in [Clients -> {"new", "closed", "open"}] /\ LastShown(c) \in Nat
  BY FrameTypes DEF DeliveryInv, GapInv, RouteInv
<1>4. FrameInv(c) /\ drops \in 0 .. MaxDrops /\ Len(sub[c].queue) <= QueueMax[c]
  BY DEF DeliveryInv, BoundInv
<1>5. conn[c] = "open"
  BY WireOpen
<1>6. /\ view' = [view EXCEPT ![c].announced = @ \cup told]
      /\ wire' = [wire EXCEPT ![c] = Tail(@)] /\ UNCHANGED <<sub, conn, lastSeq>>
  BY <1>1 DEF TellsGap
<1>7. /\ view'[c].joined = view[c].joined /\ view'[c].base = view[c].base
      /\ view'[c].shown = view[c].shown /\ view'[c].lost = view[c].lost
      /\ view'[c].announced = view[c].announced \cup told
  BY <1>3, <1>6 DEF View
<1>8. view' \in [Clients -> View]
  BY <1>2, <1>3, <1>6 DEF View
<1>9. LastShown(c)' = LastShown(c) /\ Settled(c)' = Settled(c) \cup Covers(Head(wire[c]))
  BY <1>1, <1>7 DEF LastShown, Settled
<1>10. FlowInv(c)' /\ Settled(c)' \subseteq 1 .. published /\ Len(wire'[c]) <= WireMax
  BY <1>3, <1>6, <1>7, <1>9, TakeFlow
<1>11. FrameInv(c)'
  BY <1>4, <1>5, <1>6, <1>7, <1>9, <1>10 DEF FrameInv
<1>12. Others(c)
  BY <1>3, <1>6 DEF Others
<1> QED BY <1>3, <1>4, <1>6, <1>8, <1>10, <1>11, <1>12, OneFrame

\* The frame reads what its socket carries.
LEMMA ReceiveDelivery == ASSUME GapInv, DeliveryInv, NEW c \in Clients, Receive(c) PROVE DeliveryInv'
<1>1. wire[c] # <<>> /\ UNCHANGED <<bus, published, drops, buses>>
  BY DEF Receive
<1>2. ShowsEvent(c) \/ TellsGap(c) \/ (Disconnect(c) /\ UNCHANGED <<lastSeq, view>>)
  BY DEF Receive, ShowsEvent, TellsGap
<1>3. CASE Disconnect(c) /\ UNCHANGED <<lastSeq, view>>
  <2>1. drops' \in 0 .. MaxDrops
    BY <1>1 DEF DeliveryInv, BoundInv
  <2>2. conn[c] = "open"
    BY <1>1, WireOpen
  <2> QED BY <1>1, <1>3, <2>1, <2>2, DisconnectDelivery
<1> QED BY <1>1, <1>2, <1>3, ShowDelivery, TellDelivery

\* The network takes a connection away.
LEMMA DropDelivery == ASSUME GapInv, DeliveryInv, NEW c \in Clients, Drop(c) PROVE DeliveryInv'
<1>1. drops' \in 0 .. MaxDrops
  BY LimitsAssumption DEF Drop, DeliveryInv, BoundInv
<1> QED BY <1>1, DisconnectDelivery DEF Drop

\* The invariant holds at first.
LEMMA InitDelivery == Init => DeliveryInv
<1> SUFFICES ASSUME Init PROVE DeliveryInv
  OBVIOUS
<1>1. StreamInv
  BY DEF Init, StreamInv
<1>2. BoundInv
  <2>1. Len(NoSub.queue) = 0 /\ Len(<<>>) = 0
    BY DEF NoSub
  <2>2. \A c \in Clients : QueueMax[c] \in Nat \ {0} /\ WireMax \in Nat \ {0}
    BY QueueAssumption, WireAssumption
  <2> QED BY <2>1, <2>2, LimitsAssumption DEF Init, BoundInv
<1>3. view \in [Clients -> View]
  BY DEF Init, View
<1>4. ASSUME NEW c \in Clients PROVE FrameInv(c) /\ FlowInv(c)
  <2>1. /\ view[c].joined = 0 /\ view[c].base = 0 /\ view[c].shown = <<>> /\ published = 0
        /\ view[c].announced = {} /\ view[c].lost = {}
        /\ lastSeq[c] = 0 /\ wire[c] = <<>> /\ sub[c] = NoSub
    BY DEF Init
  <2>2. Settled(c) = {} /\ LastShown(c) = 0 /\ 0 + 1 .. 0 = {}
    BY <2>1, EmptyElements DEF Settled, LastShown
  <2>3. NoSub.queue = <<>>
    BY DEF NoSub
  <2>4. FlowInv(c)
    BY <2>1, <2>2, <2>3, EmptyInOrder, GoneComplete DEF FlowInv
  <2>5. FrameInv(c)
    BY <2>1, <2>2 DEF FrameInv
  <2> QED BY <2>4, <2>5
<1>5. conn \in [Clients -> {"new", "closed", "open"}]
  BY DEF Init
<1> QED BY <1>1, <1>2, <1>3, <1>4, <1>5 DEF DeliveryInv

\* Every step keeps the invariant.
LEMMA NextDelivery == GapInv /\ DeliveryInv /\ TurnInv /\ [Next]_vars => DeliveryInv'
<1> SUFFICES ASSUME GapInv, DeliveryInv, TurnInv, [Next]_vars PROVE DeliveryInv'
  OBVIOUS
<1>1. CASE Stamped
  BY <1>1, PublishDelivery
<1>2. CASE Discard
  BY <1>2, DiscardDelivery
<1>3. CASE Restart
  BY <1>3, RestartDelivery
<1>4. ASSUME NEW c \in Clients, ClientStep(c) \/ Drop(c) PROVE DeliveryInv'
  BY <1>4, ConnectDelivery, PumpDelivery, ReceiveDelivery, DropDelivery DEF ClientStep
<1>5. CASE UNCHANGED stream
  <2>1. UNCHANGED <<bus, sub, wire, conn, lastSeq, published, view, drops, buses>>
    BY <1>5 DEF stream
  <2>2. ASSUME NEW c \in Clients PROVE FrameInv(c)' /\ FlowInv(c)'
    BY <2>1, FrameUntouched DEF DeliveryInv
  <2> QED BY <2>1, <2>2 DEF DeliveryInv, StreamInv, BoundInv
<1>6. QED
  BY <1>1, <1>2, <1>3, <1>4, <1>5, NextCases DEF GapInv

\* A turn keeps to the bus it fetched: another one only takes its place when
\* it is closed, or when the turn is gone with frame-main.
LEMMA NextTurns == CountInv /\ BoundInv /\ TurnInv /\ [Next]_vars => TurnInv'
<1> SUFFICES ASSUME CountInv, BoundInv, TurnInv, [Next]_vars PROVE TurnInv'
  OBVIOUS
<1>1. /\ buses \in 1 .. MaxBuses /\ MaxBuses \in Nat
      /\ published \in Nat /\ MaxPublished \in Nat
  BY LimitsAssumption DEF CountInv, BoundInv
<1>2. ASSUME NEW b \in 1 .. MaxBuses, Publish(b) PROVE TurnInv'
  <2>1. UNCHANGED <<holds, closed, buses>> /\ published + unstamped < MaxPublished
    BY <1>2 DEF Publish
  <2>2. CASE b \in closed
    BY <1>1, <1>2, <2>1, <2>2 DEF Publish, GiveBack, TurnInv
  <2>3. CASE b \notin closed
    BY <1>1, <1>2, <2>1, <2>3 DEF Publish, Stamp, TurnInv
  <2>4. QED
    BY <2>2, <2>3
<1>3. ASSUME NEW t \in Turns, BeginTurn(t) \/ EndTurn(t) PROVE TurnInv'
  <2>1. UNCHANGED <<published, unstamped, closed, buses>>
    BY <1>3 DEF BeginTurn, EndTurn
  <2>2. PICK n \in {0, buses} : holds' = [holds EXCEPT ![t] = n]
    BY <1>3 DEF BeginTurn, EndTurn
  <2>3. QED
    BY <1>1, <2>1, <2>2 DEF TurnInv
<1>4. CASE Discard
  <2>1. /\ buses' = buses + 1 /\ buses < MaxBuses /\ closed' = closed \cup {buses}
        /\ UNCHANGED <<published, unstamped, holds>>
    BY <1>4 DEF Discard, NewBus
  <2>2. QED
    BY <1>1, <2>1 DEF TurnInv
<1>5. CASE Restart
  <2>1. /\ buses' = buses + 1 /\ buses < MaxBuses /\ holds' = [t \in Turns |-> 0]
        /\ UNCHANGED <<published, unstamped, closed>>
    BY <1>5 DEF Restart, NewBus
  <2>2. QED
    BY <1>1, <2>1 DEF TurnInv
<1>6. CASE UNCHANGED <<published, buses, turnVars>>
  BY <1>6 DEF TurnInv, turnVars
<1>7. ASSUME NEW c \in Clients, ClientStep(c) \/ Drop(c)
      PROVE  UNCHANGED <<published, buses, turnVars>>
  BY <1>7 DEF ClientStep, Connect, Pump, Receive, Drop
<1>8. QED
  BY <1>2, <1>3, <1>4, <1>5, <1>6, <1>7 DEF Next, vars

\* It holds at first.
LEMMA InitTurns == Init => TurnInv
BY LimitsAssumption DEF Init, TurnInv

\* The invariant holds throughout.
LEMMA SpecDelivery == Spec => [](GapInv /\ DeliveryInv /\ TurnInv)
<1>1. GapInv /\ DeliveryInv /\ TurnInv /\ [Next]_vars => TurnInv'
  BY NextTurns DEF GapInv, DeliveryInv
<1>2. QED
  BY <1>1, InitGapInv, NextGapInv, InitDelivery, NextDelivery, InitTurns, PTL DEF Spec

----------------------------------------------------------------------------
(* What follows from it *)

\* A frame whose queue is no longer than the replay buffer, as bus.py:33-36
\* configures every frame, is never sent a gap event, so the announcement
\* that subscribe() documents (l.116-119) never leaves the server.
THEOREM GapIsNeverAnnounced == Spec => []GapNeverSent
BY SpecDelivery, NoGapSendable, PTL

\* Sequences whose elements are bounded.
LEMMA ShownNumbers ==
    ASSUME NEW q \in Seq(Nat), NEW max \in Nat, Elements(q) \subseteq 1 .. max
    PROVE  q \in Seq(1 .. max)
<1>1. \A i \in 1 .. Len(q) : q[i] \in 1 .. max
  BY ElementsIn
<1> QED BY <1>1

\* The bounds are part of the invariant.
LEMMA DeliveryTypeOK == GapInv /\ DeliveryInv /\ TurnInv => TypeOK
<1> SUFFICES ASSUME GapInv, DeliveryInv, TurnInv PROVE TypeOK
  OBVIOUS
<1>1. /\ published \in 0 .. MaxPublished /\ MaxPublished \in Nat
      /\ drops \in 0 .. MaxDrops /\ buses \in 1 .. MaxBuses
  BY LimitsAssumption DEF GapInv, CountInv, DeliveryInv, BoundInv
<1>2. bus \in [seq: 0 .. MaxPublished, history: Seq(Message), base: 0 .. MaxPublished]
  <2>1. bus \in [seq: Nat, history: Seq(Plain), base: Nat] /\ bus.base + bus.seq = published
    BY DEF GapInv, BufferInv, DeliveryInv, StreamInv
  <2>2. bus.seq \in 0 .. MaxPublished /\ bus.base \in 0 .. MaxPublished
    BY <1>1, <2>1
  <2>3. bus.history \in Seq(Message)
    BY <2>1 DEF Plain
  <2>4. bus = [seq |-> bus.seq, history |-> bus.history, base |-> bus.base]
    BY <2>1
  <2> QED BY <2>2, <2>3, <2>4
<1>3. Len(bus.history) <= ReplayMax
  BY DEF GapInv, BufferInv
<1>4. /\ sub \in [Clients -> [queue: Seq(Message), overflowed: BOOLEAN,
                              attached: BOOLEAN, pumping: BOOLEAN]]
      /\ wire \in [Clients -> Seq(Message)]
      /\ conn \in [Clients -> {"new", "closed", "open"}]
      /\ \A c \in Clients : Len(sub[c].queue) <= QueueMax[c]
      /\ \A c \in Clients : Len(wire[c]) <= WireMax
  BY DEF GapInv, RouteInv, Subscription, DeliveryInv, BoundInv
<1>5. ASSUME NEW c \in Clients
      PROVE  /\ lastSeq[c] \in 0 .. MaxPublished
             /\ view[c] \in [joined: 0 .. MaxPublished, base: 0 .. MaxPublished,
                             shown: Seq(1 .. MaxPublished),
                             announced: SUBSET (1 .. MaxPublished),
                             lost: SUBSET (1 .. MaxPublished)]
  <2>1. PICK v \in View : v = view[c]
    BY FrameTypes
  <2>2. /\ v.joined \in Nat /\ v.base \in Nat /\ v.shown \in Seq(Nat)
        /\ v = [joined |-> v.joined, base |-> v.base, shown |-> v.shown,
                announced |-> v.announced, lost |-> v.lost]
    BY DEF View
  <2>3. /\ lastSeq[c] \in Nat /\ LastShown(c) \in Nat /\ LastShown(c) <= published
    BY FrameTypes
  <2>4. /\ v.joined <= published /\ v.base <= published
        /\ Settled(c) \subseteq 1 .. published
        /\ v.shown = <<>> => lastSeq[c] = 0
        /\ v.shown # <<>> => LastShown(c) = v.base + lastSeq[c]
    BY <2>1 DEF DeliveryInv, FrameInv
  <2>5. Settled(c) = Elements(v.shown) \cup v.announced \cup v.lost
    BY <2>1 DEF Settled
  <2>6. lastSeq[c] <= published
    BY <1>1, <2>2, <2>3, <2>4
  <2>7. 1 .. published \subseteq 1 .. MaxPublished
    BY <1>1
  <2>8. /\ Elements(v.shown) \subseteq 1 .. MaxPublished
        /\ v.announced \subseteq 1 .. MaxPublished /\ v.lost \subseteq 1 .. MaxPublished
    BY <2>4, <2>5, <2>7
  <2>9. v.shown \in Seq(1 .. MaxPublished)
    BY <1>1, <2>2, <2>8, ShownNumbers
  <2>10. v.joined \in 0 .. MaxPublished /\ v.base \in 0 .. MaxPublished
    BY <1>1, <2>2, <2>4
  <2>11. lastSeq[c] \in 0 .. MaxPublished
    BY <1>1, <2>3, <2>6
  <2> QED BY <2>1, <2>2, <2>8, <2>9, <2>10, <2>11
<1>6. DOMAIN lastSeq = Clients /\ lastSeq = [c \in Clients |-> lastSeq[c]]
      /\ DOMAIN view = Clients /\ view = [c \in Clients |-> view[c]]
  BY DEF GapInv, CountInv, DeliveryInv
<1>7. lastSeq \in [Clients -> 0 .. MaxPublished]
  BY <1>5, <1>6
<1>8. view \in [Clients -> [joined: 0 .. MaxPublished, base: 0 .. MaxPublished,
                            shown: Seq(1 .. MaxPublished),
                            announced: SUBSET (1 .. MaxPublished),
                            lost: SUBSET (1 .. MaxPublished)]]
  BY <1>5, <1>6
<1>9. /\ holds \in [Turns -> 0 .. MaxBuses]
      /\ closed \in SUBSET (1 .. MaxBuses)
      /\ unstamped \in 0 .. MaxPublished
  BY <1>1 DEF TurnInv
<1> QED BY <1>1, <1>2, <1>3, <1>4, <1>7, <1>8, <1>9 DEF TypeOK

\* No queue outgrows its maxsize nor the replay buffer its maxlen (bus.py:36,
\* 60-66), and no number runs ahead of what was published.
THEOREM BusTypeOK == Spec => []TypeOK
BY SpecDelivery, DeliveryTypeOK, PTL

\* What a frame has passed by is settled.
LEMMA DeliveryAccounted == DeliveryInv /\ TurnInv => LossAccounted
<1> SUFFICES ASSUME DeliveryInv, TurnInv PROVE LossAccounted
  OBVIOUS
<1>1. ASSUME NEW c \in Clients
      PROVE  /\ view[c].joined + 1 .. LastShown(c) \subseteq Settled(c)
             /\ sub[c].attached /\ ~sub[c].overflowed =>
                   view[c].joined + 1 .. published \subseteq Settled(c) \cup Pending(c)
  <2>1. Held(wire[c], sub[c].queue) = Pending(c)
    BY DEF Held, Pending
  <2>2. QED
    BY <2>1 DEF DeliveryInv, FlowInv, Complete
<1>2. buses \notin closed
  BY LimitsAssumption DEF TurnInv, DeliveryInv, BoundInv
<1>3. QED
  BY <1>1, <1>2 DEF LossAccounted, TurnInv

\* Whatever the number of frames, the sizes of queues, buffer and sockets, and
\* however often connections drop and buses are replaced: an event a frame
\* has passed by was announced to it, evicted from its queue or not asked for,
\* and one that got no seq was given back by a bus that was closed under a turn.
THEOREM LossesAccounted == Spec => []LossAccounted
BY SpecDelivery, DeliveryAccounted, PTL

----------------------------------------------------------------------------
(* Frames show events once and in order *)

\* Showing an event is a step of the feed.
LEMMA ShowStep ==
    ASSUME GapInv, DeliveryInv, NEW c \in Clients, wire[c] # <<>>, ShowsEvent(c),
           published' = published
    PROVE  Feed!Show(c)
<1> DEFINE shown == [d \in Clients |-> view[d].shown]
<1>1. PICK m : m = Head(wire[c])
  OBVIOUS
<1>2. PICK n : n = m.base + m.from
  OBVIOUS
<1>3. /\ Covers(m) = {n} /\ n \in Nat /\ LastShown(c) < n /\ n <= published
  <2>1. Covers(m) = {n}
    BY <1>1, <1>2, HeadOfWire DEF ShowsEvent
  <2> QED BY <1>1, <2>1, HeadOfWire
<1>4. /\ view[c] \in View /\ view \in [Clients -> View] /\ LastShown(c) \in Nat
      /\ published \in Nat
  BY FrameTypes DEF DeliveryInv
<1>5. shown' = [shown EXCEPT ![c] = Append(@, n)]
  <2>1. view' = [view EXCEPT ![c] = [view[c] EXCEPT !.shown = Append(view[c].shown, n),
                                                    !.base = m.base]]
    BY <1>1, <1>2 DEF ShowsEvent
  <2>2. view'[c].shown = Append(view[c].shown, n)
    <3>1. view'[c] = [view[c] EXCEPT !.shown = Append(view[c].shown, n), !.base = m.base]
      BY <1>4, <2>1
    <3> QED BY <1>4, <3>1 DEF View
  <2>3. \A d \in Clients : d # c => view'[d] = view[d]
    BY <1>4, <2>1
  <2> QED BY <2>2, <2>3
<1>6. Feed!LastShown(c) \in Nat /\ Feed!LastShown(c) < n
  <2>1. shown[c] = view[c].shown
    OBVIOUS
  <2>2. Feed!LastShown(c) = IF view[c].shown = <<>> THEN 0
                            ELSE view[c].shown[Len(view[c].shown)]
    BY <2>1 DEF Feed!LastShown
  <2> QED BY <1>3, <1>4, <2>2 DEF LastShown
<1>7. n \in Feed!LastShown(c) + 1 .. published
  BY <1>3, <1>4, <1>6
<1> QED BY <1>5, <1>7 DEF Feed!Show

\* What leaves the shown events alone.
LEMMA ShownKept ==
    ASSUME GapInv, DeliveryInv, NEW c \in Clients,
           Connect(c) \/ Pump(c) \/ Drop(c) \/
              (Receive(c) /\ ~ShowsEvent(c))
    PROVE  published' = published /\ \A d \in Clients : view'[d].shown = view[d].shown
<1>1. view \in [Clients -> View]
  BY DEF DeliveryInv
<1>2. CASE Connect(c)
  <2>1. published' = published
    BY <1>2 DEF Connect
  <2>2. PICK more :
            view' = IF conn[c] = "new"
                    THEN [view EXCEPT ![c].joined = published, ![c].base = bus.base]
                    ELSE [view EXCEPT ![c].lost = more]
    BY <1>2 DEF Connect
  <2>3. CASE conn[c] = "new"
    <3>1. view' = [view EXCEPT ![c] = [view[c] EXCEPT !.joined = published, !.base = bus.base]]
      BY <2>2, <2>3
    <3>2. view'[c] = [view[c] EXCEPT !.joined = published, !.base = bus.base]
      BY <1>1, <3>1
    <3>3. view'[c].shown = view[c].shown
      BY <1>1, <3>2 DEF View
    <3>4. \A d \in Clients : d # c => view'[d] = view[d]
      BY <1>1, <3>1
    <3> QED BY <2>1, <3>3, <3>4
  <2>4. CASE conn[c] # "new"
    <3>1. view' = [view EXCEPT ![c].lost = more]
      BY <2>2, <2>4
    <3> QED BY <1>1, <2>1, <3>1 DEF View
  <2> QED BY <2>3, <2>4
<1>3. CASE Pump(c) \/ Drop(c)
  BY <1>3 DEF Pump, Drop
<1>4. CASE Receive(c) /\ ~ShowsEvent(c)
  <2>1. published' = published
    BY <1>4 DEF Receive
  <2>2. \/ view' = view
        \/ view' = [view EXCEPT ![c].announced = @ \cup Covers(Head(wire[c]))]
    BY <1>4 DEF Receive, ShowsEvent
  <2> QED BY <1>1, <2>1, <2>2 DEF View
<1> QED BY <1>2, <1>3, <1>4

\* Every step is a step of the feed or none.
LEMMA FeedStep == GapInv /\ DeliveryInv /\ TurnInv /\ [Next]_vars => [Feed!Next]_(Feed!feedVars)
<1> SUFFICES ASSUME GapInv, DeliveryInv, TurnInv, [Next]_vars PROVE [Feed!Next]_(Feed!feedVars)
  OBVIOUS
<1> DEFINE shown == [c \in Clients |-> view[c].shown]
<1>1. view \in [Clients -> View]
  BY DEF DeliveryInv
<1>2. ASSUME UNCHANGED published, \A d \in Clients : view'[d].shown = view[d].shown
      PROVE  UNCHANGED <<published, shown>>
  BY <1>2
<1>3. ASSUME NEW c \in Clients, view'[c] = view[c] \/ \E more : view'[c] = [view[c] EXCEPT !.lost = more]
      PROVE  view'[c].shown = view[c].shown
  BY <1>1, <1>3 DEF View
<1>4. CASE Stamped
  <2>1. published' = published + 1
    BY <1>4 DEF Stamped, Stamp
  <2>2. \A c \in Clients : view'[c] = view[c] \/ \E more : view'[c] = [view[c] EXCEPT !.lost = more]
    BY <1>4 DEF Stamped, Stamp
  <2>3. UNCHANGED shown
    BY <1>3, <2>2
  <2> QED BY <2>1, <2>3 DEF Feed!Next, Feed!Publish
<1>5. CASE Discard \/ Restart
  <2>1. UNCHANGED published
    BY <1>5 DEF Discard, Restart
  <2>2. \A c \in Clients : view'[c] = view[c] \/ \E more : view'[c] = [view[c] EXCEPT !.lost = more]
    BY <1>5 DEF Discard, Restart
  <2> QED BY <1>2, <1>3, <2>1, <2>2 DEF Feed!feedVars
<1>6. ASSUME NEW c \in Clients, ClientStep(c) \/ Drop(c)
      PROVE  [Feed!Next]_(Feed!feedVars)
  <2>1. CASE Receive(c) /\ ShowsEvent(c)
    <3>1. wire[c] # <<>> /\ published' = published
      BY <2>1 DEF Receive
    <3> QED BY <2>1, <3>1, ShowStep DEF Feed!Next
  <2>2. CASE ~(Receive(c) /\ ShowsEvent(c))
    <3>1. published' = published /\ \A d \in Clients : view'[d].shown = view[d].shown
      BY <1>6, <2>2, ShownKept DEF ClientStep
    <3> QED BY <1>2, <3>1 DEF Feed!feedVars
  <2> QED BY <2>1, <2>2
<1>7. CASE UNCHANGED stream
  BY <1>7 DEF stream, Feed!feedVars
<1> QED BY <1>4, <1>5, <1>6, <1>7, NextCases DEF GapInv

\* Whatever is dropped, replayed or renumbered, a frame shows events of the
\* session once and in the order they were published.
THEOREM ShownInOrder == Spec => ShowsInOrder
<1>1. Init => Feed!Init
  BY DEF Init, Feed!Init
<1> QED BY <1>1, SpecDelivery, FeedStep, PTL
        DEF Spec, ShowsInOrder, Feed!Spec

----------------------------------------------------------------------------
(* Whatever is held up between the bus and a frame, somebody can go on *)

\* Where the ends of a stream are: a pump whose subscription is off the bus
\* has the terminator before it, one that has returned is off the bus or has
\* overflowed, and in that case the frame has a close frame to read.
Forwarded(w, s) ==
    /\ \A m \in Elements(s.queue) : m.kind = "end" => m = End
    /\ \A m \in Elements(w) : m.kind # "end"
    /\ s.pumping /\ ~s.attached => End \in Elements(s.queue)
    /\ s.attached /\ ~s.pumping => s.overflowed
    /\ s.overflowed /\ ~s.pumping => CloseFrame \in Elements(w)

ForwardInv == \A c \in Clients : Forwarded(wire[c], sub[c])

\* A connection that has ended carries no ends.
LEMMA GoneForwarded == Forwarded(<<>>, NoSub)
BY EmptyElements DEF Forwarded, NoSub

\* put, overflow included, takes a reader off the bus only behind a terminator.
LEMMA PutForwarded ==
    ASSUME NEW c \in Clients, NEW w, NEW s \in Subscription, NEW m \in Message,
           m.kind = "end" => m = End, Forwarded(w, s), s.attached,
           s.overflowed /\ s.pumping => End \in Elements(s.queue),
           NEW t, t.queue = Put(c, s, m).queue,
           t.overflowed = Put(c, s, m).overflowed, t.pumping = Put(c, s, m).pumping,
           t.attached = Put(c, s, m).attached \/ (m = End /\ ~t.attached)
    PROVE  Forwarded(w, t)
<1>1. /\ s.queue \in Seq(Message) /\ QueueMax[c] \in Nat \ {0} /\ Len(s.queue) \in Nat
      /\ s.overflowed \in BOOLEAN /\ s.pumping \in BOOLEAN
  BY QueueAssumption DEF Subscription
<1>2. CASE Len(s.queue) < QueueMax[c]
  <2>1. /\ t.queue = Append(s.queue, m) /\ t.overflowed = s.overflowed
        /\ t.pumping = s.pumping /\ (t.attached = s.attached \/ (m = End /\ ~t.attached))
    BY <1>2 DEF Put, Subscription
  <2>2. Elements(t.queue) = Elements(s.queue) \cup {m}
    BY <1>1, <2>1, AppendMessage
  <2> QED BY <2>1, <2>2 DEF Forwarded
<1>3. CASE ~(Len(s.queue) < QueueMax[c]) /\ s.overflowed
  <2>1. Put(c, s, m) = s
    BY <1>3 DEF Put
  <2> QED BY <1>3, <2>1 DEF Forwarded
<1>4. CASE ~(Len(s.queue) < QueueMax[c]) /\ ~s.overflowed
  <2>1. /\ t.queue = Append(Tail(s.queue), End) /\ t.overflowed = TRUE
        /\ t.pumping = s.pumping /\ ~t.attached
    BY <1>4 DEF Put, Subscription
  <2>2. s.queue # <<>>
    BY <1>1, <1>4
  <2>3. PICK rest \in Seq(Message) : rest = Tail(s.queue) /\ Elements(rest) \subseteq Elements(s.queue)
    BY <1>1, <2>2, TailMessages
  <2>4. Elements(t.queue) = Elements(rest) \cup {End}
    BY <2>1, <2>3, EndCovers, AppendMessage
  <2>5. s.pumping
    BY <1>4 DEF Forwarded
  <2> QED BY <2>1, <2>3, <2>4, <2>5 DEF Forwarded
<1> QED BY <1>2, <1>3, <1>4

\* An event is put on the queues of those on the bus.
LEMMA PublishForwarded ==
    ASSUME GapInv, DeliveryInv, ForwardInv, Stamped PROVE ForwardInv'
<1> SUFFICES ASSUME NEW c \in Clients PROVE Forwarded(wire'[c], sub'[c])
  BY DEF ForwardInv
<1>1. PICK m : m = Event(bus.seq + 1)
  OBVIOUS
<1>2. m \in Message /\ m.kind # "end" /\ m # End
  BY <1>1, FrameTypes DEF Event, Message, Kinds, End
<1>3. /\ sub'[c] = IF sub[c].attached THEN Put(c, sub[c], m) ELSE sub[c]
      /\ wire'[c] = wire[c]
  BY <1>1 DEF Stamped, Stamp
<1>4. Forwarded(wire[c], sub[c]) /\ sub[c] \in Subscription
  BY FrameTypes DEF ForwardInv
<1>5. sub[c].overflowed /\ sub[c].pumping => End \in Elements(sub[c].queue)
  BY DEF DeliveryInv, FlowInv, Complete
<1>6. CASE sub[c].attached
  <2>1. sub'[c] = Put(c, sub[c], m)
    BY <1>3, <1>6
  <2> QED BY <1>2, <1>3, <1>4, <1>5, <1>6, <2>1, PutForwarded
<1> QED BY <1>3, <1>4, <1>6

\* The bus is closed: the terminator is put on every queue, or is on it.
LEMMA DiscardForwarded ==
    ASSUME GapInv, DeliveryInv, ForwardInv, Discard PROVE ForwardInv'
<1> SUFFICES ASSUME NEW c \in Clients PROVE Forwarded(wire'[c], sub'[c])
  BY DEF ForwardInv
<1>1. End \in Message
  BY EndCovers
<1>2. /\ sub'[c] = IF sub[c].attached
                   THEN [Put(c, sub[c], End) EXCEPT !.attached = FALSE] ELSE sub[c]
      /\ wire'[c] = wire[c]
  BY DEF Discard
<1>3. Forwarded(wire[c], sub[c]) /\ sub[c] \in Subscription
  BY FrameTypes DEF ForwardInv
<1>4. sub[c].overflowed /\ sub[c].pumping => End \in Elements(sub[c].queue)
  BY DEF DeliveryInv, FlowInv, Complete
<1>5. CASE sub[c].attached
  <2>1. PICK p \in Subscription : p = Put(c, sub[c], End)
    <3>1. End \in Plain
      BY DEF End, Plain, Message, Kinds
    <3> QED BY <3>1, PutToAll DEF GapInv
  <2>2. PICK t : t = [p EXCEPT !.attached = FALSE]
    OBVIOUS
  <2>3. /\ t.queue = p.queue /\ t.overflowed = p.overflowed /\ t.pumping = p.pumping
        /\ t.attached = FALSE
    BY <2>2 DEF Subscription
  <2>4. sub'[c] = t
    BY <1>2, <1>5, <2>1, <2>2
  <2> QED BY <1>1, <1>2, <1>3, <1>4, <1>5, <2>1, <2>3, <2>4, PutForwarded
<1> QED BY <1>2, <1>3, <1>5

\* A step of one frame's connection.
LEMMA OneForwarded ==
    ASSUME NEW c \in Clients, ForwardInv, Forwarded(wire'[c], sub'[c]),
           \A d \in Clients : d # c => sub'[d] = sub[d] /\ wire'[d] = wire[d]
    PROVE  ForwardInv'
BY DEF ForwardInv

\* A replay consists of events, and perhaps a gap.
LEMMA ReplayKinds ==
    ASSUME BufferInv, StreamInv, NEW since \in Nat
    PROVE  LET msgs == ReplayFrom(since)
           IN  msgs \in Seq(Message) /\ \A i \in 1 .. Len(msgs) : msgs[i].kind # "end"
<1> DEFINE Shows == {m \in Message : m.kind # "end"}
<1>1. PICK h \in Seq(Shows) : h = bus.history
  <2>1. PICK k \in Seq(Plain) : k = bus.history /\ \A i \in 1 .. Len(k) : k[i].kind = "event"
    BY DEF BufferInv, StreamInv
  <2>2. \A i \in 1 .. Len(k) : k[i] \in Shows
    BY <2>1 DEF Plain
  <2> HIDE DEF Shows
  <2>3. k \in Seq(Shows)
    BY <2>2
  <2> QED BY <2>1, <2>3
<1>2. PICK len \in Nat : len = Len(h) /\ DOMAIN h = 1 .. len
  OBVIOUS
<1>3. PICK aged : aged = Cardinality({i \in DOMAIN h : h[i].from <= since})
  OBVIOUS
<1>4. aged \in Nat
  <2>1. {i \in DOMAIN h : h[i].from <= since} \in SUBSET (1 .. len) /\ IsFiniteSet(1 .. len)
    BY <1>2, FS_Interval
  <2> QED BY <1>3, <2>1, FS_Subset, FS_CardinalityType
<1>5. PICK missed : missed = SubSeq(h, aged + 1, len)
  OBVIOUS
<1>6. missed \in Seq(Shows)
  <2>1. \A i \in aged + 1 .. len : h[i] \in Shows
    BY <1>2, <1>4
  <2> HIDE DEF Shows
  <2> QED BY <1>2, <1>4, <1>5, <2>1, SubSeqProperties
<1>7. PICK msgs : msgs = ReplayFrom(since)
  OBVIOUS
<1>8. msgs \in Seq(Shows)
  <2>1. CASE h # <<>> /\ since + 1 < h[1].from
    <3>1. PICK gap : gap = Gap(since + 1, h[1].from - 1)
      OBVIOUS
    <3>2. msgs = <<gap>> \o missed
      BY <1>1, <1>2, <1>3, <1>5, <1>7, <2>1, <3>1 DEF ReplayFrom
    <3>3. gap \in Shows
      <4>1. h[1] \in Message
        BY <2>1
      <4>2. h[1].from \in Nat /\ bus.base \in Nat
        BY <4>1 DEF Message, BufferInv
      <4>3. since + 1 \in Nat /\ h[1].from - 1 \in Nat
        BY <2>1, <4>2
      <4> QED BY <3>1, <4>2, <4>3 DEF Gap, Message, Kinds
    <3>4. <<gap>> \in Seq(Shows)
      BY <3>3
    <3> HIDE DEF Shows
    <3> QED BY <1>6, <3>2, <3>4, ConcatProperties
  <2>2. CASE ~(h # <<>> /\ since + 1 < h[1].from)
    <3>1. msgs = missed
      BY <1>1, <1>2, <1>3, <1>5, <1>7, <2>2 DEF ReplayFrom
    <3> QED BY <1>6, <3>1
  <2> QED BY <2>1, <2>2
<1>9. \A i \in 1 .. Len(msgs) : msgs[i] \in Shows
  BY <1>8
<1>10. Seq(Shows) \subseteq Seq(Message)
  OBVIOUS
<1> QED BY <1>7, <1>8, <1>9, <1>10

\* A new subscription is on the bus and pumped; its replay holds no
\* terminator but that of an overflow.
LEMMA ConnectForwarded ==
    ASSUME GapInv, DeliveryInv, ForwardInv, NEW c \in Clients, Connect(c) PROVE ForwardInv'
<1>1. PICK msgs : msgs = IF lastSeq[c] = 0 THEN <<>> ELSE ReplayFrom(lastSeq[c])
  OBVIOUS
<1>2. msgs \in Seq(Message) /\ \A i \in 1 .. Len(msgs) : msgs[i].kind # "end"
  <2>1. CASE lastSeq[c] = 0
    <3>1. msgs = <<>> /\ Len(<<>>) = 0 /\ <<>> \in Seq(Message)
      BY <1>1, <2>1
    <3> QED BY <3>1
  <2>2. CASE lastSeq[c] # 0
    BY <1>1, <2>2, ReplayKinds, FrameTypes DEF GapInv, DeliveryInv
  <2> QED BY <2>1, <2>2
<1>3. sub'[c] = Backfilled(c, msgs) /\ wire'[c] = <<>>
  <2>1. wire[c] = <<>> /\ conn[c] # "open"
    BY DEF Connect, DeliveryInv, FrameInv
  <2> QED BY <1>1, <2>1 DEF Connect, GapInv, RouteInv
<1>4. PICK t : t = Backfilled(c, msgs)
  OBVIOUS
<1>5. t.attached /\ t.pumping
  BY <1>2, <1>4, BackfilledQueue
<1>6. \A m \in Elements(t.queue) : m.kind = "end" => m = End
  <2>1. CASE Len(msgs) <= QueueMax[c]
    <3>1. t.queue = msgs
      BY <1>2, <1>4, <2>1, BackfilledQueue
    <3> QED BY <1>2, <3>1, ElementsIn
  <2>2. CASE ~(Len(msgs) <= QueueMax[c])
    <3>1. PICK max \in Nat \ {0} : max = QueueMax[c]
      BY QueueAssumption
    <3>2. /\ t.queue \in Seq(Message) /\ Len(t.queue) = max /\ t.queue[max] = End
          /\ \A i \in 1 .. max - 1 : t.queue[i] = msgs[i + 1]
      BY <1>2, <1>4, <2>2, <3>1, BackfilledQueue
    <3>3. Elements(t.queue) = {t.queue[i] : i \in 1 .. max}
      BY <3>2, ElementsIn
    <3>4. ASSUME NEW i \in 1 .. max PROVE t.queue[i] = End \/ t.queue[i].kind # "end"
      <4>1. CASE i = max
        BY <3>2, <4>1
      <4>2. CASE i # max
        <5>1. i \in 1 .. max - 1 /\ i + 1 \in 1 .. Len(msgs)
          BY <1>2, <2>2, <3>1, <4>2
        <5> QED BY <1>2, <3>2, <5>1
      <4> QED BY <4>1, <4>2
    <3> QED BY <3>3, <3>4
  <2> QED BY <2>1, <2>2
<1>7. Forwarded(<<>>, t)
  BY <1>5, <1>6, EmptyElements DEF Forwarded
<1>8. \A d \in Clients : d # c => sub'[d] = sub[d] /\ wire'[d] = wire[d]
  BY DEF Connect, GapInv, RouteInv
<1> QED BY <1>3, <1>4, <1>7, <1>8, OneForwarded

\* The pump takes the terminator and returns, with a close frame if the reader
\* has overflowed; or it passes on what is no terminator.
LEMMA PumpForwarded ==
    ASSUME GapInv, DeliveryInv, ForwardInv, NEW c \in Clients, Pump(c) PROVE ForwardInv'
<1>1. PICK s \in Subscription : s = sub[c] /\ s.queue \in Seq(Message)
  BY FrameTypes
<1>2. PICK w \in Seq(Message) : w = wire[c]
  BY FrameTypes
<1>3. /\ s.pumping /\ s.queue # <<>>
      /\ sub' = [sub EXCEPT ![c].queue = Tail(@), ![c].pumping = Head(s.queue) # End]
      /\ wire' = IF Head(s.queue) # End THEN [wire EXCEPT ![c] = Append(@, Head(s.queue))]
                 ELSE IF s.overflowed THEN [wire EXCEPT ![c] = Append(@, CloseFrame)]
                 ELSE wire
  BY <1>1 DEF Pump
<1>4. sub \in [Clients -> Subscription] /\ wire \in [Clients -> Seq(Message)]
  BY DEF GapInv, RouteInv
<1>5. PICK t : t = sub'[c]
  OBVIOUS
<1>6. /\ t.queue = Tail(s.queue) /\ t.pumping = (Head(s.queue) # End)
      /\ t.attached = s.attached /\ t.overflowed = s.overflowed
  <2>1. sub' = [sub EXCEPT ![c] = [s EXCEPT !.queue = Tail(s.queue),
                                            !.pumping = Head(s.queue) # End]]
    BY <1>1, <1>3
  <2>2. t = [s EXCEPT !.queue = Tail(s.queue), !.pumping = Head(s.queue) # End]
    BY <1>4, <1>5, <2>1
  <2> QED BY <2>2 DEF Subscription
<1>7. \A d \in Clients : d # c => sub'[d] = sub[d] /\ wire'[d] = wire[d]
  BY <1>3, <1>4
<1>8. /\ Head(s.queue) \in Message
      /\ Elements(s.queue) = Elements(Tail(s.queue)) \cup {Head(s.queue)}
  BY <1>1, <1>3, TailMessages
<1>9. /\ Forwarded(w, s)
      /\ s.attached /\ ~s.overflowed => End \notin Elements(s.queue)
      /\ s.overflowed /\ s.pumping => End \in Elements(s.queue)
  BY <1>1, <1>2 DEF ForwardInv, DeliveryInv, FlowInv, Complete
<1>10. CASE Head(s.queue) # End
  <2>1. wire'[c] = Append(w, Head(s.queue))
    BY <1>2, <1>3, <1>4, <1>10
  <2>2. Elements(wire'[c]) = Elements(w) \cup {Head(s.queue)}
    BY <1>8, <2>1, AppendMessage
  <2>3. Forwarded(wire'[c], t)
    BY <1>3, <1>6, <1>8, <1>9, <1>10, <2>2 DEF Forwarded
  <2> QED BY <1>5, <1>7, <2>3, OneForwarded
<1>11. CASE Head(s.queue) = End
  <2>1. s.attached => s.overflowed
    BY <1>8, <1>9, <1>11
  <2>2. CASE s.overflowed
    <3>1. wire'[c] = Append(w, CloseFrame)
      BY <1>2, <1>3, <1>4, <1>11, <2>2
    <3>2. Elements(wire'[c]) = Elements(w) \cup {CloseFrame} /\ CloseFrame.kind # "end"
      BY <3>1, EndCovers, AppendMessage DEF CloseFrame
    <3>3. Forwarded(wire'[c], t)
      BY <1>6, <1>8, <1>9, <1>11, <2>2, <3>2 DEF Forwarded
    <3> QED BY <1>5, <1>7, <3>3, OneForwarded
  <2>3. CASE ~s.overflowed
    <3>1. wire'[c] = w
      BY <1>2, <1>3, <1>11, <2>3
    <3>2. Forwarded(wire'[c], t)
      BY <1>6, <1>8, <1>9, <1>11, <2>1, <2>3, <3>1 DEF Forwarded
    <3> QED BY <1>5, <1>7, <3>2, OneForwarded
  <2> QED BY <2>2, <2>3
<1> QED BY <1>10, <1>11

\* A connection ends.
LEMMA DisconnectForwarded ==
    ASSUME GapInv, ForwardInv, NEW c \in Clients, Disconnect(c) PROVE ForwardInv'
<1>1. /\ sub'[c] = NoSub /\ wire'[c] = <<>>
      /\ \A d \in Clients : d # c => sub'[d] = sub[d] /\ wire'[d] = wire[d]
  BY DEF GapInv, RouteInv, Disconnect
<1> QED BY <1>1, GoneForwarded, OneForwarded

\* The frame reads on, or is told that its connection is closed.
LEMMA ReceiveForwarded ==
    ASSUME GapInv, DeliveryInv, ForwardInv, NEW c \in Clients, Receive(c) PROVE ForwardInv'
<1>1. PICK w \in Seq(Message) : w = wire[c]
  BY FrameTypes
<1>2. CASE Disconnect(c)
  BY <1>2, DisconnectForwarded
<1>3. CASE ~Disconnect(c)
  <2>1. /\ w # <<>> /\ Head(w).kind \in {"event", "gap"}
        /\ wire' = [wire EXCEPT ![c] = Tail(@)] /\ sub' = sub
    BY <1>1, <1>3 DEF Receive
  <2>2. /\ wire'[c] = Tail(w)
        /\ \A d \in Clients : d # c => sub'[d] = sub[d] /\ wire'[d] = wire[d]
    BY <1>1, <2>1 DEF GapInv, RouteInv
  <2>3. Elements(w) = Elements(Tail(w)) \cup {Head(w)} /\ Head(w) # CloseFrame
    BY <1>1, <2>1, TailMessages DEF CloseFrame
  <2>4. Forwarded(w, sub[c])
    BY <1>1 DEF ForwardInv
  <2>5. Forwarded(wire'[c], sub'[c])
    BY <2>1, <2>2, <2>3, <2>4 DEF Forwarded
  <2> QED BY <2>2, <2>5, OneForwarded
<1> QED BY <1>2, <1>3

\* The invariant holds at first.
LEMMA InitForwarded == Init => ForwardInv
<1> SUFFICES ASSUME Init, NEW c \in Clients PROVE Forwarded(wire[c], sub[c])
  BY DEF ForwardInv
<1>1. wire[c] = <<>> /\ sub[c] = NoSub
  BY DEF Init
<1> QED BY <1>1, GoneForwarded

\* Every step keeps it.
LEMMA NextForwarded == GapInv /\ DeliveryInv /\ TurnInv /\ ForwardInv /\ [Next]_vars => ForwardInv'
<1> SUFFICES ASSUME GapInv, DeliveryInv, TurnInv, ForwardInv, [Next]_vars PROVE ForwardInv'
  OBVIOUS
<1>1. CASE Stamped
  BY <1>1, PublishForwarded
<1>2. CASE Discard
  BY <1>2, DiscardForwarded
<1>3. CASE Restart
  <2>1. \A c \in Clients : wire'[c] = <<>> /\ sub'[c] = NoSub
    BY <1>3 DEF Restart
  <2> QED BY <2>1, GoneForwarded DEF ForwardInv
<1>4. ASSUME NEW c \in Clients, ClientStep(c) \/ Drop(c) PROVE ForwardInv'
  <2>1. CASE Drop(c)
    BY <2>1, DisconnectForwarded DEF Drop
  <2> QED BY <1>4, <2>1, ConnectForwarded, PumpForwarded, ReceiveForwarded DEF ClientStep
<1>5. CASE UNCHANGED stream
  BY <1>5 DEF stream, ForwardInv
<1> QED BY <1>1, <1>2, <1>3, <1>4, <1>5, NextCases DEF GapInv

\* The invariant holds throughout.
LEMMA SpecForwarded == Spec => [](GapInv /\ DeliveryInv /\ ForwardInv)
BY SpecDelivery, InitForwarded, NextForwarded, PTL DEF Spec

\* The guards of a frame's own steps: its reconnect, its pump, its reading.
Ready(c) ==
    \/ conn[c] # "open"
    \/ sub[c].pumping /\ sub[c].queue # <<>> /\ Len(wire[c]) < WireMax
    \/ wire[c] # <<>> /\ Head(wire[c]).kind \in {"event", "gap", "close"}

NoFrameStalls == \A c \in Clients : Ready(c) \/ CaughtUp(c) \/ Starved(c)

\* No frame waits for nobody: one that is not caught up can reconnect, be sent
\* the next message or read one (bus.py:55-67, server.py:869-873,
\* console.js:313-328), unless its bus was closed under it.  With the
\* fairness of its steps this is what CatchesUp rests on.
THEOREM FramesNeverStall == Spec => []NoFrameStalls
<1>1. GapInv /\ DeliveryInv /\ ForwardInv => NoFrameStalls
  <2> SUFFICES ASSUME GapInv, DeliveryInv, ForwardInv, NEW c \in Clients,
                      ~Ready(c), ~Starved(c)
               PROVE  CaughtUp(c)
    BY DEF NoFrameStalls
  <2>1. PICK w \in Seq(Message) : w = wire[c]
    BY FrameTypes
  <2>2. conn[c] = "open" /\ Forwarded(w, sub[c])
    BY <2>1 DEF Ready, ForwardInv
  <2>3. w = <<>>
    <3> SUFFICES ASSUME w # <<>> PROVE FALSE
      OBVIOUS
    <3>1. Head(w) \in Message /\ Head(w) \in Elements(w)
      BY TailMessages
    <3>2. Head(w).kind \in {"event", "gap", "close"}
      BY <2>2, <3>1 DEF Forwarded, Message, Kinds
    <3> QED BY <2>1, <3>2 DEF Ready
  <2>4. Elements(w) = {} /\ Len(w) < WireMax
    BY <2>3, EmptyElements, WireAssumption
  <2>5. sub[c].pumping
    BY <2>2, <2>4 DEF Starved, Forwarded
  <2>6. sub[c].queue = <<>>
    BY <2>1, <2>4, <2>5 DEF Ready
  <2>7. sub[c].attached
    BY <2>2, <2>5, <2>6, EmptyElements DEF Forwarded
  <2> QED BY <2>1, <2>2, <2>3, <2>5, <2>6, <2>7 DEF CaughtUp
<1> QED BY <1>1, SpecForwarded, PTL

CaughtUpHasAll ==
    \A c \in Clients : CaughtUp(c) =>
        /\ view[c].joined + 1 .. published \subseteq Settled(c)
        /\ \A t \in Turns : holds[t] \notin {0, buses} => holds[t] \in closed

\* To have caught up means what it says: every event that got a seq since the
\* frame joined was shown to it, announced as a gap, or lost to one of the
\* known causes (an overflow, bus.py:63, or a seq of an earlier bus,
\* console.js:315).  The only turns whose events it does not see are those
\* whose bus an archive or a delete closed under them (bus.py:145-146).
THEOREM CaughtUpIsComplete == Spec => []CaughtUpHasAll
<1>1. DeliveryInv /\ TurnInv => CaughtUpHasAll
  <2> SUFFICES ASSUME DeliveryInv, TurnInv, NEW c \in Clients, CaughtUp(c)
               PROVE  view[c].joined + 1 .. published \subseteq Settled(c)
    BY DEF CaughtUpHasAll, TurnInv
  <2>1. /\ sub[c].attached /\ sub[c].pumping /\ sub[c].queue = <<>> /\ wire[c] = <<>>
        /\ Complete(wire[c], sub[c], view[c].joined, LastShown(c), Settled(c), published)
    BY DEF CaughtUp, DeliveryInv, FlowInv
  <2>2. ~sub[c].overflowed
    BY <2>1, EmptyElements DEF Complete
  <2>3. Held(wire[c], sub[c].queue) = {}
    BY <2>1, EmptyElements DEF Held
  <2> QED BY <2>1, <2>2, <2>3 DEF Complete
<1> QED BY <1>1, SpecDelivery, PTL
=============================================================================
