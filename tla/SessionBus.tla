----------------------------- MODULE SessionBus -----------------------------
(***************************************************************************)
(* The stream of one session, from SessionBus.publish (src/bus.py) through *)
(* a subscription, the /stream socket that pumps it (src/server.py) and    *)
(* the frame that shows it and reconnects (src/console/console.js).        *)
(*                                                                         *)
(* publish, subscribe and close never yield, so each is one action.  The   *)
(* socket's pump and the browser run on their own.                         *)
(*                                                                         *)
(* An event is known to the code by its seq, which starts again with every *)
(* bus.  Here a message also carries "base", the number of events published*)
(* before its bus was made, so that base + seq numbers the events of the   *)
(* session; no guard reads it.                                             *)
(***************************************************************************)
EXTENDS Naturals, Sequences, FiniteSets

CONSTANTS
    Clients,        \* the frames watching the session
    Turns,          \* turns in progress at a time
    QueueMax,       \* maxsize of each one's subscriptions
    ReplayMax,      \* replay_max of the buses
    WireMax,        \* bound: messages a socket buffers before send waits
    MaxPublished,   \* bound: events
    MaxDrops,       \* bound: connections lost to the network
    MaxBuses        \* bound: buses made for the session

ASSUME QueueAssumption == QueueMax \in [Clients -> Nat \ {0}]
ASSUME ReplayAssumption == ReplayMax \in Nat \ {0}
ASSUME WireAssumption == WireMax \in Nat \ {0}
ASSUME LimitsAssumption == MaxPublished \in Nat /\ MaxDrops \in Nat /\ MaxBuses \in Nat \ {0}

VARIABLES
    bus,        \* the session's current bus: seq and replay buffer
    sub,        \* each frame's subscription
    wire,       \* what its socket has been sent and the frame has not read
    conn,       \* the frame's socket: new, closed or open
    lastSeq,    \* the frame's lastSeq
    holds,      \* the bus each turn fetched when it began, 0 for none
    closed,     \* the buses close() was called on
    published,  \* history: events given a seq over all buses
    unstamped,  \* history: events given back by a closed bus
    view,       \* history: what each frame has shown, been told of and lost
    drops, buses

turnVars == <<holds, closed, unstamped>>
vars == <<bus, sub, wire, conn, lastSeq, published, view, drops, buses, turnVars>>

----------------------------------------------------------------------------
(* Messages *)

Kinds == {"event", "gap", "end", "close"}
Message == [kind: Kinds, from: Nat, to: Nat, base: Nat]

Event(n) == [kind |-> "event", from |-> n, to |-> n, base |-> bus.base]
Gap(from, to) == [kind |-> "gap", from |-> from, to |-> to, base |-> bus.base]
\* None on a queue, and the 4429 close frame on a socket.
End == [kind |-> "end", from |-> 1, to |-> 0, base |-> 0]
CloseFrame == [kind |-> "close", from |-> 1, to |-> 0, base |-> 0]

\* The events of the session a message stands for.
Covers(m) == m.base + m.from .. m.base + m.to

NoSub == [queue |-> <<>>, overflowed |-> FALSE, attached |-> FALSE, pumping |-> FALSE]

\* Nothing out of range is ever numbered, sent or counted: a queue keeps
\* within its maxsize, the replay buffer within its maxlen.
TypeOK ==
    /\ bus \in [seq: 0 .. MaxPublished, history: Seq(Message), base: 0 .. MaxPublished]
    /\ Len(bus.history) <= ReplayMax
    /\ sub \in [Clients -> [queue: Seq(Message), overflowed: BOOLEAN,
                            attached: BOOLEAN, pumping: BOOLEAN]]
    /\ \A c \in Clients : Len(sub[c].queue) <= QueueMax[c]
    /\ wire \in [Clients -> Seq(Message)]
    /\ \A c \in Clients : Len(wire[c]) <= WireMax
    /\ conn \in [Clients -> {"new", "closed", "open"}]
    /\ lastSeq \in [Clients -> 0 .. MaxPublished]
    /\ published \in 0 .. MaxPublished
    /\ view \in [Clients -> [joined: 0 .. MaxPublished, base: 0 .. MaxPublished,
                             shown: Seq(1 .. MaxPublished),
                             announced: SUBSET (1 .. MaxPublished),
                             lost: SUBSET (1 .. MaxPublished)]]
    /\ drops \in 0 .. MaxDrops
    /\ buses \in 1 .. MaxBuses
    /\ holds \in [Turns -> 0 .. MaxBuses]
    /\ closed \in SUBSET (1 .. MaxBuses)
    /\ unstamped \in 0 .. MaxPublished

----------------------------------------------------------------------------
(* A subscription's queue *)

\* _put and _overflow: a full queue gives up its oldest event for the
\* terminator, once, and the reader is taken off the bus.
Put(c, s, m) ==
    IF Len(s.queue) < QueueMax[c] THEN [s EXCEPT !.queue = Append(@, m)]
    ELSE IF s.overflowed THEN s
    ELSE [s EXCEPT !.queue = Append(Tail(@), End), !.overflowed = TRUE, !.attached = FALSE]

\* What that put costs the reader.
Evicts(c, s) ==
    IF Len(s.queue) < QueueMax[c] \/ s.overflowed THEN {} ELSE Covers(Head(s.queue))

\* _put of the messages one after the other on the queue of a new
\* subscription, which is attached even if that overflowed it.
Backfilled(c, msgs) ==
    [NoSub EXCEPT
        !.queue = IF Len(msgs) <= QueueMax[c] THEN msgs
                  ELSE Append(SubSeq(msgs, 2, QueueMax[c]), End),
        !.overflowed = Len(msgs) > QueueMax[c],
        !.attached = TRUE,
        !.pumping = TRUE]

\* Faulty variant: the replay buffer has no maxlen.
RetainAll(history, m) == Append(history, m)

\* Faulty variant: the buffer keeps one event less.
RetainTooFew(history, m) ==
    IF Len(history) < ReplayMax - 1 THEN Append(history, m) ELSE Append(Tail(history), m)

\* deque(maxlen=replay_max).append
Retain(history, m) ==
    IF Len(history) < ReplayMax THEN Append(history, m) ELSE Append(Tail(history), m)

\* Faulty variant: the event just after "since" is taken for shown.
ReplayFromTooLate(since) ==
    LET h == bus.history
        aged == Cardinality({i \in DOMAIN h : h[i].from <= since + 1})
        missed == SubSeq(h, aged + 1, Len(h)) IN
    IF h # <<>> /\ since + 1 < h[1].from
    THEN <<Gap(since + 1, h[1].from - 1)>> \o missed
    ELSE missed

\* Faulty variant: the last event shown is replayed too.
ReplayFromInclusive(since) ==
    LET h == bus.history
        aged == Cardinality({i \in DOMAIN h : h[i].from < since})
        missed == SubSeq(h, aged + 1, Len(h)) IN
    IF h # <<>> /\ since + 1 < h[1].from
    THEN <<Gap(since + 1, h[1].from - 1)>> \o missed
    ELSE missed

\* _replay_from.  The buffer is in order of seq, so the events after "since"
\* are a suffix.
ReplayFrom(since) ==
    LET h == bus.history
        aged == Cardinality({i \in DOMAIN h : h[i].from <= since})
        missed == SubSeq(h, aged + 1, Len(h)) IN
    IF h # <<>> /\ since + 1 < h[1].from
    THEN <<Gap(since + 1, h[1].from - 1)>> \o missed
    ELSE missed

----------------------------------------------------------------------------
(* The bus *)

\* A turn fetches the session's bus once, and keeps it for all its events.
BeginTurn(t) ==
    /\ holds[t] = 0
    /\ holds' = [holds EXCEPT ![t] = buses]
    /\ UNCHANGED <<bus, sub, wire, conn, lastSeq, published, view, drops, buses, closed, unstamped>>

EndTurn(t) ==
    /\ holds[t] # 0
    /\ holds' = [holds EXCEPT ![t] = 0]
    /\ UNCHANGED <<bus, sub, wire, conn, lastSeq, published, view, drops, buses, closed, unstamped>>

\* What anyone publishes goes to the session's bus by its name, what a turn
\* publishes to the bus it holds.
Reachable == {buses} \cup {holds[t] : t \in {u \in Turns : holds[u] # 0}}

\* A closed bus gives the event back as it is: it gets no seq, and no reader
\* and no sink sees it.
GiveBack ==
    /\ unstamped' = unstamped + 1
    /\ UNCHANGED <<bus, sub, published, view>>

Stamp ==
    LET m == Event(bus.seq + 1) IN
    /\ published' = published + 1
    /\ bus' = [bus EXCEPT !.seq = @ + 1, !.history = Retain(@, m)]
    /\ sub' = [c \in Clients |-> IF sub[c].attached THEN Put(c, sub[c], m) ELSE sub[c]]
    /\ view' = [c \in Clients |->
                  IF sub[c].attached
                  THEN [view[c] EXCEPT !.lost = @ \cup Evicts(c, sub[c])]
                  ELSE view[c]]
    /\ UNCHANGED unstamped

Publish(b) ==
    /\ b \in Reachable
    /\ published + unstamped < MaxPublished
    /\ IF b \in closed THEN GiveBack ELSE Stamp
    /\ UNCHANGED <<wire, conn, lastSeq, drops, buses, holds, closed>>

NewBus ==
    /\ buses < MaxBuses
    /\ buses' = buses + 1
    /\ bus' = [seq |-> 0, history |-> <<>>, base |-> published]

\* The session is archived or deleted: its bus is closed and forgotten, and
\* the next use makes another.  A turn in progress keeps the closed one.
Discard ==
    /\ NewBus
    /\ sub' = [c \in Clients |->
                 IF sub[c].attached
                 THEN [Put(c, sub[c], End) EXCEPT !.attached = FALSE]
                 ELSE sub[c]]
    /\ view' = [c \in Clients |->
                  IF sub[c].attached
                  THEN [view[c] EXCEPT !.lost = @ \cup Evicts(c, sub[c])]
                  ELSE view[c]]
    /\ closed' = closed \cup {buses}
    /\ UNCHANGED <<wire, conn, lastSeq, published, drops, holds, unstamped>>

\* frame-main restarts: the bus is gone and every turn and socket with it.
Restart ==
    /\ NewBus
    /\ sub' = [c \in Clients |-> NoSub]
    /\ wire' = [c \in Clients |-> <<>>]
    /\ conn' = [c \in Clients |-> IF conn[c] = "open" THEN "closed" ELSE conn[c]]
    /\ holds' = [t \in Turns |-> 0]
    /\ UNCHANGED <<lastSeq, published, view, drops, closed, unstamped>>

----------------------------------------------------------------------------
(* The socket and the frame *)

LowerOf(a, b) == IF a < b THEN a ELSE b

LastShown(c) ==
    IF view[c].shown = <<>> THEN view[c].joined ELSE view[c].shown[Len(view[c].shown)]

\* The events a reconnect does not ask for: all of them when no seq was
\* shown yet, and when lastSeq is the seq of an earlier bus the rest of that
\* bus and as many events of this one.
Unasked(c) ==
    IF lastSeq[c] = 0 THEN view[c].joined + 1 .. published
    ELSE IF view[c].base = bus.base THEN {}
    ELSE LastShown(c) + 1 .. bus.base + LowerOf(lastSeq[c], bus.seq)

\* connect(): the frame opens its socket, with ?since= once it has shown
\* something, and the server subscribes it.
Connect(c) ==
    LET msgs == IF lastSeq[c] = 0 THEN <<>> ELSE ReplayFrom(lastSeq[c]) IN
    /\ conn[c] # "open"
    /\ conn' = [conn EXCEPT ![c] = "open"]
    /\ sub' = [sub EXCEPT ![c] = Backfilled(c, msgs)]
    /\ view' = IF conn[c] = "new"
               THEN [view EXCEPT ![c].joined = published, ![c].base = bus.base]
               ELSE [view EXCEPT ![c].lost =
                        @ \cup Unasked(c)
                          \cup (IF Len(msgs) > QueueMax[c] THEN Covers(msgs[1]) ELSE {})]
    /\ UNCHANGED <<bus, wire, lastSeq, published, drops, buses, turnVars>>

\* Faulty variant: the loop ends without a look at overflowed.
PumpWithoutClose(c) ==
    LET m == Head(sub[c].queue) IN
    /\ sub[c].pumping
    /\ sub[c].queue # <<>>
    /\ Len(wire[c]) < WireMax
    /\ sub' = [sub EXCEPT ![c].queue = Tail(@), ![c].pumping = m # End]
    /\ wire' = IF m # End THEN [wire EXCEPT ![c] = Append(@, m)] ELSE wire
    /\ UNCHANGED <<bus, conn, lastSeq, published, view, drops, buses, turnVars>>

\* pump(): the next message goes out, or the terminator ends the loop and
\* the socket is closed if the reader overflowed.
Pump(c) ==
    LET m == Head(sub[c].queue) IN
    /\ sub[c].pumping
    /\ sub[c].queue # <<>>
    /\ Len(wire[c]) < WireMax
    /\ sub' = [sub EXCEPT ![c].queue = Tail(@), ![c].pumping = m # End]
    /\ wire' = IF m # End THEN [wire EXCEPT ![c] = Append(@, m)]
               ELSE IF sub[c].overflowed THEN [wire EXCEPT ![c] = Append(@, CloseFrame)]
               ELSE wire
    /\ UNCHANGED <<bus, conn, lastSeq, published, view, drops, buses, turnVars>>

Disconnect(c) ==
    /\ conn' = [conn EXCEPT ![c] = "closed"]
    /\ sub' = [sub EXCEPT ![c] = NoSub]
    /\ wire' = [wire EXCEPT ![c] = <<>>]

\* The frame's onmessage, or its onclose for the close frame.
Receive(c) ==
    LET m == Head(wire[c]) IN
    /\ wire[c] # <<>>
    /\ \/ /\ m.kind = "event"
          /\ lastSeq' = [lastSeq EXCEPT ![c] = m.from]
          /\ view' = [view EXCEPT ![c].shown = Append(@, m.base + m.from), ![c].base = m.base]
          /\ wire' = [wire EXCEPT ![c] = Tail(@)]
          /\ UNCHANGED <<sub, conn>>
       \/ /\ m.kind = "gap"
          /\ view' = [view EXCEPT ![c].announced = @ \cup Covers(m)]
          /\ wire' = [wire EXCEPT ![c] = Tail(@)]
          /\ UNCHANGED <<sub, conn, lastSeq>>
       \/ /\ m.kind = "close"
          /\ Disconnect(c)
          /\ UNCHANGED <<lastSeq, view>>
    /\ UNCHANGED <<bus, published, drops, buses, turnVars>>

\* The connection is lost, with what it was carrying.
Drop(c) ==
    /\ conn[c] = "open"
    /\ drops < MaxDrops
    /\ drops' = drops + 1
    /\ Disconnect(c)
    /\ UNCHANGED <<bus, lastSeq, published, view, buses, turnVars>>

----------------------------------------------------------------------------

Init ==
    /\ bus = [seq |-> 0, history |-> <<>>, base |-> 0]
    /\ sub = [c \in Clients |-> NoSub]
    /\ wire = [c \in Clients |-> <<>>]
    /\ conn = [c \in Clients |-> "new"]
    /\ lastSeq = [c \in Clients |-> 0]
    /\ published = 0
    /\ view = [c \in Clients |-> [joined |-> 0, base |-> 0, shown |-> <<>>,
                                  announced |-> {}, lost |-> {}]]
    /\ drops = 0
    /\ buses = 1
    /\ holds = [t \in Turns |-> 0]
    /\ closed = {}
    /\ unstamped = 0

ClientStep(c) == Connect(c) \/ Pump(c) \/ Receive(c)

Next ==
    \/ \E b \in 1 .. MaxBuses : Publish(b)
    \/ \E t \in Turns : BeginTurn(t) \/ EndTurn(t)
    \/ Discard
    \/ Restart
    \/ \E c \in Clients : ClientStep(c) \/ Drop(c)

Spec == Init /\ [][Next]_vars

\* The pump runs while its socket takes messages, the frame reads what
\* arrives and its reconnect timer fires.
Fairness == \A c \in Clients : WF_vars(ClientStep(c))

FairSpec == Spec /\ Fairness

----------------------------------------------------------------------------
(* What the stream promises *)

Elements(q) == {q[i] : i \in DOMAIN q}
Pending(c) == UNION {Covers(m) : m \in Elements(sub[c].queue) \cup Elements(wire[c])}
Settled(c) == Elements(view[c].shown) \cup view[c].announced \cup view[c].lost

\* No event goes missing without a known cause.  Up to the last one a frame
\* shows, and for a reader that keeps up all the way to the last one
\* published, each event was shown, was announced as a gap, is on its way,
\* was the one evicted by an overflow (bus.py:63), or was never asked for
\* again (console.js:315).  Drops, overlapping replay and live events, and
\* the ageing of the replay buffer lose nothing else.  An event without a seq
\* is one that a closed bus gave back to its turn (bus.py:145-146), after an
\* archive or a delete; any other turn publishes on the bus the session's
\* readers are on, never on one that is abandoned and still numbers.
LossAccounted ==
    /\ \A c \in Clients : conn[c] # "new" =>
          /\ view[c].joined + 1 .. LastShown(c) \subseteq Settled(c)
          /\ sub[c].attached /\ ~sub[c].overflowed =>
                view[c].joined + 1 .. published \subseteq Settled(c) \cup Pending(c)
    /\ unstamped # 0 => closed # {}
    /\ \A t \in Turns : holds[t] \in {0, buses} \cup closed
    /\ buses \notin closed

\* A frame whose queue is no longer than the replay buffer is never told of
\* a gap: when there is one to tell, the backfill behind it fills the queue
\* and the gap itself is what the overflow evicts (bus.py:122-125, 60-66).
GapNeverSent ==
    \A c \in Clients : QueueMax[c] <= ReplayMax =>
        \A m \in Elements(sub[c].queue) \cup Elements(wire[c]) : m.kind # "gap"

\* The frame ends up with the whole of what is given a seq after it fell
\* behind or lost its connection, unless its bus was closed under it: then
\* the pump has returned and its socket stays open with nothing to carry.
CaughtUp(c) ==
    /\ conn[c] = "open"
    /\ sub[c].attached
    /\ sub[c].pumping
    /\ sub[c].queue = <<>>
    /\ wire[c] = <<>>

Starved(c) ==
    /\ conn[c] = "open"
    /\ ~sub[c].pumping
    /\ ~sub[c].overflowed

CatchesUp == \A c \in Clients : <>[](CaughtUp(c) \/ Starved(c))

\* Whatever is dropped and replayed, a frame shows events once and in order.
Feed == INSTANCE OrderedFeed WITH shown <- [c \in Clients |-> view[c].shown]
ShowsInOrder == Feed!Spec
=============================================================================
