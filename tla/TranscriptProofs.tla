-------------------------- MODULE TranscriptProofs --------------------------
(***************************************************************************)
(* For any number of readers, events and buses, wherever the threads       *)
(* switch: the transcript keeps the order of the bus, and accounts for     *)
(* every event, and what a row holds stays there.  The first invariant     *)
(* says what runs and rows look like, the second, on top of it, where each *)
(* event is.                                                               *)
(***************************************************************************)
EXTENDS Transcript, SequenceTheorems, TLAPS

----------------------------------------------------------------------------
(* The inductive invariant *)

\* An event that is to be stored alone.
Storing == writer.pc = "event" \/ writer.next = "event"

\* Seqs go up within a bus.
Counting ==
    /\ seq <= Len(stamps)
    /\ \A n \in Published : stamps[n].bus <= bus
    /\ \A n \in Published : stamps[n].bus = bus => stamps[n].seq <= seq
    /\ \A m, n \in Published : m < n /\ stamps[m].bus = stamps[n].bus =>
          stamps[m].seq < stamps[n].seq

\* Runs that are open or in someone's hand have begun, and the loop's own
\* steps go together.
InProgress ==
    /\ pending <= Len(stamps)
    /\ writer.run <= Len(stamps)
    /\ \A r \in Readers : reader[r] <= Len(stamps)
    /\ pending # None => stamps[pending].bus = bus
    /\ writer.next # "nothing" => writer.pc = "store"
    /\ writer.pc \in {"append", "store"} => writer.run # None
    /\ writer.pc = "append" =>
          /\ Len(stamps) # 0 /\ stamps[Len(stamps)].bus = bus
          /\ stamps[writer.run].bus = bus
          /\ pending \in {None, writer.run}
          /\ runs[writer.run] # {} \/ writer.run = Len(stamps)
          /\ \A p \in Events : Len(stamps) \notin runs[p]
    /\ pending # None /\ writer.pc # "append" => runs[pending] # {}
    /\ writer.pc \in {"store", "event"} => pending = None
    /\ writer.next = "close" => bus < MaxBuses
    /\ Storing =>
          /\ Len(stamps) # 0
          /\ \A p \in Events : Len(stamps) \notin runs[p]

\* What begins a row: the first event of a run, or an event stored alone.
Heads == {h \in Events : runs[h] # {} \/ \E s \in Events : table[s] = {h}}

\* A run begins with its first event and lies between two heads, on one bus;
\* a run that may still grow is the last.
Blocks ==
    /\ \A p \in Events, n \in Events : n \in runs[p] =>
          p \in runs[p] /\ p <= n /\ n <= Len(stamps) /\ stamps[n].bus = stamps[p].bus
    /\ \A p \in Events, h \in Heads : p < h => \A n \in runs[p] : n < h
    /\ \A h \in Heads : h <= Len(stamps)
    /\ pending # None => \A h \in Heads : h <= pending
    /\ writer.pc = "append" => \A h \in Heads : h <= writer.run

\* A row holds the event its seq is of, and with it only events of its run.
Rows ==
    \A s \in Events : table[s] # {} =>
        \E h \in table[s] :
            h <= Len(stamps) /\ stamps[h].seq = s /\ \A k \in table[s] : k = h \/ k \in runs[h]

IInv == RecordOK /\ Counting /\ InProgress /\ Blocks /\ Rows

recordVars == <<stamps, seq, bus, pending, runs, writer, reader, table, refused, raced, crashed>>

----------------------------------------------------------------------------
(* The helpers *)

\* Publishing leaves the stamps there were as they were.
LEMMA StampFacts ==
    ASSUME RecordOK, Publishing
    PROVE  /\ Len(stamps') = Len(stamps) + 1
           /\ \A n \in 1 .. Len(stamps) : stamps'[n] = stamps[n]
           /\ stamps'[Len(stamps) + 1] = [seq |-> seq + 1, bus |-> bus]
           /\ Len(stamps) \in Nat /\ Len(stamps) < MaxEvents
           /\ MaxEvents \in Nat
           /\ seq' = seq + 1 /\ seq \in Nat
<1>1. stamps \in Seq([seq: Events, bus: 1 .. MaxBuses]) /\ Len(stamps) \in Nat
  BY DEF RecordOK
<1>2. stamps' = Append(stamps, [seq |-> seq + 1, bus |-> bus])
  BY DEF Publishing, Stamp
<1>3. QED
  BY <1>1, <1>2, EventsAssumption DEF RecordOK, Publishing, Stamp, EventOrNone

\* A stamp is a record of a seq and a bus.
LEMMA StampType ==
    ASSUME RecordOK
    PROVE  /\ Len(stamps) \in Nat
           /\ \A n \in 1 .. Len(stamps) :
                 n \in Events /\ stamps[n].seq \in Events /\ stamps[n].bus \in Nat
<1>1. stamps \in Seq([seq: Events, bus: 1 .. MaxBuses]) /\ Len(stamps) \in Nat
  BY DEF RecordOK
<1>2. \A n \in 1 .. Len(stamps) : stamps[n] \in [seq: Events, bus: 1 .. MaxBuses]
  BY <1>1, ElementOfSeq
<1>3. \A n \in 1 .. Len(stamps) : n \in Events
  BY <1>1, EventsAssumption DEF RecordOK, Events
<1>4. QED
  BY <1>1, <1>2, <1>3, BusesAssumption

\* An insertion adds no row but one that fits.
LEMMA InsertFacts ==
    ASSUME RecordOK, NEW s \in Events, NEW E \in SUBSET Events, Insert(s, E)
    PROVE  /\ table' \in [Events -> SUBSET Events]
           /\ refused' \subseteq Events \X Events
           /\ \A u \in Events : table'[u] = table[u] \/ (u = s /\ table'[u] = E)
BY DEF RecordOK, Insert

----------------------------------------------------------------------------
(* Every step keeps the invariant *)

LEMMA InitInv == Init => IInv
<1> SUFFICES ASSUME Init PROVE IInv
  OBVIOUS
<1> USE DEF Init
<1>1. RecordOK
  BY EventsAssumption, BusesAssumption DEF RecordOK, Events, EventOrNone, Writer, IdleWriter, None, Held
<1>2. Counting
  BY DEF Counting, Published
<1>3. InProgress
  BY DEF InProgress, IdleWriter, None, Storing
<1>4. Heads = {}
  BY DEF Heads
<1>5. Blocks /\ Rows
  BY <1>4 DEF Blocks, Rows, IdleWriter, None
<1>6. QED
  BY <1>1, <1>2, <1>3, <1>5 DEF IInv

\* A published event is behind all others, and as yet in no row.
LEMMA PublishingKeeps ==
    ASSUME IInv, Publishing, UNCHANGED <<bus, runs, table>>
    PROVE  /\ stamps' \in Seq([seq: Events, bus: 1 .. MaxBuses]) /\ Len(stamps') <= MaxEvents
           /\ seq' \in EventOrNone
           /\ Counting'
           /\ Rows'
           /\ Heads' = Heads
           /\ \A p \in Events, k \in Events : k \in runs'[p] =>
                 p \in runs'[p] /\ p <= k /\ k <= Len(stamps') /\ stamps'[k].bus = stamps'[p].bus
           /\ \A p \in Events, h \in Heads' : p < h => \A k \in runs'[p] : k < h
           /\ \A h \in Heads' : h <= Len(stamps')
<1> DEFINE n == Len(stamps) + 1
<1>1. RecordOK /\ Counting /\ InProgress /\ Blocks /\ Rows
  BY DEF IInv
<1>2. /\ Len(stamps') = n /\ n \in Nat /\ n <= MaxEvents /\ MaxEvents \in Nat /\ n # 0
      /\ \A k \in 1 .. Len(stamps) : stamps'[k] = stamps[k]
      /\ stamps'[n] = [seq |-> seq + 1, bus |-> bus]
      /\ seq' = seq + 1 /\ seq \in Nat /\ Len(stamps) \in Nat
  BY <1>1, StampFacts
<1>3. UNCHANGED <<bus, runs, table>>
  OBVIOUS
<1>4. stamps' \in Seq([seq: Events, bus: 1 .. MaxBuses])
  <2>1. [seq |-> seq + 1, bus |-> bus] \in [seq: Events, bus: 1 .. MaxBuses]
    BY <1>1, <1>2 DEF RecordOK, Counting, Events
  <2>2. QED
    BY <2>1, <1>1 DEF RecordOK, Publishing, Stamp
<1>5. seq' \in EventOrNone
  BY <1>1, <1>2 DEF Counting, EventOrNone
<1>6. Counting'
  <2>1. /\ bus \in Nat
        /\ \A k \in 1 .. Len(stamps) : stamps[k].seq \in Nat /\ stamps[k].bus \in Nat
    <3>1. bus \in Nat
      BY <1>1, BusesAssumption DEF RecordOK
    <3>2. \A k \in 1 .. Len(stamps) : stamps[k].seq \in Events /\ stamps[k].bus \in Nat
      BY <1>1, StampType
    <3>3. QED
      BY <3>1, <3>2 DEF Events
  <2>2. seq' <= Len(stamps')
    BY <1>1, <1>2 DEF Counting
  <2>3. \A k \in Published' : /\ stamps'[k].bus <= bus'
                              /\ stamps'[k].bus = bus' => stamps'[k].seq <= seq'
    BY <1>1, <1>2, <1>3, <2>1 DEF Counting, Published
  <2>4. ASSUME NEW k \in Published', NEW m \in Published', k < m,
               stamps'[k].bus = stamps'[m].bus
        PROVE  stamps'[k].seq < stamps'[m].seq
    <3>1. k \in 1 .. Len(stamps)
      BY <1>2, <2>4 DEF Published
    <3>2. CASE m = n
      BY <3>1, <3>2, <1>1, <1>2, <2>1, <2>4 DEF Counting, Published
    <3>3. CASE m # n
      <4>1. m \in 1 .. Len(stamps)
        BY <3>3, <1>2 DEF Published
      <4>2. stamps'[k] = stamps[k] /\ stamps'[m] = stamps[m]
        BY <3>1, <4>1, <1>2
      <4>3. stamps[k].bus = stamps[m].bus
        BY <4>2, <2>4
      <4>4. stamps[k].seq < stamps[m].seq
        BY <3>1, <4>1, <4>3, <1>1, <2>4 DEF Counting, Published
      <4>5. QED
        BY <4>2, <4>4
    <3>4. QED
      BY <3>2, <3>3
  <2>5. QED
    BY <2>2, <2>3, <2>4 DEF Counting
<1>7. Rows'
  <2> SUFFICES ASSUME NEW s \in Events, table[s] # {}
               PROVE  \E h \in table[s] :
                         /\ h <= Len(stamps') /\ stamps'[h].seq = s
                         /\ \A k \in table[s] : k = h \/ k \in runs[h]
    BY <1>3 DEF Rows
  <2>1. PICK h \in table[s] :
               /\ h <= Len(stamps) /\ stamps[h].seq = s
               /\ \A k \in table[s] : k = h \/ k \in runs[h]
    BY <1>1 DEF Rows
  <2>2. h \in 1 .. Len(stamps)
    BY <2>1, <1>1, <1>2 DEF RecordOK, Events
  <2>3. QED
    BY <2>1, <2>2, <1>2
<1>8. Heads' = Heads
  BY <1>3 DEF Heads
<1>9. ASSUME NEW p \in Events, NEW k \in Events, k \in runs'[p]
      PROVE  p \in runs'[p] /\ p <= k /\ k <= Len(stamps') /\ stamps'[k].bus = stamps'[p].bus
  BY <1>9, <1>1, <1>2, <1>3 DEF Blocks, Events
<1>10. \A p \in Events, h \in Heads' : p < h => \A k \in runs'[p] : k < h
  BY <1>1, <1>3, <1>8 DEF Blocks
<1>11. \A h \in Heads' : h <= Len(stamps')
  <2> SUFFICES ASSUME NEW h \in Heads PROVE h <= Len(stamps')
    BY <1>8
  <2>1. h <= Len(stamps)
    BY <1>1 DEF Blocks
  <2>2. h \in Nat
    BY <1>2 DEF Heads, Events
  <2>3. QED
    BY <2>1, <2>2, <1>2
<1>12. QED
  BY <1>2, <1>4, <1>5, <1>6, <1>7, <1>8, <1>9, <1>10, <1>11

LEMMA WriteTextInv ==
    ASSUME IInv, WriteText
    PROVE  IInv'
<1> DEFINE n == Len(stamps) + 1
<1>1. RecordOK /\ Counting /\ InProgress /\ Blocks /\ Rows
  BY DEF IInv
<1>2. /\ Publishing
      /\ pending' = IF pending = None THEN n ELSE pending
      /\ writer' = [pc |-> "append", run |-> pending', next |-> "nothing"]
      /\ writer = IdleWriter
      /\ UNCHANGED <<bus, runs, reader, table, refused, raced, crashed, failed>>
  BY DEF WriteText, Publishing
<1>3. /\ Len(stamps') = n /\ n \in Nat /\ n <= MaxEvents /\ MaxEvents \in Nat /\ n # 0
      /\ \A k \in 1 .. Len(stamps) : stamps'[k] = stamps[k]
      /\ stamps'[n] = [seq |-> seq + 1, bus |-> bus]
      /\ Len(stamps) \in Nat
  BY <1>1, <1>2, StampFacts
<1>4. pending \in EventOrNone /\ pending <= Len(stamps) /\ n \in Events /\ pending' \in Events
  BY <1>1, <1>2, <1>3 DEF RecordOK, InProgress, Events, EventOrNone, None
<1>5. RecordOK'
  <2>1. writer' \in Writer
    BY <1>2, <1>4 DEF Writer, Events, EventOrNone
  <2>2. Held' = Held
    BY <1>2 DEF Held, IdleWriter
  <2>3. pending' \notin Held'
    BY <1>1, <1>2, <1>3, <2>2 DEF RecordOK, Held, InProgress, IdleWriter
  <2>4. /\ stamps' \in Seq([seq: Events, bus: 1 .. MaxBuses]) /\ Len(stamps') <= MaxEvents
        /\ seq' \in EventOrNone
    BY <1>2, PublishingKeeps
  <2>5. pending' \in EventOrNone
    BY <1>4, EventsAssumption DEF Events, EventOrNone
  <2>6. \A r \in Readers : reader'[r] # None =>
              /\ \A q \in Readers \ {r} : reader'[q] # reader'[r]
              /\ writer'.pc = "store" => writer'.run # reader'[r]
    BY <1>1, <1>2 DEF RecordOK
  <2>7. QED
    BY <1>1, <1>2, <2>1, <2>3, <2>4, <2>5, <2>6 DEF RecordOK
<1>6. InProgress'
  <2>1. pending' <= Len(stamps') /\ \A r \in Readers : reader'[r] <= Len(stamps')
    BY <1>1, <1>2, <1>3, <1>4 DEF InProgress, RecordOK, EventOrNone
  <2>2. stamps'[pending'].bus = bus'
    <3>1. CASE pending = None
      BY <3>1, <1>2, <1>3
    <3>2. CASE pending # None
      <4>1. pending \in 1 .. Len(stamps) /\ stamps[pending].bus = bus
        BY <3>2, <1>1, <1>3, <1>4 DEF InProgress, EventOrNone, None
      <4>2. QED
        BY <3>2, <4>1, <1>2, <1>3
    <3>3. QED
      BY <3>1, <3>2
  <2>3. runs'[pending'] # {} \/ pending' = n
    BY <1>1, <1>2 DEF InProgress, IdleWriter
  <2>4. \A q \in Events : n \notin runs'[q]
    BY <1>1, <1>2, <1>3, <1>4 DEF Blocks
  <2>5. pending' # None /\ stamps'[n].bus = bus'
    BY <1>2, <1>3, <1>4 DEF Events, None
  <2>6. QED
    BY <1>2, <1>3, <2>1, <2>2, <2>3, <2>4, <2>5 DEF InProgress, Storing
<1>7. \A h \in Heads : h <= pending'
  <2>1. CASE pending = None
    <3>1. \A h \in Heads : h <= Len(stamps) /\ h \in Nat
      BY <1>1, <1>3 DEF Blocks, Heads, Events
    <3>2. QED
      BY <2>1, <3>1, <1>2, <1>3
  <2>2. CASE pending # None
    BY <2>2, <1>1, <1>2 DEF Blocks
  <2>3. QED
    BY <2>1, <2>2
<1>8. Blocks'
  BY <1>2, <1>7, PublishingKeeps DEF Blocks
<1>9. QED
  BY <1>2, <1>5, <1>6, <1>8, PublishingKeeps DEF IInv

\* What Pop leaves, whatever comes after it.
LEMMA PopFacts ==
    ASSUME RecordOK, writer = IdleWriter, NEW next \in {"nothing", "event", "close"}, Pop(next)
    PROVE  /\ writer' \in Writer
           /\ pending' = None
           /\ writer'.run = pending
           /\ \/ pending # None /\ writer' = [pc |-> "store", run |-> pending, next |-> next]
              \/ pending = None /\ next = "event"
                    /\ writer' = [pc |-> "event", run |-> None, next |-> "nothing"]
              \/ pending = None /\ next # "event" /\ writer' = IdleWriter
BY DEF RecordOK, Pop, Writer, IdleWriter, EventOrNone, None

\* Popping hands the open run on, and to one thread only.
LEMMA PopHeld ==
    ASSUME RecordOK, writer = IdleWriter, NEW next \in {"nothing", "event", "close"}, Pop(next),
           UNCHANGED reader
    PROVE  /\ pending' \notin Held'
           /\ \A r \in Readers : reader'[r] # None =>
                 /\ \A q \in Readers \ {r} : reader'[q] # reader'[r]
                 /\ writer'.pc = "store" => writer'.run # reader'[r]
<1>1. \A h \in Held' : h # None
  BY PopFacts DEF Held, IdleWriter
<1>2. \A r \in Readers : reader[r] # None => reader[r] # pending
  BY DEF RecordOK, Held
<1>3. QED
  BY <1>1, <1>2, PopFacts DEF RecordOK, None

LEMMA WriteEventInv ==
    ASSUME IInv, WriteEvent
    PROVE  IInv'
<1> DEFINE n == Len(stamps) + 1
<1>1. RecordOK /\ Counting /\ InProgress /\ Blocks /\ Rows
  BY DEF IInv
<1>2. /\ Publishing /\ writer = IdleWriter /\ Pop("event")
      /\ UNCHANGED <<bus, runs, reader, table, refused, raced, crashed, failed>>
  BY DEF WriteEvent, Publishing
<1>3. /\ Len(stamps') = n /\ n \in Nat /\ n <= MaxEvents /\ MaxEvents \in Nat /\ n # 0
      /\ \A k \in 1 .. Len(stamps) : stamps'[k] = stamps[k]
      /\ Len(stamps) \in Nat
  BY <1>1, <1>2, StampFacts
<1>4. RecordOK'
  <2>1. /\ writer' \in Writer /\ pending' = None
        /\ pending' \notin Held'
        /\ \A r \in Readers : reader'[r] # None =>
              /\ \A q \in Readers \ {r} : reader'[q] # reader'[r]
              /\ writer'.pc = "store" => writer'.run # reader'[r]
    BY <1>1, <1>2, PopFacts, PopHeld
  <2>2. /\ stamps' \in Seq([seq: Events, bus: 1 .. MaxBuses]) /\ Len(stamps') <= MaxEvents
        /\ seq' \in EventOrNone
    BY <1>2, PublishingKeeps
  <2>3. QED
    BY <1>1, <1>2, <2>1, <2>2, EventsAssumption DEF RecordOK, EventOrNone, None
<1>5. InProgress'
  <2>1. /\ pending' = None
        /\ \/ pending # None /\ writer' = [pc |-> "store", run |-> pending, next |-> "event"]
           \/ pending = None /\ writer' = [pc |-> "event", run |-> None, next |-> "nothing"]
    BY <1>1, <1>2, PopFacts
  <2>2. \A p \in Events : n \notin runs'[p]
    BY <1>1, <1>2, <1>3 DEF Blocks, RecordOK, Events
  <2>3. QED
    BY <1>1, <1>2, <1>3, <2>1, <2>2 DEF InProgress, RecordOK, Storing, IdleWriter, None, EventOrNone
<1>6. Blocks'
  BY <1>1, <1>2, PublishingKeeps, PopFacts DEF Blocks, IdleWriter
<1>7. QED
  BY <1>2, <1>4, <1>5, <1>6, PublishingKeeps DEF IInv

LEMMA FlushInv ==
    ASSUME IInv, NEW t \in Turns, Flush(t)
    PROVE  IInv'
<1>1. RecordOK /\ Counting /\ InProgress /\ Blocks /\ Rows
  BY DEF IInv
<1>2. /\ writer = IdleWriter /\ Pop("nothing")
      /\ UNCHANGED <<stamps, seq, bus, runs, reader, table, refused, raced, crashed, failed>>
  BY DEF Flush
<1>3. RecordOK'
  <2>1. /\ writer' \in Writer /\ pending' = None
        /\ pending' \notin Held'
        /\ \A r \in Readers : reader'[r] # None =>
              /\ \A q \in Readers \ {r} : reader'[q] # reader'[r]
              /\ writer'.pc = "store" => writer'.run # reader'[r]
    BY <1>1, <1>2, PopFacts, PopHeld
  <2>2. QED
    BY <1>1, <1>2, <2>1, EventsAssumption DEF RecordOK, EventOrNone, None
<1>4. Counting' /\ Rows' /\ Heads' = Heads
  BY <1>1, <1>2 DEF Counting, Published, Rows, Heads
<1>5. InProgress'
  BY <1>1, <1>2, PopFacts DEF InProgress, RecordOK, Storing, IdleWriter, None
<1>6. Blocks'
  BY <1>1, <1>2, <1>4, PopFacts DEF Blocks, IdleWriter
<1>7. QED
  BY <1>3, <1>4, <1>5, <1>6 DEF IInv

\* A new bus counts from 0 and has published nothing.
LEMMA NewBusCounting ==
    ASSUME RecordOK, Counting, stamps' = stamps, bus' = bus + 1, seq' = 0
    PROVE  Counting'
<1>1. /\ Len(stamps) \in Nat /\ bus \in Nat
      /\ \A n \in 1 .. Len(stamps) : stamps[n].bus \in Nat
  BY StampType, BusesAssumption DEF RecordOK
<1>2. \A n \in Published : stamps[n].bus <= bus' /\ stamps[n].bus # bus'
  BY <1>1 DEF Counting, Published
<1>3. QED
  BY <1>1, <1>2 DEF Counting, Published

LEMMA ArchiveInv ==
    ASSUME IInv, Archive
    PROVE  IInv'
<1>1. RecordOK /\ Counting /\ InProgress /\ Blocks /\ Rows
  BY DEF IInv
<1>2. /\ writer = IdleWriter /\ Pop("close") /\ bus < MaxBuses
      /\ IF pending = None THEN bus' = bus + 1 /\ seq' = 0 ELSE UNCHANGED <<bus, seq>>
      /\ UNCHANGED <<stamps, runs, reader, table, refused, raced, crashed, failed>>
  BY DEF Archive, CloseBus, KeepBus
<1>3. /\ writer' \in Writer /\ pending' = None
      /\ \/ pending # None /\ writer' = [pc |-> "store", run |-> pending, next |-> "close"]
         \/ pending = None /\ writer' = IdleWriter
  BY <1>1, <1>2, PopFacts
<1>4. RecordOK'
  <2>1. /\ pending' \notin Held'
        /\ \A r \in Readers : reader'[r] # None =>
              /\ \A q \in Readers \ {r} : reader'[q] # reader'[r]
              /\ writer'.pc = "store" => writer'.run # reader'[r]
    BY <1>1, <1>2, PopHeld
  <2>2. bus' \in 1 .. MaxBuses /\ seq' \in EventOrNone
    BY <1>1, <1>2, BusesAssumption, EventsAssumption DEF RecordOK, EventOrNone
  <2>3. QED
    BY <1>1, <1>2, <1>3, <2>1, <2>2, EventsAssumption DEF RecordOK, EventOrNone, None
<1>5. Counting'
  <2>1. CASE pending = None
    BY <2>1, <1>1, <1>2, NewBusCounting
  <2>2. CASE pending # None
    BY <2>2, <1>1, <1>2 DEF Counting, Published
  <2>3. QED
    BY <2>1, <2>2
<1>6. Rows' /\ Heads' = Heads
  BY <1>1, <1>2 DEF Rows, Heads
<1>7. InProgress'
  BY <1>1, <1>2, <1>3 DEF InProgress, RecordOK, Storing, IdleWriter, None
<1>8. Blocks'
  BY <1>1, <1>2, <1>3, <1>6 DEF Blocks, IdleWriter
<1>9. QED
  BY <1>4, <1>5, <1>6, <1>7, <1>8 DEF IInv

LEMMA AppendChunkInv ==
    ASSUME IInv, AppendChunk
    PROVE  IInv'
<1> DEFINE n == Len(stamps)
           p == writer.run
<1>1. RecordOK /\ Counting /\ InProgress /\ Blocks /\ Rows
  BY DEF IInv
<1>2. /\ writer.pc = "append"
      /\ runs' = [runs EXCEPT ![p] = @ \cup {n}]
      /\ raced' \in {raced, raced \cup {n}}
      /\ writer' = IdleWriter
      /\ UNCHANGED <<stamps, seq, bus, pending, reader, table, refused, crashed, failed>>
  BY DEF AppendChunk
<1>3. /\ p \in Events /\ n \in Events /\ n \in Nat /\ p <= n
      /\ stamps[n].bus = bus /\ stamps[p].bus = bus
      /\ pending \in {None, p}
      /\ runs[p] # {} \/ p = n
      /\ \A q \in Events : n \notin runs[q]
      /\ MaxEvents \in Nat
  <2>1. n \in Nat /\ n <= MaxEvents /\ MaxEvents \in Nat
    BY <1>1, StampType, EventsAssumption DEF RecordOK
  <2>2. p \in EventOrNone
    BY <1>1 DEF RecordOK, Writer
  <2>3. /\ p # None /\ p <= n /\ n # 0
        /\ stamps[n].bus = bus /\ stamps[p].bus = bus
        /\ pending \in {None, p}
        /\ runs[p] # {} \/ p = n
        /\ \A q \in Events : n \notin runs[q]
    BY <1>1, <1>2 DEF InProgress
  <2>4. QED
    BY <2>1, <2>2, <2>3 DEF Events, EventOrNone, None
<1>4. /\ runs' \in [Events -> SUBSET Events]
      /\ runs'[p] = runs[p] \cup {n}
      /\ \A q \in Events : q # p => runs'[q] = runs[q]
  BY <1>1, <1>2, <1>3 DEF RecordOK
<1>5. RecordOK'
  <2>1. Held' = Held
    BY <1>2 DEF Held, IdleWriter
  <2>2. writer' \in Writer /\ writer'.pc = "idle"
    BY <1>2, <1>3 DEF Writer, IdleWriter, EventOrNone, None
  <2>3. raced' \subseteq Events
    BY <1>1, <1>2, <1>3 DEF RecordOK
  <2>4. QED
    BY <1>1, <1>2, <1>4, <2>1, <2>2, <2>3 DEF RecordOK, EventOrNone
<1>6. Counting'
  BY <1>1, <1>2 DEF Counting, Published
<1>7. Rows'
  BY <1>1, <1>2, <1>3, <1>4 DEF Rows, RecordOK
<1>8. \A h \in Heads' : h \in Heads \/ h = p
  BY <1>2, <1>4 DEF Heads
<1>9. InProgress'
  BY <1>1, <1>2, <1>3, <1>4 DEF InProgress, Storing, IdleWriter, None
<1>10. \A h \in Heads' : h <= p
  BY <1>1, <1>2, <1>3, <1>8 DEF Blocks, Events
<1>11. Blocks'
  <2>1. ASSUME NEW q \in Events, NEW k \in Events, k \in runs'[q]
        PROVE  q \in runs'[q] /\ q <= k /\ k <= Len(stamps') /\ stamps'[k].bus = stamps'[q].bus
    <3>1. CASE q # p
      BY <2>1, <3>1, <1>1, <1>2, <1>4 DEF Blocks
    <3>2. CASE q = p /\ k # n
      BY <2>1, <3>2, <1>1, <1>2, <1>4 DEF Blocks
    <3>3. CASE q = p /\ k = n
      <4>1. p \in runs'[p]
        BY <1>1, <1>3, <1>4 DEF Blocks, RecordOK
      <4>2. QED
        BY <4>1, <3>3, <1>2, <1>3
    <3>4. QED
      BY <3>1, <3>2, <3>3
  <2>2. ASSUME NEW q \in Events, NEW h \in Heads', q < h, NEW k \in runs'[q]
        PROVE  k < h
    <3>1. q # p /\ k \in runs[q] /\ k \in Events
      <4>1. h \in Events /\ h <= p
        BY <2>2, <1>10 DEF Heads
      <4>2. q # p
        BY <4>1, <2>2, <1>3 DEF Events
      <4>3. runs'[q] = runs[q] /\ runs[q] \subseteq Events
        BY <4>2, <1>1, <1>4 DEF RecordOK
      <4>4. QED
        BY <4>2, <4>3, <2>2
    <3>2. CASE h \in Heads
      BY <2>2, <3>1, <3>2, <1>1 DEF Blocks
    <3>3. CASE h \notin Heads
      <4>1. h = p /\ p = n
        BY <3>3, <1>8, <1>3 DEF Heads
      <4>2. k <= n /\ k # n
        BY <3>1, <1>1, <1>3 DEF Blocks
      <4>3. QED
        BY <4>1, <4>2, <3>1, <1>3 DEF Events
    <3>4. QED
      BY <3>2, <3>3
  <2>3. \A h \in Heads' : h <= Len(stamps')
    BY <1>1, <1>2, <1>3, <1>8 DEF Blocks
  <2>4. QED
    BY <2>1, <2>2, <2>3, <1>2, <1>3, <1>10 DEF Blocks, IdleWriter
<1>12. QED
  BY <1>5, <1>6, <1>7, <1>9, <1>11 DEF IInv

\* A row of one run, or of one event, fits, and begins with its head.
LEMMA InsertKeeps ==
    ASSUME RecordOK, Blocks, Rows, NEW h \in 1 .. Len(stamps), NEW E \in SUBSET Events,
           E = runs[h] \/ E = {h}, Insert(stamps[h].seq, E), UNCHANGED <<stamps, runs>>
    PROVE  /\ table' \in [Events -> SUBSET Events]
           /\ refused' \subseteq Events \X Events
           /\ Rows'
           /\ \A x \in Heads' : x \in Heads \/ (x = h /\ E = {h})
<1>1. stamps[h].seq \in Events /\ h \in Events /\ Len(stamps) \in Nat
  BY StampType
<1>2. /\ table' \in [Events -> SUBSET Events]
      /\ refused' \subseteq Events \X Events
      /\ \A u \in Events : table'[u] = table[u] \/ (u = stamps[h].seq /\ table'[u] = E)
  BY <1>1, InsertFacts
<1>3. E = {} \/ (h \in E /\ \A k \in E : k = h \/ k \in runs[h])
  BY <1>1 DEF Blocks
<1>4. Rows'
  <2> SUFFICES ASSUME NEW s \in Events, table'[s] # {}
               PROVE  \E x \in table'[s] :
                         /\ x <= Len(stamps) /\ stamps[x].seq = s
                         /\ \A k \in table'[s] : k = x \/ k \in runs[x]
    BY DEF Rows
  <2>1. CASE table'[s] = table[s]
    BY <2>1 DEF Rows
  <2>2. CASE s = stamps[h].seq /\ table'[s] = E
    BY <2>2, <1>1, <1>3
  <2>3. QED
    BY <2>1, <2>2, <1>2
<1>5. ASSUME NEW x \in Heads', x \notin Heads
      PROVE  x = h /\ E = {h}
  <2>1. x \in Events /\ runs[x] = {} /\ ~(\E s \in Events : table[s] = {x})
    BY <1>5 DEF Heads
  <2>2. PICK s \in Events : table'[s] = {x}
    BY <1>5, <2>1 DEF Heads
  <2>3. E = {x}
    BY <2>1, <2>2, <1>2
  <2>4. QED
    BY <2>1, <2>3, <1>3
<1>6. QED
  BY <1>2, <1>4, <1>5

LEMMA StoreRunInv ==
    ASSUME IInv, StoreRun
    PROVE  IInv'
<1>1. RecordOK /\ Counting /\ InProgress /\ Blocks /\ Rows
  BY DEF IInv
<1>2. /\ writer.pc = "store"
      /\ Insert(stamps[writer.run].seq, runs[writer.run])
      /\ writer' = IF writer.next = "event" THEN [pc |-> "event", run |-> None, next |-> "nothing"]
                   ELSE IdleWriter
      /\ IF writer.next = "close" THEN bus' = bus + 1 /\ seq' = 0 ELSE UNCHANGED <<bus, seq>>
      /\ UNCHANGED <<stamps, pending, runs, reader, raced, crashed, failed>>
  BY DEF StoreRun, CloseBus, KeepBus
<1>3. writer.run \in 1 .. Len(stamps) /\ runs[writer.run] \in SUBSET Events /\ pending = None
  BY <1>1, <1>2, StampType, EventsAssumption DEF RecordOK, InProgress, Writer, Events, EventOrNone, None
<1>4. /\ table' \in [Events -> SUBSET Events]
      /\ refused' \subseteq Events \X Events
      /\ Rows'
      /\ \A x \in Heads' : x \in Heads \/ (x = writer.run /\ runs[writer.run] = {writer.run})
  <2> DEFINE h == writer.run
             E == runs[writer.run]
  <2>1. h \in 1 .. Len(stamps) /\ E \in SUBSET Events /\ (E = runs[h] \/ E = {h})
    BY <1>3
  <2>2. Insert(stamps[h].seq, E) /\ UNCHANGED <<stamps, runs>>
    BY <1>2
  <2> HIDE DEF h, E
  <2>3. QED
    BY <1>1, <2>1, <2>2, InsertKeeps DEF h, E
<1>5. \A x \in Heads' : x \in Heads
  BY <1>1, <1>3, <1>4 DEF Heads, RecordOK
<1>6. RecordOK'
  <2>1. writer' \in Writer /\ writer'.pc # "store"
    BY <1>2, EventsAssumption DEF Writer, IdleWriter, EventOrNone, None
  <2>2. bus' \in 1 .. MaxBuses /\ seq' \in EventOrNone
    BY <1>1, <1>2, BusesAssumption, EventsAssumption DEF RecordOK, InProgress, EventOrNone
  <2>3. pending' \notin Held'
    BY <1>1, <1>2, <2>1 DEF RecordOK, Held
  <2>4. QED
    BY <1>1, <1>2, <1>4, <2>1, <2>2, <2>3 DEF RecordOK
<1>7. Counting'
  <2>1. CASE writer.next = "close"
    BY <2>1, <1>1, <1>2, NewBusCounting
  <2>2. CASE writer.next # "close"
    BY <2>2, <1>1, <1>2 DEF Counting, Published
  <2>3. QED
    BY <2>1, <2>2
<1>8. InProgress'
  BY <1>1, <1>2, <1>3, StampType DEF InProgress, Storing, IdleWriter, None
<1>9. Blocks'
  BY <1>1, <1>2, <1>3, <1>5 DEF Blocks, IdleWriter
<1>10. QED
  BY <1>4, <1>6, <1>7, <1>8, <1>9 DEF IInv

LEMMA StoreEventInv ==
    ASSUME IInv, StoreEvent
    PROVE  IInv'
<1> DEFINE n == Len(stamps)
<1>1. RecordOK /\ Counting /\ InProgress /\ Blocks /\ Rows
  BY DEF IInv
<1>2. /\ writer.pc = "event"
      /\ Insert(stamps[n].seq, {n})
      /\ writer' = IdleWriter
      /\ UNCHANGED <<stamps, seq, bus, pending, runs, reader, raced, crashed, failed>>
  BY DEF StoreEvent
<1>3. /\ n \in 1 .. Len(stamps) /\ {n} \in SUBSET Events /\ n \in Nat
      /\ pending = None
      /\ \A q \in Events : n \notin runs[q]
  <2>1. n # 0 /\ n \in Nat
    BY <1>1, <1>2, StampType DEF InProgress, Storing
  <2>2. n \in 1 .. Len(stamps) /\ n \in Events
    BY <2>1, <1>1, StampType
  <2>3. QED
    BY <2>1, <2>2, <1>1, <1>2 DEF InProgress, Storing
<1>4. /\ table' \in [Events -> SUBSET Events]
      /\ refused' \subseteq Events \X Events
      /\ Rows'
      /\ \A x \in Heads' : x \in Heads \/ x = n
  BY <1>1, <1>2, <1>3, InsertKeeps
<1>5. RecordOK'
  <2>1. writer' \in Writer /\ writer'.pc = "idle"
    BY <1>2, EventsAssumption DEF Writer, IdleWriter, EventOrNone, None
  <2>2. Held' = Held
    BY <1>2 DEF Held, IdleWriter
  <2>3. QED
    BY <1>1, <1>2, <1>4, <2>1, <2>2 DEF RecordOK
<1>6. Counting'
  BY <1>1, <1>2 DEF Counting, Published
<1>7. InProgress'
  BY <1>1, <1>2, <1>3 DEF InProgress, Storing, IdleWriter, None
<1>8. Blocks'
  <2>1. ASSUME NEW q \in Events, NEW h \in Heads', q < h, NEW k \in runs'[q]
        PROVE  k < h
    <3>1. CASE h \in Heads
      BY <2>1, <3>1, <1>1, <1>2 DEF Blocks
    <3>2. CASE h = n
      <4>1. k \in Events /\ k \in runs[q] /\ k # n
        BY <2>1, <1>1, <1>2, <1>3 DEF RecordOK
      <4>2. k <= n
        BY <4>1, <1>1 DEF Blocks
      <4>3. QED
        BY <4>1, <4>2, <3>2, <1>3 DEF Events
    <3>3. QED
      BY <3>1, <3>2, <1>4
  <2>2. \A h \in Heads' : h <= Len(stamps)
    BY <1>1, <1>3, <1>4 DEF Blocks
  <2>3. QED
    BY <2>1, <2>2, <1>1, <1>2, <1>3 DEF Blocks, IdleWriter
<1>9. QED
  BY <1>4, <1>5, <1>6, <1>7, <1>8 DEF IInv

LEMMA ReaderPopsInv ==
    ASSUME IInv, NEW r \in Readers, ReaderPops(r)
    PROVE  IInv'
<1>1. RecordOK /\ Counting /\ InProgress /\ Blocks /\ Rows
  BY DEF IInv
<1>2. /\ reader[r] = None /\ pending # None
      /\ reader' = [reader EXCEPT ![r] = pending]
      /\ pending' = None
      /\ UNCHANGED <<stamps, seq, bus, runs, writer, table, refused, raced, crashed, failed>>
  BY DEF ReaderPops
<1>3. RecordOK'
  <2>1. reader' \in [Readers -> EventOrNone] /\ pending' \in EventOrNone
    BY <1>1, <1>2, EventsAssumption DEF RecordOK, EventOrNone, None
  <2>2. \A h \in Held' : h # None
    BY <1>1, <1>2 DEF Held, InProgress
  <2>3. \A q \in Readers : reader[q] # None => reader[q] # pending
    BY <1>1 DEF RecordOK, Held
  <2>4. writer.pc # "store"
    BY <1>1, <1>2 DEF InProgress
  <2>5. \A q \in Readers : reader'[q] # None =>
              /\ \A u \in Readers \ {q} : reader'[u] # reader'[q]
              /\ writer'.pc = "store" => writer'.run # reader'[q]
    BY <1>1, <1>2, <2>3, <2>4 DEF RecordOK
  <2>6. QED
    BY <1>1, <1>2, <2>1, <2>2, <2>5 DEF RecordOK
<1>4. Counting' /\ Rows' /\ Heads' = Heads
  BY <1>1, <1>2 DEF Counting, Published, Rows, Heads
<1>5. InProgress'
  BY <1>1, <1>2 DEF InProgress, RecordOK, Storing, None
<1>6. Blocks'
  BY <1>1, <1>2, <1>4 DEF Blocks
<1>7. QED
  BY <1>3, <1>4, <1>5, <1>6 DEF IInv

LEMMA ReaderStoresInv ==
    ASSUME IInv, NEW r \in Readers, ReaderStores(r)
    PROVE  IInv'
<1> DEFINE p == reader[r]
<1>1. RecordOK /\ Counting /\ InProgress /\ Blocks /\ Rows
  BY DEF IInv
<1>2. /\ p # None
      /\ Insert(stamps[p].seq, runs[p])
      /\ reader' = [reader EXCEPT ![r] = None]
      /\ UNCHANGED <<stamps, seq, bus, pending, runs, writer, raced, crashed, failed>>
  BY DEF ReaderStores
<1>3. p \in 1 .. Len(stamps) /\ runs[p] \in SUBSET Events /\ p \in Events
  BY <1>1, <1>2, StampType, EventsAssumption DEF RecordOK, InProgress, Events, EventOrNone, None
<1>4. /\ table' \in [Events -> SUBSET Events]
      /\ refused' \subseteq Events \X Events
      /\ Rows'
      /\ \A x \in Heads' : x \in Heads \/ (x = p /\ runs[p] = {p})
  BY <1>1, <1>2, <1>3, InsertKeeps
<1>5. \A x \in Heads' : x \in Heads
  BY <1>3, <1>4 DEF Heads
<1>6. RecordOK'
  <2>1. reader' \in [Readers -> EventOrNone]
    BY <1>1, <1>2, EventsAssumption DEF RecordOK, EventOrNone, None
  <2>2. pending' \notin Held'
    BY <1>1, <1>2 DEF RecordOK, Held
  <2>3. \A q \in Readers : reader'[q] # None =>
              /\ \A u \in Readers \ {q} : reader'[u] # reader'[q]
              /\ writer'.pc = "store" => writer'.run # reader'[q]
    BY <1>1, <1>2 DEF RecordOK
  <2>4. QED
    BY <1>1, <1>2, <1>4, <2>1, <2>2, <2>3 DEF RecordOK
<1>7. Counting'
  BY <1>1, <1>2 DEF Counting, Published
<1>8. InProgress'
  BY <1>1, <1>2, StampType DEF InProgress, RecordOK, Storing, None
<1>9. Blocks'
  BY <1>1, <1>2, <1>5 DEF Blocks
<1>10. QED
  BY <1>4, <1>6, <1>7, <1>8, <1>9 DEF IInv

LEMMA RestartInv ==
    ASSUME IInv, Restart
    PROVE  IInv'
<1>1. RecordOK /\ Counting /\ InProgress /\ Blocks /\ Rows
  BY DEF IInv
<1>2. /\ bus < MaxBuses /\ bus' = bus + 1 /\ seq' = 0
      /\ pending' = None /\ writer' = IdleWriter
      /\ reader' = [q \in Readers |-> None]
      /\ crashed' = crashed \cup InHand
      /\ UNCHANGED <<stamps, runs, table, refused, raced, failed>>
  BY DEF Restart
<1>3. RecordOK'
  <2>1. Held' = {}
    BY <1>2 DEF Held, IdleWriter
  <2>2. InHand \subseteq Events
    <3>1. \A h \in Held \cup {pending} : h # None => h \in Events
      BY <1>1, EventsAssumption DEF Held, RecordOK, Writer, Events, EventOrNone, None
    <3>2. Storing \/ writer.pc = "append" => Len(stamps) \in Events
      BY <1>1, StampType, EventsAssumption DEF RecordOK, InProgress, Events
    <3>3. QED
      <4>1. \A h \in (Held \cup {pending}) \ {None} : runs[h] \subseteq Events
        BY <3>1, <1>1 DEF RecordOK
      <4>2. UNION {runs[h] : h \in (Held \cup {pending}) \ {None}} \subseteq Events
        BY <4>1
      <4>3. (IF writer.pc \in {"append", "event"} \/ writer.next = "event"
             THEN {Len(stamps)} ELSE {}) \subseteq Events
        BY <3>2 DEF Storing
      <4>4. QED
        BY <4>2, <4>3 DEF InHand
  <2>3. /\ writer' \in Writer /\ bus' \in 1 .. MaxBuses
        /\ seq' \in EventOrNone /\ pending' \in EventOrNone
        /\ reader' \in [Readers -> EventOrNone]
    BY <1>1, <1>2, BusesAssumption, EventsAssumption
       DEF RecordOK, Writer, IdleWriter, EventOrNone, None
  <2>4. QED
    BY <1>1, <1>2, <2>1, <2>2, <2>3 DEF RecordOK
<1>4. Counting'
  BY <1>1, <1>2, NewBusCounting
<1>5. Rows' /\ Heads' = Heads
  BY <1>1, <1>2 DEF Rows, Heads
<1>6. InProgress'
  BY <1>1, <1>2, StampType DEF InProgress, Storing, IdleWriter, None
<1>7. Blocks'
  BY <1>1, <1>2, <1>5 DEF Blocks, IdleWriter
<1>8. QED
  BY <1>3, <1>4, <1>5, <1>6, <1>7 DEF IInv

\* The insertion of the loop raises: the run, or the event, is dropped.
LEMMA WriterDropsInv ==
    ASSUME IInv, writer.pc \in {"store", "event"}, writer' = IdleWriter,
           UNCHANGED <<stamps, seq, bus, pending, runs, reader, table, refused, raced, crashed>>
    PROVE  IInv'
<1>1. RecordOK /\ Counting /\ InProgress /\ Blocks /\ Rows /\ pending = None
  BY DEF IInv, InProgress
<1>2. RecordOK'
  <2>1. writer' \in Writer /\ writer'.pc = "idle"
    BY <1>1, EventsAssumption DEF Writer, IdleWriter, EventOrNone, None
  <2>2. pending' \notin Held'
    BY <1>1, <2>1 DEF RecordOK, Held
  <2>3. QED
    BY <1>1, <2>1, <2>2 DEF RecordOK
<1>3. Counting' /\ Rows' /\ Heads' = Heads
  BY <1>1 DEF Counting, Published, Rows, Heads
<1>4. InProgress'
  BY <1>1, StampType DEF InProgress, Storing, IdleWriter, None
<1>5. Blocks'
  BY <1>1, <1>3 DEF Blocks, IdleWriter
<1>6. QED
  BY <1>2, <1>3, <1>4, <1>5 DEF IInv

LEMMA ReaderFailsInv ==
    ASSUME IInv, NEW r \in Readers, ReaderFails(r)
    PROVE  IInv'
<1>1. RecordOK /\ Counting /\ InProgress /\ Blocks /\ Rows
  BY DEF IInv
<1>2. /\ reader[r] # None
      /\ reader' = [reader EXCEPT ![r] = None]
      /\ UNCHANGED <<stamps, seq, bus, pending, runs, writer, table, refused, raced, crashed>>
  BY DEF ReaderFails
<1>3. RecordOK'
  <2>1. reader' \in [Readers -> EventOrNone]
    BY <1>1, <1>2, EventsAssumption DEF RecordOK, EventOrNone, None
  <2>2. pending' \notin Held'
    BY <1>1, <1>2 DEF RecordOK, Held
  <2>3. \A q \in Readers : reader'[q] # None =>
              /\ \A u \in Readers \ {q} : reader'[u] # reader'[q]
              /\ writer'.pc = "store" => writer'.run # reader'[q]
    BY <1>1, <1>2 DEF RecordOK
  <2>4. QED
    BY <1>1, <1>2, <2>1, <2>2, <2>3 DEF RecordOK
<1>4. Counting' /\ Rows' /\ Heads' = Heads
  BY <1>1, <1>2 DEF Counting, Published, Rows, Heads
<1>5. InProgress'
  BY <1>1, <1>2, StampType DEF InProgress, RecordOK, Storing, None
<1>6. Blocks'
  BY <1>1, <1>2, <1>4 DEF Blocks
<1>7. QED
  BY <1>3, <1>4, <1>5, <1>6 DEF IInv

\* Nor does anything else change what the record is about.
LEMMA StutterInv ==
    ASSUME IInv, UNCHANGED recordVars
    PROVE  IInv'
<1> USE DEF recordVars
<1>1. RecordOK'
  BY DEF IInv, RecordOK, Held
<1>2. Counting' /\ Rows' /\ Heads' = Heads
  BY DEF IInv, Counting, Published, Rows, Heads
<1>3. InProgress'
  BY DEF IInv, InProgress, Storing
<1>4. Blocks'
  BY <1>2 DEF IInv, Blocks
<1>5. QED
  BY <1>1, <1>2, <1>3, <1>4 DEF IInv

----------------------------------------------------------------------------
(* The theorems *)

\* The inductive invariant of the transcript holds in every reachable state.
THEOREM Invariance == Spec => []IInv
<1>1. IInv /\ [Next]_vars => IInv'
  <2> SUFFICES ASSUME IInv, [Next]_vars PROVE IInv'
    OBVIOUS
  <2>1. CASE LoopStep
    <3>1. CASE StoreRunFails \/ StoreEventFails
      BY <3>1, WriterDropsInv DEF StoreRunFails, StoreEventFails
    <3>2. QED
      BY <2>1, <3>1, WriteTextInv, AppendChunkInv, WriteEventInv, ArchiveInv,
         StoreRunInv, StoreEventInv DEF LoopStep
  <2>2. ASSUME NEW r \in Readers, RouteStep(r) PROVE IInv'
    BY <2>2, ReaderPopsInv, ReaderStoresInv, ReaderFailsInv DEF RouteStep
  <2>3. CASE Restart
    BY <2>3, RestartInv
  <2>4. CASE UNCHANGED vars
    BY <2>4, StutterInv DEF vars, recordVars
  <2>5. ASSUME NEW t \in Turns, TurnStep(t) PROVE IInv'
    <3>1. CASE BeginTurn(t) \/ GiveBack(t)
      BY <3>1, StutterInv DEF BeginTurn, GiveBack, recordVars
    <3>2. QED
      BY <2>5, <3>1, FlushInv DEF TurnStep
  <2>6. QED
    BY <2>1, <2>2, <2>3, <2>4, <2>5 DEF Next
<1>2. QED
  BY InitInv, <1>1, PTL DEF Spec

\* The bus a turn holds is its session's or one that was closed, and an event
\* is given back by a closed one only.
TurnInv ==
    /\ failed \subseteq Events
    /\ holds \in [Turns -> 0 .. MaxBuses]
    /\ closed \in SUBSET (1 .. MaxBuses)
    /\ unstamped \in 0 .. MaxEvents
    /\ unstamped # 0 => closed # {}
    /\ \A t \in Turns : holds[t] \in {0, bus} \cup closed
    /\ \A b \in closed : b < bus

\* Closing the bus, or leaving it.
LEMMA CloseTurns ==
    ASSUME RecordOK, TurnInv, bus < MaxBuses, CloseBus, UNCHANGED <<failed, holds, unstamped>>
    PROVE  TurnInv'
<1>1. bus \in 1 .. MaxBuses /\ MaxBuses \in Nat /\ bus' = bus + 1 /\ closed' = closed \cup {bus}
  BY BusesAssumption DEF RecordOK, CloseBus
<1>2. closed' \in SUBSET (1 .. MaxBuses) /\ closed \subseteq closed' /\ bus \in closed'
  BY <1>1 DEF TurnInv
<1>3. \A t \in Turns : holds[t] \in {0, bus'} \cup closed'
  BY <1>2 DEF TurnInv
<1>4. \A b \in closed' : b < bus'
  <2>1. \A b \in closed : b < bus /\ b \in Nat
    BY DEF TurnInv
  <2>2. QED
    BY <1>1, <2>1
<1>5. QED
  BY <1>2, <1>3, <1>4 DEF TurnInv

LEMMA SameBusTurns ==
    ASSUME RecordOK, TurnInv, bus' \in {bus, bus + 1}, UNCHANGED <<closed, unstamped>>,
           failed' \subseteq Events, holds' \in [Turns -> 0 .. MaxBuses],
           \A t \in Turns : holds'[t] \in {0, bus'} \cup closed
    PROVE  TurnInv'
<1>1. bus \in Nat /\ \A b \in closed : b \in Nat /\ b < bus
  BY BusesAssumption DEF RecordOK, TurnInv
<1>2. \A b \in closed' : b < bus'
  BY <1>1
<1>3. QED
  BY <1>2 DEF TurnInv

LEMMA TurnsNext == IInv /\ TurnInv /\ [Next]_vars => TurnInv'
<1> SUFFICES ASSUME IInv, TurnInv, [Next]_vars PROVE TurnInv'
  OBVIOUS
<1>1. RecordOK /\ InProgress /\ bus \in 1 .. MaxBuses /\ MaxBuses \in Nat
  BY BusesAssumption DEF IInv, RecordOK
<1>2. CASE UNCHANGED <<bus, failed, holds, closed, unstamped>>
  BY <1>2, <1>1, SameBusTurns DEF TurnInv
<1>3. CASE UNCHANGED <<bus, holds, closed, unstamped>> /\ failed' \subseteq Events
  BY <1>3, <1>1, SameBusTurns DEF TurnInv
<1>4. CASE Archive
  <2>1. bus < MaxBuses /\ UNCHANGED <<failed, holds, unstamped>> /\ (CloseBus \/ KeepBus)
    BY <1>4 DEF Archive
  <2>2. CASE CloseBus
    BY <2>1, <2>2, <1>1, CloseTurns
  <2>3. CASE KeepBus
    BY <2>1, <2>3, <1>2 DEF KeepBus
  <2>4. QED
    BY <2>1, <2>2, <2>3
<1>5. CASE StoreRun
  <2>1. UNCHANGED <<failed, holds, unstamped>> /\ ((CloseBus /\ bus < MaxBuses) \/ KeepBus)
    BY <1>5, <1>1 DEF StoreRun, InProgress
  <2>2. CASE CloseBus /\ bus < MaxBuses
    BY <2>1, <2>2, <1>1, CloseTurns
  <2>3. CASE KeepBus
    BY <2>1, <2>3, <1>2 DEF KeepBus
  <2>4. QED
    BY <2>1, <2>2, <2>3
<1>6. CASE StoreRunFails
  <2>1. /\ writer.pc = "store" /\ UNCHANGED <<bus, holds, closed, unstamped>>
        /\ failed' = failed \cup runs[writer.run]
                        \cup (IF writer.next = "event" THEN {Len(stamps)} ELSE {})
    BY <1>6 DEF StoreRunFails, turnVars
  <2>2. writer.run \in Events /\ runs[writer.run] \subseteq Events
    BY <2>1, <1>1, EventsAssumption DEF RecordOK, InProgress, Writer, Events, EventOrNone, None
  <2>3. writer.next = "event" => Len(stamps) \in Events
    BY <1>1, StampType, EventsAssumption DEF RecordOK, InProgress, Storing, Events
  <2>4. failed' \subseteq Events
    BY <2>1, <2>2, <2>3 DEF TurnInv
  <2>5. QED
    BY <2>1, <2>4, <1>3
<1>7. CASE StoreEventFails
  <2>1. writer.pc = "event" /\ UNCHANGED <<bus, holds, closed, unstamped>>
        /\ failed' = failed \cup {Len(stamps)}
    BY <1>7 DEF StoreEventFails, turnVars
  <2>2. Len(stamps) \in Events
    BY <2>1, <1>1, StampType, EventsAssumption DEF RecordOK, InProgress, Storing, Events
  <2>3. failed' \subseteq Events
    BY <2>1, <2>2 DEF TurnInv
  <2>4. QED
    BY <2>1, <2>3, <1>3
<1>8. ASSUME NEW r \in Readers, ReaderFails(r) PROVE TurnInv'
  <2>1. reader[r] # None /\ UNCHANGED <<bus, holds, closed, unstamped>>
        /\ failed' = failed \cup runs[reader[r]]
    BY <1>8 DEF ReaderFails, turnVars
  <2>2. runs[reader[r]] \subseteq Events
    BY <2>1, <1>1, EventsAssumption DEF RecordOK, Events, EventOrNone, None
  <2>3. failed' \subseteq Events
    BY <2>1, <2>2 DEF TurnInv
  <2>4. QED
    BY <2>1, <2>3, <1>3
<1>9. ASSUME NEW t \in Turns, TurnStep(t) PROVE TurnInv'
  <2>1. CASE BeginTurn(t)
    <3>1. holds' = [holds EXCEPT ![t] = bus] /\ UNCHANGED <<bus, failed, closed, unstamped>>
      BY <2>1 DEF BeginTurn
    <3>2. holds' \in [Turns -> 0 .. MaxBuses]
      BY <3>1, <1>1 DEF TurnInv
    <3>3. \A u \in Turns : holds'[u] \in {0, bus} \cup closed
      BY <3>1 DEF TurnInv
    <3>4. QED
      BY <3>1, <3>2, <3>3, <1>1, SameBusTurns DEF TurnInv
  <2>2. CASE Flush(t)
    <3>1. holds' = [holds EXCEPT ![t] = 0] /\ UNCHANGED <<bus, failed, closed, unstamped>>
      BY <2>2 DEF Flush
    <3>2. holds' \in [Turns -> 0 .. MaxBuses]
      BY <3>1, <1>1 DEF TurnInv
    <3>3. \A u \in Turns : holds'[u] \in {0, bus} \cup closed
      BY <3>1 DEF TurnInv
    <3>4. QED
      BY <3>1, <3>2, <3>3, <1>1, SameBusTurns DEF TurnInv
  <2>3. CASE GiveBack(t)
    <3>1. /\ holds[t] \in closed /\ Len(stamps) + unstamped < MaxEvents
          /\ unstamped' = unstamped + 1 /\ UNCHANGED <<bus, failed, holds, closed>>
      BY <2>3 DEF GiveBack
    <3>2. unstamped' \in 0 .. MaxEvents
      BY <3>1, <1>1, StampType, EventsAssumption DEF TurnInv
    <3>3. QED
      BY <3>1, <3>2 DEF TurnInv
  <2>4. QED
    BY <1>9, <2>1, <2>2, <2>3 DEF TurnStep
<1>10. CASE Restart
  <2>1. bus' = bus + 1 /\ holds' = [t \in Turns |-> 0] /\ UNCHANGED <<failed, closed, unstamped>>
    BY <1>10 DEF Restart
  <2>2. holds' \in [Turns -> 0 .. MaxBuses]
    BY <2>1, <1>1
  <2>3. QED
    BY <2>1, <2>2, <1>1, SameBusTurns DEF TurnInv
<1>11. CASE WriteText \/ AppendChunk \/ WriteEvent \/ StoreEvent \/ UNCHANGED vars
  BY <1>11, <1>2 DEF WriteText, AppendChunk, WriteEvent, StoreEvent, vars, turnVars
<1>12. ASSUME NEW r \in Readers, ReaderPops(r) \/ ReaderStores(r) PROVE TurnInv'
  BY <1>12, <1>2 DEF ReaderPops, ReaderStores, turnVars
<1>13. QED
  BY <1>4, <1>5, <1>6, <1>7, <1>8, <1>9, <1>10, <1>11, <1>12 DEF Next, LoopStep, RouteStep

LEMMA TurnsKept == Spec => []TurnInv
<1>1. Init => TurnInv
  BY EventsAssumption, BusesAssumption DEF Init, TurnInv
<1>2. QED
  BY Invariance, <1>1, TurnsNext, PTL DEF Spec

\* The types, and that a run is popped by one flush only (transcript.py:57).
THEOREM TypeCorrect == Spec => []TypeOK
<1>1. IInv /\ TurnInv => TypeOK
  BY DEF IInv, TurnInv, TypeOK
<1>2. QED
  BY Invariance, TurnsKept, <1>1, PTL

\* Rows of one bus are in the order of its events, each under the seq of its
\* first (transcript.py:8-10), whoever flushes.
THEOREM OrderKept == Spec => []TranscriptInOrder
<1>1. ASSUME IInv PROVE TranscriptInOrder
  <2>1. /\ Counting /\ Blocks /\ Rows
        /\ \A s \in Events : table[s] \subseteq Events
        /\ Len(stamps) \in Nat
    BY <1>1, StampType DEF IInv, RecordOK
  <2>2. ASSUME NEW s \in Events, table[s] # {}
        PROVE  \E h \in table[s] :
                  /\ h \in Published /\ h \in Heads /\ stamps[h].seq = s
                  /\ \A k \in table[s] : h <= k /\ stamps[k].bus = stamps[h].bus
                                         /\ (k = h \/ k \in runs[h])
    <3>1. PICK h \in table[s] :
             /\ h <= Len(stamps) /\ stamps[h].seq = s
             /\ \A k \in table[s] : k = h \/ k \in runs[h]
      BY <2>1, <2>2 DEF Rows
    <3>2. h \in Events /\ h \in Published
      BY <2>1, <3>1 DEF Events, Published
    <3>3. h \in Heads
      BY <3>1, <3>2 DEF Heads
    <3>4. \A k \in table[s] : h <= k /\ stamps[k].bus = stamps[h].bus
      BY <2>1, <3>1, <3>2 DEF Blocks, Events
    <3>5. QED
      BY <3>1, <3>2, <3>3, <3>4
  <2>3. ASSUME NEW s \in Events, NEW u \in Events, s < u,
               NEW m \in table[s], NEW n \in table[u], stamps[m].bus = stamps[n].bus
        PROVE  m < n
    <3>1. PICK h \in table[s] :
             /\ h \in Published /\ stamps[h].seq = s
             /\ stamps[m].bus = stamps[h].bus /\ (m = h \/ m \in runs[h])
      BY <2>2
    <3>2. PICK g \in table[u] :
             /\ g \in Published /\ g \in Heads /\ stamps[g].seq = u
             /\ g <= n /\ stamps[n].bus = stamps[g].bus
      BY <2>2
    <3>3. h \in Nat /\ g \in Nat /\ m \in Nat /\ n \in Nat /\ s \in Nat /\ u \in Nat /\ h \in Events
      BY <2>1, <3>1, <3>2 DEF Published, Events
    <3>4. h < g
      <4>1. SUFFICES ASSUME g <= h PROVE FALSE
        BY <3>3
      <4>2. stamps[g].bus = stamps[h].bus
        BY <2>3, <3>1, <3>2
      <4>3. u <= s
        BY <4>1, <4>2, <2>1, <3>1, <3>2, <3>3 DEF Counting
      <4>4. QED
        BY <4>3, <2>3, <3>3
    <3>5. m < g
      BY <3>1, <3>2, <3>3, <3>4, <2>1 DEF Blocks
    <3>6. QED
      BY <3>2, <3>3, <3>5
  <2>4. QED
    BY <2>2, <2>3 DEF TranscriptInOrder
<1>2. QED
  BY Invariance, <1>1, PTL

----------------------------------------------------------------------------
(* Where the events went *)

\* The runs some thread has, or may take.
InHandRuns == {h \in Events : h = pending \/ h \in Held}

\* What is in hand has not been stored, and has a chunk unless its first is
\* just being added.
Fresh ==
    /\ \A h \in InHandRuns, s \in Events : h \notin table[s]
    /\ \A h \in InHandRuns : runs[h] = {} => writer.pc = "append" /\ writer.run = h
    /\ Storing => \A s \in Events : Len(stamps) \notin table[s]

\* An event of which it is known where it is.
Known(n) ==
    \/ \E s \in Events : n \in table[s]
    \/ \E h \in InHandRuns : n \in runs[h]
    \/ (Storing \/ writer.pc = "append") /\ n = Len(stamps)
    \/ n \in crashed
    \/ n \in failed
    \/ n \in raced
    \/ \E s \in Events : <<s, n>> \in refused

\* A row that was taken has an event of another bus.
Refusals ==
    \A s \in Events, k \in Events : <<s, k>> \in refused =>
        k <= Len(stamps) /\ \E n \in table[s] : n <= Len(stamps) /\ stamps[n].bus # stamps[k].bus

AInv == Fresh /\ (\A n \in Published : Known(n)) /\ Refusals

----------------------------------------------------------------------------
(* The helpers *)

LEMMA Bounds ==
    ASSUME IInv
    PROVE  /\ Len(stamps) \in Nat /\ Len(stamps) <= MaxEvents /\ MaxEvents \in Nat
           /\ \A h \in InHandRuns : h \in 1 .. Len(stamps)
           /\ \A s \in Events : \A k \in table[s] : k \in 1 .. Len(stamps)
           /\ \A q \in Events : \A k \in runs[q] : k \in 1 .. Len(stamps)
<1>1. RecordOK /\ InProgress /\ Blocks /\ Rows
  BY DEF IInv
<1>2. Len(stamps) \in Nat /\ Len(stamps) <= MaxEvents /\ MaxEvents \in Nat
  BY <1>1, EventsAssumption DEF RecordOK
<1>3. \A h \in InHandRuns : h \in 1 .. Len(stamps)
  BY <1>1, <1>2 DEF InHandRuns, Held, InProgress, Events
<1>4. \A q \in Events : \A k \in runs[q] : k \in 1 .. Len(stamps)
  BY <1>1, <1>2 DEF RecordOK, Blocks, Events
<1>5. ASSUME NEW s \in Events, NEW k \in table[s]
      PROVE  k \in 1 .. Len(stamps)
  <2>1. PICK h \in table[s] : h <= Len(stamps) /\ (k = h \/ k \in runs[h])
    BY <1>1, <1>5 DEF Rows
  <2>2. h \in Events /\ k \in Events
    BY <1>1 DEF RecordOK
  <2>3. QED
    BY <2>1, <2>2, <1>2, <1>4 DEF Events
<1>6. QED
  BY <1>2, <1>3, <1>4, <1>5

\* A run in hand is no part of another.
LEMMA InHandApart ==
    ASSUME IInv, Fresh, NEW h \in InHandRuns, NEW q \in Events, h # q
    PROVE  h \notin runs[q]
<1>1. RecordOK /\ InProgress /\ Blocks
  BY DEF IInv
<1>2. h \in Events /\ h \in Nat /\ q \in Nat
  BY DEF InHandRuns, Events
<1>3. CASE runs[h] = {}
  <2>1. writer.pc = "append" /\ writer.run = h
    BY <1>3 DEF Fresh
  <2>2. QED
    BY <2>1, <1>1, <1>3 DEF InProgress
<1>4. CASE runs[h] # {}
  <2>1. h \in Heads
    BY <1>2, <1>4 DEF Heads
  <2>2. CASE q < h
    BY <2>1, <2>2, <1>1, <1>2 DEF Blocks
  <2>3. CASE h < q
    BY <2>3, <1>1, <1>2 DEF Blocks
  <2>4. QED
    BY <2>2, <2>3, <1>2
<1>5. QED
  BY <1>3, <1>4

LEMMA InsertKnown ==
    ASSUME RecordOK, NEW s \in Events, NEW E \in SUBSET Events, Insert(s, E)
    PROVE  /\ \A u \in Events : table[u] \subseteq table'[u]
           /\ refused \subseteq refused'
           /\ \A n \in E : n \in table'[s] \/ <<s, n>> \in refused'
           /\ \A u \in Events, k \in Events : <<u, k>> \in refused' =>
                 <<u, k>> \in refused \/ (u = s /\ k \in E /\ table[s] # {})
BY DEF RecordOK, Insert

\* An event that finds its row taken, and was not stored, is of another bus
\* than the one that took it.
LEMMA RefusalsKept ==
    ASSUME IInv, Refusals, NEW h \in 1 .. Len(stamps), NEW E \in SUBSET Events,
           E = runs[h] \/ E = {h}, Insert(stamps[h].seq, E), UNCHANGED stamps,
           \A s \in Events : h \notin table[s]
    PROVE  Refusals'
<1>1. RecordOK /\ Counting /\ Blocks /\ Rows
  BY DEF IInv
<1>2. stamps[h].seq \in Events /\ h \in Events /\ h \in Nat /\ Len(stamps) \in Nat
  <2>1. Len(stamps) \in Nat
    BY <1>1, StampType
  <2>2. h \in Nat
    BY <2>1
  <2>3. stamps[h].seq \in Events /\ h \in Events
    BY <1>1, StampType
  <2>4. QED
    BY <2>1, <2>2, <2>3
<1>3. /\ \A u \in Events : table[u] \subseteq table'[u]
      /\ \A u \in Events, k \in Events : <<u, k>> \in refused' =>
            <<u, k>> \in refused \/ (u = stamps[h].seq /\ k \in E /\ table[u] # {})
  <2> DEFINE t == stamps[h].seq
  <2>1. Insert(t, E) /\ t \in Events /\ RecordOK
    BY <1>1, <1>2
  <2> HIDE DEF t
  <2>2. /\ \A u \in Events : table[u] \subseteq table'[u]
        /\ \A u \in Events, k \in Events : <<u, k>> \in refused' =>
              <<u, k>> \in refused \/ (u = t /\ k \in E /\ table[u] # {})
    BY <2>1, InsertKnown
  <2>3. QED
    BY <2>2 DEF t
<1>4. ASSUME NEW s \in Events, NEW k \in Events, <<s, k>> \in refused'
      PROVE  k <= Len(stamps) /\ \E n \in table'[s] : n <= Len(stamps) /\ stamps[n].bus # stamps[k].bus
  <2>1. CASE <<s, k>> \in refused
    BY <2>1, <1>3 DEF Refusals
  <2>2. CASE s = stamps[h].seq /\ k \in E /\ table[s] # {}
    <3>1. k <= Len(stamps) /\ stamps[k].bus = stamps[h].bus
      BY <2>2, <1>1, <1>2 DEF Blocks
    <3>2. PICK g \in table[s] : g <= Len(stamps) /\ stamps[g].seq = s
      BY <2>2, <1>1 DEF Rows
    <3>3. g \in 1 .. Len(stamps) /\ g \in Nat /\ g # h
      <4>1. g \in Events
        BY <1>1 DEF RecordOK
      <4>2. QED
        BY <4>1, <3>2, <1>2 DEF Events
    <3>4. stamps[g].bus # stamps[h].bus
      <4>1. SUFFICES ASSUME stamps[g].bus = stamps[h].bus PROVE FALSE
        OBVIOUS
      <4>2. stamps[g].seq < stamps[h].seq \/ stamps[h].seq < stamps[g].seq
        BY <4>1, <3>3, <1>1, <1>2 DEF Counting, Published
      <4>3. QED
        BY <4>2, <2>2, <3>2, <1>2 DEF Events
    <3>5. QED
      BY <3>1, <3>2, <3>4, <1>3
  <2>3. QED
    BY <1>3, <1>4, <2>1, <2>2
<1>5. QED
  BY <1>4 DEF Refusals

\* What Pop takes stays in hand.
LEMMA PopInHand ==
    ASSUME RecordOK, writer = IdleWriter, NEW next \in {"nothing", "event", "close"}, Pop(next),
           UNCHANGED reader
    PROVE  /\ InHandRuns' = InHandRuns
           /\ Storing' => next = "event"
           /\ next = "event" => Storing'
<1>1. \A h \in Events : h # None
  BY DEF Events, None
<1>2. \A h \in Events : (h = pending' \/ h \in Held') <=> (h = pending \/ h \in Held)
  BY <1>1, PopFacts DEF Held, IdleWriter
<1>3. InHandRuns' = InHandRuns
  BY <1>2 DEF InHandRuns
<1>4. QED
  BY <1>3, PopFacts DEF Storing, IdleWriter

----------------------------------------------------------------------------
(* Every step keeps the account *)

LEMMA WriteTextAcc ==
    ASSUME IInv, AInv, WriteText
    PROVE  AInv'
<1> DEFINE n == Len(stamps) + 1
<1>1. /\ Publishing
      /\ pending' = IF pending = None THEN n ELSE pending
      /\ writer' = [pc |-> "append", run |-> pending', next |-> "nothing"]
      /\ writer = IdleWriter
      /\ UNCHANGED <<bus, runs, reader, table, refused, raced, crashed, failed>>
  BY DEF WriteText, Publishing
<1>2. /\ Len(stamps') = n /\ n \in Nat /\ Len(stamps) \in Nat
      /\ \A k \in 1 .. Len(stamps) : stamps'[k] = stamps[k]
  BY <1>1, StampFacts DEF IInv
<1>3. Held' = Held
  BY <1>1 DEF Held, IdleWriter
<1>4. \A h \in InHandRuns' : h \in InHandRuns \/ (h = n /\ writer'.run = n)
  BY <1>1, <1>3 DEF InHandRuns
<1>5. \A h \in InHandRuns : h \in InHandRuns'
  BY <1>1, <1>3 DEF InHandRuns, Events, None
<1>6. Fresh'
  <2>1. \A h \in InHandRuns', s \in Events : h \notin table'[s]
    BY <1>1, <1>2, <1>4, Bounds DEF AInv, Fresh
  <2>2. \A h \in InHandRuns' : runs'[h] = {} => writer'.pc = "append" /\ writer'.run = h
    BY <1>1, <1>4 DEF AInv, Fresh, IdleWriter
  <2>3. ~Storing'
    BY <1>1 DEF Storing
  <2>4. QED
    BY <2>1, <2>2, <2>3 DEF Fresh
<1>7. ASSUME NEW k \in Published' PROVE Known(k)'
  <2>1. CASE k = n
    BY <2>1, <1>1, <1>2 DEF Known
  <2>2. CASE k # n
    <3>1. Known(k) /\ ~Storing /\ writer.pc # "append"
      BY <2>2, <1>1, <1>2 DEF AInv, Published, Storing, IdleWriter
    <3>2. QED
      BY <3>1, <1>1, <1>5 DEF Known
  <2>3. QED
    BY <2>1, <2>2
<1>8. Refusals'
  <2>1. ASSUME NEW s \in Events, NEW k \in Events, <<s, k>> \in refused
        PROVE  k <= n /\ \E x \in table[s] : x <= n /\ stamps'[x].bus # stamps'[k].bus
    <3>1. PICK x \in table[s] : x <= Len(stamps) /\ k <= Len(stamps) /\ stamps[x].bus # stamps[k].bus
      BY <2>1 DEF AInv, Refusals
    <3>2. x \in 1 .. Len(stamps) /\ k \in 1 .. Len(stamps)
      BY <3>1, <1>2, Bounds DEF Events
    <3>3. QED
      BY <3>1, <3>2, <1>2
  <2>2. QED
    BY <2>1, <1>1, <1>2 DEF Refusals
<1>9. QED
  BY <1>6, <1>7, <1>8 DEF AInv

LEMMA WriteEventAcc ==
    ASSUME IInv, AInv, WriteEvent
    PROVE  AInv'
<1> DEFINE n == Len(stamps) + 1
<1>1. /\ Publishing /\ writer = IdleWriter /\ Pop("event") /\ RecordOK
      /\ UNCHANGED <<bus, runs, reader, table, refused, raced, crashed, failed>>
  BY DEF WriteEvent, Publishing, IInv
<1>2. /\ Len(stamps') = n /\ n \in Nat /\ Len(stamps) \in Nat
      /\ \A k \in 1 .. Len(stamps) : stamps'[k] = stamps[k]
  BY <1>1, StampFacts
<1>3. InHandRuns' = InHandRuns /\ Storing'
  BY <1>1, PopInHand
<1>4. Fresh'
  <2>1. \A h \in InHandRuns : runs[h] # {}
    BY <1>1 DEF AInv, Fresh, IdleWriter
  <2>2. \A s \in Events : n \notin table[s]
    BY <1>2, Bounds
  <2>3. QED
    BY <2>1, <2>2, <1>1, <1>2, <1>3 DEF AInv, Fresh
<1>5. ASSUME NEW k \in Published' PROVE Known(k)'
  <2>1. CASE k = n
    BY <2>1, <1>2, <1>3 DEF Known
  <2>2. CASE k # n
    <3>1. Known(k) /\ ~Storing /\ writer.pc # "append"
      BY <2>2, <1>1, <1>2 DEF AInv, Published, Storing, IdleWriter
    <3>2. QED
      BY <3>1, <1>1, <1>3 DEF Known
  <2>3. QED
    BY <2>1, <2>2
<1>6. Refusals'
  <2>1. ASSUME NEW s \in Events, NEW k \in Events, <<s, k>> \in refused
        PROVE  k <= n /\ \E x \in table[s] : x <= n /\ stamps'[x].bus # stamps'[k].bus
    <3>1. PICK x \in table[s] : x <= Len(stamps) /\ k <= Len(stamps) /\ stamps[x].bus # stamps[k].bus
      BY <2>1 DEF AInv, Refusals
    <3>2. x \in 1 .. Len(stamps) /\ k \in 1 .. Len(stamps)
      BY <3>1, <1>2, Bounds DEF Events
    <3>3. QED
      BY <3>1, <3>2, <1>2
  <2>2. QED
    BY <2>1, <1>1, <1>2 DEF Refusals
<1>7. QED
  BY <1>4, <1>5, <1>6 DEF AInv

\* Popping a run publishes and stores nothing.
LEMMA PopAcc ==
    ASSUME IInv, AInv, writer = IdleWriter, NEW next \in {"nothing", "close"}, Pop(next),
           UNCHANGED <<stamps, runs, reader, table, refused, raced, crashed, failed>>
    PROVE  AInv'
<1>1. InHandRuns' = InHandRuns /\ ~Storing'
  BY PopInHand DEF IInv
<1>2. ~Storing /\ writer.pc # "append"
  BY DEF Storing, IdleWriter
<1>3. Fresh'
  BY <1>1, <1>2 DEF AInv, Fresh
<1>4. \A n \in Published' : Known(n)'
  BY <1>1, <1>2 DEF AInv, Known, Published
<1>5. Refusals'
  BY DEF AInv, Refusals
<1>6. QED
  BY <1>3, <1>4, <1>5 DEF AInv

LEMMA AppendChunkAcc ==
    ASSUME IInv, AInv, AppendChunk
    PROVE  AInv'
<1> DEFINE n == Len(stamps)
           p == writer.run
<1>1. RecordOK /\ InProgress
  BY DEF IInv
<1>2. /\ writer.pc = "append"
      /\ runs' = [runs EXCEPT ![p] = @ \cup {n}]
      /\ raced' = IF p = pending \/ p \in Held THEN raced ELSE raced \cup {n}
      /\ writer' = IdleWriter
      /\ UNCHANGED <<stamps, seq, bus, pending, reader, table, refused, crashed, failed>>
  BY DEF AppendChunk
<1>3. p \in Events
  BY <1>1, <1>2 DEF RecordOK, InProgress, Writer, Events, EventOrNone, None
<1>4. runs'[p] = runs[p] \cup {n} /\ \A q \in Events : runs[q] \subseteq runs'[q]
  BY <1>1, <1>2, <1>3 DEF RecordOK
<1>5. InHandRuns' = InHandRuns
  BY <1>2 DEF InHandRuns, Held, IdleWriter
<1>6. ~Storing /\ ~Storing'
  BY <1>1, <1>2 DEF Storing, InProgress, IdleWriter
<1>7. Fresh'
  <2>1. ASSUME NEW h \in InHandRuns PROVE runs'[h] # {}
    <3>1. h \in Events
      BY DEF InHandRuns
    <3>2. CASE runs[h] # {}
      BY <3>1, <3>2, <1>4
    <3>3. CASE runs[h] = {}
      <4>1. h = p
        BY <3>3 DEF AInv, Fresh
      <4>2. QED
        BY <4>1, <1>4
    <3>4. QED
      BY <3>2, <3>3
  <2>2. QED
    BY <2>1, <1>2, <1>5, <1>6 DEF AInv, Fresh
<1>8. ASSUME NEW k \in Published' PROVE Known(k)'
  <2>1. Known(k)
    BY <1>2 DEF AInv, Published
  <2>2. CASE k = n
    <3>1. CASE p = pending \/ p \in Held
      BY <3>1, <2>2, <1>3, <1>4, <1>5 DEF Known, InHandRuns
    <3>2. CASE ~(p = pending \/ p \in Held)
      BY <3>2, <2>2, <1>2 DEF Known
    <3>3. QED
      BY <3>1, <3>2
  <2>3. CASE k # n
    <3>1. ASSUME NEW h \in InHandRuns, k \in runs[h] PROVE Known(k)'
      <4>1. h \in Events /\ h \in InHandRuns'
        BY <1>5 DEF InHandRuns
      <4>2. QED
        BY <3>1, <4>1, <1>4 DEF Known
    <3>2. CASE ~\E h \in InHandRuns : k \in runs[h]
      BY <3>2, <2>1, <2>3, <1>2 DEF Known
    <3>3. QED
      BY <3>1, <3>2
  <2>4. QED
    BY <2>2, <2>3
<1>9. Refusals'
  BY <1>2 DEF AInv, Refusals
<1>10. QED
  BY <1>7, <1>8, <1>9 DEF AInv

\* Storing a run that is in hand and then no longer.
LEMMA StoredAcc ==
    ASSUME IInv, AInv, NEW p \in InHandRuns,
           Insert(stamps[p].seq, runs[p]),
           InHandRuns' = InHandRuns \ {p},
           UNCHANGED <<stamps, runs, raced, crashed, failed>>,
           Storing' <=> Storing,
           writer.pc = "append" => UNCHANGED writer
    PROVE  AInv'
<1>1. RecordOK /\ InProgress /\ Fresh
  BY DEF IInv, AInv
<1>2. /\ p \in 1 .. Len(stamps) /\ p \in Events /\ runs[p] \in SUBSET Events
      /\ stamps[p].seq \in Events
  <2>1. p \in 1 .. Len(stamps)
    BY Bounds
  <2>2. QED
    BY <2>1, <1>1, StampType DEF RecordOK
<1>3. /\ \A u \in Events : table[u] \subseteq table'[u]
      /\ refused \subseteq refused'
      /\ \A n \in runs[p] : n \in table'[stamps[p].seq] \/ <<stamps[p].seq, n>> \in refused'
  BY <1>1, <1>2, InsertKnown
<1>4. \A u \in Events : table'[u] = table[u] \/ table'[u] = runs[p]
  BY <1>1, <1>2, InsertFacts
<1>5. Fresh'
  <2>1. ASSUME NEW h \in InHandRuns', NEW s \in Events PROVE h \notin table'[s]
    <3>1. h \in InHandRuns /\ h # p
      OBVIOUS
    <3>2. h \notin runs[p]
      BY <3>1, <1>1, <1>2, InHandApart
    <3>3. QED
      BY <3>1, <3>2, <1>1, <1>4 DEF Fresh
  <2>2. ASSUME NEW h \in InHandRuns', runs'[h] = {} PROVE writer'.pc = "append" /\ writer'.run = h
    BY <2>2, <1>1 DEF Fresh
  <2>3. ASSUME Storing', NEW s \in Events PROVE Len(stamps) \notin table'[s]
    <3>1. Len(stamps) \notin runs[p] /\ Len(stamps) \notin table[s]
      BY <2>3, <1>1, <1>2 DEF InProgress, Fresh
    <3>2. QED
      BY <3>1, <1>4
  <2>4. QED
    BY <2>1, <2>2, <2>3 DEF Fresh
<1>6. ASSUME NEW k \in Published' PROVE Known(k)'
  <2>1. Known(k)
    BY DEF AInv, Published
  <2>2. CASE \E s \in Events : k \in table[s]
    BY <2>2, <1>3 DEF Known
  <2>3. CASE k \in runs[p]
    BY <2>3, <1>2, <1>3 DEF Known
  <2>4. CASE \E h \in InHandRuns \ {p} : k \in runs[h]
    BY <2>4 DEF Known
  <2>5. CASE (Storing \/ writer.pc = "append") /\ k = Len(stamps)
    BY <2>5 DEF Known
  <2>6. CASE k \in crashed \/ k \in failed \/ k \in raced \/ \E s \in Events : <<s, k>> \in refused
    BY <2>6, <1>3 DEF Known
  <2>7. QED
    BY <2>1, <2>2, <2>3, <2>4, <2>5, <2>6 DEF Known
<1>7. Refusals'
  BY <1>1, <1>2, RefusalsKept DEF AInv, Fresh
<1>8. QED
  BY <1>5, <1>6, <1>7 DEF AInv

LEMMA StoreRunAcc ==
    ASSUME IInv, AInv, StoreRun
    PROVE  AInv'
<1>1. RecordOK /\ InProgress
  BY DEF IInv
<1>2. /\ writer.pc = "store"
      /\ Insert(stamps[writer.run].seq, runs[writer.run])
      /\ writer' = IF writer.next = "event" THEN [pc |-> "event", run |-> None, next |-> "nothing"]
                   ELSE IdleWriter
      /\ UNCHANGED <<stamps, pending, runs, reader, raced, crashed, failed>>
  BY DEF StoreRun
<1>3. writer.run \in Events /\ pending = None /\ \A r \in Readers : reader[r] # writer.run
  BY <1>1, <1>2 DEF RecordOK, InProgress, Writer, Events, EventOrNone, None
<1>4. writer.run \in InHandRuns
  BY <1>2, <1>3 DEF InHandRuns, Held
<1>5. \A h \in Events : (h = pending' \/ h \in Held')
                          <=> (h = pending \/ h \in Held) /\ h # writer.run
  BY <1>2, <1>3 DEF Held, IdleWriter, Events, None
<1>6. InHandRuns' = InHandRuns \ {writer.run}
  BY <1>5 DEF InHandRuns
<1>7. Storing' <=> Storing
  BY <1>2 DEF Storing, IdleWriter
<1>8. QED
  BY <1>2, <1>4, <1>6, <1>7, StoredAcc

LEMMA ReaderStoresAcc ==
    ASSUME IInv, AInv, NEW r \in Readers, ReaderStores(r)
    PROVE  AInv'
<1>1. RecordOK /\ InProgress
  BY DEF IInv
<1>2. /\ reader[r] # None
      /\ Insert(stamps[reader[r]].seq, runs[reader[r]])
      /\ reader' = [reader EXCEPT ![r] = None]
      /\ UNCHANGED <<stamps, seq, bus, pending, runs, writer, raced, crashed, failed>>
  BY DEF ReaderStores
<1>3. /\ reader[r] \in Events /\ pending # reader[r]
      /\ \A q \in Readers \ {r} : reader[q] # reader[r]
      /\ writer.pc = "store" => writer.run # reader[r]
  BY <1>1, <1>2 DEF RecordOK, Held, Events, EventOrNone, None
<1>4. reader[r] \in InHandRuns
  BY <1>2, <1>3 DEF InHandRuns, Held
<1>5. reader'[r] = None /\ \A q \in Readers \ {r} : reader'[q] = reader[q]
  BY <1>1, <1>2 DEF RecordOK
<1>6. \A h \in Events : h \in Held' <=> h \in Held /\ h # reader[r]
  BY <1>2, <1>3, <1>5 DEF Held
<1>7. InHandRuns' = InHandRuns \ {reader[r]}
  BY <1>2, <1>3, <1>6 DEF InHandRuns
<1>8. Storing' <=> Storing
  BY <1>2 DEF Storing
<1>9. QED
  BY <1>2, <1>4, <1>7, <1>8, StoredAcc

LEMMA StoreEventAcc ==
    ASSUME IInv, AInv, StoreEvent
    PROVE  AInv'
<1> DEFINE n == Len(stamps)
<1>1. RecordOK /\ InProgress /\ Fresh
  BY DEF IInv, AInv
<1>2. /\ writer.pc = "event"
      /\ Insert(stamps[n].seq, {n})
      /\ writer' = IdleWriter
      /\ UNCHANGED <<stamps, seq, bus, pending, runs, reader, raced, crashed, failed>>
  BY DEF StoreEvent
<1>3. /\ n \in 1 .. Len(stamps) /\ {n} \in SUBSET Events /\ n \in Nat /\ stamps[n].seq \in Events
      /\ \A q \in Events : n \notin runs[q]
      /\ \A s \in Events : n \notin table[s]
  <2>1. n # 0 /\ n \in Nat
    BY <1>1, <1>2, StampType DEF InProgress, Storing
  <2>2. n \in Events /\ stamps[n].seq \in Events
    BY <2>1, <1>1, StampType
  <2>3. QED
    BY <2>1, <2>2, <1>1, <1>2 DEF InProgress, Storing, Fresh
<1>4. /\ \A u \in Events : table[u] \subseteq table'[u]
      /\ refused \subseteq refused'
      /\ n \in table'[stamps[n].seq] \/ <<stamps[n].seq, n>> \in refused'
  BY <1>1, <1>2, <1>3, InsertKnown
<1>5. \A u \in Events : table'[u] = table[u] \/ table'[u] = {n}
  BY <1>1, <1>2, <1>3, InsertFacts
<1>6. InHandRuns' = InHandRuns /\ ~Storing'
  BY <1>2 DEF InHandRuns, Held, Storing, IdleWriter
<1>7. Fresh'
  <2>1. ASSUME NEW h \in InHandRuns PROVE runs[h] # {} /\ h # n
    <3>1. h \in Events /\ runs[h] # {}
      BY <1>1, <1>2 DEF InHandRuns, Fresh
    <3>2. h \in runs[h]
      BY <3>1 DEF IInv, Blocks, RecordOK
    <3>3. QED
      BY <3>1, <3>2, <1>3
  <2>2. QED
    BY <2>1, <1>1, <1>2, <1>5, <1>6 DEF Fresh
<1>8. ASSUME NEW k \in Published' PROVE Known(k)'
  <2>1. Known(k)
    BY <1>2 DEF AInv, Published
  <2>2. CASE k = n
    BY <2>2, <1>3, <1>4 DEF Known
  <2>3. CASE k # n
    BY <2>1, <2>3, <1>2, <1>4, <1>6 DEF Known
  <2>4. QED
    BY <2>2, <2>3
<1>9. Refusals'
  BY <1>2, <1>3, RefusalsKept DEF AInv
<1>10. QED
  BY <1>7, <1>8, <1>9 DEF AInv

LEMMA ReaderPopsAcc ==
    ASSUME IInv, AInv, NEW r \in Readers, ReaderPops(r)
    PROVE  AInv'
<1>1. /\ RecordOK /\ reader[r] = None /\ pending # None
      /\ reader' = [reader EXCEPT ![r] = pending]
      /\ pending' = None
      /\ UNCHANGED <<stamps, seq, bus, runs, writer, table, refused, raced, crashed, failed>>
  BY DEF ReaderPops, IInv
<1>2. reader'[r] = pending /\ \A q \in Readers \ {r} : reader'[q] = reader[q]
  BY <1>1 DEF RecordOK
<1>3. \A h \in Events : (h = pending' \/ h \in Held') <=> (h = pending \/ h \in Held)
  BY <1>1, <1>2 DEF Held, Events, None
<1>4. InHandRuns' = InHandRuns /\ (Storing' <=> Storing)
  BY <1>1, <1>3 DEF InHandRuns, Storing
<1>5. Fresh'
  BY <1>1, <1>4 DEF AInv, Fresh
<1>6. \A n \in Published' : Known(n)'
  BY <1>1, <1>4 DEF AInv, Known, Published
<1>7. Refusals'
  BY <1>1 DEF AInv, Refusals
<1>8. QED
  BY <1>5, <1>6, <1>7 DEF AInv

LEMMA RestartAcc ==
    ASSUME IInv, AInv, Restart
    PROVE  AInv'
<1>1. /\ pending' = None /\ writer' = IdleWriter
      /\ reader' = [q \in Readers |-> None]
      /\ crashed' = crashed \cup InHand
      /\ UNCHANGED <<stamps, runs, table, refused, raced, failed>>
  BY DEF Restart
<1>2. InHandRuns' = {} /\ ~Storing'
  BY <1>1 DEF InHandRuns, Held, Storing, IdleWriter, Events, None
<1>3. Fresh'
  BY <1>2 DEF Fresh
<1>4. ASSUME NEW n \in Published' PROVE Known(n)'
  <2>1. Known(n)
    BY <1>1 DEF AInv, Published
  <2>2. ASSUME NEW h \in InHandRuns, n \in runs[h] PROVE n \in InHand
    BY <2>2 DEF InHand, InHandRuns, Events, None
  <2>3. CASE (Storing \/ writer.pc = "append") /\ n = Len(stamps)
    BY <2>3, <1>1 DEF Known, InHand, Storing
  <2>4. QED
    BY <2>1, <2>2, <2>3, <1>1 DEF Known
<1>5. Refusals'
  BY <1>1 DEF AInv, Refusals
<1>6. QED
  BY <1>3, <1>4, <1>5 DEF AInv

\* What an insertion that raises drops is accounted for as such.
LEMMA FailedAcc ==
    ASSUME AInv, UNCHANGED <<stamps, runs, table, refused, raced, crashed>>,
           InHandRuns' \subseteq InHandRuns, failed \subseteq failed',
           \A h \in InHandRuns \ InHandRuns' : runs[h] \subseteq failed',
           writer.pc = "append" => UNCHANGED writer,
           Storing' => Storing,
           Storing /\ ~Storing' => Len(stamps) \in failed'
    PROVE  AInv'
<1>1. Fresh'
  BY DEF AInv, Fresh
<1>2. ASSUME NEW n \in Published' PROVE Known(n)'
  <2>1. Known(n)
    BY DEF AInv, Published
  <2>2. CASE \E h \in InHandRuns : n \in runs[h]
    BY <2>2 DEF Known
  <2>3. CASE (Storing \/ writer.pc = "append") /\ n = Len(stamps)
    BY <2>3 DEF Known
  <2>4. QED
    BY <2>1, <2>2, <2>3 DEF Known
<1>3. Refusals'
  BY DEF AInv, Refusals
<1>4. QED
  BY <1>1, <1>2, <1>3 DEF AInv

LEMMA StoreRunFailsAcc ==
    ASSUME IInv, AInv, StoreRunFails
    PROVE  AInv'
<1>1. RecordOK /\ InProgress
  BY DEF IInv
<1>2. /\ writer.pc = "store" /\ writer' = IdleWriter
      /\ failed' = failed \cup runs[writer.run]
                      \cup (IF writer.next = "event" THEN {Len(stamps)} ELSE {})
      /\ UNCHANGED <<stamps, pending, runs, reader, table, refused, raced, crashed>>
  BY DEF StoreRunFails
<1>3. pending = None /\ writer.run # None
  BY <1>1, <1>2 DEF InProgress
<1>4. writer.run \in Events /\ \A r \in Readers : reader[r] # writer.run
  BY <1>1, <1>2, <1>3 DEF RecordOK, Writer, Events, EventOrNone, None
<1>5. \A h \in Events : (h = pending' \/ h \in Held')
                          <=> (h = pending \/ h \in Held) /\ h # writer.run
  BY <1>2, <1>3, <1>4 DEF Held, IdleWriter, Events, None
<1>6. ~Storing' /\ (Storing => writer.next = "event")
  BY <1>2 DEF Storing, IdleWriter
<1>7. InHandRuns' = InHandRuns \ {writer.run}
  BY <1>5 DEF InHandRuns
<1>8. QED
  BY <1>2, <1>6, <1>7, FailedAcc

LEMMA StoreEventFailsAcc ==
    ASSUME IInv, AInv, StoreEventFails
    PROVE  AInv'
<1>1. /\ writer.pc = "event" /\ writer' = IdleWriter
      /\ failed' = failed \cup {Len(stamps)}
      /\ UNCHANGED <<stamps, pending, runs, reader, table, refused, raced, crashed>>
  BY DEF StoreEventFails
<1>2. InHandRuns' = InHandRuns
  BY <1>1 DEF InHandRuns, Held, IdleWriter
<1>3. ~Storing'
  BY <1>1 DEF Storing, IdleWriter
<1>4. QED
  BY <1>1, <1>2, <1>3, FailedAcc

LEMMA ReaderFailsAcc ==
    ASSUME IInv, AInv, NEW r \in Readers, ReaderFails(r)
    PROVE  AInv'
<1>1. RecordOK
  BY DEF IInv
<1>2. /\ reader[r] # None
      /\ failed' = failed \cup runs[reader[r]]
      /\ reader' = [reader EXCEPT ![r] = None]
      /\ UNCHANGED <<stamps, pending, runs, writer, table, refused, raced, crashed>>
  BY DEF ReaderFails
<1>3. reader'[r] = None /\ \A q \in Readers \ {r} : reader'[q] = reader[q]
  BY <1>1, <1>2 DEF RecordOK
<1>4. /\ reader[r] \in Events /\ pending # reader[r]
      /\ \A q \in Readers \ {r} : reader[q] # reader[r]
      /\ writer.pc = "store" => writer.run # reader[r]
  BY <1>1, <1>2 DEF RecordOK, Held, Events, EventOrNone, None
<1>5. \A h \in Events : (h = pending' \/ h \in Held')
                          <=> (h = pending \/ h \in Held) /\ h # reader[r]
  BY <1>2, <1>3, <1>4 DEF Held
<1>6. Storing' <=> Storing
  BY <1>2 DEF Storing
<1>7. InHandRuns' = InHandRuns \ {reader[r]}
  BY <1>5 DEF InHandRuns
<1>8. QED
  BY <1>2, <1>6, <1>7, FailedAcc

LEMMA StutterAcc ==
    ASSUME AInv, UNCHANGED <<recordVars, failed>>
    PROVE  AInv'
<1> USE DEF recordVars
<1>1. InHandRuns' = InHandRuns /\ (Storing' <=> Storing)
  BY DEF InHandRuns, Held, Storing
<1>2. Fresh'
  BY <1>1 DEF AInv, Fresh
<1>3. \A n \in Published' : Known(n)'
  BY <1>1 DEF AInv, Known, Published
<1>4. Refusals'
  BY DEF AInv, Refusals
<1>5. QED
  BY <1>2, <1>3, <1>4 DEF AInv

\* Nothing is missing from the transcript but for the four causes, a row is
\* never refused to an event by one of its own bus (registry.py:485), and an
\* event that got no seq was published to a closed bus (bus.py:145-146).
THEOREM Accounted == Spec => []TranscriptAccounted
<1>1. Init => AInv
  <2> SUFFICES ASSUME Init PROVE AInv
    OBVIOUS
  <2>1. InHandRuns = {} /\ ~Storing /\ Published = {}
    BY DEF Init, InHandRuns, Held, Storing, IdleWriter, Published, Events, None
  <2>2. QED
    BY <2>1 DEF Init, AInv, Fresh, Refusals
<1>2. IInv /\ AInv /\ [Next]_vars => AInv'
  <2> SUFFICES ASSUME IInv, AInv, [Next]_vars PROVE AInv'
    OBVIOUS
  <2>1. ASSUME NEW t \in Turns, TurnStep(t) PROVE AInv'
    <3>1. CASE Flush(t)
      BY <3>1, PopAcc DEF Flush
    <3>2. CASE BeginTurn(t) \/ GiveBack(t)
      BY <3>2, StutterAcc DEF BeginTurn, GiveBack, recordVars
    <3>3. QED
      BY <2>1, <3>1, <3>2 DEF TurnStep
  <2>2. CASE Archive
    BY <2>2, PopAcc DEF Archive
  <2>3. CASE WriteText \/ AppendChunk \/ WriteEvent \/ StoreRun \/ StoreEvent
             \/ StoreRunFails \/ StoreEventFails
    BY <2>3, WriteTextAcc, AppendChunkAcc, WriteEventAcc, StoreRunAcc, StoreEventAcc,
       StoreRunFailsAcc, StoreEventFailsAcc
  <2>4. ASSUME NEW r \in Readers, RouteStep(r) PROVE AInv'
    BY <2>4, ReaderPopsAcc, ReaderStoresAcc, ReaderFailsAcc DEF RouteStep
  <2>5. CASE Restart
    BY <2>5, RestartAcc
  <2>6. CASE UNCHANGED vars
    BY <2>6, StutterAcc DEF vars, recordVars
  <2>7. QED
    BY <2>1, <2>2, <2>3, <2>4, <2>5, <2>6 DEF Next, LoopStep
<1>3. ASSUME IInv, AInv, TurnInv PROVE TranscriptAccounted
  <2>1. /\ refused \subseteq Events \X Events
        /\ \A s \in Events : table[s] \subseteq Events
    BY <1>3 DEF IInv, RecordOK
  <2>2. ASSUME NEW n \in Published
        PROVE  n \in Stored \cup InHand \cup crashed \cup failed \cup raced
                      \cup {x[2] : x \in refused}
    <3>1. Known(n)
      BY <1>3 DEF AInv
    <3>2. ASSUME NEW s \in Events, n \in table[s] PROVE n \in Stored
      BY <3>2 DEF Stored
    <3>3. ASSUME NEW h \in InHandRuns, n \in runs[h] PROVE n \in InHand
      BY <3>3 DEF InHand, InHandRuns, Events, None
    <3>4. ASSUME (Storing \/ writer.pc = "append") /\ n = Len(stamps) PROVE n \in InHand
      BY <3>4 DEF InHand, Storing
    <3>5. ASSUME NEW s \in Events, <<s, n>> \in refused PROVE n \in {x[2] : x \in refused}
      <4>1. <<s, n>>[2] = n
        OBVIOUS
      <4>2. QED
        BY <4>1, <3>5
    <3>6. QED
      BY <3>1, <3>2, <3>3, <3>4, <3>5 DEF Known
  <2>3. ASSUME NEW x \in refused
        PROVE  \E n \in table[x[1]] : stamps[n].bus # stamps[x[2]].bus
    <3>1. x = <<x[1], x[2]>> /\ x[1] \in Events /\ x[2] \in Events
      BY <2>1
    <3>2. QED
      BY <3>1, <2>3, <1>3 DEF AInv, Refusals
  <2>4. bus \notin closed
    BY <1>3, BusesAssumption DEF IInv, RecordOK, TurnInv
  <2>5. QED
    BY <2>2, <2>3, <2>4, <1>3 DEF TranscriptAccounted, TurnInv
<1>4. QED
  BY Invariance, TurnsKept, <1>1, <1>2, <1>3, PTL DEF Spec

----------------------------------------------------------------------------
(* What follows for a reader of the table *)

\* A row that was written stays as it was (registry.py:485): no later flush,
\* chunk, bus or restart changes what a reader has seen.
THEOREM RowsAreKept ==
    Spec => [][\A s \in Events : table[s] # {} => table'[s] = table[s]]_vars
<1>1. ASSUME IInv, [Next]_vars PROVE \A s \in Events : table[s] # {} => table'[s] = table[s]
  <2>1. table \in [Events -> SUBSET Events]
    BY <1>1 DEF IInv, RecordOK
  <2>2. ASSUME NEW u, NEW E, Insert(u, E)
        PROVE  \A s \in Events : table[s] # {} => table'[s] = table[s]
    BY <2>1, <2>2 DEF Insert
  <2>3. CASE UNCHANGED table
    BY <2>3
  <2>4. CASE StoreRun
    BY <2>2, <2>4 DEF StoreRun
  <2>5. CASE StoreEvent
    BY <2>2, <2>5 DEF StoreEvent
  <2>6. ASSUME NEW r \in Readers, ReaderStores(r)
        PROVE  \A s \in Events : table[s] # {} => table'[s] = table[s]
    BY <2>2, <2>6 DEF ReaderStores
  <2>7. CASE WriteText \/ AppendChunk \/ WriteEvent \/ Archive \/ StoreRunFails \/ StoreEventFails
             \/ Restart \/ UNCHANGED vars
    BY <2>3, <2>7 DEF WriteText, AppendChunk, WriteEvent, Archive, StoreRunFails, StoreEventFails,
                      Restart, vars
  <2>8. ASSUME NEW r \in Readers, ReaderPops(r) \/ ReaderFails(r) PROVE UNCHANGED table
    BY <2>8 DEF ReaderPops, ReaderFails
  <2>9. ASSUME NEW t \in Turns, TurnStep(t) PROVE UNCHANGED table
    BY <2>9 DEF TurnStep, BeginTurn, GiveBack, Flush
  <2>10. QED
    BY <1>1, <2>3, <2>4, <2>5, <2>6, <2>7, <2>8, <2>9 DEF Next, LoopStep, RouteStep
<1>2. QED
  BY <1>1, Invariance, PTL DEF Spec

\* No event is in two rows: a run that is read by one thread while another
\* adds to it or takes the next is written by one of them (transcript.py:33-59).
THEOREM EventsAreWrittenOnce ==
    Spec => [](\A s, u \in Events : s # u => table[s] \cap table[u] = {})
<1>1. ASSUME IInv, TranscriptInOrder
      PROVE  \A s, u \in Events : s # u => table[s] \cap table[u] = {}
  <2>1. SUFFICES ASSUME NEW s \in Events, NEW u \in Events, s # u,
                        NEW k \in table[s], k \in table[u]
                 PROVE  FALSE
    OBVIOUS
  <2>2. k \in Nat /\ s \in Nat /\ u \in Nat
    BY <1>1, <2>1 DEF IInv, RecordOK, Events
  <2>3. CASE s < u
    BY <1>1, <2>1, <2>2, <2>3 DEF TranscriptInOrder
  <2>4. CASE u < s
    BY <1>1, <2>1, <2>2, <2>4 DEF TranscriptInOrder
  <2>5. QED
    BY <2>1, <2>2, <2>3, <2>4
<1>2. QED
  BY <1>1, Invariance, OrderKept, PTL

CrashInv == bus = 1 => crashed = {}

\* As long as a session is on its first bus (no restart, no archive), every
\* event of every turn has a seq, and nothing published is missing from the
\* transcript but what an insertion that raised dropped and chunks whose run
\* another thread wrote between the two halves of write(): neither seq reuse
\* nor a crash nor a closed bus can have cost an event (transcript.py:42-43,
\* bus.py:145-155, registry.py:485).
THEOREM FirstBusLosesByRaceOrFault ==
    Spec => [](bus = 1 => /\ Published \subseteq Stored \cup InHand \cup raced \cup failed
                          /\ unstamped = 0)
<1>1. Init => CrashInv
  BY DEF Init, CrashInv
<1>2. ASSUME IInv, CrashInv, [Next]_vars PROVE CrashInv'
  <2>1. bus \in 1 .. MaxBuses /\ MaxBuses \in Nat
    BY <1>2, BusesAssumption DEF IInv, RecordOK
  <2>2. (crashed' = crashed /\ bus' \in {bus, bus + 1}) \/ bus' = bus + 1
    BY <1>2 DEF Next, LoopStep, TurnStep, RouteStep, WriteText, AppendChunk, WriteEvent,
                BeginTurn, GiveBack, Flush, Archive, CloseBus, KeepBus, StoreRun, StoreRunFails,
                StoreEvent, StoreEventFails, ReaderPops, ReaderStores, ReaderFails, Restart, vars
  <2>3. QED
    BY <1>2, <2>1, <2>2 DEF CrashInv
<1>3. ASSUME IInv, TurnInv, CrashInv, TranscriptAccounted, bus = 1
      PROVE  Published \subseteq Stored \cup InHand \cup raced \cup failed /\ unstamped = 0
  <2>1. /\ Len(stamps) \in Nat
        /\ \A s \in Events : \A k \in table[s] : k \in Published
    BY <1>3, Bounds DEF Published
  <2>2. \A n \in Published : stamps[n].bus = 1
    <3>1. \A n \in Published : stamps[n].bus <= 1
      BY <1>3 DEF IInv, Counting
    <3>2. stamps \in Seq([seq: Events, bus: 1 .. MaxBuses])
      BY <1>3 DEF IInv, RecordOK
    <3>3. \A n \in Published : stamps[n] \in [seq: Events, bus: 1 .. MaxBuses]
      BY <3>2, ElementOfSeq DEF Published
    <3>4. \A n \in Published : stamps[n].bus \in 1 .. MaxBuses
      BY <3>3
    <3>5. QED
      BY <3>1, <3>4, BusesAssumption
  <2>3. ASSUME NEW x \in refused, x[2] \in Published PROVE FALSE
    <3>1. PICK n \in table[x[1]] : stamps[n].bus # stamps[x[2]].bus
      BY <1>3, <2>3 DEF TranscriptAccounted
    <3>2. x[1] \in Events
      BY <1>3, <2>3 DEF IInv, RecordOK
    <3>3. QED
      BY <2>1, <2>2, <2>3, <3>1, <3>2
  <2>4. closed = {}
    BY <1>3 DEF TurnInv
  <2>5. QED
    BY <1>3, <2>3, <2>4 DEF TranscriptAccounted, CrashInv
<1>4. QED
  BY <1>1, <1>2, <1>3, Invariance, TurnsKept, Accounted, PTL DEF Spec
=============================================================================
