----------------------------- MODULE Transcript -----------------------------
(***************************************************************************)
(* The durable record of one session: TranscriptWriter (src/transcript.py),*)
(* which is called by every publish on the event loop, flushed at the end  *)
(* of a turn, by an archive and, from worker threads, by the events route  *)
(* (src/server.py), and the session_events table (src/registry.py).        *)
(*                                                                         *)
(* Threads switch between the operations on the shared dict and lists, so  *)
(* each of those is an action.  Events are numbered as they are published; *)
(* the code knows them by the seq their bus gave them.                     *)
(***************************************************************************)
EXTENDS Naturals, Sequences, FiniteSets

CONSTANTS
    Readers,    \* requests to the events route at a time
    Turns,      \* turns in progress at a time
    MaxEvents,  \* bound: events published
    MaxBuses    \* bound: buses the session has had

None == 0

ASSUME EventsAssumption == MaxEvents \in Nat
ASSUME BusesAssumption == MaxBuses \in Nat \ {0}

VARIABLES
    stamps,     \* history: the seq and the bus of each event published
    seq, bus,   \* the bus: _seq, and which one it is
    pending,    \* _pending[session]: the open run, known by its first event
    runs,       \* the chunks of each run
    writer,     \* the loop's call of write() or flush()
    reader,     \* each request to the events route
    table,      \* session_events: the events in the row of each seq
    refused,    \* history: events whose row was taken, with that row
    raced,      \* history: chunks added to a run another thread was done with
    crashed,    \* history: events in memory at a restart
    failed,     \* history: events whose insertion raised
    holds,      \* the bus each turn fetched when it began, 0 for none
    closed,     \* the buses close() was called on
    unstamped   \* history: events given back by a closed bus

turnVars == <<holds, closed, unstamped>>
vars == <<stamps, seq, bus, pending, runs, writer, reader, table, refused, raced, crashed, failed,
          turnVars>>

----------------------------------------------------------------------------

Events == 1 .. MaxEvents
EventOrNone == 0 .. MaxEvents
Published == 1 .. Len(stamps)

\* next: what the loop does after the flush it is at.
Writer == [pc: {"idle", "append", "store", "event"}, run: EventOrNone,
           next: {"nothing", "event", "close"}]
IdleWriter == [pc |-> "idle", run |-> None, next |-> "nothing"]

\* The runs taken off _pending and not yet written.
Held == {reader[r] : r \in {q \in Readers : reader[q] # None}}
          \cup (IF writer.pc = "store" THEN {writer.run} ELSE {})

\* The events that some thread is about to write.
InHand ==
    (UNION {runs[n] : n \in (Held \cup {pending}) \ {None}})
      \cup (IF writer.pc \in {"append", "event"} \/ writer.next = "event"
            THEN {Len(stamps)} ELSE {})

\* Popping hands each run to one flush: a run that is being written is open
\* no longer, and no other thread has it.
RecordOK ==
    /\ stamps \in Seq([seq: Events, bus: 1 .. MaxBuses]) /\ Len(stamps) <= MaxEvents
    /\ seq \in EventOrNone
    /\ bus \in 1 .. MaxBuses
    /\ pending \in EventOrNone
    /\ runs \in [Events -> SUBSET Events]
    /\ writer \in Writer
    /\ reader \in [Readers -> EventOrNone]
    /\ table \in [Events -> SUBSET Events]
    /\ refused \subseteq Events \X Events
    /\ raced \subseteq Events
    /\ crashed \subseteq Events
    /\ pending \notin Held
    /\ \A r \in Readers : reader[r] # None =>
          /\ \A q \in Readers \ {r} : reader[q] # reader[r]
          /\ writer.pc = "store" => writer.run # reader[r]

\* The types, and that no two threads write the same run.
TypeOK ==
    /\ RecordOK
    /\ failed \subseteq Events
    /\ holds \in [Turns -> 0 .. MaxBuses]
    /\ closed \in SUBSET (1 .. MaxBuses)
    /\ unstamped \in 0 .. MaxEvents

----------------------------------------------------------------------------
(* The table *)

\* Faulty variant: INSERT OR REPLACE.
InsertReplacing(s, events) ==
    /\ table' = IF events # {} THEN [table EXCEPT ![s] = events] ELSE table
    /\ UNCHANGED refused

\* append_event, when it does not raise: INSERT OR IGNORE on (session, seq).
\* flush() has nothing to insert when no chunk has reached the run yet.
Insert(s, events) ==
    /\ table' = IF table[s] = {} THEN [table EXCEPT ![s] = events] ELSE table
    /\ refused' = IF table[s] = {} THEN refused ELSE refused \cup ({s} \X events)

----------------------------------------------------------------------------
(* write() and flush() on the event loop *)

Stamp == stamps' = Append(stamps, [seq |-> seq + 1, bus |-> bus]) /\ seq' = seq + 1

Publishing ==
    /\ writer = IdleWriter
    /\ Len(stamps) < MaxEvents
    /\ Stamp

\* Faulty variant: the run is read and not taken off.
PopKeeping(next) ==
    /\ writer' = [pc |-> IF pending # None THEN "store" ELSE IF next = "event" THEN "event" ELSE "idle",
                  run |-> pending, next |-> next]
    /\ UNCHANGED pending

\* flush(): the open run, if any, is taken.
Pop(next) ==
    /\ writer' = IF pending # None THEN [pc |-> "store", run |-> pending, next |-> next]
                 ELSE IF next = "event" THEN [pc |-> "event", run |-> None, next |-> "nothing"]
                 ELSE IdleWriter
    /\ pending' = None

\* write() of a text: setdefault first, append after.
WriteText ==
    LET n == Len(stamps) + 1 IN
    /\ Publishing
    /\ pending' = IF pending = None THEN n ELSE pending
    /\ writer' = [pc |-> "append", run |-> pending', next |-> "nothing"]
    /\ UNCHANGED <<bus, runs, reader, table, refused, raced, crashed, failed, turnVars>>

\* The chunk reaches the run, which a reader may be done with by now.
AppendChunk ==
    LET n == Len(stamps) IN
    /\ writer.pc = "append"
    /\ runs' = [runs EXCEPT ![writer.run] = @ \cup {n}]
    /\ raced' = IF writer.run = pending \/ writer.run \in Held THEN raced ELSE raced \cup {n}
    /\ writer' = IdleWriter
    /\ UNCHANGED <<stamps, seq, bus, pending, reader, table, refused, crashed, failed, turnVars>>

\* Faulty variant: the run stays open over an event that is no text.
WriteEventUnflushed ==
    /\ Publishing
    /\ writer' = [pc |-> "event", run |-> None, next |-> "nothing"]
    /\ UNCHANGED <<bus, pending, runs, reader, table, refused, raced, crashed, failed, turnVars>>

\* write() of anything else ends the run first.
WriteEvent ==
    /\ Publishing
    /\ Pop("event")
    /\ UNCHANGED <<bus, runs, reader, table, refused, raced, crashed, failed, turnVars>>

\* A turn fetches the session's bus once, and keeps it for all its events.
BeginTurn(t) ==
    /\ writer = IdleWriter
    /\ holds[t] = 0
    /\ holds' = [holds EXCEPT ![t] = bus]
    /\ UNCHANGED <<stamps, seq, bus, pending, runs, writer, reader, table, refused, raced, crashed,
                   failed, closed, unstamped>>

\* The bus was closed under the turn: publish() gives the event back as it
\* is, and write() is not called.
GiveBack(t) ==
    /\ writer = IdleWriter
    /\ holds[t] \in closed
    /\ Len(stamps) + unstamped < MaxEvents
    /\ unstamped' = unstamped + 1
    /\ UNCHANGED <<stamps, seq, bus, pending, runs, writer, reader, table, refused, raced, crashed,
                   failed, holds, closed>>

\* The end of a turn, whichever bus it holds, flushes the session's run.
Flush(t) ==
    /\ writer = IdleWriter
    /\ holds[t] # 0
    /\ holds' = [holds EXCEPT ![t] = 0]
    /\ Pop("nothing")
    /\ UNCHANGED <<stamps, seq, bus, runs, reader, table, refused, raced, crashed, failed,
                   closed, unstamped>>

\* streams.discard: the bus is closed, and the next one counts from 1.
CloseBus == bus' = bus + 1 /\ seq' = 0 /\ closed' = closed \cup {bus}
KeepBus == UNCHANGED <<seq, bus, closed>>

\* archive(): flush, then the bus is discarded.
Archive ==
    /\ writer = IdleWriter
    /\ bus < MaxBuses
    /\ Pop("close")
    /\ IF pending = None THEN CloseBus ELSE KeepBus
    /\ UNCHANGED <<stamps, runs, reader, table, refused, raced, crashed, failed, holds, unstamped>>

StoreRun ==
    /\ writer.pc = "store"
    /\ Insert(stamps[writer.run].seq, runs[writer.run])
    /\ writer' = IF writer.next = "event" THEN [pc |-> "event", run |-> None, next |-> "nothing"]
                 ELSE IdleWriter
    /\ IF writer.next = "close" THEN CloseBus ELSE KeepBus
    /\ UNCHANGED <<stamps, pending, runs, reader, raced, crashed, failed, holds, unstamped>>

\* The insertion raises.  The run is off _pending already, the event behind
\* it is not written either, and an archive ends before it closes the bus;
\* publish() logs what its sink raised and goes on.
StoreRunFails ==
    /\ writer.pc = "store"
    /\ failed' = failed \cup runs[writer.run]
                        \cup (IF writer.next = "event" THEN {Len(stamps)} ELSE {})
    /\ writer' = IdleWriter
    /\ UNCHANGED <<stamps, seq, bus, pending, runs, reader, table, refused, raced, crashed, turnVars>>

StoreEvent ==
    LET n == Len(stamps) IN
    /\ writer.pc = "event"
    /\ Insert(stamps[n].seq, {n})
    /\ writer' = IdleWriter
    /\ UNCHANGED <<stamps, seq, bus, pending, runs, reader, raced, crashed, failed, turnVars>>

StoreEventFails ==
    /\ writer.pc = "event"
    /\ failed' = failed \cup {Len(stamps)}
    /\ writer' = IdleWriter
    /\ UNCHANGED <<stamps, seq, bus, pending, runs, reader, table, refused, raced, crashed, turnVars>>

----------------------------------------------------------------------------
(* The events route, on a worker thread *)

ReaderPops(r) ==
    /\ reader[r] = None
    /\ pending # None
    /\ reader' = [reader EXCEPT ![r] = pending]
    /\ pending' = None
    /\ UNCHANGED <<stamps, seq, bus, runs, writer, table, refused, raced, crashed, failed, turnVars>>

ReaderStores(r) ==
    /\ reader[r] # None
    /\ Insert(stamps[reader[r]].seq, runs[reader[r]])
    /\ reader' = [reader EXCEPT ![r] = None]
    /\ UNCHANGED <<stamps, seq, bus, pending, runs, writer, raced, crashed, failed, turnVars>>

\* The request fails, and the run with it.
ReaderFails(r) ==
    /\ reader[r] # None
    /\ failed' = failed \cup runs[reader[r]]
    /\ reader' = [reader EXCEPT ![r] = None]
    /\ UNCHANGED <<stamps, seq, bus, pending, runs, writer, table, refused, raced, crashed, turnVars>>

----------------------------------------------------------------------------

\* frame-main restarts: what was not written yet is gone, and every turn.
Restart ==
    /\ bus < MaxBuses
    /\ bus' = bus + 1
    /\ seq' = 0
    /\ pending' = None
    /\ writer' = IdleWriter
    /\ reader' = [r \in Readers |-> None]
    /\ crashed' = crashed \cup InHand
    /\ holds' = [t \in Turns |-> 0]
    /\ UNCHANGED <<stamps, runs, table, refused, raced, failed, closed, unstamped>>

Init ==
    /\ stamps = <<>>
    /\ seq = 0
    /\ bus = 1
    /\ pending = None
    /\ runs = [n \in Events |-> {}]
    /\ writer = IdleWriter
    /\ reader = [r \in Readers |-> None]
    /\ table = [s \in Events |-> {}]
    /\ refused = {}
    /\ raced = {}
    /\ crashed = {}
    /\ failed = {}
    /\ holds = [t \in Turns |-> 0]
    /\ closed = {}
    /\ unstamped = 0

LoopStep ==
    \/ WriteText
    \/ AppendChunk
    \/ WriteEvent
    \/ Archive
    \/ StoreRun
    \/ StoreRunFails
    \/ StoreEvent
    \/ StoreEventFails

TurnStep(t) == BeginTurn(t) \/ GiveBack(t) \/ Flush(t)

RouteStep(r) == ReaderPops(r) \/ ReaderStores(r) \/ ReaderFails(r)

Next ==
    \/ LoopStep
    \/ \E t \in Turns : TurnStep(t)
    \/ \E r \in Readers : RouteStep(r)
    \/ Restart

Spec == Init /\ [][Next]_vars

----------------------------------------------------------------------------
(* What the transcript promises *)

Stored == UNION {table[s] : s \in Events}

\* Every event that got a seq is in the table or about to be, with four
\* causes for the rest: a restart found it in memory, its insertion or the one
\* of the run before it raised (bus.py:150-155, transcript.py:50-60), a flush on
\* another thread was done with its run between the two halves of write()
\* (transcript.py:42-43), or its row is taken (registry.py:485), and then by an
\* event of another bus of the session, never by one of its own.  And an event
\* without a seq is one that a closed bus gave back (bus.py:145-146) to a turn
\* that an archive found in progress.
TranscriptAccounted ==
    /\ Published \subseteq Stored \cup InHand \cup crashed \cup failed \cup raced
                             \cup {x[2] : x \in refused}
    /\ \A x \in refused : \E n \in table[x[1]] : stamps[n].bus # stamps[x[2]].bus
    /\ unstamped # 0 => closed # {}
    /\ \A t \in Turns : holds[t] \in {0, bus} \cup closed
    /\ bus \notin closed

\* "Transcript order and bus order therefore agree" (DESIGN.md:270): whichever
\* threads flush, the rows of a bus follow each other as its events did, and
\* each is stamped with the seq of its first event.
TranscriptInOrder ==
    /\ \A s, u \in Events : s < u =>
          \A m \in table[s], n \in table[u] : stamps[m].bus = stamps[n].bus => m < n
    /\ \A s \in Events : table[s] # {} =>
          \E m \in table[s] : stamps[m].seq = s /\ \A n \in table[s] : m <= n

\* "Every event is also written to `session_events` as it is published"
\* (DESIGN.md:265-266): but for what a restart found in memory and for an
\* insertion that raised, an event is in the table or about to be.
EveryEventIsWritten == Published \subseteq Stored \cup InHand \cup crashed \cup failed
=============================================================================
