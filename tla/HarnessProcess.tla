--------------------------- MODULE HarnessProcess ---------------------------
(***************************************************************************)
(* The harness of one session: HarnessProcess                              *)
(* (src/sandbox/harness_process.py) and the part of DockerProvisioner that *)
(* keeps one per session (run_turn, _harness and _close_harness_for in     *)
(* src/sandbox/provision.py).                                              *)
(*                                                                         *)
(* A turn is a coroutine; its "pc" names the await it is suspended on:     *)
(*   spawning   _harness is creating the session's harness                 *)
(*   lock       waiting for _send_lock                                     *)
(*   starting   start() is creating the process again, under the lock      *)
(*   active     the prompt is written; waiting for it to be drained, then  *)
(*              for events                                                 *)
(* A HarnessProcess object is known by the number of its first process: an *)
(* object that was closed can be started again by a turn that waited.      *)
(***************************************************************************)
EXTENDS Naturals, Sequences, FiniteSets

CONSTANTS
    Turns,      \* the turns asked of the session, each with its prompt
    MaxProcs,   \* bound: `docker exec` processes started
    MaxWakes,   \* bound: times the harness takes up work nobody asked for
    MaxStops,   \* bound: times the container is stopped
    Slow,       \* bound: processes that may be slow to read their prompts
    Wordy       \* bound: processes that may write a line too long to be read

\* Python's None.
None == 0

ASSUME TurnsAssumption == None \notin Turns /\ {"wake", "exit"} \cap Turns = {}
ASSUME BoundsAssumption == MaxProcs \in Nat /\ MaxWakes \in Nat /\ MaxStops \in Nat

VARIABLES
    tracked,    \* _harnesses[session]
    harness,    \* the objects: _process, _turn, _send_lock
    procs,      \* the processes: what they were asked, what they wrote
    spawned,    \* processes started so far
    turns,      \* the turns: where each is, on which object, its _queue
    inpipe,     \* the prompts each process has not yet read to their end
    deaf,       \* the processes whose reader failed, and reads no more
    abandoned,  \* the objects whose _turn was cut short: nobody takes its events
    stopper,    \* DockerProvisioner.stop in progress
    wakes, stops,
    clean       \* history: turns whose prompt a quiet process took at once

pipeVars == <<inpipe, deaf, abandoned>>
vars == <<tracked, harness, procs, spawned, turns, pipeVars, stopper, wakes, stops, clean>>

----------------------------------------------------------------------------
(* Types *)

Procs == 1 .. MaxProcs
ProcOrNone == 0 .. MaxProcs

\* What a piece of output answers: a prompt, something that woke the harness
\* up, or nothing: frame-main's own notice that the process is gone.
Event == [for: Turns \cup {"wake", "exit"}, last: BOOLEAN]
Notice == [for |-> "exit", last |-> TRUE]

Job == [for: Turns \cup {"wake"}, said: BOOLEAN]

Object == [proc: ProcOrNone, turn: Turns \cup {None}, lock: Seq(Turns)]
NoObject == [proc |-> None, turn |-> None, lock |-> <<>>]

\* exited: gone, but asyncio has not set returncode yet; reaped: it has.
Proc == [owner: ProcOrNone, state: {"none", "up", "exited", "reaped"},
         todo: Seq(Job), out: Seq(Event), reader: BOOLEAN]
NoProc == [owner |-> None, state |-> "none", todo |-> <<>>, out |-> <<>>, reader |-> FALSE]

Turn == [pc: {"new", "spawning", "lock", "starting", "active", "done"},
         obj: ProcOrNone, queue: Seq(Event)]

Stopper == [pc: {"idle", "closing", "docker"}, obj: ProcOrNone, proc: ProcOrNone]
IdleStopper == [pc |-> "idle", obj |-> None, proc |-> None]

\* Nothing is ever queued behind the event that ends a turn: the reader of a
\* turn stops there.
StateOK ==
    /\ tracked \in 0 .. spawned
    /\ harness \in [Procs -> Object]
    /\ procs \in [Procs -> Proc]
    /\ spawned \in ProcOrNone
    /\ turns \in [Turns -> Turn]
    /\ \A t \in Turns : \A i \in DOMAIN turns[t].queue :
          turns[t].queue[i].last => i = Len(turns[t].queue)
    /\ stopper \in Stopper
    /\ wakes \in 0 .. MaxWakes
    /\ stops \in 0 .. MaxStops
    /\ clean \in SUBSET Turns

\* The types, and that an object whose turn was abandoned has no other.
TypeOK ==
    /\ StateOK
    /\ inpipe \in [Procs -> Seq(Turns)]
    /\ deaf \in SUBSET Procs
    /\ abandoned \in SUBSET {o \in Procs : harness[o].turn = None}

----------------------------------------------------------------------------
(* _deliver(): an event goes to the object's turn, if it has one: to nobody *)
(* if that was abandoned.  It goes to the session's bus otherwise, which is *)
(* no state here.                                                           *)

\* Faulty variant: the turn that ended stays the outstanding one.
SettledKeeping(hs, o, e) == hs

\* An event that ends the turn takes it off the object.
Settled(hs, o, e) == IF e.last THEN [hs EXCEPT ![o].turn = None] ELSE hs

Forgotten(o, e) == IF e.last THEN abandoned \ {o} ELSE abandoned

Queued(o, e) ==
    IF harness[o].turn = None THEN turns
    ELSE [turns EXCEPT ![harness[o].turn].queue = Append(@, e)]

\* What close() leaves of an object, and of its process's reader.
Detached(hs, o) == [hs EXCEPT ![o].proc = None]
Unread(p) == [procs EXCEPT ![p].reader = FALSE]

----------------------------------------------------------------------------
(* A turn *)

Quit(t) == [pc |-> "done", obj |-> None, queue |-> <<>>]

\* The process has read t's prompt to its end, if it is up.
Given(ps, p, t) ==
    IF ps[p].state = "up"
    THEN [ps EXCEPT ![p].todo = Append(@, [for |-> t, said |-> FALSE])]
    ELSE ps

\* The prompt is written to p, which takes it at once, or leaves the turn at
\* the await of drain().
Prompt(t, o, p, hs, ps) ==
    /\ harness' = [hs EXCEPT ![o].turn = t]
    /\ turns' = [turns EXCEPT ![t] = [pc |-> "active", obj |-> o, queue |-> <<>>]]
    /\ abandoned' = abandoned \ {o}
    /\ \/ /\ inpipe[p] = <<>>
          /\ procs' = Given(ps, p, t)
          /\ clean' = IF ps[p].todo = <<>> /\ ps[p].out = <<>> THEN clean \cup {t} ELSE clean
          /\ UNCHANGED inpipe
       \/ /\ p \in Slow
          /\ procs' = ps
          /\ inpipe' = [inpipe EXCEPT ![p] = Append(@, t)]
          /\ UNCHANGED clean
    /\ UNCHANGED deaf

\* The process is known to be gone, or its stdin is found closed.  The entry
\* of the session is dropped, whichever object it names by now.
Fail(t, o, hs) ==
    /\ harness' = [hs EXCEPT ![o].lock = Tail(@)]
    /\ tracked' = None
    /\ turns' = [turns EXCEPT ![t] = Quit(t)]
    /\ UNCHANGED <<procs, clean, pipeVars>>

\* Under the lock: start() if there is no process, else write.  A process
\* that exited unnoticed may take the prompt all the same.
Hold(t, o, hs) ==
    LET p == hs[o].proc IN
    \/ /\ p = None
       /\ harness' = hs
       /\ turns' = [turns EXCEPT ![t] = [pc |-> "starting", obj |-> o, queue |-> <<>>]]
       /\ UNCHANGED <<tracked, procs, clean, pipeVars>>
    \/ /\ p # None
       /\ procs[p].state \in {"up", "exited"}
       /\ Prompt(t, o, p, hs, procs)
       /\ UNCHANGED tracked
    \/ /\ p # None
       /\ procs[p].state # "up"
       /\ Fail(t, o, hs)

Alive(o) == harness[o].proc # None /\ procs[harness[o].proc].state \in {"up", "exited"}

\* run_turn up to its first await: the session's harness is taken if it is
\* alive; a dead one is closed, which tells the turn still waiting on it, and
\* another is spawned.
Ask(t) ==
    /\ turns[t].pc = "new"
    /\ \/ /\ tracked # None
          /\ Alive(tracked)
          /\ LET hs == [harness EXCEPT ![tracked].lock = Append(@, t)] IN
             IF harness[tracked].lock = <<>>
             THEN Hold(t, tracked, hs)
             ELSE /\ harness' = hs
                  /\ turns' = [turns EXCEPT ![t] = [pc |-> "lock", obj |-> tracked, queue |-> <<>>]]
                  /\ UNCHANGED <<tracked, procs, clean, pipeVars>>
       \/ /\ tracked # None
          /\ ~Alive(tracked)
          /\ IF harness[tracked].proc = None
             THEN /\ turns' = [turns EXCEPT ![t].pc = "spawning"]
                  /\ UNCHANGED <<harness, procs, abandoned>>
             ELSE /\ harness' = Settled(Detached(harness, tracked), tracked, Notice)
                  /\ abandoned' = Forgotten(tracked, Notice)
                  /\ procs' = Unread(harness[tracked].proc)
                  /\ turns' = [Queued(tracked, Notice) EXCEPT ![t].pc = "spawning"]
          /\ UNCHANGED <<tracked, clean, inpipe, deaf>>
       \/ /\ tracked = None
          /\ turns' = [turns EXCEPT ![t].pc = "spawning"]
          /\ UNCHANGED <<tracked, harness, procs, clean, pipeVars>>
    /\ UNCHANGED <<spawned, stopper, wakes, stops>>

NewProc(o) == [NoProc EXCEPT !.owner = o, !.state = "up", !.reader = TRUE]

\* The process of a new object is up: it becomes the session's harness,
\* whatever was there, and takes the prompt.
Spawned(t) ==
    LET p == spawned + 1 IN
    /\ turns[t].pc = "spawning"
    /\ spawned < MaxProcs
    /\ spawned' = p
    /\ tracked' = p
    /\ Prompt(t, p, p, [harness EXCEPT ![p] = [proc |-> p, turn |-> None, lock |-> <<t>>]],
                       [procs EXCEPT ![p] = NewProc(p)])
    /\ UNCHANGED <<stopper, wakes, stops>>

\* start() under the lock of an object that was closed.
Started(t) ==
    LET p == spawned + 1
        o == turns[t].obj IN
    /\ turns[t].pc = "starting"
    /\ spawned < MaxProcs
    /\ spawned' = p
    /\ Prompt(t, o, p, [harness EXCEPT ![o].proc = p], [procs EXCEPT ![p] = NewProc(o)])
    /\ UNCHANGED <<tracked, stopper, wakes, stops>>

\* The lock when t, which waits for it once or holds it, is taken off.
Without(lock, t) ==
    LET i == CHOOSE j \in DOMAIN lock : lock[j] = t
    IN  [j \in 1 .. Len(lock) - 1 |-> IF j < i THEN lock[j] ELSE lock[j + 1]]

\* The subprocess could not be created: the OSError passes through.
SpawnFails(t) ==
    /\ turns[t].pc \in {"spawning", "starting"}
    /\ turns' = [turns EXCEPT ![t] = Quit(t)]
    /\ harness' = IF turns[t].pc = "starting"
                  THEN [harness EXCEPT ![turns[t].obj].lock = Tail(@)] ELSE harness
    /\ UNCHANGED <<tracked, procs, spawned, stopper, wakes, stops, clean, pipeVars>>

\* The object was prompted for t, whose prompt the process has not all read.
Draining(t) ==
    /\ turns[t].pc = "active"
    /\ \E p \in Procs : \E i \in DOMAIN inpipe[p] : inpipe[p][i] = t

\* drain() finds that the process is gone.
DrainFails(t) ==
    /\ Draining(t)
    /\ \E p \in Procs : procs[p].state # "up" /\ \E i \in DOMAIN inpipe[p] : inpipe[p][i] = t
    /\ Fail(t, turns[t].obj, [harness EXCEPT ![turns[t].obj].turn = None])
    /\ UNCHANGED <<spawned, stopper, wakes, stops>>

LockGranted(t) ==
    LET o == turns[t].obj IN
    /\ turns[t].pc = "lock"
    /\ Head(harness[o].lock) = t
    /\ Hold(t, o, harness)
    /\ UNCHANGED <<spawned, stopper, wakes, stops>>

\* The requester takes the next event; the last one ends the turn.
TakeEvent(t) ==
    LET o == turns[t].obj
        e == Head(turns[t].queue) IN
    /\ turns[t].pc = "active"
    /\ ~Draining(t)
    /\ turns[t].queue # <<>>
    /\ IF e.last
       THEN /\ harness' = [harness EXCEPT ![o].turn = None, ![o].lock = Tail(@)]
            /\ turns' = [turns EXCEPT ![t] = Quit(t)]
       ELSE /\ turns' = [turns EXCEPT ![t].queue = Tail(@)]
            /\ UNCHANGED harness
    /\ UNCHANGED <<tracked, procs, spawned, stopper, wakes, stops, clean, pipeVars>>

\* Faulty variant: what gives the lock back begins behind the drain.
CutShortHoldingLock(t) ==
    LET o == turns[t].obj IN
    /\ turns[t].pc \in {"spawning", "lock", "starting", "active"}
    /\ turns' = [turns EXCEPT ![t] = Quit(t)]
    /\ harness' = IF turns[t].pc = "spawning" \/ Draining(t) THEN harness
                  ELSE [harness EXCEPT
                           ![o].lock = Without(@, t),
                           ![o].turn = IF turns[t].pc = "active" THEN None ELSE @]
    /\ UNCHANGED <<tracked, procs, spawned, stopper, wakes, stops, clean, pipeVars>>

\* The turn times out, or its requester goes away: it is cancelled at
\* whatever await it is in.  The harness is not told.  At the drain the lock
\* is released and _turn is left as it is, and what is in the pipe is read all
\* the same; behind it _turn is cleared.
CutShort(t) ==
    LET o == turns[t].obj IN
    /\ turns[t].pc \in {"spawning", "lock", "starting", "active"}
    /\ turns' = [turns EXCEPT ![t] = Quit(t)]
    /\ harness' = IF turns[t].pc = "spawning" THEN harness
                  ELSE [harness EXCEPT
                           ![o].lock = Without(@, t),
                           ![o].turn = IF turns[t].pc = "active" THEN None ELSE @]
    /\ abandoned' = IF Draining(t) /\ harness[o].turn = t THEN abandoned \cup {o} ELSE abandoned
    /\ UNCHANGED <<tracked, procs, spawned, stopper, wakes, stops, clean, inpipe, deaf>>

----------------------------------------------------------------------------
(* The reader, and the process it reads *)

Read(p) ==
    LET o == procs[p].owner
        e == Head(procs[p].out) IN
    /\ procs[p].reader
    /\ p \notin deaf
    /\ procs[p].out # <<>>
    /\ procs' = [procs EXCEPT ![p].out = Tail(@)]
    /\ turns' = Queued(o, e)
    /\ harness' = Settled(harness, o, e)
    /\ abandoned' = Forgotten(o, e)
    /\ UNCHANGED <<tracked, spawned, stopper, wakes, stops, clean, inpipe, deaf>>

\* A line is longer than StreamReader takes: readline raises, and _pump goes
\* straight to _on_exit, with a process that may live on.
ReadFails(p) ==
    /\ p \in Wordy
    /\ procs[p].reader
    /\ p \notin deaf
    /\ procs[p].out # <<>>
    /\ deaf' = deaf \cup {p}
    /\ UNCHANGED <<tracked, harness, procs, spawned, turns, inpipe, abandoned, stopper, wakes, stops,
                   clean>>

\* _on_exit, which waits for the return code.
ReadEnd(p) ==
    LET o == procs[p].owner IN
    /\ procs[p].reader
    /\ procs[p].out = <<>> \/ p \in deaf
    /\ procs[p].state = "reaped"
    /\ procs' = Unread(p)
    /\ turns' = Queued(o, Notice)
    /\ harness' = Settled(harness, o, Notice)
    /\ abandoned' = Forgotten(o, Notice)
    /\ UNCHANGED <<tracked, spawned, stopper, wakes, stops, clean, inpipe, deaf>>

\* The process has read its first prompt in the pipe to the end.
TakePrompt(p) ==
    /\ inpipe[p] # <<>>
    /\ procs[p].state = "up"
    /\ procs' = Given(procs, p, Head(inpipe[p]))
    /\ inpipe' = [inpipe EXCEPT ![p] = Tail(@)]
    /\ UNCHANGED <<tracked, harness, spawned, turns, deaf, abandoned, stopper, wakes, stops, clean>>

\* The harness works off its input in order.  An interrupt makes it end what
\* it is at.
Answer(p) ==
    LET job == Head(procs[p].todo) IN
    /\ procs[p].state = "up"
    /\ procs[p].todo # <<>>
    /\ \/ /\ ~job.said
          /\ procs' = [procs EXCEPT ![p].todo[1].said = TRUE,
                                    ![p].out = Append(@, [for |-> job.for, last |-> FALSE])]
       \/ procs' = [procs EXCEPT ![p].todo = Tail(@),
                                 ![p].out = Append(@, [for |-> job.for, last |-> TRUE])]
    /\ UNCHANGED <<tracked, harness, spawned, turns, stopper, wakes, stops, clean, pipeVars>>

Wake(p) ==
    /\ procs[p].state = "up"
    /\ wakes < MaxWakes
    /\ wakes' = wakes + 1
    /\ procs' = [procs EXCEPT ![p].todo = Append(@, [for |-> "wake", said |-> FALSE])]
    /\ UNCHANGED <<tracked, harness, spawned, turns, stopper, stops, clean, pipeVars>>

Die(p) ==
    /\ procs[p].state = "up"
    /\ procs' = [procs EXCEPT ![p].state = "exited", ![p].todo = <<>>]
    /\ UNCHANGED <<tracked, harness, spawned, turns, stopper, wakes, stops, clean, pipeVars>>

Reap(p) ==
    /\ procs[p].state = "exited"
    /\ procs' = [procs EXCEPT ![p].state = "reaped"]
    /\ UNCHANGED <<tracked, harness, spawned, turns, stopper, wakes, stops, clean, pipeVars>>

----------------------------------------------------------------------------
(* stop(), remove(): the harness is closed, then docker called *)

\* Faulty variant: the reader is left running.
StopReading ==
    LET o == tracked
        p == harness[o].proc IN
    /\ stopper.pc = "idle"
    /\ stops < MaxStops
    /\ stops' = stops + 1
    /\ tracked # None
    /\ p # None
    /\ tracked' = None
    /\ harness' = Detached(harness, o)
    /\ stopper' = [pc |-> "closing", obj |-> o, proc |-> p]
    /\ UNCHANGED <<procs, turns, spawned, wakes, clean, pipeVars>>

\* _close_harness_for, up to the wait for the process: an object without one
\* has nothing to close, and one that was reaped is not waited for.
Stop ==
    LET o == tracked
        p == IF o = None THEN None ELSE harness[o].proc IN
    /\ stopper.pc = "idle"
    /\ stops < MaxStops
    /\ stops' = stops + 1
    /\ tracked' = None
    /\ \/ /\ p = None
          /\ stopper' = [IdleStopper EXCEPT !.pc = "docker"]
          /\ UNCHANGED <<harness, procs, turns, abandoned>>
       \/ /\ p # None
          /\ procs' = Unread(p)
          /\ IF procs[p].state = "reaped"
             THEN /\ harness' = Settled(Detached(harness, o), o, Notice)
                  /\ turns' = Queued(o, Notice)
                  /\ abandoned' = Forgotten(o, Notice)
                  /\ stopper' = [IdleStopper EXCEPT !.pc = "docker"]
             ELSE /\ harness' = Detached(harness, o)
                  /\ stopper' = [pc |-> "closing", obj |-> o, proc |-> p]
                  /\ UNCHANGED <<turns, abandoned>>
    /\ UNCHANGED <<spawned, wakes, clean, inpipe, deaf>>

\* Faulty variant: close() ends without a word.
CloseEndsSilently ==
    LET p == stopper.proc IN
    /\ stopper.pc = "closing"
    /\ procs' = [procs EXCEPT ![p].state = "reaped", ![p].todo = <<>>]
    /\ stopper' = [IdleStopper EXCEPT !.pc = "docker"]
    /\ UNCHANGED <<harness, turns, tracked, spawned, wakes, stops, clean, pipeVars>>

\* The process is gone, of itself or killed after the grace: close() tells
\* the turn outstanding now.
CloseEnds ==
    LET o == stopper.obj
        p == stopper.proc IN
    /\ stopper.pc = "closing"
    /\ procs' = [procs EXCEPT ![p].state = "reaped", ![p].todo = <<>>]
    /\ turns' = Queued(o, Notice)
    /\ harness' = Settled(harness, o, Notice)
    /\ abandoned' = Forgotten(o, Notice)
    /\ stopper' = [IdleStopper EXCEPT !.pc = "docker"]
    /\ UNCHANGED <<tracked, spawned, wakes, stops, clean, inpipe, deaf>>

\* With the container go the processes in it, also those nobody tracks.
DockerStops ==
    /\ stopper.pc = "docker"
    /\ stopper' = IdleStopper
    /\ procs' = [p \in Procs |->
                   IF procs[p].state = "up"
                   THEN [procs[p] EXCEPT !.state = "exited", !.todo = <<>>]
                   ELSE procs[p]]
    /\ UNCHANGED <<tracked, harness, spawned, turns, wakes, stops, clean, inpipe, deaf,
                   abandoned>>

----------------------------------------------------------------------------

Init ==
    /\ tracked = None
    /\ harness = [o \in Procs |-> NoObject]
    /\ procs = [p \in Procs |-> NoProc]
    /\ spawned = 0
    /\ turns = [t \in Turns |-> [pc |-> "new", obj |-> None, queue |-> <<>>]]
    /\ inpipe = [p \in Procs |-> <<>>]
    /\ deaf = {}
    /\ abandoned = {}
    /\ stopper = IdleStopper
    /\ wakes = 0
    /\ stops = 0
    /\ clean = {}

TurnStep(t) ==
    \/ Spawned(t)
    \/ Started(t)
    \/ SpawnFails(t)
    \/ LockGranted(t)
    \/ DrainFails(t)
    \/ TakeEvent(t)

ProcStep(p) == Read(p) \/ ReadEnd(p) \/ ReadFails(p) \/ TakePrompt(p) \/ Answer(p) \/ Reap(p)

StopStep == CloseEnds \/ DockerStops

Next ==
    \/ \E t \in Turns : Ask(t) \/ TurnStep(t) \/ CutShort(t)
    \/ \E p \in Procs : ProcStep(p) \/ Wake(p) \/ Die(p)
    \/ Stop
    \/ StopStep

Spec == Init /\ [][Next]_vars

\* The ceiling (sessions.py:232-243): a turn that got no event for so long is
\* cut short.  Of the turns that wait for the lock it is not asked for.
TimeOut(t) ==
    /\ turns[t].pc # "lock"
    /\ turns[t].pc = "active" /\ ~Draining(t) => turns[t].queue = <<>>
    /\ CutShort(t)

\* A turn's coroutine is resumed in the end: with the lock, with an event its
\* requester is there to take, or by the ceiling.  Nothing is counted on of the
\* harness, its processes and its reader: they may be silent for ever.
Fairness == \A t \in Turns : WF_vars(LockGranted(t) \/ TakeEvent(t) \/ TimeOut(t))

FairSpec == Spec /\ Fairness

----------------------------------------------------------------------------
(* What the harness process promises *)

\* An outstanding turn is never left without someone to end it: its end is
\* in its queue, or it is the object's turn and a close of the object is still
\* to report, or the object's process is being read, or, with a process whose
\* reader failed, the reader waits for the process to go (l.151, 155-187).
TurnIsHeard ==
    \A t \in Turns : turns[t].pc = "active" =>
        LET o == turns[t].obj IN
        \/ \E i \in DOMAIN turns[t].queue : turns[t].queue[i].last
        \/ /\ harness[o].turn = t
           /\ \/ harness[o].proc # None /\ procs[harness[o].proc].reader
              \/ stopper.pc = "closing" /\ stopper.obj = o

\* A turn whose prompt a process with nothing to do took at once is handed its
\* own answer and no other output, until the end: the lock (l.78-81) and the
\* clearing of _turn with the last event (l.199) see to it, whatever turns are
\* cut short, harnesses die or are replaced after that.
CleanTurnOwnsItsOutput ==
    \A t \in clean : \A i \in DOMAIN turns[t].queue :
        turns[t].queue[i].for \in {t, "exit"}

\* Every turn begun ends: a silent harness, one that does not read its prompt
\* and one that is not read keep a turn no longer than its ceiling ("an unreachable
\* provider otherwise keeps the harness retrying and the frame streaming
\* nothing", sessions.py:212-213), and those behind it get the lock.
TurnsEnd ==
    []<>(\A t \in Turns : turns[t].pc \in {"new", "done"})

\* A turn is handed nothing that answers another prompt: one requester at a
\* time, since a second prompt's output would be "indistinguishable" from the
\* first's (l.78-80), and output nobody asked for goes to the bus "rather than
\* being attributed to a requester" (l.11-14).
OwnAnswers ==
    \A t \in Turns : \A i \in DOMAIN turns[t].queue :
        turns[t].queue[i].for \in {t, "exit"}
=============================================================================
