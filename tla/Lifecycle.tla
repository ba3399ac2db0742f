----------------------------- MODULE Lifecycle -----------------------------
(***************************************************************************)
(* The session lifecycle of frame-main: SessionManager (src/sessions.py)   *)
(* with the columns of the session table it reads and writes               *)
(* (src/registry.py), and the docker daemon behind DockerProvisioner       *)
(* (src/sandbox/provision.py).                                             *)
(*                                                                         *)
(* Every coroutine runs on one event loop, so the code between two awaits  *)
(* is one action here.  A request that has to wait appears as a task whose *)
(* "pc" names the await it is suspended on:                                *)
(*   lock      waiting for the session's provisioning lock, or given it    *)
(*             and not yet resumed                                         *)
(*   run       inside the lock, at the semaphore or at `docker run`        *)
(*   ran       `docker run` returned success                               *)
(*   failed    `docker run` returned an error                              *)
(*   turnwait  provisioned, waiting for a slot to run its turn             *)
(*   turn      streaming the turn's events                                 *)
(*   kill      `docker stop` / `docker rm -f` called                       *)
(*   killed    that call returned                                          *)
(* asyncio's lock and semaphore are first come first served, and taking a  *)
(* free one does not yield.                                                *)
(***************************************************************************)
EXTENDS Naturals, Sequences, FiniteSets

CONSTANTS
    Sessions,     \* session ids
    Tasks,        \* request handlers that may be in progress together
    Ports,        \* settings.app_port_range
    Slots,        \* settings.max_concurrent_sessions
    Ops,          \* the operations clients call: a subset of AllOps
    MaxRuns,      \* bound: containers started over a behaviour
    MaxCrashes    \* bound: restarts of frame-main

AllOps == {"start", "turn", "stop", "archive", "delete", "patch"}

\* Python's None, for a container id or a port.
None == 0

ASSUME PortsAssumption == Ports \subseteq Nat \ {None}
ASSUME SlotsAssumption == Slots \in Nat \ {0}
ASSUME OpsAssumption == Ops \subseteq AllOps
ASSUME BoundsAssumption == MaxRuns \in Nat /\ MaxCrashes \in Nat
ASSUME NamesAssumption == None \notin Sessions

VARIABLES
    rows,       \* the sessions table: status, container_id, app_port, and
                \* whether last_active is older than the idle cutoff
    boxes,      \* docker: the container running for each session
    runs,       \* docker: container ids handed out so far
    lock,       \* _provision_locks: holder first, then the waiters
    slot,       \* semaphore: who holds a slot, who waits for one
    inFlight,   \* _in_flight
    task,       \* the suspended request handlers
    reaper,     \* the sweep of reap_idle in progress
    boot,       \* recovery: is the server down, recovering or up
    crashes,    \* restarts so far
    late        \* docker: runs whose frame-main is gone, still to be done

vars == <<rows, boxes, runs, lock, slot, inFlight, task, reaper, boot, crashes, late>>

----------------------------------------------------------------------------
(* Types *)

Statuses == {"new", "active", "archived", "deleted"}
Ids == 0 .. MaxRuns
PortOrNone == Ports \cup {None}

Row == [status: Statuses, container: Ids, port: PortOrNone, stale: BOOLEAN]
\* Two marks that only properties read: a stray came of a `docker run` that
\* outlived its frame-main; forsaken says that the row gave the container up
\* while docker went on running it.
Box == [id: Ids, port: PortOrNone, stray: BOOLEAN, forsaken: BOOLEAN]
NewBox(id, p, stray) == [id |-> id, port |-> p, stray |-> stray, forsaken |-> FALSE]
NoBox == NewBox(None, None, FALSE)

\* A handler's locals: the session, the container id it holds and the port
\* it asked docker for.
Pcs == {"idle", "lock", "run", "ran", "failed", "turnwait", "turn", "kill", "killed"}
Task == [pc: Pcs, op: AllOps \cup {"none"}, sess: Sessions \cup {None},
         box: Ids, port: PortOrNone]
IdleTask == [pc |-> "idle", op |-> "none", sess |-> None, box |-> None, port |-> None]

Reaper == [pc: {"idle", "kill", "killed"}, sess: Sessions \cup {None},
           box: Ids, todo: SUBSET Sessions]
IdleReaper == [pc |-> "idle", sess |-> None, box |-> None, todo |-> {}]

\* orphans: boxes recovery still has to remove; clean: docker has answered
\* every call of this recovery; listed: the runs docker had done when
\* recovery listed its containers.
Boot == [phase: {"down", "removing", "up"}, orphans: SUBSET Sessions, clean: BOOLEAN,
         listed: Ids]

\* What a `docker run` was asked for.
Run == [sess: Sessions, port: PortOrNone]

\* What the table's columns, docker and the manager's structures may hold: a
\* port on a row or a box is one of settings.app_port_range, or none.
TypeOK ==
    /\ rows \in [Sessions -> Row]
    /\ boxes \in [Sessions -> Box]
    /\ runs \in Ids
    /\ lock \in [Sessions -> Seq(Tasks)]
    /\ slot \in [holders: SUBSET Tasks, waiters: Seq(Tasks)]
    /\ inFlight \in SUBSET Sessions
    /\ task \in [Tasks -> Task]
    /\ reaper \in Reaper
    /\ boot \in Boot
    /\ crashes \in 0 .. MaxCrashes
    /\ late \in SUBSET Run

----------------------------------------------------------------------------
(* The session table *)

Exists(s) == rows[s].status \in {"active", "archived"}

UsedPorts == {rows[s].port : s \in {x \in Sessions : Exists(x)}} \ {None}

\* Faulty variant: the range is walked one port too far.
AllocatePortPastEnd(used) ==
    LET range == Ports \cup {1 + CHOOSE p \in Ports : \A q \in Ports : q <= p} IN
    IF range \subseteq used
    THEN None
    ELSE CHOOSE p \in range \ used : \A q \in range \ used : p <= q

\* allocate_port: the lowest free port of the range, None when all are used.
AllocatePort(used) ==
    IF Ports \subseteq used
    THEN None
    ELSE CHOOSE p \in Ports \ used : \A q \in Ports \ used : p <= q

\* update_session: a missing row is left alone, any other gets the fields
\* and a fresh last_active.
Update(s, row) ==
    rows' = IF Exists(s) THEN [rows EXCEPT ![s] = [row EXCEPT !.stale = FALSE]] ELSE rows

----------------------------------------------------------------------------
(* The lock and the semaphore *)

Acquire(sl, t) ==
    IF Cardinality(sl.holders) < Slots /\ sl.waiters = <<>>
    THEN [sl EXCEPT !.holders = @ \cup {t}]
    ELSE [sl EXCEPT !.waiters = Append(@, t)]

Release(sl, t) ==
    IF sl.waiters = <<>>
    THEN [sl EXCEPT !.holders = @ \ {t}]
    ELSE [holders |-> (sl.holders \ {t}) \cup {Head(sl.waiters)},
          waiters |-> Tail(sl.waiters)]

Unlock(s) == lock' = [lock EXCEPT ![s] = Tail(@)]

Become(t, pc, op, s, box, port) ==
    task' = [task EXCEPT ![t] =
                [pc |-> pc, op |-> op, sess |-> s, box |-> box, port |-> port]]

Return(t) == task' = [task EXCEPT ![t] = IdleTask]

----------------------------------------------------------------------------
(* turn(): the part after ensure_running *)

\* A handler that has its slot.  ensure_running returned update_session's
\* None when the row was deleted under it: building the prompt then raises,
\* after _in_flight was marked and before the try that clears it.
RunTurn(t, s, box, sl) ==
    /\ inFlight' = inFlight \cup {s}
    /\ IF box # None
       THEN slot' = sl /\ Become(t, "turn", "turn", s, box, None)
       ELSE slot' = Release(sl, t) /\ Return(t)

\* `async with self.semaphore`, from the semaphore's state sl.
EnterTurn(t, s, box, sl) ==
    LET asked == Acquire(sl, t) IN
    IF t \in asked.holders
    THEN RunTurn(t, s, box, asked)
    ELSE /\ slot' = asked
         /\ Become(t, "turnwait", "turn", s, box, None)
         /\ UNCHANGED inFlight

StartTurn(t) ==
    /\ task[t].pc = "turnwait"
    /\ t \in slot.holders
    /\ RunTurn(t, task[t].sess, task[t].box, slot)
    /\ UNCHANGED <<rows, boxes, runs, lock, reaper, boot, crashes, late>>

\* Faulty variant: the mark is cleared after the loop, not in the finally.
LeaveTurnMarked(t, touched) ==
    /\ task[t].pc = "turn"
    /\ inFlight' = IF touched THEN inFlight \ {task[t].sess} ELSE inFlight
    /\ slot' = Release(slot, t)
    /\ IF touched THEN Update(task[t].sess, rows[task[t].sess]) ELSE UNCHANGED rows
    /\ Return(t)
    /\ UNCHANGED <<boxes, runs, lock, reaper, boot, crashes, late>>

\* The turn ends: the harness said so, failed or fell silent past the
\* timeout (touched), or the requester went away (the generator is closed
\* and touch is never reached).
LeaveTurn(t, touched) ==
    /\ task[t].pc = "turn"
    /\ inFlight' = inFlight \ {task[t].sess}
    /\ slot' = Release(slot, t)
    /\ IF touched THEN Update(task[t].sess, rows[task[t].sess]) ELSE UNCHANGED rows
    /\ Return(t)
    /\ UNCHANGED <<boxes, runs, lock, reaper, boot, crashes, late>>

EndTurn(t) == LeaveTurn(t, TRUE)
AbortTurn(t) == LeaveTurn(t, FALSE)

----------------------------------------------------------------------------
(* ensure_running() *)

\* What a caller does with the session it got, sl being the semaphore then.
Continue(t, op, s, box, sl) ==
    IF op = "turn"
    THEN EnterTurn(t, s, box, sl)
    ELSE slot' = sl /\ Return(t) /\ UNCHANGED inFlight

\* Inside the lock, the row naming no container: choose the port, queue for
\* a slot, call docker.
Provision(t, op, s) ==
    /\ slot' = Acquire(slot, t)
    /\ Become(t, "run", op, s, None,
              IF rows[s].port # None THEN rows[s].port ELSE AllocatePort(UsedPorts))
    /\ UNCHANGED inFlight

\* Faulty variant: no lock is taken.
EnsureRunningUnlocked(t, op, s) ==
    /\ boot.phase = "up"
    /\ op \in Ops \cap {"start", "turn"}
    /\ task[t].pc = "idle"
    /\ rows[s].status = "active"
    /\ rows[s].container = None
    /\ Provision(t, op, s)
    /\ UNCHANGED <<rows, boxes, runs, lock, reaper, boot, crashes, late>>

\* A turn, an eager start, a terminal or the app proxy asks for a container.
EnsureRunning(t, op, s) ==
    /\ boot.phase = "up"
    /\ op \in Ops \cap {"start", "turn"}
    /\ task[t].pc = "idle"
    /\ rows[s].status = "active"
    /\ \/ /\ rows[s].container # None
          /\ op = "turn"
          /\ Continue(t, op, s, rows[s].container, slot)
          /\ UNCHANGED lock
       \/ /\ rows[s].container = None
          /\ lock' = [lock EXCEPT ![s] = Append(@, t)]
          /\ IF lock[s] = <<>>
             THEN Provision(t, op, s)
             ELSE Become(t, "lock", op, s, None, None) /\ UNCHANGED <<slot, inFlight>>
    /\ UNCHANGED <<rows, boxes, runs, reaper, boot, crashes, late>>

\* Faulty variant: the waiter trusts the row it read before the lock.
LockGrantedNoReread(t) ==
    /\ task[t].pc = "lock"
    /\ lock[task[t].sess] # <<>>
    /\ Head(lock[task[t].sess]) = t
    /\ Provision(t, task[t].op, task[t].sess)
    /\ UNCHANGED <<lock, rows, boxes, runs, reaper, boot, crashes, late>>

\* A waiter is given the lock and re-reads the row.  The status is not
\* looked at again.
LockGranted(t) ==
    LET s == task[t].sess IN
    /\ task[t].pc = "lock"
    /\ lock[s] # <<>>
    /\ Head(lock[s]) = t
    /\ \/ /\ ~Exists(s)
          /\ Unlock(s)
          /\ Return(t)
          /\ UNCHANGED <<slot, inFlight>>
       \/ /\ Exists(s)
          /\ rows[s].container # None
          /\ Unlock(s)
          /\ Continue(t, task[t].op, s, rows[s].container, slot)
       \/ /\ Exists(s)
          /\ rows[s].container = None
          /\ Provision(t, task[t].op, s)
          /\ UNCHANGED lock
    /\ UNCHANGED <<rows, boxes, runs, reaper, boot, crashes, late>>

\* docker executes `docker run --name frame-<id> -p <port>`: it needs the
\* name and the port free, and may fail for reasons of its own.
DockerRun(t) ==
    LET s == task[t].sess
        p == task[t].port IN
    /\ task[t].pc = "run"
    /\ t \in slot.holders
    /\ \/ /\ boxes[s] = NoBox
          /\ p # None => \A x \in Sessions : boxes[x].port # p
          /\ runs < MaxRuns
          /\ runs' = runs + 1
          /\ boxes' = [boxes EXCEPT ![s] = NewBox(runs + 1, p, FALSE)]
          /\ task' = [task EXCEPT ![t].pc = "ran", ![t].box = runs + 1]
       \/ /\ task' = [task EXCEPT ![t].pc = "failed"]
          /\ UNCHANGED <<boxes, runs>>
    /\ UNCHANGED <<rows, lock, slot, inFlight, reaper, boot, crashes, late>>

\* Faulty variant: the port is left out of the update.
ProvisionedKeepingPort(t) ==
    LET s == task[t].sess IN
    /\ task[t].pc = "ran"
    /\ Update(s, [rows[s] EXCEPT !.container = task[t].box])
    /\ Unlock(s)
    /\ Continue(t, task[t].op, s, IF Exists(s) THEN task[t].box ELSE None, Release(slot, t))
    /\ UNCHANGED <<boxes, runs, reaper, boot, crashes, late>>

\* The container is recorded and the lock released.  With the row gone,
\* update_session gives back None and the container stays unclaimed.
Provisioned(t) ==
    LET s == task[t].sess IN
    /\ task[t].pc = "ran"
    /\ Update(s, [rows[s] EXCEPT !.container = task[t].box, !.port = task[t].port])
    /\ Unlock(s)
    /\ Continue(t, task[t].op, s, IF Exists(s) THEN task[t].box ELSE None, Release(slot, t))
    /\ UNCHANGED <<boxes, runs, reaper, boot, crashes, late>>

\* Faulty variant: the error path forgets the semaphore.
ProvisionFailedKeepingSlot(t) ==
    /\ task[t].pc = "failed"
    /\ Unlock(task[t].sess)
    /\ Return(t)
    /\ UNCHANGED <<slot, rows, boxes, runs, inFlight, reaper, boot, crashes, late>>

\* ProvisionError leaves through both context managers.
ProvisionFailed(t) ==
    /\ task[t].pc = "failed"
    /\ slot' = Release(slot, t)
    /\ Unlock(task[t].sess)
    /\ Return(t)
    /\ UNCHANGED <<rows, boxes, runs, inFlight, reaper, boot, crashes, late>>

----------------------------------------------------------------------------
(* stop(), archive(), delete() *)

Killers == {"stop", "archive", "delete"}

\* What each writes once no container is in its way.
Finish(op, s) ==
    CASE op = "stop"    -> Update(s, [rows[s] EXCEPT !.container = None])
      [] op = "archive" -> Update(s, [rows[s] EXCEPT !.container = None, !.port = None,
                                                     !.status = "archived"])
      [] op = "delete"  -> rows' = [rows EXCEPT ![s] = [status |-> "deleted", container |-> None,
                                                        port |-> None, stale |-> FALSE]]

Kill(t, op, s) ==
    /\ boot.phase = "up"
    /\ op \in Ops \cap Killers
    /\ task[t].pc = "idle"
    /\ Exists(s)
    /\ \/ /\ rows[s].container # None
          /\ Become(t, "kill", op, s, rows[s].container, None)
          /\ UNCHANGED rows
       \/ /\ rows[s].container = None
          /\ op # "stop"
          /\ Finish(op, s)
          /\ UNCHANGED task
    /\ UNCHANGED <<boxes, runs, lock, slot, inFlight, reaper, boot, crashes, late>>

\* Faulty variant: the harness is closed and docker is not called.
DockerKillNothing(s, id) == UNCHANGED boxes

\* docker stops (and, run with --rm, removes) the container of that id, if
\* it is still there, or fails to; the exit code is not looked at.
DockerKill(s, id) ==
    \/ boxes[s].id = id /\ boxes' = [boxes EXCEPT ![s] = NoBox]
    \/ boxes[s].id = id /\ boxes[s] # NoBox /\ boxes' = [boxes EXCEPT ![s].forsaken = TRUE]
    \/ boxes[s].id # id /\ UNCHANGED boxes

DockerKilled(t) ==
    /\ task[t].pc = "kill"
    /\ DockerKill(task[t].sess, task[t].box)
    /\ task' = [task EXCEPT ![t].pc = "killed"]
    /\ UNCHANGED <<rows, runs, lock, slot, inFlight, reaper, boot, crashes, late>>

\* The row is cleared of whatever container it names by now.
Cleared(op, s, id) ==
    /\ Finish(op, s)
    /\ boxes' = IF boxes[s].id = rows[s].container /\ boxes[s].id \notin {id, None}
                THEN [boxes EXCEPT ![s].forsaken = TRUE]
                ELSE boxes

Killed(t) ==
    /\ task[t].pc = "killed"
    /\ Cleared(task[t].op, task[t].sess, task[t].box)
    /\ Return(t)
    /\ UNCHANGED <<runs, lock, slot, inFlight, reaper, boot, crashes, late>>

\* POST /sessions and PATCH /sessions/{id}: the row alone.  A session that is
\* "done" is treated like an active one everywhere.
Create(s) ==
    /\ boot.phase = "up"
    /\ rows[s].status = "new"
    /\ rows' = [rows EXCEPT ![s].status = "active"]
    /\ UNCHANGED <<boxes, runs, lock, slot, inFlight, task, reaper, boot, crashes, late>>

Patch(s, status) ==
    /\ boot.phase = "up"
    /\ "patch" \in Ops
    /\ Exists(s)
    /\ Update(s, [rows[s] EXCEPT !.status = status])
    /\ UNCHANGED <<boxes, runs, lock, slot, inFlight, task, reaper, boot, crashes, late>>

\* A session's harness names its conversation during a turn, or finishes
\* something nobody asked for: either way last_active is stamped.
HarnessSpeaks(s) ==
    /\ boot.phase = "up"
    /\ Exists(s)
    /\ boxes[s] # NoBox
    /\ Update(s, rows[s])
    /\ UNCHANGED <<boxes, runs, lock, slot, inFlight, task, reaper, boot, crashes, late>>

----------------------------------------------------------------------------
(* reap_idle() *)

\* The loop goes on, without yielding, over the rows of its snapshot that
\* are stale: it skips those in flight and those stop() finds no container
\* for, raises on one that was deleted, and awaits the docker stop of the
\* first other one.  The query orders nothing, so any row may be next.
ReapFrom(todo) ==
    LET skips == {s \in todo : s \in inFlight \/ (Exists(s) /\ rows[s].container = None)} IN
    \/ /\ todo = skips \/ \E s \in todo \ skips : ~Exists(s)
       /\ reaper' = IdleReaper
    \/ \E s \in todo \ skips, passed \in SUBSET skips :
          /\ Exists(s)
          /\ reaper' = [pc |-> "kill", sess |-> s, box |-> rows[s].container,
                        todo |-> todo \ ({s} \cup passed)]

\* One sweep of the reap loop, up to its first docker stop.
ReapIdle ==
    LET todo == {s \in Sessions : Exists(s) /\ rows[s].container # None /\ rows[s].stale} IN
    /\ boot.phase = "up"
    /\ reaper.pc = "idle"
    /\ todo # {}
    /\ ReapFrom(todo)
    /\ UNCHANGED <<rows, boxes, runs, lock, slot, inFlight, task, boot, crashes, late>>

ReapKilled ==
    /\ reaper.pc = "kill"
    /\ DockerKill(reaper.sess, reaper.box)
    /\ reaper' = [reaper EXCEPT !.pc = "killed"]
    /\ UNCHANGED <<rows, runs, lock, slot, inFlight, task, boot, crashes, late>>

Reaped ==
    /\ reaper.pc = "killed"
    /\ Cleared("stop", reaper.sess, reaper.box)
    /\ ReapFrom(reaper.todo)
    /\ UNCHANGED <<runs, lock, slot, inFlight, task, boot, crashes, late>>

----------------------------------------------------------------------------
(* The world: time, docker and restarts *)

Age(s) ==
    /\ Exists(s)
    /\ ~rows[s].stale
    /\ rows' = [rows EXCEPT ![s].stale = TRUE]
    /\ UNCHANGED <<boxes, runs, lock, slot, inFlight, task, reaper, boot, crashes, late>>

\* A container exits by itself, with its host, or because a docker stop that
\* outlived frame-main is carried out.
BoxDies(s) ==
    /\ boxes[s] # NoBox
    /\ boxes' = [boxes EXCEPT ![s] = NoBox]
    /\ UNCHANGED <<rows, runs, lock, slot, inFlight, task, reaper, boot, crashes, late>>

\* A `docker run` in progress goes on without the frame-main that called it:
\* its child process and the daemon are not told.
Interrupted ==
    {[sess |-> task[t].sess, port |-> task[t].port] :
        t \in {u \in slot.holders : task[u].pc = "run"}}

\* frame-main goes away; the table, the containers and docker stay.
Crash ==
    /\ crashes < MaxCrashes
    /\ crashes' = crashes + 1
    /\ boot' = [phase |-> "down", orphans |-> {}, clean |-> TRUE, listed |-> 0]
    /\ lock' = [s \in Sessions |-> <<>>]
    /\ slot' = [holders |-> {}, waiters |-> <<>>]
    /\ inFlight' = {}
    /\ task' = [t \in Tasks |-> IdleTask]
    /\ reaper' = IdleReaper
    /\ late' = late \cup Interrupted
    /\ UNCHANGED <<rows, boxes, runs>>

\* docker gets to such a run, at any time after the crash, and finds the
\* name and the port free or not, as in DockerRun.
LateRun(r) ==
    /\ late' = late \ {r}
    /\ \/ /\ boxes[r.sess] = NoBox
          /\ r.port # None => \A x \in Sessions : boxes[x].port # r.port
          /\ runs < MaxRuns
          /\ runs' = runs + 1
          /\ boxes' = [boxes EXCEPT ![r.sess] = NewBox(runs + 1, r.port, TRUE)]
       \/ UNCHANGED <<boxes, runs>>
    /\ UNCHANGED <<rows, lock, slot, inFlight, task, reaper, boot, crashes>>

\* recover() with the sessions it takes for claimed, once `docker ps`
\* answered; an error reads as no container.
RecoverWith(claimed) ==
    \E ok \in BOOLEAN :
       LET live == IF ok THEN {s \in Sessions : boxes[s] # NoBox} ELSE {} IN
       /\ boot.phase = "down"
       /\ rows' = [s \in Sessions |->
                     IF s \in claimed \ live
                     THEN [rows[s] EXCEPT !.container = None, !.port = None, !.stale = FALSE]
                     ELSE rows[s]]
       /\ boot' = [phase |-> "removing", orphans |-> live \ claimed, clean |-> ok,
                   listed |-> runs]
       /\ boxes' = [s \in Sessions |->
                      [boxes[s] EXCEPT !.forsaken = @ \/ (s \in claimed /\ boxes[s] # NoBox /\ ~ok)]]
       /\ UNCHANGED <<late, runs, lock, slot, inFlight, task, reaper, crashes>>

\* Faulty variant: any row of the session counts as a claim.
RecoverByRow == RecoverWith({s \in Sessions : Exists(s)})

\* A session whose row names some container is claimed.
Recover == RecoverWith({s \in Sessions : Exists(s) /\ rows[s].container # None})

\* remove_session for one orphan: neither of its docker calls is checked.
RemoveOrphan(s) ==
    /\ boot.phase = "removing"
    /\ s \in boot.orphans
    /\ \E ok \in BOOLEAN :
          /\ boxes' = IF ok THEN [boxes EXCEPT ![s] = NoBox] ELSE boxes
          /\ boot' = [boot EXCEPT !.orphans = @ \ {s}, !.clean = @ /\ ok]
    /\ UNCHANGED <<rows, runs, lock, slot, inFlight, task, reaper, crashes, late>>

Serve ==
    /\ boot.phase = "removing"
    /\ boot.orphans = {}
    /\ boot' = [boot EXCEPT !.phase = "up"]
    /\ UNCHANGED <<rows, boxes, runs, lock, slot, inFlight, task, reaper, crashes, late>>

----------------------------------------------------------------------------

Init ==
    /\ rows = [s \in Sessions |->
                 [status |-> "new", container |-> None, port |-> None, stale |-> FALSE]]
    /\ boxes = [s \in Sessions |-> NoBox]
    /\ runs = 0
    /\ lock = [s \in Sessions |-> <<>>]
    /\ slot = [holders |-> {}, waiters |-> <<>>]
    /\ inFlight = {}
    /\ task = [t \in Tasks |-> IdleTask]
    /\ reaper = IdleReaper
    /\ boot = [phase |-> "down", orphans |-> {}, clean |-> TRUE, listed |-> 0]
    /\ crashes = 0
    /\ late = {}

TaskStep(t) ==
    \/ StartTurn(t)
    \/ EndTurn(t)
    \/ AbortTurn(t)
    \/ LockGranted(t)
    \/ DockerRun(t)
    \/ Provisioned(t)
    \/ ProvisionFailed(t)
    \/ DockerKilled(t)
    \/ Killed(t)

ReaperStep == ReapIdle \/ ReapKilled \/ Reaped

BootStep ==
    \/ Recover
    \/ \E s \in Sessions : RemoveOrphan(s)
    \/ Serve

Request(t) ==
    \E s \in Sessions, op \in Ops :
       \/ EnsureRunning(t, op, s)
       \/ Kill(t, op, s)

World(s) ==
    \/ Create(s)
    \/ \E status \in {"active", "archived"} : Patch(s, status)
    \/ HarnessSpeaks(s)
    \/ Age(s)
    \/ BoxDies(s)

Next ==
    \/ \E t \in Tasks : Request(t) \/ TaskStep(t)
    \/ \E s \in Sessions : World(s)
    \/ ReaperStep
    \/ BootStep
    \/ Crash
    \/ \E r \in late : LateRun(r)

Spec == Init /\ [][Next]_vars

\* The event loop resumes whatever is ready, docker answers, a turn ends
\* (its harness finishes or the silence timeout does), the reap timer fires
\* and the service is started again.
Fairness ==
    /\ \A t \in Tasks : WF_vars(TaskStep(t))
    /\ WF_vars(ReaperStep)
    /\ WF_vars(BootStep)

FairSpec == Spec /\ Fairness

----------------------------------------------------------------------------
(* What the lifecycle promises *)

Provisioning(t, s) == task[t].pc \in {"run", "ran"} /\ task[t].sess = s

\* One provisioning at a time per session: a handler at `docker run` (l.131)
\* is the only one there for its session, and the session's row still names
\* no container, so no running container is ever replaced by a second one.
NoDoubleSpawn ==
    \A s \in Sessions, t \in Tasks : Provisioning(t, s) =>
        /\ rows[s].container = None
        /\ \A u \in Tasks \ {t} : ~Provisioning(u, s)

\* A row that names a container does not name a dead one while docker runs
\* another for the session, unless the other came of a `docker run` that
\* outlived the frame-main that called it.  recover() relies on it: it adopts
\* a row by the session label of a live container, without comparing ids
\* (l.395).
RowNamesItsBox ==
    \A s \in Sessions :
        rows[s].container # None /\ boxes[s] # NoBox =>
            boxes[s].id = rows[s].container \/ boxes[s].stray

\* While a row names the container docker runs, the app port on the row is
\* the one that container publishes: the browser pane is proxied to the
\* session's own app (app_port, l.332) and to no other session's.
ProxyReachesOwnApp ==
    \A s \in Sessions :
        boxes[s] # NoBox /\ boxes[s].id = rows[s].container => boxes[s].port = rows[s].port

\* max_concurrent_sessions holds at `docker run` (l.131) and during turns
\* (l.214) alike, and no slot leaks: a handler past its `async with` has one,
\* no handler that has returned keeps one, and nobody queues while one is free.
SlotsAccounted ==
    /\ Cardinality(slot.holders) <= Slots
    /\ slot.waiters # <<>> => Cardinality(slot.holders) = Slots
    /\ \A t \in Tasks :
          /\ task[t].pc \in {"ran", "failed", "turn"} => t \in slot.holders
          /\ t \in slot.holders => task[t].pc \notin {"idle", "lock", "kill", "killed"}

\* As long as docker answers recovery's calls, each container is claimed by
\* its row or still on the list to remove (l.375-404), so that no orphan of
\* the crash runs once the server is up, but for a `docker run` that outlived
\* the crash: docker carried it out after recovery had listed the containers,
\* or before that for a session whose row names another, dead one.
RecoveryAccountsForBoxes ==
    boot.phase = "removing" /\ boot.clean =>
        \A s \in Sessions : boxes[s] # NoBox =>
            \/ rows[s].container = boxes[s].id
            \/ s \in boot.orphans
            \/ boxes[s].stray /\ boxes[s].id > boot.listed
            \/ boxes[s].stray /\ rows[s].container # None

\* The mark that keeps the reaper off a session outlives no turn: every
\* ending clears it (l.246), so no idle session is spared for good.  Only the
\* id of a deleted session may stay behind.
InFlightHasTurn ==
    \A s \in inFlight : Exists(s) =>
        \E t \in Tasks : task[t].pc = "turn" /\ task[t].sess = s

\* A session that an archive removed "for good" (l.349) runs no container.
ArchivedForGood ==
    \A s \in Sessions : rows[s].status = "archived" => rows[s].container = None

\* Every request returns: the lock is taken before the semaphore, and no
\* holder of a slot waits for a lock, so neither queue blocks the other.
RequestsFinish ==
    \A t \in Tasks : task[t].pc # "idle" ~> task[t].pc = "idle"

\* A container that runs idle for its session: nothing touched the row that
\* names it since the cutoff, and no turn is marked.
Idle(s) ==
    /\ boxes[s] # NoBox
    /\ boxes[s].id = rows[s].container
    /\ rows[s].stale

\* An idle container does not stay up (l.406-420): docker stops it, unless
\* its session is used while it is claimed, or the row gave it up running
\* because docker failed to stop it, because a stop that had read an earlier
\* id cleared the row (l.343-345), or because recovery's docker ps failed.
IdleIsReaped ==
    \A s \in Sessions :
        Idle(s) ~> \/ boxes[s] = NoBox
                   \/ rows[s].container # None /\ ~rows[s].stale
                   \/ s \in inFlight
                   \/ boxes[s].forsaken
=============================================================================
