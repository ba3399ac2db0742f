-------------------------- MODULE LifecycleProofs --------------------------
(***************************************************************************)
(* Proofs of the safety properties of Lifecycle, for any set of sessions,  *)
(* handlers and ports and any number of slots.                             *)
(***************************************************************************)
EXTENDS Lifecycle, SequenceTheorems, FiniteSetTheorems, WellFoundedInduction, TLAPS

----------------------------------------------------------------------------
(* The inductive invariant *)

Locking == {"run", "ran", "failed"}

\* A suspended handler or sweep works on a session that was created, and a
\* handler that kills runs one of the three operations that do.
WellFormed ==
    /\ \A t \in Tasks : task[t].pc # "idle" =>
          /\ task[t].sess \in Sessions
          /\ rows[task[t].sess].status # "new"
    /\ \A t \in Tasks : task[t].pc \in {"kill", "killed"} => task[t].op \in Killers
    /\ \A t \in Tasks : task[t].pc \in {"lock"} \cup Locking => task[t].op \in {"start", "turn"}
    /\ reaper.pc # "idle" => reaper.sess \in Sessions
    /\ \A s \in inFlight : rows[s].status # "new"

\* The queue of a lock holds each handler once, and only handlers of its
\* session that wait for it, but for the first, which may have gone on.
QueueInv ==
    \A s \in Sessions :
        /\ \A i \in 1 .. Len(lock[s]) :
              /\ task[lock[s][i]].sess = s
              /\ task[lock[s][i]].pc \in {"lock"} \cup Locking
              /\ i # 1 => task[lock[s][i]].pc = "lock"
        /\ \A i, j \in 1 .. Len(lock[s]) : lock[s][i] = lock[s][j] => i = j

\* Who is past the lock is first in its queue.
HolderInv ==
    \A t \in Tasks : task[t].pc \in Locking =>
        /\ lock[task[t].sess] # <<>>
        /\ lock[task[t].sess][1] = t

\* The lock protects the row: nobody else gives it a container.
RowInv == \A t \in Tasks : task[t].pc \in Locking => rows[task[t].sess].container = None

\* What docker runs for a session whose handler just ran it is that one, or
\* a stray that took its name when it had died.
OwnBox(t, box) ==
    IF box.stray
    THEN box.id # task[t].box
    ELSE box.id = task[t].box /\ box.port = task[t].port

BoxInv ==
    /\ \A s \in Sessions : boxes[s] # NoBox => boxes[s].id # None
    /\ \A t \in Tasks : task[t].pc = "ran" =>
          /\ task[t].box # None
          /\ boxes[task[t].sess] # NoBox => OwnBox(t, boxes[task[t].sess])

\* Nothing is in progress before the server is up.
QuietInv ==
    boot.phase # "up" => reaper.pc = "idle" /\ \A t \in Tasks : task[t].pc = "idle"

\* A turn without a row belongs to a deleted session.
GoneInv ==
    \A t \in Tasks : task[t].pc = "turnwait" /\ task[t].box = None =>
        rows[task[t].sess].status = "deleted"

\* Container ids are handed out once: all those known are of past runs.
IdsInv ==
    /\ \A s \in Sessions : rows[s].container <= runs
    /\ \A t \in Tasks : task[t].pc = "ran" => task[t].box <= runs
    /\ boot.listed <= runs

IInv ==
    /\ TypeOK
    /\ WellFormed
    /\ QueueInv
    /\ HolderInv
    /\ RowInv
    /\ BoxInv
    /\ QuietInv
    /\ GoneInv
    /\ RowNamesItsBox
    /\ ProxyReachesOwnApp
    /\ RecoveryAccountsForBoxes
    /\ InFlightHasTurn

----------------------------------------------------------------------------
(* The helpers *)

SlotType == [holders: SUBSET Tasks, waiters: Seq(Tasks)]

\* Asking the semaphore for a slot keeps it a semaphore.
LEMMA AcquireType ==
    ASSUME NEW sl \in SlotType, NEW t \in Tasks
    PROVE  Acquire(sl, t) \in SlotType
BY DEF SlotType, Acquire

\* So does giving one back.
LEMMA ReleaseType ==
    ASSUME NEW sl \in SlotType, NEW t \in Tasks
    PROVE  Release(sl, t) \in SlotType
<1>1. CASE sl.waiters = <<>>
  BY <1>1 DEF SlotType, Release
<1>2. CASE sl.waiters # <<>>
  <2>1. Head(sl.waiters) \in Tasks /\ Tail(sl.waiters) \in Seq(Tasks)
    BY <1>2, HeadTailProperties DEF SlotType
  <2>2. QED
    BY <1>2, <2>1 DEF SlotType, Release
<1>3. QED
  BY <1>1, <1>2

\* A nonempty set of numbers has a least one.
LEMMA LeastNumber ==
    ASSUME NEW S \in SUBSET Nat, S # {}
    PROVE  \E p \in S : \A q \in S : p <= q
<1>1. PICK p \in S : \A q \in S : ~ (<<q, p>> \in OpToRel(<, Nat))
  BY NatLessThanWellFounded, WFMin
<1>2. \A q \in S : ~ (q < p)
  BY <1>1 DEF OpToRel
<1>3. QED
  BY <1>2

\* allocate_port gives a port of the range that is not in use, or none.
LEMMA AllocatePortType ==
    ASSUME NEW used
    PROVE  /\ AllocatePort(used) \in PortOrNone
           /\ AllocatePort(used) # None => AllocatePort(used) \notin used
<1>1. CASE Ports \subseteq used
  BY <1>1 DEF AllocatePort, PortOrNone
<1>2. CASE ~(Ports \subseteq used)
  <2>1. \E p \in Ports \ used : \A q \in Ports \ used : p <= q
    BY <1>2, LeastNumber, PortsAssumption
  <2>2. AllocatePort(used) \in Ports \ used
    BY <1>2, <2>1 DEF AllocatePort
  <2>3. QED
    BY <2>2 DEF PortOrNone
<1>3. QED
  BY <1>1, <1>2

----------------------------------------------------------------------------
(* The world and recovery *)

USE DEF None

\* The empty box is a box.
LEMMA NoBoxType == NoBox \in Box
BY BoundsAssumption DEF NoBox, NewBox, Box, Ids, PortOrNone

\* An idle handler and an idle sweep are well typed.
LEMMA IdleType == IdleTask \in Task /\ IdleReaper \in Reaper
BY BoundsAssumption DEF IdleTask, IdleReaper, Task, Reaper, Pcs, Ids, PortOrNone

\* The queues of the locks are not disturbed by a step that leaves them
\* alone, moves no handler into the lock or out of it, and keeps those that
\* wait waiting.
LEMMA QueueFrame ==
    ASSUME TypeOK, QueueInv, HolderInv, lock' = lock,
           \A u \in Tasks :
              /\ task[u].pc \in {"lock"} \cup Locking => task'[u].sess = task[u].sess
              /\ task[u].pc = "lock" => task'[u].pc = "lock"
              /\ task[u].pc \in Locking <=> task'[u].pc \in Locking
    PROVE  QueueInv' /\ HolderInv'
<1>1. \A s \in Sessions : \A i \in 1 .. Len(lock[s]) : lock[s][i] \in Tasks
  BY DEF TypeOK
<1>2. QueueInv'
  BY <1>1 DEF QueueInv
<1>3. HolderInv'
  BY DEF HolderInv, TypeOK
<1>4. QED
  BY <1>2, <1>3

\* At boot nothing waits anywhere.
LEMMA QueueEmpty ==
    ASSUME lock' = [s \in Sessions |-> <<>>], \A t \in Tasks : task'[t].pc = "idle"
    PROVE  QueueInv' /\ HolderInv'
<1>1. \A s \in Sessions : Len(lock'[s]) = 0
  OBVIOUS
<1>2. \A s \in Sessions : 1 .. Len(lock'[s]) = {}
  BY <1>1
<1>3. QED
  BY <1>2 DEF QueueInv, HolderInv, Locking

\* The invariant holds when frame-main first starts.
LEMMA InitIInv == Init => IInv
<1> SUFFICES ASSUME Init PROVE IInv
  OBVIOUS
<1> USE DEF Init, IdleTask, IdleReaper
<1>1. TypeOK
  BY BoundsAssumption, NoBoxType, IdleType
  DEF TypeOK, Row, Statuses, Ids, PortOrNone, Boot
<1>2. WellFormed
  BY DEF WellFormed, Locking
<1>3. QueueInv /\ HolderInv
  BY DEF QueueInv, HolderInv, Locking
<1>4. RowInv /\ BoxInv /\ QuietInv /\ GoneInv
  BY DEF RowInv, BoxInv, OwnBox, QuietInv, GoneInv, Locking
<1>5. RowNamesItsBox /\ ProxyReachesOwnApp /\ RecoveryAccountsForBoxes /\ InFlightHasTurn
  BY DEF RowNamesItsBox, ProxyReachesOwnApp, RecoveryAccountsForBoxes, InFlightHasTurn
<1>6. QED
  BY <1>1, <1>2, <1>3, <1>4, <1>5 DEF IInv

\* Containers go away or are marked, and none appears.
BoxesKept ==
    /\ boxes' \in [Sessions -> Box]
    /\ \A x \in Sessions :
          \/ boxes'[x] = NoBox
          \/ /\ boxes[x] # NoBox
             /\ boxes'[x].id = boxes[x].id
             /\ boxes'[x].port = boxes[x].port
             /\ boxes'[x].stray = boxes[x].stray

\* docker stop and docker rm leave a box alone, mark it or remove it.
LEMMA KillBoxes ==
    ASSUME TypeOK, NEW s \in Sessions, NEW id, DockerKill(s, id)
    PROVE  BoxesKept
<1>1. boxes \in [Sessions -> Box] /\ boxes[s] \in Box
  BY DEF TypeOK
<1>2. CASE boxes' = [boxes EXCEPT ![s] = NoBox]
  BY <1>1, <1>2, NoBoxType DEF BoxesKept
<1>3. CASE boxes[s] # NoBox /\ boxes' = [boxes EXCEPT ![s].forsaken = TRUE]
  <2>1. boxes' = [boxes EXCEPT ![s] = [boxes[s] EXCEPT !.forsaken = TRUE]]
    BY <1>1, <1>3
  <2>2. [boxes[s] EXCEPT !.forsaken = TRUE] \in Box
    BY <1>1 DEF Box
  <2>3. QED
    BY <1>1, <1>3, <2>1, <2>2 DEF BoxesKept, Box
<1>4. CASE UNCHANGED boxes
  BY <1>1, <1>4 DEF BoxesKept
<1>5. QED
  BY <1>2, <1>3, <1>4 DEF DockerKill

\* So does the end of a stop, which may clear the row of another container.
LEMMA ClearedBoxes ==
    ASSUME TypeOK, NEW op, NEW s \in Sessions, NEW id, Cleared(op, s, id)
    PROVE  BoxesKept
<1>1. boxes \in [Sessions -> Box] /\ boxes[s] \in Box
  BY DEF TypeOK
<1>2. CASE boxes[s].id # None /\ boxes' = [boxes EXCEPT ![s].forsaken = TRUE]
  <2>1. boxes' = [boxes EXCEPT ![s] = [boxes[s] EXCEPT !.forsaken = TRUE]]
    BY <1>1, <1>2
  <2>2. [boxes[s] EXCEPT !.forsaken = TRUE] \in Box
    BY <1>1 DEF Box
  <2>3. boxes[s] # NoBox
    BY <1>2 DEF NoBox, NewBox
  <2>4. QED
    BY <1>1, <2>1, <2>2, <2>3 DEF BoxesKept, Box
<1>3. CASE UNCHANGED boxes
  BY <1>1, <1>3 DEF BoxesKept
<1>4. QED
  BY <1>2, <1>3 DEF Cleared

\* The boxes of handlers that just ran docker are not disturbed by either,
\* nor by a step that leaves docker alone.
LEMMA BoxFrame ==
    ASSUME TypeOK, WellFormed, BoxInv, BoxesKept,
           \A u \in Tasks : task'[u].pc = "ran" => task'[u] = task[u]
    PROVE  BoxInv'
<1>1. \A x \in Sessions : boxes'[x] # NoBox => boxes'[x].id # None
  BY DEF BoxesKept, BoxInv
<1>2. ASSUME NEW u \in Tasks, task'[u].pc = "ran"
      PROVE  /\ task'[u].box # None
             /\ boxes'[task'[u].sess] # NoBox => OwnBox(u, boxes[task[u].sess])'
  <2>1. task'[u] = task[u] /\ task[u].sess \in Sessions
    BY <1>2 DEF WellFormed
  <2>2. task[u].box # None
        /\ (boxes[task[u].sess] # NoBox => OwnBox(u, boxes[task[u].sess]))
    BY <1>2, <2>1 DEF BoxInv
  <2>3. QED
    BY <2>1, <2>2 DEF BoxesKept, OwnBox
<1>3. QED
  BY <1>1, <1>2 DEF BoxInv

\* POST /sessions makes a row without a container.
LEMMA CreateStep == ASSUME IInv, NEW s \in Sessions, Create(s) PROVE IInv'
<1> USE DEF IInv, Create
<1>1. TypeOK'
  BY DEF TypeOK, Row, Statuses
<1>2. WellFormed'
  BY DEF TypeOK, Row, Task, WellFormed, Locking
<1>3. QueueInv' /\ HolderInv'
  BY DEF QueueInv, HolderInv
<1>4. RowInv' /\ BoxInv'
  BY DEF TypeOK, Row, RowInv, BoxInv, OwnBox, Locking, WellFormed
<1>5. QuietInv' /\ GoneInv'
  BY DEF TypeOK, Row, QuietInv, GoneInv, WellFormed
<1>6. RowNamesItsBox' /\ ProxyReachesOwnApp'
  BY DEF TypeOK, Row, RowNamesItsBox, ProxyReachesOwnApp, BoxInv
<1>7. RecoveryAccountsForBoxes' /\ InFlightHasTurn'
  BY DEF TypeOK, Row, WellFormed, RecoveryAccountsForBoxes, InFlightHasTurn, Exists
<1>8. QED
  BY <1>1, <1>2, <1>3, <1>4, <1>5, <1>6, <1>7

\* PATCH changes the status of a row and nothing else of it.
LEMMA PatchStep == ASSUME IInv, NEW s \in Sessions, NEW status \in {"active", "archived"}, Patch(s, status) PROVE IInv'
<1> USE DEF IInv, Patch, Update, Exists
<1>1. TypeOK'
  BY DEF TypeOK, Row, Statuses
<1>2. WellFormed'
  BY DEF TypeOK, Row, Task, WellFormed, Locking
<1>3. QueueInv' /\ HolderInv'
  BY DEF QueueInv, HolderInv
<1>4. RowInv' /\ BoxInv'
  BY DEF TypeOK, Row, RowInv, BoxInv, OwnBox, Locking, WellFormed
<1>5. QuietInv' /\ GoneInv'
  BY DEF TypeOK, Row, QuietInv, GoneInv, WellFormed
<1>6. RowNamesItsBox' /\ ProxyReachesOwnApp'
  BY DEF TypeOK, Row, RowNamesItsBox, ProxyReachesOwnApp, BoxInv
<1>7. RecoveryAccountsForBoxes' /\ InFlightHasTurn'
  BY DEF TypeOK, Row, RecoveryAccountsForBoxes, InFlightHasTurn, Exists, BoxInv
<1>8. QED
  BY <1>1, <1>2, <1>3, <1>4, <1>5, <1>6, <1>7

\* Time passes: only the staleness of a row changes.
LEMMA AgeStep == ASSUME IInv, NEW s \in Sessions, Age(s) PROVE IInv'
<1> USE DEF IInv, Age
<1>1. TypeOK'
  BY DEF TypeOK, Row, Statuses
<1>2. WellFormed'
  BY DEF TypeOK, Row, Task, WellFormed, Locking
<1>3. QueueInv' /\ HolderInv'
  BY DEF QueueInv, HolderInv
<1>4. RowInv' /\ BoxInv'
  BY DEF TypeOK, Row, RowInv, BoxInv, OwnBox, Locking, WellFormed
<1>5. QuietInv' /\ GoneInv'
  BY DEF TypeOK, Row, QuietInv, GoneInv, WellFormed
<1>6. RowNamesItsBox' /\ ProxyReachesOwnApp'
  BY DEF TypeOK, Row, RowNamesItsBox, ProxyReachesOwnApp, BoxInv
<1>7. RecoveryAccountsForBoxes' /\ InFlightHasTurn'
  BY DEF TypeOK, Row, RecoveryAccountsForBoxes, InFlightHasTurn, Exists, BoxInv
<1>8. QED
  BY <1>1, <1>2, <1>3, <1>4, <1>5, <1>6, <1>7

\* Harness output refreshes a row.
LEMMA HarnessSpeaksStep == ASSUME IInv, NEW s \in Sessions, HarnessSpeaks(s) PROVE IInv'
<1> USE DEF IInv, HarnessSpeaks, Update, Exists
<1>1. TypeOK'
  BY DEF TypeOK, Row, Statuses
<1>2. WellFormed'
  BY DEF TypeOK, Row, Task, WellFormed, Locking
<1>3. QueueInv' /\ HolderInv'
  BY DEF QueueInv, HolderInv
<1>4. RowInv' /\ BoxInv'
  BY DEF TypeOK, Row, RowInv, BoxInv, OwnBox, Locking, WellFormed
<1>5. QuietInv' /\ GoneInv'
  BY DEF TypeOK, Row, QuietInv, GoneInv, WellFormed
<1>6. RowNamesItsBox' /\ ProxyReachesOwnApp'
  BY DEF TypeOK, Row, RowNamesItsBox, ProxyReachesOwnApp, BoxInv
<1>7. RecoveryAccountsForBoxes' /\ InFlightHasTurn'
  BY DEF TypeOK, Row, RecoveryAccountsForBoxes, InFlightHasTurn, Exists, BoxInv
<1>8. QED
  BY <1>1, <1>2, <1>3, <1>4, <1>5, <1>6, <1>7

\* A container that dies takes no claim with it.
LEMMA BoxDiesStep == ASSUME IInv, NEW s \in Sessions, BoxDies(s) PROVE IInv'
<1> USE DEF IInv, BoxDies
<1>1. TypeOK'
  BY NoBoxType DEF TypeOK
<1>2. WellFormed'
  BY DEF TypeOK, Row, Task, WellFormed, Locking
<1>3. QueueInv' /\ HolderInv'
  BY DEF QueueInv, HolderInv
<1>4. RowInv' /\ BoxInv'
  BY DEF TypeOK, Row, RowInv, BoxInv, OwnBox, Locking, WellFormed
<1>5. QuietInv' /\ GoneInv'
  BY DEF TypeOK, Row, QuietInv, GoneInv, WellFormed
<1>6. RowNamesItsBox' /\ ProxyReachesOwnApp'
  BY DEF TypeOK, Row, RowNamesItsBox, ProxyReachesOwnApp, BoxInv
<1>7. RecoveryAccountsForBoxes' /\ InFlightHasTurn'
  BY DEF TypeOK, Row, RecoveryAccountsForBoxes, InFlightHasTurn, Exists, BoxInv
<1>8. QED
  BY <1>1, <1>2, <1>3, <1>4, <1>5, <1>6, <1>7

\* Removing an orphan takes it off the list and, if docker answers, off docker.
LEMMA RemoveOrphanStep == ASSUME IInv, NEW s \in Sessions, RemoveOrphan(s) PROVE IInv'
<1> USE DEF IInv, RemoveOrphan, Boot
<1>1. TypeOK'
  <2>1. boxes' \in [Sessions -> Box]
    BY NoBoxType DEF TypeOK
  <2>2. boot' \in Boot
    <3>1. PICK ok \in BOOLEAN : boot' = [boot EXCEPT !.orphans = @ \ {s}, !.clean = @ /\ ok]
      OBVIOUS
    <3>2. boot \in Boot /\ (boot.clean /\ ok) \in BOOLEAN
      BY DEF TypeOK
    <3>3. QED
      BY <3>1, <3>2
  <2>3. QED
    BY <2>1, <2>2 DEF TypeOK
<1>2. WellFormed'
  BY DEF TypeOK, Row, Task, WellFormed, Locking
<1>3. QueueInv' /\ HolderInv'
  BY DEF QueueInv, HolderInv
<1>4. RowInv' /\ BoxInv'
  BY DEF TypeOK, Row, RowInv, BoxInv, OwnBox, Locking, WellFormed
<1>5. QuietInv' /\ GoneInv'
  BY DEF TypeOK, Row, QuietInv, GoneInv, WellFormed
<1>6. RowNamesItsBox' /\ ProxyReachesOwnApp'
  BY DEF TypeOK, Row, RowNamesItsBox, ProxyReachesOwnApp, BoxInv
<1>7. RecoveryAccountsForBoxes' /\ InFlightHasTurn'
  BY DEF TypeOK, Row, RecoveryAccountsForBoxes, InFlightHasTurn, Exists, BoxInv
<1>8. QED
  BY <1>1, <1>2, <1>3, <1>4, <1>5, <1>6, <1>7

\* The server opens once the list of orphans is empty.
LEMMA ServeStep == ASSUME IInv, Serve PROVE IInv'
<1> USE DEF IInv, Serve, Boot
<1>1. TypeOK'
  BY DEF TypeOK, Row, Statuses
<1>2. WellFormed'
  BY DEF TypeOK, Row, Task, WellFormed, Locking
<1>3. QueueInv' /\ HolderInv'
  BY DEF QueueInv, HolderInv
<1>4. RowInv' /\ BoxInv'
  BY DEF TypeOK, Row, RowInv, BoxInv, OwnBox, Locking, WellFormed
<1>5. QuietInv' /\ GoneInv'
  BY DEF TypeOK, Row, QuietInv, GoneInv, WellFormed
<1>6. RowNamesItsBox' /\ ProxyReachesOwnApp'
  BY DEF TypeOK, Row, RowNamesItsBox, ProxyReachesOwnApp, BoxInv
<1>7. RecoveryAccountsForBoxes' /\ InFlightHasTurn'
  BY DEF TypeOK, Row, RecoveryAccountsForBoxes, InFlightHasTurn, Exists, BoxInv
<1>8. QED
  BY <1>1, <1>2, <1>3, <1>4, <1>5, <1>6, <1>7

\* A crash empties everything that lives in memory.
LEMMA CrashStep == ASSUME IInv, Crash PROVE IInv'
<1> USE DEF IInv, Crash, IdleTask, IdleReaper
<1>1. TypeOK'
  <2>1. Interrupted \in SUBSET Run
    <3>1. ASSUME NEW t \in slot.holders, task[t].pc = "run"
          PROVE  [sess |-> task[t].sess, port |-> task[t].port] \in Run
      <4>1. t \in Tasks /\ task[t] \in Task
        BY DEF TypeOK
      <4>2. task[t].sess \in Sessions /\ task[t].port \in PortOrNone
        BY <3>1, <4>1 DEF Task, WellFormed
      <4>3. QED
        BY <4>2 DEF Run
    <3>2. QED
      BY <3>1 DEF Interrupted
  <2>2. QED
    BY <2>1, BoundsAssumption, IdleType DEF TypeOK, Boot, Ids
<1>2. WellFormed'
  BY DEF TypeOK, Row, Task, WellFormed, Locking
<1>3. QueueInv' /\ HolderInv'
  BY QueueEmpty
<1>4. RowInv' /\ BoxInv'
  BY DEF TypeOK, Row, RowInv, BoxInv, OwnBox, Locking, WellFormed
<1>5. QuietInv' /\ GoneInv'
  BY DEF TypeOK, Row, QuietInv, GoneInv, WellFormed
<1>6. RowNamesItsBox' /\ ProxyReachesOwnApp'
  BY DEF TypeOK, Row, RowNamesItsBox, ProxyReachesOwnApp, BoxInv
<1>7. RecoveryAccountsForBoxes' /\ InFlightHasTurn'
  BY DEF TypeOK, Row, RecoveryAccountsForBoxes, InFlightHasTurn, Exists, BoxInv
<1>8. QED
  BY <1>1, <1>2, <1>3, <1>4, <1>5, <1>6, <1>7

\* docker stops what the sweep asked it to stop.
LEMMA ReapKilledStep == ASSUME IInv, ReapKilled PROVE IInv'
<1> USE DEF IInv, ReapKilled
<1>0. BoxesKept /\ UNCHANGED <<rows, runs, lock, slot, inFlight, task, boot, crashes, late>>
  BY KillBoxes DEF WellFormed
<1>1. TypeOK'
  <2>1. boxes' \in [Sessions -> Box]
    BY <1>0 DEF BoxesKept
  <2>2. reaper' \in Reaper
    BY DEF TypeOK, Reaper
  <2>3. QED
    BY <1>0, <2>1, <2>2 DEF TypeOK
<1>2. WellFormed'
  BY DEF TypeOK, Row, Task, WellFormed, Locking
<1>3. QueueInv' /\ HolderInv'
  BY DEF QueueInv, HolderInv
<1>4. RowInv' /\ BoxInv'
  <2>1. BoxInv'
    BY <1>0, BoxFrame
  <2>2. QED
    BY <1>0, <2>1 DEF RowInv
<1>5. QuietInv' /\ GoneInv'
  BY DEF TypeOK, Row, QuietInv, GoneInv, WellFormed
<1>6. RowNamesItsBox' /\ ProxyReachesOwnApp'
  BY <1>0 DEF BoxesKept, RowNamesItsBox, ProxyReachesOwnApp
<1>7. RecoveryAccountsForBoxes' /\ InFlightHasTurn'
  BY <1>0 DEF BoxesKept, RecoveryAccountsForBoxes, InFlightHasTurn, Exists
<1>8. QED
  BY <1>1, <1>2, <1>3, <1>4, <1>5, <1>6, <1>7

\* docker stops or removes what a handler asked it to.
LEMMA DockerKilledStep == ASSUME IInv, NEW t \in Tasks, DockerKilled(t) PROVE IInv'
<1> USE DEF IInv, DockerKilled
<1>0. BoxesKept
  BY KillBoxes DEF WellFormed
<1>1. TypeOK'
  <2>1. task[t] \in Task /\ task' = [task EXCEPT ![t] = [@ EXCEPT !.pc = "killed"]]
    BY DEF TypeOK
  <2>3. [task[t] EXCEPT !.pc = "killed"] \in Task
    BY <2>1 DEF Task, Pcs
  <2>4. task' \in [Tasks -> Task]
    BY <2>1, <2>3 DEF TypeOK
  <2>5. QED
    BY <1>0, <2>4 DEF BoxesKept, TypeOK
<1>2. WellFormed'
  BY DEF TypeOK, Row, Task, WellFormed, Locking
<1>3. QueueInv' /\ HolderInv'
  BY QueueFrame DEF TypeOK, Task, Locking
<1>4. RowInv' /\ BoxInv'
  <2>1. BoxInv'
    BY <1>0, BoxFrame DEF TypeOK, Task
  <2>2. RowInv'
    BY DEF TypeOK, Task, RowInv, Locking
  <2>3. QED
    BY <2>1, <2>2
<1>5. QuietInv' /\ GoneInv'
  BY DEF TypeOK, Row, QuietInv, GoneInv, WellFormed
<1>6. RowNamesItsBox' /\ ProxyReachesOwnApp'
  BY <1>0 DEF BoxesKept, TypeOK, RowNamesItsBox, ProxyReachesOwnApp
<1>7. RecoveryAccountsForBoxes' /\ InFlightHasTurn'
  BY <1>0 DEF BoxesKept, TypeOK, Task, RecoveryAccountsForBoxes, InFlightHasTurn, Exists
<1>8. QED
  BY <1>1, <1>2, <1>3, <1>4, <1>5, <1>6, <1>7

----------------------------------------------------------------------------
(* What the pieces of a handler do *)

\* A handler that becomes something has exactly those locals.
LEMMA BecomeTask ==
    ASSUME TypeOK, NEW t \in Tasks, NEW pc \in Pcs, NEW op \in AllOps \cup {"none"},
           NEW s \in Sessions \cup {None}, NEW box \in Ids, NEW port \in PortOrNone,
           Become(t, pc, op, s, box, port)
    PROVE  /\ task' \in [Tasks -> Task]
           /\ task'[t] = [pc |-> pc, op |-> op, sess |-> s, box |-> box, port |-> port]
           /\ \A u \in Tasks \ {t} : task'[u] = task[u]
BY DEF TypeOK, Task, Become

\* A handler that returns is idle.
LEMMA ReturnTask ==
    ASSUME TypeOK, NEW t \in Tasks, Return(t)
    PROVE  /\ task' \in [Tasks -> Task]
           /\ task'[t] = IdleTask
           /\ \A u \in Tasks \ {t} : task'[u] = task[u]
BY IdleType DEF TypeOK, Return

\* update_session writes one row, and a missing one not at all.
LEMMA UpdateRow ==
    ASSUME TypeOK, NEW s \in Sessions, NEW row \in Row, Update(s, row)
    PROVE  /\ rows' \in [Sessions -> Row]
           /\ \A x \in Sessions \ {s} : rows'[x] = rows[x]
           /\ Exists(s) => rows'[s] = [row EXCEPT !.stale = FALSE]
           /\ ~Exists(s) => rows'[s] = rows[s]
<1>1. [row EXCEPT !.stale = FALSE] \in Row
  BY DEF Row
<1>2. QED
  BY <1>1 DEF TypeOK, Update

\* A handler t has gone on to session s's turn, or has returned.
Moved(t, s, box) ==
    /\ task' \in [Tasks -> Task]
    /\ \A u \in Tasks \ {t} : task'[u] = task[u]
    /\ task'[t].pc \in {"idle", "turnwait", "turn"}
    /\ task'[t].pc # "idle" => task'[t].sess = s /\ task'[t].box = box
    /\ slot' \in SlotType
    /\ inFlight \subseteq inFlight' /\ inFlight' \subseteq inFlight \cup {s}
    /\ s \in inFlight' => s \in inFlight \/ task'[t].pc = "turn" \/ box = None

\* A handler that gets its slot runs its turn, or raises on a missing row.
LEMMA RunTurnMoves ==
    ASSUME TypeOK, NEW t \in Tasks, NEW s \in Sessions, NEW box \in Ids,
           NEW sl \in SlotType, RunTurn(t, s, box, sl)
    PROVE  Moved(t, s, box)
<1>1. CASE box # None
  <2>1. Become(t, "turn", "turn", s, box, None) /\ slot' = sl
    BY <1>1 DEF RunTurn
  <2>2. /\ task' \in [Tasks -> Task]
        /\ task'[t] = [pc |-> "turn", op |-> "turn", sess |-> s, box |-> box, port |-> None]
        /\ \A u \in Tasks \ {t} : task'[u] = task[u]
    BY <2>1, BecomeTask DEF Pcs, AllOps, PortOrNone
  <2>3. QED
    BY <2>1, <2>2 DEF Moved, RunTurn
<1>2. CASE box = None
  <2>1. Return(t) /\ slot' = Release(sl, t)
    BY <1>2 DEF RunTurn
  <2>2. QED
    BY <1>2, <2>1, ReturnTask, ReleaseType DEF Moved, RunTurn, IdleTask
<1>3. QED
  BY <1>1, <1>2

\* A handler that has its container goes on, waits for a slot, or returns.
LEMMA ContinueMoves ==
    ASSUME TypeOK, NEW t \in Tasks, NEW op, NEW s \in Sessions, NEW box \in Ids,
           NEW sl \in SlotType, Continue(t, op, s, box, sl)
    PROVE  Moved(t, s, box)
<1>1. CASE op # "turn"
  BY <1>1, ReturnTask DEF Continue, Moved, IdleTask
<1>2. CASE op = "turn" /\ t \in Acquire(sl, t).holders
  <2>1. RunTurn(t, s, box, Acquire(sl, t))
    BY <1>2 DEF Continue, EnterTurn
  <2>2. QED
    BY <2>1, AcquireType, RunTurnMoves
<1>3. CASE op = "turn" /\ t \notin Acquire(sl, t).holders
  <2>1. /\ Become(t, "turnwait", "turn", s, box, None)
        /\ slot' = Acquire(sl, t)
        /\ UNCHANGED inFlight
    BY <1>3 DEF Continue, EnterTurn
  <2>2. /\ task' \in [Tasks -> Task]
        /\ task'[t] = [pc |-> "turnwait", op |-> "turn", sess |-> s, box |-> box, port |-> None]
        /\ \A u \in Tasks \ {t} : task'[u] = task[u]
    BY <2>1, BecomeTask DEF Pcs, AllOps, PortOrNone
  <2>3. QED
    BY <2>1, <2>2, AcquireType DEF Moved
<1>4. QED
  BY <1>1, <1>2, <1>3

----------------------------------------------------------------------------
(* The queue of a lock *)

\* The first in the queue leaves: the next one, still waiting, is first.
LEMMA UnlockQueue ==
    ASSUME TypeOK, QueueInv, HolderInv, NEW t \in Tasks, NEW s \in Sessions,
           task[t].sess = s, lock[s] # <<>>, lock[s][1] = t, Unlock(s),
           \A u \in Tasks \ {t} : task'[u] = task[u],
           task'[t].pc \notin Locking
    PROVE  QueueInv' /\ HolderInv' /\ lock' \in [Sessions -> Seq(Tasks)]
<1>1. /\ lock' = [lock EXCEPT ![s] = Tail(lock[s])]
      /\ lock[s] \in Seq(Tasks)
  BY DEF TypeOK, Unlock
<1>2. /\ Tail(lock[s]) \in Seq(Tasks)
      /\ Len(Tail(lock[s])) = Len(lock[s]) - 1
      /\ \A i \in 1 .. Len(Tail(lock[s])) : Tail(lock[s])[i] = lock[s][i + 1]
  BY <1>1, HeadTailProperties
<1>3. lock' \in [Sessions -> Seq(Tasks)]
  BY <1>1, <1>2 DEF TypeOK
<1>4. \A x \in Sessions : \A i \in 1 .. Len(lock[x]) : lock[x][i] \in Tasks
  BY DEF TypeOK
<1>5. ASSUME NEW x \in Sessions \ {s}
      PROVE  lock'[x] = lock[x] /\ \A i \in 1 .. Len(lock[x]) : lock[x][i] # t
  <2>1. lock'[x] = lock[x]
    BY <1>1 DEF TypeOK
  <2>2. \A i \in 1 .. Len(lock[x]) : task[lock[x][i]].sess = x
    BY DEF QueueInv
  <2>3. QED
    BY <2>1, <2>2
<1>6. Len(lock[s]) \in Nat \ {0}
  BY <1>1
<1>7. ASSUME NEW i \in 1 .. Len(lock'[s])
      PROVE  /\ i + 1 \in 1 .. Len(lock[s])
             /\ i + 1 # 1
             /\ lock'[s][i] = lock[s][i + 1]
             /\ lock[s][i + 1] # t
  <2>1. lock'[s] = Tail(lock[s])
    BY <1>1 DEF TypeOK
  <2>2. i + 1 \in 1 .. Len(lock[s]) /\ i + 1 # 1 /\ 1 \in 1 .. Len(lock[s])
    BY <1>2, <1>6, <2>1
  <2>3. QED
    BY <1>2, <2>1, <2>2 DEF QueueInv
<1>8. QueueInv'
  <2>1. ASSUME NEW x \in Sessions \ {s}
        PROVE  /\ \A i \in 1 .. Len(lock'[x]) :
                     /\ task'[lock'[x][i]].sess = x
                     /\ task'[lock'[x][i]].pc \in {"lock"} \cup Locking
                     /\ i # 1 => task'[lock'[x][i]].pc = "lock"
               /\ \A i, j \in 1 .. Len(lock'[x]) : lock'[x][i] = lock'[x][j] => i = j
    BY <1>4, <1>5 DEF QueueInv
  <2>2. \A i \in 1 .. Len(lock'[s]) :
           /\ task'[lock'[s][i]].sess = s
           /\ task'[lock'[s][i]].pc = "lock"
    BY <1>4, <1>7 DEF QueueInv
  <2>3. \A i, j \in 1 .. Len(lock'[s]) : lock'[s][i] = lock'[s][j] => i = j
    <3>1. SUFFICES ASSUME NEW i \in 1 .. Len(lock'[s]), NEW j \in 1 .. Len(lock'[s]),
                          lock'[s][i] = lock'[s][j]
                   PROVE  i = j
      OBVIOUS
    <3>2. i + 1 = j + 1
      BY <1>7, <3>1 DEF QueueInv
    <3>3. QED
      BY <3>2
  <2>4. QED
    BY <2>1, <2>2, <2>3 DEF QueueInv
<1>9. HolderInv'
  <2>1. SUFFICES ASSUME NEW u \in Tasks, task'[u].pc \in Locking
                 PROVE  /\ lock'[task'[u].sess] # <<>>
                        /\ lock'[task'[u].sess][1] = u
    BY DEF HolderInv
  <2>2. u # t /\ task'[u] = task[u]
    BY <2>1
  <2>3. lock[task[u].sess] # <<>> /\ lock[task[u].sess][1] = u
    BY <2>1, <2>2 DEF HolderInv
  <2>4. task[u].sess # s
    BY <2>2, <2>3
  <2>5. lock'[task[u].sess] = lock[task[u].sess]
    BY <1>1, <2>4 DEF TypeOK
  <2>6. QED
    BY <2>2, <2>3, <2>5
<1>10. QED
  BY <1>3, <1>8, <1>9

\* A handler joins the queue: it goes on at once if the lock was free.
LEMMA EnqueueQueue ==
    ASSUME TypeOK, QueueInv, HolderInv, NEW t \in Tasks, NEW s \in Sessions,
           task[t].pc = "idle", lock' = [lock EXCEPT ![s] = Append(@, t)],
           \A u \in Tasks \ {t} : task'[u] = task[u],
           task'[t].sess = s,
           task'[t].pc = IF lock[s] = <<>> THEN "run" ELSE "lock"
    PROVE  QueueInv' /\ HolderInv' /\ lock' \in [Sessions -> Seq(Tasks)]
<1>1. /\ lock'[s] = Append(lock[s], t)
      /\ lock[s] \in Seq(Tasks)
      /\ \A x \in Sessions \ {s} : lock'[x] = lock[x]
  BY DEF TypeOK
<1>2. /\ Append(lock[s], t) \in Seq(Tasks)
      /\ Len(lock'[s]) = Len(lock[s]) + 1
      /\ \A i \in 1 .. Len(lock[s]) : lock'[s][i] = lock[s][i]
      /\ lock'[s][Len(lock[s]) + 1] = t
      /\ lock'[s] # <<>>
  BY <1>1, AppendProperties
<1>3. lock' \in [Sessions -> Seq(Tasks)]
  BY <1>1, <1>2 DEF TypeOK
<1>4. \A x \in Sessions : \A i \in 1 .. Len(lock[x]) : lock[x][i] \in Tasks \ {t}
  <2>1. ASSUME NEW x \in Sessions, NEW i \in 1 .. Len(lock[x])
        PROVE  lock[x][i] \in Tasks /\ task[lock[x][i]].pc # "idle"
    <3>1. lock[x][i] \in Tasks
      BY DEF TypeOK
    <3>2. task[lock[x][i]].pc \in {"lock"} \cup Locking
      BY DEF QueueInv
    <3>3. QED
      BY <3>1, <3>2 DEF Locking
  <2>2. QED
    BY <2>1
<1>5. Len(lock[s]) \in Nat /\ (lock[s] = <<>> <=> Len(lock[s]) = 0)
  BY <1>1, EmptySeq
<1>6. QueueInv'
  <2>1. ASSUME NEW x \in Sessions \ {s}
        PROVE  /\ \A i \in 1 .. Len(lock'[x]) :
                     /\ task'[lock'[x][i]].sess = x
                     /\ task'[lock'[x][i]].pc \in {"lock"} \cup Locking
                     /\ i # 1 => task'[lock'[x][i]].pc = "lock"
               /\ \A i, j \in 1 .. Len(lock'[x]) : lock'[x][i] = lock'[x][j] => i = j
    BY <1>1, <1>4 DEF QueueInv
  <2>2. ASSUME NEW i \in 1 .. Len(lock'[s])
        PROVE  /\ task'[lock'[s][i]].sess = s
               /\ task'[lock'[s][i]].pc \in {"lock"} \cup Locking
               /\ i # 1 => task'[lock'[s][i]].pc = "lock"
    <3>1. CASE i \in 1 .. Len(lock[s])
      BY <1>2, <1>4, <3>1 DEF QueueInv
    <3>2. CASE i = Len(lock[s]) + 1
      BY <1>2, <1>5, <3>2 DEF Locking
    <3>3. QED
      BY <1>2, <1>5, <3>1, <3>2
  <2>3. ASSUME NEW i \in 1 .. Len(lock'[s]), NEW j \in 1 .. Len(lock'[s]),
               lock'[s][i] = lock'[s][j]
        PROVE  i = j
    <3>1. CASE i \in 1 .. Len(lock[s]) /\ j \in 1 .. Len(lock[s])
      BY <1>2, <2>3, <3>1 DEF QueueInv
    <3>2. CASE i = Len(lock[s]) + 1 \/ j = Len(lock[s]) + 1
      BY <1>2, <1>4, <1>5, <2>3, <3>2
    <3>3. QED
      BY <1>2, <1>5, <3>1, <3>2
  <2>4. QED
    BY <2>1, <2>2, <2>3 DEF QueueInv
<1>7. HolderInv'
  <2>1. SUFFICES ASSUME NEW u \in Tasks, task'[u].pc \in Locking
                 PROVE  /\ lock'[task'[u].sess] # <<>>
                        /\ lock'[task'[u].sess][1] = u
    BY DEF HolderInv
  <2>2. CASE u = t
    BY <1>2, <1>5, <2>1, <2>2 DEF Locking
  <2>3. CASE u # t
    <3>1. lock[task[u].sess] # <<>> /\ lock[task[u].sess][1] = u /\ task'[u] = task[u]
      BY <2>1, <2>3 DEF HolderInv
    <3>2. CASE task[u].sess = s
      <4>1. 1 \in 1 .. Len(lock[s])
        BY <1>5, <3>1, <3>2
      <4>2. QED
        BY <1>2, <3>1, <3>2, <4>1
    <3>3. CASE task[u].sess # s
      <4>1. lock'[task[u].sess] = lock[task[u].sess]
        BY <3>3 DEF TypeOK
      <4>2. QED
        BY <3>1, <4>1
    <3>4. QED
      BY <3>2, <3>3
  <2>4. QED
    BY <2>2, <2>3
<1>8. QED
  BY <1>3, <1>6, <1>7

\* The first in the queue goes on.
LEMMA PromoteQueue ==
    ASSUME TypeOK, QueueInv, HolderInv, NEW t \in Tasks, NEW s \in Sessions,
           lock[s] # <<>>, lock[s][1] = t, lock' = lock, task[t].sess = s,
           \A u \in Tasks \ {t} : task'[u] = task[u],
           task'[t].sess = s, task'[t].pc \in Locking
    PROVE  QueueInv' /\ HolderInv'
<1>1. \A x \in Sessions : \A i \in 1 .. Len(lock[x]) : lock[x][i] \in Tasks
  BY DEF TypeOK
<1>2. lock[s] \in Seq(Tasks) /\ 1 \in 1 .. Len(lock[s])
  BY EmptySeq DEF TypeOK
<1>3. ASSUME NEW x \in Sessions, NEW i \in 1 .. Len(lock[x]), lock[x][i] = t
      PROVE  x = s /\ i = 1
  BY <1>2, <1>3 DEF QueueInv
<1>4. QueueInv'
  BY <1>1, <1>3 DEF QueueInv
<1>5. HolderInv'
  BY DEF HolderInv
<1>6. QED
  BY <1>4, <1>5

----------------------------------------------------------------------------
(* The actions of the handlers *)

\* Going on to a turn, or returning, disturbs nothing but the queues.
LEMMA MovedRest ==
    ASSUME IInv, NEW t \in Tasks, NEW s \in Sessions, NEW box \in Ids,
           Moved(t, s, box), task[t].pc # "turn", boot.phase = "up",
           UNCHANGED <<rows, boxes, runs, reaper, boot, crashes, late>>,
           lock' \in [Sessions -> Seq(Tasks)],
           rows[s].status # "new", box = None => rows[s].status = "deleted",
           QueueInv' /\ HolderInv'
    PROVE  IInv'
<1> USE DEF IInv, Moved
<1>1. TypeOK'
  BY DEF TypeOK, SlotType
<1>2. WellFormed'
  <2>1. ASSUME NEW u \in Tasks
        PROVE  /\ task'[u].pc # "idle" => task'[u].sess \in Sessions /\ rows[task'[u].sess].status # "new"
               /\ task'[u].pc \in {"kill", "killed"} => task'[u].op \in Killers
               /\ task'[u].pc \in {"lock"} \cup Locking => task'[u].op \in {"start", "turn"}
    <3>1. CASE u = t
      BY <3>1 DEF Locking
    <3>2. CASE u # t
      BY <3>2 DEF WellFormed
    <3>3. QED
      BY <3>1, <3>2
  <2>2. \A x \in inFlight' : rows[x].status # "new"
    BY DEF WellFormed
  <2>3. reaper.pc # "idle" => reaper.sess \in Sessions
    BY DEF WellFormed
  <2>4. QED
    BY <2>1, <2>2, <2>3 DEF WellFormed
<1>3. RowInv' /\ BoxInv'
  <2>1. RowInv'
    BY DEF RowInv, Locking
  <2>2. BoxesKept
    BY DEF TypeOK, BoxesKept
  <2>3. BoxInv'
    BY <2>2, BoxFrame DEF Locking
  <2>4. QED
    BY <2>1, <2>3
<1>4. QuietInv' /\ GoneInv'
  BY DEF QuietInv, GoneInv
<1>5. RowNamesItsBox' /\ ProxyReachesOwnApp' /\ RecoveryAccountsForBoxes'
  BY DEF RowNamesItsBox, ProxyReachesOwnApp, RecoveryAccountsForBoxes
<1>6. InFlightHasTurn'
  <2>1. SUFFICES ASSUME NEW x \in inFlight', Exists(x)'
                 PROVE  \E u \in Tasks : task'[u].pc = "turn" /\ task'[u].sess = x
    BY DEF InFlightHasTurn
  <2>2. CASE x \in inFlight
    <3>1. PICK u \in Tasks : task[u].pc = "turn" /\ task[u].sess = x
      BY <2>1, <2>2 DEF InFlightHasTurn, Exists
    <3>2. u # t /\ task'[u] = task[u]
      BY <3>1
    <3>3. QED
      BY <3>1, <3>2
  <2>3. CASE x \notin inFlight
    <3>1. x = s /\ box # None
      BY <2>1, <2>3 DEF Exists
    <3>2. QED
      BY <2>1, <2>3, <3>1
  <2>4. QED
    BY <2>2, <2>3
<1>7. QED
  BY <1>1, <1>2, <1>3, <1>4, <1>5, <1>6

\* A waiting turn is given its slot.
LEMMA StartTurnStep == ASSUME IInv, NEW t \in Tasks, StartTurn(t) PROVE IInv'
<1> DEFINE s == task[t].sess
           box == task[t].box
<1>1. s \in Sessions /\ box \in Ids /\ slot \in SlotType /\ boot.phase = "up"
  BY DEF IInv, StartTurn, WellFormed, TypeOK, Task, SlotType, QuietInv
<1>2. Moved(t, s, box)
  BY <1>1, RunTurnMoves DEF IInv, StartTurn
<1>3. lock' = lock /\ lock' \in [Sessions -> Seq(Tasks)]
  BY DEF IInv, TypeOK, StartTurn
<1>4. QueueInv' /\ HolderInv'
  BY <1>2, <1>3, QueueFrame DEF IInv, StartTurn, Moved, Locking
<1>5. rows[s].status # "new" /\ (box = None => rows[s].status = "deleted")
  BY DEF IInv, StartTurn, WellFormed, GoneInv
<1>6. QED
  BY <1>1, <1>2, <1>3, <1>4, <1>5, MovedRest DEF StartTurn

\* Provision puts a handler at docker run.
LEMMA ProvisionTask ==
    ASSUME TypeOK, NEW t \in Tasks, NEW op \in {"start", "turn"}, NEW s \in Sessions,
           Provision(t, op, s)
    PROVE  /\ task' \in [Tasks -> Task]
           /\ \A u \in Tasks \ {t} : task'[u] = task[u]
           /\ task'[t].pc = "run" /\ task'[t].sess = s /\ task'[t].op = op
           /\ slot' \in SlotType
           /\ inFlight' = inFlight
<1>1. rows[s].port \in PortOrNone
  BY DEF TypeOK, Row
<1>2. PICK port \in PortOrNone : Become(t, "run", op, s, None, port)
  BY <1>1, AllocatePortType DEF Provision
<1>3. /\ task' \in [Tasks -> Task]
      /\ \A u \in Tasks \ {t} : task'[u] = task[u]
      /\ task'[t].pc = "run" /\ task'[t].sess = s /\ task'[t].op = op
  <2>1. "run" \in Pcs /\ op \in AllOps \cup {"none"} /\ s \in Sessions \cup {None}
    BY DEF Pcs, AllOps
  <2>2. None \in Ids
    BY BoundsAssumption DEF Ids
  <2>3. task'[t] = [pc |-> "run", op |-> op, sess |-> s, box |-> None, port |-> port]
    BY <1>2, <2>1, <2>2, BecomeTask
  <2>4. QED
    BY <1>2, <2>1, <2>2, <2>3, BecomeTask
<1>4. QED
  BY <1>3, AcquireType DEF Provision, TypeOK, SlotType

\* A handler that begins to wait for the lock or for docker disturbs
\* nothing but the queues either.
LEMMA WaitRest ==
    ASSUME IInv, NEW t \in Tasks, NEW s \in Sessions,
           task' \in [Tasks -> Task], \A u \in Tasks \ {t} : task'[u] = task[u],
           task'[t].pc \in {"lock", "run"}, task'[t].sess = s, task'[t].op \in {"start", "turn"},
           task[t].pc # "turn", boot.phase = "up", slot' \in SlotType,
           UNCHANGED <<rows, boxes, runs, inFlight, reaper, boot, crashes, late>>,
           lock' \in [Sessions -> Seq(Tasks)],
           rows[s].status # "new", task'[t].pc = "run" => rows[s].container = None,
           QueueInv' /\ HolderInv'
    PROVE  IInv'
<1> USE DEF IInv
<1>1. TypeOK'
  BY DEF TypeOK, SlotType
<1>2. WellFormed'
  BY DEF WellFormed, Locking
<1>3. RowInv' /\ BoxInv'
  <2>1. RowInv'
    BY DEF RowInv, Locking
  <2>2. BoxesKept
    BY DEF TypeOK, BoxesKept
  <2>3. BoxInv'
    BY <2>2, BoxFrame DEF Locking
  <2>4. QED
    BY <2>1, <2>3
<1>4. QuietInv' /\ GoneInv'
  BY DEF QuietInv, GoneInv
<1>5. RowNamesItsBox' /\ ProxyReachesOwnApp' /\ RecoveryAccountsForBoxes'
  BY DEF RowNamesItsBox, ProxyReachesOwnApp, RecoveryAccountsForBoxes
<1>6. InFlightHasTurn'
  <2>1. SUFFICES ASSUME NEW x \in inFlight, Exists(x)
                 PROVE  \E u \in Tasks : task'[u].pc = "turn" /\ task'[u].sess = x
    BY DEF InFlightHasTurn, Exists
  <2>2. PICK u \in Tasks : task[u].pc = "turn" /\ task[u].sess = x
    BY <2>1 DEF InFlightHasTurn
  <2>3. QED
    BY <2>2
<1>7. QED
  BY <1>1, <1>2, <1>3, <1>4, <1>5, <1>6

\* A request finds the container there, takes the lock, or queues for it.
LEMMA EnsureRunningStep ==
    ASSUME IInv, NEW t \in Tasks, NEW op \in Ops, NEW s \in Sessions, EnsureRunning(t, op, s)
    PROVE  IInv'
<1>1. /\ TypeOK /\ QueueInv /\ HolderInv
      /\ op \in {"start", "turn"} /\ task[t].pc = "idle" /\ boot.phase = "up"
      /\ rows[s].status = "active"
      /\ slot \in SlotType /\ rows[s].container \in Ids
      /\ UNCHANGED <<rows, boxes, runs, reaper, boot, crashes, late>>
  BY DEF IInv, EnsureRunning, TypeOK, SlotType, Row
<1>2. CASE rows[s].container # None
  <2>1. Continue(t, op, s, rows[s].container, slot) /\ lock' = lock
    BY <1>2 DEF EnsureRunning
  <2>2. Moved(t, s, rows[s].container)
    BY <1>1, <2>1, ContinueMoves
  <2>3. QueueInv' /\ HolderInv'
    BY <1>1, <2>1, <2>2, QueueFrame DEF Moved, Locking
  <2>4. lock' \in [Sessions -> Seq(Tasks)]
    BY <1>1, <2>1 DEF TypeOK
  <2>5. QED
    BY <1>1, <1>2, <2>2, <2>3, <2>4, MovedRest
<1>3. CASE rows[s].container = None /\ lock[s] = <<>>
  <2>1. Provision(t, op, s) /\ lock' = [lock EXCEPT ![s] = Append(@, t)]
    BY <1>3 DEF EnsureRunning
  <2>2. /\ task' \in [Tasks -> Task] /\ \A u \in Tasks \ {t} : task'[u] = task[u]
        /\ task'[t].pc = "run" /\ task'[t].sess = s /\ task'[t].op = op
        /\ slot' \in SlotType /\ inFlight' = inFlight
    BY <1>1, <2>1, ProvisionTask
  <2>3. QueueInv' /\ HolderInv' /\ lock' \in [Sessions -> Seq(Tasks)]
    BY <1>1, <1>3, <2>1, <2>2, EnqueueQueue
  <2>4. QED
    BY <1>1, <1>3, <2>2, <2>3, WaitRest
<1>4. CASE rows[s].container = None /\ lock[s] # <<>>
  <2>1. /\ Become(t, "lock", op, s, None, None)
        /\ lock' = [lock EXCEPT ![s] = Append(@, t)]
        /\ UNCHANGED <<slot, inFlight>>
    BY <1>4 DEF EnsureRunning
  <2>2. "lock" \in Pcs /\ op \in AllOps \cup {"none"} /\ None \in Ids /\ None \in PortOrNone
    BY <1>1, BoundsAssumption DEF Pcs, AllOps, Ids, PortOrNone
  <2>3. /\ task' \in [Tasks -> Task] /\ \A u \in Tasks \ {t} : task'[u] = task[u]
        /\ task'[t] = [pc |-> "lock", op |-> op, sess |-> s, box |-> None, port |-> None]
    BY <1>1, <2>1, <2>2, BecomeTask
  <2>4. QueueInv' /\ HolderInv' /\ lock' \in [Sessions -> Seq(Tasks)]
    <3>1. task'[t].sess = s /\ task'[t].pc = IF lock[s] = <<>> THEN "run" ELSE "lock"
      BY <1>4, <2>3
    <3>2. QED
      BY <1>1, <2>1, <2>3, <3>1, EnqueueQueue
  <2>5. QED
    BY <1>1, <2>1, <2>3, <2>4, WaitRest
<1>5. QED
  BY <1>2, <1>3, <1>4

\* A waiter is given the lock and finds the row gone, running, or empty.
LEMMA LockGrantedStep == ASSUME IInv, NEW t \in Tasks, LockGranted(t) PROVE IInv'
<1> DEFINE s == task[t].sess
<1>1. /\ TypeOK /\ QueueInv /\ HolderInv
      /\ task[t].pc = "lock" /\ boot.phase = "up" /\ s \in Sessions
      /\ lock[s] # <<>> /\ lock[s][1] = t
      /\ rows[s].status # "new" /\ rows[s].container \in Ids
      /\ slot \in SlotType
      /\ UNCHANGED <<rows, boxes, runs, reaper, boot, crashes, late>>
  BY DEF IInv, LockGranted, TypeOK, SlotType, Row, WellFormed, QuietInv
<1>2. CASE ~Exists(s)
  <2>1. Unlock(s) /\ Return(t) /\ UNCHANGED <<slot, inFlight>>
    BY <1>2 DEF LockGranted
  <2>2. /\ task' \in [Tasks -> Task] /\ task'[t] = IdleTask
        /\ \A u \in Tasks \ {t} : task'[u] = task[u]
    BY <1>1, <2>1, ReturnTask
  <2>3. Moved(t, s, 1 - 1)
    BY <1>1, <2>1, <2>2 DEF Moved, IdleTask
  <2>4. QueueInv' /\ HolderInv' /\ lock' \in [Sessions -> Seq(Tasks)]
    BY <1>1, <2>1, <2>2, UnlockQueue DEF IdleTask, Locking
  <2>5. rows[s].status = "deleted" /\ 1 - 1 \in Ids
    BY <1>1, <1>2, BoundsAssumption DEF Exists, TypeOK, Row, Statuses, Ids
  <2>6. QED
    BY <1>1, <2>3, <2>4, <2>5, MovedRest
<1>3. CASE Exists(s) /\ rows[s].container # None
  <2>1. Unlock(s) /\ Continue(t, task[t].op, s, rows[s].container, slot)
    BY <1>3 DEF LockGranted
  <2>2. Moved(t, s, rows[s].container)
    BY <1>1, <2>1, ContinueMoves
  <2>3. QueueInv' /\ HolderInv' /\ lock' \in [Sessions -> Seq(Tasks)]
    BY <1>1, <2>1, <2>2, UnlockQueue DEF Moved, Locking
  <2>4. QED
    BY <1>1, <1>3, <2>2, <2>3, MovedRest
<1>4. CASE Exists(s) /\ rows[s].container = None
  <2>1. Provision(t, task[t].op, s) /\ lock' = lock
    BY <1>4 DEF LockGranted
  <2>2. task[t].op \in {"start", "turn"}
    BY <1>1 DEF IInv, WellFormed
  <2>3. /\ task' \in [Tasks -> Task] /\ \A u \in Tasks \ {t} : task'[u] = task[u]
        /\ task'[t].pc = "run" /\ task'[t].sess = s /\ task'[t].op = task[t].op
        /\ slot' \in SlotType /\ inFlight' = inFlight
    BY <1>1, <2>1, <2>2, ProvisionTask
  <2>4. QueueInv' /\ HolderInv'
    BY <1>1, <2>1, <2>3, PromoteQueue DEF Locking
  <2>5. lock' \in [Sessions -> Seq(Tasks)]
    BY <1>1, <2>1 DEF TypeOK
  <2>6. QED
    BY <1>1, <1>4, <2>1, <2>2, <2>3, <2>4, <2>5, WaitRest
<1>5. QED
  BY <1>2, <1>3, <1>4

\* A step that ends a turn disturbs no queue of a lock.
LEMMA LeaveTurnStep ==
    ASSUME IInv, NEW t \in Tasks, NEW touched \in BOOLEAN, LeaveTurn(t, touched)
    PROVE  IInv'
<1> DEFINE s == task[t].sess
<1>1. /\ TypeOK /\ QueueInv /\ HolderInv
      /\ task[t].pc = "turn" /\ boot.phase = "up" /\ s \in Sessions
      /\ slot \in SlotType /\ inFlight' = inFlight \ {s}
      /\ slot' = Release(slot, t) /\ Return(t)
      /\ UNCHANGED <<boxes, runs, lock, reaper, boot, crashes, late>>
  BY DEF IInv, LeaveTurn, TypeOK, SlotType, WellFormed, QuietInv
<1>2. /\ task' \in [Tasks -> Task] /\ task'[t] = IdleTask
      /\ \A u \in Tasks \ {t} : task'[u] = task[u]
  BY <1>1, ReturnTask
<1>3. /\ rows' \in [Sessions -> Row]
      /\ \A x \in Sessions : /\ rows'[x].status = rows[x].status
                             /\ rows'[x].container = rows[x].container
                             /\ rows'[x].port = rows[x].port
  <2>1. CASE touched
    <3>1. Update(s, rows[s]) /\ rows[s] \in Row
      BY <1>1, <2>1 DEF LeaveTurn, TypeOK
    <3>2. /\ rows' \in [Sessions -> Row]
          /\ \A x \in Sessions \ {s} : rows'[x] = rows[x]
          /\ rows'[s] = rows[s] \/ rows'[s] = [rows[s] EXCEPT !.stale = FALSE]
      BY <1>1, <3>1, UpdateRow
    <3>3. QED
      BY <1>1, <3>1, <3>2 DEF Row
  <2>2. CASE ~touched
    BY <1>1, <2>2 DEF LeaveTurn, TypeOK
  <2>3. QED
    BY <2>1, <2>2
<1>4. TypeOK'
  <2>1. slot' \in SlotType
    BY <1>1, ReleaseType
  <2>2. QED
    BY <1>1, <1>2, <1>3, <2>1 DEF TypeOK, SlotType
<1>5. QueueInv' /\ HolderInv'
  BY <1>1, <1>2, QueueFrame DEF IdleTask, Locking
<1>6. WellFormed'
  <2>1. \A u \in Tasks : task'[u] = task[u] \/ task'[u].pc = "idle"
    BY <1>2 DEF IdleTask
  <2>2. \A x \in inFlight' : x \in Sessions /\ x \in inFlight
    BY <1>1 DEF TypeOK
  <2>3. \A x \in Sessions : rows'[x].status = rows[x].status
    BY <1>3
  <2>4. QED
    BY <1>1, <2>1, <2>2, <2>3 DEF IInv, WellFormed, Locking
<1>7. RowInv' /\ BoxInv' /\ QuietInv' /\ GoneInv'
  BY <1>1, <1>2, <1>3 DEF IInv, WellFormed, RowInv, BoxInv, OwnBox, QuietInv, GoneInv, IdleTask, Locking
<1>8. RowNamesItsBox' /\ ProxyReachesOwnApp' /\ RecoveryAccountsForBoxes'
  BY <1>1, <1>3 DEF IInv, RowNamesItsBox, ProxyReachesOwnApp, RecoveryAccountsForBoxes
<1>9. InFlightHasTurn'
  <2>1. SUFFICES ASSUME NEW x \in inFlight', Exists(x)'
                 PROVE  \E u \in Tasks : task'[u].pc = "turn" /\ task'[u].sess = x
    BY DEF InFlightHasTurn
  <2>2. x \in inFlight /\ x # s /\ x \in Sessions
    BY <1>1, <2>1 DEF TypeOK
  <2>3. PICK u \in Tasks : task[u].pc = "turn" /\ task[u].sess = x
    BY <1>3, <2>1, <2>2 DEF IInv, InFlightHasTurn, Exists
  <2>4. QED
    BY <1>2, <2>2, <2>3
<1>10. QED
  BY <1>4, <1>5, <1>6, <1>7, <1>8, <1>9 DEF IInv

\* recover() before anything runs: what it leaves on a row is what the row
\* held, or nothing.
LEMMA RecoverStep == ASSUME IInv, Recover PROVE IInv'
<1> DEFINE claimed == {s \in Sessions : Exists(s) /\ rows[s].container # None}
           live(ok) == IF ok THEN {s \in Sessions : boxes[s] # NoBox} ELSE {}
<1>20. RecoverWith(claimed)
  BY DEF Recover
<1>1. PICK ok \in BOOLEAN :
         /\ rows' = [s \in Sessions |->
                       IF s \in claimed \ live(ok)
                       THEN [rows[s] EXCEPT !.container = None, !.port = None, !.stale = FALSE]
                       ELSE rows[s]]
         /\ boot' = [phase |-> "removing", orphans |-> live(ok) \ claimed, clean |-> ok,
                     listed |-> runs]
         /\ boxes' = [x \in Sessions |->
                        [boxes[x] EXCEPT !.forsaken = @ \/ (x \in claimed /\ boxes[x] # NoBox /\ ~ok)]]
  BY <1>20 DEF RecoverWith
<1>2. /\ boot.phase = "down"
      /\ UNCHANGED <<runs, lock, slot, inFlight, task, reaper, crashes, late>>
      /\ TypeOK /\ QueueInv /\ HolderInv
  BY <1>20 DEF RecoverWith, IInv
<1>21. live(ok) \subseteq Sessions /\ boot'.phase = "removing"
  BY <1>1
<1> HIDE DEF claimed, live
<1>3. ASSUME NEW s \in Sessions
      PROVE  /\ rows'[s] \in Row
             /\ rows'[s].status = rows[s].status
             /\ rows'[s] = rows[s] \/ rows'[s].container = None
             /\ s \notin claimed \ live(ok) => rows'[s] = rows[s]
  <2>1. rows[s] \in Row /\ None \in Ids /\ None \in PortOrNone
    BY <1>2, BoundsAssumption DEF TypeOK, Ids, PortOrNone
  <2>2. QED
    BY <1>1, <2>1 DEF Row
<1>0. BoxesKept /\ \A x \in Sessions : boxes'[x] # NoBox => boxes[x] # NoBox
  <2>1. ASSUME NEW x \in Sessions
        PROVE  /\ boxes'[x] \in Box
               /\ boxes'[x].id = boxes[x].id
               /\ boxes'[x].port = boxes[x].port
               /\ boxes'[x].stray = boxes[x].stray
               /\ boxes[x] = NoBox => boxes'[x] = NoBox
    <3>1. boxes[x] \in Box
      BY <1>2 DEF TypeOK
    <3>2. PICK b \in BOOLEAN : /\ boxes'[x] = [boxes[x] EXCEPT !.forsaken = b]
                               /\ boxes[x] = NoBox => b = boxes[x].forsaken
      <4>1. CASE boxes[x] = NoBox
        BY <1>1, <3>1, <4>1 DEF Box
      <4>2. CASE boxes[x] # NoBox
        BY <1>1, <3>1, <4>2 DEF Box
      <4>3. QED
        BY <4>1, <4>2
    <3>3. QED
      BY <3>1, <3>2 DEF Box
  <2>2. QED
    BY <1>1, <2>1 DEF BoxesKept
<1>4. TypeOK'
  <2>1. rows' \in [Sessions -> Row]
    BY <1>1, <1>3
  <2>2. boot' \in Boot
    BY <1>1, <1>2, <1>21 DEF Boot, TypeOK
  <2>3. QED
    BY <1>0, <1>2, <2>1, <2>2 DEF BoxesKept, TypeOK
<1>5. \A t \in Tasks : task[t].pc = "idle" /\ reaper.pc = "idle"
  BY <1>2 DEF IInv, QuietInv
<1>22. reaper.pc = "idle"
  BY <1>2 DEF IInv, QuietInv
<1>6. WellFormed' /\ RowInv' /\ BoxInv' /\ QuietInv' /\ GoneInv'
  <2>1. BoxInv'
    BY <1>0, <1>2, BoxFrame DEF IInv
  <2>2. \A t \in Tasks : task'[t].pc = "idle" /\ reaper'.pc = "idle"
    BY <1>2, <1>5
  <2>4. RowInv' /\ GoneInv'
    BY <2>2 DEF RowInv, GoneInv, Locking
  <2>5. QuietInv'
    BY <1>2, <1>5, <1>22 DEF QuietInv
  <2>3. WellFormed'
    BY <1>2, <1>3, <1>5 DEF IInv, TypeOK, WellFormed, Locking
  <2>6. QED
    BY <2>1, <2>3, <2>4, <2>5
<1>7. QueueInv' /\ HolderInv'
  BY <1>2, QueueFrame
<1>8. RowNamesItsBox' /\ ProxyReachesOwnApp'
  BY <1>0, <1>2, <1>3 DEF BoxesKept, IInv, BoxInv, RowNamesItsBox, ProxyReachesOwnApp
<1>9. RecoveryAccountsForBoxes'
  <2>1. SUFFICES ASSUME ok, NEW s \in Sessions, boxes'[s] # NoBox
                 PROVE  \/ rows'[s].container = boxes'[s].id
                        \/ s \in live(ok) \ claimed
                        \/ boxes'[s].stray /\ rows'[s].container # None
    BY <1>1 DEF RecoveryAccountsForBoxes
  <2>2. s \in live(ok) /\ boxes[s] # NoBox
    BY <1>0, <2>1 DEF live
  <2>3. CASE s \in claimed
    <3>1. rows'[s] = rows[s] /\ rows[s].container # None
      BY <1>3, <2>2, <2>3 DEF claimed
    <3>2. rows[s].container = boxes[s].id \/ boxes[s].stray
      BY <2>2, <3>1 DEF IInv, RowNamesItsBox
    <3>3. boxes'[s].id = boxes[s].id /\ boxes'[s].stray = boxes[s].stray
      BY <1>0, <2>1 DEF BoxesKept
    <3>4. QED
      BY <3>1, <3>2, <3>3
  <2>4. QED
    BY <2>2, <2>3
<1>10. InFlightHasTurn'
  BY <1>2, <1>3 DEF IInv, TypeOK, InFlightHasTurn, Exists
<1>11. QED
  BY <1>4, <1>6, <1>7, <1>8, <1>9, <1>10 DEF IInv

\* docker gives a handler the box it asked for, or none.
LEMMA DockerRunStep == ASSUME IInv, NEW t \in Tasks, DockerRun(t) PROVE IInv'
<1> DEFINE s == task[t].sess
           p == task[t].port
           box == NewBox(runs + 1, p, FALSE)
<1>1. /\ TypeOK /\ QueueInv /\ HolderInv
      /\ task[t].pc = "run" /\ boot.phase = "up" /\ s \in Sessions
      /\ task[t] \in Task /\ runs \in Nat
      /\ lock[s] # <<>> /\ lock[s][1] = t /\ rows[s].container = None
      /\ UNCHANGED <<rows, lock, slot, inFlight, reaper, boot, crashes, late>>
  BY DEF IInv, DockerRun, TypeOK, Ids, WellFormed, QuietInv, HolderInv, RowInv, Locking
<1>2. CASE /\ task' = [task EXCEPT ![t].pc = "failed"]
           /\ UNCHANGED <<boxes, runs>>
  <2>1. [task[t] EXCEPT !.pc = "failed"] \in Task
    BY <1>1 DEF Task, Pcs
  <2>2. /\ task' \in [Tasks -> Task]
        /\ task'[t] = [task[t] EXCEPT !.pc = "failed"]
        /\ \A u \in Tasks \ {t} : task'[u] = task[u]
    BY <1>1, <1>2, <2>1 DEF TypeOK
  <2>3. /\ task'[t].pc = "failed" /\ task'[t].sess = s /\ task'[t].op = task[t].op
    BY <1>1, <2>2 DEF Task
  <2>4. QueueInv' /\ HolderInv'
    BY <1>1, <2>2, <2>3, QueueFrame DEF Locking
  <2>5. TypeOK' /\ WellFormed'
    BY <1>1, <1>2, <2>2, <2>3 DEF IInv, TypeOK, WellFormed, Locking
  <2>6. RowInv' /\ BoxInv' /\ QuietInv' /\ GoneInv'
    BY <1>1, <1>2, <2>2, <2>3 DEF IInv, RowInv, BoxInv, OwnBox, QuietInv, GoneInv, Locking
  <2>7. RowNamesItsBox' /\ ProxyReachesOwnApp' /\ RecoveryAccountsForBoxes' /\ InFlightHasTurn'
    BY <1>1, <1>2, <2>2, <2>3
    DEF IInv, RowNamesItsBox, ProxyReachesOwnApp, RecoveryAccountsForBoxes, InFlightHasTurn, Exists
  <2>8. QED
    BY <2>4, <2>5, <2>6, <2>7 DEF IInv
<1>3. CASE /\ boxes[s] = NoBox
           /\ runs < MaxRuns
           /\ runs' = runs + 1
           /\ boxes' = [boxes EXCEPT ![s] = box]
           /\ task' = [task EXCEPT ![t].pc = "ran", ![t].box = runs + 1]
  <2>1. runs + 1 \in Ids /\ box \in Box /\ runs + 1 # None
    BY <1>1, <1>3, BoundsAssumption DEF Ids, Box, Task, NewBox
  <2>2. [task[t] EXCEPT !.pc = "ran", !.box = runs + 1] \in Task
    BY <1>1, <2>1 DEF Task, Pcs
  <2>3. /\ task' \in [Tasks -> Task]
        /\ task'[t] = [task[t] EXCEPT !.pc = "ran", !.box = runs + 1]
        /\ \A u \in Tasks \ {t} : task'[u] = task[u]
    BY <1>1, <1>3, <2>2 DEF TypeOK
  <2>4. /\ task'[t].pc = "ran" /\ task'[t].sess = s /\ task'[t].op = task[t].op
        /\ task'[t].box = runs + 1 /\ task'[t].port = p
    BY <1>1, <2>3 DEF Task
  <2>5. /\ boxes' \in [Sessions -> Box]
        /\ boxes'[s] = box
        /\ \A x \in Sessions \ {s} : boxes'[x] = boxes[x]
    BY <1>1, <1>3, <2>1 DEF TypeOK
  <2>6. QueueInv' /\ HolderInv'
    BY <1>1, <2>3, <2>4, QueueFrame DEF Locking
  <2>7. TypeOK' /\ WellFormed'
    <3>1. TypeOK'
      <4>1. runs' \in Ids /\ rows' \in [Sessions -> Row] /\ lock' \in [Sessions -> Seq(Tasks)]
        BY <1>1, <1>3, <2>1 DEF TypeOK
      <4>2. /\ slot' \in [holders: SUBSET Tasks, waiters: Seq(Tasks)]
            /\ inFlight' \in SUBSET Sessions /\ reaper' \in Reaper /\ boot' \in Boot
            /\ crashes' \in 0 .. MaxCrashes /\ late' \in SUBSET Run
        BY <1>1 DEF TypeOK
      <4>3. QED
        BY <2>3, <2>5, <4>1, <4>2 DEF TypeOK
    <3>2. \A u \in Tasks : /\ task'[u].sess = task[u].sess /\ task'[u].op = task[u].op
                           /\ task'[u].pc = task[u].pc \/ (u = t /\ task'[u].pc = "ran")
      BY <2>3, <2>4
    <3>3. WellFormed'
      BY <1>1, <3>2 DEF IInv, WellFormed, Locking
    <3>4. QED
      BY <3>1, <3>3
  <2>8. ASSUME NEW u \in Tasks \ {t}, task[u].pc \in Locking PROVE task[u].sess # s
    BY <1>1, <2>8 DEF HolderInv
  <2>9. BoxInv'
    <3>1. \A x \in Sessions : boxes'[x] # NoBox => boxes'[x].id # None
      BY <2>1, <2>5 DEF IInv, BoxInv, NewBox
    <3>2. ASSUME NEW u \in Tasks, task'[u].pc = "ran"
          PROVE  /\ task'[u].box # None
                 /\ boxes'[task'[u].sess] # NoBox => OwnBox(u, boxes[task[u].sess])'
      <4>1. CASE u = t
        BY <2>1, <2>4, <2>5, <4>1 DEF OwnBox, NewBox
      <4>2. CASE u # t
        BY <2>3, <2>5, <2>8, <3>2, <4>2 DEF IInv, BoxInv, OwnBox, WellFormed, Locking
      <4>3. QED
        BY <4>1, <4>2
    <3>3. QED
      BY <3>1, <3>2 DEF BoxInv
  <2>10. RowInv' /\ QuietInv' /\ GoneInv'
    <3>1. \A u \in Tasks : u = t \/ task'[u] = task[u]
      BY <2>3
    <3>2. RowInv'
      <4>1. SUFFICES ASSUME NEW u \in Tasks, task'[u].pc \in Locking
                     PROVE  rows[task'[u].sess].container = None
        BY <1>1 DEF RowInv
      <4>2. CASE u = t
        BY <1>1, <2>4, <4>2
      <4>3. CASE u # t
        BY <3>1, <4>1, <4>3 DEF IInv, RowInv
      <4>4. QED
        BY <4>2, <4>3
    <3>3. QuietInv'
      BY <1>1 DEF QuietInv
    <3>4. GoneInv'
      BY <1>1, <2>4, <3>1 DEF IInv, GoneInv
    <3>5. QED
      BY <3>2, <3>3, <3>4
  <2>11. RowNamesItsBox' /\ ProxyReachesOwnApp'
    BY <1>1, <2>1, <2>5 DEF IInv, RowNamesItsBox, ProxyReachesOwnApp, NewBox
  <2>12. RecoveryAccountsForBoxes' /\ InFlightHasTurn'
    BY <1>1, <2>3, <2>4 DEF IInv, RecoveryAccountsForBoxes, InFlightHasTurn, Exists
  <2>13. QED
    BY <2>6, <2>7, <2>9, <2>10, <2>11, <2>12 DEF IInv
<1>4. QED
  BY <1>2, <1>3 DEF DockerRun

\* docker's answer is taken in: the row names the new box, with its port.
LEMMA ProvisionedStep == ASSUME IInv, NEW t \in Tasks, Provisioned(t) PROVE IInv'
<1> DEFINE s == task[t].sess
           box == IF Exists(s) THEN task[t].box ELSE None
<1>1. /\ TypeOK /\ QueueInv /\ HolderInv
      /\ task[t].pc = "ran" /\ boot.phase = "up" /\ s \in Sessions
      /\ task[t].box \in Ids /\ task[t].port \in PortOrNone
      /\ lock[s] # <<>> /\ lock[s][1] = t /\ rows[s].container = None
      /\ rows[s].status # "new" /\ rows[s] \in Row /\ slot \in SlotType
      /\ UNCHANGED <<boxes, runs, reaper, boot, crashes, late>>
  BY DEF IInv, Provisioned, TypeOK, WellFormed, QuietInv, HolderInv, RowInv, Locking, SlotType, Task
<1>2. /\ task[t].box # None
      /\ boxes[s] # NoBox => OwnBox(t, boxes[s])
      /\ \A x \in Sessions : boxes[x] # NoBox => boxes[x].id # None
  BY <1>1 DEF IInv, BoxInv
<1>3. /\ rows' \in [Sessions -> Row]
      /\ \A x \in Sessions \ {s} : rows'[x] = rows[x]
      /\ rows'[s].status = rows[s].status
      /\ \/ rows'[s] = rows[s]
         \/ rows'[s].container = task[t].box /\ rows'[s].port = task[t].port
  <2>1. [rows[s] EXCEPT !.container = task[t].box, !.port = task[t].port] \in Row
    BY <1>1 DEF Row
  <2>2. Update(s, [rows[s] EXCEPT !.container = task[t].box, !.port = task[t].port])
    BY DEF Provisioned
  <2>3. /\ rows' \in [Sessions -> Row]
        /\ \A x \in Sessions \ {s} : rows'[x] = rows[x]
        /\ \/ rows'[s] = rows[s]
           \/ rows'[s] = [[rows[s] EXCEPT !.container = task[t].box, !.port = task[t].port]
                             EXCEPT !.stale = FALSE]
    BY <1>1, <2>1, <2>2, UpdateRow
  <2>4. QED
    BY <1>1, <2>3 DEF Row
<1>4. Moved(t, s, box)
  <2>1. box \in Ids
    BY <1>1, BoundsAssumption DEF Ids
  <2>2. Release(slot, t) \in SlotType
    BY <1>1, ReleaseType
  <2>3. Continue(t, task[t].op, s, box, Release(slot, t))
    BY DEF Provisioned
  <2>4. QED
    BY <1>1, <2>1, <2>2, <2>3, ContinueMoves
<1>5. QueueInv' /\ HolderInv' /\ lock' \in [Sessions -> Seq(Tasks)]
  <2>1. Unlock(s)
    BY DEF Provisioned
  <2>2. QED
    BY <1>1, <1>4, <2>1, UnlockQueue DEF Moved, Locking
<1>6. TypeOK'
  BY <1>1, <1>3, <1>4, <1>5 DEF TypeOK, Moved, SlotType
<1>7. \A x \in Sessions : rows'[x].status = rows[x].status
  BY <1>3
<1>8. WellFormed'
  <2>1. /\ \A u \in Tasks : u = t \/ task'[u] = task[u]
        /\ task'[t].pc \in {"idle", "turnwait", "turn"}
        /\ task'[t].pc # "idle" => task'[t].sess = s
    BY <1>4 DEF Moved
  <2>2. \A x \in inFlight' : x \in Sessions /\ (x \in inFlight \/ x = s)
    BY <1>4, <1>6 DEF Moved, TypeOK
  <2>3. \A u \in Tasks : task'[u].pc # "idle" =>
           task'[u].sess \in Sessions /\ rows'[task'[u].sess].status # "new"
    BY <1>1, <1>7, <2>1 DEF IInv, WellFormed
  <2>4. \A u \in Tasks :
           /\ task'[u].pc \in {"kill", "killed"} => task'[u].op \in Killers
           /\ task'[u].pc \in {"lock"} \cup Locking => task'[u].op \in {"start", "turn"}
    BY <2>1 DEF IInv, WellFormed, Locking
  <2>5. QED
    BY <1>1, <1>7, <2>2, <2>3, <2>4 DEF IInv, WellFormed
<1>9. ASSUME NEW u \in Tasks, task'[u].pc \in Locking
      PROVE  u # t /\ task'[u] = task[u] /\ task[u].sess \in Sessions \ {s}
  <2>1. u # t /\ task'[u] = task[u]
    BY <1>4, <1>9 DEF Moved, Locking
  <2>2. task[u].sess \in Sessions
    BY <1>9, <2>1 DEF IInv, WellFormed, Locking
  <2>3. QED
    BY <1>1, <1>9, <2>1, <2>2 DEF HolderInv
<1>10. RowInv' /\ BoxInv'
  BY <1>1, <1>2, <1>3, <1>9 DEF IInv, RowInv, BoxInv, OwnBox, Locking
<1>11. QuietInv'
  BY <1>1 DEF QuietInv
<1>12. GoneInv'
  <2>1. SUFFICES ASSUME NEW u \in Tasks, task'[u].pc = "turnwait", task'[u].box = None
                 PROVE  rows[task'[u].sess].status = "deleted" /\ task'[u].sess \in Sessions
    BY <1>7 DEF GoneInv
  <2>2. CASE u = t
    <3>1. ~Exists(s) /\ task'[u].sess = s
      BY <1>2, <1>4, <2>1, <2>2 DEF Moved
    <3>2. QED
      BY <1>1, <3>1 DEF Exists, Row, Statuses
  <2>3. CASE u # t
    BY <1>4, <2>1, <2>3 DEF IInv, GoneInv, WellFormed, Moved
  <2>4. QED
    BY <2>2, <2>3
<1>13. RowNamesItsBox' /\ ProxyReachesOwnApp'
  BY <1>1, <1>2, <1>3 DEF IInv, OwnBox, RowNamesItsBox, ProxyReachesOwnApp
<1>14. RecoveryAccountsForBoxes'
  BY <1>1 DEF RecoveryAccountsForBoxes
<1>15. InFlightHasTurn'
  <2>1. SUFFICES ASSUME NEW x \in inFlight', Exists(x)'
                 PROVE  \E u \in Tasks : task'[u].pc = "turn" /\ task'[u].sess = x
    BY DEF InFlightHasTurn
  <2>2. x \in Sessions /\ Exists(x)
    BY <1>6, <1>7, <2>1 DEF TypeOK, Exists
  <2>3. CASE x \in inFlight
    <3>1. PICK u \in Tasks : task[u].pc = "turn" /\ task[u].sess = x
      BY <2>2, <2>3 DEF IInv, InFlightHasTurn
    <3>2. u # t /\ task'[u] = task[u]
      BY <1>1, <1>4, <3>1 DEF Moved
    <3>3. QED
      BY <3>1, <3>2
  <2>4. CASE x \notin inFlight
    <3>1. x = s
      BY <1>4, <2>1, <2>4 DEF Moved
    <3>2. task'[t].pc = "turn" /\ task'[t].sess = s
      BY <1>2, <1>4, <2>1, <2>2, <2>4, <3>1 DEF Moved
    <3>3. QED
      BY <3>1, <3>2
  <2>5. QED
    BY <2>3, <2>4
<1>16. QED
  BY <1>5, <1>6, <1>8, <1>10, <1>11, <1>12, <1>13, <1>14, <1>15 DEF IInv

\* docker's refusal is raised: the lock is released and the row untouched.
LEMMA ProvisionFailedStep == ASSUME IInv, NEW t \in Tasks, ProvisionFailed(t) PROVE IInv'
<1> DEFINE s == task[t].sess
<1>1. /\ TypeOK /\ QueueInv /\ HolderInv
      /\ task[t].pc = "failed" /\ boot.phase = "up" /\ s \in Sessions
      /\ lock[s] # <<>> /\ lock[s][1] = t
      /\ slot \in SlotType /\ slot' = Release(slot, t) /\ Unlock(s) /\ Return(t)
      /\ UNCHANGED <<rows, boxes, runs, inFlight, reaper, boot, crashes, late>>
  BY DEF IInv, ProvisionFailed, TypeOK, WellFormed, QuietInv, HolderInv, Locking, SlotType
<1>2. /\ task' \in [Tasks -> Task] /\ task'[t] = IdleTask
      /\ \A u \in Tasks \ {t} : task'[u] = task[u]
  BY <1>1, ReturnTask
<1>3. QueueInv' /\ HolderInv' /\ lock' \in [Sessions -> Seq(Tasks)]
  BY <1>1, <1>2, UnlockQueue DEF IdleTask, Locking
<1>4. TypeOK'
  <2>1. slot' \in SlotType
    BY <1>1, ReleaseType
  <2>2. QED
    BY <1>1, <1>2, <1>3, <2>1 DEF TypeOK, SlotType
<1>5. \A u \in Tasks : task'[u] = task[u] \/ task'[u].pc = "idle"
  BY <1>2 DEF IdleTask
<1>6. WellFormed' /\ RowInv' /\ BoxInv' /\ QuietInv' /\ GoneInv'
  BY <1>1, <1>5 DEF IInv, WellFormed, RowInv, BoxInv, OwnBox, QuietInv, GoneInv, Locking
<1>7. RowNamesItsBox' /\ ProxyReachesOwnApp' /\ RecoveryAccountsForBoxes'
  BY <1>1 DEF IInv, RowNamesItsBox, ProxyReachesOwnApp, RecoveryAccountsForBoxes
<1>8. InFlightHasTurn'
  BY <1>1, <1>2 DEF IInv, InFlightHasTurn, Exists
<1>9. QED
  BY <1>3, <1>4, <1>6, <1>7, <1>8 DEF IInv


\* What stop, archive and delete write takes a container off a row and never
\* brings a row back.
LEMMA FinishRow ==
    ASSUME TypeOK, NEW s \in Sessions, NEW op \in Killers, Finish(op, s)
    PROVE  /\ rows' \in [Sessions -> Row]
           /\ \A x \in Sessions \ {s} : rows'[x] = rows[x]
           /\ rows'[s] = rows[s] \/ rows'[s].container = None
           /\ rows[s].status # "new" => rows'[s].status # "new"
           /\ rows[s].status = "deleted" => rows'[s].status = "deleted"
<1>1. rows[s] \in Row /\ None \in Ids /\ None \in PortOrNone
  BY BoundsAssumption DEF TypeOK, Ids, PortOrNone
<1>2. CASE op = "stop"
  <2>1. [rows[s] EXCEPT !.container = None] \in Row
    BY <1>1 DEF Row
  <2>2. Update(s, [rows[s] EXCEPT !.container = None])
    BY <1>2 DEF Finish
  <2>3. /\ rows' \in [Sessions -> Row]
        /\ \A x \in Sessions \ {s} : rows'[x] = rows[x]
        /\ Exists(s) => rows'[s] = [[rows[s] EXCEPT !.container = None] EXCEPT !.stale = FALSE]
        /\ ~Exists(s) => rows'[s] = rows[s]
    BY <2>1, <2>2, UpdateRow
  <2>4. QED
    BY <1>1, <2>3 DEF Row, Exists
<1>3. CASE op = "archive"
  <2>1. [rows[s] EXCEPT !.container = None, !.port = None, !.status = "archived"] \in Row
    BY <1>1 DEF Row, Statuses
  <2>2. Update(s, [rows[s] EXCEPT !.container = None, !.port = None, !.status = "archived"])
    BY <1>3 DEF Finish
  <2>3. /\ rows' \in [Sessions -> Row]
        /\ \A x \in Sessions \ {s} : rows'[x] = rows[x]
        /\ Exists(s) => rows'[s] = [[rows[s] EXCEPT !.container = None, !.port = None, !.status = "archived"] EXCEPT !.stale = FALSE]
        /\ ~Exists(s) => rows'[s] = rows[s]
    BY <2>1, <2>2, UpdateRow
  <2>4. QED
    BY <1>1, <2>3 DEF Row, Exists
<1>4. CASE op = "delete"
  <2>1. rows' = [rows EXCEPT ![s] = [status |-> "deleted", container |-> None,
                                     port |-> None, stale |-> FALSE]]
    BY <1>4 DEF Finish
  <2>2. [status |-> "deleted", container |-> None, port |-> None, stale |-> FALSE] \in Row
    BY <1>1 DEF Row, Statuses
  <2>3. QED
    BY <2>1, <2>2 DEF TypeOK
<1>5. QED
  BY <1>2, <1>3, <1>4 DEF Killers

\* A step of stop, archive, delete or the reaper, which take containers off
\* rows and are in nobody's queue.
LEMMA KillersRest ==
    ASSUME IInv, boot.phase = "up",
           UNCHANGED <<runs, lock, slot, inFlight, boot, crashes, late>>,
           BoxesKept,
           rows' \in [Sessions -> Row],
           \A x \in Sessions :
              /\ rows'[x] = rows[x] \/ rows'[x].container = None
              /\ rows[x].status # "new" => rows'[x].status # "new"
              /\ rows[x].status = "deleted" => rows'[x].status = "deleted",
           task' \in [Tasks -> Task],
           \A u \in Tasks : \/ task'[u] = task[u]
                            \/ /\ task[u].pc \in {"idle", "killed"}
                               /\ task'[u].pc = "idle"
                            \/ /\ task[u].pc = "idle"
                               /\ task'[u].pc = "kill"
                               /\ task'[u].op \in Killers
                               /\ task'[u].sess \in Sessions
                               /\ rows[task'[u].sess].status # "new",
           reaper' \in Reaper,
           reaper'.pc # "idle" => reaper'.sess \in Sessions
    PROVE  IInv'
<1> USE DEF IInv
<1>1. TypeOK'
  BY DEF BoxesKept, TypeOK
<1>2. WellFormed'
  <2>1. \A u \in Tasks : task'[u].pc # "idle" =>
           task'[u].sess \in Sessions /\ rows'[task'[u].sess].status # "new"
    BY DEF WellFormed
  <2>2. \A u \in Tasks :
           /\ task'[u].pc \in {"kill", "killed"} => task'[u].op \in Killers
           /\ task'[u].pc \in {"lock"} \cup Locking => task'[u].op \in {"start", "turn"}
    BY DEF WellFormed, Locking
  <2>3. \A x \in inFlight' : rows'[x].status # "new"
    BY DEF WellFormed, TypeOK
  <2>4. QED
    BY <2>1, <2>2, <2>3 DEF WellFormed
<1>3. QueueInv' /\ HolderInv'
  BY QueueFrame DEF Locking
<1>4. \A u \in Tasks : task'[u].pc \in {"turnwait"} \cup Locking =>
         task'[u] = task[u] /\ task[u].sess \in Sessions
  BY DEF WellFormed, Locking
<1>5. RowInv' /\ BoxInv'
  BY <1>4 DEF BoxesKept, RowInv, BoxInv, OwnBox, Locking
<1>6. QuietInv' /\ GoneInv'
  BY <1>4 DEF QuietInv, GoneInv
<1>7. RowNamesItsBox' /\ ProxyReachesOwnApp'
  BY DEF BoxesKept, BoxInv, RowNamesItsBox, ProxyReachesOwnApp
<1>8. RecoveryAccountsForBoxes'
  BY DEF RecoveryAccountsForBoxes
<1>9. InFlightHasTurn'
  <2>1. SUFFICES ASSUME NEW x \in inFlight', Exists(x)'
                 PROVE  \E u \in Tasks : task'[u].pc = "turn" /\ task'[u].sess = x
    BY DEF InFlightHasTurn
  <2>2. x \in inFlight /\ x \in Sessions /\ Exists(x)
    BY <2>1 DEF TypeOK, Exists, WellFormed, Row, Statuses
  <2>3. PICK u \in Tasks : task[u].pc = "turn" /\ task[u].sess = x
    BY <2>2 DEF InFlightHasTurn
  <2>4. QED
    BY <2>3
<1>10. QED
  BY <1>1, <1>2, <1>3, <1>5, <1>6, <1>7, <1>8, <1>9

\* stop, archive or delete is asked for.
LEMMA KillStep ==
    ASSUME IInv, NEW t \in Tasks, NEW op \in Ops, NEW s \in Sessions, Kill(t, op, s)
    PROVE  IInv'
<1>1. /\ TypeOK /\ boot.phase = "up" /\ op \in Killers /\ task[t].pc = "idle"
      /\ rows[s].status \notin {"new", "deleted"} /\ rows[s] \in Row
      /\ UNCHANGED <<boxes, runs, lock, slot, inFlight, reaper, boot, crashes, late>>
      /\ reaper \in Reaper /\ (reaper.pc # "idle" => reaper.sess \in Sessions)
      /\ BoxesKept
  BY DEF IInv, Kill, TypeOK, Exists, WellFormed, BoxesKept
<1>2. CASE Become(t, "kill", op, s, rows[s].container, None) /\ UNCHANGED rows
  <2>1. "kill" \in Pcs /\ op \in AllOps \cup {"none"} /\ rows[s].container \in Ids
        /\ None \in PortOrNone
    BY <1>1 DEF Pcs, AllOps, Killers, Row, PortOrNone
  <2>2. /\ task' \in [Tasks -> Task]
        /\ task'[t] = [pc |-> "kill", op |-> op, sess |-> s, box |-> rows[s].container,
                       port |-> None]
        /\ \A u \in Tasks \ {t} : task'[u] = task[u]
    BY <1>1, <1>2, <2>1, BecomeTask
  <2>3. rows' \in [Sessions -> Row]
    BY <1>1, <1>2 DEF TypeOK
  <2>4. QED
    BY <1>1, <1>2, <2>2, <2>3, KillersRest
<1>3. CASE Finish(op, s) /\ UNCHANGED task
  <2>1. /\ rows' \in [Sessions -> Row]
        /\ \A x \in Sessions \ {s} : rows'[x] = rows[x]
        /\ rows'[s] = rows[s] \/ rows'[s].container = None
        /\ rows'[s].status # "new"
    BY <1>1, <1>3, FinishRow
  <2>2. task' \in [Tasks -> Task]
    BY <1>1, <1>3 DEF TypeOK
  <2>3. QED
    BY <1>1, <1>3, <2>1, <2>2, KillersRest
<1>4. QED
  BY <1>2, <1>3 DEF Kill

\* docker has stopped or removed the container: the row is written.
LEMMA KilledStep == ASSUME IInv, NEW t \in Tasks, Killed(t) PROVE IInv'
<1> DEFINE s == task[t].sess
<1>1. /\ TypeOK /\ boot.phase = "up" /\ task[t].pc = "killed" /\ s \in Sessions
      /\ task[t].op \in Killers /\ rows[s].status # "new"
      /\ Cleared(task[t].op, s, task[t].box) /\ Finish(task[t].op, s) /\ Return(t)
      /\ UNCHANGED <<runs, lock, slot, inFlight, reaper, boot, crashes, late>>
      /\ reaper \in Reaper /\ (reaper.pc # "idle" => reaper.sess \in Sessions)
  BY DEF IInv, Killed, TypeOK, WellFormed, QuietInv, Cleared
<1>2. /\ rows' \in [Sessions -> Row]
      /\ \A x \in Sessions \ {s} : rows'[x] = rows[x]
      /\ rows'[s] = rows[s] \/ rows'[s].container = None
      /\ rows'[s].status # "new"
      /\ rows[s].status = "deleted" => rows'[s].status = "deleted"
  BY <1>1, FinishRow
<1>3. /\ task' \in [Tasks -> Task] /\ task'[t].pc = "idle"
      /\ \A u \in Tasks \ {t} : task'[u] = task[u]
  BY <1>1, ReturnTask DEF IdleTask
<1>4. BoxesKept
  BY <1>1, ClearedBoxes
<1>5. QED
  BY <1>1, <1>2, <1>3, <1>4, KillersRest

\* The sweep goes on to a session, or ends.
LEMMA ReapFromType ==
    ASSUME TypeOK, NEW todo \in SUBSET Sessions, ReapFrom(todo)
    PROVE  reaper' \in Reaper /\ (reaper'.pc # "idle" => reaper'.sess \in Sessions)
<1>1. CASE reaper' = IdleReaper
  BY <1>1, IdleType DEF IdleReaper
<1>2. CASE reaper' # IdleReaper
  <2>1. PICK s \in todo, rest \in SUBSET todo :
           reaper' = [pc |-> "kill", sess |-> s, box |-> rows[s].container, todo |-> rest]
    BY <1>2 DEF ReapFrom
  <2>2. rows[s].container \in Ids /\ s \in Sessions
    BY DEF TypeOK, Row
  <2>3. QED
    BY <2>1, <2>2 DEF Reaper
<1>3. QED
  BY <1>1, <1>2

\* The sweep begins, or goes on after a docker stop.
LEMMA ReaperStepStep == ASSUME IInv, ReapIdle \/ Reaped PROVE IInv'
<1>1. CASE ReapIdle
  <2>1. /\ TypeOK /\ boot.phase = "up"
        /\ UNCHANGED <<rows, boxes, runs, lock, slot, inFlight, task, boot, crashes, late>>
        /\ rows' \in [Sessions -> Row] /\ task' \in [Tasks -> Task] /\ BoxesKept
    BY <1>1 DEF IInv, TypeOK, ReapIdle, BoxesKept
  <2>2. reaper' \in Reaper /\ (reaper'.pc # "idle" => reaper'.sess \in Sessions)
    BY <1>1, <2>1, ReapFromType DEF ReapIdle
  <2>3. QED
    BY <2>1, <2>2, KillersRest
<1>2. CASE Reaped
  <2>1. /\ TypeOK /\ boot.phase = "up" /\ reaper.sess \in Sessions
        /\ UNCHANGED <<runs, lock, slot, inFlight, task, boot, crashes, late>>
        /\ task' \in [Tasks -> Task] /\ reaper.todo \in SUBSET Sessions
        /\ ReapFrom(reaper.todo) /\ Finish("stop", reaper.sess)
        /\ Cleared("stop", reaper.sess, reaper.box)
    BY <1>2 DEF IInv, TypeOK, Reaped, WellFormed, QuietInv, Reaper, Cleared
  <2>2. reaper' \in Reaper /\ (reaper'.pc # "idle" => reaper'.sess \in Sessions)
    BY <2>1, ReapFromType
  <2>3. "stop" \in Killers
    BY DEF Killers
  <2>4. BoxesKept
    BY <2>1, ClearedBoxes
  <2>5. QED
    BY <2>1, <2>2, <2>3, <2>4, FinishRow, KillersRest
<1>3. QED
  BY <1>1, <1>2

\* A docker run that outlived its frame-main makes a box nobody waits for.
LEMMA LateRunStep == ASSUME IInv, IdsInv, NEW r \in late, LateRun(r) PROVE IInv'
<1>1. /\ TypeOK /\ r \in Run /\ late' \in SUBSET Run /\ runs \in Nat /\ boot \in Boot
      /\ UNCHANGED <<rows, lock, slot, inFlight, task, reaper, boot, crashes>>
  BY DEF IInv, LateRun, TypeOK, Ids
<1>2. WellFormed' /\ QuietInv' /\ GoneInv' /\ RowInv' /\ InFlightHasTurn'
  BY <1>1 DEF IInv, WellFormed, QuietInv, GoneInv, RowInv, InFlightHasTurn, Exists
<1>3. QueueInv' /\ HolderInv'
  BY <1>1 DEF IInv, QueueInv, HolderInv
<1>4. CASE UNCHANGED <<boxes, runs>>
  <2>1. TypeOK' /\ BoxesKept
    BY <1>1, <1>4 DEF TypeOK, BoxesKept
  <2>2. BoxInv'
    BY <1>1, <2>1, BoxFrame DEF IInv
  <2>3. RowNamesItsBox' /\ ProxyReachesOwnApp' /\ RecoveryAccountsForBoxes'
    BY <1>1, <1>4 DEF IInv, RowNamesItsBox, ProxyReachesOwnApp, RecoveryAccountsForBoxes
  <2>4. QED
    BY <1>2, <1>3, <2>1, <2>2, <2>3 DEF IInv
<1>5. CASE /\ runs < MaxRuns
           /\ runs' = runs + 1
           /\ boxes' = [boxes EXCEPT ![r.sess] = NewBox(runs + 1, r.port, TRUE)]
  <2> DEFINE s == r.sess
             box == NewBox(runs + 1, r.port, TRUE)
  <2>1. s \in Sessions /\ runs + 1 \in Ids /\ box \in Box
    BY <1>1, <1>5, BoundsAssumption DEF Ids, Box, NewBox, Run
  <2>2. box.id = runs + 1 /\ box.stray
    BY DEF NewBox
  <2>3. /\ boxes' \in [Sessions -> Box]
        /\ boxes'[s] = box
        /\ \A x \in Sessions \ {s} : boxes'[x] = boxes[x]
    BY <1>1, <1>5, <2>1 DEF TypeOK
  <2> HIDE DEF box
  <2>4. TypeOK'
    BY <1>1, <1>5, <2>1, <2>3 DEF TypeOK
  <2>5. /\ \A x \in Sessions : rows[x].container \in Nat /\ rows[x].container <= runs
        /\ \A u \in Tasks : task[u].box \in Nat
        /\ boot.listed \in Nat /\ boot.listed <= runs
    BY <1>1 DEF IdsInv, TypeOK, Row, Task, Boot, Ids
  <2>6. BoxInv'
    <3>1. \A x \in Sessions : boxes'[x] # NoBox => boxes'[x].id # None
      BY <1>1, <2>2, <2>3 DEF IInv, BoxInv
    <3>2. ASSUME NEW u \in Tasks, task'[u].pc = "ran"
          PROVE  /\ task'[u].box # None
                 /\ boxes'[task'[u].sess] # NoBox => OwnBox(u, boxes[task[u].sess])'
      <4>1. /\ task'[u] = task[u] /\ task[u].sess \in Sessions /\ task[u].box <= runs
            /\ task[u].box # None
            /\ boxes[task[u].sess] # NoBox => OwnBox(u, boxes[task[u].sess])
        BY <1>1, <3>2 DEF IInv, IdsInv, WellFormed, BoxInv
      <4>2. CASE task[u].sess = s
        BY <1>1, <2>2, <2>3, <2>5, <4>1, <4>2 DEF OwnBox
      <4>3. CASE task[u].sess # s
        BY <2>3, <4>1, <4>3 DEF OwnBox
      <4>4. QED
        BY <4>2, <4>3
    <3>3. QED
      BY <3>1, <3>2 DEF BoxInv
  <2>7. RowNamesItsBox'
    BY <1>1, <2>2, <2>3 DEF IInv, RowNamesItsBox
  <2>8. ProxyReachesOwnApp'
    BY <1>1, <2>2, <2>3, <2>5 DEF IInv, ProxyReachesOwnApp
  <2>9. RecoveryAccountsForBoxes'
    BY <1>1, <2>2, <2>3, <2>5 DEF IInv, RecoveryAccountsForBoxes
  <2>10. QED
    BY <1>2, <1>3, <2>4, <2>6, <2>7, <2>8, <2>9 DEF IInv
<1>6. QED
  BY <1>4, <1>5 DEF LateRun

----------------------------------------------------------------------------
(* The theorems *)

\* Every step keeps the invariant.
LEMMA NextIInv == IInv /\ IdsInv /\ [Next]_vars => IInv'
<1> SUFFICES ASSUME IInv, IdsInv, [Next]_vars PROVE IInv'
  OBVIOUS
<1>1. ASSUME NEW t \in Tasks, Request(t) PROVE IInv'
  BY <1>1, EnsureRunningStep, KillStep DEF Request
<1>2. ASSUME NEW t \in Tasks, TaskStep(t) PROVE IInv'
  <2>1. CASE StartTurn(t)
    BY <2>1, StartTurnStep
  <2>2. CASE EndTurn(t) \/ AbortTurn(t)
    BY <2>2, LeaveTurnStep DEF EndTurn, AbortTurn
  <2>3. CASE LockGranted(t)
    BY <2>3, LockGrantedStep
  <2>4. CASE DockerRun(t)
    BY <2>4, DockerRunStep
  <2>5. CASE Provisioned(t)
    BY <2>5, ProvisionedStep
  <2>6. CASE ProvisionFailed(t)
    BY <2>6, ProvisionFailedStep
  <2>7. CASE DockerKilled(t)
    BY <2>7, DockerKilledStep
  <2>8. CASE Killed(t)
    BY <2>8, KilledStep
  <2>9. QED
    BY <1>2, <2>1, <2>2, <2>3, <2>4, <2>5, <2>6, <2>7, <2>8 DEF TaskStep
<1>3. ASSUME NEW s \in Sessions, World(s) PROVE IInv'
  BY <1>3, CreateStep, PatchStep, HarnessSpeaksStep, AgeStep, BoxDiesStep DEF World
<1>4. CASE ReaperStep
  BY <1>4, ReaperStepStep, ReapKilledStep DEF ReaperStep
<1>5. CASE BootStep
  BY <1>5, RecoverStep, RemoveOrphanStep, ServeStep DEF BootStep
<1>6. CASE Crash
  BY <1>6, CrashStep
<1>7. CASE UNCHANGED vars
  <2>1. TypeOK' /\ WellFormed' /\ QueueInv' /\ HolderInv'
    BY <1>7 DEF vars, IInv, TypeOK, WellFormed, QueueInv, HolderInv
  <2>2. RowInv' /\ BoxInv' /\ QuietInv' /\ GoneInv'
    BY <1>7 DEF vars, IInv, RowInv, BoxInv, OwnBox, QuietInv, GoneInv
  <2>3. RowNamesItsBox' /\ ProxyReachesOwnApp' /\ RecoveryAccountsForBoxes' /\ InFlightHasTurn'
    BY <1>7 DEF vars, IInv, RowNamesItsBox, ProxyReachesOwnApp, RecoveryAccountsForBoxes,
                InFlightHasTurn, Exists
  <2>4. QED
    BY <2>1, <2>2, <2>3 DEF IInv
<1>8. ASSUME NEW r \in late, LateRun(r) PROVE IInv'
  BY <1>8, LateRunStep
<1>9. QED
  BY <1>1, <1>2, <1>3, <1>4, <1>5, <1>6, <1>7, <1>8 DEF Next

\* A container id is written to a row or taken by a handler only when docker
\* has given it out.
IdsKept ==
    /\ runs <= runs'
    /\ \A x \in Sessions : \/ rows'[x].container = rows[x].container
                          \/ rows'[x].container = None
                          \/ \E t \in Tasks : /\ task[t].pc = "ran"
                                              /\ rows'[x].container = task[t].box
    /\ \A t \in Tasks : task'[t].pc = "ran" =>
          task'[t] = task[t] \/ task'[t].box = runs'
    /\ boot'.listed \in {boot.listed, 0, runs}

\* What a handler does when it is resumed keeps ids known.
LEMMA TaskStepIds == ASSUME IInv, NEW t \in Tasks, TaskStep(t) PROVE IdsKept
<1>1. /\ rows \in [Sessions -> Row] /\ task \in [Tasks -> Task] /\ runs \in Nat
      /\ TypeOK
  BY DEF IInv, TypeOK, Ids
<1>2. CASE StartTurn(t) \/ LockGranted(t)
  <2>1. UNCHANGED <<rows, runs, boot>>
    BY <1>2 DEF StartTurn, LockGranted
  <2>2. \A u \in Tasks : task'[u].pc = "ran" => task'[u] = task[u]
    BY <1>1, <1>2 DEF StartTurn, RunTurn, LockGranted, Continue, EnterTurn, Provision, Become,
                      Return, IdleTask
  <2>3. QED
    BY <1>1, <2>1, <2>2 DEF IdsKept
<1>3. CASE EndTurn(t) \/ AbortTurn(t)
  <2>1. UNCHANGED <<runs, boot>> /\ \A u \in Tasks : task'[u].pc = "ran" => task'[u] = task[u]
    BY <1>1, <1>3 DEF EndTurn, AbortTurn, LeaveTurn, Return, IdleTask
  <2>2. \A x \in Sessions : rows'[x].container = rows[x].container
    BY <1>1, <1>3 DEF EndTurn, AbortTurn, LeaveTurn, Update, Row
  <2>3. QED
    BY <1>1, <2>1, <2>2 DEF IdsKept
<1>4. CASE DockerRun(t)
  <2>1. UNCHANGED <<rows, boot>> /\ runs' \in {runs, runs + 1}
    BY <1>4 DEF DockerRun
  <2>2. \A u \in Tasks : task'[u].pc = "ran" => task'[u] = task[u] \/ task'[u].box = runs'
    <3>1. CASE task' = [task EXCEPT ![t].pc = "failed"]
      BY <1>1, <3>1 DEF Task
    <3>2. CASE task' = [task EXCEPT ![t].pc = "ran", ![t].box = runs + 1] /\ runs' = runs + 1
      BY <1>1, <3>2 DEF Task
    <3>3. QED
      BY <1>4, <3>1, <3>2 DEF DockerRun
  <2>3. runs <= runs'
    BY <1>1, <2>1
  <2>4. QED
    BY <2>1, <2>2, <2>3 DEF IdsKept
<1>5. CASE Provisioned(t)
  <2>1. /\ UNCHANGED <<runs, boot>>
        /\ \A u \in Tasks : task'[u].pc = "ran" => task'[u] = task[u]
    BY <1>1, <1>5 DEF Provisioned, Continue, EnterTurn, RunTurn, Become, Return, IdleTask
  <2>2. \A x \in Sessions : \/ rows'[x].container = rows[x].container
                           \/ rows'[x].container = task[t].box
    BY <1>1, <1>5 DEF Provisioned, Update, Row
  <2>3. task[t].pc = "ran"
    BY <1>5 DEF Provisioned
  <2>4. QED
    BY <1>1, <2>1, <2>2, <2>3 DEF IdsKept
<1>6. CASE ProvisionFailed(t) \/ DockerKilled(t)
  <2>1. UNCHANGED <<rows, runs, boot>>
    BY <1>6 DEF ProvisionFailed, DockerKilled
  <2>2. \A u \in Tasks : task'[u].pc = "ran" => task'[u] = task[u]
    BY <1>1, <1>6 DEF ProvisionFailed, DockerKilled, Return, IdleTask, Task
  <2>3. QED
    BY <1>1, <2>1, <2>2 DEF IdsKept
<1>7. CASE Killed(t)
  <2>1. /\ UNCHANGED <<runs, boot>>
        /\ \A u \in Tasks : task'[u].pc = "ran" => task'[u] = task[u]
    BY <1>1, <1>7 DEF Killed, Return, IdleTask
  <2>2. task[t].sess \in Sessions /\ task[t].op \in Killers /\ Finish(task[t].op, task[t].sess)
    BY <1>7 DEF IInv, WellFormed, Killed, Cleared
  <2>3. \A x \in Sessions : rows'[x] = rows[x] \/ rows'[x].container = None
    BY <1>1, <2>2, FinishRow
  <2>4. QED
    BY <1>1, <2>1, <2>3 DEF IdsKept
<1>8. QED
  BY <1>2, <1>3, <1>4, <1>5, <1>6, <1>7 DEF TaskStep

\* So does every step.
LEMMA NextIdsKept == IInv /\ [Next]_vars => IdsKept
<1> SUFFICES ASSUME IInv, [Next]_vars PROVE IdsKept
  OBVIOUS
<1>1. /\ rows \in [Sessions -> Row] /\ task \in [Tasks -> Task] /\ runs \in Nat
      /\ TypeOK
  BY DEF IInv, TypeOK, Ids
<1>2. ASSUME UNCHANGED <<runs, boot, task>>,
             \A x \in Sessions : \/ rows'[x].container = rows[x].container
                                \/ rows'[x].container = None
      PROVE  IdsKept
  BY <1>1, <1>2 DEF IdsKept
<1>3. ASSUME NEW t \in Tasks, Request(t) PROVE IdsKept
  <2>1. PICK s \in Sessions, op \in Ops : EnsureRunning(t, op, s) \/ Kill(t, op, s)
    BY <1>3 DEF Request
  <2>2. /\ UNCHANGED <<runs, boot>>
        /\ \A u \in Tasks : task'[u].pc = "ran" => task'[u] = task[u]
    BY <1>1, <2>1 DEF EnsureRunning, Kill, Continue, EnterTurn, RunTurn, Provision, Become,
                      Return, IdleTask
  <2>3. \A x \in Sessions : \/ rows'[x].container = rows[x].container
                           \/ rows'[x].container = None
    <3>1. CASE UNCHANGED rows
      BY <3>1
    <3>2. CASE op \in Killers /\ Finish(op, s)
      BY <1>1, <3>2, FinishRow
    <3>3. QED
      BY <2>1, <3>1, <3>2 DEF EnsureRunning, Kill
  <2>4. QED
    BY <1>1, <2>2, <2>3 DEF IdsKept
<1>4. ASSUME NEW s \in Sessions, World(s) PROVE IdsKept
  <2>1. UNCHANGED <<runs, boot, task>>
    BY <1>4 DEF World, Create, Patch, HarnessSpeaks, Age, BoxDies
  <2>2. \A x \in Sessions : rows'[x].container = rows[x].container
    <3>1. CASE UNCHANGED rows
      BY <3>1
    <3>2. CASE \/ rows' = [rows EXCEPT ![s].status = "active"]
               \/ rows' = [rows EXCEPT ![s].stale = TRUE]
      BY <1>1, <3>2 DEF Row
    <3>3. CASE Update(s, rows[s])
      BY <1>1, <3>3 DEF Update, Row
    <3>4. CASE \E status \in {"active", "archived"} : Update(s, [rows[s] EXCEPT !.status = status])
      BY <1>1, <3>4 DEF Update, Row
    <3>5. QED
      BY <1>4, <3>1, <3>2, <3>3, <3>4 DEF World, Create, Patch, HarnessSpeaks, Age, BoxDies
  <2>3. QED
    BY <1>2, <2>1, <2>2
<1>5. CASE ReaperStep
  <2>1. UNCHANGED <<runs, boot, task>>
    BY <1>5 DEF ReaperStep, ReapIdle, ReapKilled, Reaped
  <2>2. CASE UNCHANGED rows
    BY <1>2, <2>1, <2>2
  <2>3. CASE Reaped
    <3>1. reaper.sess \in Sessions /\ "stop" \in Killers /\ Finish("stop", reaper.sess)
      BY <2>3 DEF IInv, WellFormed, Reaped, Cleared, Killers
    <3>2. \A x \in Sessions : rows'[x] = rows[x] \/ rows'[x].container = None
      BY <1>1, <3>1, FinishRow
    <3>3. QED
      BY <1>2, <2>1, <3>2
  <2>4. QED
    BY <1>5, <2>2, <2>3 DEF ReaperStep, ReapIdle, ReapKilled
<1>6. CASE BootStep
  <2>1. boot \in Boot
    BY <1>1 DEF TypeOK
  <2>2. CASE Recover
    <3> DEFINE claimed == {s \in Sessions : Exists(s) /\ rows[s].container # None}
    <3>5. RecoverWith(claimed)
      BY <2>2 DEF Recover
    <3> HIDE DEF claimed
    <3>6. PICK ok \in BOOLEAN :
             LET live == IF ok THEN {s \in Sessions : boxes[s] # NoBox} ELSE {} IN
             /\ rows' = [s \in Sessions |->
                           IF s \in claimed \ live
                           THEN [rows[s] EXCEPT !.container = None, !.port = None, !.stale = FALSE]
                           ELSE rows[s]]
             /\ boot' = [phase |-> "removing", orphans |-> live \ claimed, clean |-> ok,
                         listed |-> runs]
      BY <3>5 DEF RecoverWith
    <3>1. UNCHANGED <<runs, task>> /\ boot'.listed = runs
      BY <3>5, <3>6 DEF RecoverWith
    <3>3. \A x \in Sessions : \/ rows'[x].container = rows[x].container
                             \/ rows'[x].container = None
      BY <1>1, <3>6 DEF Row
    <3>4. QED
      BY <1>1, <3>1, <3>3 DEF IdsKept
  <2>3. CASE Serve \/ \E s \in Sessions : RemoveOrphan(s)
    <3>1. UNCHANGED <<runs, task, rows>>
      BY <2>3 DEF RemoveOrphan, Serve
    <3>2. boot'.listed = boot.listed
      <4>1. CASE Serve
        BY <2>1, <4>1 DEF Serve, Boot
      <4>2. CASE \E s \in Sessions : RemoveOrphan(s)
        BY <2>1, <4>2 DEF RemoveOrphan, Boot
      <4>3. QED
        BY <2>3, <4>1, <4>2
    <3>3. QED
      BY <1>1, <3>1, <3>2 DEF IdsKept
  <2>4. QED
    BY <1>6, <2>2, <2>3 DEF BootStep
<1>7. CASE Crash
  BY <1>1, <1>7 DEF Crash, IdsKept, IdleTask
<1>8. ASSUME NEW r \in late, LateRun(r) PROVE IdsKept
  <2>1. UNCHANGED <<rows, task, boot>> /\ runs' \in {runs, runs + 1}
    BY <1>8 DEF LateRun
  <2>2. \A t \in Tasks : task'[t].pc = "ran" => task'[t] = task[t]
    BY <2>1
  <2>3. QED
    BY <1>1, <2>1, <2>2 DEF IdsKept
<1>9. CASE UNCHANGED vars
  BY <1>2, <1>9 DEF vars
<1>10. QED
  BY <1>3, <1>4, <1>5, <1>6, <1>7, <1>8, <1>9, TaskStepIds DEF Next

\* The ids of containers stay those of past runs.
LEMMA NextIds == IInv /\ IdsInv /\ [Next]_vars => IdsInv'
<1> SUFFICES ASSUME IInv, IdsInv, [Next]_vars PROVE IdsInv'
  OBVIOUS
<1>1. IdsKept /\ IInv'
  BY NextIdsKept, NextIInv
<1>2. /\ \A x \in Sessions : rows[x].container \in Nat /\ rows'[x].container \in Nat
      /\ \A t \in Tasks : task[t].box \in Nat /\ task'[t].box \in Nat
      /\ boot.listed \in Nat /\ boot'.listed \in Nat /\ runs \in Nat /\ runs' \in Nat
  BY <1>1 DEF IInv, TypeOK, Row, Task, Boot, Ids
<1>3. \A x \in Sessions : rows'[x].container <= runs'
  BY <1>1, <1>2 DEF IdsKept, IdsInv
<1>4. \A t \in Tasks : task'[t].pc = "ran" => task'[t].box <= runs'
  BY <1>1, <1>2 DEF IdsKept, IdsInv
<1>5. boot'.listed <= runs'
  BY <1>1, <1>2 DEF IdsKept, IdsInv
<1>6. QED
  BY <1>3, <1>4, <1>5 DEF IdsInv

\* The invariant holds in every reachable state.
THEOREM Invariance == Spec => []IInv
<1>1. Init => IdsInv
  BY BoundsAssumption DEF Init, IdleTask, IdsInv
<1>2. Spec => [](IInv /\ IdsInv)
  BY <1>1, InitIInv, NextIInv, NextIds, PTL DEF Spec
<1>3. QED
  BY <1>2, PTL

\* Two handlers at docker run for one session would both be first in the
\* queue of its lock.
LEMMA HoldersApart == IInv => NoDoubleSpawn
<1> SUFFICES ASSUME IInv, NEW s \in Sessions, NEW t \in Tasks, Provisioning(t, s)
             PROVE  /\ rows[s].container = None
                    /\ \A u \in Tasks \ {t} : ~Provisioning(u, s)
  BY DEF NoDoubleSpawn
<1>1. rows[s].container = None
  BY DEF IInv, RowInv, Provisioning, Locking
<1>2. \A u \in Tasks : Provisioning(u, s) => lock[s][1] = u
  BY DEF IInv, HolderInv, Provisioning, Locking
<1>3. QED
  BY <1>1, <1>2

\* The state of the lifecycle is well typed: no port outside the range is
\* ever given out, and only rows, handlers and boxes of known kinds arise.
THEOREM TypeCorrect == Spec => []TypeOK
<1>1. IInv => TypeOK
  BY DEF IInv
<1>2. QED
  BY <1>1, Invariance, PTL

\* However many turns and starts overlap, one handler at a time provisions a
\* session, and only while its row names no container (l.115-138).
THEOREM SingleProvisioning == Spec => []NoDoubleSpawn
BY HoldersApart, Invariance, PTL

\* A row names the container docker runs for its session, or none, or one
\* that is gone, unless the container running in its place came of a `docker
\* run` that outlived a restart: what recover() may rely on (l.395).
THEOREM RowsMatchBoxes == Spec => []RowNamesItsBox
<1>1. IInv => RowNamesItsBox
  BY DEF IInv
<1>2. QED
  BY <1>1, Invariance, PTL

\* The app proxy never reaches another session's application (l.332).
THEOREM ProxyIsolation == Spec => []ProxyReachesOwnApp
<1>1. IInv => ProxyReachesOwnApp
  BY DEF IInv
<1>2. QED
  BY <1>1, Invariance, PTL

\* A crash at any point leaves no container that recovery, if docker
\* answers it, neither adopts nor removes (l.375-404), but those of a `docker
\* run` that the crash did not stop: carried out behind recovery's listing,
\* or adopted by their label under a row that names another container.
THEOREM RecoveryComplete == Spec => []RecoveryAccountsForBoxes
<1>1. IInv => RecoveryAccountsForBoxes
  BY DEF IInv
<1>2. QED
  BY <1>1, Invariance, PTL

\* No turn leaves its mark behind to keep the reaper away (l.246).
THEOREM MarksAreCleared == Spec => []InFlightHasTurn
<1>1. IInv => InFlightHasTurn
  BY DEF IInv
<1>2. QED
  BY <1>1, Invariance, PTL

----------------------------------------------------------------------------
(* The semaphore *)

Waits(sl, t) == \E i \in 1 .. Len(sl.waiters) : sl.waiters[i] = t

\* What asyncio's semaphore guarantees by itself: no more holders than slots,
\* nobody waiting while one is free, each handler in it once.
Semaphore(sl) ==
    /\ sl \in SlotType
    /\ IsFiniteSet(sl.holders)
    /\ Cardinality(sl.holders) <= Slots
    /\ sl.waiters # <<>> => Cardinality(sl.holders) = Slots
    /\ \A i, j \in 1 .. Len(sl.waiters) : sl.waiters[i] = sl.waiters[j] => i = j
    /\ \A i \in 1 .. Len(sl.waiters) : sl.waiters[i] \notin sl.holders

\* What a handler at pc has of the semaphore.
Keeps(sl, t, pc) ==
    /\ t \in sl.holders => pc \in Locking \cup {"turnwait", "turn"}
    /\ Waits(sl, t) => pc \in {"run", "turnwait"}
    /\ pc \in {"ran", "failed", "turn"} => t \in sl.holders
    /\ pc \in {"run", "turnwait"} => t \in sl.holders \/ Waits(sl, t)

SlotInv == Semaphore(slot) /\ \A t \in Tasks : Keeps(slot, t, task[t].pc)

\* Between sl and next only t came or went: who else held a slot still does,
\* and who else waited does, or was given one.
OthersStay(sl, next, t) ==
    \A u \in Tasks \ {t} :
        /\ u \in sl.holders => u \in next.holders
        /\ Waits(next, u) => Waits(sl, u)
        /\ u \in next.holders \/ Waits(next, u) <=> u \in sl.holders \/ Waits(sl, u)

\* Who waits in a queue that grew by one.
LEMMA AppendWaits ==
    ASSUME NEW q \in Seq(Tasks), NEW t \in Tasks, NEW u
    PROVE  (\E i \in 1 .. Len(Append(q, t)) : Append(q, t)[i] = u) <=>
              u = t \/ \E i \in 1 .. Len(q) : q[i] = u
<1>1. /\ Len(Append(q, t)) = Len(q) + 1
      /\ \A i \in 1 .. Len(q) : Append(q, t)[i] = q[i]
      /\ Append(q, t)[Len(q) + 1] = t
      /\ Len(q) \in Nat
  BY AppendProperties
<1>2. 1 .. (Len(q) + 1) = 1 .. Len(q) \cup {Len(q) + 1}
  BY <1>1
<1>3. QED
  BY <1>1, <1>2

\* Who waits in a queue whose first has left.
LEMMA TailWaits ==
    ASSUME NEW q \in Seq(Tasks), q # <<>>, NEW u
    PROVE  (\E i \in 1 .. Len(q) : q[i] = u) <=>
              u = Head(q) \/ \E i \in 1 .. Len(Tail(q)) : Tail(q)[i] = u
<1>1. /\ Len(Tail(q)) = Len(q) - 1
      /\ \A i \in 1 .. Len(Tail(q)) : Tail(q)[i] = q[i + 1]
      /\ Len(q) \in Nat \ {0}
      /\ Head(q) = q[1]
  BY HeadTailProperties, EmptySeq
<1>2. ASSUME NEW i \in 1 .. Len(q), q[i] = u
      PROVE  u = Head(q) \/ \E k \in 1 .. Len(Tail(q)) : Tail(q)[k] = u
  <2>1. CASE i = 1
    BY <1>1, <1>2, <2>1
  <2>2. CASE i # 1
    <3>1. i - 1 \in 1 .. Len(Tail(q)) /\ (i - 1) + 1 = i
      BY <1>1, <2>2
    <3>2. Tail(q)[i - 1] = u
      BY <1>1, <1>2, <3>1
    <3>3. QED
      BY <3>1, <3>2
  <2>3. QED
    BY <2>1, <2>2
<1>3. ASSUME NEW i \in 1 .. Len(Tail(q)), Tail(q)[i] = u
      PROVE  \E k \in 1 .. Len(q) : q[k] = u
  <2>1. i + 1 \in 1 .. Len(q) /\ q[i + 1] = u
    BY <1>1, <1>3
  <2>2. QED
    BY <2>1
<1>4. 1 \in 1 .. Len(q)
  BY <1>1
<1>5. QED
  BY <1>1, <1>2, <1>3, <1>4

\* Taking a slot, or queueing for one, keeps the semaphore's promise.
LEMMA AcquireSemaphore ==
    ASSUME NEW sl, Semaphore(sl), NEW t \in Tasks, t \notin sl.holders, ~Waits(sl, t)
    PROVE  /\ Semaphore(Acquire(sl, t))
           /\ OthersStay(sl, Acquire(sl, t), t)
           /\ t \in Acquire(sl, t).holders <=> ~Waits(Acquire(sl, t), t)
<1>1. sl \in SlotType /\ IsFiniteSet(sl.holders) /\ Cardinality(sl.holders) \in Nat
  BY FS_CardinalityType DEF Semaphore
<1>2. CASE Cardinality(sl.holders) < Slots /\ sl.waiters = <<>>
  <2>1. Acquire(sl, t) = [sl EXCEPT !.holders = @ \cup {t}]
    BY <1>2 DEF Acquire
  <2>2. /\ Acquire(sl, t).holders = sl.holders \cup {t}
        /\ Acquire(sl, t).waiters = <<>>
    BY <1>1, <1>2, <2>1 DEF SlotType
  <2>3. /\ IsFiniteSet(sl.holders \cup {t})
        /\ Cardinality(sl.holders \cup {t}) = Cardinality(sl.holders) + 1
    BY <1>1, FS_AddElement
  <2>4. Cardinality(sl.holders \cup {t}) <= Slots
    BY <1>1, <1>2, <2>3, SlotsAssumption
  <2>5. \A u : ~Waits(Acquire(sl, t), u) /\ ~Waits(sl, u)
    BY <1>2, <2>2 DEF Waits
  <2>6. Semaphore(Acquire(sl, t))
    BY <1>1, <2>2, <2>3, <2>4, AcquireType DEF Semaphore
  <2>7. QED
    BY <2>2, <2>5, <2>6 DEF OthersStay
<1>3. CASE ~(Cardinality(sl.holders) < Slots /\ sl.waiters = <<>>)
  <2>1. Acquire(sl, t) = [sl EXCEPT !.waiters = Append(@, t)]
    BY <1>3 DEF Acquire
  <2>2. /\ Acquire(sl, t).holders = sl.holders
        /\ Acquire(sl, t).waiters = Append(sl.waiters, t)
        /\ sl.waiters \in Seq(Tasks)
    BY <1>1, <2>1 DEF SlotType
  <2>3. Cardinality(sl.holders) = Slots
    BY <1>1, <1>3, SlotsAssumption DEF Semaphore
  <2>4. /\ Len(Append(sl.waiters, t)) = Len(sl.waiters) + 1
        /\ \A i \in 1 .. Len(sl.waiters) : Append(sl.waiters, t)[i] = sl.waiters[i]
        /\ Append(sl.waiters, t)[Len(sl.waiters) + 1] = t
        /\ Len(sl.waiters) \in Nat
    BY <2>2, AppendProperties
  <2>5. \A u : Waits(Acquire(sl, t), u) <=> u = t \/ Waits(sl, u)
    BY <2>2, AppendWaits DEF Waits
  <2>6. \A i, j \in 1 .. Len(Append(sl.waiters, t)) :
           Append(sl.waiters, t)[i] = Append(sl.waiters, t)[j] => i = j
    <3>1. SUFFICES ASSUME NEW i \in 1 .. Len(sl.waiters) + 1, NEW j \in 1 .. Len(sl.waiters) + 1,
                          Append(sl.waiters, t)[i] = Append(sl.waiters, t)[j]
                   PROVE  i = j
      BY <2>4
    <3>2. \A k \in 1 .. Len(sl.waiters) : sl.waiters[k] # t
      BY DEF Waits
    <3>3. CASE i \in 1 .. Len(sl.waiters) /\ j \in 1 .. Len(sl.waiters)
      BY <2>4, <3>1, <3>3 DEF Semaphore
    <3>4. CASE i = Len(sl.waiters) + 1 \/ j = Len(sl.waiters) + 1
      BY <2>4, <3>1, <3>2, <3>4
    <3>5. QED
      BY <2>4, <3>3, <3>4
  <2>7. \A i \in 1 .. Len(Append(sl.waiters, t)) : Append(sl.waiters, t)[i] \notin sl.holders
    <3>1. SUFFICES ASSUME NEW i \in 1 .. Len(sl.waiters) + 1
                   PROVE  Append(sl.waiters, t)[i] \notin sl.holders
      BY <2>4
    <3>2. CASE i \in 1 .. Len(sl.waiters)
      BY <2>4, <3>2 DEF Semaphore
    <3>3. CASE i = Len(sl.waiters) + 1
      BY <2>4, <3>3
    <3>4. QED
      BY <2>4, <3>2, <3>3
  <2>8. Semaphore(Acquire(sl, t))
    <3>1. Acquire(sl, t) \in SlotType
      BY <1>1, AcquireType
    <3>2. Cardinality(sl.holders) <= Slots
      BY DEF Semaphore
    <3>3. QED
      BY <1>1, <2>2, <2>3, <2>6, <2>7, <3>1, <3>2 DEF Semaphore
  <2>9. QED
    BY <2>2, <2>5, <2>8 DEF OthersStay
<1>4. QED
  BY <1>2, <1>3

\* So does giving a slot back: the first waiter has it at once.
LEMMA ReleaseSemaphore ==
    ASSUME NEW sl, Semaphore(sl), NEW t \in Tasks, t \in sl.holders
    PROVE  /\ Semaphore(Release(sl, t))
           /\ OthersStay(sl, Release(sl, t), t)
           /\ t \notin Release(sl, t).holders
           /\ ~Waits(Release(sl, t), t)
<1>1. /\ sl \in SlotType /\ IsFiniteSet(sl.holders) /\ Cardinality(sl.holders) \in Nat
      /\ sl.waiters \in Seq(Tasks)
      /\ Cardinality(sl.holders) <= Slots
  BY FS_CardinalityType DEF Semaphore, SlotType
<1>2. /\ IsFiniteSet(sl.holders \ {t})
      /\ Cardinality(sl.holders \ {t}) = Cardinality(sl.holders) - 1
  BY <1>1, FS_RemoveElement
<1>3. ~Waits(sl, t)
  BY DEF Waits, Semaphore
<1>4. Release(sl, t) \in SlotType
  BY <1>1, ReleaseType
<1>5. CASE sl.waiters = <<>>
  <2>1. Release(sl, t) = [sl EXCEPT !.holders = @ \ {t}]
    BY <1>5 DEF Release
  <2>2. /\ Release(sl, t).holders = sl.holders \ {t}
        /\ Release(sl, t).waiters = <<>>
    BY <1>1, <1>5, <2>1 DEF SlotType
  <2>3. Cardinality(sl.holders \ {t}) <= Slots
    BY <1>1, <1>2, SlotsAssumption
  <2>4. \A u : ~Waits(Release(sl, t), u) /\ ~Waits(sl, u)
    BY <1>5, <2>2 DEF Waits
  <2>5. Semaphore(Release(sl, t))
    BY <1>2, <1>4, <2>2, <2>3 DEF Semaphore
  <2>6. QED
    BY <2>2, <2>4, <2>5 DEF OthersStay
<1>6. CASE sl.waiters # <<>>
  <2> DEFINE q == sl.waiters
             h == Head(sl.waiters)
             hs == (sl.holders \ {t}) \cup {h}
  <2>1. Release(sl, t) = [holders |-> hs, waiters |-> Tail(q)]
    BY <1>6 DEF Release
  <2>2. Release(sl, t).holders = hs /\ Release(sl, t).waiters = Tail(q)
    BY <2>1
  <2>3. /\ Len(Tail(q)) = Len(q) - 1
        /\ \A i \in 1 .. Len(Tail(q)) : Tail(q)[i] = q[i + 1]
        /\ Len(q) \in Nat \ {0}
        /\ h = q[1]
    BY <1>1, <1>6, HeadTailProperties, EmptySeq
  <2>4. h \notin sl.holders
    <3>1. 1 \in 1 .. Len(q)
      BY <2>3
    <3>2. QED
      BY <2>3, <3>1 DEF Semaphore
  <2>5. /\ IsFiniteSet(hs)
        /\ Cardinality(hs) = (Cardinality(sl.holders) - 1) + 1
    BY <1>2, <2>4, FS_AddElement
  <2>6. Cardinality(hs) = Cardinality(sl.holders) /\ Cardinality(sl.holders) = Slots
    BY <1>1, <1>6, <2>5 DEF Semaphore
  <2>7. \A u : Waits(sl, u) <=> u = h \/ Waits(Release(sl, t), u)
    BY <1>1, <1>6, <2>2, TailWaits DEF Waits
  <2>8. \A i \in 1 .. Len(Tail(q)) : i + 1 \in 1 .. Len(q) /\ i + 1 # 1
    BY <2>3
  <2>9. \A i, j \in 1 .. Len(Tail(q)) : Tail(q)[i] = Tail(q)[j] => i = j
    <3>1. SUFFICES ASSUME NEW i \in 1 .. Len(Tail(q)), NEW j \in 1 .. Len(Tail(q)),
                          Tail(q)[i] = Tail(q)[j]
                   PROVE  i = j
      OBVIOUS
    <3>2. q[i + 1] = q[j + 1] /\ i + 1 \in 1 .. Len(q) /\ j + 1 \in 1 .. Len(q)
      BY <2>3, <2>8, <3>1
    <3>3. i + 1 = j + 1
      BY <3>2 DEF Semaphore
    <3>4. QED
      BY <2>3, <3>3
  <2>10. \A i \in 1 .. Len(Tail(q)) : Tail(q)[i] \notin hs
    <3>1. SUFFICES ASSUME NEW i \in 1 .. Len(Tail(q)) PROVE Tail(q)[i] \notin hs
      OBVIOUS
    <3>2. Tail(q)[i] = q[i + 1] /\ i + 1 \in 1 .. Len(q) /\ i + 1 # 1 /\ 1 \in 1 .. Len(q)
      BY <2>3, <2>8
    <3>3. q[i + 1] \notin sl.holders /\ q[i + 1] # q[1]
      BY <3>2 DEF Semaphore
    <3>4. QED
      BY <2>3, <3>2, <3>3
  <2>11. ~Waits(Release(sl, t), t) /\ t # h
    BY <1>3, <2>4, <2>7
  <2>12. Semaphore(Release(sl, t))
    BY <1>1, <1>4, <2>2, <2>5, <2>6, <2>9, <2>10 DEF Semaphore
  <2>13. OthersStay(sl, Release(sl, t), t)
    BY <2>2, <2>7, <2>4 DEF OthersStay
  <2>14. QED
    BY <2>2, <2>11, <2>12, <2>13
<1>7. QED
  BY <1>5, <1>6

\* What one handler did and then did again is what it did.
LEMMA OthersStayTwice ==
    ASSUME NEW a, NEW b, NEW c, NEW t, OthersStay(a, b, t), OthersStay(b, c, t)
    PROVE  OthersStay(a, c, t)
BY DEF OthersStay

\* A handler that is in the semaphore in no way is not at a wait or past one.
LEMMA NotInSemaphore ==
    ASSUME SlotInv, NEW t \in Tasks, task[t].pc \in {"idle", "lock", "kill", "killed"}
    PROVE  t \notin slot.holders /\ ~Waits(slot, t) /\ Semaphore(slot)
BY DEF SlotInv, Keeps, Locking

\* The step of one handler keeps the others' places.
LEMMA OneHandlerSlots ==
    ASSUME SlotInv, NEW t \in Tasks, Semaphore(slot'), OthersStay(slot, slot', t),
           Keeps(slot', t, task'[t].pc), \A u \in Tasks \ {t} : task'[u] = task[u]
    PROVE  SlotInv'
<1>1. ASSUME NEW u \in Tasks \ {t} PROVE Keeps(slot', u, task'[u].pc)
  <2>1. Keeps(slot, u, task[u].pc) /\ task'[u] = task[u]
    BY DEF SlotInv
  <2>2. /\ u \in slot.holders => u \in slot'.holders
        /\ Waits(slot', u) => Waits(slot, u)
        /\ u \in slot'.holders \/ Waits(slot', u) <=> u \in slot.holders \/ Waits(slot, u)
    BY DEF OthersStay
  <2>3. QED
    BY <2>1, <2>2 DEF Keeps, Locking
<1>2. QED
  BY <1>1 DEF SlotInv

\* A handler with a slot goes to its turn with it, or raises and gives it back.
LEMMA RunTurnSlots ==
    ASSUME TypeOK, NEW t \in Tasks, NEW s \in Sessions, NEW box \in Ids, NEW sl,
           Semaphore(sl), t \in sl.holders, RunTurn(t, s, box, sl)
    PROVE  Semaphore(slot') /\ OthersStay(sl, slot', t) /\ Keeps(slot', t, task'[t].pc)
<1>1. ~Waits(sl, t)
  BY DEF Semaphore, Waits
<1>2. CASE box # None
  <2>1. Become(t, "turn", "turn", s, box, None) /\ slot' = sl
    BY <1>2 DEF RunTurn
  <2>2. /\ task' \in [Tasks -> Task]
        /\ task'[t] = [pc |-> "turn", op |-> "turn", sess |-> s, box |-> box, port |-> None]
        /\ \A u \in Tasks \ {t} : task'[u] = task[u]
    BY <2>1, BecomeTask DEF Pcs, AllOps, PortOrNone
  <2>3. QED
    BY <1>1, <2>1, <2>2 DEF OthersStay, Keeps
<1>3. CASE box = None
  <2>1. Return(t) /\ slot' = Release(sl, t)
    BY <1>3 DEF RunTurn
  <2>2. task'[t].pc = "idle"
    BY <2>1, ReturnTask DEF IdleTask
  <2>3. QED
    BY <2>1, <2>2, ReleaseSemaphore DEF Keeps
<1>4. QED
  BY <1>2, <1>3

\* A handler with a container and no slot takes one, queues for one, or returns.
LEMMA ContinueSlots ==
    ASSUME TypeOK, NEW t \in Tasks, NEW op, NEW s \in Sessions, NEW box \in Ids, NEW sl,
           Semaphore(sl), t \notin sl.holders, ~Waits(sl, t), Continue(t, op, s, box, sl)
    PROVE  Semaphore(slot') /\ OthersStay(sl, slot', t) /\ Keeps(slot', t, task'[t].pc)
<1>1. CASE op # "turn"
  <2>1. slot' = sl /\ Return(t)
    BY <1>1 DEF Continue
  <2>2. task'[t].pc = "idle"
    BY <2>1, ReturnTask DEF IdleTask
  <2>3. QED
    BY <2>1, <2>2 DEF OthersStay, Keeps
<1>2. CASE op = "turn"
  <2> DEFINE asked == Acquire(sl, t)
  <2>1. /\ Semaphore(asked) /\ OthersStay(sl, asked, t)
        /\ t \in asked.holders <=> ~Waits(asked, t)
    BY AcquireSemaphore
  <2>2. CASE t \in asked.holders
    <3>1. RunTurn(t, s, box, asked)
      BY <1>2, <2>2 DEF Continue, EnterTurn
    <3>2. Semaphore(slot') /\ OthersStay(asked, slot', t) /\ Keeps(slot', t, task'[t].pc)
      BY <2>1, <2>2, <3>1, RunTurnSlots
    <3>3. QED
      BY <2>1, <3>2, OthersStayTwice
  <2>3. CASE t \notin asked.holders
    <3>1. Become(t, "turnwait", "turn", s, box, None) /\ slot' = asked
      BY <1>2, <2>3 DEF Continue, EnterTurn
    <3>2. /\ task' \in [Tasks -> Task]
          /\ task'[t] = [pc |-> "turnwait", op |-> "turn", sess |-> s, box |-> box, port |-> None]
          /\ \A u \in Tasks \ {t} : task'[u] = task[u]
      BY <3>1, BecomeTask DEF Pcs, AllOps, PortOrNone
    <3>3. QED
      BY <2>1, <2>3, <3>1, <3>2 DEF Keeps
  <2>4. QED
    BY <2>2, <2>3
<1>3. QED
  BY <1>1, <1>2

\* A handler that holds the lock goes to docker with a slot or in line for one.
LEMMA ProvisionSlots ==
    ASSUME TypeOK, SlotInv, NEW t \in Tasks, NEW op \in {"start", "turn"}, NEW s \in Sessions,
           task[t].pc \in {"idle", "lock"}, Provision(t, op, s)
    PROVE  SlotInv'
<1>1. t \notin slot.holders /\ ~Waits(slot, t) /\ Semaphore(slot)
  BY NotInSemaphore
<1>2. slot' = Acquire(slot, t)
  BY DEF Provision
<1>3. /\ Semaphore(slot') /\ OthersStay(slot, slot', t)
      /\ t \in slot'.holders <=> ~Waits(slot', t)
  BY <1>1, <1>2, AcquireSemaphore
<1>4. task'[t].pc = "run" /\ \A u \in Tasks \ {t} : task'[u] = task[u]
  BY ProvisionTask
<1>5. Keeps(slot', t, task'[t].pc)
  BY <1>3, <1>4 DEF Keeps, Locking
<1>6. QED
  BY <1>3, <1>4, <1>5, OneHandlerSlots

\* A handler that leaves the semaphore for good keeps nothing of it.
LEMMA LeavingSlots ==
    ASSUME TypeOK, SlotInv, NEW t \in Tasks, task[t].pc \in {"failed", "turn"},
           slot' = Release(slot, t), Return(t)
    PROVE  SlotInv'
<1>1. t \in slot.holders /\ Semaphore(slot)
  BY DEF SlotInv, Keeps
<1>2. /\ Semaphore(slot') /\ OthersStay(slot, slot', t)
      /\ t \notin slot'.holders /\ ~Waits(slot', t)
  BY <1>1, ReleaseSemaphore
<1>3. task'[t].pc = "idle" /\ \A u \in Tasks \ {t} : task'[u] = task[u]
  BY ReturnTask DEF IdleTask
<1>4. Keeps(slot', t, task'[t].pc)
  BY <1>2, <1>3 DEF Keeps
<1>5. QED
  BY <1>2, <1>3, <1>4, OneHandlerSlots

\* Handlers may do what concerns no slot.
LEMMA SlotFrame ==
    ASSUME SlotInv, slot' = slot,
           \A u \in Tasks : \/ task'[u].pc = task[u].pc
                            \/ task[u].pc = "run" /\ u \in slot.holders /\ task'[u].pc \in {"ran", "failed"}
                            \/ /\ task[u].pc \in {"idle", "lock", "kill", "killed"}
                               /\ task'[u].pc \in {"idle", "lock", "kill", "killed"}
    PROVE  SlotInv'
<1>1. SUFFICES ASSUME NEW u \in Tasks PROVE Keeps(slot, u, task'[u].pc)
  BY DEF SlotInv
<1>2. Keeps(slot, u, task[u].pc) /\ (u \in slot.holders => ~Waits(slot, u))
  BY DEF SlotInv, Semaphore, Waits
<1>3. QED
  BY <1>2 DEF Keeps, Locking

----------------------------------------------------------------------------
(* Who waits for a lock is in its queue *)

InLock(s, t) == \E i \in 1 .. Len(lock[s]) : lock[s][i] = t

LockInv == \A t \in Tasks : task[t].pc = "lock" => InLock(task[t].sess, t)

\* Nobody's place is disturbed by who does not touch the queues.
LEMMA LockFrame ==
    ASSUME LockInv, lock' = lock,
           \A u \in Tasks : task'[u].pc = "lock" => task'[u] = task[u]
    PROVE  LockInv'
BY DEF LockInv, InLock

\* Nor by the first one leaving.
LEMMA LockUnlock ==
    ASSUME IInv, LockInv, NEW t \in Tasks, NEW s \in Sessions, lock[s] # <<>>, lock[s][1] = t,
           Unlock(s), task'[t].pc # "lock", \A u \in Tasks \ {t} : task'[u] = task[u]
    PROVE  LockInv'
<1>1. SUFFICES ASSUME NEW u \in Tasks, task'[u].pc = "lock"
               PROVE  \E i \in 1 .. Len(lock'[task'[u].sess]) : lock'[task'[u].sess][i] = u
  BY DEF LockInv, InLock
<1>2. u # t /\ task'[u] = task[u] /\ InLock(task[u].sess, u) /\ task[u].sess \in Sessions
  BY <1>1 DEF LockInv, IInv, WellFormed
<1>3. lock \in [Sessions -> Seq(Tasks)] /\ lock' = [lock EXCEPT ![s] = Tail(lock[s])]
  BY DEF IInv, TypeOK, Unlock
<1>4. CASE task[u].sess # s
  BY <1>2, <1>3, <1>4 DEF InLock
<1>5. CASE task[u].sess = s
  <2>1. lock[s] \in Seq(Tasks) /\ lock'[s] = Tail(lock[s]) /\ Head(lock[s]) = t
    BY <1>3
  <2>2. \E i \in 1 .. Len(lock[s]) : lock[s][i] = u
    BY <1>2, <1>5 DEF InLock
  <2>3. \E i \in 1 .. Len(Tail(lock[s])) : Tail(lock[s])[i] = u
    BY <1>2, <2>1, <2>2, TailWaits
  <2>4. QED
    BY <1>2, <1>5, <2>1, <2>3 DEF InLock
<1>6. QED
  BY <1>4, <1>5

\* Nor by a handler coming to wait, who takes the last place.
LEMMA LockEnqueue ==
    ASSUME IInv, LockInv, NEW t \in Tasks, NEW s \in Sessions,
           lock' = [lock EXCEPT ![s] = Append(@, t)],
           task'[t].pc = "lock" => task'[t].sess = s,
           \A u \in Tasks \ {t} : task'[u] = task[u]
    PROVE  LockInv'
<1>1. SUFFICES ASSUME NEW u \in Tasks, task'[u].pc = "lock"
               PROVE  \E i \in 1 .. Len(lock'[task'[u].sess]) : lock'[task'[u].sess][i] = u
  BY DEF LockInv, InLock
<1>2. /\ lock[s] \in Seq(Tasks) /\ lock'[s] = Append(lock[s], t)
      /\ \A x \in Sessions \ {s} : lock'[x] = lock[x]
  BY DEF IInv, TypeOK
<1>3. \A v : (\E i \in 1 .. Len(lock'[s]) : lock'[s][i] = v) <=>
                v = t \/ \E i \in 1 .. Len(lock[s]) : lock[s][i] = v
  BY <1>2, AppendWaits
<1>4. CASE u = t
  BY <1>1, <1>3, <1>4 DEF InLock
<1>5. CASE u # t
  <2>1. task'[u] = task[u] /\ InLock(task[u].sess, u) /\ task[u].sess \in Sessions
    BY <1>1, <1>5 DEF LockInv, IInv, WellFormed
  <2>2. CASE task[u].sess = s
    BY <1>3, <2>1, <2>2 DEF InLock
  <2>3. CASE task[u].sess # s
    BY <1>2, <2>1, <2>3 DEF InLock
  <2>4. QED
    BY <2>2, <2>3
<1>6. QED
  BY <1>4, <1>5

WaitInv == SlotInv /\ LockInv

\* A request: straight on, first in the queue of the lock, or last.
LEMMA EnsureRunningWaits ==
    ASSUME IInv, WaitInv, NEW t \in Tasks, NEW op \in Ops, NEW s \in Sessions,
           EnsureRunning(t, op, s)
    PROVE  WaitInv'
<1>1. /\ TypeOK /\ SlotInv /\ LockInv
      /\ op \in {"start", "turn"} /\ task[t].pc = "idle"
      /\ rows[s].container \in Ids
  BY DEF IInv, WaitInv, EnsureRunning, TypeOK, Row
<1>2. t \notin slot.holders /\ ~Waits(slot, t) /\ Semaphore(slot) /\ slot \in SlotType
  BY <1>1, NotInSemaphore DEF Semaphore
<1>3. CASE rows[s].container # None
  <2>1. Continue(t, op, s, rows[s].container, slot) /\ lock' = lock
    BY <1>3 DEF EnsureRunning
  <2>2. Moved(t, s, rows[s].container)
    BY <1>1, <1>2, <2>1, ContinueMoves
  <2>3. Semaphore(slot') /\ OthersStay(slot, slot', t) /\ Keeps(slot', t, task'[t].pc)
    BY <1>1, <1>2, <2>1, ContinueSlots
  <2>4. SlotInv'
    BY <1>1, <2>2, <2>3, OneHandlerSlots DEF Moved
  <2>5. LockInv'
    BY <1>1, <2>1, <2>2, LockFrame DEF Moved
  <2>6. QED
    BY <2>4, <2>5 DEF WaitInv
<1>4. CASE rows[s].container = None /\ lock[s] = <<>>
  <2>1. Provision(t, op, s) /\ lock' = [lock EXCEPT ![s] = Append(@, t)]
    BY <1>4 DEF EnsureRunning
  <2>2. SlotInv'
    BY <1>1, <2>1, ProvisionSlots
  <2>3. task'[t].sess = s /\ \A u \in Tasks \ {t} : task'[u] = task[u]
    BY <1>1, <2>1, ProvisionTask
  <2>4. LockInv'
    BY <1>1, <2>1, <2>3, LockEnqueue
  <2>5. QED
    BY <2>2, <2>4 DEF WaitInv
<1>5. CASE rows[s].container = None /\ lock[s] # <<>>
  <2>1. /\ Become(t, "lock", op, s, None, None) /\ slot' = slot
        /\ lock' = [lock EXCEPT ![s] = Append(@, t)]
    BY <1>5 DEF EnsureRunning
  <2>2. "lock" \in Pcs /\ op \in AllOps \cup {"none"} /\ None \in Ids /\ None \in PortOrNone
    BY <1>1, BoundsAssumption DEF Pcs, AllOps, Ids, PortOrNone
  <2>3. /\ task'[t] = [pc |-> "lock", op |-> op, sess |-> s, box |-> None, port |-> None]
        /\ \A u \in Tasks \ {t} : task'[u] = task[u]
    BY <1>1, <2>1, <2>2, BecomeTask
  <2>4. task'[t].pc = "lock" /\ task'[t].sess = s
    BY <2>3
  <2>5. SlotInv'
    BY <1>1, <2>1, <2>3, <2>4, SlotFrame
  <2>6. LockInv'
    BY <1>1, <2>1, <2>3, <2>4, LockEnqueue
  <2>7. QED
    BY <2>5, <2>6 DEF WaitInv
<1>6. QED
  BY <1>3, <1>4, <1>5

\* The next in the queue of the lock goes on, and lets the one behind it in
\* unless it provisions.
LEMMA LockGrantedWaits ==
    ASSUME IInv, WaitInv, NEW t \in Tasks, LockGranted(t)
    PROVE  WaitInv'
<1> DEFINE s == task[t].sess
<1>1. /\ TypeOK /\ SlotInv /\ LockInv
      /\ task[t].pc = "lock" /\ s \in Sessions
      /\ lock[s] # <<>> /\ lock[s][1] = t
      /\ rows[s].container \in Ids
      /\ task[t].op \in {"start", "turn"}
  BY DEF IInv, WaitInv, LockGranted, TypeOK, Row, WellFormed
<1>2. t \notin slot.holders /\ ~Waits(slot, t) /\ Semaphore(slot) /\ slot \in SlotType
  BY <1>1, NotInSemaphore DEF Semaphore
<1>3. CASE ~Exists(s)
  <2>1. Unlock(s) /\ Return(t) /\ slot' = slot
    BY <1>3 DEF LockGranted
  <2>2. task'[t].pc = "idle" /\ \A u \in Tasks \ {t} : task'[u] = task[u]
    BY <1>1, <2>1, ReturnTask DEF IdleTask
  <2>3. SlotInv'
    BY <1>1, <2>1, <2>2, SlotFrame
  <2>4. LockInv'
    BY <1>1, <2>1, <2>2, LockUnlock
  <2>5. QED
    BY <2>3, <2>4 DEF WaitInv
<1>4. CASE Exists(s) /\ rows[s].container # None
  <2>1. Unlock(s) /\ Continue(t, task[t].op, s, rows[s].container, slot)
    BY <1>4 DEF LockGranted
  <2>2. Moved(t, s, rows[s].container)
    BY <1>1, <1>2, <2>1, ContinueMoves
  <2>3. Semaphore(slot') /\ OthersStay(slot, slot', t) /\ Keeps(slot', t, task'[t].pc)
    BY <1>1, <1>2, <2>1, ContinueSlots
  <2>4. SlotInv'
    BY <1>1, <2>2, <2>3, OneHandlerSlots DEF Moved
  <2>5. LockInv'
    BY <1>1, <2>1, <2>2, LockUnlock DEF Moved
  <2>6. QED
    BY <2>4, <2>5 DEF WaitInv
<1>5. CASE Exists(s) /\ rows[s].container = None
  <2>1. Provision(t, task[t].op, s) /\ lock' = lock
    BY <1>5 DEF LockGranted
  <2>2. SlotInv'
    BY <1>1, <2>1, ProvisionSlots
  <2>3. task'[t].pc = "run" /\ \A u \in Tasks \ {t} : task'[u] = task[u]
    BY <1>1, <2>1, ProvisionTask
  <2>4. LockInv'
    BY <1>1, <2>1, <2>3, LockFrame
  <2>5. QED
    BY <2>2, <2>4 DEF WaitInv
<1>6. QED
  BY <1>3, <1>4, <1>5

\* docker has answered: the slot of `docker run` is given back before the
\* turn asks for its own.
LEMMA ProvisionedWaits ==
    ASSUME IInv, WaitInv, NEW t \in Tasks, Provisioned(t)
    PROVE  WaitInv'
<1> DEFINE s == task[t].sess
           box == IF Exists(s) THEN task[t].box ELSE None
           freed == Release(slot, t)
<1>1. /\ TypeOK /\ SlotInv /\ LockInv
      /\ task[t].pc = "ran" /\ s \in Sessions /\ box \in Ids
      /\ lock[s] # <<>> /\ lock[s][1] = t
  BY BoundsAssumption
  DEF IInv, WaitInv, Provisioned, TypeOK, Task, WellFormed, HolderInv, Locking, Ids
<1>2. t \in slot.holders /\ Semaphore(slot)
  BY <1>1 DEF SlotInv, Keeps
<1>3. /\ Semaphore(freed) /\ OthersStay(slot, freed, t)
      /\ t \notin freed.holders /\ ~Waits(freed, t)
  BY <1>2, ReleaseSemaphore
<1>4. freed \in SlotType
  BY <1>3 DEF Semaphore
<1>5. Continue(t, task[t].op, s, box, freed) /\ Unlock(s)
  BY DEF Provisioned
<1> HIDE DEF box, freed
<1>6. Moved(t, s, box)
  BY <1>1, <1>4, <1>5, ContinueMoves
<1>7. Semaphore(slot') /\ OthersStay(freed, slot', t) /\ Keeps(slot', t, task'[t].pc)
  BY <1>1, <1>3, <1>5, ContinueSlots
<1>8. SlotInv'
  BY <1>1, <1>3, <1>6, <1>7, OthersStayTwice, OneHandlerSlots DEF Moved
<1>9. LockInv'
  BY <1>1, <1>5, <1>6, LockUnlock DEF Moved
<1>10. QED
  BY <1>8, <1>9 DEF WaitInv

\* A turn or a failed `docker run` gives its slot back.
LEMMA LeavingWaits ==
    ASSUME IInv, WaitInv, NEW t \in Tasks,
           ProvisionFailed(t) \/ \E touched \in BOOLEAN : LeaveTurn(t, touched)
    PROVE  WaitInv'
<1>1. /\ TypeOK /\ SlotInv /\ LockInv
      /\ task[t].pc \in {"failed", "turn"}
      /\ slot' = Release(slot, t) /\ Return(t)
  BY DEF IInv, WaitInv, ProvisionFailed, LeaveTurn
<1>2. SlotInv'
  BY <1>1, LeavingSlots
<1>3. task'[t].pc = "idle" /\ \A u \in Tasks \ {t} : task'[u] = task[u]
  BY <1>1, ReturnTask DEF IdleTask
<1>4. CASE ProvisionFailed(t)
  <2>1. /\ Unlock(task[t].sess) /\ task[t].sess \in Sessions
        /\ lock[task[t].sess] # <<>> /\ lock[task[t].sess][1] = t
    BY <1>4 DEF IInv, ProvisionFailed, WellFormed, HolderInv, Locking
  <2>2. LockInv'
    BY <1>1, <1>3, <2>1, LockUnlock
  <2>3. QED
    BY <1>2, <2>2 DEF WaitInv
<1>5. CASE \E touched \in BOOLEAN : LeaveTurn(t, touched)
  <2>1. lock' = lock
    BY <1>5 DEF LeaveTurn
  <2>2. LockInv'
    BY <1>1, <1>3, <2>1, LockFrame
  <2>3. QED
    BY <1>2, <2>2 DEF WaitInv
<1>6. QED
  BY <1>4, <1>5

\* A turn that was given its slot starts, or raises.
LEMMA StartTurnWaits ==
    ASSUME IInv, WaitInv, NEW t \in Tasks, StartTurn(t)
    PROVE  WaitInv'
<1> DEFINE s == task[t].sess
           box == task[t].box
<1>1. /\ TypeOK /\ SlotInv /\ LockInv /\ Semaphore(slot) /\ slot \in SlotType
      /\ s \in Sessions /\ box \in Ids
      /\ t \in slot.holders /\ RunTurn(t, s, box, slot) /\ lock' = lock
  BY DEF IInv, WaitInv, SlotInv, Semaphore, StartTurn, TypeOK, Task, WellFormed
<1> HIDE DEF s, box
<1>2. Moved(t, s, box)
  BY <1>1, RunTurnMoves
<1>3. Semaphore(slot') /\ OthersStay(slot, slot', t) /\ Keeps(slot', t, task'[t].pc)
  BY <1>1, RunTurnSlots
<1>4. SlotInv'
  BY <1>1, <1>2, <1>3, OneHandlerSlots DEF Moved
<1>5. LockInv'
  BY <1>1, <1>2, LockFrame DEF Moved
<1>6. QED
  BY <1>4, <1>5 DEF WaitInv

\* docker run ends while its handler holds a slot.
LEMMA DockerRunWaits ==
    ASSUME IInv, WaitInv, NEW t \in Tasks, DockerRun(t)
    PROVE  WaitInv'
<1>1. /\ SlotInv /\ LockInv /\ task[t].pc = "run" /\ t \in slot.holders
      /\ task \in [Tasks -> Task] /\ slot' = slot /\ lock' = lock
  BY DEF IInv, WaitInv, TypeOK, DockerRun
<1>2. task'[t].pc \in {"ran", "failed"} /\ \A u \in Tasks \ {t} : task'[u] = task[u]
  <2>1. CASE task' = [task EXCEPT ![t].pc = "failed"]
    <3>1. task'[t] = [task[t] EXCEPT !.pc = "failed"] /\ task[t] \in Task
      BY <1>1, <2>1
    <3>2. task'[t].pc = "failed"
      BY <3>1 DEF Task
    <3>3. QED
      BY <1>1, <2>1, <3>2
  <2>2. CASE task' = [task EXCEPT ![t].pc = "ran", ![t].box = runs + 1]
    <3>1. task'[t] = [task[t] EXCEPT !.pc = "ran", !.box = runs + 1] /\ task[t] \in Task
      BY <1>1, <2>2
    <3>2. task'[t].pc = "ran"
      BY <3>1 DEF Task
    <3>3. QED
      BY <1>1, <2>2, <3>2
  <2>3. QED
    BY <2>1, <2>2 DEF DockerRun
<1>3. SlotInv'
  BY <1>1, <1>2, SlotFrame
<1>4. LockInv'
  BY <1>1, <1>2, LockFrame
<1>5. QED
  BY <1>3, <1>4 DEF WaitInv

\* stop, archive and delete queue for nothing.
LEMMA KillersWait ==
    ASSUME IInv, WaitInv, NEW t \in Tasks,
           \/ DockerKilled(t) \/ Killed(t)
           \/ \E op \in Ops, s \in Sessions : Kill(t, op, s)
    PROVE  WaitInv'
<1>1. /\ SlotInv /\ LockInv /\ TypeOK /\ task \in [Tasks -> Task]
      /\ slot' = slot /\ lock' = lock
  BY DEF IInv, WaitInv, TypeOK, DockerKilled, Killed, Kill
<1>2. CASE UNCHANGED task
  BY <1>1, <1>2, SlotFrame, LockFrame DEF WaitInv
<1>3. CASE /\ task[t].pc \in {"idle", "kill", "killed"}
           /\ task'[t].pc \in {"idle", "kill", "killed"}
           /\ \A u \in Tasks \ {t} : task'[u] = task[u]
  <2>1. SlotInv'
    BY <1>1, <1>3, SlotFrame
  <2>2. LockInv'
    BY <1>1, <1>3, LockFrame
  <2>3. QED
    BY <2>1, <2>2 DEF WaitInv
<1>4. CASE DockerKilled(t)
  <2>1. task' = [task EXCEPT ![t] = [task[t] EXCEPT !.pc = "killed"]] /\ task[t].pc = "kill"
    BY <1>1, <1>4 DEF DockerKilled
  <2>2. task'[t] = [task[t] EXCEPT !.pc = "killed"] /\ task[t] \in Task
    BY <1>1, <2>1
  <2>3. task'[t].pc = "killed"
    BY <2>2 DEF Task
  <2>4. QED
    BY <1>1, <1>3, <2>1, <2>3
<1>5. CASE Killed(t)
  BY <1>1, <1>3, <1>5, ReturnTask DEF Killed, IdleTask
<1>6. CASE \E op \in Ops, s \in Sessions : Kill(t, op, s)
  <2>1. PICK op \in Ops, s \in Sessions : Kill(t, op, s)
    BY <1>6
  <2>2. CASE Become(t, "kill", op, s, rows[s].container, None)
    <3>1. /\ task[t].pc = "idle" /\ "kill" \in Pcs /\ op \in AllOps \cup {"none"}
          /\ rows[s].container \in Ids /\ None \in PortOrNone
      BY <1>1, <2>1 DEF Kill, Killers, Pcs, AllOps, TypeOK, Row, PortOrNone
    <3>2. /\ task'[t] = [pc |-> "kill", op |-> op, sess |-> s, box |-> rows[s].container,
                         port |-> None]
          /\ \A u \in Tasks \ {t} : task'[u] = task[u]
      BY <1>1, <2>2, <3>1, BecomeTask
    <3>3. QED
      BY <1>3, <3>1, <3>2
  <2>3. QED
    BY <1>2, <2>1, <2>2 DEF Kill
<1>7. QED
  BY <1>4, <1>5, <1>6

\* Nobody waits when frame-main starts.
LEMMA InitWaits == Init => WaitInv
<1> SUFFICES ASSUME Init PROVE WaitInv
  OBVIOUS
<1>1. /\ slot.holders = {} /\ slot.waiters = <<>> /\ slot \in SlotType
      /\ \A t \in Tasks : task[t].pc = "idle"
  BY DEF Init, IdleTask, SlotType
<1>2. Semaphore(slot)
  BY <1>1, FS_EmptySet, SlotsAssumption DEF Semaphore
<1>3. \A t \in Tasks : Keeps(slot, t, task[t].pc)
  BY <1>1 DEF Keeps, Waits
<1>4. QED
  BY <1>1, <1>2, <1>3 DEF WaitInv, SlotInv, LockInv

\* Every step keeps who waits for what in order.
LEMMA NextWaits == IInv /\ WaitInv /\ [Next]_vars => WaitInv'
<1> SUFFICES ASSUME IInv, WaitInv, [Next]_vars PROVE WaitInv'
  OBVIOUS
<1>1. CASE UNCHANGED <<task, slot, lock>>
  BY <1>1, SlotFrame, LockFrame DEF WaitInv
<1>2. ASSUME NEW t \in Tasks, Request(t) PROVE WaitInv'
  BY <1>2, EnsureRunningWaits, KillersWait DEF Request
<1>3. ASSUME NEW t \in Tasks, TaskStep(t) PROVE WaitInv'
  BY <1>3, StartTurnWaits, LeavingWaits, LockGrantedWaits, DockerRunWaits, ProvisionedWaits,
     KillersWait DEF TaskStep, EndTurn, AbortTurn
<1>4. ASSUME NEW s \in Sessions, World(s) PROVE WaitInv'
  BY <1>1, <1>4 DEF World, Create, Patch, HarnessSpeaks, Age, BoxDies
<1>5. CASE ReaperStep
  BY <1>1, <1>5 DEF ReaperStep, ReapIdle, ReapKilled, Reaped
<1>6. CASE BootStep
  BY <1>1, <1>6 DEF BootStep, Recover, RecoverWith, RemoveOrphan, Serve
<1>7. CASE Crash
  <2>1. slot' = [holders |-> {}, waiters |-> <<>>] /\ \A t \in Tasks : task'[t].pc = "idle"
    BY <1>7 DEF Crash, IdleTask
  <2>2. slot'.holders = {} /\ slot'.waiters = <<>> /\ slot' \in SlotType
    BY <2>1 DEF SlotType
  <2>3. Semaphore(slot')
    BY <2>2, FS_EmptySet, SlotsAssumption DEF Semaphore
  <2>4. \A t \in Tasks : Keeps(slot', t, task'[t].pc)
    BY <2>1, <2>2 DEF Keeps, Waits
  <2>5. QED
    BY <2>1, <2>3, <2>4 DEF WaitInv, SlotInv, LockInv
<1>8. CASE UNCHANGED vars
  BY <1>1, <1>8 DEF vars
<1>9. QED
  BY <1>1, <1>2, <1>3, <1>4, <1>5, <1>6, <1>7, <1>8 DEF Next, LateRun

\* Who waits for what is in order in every reachable state.
LEMMA WaitsInvariance == Spec => []WaitInv
BY InitWaits, NextWaits, Invariance, PTL DEF Spec

\* However requests overlap and wherever they fail, at most
\* max_concurrent_sessions of them hold a slot, none that returned keeps one,
\* and none queues while one is free (l.131, l.214).
THEOREM SlotsAreAccounted == Spec => []SlotsAccounted
<1>1. WaitInv => SlotsAccounted
  BY DEF WaitInv, SlotInv, Semaphore, Keeps, SlotsAccounted, Locking
<1>2. QED
  BY <1>1, WaitsInvariance, PTL

\* A handler that has something to do: docker answered it, its turn runs, it
\* was given its slot, or it is first in the queue of its lock.  These are the
\* guards of the actions of TaskStep.
Ready(t) ==
    \/ task[t].pc \in {"ran", "failed", "turn", "kill", "killed"}
    \/ task[t].pc \in {"run", "turnwait"} /\ t \in slot.holders
    \/ task[t].pc = "lock" /\ lock[task[t].sess][1] = t

\* Who is not ready waits for one who is, at most two waits away: in line for
\* a slot, all of which are with handlers that are ready, or in line for the
\* lock behind a handler that is ready or in line for a slot.
NoDeadlock ==
    \A t \in Tasks : task[t].pc # "idle" /\ ~Ready(t) =>
        \/ /\ task[t].pc \in {"run", "turnwait"}
           /\ Waits(slot, t)
           /\ slot.holders # {} /\ \A u \in slot.holders : Ready(u)
        \/ /\ task[t].pc = "lock"
           /\ \E u \in Tasks \ {t} :
                 /\ lock[task[t].sess] # <<>> /\ lock[task[t].sess][1] = u
                 /\ Ready(u) \/ (task[u].pc = "run" /\ Waits(slot, u))

\* The lock is taken before the semaphore and no holder of a slot waits for a
\* lock: requests never block each other for good, which is what
\* RequestsFinish needs besides fairness.
THEOREM RequestsNeverDeadlock == Spec => []NoDeadlock
<1>1. ASSUME IInv, WaitInv PROVE NoDeadlock
  <2>1. SUFFICES ASSUME NEW t \in Tasks, task[t].pc # "idle", ~Ready(t)
                 PROVE  \/ /\ task[t].pc \in {"run", "turnwait"}
                           /\ Waits(slot, t)
                           /\ slot.holders # {} /\ \A u \in slot.holders : Ready(u)
                        \/ /\ task[t].pc = "lock"
                           /\ \E u \in Tasks \ {t} :
                                 /\ lock[task[t].sess] # <<>> /\ lock[task[t].sess][1] = u
                                 /\ Ready(u) \/ (task[u].pc = "run" /\ Waits(slot, u))
    BY DEF NoDeadlock
  <2>2. task[t].pc \in {"lock", "run", "turnwait"}
    BY <1>1, <2>1 DEF Ready, IInv, TypeOK, Task, Pcs
  <2>3. CASE task[t].pc \in {"run", "turnwait"}
    <3>1. t \notin slot.holders /\ Waits(slot, t)
      BY <1>1, <2>1, <2>3 DEF Ready, WaitInv, SlotInv, Keeps
    <3>2. slot.waiters # <<>>
      BY <3>1 DEF Waits
    <3>3. Cardinality(slot.holders) = Slots /\ slot.holders \subseteq Tasks
      BY <1>1, <3>2 DEF WaitInv, SlotInv, Semaphore, SlotType
    <3>4. slot.holders # {}
      BY <3>3, FS_EmptySet, SlotsAssumption
    <3>5. \A u \in slot.holders : Ready(u)
      BY <1>1, <3>3 DEF WaitInv, SlotInv, Keeps, Locking, Ready
    <3>6. QED
      BY <2>3, <3>1, <3>4, <3>5
  <2>4. CASE task[t].pc = "lock"
    <3> DEFINE s == task[t].sess
               u == lock[s][1]
    <3>1. s \in Sessions /\ lock[s] \in Seq(Tasks)
      BY <1>1, <2>4 DEF IInv, WellFormed, TypeOK
    <3>2. lock[s] # <<>>
      BY <1>1, <2>4, <3>1 DEF WaitInv, LockInv, InLock
    <3>3. 1 \in 1 .. Len(lock[s]) /\ u \in Tasks
      BY <3>1, <3>2, EmptySeq
    <3>4. u # t
      BY <2>1, <2>4 DEF Ready
    <3>5. task[u].sess = s /\ task[u].pc \in {"lock"} \cup Locking
      BY <1>1, <3>1, <3>3 DEF IInv, QueueInv
    <3>6. Ready(u) \/ (task[u].pc = "run" /\ Waits(slot, u))
      <4>1. CASE task[u].pc = "lock"
        BY <3>5, <4>1 DEF Ready
      <4>2. CASE task[u].pc \in Locking
        <5>1. Keeps(slot, u, task[u].pc)
          BY <1>1, <3>3 DEF WaitInv, SlotInv
        <5>2. QED
          BY <4>2, <5>1 DEF Keeps, Locking, Ready
      <4>3. QED
        BY <3>5, <4>1, <4>2
    <3>7. QED
      BY <2>4, <3>2, <3>3, <3>4, <3>6
  <2>5. QED
    BY <2>2, <2>3, <2>4
<1>2. QED
  BY <1>1, WaitsInvariance, Invariance, PTL

----------------------------------------------------------------------------
(* Requests only go forward, and in the order they came *)

\* t is before u in a queue.
Ahead(q, t, u) == \E i, j \in 1 .. Len(q) : i < j /\ q[i] = t /\ q[j] = u

\* Who comes later takes a later place.
LEMMA AppendAhead ==
    ASSUME NEW q \in Seq(Tasks), NEW v \in Tasks, NEW t, NEW u, Ahead(q, t, u)
    PROVE  Ahead(Append(q, v), t, u)
<1>1. /\ Len(Append(q, v)) = Len(q) + 1 /\ Len(q) \in Nat
      /\ \A i \in 1 .. Len(q) : Append(q, v)[i] = q[i]
  BY AppendProperties
<1>2. PICK i \in 1 .. Len(q), j \in 1 .. Len(q) : i < j /\ q[i] = t /\ q[j] = u
  BY DEF Ahead
<1>3. i \in 1 .. Len(Append(q, v)) /\ j \in 1 .. Len(Append(q, v))
  BY <1>1
<1>4. QED
  BY <1>1, <1>2, <1>3 DEF Ahead

\* When the first leaves, the others keep their order.
LEMMA TailAhead ==
    ASSUME NEW q \in Seq(Tasks), NEW t, NEW u, Ahead(q, t, u)
    PROVE  \/ Ahead(Tail(q), t, u)
           \/ t = Head(q) /\ \E k \in 1 .. Len(Tail(q)) : Tail(q)[k] = u
<1>1. PICK i \in 1 .. Len(q), j \in 1 .. Len(q) : i < j /\ q[i] = t /\ q[j] = u
  BY DEF Ahead
<1>2. q # <<>>
  BY <1>1
<1>3. /\ Len(Tail(q)) = Len(q) - 1 /\ Len(q) \in Nat \ {0}
      /\ \A k \in 1 .. Len(Tail(q)) : Tail(q)[k] = q[k + 1]
      /\ Head(q) = q[1]
  BY <1>2, HeadTailProperties, EmptySeq
<1>4. j - 1 \in 1 .. Len(Tail(q)) /\ Tail(q)[j - 1] = u
  <2>1. j - 1 \in 1 .. Len(Tail(q)) /\ (j - 1) + 1 = j
    BY <1>1, <1>3
  <2>2. QED
    BY <1>1, <1>3, <2>1
<1>5. CASE i = 1
  BY <1>1, <1>3, <1>4, <1>5
<1>6. CASE i # 1
  <2>1. i - 1 \in 1 .. Len(Tail(q)) /\ (i - 1) + 1 = i /\ i - 1 < j - 1
    BY <1>1, <1>3, <1>6
  <2>2. Tail(q)[i - 1] = t
    BY <1>1, <1>3, <2>1
  <2>3. QED
    BY <1>4, <2>1, <2>2 DEF Ahead
<1>7. QED
  BY <1>5, <1>6

\* From one state of the semaphore to another, whoever was ahead of another
\* waiter still is, or was given a slot first.
InOrder(sl, next) ==
    \A t, u \in Tasks : Ahead(sl.waiters, t, u) =>
        \/ Ahead(next.waiters, t, u)
        \/ t \in next.holders /\ Waits(next, u)

\* Asking for a slot overtakes nobody.
LEMMA AcquireInOrder ==
    ASSUME NEW a, NEW sl \in SlotType, NEW t \in Tasks, InOrder(a, sl)
    PROVE  InOrder(a, Acquire(sl, t))
<1>1. CASE Acquire(sl, t) = [sl EXCEPT !.holders = @ \cup {t}]
  <2>1. /\ Acquire(sl, t).waiters = sl.waiters
        /\ sl.holders \subseteq Acquire(sl, t).holders
    BY <1>1 DEF SlotType
  <2>2. QED
    BY <2>1 DEF InOrder, Waits
<1>2. CASE Acquire(sl, t) = [sl EXCEPT !.waiters = Append(@, t)]
  <2>1. /\ Acquire(sl, t).waiters = Append(sl.waiters, t)
        /\ Acquire(sl, t).holders = sl.holders
        /\ sl.waiters \in Seq(Tasks)
    BY <1>2 DEF SlotType
  <2>2. \A x, y : Ahead(sl.waiters, x, y) => Ahead(Acquire(sl, t).waiters, x, y)
    BY <2>1, AppendAhead
  <2>3. \A y : Waits(sl, y) => Waits(Acquire(sl, t), y)
    BY <2>1, AppendWaits DEF Waits
  <2>4. QED
    BY <2>1, <2>2, <2>3 DEF InOrder
<1>3. QED
  BY <1>1, <1>2 DEF Acquire

\* Giving one back serves the first in line.
LEMMA ReleaseInOrder ==
    ASSUME NEW sl \in SlotType, NEW t \in Tasks
    PROVE  InOrder(sl, Release(sl, t))
<1>1. sl.waiters \in Seq(Tasks)
  BY DEF SlotType
<1>2. CASE sl.waiters = <<>>
  BY <1>2 DEF InOrder, Ahead
<1>3. CASE sl.waiters # <<>>
  <2>1. /\ Release(sl, t).holders = (sl.holders \ {t}) \cup {Head(sl.waiters)}
        /\ Release(sl, t).waiters = Tail(sl.waiters)
    BY <1>3 DEF Release
  <2>2. \A x, y : Ahead(sl.waiters, x, y) =>
           \/ Ahead(Tail(sl.waiters), x, y)
           \/ x = Head(sl.waiters) /\ \E k \in 1 .. Len(Tail(sl.waiters)) : Tail(sl.waiters)[k] = y
    BY <1>1, TailAhead
  <2>3. QED
    BY <2>1, <2>2 DEF InOrder, Waits
<1>4. QED
  BY <1>2, <1>3

\* Running a turn straight away, or raising, happens with nobody in line.
LEMMA RunTurnInOrder ==
    ASSUME NEW a, NEW t \in Tasks, NEW s, NEW box, NEW sl \in SlotType, InOrder(a, sl),
           sl.waiters = <<>>, RunTurn(t, s, box, sl)
    PROVE  InOrder(a, slot')
<1>1. slot' = sl \/ slot' = Release(sl, t)
  BY DEF RunTurn
<1>2. CASE slot' = sl
  BY <1>2
<1>3. CASE slot' = Release(sl, t)
  <2>1. \A x, y \in Tasks : ~Ahead(sl.waiters, x, y) /\ ~Waits(sl, y)
    BY DEF Ahead, Waits
  <2>2. \A x, y \in Tasks : ~Ahead(a.waiters, x, y)
    BY <2>1 DEF InOrder
  <2>3. QED
    BY <2>2 DEF InOrder
<1>4. QED
  BY <1>1, <1>2, <1>3

\* A handler that goes on with its container overtakes nobody.
LEMMA ContinueInOrder ==
    ASSUME NEW a, NEW t \in Tasks, NEW op, NEW s, NEW box, NEW sl \in SlotType, InOrder(a, sl),
           t \notin sl.holders, Continue(t, op, s, box, sl)
    PROVE  InOrder(a, slot')
<1> DEFINE asked == Acquire(sl, t)
<1>1. CASE op # "turn"
  BY <1>1 DEF Continue
<1>2. CASE op = "turn" /\ t \notin asked.holders
  <2>1. slot' = asked
    BY <1>2 DEF Continue, EnterTurn
  <2>2. QED
    BY <2>1, AcquireInOrder
<1>3. CASE op = "turn" /\ t \in asked.holders
  <2>1. RunTurn(t, s, box, asked)
    BY <1>3 DEF Continue, EnterTurn
  <2>2. asked.waiters = <<>>
    <3>1. CASE Cardinality(sl.holders) < Slots /\ sl.waiters = <<>>
      BY <3>1 DEF Acquire, SlotType
    <3>2. CASE ~(Cardinality(sl.holders) < Slots /\ sl.waiters = <<>>)
      <4>1. asked.holders = sl.holders
        BY <3>2 DEF Acquire, SlotType
      <4>2. QED
        BY <1>3, <4>1
    <3>3. QED
      BY <3>1, <3>2
  <2>3. asked \in SlotType /\ InOrder(a, asked)
    BY AcquireType, AcquireInOrder
  <2>4. QED
    BY <2>1, <2>2, <2>3, RunTurnInOrder
<1>4. QED
  BY <1>1, <1>2, <1>3

\* Doing nothing overtakes nobody either.
LEMMA SameInOrder == ASSUME NEW sl PROVE InOrder(sl, sl)
BY DEF InOrder

\* No step but a restart lets anyone overtake in the line for a slot.
LEMMA SlotsInOrder ==
    ASSUME IInv, WaitInv, [Next]_vars, ~Crash
    PROVE  InOrder(slot, slot')
<1>1. TypeOK /\ SlotInv /\ Semaphore(slot) /\ slot \in SlotType
  BY DEF IInv, WaitInv, SlotInv, Semaphore
<1>2. CASE slot' = slot
  BY <1>2, SameInOrder
<1>3. ASSUME NEW t \in Tasks, NEW op, NEW s, Provision(t, op, s) PROVE InOrder(slot, slot')
  BY <1>1, <1>3, AcquireInOrder, SameInOrder DEF Provision
<1>4. ASSUME NEW t \in Tasks, NEW op, NEW s, NEW box, Continue(t, op, s, box, slot),
             task[t].pc \in {"idle", "lock"}
      PROVE  InOrder(slot, slot')
  <2>1. t \notin slot.holders
    BY <1>1, <1>4, NotInSemaphore
  <2>2. QED
    BY <1>1, <1>4, <2>1, SameInOrder, ContinueInOrder
<1>5. ASSUME NEW t \in Tasks, Request(t) PROVE InOrder(slot, slot')
  <2>1. PICK s \in Sessions, op \in Ops : EnsureRunning(t, op, s) \/ Kill(t, op, s)
    BY <1>5 DEF Request
  <2>2. CASE EnsureRunning(t, op, s)
    BY <1>2, <1>3, <1>4, <2>2 DEF EnsureRunning
  <2>3. CASE Kill(t, op, s)
    BY <1>2, <2>3 DEF Kill
  <2>4. QED
    BY <2>1, <2>2, <2>3
<1>6. ASSUME NEW t \in Tasks, TaskStep(t) PROVE InOrder(slot, slot')
  <2>1. CASE StartTurn(t)
    <3>1. slot' = slot \/ slot' = Release(slot, t)
      BY <2>1 DEF StartTurn, RunTurn
    <3>2. QED
      BY <1>1, <1>2, <3>1, ReleaseInOrder
  <2>2. CASE LockGranted(t)
    BY <1>2, <1>3, <1>4, <2>2 DEF LockGranted
  <2>3. CASE Provisioned(t)
    <3> DEFINE freed == Release(slot, t)
    <3>1. t \in slot.holders
      BY <1>1, <2>3 DEF Provisioned, SlotInv, Keeps
    <3>2. freed \in SlotType /\ InOrder(slot, freed) /\ t \notin freed.holders
      BY <1>1, <3>1, ReleaseType, ReleaseInOrder, ReleaseSemaphore
    <3>3. PICK box : Continue(t, task[t].op, task[t].sess, box, freed)
      BY <2>3 DEF Provisioned
    <3> HIDE DEF freed
    <3>4. QED
      BY <3>2, <3>3, ContinueInOrder
  <2>4. CASE EndTurn(t) \/ AbortTurn(t) \/ ProvisionFailed(t)
    BY <1>1, <2>4, ReleaseInOrder DEF EndTurn, AbortTurn, LeaveTurn, ProvisionFailed
  <2>5. CASE DockerRun(t) \/ DockerKilled(t) \/ Killed(t)
    BY <1>2, <2>5 DEF DockerRun, DockerKilled, Killed
  <2>6. QED
    BY <1>6, <2>1, <2>2, <2>3, <2>4, <2>5 DEF TaskStep
<1>7. ASSUME NEW s \in Sessions, World(s) PROVE InOrder(slot, slot')
  BY <1>2, <1>7 DEF World, Create, Patch, HarnessSpeaks, Age, BoxDies
<1>8. CASE ReaperStep
  BY <1>2, <1>8 DEF ReaperStep, ReapIdle, ReapKilled, Reaped
<1>9. CASE BootStep
  BY <1>2, <1>9 DEF BootStep, Recover, RecoverWith, RemoveOrphan, Serve
<1>10. QED
  BY <1>2, <1>5, <1>6, <1>7, <1>8, <1>9 DEF Next, LateRun, vars

\* No step but a restart lets anyone overtake in the line for a lock: the
\* first leaves it once it is done with the lock, and a newcomer goes last.
LEMMA LocksInOrder ==
    ASSUME IInv, [Next]_vars, ~Crash, NEW s \in Sessions,
           NEW t \in Tasks, NEW u \in Tasks, Ahead(lock[s], t, u)
    PROVE  \/ Ahead(lock'[s], t, u)
           \/ task'[t].pc \notin {"lock"} \cup Locking /\ \E i \in 1 .. Len(lock'[s]) : lock'[s][i] = u
<1>1. /\ TypeOK /\ lock \in [Sessions -> Seq(Tasks)] /\ lock[s] \in Seq(Tasks)
  BY DEF IInv, TypeOK
<1>2. CASE lock' = lock
  BY <1>2
<1>3. ASSUME NEW v \in Tasks, NEW x \in Sessions, Unlock(x), lock[x] # <<>>, lock[x][1] = v,
             task'[v].pc \notin {"lock"} \cup Locking
      PROVE  \/ Ahead(lock'[s], t, u)
             \/ task'[t].pc \notin {"lock"} \cup Locking /\ \E i \in 1 .. Len(lock'[s]) : lock'[s][i] = u
  <2>1. CASE x = s
    <3>1. lock'[s] = Tail(lock[s]) /\ Head(lock[s]) = v
      BY <1>1, <1>3, <2>1 DEF Unlock
    <3>2. \/ Ahead(Tail(lock[s]), t, u)
          \/ t = Head(lock[s]) /\ \E k \in 1 .. Len(Tail(lock[s])) : Tail(lock[s])[k] = u
      BY <1>1, TailAhead
    <3>3. QED
      BY <1>3, <3>1, <3>2
  <2>2. CASE x # s
    <3>1. lock'[s] = lock[s]
      BY <1>1, <1>3, <2>2 DEF Unlock
    <3>2. QED
      BY <3>1
  <2>3. QED
    BY <2>1, <2>2
<1>4. ASSUME NEW v \in Tasks, Request(v) PROVE Ahead(lock'[s], t, u)
  <2>1. PICK x \in Sessions, op \in Ops : EnsureRunning(v, op, x) \/ Kill(v, op, x)
    BY <1>4 DEF Request
  <2>2. CASE lock' = [lock EXCEPT ![x] = Append(@, v)]
    <3>1. lock'[s] = lock[s] \/ lock'[s] = Append(lock[s], v)
      BY <1>1, <2>2
    <3>2. QED
      BY <1>1, <3>1, AppendAhead
  <2>3. lock' = lock \/ lock' = [lock EXCEPT ![x] = Append(@, v)]
    BY <2>1 DEF EnsureRunning, Kill
  <2>4. QED
    BY <1>2, <2>2, <2>3
<1>5. ASSUME NEW v \in Tasks, TaskStep(v)
      PROVE  \/ Ahead(lock'[s], t, u)
             \/ task'[t].pc \notin {"lock"} \cup Locking /\ \E i \in 1 .. Len(lock'[s]) : lock'[s][i] = u
  <2>1. CASE LockGranted(v)
    <3> DEFINE x == task[v].sess
    <3>1. /\ x \in Sessions /\ lock[x] # <<>> /\ lock[x][1] = v
          /\ slot \in SlotType /\ rows[x].container \in Ids
      BY <2>1 DEF IInv, LockGranted, WellFormed, TypeOK, SlotType, Row
    <3>2. CASE ~Exists(x)
      <4>1. Unlock(x) /\ task'[v].pc = "idle"
        BY <1>1, <2>1, <3>2, ReturnTask DEF LockGranted, IdleTask
      <4>2. QED
        BY <1>3, <3>1, <4>1 DEF Locking
    <3>3. CASE Exists(x) /\ rows[x].container # None
      <4>1. Unlock(x) /\ Continue(v, task[v].op, x, rows[x].container, slot)
        BY <2>1, <3>3 DEF LockGranted
      <4>2. task'[v].pc \in {"idle", "turnwait", "turn"}
        BY <1>1, <3>1, <4>1, ContinueMoves DEF Moved
      <4>3. QED
        BY <1>3, <3>1, <4>1, <4>2 DEF Locking
    <3>4. CASE Exists(x) /\ rows[x].container = None
      BY <1>2, <2>1, <3>4 DEF LockGranted
    <3>5. QED
      BY <3>2, <3>3, <3>4
  <2>2. CASE Provisioned(v)
    <3> DEFINE x == task[v].sess
               box == IF Exists(x) THEN task[v].box ELSE None
    <3>1. /\ x \in Sessions /\ lock[x] # <<>> /\ lock[x][1] = v /\ Unlock(x)
          /\ Release(slot, v) \in SlotType /\ box \in Ids
          /\ Continue(v, task[v].op, x, box, Release(slot, v))
      <4>1. x \in Sessions /\ lock[x] # <<>> /\ lock[x][1] = v /\ task[v].box \in Ids
        BY <2>2 DEF IInv, Provisioned, WellFormed, HolderInv, Locking, TypeOK, Task
      <4>2. box \in Ids
        BY <4>1, BoundsAssumption DEF Ids
      <4>3. Release(slot, v) \in SlotType
        BY <1>1, ReleaseType DEF TypeOK, SlotType
      <4>4. QED
        BY <2>2, <4>1, <4>2, <4>3 DEF Provisioned
    <3>2. task'[v].pc \in {"idle", "turnwait", "turn"}
      BY <1>1, <3>1, ContinueMoves DEF Moved
    <3>3. QED
      BY <1>3, <3>1, <3>2 DEF Locking
  <2>3. CASE ProvisionFailed(v)
    <3>1. /\ task[v].sess \in Sessions /\ lock[task[v].sess] # <<>>
          /\ lock[task[v].sess][1] = v /\ Unlock(task[v].sess)
      BY <2>3 DEF IInv, ProvisionFailed, WellFormed, HolderInv, Locking
    <3>2. task'[v].pc = "idle"
      BY <1>1, <2>3, ReturnTask DEF ProvisionFailed, IdleTask
    <3>3. QED
      BY <1>3, <3>1, <3>2 DEF Locking
  <2>4. CASE \/ StartTurn(v) \/ EndTurn(v) \/ AbortTurn(v)
             \/ DockerRun(v) \/ DockerKilled(v) \/ Killed(v)
    BY <1>2, <2>4 DEF StartTurn, EndTurn, AbortTurn, LeaveTurn, DockerRun, DockerKilled, Killed
  <2>5. QED
    BY <1>5, <2>1, <2>2, <2>3, <2>4 DEF TaskStep
<1>6. ASSUME NEW x \in Sessions, World(x) PROVE lock' = lock
  BY <1>6 DEF World, Create, Patch, HarnessSpeaks, Age, BoxDies
<1>7. CASE ReaperStep
  BY <1>2, <1>7 DEF ReaperStep, ReapIdle, ReapKilled, Reaped
<1>8. CASE BootStep
  BY <1>2, <1>8 DEF BootStep, Recover, RecoverWith, RemoveOrphan, Serve
<1>9. QED
  BY <1>2, <1>4, <1>5, <1>6, <1>7, <1>8 DEF Next, LateRun, vars

\* Nobody is overtaken, in the line for a slot or in the line for a lock,
\* unless frame-main restarts.
NoOvertaking ==
    crashes' = crashes =>
        \A t, u \in Tasks :
            /\ Ahead(slot.waiters, t, u) =>
                  \/ Ahead(slot'.waiters, t, u)
                  \/ t \in slot'.holders /\ Waits(slot', u)
            /\ \A s \in Sessions : Ahead(lock[s], t, u) =>
                  \/ Ahead(lock'[s], t, u)
                  \/ /\ task'[t].pc \notin {"lock"} \cup Locking
                     /\ \E i \in 1 .. Len(lock'[s]) : lock'[s][i] = u

\* Requests are served in the order they came, at the lock and at the
\* semaphore: a slot handed over always goes to the one waiting longest, also
\* when a handler gives up one slot and asks for the next in the same step.
THEOREM RequestsKeepTheirOrder == Spec => [][NoOvertaking]_vars
<1>1. ASSUME IInv, WaitInv, [Next]_vars PROVE NoOvertaking
  <2>1. CASE Crash
    BY <1>1, <2>1 DEF Crash, NoOvertaking, IInv, TypeOK
  <2>2. CASE ~Crash
    <3>1. InOrder(slot, slot')
      BY <1>1, <2>2, SlotsInOrder
    <3>2. \A t, u \in Tasks, s \in Sessions : Ahead(lock[s], t, u) =>
             \/ Ahead(lock'[s], t, u)
             \/ /\ task'[t].pc \notin {"lock"} \cup Locking
                /\ \E i \in 1 .. Len(lock'[s]) : lock'[s][i] = u
      BY <1>1, <2>2, LocksInOrder
    <3>3. QED
      BY <3>1, <3>2 DEF NoOvertaking, InOrder
  <2>3. QED
    BY <2>1, <2>2
<1>2. QED
  BY <1>1, WaitsInvariance, Invariance, PTL DEF Spec

\* How many awaits a handler has before it at most.
Stage(pc) ==
    CASE pc = "lock" -> 5
      [] pc = "run" -> 4
      [] pc \in {"ran", "failed"} -> 3
      [] pc \in {"turnwait", "kill"} -> 2
      [] pc \in {"turn", "killed"} -> 1
      [] OTHER -> 0

OnlyAdvance ==
    \A t \in Tasks : task'[t].pc # task[t].pc =>
        task[t].pc = "idle" \/ Stage(task'[t].pc) < Stage(task[t].pc)

\* A step of no request, and of no other one, sends a handler back to an
\* await it has passed: with RequestsNeverDeadlock and RequestsKeepTheirOrder
\* this is why every request returns.
THEOREM RequestsOnlyAdvance == Spec => [][OnlyAdvance]_vars
<1>1. ASSUME IInv, [Next]_vars PROVE OnlyAdvance
  <2>1. SUFFICES ASSUME NEW t \in Tasks, task'[t].pc # task[t].pc, task[t].pc # "idle"
                 PROVE  Stage(task'[t].pc) < Stage(task[t].pc)
    BY DEF OnlyAdvance
  <2>2. TypeOK /\ task[t].pc \in Pcs
    BY <1>1 DEF IInv, TypeOK, Task
  <2>3. CASE task'[t].pc = "idle"
    BY <2>1, <2>2, <2>3 DEF Stage, Pcs
  <2>4. CASE task[t].pc \in {"lock", "ran"} /\ task'[t].pc \in {"turnwait", "turn"}
    BY <2>4 DEF Stage
  <2>5. CASE <<task[t].pc, task'[t].pc>> \in
                {<<"lock", "run">>, <<"run", "ran">>, <<"run", "failed">>, <<"turnwait", "turn">>,
                 <<"kill", "killed">>}
    BY <2>5 DEF Stage
  <2>6. ASSUME NEW u \in Tasks, Request(u) PROVE task'[t].pc = task[t].pc
    <3>1. task[u].pc = "idle"
      BY <2>6 DEF Request, EnsureRunning, Kill
    <3>2. u # t
      BY <2>1, <3>1
    <3>3. PICK s \in Sessions, op \in Ops : EnsureRunning(u, op, s) \/ Kill(u, op, s)
      BY <2>6 DEF Request
    <3>4. \E x : task' = [task EXCEPT ![u] = x] \/ task' = task
      BY <3>3 DEF EnsureRunning, Kill, Continue, EnterTurn, RunTurn, Provision, Become, Return
    <3>5. QED
      BY <2>2, <3>2, <3>4 DEF TypeOK
  <2>7. ASSUME NEW u \in Tasks, TaskStep(u) PROVE Stage(task'[t].pc) < Stage(task[t].pc)
    <3>1. CASE u # t
      <4>1. \E x : task' = [task EXCEPT ![u] = x]
        BY <2>2, <2>7 DEF TypeOK, TaskStep, StartTurn, EndTurn, AbortTurn, LeaveTurn, LockGranted, DockerRun,
           Provisioned, ProvisionFailed, DockerKilled, Killed, Continue, EnterTurn, RunTurn,
           Provision, Become, Return
      <4>2. QED
        BY <2>1, <2>2, <3>1, <4>1 DEF TypeOK
    <3>2. CASE u = t
      <4>1. CASE StartTurn(t)
        <5>1. task[t].sess \in Sessions /\ task[t].box \in Ids /\ slot \in SlotType
          BY <1>1, <4>1 DEF IInv, StartTurn, WellFormed, TypeOK, Task, SlotType
        <5>2. Moved(t, task[t].sess, task[t].box)
          BY <2>2, <4>1, <5>1, RunTurnMoves DEF StartTurn
        <5>3. QED
          BY <2>1, <2>3, <2>5, <4>1, <5>2 DEF StartTurn, Moved
      <4>2. CASE EndTurn(t) \/ AbortTurn(t) \/ ProvisionFailed(t) \/ Killed(t)
        <5>1. Return(t)
          BY <4>2 DEF EndTurn, AbortTurn, LeaveTurn, ProvisionFailed, Killed
        <5>2. QED
          BY <2>2, <2>3, <5>1, ReturnTask DEF IdleTask
      <4>3. CASE LockGranted(t)
        <5> DEFINE s == task[t].sess
        <5>1. s \in Sessions /\ slot \in SlotType /\ rows[s].container \in Ids
              /\ task[t].op \in {"start", "turn"}
          BY <1>1, <4>3 DEF IInv, LockGranted, WellFormed, TypeOK, SlotType, Row
        <5>2. CASE Return(t)
          BY <2>2, <2>3, <5>2, ReturnTask DEF IdleTask
        <5>3. CASE Continue(t, task[t].op, s, rows[s].container, slot)
          BY <2>2, <2>3, <2>4, <4>3, <5>1, <5>3, ContinueMoves DEF Moved, LockGranted
        <5>4. CASE Provision(t, task[t].op, s)
          BY <2>2, <2>5, <4>3, <5>1, <5>4, ProvisionTask DEF LockGranted
        <5>5. QED
          BY <4>3, <5>2, <5>3, <5>4 DEF LockGranted
      <4>4. CASE Provisioned(t)
        <5> DEFINE s == task[t].sess
                   box == IF Exists(s) THEN task[t].box ELSE None
        <5>1. /\ s \in Sessions /\ Release(slot, t) \in SlotType /\ box \in Ids
              /\ Continue(t, task[t].op, s, box, Release(slot, t))
          <6>1. s \in Sessions /\ task[t].box \in Ids
            BY <1>1, <4>4 DEF IInv, Provisioned, WellFormed, TypeOK, Task
          <6>2. box \in Ids
            BY <6>1, BoundsAssumption DEF Ids
          <6>3. Release(slot, t) \in SlotType
            BY <2>2, ReleaseType DEF TypeOK, SlotType
          <6>4. QED
            BY <4>4, <6>1, <6>2, <6>3 DEF Provisioned
        <5>2. Moved(t, s, box)
          BY <2>2, <5>1, ContinueMoves
        <5>3. QED
          BY <2>3, <2>4, <4>4, <5>2 DEF Provisioned, Moved
      <4>5. CASE DockerRun(t)
        <5>1. task[t] \in Task /\ task[t].pc = "run"
          BY <2>2, <4>5 DEF TypeOK, DockerRun
        <5>2. CASE task' = [task EXCEPT ![t].pc = "failed"]
          <6>1. task'[t] = [task[t] EXCEPT !.pc = "failed"]
            BY <2>2, <5>2 DEF TypeOK
          <6>2. QED
            BY <2>5, <5>1, <6>1 DEF Task
        <5>3. CASE task' = [task EXCEPT ![t].pc = "ran", ![t].box = runs + 1]
          <6>1. task'[t] = [task[t] EXCEPT !.pc = "ran", !.box = runs + 1]
            BY <2>2, <5>3 DEF TypeOK
          <6>2. QED
            BY <2>5, <5>1, <6>1 DEF Task
        <5>4. QED
          BY <4>5, <5>2, <5>3 DEF DockerRun
      <4>6. CASE DockerKilled(t)
        <5>1. task'[t] = [task[t] EXCEPT !.pc = "killed"] /\ task[t] \in Task /\ task[t].pc = "kill"
          BY <2>2, <4>6 DEF TypeOK, DockerKilled
        <5>2. QED
          BY <2>5, <5>1 DEF Task
      <4>7. QED
        BY <2>7, <3>2, <4>1, <4>2, <4>3, <4>4, <4>5, <4>6 DEF TaskStep
    <3>3. QED
      BY <3>1, <3>2
  <2>8. CASE Crash
    BY <2>3, <2>8 DEF Crash, IdleTask
  <2>9. CASE UNCHANGED task
    BY <2>1, <2>9
  <2>10. ASSUME NEW s \in Sessions, World(s) PROVE UNCHANGED task
    BY <2>10 DEF World, Create, Patch, HarnessSpeaks, Age, BoxDies
  <2>11. ASSUME ReaperStep \/ BootStep PROVE UNCHANGED task
    BY <2>11 DEF ReaperStep, ReapIdle, ReapKilled, Reaped, BootStep, Recover, RecoverWith, RemoveOrphan, Serve
  <2>12. QED
    BY <1>1, <2>1, <2>6, <2>7, <2>8, <2>9, <2>10, <2>11 DEF Next, LateRun, vars
<1>2. QED
  BY <1>1, Invariance, PTL DEF Spec
=============================================================================
