# A specification of frame-main

frame-main runs coding harnesses for people: each *session* owns a docker
container in which a harness works, and surfaces (browser frames, Telegram, a
webhook) give it prompts and watch what it says. This directory specifies the
parts of it that are hard to test: who may start, stop and reap a container,
what a restart leaves behind, whose answer a turn is given, what a surface sees
of a session's stream and what of it is kept, which messages reach a harness
through its channel or a person through Telegram, and who may log in and
administer the box.

## The system

One python process on one asyncio event loop. `async def` routes run on the
loop and give way only at an `await`; plain `def` routes run on a thread pool
beside it. State that must outlive the process is in sqlite (`db/schema.sql`).

| part | state | operations | talks to |
|---|---|---|---|
| session manager, `sessions.py` | provisioning locks, semaphore, `_in_flight` | create, ensure_running, turn, stop, archive, delete, recover, reap_idle, deliver, interrupt | table, provisioner, streams, transcript |
| provisioner, `sandbox/provision.py` | harness processes by session | provision, run_turn, stop, remove, live_sessions, remove_session | docker (subprocesses) |
| harness process, `sandbox/harness_process.py` | process, reader task, the outstanding turn, send lock | turn, interrupt, close, reader | `docker exec -i` |
| session table, `registry.py` | sqlite rows | one method per statement | everyone |
| session stream, `bus.py` | sequence number, replay buffer, subscribers; pending channel events | publish, subscribe, close; put, take | manager, sockets |
| transcript, `transcript.py` | open text runs | write, flush, discard | bus, table, events route |
| routes, `server.py` | none of their own | one per route, the reap loop, start-up | manager, table |
| console, `console/console.js` | per frame: socket, `lastSeq`, prompt queue, `inFlight` | connect, handleEvent, sendFront | `/stream` socket |
| telegram, `surfaces/telegram.py` | pollers, update offset | reconcile, run, dispatch, stop | table, Telegram, chat router |
| chat router, `surfaces/chat.py` | binding of chat to session (table) | handle, tap | manager |
| channel relay, `sandbox/channel.py` (one per start of a harness, in the container) | the events in hand, backoff | long poll, emit, reply | channel routes |
| accounts, `auth.py` and part of `server.py`, `registry.py` | users, credentials, tokens | register, login, change, administer | table |

What is hard in them:

* *Awaits inside a decision.* Rows are read, docker is awaited for seconds, and
  rows are written. Locks cover provisioning only; stop, archive, delete and
  the reaper take none.
* *Restarts.* Containers outlive frame-main and frame-main outlives containers.
* *Bounded buffers.* Queues, replay buffer and ports run out, and the code says
  what a client will notice of it.
* *Attribution.* A harness answers in its own time; turns are abandoned, time
  out or overlap, and events carry no name of the turn they belong to.
* *Threads.* Account routes, the chat router and the events route run beside
  the loop, and every registry call commits by itself: a route of four calls is
  four transactions, and any other thread may come between two of them.
* *Requests that outlive their caller.* A handler that waits for an event, and
  a thread that an abandoned task had started, go on when nobody wants their
  result any more.

PROJECT.json lists each hazard at its line with the property that covers it.

## Modules

| module | models | role |
|---|---|---|
| `Lifecycle` | manager, session table, docker, reaper, recovery | detailed specification |
| `LifecycleProofs` | | its inductive invariant and theorems |
| `MCLifecycle` | | TLC instances (symmetry) |
| `SessionBus` | bus, subscription, socket pump, frame reconnect | detailed specification |
| `OrderedFeed` | what a surface may be shown | abstract specification, implemented by `SessionBus` |
| `SessionBusProofs` | | its inductive invariants and theorems, the refinement included |
| `MCSessionBus` | | TLC instances, and the check of one shortcut |
| `HarnessProcess` | harness process, its turns, the provisioner's bookkeeping of it | detailed specification |
| `HarnessProofs` | | its inductive invariant and theorems |
| `MCHarnessProcess` | | TLC instances |
| `Transcript` | transcript writer, table `session_events`, events route | detailed specification |
| `TranscriptProofs` | | its invariants and theorems |
| `MCTranscript` | | TLC instances (symmetry) |
| `Channel` | channel queue, the long poll that drains it, relays, the token they use | detailed specification, implements `OrderedFeed` |
| `ChannelProofs` | | its invariants, theorems and the refinement |
| `MCChannel` | | TLC instances |
| `ChatRouter` | which session a chat talks to: router, bindings, deletion | specification, composed into `Telegram` |
| `ChatRouterProofs` | | its theorems |
| `Telegram` | supervisor, pollers, bots, Telegram's own queue; instantiates `ChatRouter` | detailed specification |
| `TelegramProofs` | | its invariants and theorems, the router's among them |
| `MCTelegram` | | TLC instances (symmetry) |
| `Accounts` | account and administration routes, tables `users`, `credentials`, `auth_tokens` | detailed specification |
| `AccountsProofs` | | its invariants and theorems |
| `MCAccounts` | | TLC instances (symmetry) |

### Lifecycle

| variable | code |
|---|---|
| `rows` | table `sessions`: `status`, `container_id`, `app_port`, and whether `last_active` is older than the idle cutoff. `done` behaves as `active` everywhere and is folded into it |
| `boxes`, `runs` | docker: the container running under the session's `--name`, its id and published port |
| `late` | docker: runs whose caller is gone, still to be carried out |
| `lock`, `slot` | `_provision_locks[s]` and `semaphore`, both first come first served |
| `inFlight` | `_in_flight` |
| `task` | coroutines suspended at an await; `pc` names the await |
| `reaper` | the sweep in progress, with the rows still to look at |
| `boot` | recovery, which finishes before the first request is served |

The code between two awaits is one action. `EnsureRunning` is ensure_running up
to its first await (`lock`, or the docker call when the lock is free),
`LockGranted` the re-read under the lock, `DockerRun` what docker does
(succeed or fail), `Provisioned` and `ProvisionFailed` the way out through both
context managers and, for a turn, straight into the wait for its slot
(`Continue`, `EnterTurn`). `EndTurn` and `AbortTurn` are the two exits of the
generator: the harness ends or times out, or the requester goes away.
`Kill`/`DockerKilled`/`Killed` are stop, archive and delete around their docker
call. `HarnessSpeaks` stands for the two places where harness output stamps
`last_active`. `Crash` drops everything in memory; `Recover`, `RemoveOrphan`
and `Serve` are recover() and the end of start-up, with docker allowed to fail
each call. A `docker run` in progress at the crash is a child process and goes
on: it is moved to `late`, and `LateRun` carries it out, or not, at any time
after the crash, before, during or after recovery's listing. A container it
brings up is `stray`. One is `forsaken` when the row gave it up while it was
running: docker failed to stop it, a stop that had read an earlier id cleared
the row, or recovery's `docker ps` failed. Session ids are not reused, so a
deleted row does not return.

### SessionBus and OrderedFeed

`bus` is the current SessionBus of one session, `sub` each frame's
Subscription together with the pump of its socket, `wire` the socket's buffer,
`conn` and `lastSeq` the frame's. publish, subscribe and close do not yield, so
each is one action; `Pump`, `Receive` and `Drop` interleave with them.
Sequence numbers start again with every bus, in the model as in the code; the
field `base` of a message numbers events over all buses, and only the
properties read it. `view` records what a frame was shown, was told of, and
lost. A turn fetches the session's bus when it begins and keeps the object
(`holds`): after `Discard` it holds a `closed` bus, which gives its events back
without a number (`GiveBack`); only their number is kept, in `unstamped`. `Backfilled` states at once what `_put` in a loop does;
MCSessionBus has TLC check that as an ASSUME.

`OrderedFeed` says what a surface may be shown: events of the session, each at
most once, in order, perhaps not all. `SessionBus` implements it with
`shown <- view[c].shown` (property `ShowsInOrder`, theorem `ShownInOrder`).

### HarnessProcess

| variable | code |
|---|---|
| `tracked` | `_harnesses[s]`, `_harness_containers[s]` of one session |
| `harness` | the HarnessProcess objects: `_process`, `_turn`, `_send_lock` |
| `procs` | the `docker exec` processes: input not answered yet, output not read yet, whether a reader task is on it, whether asyncio knows it is gone |
| `turns` | the generators of run_turn: the await each is at, its object, its Turn queue |
| `inpipe` | prompts written that a process has not read to the end: their turns are at the await of drain() |
| `deaf` | processes whose reader failed on a line it cannot take, and waits for them to exit |
| `abandoned` | objects whose outstanding turn was cancelled at the drain: what comes for it is queued for nobody |
| `stopper` | DockerProvisioner.stop between its awaits |

`Ask` is run_turn and _harness up to their first await; `Spawned`, `Started`
and `LockGranted` go on from there to the written prompt, which the process
reads at once or later (`TakePrompt`, `DrainFails`); `TakeEvent` is the
generator handing on an event, `CutShort` the timeout or departure that cancels
it, wherever it is: at the drain it leaves the object's `_turn` as it was.
`Read`, `ReadFails` and `ReadEnd` are _pump and _on_exit, `Stop`, `CloseEnds` and
`DockerStops` a stop or remove. The harness (`Answer`, `Wake`, `Die`) is
external: it works off its input in order, each prompt giving some output and
then a last event; an interrupt only makes that last event come sooner. Each
piece of output carries what it answers, which the code does not know and only
the properties read. `clean` records the turns whose prompt found the process
with no work and no unread output.

### Transcript

`stamps` are the events published, with the seq and bus each was given;
`pending` and `runs` the open text run and the chunks of each run; `table` the
rows by seq. write() and flush() are cut where another thread can come between
two operations on the shared dict, list or connection: `WriteText` (setdefault),
`AppendChunk`, `Pop`, `StoreRun`, `StoreEvent`, and the same two halves of a
flush for every request to the events route. An insertion may raise
(`StoreRunFails`, `StoreEventFails`, `ReaderFails`): the run is off `pending` by
then, the event behind it is not written, and publish goes on. `Archive` and
`Restart` begin another bus; a turn that holds the archived one has its events
given back, and write() never sees them (`GiveBack`, `unstamped`). `refused`,
`raced`, `crashed` and `failed` record why an event is missing.

### Channel

| variable | code |
|---|---|
| `status`, `row` | of the session's row: its status, and whether it names a container |
| `token` | `session_tokens`: tokens are numbered, each provisioning rotates it |
| `container` | docker: the token in the running container's environment |
| `provisioning` | ensure_running awaits docker |
| `current`, `made` | `SessionStreams._channels[s]`, and how many queues were made |
| `pending` | `ChannelQueue._pending` of each queue |
| `polls` | handlers of channel_events waiting in take, and whether `_arrived` woke them |
| `shims` | the relays, one for each start of a harness, and the events each has yet to emit |
| `heard`, `lost` | history: what each relay has emitted, and what was lost by which cause |

A queue is made when an event or a poll first asks for one, and discarded by
archive and delete; requests that wait for it go on waiting. `Deliver` is
deliver and put, with the oldest event dropped from a full queue and every
waiting poll woken. `Take` is what one of them does when it resumes: it takes
all there is, or goes back to waiting when another was first. A poll is not
told that its caller is gone (`ConnectionBreaks`, `ShimEnds`): what it takes
then counts as lost under `unheard`. `PollArrives` checks the token, and only
then: a poll of a former container stays. Events a relay had in hand when its
process ended are lost under `died`. `Restart` forgets queues and polls, while
a docker run in progress goes on.

`Channel` implements `OrderedFeed` with `shown <- heard` (property
`ToldInOrder`).

### ChatRouter and Telegram

In `ChatRouter`, `session` and `binding` are the rows of `sessions` and
`surface_bindings`; `calls` are threads in ChatRouter.handle or tap or in an
attach or detach route, `at` naming the SQL statement each makes next;
`deletion` is Registry.delete_session between its two statements, with the
foreign key from bindings to sessions. `Telegram` is composed with it
(`Router == INSTANCE ChatRouter`): its calls of the router are the router's own
actions, so that what is proved of the router carries over to the surface.

| variable of `Telegram` | code |
|---|---|
| `bots` | table `telegram_bots`: token and owner chat |
| `saves` | set_telegram_bot between its read and its write |
| `pollers` | the BotPoller tasks: token, `_offset`, what is left of the batch, and the await each is at (`loop`, `heard`, `work`, `turn`; `enrol` lies between the two registry calls of _authorize); and, as history, what each has taken up |
| `sup` | TelegramSupervisor.run: asleep, reconciling, closing, done; the rows it last read and the poller it awaits |
| `sent`, `confirmed` | Telegram's side: the updates of each bot, and those it forgets because a request's offset said so |
| `dispatched` | history: the updates some poller took up |

Supervisor and pollers are tasks of the loop and switch at awaits; `SaveReads`,
`SaveWrites` and `ThreadRuns` are threads and switch anywhere. Cancelling a
poller ends the task, but not the thread it waits for: its router call goes on.
`PollFails` is an answer that cannot be read, of which the poller dies until
the next reconcile starts another at offset 0. `Shutdown` cancels the
supervisor at whatever await it is.

### Accounts

`users`, `cred` and `tokens` are the three tables. The routes are plain
functions on worker threads and each registry call commits alone, so `call[h]`
is what thread `h` does and `at` the registry call it makes next; what the route
has read so far is in the record. Verifying or deriving a scrypt digest lies
between a read and the write that depends on it, so a login that has verified
a password stores its token later (`CheckDisabled`, `StoreToken`). `Restart`
may strike between any two calls and ends with the start-up's appointment of
an administrator. `late` on a token, and `torn`, are history: the token was
stored after the password it was given for had gone; a change of the user was
cut in two.

## Runs

| run | question | result |
|---|---|---|
| `lifecycle` | do rows, containers, ports, locks, slots and marks agree under turns, stops, deletes, the reaper, dying containers and a restart? | holds |
| `lifecycle_liveness` | does every request return, and is every idle container reaped that was not given up running? | holds |
| `lifecycle_archive` | is an archived session without a container? | violated |
| `bus` | is what is shown in order, what is lost accounted for, and does a slow or cut-off frame catch up? | holds |
| `harness` | has every outstanding turn somebody who will report its end, does a turn put to a quiet harness hear only its own answer, and does every turn end under its ceiling? | holds |
| `harness_answers` | is a turn given output of its own prompt only? | violated |
| `transcript` | is every missing event missing for a known reason, and are rows in the order of the bus? | holds |
| `transcript_restart` | is every event published written? | violated |
| `channel` | is every channel event in one place or lost for a known reason, told in order and once, and told at all while a relay lives? | holds |
| `telegram` | is no update forgotten before it is taken up nor taken up twice by a poller, who becomes and stays the owner of a bot, and when does a deletion fail? | holds, with two exceptions for owners |
| `telegram_liveness` | is every saved bot polled, every update taken up, and does a shutdown end? | holds |
| `accounts` | do names stay unique, tokens and flags follow the password, and does the box keep an administrator, when requests overlap and the server restarts between two statements? | holds |

Bounds. `lifecycle` has two sessions and two handlers that share one port and
one slot: contention for every shared resource needs two, and one port makes
every pair of sessions collide. `MaxRuns = 2` containers and one restart allow
stop, re-provision and a stale stop of the first id, and a docker run that
outlives the restart beside one that does not. Archive and patch are left
to `lifecycle_liveness`, whose one session keeps the graph small enough for
temporal checking. Two things are beyond these bounds. The second exception of
`RecoveryAccountsForBoxes` takes two restarts (with one session and
`MaxCrashes = 2` TLC reaches it); the proof covers it. A sweep that raises on a
deleted session and keeps other containers waiting takes three sessions, which
is more than TLC can do with a temporal property in minutes. `bus` uses queues of 2 and 3 against a replay buffer of 2,
so that one frame overflows during replay (as 512 < 2048 does) and the other
overflows only live; four events overflow the longer queue with the one message
of the socket, and age out of the buffer; a second bus makes the numbering start
again, and one turn can hold the first bus over its end. `harness` has two turns,
two processes, one wake-up and one stop: enough for a turn waiting on the lock
of an object that is closed and started again, for two turns that both find no
harness and spawn one each, and for a stop during either. The constants `Slow`
and `Wordy` say which processes may leave a prompt in the pipe and which may
write a line beyond the reader's limit: the first one in the run (the proofs take
them as arbitrary sets). The violated run leaves both empty, so that its trace needs neither. `transcript`
has four events, three buses, one turn and two readers: a run of two chunks, an
event that ends it, and a collision of rows of two buses, with a flush on three
threads at once.

`channel` has a queue of two (256 in the code) and three events, so that it
overflows once; two relays and two polls, so that a dead poll and a live one
wait for the same queue; two queues and two tokens, so that a former container's
poll meets a rotation and a former queue outlives its session; and one fault, a
broken connection or a restart. `telegram` has one user and two bot tokens (a
token change and a change back), two chats (an owner and another), one session,
two router threads (one abandoned by a cancelled poller, one of its successor),
two saving threads, two updates and one crash. `telegram_liveness` drops to one
chat, one thread of each kind and one update. `accounts` has two users, two
names and one token, two threads and five requests: a register and a login, a
change, and one more that overlaps it; and one restart.

CHECK_DEADLOCK is FALSE in all runs because the bounds on processes, events,
requests and restarts, deletion of every session, and turns that have all ended
let an instance stop.

Fairness. `Lifecycle`: weak fairness per handler, for the reaper and for
recovery: asyncio resumes what is ready, docker calls return, a turn is bounded
by `turn_timeout_seconds` of silence, the reap loop sleeps a fixed interval,
and the service manager restarts the process. Nothing is assumed of clients,
time or docker's success. `SessionBus`: weak fairness per frame for connecting,
pumping and receiving (`setTimeout(connect, 3000)`, a socket that is read).
`CatchesUp` excuses one case, where the bus was closed under the frame: the
pump returns and leaves the socket open (`server.py:870-873`).
`HarnessProcess`: weak fairness for each turn alone: its coroutine is resumed
with the lock, with an event its requester takes, or by the silence timeout
(`TimeOut`: it strikes a turn that has no event, and one at the drain; of a turn
that waits for the lock it is not assumed). Nothing is assumed of the harness,
which may be silent for ever, leave its prompt unread or be read by nobody, of
its readers, nor of a stop: `TurnsEnd` says that the ceiling is enough. `Channel`: weak fairness
for each relay and each poll: every wait of theirs has a timeout (the poll's own,
the relay's backoff), and the harness reads the relay's output. Deliveries,
provisioning and the containers' ends are not assumed. `Telegram`: weak fairness
for the supervisor (a timer wakes it) and for the router's threads; strong
fairness for each poller, because a poller that is ready stays in the event
loop's queue, while in the model another task in the middle of two registry
calls disables it for a moment. That a turn ends rests on its silence timeout.
Nothing is assumed of saves, senders or crashes. `Accounts`, `ChatRouter` and
`Transcript` have safety properties only.

### What the violated runs show

* `lifecycle_archive`: a start waits for docker; the session is archived; the
  start records its container on the archived row. No one looks at `status`
  after the wait (`sessions.py:107`).
* `harness_answers`: a turn is cut short while the harness answers; `_turn` and
  the lock are given up (`harness_process.py:117`), the next prompt is written
  behind the first, and the rest of the first answer goes to the second turn,
  which its last event ends. `CleanTurnOwnsItsOutput`, in `harness`, is what
  remains true.
* `transcript_restart`: one event is stored as row 1, the session is archived,
  the next bus counts from 1 again, and its first event is ignored by
  `INSERT OR IGNORE` (`registry.py:485`). `TranscriptAccounted`, in
  `transcript`, shows that rows of one bus never collide with each other.

### Disagreements that a property names as its exception

These properties hold; each says exactly when a promise of the code's comments
or docs is not kept, and PROJECT.json quotes the promise.

* `RecoveryAccountsForBoxes`: a `docker run` that outlives frame-main
  (`provision.py:538`) can bring its container up after recovery has listed them:
  an orphan until the next restart, in the way of every start of its session. If
  it comes before the listing and the row names another, dead container, the row
  is adopted with the dead id (`sessions.py:395`). `RowNamesItsBox` has the same
  exception.
* `IdleIsReaped`: a container whose row was cleared while it ran is not reaped,
  because reaping starts from the rows: docker failed to stop it and its exit
  code was not looked at (`provision.py:287`), a stop that had read an earlier id
  cleared a new one (`sessions.py:344-345`), or `docker ps` failed at start-up.
* `InFlightHasTurn`: a mark belongs to a turn, but not every turn has one. Of
  two turns of one session, the first to end clears the mark of both
  (`sessions.py:246`), and the reaper may stop the container under the second.
* `LossAccounted`: a queue that overflows live drops its oldest event
  (`bus.py:63`); the reader reads on past the hole, and is not told.
* `LossAccounted`, `TranscriptAccounted`: a turn that outlives its bus publishes
  into a closed one, and its events are numbered, shown and stored nowhere
  (`bus.py:145`).
* `TranscriptAccounted`: a flush that raises loses the run, and the event behind
  it (`transcript.py:57`).
* `TurnIsHeard`: a line longer than 64 KiB ends the reader, which then waits for
  a process that lives (`harness_process.py:159`); the turn, and every later one
  put to that process, waits for its ceiling.
* `TypeOK` of `HarnessProcess`: a turn cancelled at the drain stays the object's
  outstanding turn with the lock released (`harness_process.py:109`); what the
  harness says until the end of that answer reaches nobody.
* `OwnerWroteToBot`: until the supervisor has stopped it, the poller of a former
  token makes whoever writes to the former bot the owner of the new one
  (`surfaces/telegram.py:163`). Without that exception the property is violated in
  eleven states: save, reconcile, save of another token, a message to the first
  bot, its dispatch and the enrolment.
* `GapNeverSent`: the `gap` event that the docs promise never arrives, because
  the replay behind it always overflows the queue that carries it.
* `EventsAccounted`: a poll whose caller is gone swallows events for up to its
  timeout (`bus.py:198`), and a poll of a former container is still answered
  after the rotation of its token (`server.py:898`).
* `LastAdminLostByOverlap`: two administrators who demote or disable each other
  at once both find one left (`server.py:577`).
* `TokensAreCurrent`: a login that had verified the old password stores its
  token after the change has deleted the user's tokens (`server.py:399`).
* `TempMustBeChanged`: when a user's own change and an administrator's reset
  interleave, the one-time password may stay in force without the flag
  (`server.py:461`).
* `StartAppoints`: the start-up appoints the oldest account, which may be
  disabled (`registry.py:130`).
* `OwnerLocked`: the second of two saves of one token may forget an owner
  enrolled between its read and its write (`registry.py:177`).
* `DeleteFailsOnlyByAttach`: a chat that attaches between the two statements of
  a deletion makes it fail (`registry.py:522`).
* `ShutdownEnds`: a supervisor cancelled while it awaits a poller suppresses its
  own cancellation (`surfaces/telegram.py:289`).

## Proofs

For every value of the constants: any number of sessions, handlers, ports,
slots, frames, readers, turns, processes, relays, polls, users, bots, chats and
threads, and every bound:

| theorem | says |
|---|---|
| `TypeCorrect` | `Spec => []TypeOK`, for `Lifecycle` and for `Transcript` |
| `SingleProvisioning` | `Spec => []NoDoubleSpawn` |
| `RowsMatchBoxes` | `Spec => []RowNamesItsBox`, with docker runs that outlive a restart |
| `ProxyIsolation` | `Spec => []ProxyReachesOwnApp` |
| `RecoveryComplete` | `Spec => []RecoveryAccountsForBoxes` |
| `MarksAreCleared` | `Spec => []InFlightHasTurn` |
| `SlotsAreAccounted` | `Spec => []SlotsAccounted` |
| `RequestsNeverDeadlock` | a handler that cannot go on waits for one that can |
| `RequestsKeepTheirOrder` | nobody is overtaken at the lock or the semaphore |
| `RequestsOnlyAdvance` | no step sends a handler back to an await it has passed |
| `GapIsNeverAnnounced` | `Spec => []GapNeverSent` for `SessionBus`, every queue and buffer size |
| `BusTypeOK` | `Spec => []TypeOK` for `SessionBus` |
| `LossesAccounted` | `Spec => []LossAccounted` |
| `ShownInOrder` | `Spec => ShowsInOrder`: `SessionBus` implements `OrderedFeed` |
| `FramesNeverStall` | a frame that is not caught up can take a step, unless its bus was closed under it |
| `CaughtUpIsComplete` | a frame that is caught up was shown or told of every numbered event, or lost it for a known reason; a turn it does not hear holds a closed bus |
| `OrderKept` | `Spec => []TranscriptInOrder` |
| `Accounted` | `Spec => []TranscriptAccounted` |
| `RowsAreKept` | a row that was written never changes |
| `EventsAreWrittenOnce` | no event is in two rows |
| `FirstBusLosesByRaceOrFault` | on its first bus a session loses chunks to the race in write() and what insertions that raised took with them, and nothing else |
| `HarnessTypeOK` | `Spec => []TypeOK` for `HarnessProcess` |
| `EveryTurnIsHeard` | `Spec => []TurnIsHeard` |
| `CleanTurnsOwnTheirOutput` | `Spec => []CleanTurnOwnsItsOutput` |
| `TurnsNeverStall` | for every turn that is not over somebody can take a step, the timeout not counted, or it is left to the harness: a prompt not read, an answer not given, a reader that failed |
| `OnePromptAtATime` | one turn of an object at most is past its send lock |
| `TurnsOnlyAdvance` | a turn goes one way, and stays over when it is over |
| `ChannelTypeOK` | `Spec => []TypeOK` for `Channel`, lost wake-ups included |
| `ChannelEventsAccounted` | `Spec => []EventsAccounted` |
| `ChannelToldInOrder` | `Spec => ToldInOrder`: `Channel` implements `OrderedFeed` |
| `SettledForGood` | an event told or lost is never queued, told or lost again |
| `RouterTypeOK` | `Spec => []TypeOK` for `ChatRouter` |
| `DeletesFailOnlyByAttach` | `Spec => DeleteFailsOnlyByAttach` for `ChatRouter` |
| `SurfaceTypeOK` | `Spec => []TypeOK` for `Telegram` |
| `NoUpdateIsSkipped` | `Spec => []NoUpdateSkipped` |
| `PollersNeverRepeat` | `Spec => []NoPollerRepeats` |
| `OwnersWroteToTheirBot` | `Spec => OwnerWroteToBot` |
| `OwnersAreLocked` | `Spec => OwnerLocked` |
| `SurfaceDeletesFailOnlyByAttach` | the router's theorem, for the surface |
| `IdlePollersAreCaughtUp` | a poller with nothing to do leaves no update of its bot that was not taken up |
| `ShutdownLeavesNoPoller` | a supervisor that has ended leaves no poller, and none is started after it |
| `ReconcileRestoresPollers` | after each reconcile every bot it read has a running poller of its token, and no one else has |
| `AccountsTypeOK` | `Spec => []TypeOK` for `Accounts` |
| `UsernamesAreUnique` | `Spec => []UsernamesUnique` |
| `TokensStayCurrent` | `Spec => []TokensAreCurrent` |
| `TempPasswordsExpire` | `Spec => []TempMustBeChanged` |
| `LastAdminNeedsOverlap` | `Spec => LastAdminLostByOverlap` |
| `StartAppointsAnAdmin` | `Spec => StartAppoints` |
| `LoginsAreKept` | a login keeps its name; what rewrites it makes a further password |

Assumptions: the ASSUMEs of the modules (ports are naturals other than 0, at
least one slot, positive queue sizes, natural bounds, finitely many users, and
`None` different from everything it stands beside), which TLC evaluates in the
runs.

None of the lifecycle invariants is inductive. They follow from one inductive
invariant (`LifecycleProofs`, theorem `Invariance`) that adds: types; a handler
inside the lock is at the head of its session's queue, and only there, so there
is one per session; a row is without a container while its provisioning is in
progress; ids are handed out once, so the id in any stale local (a stop, the
reaper) is older than the one about to be recorded; and the port a provisioning
asked for is the one its container got. Of a docker run that outlives a restart
it says no more than that its container is marked as stray and has the newest
id, so that one which appears after recovery's listing can be told by its id
from those that were listed. The proof has a lemma per action.

The queues have an invariant of their own, `WaitInv`. `SlotInv`: the semaphore's
value and its holders add up to the number of slots, so that nobody waits while
one is free; the waiters are those handlers that are at that await, each once.
`LockInv`: who waits for a session's lock is in its queue, of which, by the first
invariant, only the head is past the wait. `SlotsAccounted` is a part of
`SlotInv`. `NoDeadlock` follows with one more fact, that a handler takes the
lock before the slot and waits for no lock while it has one: whoever cannot go
on waits for a handler that can, or for one at the head of a lock that waits for
a slot whose holder can.

`GapIsNeverAnnounced` needs that a replay buffer's events are consecutive and
that a gap is only made when the buffer is full: then the replay is longer than
the queue, and the first element is the one evicted.

`LossesAccounted` and `ShownInOrder` share a second invariant of
`SessionBusProofs`, `DeliveryInv`. `StreamInv`: the buffer holds events of the
current bus, whose base and seq add up to what was published. `FrameInv`: the
`lastSeq` of a frame is the seq of the last event it has shown, on that event's
bus, and if that is not the current bus then the event is from before its base.
`FlowInv` has two parts. `InOrder`: socket and queue carry increasing numbers,
all beyond what was shown. `Complete`: whatever comes before a message is
settled or itself on its way, up to the terminator of an overflowed queue, and
up to the last event published for a reader that keeps up. The one hard step is
the reconnect. `ReplayContiguous` shows that the replay has no hole between
`since` and the last event, `BackfillComplete` that putting it on a queue too
short for it evicts its first element and nothing else, and `ConnectFlow` that
what lies below `since` was settled before or is never asked for.

That a turn publishes on the session's bus or on a closed one (`TurnInv`) rests
on one thing: a bus is replaced only by a discard, which closes it, or by a
restart, which ends the turns.

`FramesNeverStall` needs what the socket still owes a frame (`ForwardInv`): a
pump that is off the bus has a terminator ahead of it on its queue, and one that
has returned was closed with its bus, which is the excused case, or overflowed,
and then a close frame is on the socket or the connection is gone.

`OrderKept` is not inductive: that a row of a later seq holds later events only
depends on runs that are still open. `IInv` in `TranscriptProofs` says that seqs
go up within a bus; that a run begins with its own first event, stays on one bus
and lies between two *heads* (first events of runs, and events stored alone);
that the run which may still grow is behind every head; and that a row has a
head under its own seq. `Accounted` needs a second invariant on top of it: what
is in some thread's hand is in no row yet, so the row that refuses it was begun
by another event with the same seq, which then is of another bus. On the first
bus there is none, which gives `FirstBusLosesByRaceOrFault`. A failed insertion
moves its events from hand to `failed`, and an event given back by a closed bus
needs a turn whose bus was archived.

`HarnessProofs`. That someone will hear of a turn's end is a matter of three
links, and a step may cut any of them: the lock of an object lists each waiter
once, the holder first (`LockInv`); the turn an object has is the holder's and
its end is still to come (`OutstandingInv`); and the process an object has is
read for as long as it can write (`ReaderInv`). For a turn whose prompt found
the process quiet, `CleanInv` adds that all it wrote since, up to the end of
the answer, is for that turn, and that it is still at its prompt until then.
Each action has a lemma; what several actions do to the links (routing an event,
leaving the lock, detaching a process) is stated once and cited.
`PipeInv` adds the types of what is in the pipes, and that an object left with an
abandoned turn has no other. `TurnsNeverStall` adds that an object's process was
started, and that while it is up and its object has a turn, it has a prompt or
an answer to work at or an end to be read (`OwesInv`): a prompt leaves work
behind, and work is only done by writing the end of an answer. What is left to
the harness (`LeftToHarness`) is exactly what the ceiling is there for.

`ChannelProofs`. `CallerInv` says that each poll has at most one relay waiting
for it; `QueueInv` that queues are made one after the other and hold events in
order, those of a later queue being later; `RelayInv` that what a relay has in
hand comes after what it has told; `FrontInv` that what it can still be given
comes after both. From these the refinement follows. The accounting has one
lemma, `Transfer`: a step that moves a set of events from one place to another
and leaves the rest alone keeps every event in one place; each action is a
choice of the two places. `SettledForGood` adds that what was told or lost only
grows, and so the one place an event is in stays the one.

`TelegramProofs`. A poller goes through its updates one by one, everything below
its next one has been taken up, and its offset, which is what makes Telegram
forget, is not above it (`FeedInv`). Whoever `_authorize` is about to enrol has
written to the poller's bot and the bot has no owner yet, because the loop does
nothing else in between (`EnrolInv`); asleep, the supervisor has no poller but
those of the rows it last read (`SleepInv`). So an owner wrote to the bot, or
the poller is one of a token that the supervisor has not read, or not stopped.
A save that will write the owner had read another token (`SavesInv`). What a
poller has yet to take up is above all it has taken up (`TookInv`). That the
surface keeps to the router's specification is a lemma and no result, since its
actions are composed of the router's; it carries the router's theorems over.
`IdlePollersAreCaughtUp` is `FeedInv` with the observation that an answer which
would tell a poller nothing new ends where it has got to.

`AccountsProofs`. Besides types: which requests come to which registry call and
what each has read by then (`CallsOK`); an account that is about to be given
its login has none and nobody else is about to give it one (`FreshInv`); and a
user whose change is about to clear the flag has a password of his own by then,
or the change was torn (`ChosenInv`). `LastAdminNeedsOverlap` counts: one who removes an
administrator had counted two, so when none is left the count has gone down
since; this is where finiteness of the set of users is needed. `LoginsAreKept`
needs that the name a change or reset has read is still the login's when it
writes (`NamesInv`), which `FreshInv` gives for the writers that read none.

Out of the prover's reach and checked by TLC alone: liveness (`RequestsFinish`,
`IdleIsReaped`, `CatchesUp`, `TurnsEnd`, `BotIsPolled`, `UpdateIsDispatched`,
`ShutdownEnds`, `EventsAreSettled`), since the provers have neither ENABLED nor
fairness. What such a property rests on besides fairness is proved for most of
them: that nobody waits for nobody (`RequestsNeverDeadlock`, `FramesNeverStall`,
`TurnsNeverStall`), that steps lead forward (`RequestsOnlyAdvance`,
`TurnsOnlyAdvance`, `RequestsKeepTheirOrder`), and that where things come to rest
is where they should be (`CaughtUpIsComplete`, `IdlePollersAreCaughtUp`,
`ShutdownLeavesNoPoller`, `ReconcileRestoresPollers`, and `TypeOK` of `Channel`,
by which no wake-up is lost). The guards in these theorems are written out
(`Ready`, `TurnReady`, `ProcReady`, `Busy`); that they are the enabling conditions
of the actions is not proved. Nothing of the kind is proved for `IdleIsReaped`, which is a matter of
the sweep coming round.

## Not modelled

* A client that disconnects during `docker run` cancels the handler there, and
  the docker client may still succeed: a stray container like that of a crash,
  which `LateRun` has only for crashes.
* In `Lifecycle`, the sub-steps of a stop (the harness is closed before docker
  is called; `HarnessProcess` has them). `HarnessProcess` takes one session and
  one container; harnesses that cannot be fed over stdin are left out.
* In `Transcript`, `outcome`, the deletion of a session with its rows, and an
  insertion that is executed and whose commit fails. In `Lifecycle`, a flush
  that raises in the middle of an archive, which then leaves the row as it was
  (`Transcript` has its effect on the bus).
* In `Channel`, events without content (they are not relayed), a connection that
  breaks while an answer is on its way, a `docker rm` that fails during an
  archive, and replies, which leave nothing behind but an event on the bus.
* In `Accounts`, the digests, cookies, the first login given by the environment,
  display names and the listings. In `Telegram`, transcription, the edits of an
  answer that is being streamed, and wording.
* The harness vocabulary (`harness.py`): it parses lines of JSON into events and
  keeps no state; its result is the set of events `HarnessProcess` chooses from.
* Workspaces and the commit hook: git and files on the host and in the
  container, with no state in frame-main that follows from them. The proxy to a
  session's app passes bytes; whom it reaches is `ProxyReachesOwnApp`. Skills, voice and
  configuration: input and output only.
* The docker label filter and image contents.
* Clock arithmetic: `stale` in `Lifecycle` and `expired` in `Accounts` may
  become true at any time.

## Plan

1. `outcome` in `Transcript`, composed with `Lifecycle`'s turns.
2. `PromptQueue`: a frame's queue and `inFlight` against lost results, and
   background turns that report on the bus only.
3. Cancellation during `docker run` in `Lifecycle`, and a fleet of idle sessions
   against the range of ports.
