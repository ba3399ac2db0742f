------------------------------ MODULE Channel ------------------------------
(***************************************************************************)
(* The channel of a session: what deliver queues in frame-main             *)
(* (src/sessions.py, ChannelQueue and SessionStreams of src/bus.py), the   *)
(* long poll that drains it (src/server.py), and the relay that polls from *)
(* inside the container (src/sandbox/channel.py).  Replies go the other    *)
(* way, to the session's bus, and leave nothing behind here.               *)
(*                                                                         *)
(* The server's handlers are tasks of one event loop: each action below is *)
(* what one of them does between two awaits.  A handler that waits for an  *)
(* event is not told that its caller has hung up.                          *)
(***************************************************************************)
EXTENDS Naturals, Sequences

CONSTANTS
    Shims,          \* relays, one for each start of a harness
    Polls,          \* requests for channel events
    QueueMax,       \* CHANNEL_QUEUE_MAX
    MaxEvents,      \* bound: events delivered
    MaxQueues,      \* bound: ChannelQueue objects made
    MaxTokens,      \* bound: times the channel token is rotated
    MaxFaults,      \* bound: connections broken and restarts of frame-main
    None

ASSUME QueueAssumption == QueueMax \in Nat \ {0} /\ MaxQueues \in Nat

VARIABLES
    status,         \* of the session's row, or gone with it
    token,          \* session_tokens: tokens are numbered
    row,            \* the row names a container
    container,      \* the token in the running container's environment, or 0
    provisioning,   \* ensure_running awaits docker
    current,        \* SessionStreams._channels: the session's queue, or 0
    made,           \* queues made so far
    pending,        \* ChannelQueue._pending, by queue: events are numbered
    polls,          \* channel_events, waiting in take
    shims,
    accepted,       \* events accepted so far
    heard,          \* history: what each relay has emitted
    lost,           \* history: events lost, by cause
    faults

vars == <<status, token, row, container, provisioning, current, made, pending, polls,
          shims, accepted, heard, lost, faults>>

sessionVars == <<status, token, row, container, provisioning>>
queueVars == <<current, made, pending, accepted>>

----------------------------------------------------------------------------
(* Types *)

Queues == 1 .. MaxQueues

\* woken: _arrived was set while it waited.
Poll == [queue: Queues, woken: BOOLEAN]

\* idle: about to poll; poll: the request it awaits; batch: what it has yet to
\* emit, of the events it was given; ended: its process is no more.
Shim == [at: {"idle", "poll", "emit", "backoff", "ended"}, token: Nat,
         poll: Polls \cup {None}, batch: Seq(Nat)]

ASSUME NoneAssumption == None \notin Polls \cup Poll \cup Shim

Causes == {"overflow", "unheard", "died"}

Elements(seq) == {seq[i] : i \in 1 .. Len(seq)}

Live(s) == shims[s] # None /\ shims[s].at # "ended"
At(s, at) == shims[s] # None /\ shims[s].at = at

\* The next of the requests or relays not used yet: which one does not matter.
Fresh(table) ==
    LET unused == {x \in DOMAIN table : table[x] = None}
    IN  IF unused = {} THEN {} ELSE {CHOOSE x \in unused : TRUE}

\* Who awaits the answer to a request: nobody, if the connection is gone.
Callers(p) == {s \in Shims : At(s, "poll") /\ shims[s].poll = p}

Waiting(q) == {p \in Polls : polls[p] # None /\ polls[p].queue = q}

----------------------------------------------------------------------------
(* Requests *)

\* SessionStreams.channel: the session's queue, made if there is none.
Channel(q) ==
    \/ /\ current # 0 /\ q = current
       /\ UNCHANGED <<current, made>>
    \/ /\ current = 0 /\ made < MaxQueues /\ q = made + 1
       /\ current' = q /\ made' = q

\* A full queue gives up its oldest event.
Push(q, n) ==
    IF Len(pending[q]) < QueueMax
    THEN /\ pending' = [pending EXCEPT ![q] = Append(@, n)]
         /\ UNCHANGED lost
    ELSE /\ pending' = [pending EXCEPT ![q] = Append(Tail(@), n)]
         /\ lost' = [lost EXCEPT !["overflow"] = @ \cup {Head(pending[q])}]

PutUnwoken(q, n) == Push(q, n) /\ UNCHANGED polls

\* ChannelQueue.put: everybody who waits is woken.
Put(q, n) ==
    /\ Push(q, n)
    /\ polls' = [p \in Polls |-> IF p \in Waiting(q) THEN [polls[p] EXCEPT !.woken = TRUE]
                                 ELSE polls[p]]

\* POST /channel/deliver: refused for a session that is archived or gone.
Deliver ==
    /\ status = "active" /\ accepted < MaxEvents
    /\ accepted' = accepted + 1
    /\ \E q \in Queues : Channel(q) /\ Put(q, accepted')
    /\ UNCHANGED <<sessionVars, shims, heard, faults>>

Given(s, batch) ==
    [shims EXCEPT ![s].at = IF batch = <<>> THEN "idle" ELSE "emit",
                  ![s].poll = None, ![s].batch = batch]

Refused(s) == [shims EXCEPT ![s].at = "backoff", ![s].poll = None]

\* GET /channel/events: 401 without the current token, 404 without the
\* session; what is pending is answered at once.
PollArrives(s) ==
    /\ At(s, "idle")
    /\ IF status = "gone" \/ shims[s].token # token
       THEN shims' = Refused(s) /\ UNCHANGED <<current, made, pending, polls>>
       ELSE \E q \in Queues :
                /\ Channel(q)
                /\ IF pending[q] # <<>>
                   THEN /\ shims' = Given(s, pending[q])
                        /\ pending' = [pending EXCEPT ![q] = <<>>]
                        /\ UNCHANGED polls
                   ELSE \E p \in Fresh(polls) :
                        /\ polls' = [polls EXCEPT ![p] = [queue |-> q, woken |-> FALSE]]
                        /\ shims' = [shims EXCEPT ![s].at = "poll", ![s].poll = p]
                        /\ UNCHANGED pending
    /\ UNCHANGED <<sessionVars, accepted, heard, lost, faults>>

\* The answer of a request, to whoever still awaits it.
Answer(p, batch) ==
    /\ polls' = [polls EXCEPT ![p] = None]
    /\ IF Callers(p) = {}
       THEN /\ lost' = [lost EXCEPT !["unheard"] = @ \cup Elements(batch)]
            /\ UNCHANGED shims
       ELSE /\ shims' = Given(CHOOSE s \in Callers(p) : TRUE, batch)
            /\ UNCHANGED lost

TakeKeeping(p) ==
    /\ polls[p] # None /\ polls[p].woken
    /\ Answer(p, pending[polls[p].queue])
    /\ UNCHANGED <<sessionVars, current, made, pending, accepted, heard, faults>>

\* ChannelQueue.take, woken: the first of those who waited gets everything,
\* the others an empty batch.
Take(p) ==
    /\ polls[p] # None /\ polls[p].woken
    /\ Answer(p, pending[polls[p].queue])
    /\ pending' = [pending EXCEPT ![polls[p].queue] = <<>>]
    /\ UNCHANGED <<sessionVars, current, made, accepted, heard, faults>>

\* The timeout of take, which may also win over an event that is there.
TimesOut(p) ==
    /\ polls[p] # None
    /\ Answer(p, <<>>)
    /\ UNCHANGED <<sessionVars, queueVars, heard, faults>>

----------------------------------------------------------------------------
(* The relay *)

\* The harness reads one notification.
Emit(s) ==
    LET batch == shims[s].batch
    IN  /\ At(s, "emit")
        /\ heard' = [heard EXCEPT ![s] = Append(@, Head(batch))]
        /\ shims' = Given(s, Tail(batch))
        /\ UNCHANGED <<sessionVars, queueVars, polls, lost, faults>>

\* pump: a poll that failed is made again, after a pause.
BackoffForever(s) == At(s, "backoff") /\ FALSE /\ UNCHANGED vars
BackoffEnds(s) ==
    /\ At(s, "backoff")
    /\ shims' = [shims EXCEPT ![s].at = "idle"]
    /\ UNCHANGED <<sessionVars, queueVars, polls, heard, lost, faults>>

\* A connection breaks; the request goes on.
ConnectionBreaks(s) ==
    /\ At(s, "poll") /\ faults < MaxFaults
    /\ faults' = faults + 1
    /\ shims' = Refused(s)
    /\ UNCHANGED <<sessionVars, queueVars, polls, heard, lost>>

\* A harness is started in the container, and starts its relay.
ShimStarts(s) ==
    /\ s \in Fresh(shims) /\ container # 0
    /\ shims' = [shims EXCEPT ![s] = [at |-> "idle", token |-> container,
                                      poll |-> None, batch |-> <<>>]]
    /\ UNCHANGED <<sessionVars, queueVars, polls, heard, lost, faults>>

DieAll(dying) ==
    /\ shims' = [s \in Shims |->
                    IF s \in dying
                    THEN [shims[s] EXCEPT !.at = "ended", !.token = 0, !.poll = None, !.batch = <<>>]
                    ELSE shims[s]]
    /\ lost' = [lost EXCEPT !["died"] = @ \cup UNION {Elements(shims[s].batch) : s \in dying}]

\* The harness is closed or dies, and the relay with it.
ShimEnds(s) ==
    /\ Live(s)
    /\ DieAll({s})
    /\ UNCHANGED <<sessionVars, queueVars, polls, heard, faults>>

----------------------------------------------------------------------------
(* The session and its container *)

\* ensure_running rotates the token before it awaits docker.  It does not ask
\* again, once it has the lock, whether the session is archived.
Provision ==
    /\ status # "gone" /\ ~row /\ ~provisioning /\ token < MaxTokens
    /\ token' = token + 1
    /\ provisioning' = TRUE
    /\ UNCHANGED <<status, row, container, queueVars, polls, shims, heard, lost, faults>>

\* docker run may fail, and refuses a second container of that name.
DockerRuns ==
    \/ container = 0 /\ container' = token
    \/ UNCHANGED container

Provisioned ==
    /\ provisioning
    /\ provisioning' = FALSE
    /\ DockerRuns
    /\ row' = (container' # container)
    /\ UNCHANGED <<status, token, queueVars, polls, shims, heard, lost, faults>>

\* It is stopped or removed, or dies with nobody told.
ContainerEnds ==
    /\ container # 0
    /\ container' = 0
    /\ row' \in {row, FALSE}
    /\ DieAll({s \in Shims : Live(s)})
    /\ UNCHANGED <<status, token, provisioning, queueVars, polls, heard, faults>>

\* archive and delete discard the queue, after removing the container the row
\* names (a docker rm that fails is left out); requests that wait for the queue
\* go on.
Discard ==
    /\ status # "gone" /\ (row => container = 0)
    /\ status' \in {"archived", "gone"}
    /\ current' = 0 /\ row' = FALSE
    /\ UNCHANGED <<token, container, provisioning, made, pending, polls, shims, accepted,
                   heard, lost, faults>>

\* PATCH may make it active again.
Reopen ==
    /\ status = "archived"
    /\ status' = "active"
    /\ UNCHANGED <<token, row, container, provisioning, queueVars, polls, shims, heard,
                   lost, faults>>

\* stop, of a container that is dead already.
RowCleared ==
    /\ row /\ container = 0
    /\ row' = FALSE
    /\ UNCHANGED <<status, token, container, provisioning, queueVars, polls, shims, heard,
                   lost, faults>>

\* frame-main restarts: queues and requests are gone, a docker run goes on.  A
\* docker ps that fails clears the row of a container that lives.
Restart ==
    /\ faults < MaxFaults
    /\ faults' = faults + 1
    /\ current' = 0
    /\ provisioning' = FALSE
    /\ IF provisioning THEN DockerRuns ELSE UNCHANGED container
    /\ row' \in {row, FALSE}
    /\ polls' = [p \in Polls |-> None]
    /\ shims' = [s \in Shims |-> IF At(s, "poll")
                                 THEN [shims[s] EXCEPT !.at = "backoff", !.poll = None]
                                 ELSE shims[s]]
    /\ UNCHANGED <<status, token, made, pending, accepted, heard, lost>>

----------------------------------------------------------------------------

Init ==
    /\ status = "active"
    /\ token = 0 /\ row = FALSE /\ container = 0 /\ provisioning = FALSE
    /\ current = 0 /\ made = 0
    /\ pending = [q \in Queues |-> <<>>]
    /\ polls = [p \in Polls |-> None]
    /\ shims = [s \in Shims |-> None]
    /\ accepted = 0
    /\ heard = [s \in Shims |-> <<>>]
    /\ lost = [c \in Causes |-> {}]
    /\ faults = 0

ShimStep(s) == PollArrives(s) \/ Emit(s) \/ BackoffEnds(s)
PollStep(p) == Take(p) \/ TimesOut(p)

Next ==
    \/ Deliver
    \/ \E s \in Shims : ShimStep(s) \/ ConnectionBreaks(s) \/ ShimStarts(s) \/ ShimEnds(s)
    \/ \E p \in Polls : PollStep(p)
    \/ Provision \/ Provisioned \/ ContainerEnds \/ RowCleared
    \/ Discard \/ Reopen \/ Restart

Spec == Init /\ [][Next]_vars

\* Both processes run, and every wait of theirs has a timeout.
Fairness ==
    /\ \A s \in Shims : WF_vars(ShimStep(s))
    /\ \A p \in Polls : WF_vars(PollStep(p))

FairSpec == Spec /\ Fairness

----------------------------------------------------------------------------
(* Properties *)

\* The types; and no wake-up is lost: whoever waits for a queue with events
\* has been woken.
TypeOK ==
    /\ status \in {"active", "archived", "gone"}
    /\ token \in Nat /\ container \in 0 .. token /\ row \in BOOLEAN /\ provisioning \in BOOLEAN
    /\ made \in 0 .. MaxQueues /\ current \in {0, made}
    /\ pending \in [Queues -> Seq(1 .. accepted)]
    /\ polls \in [Polls -> Poll \cup {None}]
    /\ shims \in [Shims -> Shim \cup {None}]
    /\ accepted \in Nat /\ faults \in Nat
    /\ heard \in [Shims -> Seq(1 .. accepted)]
    /\ lost \in [Causes -> SUBSET (1 .. accepted)]
    /\ \A q \in Queues : Len(pending[q]) <= QueueMax
    /\ \A s \in Shims : At(s, "poll") => polls[shims[s].poll] # None
    /\ \A p \in Polls : polls[p] # None /\ pending[polls[p].queue] # <<>> => polls[p].woken

\* Where an event can be: a queue (the session's, or one that was discarded or
\* died with the server), a relay's hands, a harness's context, or lost.
Places == ({"queued"} \X Queues) \cup ({"given", "heard"} \X Shims) \cup ({"lost"} \X Causes)

Holds(place, n) ==
    \/ place[1] = "queued" /\ n \in Elements(pending[place[2]])
    \/ place[1] = "given" /\ shims[place[2]] # None /\ n \in Elements(shims[place[2]].batch)
    \/ place[1] = "heard" /\ n \in Elements(heard[place[2]])
    \/ place[1] = "lost" /\ n \in lost[place[2]]

\* Every event that was accepted is in one place: none arrives twice, and none
\* is lost but by an overflow, to a request whose caller was gone, or with a
\* relay that died with it in hand.
EventsAccounted ==
    \A n \in 1 .. accepted : \E place \in Places :
        \A other \in Places : Holds(other, n) <=> other = place

\* A harness is told events in the order they were delivered, none of them
\* twice: what OrderedFeed promises.
Feed == INSTANCE OrderedFeed WITH Clients <- Shims, published <- accepted, shown <- heard
ToldInOrder == Feed!Spec

\* A relay of the session's own container lives.
Connected == status # "gone" /\ \E s \in Shims : Live(s) /\ shims[s].token = token

\* While the session has a relay its queue is emptied, and what relays have in
\* hand is told: with EventsAccounted, every event is told or lost, unless the
\* queue is discarded first or no relay is left.
EventsAreSettled ==
    (Connected /\ current # 0)
        ~> (\/ ~Connected \/ current = 0
            \/ pending[current] = <<>> /\ \A s \in Shims : ~At(s, "emit"))
=============================================================================
