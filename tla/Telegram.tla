------------------------------ MODULE Telegram ------------------------------
(***************************************************************************)
(* The Telegram surface (src/surfaces/telegram.py): one BotPoller per user *)
(* with a bot, kept in step with the table telegram_bots by the            *)
(* TelegramSupervisor, and what it hands to the ChatRouter.                *)
(*                                                                         *)
(* Pollers and supervisor are tasks of the event loop and switch at their  *)
(* awaits only; the routes that save and clear a bot run on worker threads *)
(* and switch between any two registry calls.                              *)
(***************************************************************************)
EXTENDS Naturals, Sequences, FiniteSets

CONSTANTS
    Users,
    BotTokens,
    Chats,
    Sessions,
    Calls,          \* worker threads running the router
    Clients,        \* worker threads saving a bot
    MaxUpdates,     \* bound: updates sent to the bots
    MaxSaves,       \* bound: times a bot is saved
    MaxCrashes,     \* bound: pollers that die of an unreadable answer
    None

VARIABLES
    bots,       \* telegram_bots
    saves,      \* calls of set_telegram_bot in progress
    pollers,    \* the tasks, by user
    sup,        \* TelegramSupervisor.run
    sent,       \* Telegram's updates for each bot: the chat of each
    confirmed,  \* the updates Telegram has forgotten: up to this id
    dispatched, \* history: the updates of each bot that some poller took up
    saved, crashes,
    session, binding, calls, deletion

Router == INSTANCE ChatRouter

vars == <<bots, saves, pollers, sup, sent, confirmed, dispatched, saved, crashes,
          session, binding, calls, deletion>>

botVars == <<bots, saves, saved>>
feedVars == <<sent, confirmed, dispatched>>
routerVars == <<session, binding, calls, deletion>>

----------------------------------------------------------------------------
(* Types *)

TokenOrNone == BotTokens \cup {None}

Bot == [token: BotTokens, owner: Chats \cup {None}]

\* saw: the token on the row when set_telegram_bot read it.
Save == [user: Users, token: BotTokens, saw: TokenOrNone]

\* next .. last is what is left of the updates it was given; took is history,
\* what it has taken up itself.
\*   loop   awaiting getUpdates, or going on with the batch
\*   enrol  _authorize has read that the bot has no owner
\*   heard  authorized; awaiting the transcription, or Telegram
\*   work   awaiting the router, on a thread
\*   turn   streaming a turn
Poller == [token: BotTokens, offset: Nat, next: Nat, last: Nat, took: SUBSET Nat,
           at: {"loop", "enrol", "heard", "work", "turn", "crashed"},
           chat: Chats \cup {None}, call: Calls \cup {None}]

\* desired: what reconcile last read; stopping: the user whose poller it has
\* cancelled and awaits; cancelled: by the server's shutdown.
Supervisor == [at: {"sleep", "reconcile", "closing", "done"},
               desired: [Users -> TokenOrNone], stopping: Users \cup {None},
               cancelled: BOOLEAN]

ASSUME NoneAssumption ==
    None \notin Users \cup BotTokens \cup Sessions \cup Calls \cup Bot \cup Save \cup Poller
                   \cup Router!Call

NewPoller(t) == [token |-> t, offset |-> 0, next |-> 1, last |-> 0, took |-> {},
                 at |-> "loop", chat |-> None, call |-> None]

Asleep == [at |-> "sleep", desired |-> [u \in Users |-> None], stopping |-> None,
           cancelled |-> FALSE]

TokenOf(u) == IF bots[u] = None THEN None ELSE bots[u].token

Is(u, at) == pollers[u] # None /\ pollers[u].at = at
Live(u) == pollers[u] # None /\ pollers[u].at # "crashed"

\* Nothing else of the event loop runs between the two registry calls of
\* _authorize, nor while the supervisor compares rows and tasks; and nothing of
\* a poller that has been cancelled.
LoopFree == \A u \in Users : ~Is(u, "enrol")
Reconciling == sup.at \in {"reconcile", "closing"} /\ sup.stopping = None
Runs(u, at) == Is(u, at) /\ sup.stopping # u /\ ~Reconciling /\ (at = "enrol" \/ LoopFree)

Move(u, p) == pollers' = [pollers EXCEPT ![u] = p]

----------------------------------------------------------------------------
(* The routes, on worker threads *)

NeverSame(u, t) == FALSE
SameToken(u, t) == TokenOf(u) = t

\* set_telegram_bot reads the row: saving the same token again does nothing.
SaveReads(w) ==
    /\ saves[w] = None /\ saved < MaxSaves
    /\ saved' = saved + 1
    /\ \E u \in Users, t \in BotTokens :
           saves' = IF SameToken(u, t) THEN saves
                    ELSE [saves EXCEPT ![w] = [user |-> u, token |-> t, saw |-> TokenOf(u)]]
    /\ UNCHANGED <<bots, pollers, sup, feedVars, crashes, routerVars>>

\* Any other opens the enrolment.
SaveWrites(w) ==
    /\ saves[w] # None
    /\ bots' = [bots EXCEPT ![saves[w].user] =
                   [token |-> saves[w].token, owner |-> None]]
    /\ saves' = [saves EXCEPT ![w] = None]
    /\ UNCHANGED <<saved, pollers, sup, feedVars, crashes, routerVars>>

ClearBot(u) ==
    /\ bots[u] # None
    /\ bots' = [bots EXCEPT ![u] = None]
    /\ UNCHANGED <<saves, saved, pollers, sup, feedVars, crashes, routerVars>>

----------------------------------------------------------------------------
(* The supervisor *)

\* reconcile reads the rows.
Wake ==
    /\ sup.at = "sleep" /\ LoopFree
    /\ sup' = [sup EXCEPT !.at = "reconcile", !.desired = [u \in Users |-> TokenOf(u)]]
    /\ UNCHANGED <<botVars, pollers, feedVars, crashes, routerVars>>

UnwantedRowless ==
    {u \in Users : pollers[u] # None /\ (sup.at = "closing" \/ sup.desired[u] = None)}
UnwantedOpen == {u \in Users : pollers[u] # None /\ sup.desired[u] # pollers[u].token}

\* Those of a row that is gone or whose token was replaced; all at the end.
Unwanted ==
    {u \in Users : /\ pollers[u] # None
                   /\ sup.at = "closing" \/ sup.desired[u] # pollers[u].token}

\* _stop cancels the task and waits for it.
Stop(u) ==
    /\ Reconciling /\ LoopFree /\ u \in Unwanted
    /\ sup' = [sup EXCEPT !.stopping = u]
    /\ UNCHANGED <<botVars, pollers, feedVars, crashes, routerVars>>

\* It ends at the await it is at; a thread it waited for goes on.
Stopped ==
    /\ sup.stopping # None /\ LoopFree
    /\ Move(sup.stopping, None)
    /\ sup' = [sup EXCEPT !.stopping = None]
    /\ UNCHANGED <<botVars, feedVars, crashes, routerVars>>

Absent(u) == pollers[u] = None
NotRunning(u) == ~Live(u)

\* The rest of reconcile starts what is wanted and not running.
StartMissing ==
    /\ sup.at = "reconcile" /\ sup.stopping = None /\ Unwanted = {} /\ LoopFree
    /\ pollers' = [u \in Users |-> IF sup.desired[u] # None /\ NotRunning(u)
                                   THEN NewPoller(sup.desired[u]) ELSE pollers[u]]
    /\ sup' = [sup EXCEPT !.at = "sleep"]
    /\ UNCHANGED <<botVars, feedVars, crashes, routerVars>>

\* The server's shutdown cancels the supervisor: it stops its pollers.  While
\* it waits for a poller it has cancelled, _stop suppresses the error; while it
\* closes that poller's transport, it does not.
Shutdown ==
    /\ ~sup.cancelled /\ LoopFree
    /\ \/ /\ sup.at = "sleep"
          /\ sup' = [sup EXCEPT !.cancelled = TRUE, !.at = "closing"]
          /\ UNCHANGED pollers
       \/ /\ sup.stopping # None
          /\ sup' = [sup EXCEPT !.cancelled = TRUE]
          /\ UNCHANGED pollers
       \/ /\ sup.stopping # None
          /\ sup' = [sup EXCEPT !.cancelled = TRUE, !.at = "closing", !.stopping = None]
          /\ Move(sup.stopping, None)
    /\ UNCHANGED <<botVars, feedVars, crashes, routerVars>>

Closed ==
    /\ sup.at = "closing" /\ sup.stopping = None /\ Unwanted = {}
    /\ sup' = [sup EXCEPT !.at = "done"]
    /\ UNCHANGED <<botVars, pollers, feedVars, crashes, routerVars>>

----------------------------------------------------------------------------
(* A poller, and the bot it speaks for *)

SendUpdate(t, c) ==
    /\ Cardinality(UNION {{b} \X DOMAIN sent[b] : b \in BotTokens}) < MaxUpdates
    /\ sent' = [sent EXCEPT ![t] = Append(@, c)]
    /\ UNCHANGED <<botVars, pollers, sup, confirmed, dispatched, crashes, routerVars>>

ConfirmingOffset(p) == [confirmed EXCEPT ![p.token] = IF p.offset > @ THEN p.offset ELSE @]

\* getUpdates(offset) confirms what is below the offset.
Confirming(p) == [confirmed EXCEPT ![p.token] = IF p.offset > @ THEN p.offset - 1 ELSE @]

Unread(p) == Runs(p, "loop") /\ pollers[p].next > pollers[p].last

\* BotPoller.run: the answer holds every update that is not confirmed.
GetUpdates(u) ==
    LET p == pollers[u]
    IN  /\ Unread(u)
        /\ confirmed' = Confirming(p)
        /\ Move(u, [p EXCEPT !.next = confirmed'[p.token] + 1, !.last = Len(sent[p.token])])
        /\ confirmed' # confirmed \/ pollers' # pollers
        /\ UNCHANGED <<botVars, sup, sent, dispatched, crashes, routerVars>>

\* The answer is lost (run goes on) or is not JSON (the task ends).
PollFails(u) ==
    /\ Unread(u)
    /\ confirmed' \in {confirmed, Confirming(pollers[u])}
    /\ crashes < MaxCrashes /\ crashes' = crashes + 1
    /\ pollers' \in {pollers, [pollers EXCEPT ![u].at = "crashed"]}
    /\ UNCHANGED <<botVars, sup, sent, dispatched, routerVars>>

TakenAt(p) == [p EXCEPT !.offset = p.next, !.next = p.next + 1,
                        !.took = @ \cup {p.next}, !.chat = sent[p.token][p.next]]

\* The offset is moved past an update before it is dispatched.
Taken(p) == [p EXCEPT !.offset = p.next + 1, !.next = p.next + 1,
                      !.took = @ \cup {p.next}, !.chat = sent[p.token][p.next]]

\* dispatch, up to the answer of _authorize: "loop" ignores the chat.
Authorize(u, c) ==
    IF bots[u] = None THEN "loop"
    ELSE IF bots[u].owner = None THEN "enrol"
    ELSE IF bots[u].owner = c THEN "heard" ELSE "loop"

Dispatch(u) ==
    LET p == pollers[u]
    IN  /\ Runs(u, "loop") /\ p.next <= p.last
        /\ Move(u, [Taken(p) EXCEPT !.at = Authorize(u, Taken(p).chat)])
        /\ dispatched' = [dispatched EXCEPT ![p.token] = @ \cup {p.next}]
        /\ UNCHANGED <<botVars, sup, sent, confirmed, crashes, routerVars>>

\* set_telegram_owner_chat, on whatever row the user has by now.
Enrol(u) ==
    LET p == pollers[u]
    IN  /\ Runs(u, "enrol")
        /\ bots' = IF bots[u] = None THEN bots
                   ELSE [bots EXCEPT ![u].owner = p.chat]
        /\ Move(u, [p EXCEPT !.at = "heard"])
        /\ UNCHANGED <<saves, saved, sup, feedVars, crashes, routerVars>>

\* What the message asks for is chosen here; help and lists change nothing.
AskRouter(u) ==
    /\ Runs(u, "heard")
    /\ \E k \in Calls, op \in Router!Ops, s \in Sessions :
           /\ Router!Start(k, op, pollers[u].chat, s)
           /\ Move(u, [pollers[u] EXCEPT !.at = "work", !.call = k])
    /\ UNCHANGED <<botVars, sup, feedVars, crashes>>

\* render: a prompt for an attached session is a turn; the rest is a message,
\* also when the prompt is blank.
Render(u) ==
    LET p == pollers[u]  c == calls[p.call]
        prompt == c.op = "text" /\ c.at = "ended" /\ c.session # None
    IN  /\ Runs(u, "work")
        /\ Router!Return(p.call)
        /\ \E at \in {"loop"} \cup {x \in {"turn"} : prompt} :
               Move(u, [p EXCEPT !.at = at, !.call = None])
        /\ UNCHANGED <<botVars, sup, feedVars, crashes>>

\* An update that fails is dropped; a turn that ends, ends it.
UpdateEnds(u) ==
    /\ Runs(u, "heard") \/ Runs(u, "turn")
    /\ Move(u, [pollers[u] EXCEPT !.at = "loop"])
    /\ UNCHANGED <<botVars, sup, feedVars, crashes, routerVars>>

----------------------------------------------------------------------------
(* Threads and other surfaces *)

ThreadRuns(k) ==
    /\ \/ Router!Statement(k)
       \/ /\ \A u \in Users : pollers[u] # None => pollers[u].call # k
          /\ Router!Return(k)
    /\ UNCHANGED <<botVars, pollers, sup, feedVars, crashes>>

\* The console and the deletion of a session.
SessionChanges(s) == Router!SessionStep(s) /\ UNCHANGED <<botVars, pollers, sup, feedVars, crashes>>

----------------------------------------------------------------------------

Init ==
    /\ bots = [u \in Users |-> None]
    /\ saves = [w \in Clients |-> None]
    /\ pollers = [u \in Users |-> None]
    /\ sup = Asleep
    /\ sent = [t \in BotTokens |-> <<>>]
    /\ confirmed = [t \in BotTokens |-> 0]
    /\ dispatched = [t \in BotTokens |-> {}]
    /\ saved = 0 /\ crashes = 0
    /\ Router!Init

SupervisorStep == Wake \/ (\E u \in Users : Stop(u)) \/ Stopped \/ StartMissing \/ Closed

PollerStep(u) ==
    GetUpdates(u) \/ Dispatch(u) \/ Enrol(u) \/ AskRouter(u) \/ Render(u) \/ UpdateEnds(u)

Next ==
    \/ \E w \in Clients : SaveReads(w) \/ SaveWrites(w)
    \/ \E u \in Users : ClearBot(u) \/ PollerStep(u) \/ PollFails(u)
    \/ SupervisorStep \/ Shutdown
    \/ \E t \in BotTokens, c \in Chats : SendUpdate(t, c)
    \/ \E k \in Calls : ThreadRuns(k)
    \/ \E s \in Sessions : SessionChanges(s)

Spec == Init /\ [][Next]_vars

\* The timer goes off, threads run, and turns end: each is bounded by its
\* silence timeout.  A poller that is ready stays in the event loop's queue
\* while the loop is busy with another task: strong fairness.
Fairness ==
    /\ WF_vars(SupervisorStep)
    /\ \A u \in Users : SF_vars(PollerStep(u))
    /\ \A k \in Calls : WF_vars(ThreadRuns(k))

FairSpec == Spec /\ Fairness

----------------------------------------------------------------------------
(* Properties *)

\* The types; a poller that waits for a thread has a call of its own.
TypeOK ==
    /\ bots \in [Users -> Bot \cup {None}]
    /\ saves \in [Clients -> Save \cup {None}]
    /\ pollers \in [Users -> Poller \cup {None}]
    /\ sup \in Supervisor
    /\ sent \in [BotTokens -> Seq(Chats)]
    /\ confirmed \in [BotTokens -> Nat]
    /\ dispatched \in [BotTokens -> SUBSET Nat]
    /\ saved \in Nat /\ crashes \in Nat
    /\ Router!TypeOK
    /\ \A u \in Users : Is(u, "work") =>
           /\ pollers[u].call \in Calls /\ calls[pollers[u].call] # None
           /\ \A v \in Users \ {u} : Is(v, "work") => pollers[v].call # pollers[u].call

\* Telegram forgets no update that no poller has taken up, however pollers
\* crash, are replaced or lose answers.
NoUpdateSkipped ==
    \A t \in BotTokens : 1 .. confirmed[t] \subseteq dispatched[t]

\* No poller takes an update up twice, however many answers it lost or had to
\* ask for again: an update runs a second time only under another poller, one
\* that took the place of a poller that ended before its next getUpdates.
NoPollerRepeats ==
    \A u \in Users : pollers[u] # None =>
        \A i \in pollers[u].next .. pollers[u].last : i \notin pollers[u].took

Wrote(c, t) == \E i \in 1 .. Len(sent[t]) : sent[t][i] = c

Enrolled(u) == /\ bots[u] # None /\ bots[u].owner = None
               /\ bots'[u] # None /\ bots'[u].owner # None

\* The user's poller is one of a former token, of which the supervisor has not
\* read, or which it has not yet stopped.
Superseded(u) ==
    /\ pollers[u] # None /\ bots[u] # None /\ pollers[u].token # bots[u].token
    /\ sup.at # "sleep" \/ sup.desired[u] # bots[u].token

\* Who becomes the owner of a bot has written to that bot, with one exception:
\* the poller of a former token goes on until the supervisor has seen the change
\* of the row, and makes owner whoever wrote to the former bot.
OwnerWroteToBot ==
    [][\A u \in Users : Enrolled(u) =>
          \/ Wrote(bots'[u].owner, bots[u].token)
          \/ Superseded(u) /\ Wrote(bots'[u].owner, pollers[u].token)]_vars

\* An owner is replaced or forgotten only with the token or the row, or by a
\* save of the same token that had read another one.
OwnerLocked ==
    [][\A u \in Users :
          (/\ bots[u] # None /\ bots[u].owner # None
           /\ bots'[u] # None /\ bots'[u].owner # bots[u].owner)
              => \/ bots'[u].token # bots[u].token
                 \/ \E w \in Clients : /\ saves[w] # None /\ saves'[w] = None
                                       /\ saves[w].saw # bots[u].token]_vars

\* Under the surface, whose pollers may be cancelled while they wait for a
\* thread, a session's deletion fails only by a chat that was attached in its
\* middle.
DeleteFailsOnlyByAttach == Router!DeleteFailsOnlyByAttach

Stopping == sup.cancelled \/ sup.at = "done"
Wanted(u, t) == bots[u] # None /\ bots[u].token = t

\* A bot that stays saved gets a running poller of its own token, whatever was
\* running before and however often that crashed.
BotIsPolled ==
    \A u \in Users, t \in BotTokens :
        Wanted(u, t) ~> (Stopping \/ ~Wanted(u, t) \/ (Live(u) /\ pollers[u].token = t))

\* An update sent to it is taken up.
UpdateIsDispatched ==
    \A u \in Users, t \in BotTokens, i \in 1 .. MaxUpdates :
        (Wanted(u, t) /\ i <= Len(sent[t]))
            ~> (Stopping \/ ~Wanted(u, t) \/ i \in dispatched[t])

\* A supervisor that is cancelled ends and leaves no poller running, unless it
\* was waiting for a poller.
ShutdownEnds ==
    (sup.at = "closing") ~> (sup.at = "done" /\ \A u \in Users : pollers[u] = None)
=============================================================================
