--------------------------- MODULE TelegramProofs ---------------------------
(***************************************************************************)
(* The Telegram surface, for any number of users, bots, chats, threads,    *)
(* updates, saves and crashes: no update is forgotten that no poller took  *)
(* up and none runs twice under one poller, owners are who they should be  *)
(* but for the poller of a former token, an idle poller has caught up, and *)
(* the pollers are those the table asks for.                               *)
(***************************************************************************)
EXTENDS Telegram, TLAPS

RP == INSTANCE ChatRouterProofs

----------------------------------------------------------------------------
(* The inductive invariant *)

BotsOK ==
    /\ bots \in [Users -> Bot \cup {None}]
    /\ saves \in [Clients -> Save \cup {None}]
    /\ saved \in Nat

\* A save that will write had read another token.
SavesInv == \A w \in Clients : saves[w] # None => saves[w].token # saves[w].saw

\* What a poller waits for, and whom it has heard.
Sane(p) ==
    /\ p.at = "work" => p.call \in Calls
    /\ p.at \in {"enrol", "heard"} => p.chat \in Chats

TasksOK ==
    /\ pollers \in [Users -> Poller \cup {None}]
    /\ sup \in Supervisor
    /\ \A u \in Users : pollers[u] # None => Sane(pollers[u])

\* Asleep, the supervisor has no poller but those of the rows it last read.
SleepInv ==
    sup.at = "sleep" =>
        /\ sup.stopping = None
        /\ \A u \in Users : pollers[u] # None => pollers[u].token = sup.desired[u]

FeedOK ==
    /\ sent \in [BotTokens -> Seq(Chats)]
    /\ confirmed \in [BotTokens -> Nat]
    /\ dispatched \in [BotTokens -> SUBSET Nat]
    /\ crashes \in Nat

\* A poller goes through the updates one by one: what is below its next one
\* has been taken up, and its offset is not above it.
Careful(p, updates, taken) ==
    /\ 1 <= p.next /\ p.offset <= p.next
    /\ p.last <= Len(updates[p.token])
    /\ 1 .. (p.next - 1) \subseteq taken[p.token]

FeedInv ==
    \A u \in Users : pollers[u] # None => Careful(pollers[u], sent, dispatched)

\* Nobody becomes the owner between the two registry calls of _authorize, and
\* whoever is about to has written to the poller's bot.
EnrolInv ==
    \A u \in Users : Is(u, "enrol") =>
        /\ bots[u] = None \/ bots[u].owner = None
        /\ \E i \in 1 .. Len(sent[pollers[u].token]) : sent[pollers[u].token][i] = pollers[u].chat

IInv ==
    /\ BotsOK /\ SavesInv /\ TasksOK /\ SleepInv
    /\ FeedOK /\ FeedInv /\ NoUpdateSkipped /\ EnrolInv

----------------------------------------------------------------------------
(* Saves *)

\* What the pollers and the feed are told of does not depend on the saves.
LEMMA TasksUntouched ==
    ASSUME IInv, UNCHANGED <<pollers, sup, sent, confirmed, dispatched, crashes>>
    PROVE  TasksOK' /\ SleepInv' /\ FeedOK' /\ FeedInv' /\ NoUpdateSkipped'
<1>1. TasksOK' /\ SleepInv'
  BY DEF IInv, TasksOK, SleepInv, Is
<1>2. FeedOK' /\ FeedInv' /\ NoUpdateSkipped'
  BY DEF IInv, FeedOK, FeedInv, Careful, NoUpdateSkipped
<1>3. QED
  BY <1>1, <1>2

LEMMA SaveStep ==
    ASSUME IInv, NEW w \in Clients, SaveReads(w) \/ SaveWrites(w)
    PROVE  IInv'
<1>1. UNCHANGED <<pollers, sup, sent, confirmed, dispatched, crashes>>
  BY DEF SaveReads, SaveWrites, feedVars
<1>2. TasksOK' /\ SleepInv' /\ FeedOK' /\ FeedInv' /\ NoUpdateSkipped'
  BY <1>1, TasksUntouched
<1>3. CASE SaveReads(w)
  <2>1. PICK u \in Users, t \in BotTokens :
            saves' = IF SameToken(u, t) THEN saves
                     ELSE [saves EXCEPT ![w] = [user |-> u, token |-> t, saw |-> TokenOf(u)]]
    BY <1>3 DEF SaveReads
  <2> DEFINE new == [user |-> u, token |-> t, saw |-> TokenOf(u)]
  <2>2. TokenOf(u) \in TokenOrNone
    BY DEF TokenOf, TokenOrNone, IInv, BotsOK, Bot
  <2>3. new \in Save /\ new.token = t /\ new.saw = TokenOf(u)
    BY <2>2 DEF Save
  <2>4. BotsOK'
    BY <1>3, <2>1, <2>3 DEF SaveReads, IInv, BotsOK
  <2>5. SavesInv'
    BY <2>1, <2>3 DEF IInv, SavesInv, BotsOK, SameToken
  <2>6. EnrolInv'
    BY <1>1, <1>3 DEF SaveReads, IInv, EnrolInv, Is
  <2>7. QED
    BY <1>2, <2>4, <2>5, <2>6 DEF IInv
<1>4. CASE SaveWrites(w)
  <2> DEFINE new == [token |-> saves[w].token, owner |-> None]
             u == saves[w].user
  <2>1. saves[w] \in Save /\ u \in Users /\ new \in Bot /\ new.owner = None
    BY <1>4 DEF SaveWrites, IInv, BotsOK, Save, Bot
  <2>2. bots' = [bots EXCEPT ![u] = new] /\ saves' = [saves EXCEPT ![w] = None] /\ saved' = saved
    BY <1>4 DEF SaveWrites
  <2>3. BotsOK'
    BY <2>1, <2>2 DEF IInv, BotsOK
  <2>4. SavesInv'
    BY <2>2 DEF IInv, SavesInv, BotsOK
  <2>5. EnrolInv'
    BY <1>1, <2>1, <2>2 DEF IInv, BotsOK, EnrolInv, Is
  <2>6. QED
    BY <1>2, <2>3, <2>4, <2>5 DEF IInv
<1>5. QED
  BY <1>3, <1>4

LEMMA ClearStep ==
    ASSUME IInv, NEW u \in Users, ClearBot(u)
    PROVE  IInv'
<1>1. UNCHANGED <<saves, saved, pollers, sup, sent, confirmed, dispatched, crashes>>
  BY DEF ClearBot, feedVars
<1>2. TasksOK' /\ SleepInv' /\ FeedOK' /\ FeedInv' /\ NoUpdateSkipped'
  BY <1>1, TasksUntouched
<1>3. BotsOK' /\ SavesInv'
  BY <1>1 DEF ClearBot, IInv, BotsOK, SavesInv
<1>4. EnrolInv'
  BY <1>1 DEF ClearBot, IInv, BotsOK, EnrolInv, Is
<1>5. QED
  BY <1>2, <1>3, <1>4 DEF IInv

----------------------------------------------------------------------------
(* The supervisor *)

\* It changes neither rows nor updates, and lets every poller go on as it was,
\* ends it or puts a new one in its place.
LEMMA SupervisorStepOK ==
    ASSUME IInv, UNCHANGED <<botVars, feedVars, crashes>>,
           sup' \in Supervisor, SleepInv',
           pollers' \in [Users -> Poller \cup {None}],
           \A u \in Users : \/ pollers'[u] = pollers[u]
                            \/ pollers'[u] = None
                            \/ \E t \in BotTokens : pollers'[u] = NewPoller(t)
    PROVE  IInv'
<1>1. BotsOK' /\ SavesInv' /\ FeedOK' /\ NoUpdateSkipped'
  BY DEF botVars, feedVars, IInv, BotsOK, SavesInv, FeedOK, NoUpdateSkipped
<1>2. \A t : NewPoller(t).at = "loop" /\ NewPoller(t).token = t /\ NewPoller(t).next = 1
             /\ NewPoller(t).offset = 0 /\ NewPoller(t).last = 0
  BY DEF NewPoller
<1>3. TasksOK'
  BY <1>2 DEF IInv, TasksOK, Sane
<1>4. FeedInv'
  <2>1. SUFFICES ASSUME NEW u \in Users, pollers'[u] # None
        PROVE  Careful(pollers'[u], sent', dispatched')
    BY DEF FeedInv
  <2>2. CASE pollers'[u] = pollers[u]
    BY <2>1, <2>2 DEF IInv, FeedInv, feedVars
  <2>3. CASE \E t \in BotTokens : pollers'[u] = NewPoller(t)
    <3>1. PICK t \in BotTokens : pollers'[u] = NewPoller(t)
      BY <2>3
    <3>2. Len(sent[t]) \in Nat
      BY DEF IInv, FeedOK
    <3>3. 1 .. (1 - 1) = {}
      OBVIOUS
    <3>4. QED
      BY <1>2, <3>1, <3>2, <3>3 DEF Careful, feedVars
  <2>4. QED
    BY <2>1, <2>2, <2>3
<1>5. EnrolInv'
  BY <1>2 DEF IInv, EnrolInv, Is, botVars, feedVars
<1>6. QED
  BY <1>1, <1>3, <1>4, <1>5 DEF IInv

LEMMA SupervisorIInv ==
    ASSUME IInv, SupervisorStep \/ Shutdown
    PROVE  IInv'
<1>1. /\ sup \in Supervisor /\ pollers \in [Users -> Poller \cup {None}]
      /\ bots \in [Users -> Bot \cup {None}]
  BY DEF IInv, TasksOK, BotsOK
<1>2. CASE Wake
  <2> DEFINE d == [u \in Users |-> TokenOf(u)]
             new == [sup EXCEPT !.at = "reconcile", !.desired = d]
  <2>1. d \in [Users -> TokenOrNone]
    BY <1>1 DEF TokenOf, TokenOrNone, Bot
  <2>2. new \in Supervisor /\ new.at = "reconcile"
    BY <1>1, <2>1 DEF Supervisor
  <2>3. QED
    BY <1>1, <1>2, <2>2, SupervisorStepOK DEF Wake, SleepInv
<1>3. ASSUME NEW u \in Users, Stop(u)
      PROVE  IInv'
  <2> DEFINE new == [sup EXCEPT !.stopping = u]
  <2>1. new \in Supervisor /\ new.at # "sleep"
    BY <1>1, <1>3 DEF Supervisor, Stop, Reconciling
  <2>2. QED
    BY <1>1, <1>3, <2>1, SupervisorStepOK DEF Stop, SleepInv
<1>4. CASE Stopped
  <2> DEFINE new == [sup EXCEPT !.stopping = None]
  <2>1. new \in Supervisor /\ new.at = sup.at /\ sup.stopping \in Users
    BY <1>1, <1>4 DEF Supervisor, Stopped
  <2>2. sup.at # "sleep"
    BY <1>4 DEF Stopped, IInv, SleepInv
  <2>3. QED
    BY <1>1, <1>4, <2>1, <2>2, SupervisorStepOK DEF Stopped, Move, SleepInv
<1>5. CASE StartMissing
  <2> DEFINE new == [sup EXCEPT !.at = "sleep"]
  <2>1. /\ new \in Supervisor /\ new.desired = sup.desired /\ new.stopping = sup.stopping
        /\ sup.desired \in [Users -> TokenOrNone]
    BY <1>1 DEF Supervisor
  <2>2. /\ sup' = new /\ sup.stopping = None /\ sup.at = "reconcile" /\ Unwanted = {}
        /\ pollers' = [u \in Users |-> IF sup.desired[u] # None /\ NotRunning(u)
                                        THEN NewPoller(sup.desired[u]) ELSE pollers[u]]
        /\ UNCHANGED <<botVars, feedVars, crashes>>
    BY <1>5 DEF StartMissing
  <2>3. \A u \in Users : sup.desired[u] # None => sup.desired[u] \in BotTokens
    BY <2>1 DEF TokenOrNone
  <2>4. \A t \in BotTokens : NewPoller(t) \in Poller /\ NewPoller(t).token = t
    BY DEF NewPoller, Poller
  <2>5. pollers' \in [Users -> Poller \cup {None}]
    BY <1>1, <2>2, <2>3, <2>4
  <2>6. ASSUME NEW u \in Users, pollers'[u] # None
        PROVE  pollers'[u].token = sup.desired[u]
    BY <2>2, <2>3, <2>4, <2>6 DEF Unwanted
  <2>7. SleepInv'
    BY <2>1, <2>2, <2>6 DEF SleepInv
  <2>8. \A u \in Users : \/ pollers'[u] = pollers[u]
                         \/ \E t \in BotTokens : pollers'[u] = NewPoller(t)
    BY <2>2, <2>3
  <2>9. QED
    BY <2>1, <2>2, <2>5, <2>7, <2>8, SupervisorStepOK
<1>6. CASE Shutdown
  <2> DEFINE closing == [sup EXCEPT !.cancelled = TRUE, !.at = "closing"]
             swallowed == [sup EXCEPT !.cancelled = TRUE]
             released == [sup EXCEPT !.cancelled = TRUE, !.at = "closing", !.stopping = None]
  <2>1. /\ closing \in Supervisor /\ closing.at = "closing"
        /\ swallowed \in Supervisor /\ swallowed.at = sup.at
        /\ released \in Supervisor /\ released.at = "closing"
    BY <1>1 DEF Supervisor
  <2>2. sup.stopping # None => sup.at # "sleep" /\ sup.stopping \in Users
    BY <1>1 DEF IInv, SleepInv, Supervisor
  <2>3. SleepInv' /\ sup' \in Supervisor
    BY <1>6, <2>1, <2>2 DEF Shutdown, SleepInv
  <2>4. /\ pollers' \in [Users -> Poller \cup {None}]
        /\ \A u \in Users : pollers'[u] = pollers[u] \/ pollers'[u] = None
    BY <1>1, <1>6, <2>2 DEF Shutdown, Move
  <2>5. UNCHANGED <<botVars, feedVars, crashes>>
    BY <1>6 DEF Shutdown
  <2>6. QED
    BY <2>3, <2>4, <2>5, SupervisorStepOK
<1>7. CASE Closed
  <2> DEFINE new == [sup EXCEPT !.at = "done"]
  <2>1. new \in Supervisor /\ new.at = "done"
    BY <1>1 DEF Supervisor
  <2>2. QED
    BY <1>1, <1>7, <2>1, SupervisorStepOK DEF Closed, SleepInv
<1>8. QED
  BY <1>2, <1>3, <1>4, <1>5, <1>6, <1>7 DEF SupervisorStep

----------------------------------------------------------------------------
(* The pollers *)

LEMMA SendStep ==
    ASSUME IInv, NEW t \in BotTokens, NEW c \in Chats, SendUpdate(t, c)
    PROVE  IInv'
<1>1. UNCHANGED <<botVars, pollers, sup, confirmed, dispatched, crashes>>
  BY DEF SendUpdate
<1>2. /\ sent' \in [BotTokens -> Seq(Chats)]
      /\ \A b \in BotTokens : /\ Len(sent[b]) <= Len(sent'[b])
                              /\ \A i \in 1 .. Len(sent[b]) : sent'[b][i] = sent[b][i]
  <2>1. sent[t] \in Seq(Chats)
    BY DEF IInv, FeedOK
  <2>2. /\ Append(sent[t], c) \in Seq(Chats) /\ Len(Append(sent[t], c)) = Len(sent[t]) + 1
        /\ \A i \in 1 .. Len(sent[t]) : Append(sent[t], c)[i] = sent[t][i]
    BY <2>1
  <2>3. sent' = [sent EXCEPT ![t] = Append(sent[t], c)]
    BY DEF SendUpdate
  <2>4. QED
    BY <2>2, <2>3 DEF IInv, FeedOK
<1>3. BotsOK' /\ SavesInv' /\ TasksOK' /\ SleepInv'
  BY <1>1 DEF botVars, IInv, BotsOK, SavesInv, TasksOK, SleepInv, Is
<1>4. FeedOK' /\ NoUpdateSkipped'
  BY <1>1, <1>2 DEF IInv, FeedOK, NoUpdateSkipped
<1>5. FeedInv'
  <2>1. ASSUME NEW u \in Users, pollers[u] # None
        PROVE  Careful(pollers[u], sent', dispatched)
    <3>1. pollers[u].token \in BotTokens /\ pollers[u].last \in Nat
      BY <2>1 DEF IInv, TasksOK, Poller
    <3>2. Len(sent[pollers[u].token]) \in Nat /\ Len(sent'[pollers[u].token]) \in Nat
      BY <1>2, <3>1 DEF IInv, FeedOK
    <3>3. QED
      BY <1>2, <2>1, <3>1, <3>2 DEF IInv, FeedInv, Careful
  <2>2. QED
    BY <1>1, <2>1 DEF FeedInv
<1>6. EnrolInv'
  <2>1. ASSUME NEW u \in Users, Is(u, "enrol")
        PROVE  \E i \in 1 .. Len(sent'[pollers[u].token]) :
                   sent'[pollers[u].token][i] = pollers[u].chat
    <3>1. pollers[u].token \in BotTokens
      BY <2>1 DEF IInv, TasksOK, Poller, Is
    <3>2. PICK i \in 1 .. Len(sent[pollers[u].token]) :
              sent[pollers[u].token][i] = pollers[u].chat
      BY <2>1 DEF IInv, EnrolInv
    <3>3. Len(sent[pollers[u].token]) \in Nat /\ Len(sent'[pollers[u].token]) \in Nat
      BY <1>2, <3>1 DEF IInv, FeedOK
    <3>4. i \in 1 .. Len(sent'[pollers[u].token])
      BY <1>2, <3>1, <3>3
    <3>5. QED
      BY <1>2, <3>1, <3>2, <3>4
  <2>2. QED
    BY <1>1, <2>1 DEF botVars, IInv, EnrolInv, Is
<1>7. QED
  BY <1>3, <1>4, <1>5, <1>6 DEF IInv

\* What every step of a poller leaves alone: it becomes p, of the same token.
LEMMA PollerMoves ==
    ASSUME IInv, NEW u \in Users, pollers[u] # None, NEW p \in Poller, Move(u, p),
           p.token = pollers[u].token, Sane(p),
           UNCHANGED <<saves, saved, sup, sent>>,
           \A t \in BotTokens : dispatched[t] \subseteq dispatched'[t],
           Careful(p, sent, dispatched')
    PROVE  /\ TasksOK' /\ SleepInv' /\ FeedInv'
           /\ pollers'[u] = p /\ \A v \in Users \ {u} : pollers'[v] = pollers[v]
<1>1. /\ pollers' \in [Users -> Poller \cup {None}]
      /\ pollers'[u] = p /\ \A v \in Users \ {u} : pollers'[v] = pollers[v]
  BY DEF Move, IInv, TasksOK
<1>2. TasksOK'
  BY <1>1 DEF IInv, TasksOK, Is
<1>3. SleepInv'
  BY <1>1 DEF IInv, SleepInv
<1>4. FeedInv'
  <2>1. ASSUME NEW v \in Users \ {u}, pollers[v] # None
        PROVE  Careful(pollers[v], sent, dispatched')
    <3>1. pollers[v].token \in BotTokens
      BY <2>1 DEF IInv, TasksOK, Poller
    <3>2. QED
      BY <2>1, <3>1 DEF IInv, FeedInv, Careful
  <2>2. QED
    BY <1>1, <2>1 DEF FeedInv
<1>5. QED
  BY <1>1, <1>2, <1>3, <1>4

\* A poller that takes no update and enrols nobody.
LEMMA QuietPoller ==
    ASSUME IInv, NEW u \in Users, pollers[u] # None, NEW p \in Poller, Move(u, p),
           p.token = pollers[u].token, Sane(p),
           p.at # "enrol", p.offset = pollers[u].offset, p.next = pollers[u].next,
           p.last = pollers[u].last, UNCHANGED <<botVars, feedVars, crashes, sup>>
    PROVE  IInv'
<1>1. Careful(p, sent, dispatched')
  BY DEF IInv, FeedInv, Careful, feedVars
<1>2. /\ TasksOK' /\ SleepInv' /\ FeedInv'
      /\ pollers'[u] = p /\ \A v \in Users \ {u} : pollers'[v] = pollers[v]
  BY <1>1, PollerMoves DEF botVars, feedVars
<1>3. BotsOK' /\ SavesInv' /\ FeedOK' /\ NoUpdateSkipped'
  BY DEF botVars, feedVars, IInv, BotsOK, SavesInv, FeedOK, NoUpdateSkipped
<1>4. EnrolInv'
  BY <1>2 DEF botVars, feedVars, IInv, EnrolInv, Is
<1>5. QED
  BY <1>2, <1>3, <1>4 DEF IInv

\* Enrolments, when one poller becomes p.
LEMMA EnrolKept ==
    ASSUME IInv, NEW u \in Users, NEW p, pollers'[u] = p, UNCHANGED sent,
           \A v \in Users \ {u} : pollers'[v] = pollers[v] /\ bots'[v] = bots[v],
           p.at = "enrol" =>
               /\ bots'[u] = None \/ bots'[u].owner = None
               /\ \E i \in 1 .. Len(sent[p.token]) : sent[p.token][i] = p.chat
    PROVE  EnrolInv'
<1>1. ASSUME NEW v \in Users, Is(v, "enrol")'
      PROVE  /\ bots'[v] = None \/ bots'[v].owner = None
             /\ \E i \in 1 .. Len(sent[pollers'[v].token]) :
                    sent[pollers'[v].token][i] = pollers'[v].chat
  <2>1. CASE v = u
    BY <1>1, <2>1 DEF Is
  <2>2. CASE v # u
    BY <1>1, <2>2 DEF Is, IInv, EnrolInv
  <2>3. QED
    BY <2>1, <2>2
<1>2. QED
  BY <1>1 DEF EnrolInv

\* getUpdates forgets only what is below the offset, and that was taken up.
LEMMA ConfirmingOK ==
    ASSUME IInv, NEW u \in Users, pollers[u] # None, UNCHANGED dispatched,
           confirmed' \in {confirmed, Confirming(pollers[u])}
    PROVE  /\ confirmed' \in [BotTokens -> Nat] /\ NoUpdateSkipped'
           /\ confirmed' = Confirming(pollers[u]) =>
                  pollers[u].offset <= confirmed'[pollers[u].token] + 1
<1> DEFINE p == pollers[u]
           t == p.token
<1>1. p \in Poller /\ t \in BotTokens /\ p.offset \in Nat /\ p.next \in Nat /\ confirmed[t] \in Nat
  BY DEF IInv, TasksOK, Poller, FeedOK
<1>2. p.offset <= p.next /\ 1 .. (p.next - 1) \subseteq dispatched[t]
  BY DEF IInv, FeedInv, Careful
<1>3. CASE confirmed' = confirmed /\ ~(p.offset > confirmed[t])
  BY <1>1, <1>3 DEF IInv, FeedOK, NoUpdateSkipped
<1>4. CASE confirmed' = confirmed /\ confirmed' # Confirming(p)
  BY <1>4 DEF IInv, FeedOK, NoUpdateSkipped
<1>5. CASE confirmed' = Confirming(p) /\ p.offset > confirmed[t]
  <2>1. p.offset - 1 \in Nat /\ confirmed' = [confirmed EXCEPT ![t] = p.offset - 1]
    BY <1>1, <1>5 DEF Confirming
  <2>2. /\ confirmed' \in [BotTokens -> Nat] /\ confirmed'[t] = p.offset - 1
        /\ \A b \in BotTokens \ {t} : confirmed'[b] = confirmed[b]
    BY <1>1, <2>1 DEF IInv, FeedOK
  <2>3. 1 .. (p.offset - 1) \subseteq dispatched[t]
    BY <1>1, <1>2
  <2>4. QED
    BY <1>1, <2>2, <2>3 DEF IInv, NoUpdateSkipped
<1>6. CASE confirmed' = Confirming(p) /\ ~(p.offset > confirmed[t])
  <2>1. confirmed' = confirmed
    BY <1>1, <1>6 DEF Confirming, IInv, FeedOK
  <2>2. QED
    BY <1>1, <1>6, <2>1 DEF IInv, FeedOK, NoUpdateSkipped
<1>7. QED
  BY <1>3, <1>4, <1>5, <1>6

LEMMA GetUpdatesStep ==
    ASSUME IInv, NEW u \in Users, GetUpdates(u)
    PROVE  IInv'
<1> DEFINE p == pollers[u]
           t == p.token
           new == [p EXCEPT !.next = confirmed'[t] + 1, !.last = Len(sent[t])]
<1>1. p # None /\ p \in Poller /\ t \in BotTokens /\ p.at = "loop"
  BY DEF GetUpdates, Unread, Runs, Is, IInv, TasksOK, Poller
<1>2. Move(u, new) /\ confirmed' = Confirming(p) /\ UNCHANGED <<botVars, sup, sent, dispatched, crashes>>
  BY DEF GetUpdates
<1>3. /\ confirmed' \in [BotTokens -> Nat] /\ NoUpdateSkipped'
      /\ p.offset <= confirmed'[t] + 1
  BY <1>1, <1>2, ConfirmingOK
<1>4. confirmed'[t] \in Nat /\ Len(sent[t]) \in Nat /\ sent[t] \in Seq(Chats)
  BY <1>1, <1>3 DEF IInv, FeedOK
<1>5. /\ new \in Poller /\ new.at = "loop" /\ new.token = t /\ new.offset = p.offset
      /\ new.next = confirmed'[t] + 1 /\ new.last = Len(sent[t])
  <2>1. ASSUME NEW n \in Nat, NEW m \in Nat
        PROVE  LET q == [p EXCEPT !.next = n, !.last = m]
               IN  /\ q \in Poller /\ q.at = "loop" /\ q.token = t /\ q.offset = p.offset
                   /\ q.next = n /\ q.last = m
    BY <1>1 DEF Poller
  <2>2. confirmed'[t] + 1 \in Nat
    BY <1>4
  <2>3. QED
    BY <1>4, <2>1, <2>2, ZenonT(60)
<1>6. 1 .. confirmed'[t] \subseteq dispatched[t]
  <2>1. dispatched' = dispatched
    BY <1>2
  <2>2. \A b \in BotTokens : 1 .. confirmed'[b] \subseteq dispatched'[b]
    BY <1>3 DEF NoUpdateSkipped
  <2>3. QED
    BY <1>1, <2>1, <2>2
<1>7. Careful(new, sent, dispatched')
  BY <1>2, <1>3, <1>4, <1>5, <1>6 DEF Careful
<1>8. /\ TasksOK' /\ SleepInv' /\ FeedInv'
      /\ pollers'[u] = new /\ \A v \in Users \ {u} : pollers'[v] = pollers[v]
  BY <1>1, <1>2, <1>5, <1>7, PollerMoves DEF botVars, Sane
<1>9. BotsOK' /\ SavesInv' /\ FeedOK'
  BY <1>2, <1>3 DEF botVars, IInv, BotsOK, SavesInv, FeedOK
<1> HIDE DEF new
<1>10. EnrolInv'
  BY <1>2, <1>5, <1>8, EnrolKept DEF botVars
<1>11. QED
  BY <1>3, <1>8, <1>9, <1>10 DEF IInv

LEMMA PollFailsStep ==
    ASSUME IInv, NEW u \in Users, PollFails(u)
    PROVE  IInv'
<1> DEFINE p == pollers[u]
           new == [p EXCEPT !.at = "crashed"]
<1>1. p # None /\ p \in Poller /\ p.at = "loop"
  BY DEF PollFails, Unread, Runs, Is, IInv, TasksOK
<1>2. /\ confirmed' \in {confirmed, Confirming(p)}
      /\ UNCHANGED <<botVars, sup, sent, dispatched>>
      /\ pollers' = pollers \/ Move(u, new)
      /\ crashes' \in Nat
  BY DEF PollFails, Move, IInv, FeedOK
<1>3. confirmed' \in [BotTokens -> Nat] /\ NoUpdateSkipped'
  BY <1>1, <1>2, ConfirmingOK
<1>4. /\ new \in Poller /\ new.at = "crashed" /\ new.token = p.token /\ new.offset = p.offset
      /\ new.next = p.next /\ new.last = p.last
  BY <1>1 DEF Poller
<1>5. BotsOK' /\ SavesInv' /\ FeedOK'
  BY <1>2, <1>3 DEF botVars, IInv, BotsOK, SavesInv, FeedOK
<1>6. CASE pollers' = pollers
  <2>1. TasksOK' /\ SleepInv' /\ FeedInv' /\ EnrolInv'
    BY <1>2, <1>6 DEF botVars, IInv, TasksOK, SleepInv, FeedInv, Careful, EnrolInv, Is
  <2>2. QED
    BY <1>3, <1>5, <2>1 DEF IInv
<1>7. CASE Move(u, new)
  <2>1. Careful(new, sent, dispatched')
    BY <1>1, <1>2, <1>4 DEF Careful, IInv, FeedInv
  <2>2. /\ TasksOK' /\ SleepInv' /\ FeedInv'
        /\ pollers'[u] = new /\ \A v \in Users \ {u} : pollers'[v] = pollers[v]
    BY <1>1, <1>2, <1>4, <1>7, <2>1, PollerMoves DEF botVars, Sane
  <2> HIDE DEF new
  <2>3. EnrolInv'
    BY <1>2, <1>4, <2>2, EnrolKept DEF botVars
  <2>4. QED
    BY <1>3, <1>5, <2>2, <2>3 DEF IInv
<1>8. QED
  BY <1>2, <1>6, <1>7

LEMMA DispatchStep ==
    ASSUME IInv, NEW u \in Users, Dispatch(u)
    PROVE  IInv'
<1> DEFINE p == pollers[u]
           t == p.token
           c == sent[t][p.next]
           new == [Taken(p) EXCEPT !.at = Authorize(u, Taken(p).chat)]
<1>1. /\ p # None /\ p \in Poller /\ t \in BotTokens
      /\ p.next \in Nat /\ p.offset \in Nat /\ p.last \in Nat /\ p.next <= p.last
  BY DEF Dispatch, Runs, Is, IInv, TasksOK, Poller
<1>2. /\ Move(u, new) /\ dispatched' = [dispatched EXCEPT ![t] = @ \cup {p.next}]
      /\ UNCHANGED <<botVars, sup, sent, confirmed, crashes>>
  BY DEF Dispatch
<1>3. Careful(p, sent, dispatched) /\ sent[t] \in Seq(Chats) /\ dispatched[t] \in SUBSET Nat
  BY <1>1 DEF IInv, FeedInv, FeedOK
<1>4. p.next \in 1 .. Len(sent[t]) /\ c \in Chats
  BY <1>1, <1>3 DEF Careful
<1>5. /\ Taken(p) \in Poller /\ Taken(p).token = t /\ Taken(p).next = p.next + 1
      /\ Taken(p).offset = p.next + 1 /\ Taken(p).last = p.last /\ Taken(p).chat = c
  <2> DEFINE all == p.took \cup {p.next}
             took == [p EXCEPT !.offset = p.next + 1, !.next = p.next + 1, !.took = all,
                               !.chat = c]
  <2>1. Taken(p) = took
    BY DEF Taken
  <2>2. p.next + 1 \in Nat /\ all \in SUBSET Nat
    BY <1>1 DEF Poller
  <2> HIDE DEF all
  <2>3. /\ took \in Poller /\ took.token = t /\ took.next = p.next + 1
        /\ took.offset = p.next + 1 /\ took.last = p.last /\ took.chat = c
    BY <1>1, <1>4, <2>2 DEF Poller
  <2>4. QED
    BY <2>1, <2>3
<1>6. /\ Authorize(u, c) \in {"loop", "enrol", "heard"}
      /\ Authorize(u, c) = "enrol" => bots[u].owner = None
  BY DEF Authorize
<1>7. /\ new \in Poller /\ new.token = t /\ new.next = p.next + 1 /\ new.offset = p.next + 1
      /\ new.last = p.last /\ new.chat = c /\ new.at = Authorize(u, c)
  BY <1>5, <1>6 DEF Poller
<1>8. /\ dispatched' \in [BotTokens -> SUBSET Nat]
      /\ \A b \in BotTokens : dispatched[b] \subseteq dispatched'[b]
      /\ dispatched'[t] = dispatched[t] \cup {p.next}
  BY <1>1, <1>2 DEF IInv, FeedOK
<1>9. Careful(new, sent, dispatched')
  <2>1. 1 .. ((p.next + 1) - 1) = (1 .. (p.next - 1)) \cup {p.next}
    BY <1>1, <1>4
  <2>2. 1 .. ((p.next + 1) - 1) \subseteq dispatched'[t]
    BY <1>3, <1>8, <2>1 DEF Careful
  <2>3. 1 <= p.next + 1 /\ p.next + 1 <= p.next + 1
    BY <1>1
  <2>4. QED
    BY <1>3, <1>7, <2>2, <2>3 DEF Careful
<1>10. /\ TasksOK' /\ SleepInv' /\ FeedInv'
       /\ pollers'[u] = new /\ \A v \in Users \ {u} : pollers'[v] = pollers[v]
  <2>1. Sane(new)
    BY <1>4, <1>6, <1>7 DEF Sane
  <2>2. UNCHANGED <<saves, saved, sup, sent>>
    BY <1>2 DEF botVars
  <2>3. QED
    BY <1>1, <1>2, <1>7, <1>8, <1>9, <2>1, <2>2, PollerMoves
<1>11. BotsOK' /\ SavesInv' /\ FeedOK'
  BY <1>2, <1>8 DEF botVars, IInv, BotsOK, SavesInv, FeedOK
<1>12. NoUpdateSkipped'
  BY <1>2, <1>8 DEF IInv, NoUpdateSkipped
<1> HIDE DEF new
<1>13. EnrolInv'
  BY <1>2, <1>4, <1>6, <1>7, <1>10, EnrolKept DEF botVars
<1>14. QED
  BY <1>10, <1>11, <1>12, <1>13 DEF IInv

LEMMA EnrolStep ==
    ASSUME IInv, NEW u \in Users, Enrol(u)
    PROVE  IInv'
<1> DEFINE p == pollers[u]
           new == [p EXCEPT !.at = "heard"]
<1>1. p # None /\ p \in Poller /\ p.at = "enrol" /\ p.chat \in Chats
  BY DEF Enrol, Runs, Is, IInv, TasksOK, Sane
<1>2. /\ Move(u, new) /\ UNCHANGED <<saves, saved, sup, feedVars, crashes>>
      /\ bots' = IF bots[u] = None THEN bots ELSE [bots EXCEPT ![u].owner = p.chat]
  BY DEF Enrol
<1>3. /\ new \in Poller /\ new.at = "heard" /\ new.token = p.token /\ new.offset = p.offset
      /\ new.next = p.next /\ new.last = p.last /\ new.chat = p.chat
  BY <1>1 DEF Poller
<1>4. Careful(new, sent, dispatched')
  BY <1>1, <1>2, <1>3 DEF Careful, IInv, FeedInv, feedVars
<1>5. /\ TasksOK' /\ SleepInv' /\ FeedInv'
      /\ pollers'[u] = new /\ \A v \in Users \ {u} : pollers'[v] = pollers[v]
  BY <1>1, <1>2, <1>3, <1>4, PollerMoves DEF feedVars, Sane
<1>6. bots' \in [Users -> Bot \cup {None}] /\ \A v \in Users \ {u} : bots'[v] = bots[v]
  <2>1. bots[u] # None => [bots[u] EXCEPT !.owner = p.chat] \in Bot
    BY <1>1 DEF IInv, BotsOK, Bot
  <2>2. QED
    BY <1>2, <2>1 DEF IInv, BotsOK
<1>7. BotsOK' /\ SavesInv' /\ FeedOK' /\ NoUpdateSkipped'
  BY <1>2, <1>6 DEF feedVars, IInv, BotsOK, SavesInv, FeedOK, NoUpdateSkipped
<1> HIDE DEF new
<1>8. EnrolInv'
  BY <1>2, <1>3, <1>5, <1>6, EnrolKept DEF feedVars
<1>9. QED
  BY <1>5, <1>7, <1>8 DEF IInv

\* The rest of an update: the router's call, its answer and the end.
LEMMA UpdateStep ==
    ASSUME IInv, NEW u \in Users, AskRouter(u) \/ Render(u) \/ UpdateEnds(u)
    PROVE  IInv'
<1> DEFINE p == pollers[u]
<1>1. p # None /\ p \in Poller
  BY DEF AskRouter, Render, UpdateEnds, Runs, Is, IInv, TasksOK
<1>2. UNCHANGED <<botVars, feedVars, crashes, sup>>
  BY DEF AskRouter, Render, UpdateEnds
<1>3. CASE AskRouter(u)
  <2>1. PICK k \in Calls : Move(u, [p EXCEPT !.at = "work", !.call = k])
    BY <1>3 DEF AskRouter
  <2> DEFINE new == [p EXCEPT !.at = "work", !.call = k]
  <2>2. /\ new \in Poller /\ new.at = "work" /\ new.call = k /\ new.token = p.token
        /\ new.offset = p.offset /\ new.next = p.next /\ new.last = p.last
    BY <1>1 DEF Poller
  <2>3. QED
    BY <1>1, <1>2, <2>1, <2>2, QuietPoller DEF Sane
<1>4. CASE Render(u)
  <2>1. PICK at \in {"turn", "loop"} : Move(u, [p EXCEPT !.at = at, !.call = None])
    BY <1>4 DEF Render
  <2> DEFINE new == [p EXCEPT !.at = at, !.call = None]
  <2>2. /\ new \in Poller /\ new.at = at /\ new.token = p.token
        /\ new.offset = p.offset /\ new.next = p.next /\ new.last = p.last
    BY <1>1 DEF Poller
  <2>3. QED
    BY <1>1, <1>2, <2>1, <2>2, QuietPoller DEF Sane
<1>5. CASE UpdateEnds(u)
  <2> DEFINE new == [p EXCEPT !.at = "loop"]
  <2>1. /\ new \in Poller /\ new.at = "loop" /\ new.token = p.token
        /\ new.offset = p.offset /\ new.next = p.next /\ new.last = p.last
    BY <1>1 DEF Poller
  <2>2. Move(u, new)
    BY <1>5 DEF UpdateEnds
  <2>3. QED
    BY <1>1, <1>2, <2>1, <2>2, QuietPoller DEF Sane
<1>6. QED
  BY <1>3, <1>4, <1>5

----------------------------------------------------------------------------
(* The invariant *)

LEMMA InitIInv == Init => IInv
<1> SUFFICES ASSUME Init PROVE IInv
  OBVIOUS
<1>1. BotsOK /\ SavesInv /\ NoUpdateSkipped /\ FeedInv /\ EnrolInv
  BY DEF Init, BotsOK, SavesInv, NoUpdateSkipped, FeedInv, EnrolInv, Is
<1>2. TasksOK /\ SleepInv
  BY DEF Init, TasksOK, SleepInv, Asleep, Supervisor, TokenOrNone
<1>3. FeedOK
  BY DEF Init, FeedOK
<1>4. QED
  BY <1>1, <1>2, <1>3 DEF IInv

LEMMA NextIInv == IInv /\ [Next]_vars => IInv'
<1> SUFFICES ASSUME IInv, [Next]_vars PROVE IInv'
  OBVIOUS
<1>1. ASSUME UNCHANGED <<botVars, pollers, sup, feedVars, crashes>>
      PROVE  IInv'
  <2>1. TasksOK' /\ SleepInv' /\ FeedOK' /\ FeedInv' /\ NoUpdateSkipped'
    BY <1>1, TasksUntouched DEF feedVars
  <2>2. BotsOK' /\ SavesInv' /\ EnrolInv'
    BY <1>1 DEF botVars, feedVars, IInv, BotsOK, SavesInv, EnrolInv, Is
  <2>3. QED
    BY <2>1, <2>2 DEF IInv
<1>2. ASSUME NEW u \in Users, PollerStep(u) \/ PollFails(u)
      PROVE  IInv'
  BY <1>2, GetUpdatesStep, PollFailsStep, DispatchStep, EnrolStep, UpdateStep DEF PollerStep
<1>3. ASSUME NEW k \in Calls, ThreadRuns(k)
      PROVE  IInv'
  BY <1>1, <1>3 DEF ThreadRuns
<1>4. ASSUME NEW s \in Sessions, SessionChanges(s)
      PROVE  IInv'
  BY <1>1, <1>4 DEF SessionChanges
<1>5. CASE UNCHANGED vars
  BY <1>1, <1>5 DEF vars, botVars, feedVars
<1>6. QED
  BY <1>2, <1>3, <1>4, <1>5, SaveStep, ClearStep, SupervisorIInv, SendStep DEF Next

LEMMA SpecIInv == Spec => []IInv
<1>1. QED
  BY InitIInv, NextIInv, PTL DEF Spec

----------------------------------------------------------------------------
(* Theorems about updates and owners *)

\* Telegram forgets no update that no poller took up, whatever crashes, saves
\* and restarts of pollers.
THEOREM NoUpdateIsSkipped == Spec => []NoUpdateSkipped
<1>1. IInv => NoUpdateSkipped
  BY DEF IInv
<1>2. QED
  BY <1>1, SpecIInv, PTL

\* What a poller has taken up is below its offset.
TookInv ==
    \A u \in Users : pollers[u] # None =>
        \A i \in pollers[u].took : i < pollers[u].offset

\* A step leaves a poller's past alone, puts a new poller in its place, or is
\* its taking up of the next update.
LEMMA PastOf ==
    ASSUME IInv, [Next]_vars, NEW u \in Users, pollers'[u] # None
    PROVE  \/ /\ pollers[u] # None
              /\ pollers'[u].took = pollers[u].took /\ pollers'[u].offset = pollers[u].offset
           \/ pollers'[u].took = {}
           \/ /\ pollers[u] # None
              /\ pollers'[u].took = pollers[u].took \cup {pollers[u].next}
              /\ pollers'[u].offset = pollers[u].next + 1
<1>1. pollers \in [Users -> Poller \cup {None}]
  BY DEF IInv, TasksOK
<1>2. CASE pollers' = pollers
  BY <1>2
<1>3. ASSUME NEW v \in Users, PollerStep(v) \/ PollFails(v), pollers' # pollers
      PROVE  \/ /\ pollers[u] # None
                /\ pollers'[u].took = pollers[u].took /\ pollers'[u].offset = pollers[u].offset
             \/ /\ pollers[u] # None
                /\ pollers'[u].took = pollers[u].took \cup {pollers[u].next}
                /\ pollers'[u].offset = pollers[u].next + 1
  <2>1. pollers[v] # None
    BY <1>3 DEF PollerStep, PollFails, GetUpdates, Dispatch, Enrol, AskRouter, Render, UpdateEnds,
                Unread, Runs, Is
  <2>2. PICK p \in Poller : p = pollers[v]
    BY <1>1, <2>1
  <2>3. CASE v # u
    <3>1. \E q : pollers' = [pollers EXCEPT ![v] = q]
      BY <1>3 DEF PollerStep, PollFails, GetUpdates, Dispatch, Enrol, AskRouter, Render, UpdateEnds,
                  Move
    <3>2. pollers'[u] = pollers[u]
      BY <1>1, <2>3, <3>1
    <3>3. QED
      BY <3>2
  <2>4. CASE v = u /\ Dispatch(v)
    <3>1. PICK at, c : pollers' = [pollers EXCEPT ![v] =
                          [p EXCEPT !.offset = p.next + 1, !.next = p.next + 1,
                                    !.took = p.took \cup {p.next}, !.chat = c, !.at = at]]
      <4>1. PICK c : c = sent[p.token][p.next]
        OBVIOUS
      <4>2. PICK at : at = Authorize(v, Taken(p).chat)
        OBVIOUS
      <4>3. pollers' = [pollers EXCEPT ![v] = [Taken(p) EXCEPT !.at = at]]
        BY <2>2, <2>4, <4>2 DEF Dispatch, Move
      <4>4. [Taken(p) EXCEPT !.at = at] =
                [p EXCEPT !.offset = p.next + 1, !.next = p.next + 1,
                          !.took = p.took \cup {p.next}, !.chat = c, !.at = at]
        BY <4>1 DEF Taken, Poller
      <4>5. QED
        BY <4>3, <4>4
    <3>2. /\ pollers'[v].took = p.took \cup {p.next}
          /\ pollers'[v].offset = p.next + 1
      BY <1>1, <3>1 DEF Poller
    <3>3. QED
      BY <2>1, <2>2, <2>4, <3>2
  <2>5. CASE v = u /\ ~Dispatch(v)
    <3>1. PICK q : /\ pollers' = [pollers EXCEPT ![v] = q]
                   /\ q.took = p.took /\ q.offset = p.offset
      <4>1. CASE GetUpdates(v)
        <5> DEFINE q == [p EXCEPT !.next = confirmed'[p.token] + 1, !.last = Len(sent[p.token])]
        <5>1. q.took = p.took /\ q.offset = p.offset
          BY DEF Poller
        <5>2. pollers' = [pollers EXCEPT ![v] = q]
          BY <2>2, <4>1 DEF GetUpdates, Move
        <5>3. QED
          BY <5>1, <5>2
      <4>2. CASE PollFails(v)
        <5> DEFINE q == [p EXCEPT !.at = "crashed"]
        <5>1. q.took = p.took /\ q.offset = p.offset
          BY DEF Poller
        <5>2. pollers' = [pollers EXCEPT ![v] = q]
          BY <1>3, <2>2, <4>2 DEF PollFails
        <5>3. QED
          BY <5>1, <5>2
      <4>3. CASE Enrol(v)
        <5> DEFINE q == [p EXCEPT !.at = "heard"]
        <5>1. q.took = p.took /\ q.offset = p.offset
          BY DEF Poller
        <5>2. pollers' = [pollers EXCEPT ![v] = q]
          BY <2>2, <4>3 DEF Enrol, Move
        <5>3. QED
          BY <5>1, <5>2
      <4>4. CASE AskRouter(v)
        <5>1. PICK k : Move(v, [p EXCEPT !.at = "work", !.call = k])
          BY <2>2, <4>4 DEF AskRouter
        <5> DEFINE q == [p EXCEPT !.at = "work", !.call = k]
        <5>2. q.took = p.took /\ q.offset = p.offset
          BY DEF Poller
        <5>3. QED
          BY <5>1, <5>2 DEF Move
      <4>5. CASE Render(v)
        <5>1. PICK at : Move(v, [p EXCEPT !.at = at, !.call = None])
          BY <2>2, <4>5 DEF Render
        <5> DEFINE q == [p EXCEPT !.at = at, !.call = None]
        <5>2. q.took = p.took /\ q.offset = p.offset
          BY DEF Poller
        <5>3. QED
          BY <5>1, <5>2 DEF Move
      <4>6. CASE UpdateEnds(v)
        <5> DEFINE q == [p EXCEPT !.at = "loop"]
        <5>1. q.took = p.took /\ q.offset = p.offset
          BY DEF Poller
        <5>2. pollers' = [pollers EXCEPT ![v] = q]
          BY <2>2, <4>6 DEF UpdateEnds, Move
        <5>3. QED
          BY <5>1, <5>2
      <4>7. QED
        BY <1>3, <2>5, <4>1, <4>2, <4>3, <4>4, <4>5, <4>6 DEF PollerStep
    <3>2. pollers'[v] = q
      BY <1>1, <3>1
    <3>3. QED
      BY <2>1, <2>2, <2>5, <3>1, <3>2
  <2>6. QED
    BY <2>3, <2>4, <2>5
<1>4. CASE SupervisorStep \/ Shutdown
  <2>1. \/ pollers'[u] = pollers[u]
        \/ pollers'[u] = None
        \/ \E t : pollers'[u] = NewPoller(t)
    BY <1>1, <1>4 DEF SupervisorStep, Wake, Stop, Stopped, StartMissing, Closed, Shutdown, Move
  <2>2. \A t : NewPoller(t).took = {}
    BY DEF NewPoller
  <2>3. QED
    BY <2>1, <2>2
<1>5. QED
  BY <1>2, <1>3, <1>4
  DEF Next, vars, SaveReads, SaveWrites, ClearBot, SendUpdate, ThreadRuns, SessionChanges

\* No update runs twice under one poller: what it asks for again begins at its
\* offset, whatever answers were lost.
THEOREM PollersNeverRepeat == Spec => []NoPollerRepeats
<1>1. Init => TookInv
  BY DEF Init, TookInv
<1>2. IInv /\ TookInv /\ [Next]_vars => TookInv'
  <2>1. SUFFICES ASSUME IInv, TookInv, [Next]_vars, NEW u \in Users, pollers'[u] # None,
                        NEW i \in pollers'[u].took
                 PROVE  i < pollers'[u].offset
    BY DEF TookInv
  <2>2. CASE pollers[u] # None /\ pollers'[u].took = pollers[u].took
             /\ pollers'[u].offset = pollers[u].offset
    BY <2>1, <2>2 DEF TookInv
  <2>3. CASE pollers'[u].took = {}
    BY <2>1, <2>3
  <2>4. CASE /\ pollers[u] # None
             /\ pollers'[u].took = pollers[u].took \cup {pollers[u].next}
             /\ pollers'[u].offset = pollers[u].next + 1
    <3>1. PICK p \in Poller : p = pollers[u]
      BY <2>1, <2>4 DEF IInv, TasksOK
    <3>2. p.next \in Nat /\ p.offset \in Nat /\ p.took \subseteq Nat
      BY DEF Poller
    <3>3. p.offset <= p.next
      BY <2>1, <2>4, <3>1 DEF IInv, FeedInv, Careful
    <3>4. i \in Nat /\ (i < p.offset \/ i = p.next)
      BY <2>1, <2>4, <3>1, <3>2 DEF TookInv
    <3>5. i < p.next + 1
      BY <3>2, <3>3, <3>4
    <3>6. QED
      BY <2>4, <3>1, <3>5
  <2>5. QED
    BY <2>1, <2>2, <2>3, <2>4, PastOf
<1>3. IInv /\ TookInv => NoPollerRepeats
  <2>1. SUFFICES ASSUME IInv, TookInv, NEW u \in Users, pollers[u] # None,
                        NEW i \in pollers[u].next .. pollers[u].last, i \in pollers[u].took
                 PROVE  FALSE
    BY DEF NoPollerRepeats
  <2>2. PICK p \in Poller : p = pollers[u]
    BY <2>1 DEF IInv, TasksOK
  <2>3. p.next \in Nat /\ p.offset \in Nat /\ p.last \in Nat /\ i \in p.next .. p.last
    BY <2>1, <2>2 DEF Poller
  <2>4. p.offset <= p.next /\ i < p.offset
    BY <2>1, <2>2 DEF IInv, FeedInv, Careful, TookInv
  <2>5. QED
    BY <2>3, <2>4
<1>4. QED
  BY <1>1, <1>2, <1>3, SpecIInv, PTL DEF Spec

\* The rows change in a save, a clearing or an enrolment.
LEMMA BotsChange ==
    ASSUME [Next]_vars, bots' # bots
    PROVE  \/ \E w \in Clients : SaveWrites(w)
           \/ \E u \in Users : ClearBot(u) \/ Enrol(u)
BY DEF Next, vars, botVars, SaveReads, PollerStep, GetUpdates, PollFails, Dispatch, AskRouter,
   Render, UpdateEnds, SupervisorStep, Wake, Stop, Stopped, StartMissing, Closed, Shutdown,
   SendUpdate, ThreadRuns, SessionChanges

\* An enrolment names the chat its poller has heard, and nobody else's row.
LEMMA EnrolmentOf ==
    ASSUME IInv, NEW u \in Users, Enrol(u)
    PROVE  /\ Is(u, "enrol")
           /\ bots[u] # None => bots'[u].owner = pollers[u].chat
           /\ \A v \in Users \ {u} : bots'[v] = bots[v]
<1>1. Is(u, "enrol")
  BY DEF Enrol, Runs
<1>2. /\ bots \in [Users -> Bot \cup {None}]
      /\ bots' = IF bots[u] = None THEN bots ELSE [bots EXCEPT ![u].owner = pollers[u].chat]
  BY DEF IInv, BotsOK, Enrol
<1>3. QED
  BY <1>1, <1>2 DEF Bot

\* Whoever becomes the owner of a bot has written to it, or to the former bot of
\* a poller that the supervisor has not stopped since the token was changed.
THEOREM OwnersWroteToTheirBot == Spec => OwnerWroteToBot
<1>1. ASSUME IInv, [Next]_vars, NEW u \in Users, Enrolled(u)
      PROVE  \/ Wrote(bots'[u].owner, bots[u].token)
             \/ Superseded(u) /\ Wrote(bots'[u].owner, pollers[u].token)
  <2>0. /\ bots[u] # None /\ bots[u].owner = None
        /\ bots'[u] # None /\ bots'[u].owner # None
    BY <1>1 DEF Enrolled
  <2>1. ASSUME NEW w \in Clients, SaveWrites(w)
        PROVE  FALSE
    <3>1. saves[w].user \in Users /\ bots \in [Users -> Bot \cup {None}]
      BY <1>1, <2>1 DEF SaveWrites, IInv, BotsOK, Save
    <3>2. bots'[u] = bots[u] \/ bots'[u] = [token |-> saves[w].token, owner |-> None]
      BY <2>1, <3>1 DEF SaveWrites
    <3>3. QED
      BY <2>0, <3>2
  <2>2. ASSUME NEW v \in Users, ClearBot(v)
        PROVE  FALSE
    BY <1>1, <2>0, <2>2 DEF ClearBot, IInv, BotsOK
  <2>3. PICK v \in Users : Enrol(v)
    BY <1>1, <2>0, <2>1, <2>2, BotsChange
  <2>4. v = u /\ Is(u, "enrol") /\ bots'[u].owner = pollers[u].chat
    BY <1>1, <2>0, <2>3, EnrolmentOf
  <2>5. Wrote(bots'[u].owner, pollers[u].token)
    BY <1>1, <2>4 DEF IInv, EnrolInv, Wrote
  <2>6. CASE pollers[u].token = bots[u].token
    BY <2>5, <2>6
  <2>7. CASE pollers[u].token # bots[u].token
    <3>1. pollers[u] # None
      BY <2>4 DEF Is
    <3>2. sup.at # "sleep" \/ sup.desired[u] # bots[u].token
      BY <1>1, <2>7, <3>1 DEF IInv, SleepInv
    <3>3. Superseded(u)
      BY <2>0, <2>7, <3>1, <3>2 DEF Superseded
    <3>4. QED
      BY <2>5, <3>3
  <2>8. QED
    BY <2>6, <2>7
<1>2. IInv /\ [Next]_vars =>
        [\A u \in Users : Enrolled(u) =>
            \/ Wrote(bots'[u].owner, bots[u].token)
            \/ Superseded(u) /\ Wrote(bots'[u].owner, pollers[u].token)]_vars
  BY <1>1
<1>3. QED
  BY <1>2, SpecIInv, PTL DEF Spec, OwnerWroteToBot

\* An owner goes with the token or the row only, or by overlapping saves.
THEOREM OwnersAreLocked == Spec => OwnerLocked
<1>1. ASSUME IInv, [Next]_vars, NEW u \in Users,
             bots[u] # None, bots[u].owner # None, bots'[u] # None, bots'[u].owner # bots[u].owner
      PROVE  \/ bots'[u].token # bots[u].token
             \/ \E w \in Clients : /\ saves[w] # None /\ saves'[w] = None
                                   /\ saves[w].saw # bots[u].token
  <2>1. ASSUME NEW v \in Users, ClearBot(v)
        PROVE  FALSE
    BY <1>1, <2>1 DEF ClearBot, IInv, BotsOK
  <2>2. ASSUME NEW v \in Users, Enrol(v)
        PROVE  FALSE
    <3>1. v = u /\ Is(u, "enrol")
      BY <1>1, <2>2, EnrolmentOf
    <3>2. QED
      BY <1>1, <3>1 DEF IInv, EnrolInv
  <2>3. PICK w \in Clients : SaveWrites(w)
    BY <1>1, <2>1, <2>2, BotsChange
  <2>4. /\ saves[w] # None /\ saves[w].user \in Users /\ saves'[w] = None
        /\ bots \in [Users -> Bot \cup {None}] /\ saves[w].token # saves[w].saw
    BY <1>1, <2>3 DEF SaveWrites, IInv, BotsOK, SavesInv, Save
  <2>5. bots'[u] = [token |-> saves[w].token, owner |-> None]
    BY <1>1, <2>3, <2>4 DEF SaveWrites
  <2>6. QED
    BY <2>4, <2>5
<1>2. IInv /\ [Next]_vars =>
        [\A u \in Users :
          (/\ bots[u] # None /\ bots[u].owner # None
           /\ bots'[u] # None /\ bots'[u].owner # bots[u].owner)
              => \/ bots'[u].token # bots[u].token
                 \/ \E w \in Clients : /\ saves[w] # None /\ saves'[w] = None
                                       /\ saves[w].saw # bots[u].token]_vars
  BY <1>1
<1>3. QED
  BY <1>2, SpecIInv, PTL DEF Spec, OwnerLocked

----------------------------------------------------------------------------
(* The router under the surface *)

LEMMA StepRefines == IInv /\ [Next]_vars => [Router!Next]_(Router!vars)
<1> SUFFICES ASSUME IInv, [Next]_vars PROVE [Router!Next]_(Router!vars)
  OBVIOUS
<1>1. CASE UNCHANGED routerVars
  BY <1>1 DEF routerVars, Router!vars
<1>2. ASSUME NEW u \in Users, AskRouter(u)
      PROVE  Router!Next
  <2>1. pollers[u].chat \in Chats
    BY <1>2 DEF AskRouter, Runs, Is, IInv, TasksOK, Sane
  <2>2. QED
    BY <1>2, <2>1 DEF AskRouter, Router!Next
<1>3. ASSUME NEW u \in Users, Render(u)
      PROVE  Router!Next
  <2>1. pollers[u].call \in Calls
    BY <1>3 DEF Render, Runs, Is, IInv, TasksOK, Sane
  <2>2. QED
    BY <1>3, <2>1 DEF Render, Router!Next
<1>4. ASSUME NEW k \in Calls, ThreadRuns(k)
      PROVE  Router!Next
  BY <1>4 DEF ThreadRuns, Router!Next
<1>5. ASSUME NEW s \in Sessions, SessionChanges(s)
      PROVE  Router!Next
  BY <1>5 DEF SessionChanges, Router!Next
<1>6. QED
  BY <1>1, <1>2, <1>3, <1>4, <1>5
  DEF Next, vars, routerVars, SaveReads, SaveWrites, ClearBot, PollerStep, GetUpdates, PollFails,
      Dispatch, Enrol, UpdateEnds, SupervisorStep, Wake, Stop, Stopped, StartMissing, Closed,
      Shutdown, SendUpdate

\* The surface is made of the router's own steps, its cancelled pollers included.
LEMMA SurfaceKeepsToRouter == Spec => Router!Spec
<1>1. Init => Router!Init
  BY DEF Init
<1>2. QED
  BY <1>1, StepRefines, SpecIInv, PTL DEF Spec, Router!Spec

\* The instances of the router here and in its proofs say the same.
LEMMA SameStatement ==
    ASSUME NEW k \in Calls
    PROVE  Router!Statement(k) <=> RP!Statement(k)
<1>1. Router!Route(k) <=> RP!Route(k)
  BY DEF Router!Route, RP!Route, Router!At, RP!At, Router!Become, RP!Become
<1>2. Router!Create(k) <=> RP!Create(k)
  BY DEF Router!Create, RP!Create, Router!At, RP!At, Router!Become, RP!Become
<1>3. Router!Get(k) <=> RP!Get(k)
  BY DEF Router!Get, RP!Get, Router!At, RP!At, Router!Become, RP!Become, Router!Exists, RP!Exists
<1>4. Router!Bind(k) <=> RP!Bind(k)
  BY DEF Router!Bind, RP!Bind, Router!At, RP!At, Router!Become, RP!Become, Router!Violates,
         RP!Violates, Router!Exists, RP!Exists
<1>5. Router!Unbind(k) <=> RP!Unbind(k)
  BY DEF Router!Unbind, RP!Unbind, Router!At, RP!At, Router!Become, RP!Become
<1>6. QED
  BY <1>1, <1>2, <1>3, <1>4, <1>5 DEF Router!Statement, RP!Statement

LEMMA SameSpec == Router!Spec => RP!Spec
<1>1. Router!Init => RP!Init
  BY DEF Router!Init, RP!Init
<1>2. ASSUME NEW k \in Calls, NEW op, NEW c, NEW s
      PROVE  Router!Start(k, op, c, s) <=> RP!Start(k, op, c, s)
  BY DEF Router!Start, RP!Start, Router!Become, RP!Become, Router!FirstStatement, RP!FirstStatement
<1>3. ASSUME NEW k \in Calls
      PROVE  Router!Return(k) <=> RP!Return(k)
  BY DEF Router!Return, RP!Return, Router!At, RP!At, Router!Become, RP!Become
<1>4. ASSUME NEW s \in Sessions
      PROVE  Router!SessionStep(s) <=> RP!SessionStep(s)
  BY DEF Router!SessionStep, RP!SessionStep, Router!DeleteBindings, RP!DeleteBindings,
         Router!DeleteRow, RP!DeleteRow, Router!Exists, RP!Exists, Router!Unbound, RP!Unbound
<1>5. Router!Ops = RP!Ops
  BY DEF Router!Ops, RP!Ops
<1>6. Router!Next => RP!Next
  BY <1>2, <1>3, <1>4, <1>5, SameStatement DEF Router!Next, RP!Next
<1>7. Router!vars = RP!vars /\ (Router!vars)' = (RP!vars)'
  BY DEF Router!vars, RP!vars
<1>8. [Router!Next]_(Router!vars) => [RP!Next]_(RP!vars)
  BY <1>6, <1>7
<1>9. QED
  BY <1>1, <1>8, PTL DEF Router!Spec, RP!Spec

\* Under the surface too, a session that cannot be deleted was attached in the
\* middle of its deletion.
THEOREM SurfaceDeletesFailOnlyByAttach == Spec => DeleteFailsOnlyByAttach
<1>1. None \notin Sessions
  BY NoneAssumption
<1>2. RP!Spec => RP!DeleteFailsOnlyByAttach
  BY <1>1, RP!DeletesFailOnlyByAttach
<1>3. QED
  BY <1>2, SurfaceKeepsToRouter, SameSpec, PTL
  DEF DeleteFailsOnlyByAttach, Router!DeleteFailsOnlyByAttach,
      RP!DeleteFailsOnlyByAttach, Router!vars, RP!vars

----------------------------------------------------------------------------
(* Types, and the threads pollers wait for *)

THEOREM RouterTypes == Spec => []Router!TypeOK
<1>1. RP!Spec => []RP!TypeOK
  BY RP!RouterTypeOK
<1>2. RP!TypeOK <=> Router!TypeOK
  BY DEF RP!TypeOK, Router!TypeOK, RP!Call, Router!Call, RP!Ops, Router!Ops, RP!Exists,
         Router!Exists, RP!At, Router!At
<1>3. QED
  BY <1>1, <1>2, SurfaceKeepsToRouter, SameSpec, PTL

\* A poller that waits for a thread has a call of its own.
OwnCalls ==
    \A u \in Users : Is(u, "work") =>
        /\ calls[pollers[u].call] # None
        /\ \A v \in Users \ {u} : Is(v, "work") => pollers[v].call # pollers[u].call

LEMMA RouterCalls ==
    Router!TypeOK => /\ calls \in [Calls -> Router!Call \cup {None}]
                     /\ \A k \in Calls : calls[k] # None => calls[k] \in Router!Call
                     /\ None \notin Router!Call
BY NoneAssumption DEF Router!TypeOK

\* A statement leaves its call a call, and all others alone.
LEMMA StatementKeeps ==
    ASSUME Router!TypeOK, NEW k \in Calls, Router!Statement(k)
    PROVE  /\ calls'[k] # None
           /\ \A j \in Calls \ {k} : calls'[j] = calls[j]
<1> DEFINE c == calls[k]
<1>1. calls \in [Calls -> Router!Call \cup {None}] /\ None \notin Router!Call
  BY RouterCalls
<1>2. c # None /\ c \in Router!Call
  BY <1>1 DEF Router!Statement, Router!Route, Router!Create, Router!Get, Router!Bind,
              Router!Unbind, Router!At
<1>3. ASSUME NEW d, Router!Become(k, d), d # None
      PROVE  /\ calls'[k] # None /\ \A j \in Calls \ {k} : calls'[j] = calls[j]
  BY <1>1, <1>3 DEF Router!Become
<1>4. ASSUME NEW s \in Sessions \cup {None}, NEW at \in {"get", "bind", "ended", "failed"}
      PROVE  [c EXCEPT !.session = s, !.at = at] # None
  <2>1. [c EXCEPT !.session = s, !.at = at] \in Router!Call
    BY <1>2, <1>4 DEF Router!Call
  <2>2. QED
    BY <1>1, <2>1
<1>5. ASSUME NEW at \in {"bind", "ended", "failed"}
      PROVE  [c EXCEPT !.at = at] # None
  <2>1. [c EXCEPT !.at = at] \in Router!Call
    BY <1>2, <1>5 DEF Router!Call
  <2>2. QED
    BY <1>1, <2>1
<1>6. CASE Router!Route(k)
  <2>1. binding[c.chat] \in Sessions \cup {None}
    BY <1>2 DEF Router!TypeOK, Router!Call
  <2>2. QED
    BY <1>3, <1>4, <1>6, <2>1 DEF Router!Route
<1>7. CASE Router!Create(k)
  BY <1>3, <1>4, <1>5, <1>7 DEF Router!Create
<1>8. CASE Router!Get(k)
  BY <1>3, <1>5, <1>8 DEF Router!Get
<1>9. CASE Router!Bind(k)
  BY <1>3, <1>5, <1>9 DEF Router!Bind
<1>10. CASE Router!Unbind(k)
  <2>1. [c EXCEPT !.at = "ended", !.session = None] \in Router!Call
    BY <1>2 DEF Router!Call
  <2>2. [c EXCEPT !.at = "ended", !.session = None] # None
    BY <1>1, <2>1
  <2>3. QED
    BY <1>3, <1>10, <2>2 DEF Router!Unbind
<1>11. QED
  BY <1>6, <1>7, <1>8, <1>9, <1>10 DEF Router!Statement

\* Pollers that begin to wait for nothing keep the calls they have.
LEMMA CallsUntouched ==
    ASSUME OwnCalls, \A u \in Users : Is(u, "work")' => pollers'[u] = pollers[u],
           \A u \in Users : Is(u, "work")' => calls'[pollers[u].call] = calls[pollers[u].call]
    PROVE  OwnCalls'
BY DEF OwnCalls, Is

LEMMA OwnCallsStep == IInv /\ Router!TypeOK /\ OwnCalls /\ [Next]_vars => OwnCalls'
<1> SUFFICES ASSUME IInv, Router!TypeOK, OwnCalls, [Next]_vars PROVE OwnCalls'
  OBVIOUS
<1>1. /\ pollers \in [Users -> Poller \cup {None}]
      /\ \A u \in Users : Is(u, "work") => pollers[u].call \in Calls
  BY DEF IInv, TasksOK, Sane, Is
<1>2. CASE UNCHANGED calls /\ \A u \in Users : Is(u, "work")' => pollers'[u] = pollers[u]
  BY <1>2, CallsUntouched
<1>3. ASSUME NEW u \in Users, NEW at \in {"loop", "enrol", "heard", "turn", "crashed"}, NEW q,
             UNCHANGED calls, Move(u, q), q.at = at
      PROVE  OwnCalls'
  <2>1. pollers'[u] = q /\ \A v \in Users \ {u} : pollers'[v] = pollers[v]
    BY <1>1, <1>3 DEF Move
  <2>2. QED
    BY <1>2, <1>3, <2>1 DEF Is
<1>4. ASSUME NEW u \in Users, GetUpdates(u) \/ PollFails(u) \/ Dispatch(u) \/ Enrol(u) \/ UpdateEnds(u)
      PROVE  OwnCalls'
  <2> DEFINE p == pollers[u]
  <2>1. UNCHANGED calls
    BY <1>4 DEF GetUpdates, PollFails, Dispatch, Enrol, UpdateEnds, routerVars
  <2>2. p \in Poller
    BY <1>1, <1>4 DEF GetUpdates, PollFails, Dispatch, Enrol, UpdateEnds, Unread, Runs, Is
  <2>3. CASE GetUpdates(u)
    <3> DEFINE q == [p EXCEPT !.next = confirmed'[p.token] + 1, !.last = Len(sent[p.token])]
    <3>1. q.at = "loop" /\ Move(u, q)
      BY <2>2, <2>3 DEF GetUpdates, Unread, Runs, Is, Poller
    <3>2. QED
      BY <1>3, <2>1, <3>1
  <2>4. CASE PollFails(u)
    <3> DEFINE q == [p EXCEPT !.at = "crashed"]
    <3>1. q.at = "crashed" /\ (pollers' = pollers \/ Move(u, q))
      BY <2>2, <2>4 DEF PollFails, Poller, Move
    <3>2. QED
      BY <1>2, <1>3, <2>1, <3>1
  <2>5. CASE Dispatch(u)
    <3> DEFINE q == [Taken(p) EXCEPT !.at = Authorize(u, Taken(p).chat)]
    <3>1. Authorize(u, Taken(p).chat) \in {"loop", "enrol", "heard"}
      BY DEF Authorize
    <3>2. q.at = Authorize(u, Taken(p).chat) /\ Move(u, q)
      BY <2>2, <2>5 DEF Dispatch, Taken, Poller
    <3> HIDE DEF q
    <3>3. QED
      BY <1>3, <2>1, <3>1, <3>2
  <2>6. CASE Enrol(u)
    <3> DEFINE q == [p EXCEPT !.at = "heard"]
    <3>1. q.at = "heard" /\ Move(u, q)
      BY <2>2, <2>6 DEF Enrol, Poller
    <3>2. QED
      BY <1>3, <2>1, <3>1
  <2>7. CASE UpdateEnds(u)
    <3> DEFINE q == [p EXCEPT !.at = "loop"]
    <3>1. q.at = "loop" /\ Move(u, q)
      BY <2>2, <2>7 DEF UpdateEnds, Poller
    <3>2. QED
      BY <1>3, <2>1, <3>1
  <2>8. QED
    BY <1>4, <2>3, <2>4, <2>5, <2>6, <2>7
<1>5. ASSUME NEW u \in Users, AskRouter(u)
      PROVE  OwnCalls'
  <2>1. PICK k \in Calls, op \in Router!Ops, s \in Sessions :
            /\ Router!Start(k, op, pollers[u].chat, s)
            /\ Move(u, [pollers[u] EXCEPT !.at = "work", !.call = k])
    BY <1>5 DEF AskRouter
  <2> DEFINE q == [pollers[u] EXCEPT !.at = "work", !.call = k]
             c == [op |-> op, chat |-> pollers[u].chat, session |-> s,
                   at |-> Router!FirstStatement(op)]
  <2>2. pollers[u] \in Poller /\ pollers[u].chat \in Chats
    BY <1>1, <1>5 DEF AskRouter, Runs, Is, IInv, TasksOK, Sane
  <2>3. q.at = "work" /\ q.call = k
    BY <2>2 DEF Poller
  <2>4. c \in Router!Call
    BY <2>2 DEF Router!Call, Router!FirstStatement, Router!Ops
  <2>5. calls[k] = None /\ calls' = [calls EXCEPT ![k] = c]
    BY <2>1 DEF Router!Start, Router!Become
  <2>6. /\ calls \in [Calls -> Router!Call \cup {None}] /\ None \notin Router!Call
    BY RouterCalls
  <2>7. calls'[k] # None /\ \A j \in Calls \ {k} : calls'[j] = calls[j]
    <3> HIDE DEF c
    <3>1. QED
      BY <2>4, <2>5, <2>6
  <2>8. pollers'[u] = q /\ \A v \in Users \ {u} : pollers'[v] = pollers[v]
    BY <1>1, <2>1 DEF Move
  <2>9. \A v \in Users \ {u} : Is(v, "work") => pollers[v].call \in Calls \ {k}
    BY <1>1, <2>5 DEF OwnCalls
  <2> HIDE DEF q
  <2>10. QED
    BY <1>1, <2>3, <2>7, <2>8, <2>9 DEF OwnCalls, Is
<1>6. ASSUME NEW u \in Users, Render(u)
      PROVE  OwnCalls'
  <2>1. PICK at \in {"turn", "loop"} : Move(u, [pollers[u] EXCEPT !.at = at, !.call = None])
    BY <1>6 DEF Render
  <2> DEFINE q == [pollers[u] EXCEPT !.at = at, !.call = None]
             k == pollers[u].call
  <2>2. pollers[u] \in Poller /\ Is(u, "work") /\ k \in Calls
    BY <1>1, <1>6 DEF Render, Runs, Is
  <2>3. q.at = at
    BY <2>2 DEF Poller
  <2>4. calls' = [calls EXCEPT ![k] = None]
    BY <1>6 DEF Render, Router!Return, Router!Become
  <2>5. \A j \in Calls \ {k} : calls'[j] = calls[j]
    BY <2>4, RouterCalls
  <2>6. pollers'[u] = q /\ \A v \in Users \ {u} : pollers'[v] = pollers[v]
    BY <1>1, <2>1 DEF Move
  <2>7. \A v \in Users \ {u} : Is(v, "work") => pollers[v].call \in Calls \ {k}
    BY <1>1, <2>2 DEF OwnCalls
  <2> HIDE DEF q
  <2>8. \A v \in Users : Is(v, "work")' => v # u /\ pollers'[v] = pollers[v] /\ Is(v, "work")
    BY <2>1, <2>3, <2>6 DEF Is
  <2>9. QED
    BY <2>5, <2>7, <2>8, CallsUntouched
<1>7. ASSUME NEW k \in Calls, ThreadRuns(k)
      PROVE  OwnCalls'
  <2>1. UNCHANGED pollers
    BY <1>7 DEF ThreadRuns
  <2>2. CASE Router!Statement(k)
    <3>1. calls'[k] # None /\ \A j \in Calls \ {k} : calls'[j] = calls[j]
      BY <2>2, StatementKeeps
    <3>2. QED
      BY <1>1, <2>1, <3>1 DEF OwnCalls, Is
  <2>3. CASE Router!Return(k) /\ \A u \in Users : pollers[u] # None => pollers[u].call # k
    <3>1. \A j \in Calls \ {k} : calls'[j] = calls[j]
      BY <2>3, RouterCalls DEF Router!Return, Router!Become
    <3>2. QED
      BY <1>1, <2>1, <2>3, <3>1, CallsUntouched DEF Is
  <2>4. QED
    BY <1>7, <2>2, <2>3 DEF ThreadRuns
<1>8. CASE SupervisorStep \/ Shutdown
  <2>1. UNCHANGED calls
    BY <1>8 DEF SupervisorStep, Wake, Stop, Stopped, StartMissing, Closed, Shutdown, routerVars
  <2>2. \A u \in Users : \/ pollers'[u] = pollers[u]
                         \/ pollers'[u] = None
                         \/ \E t : pollers'[u] = NewPoller(t)
    BY <1>1, <1>8 DEF SupervisorStep, Wake, Stop, Stopped, StartMissing, Closed, Shutdown, Move
  <2>3. \A t : NewPoller(t).at = "loop"
    BY DEF NewPoller
  <2>4. QED
    BY <1>2, <2>1, <2>2, <2>3 DEF Is
<1>9. ASSUME NEW s \in Sessions, SessionChanges(s)
      PROVE  OwnCalls'
  <2>1. UNCHANGED <<calls, pollers>>
    BY <1>9 DEF SessionChanges, Router!SessionStep, Router!DeleteBindings, Router!DeleteRow
  <2>2. QED
    BY <1>2, <2>1
<1>10. CASE UNCHANGED <<calls, pollers>>
  BY <1>2, <1>10
<1>11. QED
  BY <1>4, <1>5, <1>6, <1>7, <1>8, <1>9, <1>10
  DEF Next, vars, routerVars, SaveReads, SaveWrites, ClearBot, PollerStep, SendUpdate

\* The types of the surface, and no two pollers wait for the same call.
THEOREM SurfaceTypeOK == Spec => []TypeOK
<1>1. Init => OwnCalls
  BY DEF Init, OwnCalls, Is
<1>2. Spec => []OwnCalls
  BY <1>1, OwnCallsStep, SpecIInv, RouterTypes, PTL DEF Spec
<1>3. IInv /\ Router!TypeOK /\ OwnCalls => TypeOK
  BY DEF IInv, BotsOK, TasksOK, FeedOK, Sane, OwnCalls, TypeOK, Is
<1>4. QED
  BY <1>2, <1>3, SpecIInv, RouterTypes, PTL

----------------------------------------------------------------------------
(* Pollers and supervisor at rest *)

\* getUpdates(offset) would tell Telegram or the poller something new.
PollTells(p) ==
    LET upto == IF p.offset > confirmed[p.token] + 1 THEN p.offset - 1 ELSE confirmed[p.token]
    IN  \/ upto # confirmed[p.token]
        \/ p.next # upto + 1
        \/ p.last # Len(sent[p.token])

\* A poller with something to do: an update in hand, at whatever stage, or an
\* answer of Telegram's that differs from the last.
Busy(p) == p.at # "loop" \/ p.next <= p.last \/ PollTells(p)

\* The safety half of UpdateIsDispatched: when a poller has nothing left to do,
\* every update sent to its bot was taken up by it or by an earlier poller of
\* that bot: what was not confirmed when one crashed or lost an answer, the next
\* asks for again (telegram.py, BotPoller.run).
THEOREM IdlePollersAreCaughtUp ==
    Spec => [](\A u \in Users : Live(u) /\ ~Busy(pollers[u]) =>
                  1 .. Len(sent[pollers[u].token]) \subseteq dispatched[pollers[u].token])
<1>1. ASSUME IInv, NEW u \in Users, Live(u), ~Busy(pollers[u])
      PROVE  1 .. Len(sent[pollers[u].token]) \subseteq dispatched[pollers[u].token]
  <2>1. PICK p \in Poller : p = pollers[u]
    BY <1>1 DEF IInv, TasksOK, Live
  <2>2. PICK t \in BotTokens : t = p.token
    BY DEF Poller
  <2>3. PICK c \in Nat, n \in Nat : c = confirmed[t] /\ n = Len(sent[t])
    BY <1>1 DEF IInv, FeedOK
  <2>4. p.next \in Nat /\ p.last \in Nat /\ p.offset \in Nat
    BY DEF Poller
  <2>5. 1 .. (p.next - 1) \subseteq dispatched[t]
    BY <1>1, <2>1, <2>2 DEF IInv, FeedInv, Careful, Live
  <2>6. p.next > p.last /\ p.last = n
    BY <1>1, <2>1, <2>2, <2>3, <2>4 DEF Busy, PollTells
  <2>7. 1 .. n \subseteq 1 .. (p.next - 1)
    BY <2>4, <2>6
  <2>8. QED
    BY <2>1, <2>2, <2>3, <2>5, <2>7
<1>2. IInv => \A u \in Users : Live(u) /\ ~Busy(pollers[u]) =>
                  1 .. Len(sent[pollers[u].token]) \subseteq dispatched[pollers[u].token]
  BY <1>1
<1>3. QED
  BY <1>2, SpecIInv, PTL

\* What a supervisor that is done has left.
DoneInv == sup.at = "done" => sup.stopping = None /\ \A u \in Users : pollers[u] = None

\* The safety half of ShutdownEnds: when the supervisor has ended, no poller is
\* left, crashed ones included, and none is started after that.
THEOREM ShutdownLeavesNoPoller ==
    Spec => [](sup.at = "done" => \A u \in Users : pollers[u] = None)
<1>1. Init => DoneInv
  BY DEF Init, Asleep, DoneInv
<1>2. ASSUME IInv, DoneInv, [Next]_vars PROVE DoneInv'
  <2>1. sup \in Supervisor /\ pollers \in [Users -> Poller \cup {None}]
    BY <1>2 DEF IInv, TasksOK
  <2>2. CASE UNCHANGED <<sup, pollers>>
    BY <1>2, <2>2 DEF DoneInv
  <2>3. ASSUME NEW u \in Users, PollerStep(u) \/ PollFails(u) PROVE DoneInv'
    <3>1. sup' = sup /\ pollers[u] # None
      BY <2>3 DEF PollerStep, PollFails, GetUpdates, Dispatch, Enrol, AskRouter, Render, UpdateEnds,
                  Unread, Runs, Is
    <3>2. QED
      BY <1>2, <3>1 DEF DoneInv
  <2>4. CASE SupervisorStep \/ Shutdown
    <3>1. CASE Closed
      <4>1. sup' = [sup EXCEPT !.at = "done"] /\ pollers' = pollers
            /\ sup.stopping = None /\ \A u \in Users : pollers[u] = None
        BY <3>1 DEF Closed, Unwanted
      <4>2. QED
        BY <2>1, <4>1 DEF DoneInv, Supervisor
    <3>2. CASE Wake \/ StartMissing \/ Shutdown
      <4>1. sup.at # "done" /\ sup'.at # "done"
        BY <1>2, <2>1, <3>2 DEF Wake, StartMissing, Shutdown, DoneInv, Supervisor
      <4>2. QED
        BY <4>1 DEF DoneInv
    <3>3. CASE Stopped \/ \E u \in Users : Stop(u)
      <4>1. sup.at # "done" /\ sup'.at # "done"
        BY <1>2, <2>1, <3>3 DEF Stop, Stopped, Reconciling, DoneInv, Supervisor
      <4>2. QED
        BY <4>1 DEF DoneInv
    <3>4. QED
      BY <2>4, <3>1, <3>2, <3>3 DEF SupervisorStep
  <2>5. ASSUME \/ \E w \in Clients : SaveReads(w) \/ SaveWrites(w)
               \/ \E u \in Users : ClearBot(u)
               \/ \E t \in BotTokens, c \in Chats : SendUpdate(t, c)
               \/ \E k \in Calls : ThreadRuns(k)
               \/ \E s \in Sessions : SessionChanges(s)
               \/ UNCHANGED vars
        PROVE  UNCHANGED <<sup, pollers>>
    BY <2>5 DEF SaveReads, SaveWrites, ClearBot, SendUpdate, ThreadRuns, SessionChanges, vars
  <2>6. QED
    BY <1>2, <2>2, <2>3, <2>4, <2>5 DEF Next
<1>3. DoneInv => (sup.at = "done" => \A u \in Users : pollers[u] = None)
  BY DEF DoneInv
<1>4. QED
  BY <1>1, <1>2, <1>3, SpecIInv, PTL DEF Spec

\* The safety half of BotIsPolled: when the supervisor goes back to sleep, every
\* bot it had read has a running poller of its own token, whatever crashed or
\* was replaced meanwhile, and no other user has one (reconcile).
THEOREM ReconcileRestoresPollers ==
    Spec => [][sup.at = "reconcile" /\ sup'.at = "sleep" =>
                  \A u \in Users :
                      IF sup.desired[u] = None THEN pollers'[u] = None
                      ELSE Live(u)' /\ pollers'[u].token = sup.desired[u]]_vars
<1>1. ASSUME IInv, [Next]_vars, sup.at = "reconcile", sup'.at = "sleep", NEW u \in Users
      PROVE  IF sup.desired[u] = None THEN pollers'[u] = None
             ELSE Live(u)' /\ pollers'[u].token = sup.desired[u]
  <2>1. sup \in Supervisor /\ pollers \in [Users -> Poller \cup {None}]
    BY <1>1 DEF IInv, TasksOK
  <2>2. sup' # sup
    BY <1>1
  <2>3. StartMissing
    <3>1. SupervisorStep \/ Shutdown
      BY <1>1, <2>2 DEF Next, SaveReads, SaveWrites, ClearBot, SendUpdate, ThreadRuns, SessionChanges,
                  PollerStep, PollFails, GetUpdates, Dispatch, Enrol, AskRouter, Render, UpdateEnds, vars
    <3>2. ~Wake /\ ~Closed
      BY <1>1 DEF Wake, Closed
    <3>3. ~Stopped /\ ~Shutdown /\ \A v \in Users : ~Stop(v)
      BY <1>1, <2>1 DEF Stopped, Shutdown, Stop, Supervisor
    <3>4. QED
      BY <3>1, <3>2, <3>3 DEF SupervisorStep
  <2>4. pollers'[u] = IF sup.desired[u] # None /\ NotRunning(u)
                      THEN NewPoller(sup.desired[u]) ELSE pollers[u]
    BY <2>3 DEF StartMissing
  <2>5. pollers[u] # None => sup.desired[u] = pollers[u].token
    BY <1>1, <2>3 DEF StartMissing, Unwanted
  <2>6. CASE sup.desired[u] = None
    <3>1. pollers[u] = None
      <4>1. SUFFICES ASSUME pollers[u] # None PROVE FALSE
        OBVIOUS
      <4>2. pollers[u].token \in BotTokens /\ None \notin BotTokens
        BY <2>1, <4>1, NoneAssumption DEF Poller
      <4>3. QED
        BY <2>5, <2>6, <4>1, <4>2
    <3>2. QED
      BY <2>4, <2>6, <3>1
  <2>7. CASE sup.desired[u] # None /\ NotRunning(u)
    <3>1. sup.desired[u] \in BotTokens
      BY <2>1, <2>7 DEF Supervisor, TokenOrNone
    <3>2. PICK new : new = NewPoller(sup.desired[u])
      OBVIOUS
    <3>3. new.at = "loop" /\ new.token = sup.desired[u]
      BY <3>2 DEF NewPoller
    <3>4. new \in Poller
      BY <3>1, <3>2 DEF NewPoller, Poller
    <3>5. new # None
      BY <3>4, NoneAssumption
    <3>6. pollers'[u] = new
      BY <2>4, <2>7, <3>2
    <3>7. QED
      BY <2>7, <3>3, <3>5, <3>6 DEF Live
  <2>8. CASE sup.desired[u] # None /\ ~NotRunning(u)
    BY <2>4, <2>5, <2>8 DEF NotRunning, Live
  <2>9. QED
    BY <2>6, <2>7, <2>8
<1>2. IInv /\ [Next]_vars =>
          [sup.at = "reconcile" /\ sup'.at = "sleep" =>
              \A u \in Users :
                  IF sup.desired[u] = None THEN pollers'[u] = None
                  ELSE Live(u)' /\ pollers'[u].token = sup.desired[u]]_vars
  BY <1>1
<1>3. QED
  BY <1>2, SpecIInv, PTL DEF Spec
=============================================================================
