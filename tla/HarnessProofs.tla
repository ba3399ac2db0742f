--------------------------- MODULE HarnessProofs ---------------------------
(***************************************************************************)
(* The harness of a session, for any number of turns and processes: an     *)
(* outstanding turn always has someone to end it, a turn whose prompt      *)
(* found the process quiet is handed no output but its own, a turn stalls  *)
(* for the harness only, one prompt is written at a time, and a turn that  *)
(* is over stays over.                                                     *)
(***************************************************************************)
EXTENDS HarnessProcess, TLAPS

----------------------------------------------------------------------------
(* The inductive invariant *)

Ends(queue) == \E i \in DOMAIN queue : queue[i].last

Waits(t) == turns[t].pc \in {"lock", "starting", "active"}

\* The lock of an object: who waits for it, each once, the holder first.
LockInv ==
    /\ \A t \in Turns : Waits(t) =>
          /\ turns[t].obj \in 1 .. spawned
          /\ \E i \in 1 .. Len(harness[turns[t].obj].lock) : harness[turns[t].obj].lock[i] = t
    /\ \A o \in Procs : \A i \in 1 .. Len(harness[o].lock) :
          LET t == harness[o].lock[i] IN
          Waits(t) /\ turns[t].obj = o /\ (turns[t].pc # "lock" => i = 1)
    /\ \A o \in Procs : \A i, j \in 1 .. Len(harness[o].lock) :
          harness[o].lock[i] = harness[o].lock[j] => i = j

\* An object's turn holds the lock, and its end is still to come.
OutstandingInv ==
    \A o \in Procs : harness[o].turn # None =>
        LET t == harness[o].turn IN
        turns[t].pc = "active" /\ turns[t].obj = o /\ ~Ends(turns[t].queue)

\* A process is read as long as it can write, by the object that has it; and
\* an object that is being started again has none.
ReaderInv ==
    /\ \A o \in Procs : harness[o].proc # None =>
          LET p == harness[o].proc IN
          /\ o <= spawned /\ p <= spawned /\ procs[p].owner = o
          /\ procs[p].state \in {"up", "exited"} => procs[p].reader
    /\ \A p \in Procs : procs[p].reader =>
          procs[p].owner # None /\ harness[procs[p].owner].proc = p
    /\ \A t \in Turns : turns[t].pc = "starting" => harness[turns[t].obj].proc = None
    /\ stopper.pc = "closing" => stopper.obj # None

\* What a process has written since it was quiet is for t, up to the end of t's
\* answer; as long as it is up it is at t's prompt until then.
Owns(t, proc) ==
    /\ \A i \in 1 .. Len(proc.out) :
          (\A j \in 1 .. i - 1 : ~proc.out[j].last) => proc.out[i].for = t
    /\ proc.state = "up" /\ ~Ends(proc.out) => proc.todo # <<>> /\ Head(proc.todo).for = t

CleanInv ==
    /\ \A t \in clean : turns[t].pc \in {"active", "done"}
    /\ \A o \in Procs :
          harness[o].turn \in clean /\ harness[o].proc # None =>
              Owns(harness[o].turn, procs[harness[o].proc])

Inv == /\ StateOK /\ LockInv /\ OutstandingInv /\ ReaderInv /\ CleanInv
       /\ TurnIsHeard /\ CleanTurnOwnsItsOutput

----------------------------------------------------------------------------
(* The lock *)

\* Taking a turn off a lock where it is once closes up the queue behind it.
LEMMA WithoutIs ==
    ASSUME NEW lock \in Seq(Turns), NEW i \in 1 .. Len(lock), NEW t \in Turns, lock[i] = t,
           \A j \in 1 .. Len(lock) : lock[j] = t => j = i
    PROVE  /\ Without(lock, t) \in Seq(Turns)
           /\ Len(Without(lock, t)) = Len(lock) - 1
           /\ \A j \in 1 .. Len(lock) - 1 :
                 Without(lock, t)[j] = IF j < i THEN lock[j] ELSE lock[j + 1]
           /\ i = 1 => Without(lock, t) = Tail(lock)
<1>1. Len(lock) \in Nat /\ DOMAIN lock = 1 .. Len(lock)
  OBVIOUS
<1>2. (CHOOSE j \in DOMAIN lock : lock[j] = t) = i
  BY <1>1
<1> DEFINE w == [j \in 1 .. Len(lock) - 1 |-> IF j < i THEN lock[j] ELSE lock[j + 1]]
<1>3. Without(lock, t) = w
  BY <1>2 DEF Without
<1>4. \A j \in 1 .. Len(lock) - 1 : w[j] = (IF j < i THEN lock[j] ELSE lock[j + 1]) /\ w[j] \in Turns
  BY <1>1
<1>5. w \in Seq(Turns) /\ Len(w) = Len(lock) - 1
  <2>1. Len(lock) - 1 \in Nat
    BY <1>1
  <2>2. w \in [1 .. Len(lock) - 1 -> Turns]
    BY <1>4
  <2> QED BY <2>1, <2>2
<1>6. ASSUME i = 1 PROVE w = Tail(lock)
  <2>1. /\ Tail(lock) \in Seq(Turns) /\ Len(Tail(lock)) = Len(lock) - 1
        /\ \A j \in 1 .. Len(lock) - 1 : Tail(lock)[j] = lock[j + 1]
    BY <1>1
  <2>2. \A j \in 1 .. Len(lock) - 1 : w[j] = lock[j + 1]
    BY <1>4, <1>6
  <2> HIDE DEF w
  <2> QED BY <1>5, <2>1, <2>2
<1> HIDE DEF w
<1> QED BY <1>3, <1>4, <1>5, <1>6

LEMMA Bounds == None = 0 /\ Procs = 1 .. MaxProcs /\ MaxProcs \in Nat /\ None \notin Procs
                /\ None \notin Turns /\ {"wake", "exit"} \cap Turns = {}
BY BoundsAssumption, TurnsAssumption DEF None, Procs

\* Who waits on an object is in its lock once, and holds it past the wait.
LEMMA Waiter ==
    ASSUME Inv, NEW t \in Turns, Waits(t)
    PROVE  /\ turns[t].obj \in Procs /\ turns[t].obj <= spawned
           /\ harness[turns[t].obj] \in Object
           /\ harness[turns[t].obj].lock \in Seq(Turns)
           /\ \E i \in 1 .. Len(harness[turns[t].obj].lock) :
                 /\ harness[turns[t].obj].lock[i] = t
                 /\ \A j \in 1 .. Len(harness[turns[t].obj].lock) :
                       harness[turns[t].obj].lock[j] = t => j = i
                 /\ turns[t].pc # "lock" => i = 1
<1>1. spawned \in 0 .. MaxProcs /\ harness \in [Procs -> Object]
  BY DEF Inv, StateOK, ProcOrNone
<1>2. turns[t].obj \in Procs /\ turns[t].obj <= spawned
  BY <1>1, Bounds DEF Inv, LockInv
<1>3. harness[turns[t].obj] \in Object /\ harness[turns[t].obj].lock \in Seq(Turns)
  BY <1>1, <1>2 DEF Object
<1>4. PICK i \in 1 .. Len(harness[turns[t].obj].lock) : harness[turns[t].obj].lock[i] = t
  BY DEF Inv, LockInv
<1>5. \A j \in 1 .. Len(harness[turns[t].obj].lock) :
          harness[turns[t].obj].lock[j] = t => j = i
  BY <1>2, <1>4 DEF Inv, LockInv
<1>6. turns[t].pc # "lock" => i = 1
  BY <1>2, <1>4 DEF Inv, LockInv
<1> QED BY <1>2, <1>3, <1>4, <1>5, <1>6

\* One turn at most is past the wait on an object.
LEMMA Alone ==
    ASSUME Inv, NEW t \in Turns, NEW u \in Turns, Waits(t), Waits(u),
           turns[t].pc # "lock", turns[u].pc # "lock", turns[t].obj = turns[u].obj
    PROVE  t = u
<1>1. harness[turns[t].obj].lock[1] = t
  BY Waiter
<1>2. harness[turns[u].obj].lock[1] = u
  BY Waiter
<1> QED BY <1>1, <1>2

\* The turn of an object, if it has one, is a turn that is active on it.
LEMMA Outstanding ==
    ASSUME Inv, NEW o \in Procs, harness[o].turn # None
    PROVE  /\ harness[o].turn \in Turns /\ Waits(harness[o].turn)
           /\ turns[harness[o].turn].pc = "active" /\ turns[harness[o].turn].obj = o
           /\ ~Ends(turns[harness[o].turn].queue)
<1>1. harness[o] \in Object
  BY DEF Inv, StateOK
<1>2. harness[o].turn \in Turns
  BY <1>1 DEF Object
<1> QED BY <1>2 DEF Inv, OutstandingInv, Waits

\* While a turn is past the wait on an object, no other is the object's turn.
LEMMA Sole ==
    ASSUME Inv, NEW t \in Turns, Waits(t), turns[t].pc # "lock"
    PROVE  /\ harness[turns[t].obj].turn \in {None, t}
           /\ turns[t].pc = "starting" => harness[turns[t].obj].turn = None
<1> DEFINE o == turns[t].obj
           u == harness[o].turn
<1>1. o \in Procs
  BY Waiter
<1>2. ASSUME u # None PROVE u = t /\ turns[t].pc = "active"
  <2>1. u \in Turns /\ Waits(u) /\ turns[u].pc = "active" /\ turns[u].obj = o
    BY <1>1, <1>2, Outstanding
  <2> HIDE DEF u
  <2>2. u = t
    BY <2>1, Alone
  <2> QED BY <2>1, <2>2
<1> QED BY <1>2

----------------------------------------------------------------------------
(* Initially *)

LEMMA InitInv == Init => Inv
<1> SUFFICES ASSUME Init PROVE Inv
  OBVIOUS
<1>1. StateOK
  <2>1. <<>> \in Seq(Turns) /\ <<>> \in Seq(Job) /\ <<>> \in Seq(Event)
    OBVIOUS
  <2>2. NoObject \in Object /\ NoProc \in Proc
    BY <2>1, Bounds DEF NoObject, Object, NoProc, Proc, ProcOrNone
  <2>3. [pc |-> "new", obj |-> None, queue |-> <<>>] \in Turn
    BY <2>1, Bounds DEF Turn, ProcOrNone
  <2>4. IdleStopper \in Stopper
    BY Bounds DEF IdleStopper, Stopper, ProcOrNone
  <2>5. \A t \in Turns : turns[t].queue = <<>>
    BY DEF Init
  <2>6. /\ tracked \in 0 .. spawned /\ spawned \in ProcOrNone
        /\ wakes \in 0 .. MaxWakes /\ stops \in 0 .. MaxStops
    BY Bounds, BoundsAssumption DEF Init, ProcOrNone
  <2>7. /\ harness \in [Procs -> Object] /\ procs \in [Procs -> Proc]
        /\ turns \in [Turns -> Turn] /\ stopper \in Stopper /\ clean \in SUBSET Turns
    BY <2>2, <2>3, <2>4 DEF Init
  <2> QED BY <2>5, <2>6, <2>7 DEF StateOK
<1>2. LockInv
  BY DEF Init, LockInv, Waits, NoObject
<1>3. OutstandingInv /\ ReaderInv /\ CleanInv /\ TurnIsHeard /\ CleanTurnOwnsItsOutput
  BY DEF Init, OutstandingInv, ReaderInv, CleanInv, TurnIsHeard, CleanTurnOwnsItsOutput,
         NoObject, NoProc, IdleStopper
<1> QED BY <1>1, <1>2, <1>3 DEF Inv

----------------------------------------------------------------------------
(* Steps of a process alone *)

\* What the steps of processes that nobody reads have in common.
LEMMA ProcessesStep ==
    ASSUME Inv, UNCHANGED <<tracked, harness, turns, spawned, stops, clean>>,
           procs' \in [Procs -> Proc], wakes' \in 0 .. MaxWakes,
           stopper' = stopper \/ (stopper.pc = "docker" /\ stopper' = IdleStopper),
           \A p \in Procs :
               /\ procs'[p].owner = procs[p].owner /\ procs'[p].reader = procs[p].reader
               /\ procs'[p].state \in {"up", "exited"} => procs[p].state \in {"up", "exited"}
               /\ \A t \in Turns : Owns(t, procs[p]) => Owns(t, procs'[p])
    PROVE  Inv'
<1>t. /\ StateOK /\ LockInv /\ OutstandingInv /\ ReaderInv /\ CleanInv
      /\ TurnIsHeard /\ CleanTurnOwnsItsOutput
  BY DEF Inv
<1>1. harness \in [Procs -> Object] /\ turns \in [Turns -> Turn]
  BY <1>t DEF StateOK
<1>2. \A o \in Procs : harness[o].proc \in Procs \cup {None} /\ harness[o].turn \in Turns \cup {None}
  BY <1>1, Bounds DEF Object, ProcOrNone
<1>3. StateOK'
  <2>1. stopper' \in Stopper
    BY <1>t, Bounds DEF StateOK, IdleStopper, Stopper, ProcOrNone
  <2> QED BY <2>1, <1>t DEF StateOK
<1>4. LockInv' /\ OutstandingInv'
  BY <1>t DEF LockInv, OutstandingInv, Waits
<1>5. ReaderInv'
  <2>1. \A o \in Procs : harness[o].proc # None =>
            LET p == harness[o].proc IN
            /\ o <= spawned /\ p <= spawned /\ procs'[p].owner = o
            /\ procs'[p].state \in {"up", "exited"} => procs'[p].reader
    BY <1>t, <1>2 DEF ReaderInv
  <2>2. stopper'.pc = "closing" => stopper'.obj # None
    BY <1>t DEF ReaderInv, IdleStopper
  <2> QED BY <2>1, <2>2, <1>t DEF ReaderInv
<1>6. CleanInv'
  <2>1. ASSUME NEW o \in Procs, harness[o].turn \in clean, harness[o].proc # None
        PROVE  Owns(harness[o].turn, procs[harness[o].proc])'
    <3>1. Owns(harness[o].turn, procs[harness[o].proc])
      BY <2>1, <1>t DEF CleanInv
    <3>2. harness[o].proc \in Procs /\ harness[o].turn \in Turns
      BY <2>1, <1>2, <1>t DEF StateOK
    <3>3. Owns(harness[o].turn, procs'[harness[o].proc])
      BY <3>1, <3>2
    <3> QED BY <3>3 DEF Owns
  <2> QED BY <2>1, <1>t DEF CleanInv
<1>7. TurnIsHeard'
  <2>1. ASSUME NEW t \in Turns, turns[t].pc = "active"
        PROVE  LET o == turns[t].obj IN
               \/ \E i \in DOMAIN turns[t].queue : turns[t].queue[i].last
               \/ /\ harness[o].turn = t
                  /\ \/ harness[o].proc # None /\ procs'[harness[o].proc].reader
                     \/ stopper'.pc = "closing" /\ stopper'.obj = o
    <3>1. turns[t].obj \in Procs
      BY <2>1, Waiter DEF Waits
    <3> QED BY <2>1, <3>1, <1>2, <1>t DEF TurnIsHeard
  <2> QED BY <2>1 DEF TurnIsHeard
<1>8. CleanTurnOwnsItsOutput'
  BY <1>t DEF CleanTurnOwnsItsOutput
<1> QED BY <1>3, <1>4, <1>5, <1>6, <1>7, <1>8 DEF Inv

\* A harness at t's prompt goes on with it until it has answered it.
LEMMA AnswerOwns ==
    ASSUME NEW t \in Turns, NEW proc \in Proc, Owns(t, proc), proc.state = "up",
           proc.todo # <<>>, NEW e \in Event, e.for = Head(proc.todo).for,
           NEW todo \in Seq(Job), NEW next \in Proc,
           next.state = "up", next.todo = todo, next.out = Append(proc.out, e),
           e.last \/ (todo # <<>> /\ Head(todo).for = Head(proc.todo).for)
    PROVE  Owns(t, next)
<1>1. /\ proc.out \in Seq(Event) /\ Len(proc.out) \in Nat /\ DOMAIN proc.out = 1 .. Len(proc.out)
      /\ Len(next.out) = Len(proc.out) + 1 /\ next.out[Len(proc.out) + 1] = e
      /\ \A i \in 1 .. Len(proc.out) : next.out[i] = proc.out[i]
      /\ DOMAIN next.out = 1 .. Len(proc.out) + 1
  BY DEF Proc
<1>2. ASSUME NEW i \in 1 .. Len(next.out), \A j \in 1 .. i - 1 : ~next.out[j].last
      PROVE  next.out[i].for = t
  <2>1. CASE i \in 1 .. Len(proc.out)
    <3>1. \A j \in 1 .. i - 1 : ~proc.out[j].last
      BY <1>1, <1>2, <2>1
    <3> QED BY <3>1, <2>1, <1>1 DEF Owns
  <2>2. CASE i = Len(proc.out) + 1
    <3>1. \A j \in 1 .. Len(proc.out) : ~proc.out[j].last
      BY <1>1, <1>2, <2>2
    <3> QED BY <3>1, <2>2, <1>1 DEF Owns, Ends
  <2> QED BY <2>1, <2>2, <1>1
<1>3. ASSUME ~Ends(next.out) PROVE next.todo # <<>> /\ Head(next.todo).for = t
  <2>1. ~Ends(proc.out) /\ ~e.last
    BY <1>1, <1>3 DEF Ends
  <2> QED BY <2>1 DEF Owns
<1> QED BY <1>2, <1>3 DEF Owns

LEMMA AnswerStep == ASSUME Inv, NEW p \in Procs, Answer(p) PROVE Inv'
<1> DEFINE job == Head(procs[p].todo)
<1>1. /\ procs \in [Procs -> Proc] /\ procs[p] \in Proc
      /\ procs[p].state = "up" /\ procs[p].todo # <<>> /\ procs[p].todo \in Seq(Job)
      /\ procs[p].out \in Seq(Event) /\ wakes \in 0 .. MaxWakes
  BY DEF Inv, StateOK, Proc, Answer
<1>2. job \in Job /\ Tail(procs[p].todo) \in Seq(Job) /\ Len(procs[p].todo) >= 1
  BY <1>1
<1>3. PICK e \in Event, todo \in Seq(Job) :
          /\ e.for = job.for
          /\ e.last \/ (todo # <<>> /\ Head(todo).for = job.for)
          /\ procs' = [procs EXCEPT ![p].todo = todo, ![p].out = Append(@, e)]
  <2>1. CASE /\ ~job.said
             /\ procs' = [procs EXCEPT ![p].todo[1].said = TRUE,
                                       ![p].out = Append(@, [for |-> job.for, last |-> FALSE])]
    <3> DEFINE e == [for |-> job.for, last |-> FALSE]
               todo == [procs[p].todo EXCEPT ![1].said = TRUE]
    <3>1. e \in Event /\ e.for = job.for
      BY <1>2 DEF Event, Job
    <3>2. todo \in Seq(Job) /\ Len(todo) = Len(procs[p].todo) /\ todo[1] = [job EXCEPT !.said = TRUE]
      <4> DEFINE first == [job EXCEPT !.said = TRUE]
      <4>1. first \in Job
        BY <1>2 DEF Job
      <4>2. /\ procs[p].todo \in [1 .. Len(procs[p].todo) -> Job]
            /\ 1 \in 1 .. Len(procs[p].todo) /\ job = procs[p].todo[1]
        BY <1>1, <1>2
      <4>3. todo = [procs[p].todo EXCEPT ![1] = first]
        BY <4>2
      <4> HIDE DEF first, todo
      <4>4. todo \in [1 .. Len(procs[p].todo) -> Job] /\ todo[1] = first
        BY <4>1, <4>2, <4>3
      <4>5. Len(procs[p].todo) \in Nat
        BY <1>1
      <4>6. todo \in Seq(Job) /\ Len(todo) = Len(procs[p].todo)
        BY <4>4, <4>5
      <4> QED BY <4>4, <4>6 DEF first
    <3>3. todo # <<>> /\ Head(todo).for = job.for
      BY <3>2, <1>2 DEF Job
    <3>4. procs' = [procs EXCEPT ![p].todo = todo, ![p].out = Append(@, e)]
      BY <2>1, <1>1 DEF Proc
    <3> HIDE DEF e, todo, job
    <3> QED BY <3>1, <3>2, <3>3, <3>4
  <2>2. CASE procs' = [procs EXCEPT ![p].todo = Tail(@),
                                    ![p].out = Append(@, [for |-> job.for, last |-> TRUE])]
    <3> DEFINE e == [for |-> job.for, last |-> TRUE]
    <3>1. e \in Event /\ e.for = job.for /\ e.last
      BY <1>2 DEF Event, Job
    <3>2. procs' = [procs EXCEPT ![p].todo = Tail(procs[p].todo), ![p].out = Append(@, e)]
      BY <2>2, <1>1 DEF Proc
    <3> HIDE DEF e, job
    <3> QED BY <3>1, <3>2, <1>2
  <2> QED BY <2>1, <2>2 DEF Answer
<1> DEFINE next == [procs[p] EXCEPT !.todo = todo, !.out = Append(@, e)]
<1>4. /\ next \in Proc /\ next.state = "up" /\ next.todo = todo
      /\ next.out = Append(procs[p].out, e)
      /\ next.owner = procs[p].owner /\ next.reader = procs[p].reader
  <2>1. Append(procs[p].out, e) \in Seq(Event)
    BY <1>1
  <2> QED BY <2>1, <1>1 DEF Proc
<1>5. procs' = [procs EXCEPT ![p] = next]
  BY <1>1, <1>3
<1> HIDE DEF next, job
<1>6. /\ procs' \in [Procs -> Proc] /\ procs'[p] = next
      /\ \A q \in Procs \ {p} : procs'[q] = procs[q]
  BY <1>1, <1>4, <1>5
<1>7. \A t \in Turns : Owns(t, procs[p]) => Owns(t, procs'[p])
  <2>1. e.for = Head(procs[p].todo).for
    BY <1>3 DEF job
  <2>2. e.last \/ (todo # <<>> /\ Head(todo).for = Head(procs[p].todo).for)
    BY <1>3 DEF job
  <2>3. ASSUME NEW t \in Turns, Owns(t, procs[p]) PROVE Owns(t, next)
    BY <2>1, <2>2, <2>3, <1>1, <1>4, AnswerOwns
  <2> QED BY <2>3, <1>6
<1>8. \A q \in Procs :
          /\ procs'[q].owner = procs[q].owner /\ procs'[q].reader = procs[q].reader
          /\ procs'[q].state \in {"up", "exited"} => procs[q].state \in {"up", "exited"}
          /\ \A t \in Turns : Owns(t, procs[q]) => Owns(t, procs'[q])
  BY <1>1, <1>4, <1>6, <1>7
<1>9. UNCHANGED <<tracked, harness, turns, spawned, stops, clean>> /\ stopper' = stopper /\ wakes' = wakes
  BY DEF Answer
<1> QED BY <1>1, <1>6, <1>8, <1>9, ProcessesStep

\* Work is put behind the work a harness has.
LEMMA JobStep ==
    ASSUME Inv, NEW p \in Procs, procs[p].state = "up", NEW job \in Job,
           procs' = [procs EXCEPT ![p].todo = Append(@, job)],
           wakes' \in 0 .. MaxWakes,
           UNCHANGED <<tracked, harness, turns, spawned, stops, clean, stopper>>
    PROVE  Inv'
<1> DEFINE next == [procs[p] EXCEPT !.todo = Append(@, job)]
<1>1. /\ procs \in [Procs -> Proc] /\ procs[p] \in Proc /\ procs[p].state = "up"
      /\ procs[p].todo \in Seq(Job) /\ job \in Job
  BY DEF Inv, StateOK, Proc
<1>2. /\ Append(procs[p].todo, job) \in Seq(Job)
      /\ procs[p].todo # <<>> => /\ Append(procs[p].todo, job) # <<>>
                                 /\ Head(Append(procs[p].todo, job)) = Head(procs[p].todo)
  BY <1>1
<1>3. /\ next \in Proc /\ next.todo = Append(procs[p].todo, job) /\ next.out = procs[p].out
      /\ next.state = "up" /\ next.owner = procs[p].owner /\ next.reader = procs[p].reader
  BY <1>1, <1>2 DEF Proc
<1>4. procs' = [procs EXCEPT ![p] = next]
  BY <1>1
<1> HIDE DEF next
<1>5. /\ procs' \in [Procs -> Proc] /\ procs'[p] = next
      /\ \A q \in Procs \ {p} : procs'[q] = procs[q]
  BY <1>1, <1>3, <1>4
<1>6. \A t \in Turns : Owns(t, procs[p]) => Owns(t, next)
  BY <1>1, <1>2, <1>3 DEF Owns
<1>7. \A q \in Procs :
          /\ procs'[q].owner = procs[q].owner /\ procs'[q].reader = procs[q].reader
          /\ procs'[q].state \in {"up", "exited"} => procs[q].state \in {"up", "exited"}
          /\ \A t \in Turns : Owns(t, procs[q]) => Owns(t, procs'[q])
  BY <1>1, <1>3, <1>5, <1>6
<1>8. UNCHANGED <<tracked, harness, turns, spawned, stops, clean>> /\ stopper' = stopper
  OBVIOUS
<1> QED BY <1>5, <1>7, <1>8, ProcessesStep

LEMMA WakeStep == ASSUME Inv, NEW p \in Procs, Wake(p) PROVE Inv'
<1>1. PICK job \in Job : job = [for |-> "wake", said |-> FALSE]
  BY DEF Job
<1>2. procs' = [procs EXCEPT ![p].todo = Append(@, job)] /\ procs[p].state = "up"
  BY <1>1 DEF Wake
<1>3. wakes' \in 0 .. MaxWakes
  BY BoundsAssumption DEF Wake, Inv, StateOK
<1>4. UNCHANGED <<tracked, harness, turns, spawned, stops, clean, stopper>>
  BY DEF Wake
<1> QED BY <1>2, <1>3, <1>4, JobStep

\* A prompt is read to its end.  The prompts in a pipe are of turns.
LEMMA TakePromptStep ==
    ASSUME Inv, inpipe \in [Procs -> Seq(Turns)], NEW p \in Procs, TakePrompt(p)
    PROVE  Inv'
<1>1. inpipe[p] # <<>> /\ procs[p].state = "up" /\ procs' = Given(procs, p, Head(inpipe[p]))
  BY DEF TakePrompt
<1>2. PICK t \in Turns : t = Head(inpipe[p])
  BY <1>1
<1>3. PICK job \in Job : job = [for |-> t, said |-> FALSE]
  BY DEF Job
<1>4. procs' = [procs EXCEPT ![p].todo = Append(@, job)]
  BY <1>1, <1>2, <1>3 DEF Given
<1>5. wakes' \in 0 .. MaxWakes
  BY DEF TakePrompt, Inv, StateOK
<1>6. UNCHANGED <<tracked, harness, turns, spawned, stops, clean, stopper>>
  BY DEF TakePrompt
<1> QED BY <1>1, <1>4, <1>5, <1>6, JobStep

\* A process that is not up writes no more.
LEMMA DownOwns ==
    ASSUME NEW t \in Turns, NEW proc, NEW next, Owns(t, proc), next.out = proc.out, next.state # "up"
    PROVE  Owns(t, next)
BY DEF Owns

LEMMA DeathStep == ASSUME Inv, (\E p \in Procs : Die(p) \/ Reap(p)) \/ DockerStops PROVE Inv'
<1>1. procs \in [Procs -> Proc] /\ wakes \in 0 .. MaxWakes
  BY DEF Inv, StateOK
<1>2. <<>> \in Seq(Job)
  OBVIOUS
<1>3. /\ UNCHANGED <<tracked, harness, turns, spawned, stops, clean>> /\ wakes' = wakes
      /\ stopper' = stopper \/ (stopper.pc = "docker" /\ stopper' = IdleStopper)
  BY DEF Die, Reap, DockerStops
<1>4. ASSUME NEW p \in Procs
      PROVE  /\ procs'[p] \in Proc
             /\ procs'[p].out = procs[p].out
             /\ procs'[p].owner = procs[p].owner /\ procs'[p].reader = procs[p].reader
             /\ \/ procs'[p] = procs[p]
                \/ procs[p].state \in {"up", "exited"} /\ procs'[p].state # "up"
  <2>1. procs[p] \in Proc
    BY <1>1
  <2>2. \/ procs'[p] = procs[p]
        \/ procs[p].state = "up" /\ procs'[p] = [procs[p] EXCEPT !.state = "exited", !.todo = <<>>]
        \/ procs[p].state = "exited" /\ procs'[p] = [procs[p] EXCEPT !.state = "reaped"]
    BY <1>1 DEF Die, Reap, DockerStops
  <2> QED BY <2>1, <2>2, <1>2 DEF Proc
<1>5. procs' \in [Procs -> Proc]
  <2>1. DOMAIN procs' = Procs /\ procs' = [p \in Procs |-> procs'[p]]
    BY <1>1 DEF Die, Reap, DockerStops
  <2> QED BY <2>1, <1>4
<1>6. \A p \in Procs :
          /\ procs'[p].owner = procs[p].owner /\ procs'[p].reader = procs[p].reader
          /\ procs'[p].state \in {"up", "exited"} => procs[p].state \in {"up", "exited"}
          /\ \A t \in Turns : Owns(t, procs[p]) => Owns(t, procs'[p])
  BY <1>4, DownOwns
<1> QED BY <1>1, <1>3, <1>5, <1>6, ProcessesStep

----------------------------------------------------------------------------
(* Events are handed to a turn, or to nobody *)

\* Someone will tell the turn of an object that its process is gone.
Watched(o) ==
    \/ harness[o].proc # None /\ procs[harness[o].proc].reader
    \/ stopper.pc = "closing" /\ stopper.obj = o

Scalars ==
    /\ tracked \in 0 .. spawned /\ spawned \in ProcOrNone /\ stopper \in Stopper
    /\ wakes \in 0 .. MaxWakes /\ stops \in 0 .. MaxStops

\* An event behind no other's end is the end of the queue if it is one.
LEMMA QueueGrows ==
    ASSUME NEW queue \in Seq(Event), NEW e \in Event, ~Ends(queue)
    PROVE  /\ Append(queue, e) \in Seq(Event)
           /\ Ends(Append(queue, e)) <=> e.last
           /\ \A i \in DOMAIN Append(queue, e) :
                 /\ Append(queue, e)[i].last => i = Len(Append(queue, e))
                 /\ Append(queue, e)[i] = e \/ \E j \in DOMAIN queue : Append(queue, e)[i] = queue[j]
<1>1. /\ Len(queue) \in Nat /\ DOMAIN queue = 1 .. Len(queue)
      /\ Append(queue, e) \in Seq(Event)
      /\ Len(Append(queue, e)) = Len(queue) + 1
      /\ DOMAIN Append(queue, e) = 1 .. Len(queue) + 1
      /\ Append(queue, e)[Len(queue) + 1] = e
      /\ \A i \in 1 .. Len(queue) : Append(queue, e)[i] = queue[i]
  OBVIOUS
<1>2. \A i \in 1 .. Len(queue) : ~queue[i].last
  BY <1>1 DEF Ends
<1>3. Ends(Append(queue, e)) <=> e.last
  BY <1>1, <1>2 DEF Ends
<1>4. ASSUME NEW i \in 1 .. Len(queue) + 1
      PROVE  /\ Append(queue, e)[i].last => i = Len(queue) + 1
             /\ Append(queue, e)[i] = e \/ \E j \in DOMAIN queue : Append(queue, e)[i] = queue[j]
  <2>1. CASE i = Len(queue) + 1
    BY <2>1, <1>1
  <2>2. CASE i \in 1 .. Len(queue)
    BY <2>2, <1>1, <1>2
  <2> QED BY <2>1, <2>2, <1>1
<1> QED BY <1>1, <1>3, <1>4

\* Objects lose or keep their process; one object's turn may be handed an
\* event; a turn that is new may go to spawn.
LEMMA RouteStep ==
    ASSUME Inv, NEW o \in ProcOrNone, NEW e \in Event, NEW target \in Turns \cup {None},
           target # None => o \in Procs /\ target = harness[o].turn,
           target \in clean => e.for \in {target, "exit"},
           turns' \in [Turns -> Turn],
           \A t \in Turns :
               /\ turns'[t].obj = turns[t].obj
               /\ turns'[t].pc = turns[t].pc \/ (turns[t].pc = "new" /\ turns'[t].pc = "spawning")
               /\ turns'[t].queue = IF t = target THEN Append(turns[t].queue, e) ELSE turns[t].queue,
           harness' \in [Procs -> Object],
           \A x \in Procs :
               /\ harness'[x].lock = harness[x].lock
               /\ harness'[x].turn = IF x = o /\ target # None /\ e.last THEN None
                                     ELSE harness[x].turn,
           Scalars', spawned' = spawned, clean' = clean, procs' \in [Procs -> Proc],
           ReaderInv',
           \A x \in Procs :
               harness'[x].proc # None =>
                   /\ harness[x].proc # None
                   /\ \A t \in Turns : harness[x].turn = t /\ harness'[x].turn = t
                                       /\ Owns(t, procs[harness[x].proc])
                                           => Owns(t, procs'[harness'[x].proc]),
           \A x \in Procs : Watched(x) => Watched(x)' \/ (x = o /\ target = harness[o].turn /\ e.last)
    PROVE  Inv'
<1>t. /\ StateOK /\ LockInv /\ OutstandingInv /\ ReaderInv /\ CleanInv
      /\ TurnIsHeard /\ CleanTurnOwnsItsOutput
  BY DEF Inv
<1>1. /\ turns \in [Turns -> Turn] /\ harness \in [Procs -> Object] /\ clean \in SUBSET Turns
      /\ \A t \in Turns : turns[t] \in Turn /\ turns[t].queue \in Seq(Event)
  BY <1>t DEF StateOK, Turn
<1>2. target # None => /\ target \in Turns /\ harness[o].turn = target
                       /\ turns[target].pc = "active" /\ turns[target].obj = o
                       /\ ~Ends(turns[target].queue)
  BY Outstanding
<1>3. \A t \in Turns : Waits(t)' <=> Waits(t)
  BY DEF Waits
<1>4. StateOK'
  <2>1. ASSUME NEW t \in Turns, NEW i \in DOMAIN turns'[t].queue, turns'[t].queue[i].last
        PROVE  i = Len(turns'[t].queue)
    <3>1. CASE t = target
      <4>1. ~Ends(turns[t].queue) /\ turns'[t].queue = Append(turns[t].queue, e)
        BY <3>1, <1>2, Bounds
      <4>2. \A j \in DOMAIN Append(turns[t].queue, e) :
                Append(turns[t].queue, e)[j].last => j = Len(Append(turns[t].queue, e))
        BY <4>1, <1>1, QueueGrows
      <4> QED BY <2>1, <4>1, <4>2
    <3>2. CASE t # target
      BY <2>1, <3>2, <1>t DEF StateOK
    <3> QED BY <3>1, <3>2
  <2> QED BY <2>1, <1>1 DEF StateOK, Scalars
<1>5. LockInv'
  <2>1. \A t \in Turns : Waits(t) => turns[t].obj \in Procs
    BY Waiter
  <2>2. \A t \in Turns : Waits(t)' => turns'[t].pc = turns[t].pc
    BY DEF Waits
  <2>3. \A x \in Procs : \A i \in 1 .. Len(harness[x].lock) : harness[x].lock[i] \in Turns
    BY <1>1 DEF Object
  <2>4. \A t \in Turns : Waits(t)' =>
          /\ turns'[t].obj \in 1 .. spawned'
          /\ \E i \in 1 .. Len(harness'[turns'[t].obj].lock) : harness'[turns'[t].obj].lock[i] = t
    BY <2>1, <1>3, <1>t DEF LockInv
  <2>5. ASSUME NEW x \in Procs, NEW i \in 1 .. Len(harness'[x].lock)
        PROVE  LET t == harness'[x].lock[i] IN
               /\ turns'[t].pc \in {"lock", "starting", "active"}
               /\ turns'[t].obj = x /\ (turns'[t].pc # "lock" => i = 1)
    <3> DEFINE t == harness[x].lock[i]
    <3>1. i \in 1 .. Len(harness[x].lock) /\ harness'[x].lock[i] = t
      OBVIOUS
    <3>2. Waits(t) /\ turns[t].obj = x /\ (turns[t].pc # "lock" => i = 1)
      BY <3>1, <1>t DEF LockInv
    <3>3. t \in Turns
      BY <3>1, <2>3
    <3>4. (turns'[t].pc \in {"lock", "starting", "active"}) /\ turns'[t].pc = turns[t].pc
      BY <3>2, <3>3 DEF Waits
    <3> HIDE DEF t
    <3> QED BY <3>1, <3>2, <3>3, <3>4
  <2>6. \A x \in Procs : \A i, j \in 1 .. Len(harness'[x].lock) :
            harness'[x].lock[i] = harness'[x].lock[j] => i = j
    BY <1>t DEF LockInv
  <2> QED BY <2>4, <2>5, <2>6 DEF LockInv, Waits
<1>6. OutstandingInv'
  <2> SUFFICES ASSUME NEW x \in Procs, harness'[x].turn # None
               PROVE  /\ turns'[harness'[x].turn].pc = "active"
                      /\ turns'[harness'[x].turn].obj = x
                      /\ ~Ends(turns'[harness'[x].turn].queue)
    BY DEF OutstandingInv, Ends
  <2>1. PICK u \in Turns : /\ harness'[x].turn = u /\ harness[x].turn = u
                           /\ turns[u].pc = "active" /\ turns[u].obj = x /\ ~Ends(turns[u].queue)
    BY Outstanding
  <2>2. turns'[u].pc = "active" /\ turns'[u].obj = x
    BY <2>1
  <2>3. ~Ends(turns'[u].queue)
    <3>1. CASE u = target
      <4>1. target # None /\ x = o
        BY <2>1, <3>1, <1>2, Bounds
      <4>2. ~e.last
        BY <2>1, <4>1, Bounds
      <4> QED BY <2>1, <3>1, <4>2, <1>1, QueueGrows
    <3>2. CASE u # target
      BY <2>1, <3>2
    <3> QED BY <3>1, <3>2
  <2> QED BY <2>1, <2>2, <2>3
<1>7. CleanInv'
  <2>1. \A t \in clean : turns'[t].pc \in {"active", "done"}
    BY <1>1, <1>t DEF CleanInv
  <2>2. ASSUME NEW x \in Procs, harness'[x].turn \in clean, harness'[x].proc # None
        PROVE  Owns(harness'[x].turn, procs'[harness'[x].proc])
    <3>1. PICK t \in Turns : t \in clean /\ harness'[x].turn = t
      BY <2>2, <1>1
    <3>2. harness[x].turn = t
      BY <3>1, Bounds
    <3>3. Owns(t, procs[harness[x].proc])
      BY <2>2, <3>1, <3>2, <1>t DEF CleanInv
    <3> QED BY <2>2, <3>1, <3>2, <3>3
  <2> QED BY <2>1, <2>2 DEF CleanInv, Owns, Ends
<1>8. TurnIsHeard'
  <2> SUFFICES ASSUME NEW t \in Turns, NEW x, turns'[t].pc = "active", turns'[t].obj = x
               PROVE  Ends(turns'[t].queue) \/ (harness'[x].turn = t /\ Watched(x)')
    BY DEF TurnIsHeard, Ends, Watched
  <2>1. turns[t].pc = "active" /\ turns[t].obj = x /\ x \in Procs
    BY Waiter DEF Waits
  <2>2. Ends(turns[t].queue) \/ (harness[x].turn = t /\ Watched(x))
    BY <2>1, <1>t DEF TurnIsHeard, Ends, Watched
  <2>3. CASE Ends(turns[t].queue)
    <3>1. t # target
      BY <2>3, <1>2, Bounds
    <3> QED BY <2>3, <3>1
  <2>4. CASE harness[x].turn = t /\ Watched(x)
    <3>1. CASE t = target /\ e.last
      <4>1. ~Ends(turns[t].queue) /\ turns'[t].queue = Append(turns[t].queue, e)
        BY <3>1, <1>2, Bounds
      <4>2. Ends(Append(turns[t].queue, e))
        BY <3>1, <4>1, <1>1, QueueGrows
      <4> QED BY <4>1, <4>2
    <3>2. CASE ~(t = target /\ e.last)
      <4>1. harness'[x].turn = t
        BY <2>1, <2>4, <3>2, <1>2
      <4>2. Watched(x)'
        BY <2>1, <2>4, <3>2
      <4> QED BY <4>1, <4>2
    <3> QED BY <3>1, <3>2
  <2> QED BY <2>2, <2>3, <2>4
<1>9. CleanTurnOwnsItsOutput'
  <2> SUFFICES ASSUME NEW t \in Turns, t \in clean, NEW i \in DOMAIN turns'[t].queue
               PROVE  turns'[t].queue[i].for \in {t, "exit"}
    BY <1>1 DEF CleanTurnOwnsItsOutput
  <2>1. CASE t = target
    <3>1. ~Ends(turns[t].queue) /\ turns'[t].queue = Append(turns[t].queue, e)
      BY <2>1, <1>2, Bounds
    <3>2. turns'[t].queue[i] = e \/ \E j \in DOMAIN turns[t].queue : turns'[t].queue[i] = turns[t].queue[j]
      BY <3>1, <1>1, QueueGrows
    <3> QED BY <2>1, <3>2, <1>t DEF CleanTurnOwnsItsOutput
  <2>2. CASE t # target
    BY <2>2, <1>t DEF CleanTurnOwnsItsOutput
  <2> QED BY <2>1, <2>2
<1> QED BY <1>4, <1>5, <1>6, <1>7, <1>8, <1>9 DEF Inv

\* What _deliver does to turns and objects.
LEMMA Told ==
    ASSUME Inv, NEW o \in Procs, NEW e \in Event, NEW hs \in [Procs -> Object],
           \A x \in Procs : hs[x].lock = harness[x].lock /\ hs[x].turn = harness[x].turn
    PROVE  /\ Queued(o, e) \in [Turns -> Turn]
           /\ \A t \in Turns :
                 /\ Queued(o, e)[t].obj = turns[t].obj /\ Queued(o, e)[t].pc = turns[t].pc
                 /\ Queued(o, e)[t].queue = IF t = harness[o].turn THEN Append(turns[t].queue, e)
                                            ELSE turns[t].queue
           /\ Settled(hs, o, e) \in [Procs -> Object]
           /\ \A x \in Procs :
                 /\ Settled(hs, o, e)[x].lock = harness[x].lock
                 /\ Settled(hs, o, e)[x].proc = hs[x].proc
                 /\ Settled(hs, o, e)[x].turn =
                       IF x = o /\ harness[o].turn # None /\ e.last THEN None ELSE harness[x].turn
<1>1. turns \in [Turns -> Turn] /\ harness \in [Procs -> Object]
  BY DEF Inv, StateOK
<1> DEFINE target == harness[o].turn
<1>2. CASE target = None
  <2>1. Queued(o, e) = turns /\ \A t \in Turns : t # target
    BY <1>2, Bounds DEF Queued
  <2>2. /\ Settled(hs, o, e) \in [Procs -> Object]
        /\ \A x \in Procs : /\ Settled(hs, o, e)[x].lock = hs[x].lock
                            /\ Settled(hs, o, e)[x].proc = hs[x].proc
                            /\ Settled(hs, o, e)[x].turn =
                                  IF x = o /\ e.last THEN None ELSE hs[x].turn
    BY Bounds DEF Settled, Object
  <2> QED BY <1>1, <1>2, <2>1, <2>2
<1>3. CASE target # None
  <2>1. target \in Turns /\ ~Ends(turns[target].queue)
    BY <1>3, Outstanding
  <2>2. turns[target] \in Turn /\ turns[target].queue \in Seq(Event)
    BY <1>1, <2>1 DEF Turn
  <2>3. Append(turns[target].queue, e) \in Seq(Event)
    BY <2>1, <2>2, QueueGrows
  <2> DEFINE turn == [turns[target] EXCEPT !.queue = Append(@, e)]
  <2>4. /\ turn \in Turn /\ turn.obj = turns[target].obj /\ turn.pc = turns[target].pc
        /\ turn.queue = Append(turns[target].queue, e)
    BY <2>2, <2>3 DEF Turn
  <2>5. Queued(o, e) = [turns EXCEPT ![target] = turn]
    BY <1>3, <1>1, <2>1 DEF Queued
  <2> HIDE DEF turn, target
  <2>6. /\ Queued(o, e) \in [Turns -> Turn]
        /\ \A t \in Turns :
              /\ Queued(o, e)[t].obj = turns[t].obj /\ Queued(o, e)[t].pc = turns[t].pc
              /\ Queued(o, e)[t].queue = IF t = target THEN Append(turns[t].queue, e)
                                         ELSE turns[t].queue
    BY <1>1, <2>1, <2>4, <2>5
  <2>7. /\ Settled(hs, o, e) \in [Procs -> Object]
        /\ \A x \in Procs : /\ Settled(hs, o, e)[x].lock = hs[x].lock
                            /\ Settled(hs, o, e)[x].proc = hs[x].proc
                            /\ Settled(hs, o, e)[x].turn =
                                  IF x = o /\ e.last THEN None ELSE hs[x].turn
    BY Bounds DEF Settled, Object
  <2> QED BY <1>3, <2>6, <2>7 DEF target
<1> QED BY <1>2, <1>3

\* The reader takes an event from the process of an object.
LEMMA ReadStep == ASSUME Inv, NEW p \in Procs, Read(p) \/ ReadEnd(p) PROVE Inv'
<1> DEFINE o == procs[p].owner
<1>t. StateOK /\ ReaderInv /\ CleanInv
  BY DEF Inv
<1>1. /\ procs \in [Procs -> Proc] /\ procs[p] \in Proc /\ procs[p].reader
      /\ procs[p].out \in Seq(Event) /\ harness \in [Procs -> Object]
  BY <1>t DEF StateOK, Proc, Read, ReadEnd
<1>2. o \in Procs /\ harness[o].proc = p
  <2>1. o \in ProcOrNone
    BY <1>1 DEF Proc
  <2>2. o # None /\ harness[o].proc = p
    BY <1>1, <1>t DEF ReaderInv
  <2> QED BY <2>1, <2>2, Bounds DEF ProcOrNone
<1> HIDE DEF o
<1>3. PICK e \in Event :
          /\ turns' = Queued(o, e) /\ harness' = Settled(harness, o, e)
          /\ \/ e.last /\ procs' = Unread(p) /\ procs[p].state = "reaped" /\ e.for = "exit"
             \/ /\ procs[p].out # <<>> /\ e = Head(procs[p].out)
                /\ procs' = [procs EXCEPT ![p].out = Tail(@)]
  <2>1. CASE Read(p)
    <3>1. Head(procs[p].out) \in Event
      BY <2>1, <1>1 DEF Read
    <3> QED BY <2>1, <3>1 DEF Read, o
  <2>2. CASE ReadEnd(p)
    <3>1. Notice \in Event /\ Notice.last /\ Notice.for = "exit"
      BY DEF Notice, Event
    <3> QED BY <2>2, <3>1 DEF ReadEnd, o
  <2> QED BY <2>1, <2>2
<1> DEFINE target == harness[o].turn
<1>4. /\ turns' \in [Turns -> Turn]
      /\ \A t \in Turns :
            /\ turns'[t].obj = turns[t].obj /\ turns'[t].pc = turns[t].pc
            /\ turns'[t].queue = IF t = target THEN Append(turns[t].queue, e) ELSE turns[t].queue
      /\ harness' \in [Procs -> Object]
      /\ \A x \in Procs :
            /\ harness'[x].lock = harness[x].lock /\ harness'[x].proc = harness[x].proc
            /\ harness'[x].turn = IF x = o /\ target # None /\ e.last THEN None ELSE harness[x].turn
  BY <1>1, <1>2, <1>3, Told
<1>5. UNCHANGED <<tracked, spawned, stopper, wakes, stops, clean>>
  BY DEF Read, ReadEnd
<1>6. Scalars'
  BY <1>5, <1>t DEF Scalars, StateOK
<1>7. /\ procs' \in [Procs -> Proc]
      /\ \A q \in Procs \ {p} : procs'[q] = procs[q]
      /\ procs'[p].owner = procs[p].owner /\ procs'[p].state = procs[p].state
      /\ IF procs' = Unread(p) THEN ~procs'[p].reader ELSE procs'[p].reader
  <2>1. CASE procs' = Unread(p)
    BY <2>1, <1>1 DEF Unread, Proc
  <2>2. CASE procs' = [procs EXCEPT ![p].out = Tail(@)] /\ procs' # Unread(p) /\ procs[p].out # <<>>
    <3>1. Tail(procs[p].out) \in Seq(Event)
      BY <2>2, <1>1
    <3> QED BY <2>2, <3>1, <1>1 DEF Proc
  <2> QED BY <2>1, <2>2, <1>3
<1>8. procs' = Unread(p) => procs[p].state = "reaped" /\ e.last
  <2>1. ~Unread(p)[p].reader
    BY <1>1 DEF Unread, Proc
  <2>2. ASSUME procs' = [procs EXCEPT ![p].out = Tail(@)] PROVE procs' # Unread(p)
    BY <2>1, <2>2, <1>1 DEF Proc
  <2> QED BY <2>2, <1>3
<1>9. ReaderInv'
  <2>1. ASSUME NEW x \in Procs, harness'[x].proc # None
        PROVE  LET q == harness'[x].proc IN
               /\ x <= spawned' /\ q <= spawned' /\ procs'[q].owner = x
               /\ procs'[q].state \in {"up", "exited"} => procs'[q].reader
    <3> DEFINE q == harness[x].proc
    <3>1. harness'[x].proc = q /\ q # None /\ q \in Procs
      BY <2>1, <1>1, <1>4, Bounds DEF Object, ProcOrNone
    <3>2. /\ x <= spawned /\ q <= spawned /\ procs[q].owner = x
          /\ procs[q].state \in {"up", "exited"} => procs[q].reader
      BY <3>1, <1>t DEF ReaderInv
    <3> HIDE DEF q
    <3> QED BY <3>1, <3>2, <1>5, <1>7, <1>8
  <2>2. ASSUME NEW q \in Procs, procs'[q].reader
        PROVE  procs'[q].owner # None /\ harness'[procs'[q].owner].proc = q
    <3>1. procs[q].reader /\ procs'[q].owner = procs[q].owner
      BY <2>2, <1>1, <1>7
    <3>2. procs[q].owner # None /\ harness[procs[q].owner].proc = q
      BY <3>1, <1>t DEF ReaderInv
    <3>3. procs[q].owner \in Procs
      <4>1. procs[q] \in Proc
        BY <1>1
      <4>2. procs[q].owner \in ProcOrNone
        BY <4>1 DEF Proc
      <4> QED BY <4>2, <3>2, Bounds DEF ProcOrNone
    <3> QED BY <3>1, <3>2, <3>3, <1>4
  <2>3. ASSUME NEW t \in Turns, turns'[t].pc = "starting"
        PROVE  harness'[turns'[t].obj].proc = None
    <3>1. turns[t].pc = "starting" /\ turns[t].obj \in Procs /\ turns'[t].obj = turns[t].obj
      BY <2>3, <1>4, Waiter DEF Waits
    <3> QED BY <3>1, <1>4, <1>t DEF ReaderInv
  <2> QED BY <2>1, <2>2, <2>3, <1>5, <1>t DEF ReaderInv
<1>10. target \in clean => e.for \in {target, "exit"}
  <2> SUFFICES ASSUME target \in clean PROVE e.for \in {target, "exit"}
    OBVIOUS
  <2>1. Owns(target, procs[p])
    BY <1>2, <1>t, Bounds DEF CleanInv
  <2>2. procs[p].out # <<>> => Head(procs[p].out).for = target
    <3>1. procs[p].out # <<>> => 1 \in 1 .. Len(procs[p].out) /\ Head(procs[p].out) = procs[p].out[1]
      BY <1>1
    <3>2. \A j \in 1 .. 1 - 1 : FALSE
      OBVIOUS
    <3> QED BY <2>1, <3>1, <3>2 DEF Owns
  <2> QED BY <2>2, <1>3
<1>11. ASSUME NEW t \in Turns, target = t, harness'[o].turn = t, Owns(t, procs[p])
       PROVE  Owns(t, procs'[p])
  <2>1. ~e.last
    BY <1>11, <1>2, <1>4, Bounds
  <2>2. procs[p].out # <<>> /\ e = Head(procs[p].out) /\ procs' = [procs EXCEPT ![p].out = Tail(@)]
    BY <2>1, <1>3
  <2> DEFINE out == procs[p].out
             rest == Tail(out)
  <2>3. procs'[p].out = rest /\ procs'[p].state = procs[p].state /\ procs'[p].todo = procs[p].todo
    BY <2>2, <1>1 DEF Proc
  <2>4. /\ Len(out) \in Nat \ {0} /\ DOMAIN out = 1 .. Len(out) /\ ~out[1].last
        /\ Len(rest) = Len(out) - 1 /\ DOMAIN rest = 1 .. Len(out) - 1
        /\ \A i \in 1 .. Len(out) - 1 : rest[i] = out[i + 1]
    BY <2>1, <2>2, <1>1
  <2> HIDE DEF out, rest
  <2>5. ASSUME NEW i \in 1 .. Len(rest), \A j \in 1 .. i - 1 : ~rest[j].last
        PROVE  rest[i].for = t
    <3>1. ASSUME NEW j \in 1 .. (i + 1) - 1 PROVE ~out[j].last
      <4>1. CASE j = 1
        BY <4>1, <2>4
      <4>2. CASE j # 1
        <5>1. j - 1 \in 1 .. i - 1 /\ j - 1 \in 1 .. Len(out) - 1 /\ rest[j - 1] = out[j]
          BY <4>2, <2>4
        <5> QED BY <5>1, <2>5
      <4> QED BY <4>1, <4>2
    <3>2. i + 1 \in 1 .. Len(out) /\ rest[i] = out[i + 1]
      BY <2>4
    <3> QED BY <3>1, <3>2, <1>11 DEF Owns, out
  <2>6. ~Ends(rest) => ~Ends(out)
    <3> SUFFICES ASSUME ~Ends(rest), NEW i \in 1 .. Len(out) PROVE ~out[i].last
      BY <2>4 DEF Ends
    <3>1. CASE i = 1
      BY <3>1, <2>4
    <3>2. CASE i # 1
      <4>1. i - 1 \in 1 .. Len(out) - 1 /\ rest[i - 1] = out[i]
        BY <3>2, <2>4
      <4> QED BY <4>1, <2>4 DEF Ends
    <3> QED BY <3>1, <3>2
  <2> QED BY <2>3, <2>5, <2>6, <1>11 DEF Owns, out
<1>12. ASSUME NEW x \in Procs, harness'[x].proc # None
       PROVE  /\ harness[x].proc # None
              /\ \A t \in Turns : harness[x].turn = t /\ harness'[x].turn = t
                                  /\ Owns(t, procs[harness[x].proc])
                                      => Owns(t, procs'[harness'[x].proc])
  <2>1. harness'[x].proc = harness[x].proc /\ harness[x].proc \in Procs
    <3>1. harness'[x].proc = harness[x].proc
      BY <1>4
    <3>2. harness[x].proc \in 0 .. MaxProcs
      BY <1>1 DEF Object, ProcOrNone
    <3> QED BY <3>1, <3>2, <1>12, Bounds
  <2>2. CASE harness[x].proc = p
    <3>1. x = o
      <4>1. procs[p].owner = x
        BY <1>12, <2>1, <2>2, <1>t DEF ReaderInv
      <4> QED BY <4>1 DEF o
    <3> QED BY <2>1, <2>2, <3>1, <1>12, <1>11
  <2>3. CASE harness[x].proc # p
    BY <2>1, <2>3, <1>12, <1>7
  <2> QED BY <2>2, <2>3
<1>13. ASSUME NEW x \in Procs, Watched(x) PROVE Watched(x)' \/ (x = o /\ e.last)
  <2>1. CASE stopper.pc = "closing" /\ stopper.obj = x
    BY <2>1, <1>5 DEF Watched
  <2>2. CASE harness[x].proc # None /\ procs[harness[x].proc].reader
    <3>1. harness'[x].proc = harness[x].proc /\ harness[x].proc \in Procs
      BY <2>2, <1>1, <1>4, Bounds DEF Object, ProcOrNone
    <3>2. CASE harness[x].proc = p
      <4>1. x = o
        BY <2>2, <3>2, <1>t DEF ReaderInv, o
      <4> QED BY <4>1, <3>1, <3>2, <2>2, <1>7, <1>8 DEF Watched
    <3>3. CASE harness[x].proc # p
      BY <2>2, <3>1, <3>3, <1>7 DEF Watched
    <3> QED BY <3>2, <3>3
  <2> QED BY <1>13, <2>1, <2>2 DEF Watched
<1>14. /\ o \in ProcOrNone /\ target \in Turns \cup {None}
       /\ target # None => o \in Procs /\ target = harness[o].turn
  BY <1>1, <1>2, Bounds DEF ProcOrNone, Object
<1>15. \A x \in Procs : Watched(x) => Watched(x)' \/ (x = o /\ target = harness[o].turn /\ e.last)
  BY <1>13
<1> HIDE DEF target
<1> QED BY <1>2, <1>4, <1>5, <1>6, <1>7, <1>9, <1>10, <1>12, <1>14, <1>15, RouteStep

----------------------------------------------------------------------------
(* Closing an object *)

\* The process of an object is given up; its turn is told so at once, or by
\* the stop that waits for the process.
LEMMA DetachStep ==
    ASSUME Inv, NEW o \in Procs, NEW p, p = harness[o].proc, p # None, procs' = Unread(p),
           NEW target \in {None, harness[o].turn},
           turns' \in [Turns -> Turn],
           \A t \in Turns :
               /\ turns'[t].obj = turns[t].obj
               /\ turns'[t].pc = turns[t].pc \/ (turns[t].pc = "new" /\ turns'[t].pc = "spawning")
               /\ turns'[t].queue = IF t = target THEN Append(turns[t].queue, Notice) ELSE turns[t].queue,
           harness' \in [Procs -> Object],
           \A x \in Procs :
               /\ harness'[x].lock = harness[x].lock
               /\ harness'[x].proc = IF x = o THEN None ELSE harness[x].proc
               /\ harness'[x].turn = IF x = o /\ target # None THEN None ELSE harness[x].turn,
           Scalars', spawned' = spawned, clean' = clean,
           stopper' = stopper \/ stopper.pc = "idle",
           stopper'.pc = "closing" => stopper'.obj # None,
           target = harness[o].turn \/ (stopper'.pc = "closing" /\ stopper'.obj = o)
    PROVE  Inv'
<1>t. StateOK /\ ReaderInv
  BY DEF Inv
<1>1. /\ procs \in [Procs -> Proc] /\ harness \in [Procs -> Object]
      /\ \A x \in Procs : harness[x].proc # None => harness[x].proc \in Procs
      /\ \A q \in Procs : procs[q] \in Proc /\ (procs[q].owner # None => procs[q].owner \in Procs)
  <2>1. procs \in [Procs -> Proc] /\ harness \in [Procs -> Object]
    BY <1>t DEF StateOK
  <2>2. \A x \in Procs : harness[x].proc \in ProcOrNone
    BY <2>1 DEF Object
  <2>3. \A q \in Procs : procs[q] \in Proc /\ procs[q].owner \in ProcOrNone
    BY <2>1 DEF Proc
  <2>4. \A x \in ProcOrNone : x # None => x \in Procs
    BY Bounds DEF ProcOrNone
  <2> QED BY <2>1, <2>2, <2>3, <2>4
<1>2. p \in Procs /\ procs[p].owner = o
  BY <1>1, <1>t DEF ReaderInv
<1>3. /\ procs' \in [Procs -> Proc]
      /\ \A q \in Procs \ {p} : procs'[q] = procs[q]
      /\ procs'[p].owner = o /\ ~procs'[p].reader
  <2> DEFINE next == [procs[p] EXCEPT !.reader = FALSE]
  <2>1. procs' = [procs EXCEPT ![p] = next]
    BY <1>1, <1>2 DEF Unread
  <2>2. procs[p] \in Proc
    BY <1>1, <1>2
  <2>3. next.owner = procs[p].owner /\ next.reader = FALSE
    BY <2>2 DEF Proc
  <2>4. next \in Proc
    BY <2>2 DEF Proc
  <2> HIDE DEF next
  <2> QED BY <2>1, <2>3, <2>4, <1>1, <1>2
<1>4. \A x \in Procs \ {o} : harness[x].proc # p
  BY <1>1, <1>2, <1>t DEF ReaderInv
<1>5. ReaderInv'
  <2>1. ASSUME NEW x \in Procs, harness'[x].proc # None
        PROVE  LET q == harness'[x].proc IN
               /\ x <= spawned' /\ q <= spawned' /\ procs'[q].owner = x
               /\ procs'[q].state \in {"up", "exited"} => procs'[q].reader
    <3>1. x # o /\ harness'[x].proc = harness[x].proc /\ harness[x].proc \in Procs \ {p}
      BY <2>1, <1>1, <1>4
    <3>2. procs'[harness[x].proc] = procs[harness[x].proc]
      BY <3>1, <1>3
    <3>3. LET q == harness[x].proc IN
          /\ x <= spawned /\ q <= spawned /\ procs[q].owner = x
          /\ procs[q].state \in {"up", "exited"} => procs[q].reader
      BY <3>1, <1>t, Bounds DEF ReaderInv
    <3> QED BY <3>1, <3>2, <3>3
  <2>2. ASSUME NEW q \in Procs, procs'[q].reader
        PROVE  procs'[q].owner # None /\ harness'[procs'[q].owner].proc = q
    <3>1. q # p /\ procs'[q] = procs[q]
      BY <2>2, <1>3
    <3>2. procs[q].owner \in Procs /\ procs[q].owner # None /\ harness[procs[q].owner].proc = q
      BY <3>1, <2>2, <1>1, <1>t DEF ReaderInv
    <3>3. procs[q].owner # o
      BY <3>1, <3>2
    <3> QED BY <3>1, <3>2, <3>3
  <2>3. ASSUME NEW t \in Turns, turns'[t].pc = "starting"
        PROVE  harness'[turns'[t].obj].proc = None
    <3>1. turns[t].pc = "starting" /\ turns[t].obj \in Procs /\ turns'[t].obj = turns[t].obj
      BY <2>3, Waiter DEF Waits
    <3> QED BY <3>1, <1>t DEF ReaderInv
  <2> QED BY <2>1, <2>2, <2>3 DEF ReaderInv
<1>6. ASSUME NEW x \in Procs, harness'[x].proc # None
      PROVE  /\ harness[x].proc # None
             /\ \A t \in Turns : harness[x].turn = t /\ harness'[x].turn = t
                                 /\ Owns(t, procs[harness[x].proc])
                                     => Owns(t, procs'[harness'[x].proc])
  <2>1. x # o /\ harness'[x].proc = harness[x].proc /\ harness[x].proc \in Procs \ {p}
    BY <1>6, <1>1, <1>4
  <2> QED BY <2>1, <1>3, <1>6
<1>7. Notice \in Event /\ Notice.last /\ Notice.for = "exit"
  BY DEF Notice, Event
<1>8. ASSUME NEW x \in Procs, Watched(x)
      PROVE  Watched(x)' \/ (x = o /\ target = harness[o].turn /\ Notice.last)
  <2>1. CASE x = o
    BY <2>1, <1>7 DEF Watched
  <2>2. CASE x # o
    <3>1. harness'[x].proc = harness[x].proc
      BY <2>2
    <3>2. harness[x].proc # None => procs'[harness[x].proc] = procs[harness[x].proc]
      BY <2>2, <1>1, <1>3, <1>4
    <3>3. stopper.pc = "closing" => stopper' = stopper
      OBVIOUS
    <3> QED BY <3>1, <3>2, <3>3, <1>8 DEF Watched
  <2> QED BY <2>1, <2>2
<1>9. \A x \in Procs :
          harness'[x].turn = IF x = o /\ target # None /\ Notice.last THEN None ELSE harness[x].turn
  BY <1>7
<1>10. /\ o \in ProcOrNone /\ target \in Turns \cup {None}
       /\ target # None => o \in Procs /\ target = harness[o].turn
  BY <1>1, Bounds DEF ProcOrNone, Object
<1>11. target \in clean => Notice.for \in {target, "exit"}
  BY <1>7
<1> QED BY <1>3, <1>5, <1>6, <1>7, <1>8, <1>9, <1>10, <1>11, RouteStep, SMTT(30)

\* A turn goes to spawn, or the session's container to stop: nobody is told.
LEMMA QuietStep ==
    ASSUME Inv, harness' = harness, procs' = procs, spawned' = spawned, clean' = clean, Scalars',
           stopper' = stopper \/ (stopper.pc = "idle" /\ stopper'.pc # "closing"),
           turns' = turns \/ \E t \in Turns : turns[t].pc = "new"
                                              /\ turns' = [turns EXCEPT ![t].pc = "spawning"]
    PROVE  Inv'
<1>t. StateOK /\ ReaderInv
  BY DEF Inv
<1>1. /\ turns' \in [Turns -> Turn]
      /\ \A t \in Turns :
            /\ turns'[t].obj = turns[t].obj /\ turns'[t].queue = turns[t].queue
            /\ turns'[t].pc = turns[t].pc \/ (turns[t].pc = "new" /\ turns'[t].pc = "spawning")
  <2>1. turns \in [Turns -> Turn]
    BY <1>t DEF StateOK
  <2>2. ASSUME NEW u \in Turns, turns[u].pc = "new", turns' = [turns EXCEPT ![u].pc = "spawning"]
        PROVE  /\ turns' \in [Turns -> Turn]
               /\ \A t \in Turns :
                     /\ turns'[t].obj = turns[t].obj /\ turns'[t].queue = turns[t].queue
                     /\ turns'[t].pc = turns[t].pc \/ (turns[t].pc = "new" /\ turns'[t].pc = "spawning")
    BY <2>1, <2>2 DEF Turn
  <2> QED BY <2>1, <2>2
<1>2. \A t \in Turns : t # None
  BY Bounds
<1>3. ReaderInv'
  <2>1. \A t \in Turns : turns'[t].pc = "starting" => harness'[turns'[t].obj].proc = None
    BY <1>1, <1>t DEF ReaderInv
  <2> QED BY <2>1, <1>t DEF ReaderInv
<1>4. \A x \in Procs : Watched(x) => Watched(x)'
  BY DEF Watched
<1>5. Notice \in Event
  BY DEF Notice, Event
<1>6. harness' \in [Procs -> Object] /\ procs' \in [Procs -> Proc] /\ None \notin clean
  BY <1>t, Bounds DEF StateOK
<1> DEFINE target == None
<1>7. /\ target = None /\ target \notin clean /\ \A t \in Turns : t # target
  BY <1>2, <1>6
<1> HIDE DEF target
<1>8. \A t \in Turns :
          turns'[t].queue = IF t = target THEN Append(turns[t].queue, Notice) ELSE turns[t].queue
  BY <1>1, <1>7
<1>9. /\ None \in ProcOrNone /\ target \in Turns \cup {None}
      /\ target # None => None \in Procs /\ target = harness[None].turn
  BY <1>7, Bounds DEF ProcOrNone
<1>10. target \in clean => Notice.for \in {target, "exit"}
  BY <1>7
<1>11. \A x \in Procs :
           /\ harness'[x].lock = harness[x].lock
           /\ harness'[x].turn = IF x = None /\ target # None /\ Notice.last THEN None
                                 ELSE harness[x].turn
  BY <1>7
<1>12. \A x \in Procs :
           harness'[x].proc # None =>
               /\ harness[x].proc # None
               /\ \A t \in Turns : harness[x].turn = t /\ harness'[x].turn = t
                                   /\ Owns(t, procs[harness[x].proc])
                                       => Owns(t, procs'[harness'[x].proc])
  OBVIOUS
<1>13. \A x \in Procs :
           Watched(x) => Watched(x)' \/ (x = None /\ target = harness[None].turn /\ Notice.last)
  BY <1>4
<1> QED BY <1>1, <1>3, <1>5, <1>6, <1>8, <1>9, <1>10, <1>11, <1>12, <1>13, RouteStep

LEMMA CloseStep == ASSUME Inv, CloseEnds PROVE Inv'
<1>t. StateOK /\ ReaderInv
  BY DEF Inv
<1>1. PICK o \in Procs, p \in ProcOrNone : o = stopper.obj /\ p = stopper.proc /\ stopper.pc = "closing"
  <2>1. /\ stopper.obj \in ProcOrNone /\ stopper.proc \in ProcOrNone
        /\ stopper.obj # None
    BY <1>t DEF CloseEnds, StateOK, Stopper, ReaderInv
  <2> QED BY <2>1, Bounds DEF CloseEnds, ProcOrNone
<1>2. /\ procs \in [Procs -> Proc] /\ harness \in [Procs -> Object]
      /\ \A x \in Procs : harness[x].proc # None => harness[x].proc \in Procs
      /\ harness[o].turn \in Turns \cup {None}
  <2>1. procs \in [Procs -> Proc] /\ harness \in [Procs -> Object]
    BY <1>t DEF StateOK
  <2> QED BY <2>1, Bounds DEF Object, ProcOrNone
<1>3. Notice \in Event /\ Notice.last /\ Notice.for = "exit"
  BY DEF Notice, Event
<1>4. /\ turns' = Queued(o, Notice) /\ harness' = Settled(harness, o, Notice)
      /\ procs' = [procs EXCEPT ![p].state = "reaped", ![p].todo = <<>>]
      /\ stopper' = [IdleStopper EXCEPT !.pc = "docker"]
      /\ UNCHANGED <<tracked, spawned, wakes, stops, clean>>
  BY <1>1 DEF CloseEnds
<1>5. /\ turns' \in [Turns -> Turn]
      /\ \A t \in Turns :
            /\ turns'[t].obj = turns[t].obj /\ turns'[t].pc = turns[t].pc
            /\ turns'[t].queue = IF t = harness[o].turn THEN Append(turns[t].queue, Notice)
                                 ELSE turns[t].queue
      /\ harness' \in [Procs -> Object]
      /\ \A x \in Procs :
            /\ harness'[x].lock = harness[x].lock
            /\ harness'[x].proc = harness[x].proc
            /\ harness'[x].turn = IF x = o /\ harness[o].turn # None /\ Notice.last THEN None
                                  ELSE harness[x].turn
  <2>1. harness \in [Procs -> Object]
    BY <1>2
  <2>2. \A x \in Procs : harness[x].lock = harness[x].lock /\ harness[x].turn = harness[x].turn
    OBVIOUS
  <2> QED BY <2>1, <2>2, <1>3, <1>4, Told
<1>6. ASSUME NEW q \in Procs
      PROVE  /\ procs'[q] \in Proc
             /\ procs'[q].owner = procs[q].owner /\ procs'[q].reader = procs[q].reader
             /\ procs'[q].out = procs[q].out
             /\ procs'[q] = procs[q] \/ procs'[q].state = "reaped"
  <2>1. procs[q] \in Proc /\ <<>> \in Seq(Job)
    BY <1>2
  <2>2. CASE q = p
    <3>1. procs'[q] = [procs[q] EXCEPT !.state = "reaped", !.todo = <<>>]
      BY <2>2, <1>2, <1>4
    <3> QED BY <3>1, <2>1 DEF Proc
  <2>3. CASE q # p
    <3>1. procs'[q] = procs[q]
      BY <2>3, <1>2, <1>4
    <3> QED BY <3>1, <2>1
  <2> QED BY <2>2, <2>3
<1>7. procs' \in [Procs -> Proc]
  <2>1. DOMAIN procs' = Procs /\ procs' = [q \in Procs |-> procs'[q]]
    BY <1>2, <1>4
  <2> QED BY <2>1, <1>6
<1>8. stopper' \in Stopper /\ stopper'.pc = "docker"
  BY <1>4, Bounds DEF IdleStopper, Stopper, ProcOrNone
<1>9. Scalars'
  BY <1>4, <1>8, <1>t DEF Scalars, StateOK
<1>10. ReaderInv'
  <2>1. ASSUME NEW x \in Procs, harness'[x].proc # None
        PROVE  LET q == harness'[x].proc IN
               /\ x <= spawned' /\ q <= spawned' /\ procs'[q].owner = x
               /\ procs'[q].state \in {"up", "exited"} => procs'[q].reader
    <3>1. harness'[x].proc = harness[x].proc /\ harness[x].proc \in Procs
      BY <2>1, <1>2, <1>5
    <3>2. LET q == harness[x].proc IN
          /\ x <= spawned /\ q <= spawned /\ procs[q].owner = x
          /\ procs[q].state \in {"up", "exited"} => procs[q].reader
      BY <2>1, <3>1, <1>t DEF ReaderInv
    <3>3. spawned' = spawned
      BY <1>4
    <3> QED BY <3>1, <3>2, <3>3, <1>6
  <2>2. ASSUME NEW q \in Procs, procs'[q].reader
        PROVE  procs'[q].owner # None /\ harness'[procs'[q].owner].proc = q
    <3>1. procs[q].reader /\ procs'[q].owner = procs[q].owner
      BY <2>2, <1>6
    <3>2. procs[q].owner # None /\ harness[procs[q].owner].proc = q
      BY <3>1, <1>t DEF ReaderInv
    <3>3. procs[q].owner \in Procs
      <4>1. procs[q].owner \in ProcOrNone
        BY <1>2 DEF Proc
      <4> QED BY <4>1, <3>2, Bounds DEF ProcOrNone
    <3> QED BY <3>1, <3>2, <3>3, <1>5
  <2>3. ASSUME NEW t \in Turns, turns'[t].pc = "starting"
        PROVE  harness'[turns'[t].obj].proc = None
    <3>1. turns[t].pc = "starting" /\ turns'[t].obj = turns[t].obj
      BY <2>3, <1>5
    <3>2. turns[t].obj \in Procs
      BY <3>1, Waiter DEF Waits
    <3> QED BY <3>1, <3>2, <1>5, <1>t DEF ReaderInv
  <2> QED BY <2>1, <2>2, <2>3, <1>8 DEF ReaderInv
<1>11. ASSUME NEW x \in Procs, harness'[x].proc # None
       PROVE  /\ harness[x].proc # None
              /\ \A t \in Turns : harness[x].turn = t /\ harness'[x].turn = t
                                  /\ Owns(t, procs[harness[x].proc])
                                      => Owns(t, procs'[harness'[x].proc])
  <2>1. harness'[x].proc = harness[x].proc /\ harness[x].proc \in Procs
    BY <1>11, <1>2, <1>5
  <2>2. ASSUME NEW q \in Procs, NEW t \in Turns, Owns(t, procs[q]) PROVE Owns(t, procs'[q])
    <3>1. CASE procs'[q] = procs[q]
      BY <3>1, <2>2
    <3>2. CASE procs'[q].state = "reaped"
      BY <3>2, <2>2, <1>6, DownOwns
    <3> QED BY <3>1, <3>2, <1>6
  <2> QED BY <2>1, <2>2, <1>11
<1>12. ASSUME NEW x \in Procs, Watched(x) PROVE Watched(x)' \/ x = o
  <2>1. harness'[x].proc = harness[x].proc
    BY <1>5
  <2>2. harness[x].proc # None => procs'[harness[x].proc].reader = procs[harness[x].proc].reader
    BY <1>2, <1>6
  <2> QED BY <2>1, <2>2, <1>1, <1>12 DEF Watched
<1>13. PICK target \in Turns \cup {None} : target = harness[o].turn
  BY <1>2
<1>14. /\ o \in ProcOrNone
       /\ target # None => o \in Procs /\ target = harness[o].turn
       /\ target \in clean => Notice.for \in {target, "exit"}
       /\ \A x \in Procs : Watched(x) => Watched(x)' \/ (x = o /\ target = harness[o].turn /\ Notice.last)
  BY <1>3, <1>12, <1>13, Bounds DEF ProcOrNone
<1>15. /\ \A x \in Procs :
             /\ harness'[x].lock = harness[x].lock
             /\ harness'[x].turn = IF x = o /\ target # None /\ Notice.last THEN None
                                   ELSE harness[x].turn
       /\ \A t \in Turns :
             /\ turns'[t].obj = turns[t].obj
             /\ turns'[t].pc = turns[t].pc \/ (turns[t].pc = "new" /\ turns'[t].pc = "spawning")
             /\ turns'[t].queue = IF t = target THEN Append(turns[t].queue, Notice)
                                  ELSE turns[t].queue
       /\ turns' \in [Turns -> Turn] /\ harness' \in [Procs -> Object]
  BY <1>5, <1>13
<1>16. spawned' = spawned /\ clean' = clean
  BY <1>4
<1> QED BY <1>3, <1>7, <1>9, <1>10, <1>11, <1>14, <1>15, <1>16, RouteStep

LEMMA DetachedIs ==
    ASSUME Inv, NEW o \in Procs
    PROVE  /\ Detached(harness, o) \in [Procs -> Object]
           /\ \A x \in Procs :
                 /\ Detached(harness, o)[x].lock = harness[x].lock
                 /\ Detached(harness, o)[x].turn = harness[x].turn
                 /\ Detached(harness, o)[x].proc = IF x = o THEN None ELSE harness[x].proc
<1> DEFINE next == [harness[o] EXCEPT !.proc = None]
<1>1. harness \in [Procs -> Object] /\ harness[o] \in Object /\ None \in ProcOrNone
  BY Bounds DEF Inv, StateOK, ProcOrNone
<1>2. /\ next \in Object /\ next.proc = None /\ next.lock = harness[o].lock
      /\ next.turn = harness[o].turn
  BY <1>1 DEF Object
<1>3. Detached(harness, o) = [harness EXCEPT ![o] = next]
  BY <1>1 DEF Detached
<1> HIDE DEF next
<1> QED BY <1>1, <1>2, <1>3

\* The turn of an object that is given up is told so with the step.
LEMMA TellDetached ==
    ASSUME Inv, NEW o \in Procs
    PROVE  LET hs == Settled(Detached(harness, o), o, Notice)
               ts == Queued(o, Notice)
           IN  /\ ts \in [Turns -> Turn]
               /\ \A t \in Turns :
                     /\ ts[t].obj = turns[t].obj /\ ts[t].pc = turns[t].pc
                     /\ ts[t].queue = IF t = harness[o].turn THEN Append(turns[t].queue, Notice)
                                      ELSE turns[t].queue
               /\ hs \in [Procs -> Object]
               /\ \A x \in Procs :
                     /\ hs[x].lock = harness[x].lock
                     /\ hs[x].proc = IF x = o THEN None ELSE harness[x].proc
                     /\ hs[x].turn = IF x = o /\ harness[o].turn # None THEN None ELSE harness[x].turn
<1>1. PICK hs : hs = Detached(harness, o)
  OBVIOUS
<1>2. /\ hs \in [Procs -> Object]
      /\ \A x \in Procs : /\ hs[x].lock = harness[x].lock /\ hs[x].turn = harness[x].turn
                          /\ hs[x].proc = IF x = o THEN None ELSE harness[x].proc
  BY <1>1, DetachedIs
<1>3. Notice \in Event /\ Notice.last
  BY DEF Notice, Event
<1>4. PICK e \in Event : e = Notice /\ e.last
  BY <1>3
<1>5. /\ Queued(o, e) \in [Turns -> Turn]
      /\ \A t \in Turns :
            /\ Queued(o, e)[t].obj = turns[t].obj /\ Queued(o, e)[t].pc = turns[t].pc
            /\ Queued(o, e)[t].queue = IF t = harness[o].turn THEN Append(turns[t].queue, e)
                                       ELSE turns[t].queue
      /\ Settled(hs, o, e) \in [Procs -> Object]
      /\ \A x \in Procs :
            /\ Settled(hs, o, e)[x].lock = harness[x].lock
            /\ Settled(hs, o, e)[x].proc = hs[x].proc
            /\ Settled(hs, o, e)[x].turn =
                  IF x = o /\ harness[o].turn # None /\ e.last THEN None ELSE harness[x].turn
  BY <1>2, Told, SMTT(30)
<1> QED BY <1>1, <1>2, <1>4, <1>5

LEMMA StopStart == ASSUME Inv, Stop PROVE Inv'
<1>t. StateOK /\ ReaderInv
  BY DEF Inv
<1>1. /\ tracked \in 0 .. spawned /\ spawned \in 0 .. MaxProcs /\ harness \in [Procs -> Object]
      /\ turns \in [Turns -> Turn]
  BY <1>t DEF StateOK, ProcOrNone
<1>2. /\ spawned' = spawned /\ wakes' = wakes /\ clean' = clean /\ tracked' = None
      /\ stops' \in 0 .. MaxStops /\ stopper.pc = "idle"
  BY <1>t, BoundsAssumption DEF Stop, StateOK
<1>3. PICK o \in 0 .. MaxProcs : o = tracked
  BY <1>1, Bounds
<1>4. CASE o = None \/ harness[o].proc = None
  <2>1. harness' = harness /\ procs' = procs /\ turns' = turns
        /\ stopper' = [IdleStopper EXCEPT !.pc = "docker"]
    BY <1>3, <1>4 DEF Stop
  <2>2. stopper' \in Stopper /\ stopper'.pc = "docker"
    BY <2>1, Bounds DEF IdleStopper, Stopper, ProcOrNone
  <2>3. Scalars'
    BY <2>2, <1>1, <1>2, <1>t, Bounds DEF Scalars, StateOK
  <2> QED BY <2>1, <2>2, <2>3, <1>2, QuietStep
<1>5. CASE o # None /\ harness[o].proc # None
  <2>1. o \in Procs
    BY <1>5, Bounds
  <2>2. PICK p \in ProcOrNone : p = harness[o].proc /\ p # None
    BY <2>1, <1>1, <1>5 DEF Object
  <2>3. procs' = Unread(p)
    BY <1>3, <1>5, <2>2 DEF Stop
  <2>4. CASE procs[p].state = "reaped"
    <3>1. /\ harness' = Settled(Detached(harness, o), o, Notice) /\ turns' = Queued(o, Notice)
          /\ stopper' = [IdleStopper EXCEPT !.pc = "docker"]
      BY <1>3, <1>5, <2>2, <2>4 DEF Stop
    <3>2. stopper' \in Stopper /\ stopper'.pc = "docker"
      BY <3>1, Bounds DEF IdleStopper, Stopper, ProcOrNone
    <3>3. Scalars'
      BY <3>2, <1>1, <1>2, <1>t, Bounds DEF Scalars, StateOK
    <3>4. PICK target : target = harness[o].turn
      OBVIOUS
    <3>5. /\ turns' \in [Turns -> Turn]
          /\ \A t \in Turns :
                /\ turns'[t].obj = turns[t].obj /\ turns'[t].pc = turns[t].pc
                /\ turns'[t].queue = IF t = target THEN Append(turns[t].queue, Notice)
                                     ELSE turns[t].queue
          /\ harness' \in [Procs -> Object]
          /\ \A x \in Procs :
                /\ harness'[x].lock = harness[x].lock
                /\ harness'[x].proc = IF x = o THEN None ELSE harness[x].proc
                /\ harness'[x].turn = IF x = o /\ target # None THEN None ELSE harness[x].turn
      BY <2>1, <3>1, <3>4, TellDetached
    <3> QED BY <2>1, <2>2, <2>3, <3>2, <3>3, <3>4, <3>5, <1>2, DetachStep, ZenonT(60)
  <2>5. CASE procs[p].state # "reaped"
    <3>1. /\ harness' = Detached(harness, o) /\ turns' = turns
          /\ stopper' = [pc |-> "closing", obj |-> o, proc |-> p]
      BY <1>3, <1>5, <2>2, <2>5 DEF Stop
    <3>2. stopper' \in Stopper /\ stopper'.pc = "closing" /\ stopper'.obj = o
      BY <3>1, <2>1, <2>2, Bounds DEF Stopper, ProcOrNone
    <3>3. Scalars'
      BY <3>2, <1>1, <1>2, <1>t, Bounds DEF Scalars, StateOK
    <3>4. PICK target : target = None
      OBVIOUS
    <3>5. /\ turns' \in [Turns -> Turn]
          /\ \A t \in Turns :
                /\ turns'[t].obj = turns[t].obj /\ turns'[t].pc = turns[t].pc
                /\ turns'[t].queue = IF t = target THEN Append(turns[t].queue, Notice)
                                     ELSE turns[t].queue
      BY <3>1, <3>4, <1>1, Bounds
    <3>6. /\ harness' \in [Procs -> Object]
          /\ \A x \in Procs :
                /\ harness'[x].lock = harness[x].lock
                /\ harness'[x].proc = IF x = o THEN None ELSE harness[x].proc
                /\ harness'[x].turn = IF x = o /\ target # None THEN None ELSE harness[x].turn
      BY <2>1, <3>1, <3>4, DetachedIs
    <3>7. o # None
      BY <1>5
    <3> QED BY <2>1, <2>2, <2>3, <3>2, <3>3, <3>4, <3>5, <3>6, <3>7, <1>2, DetachStep, ZenonT(60)
  <2> QED BY <2>4, <2>5
<1> QED BY <1>4, <1>5

\* A turn finds no harness, or a dead one, which is closed first.
AskElsewhere(t) ==
    /\ tracked = None \/ ~Alive(tracked)
    /\ Ask(t)

LEMMA AskElsewhereStep == ASSUME Inv, NEW t \in Turns, AskElsewhere(t) PROVE Inv'
<1>t. StateOK /\ ReaderInv
  BY DEF Inv
<1>1. /\ tracked \in 0 .. spawned /\ spawned \in 0 .. MaxProcs /\ harness \in [Procs -> Object]
      /\ turns \in [Turns -> Turn] /\ turns[t].pc = "new"
  BY <1>t DEF StateOK, ProcOrNone, AskElsewhere, Ask
<1>2. /\ spawned' = spawned /\ wakes' = wakes /\ clean' = clean /\ tracked' = tracked
      /\ stops' = stops /\ stopper' = stopper
  BY DEF AskElsewhere, Ask
<1>3. PICK o \in 0 .. MaxProcs : o = tracked
  BY <1>1, Bounds
<1>4. Scalars'
  BY <1>2, <1>t DEF Scalars, StateOK
<1>5. CASE o = None \/ harness[o].proc = None
  <2>1. harness' = harness /\ procs' = procs /\ turns' = [turns EXCEPT ![t].pc = "spawning"]
    BY <1>3, <1>5 DEF AskElsewhere, Ask
  <2> QED BY <2>1, <1>1, <1>2, <1>4, QuietStep
<1>6. CASE o # None /\ harness[o].proc # None
  <2>1. o \in Procs
    BY <1>6, Bounds
  <2>2. PICK p \in ProcOrNone : p = harness[o].proc /\ p # None
    BY <2>1, <1>1, <1>6 DEF Object
  <2>3. /\ procs' = Unread(p) /\ harness' = Settled(Detached(harness, o), o, Notice)
        /\ turns' = [Queued(o, Notice) EXCEPT ![t].pc = "spawning"]
    BY <1>3, <1>6, <2>2 DEF AskElsewhere, Ask
  <2>4. PICK target : target = harness[o].turn
    OBVIOUS
  <2>5. PICK ts : ts = Queued(o, Notice)
    OBVIOUS
  <2>6. /\ ts \in [Turns -> Turn]
        /\ \A u \in Turns :
              /\ ts[u].obj = turns[u].obj /\ ts[u].pc = turns[u].pc
              /\ ts[u].queue = IF u = target THEN Append(turns[u].queue, Notice) ELSE turns[u].queue
        /\ harness' \in [Procs -> Object]
        /\ \A x \in Procs :
              /\ harness'[x].lock = harness[x].lock
              /\ harness'[x].proc = IF x = o THEN None ELSE harness[x].proc
              /\ harness'[x].turn = IF x = o /\ target # None THEN None ELSE harness[x].turn
    BY <2>1, <2>3, <2>4, <2>5, TellDetached
  <2>7. turns' = [ts EXCEPT ![t].pc = "spawning"]
    BY <2>3, <2>5
  <2>8. /\ turns' \in [Turns -> Turn]
        /\ \A u \in Turns : /\ turns'[u].obj = ts[u].obj /\ turns'[u].queue = ts[u].queue
                            /\ turns'[u].pc = IF u = t THEN "spawning" ELSE ts[u].pc
    BY <2>6, <2>7 DEF Turn
  <2>9. \A u \in Turns :
            /\ turns'[u].obj = turns[u].obj
            /\ turns'[u].pc = turns[u].pc \/ (turns[u].pc = "new" /\ turns'[u].pc = "spawning")
            /\ turns'[u].queue = IF u = target THEN Append(turns[u].queue, Notice) ELSE turns[u].queue
    BY <2>6, <2>8, <1>1
  <2>10. stopper'.pc = "closing" => stopper'.obj # None
    BY <1>2, <1>t DEF ReaderInv
  <2> QED BY <2>1, <2>2, <2>3, <2>4, <2>6, <2>8, <2>9, <2>10, <1>2, <1>4, DetachStep
<1> QED BY <1>5, <1>6

----------------------------------------------------------------------------
(* Leaving *)

\* A turn ends: nothing but its place on an object goes with it.
LEMMA EndStep ==
    ASSUME Inv, NEW t \in Turns, turns' = [turns EXCEPT ![t] = Quit(t)],
           harness' \in [Procs -> Object],
           \A x \in Procs :
               /\ harness'[x].proc = harness[x].proc
               /\ harness'[x].turn = IF harness[x].turn = t THEN None ELSE harness[x].turn,
           tracked' \in {tracked, None}, UNCHANGED <<procs, spawned, stopper, wakes, stops, clean>>,
           LockInv'
    PROVE  Inv'
<1>t. /\ StateOK /\ LockInv /\ OutstandingInv /\ ReaderInv /\ CleanInv
      /\ TurnIsHeard /\ CleanTurnOwnsItsOutput
  BY DEF Inv
<1>1. /\ turns \in [Turns -> Turn] /\ harness \in [Procs -> Object] /\ clean \in SUBSET Turns
      /\ tracked \in 0 .. spawned /\ spawned \in 0 .. MaxProcs
  BY <1>t DEF StateOK, ProcOrNone
<1>2. Quit(t) \in Turn /\ Quit(t).pc = "done" /\ Quit(t).queue = <<>>
  <2>1. <<>> \in Seq(Event)
    OBVIOUS
  <2> QED BY <2>1, Bounds DEF Quit, Turn, ProcOrNone
<1>3. /\ turns' \in [Turns -> Turn] /\ turns'[t].pc = "done" /\ turns'[t].queue = <<>>
      /\ \A u \in Turns \ {t} : turns'[u] = turns[u]
  BY <1>1, <1>2
<1>4. StateOK'
  <2>1. tracked' \in 0 .. spawned'
    BY <1>1, Bounds
  <2>2. \A u \in Turns : \A i \in DOMAIN turns'[u].queue :
            turns'[u].queue[i].last => i = Len(turns'[u].queue)
    BY <1>3, <1>t DEF StateOK
  <2> QED BY <2>1, <2>2, <1>3, <1>t DEF StateOK
<1>5. OutstandingInv'
  <2> SUFFICES ASSUME NEW x \in Procs, harness'[x].turn # None
               PROVE  /\ turns'[harness'[x].turn].pc = "active"
                      /\ turns'[harness'[x].turn].obj = x
                      /\ ~Ends(turns'[harness'[x].turn].queue)
    BY DEF OutstandingInv, Ends
  <2>1. PICK u \in Turns : /\ harness'[x].turn = u /\ u # t
                           /\ turns[u].pc = "active" /\ turns[u].obj = x /\ ~Ends(turns[u].queue)
    BY Outstanding
  <2> QED BY <2>1, <1>3
<1>6. ReaderInv'
  <2>1. \A o \in Procs : harness'[o].proc # None =>
            LET p == harness'[o].proc IN
            /\ o <= spawned' /\ p <= spawned' /\ procs'[p].owner = o
            /\ procs'[p].state \in {"up", "exited"} => procs'[p].reader
    BY <1>t DEF ReaderInv
  <2>2. \A p \in Procs : procs'[p].reader =>
            procs'[p].owner # None /\ harness'[procs'[p].owner].proc = p
    <3>1. \A p \in Procs : procs[p].owner # None => procs[p].owner \in Procs
      BY <1>t, Bounds DEF StateOK, Proc, ProcOrNone
    <3> QED BY <3>1, <1>t DEF ReaderInv
  <2>3. ASSUME NEW u \in Turns, turns'[u].pc = "starting"
        PROVE  harness'[turns'[u].obj].proc = None
    <3>1. u # t /\ turns'[u] = turns[u]
      BY <2>3, <1>3
    <3>2. turns[u].obj \in Procs
      BY <2>3, <3>1, Waiter DEF Waits
    <3> QED BY <2>3, <3>1, <3>2, <1>t DEF ReaderInv
  <2> QED BY <2>1, <2>2, <2>3, <1>t DEF ReaderInv
<1>7. CleanInv'
  <2>1. \A u \in clean : turns'[u].pc \in {"active", "done"}
    BY <1>1, <1>3, <1>t DEF CleanInv
  <2>2. ASSUME NEW o \in Procs, harness'[o].turn \in clean, harness'[o].proc # None
        PROVE  Owns(harness'[o].turn, procs[harness'[o].proc])
    <3>1. harness'[o].turn = harness[o].turn
      BY <2>2, <1>1, Bounds
    <3> QED BY <3>1, <2>2, <1>t DEF CleanInv
  <2> QED BY <2>1, <2>2 DEF CleanInv, Owns, Ends
<1>8. TurnIsHeard'
  <2> SUFFICES ASSUME NEW u \in Turns, NEW x, turns'[u].pc = "active", turns'[u].obj = x
               PROVE  Ends(turns'[u].queue) \/ (harness'[x].turn = u /\ Watched(x)')
    BY DEF TurnIsHeard, Ends, Watched
  <2>1. u # t /\ turns'[u] = turns[u]
    BY <1>3
  <2>2. x \in Procs
    BY <2>1, Waiter DEF Waits
  <2>3. Ends(turns[u].queue) \/ (harness[x].turn = u /\ Watched(x))
    BY <2>1, <1>t DEF TurnIsHeard, Ends, Watched
  <2>4. Watched(x) => Watched(x)'
    BY <2>2 DEF Watched
  <2> QED BY <2>1, <2>2, <2>3, <2>4
<1>9. CleanTurnOwnsItsOutput'
  BY <1>1, <1>3, <1>t DEF CleanTurnOwnsItsOutput
<1> QED BY <1>4, <1>5, <1>6, <1>7, <1>8, <1>9 DEF Inv

\* A turn that has no place on an object ends.
LEMMA EndsElsewhere ==
    ASSUME Inv, NEW t \in Turns, ~Waits(t), turns' = [turns EXCEPT ![t] = Quit(t)],
           harness' = harness, tracked' \in {tracked, None},
           UNCHANGED <<procs, spawned, stopper, wakes, stops, clean>>
    PROVE  Inv'
<1>t. StateOK /\ LockInv
  BY DEF Inv
<1>1. turns \in [Turns -> Turn] /\ harness \in [Procs -> Object]
  BY <1>t DEF StateOK
<1>2. turns'[t].pc = "done" /\ \A u \in Turns \ {t} : turns'[u] = turns[u]
  BY <1>1 DEF Quit
<1>3. \A x \in Procs : harness[x].turn # t
  <2>1. \A x \in Procs : harness[x].turn # None => Waits(harness[x].turn)
    BY Outstanding
  <2> QED BY <2>1, Bounds
<1>4. \A x \in Procs : \A i \in 1 .. Len(harness[x].lock) :
          harness[x].lock[i] \in Turns /\ Waits(harness[x].lock[i])
  BY <1>1, <1>t DEF LockInv, Object
<1>5. LockInv'
  <2>1. \A u \in Turns : Waits(u)' =>
            /\ turns'[u].obj \in 1 .. spawned'
            /\ \E i \in 1 .. Len(harness'[turns'[u].obj].lock) : harness'[turns'[u].obj].lock[i] = u
    BY <1>2, <1>t DEF LockInv, Waits
  <2>2. ASSUME NEW x \in Procs, NEW i \in 1 .. Len(harness[x].lock)
        PROVE  LET u == harness[x].lock[i] IN
               /\ turns'[u].pc \in {"lock", "starting", "active"}
               /\ turns'[u].obj = x /\ (turns'[u].pc # "lock" => i = 1)
    <3>1. PICK u \in Turns : u = harness[x].lock[i] /\ Waits(u)
      BY <1>4
    <3>2. turns[u].obj = x /\ (turns[u].pc # "lock" => i = 1)
      BY <3>1, <1>t DEF LockInv
    <3>3. turns'[u] = turns[u]
      BY <3>1, <1>2
    <3> QED BY <3>1, <3>2, <3>3 DEF Waits
  <2>3. \A x \in Procs : \A i, j \in 1 .. Len(harness'[x].lock) :
            harness'[x].lock[i] = harness'[x].lock[j] => i = j
    BY <1>t DEF LockInv
  <2> QED BY <2>1, <2>2, <2>3 DEF LockInv, Waits
<1> QED BY <1>1, <1>3, <1>5, EndStep

LEMMA LockNext ==
    ASSUME \A u \in Turns : turns'[u].pc \in {"lock", "starting", "active"} =>
               /\ turns'[u].obj \in 1 .. spawned'
               /\ \E j \in 1 .. Len(harness'[turns'[u].obj].lock) : harness'[turns'[u].obj].lock[j] = u,
           \A x \in Procs : \A j \in 1 .. Len(harness'[x].lock) :
               LET u == harness'[x].lock[j] IN
               /\ turns'[u].pc \in {"lock", "starting", "active"}
               /\ turns'[u].obj = x /\ (turns'[u].pc # "lock" => j = 1),
           \A x \in Procs : \A j, k \in 1 .. Len(harness'[x].lock) :
               harness'[x].lock[j] = harness'[x].lock[k] => j = k
    PROVE  LockInv'
BY DEF LockInv, Waits

\* A turn leaves its place on an object.
LEMMA LeaveStep ==
    ASSUME Inv, NEW t \in Turns, Waits(t), NEW o \in Procs, o = turns[t].obj,
           turns' = [turns EXCEPT ![t] = Quit(t)],
           NEW next \in Object, next.proc = harness[o].proc, next.lock = Without(harness[o].lock, t),
           next.turn = IF harness[o].turn = t THEN None ELSE harness[o].turn,
           harness' = [harness EXCEPT ![o] = next],
           tracked' \in {tracked, None}, UNCHANGED <<procs, spawned, stopper, wakes, stops, clean>>
    PROVE  Inv'
<1>t. StateOK /\ LockInv
  BY DEF Inv
<1>1. turns \in [Turns -> Turn] /\ harness \in [Procs -> Object] /\ o \in Procs
  BY <1>t, Waiter DEF StateOK
<1>2. turns'[t].pc = "done" /\ \A u \in Turns \ {t} : turns'[u] = turns[u]
  BY <1>1 DEF Quit
<1>3. PICK lock \in Seq(Turns) : lock = harness[o].lock
  BY <1>1 DEF Object
<1>4. PICK i \in 1 .. Len(lock) : lock[i] = t /\ \A j \in 1 .. Len(lock) : lock[j] = t => j = i
  <2>1. \E i \in 1 .. Len(harness[o].lock) :
            /\ harness[o].lock[i] = t
            /\ \A j \in 1 .. Len(harness[o].lock) : harness[o].lock[j] = t => j = i
    BY Waiter
  <2> QED BY <2>1, <1>3
<1>5. PICK left : left = Without(lock, t)
  OBVIOUS
<1>6. /\ left \in Seq(Turns) /\ Len(left) = Len(lock) - 1
      /\ \A j \in 1 .. Len(lock) - 1 : left[j] = IF j < i THEN lock[j] ELSE lock[j + 1]
      /\ Len(lock) \in Nat
  BY <1>4, <1>5, WithoutIs
<1>7. /\ harness' \in [Procs -> Object] /\ harness'[o].lock = left
      /\ \A x \in Procs \ {o} : harness'[x] = harness[x]
      /\ \A x \in Procs : harness'[x].proc = harness[x].proc
      /\ harness'[o].turn = next.turn
  BY <1>1, <1>3, <1>5
<1>8. \A x \in Procs \ {o} : harness[x].turn # t
  <2>1. \A x \in Procs : harness[x].turn # None => turns[harness[x].turn].obj = x
    BY Outstanding
  <2> QED BY <2>1, Bounds
<1>9. \A x \in Procs : harness'[x].turn = IF harness[x].turn = t THEN None ELSE harness[x].turn
  BY <1>7, <1>8
<1>10. /\ \A j \in 1 .. Len(left) : \E k \in 1 .. Len(lock) :
             left[j] = lock[k] /\ k # i /\ (k = 1 => j = 1)
       /\ \A j, k \in 1 .. Len(left) : left[j] = left[k] => j = k
       /\ \A k \in 1 .. Len(lock) : k # i => \E j \in 1 .. Len(left) : left[j] = lock[k]
  <2>1. \A j, k \in 1 .. Len(lock) : lock[j] = lock[k] => j = k
    BY <1>1, <1>3, <1>t DEF LockInv
  <2>2. ASSUME NEW j \in 1 .. Len(left)
        PROVE  \E k \in 1 .. Len(lock) : left[j] = lock[k] /\ k # i /\ (k = 1 => j = 1)
    <3>1. CASE j < i
      <4>1. j \in 1 .. Len(lock) /\ left[j] = lock[j]
        BY <3>1, <1>6
      <4> QED BY <3>1, <4>1
    <3>2. CASE ~(j < i)
      <4>1. j + 1 \in 1 .. Len(lock) /\ left[j] = lock[j + 1] /\ j + 1 # i /\ j + 1 # 1
        BY <3>2, <1>6
      <4> QED BY <4>1
    <3> QED BY <3>1, <3>2
  <2>3. ASSUME NEW j \in 1 .. Len(left), NEW k \in 1 .. Len(left), left[j] = left[k] PROVE j = k
    <3> DEFINE at(n) == IF n < i THEN n ELSE n + 1
    <3>1. \A n \in 1 .. Len(left) : at(n) \in 1 .. Len(lock) /\ left[n] = lock[at(n)]
      BY <1>6
    <3>2. at(j) = at(k)
      <4> HIDE DEF at
      <4>1. /\ at(j) \in 1 .. Len(lock) /\ left[j] = lock[at(j)]
            /\ at(k) \in 1 .. Len(lock) /\ left[k] = lock[at(k)]
        BY <3>1, <2>3
      <4>2. lock[at(j)] = lock[at(k)]
        BY <4>1, <2>3
      <4> QED BY <4>1, <4>2, <2>1
    <3> QED BY <3>2, <1>6
  <2>4. ASSUME NEW k \in 1 .. Len(lock), k # i PROVE \E j \in 1 .. Len(left) : left[j] = lock[k]
    <3>1. CASE k < i
      <4>1. k \in 1 .. Len(left) /\ left[k] = lock[k]
        BY <3>1, <1>6
      <4> QED BY <4>1
    <3>2. CASE k > i
      <4>1. k - 1 \in 1 .. Len(left) /\ left[k - 1] = lock[k]
        BY <3>2, <1>6
      <4> QED BY <4>1
    <3> QED BY <3>1, <3>2, <2>4, <1>6
  <2> QED BY <2>2, <2>3, <2>4
<1>11. LockInv'
  <2>1. ASSUME NEW u \in Turns, Waits(u)'
        PROVE  /\ turns'[u].obj \in 1 .. spawned'
               /\ \E j \in 1 .. Len(harness'[turns'[u].obj].lock) : harness'[turns'[u].obj].lock[j] = u
    <3>1. u # t /\ turns'[u] = turns[u] /\ Waits(u)
      BY <2>1, <1>2 DEF Waits
    <3>2. /\ turns[u].obj \in 1 .. spawned /\ turns[u].obj \in Procs
          /\ \E j \in 1 .. Len(harness[turns[u].obj].lock) : harness[turns[u].obj].lock[j] = u
      BY <3>1, Waiter, <1>t DEF LockInv
    <3>3. CASE turns[u].obj = o
      <4>1. PICK k \in 1 .. Len(lock) : lock[k] = u
        BY <3>2, <3>3, <1>3
      <4>2. k # i
        BY <4>1, <3>1, <1>4
      <4>3. \E j \in 1 .. Len(left) : left[j] = u
        BY <4>1, <4>2, <1>10
      <4>4. turns'[u].obj = o /\ harness'[o].lock = left /\ turns'[u].obj \in 1 .. spawned'
        BY <3>1, <3>2, <3>3, <1>7
      <4> QED BY <4>3, <4>4
    <3>4. CASE turns[u].obj # o
      BY <3>1, <3>2, <3>4, <1>7
    <3> QED BY <3>3, <3>4
  <2>2. ASSUME NEW x \in Procs, NEW j \in 1 .. Len(harness'[x].lock)
        PROVE  LET u == harness'[x].lock[j] IN
               /\ turns'[u].pc \in {"lock", "starting", "active"}
               /\ turns'[u].obj = x /\ (turns'[u].pc # "lock" => j = 1)
    <3>1. PICK k \in 1 .. Len(harness[x].lock) :
              /\ harness'[x].lock[j] = harness[x].lock[k] /\ harness[x].lock[k] # t
              /\ k = 1 => j = 1
      <4>1. CASE x = o
        <5>1. PICK k \in 1 .. Len(lock) : left[j] = lock[k] /\ k # i /\ (k = 1 => j = 1)
          BY <4>1, <1>7, <1>10
        <5> QED BY <5>1, <4>1, <1>3, <1>4, <1>7
      <4>2. CASE x # o
        <5>1. harness'[x] = harness[x] /\ j \in 1 .. Len(harness[x].lock)
          BY <2>2, <4>2, <1>7
        <5>2. turns[harness[x].lock[j]].obj = x
          BY <5>1, <1>t DEF LockInv
        <5>3. harness[x].lock[j] # t
          BY <5>2, <4>2, <1>1
        <5> QED BY <5>1, <5>3
      <4> QED BY <4>1, <4>2
    <3>2. PICK u \in Turns : u = harness[x].lock[k]
      BY <1>1 DEF Object
    <3>3. Waits(u) /\ turns[u].obj = x /\ (turns[u].pc # "lock" => k = 1)
      BY <3>2, <1>t DEF LockInv
    <3>4. turns'[u] = turns[u]
      BY <3>1, <3>2, <1>2
    <3> QED BY <3>1, <3>2, <3>3, <3>4 DEF Waits
  <2>3. ASSUME NEW x \in Procs, NEW j \in 1 .. Len(harness'[x].lock),
               NEW k \in 1 .. Len(harness'[x].lock), harness'[x].lock[j] = harness'[x].lock[k]
        PROVE  j = k
    <3>1. CASE x = o
      BY <2>3, <3>1, <1>7, <1>10
    <3>2. CASE x # o
      BY <2>3, <3>2, <1>7, <1>t, ZenonT(60) DEF LockInv
    <3> QED BY <3>1, <3>2
  <2>4. \A x \in Procs : \A j \in 1 .. Len(harness'[x].lock) :
            LET u == harness'[x].lock[j] IN
            /\ turns'[u].pc \in {"lock", "starting", "active"}
            /\ turns'[u].obj = x /\ (turns'[u].pc # "lock" => j = 1)
    BY <2>2
  <2>5. \A x \in Procs : \A j, k \in 1 .. Len(harness'[x].lock) :
            harness'[x].lock[j] = harness'[x].lock[k] => j = k
    BY <2>3
  <2>6. \A u \in Turns : turns'[u].pc \in {"lock", "starting", "active"} =>
            /\ turns'[u].obj \in 1 .. spawned'
            /\ \E j \in 1 .. Len(harness'[turns'[u].obj].lock) : harness'[turns'[u].obj].lock[j] = u
    BY <2>1 DEF Waits
  <2> QED BY <2>4, <2>5, <2>6, LockNext
<1> QED BY <1>7, <1>9, <1>11, EndStep

\* What a turn leaves: the lock without it, and no turn if it was active.
LEMMA Leaves ==
    ASSUME Inv, NEW t \in Turns, Waits(t), NEW o \in Procs, o = turns[t].obj
    PROVE  /\ Without(harness[o].lock, t) \in Seq(Turns)
           /\ turns[t].pc # "lock" \/ Head(harness[o].lock) = t =>
                 Without(harness[o].lock, t) = Tail(harness[o].lock)
           /\ (IF harness[o].turn = t THEN None ELSE harness[o].turn)
                   = IF turns[t].pc = "active" THEN None ELSE harness[o].turn
<1>1. harness[o] \in Object /\ harness[o].lock \in Seq(Turns)
  BY Waiter
<1>2. PICK lock \in Seq(Turns) : lock = harness[o].lock
  BY <1>1
<1>3. PICK i \in 1 .. Len(lock) :
          /\ lock[i] = t
          /\ \A j \in 1 .. Len(lock) : lock[j] = t => j = i
          /\ turns[t].pc # "lock" => i = 1
  BY <1>2, Waiter
<1>4. Without(lock, t) \in Seq(Turns) /\ (i = 1 => Without(lock, t) = Tail(lock))
  BY <1>3, WithoutIs
<1>5. Head(lock) = t => i = 1
  <2>1. 1 \in 1 .. Len(lock) /\ Head(lock) = lock[1]
    BY <1>3
  <2> QED BY <2>1, <1>3
<1>6. (IF harness[o].turn = t THEN None ELSE harness[o].turn)
          = IF turns[t].pc = "active" THEN None ELSE harness[o].turn
  <2>1. CASE turns[t].pc = "active"
    <3>1. harness[o].turn \in {None, t}
      BY <2>1, Sole
    <3> QED BY <2>1, <3>1
  <2>2. CASE turns[t].pc # "active"
    <3>1. harness[o].turn # t
      BY <2>2, Outstanding, Bounds
    <3> QED BY <2>2, <3>1
  <2> QED BY <2>1, <2>2
<1> QED BY <1>2, <1>3, <1>4, <1>5, <1>6

LEMMA TakeEventStep == ASSUME Inv, NEW t \in Turns, TakeEvent(t) PROVE Inv'
<1>t. /\ StateOK /\ LockInv /\ OutstandingInv /\ ReaderInv /\ CleanInv
      /\ TurnIsHeard /\ CleanTurnOwnsItsOutput
  BY DEF Inv
<1>1. PICK o : o = turns[t].obj
  OBVIOUS
<1>2. /\ turns[t].pc = "active" /\ Waits(t) /\ turns[t].queue # <<>>
      /\ UNCHANGED <<tracked, procs, spawned, stopper, wakes, stops, clean>>
  BY DEF TakeEvent, Waits
<1>3. /\ turns \in [Turns -> Turn] /\ harness \in [Procs -> Object] /\ o \in Procs
      /\ turns[t] \in Turn /\ turns[t].queue \in Seq(Event)
  BY <1>1, <1>2, <1>t, Waiter DEF StateOK, Turn
<1>4. CASE Head(turns[t].queue).last
  <2>1. /\ harness' = [harness EXCEPT ![o].turn = None, ![o].lock = Tail(@)]
        /\ turns' = [turns EXCEPT ![t] = Quit(t)]
    BY <1>1, <1>4 DEF TakeEvent
  <2>2. PICK next : next = [harness[o] EXCEPT !.turn = None, !.lock = Tail(@)]
    OBVIOUS
  <2>3. harness' = [harness EXCEPT ![o] = next]
    BY <2>1, <2>2, <1>3
  <2>4. /\ Tail(harness[o].lock) = Without(harness[o].lock, t)
        /\ Tail(harness[o].lock) \in Seq(Turns)
        /\ None = IF harness[o].turn = t THEN None ELSE harness[o].turn
    BY <1>1, <1>2, <1>3, Leaves
  <2>5. harness[o] \in Object
    BY <1>3
  <2>6. /\ next \in Object /\ next.proc = harness[o].proc /\ next.turn = None
        /\ next.lock = Tail(harness[o].lock)
    BY <2>2, <2>4, <2>5 DEF Object
  <2>7. /\ next.lock = Without(harness[o].lock, t)
        /\ next.turn = IF harness[o].turn = t THEN None ELSE harness[o].turn
        /\ next \in Object /\ next.proc = harness[o].proc
    BY <2>4, <2>6
  <2>8. /\ turns' = [turns EXCEPT ![t] = Quit(t)] /\ o \in Procs /\ tracked' \in {tracked, None}
        /\ UNCHANGED <<procs, spawned, stopper, wakes, stops, clean>>
    BY <2>1, <1>2, <1>3
  <2> QED BY <2>3, <2>7, <2>8, <1>1, <1>2, LeaveStep
<1>5. CASE ~Head(turns[t].queue).last
  <2> DEFINE queue == turns[t].queue
             rest == Tail(queue)
             turn == [turns[t] EXCEPT !.queue = rest]
  <2>1. /\ rest \in Seq(Event) /\ DOMAIN queue = 1 .. Len(queue) /\ Len(queue) \in Nat \ {0}
        /\ Len(rest) = Len(queue) - 1 /\ DOMAIN rest = 1 .. Len(queue) - 1
        /\ \A i \in 1 .. Len(queue) - 1 : rest[i] = queue[i + 1]
        /\ ~queue[1].last
    BY <1>2, <1>3, <1>5
  <2>2. turns' = [turns EXCEPT ![t] = turn] /\ harness' = harness
    BY <1>3, <1>5 DEF TakeEvent
  <2>3. turn \in Turn /\ turn.pc = turns[t].pc /\ turn.obj = turns[t].obj /\ turn.queue = rest
    BY <2>1, <1>3 DEF Turn
  <2>4. /\ turns' \in [Turns -> Turn] /\ turns'[t].queue = rest
        /\ \A u \in Turns : turns'[u].pc = turns[u].pc /\ turns'[u].obj = turns[u].obj
        /\ \A u \in Turns \ {t} : turns'[u].queue = turns[u].queue
    <3> HIDE DEF turn
    <3> QED BY <2>2, <2>3, <1>3
  <2> HIDE DEF turn, rest, queue
  <2>5. Ends(rest) <=> Ends(queue)
    <3>1. ASSUME NEW i \in 1 .. Len(rest), rest[i].last PROVE Ends(queue)
      <4>1. i + 1 \in DOMAIN queue /\ queue[i + 1].last
        BY <3>1, <2>1
      <4> QED BY <4>1 DEF Ends
    <3>2. ASSUME NEW i \in 1 .. Len(queue), queue[i].last PROVE Ends(rest)
      <4>1. i # 1
        BY <3>2, <2>1
      <4>2. i - 1 \in DOMAIN rest /\ rest[i - 1] = queue[i]
        BY <4>1, <2>1
      <4> QED BY <4>2, <3>2 DEF Ends
    <3> QED BY <3>1, <3>2, <2>1 DEF Ends
  <2>6. StateOK'
    <3>1. ASSUME NEW i \in DOMAIN rest, rest[i].last PROVE i = Len(rest)
      <4>1. i + 1 \in DOMAIN queue /\ queue[i + 1].last
        BY <3>1, <2>1
      <4>2. i + 1 = Len(queue)
        BY <4>1, <1>t DEF StateOK, queue
      <4> QED BY <4>2, <2>1
    <3>2. \A u \in Turns : \A i \in DOMAIN turns'[u].queue :
              turns'[u].queue[i].last => i = Len(turns'[u].queue)
      BY <3>1, <2>4, <1>t DEF StateOK
    <3> QED BY <3>2, <2>2, <2>4, <1>2, <1>t DEF StateOK
  <2>7. LockInv'
    <3>1. \A u \in Turns : Waits(u)' <=> Waits(u)
      BY <2>4 DEF Waits
    <3>2. \A x \in Procs : \A i \in 1 .. Len(harness[x].lock) : harness[x].lock[i] \in Turns
      BY <1>3 DEF Object
    <3>3. spawned' = spawned
      BY <1>2
    <3>4. \A u \in Turns : turns'[u].pc \in {"lock", "starting", "active"} =>
              /\ turns'[u].obj \in 1 .. spawned'
              /\ \E j \in 1 .. Len(harness'[turns'[u].obj].lock) : harness'[turns'[u].obj].lock[j] = u
      BY <3>1, <3>3, <2>2, <2>4, <1>t DEF LockInv, Waits
    <3>5. \A x \in Procs : \A j \in 1 .. Len(harness'[x].lock) :
              LET u == harness'[x].lock[j] IN
              /\ turns'[u].pc \in {"lock", "starting", "active"}
              /\ turns'[u].obj = x /\ (turns'[u].pc # "lock" => j = 1)
      BY <3>2, <2>2, <2>4, <1>t DEF LockInv, Waits
    <3>6. \A x \in Procs : \A j, k \in 1 .. Len(harness'[x].lock) :
              harness'[x].lock[j] = harness'[x].lock[k] => j = k
      BY <2>2, <1>t DEF LockInv
    <3> QED BY <3>4, <3>5, <3>6, LockNext
  <2>8. OutstandingInv'
    <3>1. \A x \in Procs : harness[x].turn # None => harness[x].turn \in Turns
      BY Outstanding
    <3> QED BY <3>1, <2>2, <2>4, <2>5, <1>t DEF OutstandingInv, Ends, queue
  <2>9. ReaderInv' /\ CleanInv'
    <3>1. ReaderInv'
      BY <2>2, <2>4, <1>2, <1>t DEF ReaderInv
    <3>2. CleanInv'
      <4>1. clean \in SUBSET Turns
        BY <1>t DEF StateOK
      <4> QED BY <4>1, <2>2, <2>4, <1>2, <1>t, ZenonT(60) DEF CleanInv, Owns, Ends
    <3> QED BY <3>1, <3>2
  <2>10. TurnIsHeard'
    <3> SUFFICES ASSUME NEW u \in Turns, NEW x, turns'[u].pc = "active", turns'[u].obj = x
                 PROVE  Ends(turns'[u].queue) \/ (harness'[x].turn = u /\ Watched(x)')
      BY DEF TurnIsHeard, Ends, Watched
    <3>1. Ends(turns[u].queue) \/ (harness[x].turn = u /\ Watched(x))
      BY <2>4, <1>t DEF TurnIsHeard, Ends, Watched
    <3>2. Watched(x) => Watched(x)'
      BY <2>2, <1>2 DEF Watched
    <3>3. Ends(turns[u].queue) => Ends(turns'[u].queue)
      BY <2>4, <2>5 DEF queue
    <3> QED BY <3>1, <3>2, <3>3, <2>2
  <2>11. CleanTurnOwnsItsOutput'
    <3>1. \A i \in DOMAIN rest : \E j \in DOMAIN queue : rest[i] = queue[j]
      <4>1. \A i \in DOMAIN rest : i + 1 \in DOMAIN queue /\ rest[i] = queue[i + 1]
        BY <2>1
      <4> QED BY <4>1
    <3>2. clean \in SUBSET Turns /\ clean' = clean
      BY <1>2, <1>t DEF StateOK
    <3> QED BY <3>1, <3>2, <2>4, <1>t DEF CleanTurnOwnsItsOutput, queue
  <2> QED BY <2>6, <2>7, <2>8, <2>9, <2>10, <2>11 DEF Inv
<1> QED BY <1>4, <1>5

LEMMA CutShortStep == ASSUME Inv, NEW t \in Turns, CutShort(t) PROVE Inv'
<1>1. /\ turns' = [turns EXCEPT ![t] = Quit(t)]
      /\ UNCHANGED <<tracked, procs, spawned, stopper, wakes, stops, clean>>
      /\ turns[t].pc \in {"spawning", "lock", "starting", "active"}
  BY DEF CutShort
<1>2. CASE turns[t].pc = "spawning"
  <2>1. ~Waits(t) /\ harness' = harness
    BY <1>2 DEF Waits, CutShort
  <2> QED BY <2>1, <1>1, EndsElsewhere
<1>3. CASE turns[t].pc # "spawning"
  <2>1. Waits(t)
    BY <1>1, <1>3 DEF Waits
  <2>2. PICK o : o = turns[t].obj
    OBVIOUS
  <2>3. harness \in [Procs -> Object] /\ o \in Procs
    BY <2>1, <2>2, Waiter DEF Inv, StateOK
  <2>4. PICK next : next = [harness[o] EXCEPT
                         !.lock = Without(@, t),
                         !.turn = IF turns[t].pc = "active" THEN None ELSE @]
    OBVIOUS
  <2>5. harness' = [harness EXCEPT ![o] = next]
    BY <2>2, <2>3, <2>4, <1>3 DEF CutShort
  <2>6. /\ Without(harness[o].lock, t) \in Seq(Turns)
        /\ (IF harness[o].turn = t THEN None ELSE harness[o].turn)
                = IF turns[t].pc = "active" THEN None ELSE harness[o].turn
    BY <2>1, <2>2, <2>3, Leaves
  <2>7. harness[o] \in Object /\ harness[o].turn \in Turns \cup {None}
    BY <2>3 DEF Object
  <2>8. /\ next \in Object /\ next.proc = harness[o].proc
        /\ next.lock = Without(harness[o].lock, t)
        /\ next.turn = IF turns[t].pc = "active" THEN None ELSE harness[o].turn
    BY <2>4, <2>6, <2>7 DEF Object
  <2> QED BY <2>1, <2>2, <2>3, <2>5, <2>6, <2>8, <1>1, LeaveStep
<1> QED BY <1>2, <1>3

\* The turn leaves the lock to the next.
LEMMA DrainFailsStep == ASSUME Inv, NEW t \in Turns, DrainFails(t) PROVE Inv'
<1>1. /\ turns[t].pc = "active" /\ turns' = [turns EXCEPT ![t] = Quit(t)] /\ tracked' = None
      /\ UNCHANGED <<procs, spawned, stopper, wakes, stops, clean>>
  BY DEF DrainFails, Draining, Fail
<1>2. Waits(t)
  BY <1>1 DEF Waits
<1>3. PICK o : o = turns[t].obj
  OBVIOUS
<1>4. harness \in [Procs -> Object] /\ o \in Procs
  BY <1>2, <1>3, Waiter DEF Inv, StateOK
<1>5. PICK next : next = [harness[o] EXCEPT !.turn = None, !.lock = Tail(@)]
  OBVIOUS
<1>6. harness[o] \in Object
  BY <1>4
<1>7. harness' = [harness EXCEPT ![o] = next]
  <2>1. harness' = [[harness EXCEPT ![o].turn = None] EXCEPT ![o].lock = Tail(@)]
    BY <1>3 DEF DrainFails, Fail
  <2> QED BY <2>1, <1>4, <1>5, <1>6 DEF Object
<1>8. /\ Tail(harness[o].lock) = Without(harness[o].lock, t)
      /\ Tail(harness[o].lock) \in Seq(Turns)
      /\ None = IF harness[o].turn = t THEN None ELSE harness[o].turn
  BY <1>1, <1>2, <1>3, <1>4, Leaves
<1>9. /\ next \in Object /\ next.proc = harness[o].proc /\ next.turn = None
      /\ next.lock = Tail(harness[o].lock)
  BY <1>5, <1>6, <1>8 DEF Object
<1>10. /\ next.lock = Without(harness[o].lock, t)
       /\ next.turn = IF harness[o].turn = t THEN None ELSE harness[o].turn
       /\ tracked' \in {tracked, None}
  BY <1>1, <1>8, <1>9
<1> QED BY <1>1, <1>2, <1>3, <1>4, <1>7, <1>9, <1>10, LeaveStep

LEMMA SpawnFailsStep == ASSUME Inv, NEW t \in Turns, SpawnFails(t) PROVE Inv'
<1>1. /\ turns' = [turns EXCEPT ![t] = Quit(t)]
      /\ UNCHANGED <<tracked, procs, spawned, stopper, wakes, stops, clean>>
      /\ turns[t].pc \in {"spawning", "starting"}
  BY DEF SpawnFails
<1>2. CASE turns[t].pc = "spawning"
  <2>1. ~Waits(t) /\ harness' = harness
    BY <1>2 DEF Waits, SpawnFails
  <2> QED BY <2>1, <1>1, EndsElsewhere
<1>3. CASE turns[t].pc = "starting"
  <2>1. Waits(t)
    BY <1>3 DEF Waits
  <2>2. PICK o : o = turns[t].obj
    OBVIOUS
  <2>3. harness \in [Procs -> Object] /\ o \in Procs
    BY <2>1, <2>2, Waiter DEF Inv, StateOK
  <2>4. PICK next : next = [harness[o] EXCEPT !.lock = Tail(@)]
    OBVIOUS
  <2>5. harness' = [harness EXCEPT ![o] = next]
    BY <2>2, <2>3, <2>4, <1>3 DEF SpawnFails
  <2>6. /\ Tail(harness[o].lock) = Without(harness[o].lock, t)
        /\ Tail(harness[o].lock) \in Seq(Turns)
        /\ (IF harness[o].turn = t THEN None ELSE harness[o].turn) = harness[o].turn
    BY <2>1, <2>2, <2>3, <1>3, Leaves
  <2>7. harness[o] \in Object
    BY <2>3
  <2>8. /\ next \in Object /\ next.proc = harness[o].proc
        /\ next.lock = Tail(harness[o].lock) /\ next.turn = harness[o].turn
    BY <2>4, <2>6, <2>7 DEF Object
  <2> QED BY <2>1, <2>2, <2>3, <2>5, <2>6, <2>8, <1>1, LeaveStep
<1> QED BY <1>1, <1>2, <1>3

----------------------------------------------------------------------------
(* Taking a place on an object, and prompting its process *)

\* A turn lines up behind those that wait, or finds the lock free.
LEMMA LockJoined ==
    ASSUME Inv, NEW t \in Turns, ~Waits(t), NEW o \in Procs, o <= spawned',
           spawned' \in ProcOrNone, spawned <= spawned',
           \A u \in Turns \ {t} : turns'[u] = turns[u],
           turns'[t].obj = o,
           turns'[t].pc = "lock" \/ (turns'[t].pc = "active" /\ harness[o].lock = <<>>),
           \A x \in Procs : harness'[x].lock = IF x = o THEN Append(harness[o].lock, t)
                                               ELSE harness[x].lock
    PROVE  LockInv'
<1>t. StateOK /\ LockInv
  BY DEF Inv
<1>1. harness \in [Procs -> Object] /\ spawned \in 0 .. MaxProcs /\ spawned' \in 0 .. MaxProcs
  BY <1>t DEF StateOK, ProcOrNone
<1>2. PICK lock \in Seq(Turns) : lock = harness[o].lock
  BY <1>1 DEF Object
<1>3. PICK joined \in Seq(Turns) : joined = Append(lock, t)
  <2>1. Append(lock, t) \in Seq(Turns)
    OBVIOUS
  <2> QED BY <2>1
<1>4. /\ Len(lock) \in Nat /\ Len(joined) = Len(lock) + 1 /\ joined[Len(lock) + 1] = t
      /\ \A j \in 1 .. Len(lock) : joined[j] = lock[j]
  BY <1>3
<1>5. /\ harness'[o].lock = joined
      /\ \A x \in Procs \ {o} : harness'[x].lock = harness[x].lock
  BY <1>2, <1>3
<1>6. \A x \in Procs : \A j \in 1 .. Len(harness[x].lock) :
          /\ harness[x].lock[j] \in Turns /\ harness[x].lock[j] # t
          /\ Waits(harness[x].lock[j])
  BY <1>1, <1>t DEF LockInv, Object
<1>7. ASSUME NEW u \in Turns, turns'[u].pc \in {"lock", "starting", "active"}
      PROVE  /\ turns'[u].obj \in 1 .. spawned'
             /\ \E j \in 1 .. Len(harness'[turns'[u].obj].lock) : harness'[turns'[u].obj].lock[j] = u
  <2>1. CASE u = t
    <3>1. Len(lock) + 1 \in 1 .. Len(joined) /\ joined[Len(lock) + 1] = u
      BY <2>1, <1>4
    <3>2. turns'[u].obj = o /\ o \in 1 .. spawned'
      BY <2>1, <1>1, Bounds
    <3> QED BY <3>1, <3>2, <1>5
  <2>2. CASE u # t
    <3>1. turns'[u] = turns[u] /\ Waits(u)
      BY <2>2, <1>7 DEF Waits
    <3>2. /\ turns[u].obj \in Procs /\ turns[u].obj \in 1 .. spawned
          /\ \E j \in 1 .. Len(harness[turns[u].obj].lock) : harness[turns[u].obj].lock[j] = u
      BY <3>1, <1>t, Waiter DEF LockInv
    <3>3. CASE turns[u].obj = o
      <4>1. PICK j \in 1 .. Len(lock) : lock[j] = u
        BY <3>2, <3>3, <1>2
      <4>2. j \in 1 .. Len(joined) /\ joined[j] = u
        BY <4>1, <1>4
      <4>3. turns'[u].obj = o /\ turns'[u].obj \in 1 .. spawned' /\ harness'[o].lock = joined
        BY <3>1, <3>2, <3>3, <1>1, <1>5
      <4> QED BY <4>2, <4>3
    <3>4. CASE turns[u].obj # o
      <4>1. harness'[turns[u].obj].lock = harness[turns[u].obj].lock
        BY <3>2, <3>4, <1>5
      <4>2. turns[u].obj \in 1 .. spawned'
        BY <3>2, <1>1
      <4> QED BY <4>1, <4>2, <3>1, <3>2
    <3> QED BY <3>3, <3>4
  <2> QED BY <2>1, <2>2
<1>8. ASSUME NEW x \in Procs, NEW j \in 1 .. Len(harness'[x].lock)
      PROVE  LET u == harness'[x].lock[j] IN
             /\ turns'[u].pc \in {"lock", "starting", "active"}
             /\ turns'[u].obj = x /\ (turns'[u].pc # "lock" => j = 1)
  <2>1. CASE x = o /\ j = Len(lock) + 1
    <3>1. harness'[x].lock[j] = t /\ turns'[t].obj = x
      BY <2>1, <1>4, <1>5
    <3>2. turns'[t].pc = "lock" \/ (turns'[t].pc = "active" /\ Len(lock) = 0)
      BY <1>2
    <3> QED BY <3>1, <3>2, <2>1
  <2>2. CASE x # o \/ j \in 1 .. Len(lock)
    <3>1. j \in 1 .. Len(harness[x].lock) /\ harness'[x].lock[j] = harness[x].lock[j]
      BY <2>2, <1>2, <1>4, <1>5
    <3>2. PICK u \in Turns : u = harness[x].lock[j] /\ u # t /\ Waits(u)
      BY <3>1, <1>6
    <3>3. turns[u].obj = x /\ (turns[u].pc # "lock" => j = 1)
      BY <3>1, <3>2, <1>t DEF LockInv
    <3>4. turns'[u] = turns[u]
      BY <3>2
    <3> QED BY <3>1, <3>2, <3>3, <3>4 DEF Waits
  <2> QED BY <2>1, <2>2, <1>4, <1>5
<1>9. ASSUME NEW x \in Procs, NEW j \in 1 .. Len(harness'[x].lock),
             NEW k \in 1 .. Len(harness'[x].lock), harness'[x].lock[j] = harness'[x].lock[k]
      PROVE  j = k
  <2>1. CASE x # o
    BY <2>1, <1>5, <1>9, <1>t DEF LockInv
  <2>2. CASE x = o
    <3>1. \A n \in 1 .. Len(lock) : lock[n] # t
      BY <1>2, <1>6
    <3>2. \A m, n \in 1 .. Len(lock) : lock[m] = lock[n] => m = n
      BY <1>2, <1>t DEF LockInv
    <3>3. j \in 1 .. Len(lock) + 1 /\ k \in 1 .. Len(lock) + 1 /\ joined[j] = joined[k]
      BY <2>2, <1>4, <1>5, <1>9
    <3> QED BY <3>1, <3>2, <3>3, <1>4
  <2> QED BY <2>1, <2>2
<1> QED BY <1>7, <1>8, <1>9, LockNext

\* The holder goes on with the lock it holds.
LEMMA LockKept ==
    ASSUME Inv, NEW t \in Turns, Waits(t), NEW o \in Procs, o = turns[t].obj,
           turns[t].pc # "lock" \/ Head(harness[o].lock) = t,
           spawned' \in ProcOrNone, spawned <= spawned',
           \A u \in Turns \ {t} : turns'[u] = turns[u],
           turns'[t].obj = o, turns'[t].pc \in {"starting", "active"},
           \A x \in Procs : harness'[x].lock = harness[x].lock
    PROVE  LockInv'
<1>t. StateOK /\ LockInv
  BY DEF Inv
<1>1. harness \in [Procs -> Object] /\ spawned \in 0 .. MaxProcs /\ spawned' \in 0 .. MaxProcs
  BY <1>t DEF StateOK, ProcOrNone
<1>2. PICK lock \in Seq(Turns) : lock = harness[o].lock
  BY <1>1 DEF Object
<1>3. PICK i \in 1 .. Len(lock) :
          /\ lock[i] = t
          /\ \A j \in 1 .. Len(lock) : lock[j] = t => j = i
          /\ turns[t].pc # "lock" => i = 1
  BY <1>2, Waiter
<1>4. i = 1
  <2>1. 1 \in 1 .. Len(lock) /\ Head(lock) = lock[1]
    BY <1>3
  <2> QED BY <2>1, <1>2, <1>3
<1>5. \A u \in Turns : turns'[u].obj = turns[u].obj
                       /\ (turns'[u].pc \in {"lock", "starting", "active"} => Waits(u))
  BY DEF Waits
<1>6. ASSUME NEW u \in Turns, turns'[u].pc \in {"lock", "starting", "active"}
      PROVE  /\ turns'[u].obj \in 1 .. spawned'
             /\ \E j \in 1 .. Len(harness'[turns'[u].obj].lock) : harness'[turns'[u].obj].lock[j] = u
  <2>1. /\ turns[u].obj \in Procs /\ turns[u].obj \in 1 .. spawned
        /\ \E j \in 1 .. Len(harness[turns[u].obj].lock) : harness[turns[u].obj].lock[j] = u
    BY <1>5, <1>6, <1>t, Waiter DEF LockInv
  <2>2. turns[u].obj \in 1 .. spawned' /\ turns'[u].obj = turns[u].obj
    BY <2>1, <1>1, <1>5
  <2> QED BY <2>1, <2>2
<1>7. ASSUME NEW x \in Procs, NEW j \in 1 .. Len(harness'[x].lock)
      PROVE  LET u == harness'[x].lock[j] IN
             /\ turns'[u].pc \in {"lock", "starting", "active"}
             /\ turns'[u].obj = x /\ (turns'[u].pc # "lock" => j = 1)
  <2>1. j \in 1 .. Len(harness[x].lock) /\ harness'[x].lock[j] = harness[x].lock[j]
    OBVIOUS
  <2>2. PICK u \in Turns : u = harness[x].lock[j]
    BY <2>1, <1>1 DEF Object
  <2>3. Waits(u) /\ turns[u].obj = x /\ (turns[u].pc # "lock" => j = 1)
    BY <2>1, <2>2, <1>t DEF LockInv
  <2>4. CASE u = t
    <3>1. x = o /\ j = i
      BY <2>1, <2>2, <2>3, <2>4, <1>2, <1>3
    <3> QED BY <3>1, <2>1, <2>2, <2>4, <1>4
  <2>5. CASE u # t
    <3>1. turns'[u] = turns[u]
      BY <2>5
    <3> QED BY <3>1, <2>1, <2>2, <2>3 DEF Waits
  <2> QED BY <2>4, <2>5
<1>8. \A x \in Procs : \A j, k \in 1 .. Len(harness'[x].lock) :
          harness'[x].lock[j] = harness'[x].lock[k] => j = k
  BY <1>t, SMTT(30) DEF LockInv
<1> QED BY <1>6, <1>7, <1>8, LockNext

\* A turn comes to wait for the lock, or for the process to be created again.
LEMMA WaitStep ==
    ASSUME Inv, NEW t \in Turns, NEW o \in Procs, NEW pc \in {"lock", "starting"},
           turns[t].pc \in {"new", "lock"}, pc = "starting" => harness[o].proc = None,
           turns' = [turns EXCEPT ![t] = [pc |-> pc, obj |-> o, queue |-> <<>>]],
           harness' \in [Procs -> Object],
           \A x \in Procs : harness'[x].proc = harness[x].proc /\ harness'[x].turn = harness[x].turn,
           UNCHANGED <<tracked, procs, spawned, stopper, wakes, stops, clean>>,
           LockInv'
    PROVE  Inv'
<1>t. /\ StateOK /\ LockInv /\ OutstandingInv /\ ReaderInv /\ CleanInv
      /\ TurnIsHeard /\ CleanTurnOwnsItsOutput
  BY DEF Inv
<1>1. /\ turns \in [Turns -> Turn] /\ harness \in [Procs -> Object] /\ clean \in SUBSET Turns
  BY <1>t DEF StateOK
<1>2. PICK next \in Turn : /\ next = [pc |-> pc, obj |-> o, queue |-> <<>>]
                           /\ next.pc = pc /\ next.obj = o /\ next.queue = <<>>
  <2>1. <<>> \in Seq(Event) /\ o \in ProcOrNone
    BY Bounds DEF ProcOrNone
  <2>2. [pc |-> pc, obj |-> o, queue |-> <<>>] \in Turn
    BY <2>1 DEF Turn
  <2> QED BY <2>2
<1>3. /\ turns' \in [Turns -> Turn] /\ turns'[t] = next
      /\ \A u \in Turns \ {t} : turns'[u] = turns[u]
  BY <1>1, <1>2
<1>4. StateOK'
  <2>1. \A u \in Turns : \A i \in DOMAIN turns'[u].queue :
            turns'[u].queue[i].last => i = Len(turns'[u].queue)
    BY <1>2, <1>3, <1>t DEF StateOK
  <2> QED BY <2>1, <1>3, <1>t DEF StateOK
<1>5. OutstandingInv'
  <2> SUFFICES ASSUME NEW x \in Procs, harness'[x].turn # None
               PROVE  /\ turns'[harness'[x].turn].pc = "active"
                      /\ turns'[harness'[x].turn].obj = x
                      /\ ~Ends(turns'[harness'[x].turn].queue)
    BY DEF OutstandingInv, Ends
  <2>1. PICK u \in Turns : /\ harness'[x].turn = u
                           /\ turns[u].pc = "active" /\ turns[u].obj = x /\ ~Ends(turns[u].queue)
    BY Outstanding
  <2> QED BY <2>1, <1>3
<1>6. ReaderInv'
  <2>1. \A x \in Procs : harness'[x].proc # None =>
            LET p == harness'[x].proc IN
            /\ x <= spawned' /\ p <= spawned' /\ procs'[p].owner = x
            /\ procs'[p].state \in {"up", "exited"} => procs'[p].reader
    BY <1>t DEF ReaderInv
  <2>2. \A p \in Procs : procs'[p].reader =>
            procs'[p].owner # None /\ harness'[procs'[p].owner].proc = p
    <3>1. \A p \in Procs : procs[p].owner # None => procs[p].owner \in Procs
      BY <1>t, Bounds, SMTT(30) DEF StateOK, Proc, ProcOrNone
    <3> QED BY <3>1, <1>t DEF ReaderInv
  <2>3. ASSUME NEW u \in Turns, turns'[u].pc = "starting"
        PROVE  harness'[turns'[u].obj].proc = None
    <3>1. CASE u = t
      BY <2>3, <3>1, <1>2, <1>3
    <3>2. CASE u # t
      <4>1. turns'[u] = turns[u] /\ Waits(u)
        BY <2>3, <3>2, <1>3 DEF Waits
      <4>2. turns[u].obj \in Procs
        BY <4>1, Waiter
      <4> QED BY <2>3, <4>1, <4>2, <1>t DEF ReaderInv
    <3> QED BY <3>1, <3>2
  <2> QED BY <2>1, <2>2, <2>3, <1>t DEF ReaderInv
<1>7. t \notin clean
  BY <1>t DEF CleanInv
<1>8. CleanInv'
  <2>1. \A u \in clean : turns'[u].pc \in {"active", "done"}
    BY <1>1, <1>3, <1>7, <1>t DEF CleanInv
  <2>2. \A x \in Procs : harness[x].turn \in clean /\ harness[x].proc # None =>
            Owns(harness[x].turn, procs[harness[x].proc])
    BY <1>t DEF CleanInv
  <2> QED BY <2>1, <2>2, SMTT(30) DEF CleanInv, Owns, Ends
<1>9. TurnIsHeard'
  <2> SUFFICES ASSUME NEW u \in Turns, NEW x, turns'[u].pc = "active", turns'[u].obj = x
               PROVE  Ends(turns'[u].queue) \/ (harness'[x].turn = u /\ Watched(x)')
    BY DEF TurnIsHeard, Ends, Watched
  <2>1. u # t /\ turns'[u] = turns[u]
    BY <1>2, <1>3
  <2>2. x \in Procs
    BY <2>1, Waiter DEF Waits
  <2>3. Ends(turns[u].queue) \/ (harness[x].turn = u /\ Watched(x))
    BY <2>1, <1>t DEF TurnIsHeard, Ends, Watched
  <2>4. Watched(x) => Watched(x)'
    BY <2>2 DEF Watched
  <2> QED BY <2>1, <2>2, <2>3, <2>4
<1>10. CleanTurnOwnsItsOutput'
  BY <1>1, <1>3, <1>7, <1>t DEF CleanTurnOwnsItsOutput
<1> QED BY <1>4, <1>5, <1>6, <1>8, <1>9, <1>10 DEF Inv

\* Object and process are nobody else's.
Free(t, o, p) ==
    /\ \A u \in Turns \ {t} : turns[u].pc = "starting" => turns[u].obj # o
    /\ \A x \in Procs \ {o} : harness[x].proc # p
    /\ \A q \in Procs \ {p} : procs[q].reader => procs[q].owner # o

\* The prompt of the holder of an object is written to the object's process,
\* which is new or the one the object had.
LEMMA PromptStep ==
    ASSUME Inv, NEW t \in Turns, NEW o \in Procs, NEW p \in Procs, NEW next \in Proc,
           turns[t].pc \in {"new", "spawning", "lock", "starting"},
           harness[o].turn = None,
           Free(t, o, p),
           turns' = [turns EXCEPT ![t] = [pc |-> "active", obj |-> o, queue |-> <<>>]],
           harness' \in [Procs -> Object], harness'[o].proc = p, harness'[o].turn = t,
           \A x \in Procs \ {o} : harness'[x] = harness[x],
           next.state \in {"up", "exited"}, next.owner = o, next.reader,
           procs' = [procs EXCEPT ![p] = next],
           clean' = clean \/ (clean' = clean \cup {t} /\ Owns(t, next)),
           spawned' \in ProcOrNone, spawned <= spawned', o <= spawned', p <= spawned', tracked' \in 0 .. spawned',
           UNCHANGED <<stopper, wakes, stops>>,
           LockInv'
    PROVE  Inv'
<1>t. /\ StateOK /\ LockInv /\ OutstandingInv /\ ReaderInv /\ CleanInv
      /\ TurnIsHeard /\ CleanTurnOwnsItsOutput
  BY DEF Inv
<1>1. /\ turns \in [Turns -> Turn] /\ harness \in [Procs -> Object] /\ procs \in [Procs -> Proc]
      /\ clean \in SUBSET Turns /\ spawned \in 0 .. MaxProcs /\ spawned' \in 0 .. MaxProcs
  BY <1>t DEF StateOK, ProcOrNone
<1>2. PICK turn \in Turn : /\ turn = [pc |-> "active", obj |-> o, queue |-> <<>>]
                           /\ turn.pc = "active" /\ turn.obj = o /\ turn.queue = <<>>
  <2>1. <<>> \in Seq(Event) /\ o \in ProcOrNone
    BY Bounds DEF ProcOrNone
  <2>2. [pc |-> "active", obj |-> o, queue |-> <<>>] \in Turn
    BY <2>1 DEF Turn
  <2> QED BY <2>2
<1>3. /\ turns' \in [Turns -> Turn] /\ turns'[t] = turn
      /\ \A u \in Turns \ {t} : turns'[u] = turns[u]
  BY <1>1, <1>2
<1>4. /\ procs' \in [Procs -> Proc] /\ procs'[p] = next
      /\ \A q \in Procs \ {p} : procs'[q] = procs[q]
  BY <1>1
<1>5. \A x \in Procs : harness[x].proc # None =>
          /\ harness[x].proc \in Procs /\ x <= spawned /\ harness[x].proc <= spawned
          /\ procs[harness[x].proc].owner = x
          /\ procs[harness[x].proc].state \in {"up", "exited"} => procs[harness[x].proc].reader
  <2>1. \A x \in Procs : harness[x].proc \in 0 .. MaxProcs
    BY <1>1 DEF Object, ProcOrNone
  <2> QED BY <2>1, <1>t, Bounds DEF ReaderInv
<1>6. t \notin clean /\ clean' \in SUBSET Turns
  BY <1>1, <1>t DEF CleanInv
<1>7. StateOK'
  <2>1. \A u \in Turns : \A i \in DOMAIN turns'[u].queue :
            turns'[u].queue[i].last => i = Len(turns'[u].queue)
    BY <1>2, <1>3, <1>t DEF StateOK
  <2> QED BY <2>1, <1>3, <1>4, <1>6, <1>t DEF StateOK
<1>8. OutstandingInv'
  <2> SUFFICES ASSUME NEW x \in Procs, harness'[x].turn # None
               PROVE  /\ turns'[harness'[x].turn].pc = "active"
                      /\ turns'[harness'[x].turn].obj = x
                      /\ ~Ends(turns'[harness'[x].turn].queue)
    BY DEF OutstandingInv, Ends
  <2>1. CASE x = o
    BY <2>1, <1>2, <1>3 DEF Ends
  <2>2. CASE x # o
    <3>1. PICK u \in Turns : /\ harness'[x].turn = u
                             /\ turns[u].pc = "active" /\ turns[u].obj = x /\ ~Ends(turns[u].queue)
      BY <2>2, Outstanding
    <3> QED BY <3>1, <1>3
  <2> QED BY <2>1, <2>2
<1>9. ReaderInv'
  <2>1. ASSUME NEW x \in Procs, harness'[x].proc # None
        PROVE  LET q == harness'[x].proc IN
               /\ x <= spawned' /\ q <= spawned' /\ procs'[q].owner = x
               /\ procs'[q].state \in {"up", "exited"} => procs'[q].reader
    <3>1. CASE x = o
      BY <3>1, <1>4
    <3>2. CASE x # o
      <4>1. harness'[x].proc = harness[x].proc /\ harness[x].proc \in Procs \ {p}
        BY <2>1, <3>2, <1>5 DEF Free
      <4>2. procs'[harness[x].proc] = procs[harness[x].proc]
        BY <4>1, <1>4
      <4>3. harness[x].proc <= spawned' /\ x <= spawned'
        BY <4>1, <2>1, <1>1, <1>5, Bounds
      <4> QED BY <2>1, <4>1, <4>2, <4>3, <1>5
    <3> QED BY <3>1, <3>2
  <2>2. ASSUME NEW q \in Procs, procs'[q].reader
        PROVE  procs'[q].owner # None /\ harness'[procs'[q].owner].proc = q
    <3>1. CASE q = p
      BY <3>1, <1>4, Bounds
    <3>2. CASE q # p
      <4>1. procs'[q] = procs[q] /\ procs[q].owner # o
        BY <2>2, <3>2, <1>4 DEF Free
      <4>2. procs[q].owner # None /\ harness[procs[q].owner].proc = q
        BY <2>2, <4>1, <1>t DEF ReaderInv
      <4>3. procs[q].owner \in Procs
        <5>1. procs[q].owner \in ProcOrNone
          BY <1>1 DEF Proc
        <5> QED BY <5>1, <4>2, Bounds DEF ProcOrNone
      <4> QED BY <4>1, <4>2, <4>3
    <3> QED BY <3>1, <3>2
  <2>3. ASSUME NEW u \in Turns, turns'[u].pc = "starting"
        PROVE  harness'[turns'[u].obj].proc = None
    <3>1. u # t /\ turns'[u] = turns[u] /\ Waits(u)
      BY <2>3, <1>2, <1>3 DEF Waits
    <3>2. turns[u].obj \in Procs \ {o}
      BY <2>3, <3>1, Waiter DEF Free
    <3> QED BY <2>3, <3>1, <3>2, <1>t DEF ReaderInv
  <2> QED BY <2>1, <2>2, <2>3, <1>t DEF ReaderInv
<1>10. CleanInv'
  <2>1. \A u \in clean' : turns'[u].pc \in {"active", "done"}
    BY <1>1, <1>2, <1>3, <1>6, <1>t DEF CleanInv
  <2>2. ASSUME NEW x \in Procs, harness'[x].turn \in clean', harness'[x].proc # None
        PROVE  Owns(harness'[x].turn, procs'[harness'[x].proc])
    <3>1. CASE x = o
      BY <2>2, <3>1, <1>4, <1>6
    <3>2. CASE x # o
      <4>1. harness'[x] = harness[x] /\ harness[x].proc \in Procs \ {p}
        BY <2>2, <3>2, <1>5 DEF Free
      <4>2. harness[x].turn # t
        <5>1. harness[x].turn # None => turns[harness[x].turn].pc = "active"
          BY Outstanding
        <5> QED BY <5>1, Bounds
      <4>3. harness[x].turn \in clean
        BY <2>2, <4>1, <4>2
      <4>4. Owns(harness[x].turn, procs[harness[x].proc])
        BY <2>2, <4>1, <4>3, <1>t DEF CleanInv
      <4>5. procs'[harness[x].proc] = procs[harness[x].proc]
        BY <4>1, <1>4
      <4> QED BY <4>1, <4>4, <4>5
    <3> QED BY <3>1, <3>2
  <2> QED BY <2>1, <2>2 DEF CleanInv, Owns, Ends
<1>11. TurnIsHeard'
  <2> SUFFICES ASSUME NEW u \in Turns, NEW x, turns'[u].pc = "active", turns'[u].obj = x
               PROVE  Ends(turns'[u].queue) \/ (harness'[x].turn = u /\ Watched(x)')
    BY DEF TurnIsHeard, Ends, Watched
  <2>1. CASE u = t
    <3>1. x = o /\ harness'[o].proc # None /\ procs'[harness'[o].proc].reader
      BY <2>1, <1>2, <1>3, <1>4, Bounds
    <3> QED BY <2>1, <3>1 DEF Watched
  <2>2. CASE u # t
    <3>1. turns'[u] = turns[u]
      BY <2>2, <1>3
    <3>2. x \in Procs
      BY <3>1, Waiter DEF Waits
    <3>3. Ends(turns[u].queue) \/ (harness[x].turn = u /\ Watched(x))
      BY <3>1, <1>t DEF TurnIsHeard, Ends, Watched
    <3>4. ASSUME harness[x].turn = u, Watched(x) PROVE harness'[x].turn = u /\ Watched(x)'
      <4>1. x # o /\ harness'[x] = harness[x]
        BY <3>2, <3>4, Bounds
      <4>2. harness[x].proc # None => procs'[harness[x].proc] = procs[harness[x].proc]
        BY <4>1, <3>2, <1>4, <1>5 DEF Free
      <4>3. stopper' = stopper
        OBVIOUS
      <4> QED BY <4>1, <4>2, <4>3, <3>4 DEF Watched
    <3> QED BY <3>1, <3>3, <3>4
  <2> QED BY <2>1, <2>2
<1>12. CleanTurnOwnsItsOutput'
  BY <1>1, <1>2, <1>3, <1>6, <1>t DEF CleanTurnOwnsItsOutput
<1> QED BY <1>7, <1>8, <1>9, <1>10, <1>11, <1>12 DEF Inv

\* The process with the prompt written to it, of which it reads it if it is up.
WithPrompt(t, proc) ==
    IF proc.state = "up" THEN [proc EXCEPT !.todo = Append(@, [for |-> t, said |-> FALSE])]
    ELSE proc

LEMMA Prompted ==
    ASSUME NEW t \in Turns, NEW proc \in Proc, proc.state \in {"up", "exited"}
    PROVE  LET next == WithPrompt(t, proc) IN
           /\ next \in Proc /\ next.state \in {"up", "exited"}
           /\ next.owner = proc.owner /\ next.reader = proc.reader
           /\ proc.todo = <<>> /\ proc.out = <<>> => Owns(t, next)
<1> DEFINE next == WithPrompt(t, proc)
<1>1. PICK job \in Job : job = [for |-> t, said |-> FALSE] /\ job.for = t
  <2>1. [for |-> t, said |-> FALSE] \in Job
    BY DEF Job
  <2> QED BY <2>1
<1>2. proc.todo \in Seq(Job) /\ proc.out \in Seq(Event)
  BY DEF Proc
<1>3. CASE proc.state = "up"
  <2>1. Append(proc.todo, job) \in Seq(Job)
    BY <1>2
  <2>2. /\ next \in Proc /\ next.state = "up" /\ next.owner = proc.owner
        /\ next.reader = proc.reader /\ next.todo = Append(proc.todo, job) /\ next.out = proc.out
    BY <1>1, <1>3, <2>1 DEF Proc, WithPrompt
  <2> HIDE DEF next
  <2>3. proc.todo = <<>> => next.todo # <<>> /\ Head(next.todo) = job
    BY <2>2
  <2>4. proc.out = <<>> => Len(next.out) = 0
    BY <2>2
  <2>5. ASSUME proc.todo = <<>>, proc.out = <<>> PROVE Owns(t, next)
    <3>1. 1 .. Len(next.out) = {}
      BY <2>4, <2>5
    <3>2. next.todo # <<>> /\ Head(next.todo).for = t
      BY <2>3, <2>5, <1>1
    <3> QED BY <3>1, <3>2 DEF Owns
  <2> QED BY <2>2, <2>5 DEF next
<1>4. CASE proc.state # "up"
  <2>1. next = proc
    BY <1>4 DEF WithPrompt
  <2>2. proc.out = <<>> => Len(next.out) = 0
    BY <2>1
  <2> QED BY <2>1, <2>2, <1>4 DEF Owns
<1> QED BY <1>3, <1>4

\* The prompt is taken at once or left in the pipe.
LEMMA Written ==
    ASSUME NEW t \in Turns, NEW o, NEW p \in Procs, NEW hs, NEW ps \in [Procs -> Proc],
           ps[p].state \in {"up", "exited"}, Prompt(t, o, p, hs, ps)
    PROVE  \E next \in Proc :
              /\ next.state \in {"up", "exited"}
              /\ next.owner = ps[p].owner /\ next.reader = ps[p].reader
              /\ procs' = [ps EXCEPT ![p] = next]
              /\ clean' = clean \/ (clean' = clean \cup {t} /\ Owns(t, next))
<1>1. PICK next : next = WithPrompt(t, ps[p])
  OBVIOUS
<1>2. /\ next \in Proc /\ next.state \in {"up", "exited"}
      /\ next.owner = ps[p].owner /\ next.reader = ps[p].reader
      /\ ps[p].todo = <<>> /\ ps[p].out = <<>> => Owns(t, next)
  <2>1. ps[p] \in Proc
    OBVIOUS
  <2> QED BY <1>1, <2>1, Prompted
<1>3. CASE procs' = Given(ps, p, t) /\ clean' = IF ps[p].todo = <<>> /\ ps[p].out = <<>>
                                                THEN clean \cup {t} ELSE clean
  <2>1. procs' = [ps EXCEPT ![p] = next]
    BY <1>1, <1>3 DEF Given, WithPrompt
  <2> QED BY <1>2, <1>3, <2>1
<1>4. CASE procs' = ps /\ clean' = clean
  <2>1. procs' = [ps EXCEPT ![p] = ps[p]] /\ ps[p] \in Proc
    BY <1>4
  <2> QED BY <1>4, <2>1
<1> QED BY <1>3, <1>4 DEF Prompt

\* Who holds the lock of an object before its prompt is written is alone on it.
LEMMA Holder ==
    ASSUME Inv, NEW t \in Turns, NEW o \in Procs,
           turns[t].pc # "active",
           \/ Waits(t) /\ turns[t].obj = o /\ (turns[t].pc # "lock" \/ Head(harness[o].lock) = t)
           \/ harness[o].lock = <<>>
    PROVE  /\ harness[o].turn = None
           /\ \A u \in Turns \ {t} : turns[u].pc = "starting" => turns[u].obj # o
<1>1. harness[o] \in Object /\ harness[o].lock \in Seq(Turns)
  BY DEF Inv, StateOK, Object
<1>2. ASSUME NEW u \in Turns, u # t, Waits(u), turns[u].obj = o, turns[u].pc # "lock" PROVE FALSE
  <2>1. 1 \in 1 .. Len(harness[o].lock) /\ harness[o].lock[1] = u
    BY <1>2, Waiter
  <2>2. Head(harness[o].lock) = u /\ harness[o].lock # <<>>
    BY <2>1, <1>1
  <2>3. Waits(t) /\ turns[t].obj = o /\ turns[t].pc # "lock"
    BY <2>2, <1>2
  <2> QED BY <2>3, <1>2, Alone
<1>3. harness[o].turn = None
  <2>1. harness[o].turn # None =>
            /\ harness[o].turn \in Turns /\ Waits(harness[o].turn)
            /\ turns[harness[o].turn].pc = "active" /\ turns[harness[o].turn].obj = o
    BY Outstanding
  <2> QED BY <2>1, <1>2
<1> QED BY <1>2, <1>3 DEF Waits

LEMMA LockGrantedStep == ASSUME Inv, NEW t \in Turns, LockGranted(t) PROVE Inv'
<1>t. StateOK /\ LockInv /\ ReaderInv
  BY DEF Inv
<1>1. PICK o : o = turns[t].obj
  OBVIOUS
<1>2. /\ turns[t].pc = "lock" /\ Waits(t) /\ Head(harness[o].lock) = t
      /\ UNCHANGED <<spawned, stopper, wakes, stops>>
  BY <1>1 DEF LockGranted, Waits
<1>3. /\ turns \in [Turns -> Turn] /\ harness \in [Procs -> Object] /\ procs \in [Procs -> Proc]
      /\ o \in Procs /\ o <= spawned /\ harness[o] \in Object /\ spawned \in ProcOrNone
      /\ tracked \in 0 .. spawned
  BY <1>1, <1>2, <1>t, Waiter DEF StateOK
<1>4. PICK p \in ProcOrNone : p = harness[o].proc
  BY <1>3 DEF Object
<1>5. Hold(t, o, harness)
  BY <1>1 DEF LockGranted
<1>s. spawned' \in ProcOrNone /\ spawned <= spawned'
  BY <1>2, <1>3, Bounds DEF ProcOrNone
<1>6. CASE /\ p = None
           /\ harness' = harness
           /\ turns' = [turns EXCEPT ![t] = [pc |-> "starting", obj |-> o, queue |-> <<>>]]
           /\ UNCHANGED <<tracked, procs, clean>>
  <2>1. /\ turns'[t].pc = "starting" /\ turns'[t].obj = o
        /\ \A u \in Turns \ {t} : turns'[u] = turns[u]
    BY <1>3, <1>6
  <2>2. LockInv'
    BY <2>1, <1>s, <1>1, <1>2, <1>3, <1>6, LockKept
  <2>3. "starting" \in {"lock", "starting"}
    OBVIOUS
  <2>4. \A x \in Procs : harness'[x].proc = harness[x].proc /\ harness'[x].turn = harness[x].turn
    BY <1>6
  <2> QED BY <2>2, <2>3, <2>4, <1>2, <1>3, <1>4, <1>6, WaitStep
<1>7. CASE /\ p # None /\ procs[p].state \in {"up", "exited"}
           /\ Prompt(t, o, p, harness, procs) /\ UNCHANGED tracked
  <2>1. /\ p \in Procs /\ procs[p] \in Proc /\ p <= spawned
        /\ procs[p].owner = o /\ procs[p].reader
    <3>1. p \in Procs
      BY <1>7, Bounds DEF ProcOrNone
    <3> QED BY <3>1, <1>3, <1>4, <1>7, <1>t DEF ReaderInv
  <2>2. PICK next \in Proc :
            /\ next.state \in {"up", "exited"}
            /\ next.owner = procs[p].owner /\ next.reader = procs[p].reader
            /\ procs' = [procs EXCEPT ![p] = next]
            /\ clean' = clean \/ (clean' = clean \cup {t} /\ Owns(t, next))
    <3>1. p \in Procs /\ procs[p] \in Proc /\ procs[p].state \in {"up", "exited"}
      BY <2>1, <1>7
    <3>2. Prompt(t, o, p, harness, procs)
      BY <1>7
    <3>3. t \in Turns /\ o \in Procs /\ procs \in [Procs -> Proc]
      BY <1>2, <1>3
    <3> QED BY <3>1, <3>2, <3>3, Written
  <2>3. /\ next \in Proc /\ next.state \in {"up", "exited"} /\ next.owner = o /\ next.reader
        /\ clean' = clean \/ (clean' = clean \cup {t} /\ Owns(t, next))
    BY <2>1, <2>2
  <2>4. procs' = [procs EXCEPT ![p] = next]
    BY <2>2
  <2>5. /\ turns' = [turns EXCEPT ![t] = [pc |-> "active", obj |-> o, queue |-> <<>>]]
        /\ harness' = [harness EXCEPT ![o].turn = t]
        /\ clean' = clean \/ (clean' = clean \cup {t} /\ Owns(t, next))
    BY <2>3, <1>7 DEF Prompt
  <2>6. /\ harness' \in [Procs -> Object] /\ harness'[o].proc = p /\ harness'[o].turn = t
        /\ harness'[o].lock = harness[o].lock
        /\ \A x \in Procs \ {o} : harness'[x] = harness[x]
    <3>1. PICK ob : ob = [harness[o] EXCEPT !.turn = t]
      OBVIOUS
    <3>2. ob \in Object /\ ob.turn = t /\ ob.proc = p /\ ob.lock = harness[o].lock
      BY <3>1, <1>3, <1>4 DEF Object
    <3>3. harness' = [harness EXCEPT ![o] = ob]
      BY <3>1, <2>5, <1>3
    <3> QED BY <3>2, <3>3, <1>3
  <2>7. /\ turns'[t].pc = "active" /\ turns'[t].obj = o
        /\ \A u \in Turns \ {t} : turns'[u] = turns[u]
    BY <2>5, <1>3
  <2>8. LockInv'
    <3>1. \A x \in Procs : harness'[x].lock = harness[x].lock
      BY <2>6
    <3> QED BY <3>1, <2>7, <1>s, <1>1, <1>2, <1>3, LockKept
  <2>9. /\ harness[o].turn = None
        /\ \A u \in Turns \ {t} : turns[u].pc = "starting" => turns[u].obj # o
    BY <1>1, <1>2, <1>3, Holder
  <2>10. /\ \A x \in Procs \ {o} : harness[x].proc # p
         /\ \A q \in Procs \ {p} : procs[q].reader => procs[q].owner # o
    BY <2>1, <1>4, <1>7, <1>t DEF ReaderInv
  <2>11. /\ o <= spawned' /\ p <= spawned' /\ tracked' \in 0 .. spawned'
         /\ turns[t].pc \in {"new", "spawning", "lock", "starting"}
    BY <2>1, <1>2, <1>3, <1>7
  <2>12. Free(t, o, p) /\ harness[o].turn = None
    BY <2>9, <2>10 DEF Free
  <2> QED BY <2>1, <2>3, <2>4, <2>5, <2>6, <2>8, <2>11, <2>12, <1>s, <1>2, <1>3, PromptStep, ZenonT(60)
<1>8. CASE Fail(t, o, harness)
  <2>1. PICK next : next = [harness[o] EXCEPT !.lock = Tail(@)]
    OBVIOUS
  <2>2. harness' = [harness EXCEPT ![o] = next] /\ turns' = [turns EXCEPT ![t] = Quit(t)]
    BY <2>1, <1>3, <1>8 DEF Fail
  <2>3. /\ Tail(harness[o].lock) = Without(harness[o].lock, t)
        /\ Tail(harness[o].lock) \in Seq(Turns)
        /\ (IF harness[o].turn = t THEN None ELSE harness[o].turn) = harness[o].turn
    BY <1>1, <1>2, <1>3, Leaves
  <2>4. /\ next \in Object /\ next.proc = harness[o].proc
        /\ next.lock = Tail(harness[o].lock) /\ next.turn = harness[o].turn
    BY <2>1, <2>3, <1>3 DEF Object
  <2>5. tracked' \in {tracked, None} /\ UNCHANGED <<procs, spawned, stopper, wakes, stops, clean>>
    BY <1>2, <1>8 DEF Fail
  <2> QED BY <2>2, <2>3, <2>4, <2>5, <1>1, <1>2, <1>3, LeaveStep
<1> QED BY <1>4, <1>5, <1>6, <1>7, <1>8 DEF Hold

\* A turn finds a harness alive.
LEMMA AskHarnessStep ==
    ASSUME Inv, NEW t \in Turns, Ask(t), tracked # None, Alive(tracked)
    PROVE  Inv'
<1>t. StateOK /\ LockInv /\ ReaderInv
  BY DEF Inv
<1>1. PICK o : o = tracked
  OBVIOUS
<1>2. /\ turns[t].pc = "new" /\ ~Waits(t)
      /\ UNCHANGED <<spawned, stopper, wakes, stops>>
  BY DEF Ask, Waits
<1>3. /\ turns \in [Turns -> Turn] /\ harness \in [Procs -> Object] /\ procs \in [Procs -> Proc]
      /\ spawned \in ProcOrNone /\ tracked \in 0 .. spawned
  BY <1>t DEF StateOK
<1>4. o \in Procs /\ o <= spawned /\ harness[o] \in Object /\ harness[o].lock \in Seq(Turns)
  <2>1. o \in Procs /\ o <= spawned
    BY <1>1, <1>3, Bounds DEF ProcOrNone
  <2> QED BY <2>1, <1>3 DEF Object
<1>5. PICK p \in ProcOrNone : p = harness[o].proc
  BY <1>4 DEF Object
<1>6. /\ p \in Procs /\ procs[p].state \in {"up", "exited"} /\ procs[p] \in Proc /\ p <= spawned
      /\ procs[p].owner = o /\ procs[p].reader
  <2>1. p # None /\ procs[p].state \in {"up", "exited"}
    BY <1>1, <1>5 DEF Alive
  <2>2. p \in Procs
    BY <2>1, Bounds DEF ProcOrNone
  <2> QED BY <2>1, <2>2, <1>3, <1>4, <1>5, <1>t DEF ReaderInv
<1>s. spawned' \in ProcOrNone /\ spawned <= spawned' /\ o <= spawned'
  BY <1>2, <1>3, <1>4, Bounds DEF ProcOrNone
<1>7. PICK joined \in Seq(Turns) : joined = Append(harness[o].lock, t)
  <2>1. Append(harness[o].lock, t) \in Seq(Turns)
    BY <1>4
  <2> QED BY <2>1
<1>8. PICK ob : ob = [harness[o] EXCEPT !.lock = Append(@, t)]
  OBVIOUS
<1>9. /\ ob \in Object /\ ob.lock = joined /\ ob.proc = p /\ ob.turn = harness[o].turn
  BY <1>4, <1>5, <1>7, <1>8 DEF Object
<1>10. PICK hs : hs = [harness EXCEPT ![o] = ob]
  OBVIOUS
<1>11. /\ hs = [harness EXCEPT ![o].lock = Append(@, t)]
       /\ hs \in [Procs -> Object] /\ hs[o] = ob
       /\ \A x \in Procs \ {o} : hs[x] = harness[x]
  BY <1>3, <1>4, <1>8, <1>9, <1>10
<1>12. IF harness[o].lock = <<>>
       THEN Hold(t, o, hs)
       ELSE /\ harness' = hs
            /\ turns' = [turns EXCEPT ![t] = [pc |-> "lock", obj |-> o, queue |-> <<>>]]
            /\ UNCHANGED <<tracked, procs, clean>>
  BY <1>1, <1>11 DEF Ask
<1>13. CASE harness[o].lock # <<>>
  <2>1. /\ harness' = hs
        /\ turns' = [turns EXCEPT ![t] = [pc |-> "lock", obj |-> o, queue |-> <<>>]]
        /\ UNCHANGED <<tracked, procs, clean>>
    BY <1>12, <1>13
  <2>2. /\ turns'[t].pc = "lock" /\ turns'[t].obj = o
        /\ \A u \in Turns \ {t} : turns'[u] = turns[u]
    BY <2>1, <1>3
  <2>3. /\ harness' \in [Procs -> Object]
        /\ \A x \in Procs :
              /\ harness'[x].proc = harness[x].proc /\ harness'[x].turn = harness[x].turn
              /\ harness'[x].lock = IF x = o THEN Append(harness[o].lock, t) ELSE harness[x].lock
    BY <2>1, <1>5, <1>7, <1>9, <1>11
  <2>4. LockInv'
    BY <2>2, <2>3, <1>s, <1>2, <1>4, LockJoined
  <2>5. "lock" \in {"lock", "starting"}
    OBVIOUS
  <2> QED BY <2>1, <2>3, <2>4, <2>5, <1>2, <1>4, WaitStep
<1>14. CASE harness[o].lock = <<>>
  <2>1. joined = <<t>> /\ Tail(joined) = <<>>
    BY <1>7, <1>14
  <2>2. hs[o].proc = p /\ p # None
    BY <1>6, <1>9, <1>11, Bounds
  <2>3. CASE Prompt(t, o, p, hs, procs) /\ UNCHANGED tracked
    <3>1. PICK next \in Proc :
              /\ next.state \in {"up", "exited"}
              /\ next.owner = procs[p].owner /\ next.reader = procs[p].reader
              /\ procs' = [procs EXCEPT ![p] = next]
              /\ clean' = clean \/ (clean' = clean \cup {t} /\ Owns(t, next))
      BY <2>3, <1>3, <1>6, Written
    <3>2. /\ next \in Proc /\ next.state \in {"up", "exited"} /\ next.owner = o /\ next.reader
          /\ clean' = clean \/ (clean' = clean \cup {t} /\ Owns(t, next))
      BY <3>1, <1>6
    <3>3. procs' = [procs EXCEPT ![p] = next]
      BY <3>1
    <3>4. /\ turns' = [turns EXCEPT ![t] = [pc |-> "active", obj |-> o, queue |-> <<>>]]
          /\ harness' = [hs EXCEPT ![o].turn = t]
          /\ clean' = clean \/ (clean' = clean \cup {t} /\ Owns(t, next))
      BY <3>2, <2>3 DEF Prompt
    <3>5. /\ harness' \in [Procs -> Object] /\ harness'[o].proc = p /\ harness'[o].turn = t
          /\ harness'[o].lock = joined
          /\ \A x \in Procs \ {o} : harness'[x] = harness[x]
      <4>1. PICK new : new = [ob EXCEPT !.turn = t]
        OBVIOUS
      <4>2. new \in Object /\ new.turn = t /\ new.proc = p /\ new.lock = joined
        BY <4>1, <1>9 DEF Object
      <4>3. harness' = [hs EXCEPT ![o] = new]
        BY <4>1, <3>4, <1>4, <1>11
      <4> QED BY <4>2, <4>3, <1>4, <1>11
    <3>6. /\ turns'[t].pc = "active" /\ turns'[t].obj = o
          /\ \A u \in Turns \ {t} : turns'[u] = turns[u]
      BY <3>4, <1>3
    <3>7. LockInv'
      <4>1. \A x \in Procs : harness'[x].lock = IF x = o THEN Append(harness[o].lock, t)
                                                ELSE harness[x].lock
        BY <3>5, <1>7
      <4> QED BY <4>1, <3>6, <1>s, <1>2, <1>4, <1>14, LockJoined
    <3>8. /\ harness[o].turn = None
          /\ \A u \in Turns \ {t} : turns[u].pc = "starting" => turns[u].obj # o
      <4>1. turns[t].pc # "active"
        BY <1>2
      <4> QED BY <4>1, <1>4, <1>14, Holder
    <3>9. /\ \A x \in Procs \ {o} : harness[x].proc # p
          /\ \A q \in Procs \ {p} : procs[q].reader => procs[q].owner # o
      BY <2>2, <1>4, <1>5, <1>6, <1>t DEF ReaderInv
    <3>10. /\ o <= spawned' /\ p <= spawned' /\ tracked' \in 0 .. spawned'
           /\ turns[t].pc \in {"new", "spawning", "lock", "starting"}
      BY <2>3, <1>2, <1>3, <1>4, <1>6
    <3>11. /\ turns' = [turns EXCEPT ![t] = [pc |-> "active", obj |-> o, queue |-> <<>>]]
           /\ clean' = clean \/ (clean' = clean \cup {t} /\ Owns(t, next))
           /\ stopper' = stopper /\ wakes' = wakes /\ stops' = stops
           /\ next \in Proc /\ next.state \in {"up", "exited"} /\ next.owner = o /\ next.reader
      BY <3>2, <3>4, <1>2
    <3>12. o \in Procs /\ p \in Procs
      BY <1>4, <1>6
    <3>13. Free(t, o, p) /\ harness[o].turn = None
      BY <3>8, <3>9 DEF Free
    <3> QED BY <3>3, <3>5, <3>7, <3>10, <3>11, <3>12, <3>13, <1>s, PromptStep
  <2>4. CASE Fail(t, o, hs)
    <3>1. PICK back : back = [ob EXCEPT !.lock = Tail(@)]
      OBVIOUS
    <3>2. back = harness[o]
      <4>1. ob = [proc |-> harness[o].proc, turn |-> harness[o].turn, lock |-> joined]
        BY <1>4, <1>7, <1>8 DEF Object
      <4>2. back = [proc |-> harness[o].proc, turn |-> harness[o].turn, lock |-> <<>>]
        BY <4>1, <3>1, <2>1
      <4>3. harness[o] = [proc |-> harness[o].proc, turn |-> harness[o].turn, lock |-> harness[o].lock]
        BY <1>4 DEF Object
      <4> QED BY <4>2, <4>3, <1>14
    <3>3. harness' = [hs EXCEPT ![o] = back]
      BY <3>1, <2>4, <1>4, <1>11 DEF Fail
    <3>4. harness' = harness
      BY <3>2, <3>3, <1>3, <1>4, <1>10
    <3>5. /\ turns' = [turns EXCEPT ![t] = Quit(t)] /\ tracked' \in {tracked, None}
          /\ UNCHANGED <<procs, spawned, stopper, wakes, stops, clean>>
      BY <2>4, <1>2 DEF Fail
    <3> QED BY <3>4, <3>5, <1>2, EndsElsewhere
  <2> QED BY <2>2, <2>3, <2>4, <1>12, <1>14 DEF Hold
<1> QED BY <1>13, <1>14

\* A process that was just created is quiet, and read.
LEMMA NewProcIs ==
    ASSUME NEW o \in Procs
    PROVE  /\ NewProc(o) \in Proc /\ NewProc(o).state = "up" /\ NewProc(o).owner = o
           /\ NewProc(o).reader /\ NewProc(o).todo = <<>> /\ NewProc(o).out = <<>>
<1>1. <<>> \in Seq(Job) /\ <<>> \in Seq(Event) /\ o \in ProcOrNone
  BY Bounds DEF ProcOrNone
<1> QED BY <1>1 DEF NewProc, NoProc, Proc

LEMMA SpawnedStep == ASSUME Inv, NEW t \in Turns, Spawned(t) PROVE Inv'
<1>t. StateOK /\ LockInv /\ ReaderInv
  BY DEF Inv
<1>1. /\ turns \in [Turns -> Turn] /\ harness \in [Procs -> Object] /\ procs \in [Procs -> Proc]
      /\ spawned \in 0 .. MaxProcs /\ spawned < MaxProcs
  BY <1>t DEF StateOK, ProcOrNone, Spawned
<1>2. PICK p \in Procs : p = spawned + 1
  BY <1>1, Bounds
<1>3. PICK fresh \in Proc : /\ fresh = NewProc(p) /\ fresh.state = "up" /\ fresh.owner = p
                            /\ fresh.reader /\ fresh.todo = <<>> /\ fresh.out = <<>>
  BY NewProcIs
<1>4. PICK ob \in Object : /\ ob = [proc |-> p, turn |-> None, lock |-> <<t>>]
                           /\ ob.proc = p /\ ob.lock = <<t>>
  <2>1. <<t>> \in Seq(Turns) /\ p \in ProcOrNone
    BY Bounds DEF ProcOrNone
  <2>2. [proc |-> p, turn |-> None, lock |-> <<t>>] \in Object
    BY <2>1 DEF Object
  <2> QED BY <2>2
<1>5. PICK hs, ps : hs = [harness EXCEPT ![p] = ob] /\ ps = [procs EXCEPT ![p] = fresh]
  OBVIOUS
<1>6. /\ turns[t].pc = "spawning" /\ spawned' = p /\ tracked' = p
      /\ Prompt(t, p, p, hs, ps) /\ UNCHANGED <<stopper, wakes, stops>>
  BY <1>2, <1>3, <1>4, <1>5 DEF Spawned
<1>7. /\ hs \in [Procs -> Object] /\ hs[p] = ob /\ \A x \in Procs \ {p} : hs[x] = harness[x]
      /\ ps[p] = fresh /\ DOMAIN ps = Procs
  BY <1>1, <1>5
<1>8. PICK next \in Proc :
          /\ next.state \in {"up", "exited"}
          /\ next.owner = ps[p].owner /\ next.reader = ps[p].reader
          /\ procs' = [ps EXCEPT ![p] = next]
          /\ clean' = clean \/ (clean' = clean \cup {t} /\ Owns(t, next))
  <2>1. ps \in [Procs -> Proc] /\ ps[p].state \in {"up", "exited"}
    BY <1>1, <1>3, <1>5, <1>7
  <2> QED BY <2>1, <1>6, Written
<1>9. /\ next \in Proc /\ next.state \in {"up", "exited"} /\ next.owner = p /\ next.reader
      /\ clean' = clean \/ (clean' = clean \cup {t} /\ Owns(t, next))
  BY <1>3, <1>7, <1>8
<1>10. procs' = [procs EXCEPT ![p] = next]
  BY <1>1, <1>5, <1>8
<1>11. /\ turns' = [turns EXCEPT ![t] = [pc |-> "active", obj |-> p, queue |-> <<>>]]
       /\ harness' = [hs EXCEPT ![p].turn = t]
       /\ clean' = clean \/ (clean' = clean \cup {t} /\ Owns(t, next))
  BY <1>6, <1>9 DEF Prompt
<1>12. /\ harness' \in [Procs -> Object] /\ harness'[p].proc = p /\ harness'[p].turn = t
       /\ harness'[p].lock = <<t>>
       /\ \A x \in Procs \ {p} : harness'[x] = harness[x]
  <2>1. PICK new : new = [ob EXCEPT !.turn = t]
    OBVIOUS
  <2>2. new \in Object /\ new.turn = t /\ new.proc = p /\ new.lock = <<t>>
    BY <2>1, <1>4 DEF Object
  <2>3. harness' = [hs EXCEPT ![p] = new]
    BY <2>1, <1>7, <1>11
  <2> QED BY <2>2, <2>3, <1>7
<1>13. ~Waits(t) /\ turns[t].pc # "active"
  BY <1>6 DEF Waits
<1>14. harness[p].lock = <<>>
  <2>1. harness[p].lock \in Seq(Turns)
    BY <1>1 DEF Object
  <2>2. ASSUME NEW i \in 1 .. Len(harness[p].lock) PROVE FALSE
    <3>1. PICK u \in Turns : u = harness[p].lock[i]
      BY <2>1
    <3>2. Waits(u) /\ turns[u].obj = p
      BY <3>1, <1>t DEF LockInv
    <3> QED BY <3>2, <1>1, <1>2, Waiter
  <2>3. Len(harness[p].lock) = 0
    BY <2>1, <2>2
  <2> QED BY <2>1, <2>3
<1>15. /\ spawned' \in ProcOrNone /\ spawned <= spawned' /\ p <= spawned' /\ tracked' \in 0 .. spawned'
  BY <1>1, <1>2, <1>6, Bounds DEF ProcOrNone
<1>16. LockInv'
  <2>1. /\ turns'[t].pc = "active" /\ turns'[t].obj = p
        /\ \A u \in Turns \ {t} : turns'[u] = turns[u]
    BY <1>1, <1>11
  <2>2. Append(harness[p].lock, t) = <<t>>
    BY <1>14
  <2>3. \A x \in Procs : harness'[x].lock = IF x = p THEN Append(harness[p].lock, t)
                                            ELSE harness[x].lock
    BY <2>2, <1>12
  <2> QED BY <2>1, <2>3, <1>13, <1>14, <1>15, LockJoined
<1>17. /\ harness[p].turn = None
       /\ \A u \in Turns \ {t} : turns[u].pc = "starting" => turns[u].obj # p
  BY <1>13, <1>14, Holder
<1>18. /\ \A x \in Procs \ {p} : harness[x].proc # p
       /\ \A q \in Procs \ {p} : procs[q].reader => procs[q].owner # p
  <2>1. \A x \in Procs : harness[x].proc # None => x <= spawned /\ harness[x].proc <= spawned
    BY <1>t DEF ReaderInv
  <2>2. ~(p <= spawned) /\ p # None
    BY <1>1, <1>2, Bounds
  <2>3. \A q \in Procs : procs[q].reader => harness[procs[q].owner].proc = q /\ q # None
    BY <1>t, Bounds DEF ReaderInv
  <2> QED BY <2>1, <2>2, <2>3
<1>19. turns[t].pc \in {"new", "spawning", "lock", "starting"}
  BY <1>6
<1>20. /\ turns' = [turns EXCEPT ![t] = [pc |-> "active", obj |-> p, queue |-> <<>>]]
       /\ clean' = clean \/ (clean' = clean \cup {t} /\ Owns(t, next))
       /\ stopper' = stopper /\ wakes' = wakes /\ stops' = stops
       /\ next \in Proc /\ next.state \in {"up", "exited"} /\ next.owner = p /\ next.reader
  BY <1>6, <1>9, <1>11
<1>21. Free(t, p, p) /\ harness[p].turn = None
  BY <1>17, <1>18 DEF Free
<1> QED BY <1>10, <1>12, <1>15, <1>16, <1>19, <1>20, <1>21, PromptStep

LEMMA StartedStep == ASSUME Inv, NEW t \in Turns, Started(t) PROVE Inv'
<1>t. StateOK /\ LockInv /\ ReaderInv
  BY DEF Inv
<1>1. /\ turns \in [Turns -> Turn] /\ harness \in [Procs -> Object] /\ procs \in [Procs -> Proc]
      /\ spawned \in 0 .. MaxProcs /\ spawned < MaxProcs /\ tracked \in 0 .. spawned
  BY <1>t DEF StateOK, ProcOrNone, Started
<1>2. PICK p \in Procs : p = spawned + 1
  BY <1>1, Bounds
<1>3. turns[t].pc = "starting" /\ Waits(t)
  BY DEF Started, Waits
<1>4. PICK o \in Procs : o = turns[t].obj /\ o <= spawned
  BY <1>3, Waiter
<1>5. PICK fresh \in Proc : /\ fresh = NewProc(o) /\ fresh.state = "up" /\ fresh.owner = o
                            /\ fresh.reader /\ fresh.todo = <<>> /\ fresh.out = <<>>
  BY NewProcIs
<1>6. PICK ob \in Object : /\ ob = [harness[o] EXCEPT !.proc = p]
                           /\ ob.proc = p /\ ob.lock = harness[o].lock
  <2>1. harness[o] \in Object /\ p \in ProcOrNone
    BY <1>1, Bounds DEF ProcOrNone
  <2>2. /\ [harness[o] EXCEPT !.proc = p] \in Object
        /\ [harness[o] EXCEPT !.proc = p].proc = p
        /\ [harness[o] EXCEPT !.proc = p].lock = harness[o].lock
    BY <2>1 DEF Object
  <2> QED BY <2>2
<1>7. PICK hs, ps : hs = [harness EXCEPT ![o] = ob] /\ ps = [procs EXCEPT ![p] = fresh]
  OBVIOUS
<1>8. /\ spawned' = p /\ Prompt(t, o, p, hs, ps) /\ UNCHANGED <<tracked, stopper, wakes, stops>>
  <2>1. hs = [harness EXCEPT ![o].proc = p]
    BY <1>1, <1>6, <1>7
  <2> QED BY <2>1, <1>2, <1>4, <1>5, <1>7 DEF Started
<1>9. /\ hs \in [Procs -> Object] /\ hs[o] = ob /\ \A x \in Procs \ {o} : hs[x] = harness[x]
      /\ ps[p] = fresh /\ DOMAIN ps = Procs
  BY <1>1, <1>7
<1>10. PICK next \in Proc :
           /\ next.state \in {"up", "exited"}
           /\ next.owner = ps[p].owner /\ next.reader = ps[p].reader
           /\ procs' = [ps EXCEPT ![p] = next]
           /\ clean' = clean \/ (clean' = clean \cup {t} /\ Owns(t, next))
  <2>1. ps \in [Procs -> Proc] /\ ps[p].state \in {"up", "exited"}
    BY <1>1, <1>5, <1>7, <1>9
  <2> QED BY <2>1, <1>8, Written
<1>11. /\ next \in Proc /\ next.state \in {"up", "exited"} /\ next.owner = o /\ next.reader
       /\ clean' = clean \/ (clean' = clean \cup {t} /\ Owns(t, next))
  BY <1>5, <1>9, <1>10
<1>12. procs' = [procs EXCEPT ![p] = next]
  BY <1>1, <1>7, <1>10
<1>13. /\ turns' = [turns EXCEPT ![t] = [pc |-> "active", obj |-> o, queue |-> <<>>]]
       /\ harness' = [hs EXCEPT ![o].turn = t]
       /\ clean' = clean \/ (clean' = clean \cup {t} /\ Owns(t, next))
  BY <1>8, <1>11 DEF Prompt
<1>14. /\ harness' \in [Procs -> Object] /\ harness'[o].proc = p /\ harness'[o].turn = t
       /\ harness'[o].lock = harness[o].lock
       /\ \A x \in Procs \ {o} : harness'[x] = harness[x]
  <2>1. PICK new : new = [ob EXCEPT !.turn = t]
    OBVIOUS
  <2>2. new \in Object /\ new.turn = t /\ new.proc = p /\ new.lock = harness[o].lock
    BY <2>1, <1>6 DEF Object
  <2>3. harness' = [hs EXCEPT ![o] = new]
    BY <2>1, <1>9, <1>13
  <2> QED BY <2>2, <2>3, <1>9
<1>15. /\ spawned' \in ProcOrNone /\ spawned <= spawned' /\ p <= spawned' /\ o <= spawned'
       /\ tracked' \in 0 .. spawned'
  BY <1>1, <1>2, <1>4, <1>8, Bounds DEF ProcOrNone
<1>16. LockInv'
  <2>1. /\ turns'[t].pc = "active" /\ turns'[t].obj = o
        /\ \A u \in Turns \ {t} : turns'[u] = turns[u]
    BY <1>1, <1>13
  <2>2. \A x \in Procs : harness'[x].lock = harness[x].lock
    BY <1>14
  <2> QED BY <2>1, <2>2, <1>3, <1>4, <1>15, LockKept
<1>17. /\ harness[o].turn = None
       /\ \A u \in Turns \ {t} : turns[u].pc = "starting" => turns[u].obj # o
  BY <1>3, <1>4, Holder
<1>18. /\ \A x \in Procs \ {o} : harness[x].proc # p
       /\ \A q \in Procs \ {p} : procs[q].reader => procs[q].owner # o
  <2>1. \A x \in Procs : harness[x].proc # None => harness[x].proc <= spawned
    BY <1>t DEF ReaderInv
  <2>2. ~(p <= spawned) /\ p # None
    BY <1>1, <1>2, Bounds
  <2>3. \A q \in Procs : procs[q].reader => harness[procs[q].owner].proc = q /\ q # None
    BY <1>t, Bounds DEF ReaderInv
  <2>4. harness[o].proc = None
    BY <1>3, <1>4, <1>t DEF ReaderInv
  <2> QED BY <2>1, <2>2, <2>3, <2>4
<1>19. turns[t].pc \in {"new", "spawning", "lock", "starting"}
  BY <1>3
<1>20. /\ turns' = [turns EXCEPT ![t] = [pc |-> "active", obj |-> o, queue |-> <<>>]]
       /\ clean' = clean \/ (clean' = clean \cup {t} /\ Owns(t, next))
       /\ stopper' = stopper /\ wakes' = wakes /\ stops' = stops
       /\ next \in Proc /\ next.state \in {"up", "exited"} /\ next.owner = o /\ next.reader
  BY <1>8, <1>11, <1>13
<1>21. Free(t, o, p) /\ harness[o].turn = None
  BY <1>17, <1>18 DEF Free
<1> QED BY <1>12, <1>14, <1>15, <1>16, <1>19, <1>20, <1>21, PromptStep

----------------------------------------------------------------------------
(* All the steps *)

\* The prompts in the pipes, the processes that are read no more, and the
\* objects whose turn was abandoned, which have no turn.
PipeInv ==
    /\ inpipe \in [Procs -> Seq(Turns)]
    /\ deaf \in SUBSET Procs
    /\ abandoned \in SUBSET {o \in Procs : harness[o].turn = None}

\* No step of a turn, a process or a stop loses the invariant.
THEOREM InvStep == Inv /\ PipeInv /\ [Next]_vars => Inv'
<1> SUFFICES ASSUME Inv, PipeInv, [Next]_vars PROVE Inv'
  OBVIOUS
<1>1. CASE UNCHANGED vars
  <2>1. /\ harness' = harness /\ procs' = procs /\ spawned' = spawned /\ clean' = clean
        /\ stopper' = stopper /\ turns' = turns /\ tracked' = tracked /\ wakes' = wakes /\ stops' = stops
    BY <1>1 DEF vars
  <2>2. Scalars'
    BY <2>1 DEF Inv, StateOK, Scalars
  <2> QED BY <2>1, <2>2, QuietStep
<1>2. ASSUME NEW t \in Turns, Ask(t) \/ TurnStep(t) \/ CutShort(t) PROVE Inv'
  <2>1. CASE Ask(t)
    <3>1. CASE tracked # None /\ Alive(tracked)
      BY <2>1, <3>1, AskHarnessStep
    <3>2. CASE ~(tracked # None /\ Alive(tracked))
      BY <2>1, <3>2, AskElsewhereStep DEF AskElsewhere
    <3> QED BY <3>1, <3>2
  <2>2. CASE Spawned(t)
    BY <2>2, SpawnedStep
  <2>3. CASE Started(t)
    BY <2>3, StartedStep
  <2>4. CASE SpawnFails(t)
    BY <2>4, SpawnFailsStep
  <2>5. CASE LockGranted(t)
    BY <2>5, LockGrantedStep
  <2>6. CASE TakeEvent(t)
    BY <2>6, TakeEventStep
  <2>7. CASE CutShort(t)
    BY <2>7, CutShortStep
  <2>8. CASE DrainFails(t)
    BY <2>8, DrainFailsStep
  <2> QED BY <1>2, <2>1, <2>2, <2>3, <2>4, <2>5, <2>6, <2>7, <2>8 DEF TurnStep
<1>3. ASSUME NEW p \in Procs, ProcStep(p) \/ Wake(p) \/ Die(p) PROVE Inv'
  <2>1. CASE Read(p) \/ ReadEnd(p)
    BY <2>1, ReadStep
  <2>2. CASE Answer(p)
    BY <2>2, AnswerStep
  <2>3. CASE Reap(p) \/ Die(p)
    BY <2>3, DeathStep
  <2>4. CASE Wake(p)
    BY <2>4, WakeStep
  <2>5. CASE TakePrompt(p)
    BY <2>5, TakePromptStep DEF PipeInv
  <2>6. CASE ReadFails(p)
    <3>1. /\ harness' = harness /\ procs' = procs /\ spawned' = spawned /\ clean' = clean
          /\ stopper' = stopper /\ turns' = turns /\ tracked' = tracked /\ wakes' = wakes /\ stops' = stops
      BY <2>6 DEF ReadFails
    <3>2. Scalars'
      BY <3>1 DEF Inv, StateOK, Scalars
    <3> QED BY <3>1, <3>2, QuietStep
  <2> QED BY <1>3, <2>1, <2>2, <2>3, <2>4, <2>5, <2>6 DEF ProcStep
<1>4. CASE Stop
  BY <1>4, StopStart
<1>5. CASE StopStep
  <2>1. CASE CloseEnds
    BY <2>1, CloseStep
  <2>2. CASE DockerStops
    BY <2>2, DeathStep
  <2> QED BY <1>5, <2>1, <2>2 DEF StopStep
<1> QED BY <1>1, <1>2, <1>3, <1>4, <1>5 DEF Next

----------------------------------------------------------------------------
(* The pipes *)

\* Objects lose their turn or keep it, and no object that keeps one is
\* abandoned.
LEMMA PipeLess ==
    ASSUME PipeInv, inpipe' \in [Procs -> Seq(Turns)], deaf' \in SUBSET Procs,
           \A x \in Procs : harness'[x].turn \in {None, harness[x].turn},
           \A x \in abandoned' : x \in abandoned \/ (x \in Procs /\ harness'[x].turn = None)
    PROVE  PipeInv'
BY DEF PipeInv

\* A step that leaves the pipes alone.
LEMMA PipeStill ==
    ASSUME PipeInv, UNCHANGED <<inpipe, deaf>>, abandoned' \in SUBSET abandoned,
           \A x \in Procs : harness'[x].turn \in {None, harness[x].turn}
    PROVE  PipeInv'
<1>1. inpipe' \in [Procs -> Seq(Turns)] /\ deaf' \in SUBSET Procs
  BY DEF PipeInv
<1>2. \A x \in abandoned' : x \in abandoned
  OBVIOUS
<1> QED BY <1>1, <1>2, PipeLess

LEMMA ForgottenLess == \A o, e : Forgotten(o, e) \in SUBSET abandoned
BY DEF Forgotten

\* An event that is delivered at most takes a turn off.
LEMMA SettledLess ==
    ASSUME harness \in [Procs -> Object], NEW o, NEW e, harness' = Settled(harness, o, e)
    PROVE  \A x \in Procs : harness'[x].turn \in {None, harness[x].turn}
BY DEF Settled, Object

LEMMA PipePrompt ==
    ASSUME PipeInv, NEW t \in Turns, NEW o \in Procs, NEW p \in Procs,
           NEW hs \in [Procs -> Object], NEW ps, Prompt(t, o, p, hs, ps),
           \A x \in Procs \ {o} : hs[x].turn = harness[x].turn
    PROVE  PipeInv'
<1>1. /\ harness' = [hs EXCEPT ![o].turn = t] /\ abandoned' = abandoned \ {o} /\ deaf' = deaf
      /\ inpipe' = inpipe \/ inpipe' = [inpipe EXCEPT ![p] = Append(@, t)]
  BY DEF Prompt
<1>2. \A x \in Procs \ {o} : harness'[x].turn = harness[x].turn
  BY <1>1
<1>3. abandoned' \in SUBSET {x \in Procs : harness'[x].turn = None}
  BY <1>1, <1>2 DEF PipeInv
<1>4. inpipe' \in [Procs -> Seq(Turns)]
  <2>1. inpipe[p] \in Seq(Turns) /\ inpipe \in [Procs -> Seq(Turns)]
    BY DEF PipeInv
  <2>2. Append(inpipe[p], t) \in Seq(Turns)
    BY <2>1
  <2> QED BY <1>1, <2>1, <2>2
<1> QED BY <1>1, <1>3, <1>4 DEF PipeInv

LEMMA PipeHold ==
    ASSUME Inv, PipeInv, NEW t \in Turns, NEW o \in Procs, NEW hs \in [Procs -> Object],
           \A x \in Procs : hs[x].turn = harness[x].turn,
           Hold(t, o, hs)
    PROVE  PipeInv'
<1>1. PICK p \in ProcOrNone : p = hs[o].proc
  BY DEF Object
<1>2. CASE harness' = hs /\ UNCHANGED pipeVars
  BY <1>2, PipeStill DEF pipeVars
<1>3. CASE p # None /\ Prompt(t, o, p, hs, procs)
  <2>1. p \in Procs
    BY <1>3, Bounds DEF ProcOrNone
  <2> QED BY <1>3, <2>1, PipePrompt
<1>4. CASE Fail(t, o, hs)
  <2>1. UNCHANGED pipeVars /\ harness' = [hs EXCEPT ![o].lock = Tail(@)]
    BY <1>4 DEF Fail
  <2>2. \A x \in Procs : harness'[x].turn = harness[x].turn
    BY <2>1 DEF Object
  <2> QED BY <2>1, <2>2, PipeStill DEF pipeVars
<1> QED BY <1>1, <1>2, <1>3, <1>4 DEF Hold

LEMMA PipeAsk == ASSUME Inv, PipeInv, NEW t \in Turns, Ask(t) PROVE PipeInv'
<1>1. harness \in [Procs -> Object] /\ tracked \in 0 .. spawned /\ spawned \in ProcOrNone
  BY DEF Inv, StateOK
<1>2. tracked # None => tracked \in Procs
  BY <1>1, Bounds DEF ProcOrNone
<1>3. CASE tracked # None /\ Alive(tracked)
  <2>1. PICK hs : hs = [harness EXCEPT ![tracked].lock = Append(@, t)]
    OBVIOUS
  <2>2. (\A x \in Procs : hs[x].turn = harness[x].turn) /\ hs \in [Procs -> Object]
    <3>1. harness[tracked] \in Object /\ Append(harness[tracked].lock, t) \in Seq(Turns)
      BY <1>1, <1>2, <1>3 DEF Object
    <3> QED BY <1>1, <1>2, <1>3, <2>1, <3>1 DEF Object
  <2>3. Hold(t, tracked, hs) \/ (harness' = hs /\ UNCHANGED pipeVars)
    BY <1>3, <2>1 DEF Ask
  <2> QED BY <1>2, <1>3, <2>2, <2>3, PipeHold, PipeStill DEF pipeVars
<1>4. CASE tracked # None /\ ~Alive(tracked)
  <2>0. UNCHANGED <<inpipe, deaf>>
    BY <1>4 DEF Ask
  <2>1. CASE harness' = harness /\ UNCHANGED abandoned
    BY <2>0, <2>1, PipeStill
  <2>2. CASE /\ harness' = Settled(Detached(harness, tracked), tracked, Notice)
             /\ abandoned' = Forgotten(tracked, Notice)
    <3>1. \A x \in Procs : harness'[x].turn \in {None, harness[x].turn}
      BY <1>2, <1>4, <2>2, TellDetached
    <3> QED BY <2>0, <2>2, <3>1, ForgottenLess, PipeStill
  <2> QED BY <1>4, <2>1, <2>2 DEF Ask
<1>5. CASE tracked = None
  <2>1. harness' = harness /\ UNCHANGED pipeVars
    BY <1>5 DEF Ask
  <2> QED BY <2>1, PipeStill DEF pipeVars
<1> QED BY <1>3, <1>4, <1>5

LEMMA PipeSpawned ==
    ASSUME Inv, PipeInv, NEW t \in Turns, Spawned(t) \/ Started(t) PROVE PipeInv'
<1>1. /\ harness \in [Procs -> Object] /\ spawned \in 0 .. MaxProcs /\ spawned < MaxProcs
  BY DEF Inv, StateOK, ProcOrNone, Spawned, Started
<1>2. PICK p \in Procs : p = spawned + 1
  BY <1>1, Bounds
<1>3. p \in ProcOrNone
  BY Bounds DEF ProcOrNone
<1>4. CASE Spawned(t)
  <2>1. PICK ob : ob = [proc |-> p, turn |-> None, lock |-> <<t>>]
    OBVIOUS
  <2>2. <<t>> \in Seq(Turns)
    OBVIOUS
  <2>3. ob \in Object
    BY <1>3, <2>1, <2>2 DEF Object
  <2>4. PICK hs : hs = [harness EXCEPT ![p] = ob]
    OBVIOUS
  <2>5. hs \in [Procs -> Object] /\ \A x \in Procs \ {p} : hs[x].turn = harness[x].turn
    BY <1>1, <2>3, <2>4
  <2>6. \E ps : Prompt(t, p, p, hs, ps)
    BY <1>2, <1>4, <2>1, <2>4 DEF Spawned
  <2> QED BY <2>5, <2>6, PipePrompt
<1>5. CASE Started(t)
  <2>1. turns[t].pc = "starting" /\ Waits(t)
    BY <1>5 DEF Started, Waits
  <2>2. PICK o \in Procs : o = turns[t].obj
    BY <2>1, Waiter
  <2>3. PICK hs : hs = [harness EXCEPT ![o].proc = p]
    OBVIOUS
  <2>4. hs \in [Procs -> Object] /\ \A x \in Procs \ {o} : hs[x].turn = harness[x].turn
    BY <1>1, <1>3, <2>3 DEF Object
  <2>5. \E ps : Prompt(t, o, p, hs, ps)
    BY <1>2, <1>5, <2>2, <2>3 DEF Started
  <2> QED BY <2>4, <2>5, PipePrompt
<1> QED BY <1>4, <1>5

\* A turn that is cut short at the drain leaves its object abandoned, and
\* without a turn.
LEMMA PipeLeave ==
    ASSUME Inv, PipeInv, NEW t \in Turns,
           SpawnFails(t) \/ TakeEvent(t) \/ DrainFails(t) \/ CutShort(t)
    PROVE  PipeInv'
<1>1. harness \in [Procs -> Object] /\ UNCHANGED <<inpipe, deaf>>
  BY DEF Inv, StateOK, SpawnFails, TakeEvent, CutShort, DrainFails, Fail, pipeVars
<1>2. PICK o : o = turns[t].obj
  OBVIOUS
<1>3. \A x \in Procs : harness'[x].turn \in {None, harness[x].turn}
  <2>1. CASE SpawnFails(t)
    <3>1. harness' = harness \/ harness' = [harness EXCEPT ![o].lock = Tail(@)]
      BY <1>2, <2>1 DEF SpawnFails
    <3> QED BY <1>1, <3>1 DEF Object
  <2>2. CASE TakeEvent(t)
    <3>1. harness' = harness \/ harness' = [harness EXCEPT ![o].turn = None, ![o].lock = Tail(@)]
      BY <1>2, <2>2 DEF TakeEvent
    <3> QED BY <1>1, <3>1 DEF Object
  <2>3. CASE DrainFails(t)
    <3>1. harness' = [[harness EXCEPT ![o].turn = None] EXCEPT ![o].lock = Tail(@)]
      BY <1>2, <2>3 DEF DrainFails, Fail
    <3> QED BY <1>1, <3>1 DEF Object
  <2>4. CASE CutShort(t)
    <3>1. PICK l, v : /\ l = Without(harness[o].lock, t)
                      /\ v = IF turns[t].pc = "active" THEN None ELSE harness[o].turn
      OBVIOUS
    <3>2. harness' = harness \/ harness' = [harness EXCEPT ![o].lock = l, ![o].turn = v]
      BY <1>1, <1>2, <2>4, <3>1 DEF CutShort, Object
    <3>3. v \in {None, harness[o].turn}
      BY <3>1
    <3>4. PICK next : next = [harness[o] EXCEPT !.lock = l, !.turn = v]
      OBVIOUS
    <3>5. harness' = harness \/ (o \in Procs /\ harness' = [harness EXCEPT ![o] = next])
      BY <1>1, <3>2, <3>4
    <3>6. o \in Procs => next.turn = v
      BY <1>1, <3>4 DEF Object
    <3> QED BY <1>1, <3>3, <3>5, <3>6
  <2> QED BY <2>1, <2>2, <2>3, <2>4
<1>4. CASE abandoned' = abandoned
  BY <1>1, <1>3, <1>4, PipeStill
<1>5. CASE CutShort(t) /\ Draining(t) /\ abandoned' = abandoned \cup {o}
  <2>1. turns[t].pc = "active"
    BY <1>5 DEF Draining
  <2>2. o \in Procs
    BY <1>2, <2>1, Waiter DEF Waits
  <2>3. harness' = [harness EXCEPT ![o].lock = Without(@, t), ![o].turn = None]
    BY <1>2, <1>5, <2>1 DEF CutShort
  <2>4. harness'[o].turn = None
    <3>1. PICK next : next = [harness[o] EXCEPT !.lock = Without(@, t), !.turn = None]
      OBVIOUS
    <3>2. harness[o] \in Object
      BY <1>1, <2>2
    <3>3. harness' = [harness EXCEPT ![o] = next]
      BY <1>1, <2>2, <2>3, <3>1
    <3>4. next.turn = None
      BY <3>1, <3>2 DEF Object
    <3> QED BY <1>1, <2>2, <3>3, <3>4
  <2>5. \A x \in abandoned' : x \in abandoned \/ (x \in Procs /\ harness'[x].turn = None)
    BY <1>5, <2>2, <2>4
  <2>6. inpipe' \in [Procs -> Seq(Turns)] /\ deaf' \in SUBSET Procs
    BY <1>1 DEF PipeInv
  <2> QED BY <1>3, <2>5, <2>6, PipeLess
<1> QED BY <1>2, <1>4, <1>5 DEF SpawnFails, TakeEvent, CutShort, DrainFails, Fail, pipeVars

LEMMA PipeProcess ==
    ASSUME Inv, PipeInv, NEW p \in Procs, ProcStep(p) \/ Wake(p) \/ Die(p) PROVE PipeInv'
<1>1. harness \in [Procs -> Object]
  BY DEF Inv, StateOK
<1>2. CASE Read(p) \/ ReadEnd(p)
  <2>1. PICK o, e : harness' = Settled(harness, o, e) /\ abandoned' = Forgotten(o, e)
    BY <1>2 DEF Read, ReadEnd
  <2>2. UNCHANGED <<inpipe, deaf>>
    BY <1>2 DEF Read, ReadEnd
  <2>3. \A x \in Procs : harness'[x].turn \in {None, harness[x].turn}
    BY <1>1, <2>1, SettledLess
  <2> QED BY <2>1, <2>2, <2>3, ForgottenLess, PipeStill
<1>3. CASE Answer(p) \/ Reap(p) \/ Wake(p) \/ Die(p)
  <2>1. harness' = harness /\ UNCHANGED pipeVars
    BY <1>3 DEF Answer, Reap, Wake, Die
  <2> QED BY <2>1, PipeStill DEF pipeVars
<1>4. CASE ReadFails(p)
  <2>1. harness' = harness /\ UNCHANGED <<inpipe, abandoned>> /\ deaf' \in SUBSET Procs
    BY <1>4 DEF ReadFails, PipeInv
  <2> QED BY <2>1 DEF PipeInv
<1>5. CASE TakePrompt(p)
  <2>1. /\ harness' = harness /\ UNCHANGED <<deaf, abandoned>> /\ inpipe[p] # <<>>
        /\ inpipe' = [inpipe EXCEPT ![p] = Tail(@)]
    BY <1>5 DEF TakePrompt
  <2>2. inpipe[p] \in Seq(Turns) /\ Tail(inpipe[p]) \in Seq(Turns)
    BY <2>1 DEF PipeInv
  <2>3. inpipe' \in [Procs -> Seq(Turns)]
    BY <2>1, <2>2 DEF PipeInv
  <2> QED BY <2>1, <2>3 DEF PipeInv
<1> QED BY <1>2, <1>3, <1>4, <1>5 DEF ProcStep

LEMMA PipeStop == ASSUME Inv, PipeInv, Stop \/ StopStep PROVE PipeInv'
<1>1. /\ harness \in [Procs -> Object] /\ tracked \in 0 .. spawned /\ spawned \in ProcOrNone
      /\ UNCHANGED <<inpipe, deaf>>
  <2>1. CASE Stop
    BY <2>1 DEF Inv, StateOK, Stop
  <2>2. CASE CloseEnds
    BY <2>2 DEF Inv, StateOK, CloseEnds
  <2>3. CASE DockerStops
    BY <2>3 DEF Inv, StateOK, DockerStops
  <2> QED BY <2>1, <2>2, <2>3 DEF StopStep
<1>2. CASE harness' = harness /\ abandoned' = abandoned
  BY <1>1, <1>2, PipeStill
<1>3. CASE Stop
  <2>1. CASE tracked # None
    <3>1. tracked \in Procs
      BY <1>1, <2>1, Bounds DEF ProcOrNone
    <3>2. PICK o \in Procs : o = tracked
      BY <3>1
    <3>3. CASE harness' = Detached(harness, o) /\ abandoned' = abandoned
      <4>1. \A x \in Procs : harness'[x].turn \in {None, harness[x].turn}
        BY <3>3, DetachedIs
      <4> QED BY <1>1, <3>3, <4>1, PipeStill
    <3>4. CASE harness' = Settled(Detached(harness, o), o, Notice) /\ abandoned' = Forgotten(o, Notice)
      <4>1. \A x \in Procs : harness'[x].turn \in {None, harness[x].turn}
        BY <3>4, TellDetached
      <4> QED BY <1>1, <3>4, <4>1, ForgottenLess, PipeStill
    <3> QED BY <1>2, <1>3, <3>2, <3>3, <3>4 DEF Stop
  <2>2. CASE tracked = None
    <3>1. harness' = harness /\ abandoned' = abandoned
      BY <1>3, <2>2 DEF Stop
    <3> QED BY <1>2, <3>1
  <2> QED BY <2>1, <2>2
<1>4. CASE CloseEnds
  <2>1. harness' = Settled(harness, stopper.obj, Notice) /\ abandoned' = Forgotten(stopper.obj, Notice)
    BY <1>4 DEF CloseEnds
  <2>2. \A x \in Procs : harness'[x].turn \in {None, harness[x].turn}
    BY <1>1, <2>1, SettledLess
  <2> QED BY <1>1, <2>1, <2>2, ForgottenLess, PipeStill
<1>5. CASE DockerStops
  <2>1. harness' = harness /\ abandoned' = abandoned
    BY <1>5 DEF DockerStops
  <2> QED BY <1>2, <2>1
<1> QED BY <1>3, <1>4, <1>5 DEF StopStep

LEMMA PipeStep == Inv /\ PipeInv /\ [Next]_vars => PipeInv'
<1> SUFFICES ASSUME Inv, PipeInv, [Next]_vars PROVE PipeInv'
  OBVIOUS
<1>1. CASE UNCHANGED vars
  BY <1>1 DEF vars, pipeVars, PipeInv
<1>2. ASSUME NEW t \in Turns, Ask(t) \/ TurnStep(t) \/ CutShort(t) PROVE PipeInv'
  <2>1. CASE LockGranted(t)
    <3>1. /\ turns[t].pc = "lock" /\ Waits(t) /\ Hold(t, turns[t].obj, harness)
          /\ harness \in [Procs -> Object]
      BY <2>1 DEF LockGranted, Waits, Inv, StateOK
    <3>2. turns[t].obj \in Procs
      BY <3>1, Waiter
    <3> QED BY <3>1, <3>2, PipeHold
  <2> QED BY <1>2, <2>1, PipeAsk, PipeSpawned, PipeLeave DEF TurnStep
<1>3. ASSUME NEW p \in Procs, ProcStep(p) \/ Wake(p) \/ Die(p) PROVE PipeInv'
  BY <1>3, PipeProcess
<1>4. CASE Stop \/ StopStep
  BY <1>4, PipeStop
<1> QED BY <1>1, <1>2, <1>3, <1>4 DEF Next

LEMMA PipeInit == Init => PipeInv
<1>1. <<>> \in Seq(Turns)
  OBVIOUS
<1> QED BY <1>1 DEF Init, PipeInv

THEOREM Invariance == Spec => [](Inv /\ PipeInv)
BY InitInv, InvStep, PipeInit, PipeStep, PTL DEF Spec

----------------------------------------------------------------------------
(* The theorems *)

\* The state is well formed, nothing is ever queued for a turn behind the event
\* that ends it, and an object whose turn was abandoned has no other, for any
\* number of turns, processes and stops.
THEOREM HarnessTypeOK == Spec => []TypeOK
<1>1. Inv /\ PipeInv => TypeOK
  BY DEF Inv, PipeInv, TypeOK
<1> QED BY <1>1, Invariance, PTL

\* An outstanding turn always has someone to end it (harness_process.py,
\* l.151, 171-186): its end is queued, or the process of the object is read,
\* or has a reader that waits for it to go, or a close is still to report.
THEOREM EveryTurnIsHeard == Spec => []TurnIsHeard
<1>1. Inv => TurnIsHeard
  BY DEF Inv
<1> QED BY <1>1, Invariance, PTL

\* A turn that prompts a quiet process is handed its own answer and no other
\* output (l.78-81, 199).
THEOREM CleanTurnsOwnTheirOutput == Spec => []CleanTurnOwnsItsOutput
<1>1. Inv => CleanTurnOwnsItsOutput
  BY DEF Inv
<1> QED BY <1>1, Invariance, PTL

----------------------------------------------------------------------------
(* Nobody waits for nobody *)

InPipe(pipes, t, p) == \E i \in DOMAIN pipes[p] : pipes[p][i] = t

\* A process that has a turn outstanding and is up still owes an end: it is
\* written and not read, or the process has something to answer, or the turn's
\* prompt to read.
OwesInv ==
    \A o \in Procs : harness[o].proc # None =>
        LET p == procs[harness[o].proc] IN
        /\ p.state # "none"
        /\ harness[o].turn # None /\ p.state = "up" =>
              Ends(p.out) \/ p.todo # <<>> \/ InPipe(inpipe, harness[o].turn, harness[o].proc)

\* A process that owes an end goes on owing one.
Owed(old, new) ==
    /\ old.state # "none" => new.state # "none"
    /\ new.state = "up" =>
          /\ old.state = "up"
          /\ Ends(old.out) \/ old.todo # <<>> => Ends(new.out) \/ new.todo # <<>>

\* Objects lose or keep their process and turn, and processes their debts.
LEMMA OwesLess ==
    ASSUME Inv, OwesInv, UNCHANGED inpipe,
           \A x \in Procs : /\ harness'[x].proc \in {None, harness[x].proc}
                            /\ harness'[x].turn \in {None, harness[x].turn},
           \A p \in Procs : Owed(procs[p], procs'[p])
    PROVE  OwesInv'
<1> SUFFICES ASSUME NEW x \in Procs, harness'[x].proc # None
             PROVE  LET p == procs'[harness'[x].proc] IN
                    /\ p.state # "none"
                    /\ harness'[x].turn # None /\ p.state = "up" =>
                          \/ Ends(p.out) \/ p.todo # <<>>
                          \/ InPipe(inpipe', harness'[x].turn, harness'[x].proc)
  BY DEF OwesInv, Ends, InPipe
<1>1. PICK p : p = harness[x].proc /\ harness'[x].proc = p /\ p # None
  OBVIOUS
<1>2. p \in Procs
  BY <1>1, Bounds DEF Inv, StateOK, Object, ProcOrNone
<1>3. Owed(procs[p], procs'[p])
  BY <1>2
<1>4. /\ procs[p].state # "none"
      /\ harness[x].turn # None /\ procs[p].state = "up" =>
            Ends(procs[p].out) \/ procs[p].todo # <<>> \/ InPipe(inpipe, harness[x].turn, p)
  BY <1>1 DEF OwesInv
<1>5. harness'[x].turn # None => harness'[x].turn = harness[x].turn
  OBVIOUS
<1>6. inpipe' = inpipe
  OBVIOUS
<1> QED BY <1>1, <1>3, <1>4, <1>5, <1>6 DEF Owed

\* What does not touch a process leaves it its debt, whoever reads it.
LEMMA OwedSame ==
    ASSUME NEW old, NEW new, new.state = old.state, new.out = old.out, new.todo = old.todo
    PROVE  Owed(old, new)
BY DEF Owed

\* A step that leaves all processes alone.
LEMMA OwesStill ==
    ASSUME Inv, OwesInv, UNCHANGED inpipe, procs' = procs,
           \A x \in Procs : /\ harness'[x].proc \in {None, harness[x].proc}
                            /\ harness'[x].turn \in {None, harness[x].turn}
    PROVE  OwesInv'
<1>1. \A p \in Procs : Owed(procs[p], procs'[p])
  BY OwedSame
<1> QED BY <1>1, OwesLess

\* A step that changes the reader of a process.
LEMMA OwesUnread ==
    ASSUME Inv, OwesInv, UNCHANGED inpipe, NEW q \in Procs, procs' = Unread(q),
           \A x \in Procs : /\ harness'[x].proc \in {None, harness[x].proc}
                            /\ harness'[x].turn \in {None, harness[x].turn}
    PROVE  OwesInv'
<1>1. procs \in [Procs -> Proc]
  BY DEF Inv, StateOK
<1>2. ASSUME NEW p \in Procs
      PROVE  /\ procs'[p].state = procs[p].state /\ procs'[p].out = procs[p].out
             /\ procs'[p].todo = procs[p].todo
  BY <1>1 DEF Unread, Proc
<1>3. \A p \in Procs : Owed(procs[p], procs'[p])
  BY <1>2, OwedSame
<1> QED BY <1>3, OwesLess

\* A step of one process.
LEMMA OwesOne ==
    ASSUME Inv, OwesInv, UNCHANGED inpipe, NEW q \in Procs, NEW new, procs' = [procs EXCEPT ![q] = new],
           Owed(procs[q], new),
           \A x \in Procs : /\ harness'[x].proc \in {None, harness[x].proc}
                            /\ harness'[x].turn \in {None, harness[x].turn}
    PROVE  OwesInv'
<1>1. procs \in [Procs -> Proc]
  BY DEF Inv, StateOK
<1>2. \A p \in Procs : Owed(procs[p], procs[p])
  BY OwedSame
<1>3. \A p \in Procs : Owed(procs[p], procs'[p])
  BY <1>1, <1>2
<1> QED BY <1>3, OwesLess

\* A prompt is written to the process of an object.
LEMMA OwesPrompt ==
    ASSUME Inv, PipeInv, OwesInv, NEW t \in Turns, NEW o \in Procs, NEW p \in Procs,
           NEW hs \in [Procs -> Object], hs[o].proc = p,
           \A x \in Procs \ {o} : /\ hs[x].proc = harness[x].proc /\ hs[x].turn = harness[x].turn
                                  /\ harness[x].proc # p,
           NEW ps \in [Procs -> Proc], ps[p].state \in {"up", "exited"},
           \A q \in Procs \ {p} : ps[q] = procs[q],
           Prompt(t, o, p, hs, ps)
    PROVE  OwesInv'
<1>0. harness' = [hs EXCEPT ![o].turn = t]
  BY DEF Prompt
<1>1. \/ procs' = Given(ps, p, t) /\ inpipe' = inpipe
      \/ procs' = ps /\ inpipe' = [inpipe EXCEPT ![p] = Append(@, t)]
  BY DEF Prompt
<1>2. /\ harness'[o].proc = p
      /\ \A x \in Procs \ {o} : /\ harness'[x].proc = harness[x].proc
                                /\ harness'[x].turn = harness[x].turn
      /\ harness'[o].turn = t
  BY <1>0 DEF Object
<1>3. \A q \in Procs \ {p} : procs'[q] = procs[q] /\ inpipe'[q] = inpipe[q]
  <2>1. inpipe \in [Procs -> Seq(Turns)]
    BY DEF PipeInv
  <2> QED BY <1>1, <2>1 DEF Given
<1>4. /\ procs'[p].state \in {"up", "exited"}
      /\ procs'[p].state = "up" => procs'[p].todo # <<>> \/ InPipe(inpipe', t, p)
  <2>1. CASE ps[p].state = "up" /\ procs' = Given(ps, p, t)
    <3>1. PICK job \in Job : job = [for |-> t, said |-> FALSE]
      BY DEF Job
    <3>2. PICK todo \in Seq(Job) : todo = ps[p].todo
      BY DEF Proc
    <3>n. Append(todo, job) # <<>>
      OBVIOUS
    <3>3. procs' = [ps EXCEPT ![p] = [ps[p] EXCEPT !.todo = Append(todo, job)]]
      BY <2>1, <3>1, <3>2 DEF Given
    <3>4. procs'[p] = [ps[p] EXCEPT !.todo = Append(todo, job)]
      BY <3>3
    <3> QED BY <2>1, <3>n, <3>4 DEF Proc
  <2>2. CASE ps[p].state # "up"
    BY <1>1, <2>2 DEF Given
  <2>3. CASE procs' = ps /\ inpipe' = [inpipe EXCEPT ![p] = Append(@, t)]
    <3>1. PICK pipe \in Seq(Turns) : pipe = inpipe[p]
      BY DEF PipeInv
    <3>2. inpipe'[p] = Append(pipe, t)
      BY <2>3, <3>1 DEF PipeInv
    <3>3. /\ DOMAIN Append(pipe, t) = 1 .. Len(pipe) + 1 /\ Append(pipe, t)[Len(pipe) + 1] = t
          /\ Len(pipe) + 1 \in 1 .. Len(pipe) + 1
      OBVIOUS
    <3>4. InPipe(inpipe', t, p)
      BY <3>2, <3>3 DEF InPipe
    <3> QED BY <2>3, <3>4
  <2> QED BY <1>1, <2>1, <2>2, <2>3
<1>5. ASSUME NEW x \in Procs \ {o}, harness[x].proc # None
      PROVE  harness[x].proc \in Procs \ {p}
  <2>1. harness[x] \in Object
    BY DEF Inv, StateOK
  <2>2. harness[x].proc \in ProcOrNone
    BY <2>1 DEF Object
  <2> QED BY <1>5, <2>2, Bounds DEF ProcOrNone
<1>6. ASSUME NEW x \in Procs, harness'[x].proc # None
      PROVE  LET q == procs'[harness'[x].proc] IN
             /\ q.state # "none"
             /\ harness'[x].turn # None /\ q.state = "up" =>
                   \/ Ends(q.out) \/ q.todo # <<>>
                   \/ InPipe(inpipe', harness'[x].turn, harness'[x].proc)
  <2>1. CASE x = o
    BY <1>2, <1>4, <2>1
  <2>2. CASE x # o
    <3>1. /\ harness'[x].proc = harness[x].proc /\ harness'[x].turn = harness[x].turn
          /\ harness[x].proc \in Procs \ {p} /\ procs'[harness[x].proc] = procs[harness[x].proc]
          /\ inpipe'[harness[x].proc] = inpipe[harness[x].proc]
      BY <1>2, <1>3, <1>5, <1>6, <2>2
    <3> QED BY <3>1, <1>6 DEF OwesInv, InPipe
  <2> QED BY <2>1, <2>2
<1> QED BY <1>6 DEF OwesInv, Ends, InPipe

\* The holder of the lock goes on, or finds its process gone.
LEMMA OwesHold ==
    ASSUME Inv, PipeInv, OwesInv, NEW t \in Turns, NEW o \in Procs, NEW hs \in [Procs -> Object],
           \A x \in Procs : hs[x].proc = harness[x].proc /\ hs[x].turn = harness[x].turn,
           Hold(t, o, hs)
    PROVE  OwesInv'
<1>1. PICK p \in ProcOrNone : p = hs[o].proc
  BY DEF Object
<1>2. CASE harness' = hs /\ procs' = procs /\ UNCHANGED pipeVars
  BY <1>2, OwesStill DEF pipeVars
<1>3. CASE p # None /\ procs[p].state \in {"up", "exited"} /\ Prompt(t, o, p, hs, procs)
  <2>1. p \in Procs
    BY <1>3, Bounds DEF ProcOrNone
  <2>2. \A x \in Procs \ {o} : harness[x].proc # p
    BY <1>1, <1>3 DEF Inv, ReaderInv
  <2>3. procs \in [Procs -> Proc]
    BY DEF Inv, StateOK
  <2> QED BY <1>1, <1>3, <2>1, <2>2, <2>3, OwesPrompt
<1>4. CASE Fail(t, o, hs)
  <2>1. procs' = procs /\ harness' = [hs EXCEPT ![o].lock = Tail(@)] /\ inpipe' = inpipe
    BY <1>4 DEF Fail, pipeVars
  <2>2. \A x \in Procs : harness'[x].proc = harness[x].proc /\ harness'[x].turn = harness[x].turn
    BY <2>1 DEF Object
  <2> QED BY <2>1, <2>2, OwesStill
<1> QED BY <1>1, <1>2, <1>3, <1>4 DEF Hold

\* A turn is asked for.
LEMMA OwesAsk == ASSUME Inv, PipeInv, OwesInv, NEW t \in Turns, Ask(t) PROVE OwesInv'
<1>1. harness \in [Procs -> Object] /\ tracked \in 0 .. spawned /\ spawned \in ProcOrNone
  BY DEF Inv, StateOK
<1>2. tracked # None => tracked \in Procs
  BY <1>1, Bounds DEF ProcOrNone
<1>3. CASE tracked # None /\ Alive(tracked)
  <2>1. PICK hs : hs = [harness EXCEPT ![tracked].lock = Append(@, t)]
    OBVIOUS
  <2>2. /\ \A x \in Procs : hs[x].proc = harness[x].proc /\ hs[x].turn = harness[x].turn
        /\ hs \in [Procs -> Object]
    <3>1. harness[tracked] \in Object /\ Append(harness[tracked].lock, t) \in Seq(Turns)
      BY <1>1, <1>2, <1>3 DEF Object
    <3> QED BY <1>1, <1>2, <1>3, <2>1, <3>1 DEF Object
  <2>3. Hold(t, tracked, hs) \/ (harness' = hs /\ procs' = procs /\ inpipe' = inpipe)
    BY <1>3, <2>1 DEF Ask, pipeVars
  <2> QED BY <1>2, <1>3, <2>2, <2>3, OwesHold, OwesStill
<1>4. CASE tracked # None /\ ~Alive(tracked)
  <2>0. inpipe' = inpipe
    BY <1>4 DEF Ask
  <2>1. CASE harness' = harness /\ procs' = procs
    BY <2>0, <2>1, OwesStill
  <2>2. CASE /\ harness[tracked].proc # None
             /\ harness' = Settled(Detached(harness, tracked), tracked, Notice)
             /\ procs' = Unread(harness[tracked].proc)
    <3>1. PICK q \in Procs : q = harness[tracked].proc
      BY <1>1, <1>2, <1>4, <2>2, Bounds DEF Object, ProcOrNone
    <3>2. \A x \in Procs : /\ harness'[x].proc \in {None, harness[x].proc}
                           /\ harness'[x].turn \in {None, harness[x].turn}
      BY <1>2, <1>4, <2>2, TellDetached
    <3> QED BY <2>0, <2>2, <3>1, <3>2, OwesUnread
  <2> QED BY <1>4, <2>1, <2>2 DEF Ask
<1>5. CASE tracked = None
  <2>1. harness' = harness /\ procs' = procs /\ inpipe' = inpipe
    BY <1>5 DEF Ask, pipeVars
  <2> QED BY <2>1, OwesStill
<1> QED BY <1>3, <1>4, <1>5

\* A turn is given its process, or none.
LEMMA OwesSpawned ==
    ASSUME Inv, PipeInv, OwesInv, NEW t \in Turns, Spawned(t) \/ Started(t) PROVE OwesInv'
<1>1. /\ harness \in [Procs -> Object] /\ procs \in [Procs -> Proc]
      /\ spawned \in 0 .. MaxProcs /\ spawned < MaxProcs
  BY DEF Inv, StateOK, ProcOrNone, Spawned, Started
<1>2. PICK p \in Procs : p = spawned + 1
  BY <1>1, Bounds
<1>3. \A x \in Procs : harness[x].proc # p
  <2>1. \A x \in Procs : harness[x].proc # None => harness[x].proc <= spawned
    BY DEF Inv, ReaderInv
  <2>2. ~(p <= spawned) /\ p # None
    BY <1>1, <1>2, Bounds
  <2> QED BY <2>1, <2>2
<1>4. PICK o \in Procs, ob \in Object :
          /\ ob.proc = p
          /\ Prompt(t, o, p, [harness EXCEPT ![o] = ob], [procs EXCEPT ![p] = NewProc(o)])
  <2>1. CASE Spawned(t)
    <3>1. PICK ob : ob = [proc |-> p, turn |-> None, lock |-> <<t>>]
      OBVIOUS
    <3>2. <<t>> \in Seq(Turns) /\ p \in ProcOrNone
      BY Bounds DEF ProcOrNone
    <3>3. ob \in Object /\ ob.proc = p
      BY <3>1, <3>2 DEF Object
    <3> QED BY <1>2, <2>1, <3>1, <3>3 DEF Spawned
  <2>2. CASE Started(t)
    <3>1. turns[t].pc = "starting" /\ Waits(t)
      BY <2>2 DEF Started, Waits
    <3>2. PICK o \in Procs : o = turns[t].obj
      BY <3>1, Waiter
    <3>3. PICK ob : ob = [harness[o] EXCEPT !.proc = p]
      OBVIOUS
    <3>4. ob \in Object /\ ob.proc = p
      <4>1. harness[o] \in Object /\ p \in ProcOrNone
        BY <1>1, Bounds DEF ProcOrNone
      <4> QED BY <3>3, <4>1 DEF Object
    <3>5. [harness EXCEPT ![o].proc = p] = [harness EXCEPT ![o] = ob]
      BY <1>1, <3>3
    <3>6. Prompt(t, o, p, [harness EXCEPT ![o].proc = p], [procs EXCEPT ![p] = NewProc(o)])
      BY <1>2, <2>2, <3>2 DEF Started
    <3>7. Prompt(t, o, p, [harness EXCEPT ![o] = ob], [procs EXCEPT ![p] = NewProc(o)])
      BY <3>5, <3>6
    <3> QED BY <3>4, <3>7
  <2> QED BY <2>1, <2>2
<1>5. NewProc(o) \in Proc /\ NewProc(o).state = "up"
  BY NewProcIs
<1>6. PICK hs, ps : hs = [harness EXCEPT ![o] = ob] /\ ps = [procs EXCEPT ![p] = NewProc(o)]
  OBVIOUS
<1>7. /\ hs \in [Procs -> Object] /\ hs[o].proc = p
      /\ \A x \in Procs \ {o} : hs[x].proc = harness[x].proc /\ hs[x].turn = harness[x].turn
  BY <1>1, <1>4, <1>6
<1>8. /\ ps \in [Procs -> Proc] /\ ps[p].state \in {"up", "exited"}
      /\ \A q \in Procs \ {p} : ps[q] = procs[q]
  BY <1>1, <1>5, <1>6
<1>9. Prompt(t, o, p, hs, ps)
  BY <1>4, <1>6
<1> QED BY <1>3, <1>7, <1>8, <1>9, OwesPrompt

\* A turn ends, is cut short, or takes an event.
LEMMA OwesLeave ==
    ASSUME Inv, OwesInv, NEW t \in Turns,
           SpawnFails(t) \/ TakeEvent(t) \/ DrainFails(t) \/ CutShort(t)
    PROVE  OwesInv'
<1>1. harness \in [Procs -> Object] /\ procs' = procs /\ inpipe' = inpipe
  BY DEF Inv, StateOK, SpawnFails, TakeEvent, CutShort, DrainFails, Fail, pipeVars
<1>2. CASE TakeEvent(t)
  <2>1. PICK o, l : harness' = harness \/ harness' = [harness EXCEPT ![o].turn = None, ![o].lock = l]
    BY <1>2 DEF TakeEvent
  <2>2. CASE harness' = harness
    BY <1>1, <2>2, OwesStill
  <2>3. CASE harness' = [harness EXCEPT ![o].turn = None, ![o].lock = l]
    <3>1. CASE o \notin Procs
      <4>1. harness' = harness
        BY <1>1, <2>3, <3>1
      <4> QED BY <2>2, <4>1
    <3>2. CASE o \in Procs
      <4>1. PICK next : next = [harness[o] EXCEPT !.turn = None, !.lock = l]
        OBVIOUS
      <4>2. harness[o] \in Object
        BY <1>1, <3>2
      <4>3. next.proc = harness[o].proc /\ next.turn = None
        BY <4>1, <4>2 DEF Object
      <4>4. harness' = [harness EXCEPT ![o] = next]
        BY <1>1, <2>3, <3>2, <4>1
      <4>5. \A x \in Procs : /\ harness'[x].proc \in {None, harness[x].proc}
                             /\ harness'[x].turn \in {None, harness[x].turn}
        BY <1>1, <4>3, <4>4
      <4> QED BY <1>1, <4>5, OwesStill
    <3> QED BY <3>1, <3>2
  <2> QED BY <2>1, <2>2, <2>3
<1>3. CASE SpawnFails(t)
  <2>1. PICK o, l : harness' = harness \/ harness' = [harness EXCEPT ![o].lock = l]
    BY <1>3 DEF SpawnFails
  <2>2. CASE harness' = harness
    <3>1. \A x \in Procs : /\ harness'[x].proc \in {None, harness[x].proc}
                           /\ harness'[x].turn \in {None, harness[x].turn}
      BY <2>2
    <3> QED BY <1>1, <3>1, OwesStill
  <2>3. CASE harness' = [harness EXCEPT ![o].lock = l]
    <3>1. \A x \in Procs : harness[x] \in Object
      BY <1>1
    <3>2. \A x \in Procs : harness'[x].proc = harness[x].proc /\ harness'[x].turn = harness[x].turn
      BY <1>1, <2>3, <3>1 DEF Object
    <3>3. \A x \in Procs : /\ harness'[x].proc \in {None, harness[x].proc}
                           /\ harness'[x].turn \in {None, harness[x].turn}
      BY <3>2
    <3> QED BY <1>1, <3>3, OwesStill
  <2> QED BY <2>1, <2>2, <2>3
<1>4. CASE CutShort(t)
  <2>1. PICK o : o = turns[t].obj
    OBVIOUS
  <2>2. \/ harness' = harness
        \/ harness' = [harness EXCEPT ![o].lock = Without(@, t),
                                     ![o].turn = IF turns[t].pc = "active" THEN None ELSE @]
    BY <1>4, <2>1 DEF CutShort
  <2>3. \A x \in Procs : /\ harness'[x].proc \in {None, harness[x].proc}
                         /\ harness'[x].turn \in {None, harness[x].turn}
    BY <1>1, <2>2 DEF Object
  <2> QED BY <1>1, <2>3, OwesStill
<1>5. CASE DrainFails(t)
  <2>1. PICK o : o = turns[t].obj
    OBVIOUS
  <2>2. harness' = [[harness EXCEPT ![o].turn = None] EXCEPT ![o].lock = Tail(@)]
    BY <1>5, <2>1 DEF DrainFails, Fail
  <2>3. \A x \in Procs : harness'[x].turn \in {None, harness[x].turn}
    BY <1>1, <2>2 DEF Object
  <2>4. \A x \in Procs : harness'[x].proc \in {None, harness[x].proc}
    BY <1>1, <2>2 DEF Object
  <2> QED BY <1>1, <2>3, <2>4, OwesStill
<1> QED BY <1>2, <1>3, <1>4, <1>5

\* An event is read: the end of a turn takes the turn off the object.
LEMMA OwesRead == ASSUME Inv, OwesInv, NEW p \in Procs, Read(p) PROVE OwesInv'
<1>1. /\ procs \in [Procs -> Proc] /\ harness \in [Procs -> Object]
      /\ procs[p].reader /\ procs[p].out # <<>> /\ procs[p].out \in Seq(Event)
  BY DEF Inv, StateOK, Read, Proc
<1>2. PICK o : o = procs[p].owner
  OBVIOUS
<1>3. o \in Procs /\ \A x \in Procs : harness[x].proc = p => x = o
  <2>1. o # None /\ \A x \in Procs : harness[x].proc # None => procs[harness[x].proc].owner = x
    BY <1>1, <1>2 DEF Inv, ReaderInv
  <2>2. o \in ProcOrNone /\ p # None
    BY <1>1, <1>2, Bounds DEF Proc
  <2> QED BY <1>2, <2>1, <2>2, Bounds DEF ProcOrNone
<1>4. PICK e \in Event : e = Head(procs[p].out)
  BY <1>1
<1>5. /\ procs' = [procs EXCEPT ![p].out = Tail(@)] /\ harness' = Settled(harness, o, e)
      /\ inpipe' = inpipe
  BY <1>2, <1>4 DEF Read
<1>6. /\ \A x \in Procs : harness'[x].proc = harness[x].proc
      /\ \A x \in Procs : harness'[x].turn = IF x = o /\ e.last THEN None ELSE harness[x].turn
  BY <1>1, <1>3, <1>5 DEF Settled, Object
<1>7. PICK new : new = [procs[p] EXCEPT !.out = Tail(procs[p].out)]
  OBVIOUS
<1>8. /\ procs' = [procs EXCEPT ![p] = new]
      /\ new.state = procs[p].state /\ new.todo = procs[p].todo /\ new.out = Tail(procs[p].out)
  <2>1. procs[p] \in Proc
    BY <1>1
  <2> QED BY <1>1, <1>5, <1>7, <2>1 DEF Proc
<1>9. CASE e.last
  <2> SUFFICES ASSUME NEW x \in Procs, harness[x].proc # None
               PROVE  LET q == procs'[harness[x].proc] IN
                      /\ q.state # "none"
                      /\ harness'[x].turn # None /\ q.state = "up" =>
                            \/ Ends(q.out) \/ q.todo # <<>>
                            \/ InPipe(inpipe, harness'[x].turn, harness[x].proc)
    BY <1>5, <1>6 DEF OwesInv, Ends, InPipe
  <2>1. PICK q \in Procs : q = harness[x].proc
    BY <1>1, Bounds DEF Object, ProcOrNone
  <2>2. procs'[q].state = procs[q].state
    BY <1>1, <1>8, <2>1
  <2>3. procs[q].state # "none"
    BY <2>1 DEF OwesInv
  <2>4. CASE x = o
    BY <1>6, <1>9, <2>1, <2>2, <2>3, <2>4
  <2>5. CASE x # o
    <3>1. q # p
      BY <1>3, <2>1, <2>5
    <3>2. procs'[q] = procs[q] /\ harness'[x].turn = harness[x].turn
      BY <1>1, <1>6, <1>8, <2>5, <3>1
    <3> QED BY <2>1, <3>2 DEF OwesInv
  <2> QED BY <2>4, <2>5
<1>10. CASE ~e.last
  <2>1. Ends(procs[p].out) => Ends(new.out)
    <3>1. PICK out \in Seq(Event) : out = procs[p].out /\ out # <<>> /\ Head(out) = e
      BY <1>1, <1>4
    <3>2. /\ Len(out) \in Nat \ {0} /\ DOMAIN out = 1 .. Len(out) /\ Head(out) = out[1]
          /\ DOMAIN Tail(out) = 1 .. Len(out) - 1
          /\ \A i \in 1 .. Len(out) - 1 : Tail(out)[i] = out[i + 1]
      BY <3>1
    <3>3. ASSUME NEW i \in 1 .. Len(out), out[i].last PROVE Ends(Tail(out))
      <4>1. i # 1
        BY <1>10, <3>1, <3>2, <3>3
      <4>2. i - 1 \in 1 .. Len(out) - 1 /\ Tail(out)[i - 1] = out[i]
        BY <3>2, <4>1
      <4> QED BY <3>2, <3>3, <4>2 DEF Ends
    <3> QED BY <1>8, <3>1, <3>2, <3>3 DEF Ends
  <2>2. Owed(procs[p], new)
    BY <1>8, <2>1 DEF Owed
  <2>3. \A x \in Procs : harness'[x].proc = harness[x].proc /\ harness'[x].turn = harness[x].turn
    BY <1>6, <1>10
  <2> QED BY <1>5, <1>8, <2>2, <2>3, OwesOne
<1> QED BY <1>9, <1>10

\* The reader ends, and says so.
LEMMA OwesReadEnd == ASSUME Inv, OwesInv, NEW p \in Procs, ReadEnd(p) PROVE OwesInv'
<1>1. procs \in [Procs -> Proc] /\ harness \in [Procs -> Object]
  BY DEF Inv, StateOK
<1>2. PICK o : o = procs[p].owner
  OBVIOUS
<1>3. procs' = Unread(p) /\ harness' = Settled(harness, o, Notice) /\ inpipe' = inpipe
  BY <1>2 DEF ReadEnd
<1>4. \A x \in Procs : harness'[x].proc = harness[x].proc
                       /\ harness'[x].turn \in {None, harness[x].turn}
  BY <1>1, <1>3 DEF Settled, Object
<1> QED BY <1>3, <1>4, OwesUnread

LEMMA AppendNotEmpty ==
    ASSUME NEW S, NEW seq \in Seq(S), NEW e \in S
    PROVE  Append(seq, e) # <<>>
<1>1. Len(Append(seq, e)) = Len(seq) + 1 /\ Len(seq) \in Nat
  OBVIOUS
<1>2. Len(<<>>) = 0
  OBVIOUS
<1> QED BY <1>1, <1>2

\* The harness answers, wakes up or goes.
LEMMA OwesProcess ==
    ASSUME Inv, OwesInv, NEW p \in Procs, Answer(p) \/ Wake(p) \/ Die(p) \/ Reap(p)
    PROVE  OwesInv'
<1>1. /\ procs \in [Procs -> Proc] /\ procs[p] \in Proc /\ harness' = harness
      /\ procs[p].out \in Seq(Event) /\ procs[p].todo \in Seq(Job) /\ inpipe' = inpipe
  BY DEF Inv, StateOK, Proc, Answer, Wake, Die, Reap, pipeVars
<1>2. CASE Die(p) \/ Reap(p)
  <2>1. PICK new : /\ new = [procs[p] EXCEPT !.state = "exited", !.todo = <<>>]
                      \/ new = [procs[p] EXCEPT !.state = "reaped"]
                   /\ procs' = [procs EXCEPT ![p] = new]
    BY <1>1, <1>2 DEF Die, Reap
  <2>2. new.state \in {"exited", "reaped"}
    BY <1>1, <2>1 DEF Proc
  <2>3. Owed(procs[p], new)
    BY <2>2 DEF Owed
  <2> QED BY <1>1, <2>1, <2>3, OwesOne
<1>3. CASE Wake(p)
  <2>1. PICK job \in Job : job = [for |-> "wake", said |-> FALSE]
    BY DEF Job
  <2>2. PICK new : /\ new = [procs[p] EXCEPT !.todo = Append(procs[p].todo, job)]
                   /\ procs' = [procs EXCEPT ![p] = new]
    BY <1>1, <1>3, <2>1 DEF Wake
  <2>3. new.state = procs[p].state /\ new.todo = Append(procs[p].todo, job)
    BY <1>1, <2>2 DEF Proc
  <2>4. new.todo # <<>>
    <3>1. PICK todo \in Seq(Job) : todo = procs[p].todo
      BY <1>1
    <3>2. Append(todo, job) # <<>>
      BY AppendNotEmpty
    <3> QED BY <2>3, <3>1, <3>2
  <2>5. Owed(procs[p], new)
    BY <2>3, <2>4 DEF Owed
  <2> QED BY <1>1, <2>2, <2>5, OwesOne
<1>4. CASE Answer(p)
  <2>0. procs[p].todo # <<>>
    BY <1>4 DEF Answer
  <2>1. PICK job \in Job : job = Head(procs[p].todo) /\ procs[p].todo # <<>>
    BY <1>1, <2>0
  <2>2. CASE procs' = [procs EXCEPT ![p].todo = Tail(@),
                                    ![p].out = Append(@, [for |-> job.for, last |-> TRUE])]
    <3>1. PICK e \in Event : e = [for |-> job.for, last |-> TRUE] /\ e.last
      <4>1. [for |-> job.for, last |-> TRUE] \in Event
        BY DEF Event, Job
      <4> QED BY <4>1
    <3>2. PICK new : new = [procs[p] EXCEPT !.todo = Tail(procs[p].todo),
                                            !.out = Append(procs[p].out, e)]
      OBVIOUS
    <3>3. procs' = [procs EXCEPT ![p] = new]
      BY <1>1, <2>2, <3>1, <3>2
    <3>4. new.state = procs[p].state /\ new.out = Append(procs[p].out, e)
      BY <1>1, <3>2 DEF Proc
    <3>5. Ends(new.out)
      <4>1. /\ Len(procs[p].out) + 1 \in DOMAIN new.out
            /\ new.out[Len(procs[p].out) + 1] = e
        BY <1>1, <3>4
      <4> QED BY <3>1, <4>1 DEF Ends
    <3>6. Owed(procs[p], new)
      BY <3>4, <3>5 DEF Owed
    <3> QED BY <1>1, <3>3, <3>6, OwesOne
  <2>3. CASE procs' = [procs EXCEPT ![p].todo[1].said = TRUE,
                                    ![p].out = Append(@, [for |-> job.for, last |-> FALSE])]
    <3>1. PICK e : e = [for |-> job.for, last |-> FALSE]
      OBVIOUS
    <3>2. PICK todo : todo = [procs[p].todo EXCEPT ![1].said = TRUE]
      OBVIOUS
    <3>3. PICK new : new = [procs[p] EXCEPT !.todo = todo, !.out = Append(procs[p].out, e)]
      OBVIOUS
    <3>4. procs' = [procs EXCEPT ![p] = new]
      BY <1>1, <2>3, <3>1, <3>2, <3>3
    <3>5. new.state = procs[p].state /\ new.todo = todo
      BY <1>1, <3>3 DEF Proc
    <3>6. todo # <<>>
      <4>1. DOMAIN todo = DOMAIN procs[p].todo
        BY <3>2
      <4>2. 1 \in DOMAIN procs[p].todo
        BY <1>1, <2>1
      <4>3. DOMAIN <<>> = {}
        OBVIOUS
      <4> QED BY <4>1, <4>2, <4>3
    <3>7. procs[p].state = "up"
      BY <1>4 DEF Answer
    <3>8. Owed(procs[p], new)
      BY <3>5, <3>6, <3>7 DEF Owed
    <3> QED BY <1>1, <3>4, <3>8, OwesOne
  <2> QED BY <1>4, <2>1, <2>2, <2>3 DEF Answer
<1> QED BY <1>2, <1>3, <1>4

\* A prompt that is read is something to answer; a reader that fails changes
\* no debt.
LEMMA OwesPipe ==
    ASSUME Inv, PipeInv, OwesInv, NEW p \in Procs, TakePrompt(p) \/ ReadFails(p)
    PROVE  OwesInv'
<1>1. CASE ReadFails(p)
  <2>1. harness' = harness /\ procs' = procs /\ inpipe' = inpipe
    BY <1>1 DEF ReadFails
  <2> QED BY <2>1, OwesStill
<1>2. CASE TakePrompt(p)
  <2>1. /\ inpipe[p] # <<>> /\ procs[p].state = "up" /\ procs' = Given(procs, p, Head(inpipe[p]))
        /\ harness' = harness /\ inpipe' = [inpipe EXCEPT ![p] = Tail(@)]
    BY <1>2 DEF TakePrompt
  <2>2. procs \in [Procs -> Proc] /\ inpipe \in [Procs -> Seq(Turns)]
    BY DEF Inv, StateOK, PipeInv
  <2>3. PICK t \in Turns : t = Head(inpipe[p])
    BY <2>1, <2>2
  <2>4. PICK job \in Job : job = [for |-> t, said |-> FALSE]
    BY DEF Job
  <2>5. PICK todo \in Seq(Job) : todo = procs[p].todo
    BY <2>2 DEF Proc
  <2>6. procs' = [procs EXCEPT ![p] = [procs[p] EXCEPT !.todo = Append(todo, job)]]
    BY <2>1, <2>3, <2>4, <2>5 DEF Given
  <2>7. Append(todo, job) # <<>>
    BY AppendNotEmpty
  <2>8. procs'[p].state = "up" /\ procs'[p].todo # <<>>
    <3>1. procs'[p] = [procs[p] EXCEPT !.todo = Append(todo, job)] /\ procs[p] \in Proc
      BY <2>2, <2>6
    <3> QED BY <2>1, <2>7, <3>1 DEF Proc
  <2>9. \A q \in Procs \ {p} : procs'[q] = procs[q] /\ inpipe'[q] = inpipe[q]
    BY <2>1, <2>2, <2>6
  <2>10. ASSUME NEW x \in Procs, harness[x].proc # None
         PROVE  LET q == procs'[harness[x].proc] IN
                /\ q.state # "none"
                /\ harness[x].turn # None /\ q.state = "up" =>
                      \/ Ends(q.out) \/ q.todo # <<>>
                      \/ InPipe(inpipe', harness[x].turn, harness[x].proc)
    <3>1. PICK q \in Procs : q = harness[x].proc
      <4>1. harness[x] \in Object
        BY DEF Inv, StateOK
      <4> QED BY <2>10, <4>1, Bounds DEF Object, ProcOrNone
    <3>2. CASE q = p
      BY <2>8, <3>1, <3>2
    <3>3. CASE q # p
      <4>1. procs'[q] = procs[q] /\ inpipe'[q] = inpipe[q]
        BY <2>9, <3>3
      <4>2. /\ procs[q].state # "none"
            /\ harness[x].turn # None /\ procs[q].state = "up" =>
                  Ends(procs[q].out) \/ procs[q].todo # <<>> \/ InPipe(inpipe, harness[x].turn, q)
        BY <2>10, <3>1 DEF OwesInv
      <4> QED BY <3>1, <4>1, <4>2 DEF InPipe
    <3> QED BY <3>2, <3>3
  <2>11. harness' = harness
    BY <2>1
  <2>12. ASSUME NEW x \in Procs, harness'[x].proc # None
         PROVE  LET q == procs'[harness'[x].proc] IN
                /\ q.state # "none"
                /\ harness'[x].turn # None /\ q.state = "up" =>
                      \/ Ends(q.out) \/ q.todo # <<>>
                      \/ InPipe(inpipe', harness'[x].turn, harness'[x].proc)
    <3>1. PICK h : h = harness /\ h = harness'
      BY <2>11
    <3>2. h[x].proc # None
      BY <2>12, <3>1
    <3> QED BY <2>10, <3>1, <3>2
  <2> QED BY <2>12 DEF OwesInv, Ends, InPipe
<1> QED BY <1>1, <1>2

\* A stop closes the harness, and docker what is left.
LEMMA OwesStop == ASSUME Inv, OwesInv, Stop \/ StopStep PROVE OwesInv'
<1>1. /\ procs \in [Procs -> Proc] /\ harness \in [Procs -> Object]
      /\ tracked \in 0 .. spawned /\ spawned \in ProcOrNone /\ stopper \in Stopper
  BY DEF Inv, StateOK
<1>p. inpipe' = inpipe
  <2>1. CASE Stop
    BY <2>1 DEF Stop
  <2>2. CASE CloseEnds
    BY <2>2 DEF CloseEnds
  <2>3. CASE DockerStops
    BY <2>3 DEF DockerStops
  <2> QED BY <2>1, <2>2, <2>3 DEF StopStep
<1>2. CASE Stop
  <2>1. CASE harness' = harness /\ procs' = procs
    BY <1>p, <2>1, OwesStill
  <2>2. CASE ~(harness' = harness /\ procs' = procs)
    <3>1. PICK o, p : /\ o = tracked /\ p = (IF o = None THEN None ELSE harness[o].proc)
                      /\ p # None /\ procs' = Unread(p)
                      /\ \/ harness' = Settled(Detached(harness, o), o, Notice)
                         \/ harness' = Detached(harness, o)
      BY <1>2, <2>2 DEF Stop
    <3>2. o \in Procs
      BY <1>1, <3>1, Bounds DEF ProcOrNone
    <3>3. p \in Procs
      BY <1>1, <3>1, <3>2, Bounds DEF Object, ProcOrNone
    <3>4. \A x \in Procs : /\ harness'[x].proc \in {None, harness[x].proc}
                           /\ harness'[x].turn \in {None, harness[x].turn}
      BY <3>1, <3>2, TellDetached, DetachedIs
    <3> QED BY <1>p, <3>1, <3>3, <3>4, OwesUnread
  <2> QED BY <2>1, <2>2
<1>3. CASE CloseEnds
  <2>1. PICK o, p : o = stopper.obj /\ p = stopper.proc
    OBVIOUS
  <2>2. /\ procs' = [procs EXCEPT ![p].state = "reaped", ![p].todo = <<>>]
        /\ harness' = Settled(harness, o, Notice)
    BY <1>3, <2>1 DEF CloseEnds
  <2>3. \A x \in Procs : harness'[x].proc = harness[x].proc
                         /\ harness'[x].turn \in {None, harness[x].turn}
    BY <1>1, <2>2 DEF Settled, Object
  <2>4. CASE p \in Procs
    <3>1. PICK new : new = [procs[p] EXCEPT !.state = "reaped", !.todo = <<>>]
      OBVIOUS
    <3>2. procs' = [procs EXCEPT ![p] = new] /\ new.state = "reaped"
      BY <1>1, <2>2, <2>4, <3>1 DEF Proc
    <3>3. Owed(procs[p], new)
      BY <3>2 DEF Owed
    <3> QED BY <1>p, <2>3, <2>4, <3>2, <3>3, OwesOne
  <2>5. CASE p \notin Procs
    <3>1. procs' = procs
      BY <1>1, <2>2, <2>5
    <3> QED BY <1>p, <2>3, <3>1, OwesStill
  <2> QED BY <2>4, <2>5
<1>4. CASE DockerStops
  <2>1. ASSUME NEW p \in Procs PROVE Owed(procs[p], procs'[p])
    <3>1. \/ procs'[p] = [procs[p] EXCEPT !.state = "exited", !.todo = <<>>]
          \/ procs'[p] = procs[p]
      BY <1>4 DEF DockerStops
    <3>2. procs'[p] = procs[p] \/ procs'[p].state = "exited"
      BY <1>1, <3>1 DEF Proc
    <3> QED BY <3>2 DEF Owed
  <2>2. harness' = harness
    BY <1>4 DEF DockerStops
  <2> QED BY <1>p, <2>1, <2>2, OwesLess
<1> QED BY <1>2, <1>3, <1>4 DEF StopStep

\* No process owes anything at first, and each step keeps its debts.
LEMMA OwesInvariance == Spec => [](Inv /\ OwesInv)
<1>1. Init => OwesInv
  BY DEF Init, OwesInv, NoObject
<1>2. Inv /\ PipeInv /\ OwesInv /\ [Next]_vars => OwesInv'
  <2> SUFFICES ASSUME Inv, PipeInv, OwesInv, [Next]_vars PROVE OwesInv'
    OBVIOUS
  <2>1. CASE UNCHANGED vars
    <3>1. harness' = harness /\ procs' = procs /\ inpipe' = inpipe
      BY <2>1 DEF vars, pipeVars
    <3> QED BY <3>1, OwesStill
  <2>2. ASSUME NEW t \in Turns, Ask(t) \/ TurnStep(t) \/ CutShort(t) PROVE OwesInv'
    <3>1. CASE LockGranted(t)
      <4>1. /\ turns[t].pc = "lock" /\ Waits(t) /\ Hold(t, turns[t].obj, harness)
            /\ harness \in [Procs -> Object]
        BY <3>1 DEF LockGranted, Waits, Inv, StateOK
      <4>2. turns[t].obj \in Procs
        BY <4>1, Waiter
      <4> QED BY <4>1, <4>2, OwesHold
    <3> QED BY <2>2, <3>1, OwesAsk, OwesSpawned, OwesLeave DEF TurnStep
  <2>3. ASSUME NEW p \in Procs, ProcStep(p) \/ Wake(p) \/ Die(p) PROVE OwesInv'
    BY <2>3, OwesRead, OwesReadEnd, OwesProcess, OwesPipe DEF ProcStep
  <2>4. CASE Stop \/ StopStep
    BY <2>4, OwesStop
  <2> QED BY <2>1, <2>2, <2>3, <2>4 DEF Next
<1> QED BY <1>1, <1>2, Invariance, PTL DEF Spec

\* A turn the event loop can resume: its process is spawned or cannot be, the
\* lock is its, an event is in its queue, or the pipe of its prompt is broken.
TurnReady(t) ==
    \/ turns[t].pc \in {"spawning", "starting"}
    \/ turns[t].pc = "lock" /\ Head(harness[turns[t].obj].lock) = t
    \/ turns[t].pc = "active" /\ ~Draining(t) /\ turns[t].queue # <<>>
    \/ turns[t].pc = "active" /\ \E p \in Procs : procs[p].state # "up" /\ InPipe(inpipe, t, p)

\* A process that has written something that is read, or that is gone and will
\* be known to be.
ProcReady(p) ==
    \/ procs[p].reader /\ ((procs[p].out # <<>> /\ p \notin deaf) \/ procs[p].state = "reaped")
    \/ procs[p].state = "exited"

\* Something goes on that t waits for, whatever the harness does.
Served(t) ==
    \/ TurnReady(t)
    \/ /\ turns[t].pc = "active"
       /\ LET o == turns[t].obj IN
          \/ harness[o].proc # None /\ ProcReady(harness[o].proc)
          \/ stopper.pc = "closing" /\ stopper.obj = o

\* What the ceiling is for: a harness that is up has not read t's prompt, or
\* has something to answer, or is read no more.
LeftToHarness(t) ==
    /\ turns[t].pc = "active"
    /\ \/ \E p \in Procs : procs[p].state = "up" /\ InPipe(inpipe, t, p)
       \/ LET p == harness[turns[t].obj].proc IN
          /\ p # None
          /\ procs[p].state = "up"
          /\ procs[p].todo # <<>> \/ p \in deaf

\* The one that holds the lock is served, or left to the harness, where the turn
\* that waits for it is not.
NoTurnStalls ==
    \A t \in Turns : turns[t].pc \notin {"new", "done"} =>
        \/ Served(t) \/ LeftToHarness(t)
        \/ /\ turns[t].pc = "lock"
           /\ LET h == Head(harness[turns[t].obj].lock) IN Served(h) \/ LeftToHarness(h)

\* Past the wait for the lock, a turn is served or left to the harness.
LEMMA HolderServed ==
    ASSUME Inv, OwesInv, NEW t \in Turns, turns[t].pc \in {"spawning", "starting", "active"}
    PROVE  Served(t) \/ LeftToHarness(t)
<1>1. CASE turns[t].pc \in {"spawning", "starting"}
  BY <1>1 DEF Served, TurnReady
<1>2. CASE turns[t].pc = "active"
  <2>1. PICK o : o = turns[t].obj
    OBVIOUS
  <2>2. o \in Procs
    BY <1>2, <2>1, Waiter DEF Waits
  <2>3. \/ \E i \in DOMAIN turns[t].queue : turns[t].queue[i].last
        \/ /\ harness[o].turn = t
           /\ \/ harness[o].proc # None /\ procs[harness[o].proc].reader
              \/ stopper.pc = "closing" /\ stopper.obj = o
    BY <1>2, <2>1 DEF Inv, TurnIsHeard
  <2>d. CASE Draining(t)
    <3>1. PICK p \in Procs : InPipe(inpipe, t, p)
      BY <2>d DEF Draining, InPipe
    <3> QED BY <1>2, <3>1 DEF Served, TurnReady, LeftToHarness
  <2>4. CASE ~Draining(t) /\ \E i \in DOMAIN turns[t].queue : turns[t].queue[i].last
    <3>1. turns[t].queue # <<>>
      BY <2>4
    <3> QED BY <1>2, <2>4, <3>1 DEF Served, TurnReady
  <2>5. CASE stopper.pc = "closing" /\ stopper.obj = o
    BY <1>2, <2>1, <2>5 DEF Served
  <2>6. CASE /\ ~Draining(t)
             /\ harness[o].turn = t /\ harness[o].proc # None /\ procs[harness[o].proc].reader
    <3>1. PICK p : p = harness[o].proc
      OBVIOUS
    <3>2. harness[o] \in Object
      BY <2>2 DEF Inv, StateOK
    <3>3. p \in Procs
      BY <2>6, <3>1, <3>2, Bounds DEF Object, ProcOrNone
    <3>4. procs[p] \in Proc
      BY <3>3 DEF Inv, StateOK
    <3>5. /\ procs[p].state # "none"
          /\ procs[p].state = "up" => Ends(procs[p].out) \/ procs[p].todo # <<>> \/ InPipe(inpipe, t, p)
      BY <2>2, <2>6, <3>1, Bounds DEF OwesInv
    <3>i. ~InPipe(inpipe, t, p)
      BY <1>2, <2>6, <3>3 DEF Draining, InPipe
    <3>6. procs[p].state \in {"up", "exited", "reaped"}
      BY <3>4, <3>5 DEF Proc
    <3>7. Ends(procs[p].out) => procs[p].out # <<>>
      BY DEF Ends
    <3>8. ProcReady(p) \/ (procs[p].state = "up" /\ (procs[p].todo # <<>> \/ p \in deaf))
      BY <2>6, <3>1, <3>5, <3>6, <3>7, <3>i DEF ProcReady
    <3> QED BY <1>2, <2>1, <2>6, <3>1, <3>8 DEF Served, LeftToHarness
  <2> QED BY <2>3, <2>4, <2>5, <2>6, <2>d
<1> QED BY <1>1, <1>2

\* What the ceiling on a silent turn is for, and all it is for (sessions.py,
\* l.210-213; harness_process.py, l.74-199): as long as a turn is not over, its
\* requester, the reader, the pipe or a close can go on, for it or for the turn
\* whose lock it waits for, or a harness that is up has yet to read its prompt,
\* has something to answer, or wrote a line its reader failed on.  No turn
\* waits for a lock nobody holds, for a process nobody reads, or for one that
\* is gone, with any number of turns, processes and stops.
THEOREM TurnsNeverStall == Spec => []NoTurnStalls
<1>1. ASSUME Inv, OwesInv PROVE NoTurnStalls
  <2>1. SUFFICES ASSUME NEW t \in Turns, turns[t].pc \notin {"new", "done"}
                 PROVE  \/ Served(t) \/ LeftToHarness(t)
                        \/ /\ turns[t].pc = "lock"
                           /\ LET h == Head(harness[turns[t].obj].lock)
                              IN  Served(h) \/ LeftToHarness(h)
    BY DEF NoTurnStalls
  <2>2. turns[t].pc \in {"spawning", "lock", "starting", "active"}
    BY <1>1, <2>1 DEF Inv, StateOK, Turn
  <2>3. CASE turns[t].pc \in {"spawning", "starting", "active"}
    BY <1>1, <2>3, HolderServed
  <2>4. CASE turns[t].pc = "lock"
    <3>1. PICK o \in Procs : o = turns[t].obj
      BY <1>1, <2>4, Waiter DEF Waits
    <3>2. PICK lock \in Seq(Turns) : lock = harness[o].lock
      BY <1>1, <2>4, <3>1, Waiter DEF Waits
    <3>3. \E i \in 1 .. Len(lock) : lock[i] = t
      BY <1>1, <2>4, <3>1, <3>2, Waiter DEF Waits
    <3>4. Len(lock) \in Nat /\ 1 \in 1 .. Len(lock) /\ Head(lock) = lock[1] /\ lock[1] \in Turns
      BY <3>2, <3>3
    <3>5. PICK h \in Turns : h = Head(lock)
      BY <3>4
    <3>6. Waits(h) /\ turns[h].obj = o
      BY <1>1, <3>2, <3>4, <3>5 DEF Inv, LockInv
    <3>7. CASE turns[h].pc = "lock"
      BY <2>4, <3>1, <3>2, <3>5, <3>6, <3>7 DEF Served, TurnReady
    <3>8. CASE turns[h].pc # "lock"
      <4>1. Served(h) \/ LeftToHarness(h)
        BY <1>1, <3>6, <3>8, HolderServed DEF Waits
      <4> QED BY <2>4, <3>1, <3>2, <3>5, <4>1
    <3> QED BY <3>7, <3>8
  <2> QED BY <2>2, <2>3, <2>4
<1> QED BY <1>1, OwesInvariance, PTL

----------------------------------------------------------------------------
(* One prompt at a time, and the order a turn goes through *)

OnePrompt ==
    \A t, u \in Turns :
        /\ turns[t].pc \in {"starting", "active"} /\ turns[u].pc \in {"starting", "active"}
        /\ turns[t].obj = turns[u].obj
        => t = u

\* _send_lock keeps the prompts of an object one at a time: whatever is cut
\* short, fails or is closed, at most one turn is past the lock, starting the
\* process or waiting for its answer (harness_process.py, l.78-99).
THEOREM OnePromptAtATime == Spec => []OnePrompt
<1>1. Inv => OnePrompt
  BY Alone DEF OnePrompt, Waits
<1> QED BY <1>1, Invariance, PTL

Stage(pc) ==
    CASE pc = "new" -> 0
      [] pc \in {"spawning", "lock"} -> 1
      [] pc = "starting" -> 2
      [] pc = "active" -> 3
      [] OTHER -> 4

\* What is queued for a turn leaves every turn where it is.
LEMMA QueuedWhere ==
    ASSUME Inv, NEW o, NEW e, NEW t \in Turns
    PROVE  Queued(o, e)[t].pc = turns[t].pc
<1>1. turns \in [Turns -> Turn]
  BY DEF Inv, StateOK
<1>2. CASE harness[o].turn = None
  BY <1>2 DEF Queued
<1>3. CASE harness[o].turn # None
  <2>1. PICK u, qu : u = harness[o].turn /\ qu = Append(turns[harness[o].turn].queue, e)
    OBVIOUS
  <2>2. Queued(o, e) = [turns EXCEPT ![u].queue = qu]
    BY <1>3, <2>1 DEF Queued
  <2>3. turns[t] \in Turn
    BY <1>1
  <2> QED BY <1>1, <2>2, <2>3 DEF Turn
<1> QED BY <1>2, <1>3

\* What the turn that takes the lock is next.
LEMMA HoldAdvances ==
    ASSUME Inv, NEW t \in Turns, NEW o, NEW hs, Hold(t, o, hs)
    PROVE  /\ turns'[t].pc \in {"starting", "active", "done"}
           /\ \A u \in Turns \ {t} : turns'[u] = turns[u]
BY DEF Inv, StateOK, Hold, Prompt, Fail, Quit

\* A turn goes one way: asked, spawning or waiting for the lock, starting,
\* prompted, over; a turn that is over stays over, whoever reports what later.
THEOREM TurnsOnlyAdvance ==
    Spec => [][\A t \in Turns : Stage(turns[t].pc)' >= Stage(turns[t].pc)]_vars
<1>1. ASSUME Inv, [Next]_vars, NEW u \in Turns
      PROVE  Stage(turns[u].pc)' >= Stage(turns[u].pc)
  <2>1. turns \in [Turns -> Turn] /\ turns[u].pc \in {"new", "spawning", "lock", "starting", "active", "done"}
    BY <1>1 DEF Inv, StateOK, Turn
  <2>2. ASSUME turns'[u].pc = turns[u].pc PROVE Stage(turns[u].pc)' >= Stage(turns[u].pc)
    BY <2>1, <2>2 DEF Stage
  <2>3. ASSUME NEW t \in Turns, Ask(t) PROVE Stage(turns[u].pc)' >= Stage(turns[u].pc)
    <3>1. CASE u = t
      <4>1. Stage(turns[u].pc) = 0
        BY <2>3, <3>1 DEF Ask, Stage
      <4>2. Stage(turns[u].pc)' \in 0 .. 4
        BY DEF Stage
      <4> QED BY <4>1, <4>2
    <3>2. CASE u # t
      <4>1. \/ \E hs : Hold(t, tracked, hs)
            \/ turns' = [turns EXCEPT ![t] = [pc |-> "lock", obj |-> tracked, queue |-> <<>>]]
            \/ turns' = [turns EXCEPT ![t].pc = "spawning"]
            \/ turns' = [Queued(tracked, Notice) EXCEPT ![t].pc = "spawning"]
        BY <2>3 DEF Ask
      <4>2. CASE \E hs : Hold(t, tracked, hs)
        BY <1>1, <2>2, <3>2, <4>2, HoldAdvances
      <4>3. CASE turns' = [Queued(tracked, Notice) EXCEPT ![t].pc = "spawning"]
        <5>1. DOMAIN Queued(tracked, Notice) = Turns
          BY <2>1 DEF Queued
        <5>2. turns'[u] = Queued(tracked, Notice)[u]
          BY <3>2, <4>3, <5>1
        <5> QED BY <1>1, <2>2, <5>2, QueuedWhere
      <4>4. CASE \/ turns' = [turns EXCEPT ![t] = [pc |-> "lock", obj |-> tracked, queue |-> <<>>]]
                 \/ turns' = [turns EXCEPT ![t].pc = "spawning"]
        <5>1. turns'[u] = turns[u]
          BY <2>1, <3>2, <4>4
        <5> QED BY <2>2, <5>1
      <4> QED BY <4>1, <4>2, <4>3, <4>4
    <3> QED BY <3>1, <3>2
  <2>4. ASSUME NEW t \in Turns, TurnStep(t) \/ CutShort(t)
        PROVE  Stage(turns[u].pc)' >= Stage(turns[u].pc)
    <3>1. /\ turns'[t].pc = turns[t].pc \/ Stage(turns[t].pc)' > Stage(turns[t].pc)
          /\ \A v \in Turns \ {t} : turns'[v] = turns[v]
      <4>1. CASE Spawned(t) \/ Started(t)
        <5>1. turns' = [turns EXCEPT ![t] = [pc |-> "active", obj |-> turns'[t].obj, queue |-> <<>>]]
          BY <2>1, <4>1 DEF Spawned, Started, Prompt
        <5>2. turns[t].pc \in {"spawning", "starting"}
          BY <4>1 DEF Spawned, Started
        <5> QED BY <2>1, <5>1, <5>2 DEF Stage
      <4>2. CASE SpawnFails(t) \/ CutShort(t)
        <5>1. /\ turns[t].pc \in {"spawning", "lock", "starting", "active"}
              /\ turns' = [turns EXCEPT ![t] = Quit(t)]
          BY <4>2 DEF SpawnFails, CutShort
        <5> QED BY <2>1, <5>1 DEF Stage, Quit
      <4>3. CASE LockGranted(t)
        <5>1. turns[t].pc = "lock" /\ turns'[t].pc \in {"starting", "active", "done"}
              /\ \A v \in Turns \ {t} : turns'[v] = turns[v]
          BY <1>1, <4>3, HoldAdvances DEF LockGranted
        <5> QED BY <5>1 DEF Stage
      <4>5. CASE DrainFails(t)
        <5>1. turns[t].pc = "active" /\ turns' = [turns EXCEPT ![t] = Quit(t)]
          BY <4>5 DEF DrainFails, Draining, Fail
        <5> QED BY <2>1, <5>1 DEF Stage, Quit
      <4>4. CASE TakeEvent(t)
        <5>1. turns[t].pc = "active"
              /\ (\/ turns' = [turns EXCEPT ![t] = Quit(t)]
                  \/ turns' = [turns EXCEPT ![t].queue = Tail(@)])
          BY <4>4 DEF TakeEvent
        <5>2. CASE turns' = [turns EXCEPT ![t] = Quit(t)]
          BY <2>1, <5>1, <5>2 DEF Stage, Quit
        <5>3. CASE turns' = [turns EXCEPT ![t].queue = Tail(@)]
          <6>1. turns[t] \in Turn
            BY <2>1
          <6> QED BY <2>1, <5>3, <6>1 DEF Turn
        <5> QED BY <5>1, <5>2, <5>3
      <4> QED BY <2>4, <4>1, <4>2, <4>3, <4>4, <4>5 DEF TurnStep
    <3>2. CASE u = t
      <4>1. CASE turns'[u].pc = turns[u].pc
        BY <2>2, <4>1
      <4>2. CASE Stage(turns[u].pc)' > Stage(turns[u].pc)
        <5>1. Stage(turns[u].pc)' \in 0 .. 4 /\ Stage(turns[u].pc) \in 0 .. 4
          BY DEF Stage
        <5> QED BY <4>2, <5>1
      <4> QED BY <3>1, <3>2, <4>1, <4>2
    <3>3. CASE u # t
      BY <2>2, <3>1, <3>3
    <3> QED BY <3>2, <3>3
  <2>5. CASE \/ turns' = turns
             \/ \E o : turns' = Queued(o, Notice)
             \/ \E o, e : turns' = Queued(o, e)
    BY <1>1, <2>2, <2>5, QueuedWhere
  <2>6. ASSUME NEW p \in Procs, ProcStep(p) \/ Wake(p) \/ Die(p)
        PROVE  \/ turns' = turns
               \/ \E o, e : turns' = Queued(o, e)
    BY <2>6 DEF ProcStep, Read, ReadEnd, ReadFails, TakePrompt, Answer, Reap, Wake, Die
  <2>7. ASSUME Stop \/ StopStep \/ UNCHANGED vars
        PROVE  \/ turns' = turns
               \/ \E o : turns' = Queued(o, Notice)
    BY <2>7 DEF Stop, StopStep, CloseEnds, DockerStops, vars
  <2> QED BY <1>1, <2>3, <2>4, <2>5, <2>6, <2>7 DEF Next
<1>2. Inv /\ [Next]_vars => [\A t \in Turns : Stage(turns[t].pc)' >= Stage(turns[t].pc)]_vars
  BY <1>1
<1> QED BY <1>2, Invariance, PTL DEF Spec
=============================================================================
