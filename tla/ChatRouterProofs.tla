-------------------------- MODULE ChatRouterProofs --------------------------
(***************************************************************************)
(* The ChatRouter for any number of chats, sessions and threads: bindings  *)
(* point at sessions that exist, and a session that cannot be deleted was  *)
(* attached in the middle of its deletion.                                 *)
(***************************************************************************)
EXTENDS ChatRouter, TLAPS

\* What the type invariant says of the tables.
TablesOK ==
    /\ session \in [Sessions -> {"none", "row", "gone"}]
    /\ binding \in [Chats -> Sessions \cup {None}]
    /\ deletion \in [Sessions -> {"idle", "row", "overtaken"}]
    /\ \A c \in Chats : binding[c] # None => Exists(binding[c])
    /\ \A s \in Sessions : deletion[s] # "idle" => Exists(s)

CallsOK ==
    /\ calls \in [Calls -> Call \cup {None}]
    /\ \A k \in Calls : At(k, "get") \/ At(k, "bind") => calls[k].session \in Sessions

\* The calls: one of them becomes c.
LEMMA BecomeOK ==
    ASSUME CallsOK, NEW k \in Calls, NEW c, Become(k, c),
           c = None \/ (c \in Call /\ (c.at \in {"get", "bind"} => c.session \in Sessions))
    PROVE  CallsOK'
<1>1. calls' \in [Calls -> Call \cup {None}]
  BY DEF CallsOK, Become
<1>2. calls'[k] = c /\ \A j \in Calls \ {k} : calls'[j] = calls[j]
  BY DEF CallsOK, Become
<1>3. QED
  BY <1>1, <1>2 DEF CallsOK, At

\* The record of a call that runs.
LEMMA AtCall ==
    ASSUME CallsOK, NEW k \in Calls, NEW at, At(k, at)
    PROVE  calls[k] \in Call /\ calls[k].at = at
BY DEF CallsOK, At

LEMMA CallStep ==
    ASSUME TablesOK, CallsOK, NEW k \in Calls,
           \/ \E op \in Ops, c \in Chats, s \in Sessions : Start(k, op, c, s)
           \/ Statement(k) \/ Return(k)
    PROVE  TablesOK' /\ CallsOK'
<1> DEFINE c == calls[k]
<1>1. ASSUME NEW op \in Ops, NEW d \in Chats, NEW s \in Sessions, Start(k, op, d, s)
      PROVE  TablesOK' /\ CallsOK'
  <2> DEFINE new == [op |-> op, chat |-> d, session |-> s, at |-> FirstStatement(op)]
  <2>1. new \in Call /\ new.session \in Sessions
    BY DEF Call, Ops, FirstStatement
  <2>2. CallsOK'
    BY <1>1, <2>1, BecomeOK DEF Start
  <2>3. QED
    BY <1>1, <2>2 DEF Start, TablesOK, Exists
<1>2. CASE Route(k)
  <2> DEFINE new == [c EXCEPT !.session = binding[c.chat], !.at = "ended"]
  <2>1. c \in Call
    BY <1>2, AtCall DEF Route
  <2>2. new \in Call /\ new.at = "ended"
    BY <2>1 DEF Call, TablesOK
  <2>3. CallsOK'
    BY <1>2, <2>2, BecomeOK DEF Route
  <2>4. QED
    BY <1>2, <2>3 DEF Route, TablesOK, Exists
<1>3. CASE Create(k)
  <2>1. c \in Call /\ [c EXCEPT !.at = "failed"] \in Call /\ [c EXCEPT !.at = "failed"].at = "failed"
    BY <1>3, AtCall DEF Create, Call
  <2>2. CASE Become(k, [c EXCEPT !.at = "failed"]) /\ UNCHANGED session
    <3>1. CallsOK'
      BY <2>1, <2>2, BecomeOK
    <3>2. QED
      BY <1>3, <2>2, <3>1 DEF Create, TablesOK, Exists
  <2>3. CASE \E s \in Sessions : /\ session[s] = "none"
                                 /\ session' = [session EXCEPT ![s] = "row"]
                                 /\ Become(k, [c EXCEPT !.session = s, !.at = "get"])
    <3>1. PICK s \in Sessions : /\ session[s] = "none"
                                /\ session' = [session EXCEPT ![s] = "row"]
                                /\ Become(k, [c EXCEPT !.session = s, !.at = "get"])
      BY <2>3
    <3> DEFINE new == [c EXCEPT !.session = s, !.at = "get"]
    <3>2. new \in Call /\ new.session \in Sessions
      BY <2>1 DEF Call
    <3>3. CallsOK'
      BY <3>1, <3>2, BecomeOK
    <3>4. TablesOK'
      BY <1>3, <3>1 DEF Create, TablesOK, Exists
    <3>5. QED
      BY <3>3, <3>4
  <2>4. QED
    BY <1>3, <2>2, <2>3 DEF Create
<1>4. CASE Get(k)
  <2> DEFINE new == [c EXCEPT !.at = IF Exists(c.session) THEN "bind" ELSE "failed"]
  <2>1. c \in Call /\ c.session \in Sessions
    BY <1>4, AtCall DEF Get, CallsOK
  <2>2. new \in Call /\ new.session \in Sessions
    BY <2>1 DEF Call
  <2>3. CallsOK'
    BY <1>4, <2>2, BecomeOK DEF Get
  <2>4. QED
    BY <1>4, <2>3 DEF Get, TablesOK, Exists
<1>5. CASE Bind(k)
  <2>1. c \in Call /\ c.session \in Sessions /\ c.chat \in Chats
    BY <1>5, AtCall DEF Bind, Call, CallsOK
  <2>2. /\ [c EXCEPT !.at = "failed"] \in Call /\ [c EXCEPT !.at = "failed"].at = "failed"
        /\ [c EXCEPT !.at = "ended"] \in Call /\ [c EXCEPT !.at = "ended"].at = "ended"
    BY <2>1 DEF Call
  <2>3. CallsOK'
    BY <1>5, <2>2, BecomeOK DEF Bind
  <2>4. TablesOK'
    BY <1>5, <2>1 DEF Bind, Violates, TablesOK, Exists
  <2>5. QED
    BY <2>3, <2>4
<1>6. CASE Unbind(k)
  <2> DEFINE new == [c EXCEPT !.at = "ended", !.session = None]
  <2>1. /\ c \in Call /\ c.chat \in Chats
        /\ new \in Call /\ new.at = "ended"
    BY <1>6, AtCall DEF Unbind, Call
  <2>2. CallsOK'
    BY <1>6, <2>1, BecomeOK DEF Unbind
  <2>3. TablesOK'
    BY <1>6, <2>1 DEF Unbind, TablesOK, Exists
  <2>4. QED
    BY <2>2, <2>3
<1>7. CASE Return(k)
  <2>1. CallsOK'
    BY <1>7, BecomeOK DEF Return
  <2>2. QED
    BY <1>7, <2>1 DEF Return, TablesOK, Exists
<1>8. QED
  BY <1>1, <1>2, <1>3, <1>4, <1>5, <1>6, <1>7 DEF Statement

LEMMA SessionTypeStep ==
    ASSUME TablesOK, CallsOK, NEW s \in Sessions, SessionStep(s)
    PROVE  TablesOK' /\ CallsOK'
<1>1. CallsOK'
  BY DEF SessionStep, DeleteBindings, DeleteRow, CallsOK, At
<1>2. CASE DeleteBindings(s)
  BY <1>1, <1>2 DEF DeleteBindings, Unbound, TablesOK, Exists
<1>3. CASE DeleteRow(s)
  BY <1>1, <1>3 DEF DeleteRow, TablesOK, Exists
<1>4. QED
  BY <1>2, <1>3 DEF SessionStep

\* Bindings point at sessions with a row, and calls name what they are given.
THEOREM RouterTypeOK == Spec => []TypeOK
<1>1. Init => TypeOK
  BY DEF Init, TypeOK, Exists, At
<1>2. TypeOK /\ [Next]_vars => TypeOK'
  <2> SUFFICES ASSUME TypeOK, [Next]_vars
               PROVE  TypeOK'
    OBVIOUS
  <2>1. CASE Next
    <3>1. TablesOK /\ CallsOK
      BY DEF TypeOK, TablesOK, CallsOK
    <3>2. TablesOK' /\ CallsOK'
      BY <2>1, <3>1, CallStep, SessionTypeStep DEF Next
    <3>3. QED
      BY <3>2 DEF TypeOK, TablesOK, CallsOK
  <2>2. CASE UNCHANGED vars
    BY <2>2 DEF vars, TypeOK, Exists, At
  <2>3. QED
    BY <2>1, <2>2
<1>3. QED
  BY <1>1, <1>2, PTL DEF Spec

----------------------------------------------------------------------------
(* Deletions *)

\* Between the two statements of a deletion no chat is attached, unless an
\* attach has overtaken it.
NotAttached == \A s \in Sessions : deletion[s] = "row" => \A c \in Chats : binding[c] # s

LEMMA NotAttachedStep ==
    ASSUME None \notin Sessions, TypeOK, NotAttached, [Next]_vars
    PROVE  NotAttached'
<1>1. TablesOK /\ CallsOK
  BY DEF TypeOK, TablesOK, CallsOK
<1>2. ASSUME NEW k \in Calls, Bind(k)
      PROVE  NotAttached'
  <2>1. calls[k] \in Call /\ calls[k].session \in Sessions /\ calls[k].chat \in Chats
    BY <1>1, <1>2, AtCall DEF Bind, Call, CallsOK
  <2>2. QED
    BY <1>1, <1>2, <2>1 DEF Bind, NotAttached, TablesOK
<1>3. ASSUME NEW k \in Calls, Unbind(k)
      PROVE  NotAttached'
  <2>1. calls[k].chat \in Chats
    BY <1>1, <1>3, AtCall DEF Unbind, Call
  <2>2. QED
    BY <1>1, <1>3, <2>1 DEF Unbind, NotAttached, TablesOK
<1>4. ASSUME NEW s \in Sessions, DeleteBindings(s) \/ DeleteRow(s)
      PROVE  NotAttached'
  BY <1>1, <1>4 DEF DeleteBindings, DeleteRow, Unbound, NotAttached, TablesOK
<1>5. CASE UNCHANGED <<binding, deletion>>
  BY <1>5 DEF NotAttached
<1>6. QED
  BY <1>2, <1>3, <1>4, <1>5
  DEF Next, vars, Start, Statement, Return, Route, Create, Get, SessionStep

\* A deletion that is refused was overtaken by an attach.
THEOREM DeletesFailOnlyByAttach ==
    ASSUME None \notin Sessions
    PROVE  Spec => DeleteFailsOnlyByAttach
<1>1. Init => NotAttached
  BY DEF Init, NotAttached
<1>2. TypeOK /\ NotAttached /\ [Next]_vars => NotAttached'
  BY NotAttachedStep
<1>3. ASSUME TypeOK, NotAttached, [Next]_vars, NEW s \in Sessions,
             deletion[s] # "idle", deletion'[s] = "idle", session'[s] # "gone"
      PROVE  deletion[s] = "overtaken"
  <2>1. TablesOK /\ CallsOK
    BY <1>3 DEF TypeOK, TablesOK, CallsOK
  <2>2. ASSUME NEW k \in Calls, Bind(k)
        PROVE  FALSE
    <3>1. calls[k].session \in Sessions
      BY <2>1, <2>2, AtCall DEF Bind, CallsOK
    <3>2. QED
      BY <1>3, <2>1, <2>2, <3>1 DEF Bind, TablesOK
  <2>3. PICK t \in Sessions : DeleteBindings(t) \/ DeleteRow(t)
    BY <1>3, <2>2
    DEF Next, vars, Start, Statement, Return, Route, Create, Get, Unbind, SessionStep
  <2>4. DeleteRow(s)
    BY <1>3, <2>1, <2>3 DEF DeleteBindings, DeleteRow, TablesOK
  <2>5. \E c \in Chats : binding[c] = s
    BY <1>3, <2>1, <2>4 DEF DeleteRow, TablesOK
  <2>6. QED
    BY <1>3, <2>1, <2>5 DEF NotAttached, TablesOK
<1>4. TypeOK /\ NotAttached /\ [Next]_vars =>
          [\A s \in Sessions :
              (deletion[s] # "idle" /\ deletion'[s] = "idle" /\ session'[s] # "gone")
                  => deletion[s] = "overtaken"]_vars
  BY <1>3
<1>5. QED
  BY <1>1, <1>2, <1>4, RouterTypeOK, PTL DEF Spec, DeleteFailsOnlyByAttach
=============================================================================
