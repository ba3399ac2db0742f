----------------------------- MODULE ChatRouter -----------------------------
(***************************************************************************)
(* Which session a chat talks to: ChatRouter (src/surfaces/chat.py) and    *)
(* the routes that attach and detach a surface (src/server.py), over the   *)
(* tables surface_bindings and sessions (src/registry.py).                 *)
(*                                                                         *)
(* Router calls and those routes run on worker threads, the deletion of a  *)
(* session on the event loop: their SQL statements interleave.  A call's   *)
(* "at" names the statement it makes next.                                 *)
(***************************************************************************)
CONSTANTS
    Chats,      \* external ids on one surface
    Sessions,   \* ids that sessions are given
    Calls,      \* worker threads
    None

VARIABLES
    session,    \* the sessions table; archived sessions count like active ones
    binding,    \* surface_bindings
    calls,      \* what the threads are doing
    deletion    \* Registry.delete_session in progress

vars == <<session, binding, calls, deletion>>

----------------------------------------------------------------------------

\* text is a prompt; tap and switch name a session, new creates one.
Ops == {"text", "switch", "new", "detach"}

Call == [op: Ops, chat: Chats, session: Sessions \cup {None},
         at: {"route", "create", "get", "bind", "unbind", "ended", "failed"}]

Exists(s) == session[s] = "row"

FirstStatement(op) ==
    CASE op = "text" -> "route" [] op = "new" -> "create"
      [] op = "switch" -> "get" [] op = "detach" -> "unbind"

Become(k, c) == calls' = [calls EXCEPT ![k] = c]

----------------------------------------------------------------------------
(* Calls *)

\* ChatRouter.handle and tap; the attach and detach routes.
Start(k, op, c, s) ==
    /\ calls[k] = None
    /\ Become(k, [op |-> op, chat |-> c, session |-> s, at |-> FirstStatement(op)])
    /\ UNCHANGED <<session, binding, deletion>>

\* The pending call of a thread that is at a statement.
At(k, statement) == calls[k] # None /\ calls[k].at = statement

\* _route_to_session: bound_session and get_session.
Route(k) ==
    /\ At(k, "route")
    /\ Become(k, [calls[k] EXCEPT !.session = binding[calls[k].chat], !.at = "ended"])
    /\ UNCHANGED <<session, binding, deletion>>

\* _new: create_session, which refuses a user who is gone.
Create(k) ==
    /\ At(k, "create")
    /\ \/ \E s \in {t \in Sessions : session[t] = "none"} :
              /\ session' = [session EXCEPT ![s] = "row"]
              /\ Become(k, [calls[k] EXCEPT !.session = s, !.at = "get"])
       \/ Become(k, [calls[k] EXCEPT !.at = "failed"]) /\ UNCHANGED session
    /\ UNCHANGED <<binding, deletion>>

\* SessionManager.attach looks the session up, archived or not.
Get(k) ==
    /\ At(k, "get")
    /\ Become(k, [calls[k] EXCEPT !.at = IF Exists(calls[k].session) THEN "bind" ELSE "failed"])
    /\ UNCHANGED <<session, binding, deletion>>

Unconstrained(s) == FALSE

\* The foreign key of surface_bindings refuses a session that is gone.
Violates(s) == ~Exists(s)

\* bind_surface
Bind(k) ==
    LET c == calls[k].chat  s == calls[k].session
    IN  /\ At(k, "bind")
        /\ IF Violates(s)
           THEN Become(k, [calls[k] EXCEPT !.at = "failed"]) /\ UNCHANGED <<binding, deletion>>
           ELSE /\ binding' = [binding EXCEPT ![c] = s]
                /\ deletion' = [deletion EXCEPT ![s] = IF @ = "row" THEN "overtaken" ELSE @]
                /\ Become(k, [calls[k] EXCEPT !.at = "ended"])
        /\ UNCHANGED session

\* unbind_surface
Unbind(k) ==
    /\ At(k, "unbind")
    /\ binding' = [binding EXCEPT ![calls[k].chat] = None]
    /\ Become(k, [calls[k] EXCEPT !.at = "ended", !.session = None])
    /\ UNCHANGED <<session, deletion>>

\* The call returns, or raises.
Return(k) ==
    /\ At(k, "ended") \/ At(k, "failed")
    /\ Become(k, None)
    /\ UNCHANGED <<session, binding, deletion>>

----------------------------------------------------------------------------
(* Sessions *)

StillBound(s) == binding
Unbound(s) == [c \in Chats |-> IF binding[c] = s THEN None ELSE binding[c]]

\* Registry.delete_session drops the bindings that point at the session...
DeleteBindings(s) ==
    /\ Exists(s) /\ deletion[s] = "idle"
    /\ binding' = Unbound(s)
    /\ deletion' = [deletion EXCEPT ![s] = "row"]
    /\ UNCHANGED <<session, calls>>

\* ... and then its row; the foreign key refuses one that is bound.
DeleteRow(s) ==
    /\ deletion[s] # "idle"
    /\ session' = IF \E c \in Chats : binding[c] = s THEN session
                  ELSE [session EXCEPT ![s] = "gone"]
    /\ deletion' = [deletion EXCEPT ![s] = "idle"]
    /\ UNCHANGED <<binding, calls>>

----------------------------------------------------------------------------

Init ==
    /\ session = [s \in Sessions |-> "none"]
    /\ binding = [c \in Chats |-> None]
    /\ calls = [k \in Calls |-> None]
    /\ deletion = [s \in Sessions |-> "idle"]

\* A thread runs its next statement.
Statement(k) == Route(k) \/ Create(k) \/ Get(k) \/ Bind(k) \/ Unbind(k)

SessionStep(s) == DeleteBindings(s) \/ DeleteRow(s)

Next ==
    \/ \E k \in Calls :
           \/ \E op \in Ops, c \in Chats, s \in Sessions : Start(k, op, c, s)
           \/ Statement(k) \/ Return(k)
    \/ \E s \in Sessions : SessionStep(s)

Spec == Init /\ [][Next]_vars

----------------------------------------------------------------------------
(* Properties *)

\* The types, and the foreign key: no chat points at a session without a row.
TypeOK ==
    /\ session \in [Sessions -> {"none", "row", "gone"}]
    /\ binding \in [Chats -> Sessions \cup {None}]
    /\ calls \in [Calls -> Call \cup {None}]
    /\ deletion \in [Sessions -> {"idle", "row", "overtaken"}]
    /\ \A c \in Chats : binding[c] # None => Exists(binding[c])
    /\ \A s \in Sessions : deletion[s] # "idle" => Exists(s)
    /\ \A k \in Calls : At(k, "get") \/ At(k, "bind") => calls[k].session \in Sessions

\* Deleting a session fails only when a chat was attached to it between the
\* two statements of the deletion.
DeleteFailsOnlyByAttach ==
    [][\A s \in Sessions :
          (deletion[s] # "idle" /\ deletion'[s] = "idle" /\ session'[s] # "gone")
              => deletion[s] = "overtaken"]_vars
=============================================================================
