---------------------------- MODULE OrderedFeed ----------------------------
(***************************************************************************)
(* What the stream of a session promises a surface, whatever queues,       *)
(* sockets and reconnects lie in between: what it shows are events of the  *)
(* session, each at most once, in the order they were published.  It may   *)
(* miss some.                                                              *)
(***************************************************************************)
EXTENDS Naturals, Sequences

CONSTANT Clients    \* the surfaces watching the session

VARIABLES
    published,      \* events published so far: they are numbered from 1
    shown           \* what each surface has shown, in order

feedVars == <<published, shown>>

LastShown(c) == IF shown[c] = <<>> THEN 0 ELSE shown[c][Len(shown[c])]

Init ==
    /\ published = 0
    /\ shown = [c \in Clients |-> <<>>]

Publish ==
    /\ published' = published + 1
    /\ UNCHANGED shown

Show(c) ==
    /\ \E n \in LastShown(c) + 1 .. published :
          shown' = [shown EXCEPT ![c] = Append(@, n)]
    /\ UNCHANGED published

Next == Publish \/ \E c \in Clients : Show(c)

Spec == Init /\ [][Next]_feedVars
=============================================================================
