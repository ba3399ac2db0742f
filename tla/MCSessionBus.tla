---------------------------- MODULE MCSessionBus ----------------------------
(* Small instances of SessionBus for TLC. *)
EXTENDS SessionBus, TLC
LOCAL INSTANCE SequencesExt
CONSTANTS c1, c2, t1

\* One queue no longer than the replay buffer, as in production, and one
\* longer, which a replay cannot overflow.
ShortAndLong == c1 :> 2 @@ c2 :> 3
Short == c1 :> 2

\* Backfilled says at once what _put, called for one message after the
\* other, and then the append to _subscribers (bus.py:122-126) leave.
OneByOne(c, msgs) ==
    LET fed == FoldLeft(LAMBDA s, m : Put(c, s, m), [NoSub EXCEPT !.pumping = TRUE], msgs)
    IN  [fed EXCEPT !.attached = TRUE]

ASSUME BackfilledIsPutInTurn ==
    \A c \in Clients, n \in 0 .. ReplayMax + 3 :
        LET msgs == [i \in 1 .. n |-> [kind |-> "event", from |-> i, to |-> i, base |-> 0]]
        IN  Backfilled(c, msgs) = OneByOne(c, msgs)
=============================================================================
