--------------------------- MODULE ChannelProofs ---------------------------
(***************************************************************************)
(* The channel, for any number of relays, polls, queues, events, tokens    *)
(* and faults: no wake-up is lost, every event is in one place, each       *)
(* harness is told events in the order they were delivered, and a verdict  *)
(* is final.                                                               *)
(***************************************************************************)
EXTENDS Channel, TLAPS

----------------------------------------------------------------------------
(* Sequences of events *)

Rising(seq) == \A i, j \in 1 .. Len(seq) : i < j => seq[i] < seq[j]

Below(S, T) == \A m \in S, n \in T : m < n

LEMMA EmptyElements == Elements(<<>>) = {}
BY DEF Elements

LEMMA AppendElements ==
    ASSUME NEW S, NEW seq \in Seq(S), NEW e \in S
    PROVE  /\ Append(seq, e) \in Seq(S)
           /\ Elements(Append(seq, e)) = Elements(seq) \cup {e}
<1>1. /\ Append(seq, e) \in Seq(S)
      /\ Len(Append(seq, e)) = Len(seq) + 1
      /\ Append(seq, e)[Len(seq) + 1] = e
      /\ \A i \in 1 .. Len(seq) : Append(seq, e)[i] = seq[i]
  OBVIOUS
<1>2. Elements(Append(seq, e)) \subseteq Elements(seq) \cup {e}
  BY <1>1 DEF Elements
<1>3. Elements(seq) \subseteq Elements(Append(seq, e))
  BY <1>1 DEF Elements
<1>4. e \in Elements(Append(seq, e))
  BY <1>1 DEF Elements
<1> QED BY <1>1, <1>2, <1>3, <1>4

LEMMA TailElements ==
    ASSUME NEW S, NEW seq \in Seq(S), seq # <<>>
    PROVE  /\ Head(seq) \in S /\ Tail(seq) \in Seq(S)
           /\ Len(Tail(seq)) = Len(seq) - 1
           /\ Elements(seq) = Elements(Tail(seq)) \cup {Head(seq)}
<1>1. /\ Len(seq) \in Nat /\ Len(seq) # 0
      /\ Head(seq) = seq[1] /\ Head(seq) \in S
      /\ Tail(seq) \in Seq(S) /\ Len(Tail(seq)) = Len(seq) - 1
      /\ \A i \in 1 .. Len(seq) - 1 : Tail(seq)[i] = seq[i + 1]
  OBVIOUS
<1>2. Elements(Tail(seq)) \subseteq Elements(seq)
  BY <1>1 DEF Elements
<1>3. Head(seq) \in Elements(seq)
  BY <1>1 DEF Elements
<1>4. ASSUME NEW n \in Elements(seq), n # Head(seq)
      PROVE  n \in Elements(Tail(seq))
  <2>1. PICK i \in 1 .. Len(seq) : n = seq[i]
    BY DEF Elements
  <2>2. i - 1 \in 1 .. Len(seq) - 1 /\ n = Tail(seq)[i - 1]
    BY <1>1, <1>4, <2>1
  <2> QED BY <1>1, <2>2 DEF Elements
<1> QED BY <1>1, <1>2, <1>3, <1>4

LEMMA ElementsIn ==
    ASSUME NEW S, NEW seq \in Seq(S)
    PROVE  Elements(seq) \subseteq S /\ (seq # <<>> <=> Elements(seq) # {})
<1>1. Len(seq) \in Nat /\ \A i \in 1 .. Len(seq) : seq[i] \in S
  OBVIOUS
<1>2. seq # <<>> => 1 \in 1 .. Len(seq)
  OBVIOUS
<1> QED BY <1>1, <1>2 DEF Elements

LEMMA RisingAppend ==
    ASSUME NEW m \in Nat, NEW seq \in Seq(1 .. m), NEW e \in 1 .. m, Rising(seq),
           \A n \in Elements(seq) : n < e
    PROVE  Rising(Append(seq, e))
<1>1. /\ Len(Append(seq, e)) = Len(seq) + 1
      /\ Append(seq, e)[Len(seq) + 1] = e
      /\ \A i \in 1 .. Len(seq) : Append(seq, e)[i] = seq[i]
      /\ Len(seq) \in Nat
  OBVIOUS
<1>2. \A i \in 1 .. Len(seq) : seq[i] < e
  BY DEF Elements
<1> QED BY <1>1, <1>2 DEF Rising

LEMMA RisingTail ==
    ASSUME NEW m \in Nat, NEW seq \in Seq(1 .. m), Rising(seq), seq # <<>>
    PROVE  /\ Rising(Tail(seq))
           /\ \A n \in Elements(Tail(seq)) : Head(seq) < n
<1>1. /\ Len(seq) \in Nat /\ Len(seq) # 0
      /\ Head(seq) = seq[1] /\ Len(Tail(seq)) = Len(seq) - 1
      /\ \A i \in 1 .. Len(seq) - 1 : Tail(seq)[i] = seq[i + 1]
  OBVIOUS
<1> QED BY <1>1 DEF Rising, Elements

\* A longer range of numbers takes the same sequences.
LEMMA Widen ==
    ASSUME NEW m \in Nat, NEW seq \in Seq(1 .. m)
    PROVE  seq \in Seq(1 .. m + 1)
OBVIOUS

----------------------------------------------------------------------------
(* The inductive invariant *)

\* Who waits for a request is the only one to.
CallerInv ==
    /\ \A s \in Shims : At(s, "poll") => shims[s].poll \in Polls
    /\ \A s, t \in Shims :
          At(s, "poll") /\ At(t, "poll") /\ shims[s].poll = shims[t].poll => s = t

\* Queues are made one after the other, and hold events in order.
QueueInv ==
    /\ \A q \in Queues : Rising(pending[q]) /\ (q > made => pending[q] = <<>>)
    /\ \A q, r \in Queues : q < r => Below(Elements(pending[q]), Elements(pending[r]))
    /\ \A p \in Polls : polls[p] # None => polls[p].queue <= made

\* What a relay has in hand comes after what it has told, in order.
Orderly(shim, told) ==
    /\ shim.batch \in Seq(1 .. accepted)
    /\ Rising(shim.batch)
    /\ shim.at = "emit" <=> shim.batch # <<>>
    /\ Below(Elements(told), Elements(shim.batch))

RelayInv ==
    \A s \in Shims :
        /\ Rising(heard[s])
        /\ IF shims[s] = None THEN heard[s] = <<>> ELSE Orderly(shims[s], heard[s])

\* The first queue a relay can be given events from.
Newest == IF current = 0 THEN made + 1 ELSE current
Floor(s) == IF At(s, "poll") THEN polls[shims[s].poll].queue ELSE Newest

\* What a relay can still be given comes after what it has been given.
FrontInv ==
    \A s \in Shims, q \in Queues :
        Live(s) /\ Floor(s) <= q =>
            Below(Elements(heard[s]) \cup Elements(shims[s].batch), Elements(pending[q]))

Inv == TypeOK /\ CallerInv /\ QueueInv /\ RelayInv /\ FrontInv

LEMMA InitInv == Init => Inv
<1> SUFFICES ASSUME Init PROVE Inv
  OBVIOUS
<1>1. TypeOK
  <2>1. /\ pending \in [Queues -> Seq(1 .. accepted)]
        /\ heard \in [Shims -> Seq(1 .. accepted)]
        /\ \A q \in Queues : pending[q] = <<>> /\ Len(pending[q]) <= QueueMax
    BY QueueAssumption DEF Init
  <2>2. lost \in [Causes -> SUBSET (1 .. accepted)]
    BY DEF Init
  <2>3. /\ polls \in [Polls -> Poll \cup {None}] /\ shims \in [Shims -> Shim \cup {None}]
        /\ \A p \in Polls : polls[p] = None
        /\ \A s \in Shims : ~At(s, "poll")
    BY DEF Init, At
  <2>4. /\ status \in {"active", "archived", "gone"}
        /\ row \in BOOLEAN /\ provisioning \in BOOLEAN
    BY DEF Init
  <2>5. /\ token \in Nat /\ container \in 0 .. token
        /\ made \in 0 .. MaxQueues /\ current \in {0, made}
        /\ accepted \in Nat /\ faults \in Nat
    BY QueueAssumption DEF Init
  <2> QED BY <2>1, <2>2, <2>3, <2>4, <2>5 DEF TypeOK
<1>2. CallerInv /\ RelayInv /\ FrontInv /\ QueueInv
  BY EmptyElements DEF Init, CallerInv, RelayInv, FrontInv, QueueInv, At, Live, Rising, Below
<1> QED BY <1>1, <1>2 DEF Inv

----------------------------------------------------------------------------
(* deliver *)

LEMMA DeliverStep == Inv /\ Deliver => Inv'
<1> SUFFICES ASSUME Inv, Deliver PROVE Inv'
  OBVIOUS
<1> DEFINE n == accepted + 1
<1>t. TypeOK /\ CallerInv /\ QueueInv /\ RelayInv /\ FrontInv
  BY DEF Inv
<1>a. /\ accepted \in Nat /\ accepted' = n
      /\ UNCHANGED <<sessionVars, shims, heard, faults>>
  BY <1>t DEF Deliver, TypeOK
<1>1. PICK q \in Queues : Channel(q) /\ Put(q, n)
  BY <1>a DEF Deliver
<1>2. /\ current' = q /\ made' \in 0 .. MaxQueues /\ q <= made' /\ made <= made'
      /\ current' = made' /\ (made' = made \/ made' = made + 1) /\ Newest <= q /\ Newest' = Newest
      /\ q > made => pending[q] = <<>>
      /\ q \in Nat \ {0} /\ made \in Nat
  BY <1>1, <1>t, QueueAssumption DEF Channel, TypeOK, Queues, Newest, QueueInv
<1> DEFINE rest == IF Len(pending[q]) < QueueMax THEN pending[q] ELSE Tail(pending[q])
<1>r. IF Len(pending[q]) < QueueMax THEN rest = pending[q] ELSE rest = Tail(pending[q])
  OBVIOUS
<1>4. /\ pending' = [pending EXCEPT ![q] = Append(rest, n)]
      /\ polls' = [p \in Polls |-> IF p \in Waiting(q) THEN [polls[p] EXCEPT !.woken = TRUE]
                                   ELSE polls[p]]
  BY <1>1 DEF Put, Push
<1> HIDE DEF rest
<1>3. /\ pending[q] \in Seq(1 .. accepted)
      /\ rest \in Seq(1 .. accepted) /\ Len(rest) + 1 <= QueueMax
      /\ Elements(rest) \subseteq Elements(pending[q]) /\ Rising(rest)
      /\ Elements(pending[q]) \subseteq 1 .. accepted
  <2>1. pending[q] \in Seq(1 .. accepted) /\ Len(pending[q]) <= QueueMax /\ Rising(pending[q])
    BY <1>t DEF TypeOK, QueueInv
  <2>2. CASE Len(pending[q]) < QueueMax
    <3>1. rest = pending[q]
      BY <2>2, <1>r
    <3>2. Elements(pending[q]) \subseteq 1 .. accepted
      BY <2>1, ElementsIn
    <3>3. Len(rest) + 1 <= QueueMax
      BY <2>1, <2>2, <3>1, QueueAssumption
    <3> QED BY <2>1, <3>1, <3>2, <3>3
  <2>3. CASE ~(Len(pending[q]) < QueueMax)
    <3>1. pending[q] # <<>>
      BY <2>1, <2>3, QueueAssumption
    <3>2. /\ Tail(pending[q]) \in Seq(1 .. accepted)
          /\ Len(Tail(pending[q])) = Len(pending[q]) - 1
          /\ Elements(pending[q]) = Elements(Tail(pending[q])) \cup {Head(pending[q])}
      BY <2>1, <3>1, TailElements
    <3>3. Rising(Tail(pending[q]))
      BY <2>1, <3>1, <1>a, RisingTail
    <3>4. rest = Tail(pending[q])
      BY <2>3, <1>r
    <3>5. Elements(pending[q]) \subseteq 1 .. accepted
      BY <2>1, ElementsIn
    <3>6. Len(rest) + 1 <= QueueMax
      BY <2>1, <3>2, <3>4, QueueAssumption
    <3> QED BY <2>1, <3>2, <3>3, <3>4, <3>5, <3>6
  <2> QED BY <2>2, <2>3
<1>5. rest \in Seq(1 .. n)
  BY <1>3, <1>a
<1>6. /\ Append(rest, n) \in Seq(1 .. n) /\ Elements(Append(rest, n)) = Elements(rest) \cup {n}
      /\ Rising(Append(rest, n)) /\ Len(Append(rest, n)) <= QueueMax
      /\ Append(rest, n) # <<>>
  <2>1. \A e \in Elements(rest) : e < n
    BY <1>3, <1>a
  <2>2. n \in 1 .. n /\ n \in Nat
    BY <1>a
  <2>3. /\ Append(rest, n) \in Seq(1 .. n)
        /\ Elements(Append(rest, n)) = Elements(rest) \cup {n}
    BY <1>5, <2>2, AppendElements
  <2>4. Rising(Append(rest, n))
    BY <1>3, <1>5, <2>1, <2>2, RisingAppend
  <2>5. Len(Append(rest, n)) = Len(rest) + 1 /\ Append(rest, n) # <<>>
    BY <1>5, <2>2
  <2> QED BY <1>3, <2>3, <2>4, <2>5
<1>7. /\ pending' \in [Queues -> Seq(1 .. n)]
      /\ pending'[q] = Append(rest, n)
      /\ \A r \in Queues \ {q} : pending'[r] = pending[r]
  <2>1. pending \in [Queues -> Seq(1 .. accepted)]
    BY <1>t DEF TypeOK
  <2>2. \A r \in Queues : pending[r] \in Seq(1 .. n)
    BY <2>1, <1>a, Widen
  <2> QED BY <1>4, <1>6, <2>1, <2>2
<1>8. lost' \in [Causes -> SUBSET (1 .. n)]
  <2>1. lost \in [Causes -> SUBSET (1 .. n)]
    BY <1>t, <1>a DEF TypeOK
  <2>2. CASE Len(pending[q]) < QueueMax
    BY <2>1, <2>2, <1>1 DEF Put, Push
  <2>3. CASE ~(Len(pending[q]) < QueueMax)
    <3>1. pending[q] # <<>>
      BY <2>3, <1>3, QueueAssumption
    <3>2. Head(pending[q]) \in 1 .. n
      BY <3>1, <1>3, <1>a, TailElements
    <3> QED BY <2>1, <2>3, <3>2, <1>1 DEF Put, Push, Causes
  <2> QED BY <2>2, <2>3
<1>9. /\ polls' \in [Polls -> Poll \cup {None}]
      /\ \A p \in Polls : /\ polls'[p] = None <=> polls[p] = None
                          /\ polls[p] # None => polls'[p].queue = polls[p].queue
                          /\ IF polls[p] # None /\ polls[p].queue = q THEN polls'[p].woken
                             ELSE polls'[p] = polls[p]
  <2>1. polls \in [Polls -> Poll \cup {None}]
    BY <1>t DEF TypeOK
  <2>2. ASSUME NEW p \in Polls, polls[p] # None, polls[p].queue = q
        PROVE  /\ polls'[p] = [queue |-> q, woken |-> TRUE]
               /\ polls'[p] \in Poll
    BY <2>1, <2>2, <1>4 DEF Poll, Waiting
  <2>3. ASSUME NEW p \in Polls, polls[p] = None \/ polls[p].queue # q
        PROVE  polls'[p] = polls[p]
    BY <2>1, <2>3, <1>4 DEF Waiting
  <2>4. ASSUME NEW p \in Polls
        PROVE  /\ polls'[p] \in Poll \cup {None}
               /\ polls'[p] = None <=> polls[p] = None
               /\ polls[p] # None => polls'[p].queue = polls[p].queue
               /\ IF polls[p] # None /\ polls[p].queue = q THEN polls'[p].woken
                  ELSE polls'[p] = polls[p]
    <3>1. CASE polls[p] # None /\ polls[p].queue = q
      BY <2>2, <3>1, NoneAssumption
    <3>2. CASE ~(polls[p] # None /\ polls[p].queue = q)
      BY <2>3, <2>1, <3>2
    <3> QED BY <3>1, <3>2
  <2> QED BY <2>4, <1>4
<1>10. TypeOK'
  <2>1. heard' \in [Shims -> Seq(1 .. n)]
    <3>1. heard \in [Shims -> Seq(1 .. accepted)]
      BY <1>t DEF TypeOK
    <3> QED BY <3>1, <1>a, Widen
  <2>2. \A r \in Queues : Len(pending'[r]) <= QueueMax
    BY <1>t, <1>6, <1>7 DEF TypeOK
  <2>3. \A s \in Shims : At(s, "poll")' => polls'[shims'[s].poll] # None
    <3>1. \A s \in Shims : At(s, "poll") => shims[s].poll \in Polls
      BY <1>t DEF CallerInv
    <3> QED BY <1>t, <1>9, <1>a, <3>1 DEF TypeOK, At
  <2>4. ASSUME NEW p \in Polls, polls'[p] # None, pending'[polls'[p].queue] # <<>>
        PROVE  polls'[p].woken
    BY <2>4, <1>7, <1>9, <1>t DEF TypeOK, Poll
  <2> QED
    BY <1>t, <1>2, <1>7, <1>8, <1>9, <1>a, <2>1, <2>2, <2>3, <2>4 DEF TypeOK, sessionVars
<1>c. Elements(pending'[q]) \subseteq Elements(pending[q]) \cup {n}
  BY <1>3, <1>6, <1>7
<1>d. \A r \in Queues : Elements(pending[r]) \subseteq 1 .. accepted
  BY <1>t, ElementsIn DEF TypeOK
<1>e. \A s \in Shims : Elements(heard[s]) \subseteq 1 .. accepted
  BY <1>t, ElementsIn DEF TypeOK
<1>11. CallerInv'
  BY <1>t, <1>a DEF CallerInv, At
<1>12. QueueInv'
  <2>1. \A r \in Queues : Rising(pending'[r]) /\ (r > made' => pending'[r] = <<>>)
    <3>1. \A r \in Queues \ {q} : Rising(pending'[r]) /\ (r > made' => pending'[r] = <<>>)
      BY <1>t, <1>2, <1>7 DEF QueueInv, Queues
    <3>2. Rising(pending'[q])
      BY <1>6, <1>7
    <3>3. ~(q > made')
      BY <1>2, QueueAssumption
    <3> QED BY <3>1, <3>2, <3>3
  <2>2. ASSUME NEW r1 \in Queues, NEW r2 \in Queues, r1 < r2
        PROVE  Below(Elements(pending'[r1]), Elements(pending'[r2]))
    <3>1. Below(Elements(pending[r1]), Elements(pending[r2]))
      BY <2>2, <1>t DEF QueueInv
    <3>2. CASE r2 = q
      <4>1. pending'[r1] = pending[r1]
        BY <2>2, <3>2, <1>7 DEF Queues
      <4> QED BY <3>1, <3>2, <4>1, <1>c, <1>d, <1>a DEF Below
    <3>3. CASE r1 = q
      <4>1. pending'[r2] = <<>>
        BY <2>2, <3>3, <1>2, <2>1 DEF Queues
      <4> QED BY <4>1, EmptyElements DEF Below
    <3>4. CASE r1 # q /\ r2 # q
      BY <3>1, <3>4, <1>7
    <3> QED BY <3>2, <3>3, <3>4
  <2>3. \A p \in Polls : polls'[p] # None => polls'[p].queue <= made'
    BY <1>t, <1>9, <1>2 DEF QueueInv, TypeOK, Poll, Queues
  <2> QED BY <2>1, <2>2, <2>3 DEF QueueInv
<1>13. RelayInv'
  <2>1. ASSUME NEW s \in Shims, shims[s] # None, shims[s].batch \in Seq(1 .. accepted)
        PROVE  shims[s].batch \in Seq(1 .. n)
    BY <2>1, <1>a, Widen
  <2> QED BY <1>t, <1>a, <2>1 DEF RelayInv, Orderly
<1>14. FrontInv'
  <2> SUFFICES ASSUME NEW s \in Shims, NEW r \in Queues, Live(s)', Floor(s)' <= r
               PROVE  Below(Elements(heard[s]) \cup Elements(shims[s].batch), Elements(pending'[r]))
    BY <1>a DEF FrontInv
  <2>1. Live(s) /\ Floor(s)' = Floor(s)
    <3>1. At(s, "poll") => shims[s].poll \in Polls /\ polls[shims[s].poll] # None
      BY <1>t DEF CallerInv, TypeOK
    <3> QED BY <3>1, <1>a, <1>2, <1>9 DEF Floor, At, Live
  <2>2. Below(Elements(heard[s]) \cup Elements(shims[s].batch), Elements(pending[r]))
    BY <2>1, <1>t DEF FrontInv
  <2>3. shims[s].batch \in Seq(1 .. accepted)
    BY <2>1, <1>t DEF RelayInv, Orderly, Live
  <2>4. Elements(heard[s]) \cup Elements(shims[s].batch) \subseteq 1 .. accepted
    BY <2>3, <1>e, ElementsIn
  <2>5. CASE r = q
    BY <2>2, <2>4, <2>5, <1>c, <1>a DEF Below
  <2>6. CASE r # q
    BY <2>2, <2>6, <1>7
  <2> QED BY <2>5, <2>6
<1> QED BY <1>10, <1>11, <1>12, <1>13, <1>14 DEF Inv

----------------------------------------------------------------------------
(* What the steps of polls and relays have in common *)

LEMMA Floors ==
    ASSUME TypeOK, CallerInv, QueueInv
    PROVE  /\ Newest \in Nat /\ made <= Newest
           /\ \A s \in Shims : Floor(s) \in Nat /\ Floor(s) <= Newest
<1>1. made \in Nat /\ Newest \in Nat /\ made <= Newest
  BY QueueAssumption DEF TypeOK, Newest
<1>2. \A p \in Polls : polls[p] # None => polls[p].queue \in Nat /\ polls[p].queue <= made
  BY QueueAssumption DEF TypeOK, QueueInv, Poll, Queues
<1>3. \A s \in Shims : At(s, "poll") => shims[s].poll \in Polls /\ polls[shims[s].poll] # None
  BY DEF TypeOK, CallerInv
<1> QED BY <1>1, <1>2, <1>3 DEF Floor

\* Queues that are emptied, or not touched, stay in order.
LEMMA QueuesKept ==
    ASSUME QueueInv, TypeOK, made' \in Nat, made <= made',
           \A q \in Queues : pending'[q] = pending[q] \/ pending'[q] = <<>>,
           \A p \in Polls : polls'[p] = None \/ polls'[p].queue <= made'
    PROVE  QueueInv'
<1>1. Rising(<<>>)
  BY DEF Rising
<1>2. \A q \in Queues : Rising(pending'[q]) /\ (q > made' => pending'[q] = <<>>)
  <2>1. \A q \in Queues : q > made' => q > made
    BY QueueAssumption DEF TypeOK, Queues
  <2> QED BY <1>1, <2>1 DEF QueueInv
<1>3. ASSUME NEW q \in Queues, NEW r \in Queues, q < r
      PROVE  Below(Elements(pending'[q]), Elements(pending'[r]))
  BY <1>3, EmptyElements DEF QueueInv, Below
<1> QED BY <1>2, <1>3 DEF QueueInv

\* A relay that has been given nothing new, and has gone on to newer queues.
Aged(s) ==
    Live(s)' => /\ Live(s) /\ Floor(s) <= Floor(s)'
                /\ Elements(heard'[s]) \cup Elements(shims'[s].batch)
                       \subseteq Elements(heard[s]) \cup Elements(shims[s].batch)

LEMMA FrontKept ==
    ASSUME FrontInv, NEW s \in Shims, NEW q \in Queues, Aged(s),
           Floor(s) \in Nat, Floor(s)' \in Nat,
           pending'[q] = pending[q] \/ pending'[q] = <<>>,
           Live(s)', Floor(s)' <= q
    PROVE  Below(Elements(heard'[s]) \cup Elements(shims'[s].batch), Elements(pending'[q]))
<1>1. Live(s) /\ Floor(s) <= q /\ q \in Nat
  BY QueueAssumption DEF Aged, Queues
<1>2. Below(Elements(heard[s]) \cup Elements(shims[s].batch), Elements(pending[q]))
  BY <1>1 DEF FrontInv
<1> QED BY <1>2, EmptyElements DEF Aged, Below

\* No relay is given anything, and one that starts has nothing.
LEMMA FrontsKept ==
    ASSUME TypeOK, CallerInv, QueueInv, FrontInv,
           \A s \in Shims : \/ Aged(s) /\ Floor(s)' \in Nat
                           \/ Elements(heard'[s]) \cup Elements(shims'[s].batch) = {},
           \A q \in Queues : pending'[q] = pending[q] \/ pending'[q] = <<>>
    PROVE  FrontInv'
<1> SUFFICES ASSUME NEW s \in Shims, NEW q \in Queues, Live(s)', Floor(s)' <= q
             PROVE  Below(Elements(heard'[s]) \cup Elements(shims'[s].batch), Elements(pending'[q]))
  BY DEF FrontInv
<1>1. CASE Elements(heard'[s]) \cup Elements(shims'[s].batch) = {}
  BY <1>1 DEF Below
<1>2. CASE Aged(s) /\ Floor(s)' \in Nat
  <2>1. Floor(s) \in Nat
    BY Floors
  <2> QED BY <1>2, <2>1, FrontKept
<1> QED BY <1>1, <1>2

\* A relay goes on, with what it had in hand, and waits for nobody.
LEMMA MovesOn ==
    ASSUME Inv, NEW s \in Shims, Live(s), NEW where \in {"idle", "backoff"},
           NEW r \in Polls \cup {None}, shims[s].at # "emit",
           shims' = [shims EXCEPT ![s].at = where, ![s].poll = r],
           UNCHANGED <<sessionVars, queueVars, polls, heard, lost>>, faults' \in Nat
    PROVE  Inv'
<1>t. TypeOK /\ CallerInv /\ QueueInv /\ RelayInv /\ FrontInv
  BY DEF Inv
<1>u. /\ UNCHANGED <<status, token, row, container, provisioning>>
      /\ UNCHANGED <<current, made, pending, accepted, polls, heard, lost>>
  BY DEF sessionVars, queueVars
<1>1. /\ shims' \in [Shims -> Shim \cup {None}]
      /\ shims'[s] # None /\ shims'[s].at = where /\ shims'[s].batch = shims[s].batch
      /\ \A t \in Shims \ {s} : shims'[t] = shims[t]
  <2>1. shims \in [Shims -> Shim \cup {None}] /\ shims[s] \in Shim
    BY <1>t DEF TypeOK, Live
  <2>2. [shims[s] EXCEPT !.at = where, !.poll = r] \in Shim
    BY <2>1 DEF Shim
  <2>3. shims'[s] = [shims[s] EXCEPT !.at = where, !.poll = r]
    BY <2>1
  <2>4. shims'[s] \in Shim /\ shims'[s].at = where /\ shims'[s].batch = shims[s].batch
    BY <2>1, <2>2, <2>3 DEF Shim
  <2> QED BY <2>1, <2>4, NoneAssumption
<1>2. \A t \in Shims : At(t, "poll")' => t # s /\ At(t, "poll")
  BY <1>1 DEF At
<1>3. TypeOK'
  BY <1>t, <1>u, <1>1, <1>2, ZenonT(60) DEF TypeOK
<1>4. CallerInv'
  BY <1>t, <1>1, <1>2 DEF CallerInv
<1>5. QueueInv'
  BY <1>t, <1>u DEF QueueInv
<1>6. RelayInv'
  BY <1>t, <1>u, <1>1 DEF RelayInv, Orderly, Live
<1>7. FrontInv'
  <2>1. \A t \in Shims : Aged(t) /\ Floor(t) \in Nat /\ Floor(t)' \in Nat
    <3>1. Newest' = Newest
      BY <1>u DEF Newest
    <3>2. \A t \in Shims : Floor(t) \in Nat /\ Floor(t) <= Newest /\ Newest \in Nat
      BY <1>t, Floors
    <3>3. Floor(s)' = Newest
      BY <1>1, <3>1 DEF Floor, At
    <3>4. \A t \in Shims \ {s} : Floor(t)' = Floor(t) /\ Live(t)' = Live(t)
      BY <1>1, <1>u, <3>1 DEF Floor, At, Live
    <3> QED BY <3>2, <3>3, <3>4, <1>u, <1>1 DEF Aged
  <2> QED BY <2>1, <1>t, <1>u, FrontKept DEF FrontInv
<1> QED BY <1>3, <1>4, <1>5, <1>6, <1>7 DEF Inv

LEMMA BackoffEndsStep == ASSUME Inv, NEW s \in Shims, BackoffEnds(s) PROVE Inv'
<1>1. shims[s] \in Shim
  BY DEF Inv, TypeOK, BackoffEnds, At
<1>2. shims' = [shims EXCEPT ![s].at = "idle", ![s].poll = shims[s].poll]
  <2>1. shims \in [Shims -> Shim \cup {None}]
    BY DEF Inv, TypeOK
  <2>2. [shims[s] EXCEPT !.at = "idle"] = [shims[s] EXCEPT !.at = "idle", !.poll = shims[s].poll]
    BY <1>1 DEF Shim
  <2> QED BY <2>1, <2>2 DEF BackoffEnds
<1>3. /\ Live(s) /\ shims[s].at # "emit" /\ shims[s].poll \in Polls \cup {None}
      /\ UNCHANGED <<sessionVars, queueVars, polls, heard, lost, faults>>
  BY <1>1 DEF BackoffEnds, At, Live, Shim
<1>4. faults' \in Nat
  BY <1>3 DEF Inv, TypeOK
<1> QED BY <1>2, <1>3, <1>4, MovesOn

LEMMA ConnectionBreaksStep == ASSUME Inv, NEW s \in Shims, ConnectionBreaks(s) PROVE Inv'
<1>1. /\ Live(s) /\ shims[s].at # "emit"
      /\ shims' = [shims EXCEPT ![s].at = "backoff", ![s].poll = None]
      /\ UNCHANGED <<sessionVars, queueVars, polls, heard, lost>>
      /\ faults' \in Nat
  BY DEF ConnectionBreaks, Refused, At, Live, Inv, TypeOK
<1> QED BY <1>1, MovesOn

----------------------------------------------------------------------------
(* Events are given to a relay *)

\* Events of a queue it may be given events from, which it thereby empties, or
\* none.
LEMMA GivenStep ==
    ASSUME Inv, NEW s \in Shims, Live(s), shims[s].at # "emit",
           NEW q \in Queues, Floor(s) <= q, q <= Newest, NEW batch,
           shims' = Given(s, batch),
           \/ batch = pending[q] /\ pending' = [pending EXCEPT ![q] = <<>>]
           \/ batch = <<>> /\ pending' = pending,
           \A p \in Polls : polls'[p] = None \/ polls'[p] = polls[p],
           polls' \in [Polls -> Poll \cup {None}],
           \A t \in Shims \ {s} : At(t, "poll") => polls'[shims[t].poll] = polls[shims[t].poll],
           UNCHANGED <<sessionVars, current, made, accepted, heard, lost, faults>>
    PROVE  Inv'
<1>t. TypeOK /\ CallerInv /\ QueueInv /\ RelayInv /\ FrontInv
  BY DEF Inv
<1>u. UNCHANGED <<status, token, row, container, provisioning, current, made, accepted,
                  heard, lost, faults>>
  BY DEF sessionVars
<1>0. /\ pending \in [Queues -> Seq(1 .. accepted)] /\ accepted \in Nat
      /\ <<>> \in Seq(1 .. accepted)
  BY <1>t DEF TypeOK
<1>1. /\ pending' \in [Queues -> Seq(1 .. accepted)]
      /\ \A r \in Queues : pending'[r] = pending[r] \/ pending'[r] = <<>>
      /\ batch # <<>> => batch = pending[q] /\ pending'[q] = <<>>
  <2>1. CASE batch = pending[q] /\ pending' = [pending EXCEPT ![q] = <<>>]
    <3>1. pending'[q] = <<>> /\ \A r \in Queues \ {q} : pending'[r] = pending[r]
      BY <1>0, <2>1
    <3>2. \A r \in Queues : pending'[r] \in Seq(1 .. accepted)
      BY <1>0, <3>1
    <3> QED BY <1>0, <2>1, <3>1, <3>2
  <2>2. CASE batch = <<>> /\ pending' = pending
    BY <1>0, <2>2
  <2> QED BY <2>1, <2>2
<1>2. /\ batch \in Seq(1 .. accepted) /\ batch \in Seq(Nat) /\ Rising(batch)
      /\ Elements(batch) \subseteq Elements(pending[q])
  <2>1. batch \in Seq(1 .. accepted) /\ (batch = <<>> \/ batch = pending[q])
    <3>1. batch = <<>> \/ batch = pending[q]
      OBVIOUS
    <3>2. pending[q] \in Seq(1 .. accepted)
      BY <1>0
    <3>3. CASE batch = <<>>
      BY <1>0, <3>3
    <3>4. CASE batch = pending[q]
      BY <3>2, <3>4
    <3> QED BY <3>1, <3>3, <3>4
  <2>2. Rising(<<>>) /\ Elements(<<>>) = {}
    BY EmptyElements DEF Rising
  <2>3. batch \in Seq(Nat)
    BY <2>1, <1>0
  <2> QED BY <2>1, <2>2, <2>3, <1>t DEF QueueInv
<1>3. shims \in [Shims -> Shim \cup {None}] /\ shims[s] \in Shim /\ shims[s] # None
  BY <1>t DEF TypeOK, Live
<1> DEFINE at == IF batch = <<>> THEN "idle" ELSE "emit"
           given == [shims[s] EXCEPT !.at = at, !.poll = None, !.batch = batch]
<1>4. given \in Shim /\ given.at = at /\ given.batch = batch
  BY <1>3, <1>2 DEF Shim
<1>5. shims' = [shims EXCEPT ![s] = given]
  BY <1>3 DEF Given
<1>6. /\ at \in {"idle", "emit"} /\ (at = "emit" <=> batch # <<>>)
  OBVIOUS
<1> HIDE DEF given, at
<1>7. /\ shims' \in [Shims -> Shim \cup {None}]
      /\ shims'[s] = given /\ shims'[s] # None
      /\ \A t \in Shims \ {s} : shims'[t] = shims[t]
  BY <1>3, <1>4, <1>5, NoneAssumption
<1>8. \A t \in Shims : At(t, "poll")' => t # s /\ At(t, "poll")
  BY <1>7, <1>4, <1>6 DEF At
<1>9. TypeOK'
  <2>1. \A t \in Shims : At(t, "poll")' => polls'[shims'[t].poll] # None
    BY <1>t, <1>7, <1>8 DEF TypeOK
  <2>2. ASSUME NEW p \in Polls, polls'[p] # None, pending'[polls'[p].queue] # <<>>
        PROVE  polls'[p].woken
    <3>1. polls'[p] = polls[p] /\ polls[p].queue \in Queues
      BY <2>2, <1>t DEF TypeOK, Poll
    <3> QED BY <3>1, <2>2, <1>1, <1>t DEF TypeOK
  <2>3. \A r \in Queues : Len(pending'[r]) <= QueueMax
    BY <1>1, <1>t, QueueAssumption DEF TypeOK
  <2> QED BY <1>t, <1>u, <1>1, <1>7, <2>1, <2>2, <2>3 DEF TypeOK
<1>10. CallerInv'
  BY <1>t, <1>7, <1>8 DEF CallerInv
<1>11. QueueInv'
  <2>1. made' = made /\ made \in Nat
    BY <1>t, <1>u, QueueAssumption DEF TypeOK
  <2>2. \A p \in Polls : polls'[p] = None \/ polls'[p].queue <= made'
    BY <2>1, <1>t DEF QueueInv
  <2> QED BY <2>1, <2>2, <1>t, <1>1, QueuesKept
<1>12. Below(Elements(heard[s]), Elements(batch))
  BY <1>t, <1>2 DEF FrontInv, Below
<1>13. RelayInv'
  <2>1. ASSUME NEW t \in Shims \ {s}
        PROVE  /\ Rising(heard'[t])
               /\ IF shims'[t] = None THEN heard'[t] = <<>> ELSE Orderly(shims[t], heard[t])'
    BY <1>t, <1>u, <1>7 DEF RelayInv, Orderly
  <2>2. Orderly(given, heard[s])
    BY <1>2, <1>4, <1>6, <1>12 DEF Orderly
  <2>3. Orderly(shims[s], heard[s])'
    BY <2>2, <1>u, <1>7 DEF Orderly
  <2> QED BY <2>1, <2>3, <1>7, <1>t, <1>u DEF RelayInv
<1>14. FrontInv'
  <2> SUFFICES ASSUME NEW t \in Shims, NEW r \in Queues, Live(t)', Floor(t)' <= r
               PROVE  Below(Elements(heard'[t]) \cup Elements(shims'[t].batch), Elements(pending'[r]))
    BY DEF FrontInv
  <2>1. Newest' = Newest /\ Newest \in Nat /\ \A x \in Shims : Floor(x) \in Nat
    BY <1>t, <1>u, Floors DEF Newest
  <2>2. CASE t = s
    <3>1. Floor(s)' = Newest
      BY <1>8, <2>1 DEF Floor
    <3>2. q <= r /\ Floor(s) <= r /\ q \in Nat /\ r \in Nat
      BY <3>1, <2>1, <2>2, QueueAssumption DEF Queues
    <3>3. Below(Elements(heard[s]), Elements(pending[r]))
      BY <3>2, <1>t DEF FrontInv, Below
    <3>4. Below(Elements(heard[s]), Elements(pending'[r]))
      BY <3>3, <1>1, EmptyElements DEF Below
    <3>5. Below(Elements(batch), Elements(pending'[r]))
      <4>1. CASE batch = <<>>
        BY <4>1, EmptyElements DEF Below
      <4>2. CASE batch # <<>> /\ r = q
        BY <4>2, <1>1, EmptyElements DEF Below
      <4>3. CASE batch # <<>> /\ r # q
        <5>1. Below(Elements(pending[q]), Elements(pending[r]))
          BY <3>2, <4>3, <1>t DEF QueueInv
        <5> QED BY <5>1, <1>2, <1>1, EmptyElements DEF Below
      <4> QED BY <4>1, <4>2, <4>3
    <3> QED BY <2>2, <3>4, <3>5, <1>u, <1>7, <1>4 DEF Below
  <2>3. CASE t # s
    <3>1. At(t, "poll") <=> At(t, "poll")'
      BY <2>3, <1>7 DEF At
    <3>2. At(t, "poll") => polls'[shims'[t].poll] = polls[shims[t].poll]
      BY <2>3, <1>7
    <3>3. Floor(t)' = Floor(t)
      BY <3>1, <3>2, <2>1 DEF Floor
    <3>4. Aged(t)
      BY <3>3, <2>1, <2>3, <1>7, <1>u DEF Aged, Live
    <3> QED BY <3>3, <3>4, <2>1, <1>1, <1>t, FrontKept
  <2> QED BY <2>2, <2>3
<1> QED BY <1>9, <1>10, <1>11, <1>13, <1>14 DEF Inv

----------------------------------------------------------------------------
(* Requests and their answers *)

\* Relays and what they were told stay as they are; queues may be emptied, and
\* requests nobody awaits end.
LEMMA RelaysKept ==
    ASSUME Inv, shims' = shims, heard' = heard, accepted' = accepted, made' = made,
           faults' = faults, TypeOK', Newest <= Newest',
           \A q \in Queues : pending'[q] = pending[q] \/ pending'[q] = <<>>,
           \A p \in Polls : polls'[p] = None \/ polls'[p] = polls[p],
           \A s \in Shims : At(s, "poll") => polls'[shims[s].poll] = polls[shims[s].poll]
    PROVE  Inv'
<1>t. TypeOK /\ CallerInv /\ QueueInv /\ RelayInv /\ FrontInv
  BY DEF Inv
<1>1. CallerInv'
  BY <1>t DEF CallerInv, At
<1>2. QueueInv'
  <2>1. made \in Nat /\ \A p \in Polls : polls'[p] = None \/ polls'[p].queue <= made'
    BY <1>t, QueueAssumption DEF QueueInv, TypeOK
  <2> QED BY <2>1, <1>t, QueuesKept
<1>3. RelayInv'
  BY <1>t DEF RelayInv, Orderly
<1>4. FrontInv'
  <2>1. Newest \in Nat /\ \A s \in Shims : Floor(s) \in Nat /\ Floor(s) <= Newest
    BY <1>t, Floors
  <2>2. Newest' \in Nat
    BY QueueAssumption DEF TypeOK, Newest
  <2>3. \A s \in Shims : Floor(s)' = IF At(s, "poll") THEN Floor(s) ELSE Newest'
    BY DEF Floor, At
  <2>4. \A s \in Shims : Aged(s) /\ Floor(s)' \in Nat
    BY <2>1, <2>2, <2>3 DEF Aged, Live
  <2> QED BY <2>4, <1>t, FrontsKept
<1> QED BY <1>1, <1>2, <1>3, <1>4 DEF Inv

\* The answer of a request, with what its queue holds or with nothing.
LEMMA AnswerStep ==
    ASSUME Inv, NEW p \in Polls, polls[p] # None, NEW batch, Answer(p, batch),
           \/ /\ batch = pending[polls[p].queue]
              /\ pending' = [pending EXCEPT ![polls[p].queue] = <<>>]
           \/ batch = <<>> /\ pending' = pending,
           UNCHANGED <<sessionVars, current, made, accepted, heard, faults>>
    PROVE  Inv'
<1>t. TypeOK /\ CallerInv /\ QueueInv /\ RelayInv /\ FrontInv
  BY DEF Inv
<1>1. polls \in [Polls -> Poll \cup {None}] /\ polls[p].queue \in Queues
  BY <1>t DEF TypeOK, Poll
<1>2. /\ polls' \in [Polls -> Poll \cup {None}] /\ polls'[p] = None
      /\ \A x \in Polls \ {p} : polls'[x] = polls[x]
  BY <1>1 DEF Answer
<1>3. \A t \in Shims : At(t, "poll") => shims[t].poll \in Polls
  BY <1>t DEF CallerInv
<1>4. CASE Callers(p) = {}
  <2>1. shims' = shims /\ lost' = [lost EXCEPT !["unheard"] = @ \cup Elements(batch)]
    BY <1>4 DEF Answer
  <2>2. /\ pending \in [Queues -> Seq(1 .. accepted)] /\ <<>> \in Seq(1 .. accepted)
        /\ batch \in Seq(1 .. accepted)
    <3>1. pending \in [Queues -> Seq(1 .. accepted)]
      BY <1>t DEF TypeOK
    <3>2. pending[polls[p].queue] \in Seq(1 .. accepted)
      BY <3>1, <1>1
    <3>3. batch = <<>> \/ batch = pending[polls[p].queue]
      OBVIOUS
    <3>4. <<>> \in Seq(1 .. accepted)
      OBVIOUS
    <3>5. CASE batch = <<>>
      BY <3>1, <3>4, <3>5
    <3>6. CASE batch = pending[polls[p].queue]
      BY <3>1, <3>2, <3>4, <3>6
    <3> QED BY <3>3, <3>5, <3>6
  <2>3. /\ pending' \in [Queues -> Seq(1 .. accepted)]
        /\ \A q \in Queues : pending'[q] = pending[q] \/ pending'[q] = <<>>
    <3>1. CASE pending' = [pending EXCEPT ![polls[p].queue] = <<>>]
      BY <3>1, <2>2
    <3>2. CASE pending' = pending
      BY <3>2, <2>2
    <3> QED BY <3>1, <3>2
  <2>4. lost' \in [Causes -> SUBSET (1 .. accepted)]
    <3>1. Elements(batch) \subseteq 1 .. accepted
      BY <2>2, ElementsIn
    <3> QED BY <3>1, <2>1, <1>t DEF TypeOK, Causes
  <2>5. \A t \in Shims : At(t, "poll") => shims[t].poll # p
    BY <1>4 DEF Callers
  <2>6. TypeOK'
    <3>1. \A t \in Shims : At(t, "poll")' => polls'[shims'[t].poll] # None
      BY <2>1, <2>5, <1>2, <1>3, <1>t DEF TypeOK, At
    <3>2. ASSUME NEW x \in Polls, polls'[x] # None, pending'[polls'[x].queue] # <<>>
          PROVE  polls'[x].woken
      <4>1. polls'[x] = polls[x] /\ polls[x].queue \in Queues
        BY <3>2, <1>2, <1>t DEF TypeOK, Poll
      <4> QED BY <4>1, <3>2, <2>3, <1>t DEF TypeOK
    <3>3. \A q \in Queues : Len(pending'[q]) <= QueueMax
      BY <2>3, <1>t, QueueAssumption DEF TypeOK
    <3> QED BY <1>t, <2>1, <2>3, <2>4, <1>2, <3>1, <3>2, <3>3 DEF TypeOK, sessionVars
  <2>7. Newest' = Newest /\ Newest \in Nat
    BY <1>t, Floors DEF Newest
  <2> QED BY <2>1, <2>3, <2>5, <2>6, <2>7, <1>2, <1>3, RelaysKept
<1>5. CASE Callers(p) # {}
  <2> DEFINE s == CHOOSE s \in Callers(p) : TRUE
  <2>1. s \in Callers(p)
    BY <1>5
  <2>2. s \in Shims /\ At(s, "poll") /\ shims[s].poll = p
    BY <2>1 DEF Callers
  <2>3. shims' = Given(s, batch) /\ lost' = lost
    BY <1>5 DEF Answer
  <2> HIDE DEF s
  <2>4. Live(s) /\ shims[s].at # "emit"
    BY <2>2 DEF At, Live
  <2> DEFINE q == polls[p].queue
  <2>5. q \in Queues /\ Floor(s) <= q /\ q <= Newest
    <3>1. Floor(s) = q
      BY <2>2 DEF Floor
    <3>2. Floor(s) \in Nat /\ Floor(s) <= Newest
      BY <2>2, <1>t, Floors
    <3> QED BY <3>1, <3>2, <1>1
  <2>6. \A t \in Shims \ {s} : At(t, "poll") => polls'[shims[t].poll] = polls[shims[t].poll]
    <3>1. \A t \in Shims \ {s} : At(t, "poll") => shims[t].poll # p
      BY <2>2, <1>t DEF CallerInv
    <3> QED BY <3>1, <1>2, <1>3
  <2>7. \A x \in Polls : polls'[x] = None \/ polls'[x] = polls[x]
    BY <1>2
  <2>8. \/ batch = pending[q] /\ pending' = [pending EXCEPT ![q] = <<>>]
        \/ batch = <<>> /\ pending' = pending
    OBVIOUS
  <2> HIDE DEF q
  <2> QED BY <2>2, <2>3, <2>4, <2>5, <2>6, <2>7, <2>8, <1>2, GivenStep
<1> QED BY <1>4, <1>5

LEMMA PollSteps == ASSUME Inv, NEW p \in Polls, PollStep(p) PROVE Inv'
<1>1. CASE Take(p)
  <2> DEFINE batch == pending[polls[p].queue]
  <2>1. /\ polls[p] # None /\ Answer(p, batch)
        /\ pending' = [pending EXCEPT ![polls[p].queue] = <<>>]
        /\ UNCHANGED <<sessionVars, current, made, accepted, heard, faults>>
    BY <1>1 DEF Take
  <2>2. batch = pending[polls[p].queue]
    OBVIOUS
  <2> HIDE DEF batch
  <2> QED BY <2>1, <2>2, AnswerStep
<1>2. CASE TimesOut(p)
  <2>1. /\ polls[p] # None /\ Answer(p, <<>>) /\ pending' = pending
        /\ UNCHANGED <<sessionVars, current, made, accepted, heard, faults>>
    BY <1>2 DEF TimesOut, queueVars
  <2> QED BY <2>1, AnswerStep
<1> QED BY <1>1, <1>2 DEF PollStep

\* A new request waits: for a queue at least as new as any its relay was given
\* events from.
LEMMA WaitStep ==
    ASSUME Inv, NEW s \in Shims, At(s, "idle"), NEW q \in Queues, Channel(q),
           pending[q] = <<>>, NEW p \in Polls, polls[p] = None,
           polls' = [polls EXCEPT ![p] = [queue |-> q, woken |-> FALSE]],
           shims' = [shims EXCEPT ![s].at = "poll", ![s].poll = p],
           UNCHANGED <<sessionVars, pending, accepted, heard, lost, faults>>
    PROVE  Inv'
<1>t. TypeOK /\ CallerInv /\ QueueInv /\ RelayInv /\ FrontInv
  BY DEF Inv
<1>u. UNCHANGED <<status, token, row, container, provisioning, pending, accepted, heard,
                  lost, faults>>
  BY DEF sessionVars
<1>1. /\ made' \in 0 .. MaxQueues /\ current' \in {0, made'} /\ current' = q /\ q <= made'
      /\ made \in Nat /\ made' \in Nat /\ made <= made' /\ q \in Nat \ {0}
      /\ Newest' = Newest /\ Newest = q
  BY <1>t, QueueAssumption DEF Channel, TypeOK, Queues, Newest
<1>2. shims \in [Shims -> Shim \cup {None}] /\ shims[s] \in Shim /\ shims[s].at = "idle"
  BY <1>t DEF TypeOK, At
<1> DEFINE shim == [shims[s] EXCEPT !.at = "poll", !.poll = p]
<1>3. shim \in Shim /\ shim.at = "poll" /\ shim.poll = p /\ shim.batch = shims[s].batch
  BY <1>2 DEF Shim
<1>4. /\ shims' \in [Shims -> Shim \cup {None}]
      /\ shims'[s] = shim /\ shim # None
      /\ \A t \in Shims \ {s} : shims'[t] = shims[t]
  BY <1>2, <1>3, NoneAssumption
<1> HIDE DEF shim
<1>5. /\ polls' \in [Polls -> Poll \cup {None}]
      /\ polls'[p] # None /\ polls'[p].queue = q
      /\ \A x \in Polls \ {p} : polls'[x] = polls[x]
  <2>1. [queue |-> q, woken |-> FALSE] \in Poll
    BY DEF Poll
  <2>2. polls \in [Polls -> Poll \cup {None}]
    BY <1>t DEF TypeOK
  <2> QED BY <2>1, <2>2, NoneAssumption
<1>6. \A t \in Shims \ {s} : At(t, "poll")' <=> At(t, "poll")
  BY <1>4 DEF At
<1>7. \A t \in Shims : At(t, "poll") => shims[t].poll \in Polls \ {p} /\ t # s
  BY <1>2, <1>t DEF CallerInv, TypeOK, At
<1>8. TypeOK'
  <2>1. \A t \in Shims : At(t, "poll")' => polls'[shims'[t].poll] # None
    BY <1>3, <1>4, <1>5, <1>6, <1>7, <1>t DEF TypeOK
  <2>2. ASSUME NEW x \in Polls, polls'[x] # None, pending'[polls'[x].queue] # <<>>
        PROVE  polls'[x].woken
    BY <2>2, <1>5, <1>u, <1>t DEF TypeOK
  <2> QED BY <1>t, <1>u, <1>1, <1>4, <1>5, <2>1, <2>2 DEF TypeOK
<1>9. CallerInv'
  BY <1>3, <1>4, <1>6, <1>7, <1>t DEF CallerInv
<1>10. QueueInv'
  <2>1. \A x \in Polls : polls'[x] = None \/ polls'[x].queue <= made'
    <3>1. \A x \in Polls : polls[x] # None => polls[x].queue <= made /\ polls[x].queue \in Nat
      BY <1>t, QueueAssumption DEF QueueInv, TypeOK, Poll, Queues
    <3> QED BY <3>1, <1>1, <1>5
  <2> QED BY <2>1, <1>1, <1>u, <1>t, QueuesKept
<1>11. RelayInv'
  <2>1. \A t \in Shims \ {s} : shims'[t] = None <=> shims[t] = None
    BY <1>4
  <2>2. shims[s] # None
    BY <1>2, NoneAssumption
  <2> QED BY <2>1, <2>2, <1>t, <1>u, <1>2, <1>3, <1>4, ZenonT(60) DEF RelayInv, Orderly
<1>12. FrontInv'
  <2>1. Newest \in Nat /\ \A t \in Shims : Floor(t) \in Nat /\ Floor(t) <= Newest
    BY <1>t, Floors
  <2>2. Floor(s)' = Newest
    BY <1>1, <1>3, <1>4, <1>5 DEF Floor, At
  <2>3. \A t \in Shims \ {s} : Floor(t)' = Floor(t) /\ (Live(t)' <=> Live(t))
    BY <1>1, <1>4, <1>5, <1>6, <1>7 DEF Floor, Live
  <2>4. Live(s)
    BY <1>2, NoneAssumption DEF Live
  <2>5. \A t \in Shims : Aged(t) /\ Floor(t)' \in Nat
    BY <2>1, <2>2, <2>3, <2>4, <1>3, <1>4, <1>u DEF Aged
  <2> QED BY <2>5, <1>u, <1>t, FrontsKept
<1> QED BY <1>8, <1>9, <1>10, <1>11, <1>12 DEF Inv

LEMMA PollArrivesStep == ASSUME Inv, NEW s \in Shims, PollArrives(s) PROVE Inv'
<1>t. TypeOK /\ CallerInv /\ QueueInv /\ RelayInv /\ FrontInv
  BY DEF Inv
<1>1. /\ At(s, "idle") /\ Live(s) /\ shims[s].at # "emit"
      /\ UNCHANGED <<sessionVars, accepted, heard, lost, faults>>
  BY DEF PollArrives, At, Live
<1>2. CASE status = "gone" \/ shims[s].token # token
  <2>1. /\ shims' = [shims EXCEPT ![s].at = "backoff", ![s].poll = None]
        /\ UNCHANGED <<sessionVars, queueVars, polls, heard, lost>> /\ faults' \in Nat
    BY <1>1, <1>2, <1>t DEF PollArrives, Refused, queueVars, TypeOK
  <2> QED BY <2>1, <1>1, MovesOn
<1>3. CASE ~(status = "gone" \/ shims[s].token # token)
  <2>1. PICK q \in Queues :
            /\ Channel(q)
            /\ IF pending[q] # <<>>
               THEN /\ shims' = Given(s, pending[q])
                    /\ pending' = [pending EXCEPT ![q] = <<>>]
                    /\ UNCHANGED polls
               ELSE \E p \in Fresh(polls) :
                    /\ polls' = [polls EXCEPT ![p] = [queue |-> q, woken |-> FALSE]]
                    /\ shims' = [shims EXCEPT ![s].at = "poll", ![s].poll = p]
                    /\ UNCHANGED pending
    BY <1>3 DEF PollArrives
  <2>2. CASE pending[q] # <<>>
    <3>1. q <= made
      BY <2>2, <1>t, QueueAssumption DEF QueueInv, TypeOK, Queues
    <3>2. current = q /\ UNCHANGED <<current, made>>
      BY <2>1, <3>1, <1>t, QueueAssumption DEF Channel, TypeOK
    <3>3. Newest = q
      BY <3>2, QueueAssumption DEF Newest, Queues
    <3>4. Floor(s) <= q /\ q <= Newest
      BY <3>3, <1>t, Floors
    <3>5. polls' = polls /\ polls' \in [Polls -> Poll \cup {None}]
      BY <2>1, <2>2, <1>t DEF TypeOK
    <3> DEFINE batch == pending[q]
    <3>6. /\ shims' = Given(s, batch)
          /\ batch = pending[q] /\ pending' = [pending EXCEPT ![q] = <<>>]
      BY <2>1, <2>2
    <3> HIDE DEF batch
    <3> QED BY <1>1, <3>2, <3>4, <3>5, <3>6, GivenStep
  <2>3. CASE pending[q] = <<>>
    <3>1. PICK p \in Fresh(polls) :
              /\ polls' = [polls EXCEPT ![p] = [queue |-> q, woken |-> FALSE]]
              /\ shims' = [shims EXCEPT ![s].at = "poll", ![s].poll = p]
              /\ UNCHANGED pending
      BY <2>1, <2>3
    <3>2. p \in Polls /\ polls[p] = None
      <4>1. DOMAIN polls = Polls
        BY <1>t DEF TypeOK
      <4> QED BY <4>1 DEF Fresh
    <3> QED BY <1>1, <2>1, <2>3, <3>1, <3>2, WaitStep
  <2> QED BY <2>2, <2>3
<1> QED BY <1>2, <1>3

----------------------------------------------------------------------------
(* The relay, the session and its container *)

LEMMA EmitStep == ASSUME Inv, NEW s \in Shims, Emit(s) PROVE Inv'
<1> DEFINE batch == shims[s].batch
           n == Head(batch)
<1>t. TypeOK /\ CallerInv /\ QueueInv /\ RelayInv /\ FrontInv
  BY DEF Inv
<1>u. UNCHANGED <<status, token, row, container, provisioning, current, made, pending,
                  accepted, polls, lost, faults>>
  BY DEF Emit, sessionVars, queueVars
<1>1. /\ At(s, "emit") /\ heard' = [heard EXCEPT ![s] = Append(@, n)]
      /\ shims' = Given(s, Tail(batch))
  BY DEF Emit
<1>2. /\ shims \in [Shims -> Shim \cup {None}] /\ shims[s] \in Shim /\ shims[s] # None
      /\ heard \in [Shims -> Seq(1 .. accepted)] /\ accepted \in Nat
  BY <1>1, <1>t DEF TypeOK, At
<1>3. /\ batch \in Seq(1 .. accepted) /\ batch # <<>> /\ Rising(batch)
      /\ Below(Elements(heard[s]), Elements(batch)) /\ Rising(heard[s])
  BY <1>1, <1>2, <1>t DEF RelayInv, Orderly, At
<1> HIDE DEF batch
<1>4. /\ n \in 1 .. accepted /\ Tail(batch) \in Seq(1 .. accepted)
      /\ Elements(batch) = Elements(Tail(batch)) \cup {n}
  BY <1>3, TailElements
<1>5. /\ Rising(Tail(batch)) /\ \A e \in Elements(Tail(batch)) : n < e
  BY <1>2, <1>3, RisingTail
<1>6. Tail(batch) \in Seq(Nat)
  BY <1>2, <1>4
<1> DEFINE told == Append(heard[s], n)
           at == IF Tail(batch) = <<>> THEN "idle" ELSE "emit"
           shim == [shims[s] EXCEPT !.at = at, !.poll = None, !.batch = Tail(batch)]
<1>7. /\ told \in Seq(1 .. accepted)
      /\ Elements(told) = Elements(heard[s]) \cup {n}
      /\ Rising(told)
  <2>1. heard[s] \in Seq(1 .. accepted)
    BY <1>2
  <2>2. told \in Seq(1 .. accepted) /\ Elements(told) = Elements(heard[s]) \cup {n}
    BY <2>1, <1>4, AppendElements
  <2>3. \A e \in Elements(heard[s]) : e < n
    BY <1>3, <1>4 DEF Below
  <2> QED BY <2>1, <2>2, <2>3, <1>2, <1>3, <1>4, RisingAppend
<1>8. shim \in Shim /\ shim.at = at /\ shim.batch = Tail(batch)
  BY <1>2, <1>6 DEF Shim
<1>9. shims' = [shims EXCEPT ![s] = shim]
  BY <1>1, <1>2 DEF Given
<1>10. heard' = [heard EXCEPT ![s] = told]
  BY <1>1
<1>11. at \in {"idle", "emit"} /\ (at = "emit" <=> Tail(batch) # <<>>)
  OBVIOUS
<1> HIDE DEF n, told, at, shim
<1>12. /\ shims' \in [Shims -> Shim \cup {None}] /\ shims'[s] = shim /\ shim # None
       /\ heard' \in [Shims -> Seq(1 .. accepted)] /\ heard'[s] = told
       /\ \A t \in Shims \ {s} : shims'[t] = shims[t] /\ heard'[t] = heard[t]
  BY <1>2, <1>7, <1>8, <1>9, <1>10, NoneAssumption
<1>13. \A t \in Shims : At(t, "poll")' <=> t # s /\ At(t, "poll")
  BY <1>1, <1>8, <1>11, <1>12 DEF At
<1>14. TypeOK'
  <2>1. \A t \in Shims : At(t, "poll")' => polls'[shims'[t].poll] # None
    BY <1>12, <1>13, <1>u, <1>t DEF TypeOK
  <2> QED BY <1>t, <1>u, <1>12, <2>1 DEF TypeOK
<1>15. CallerInv'
  BY <1>12, <1>13, <1>t DEF CallerInv
<1>16. QueueInv'
  BY <1>t, <1>u DEF QueueInv
<1>17. RelayInv'
  <2>1. Below(Elements(told), Elements(shim.batch))
    BY <1>3, <1>4, <1>5, <1>7, <1>8 DEF Below
  <2>2. Orderly(shims[s], heard[s])'
    BY <2>1, <1>4, <1>5, <1>8, <1>11, <1>u, <1>12 DEF Orderly
  <2> QED BY <2>2, <1>7, <1>12, <1>u, <1>t DEF RelayInv, Orderly
<1>18. FrontInv'
  <2>1. \A t \in Shims : Floor(t) \in Nat
    BY <1>t, Floors
  <2>2. \A t \in Shims : Floor(t)' = Floor(t)
    BY <1>12, <1>13, <1>u, <1>1 DEF Floor, Newest, At
  <2>3. Elements(heard'[s]) \cup Elements(shims'[s].batch)
            \subseteq Elements(heard[s]) \cup Elements(shims[s].batch)
    BY <1>4, <1>7, <1>8, <1>12 DEF batch
  <2>4. Live(s)
    BY <1>1 DEF At, Live
  <2>5. Aged(s)
    BY <2>1, <2>2, <2>3, <2>4 DEF Aged
  <2>6. \A t \in Shims \ {s} : Aged(t)
    BY <2>1, <2>2, <1>12 DEF Aged, Live
  <2>7. \A t \in Shims : Aged(t) /\ Floor(t)' \in Nat
    BY <2>1, <2>2, <2>5, <2>6
  <2> QED BY <2>7, <1>u, <1>t, FrontsKept
<1> QED BY <1>14, <1>15, <1>16, <1>17, <1>18 DEF Inv

LEMMA ShimStartsStep == ASSUME Inv, NEW s \in Shims, ShimStarts(s) PROVE Inv'
<1>t. TypeOK /\ CallerInv /\ QueueInv /\ RelayInv /\ FrontInv
  BY DEF Inv
<1>u. UNCHANGED <<status, token, row, container, provisioning, current, made, pending,
                  accepted, polls, heard, lost, faults>>
  BY DEF ShimStarts, sessionVars, queueVars
<1> DEFINE shim == [at |-> "idle", token |-> container, poll |-> None, batch |-> <<>>]
<1>1. /\ shims \in [Shims -> Shim \cup {None}] /\ shims[s] = None
      /\ shims' = [shims EXCEPT ![s] = shim]
  BY <1>t DEF TypeOK, ShimStarts, Fresh
<1>2. shim \in Shim /\ shim.at = "idle" /\ shim.batch = <<>>
  BY <1>t DEF Shim, TypeOK
<1> HIDE DEF shim
<1>3. /\ shims' \in [Shims -> Shim \cup {None}] /\ shims'[s] = shim /\ shim # None
      /\ \A t \in Shims \ {s} : shims'[t] = shims[t]
  BY <1>1, <1>2, NoneAssumption
<1>4. \A t \in Shims : At(t, "poll")' <=> At(t, "poll")
  BY <1>1, <1>2, <1>3 DEF At
<1>5. \A t \in Shims : At(t, "poll") => t # s
  BY <1>1 DEF At
<1>6. TypeOK'
  <2>1. \A t \in Shims : At(t, "poll")' => polls'[shims'[t].poll] # None
    BY <1>3, <1>4, <1>5, <1>u, <1>t DEF TypeOK
  <2> QED BY <1>t, <1>u, <1>3, <2>1 DEF TypeOK
<1>7. CallerInv'
  BY <1>3, <1>4, <1>5, <1>t DEF CallerInv
<1>8. QueueInv'
  BY <1>t, <1>u DEF QueueInv
<1>9. heard[s] = <<>> /\ Elements(<<>>) = {}
  BY <1>1, <1>t, EmptyElements DEF RelayInv
<1>10. RelayInv'
  <2>1. Orderly(shims[s], heard[s])'
    BY <1>2, <1>3, <1>9, <1>u, <1>t DEF Orderly, Rising, Below, TypeOK
  <2> QED BY <2>1, <1>3, <1>u, <1>t DEF RelayInv, Orderly
<1>11. FrontInv'
  <2>1. \A t \in Shims : Floor(t) \in Nat
    BY <1>t, Floors
  <2>2. \A t \in Shims \ {s} : Floor(t)' = Floor(t) /\ (Live(t)' <=> Live(t))
    BY <1>3, <1>4, <1>u DEF Floor, Newest, Live
  <2>3. \A t \in Shims \ {s} : Aged(t) /\ Floor(t)' \in Nat
    BY <2>1, <2>2, <1>3, <1>u DEF Aged
  <2>4. Elements(heard'[s]) \cup Elements(shims'[s].batch) = {}
    BY <1>2, <1>3, <1>9, <1>u
  <2> QED BY <2>3, <2>4, <1>u, <1>t, FrontsKept
<1> QED BY <1>6, <1>7, <1>8, <1>10, <1>11 DEF Inv

\* Relays die, with what they have in hand.
LEMMA DieAllStep ==
    ASSUME Inv, NEW dying \in SUBSET Shims, \A s \in dying : Live(s), DieAll(dying),
           UNCHANGED <<status, token, provisioning, queueVars, polls, heard, faults>>,
           row' \in BOOLEAN, container' \in 0 .. token
    PROVE  Inv'
<1>t. TypeOK /\ CallerInv /\ QueueInv /\ RelayInv /\ FrontInv
  BY DEF Inv
<1>u. UNCHANGED <<status, token, provisioning, current, made, pending, accepted, polls,
                  heard, faults>>
  BY DEF queueVars
<1>1. shims \in [Shims -> Shim \cup {None}] /\ \A s \in dying : shims[s] \in Shim
  BY <1>t DEF TypeOK, Live
<1>2. \A s \in Shims \ dying : shims'[s] = shims[s]
  BY DEF DieAll
<1>3. ASSUME NEW s \in dying
      PROVE  /\ shims'[s] \in Shim /\ shims'[s] # None
             /\ shims'[s].at = "ended" /\ shims'[s].batch = <<>>
  <2>1. shims'[s] = [shims[s] EXCEPT !.at = "ended", !.token = 0, !.poll = None, !.batch = <<>>]
    BY DEF DieAll
  <2>2. shims[s] \in [at : {"idle", "poll", "emit", "backoff", "ended"}, token : Nat,
                      poll : Polls \cup {None}, batch : Seq(Nat)]
    BY <1>1 DEF Shim
  <2>3. shims'[s] = [at |-> "ended", token |-> 0, poll |-> None, batch |-> <<>>]
    BY <2>1, <2>2
  <2>4. <<>> \in Seq(Nat)
    OBVIOUS
  <2>5. shims'[s] \in Shim
    BY <2>3, <2>4 DEF Shim
  <2> QED BY <2>3, <2>5, NoneAssumption
<1>4. shims' \in [Shims -> Shim \cup {None}]
  BY <1>1, <1>2, <1>3 DEF DieAll
<1>5. \A s \in Shims : At(s, "poll")' => At(s, "poll") /\ shims'[s] = shims[s]
  BY <1>2, <1>3 DEF At
<1>6. lost' \in [Causes -> SUBSET (1 .. accepted)]
  <2>1. \A s \in dying : Elements(shims[s].batch) \subseteq 1 .. accepted
    BY <1>1, <1>t, ElementsIn, ZenonT(60) DEF RelayInv, Orderly, Live
  <2>2. UNION {Elements(shims[s].batch) : s \in dying} \subseteq 1 .. accepted
    BY <2>1
  <2>3. lost' = [lost EXCEPT !["died"] = @ \cup UNION {Elements(shims[s].batch) : s \in dying}]
    BY DEF DieAll
  <2> QED BY <2>2, <2>3, <1>t DEF TypeOK, Causes
<1>7. TypeOK'
  <2>1. \A s \in Shims : At(s, "poll")' => polls'[shims'[s].poll] # None
    BY <1>5, <1>u, <1>t DEF TypeOK
  <2> QED BY <2>1, <1>4, <1>6, <1>u, <1>t DEF TypeOK
<1>8. CallerInv'
  BY <1>5, <1>t DEF CallerInv
<1>9. QueueInv'
  BY <1>t, <1>u DEF QueueInv
<1>10. RelayInv'
  <2>1. <<>> \in Seq(1 .. accepted) /\ Rising(<<>>) /\ Elements(<<>>) = {}
    BY EmptyElements DEF Rising
  <2>2. ASSUME NEW s \in dying PROVE Orderly(shims[s], heard[s])'
    BY <2>1, <1>3, <1>u DEF Orderly, Below
  <2>3. \A s \in dying : Rising(heard[s]) /\ shims'[s] # None
    BY <1>3, <1>t DEF RelayInv
  <2> QED BY <2>2, <2>3, <1>2, <1>u, <1>t DEF RelayInv, Orderly
<1>11. FrontInv'
  <2>1. \A s \in Shims : Floor(s) \in Nat
    BY <1>t, Floors
  <2>2. \A s \in Shims \ dying : Floor(s)' = Floor(s) /\ (Live(s)' <=> Live(s))
    BY <1>2, <1>u DEF Floor, Newest, Live, At
  <2>3. \A s \in dying : ~Live(s)' /\ Floor(s)' \in Nat
    <3>1. Newest \in Nat
      BY <1>t, Floors
    <3> QED BY <3>1, <1>3, <1>u DEF Floor, Newest, Live, At
  <2>4. \A s \in Shims : Aged(s) /\ Floor(s)' \in Nat
    BY <2>1, <2>2, <2>3, <1>2, <1>u DEF Aged
  <2> QED BY <2>4, <1>u, <1>t, FrontsKept
<1> QED BY <1>7, <1>8, <1>9, <1>10, <1>11 DEF Inv

LEMMA ShimEndsStep == ASSUME Inv, NEW s \in Shims, ShimEnds(s) PROVE Inv'
<1>1. /\ {s} \in SUBSET Shims /\ \A t \in {s} : Live(t)
      /\ DieAll({s})
      /\ UNCHANGED <<status, token, provisioning, queueVars, polls, heard, faults>>
      /\ row' \in BOOLEAN /\ container' \in 0 .. token
  BY DEF ShimEnds, sessionVars, Inv, TypeOK
<1> QED BY <1>1, DieAllStep

LEMMA ContainerEndsStep == Inv /\ ContainerEnds => Inv'
<1> SUFFICES ASSUME Inv, ContainerEnds PROVE Inv'
  OBVIOUS
<1> DEFINE dying == {s \in Shims : Live(s)}
<1>1. /\ dying \in SUBSET Shims /\ \A s \in dying : Live(s)
      /\ DieAll(dying)
      /\ UNCHANGED <<status, token, provisioning, queueVars, polls, heard, faults>>
  BY DEF ContainerEnds
<1>2. row' \in BOOLEAN /\ container' \in 0 .. token
  <2>1. token \in Nat /\ row \in BOOLEAN
    BY DEF Inv, TypeOK
  <2>2. container' = 0 /\ row' \in {row, FALSE}
    BY DEF ContainerEnds
  <2>3. row' \in BOOLEAN
    BY <2>1, <2>2, Zenon
  <2>4. container' \in 0 .. token
    BY <2>1, <2>2
  <2> QED BY <2>3, <2>4
<1> HIDE DEF dying
<1> QED BY <1>1, <1>2, DieAllStep

\* The queue is discarded, or the session or its container changes.
LEMMA SessionStep ==
    ASSUME Inv, Provision \/ Provisioned \/ RowCleared \/ Discard \/ Reopen
    PROVE  Inv'
<1>t. TypeOK
  BY DEF Inv
<1>1. UNCHANGED <<shims, heard, accepted, made, faults, pending, polls, lost>>
  BY DEF Provision, Provisioned, RowCleared, Discard, Reopen, queueVars, vars
<1>2. /\ status' \in {"active", "archived", "gone"}
      /\ token' \in Nat /\ container' \in 0 .. token'
      /\ row' \in BOOLEAN /\ provisioning' \in BOOLEAN
      /\ current' \in {0, made'} /\ (current' = current \/ current' = 0)
  <2>1. /\ status \in {"active", "archived", "gone"}
        /\ token \in Nat /\ container \in 0 .. token
        /\ row \in BOOLEAN /\ provisioning \in BOOLEAN
        /\ current \in {0, made}
    BY <1>t DEF TypeOK
  <2>2. CASE Provision
    BY <2>1, <2>2, <1>1 DEF Provision, queueVars
  <2>3. CASE Provisioned
    <3>1. container' = token \/ container' = container
      BY <2>3 DEF Provisioned, DockerRuns
    <3>2. row' \in BOOLEAN
      BY <2>3 DEF Provisioned
    <3>3. UNCHANGED <<status, token, current, made>> /\ provisioning' = FALSE
      BY <2>3 DEF Provisioned, queueVars
    <3>4. container' \in 0 .. token'
      BY <2>1, <3>1, <3>3
    <3> QED BY <2>1, <3>2, <3>3, <3>4
  <2>4. CASE RowCleared
    BY <2>1, <2>4, <1>1 DEF RowCleared, queueVars
  <2>5. CASE Discard
    BY <2>1, <2>5, <1>1 DEF Discard
  <2>6. CASE Reopen
    BY <2>1, <2>6, <1>1 DEF Reopen, queueVars
  <2> QED BY <2>2, <2>3, <2>4, <2>5, <2>6
<1>3. TypeOK'
  BY <1>t, <1>1, <1>2 DEF TypeOK, At
<1>4. Newest <= Newest'
  BY <1>t, <1>1, <1>2, QueueAssumption DEF TypeOK, Newest
<1>5. UNCHANGED shims /\ UNCHANGED heard
  BY <1>1
<1> QED BY <1>1, <1>3, <1>4, <1>5, RelaysKept

LEMMA RestartStep == Inv /\ Restart => Inv'
<1> SUFFICES ASSUME Inv, Restart PROVE Inv'
  OBVIOUS
<1>t. TypeOK /\ CallerInv /\ QueueInv /\ RelayInv /\ FrontInv
  BY DEF Inv
<1>u. UNCHANGED <<status, token, made, pending, accepted, heard, lost>>
  BY DEF Restart
<1>1. shims \in [Shims -> Shim \cup {None}]
  BY <1>t DEF TypeOK
<1>2. \A s \in Shims : ~At(s, "poll") => shims'[s] = shims[s]
  BY DEF Restart
<1>3. ASSUME NEW s \in Shims, At(s, "poll")
      PROVE  /\ shims[s] # None /\ shims'[s] \in Shim /\ shims'[s] # None
             /\ shims'[s].at = "backoff" /\ shims'[s].batch = shims[s].batch
  <2>1. shims'[s] = [shims[s] EXCEPT !.at = "backoff", !.poll = None]
    BY <1>3 DEF Restart
  <2>2. shims[s] \in Shim /\ shims[s] # None
    BY <1>1, <1>3 DEF At
  <2>3. shims'[s] \in Shim /\ shims'[s].at = "backoff" /\ shims'[s].batch = shims[s].batch
    BY <2>1, <2>2 DEF Shim
  <2> QED BY <2>2, <2>3, NoneAssumption
<1>4. /\ shims' \in [Shims -> Shim \cup {None}]
      /\ polls' = [p \in Polls |-> None] /\ polls' \in [Polls -> Poll \cup {None}]
  BY <1>1, <1>2, <1>3 DEF Restart
<1>5. \A s \in Shims : ~At(s, "poll")'
  BY <1>2, <1>3 DEF At
<1>6. TypeOK'
  <2>1. /\ container' \in 0 .. token' /\ row' \in BOOLEAN /\ provisioning' \in BOOLEAN
        /\ current' \in {0, made'} /\ faults' \in Nat
    <3>1. /\ token \in Nat /\ container \in 0 .. token
          /\ row \in BOOLEAN /\ faults \in Nat
      BY <1>t DEF TypeOK
    <3>2. /\ container' = token \/ container' = container
          /\ row' \in {row, FALSE}
          /\ provisioning' = FALSE /\ current' = 0 /\ faults' = faults + 1
      BY DEF Restart, DockerRuns
    <3>3. row' \in BOOLEAN
      BY <3>1, <3>2, Zenon
    <3>4. container' \in 0 .. token' /\ faults' \in Nat
      BY <3>1, <3>2, <1>u
    <3> QED BY <3>2, <3>3, <3>4
  <2>2. \A p \in Polls : polls'[p] = None
    BY <1>4
  <2> QED BY <1>t, <1>u, <1>4, <1>5, <2>1, <2>2 DEF TypeOK
<1>7. CallerInv'
  BY <1>5 DEF CallerInv
<1>8. QueueInv'
  BY <1>t, <1>u, <1>4 DEF QueueInv
<1>9. RelayInv'
  <2>1. ASSUME NEW s \in Shims, At(s, "poll") PROVE Orderly(shims[s], heard[s])'
    <3>1. Orderly(shims[s], heard[s])
      BY <2>1, <1>3, <1>t DEF RelayInv
    <3>2. shims[s].batch = <<>>
      BY <2>1, <3>1 DEF Orderly, At
    <3> QED BY <3>1, <3>2, <2>1, <1>3, <1>u DEF Orderly
  <2> QED BY <2>1, <1>2, <1>3, <1>u, <1>t DEF RelayInv, Orderly
<1>10. FrontInv'
  <2>1. Newest \in Nat /\ \A s \in Shims : Floor(s) \in Nat /\ Floor(s) <= Newest
    BY <1>t, Floors
  <2>2. Newest' \in Nat /\ Newest <= Newest'
    <3>1. current' = 0 /\ made' = made /\ made \in Nat /\ current \in {0, made}
      <4>1. current' = 0 /\ made' = made
        BY DEF Restart
      <4> QED BY <4>1, <1>t, QueueAssumption DEF TypeOK
    <3> QED BY <3>1 DEF Newest
  <2>3. \A s \in Shims : Floor(s)' = Newest'
    BY <1>5 DEF Floor
  <2>4. \A s \in Shims : Live(s)' => Live(s) /\ shims'[s].batch = shims[s].batch
    BY <1>2, <1>3 DEF Live, At
  <2>5. \A s \in Shims : Aged(s) /\ Floor(s)' \in Nat
    BY <2>1, <2>2, <2>3, <2>4, <1>u DEF Aged
  <2> QED BY <2>5, <1>u, <1>t, FrontsKept
<1> QED BY <1>6, <1>7, <1>8, <1>9, <1>10 DEF Inv

LEMMA StutterStep == Inv /\ UNCHANGED vars => Inv'
<1> SUFFICES ASSUME Inv, UNCHANGED vars PROVE Inv'
  OBVIOUS
<1>1. TypeOK' /\ Newest <= Newest'
  BY QueueAssumption DEF vars, Inv, TypeOK, At, Newest
<1> QED BY <1>1, RelaysKept DEF vars

\* Every step keeps the invariant.
THEOREM InvStep == Inv /\ [Next]_vars => Inv'
<1> SUFFICES ASSUME Inv, [Next]_vars PROVE Inv'
  OBVIOUS
<1>1. CASE Deliver
  BY <1>1, DeliverStep
<1>2. ASSUME NEW s \in Shims,
             ShimStep(s) \/ ConnectionBreaks(s) \/ ShimStarts(s) \/ ShimEnds(s)
      PROVE  Inv'
  BY <1>2, PollArrivesStep, EmitStep, BackoffEndsStep, ConnectionBreaksStep, ShimStartsStep,
     ShimEndsStep DEF ShimStep
<1>3. ASSUME NEW p \in Polls, PollStep(p) PROVE Inv'
  BY <1>3, PollSteps
<1>4. CASE Provision \/ Provisioned \/ RowCleared \/ Discard \/ Reopen
  BY <1>4, SessionStep
<1>5. CASE ContainerEnds
  BY <1>5, ContainerEndsStep
<1>6. CASE Restart
  BY <1>6, RestartStep
<1>7. CASE UNCHANGED vars
  BY <1>7, StutterStep
<1> QED BY <1>1, <1>2, <1>3, <1>4, <1>5, <1>6, <1>7 DEF Next

\* A channel's invariant holds throughout, for any numbers of everything.
THEOREM Invariance == Spec => []Inv
<1> QED BY InitInv, InvStep, PTL DEF Spec

\* The types; and whoever waits for a queue with events has been woken.
THEOREM ChannelTypeOK == Spec => []TypeOK
<1>1. Inv => TypeOK
  BY DEF Inv
<1> QED BY <1>1, Invariance, PTL

----------------------------------------------------------------------------
(* Events are told in order *)

LEMMA ToldStep == Inv /\ [Next]_vars => [Feed!Next]_(Feed!feedVars)
<1> SUFFICES ASSUME Inv, [Next]_vars PROVE [Feed!Next]_(Feed!feedVars)
  OBVIOUS
<1>1. CASE Deliver
  BY <1>1 DEF Deliver, Feed!Next, Feed!Publish
<1>2. ASSUME NEW s \in Shims, Emit(s) PROVE Feed!Show(s)
  <2> DEFINE batch == shims[s].batch
             n == Head(batch)
  <2>1. /\ heard' = [heard EXCEPT ![s] = Append(@, n)] /\ UNCHANGED accepted
        /\ shims[s] # None /\ shims[s].at = "emit"
    BY <1>2 DEF Emit, queueVars, At
  <2>2. /\ batch \in Seq(1 .. accepted) /\ batch # <<>>
        /\ Below(Elements(heard[s]), Elements(batch))
        /\ heard[s] \in Seq(1 .. accepted)
    BY <2>1 DEF Inv, RelayInv, Orderly, TypeOK
  <2> HIDE DEF batch
  <2>3. n \in 1 .. accepted /\ n \in Elements(batch)
    BY <2>2, TailElements, ZenonT(60)
  <2> HIDE DEF n
  <2>4. /\ heard[s] # <<>> => heard[s][Len(heard[s])] \in Elements(heard[s])
        /\ heard[s] # <<>> => heard[s][Len(heard[s])] \in Nat
    <3>1. heard[s] # <<>> => Len(heard[s]) \in 1 .. Len(heard[s])
      BY <2>2
    <3>2. Elements(heard[s]) \subseteq 1 .. accepted
      BY <2>2, ElementsIn
    <3>3. heard[s] # <<>> => heard[s][Len(heard[s])] \in Elements(heard[s])
      BY <3>1 DEF Elements
    <3>4. accepted \in Nat
      BY DEF Inv, TypeOK
    <3> QED BY <3>2, <3>3, <3>4
  <2>5. Feed!LastShown(s) \in Nat /\ Feed!LastShown(s) < n
    BY <2>2, <2>3, <2>4 DEF Below, Feed!LastShown
  <2>6. n \in Feed!LastShown(s) + 1 .. accepted
    BY <2>3, <2>5
  <2> QED BY <2>1, <2>6 DEF Feed!Show
<1>3. CASE \E s \in Shims : Emit(s)
  BY <1>2, <1>3 DEF Feed!Next
<1>4. ASSUME NEW s \in Shims,
             PollArrives(s) \/ BackoffEnds(s) \/ ConnectionBreaks(s) \/ ShimStarts(s) \/ ShimEnds(s)
      PROVE  UNCHANGED <<accepted, heard>>
  BY <1>4 DEF PollArrives, BackoffEnds, ConnectionBreaks, ShimStarts, ShimEnds, queueVars
<1>5. ASSUME NEW p \in Polls, PollStep(p) PROVE UNCHANGED <<accepted, heard>>
  BY <1>5 DEF PollStep, Take, TimesOut, queueVars
<1>6. ASSUME Provision \/ Provisioned \/ ContainerEnds \/ RowCleared \/ Discard \/ Reopen \/ Restart
      PROVE  UNCHANGED <<accepted, heard>>
  BY <1>6 DEF Provision, Provisioned, ContainerEnds, RowCleared, Discard, Reopen, Restart, queueVars
<1>7. ASSUME UNCHANGED vars PROVE UNCHANGED <<accepted, heard>>
  BY <1>7 DEF vars
<1> QED BY <1>1, <1>3, <1>4, <1>5, <1>6, <1>7 DEF Next, ShimStep, Feed!feedVars

\* A harness is told events in the order they were delivered, none twice: the
\* channel implements OrderedFeed.
THEOREM ChannelToldInOrder == Spec => ToldInOrder
<1>1. Init => Feed!Init
  BY DEF Init, Feed!Init
<1> QED BY <1>1, ToldStep, Invariance, PTL DEF Spec, ToldInOrder, Feed!Spec

----------------------------------------------------------------------------
(* Every event is in one place *)

Placed(n) == \E place \in Places : \A other \in Places : Holds(other, n) <=> other = place

Hands(s) == IF shims[s] = None THEN {} ELSE Elements(shims[s].batch)

LEMMA Kinds ==
    ASSUME NEW place \in Places
    PROVE  \/ \E q \in Queues : place = <<"queued", q>>
           \/ \E s \in Shims : place = <<"given", s>>
           \/ \E s \in Shims : place = <<"heard", s>>
           \/ \E c \in Causes : place = <<"lost", c>>
BY DEF Places

LEMMA PlacesAre ==
    /\ \A q \in Queues : <<"queued", q>> \in Places
    /\ \A s \in Shims : <<"given", s>> \in Places /\ <<"heard", s>> \in Places
    /\ \A c \in Causes : <<"lost", c>> \in Places
BY DEF Places

LEMMA HoldsAre ==
    ASSUME NEW n
    PROVE  /\ \A q \in Queues : Holds(<<"queued", q>>, n) <=> n \in Elements(pending[q])
           /\ \A s \in Shims : /\ Holds(<<"given", s>>, n) <=> n \in Hands(s)
                               /\ Holds(<<"heard", s>>, n) <=> n \in Elements(heard[s])
           /\ \A c \in Causes : Holds(<<"lost", c>>, n) <=> n \in lost[c]
BY DEF Holds, Hands

LEMMA HoldsAreNext ==
    ASSUME NEW n
    PROVE  /\ \A q \in Queues : Holds(<<"queued", q>>, n)' <=> n \in Elements(pending'[q])
           /\ \A s \in Shims : /\ Holds(<<"given", s>>, n)' <=> n \in Hands(s)'
                               /\ Holds(<<"heard", s>>, n)' <=> n \in Elements(heard'[s])
           /\ \A c \in Causes : Holds(<<"lost", c>>, n)' <=> n \in lost'[c]
BY DEF Holds, Hands

\* The events of M move, from the places src to dst, and no other does.
LEMMA Transfer ==
    ASSUME NEW n, Placed(n), NEW M, NEW src \in SUBSET Places, NEW dst \in Places \ src,
           n \in M => \E place \in src : Holds(place, n),
           \A place \in Places :
               Holds(place, n)' <=> IF place = dst THEN Holds(place, n) \/ n \in M
                                    ELSE IF place \in src THEN Holds(place, n) /\ n \notin M
                                    ELSE Holds(place, n)
    PROVE  Placed(n)'
<1>1. PICK place \in Places : \A other \in Places : Holds(other, n) <=> other = place
  BY DEF Placed
<1>2. CASE n \in M
  <2>1. place \in src /\ place # dst
    BY <1>1, <1>2
  <2>2. \A other \in Places : Holds(other, n)' <=> other = dst
    BY <1>1, <1>2, <2>1
  <2> QED BY <2>2 DEF Placed
<1>3. CASE n \notin M
  <2>1. \A other \in Places : Holds(other, n)' <=> other = place
    BY <1>1, <1>3
  <2> QED BY <2>1 DEF Placed
<1> QED BY <1>2, <1>3

\* No event moves.
LEMMA Unmoved ==
    ASSUME EventsAccounted, accepted' = accepted,
           \A q \in Queues : pending'[q] = pending[q],
           \A s \in Shims : Hands(s)' = Hands(s) /\ heard'[s] = heard[s],
           \A c \in Causes : lost'[c] = lost[c]
    PROVE  EventsAccounted'
<1>1. ASSUME NEW n, NEW place \in Places PROVE Holds(place, n)' <=> Holds(place, n)
  <2>1. CASE \E q \in Queues : place = <<"queued", q>>
    BY <2>1, HoldsAre, HoldsAreNext
  <2>2. CASE \E s \in Shims : place = <<"given", s>>
    BY <2>2, HoldsAre, HoldsAreNext
  <2>3. CASE \E s \in Shims : place = <<"heard", s>>
    BY <2>3, HoldsAre, HoldsAreNext
  <2>4. CASE \E c \in Causes : place = <<"lost", c>>
    BY <2>4, HoldsAre, HoldsAreNext
  <2> QED BY <2>1, <2>2, <2>3, <2>4, Kinds
<1> QED BY <1>1 DEF EventsAccounted

\* A request or a relay that goes on moves nothing.
LEMMA HandsKept ==
    ASSUME TypeOK, NEW s \in Shims, shims[s] # None, NEW shim \in Shim,
           shims' = [shims EXCEPT ![s] = shim]
    PROVE  /\ Hands(s)' = Elements(shim.batch)
           /\ \A t \in Shims \ {s} : Hands(t)' = Hands(t)
<1>1. shims'[s] = shim /\ \A t \in Shims \ {s} : shims'[t] = shims[t]
  BY DEF TypeOK
<1> QED BY <1>1, NoneAssumption DEF Hands

\* What a relay has is what it had, with the events of its answer.
LEMMA GivenHands ==
    ASSUME Inv, NEW s \in Shims, Live(s), NEW batch \in Seq(1 .. accepted), shims' = Given(s, batch)
    PROVE  /\ Hands(s)' = Elements(batch)
           /\ \A t \in Shims \ {s} : Hands(t)' = Hands(t)
<1>1. TypeOK /\ shims[s] # None /\ shims[s] \in Shim /\ accepted \in Nat
  BY DEF Inv, TypeOK, Live
<1>2. batch \in Seq(Nat)
  BY <1>1
<1> DEFINE shim == [shims[s] EXCEPT !.at = IF batch = <<>> THEN "idle" ELSE "emit",
                                    !.poll = None, !.batch = batch]
<1>3. shim \in Shim /\ shim.batch = batch
  BY <1>1, <1>2 DEF Shim
<1>4. shims' = [shims EXCEPT ![s] = shim]
  BY <1>1 DEF Given, TypeOK
<1> HIDE DEF shim
<1> QED BY <1>1, <1>3, <1>4, HandsKept

\* The events of a queue are given to a relay that has none.
LEMMA GivenAccounted ==
    ASSUME Inv, EventsAccounted, NEW s \in Shims, Live(s), shims[s].at # "emit",
           NEW q \in Queues,
           shims' = Given(s, pending[q]), pending' = [pending EXCEPT ![q] = <<>>],
           UNCHANGED <<accepted, heard, lost>>
    PROVE  EventsAccounted'
<1>1. pending \in [Queues -> Seq(1 .. accepted)] /\ pending[q] \in Seq(1 .. accepted)
  BY DEF Inv, TypeOK
<1>2. Hands(s) = {}
  <2>1. shims[s].batch = <<>>
    BY DEF Inv, RelayInv, Orderly, Live
  <2> QED BY <2>1, EmptyElements DEF Hands
<1>3. Hands(s)' = Elements(pending[q]) /\ \A t \in Shims \ {s} : Hands(t)' = Hands(t)
  BY <1>1, GivenHands
<1>4. Elements(pending'[q]) = {} /\ \A r \in Queues \ {q} : pending'[r] = pending[r]
  BY <1>1, EmptyElements
<1> DEFINE src == {<<"queued", q>>}
           dst == <<"given", s>>
           M == Elements(pending[q])
<1>5. ASSUME NEW n, NEW place \in Places
      PROVE  Holds(place, n)' <=> IF place = dst THEN Holds(place, n) \/ n \in M
                                  ELSE IF place \in src THEN Holds(place, n) /\ n \notin M
                                  ELSE Holds(place, n)
  <2>1. ASSUME NEW r \in Queues, place = <<"queued", r>>
        PROVE  Holds(place, n)' <=> Holds(place, n) /\ ~(place \in src /\ n \in M)
    BY <2>1, <1>4, HoldsAre, HoldsAreNext
  <2>2. ASSUME NEW t \in Shims, place = <<"given", t>>
        PROVE  Holds(place, n)' <=> Holds(place, n) \/ (place = dst /\ n \in M)
    <3>1. /\ Holds(place, n)' <=> n \in Hands(t)'
          /\ Holds(place, n) <=> n \in Hands(t)
          /\ place = dst <=> t = s
      BY <2>2, HoldsAre, HoldsAreNext
    <3>2. CASE t = s
      BY <3>1, <3>2, <1>2, <1>3
    <3>3. CASE t # s
      BY <3>1, <3>3, <1>3
    <3> QED BY <3>2, <3>3
  <2>3. ASSUME NEW t \in Shims, place = <<"heard", t>>
        PROVE  Holds(place, n)' <=> Holds(place, n)
    BY <2>3, HoldsAre, HoldsAreNext
  <2>4. ASSUME NEW c \in Causes, place = <<"lost", c>>
        PROVE  Holds(place, n)' <=> Holds(place, n)
    BY <2>4, HoldsAre, HoldsAreNext
  <2> QED BY <2>1, <2>2, <2>3, <2>4, Kinds
<1>6. src \in SUBSET Places /\ dst \in Places \ src
  BY PlacesAre
<1>7. \A n : n \in M => \E place \in src : Holds(place, n)
  BY HoldsAre
<1> HIDE DEF src, dst, M
<1>8. ASSUME NEW n \in 1 .. accepted, Placed(n) PROVE Placed(n)'
  <2>1. n \in M => \E place \in src : Holds(place, n)
    BY <1>7
  <2>2. \A place \in Places :
            Holds(place, n)' <=> IF place = dst THEN Holds(place, n) \/ n \in M
                                 ELSE IF place \in src THEN Holds(place, n) /\ n \notin M
                                 ELSE Holds(place, n)
    BY <1>5
  <2> QED BY <1>6, <1>8, <2>1, <2>2, Transfer
<1> QED BY <1>8 DEF EventsAccounted, Placed

\* The events of a queue, or of no queue, are lost to a request nobody awaits.
LEMMA UnheardAccounted ==
    ASSUME Inv, EventsAccounted, NEW q \in Queues,
           shims' = shims, pending' = [pending EXCEPT ![q] = <<>>],
           lost' = [lost EXCEPT !["unheard"] = @ \cup Elements(pending[q])],
           UNCHANGED <<accepted, heard>>
    PROVE  EventsAccounted'
<1>1. /\ pending \in [Queues -> Seq(1 .. accepted)]
      /\ lost \in [Causes -> SUBSET (1 .. accepted)]
  BY DEF Inv, TypeOK
<1>2. Elements(pending'[q]) = {} /\ \A r \in Queues \ {q} : pending'[r] = pending[r]
  BY <1>1, EmptyElements
<1>3. \A s \in Shims : Hands(s)' = Hands(s)
  BY DEF Hands
<1> DEFINE src == {<<"queued", q>>}
           dst == <<"lost", "unheard">>
           M == Elements(pending[q])
<1>4. /\ "unheard" \in Causes /\ lost'["unheard"] = lost["unheard"] \cup M
      /\ \A c \in Causes \ {"unheard"} : lost'[c] = lost[c]
  BY <1>1 DEF Causes
<1>5. ASSUME NEW n, NEW place \in Places
      PROVE  Holds(place, n)' <=> IF place = dst THEN Holds(place, n) \/ n \in M
                                  ELSE IF place \in src THEN Holds(place, n) /\ n \notin M
                                  ELSE Holds(place, n)
  <2>1. ASSUME NEW r \in Queues, place = <<"queued", r>>
        PROVE  Holds(place, n)' <=> Holds(place, n) /\ ~(place \in src /\ n \in M)
    BY <2>1, <1>2, HoldsAre, HoldsAreNext
  <2>2. ASSUME NEW t \in Shims, place = <<"given", t>>
        PROVE  Holds(place, n)' <=> Holds(place, n)
    <3>1. /\ Holds(place, n)' <=> n \in Hands(t)'
          /\ Holds(place, n) <=> n \in Hands(t)
      BY <2>2, HoldsAre, HoldsAreNext
    <3> QED BY <3>1, <1>3
  <2>3. ASSUME NEW t \in Shims, place = <<"heard", t>>
        PROVE  Holds(place, n)' <=> Holds(place, n)
    BY <2>3, HoldsAre, HoldsAreNext
  <2>4. ASSUME NEW c \in Causes, place = <<"lost", c>>
        PROVE  Holds(place, n)' <=> Holds(place, n) \/ (place = dst /\ n \in M)
    BY <2>4, <1>4, HoldsAre, HoldsAreNext
  <2> QED BY <2>1, <2>2, <2>3, <2>4, Kinds
<1>6. src \in SUBSET Places /\ dst \in Places \ src
  BY <1>4, PlacesAre
<1>7. \A n : n \in M => \E place \in src : Holds(place, n)
  BY HoldsAre
<1> HIDE DEF src, dst, M
<1>8. ASSUME NEW n \in 1 .. accepted, Placed(n) PROVE Placed(n)'
  <2>1. n \in M => \E place \in src : Holds(place, n)
    BY <1>7
  <2>2. \A place \in Places :
            Holds(place, n)' <=> IF place = dst THEN Holds(place, n) \/ n \in M
                                 ELSE IF place \in src THEN Holds(place, n) /\ n \notin M
                                 ELSE Holds(place, n)
    BY <1>5
  <2> QED BY <1>6, <1>8, <2>1, <2>2, Transfer
<1> QED BY <1>8 DEF EventsAccounted, Placed

\* The event a harness reads leaves its relay.
LEMMA EmitAccounted == ASSUME Inv, EventsAccounted, NEW s \in Shims, Emit(s) PROVE EventsAccounted'
<1> DEFINE batch == shims[s].batch
           e == Head(batch)
<1>1. /\ Live(s) /\ heard' = [heard EXCEPT ![s] = Append(@, e)]
      /\ shims' = Given(s, Tail(batch)) /\ shims[s] # None
      /\ UNCHANGED <<pending, accepted, lost>>
  BY DEF Emit, At, Live, queueVars
<1>2. /\ batch \in Seq(1 .. accepted) /\ batch # <<>> /\ Rising(batch)
      /\ heard \in [Shims -> Seq(1 .. accepted)] /\ accepted \in Nat
  BY DEF Inv, RelayInv, Orderly, TypeOK, Emit, At
<1>3. Hands(s) = Elements(batch)
  BY <1>1 DEF Hands
<1> HIDE DEF batch
<1>4. /\ e \in 1 .. accepted /\ Tail(batch) \in Seq(1 .. accepted)
      /\ Elements(batch) = Elements(Tail(batch)) \cup {e}
  BY <1>2, TailElements
<1>5. \A n \in Elements(Tail(batch)) : e < n
  BY <1>2, RisingTail
<1>6. e \notin Elements(Tail(batch))
  BY <1>4, <1>5
<1>7. Hands(s)' = Elements(Tail(batch)) /\ \A t \in Shims \ {s} : Hands(t)' = Hands(t)
  BY <1>1, <1>4, GivenHands
<1>8. /\ Elements(heard'[s]) = Elements(heard[s]) \cup {e}
      /\ \A t \in Shims \ {s} : heard'[t] = heard[t]
  BY <1>1, <1>2, <1>4, AppendElements
<1> HIDE DEF e
<1> DEFINE src == {<<"given", s>>}
           dst == <<"heard", s>>
           M == {e}
<1>9. ASSUME NEW n, NEW place \in Places
      PROVE  Holds(place, n)' <=> IF place = dst THEN Holds(place, n) \/ n \in M
                                  ELSE IF place \in src THEN Holds(place, n) /\ n \notin M
                                  ELSE Holds(place, n)
  <2>1. ASSUME NEW r \in Queues, place = <<"queued", r>>
        PROVE  Holds(place, n)' <=> Holds(place, n)
    BY <2>1, <1>1, HoldsAre, HoldsAreNext
  <2>2. ASSUME NEW t \in Shims, place = <<"given", t>>
        PROVE  Holds(place, n)' <=> Holds(place, n) /\ ~(place \in src /\ n \in M)
    <3>1. /\ Holds(place, n)' <=> n \in Hands(t)'
          /\ Holds(place, n) <=> n \in Hands(t)
          /\ place \in src <=> t = s
      BY <2>2, HoldsAre, HoldsAreNext
    <3>2. CASE t = s
      BY <3>1, <3>2, <1>3, <1>4, <1>6, <1>7
    <3>3. CASE t # s
      BY <3>1, <3>3, <1>7
    <3> QED BY <3>2, <3>3
  <2>3. ASSUME NEW t \in Shims, place = <<"heard", t>>
        PROVE  Holds(place, n)' <=> Holds(place, n) \/ (place = dst /\ n \in M)
    <3>1. /\ Holds(place, n)' <=> n \in Elements(heard'[t])
          /\ Holds(place, n) <=> n \in Elements(heard[t])
          /\ place = dst <=> t = s
      BY <2>3, HoldsAre, HoldsAreNext
    <3> QED BY <3>1, <1>8
  <2>4. ASSUME NEW c \in Causes, place = <<"lost", c>>
        PROVE  Holds(place, n)' <=> Holds(place, n)
    BY <2>4, <1>1, HoldsAre, HoldsAreNext
  <2> QED BY <2>1, <2>2, <2>3, <2>4, Kinds
<1>10. src \in SUBSET Places /\ dst \in Places \ src
  BY PlacesAre
<1>11. \A n : n \in M => \E place \in src : Holds(place, n)
  BY <1>3, <1>4, HoldsAre
<1> HIDE DEF src, dst, M
<1>12. ASSUME NEW n \in 1 .. accepted, Placed(n) PROVE Placed(n)'
  <2>1. n \in M => \E place \in src : Holds(place, n)
    BY <1>11
  <2>2. \A place \in Places :
            Holds(place, n)' <=> IF place = dst THEN Holds(place, n) \/ n \in M
                                 ELSE IF place \in src THEN Holds(place, n) /\ n \notin M
                                 ELSE Holds(place, n)
    BY <1>9
  <2> QED BY <1>10, <1>12, <2>1, <2>2, Transfer
<1> QED BY <1>1, <1>12 DEF EventsAccounted, Placed

\* What dying relays had in hand is lost.
LEMMA DeathsAccounted ==
    ASSUME Inv, EventsAccounted, NEW dying \in SUBSET Shims, \A s \in dying : Live(s),
           DieAll(dying), UNCHANGED <<pending, accepted, heard>>
    PROVE  EventsAccounted'
<1>1. /\ lost' = [lost EXCEPT !["died"] = @ \cup UNION {Elements(shims[s].batch) : s \in dying}]
      /\ lost \in [Causes -> SUBSET (1 .. accepted)]
  BY DEF DieAll, Inv, TypeOK
<1> DEFINE src == {<<"given", s>> : s \in dying}
           dst == <<"lost", "died">>
           M == UNION {Hands(s) : s \in dying}
<1>2. \A s \in dying : Hands(s) = Elements(shims[s].batch)
  BY DEF Hands, Live
<1>3. /\ "died" \in Causes /\ lost'["died"] = lost["died"] \cup M
      /\ \A c \in Causes \ {"died"} : lost'[c] = lost[c]
  BY <1>1, <1>2 DEF Causes
<1>4. ASSUME NEW s \in dying PROVE Hands(s)' = {}
  <2>1. shims[s] # None /\ shims[s] \in Shim
    BY DEF Live, Inv, TypeOK
  <2>2. shims'[s] = [shims[s] EXCEPT !.at = "ended", !.token = 0, !.poll = None, !.batch = <<>>]
    BY DEF DieAll
  <2>3. shims'[s].batch = <<>>
    BY <2>1, <2>2 DEF Shim
  <2> QED BY <2>3, EmptyElements DEF Hands
<1>5. \A s \in Shims \ dying : Hands(s)' = Hands(s)
  BY DEF DieAll, Hands
<1>6. ASSUME NEW n, NEW place \in Places
      PROVE  Holds(place, n)' <=> IF place = dst THEN Holds(place, n) \/ n \in M
                                  ELSE IF place \in src THEN Holds(place, n) /\ n \notin M
                                  ELSE Holds(place, n)
  <2>1. ASSUME NEW r \in Queues, place = <<"queued", r>>
        PROVE  Holds(place, n)' <=> Holds(place, n)
    BY <2>1, HoldsAre, HoldsAreNext
  <2>2. ASSUME NEW t \in Shims, place = <<"given", t>>
        PROVE  Holds(place, n)' <=> Holds(place, n) /\ ~(place \in src /\ n \in M)
    <3>1. /\ Holds(place, n)' <=> n \in Hands(t)'
          /\ Holds(place, n) <=> n \in Hands(t)
          /\ place \in src <=> t \in dying
      BY <2>2, HoldsAre, HoldsAreNext
    <3>2. CASE t \in dying
      <4>1. n \in Hands(t) => n \in M
        BY <3>2
      <4> QED BY <3>1, <3>2, <4>1, <1>4
    <3>3. CASE t \notin dying
      BY <3>1, <3>3, <1>5
    <3> QED BY <3>2, <3>3
  <2>3. ASSUME NEW t \in Shims, place = <<"heard", t>>
        PROVE  Holds(place, n)' <=> Holds(place, n)
    BY <2>3, HoldsAre, HoldsAreNext
  <2>4. ASSUME NEW c \in Causes, place = <<"lost", c>>
        PROVE  Holds(place, n)' <=> Holds(place, n) \/ (place = dst /\ n \in M)
    <3>1. /\ Holds(place, n)' <=> n \in lost'[c]
          /\ Holds(place, n) <=> n \in lost[c]
          /\ place = dst <=> c = "died"
      BY <2>4, HoldsAre, HoldsAreNext
    <3> HIDE DEF M
    <3> QED BY <3>1, <1>3
  <2>5. place \in src => \E s \in Shims : place = <<"given", s>>
    OBVIOUS
  <2> QED BY <2>1, <2>2, <2>3, <2>4, <2>5, Kinds
<1>7. src \in SUBSET Places /\ dst \in Places \ src
  BY <1>3, PlacesAre
<1>8. ASSUME NEW n \in M PROVE \E place \in src : Holds(place, n)
  <2>1. PICK s \in dying : n \in Hands(s)
    BY <1>8
  <2>2. <<"given", s>> \in src /\ Holds(<<"given", s>>, n)
    BY <2>1, HoldsAre
  <2> QED BY <2>2
<1> HIDE DEF src, dst, M
<1>9. ASSUME NEW n \in 1 .. accepted, Placed(n) PROVE Placed(n)'
  <2>1. n \in M => \E place \in src : Holds(place, n)
    BY <1>8
  <2>2. \A place \in Places :
            Holds(place, n)' <=> IF place = dst THEN Holds(place, n) \/ n \in M
                                 ELSE IF place \in src THEN Holds(place, n) /\ n \notin M
                                 ELSE Holds(place, n)
    BY <1>6
  <2> QED BY <1>7, <1>9, <2>1, <2>2, Transfer
<1> QED BY <1>9 DEF EventsAccounted, Placed

\* A new event is queued, and the oldest of a full queue is lost.
LEMMA DeliverAccounted == Inv /\ EventsAccounted /\ Deliver => EventsAccounted'
<1> SUFFICES ASSUME Inv, EventsAccounted, Deliver PROVE EventsAccounted'
  OBVIOUS
<1>n. PICK new : new = accepted + 1
  OBVIOUS
<1>1. /\ accepted \in Nat /\ pending \in [Queues -> Seq(1 .. accepted)]
      /\ lost \in [Causes -> SUBSET (1 .. accepted)]
      /\ heard \in [Shims -> Seq(1 .. accepted)]
  BY DEF Inv, TypeOK
<1>2. accepted' = new /\ UNCHANGED <<shims, heard>>
  BY <1>n DEF Deliver
<1>3. PICK q \in Queues : Put(q, new)
  BY <1>n DEF Deliver
<1>4. \A s \in Shims : Hands(s)' = Hands(s) /\ Hands(s) \subseteq 1 .. accepted
  <2>1. ASSUME NEW s \in Shims, shims[s] # None PROVE Elements(shims[s].batch) \subseteq 1 .. accepted
    BY <2>1, ElementsIn DEF Inv, RelayInv, Orderly
  <2> QED BY <2>1, <1>2 DEF Hands
<1>5. PICK M \in SUBSET (1 .. accepted) :
          /\ M \subseteq Elements(pending[q])
          /\ Elements(pending'[q]) = (Elements(pending[q]) \ M) \cup {new}
          /\ lost'["overflow"] = lost["overflow"] \cup M
          /\ \A r \in Queues \ {q} : pending'[r] = pending[r]
          /\ \A c \in Causes \ {"overflow"} : lost'[c] = lost[c]
  <2>1. pending[q] \in Seq(1 .. accepted) /\ pending[q] \in Seq(1 .. new) /\ new \in 1 .. new
    BY <1>n, <1>1, Widen
  <2>2. CASE Len(pending[q]) < QueueMax
    <3>1. pending' = [pending EXCEPT ![q] = Append(@, new)] /\ lost' = lost
      BY <2>2, <1>3 DEF Put, Push
    <3>2. Elements(Append(pending[q], new)) = Elements(pending[q]) \cup {new}
      BY <2>1, AppendElements
    <3>3. /\ pending'[q] = Append(pending[q], new)
          /\ \A r \in Queues \ {q} : pending'[r] = pending[r]
      BY <3>1, <1>1
    <3> WITNESS {} \in SUBSET (1 .. accepted)
    <3> QED BY <3>1, <3>2, <3>3
  <2>3. CASE ~(Len(pending[q]) < QueueMax)
    <3> DEFINE old == Head(pending[q])
               rest == Tail(pending[q])
    <3>1. /\ pending' = [pending EXCEPT ![q] = Append(rest, new)]
          /\ lost' = [lost EXCEPT !["overflow"] = @ \cup {old}]
      BY <2>3, <1>3 DEF Put, Push
    <3>2. pending[q] # <<>>
      BY <2>3, QueueAssumption
    <3>3. /\ old \in 1 .. accepted /\ rest \in Seq(1 .. accepted)
          /\ Elements(pending[q]) = Elements(rest) \cup {old}
      BY <3>2, <2>1, TailElements
    <3>4. old \notin Elements(rest)
      <4>1. Rising(pending[q])
        BY DEF Inv, QueueInv
      <4>2. \A n \in Elements(rest) : old < n
        BY <4>1, <3>2, <2>1, <1>1, RisingTail
      <4> QED BY <4>2, <3>3
    <3> HIDE DEF old, rest
    <3>5. rest \in Seq(1 .. new)
      BY <3>3, <1>n, <1>1, Widen
    <3>6. Elements(Append(rest, new)) = Elements(rest) \cup {new}
      BY <3>5, <2>1, AppendElements
    <3>7. /\ pending'[q] = Append(rest, new)
          /\ \A r \in Queues \ {q} : pending'[r] = pending[r]
      BY <3>1, <1>1
    <3>8. /\ lost'["overflow"] = lost["overflow"] \cup {old}
          /\ \A c \in Causes \ {"overflow"} : lost'[c] = lost[c]
      BY <3>1, <1>1 DEF Causes
    <3>9. {old} \in SUBSET (1 .. accepted)
      BY <3>3
    <3> WITNESS {old} \in SUBSET (1 .. accepted)
    <3> QED BY <3>3, <3>4, <3>6, <3>7, <3>8
  <2> QED BY <2>2, <2>3
<1> DEFINE src == {<<"queued", q>>}
           dst == <<"lost", "overflow">>
<1>6. src \in SUBSET Places /\ dst \in Places \ src
  BY PlacesAre DEF Causes
<1>7. ASSUME NEW n \in 1 .. accepted PROVE Placed(n)'
  <2>1. Placed(n)
    BY DEF EventsAccounted, Placed
  <2>2. n # new
    BY <1>n, <1>1
  <2>3. n \in M => \E place \in src : Holds(place, n)
    BY <1>5, HoldsAre
  <2>4. ASSUME NEW place \in Places
        PROVE  Holds(place, n)' <=> IF place = dst THEN Holds(place, n) \/ n \in M
                                    ELSE IF place \in src THEN Holds(place, n) /\ n \notin M
                                    ELSE Holds(place, n)
    <3>1. ASSUME NEW r \in Queues, place = <<"queued", r>>
          PROVE  Holds(place, n)' <=> Holds(place, n) /\ ~(place \in src /\ n \in M)
      <4>1. /\ Holds(place, n)' <=> n \in Elements(pending'[r])
            /\ Holds(place, n) <=> n \in Elements(pending[r])
            /\ place \in src <=> r = q
        BY <3>1, HoldsAre, HoldsAreNext
      <4> QED BY <4>1, <2>2, <1>5
    <3>2. ASSUME NEW t \in Shims, place = <<"given", t>>
          PROVE  Holds(place, n)' <=> Holds(place, n)
      <4>1. /\ Holds(place, n)' <=> n \in Hands(t)'
            /\ Holds(place, n) <=> n \in Hands(t)
        BY <3>2, HoldsAre, HoldsAreNext
      <4> QED BY <4>1, <1>4
    <3>3. ASSUME NEW t \in Shims, place = <<"heard", t>>
          PROVE  Holds(place, n)' <=> Holds(place, n)
      BY <3>3, <1>2, HoldsAre, HoldsAreNext
    <3>4. ASSUME NEW c \in Causes, place = <<"lost", c>>
          PROVE  Holds(place, n)' <=> Holds(place, n) \/ (place = dst /\ n \in M)
      <4>1. /\ Holds(place, n)' <=> n \in lost'[c]
            /\ Holds(place, n) <=> n \in lost[c]
            /\ place = dst <=> c = "overflow"
        BY <3>4, HoldsAre, HoldsAreNext
      <4> QED BY <4>1, <1>5
    <3> QED BY <3>1, <3>2, <3>3, <3>4, Kinds
  <2> HIDE DEF src, dst
  <2> QED BY <1>6, <2>1, <2>3, <2>4, Transfer
<1>8. Placed(new)'
  <2>1. \A r \in Queues : Elements(pending[r]) \subseteq 1 .. accepted
    BY <1>1, ElementsIn
  <2>2. \A t \in Shims : Elements(heard[t]) \subseteq 1 .. accepted
    BY <1>1, ElementsIn
  <2>3. new \notin 1 .. accepted
    BY <1>n, <1>1
  <2>4. ASSUME NEW place \in Places PROVE Holds(place, new)' <=> place = <<"queued", q>>
    <3>1. ASSUME NEW r \in Queues, place = <<"queued", r>>
          PROVE  Holds(place, new)' <=> place = <<"queued", q>>
      <4>1. /\ Holds(place, new)' <=> new \in Elements(pending'[r])
            /\ place = <<"queued", q>> <=> r = q
        BY <3>1, HoldsAreNext
      <4>2. new \in Elements(pending'[r]) <=> r = q
        BY <2>1, <2>3, <1>5
      <4> QED BY <4>1, <4>2
    <3>2. ASSUME NEW t \in Shims, place = <<"given", t>>
          PROVE  ~Holds(place, new)' /\ place # <<"queued", q>>
      BY <3>2, <2>3, <1>4, HoldsAreNext
    <3>3. ASSUME NEW t \in Shims, place = <<"heard", t>>
          PROVE  ~Holds(place, new)' /\ place # <<"queued", q>>
      BY <3>3, <2>2, <2>3, <1>2, HoldsAreNext
    <3>4. ASSUME NEW c \in Causes, place = <<"lost", c>>
          PROVE  ~Holds(place, new)' /\ place # <<"queued", q>>
      <4>1. Holds(place, new)' <=> new \in lost'[c]
        BY <3>4, HoldsAreNext
      <4>2. lost[c] \subseteq 1 .. accepted
        BY <1>1
      <4>3. new \notin lost'[c]
        BY <4>2, <2>3, <1>5
      <4> QED BY <4>1, <4>3, <3>4
    <3> QED BY <3>1, <3>2, <3>3, <3>4, Kinds
  <2>5. <<"queued", q>> \in Places
    BY PlacesAre
  <2> QED BY <2>4, <2>5 DEF Placed
<1>9. 1 .. accepted' = (1 .. accepted) \cup {new}
  BY <1>n, <1>1, <1>2
<1> QED BY <1>7, <1>8, <1>9 DEF EventsAccounted, Placed

LEMMA AnswerAccounted == ASSUME Inv, EventsAccounted, NEW p \in Polls, PollStep(p)
                         PROVE  EventsAccounted'
<1> DEFINE q == polls[p].queue
<1>1. /\ polls[p] # None /\ UNCHANGED <<accepted, heard>>
      /\ \/ Answer(p, pending[q]) /\ pending' = [pending EXCEPT ![q] = <<>>]
         \/ Answer(p, <<>>) /\ pending' = pending
  BY DEF PollStep, Take, TimesOut, queueVars
<1>2. q \in Queues
  BY <1>1 DEF Inv, TypeOK, Poll
<1>3. ASSUME NEW s \in Callers(p)
      PROVE  s \in Shims /\ Live(s) /\ shims[s].at # "emit"
  BY <1>3 DEF Callers, At, Live
<1> HIDE DEF q
<1>4. CASE Answer(p, pending[q]) /\ pending' = [pending EXCEPT ![q] = <<>>]
  <2>1. CASE Callers(p) = {}
    <3>1. shims' = shims /\ lost' = [lost EXCEPT !["unheard"] = @ \cup Elements(pending[q])]
      BY <1>4, <2>1 DEF Answer
    <3> QED BY <3>1, <1>1, <1>2, <1>4, UnheardAccounted
  <2>2. CASE Callers(p) # {}
    <3> DEFINE s == CHOOSE s \in Callers(p) : TRUE
    <3>1. s \in Callers(p)
      BY <2>2
    <3>2. shims' = Given(s, pending[q]) /\ lost' = lost
      BY <1>4, <2>2 DEF Answer
    <3> HIDE DEF s
    <3> QED BY <3>1, <3>2, <1>1, <1>2, <1>3, <1>4, GivenAccounted
  <2> QED BY <2>1, <2>2
<1>5. CASE Answer(p, <<>>) /\ pending' = pending
  <2>1. CASE Callers(p) = {}
    <3>1. shims' = shims /\ lost' = [lost EXCEPT !["unheard"] = @ \cup Elements(<<>>)]
      BY <1>5, <2>1 DEF Answer
    <3>2. \A c \in Causes : lost'[c] = lost[c]
      BY <3>1, EmptyElements DEF Inv, TypeOK
    <3>3. \A s \in Shims : Hands(s)' = Hands(s)
      BY <3>1 DEF Hands
    <3> QED BY <3>2, <3>3, <1>1, <1>5, Unmoved
  <2>2. CASE Callers(p) # {}
    <3>1. PICK s \in Callers(p) : s = CHOOSE x \in Callers(p) : TRUE
      BY <2>2
    <3>2. shims' = Given(s, <<>>) /\ lost' = lost
      BY <1>5, <2>2, <3>1 DEF Answer
    <3>3. <<>> \in Seq(1 .. accepted)
      OBVIOUS
    <3>4. Hands(s)' = {} /\ \A t \in Shims \ {s} : Hands(t)' = Hands(t)
      <4> DEFINE batch == <<>>
      <4>1. batch \in Seq(1 .. accepted) /\ shims' = Given(s, batch) /\ Elements(batch) = {}
        BY <3>2, <3>3, EmptyElements
      <4>2. s \in Shims /\ Live(s)
        BY <3>1, <1>3
      <4> HIDE DEF batch
      <4>3. Hands(s)' = Elements(batch) /\ \A t \in Shims \ {s} : Hands(t)' = Hands(t)
        BY <4>1, <4>2, GivenHands
      <4> QED BY <4>1, <4>3
    <3>5. Hands(s) = {}
      <4>1. shims[s].batch = <<>>
        BY <3>1, <1>3 DEF Inv, RelayInv, Orderly, Live
      <4> QED BY <4>1, EmptyElements DEF Hands
    <3>6. \A t \in Shims : Hands(t)' = Hands(t)
      BY <3>4, <3>5
    <3> QED BY <3>2, <3>6, <1>1, <1>5, Unmoved
  <2> QED BY <2>1, <2>2
<1> QED BY <1>1, <1>4, <1>5

LEMMA PollAccounted == ASSUME Inv, EventsAccounted, NEW s \in Shims, PollArrives(s)
                       PROVE  EventsAccounted'
<1>1. /\ shims[s] # None /\ shims[s].at = "idle" /\ Live(s)
      /\ UNCHANGED <<accepted, heard, lost>>
  BY DEF PollArrives, At, Live
<1>2. shims[s] \in Shim /\ TypeOK
  BY <1>1 DEF Inv, TypeOK
<1>3. ASSUME NEW where \in {"backoff", "poll"}, NEW r \in Polls \cup {None}, pending' = pending,
             shims' = [shims EXCEPT ![s].at = where, ![s].poll = r]
      PROVE  EventsAccounted'
  <2> DEFINE shim == [shims[s] EXCEPT !.at = where, !.poll = r]
  <2>1. shim \in Shim /\ shim.batch = shims[s].batch
    BY <1>2 DEF Shim
  <2>2. shims' = [shims EXCEPT ![s] = shim]
    BY <1>2, <1>3 DEF TypeOK
  <2> HIDE DEF shim
  <2>3. Hands(s)' = Elements(shim.batch) /\ \A t \in Shims \ {s} : Hands(t)' = Hands(t)
    BY <1>1, <1>2, <2>1, <2>2, HandsKept
  <2>4. \A t \in Shims : Hands(t)' = Hands(t)
    BY <2>1, <2>3, <1>1 DEF Hands
  <2> QED BY <2>4, <1>1, <1>3, Unmoved
<1>4. CASE shims' = Refused(s) /\ UNCHANGED pending
  BY <1>3, <1>4 DEF Refused
<1>5. ASSUME NEW q \in Queues,
             shims' = Given(s, pending[q]) /\ pending' = [pending EXCEPT ![q] = <<>>]
      PROVE  EventsAccounted'
  BY <1>1, <1>5, GivenAccounted
<1>6. ASSUME NEW p \in Fresh(polls), UNCHANGED pending,
             shims' = [shims EXCEPT ![s].at = "poll", ![s].poll = p]
      PROVE  EventsAccounted'
  <2>1. p \in Polls
    BY <1>2 DEF Fresh, TypeOK
  <2> QED BY <1>3, <1>6, <2>1
<1> QED BY <1>4, <1>5, <1>6 DEF PollArrives

\* A relay that starts, or goes on, or is refused, has what it had.
LEMMA OthersAccounted ==
    ASSUME Inv, EventsAccounted,
           \/ \E s \in Shims : BackoffEnds(s) \/ ConnectionBreaks(s) \/ ShimStarts(s)
           \/ Provision \/ Provisioned \/ RowCleared \/ Discard \/ Reopen \/ Restart
           \/ UNCHANGED vars
    PROVE  EventsAccounted'
<1>1. shims \in [Shims -> Shim \cup {None}]
  BY DEF Inv, TypeOK
<1>2. ASSUME NEW s \in Shims, BackoffEnds(s) \/ ConnectionBreaks(s) \/ ShimStarts(s)
      PROVE  /\ UNCHANGED <<accepted, pending, heard, lost>>
             /\ \A t \in Shims : Hands(t)' = Hands(t)
  <2>1. UNCHANGED <<accepted, pending, heard, lost>>
    BY <1>2 DEF BackoffEnds, ConnectionBreaks, ShimStarts, queueVars
  <2>2. CASE BackoffEnds(s)
    <3>1. shims[s] # None /\ shims[s] \in Shim
      BY <2>2, <1>1 DEF BackoffEnds, At
    <3> DEFINE shim == [shims[s] EXCEPT !.at = "idle"]
    <3>2. shims' = [shims EXCEPT ![s] = shim] /\ shim \in Shim /\ shim.batch = shims[s].batch
      BY <2>2, <3>1, <1>1 DEF BackoffEnds, Shim
    <3> HIDE DEF shim
    <3>3. Hands(s)' = Elements(shim.batch) /\ \A t \in Shims \ {s} : Hands(t)' = Hands(t)
      BY <3>1, <3>2, HandsKept DEF Inv
    <3> QED BY <2>1, <3>1, <3>2, <3>3 DEF Hands
  <2>3. CASE ConnectionBreaks(s)
    <3>1. shims[s] # None /\ shims[s] \in Shim
      BY <2>3, <1>1 DEF ConnectionBreaks, At
    <3> DEFINE shim == [shims[s] EXCEPT !.at = "backoff", !.poll = None]
    <3>2. shims' = [shims EXCEPT ![s] = shim] /\ shim \in Shim /\ shim.batch = shims[s].batch
      BY <2>3, <3>1, <1>1 DEF ConnectionBreaks, Refused, Shim
    <3> HIDE DEF shim
    <3>3. Hands(s)' = Elements(shim.batch) /\ \A t \in Shims \ {s} : Hands(t)' = Hands(t)
      BY <3>1, <3>2, HandsKept DEF Inv
    <3> QED BY <2>1, <3>1, <3>2, <3>3 DEF Hands
  <2>4. CASE ShimStarts(s)
    <3>1. /\ shims[s] = None /\ shims'[s].batch = <<>>
          /\ \A t \in Shims \ {s} : shims'[t] = shims[t]
      BY <2>4, <1>1 DEF ShimStarts, Fresh
    <3> QED BY <2>1, <3>1, EmptyElements DEF Hands
  <2> QED BY <1>2, <2>2, <2>3, <2>4
<1>3. ASSUME Provision \/ Provisioned \/ RowCleared \/ Discard \/ Reopen \/ UNCHANGED vars
      PROVE  /\ UNCHANGED <<accepted, pending, heard, lost>>
             /\ \A t \in Shims : Hands(t)' = Hands(t)
  <2>1. UNCHANGED <<accepted, pending, heard, lost, shims>>
    BY <1>3 DEF Provision, Provisioned, RowCleared, Discard, Reopen, queueVars, vars
  <2> QED BY <2>1 DEF Hands
<1>4. ASSUME Restart
      PROVE  /\ UNCHANGED <<accepted, pending, heard, lost>>
             /\ \A t \in Shims : Hands(t)' = Hands(t)
  <2>1. ASSUME NEW t \in Shims, At(t, "poll") PROVE Hands(t)' = Hands(t)
    <3>1. shims[t] # None /\ shims[t] \in Shim
      BY <2>1, <1>1 DEF At
    <3>2. shims'[t] = [shims[t] EXCEPT !.at = "backoff", !.poll = None]
      BY <2>1, <1>4 DEF Restart
    <3>3. shims'[t] \in Shim /\ shims'[t].batch = shims[t].batch
      BY <3>1, <3>2 DEF Shim
    <3> QED BY <3>1, <3>3, NoneAssumption DEF Hands
  <2>2. ASSUME NEW t \in Shims, ~At(t, "poll") PROVE Hands(t)' = Hands(t)
    BY <2>2, <1>4 DEF Restart, Hands
  <2> QED BY <2>1, <2>2, <1>4 DEF Restart
<1>5. /\ UNCHANGED <<accepted, pending, heard, lost>>
      /\ \A t \in Shims : Hands(t)' = Hands(t)
  BY <1>2, <1>3, <1>4
<1> QED BY <1>5, Unmoved

LEMMA AccountedStep == Inv /\ EventsAccounted /\ [Next]_vars => EventsAccounted'
<1> SUFFICES ASSUME Inv, EventsAccounted, [Next]_vars PROVE EventsAccounted'
  OBVIOUS
<1>1. ASSUME NEW s \in Shims, ShimEnds(s) PROVE EventsAccounted'
  <2>1. /\ {s} \in SUBSET Shims /\ \A t \in {s} : Live(t)
        /\ DieAll({s}) /\ UNCHANGED <<pending, accepted, heard>>
    BY <1>1 DEF ShimEnds, queueVars
  <2> QED BY <2>1, DeathsAccounted
<1>2. CASE ContainerEnds
  <2> DEFINE dying == {s \in Shims : Live(s)}
  <2>1. /\ dying \in SUBSET Shims /\ \A t \in dying : Live(t)
        /\ DieAll(dying) /\ UNCHANGED <<pending, accepted, heard>>
    BY <1>2 DEF ContainerEnds, queueVars
  <2> HIDE DEF dying
  <2> QED BY <2>1, DeathsAccounted
<1>3. ASSUME NEW s \in Shims,
             ShimStep(s) \/ ConnectionBreaks(s) \/ ShimStarts(s) \/ ShimEnds(s)
      PROVE  EventsAccounted'
  BY <1>1, <1>3, PollAccounted, EmitAccounted, OthersAccounted DEF ShimStep
<1>4. ASSUME NEW p \in Polls, PollStep(p) PROVE EventsAccounted'
  BY <1>4, AnswerAccounted
<1>5. CASE Deliver
  BY <1>5, DeliverAccounted
<1>6. CASE Provision \/ Provisioned \/ RowCleared \/ Discard \/ Reopen \/ Restart \/ UNCHANGED vars
  BY <1>6, OthersAccounted
<1> QED BY <1>2, <1>3, <1>4, <1>5, <1>6 DEF Next

\* Every event that was accepted is in one place: queued, in a relay's hands,
\* told, or lost by one of three causes.
THEOREM ChannelEventsAccounted == Spec => []EventsAccounted
<1>1. Init => EventsAccounted
  BY DEF Init, EventsAccounted
<1> QED BY <1>1, AccountedStep, Invariance, PTL DEF Spec

----------------------------------------------------------------------------
(* Told, or lost, for good *)

Final == ({"heard"} \X Shims) \cup ({"lost"} \X Causes)

\* What a relay has told and what is lost only ever grows.
LEMMA FinalGrows ==
    ASSUME Inv, [Next]_vars
    PROVE  /\ accepted' \in Nat /\ accepted <= accepted'
           /\ \A s \in Shims : Elements(heard[s]) \subseteq Elements(heard'[s])
           /\ \A c \in Causes : lost[c] \subseteq lost'[c]
<1>1. /\ accepted \in Nat
      /\ heard \in [Shims -> Seq(1 .. accepted)] /\ lost \in [Causes -> SUBSET (1 .. accepted)]
  BY DEF Inv, TypeOK
<1>2. accepted' \in {accepted, accepted + 1}
  BY DEF Next, ShimStep, PollStep, vars, Deliver, PollArrives, Emit, BackoffEnds, ConnectionBreaks,
         ShimStarts, ShimEnds, Take, TimesOut, Provision, Provisioned, ContainerEnds, RowCleared,
         Discard, Reopen, Restart, queueVars
<1>3. ASSUME UNCHANGED heard
      PROVE  \A s \in Shims : Elements(heard[s]) \subseteq Elements(heard'[s])
  BY <1>3
<1>4. ASSUME UNCHANGED lost \/ \E c, E : lost' = [lost EXCEPT ![c] = @ \cup E]
      PROVE  \A c \in Causes : lost[c] \subseteq lost'[c]
  BY <1>1, <1>4
<1>5. ASSUME NEW s \in Shims, Emit(s)
      PROVE  /\ UNCHANGED lost
             /\ \A x \in Shims : Elements(heard[x]) \subseteq Elements(heard'[x])
  <2>1. At(s, "emit") /\ shims[s] # None /\ lost' = lost
        /\ heard' = [heard EXCEPT ![s] = Append(@, Head(shims[s].batch))]
    BY <1>5 DEF Emit, At
  <2>2. shims[s].batch \in Seq(1 .. accepted) /\ shims[s].batch # <<>>
    BY <2>1 DEF Inv, RelayInv, Orderly, At
  <2>3. PICK n : n = Head(shims[s].batch)
    OBVIOUS
  <2>4. n \in 1 .. accepted
    BY <2>2, <2>3, TailElements
  <2>5. heard[s] \in Seq(1 .. accepted)
    BY <1>1
  <2>6. Elements(Append(heard[s], n)) = Elements(heard[s]) \cup {n}
    <3>1. PICK S : S = 1 .. accepted
      OBVIOUS
    <3>2. PICK told \in Seq(S) : told = heard[s]
      BY <2>5, <3>1
    <3>3. n \in S
      BY <2>4, <3>1
    <3>4. Elements(Append(told, n)) = Elements(told) \cup {n}
      BY <3>3, AppendElements
    <3> QED BY <3>2, <3>4
  <2> QED BY <1>1, <2>1, <2>3, <2>6
<1>6. ASSUME NEW s \in Shims, ShimStep(s) \/ ConnectionBreaks(s) \/ ShimStarts(s) \/ ShimEnds(s)
      PROVE  \/ Emit(s)
             \/ /\ UNCHANGED heard
                /\ UNCHANGED lost \/ \E c, E : lost' = [lost EXCEPT ![c] = @ \cup E]
  BY <1>6 DEF ShimStep, PollArrives, BackoffEnds, ConnectionBreaks, ShimStarts, ShimEnds, DieAll
<1>7. ASSUME NEW p \in Polls, PollStep(p)
      PROVE  /\ UNCHANGED heard
             /\ UNCHANGED lost \/ \E c, E : lost' = [lost EXCEPT ![c] = @ \cup E]
  BY <1>7 DEF PollStep, Take, TimesOut, Answer
<1>8. ASSUME Deliver
      PROVE  /\ UNCHANGED heard
             /\ UNCHANGED lost \/ \E c, E : lost' = [lost EXCEPT ![c] = @ \cup E]
  BY <1>8 DEF Deliver, Put, Push
<1>9. ASSUME \/ Provision \/ Provisioned \/ ContainerEnds \/ RowCleared
             \/ Discard \/ Reopen \/ Restart \/ UNCHANGED vars
      PROVE  /\ UNCHANGED heard
             /\ UNCHANGED lost \/ \E c, E : lost' = [lost EXCEPT ![c] = @ \cup E]
  BY <1>9 DEF Provision, Provisioned, ContainerEnds, RowCleared, Discard, Reopen, Restart, vars, DieAll
<1>10. (\E s \in Shims : Emit(s))
        \/ /\ UNCHANGED heard
           /\ UNCHANGED lost \/ \E c, E : lost' = [lost EXCEPT ![c] = @ \cup E]
  BY <1>6, <1>7, <1>8, <1>9 DEF Next
<1> QED BY <1>1, <1>2, <1>3, <1>4, <1>5, <1>10

\* An event a harness was told, or that was lost, is settled for good: it is
\* never queued or handed out again, told to another harness, or lost as well,
\* by however many polls, relays and restarts follow.
THEOREM SettledForGood ==
    Spec => [][\A n \in 1 .. accepted : \A place \in Final : Holds(place, n) =>
                  \A other \in Places : Holds(other, n)' <=> other = place]_vars
<1>1. ASSUME Inv, [Next]_vars, EventsAccounted', NEW n \in 1 .. accepted, NEW place \in Final,
             Holds(place, n), NEW other \in Places
      PROVE  Holds(other, n)' <=> other = place
  <2>1. /\ accepted' \in Nat /\ accepted <= accepted'
        /\ \A s \in Shims : Elements(heard[s]) \subseteq Elements(heard'[s])
        /\ \A c \in Causes : lost[c] \subseteq lost'[c]
    BY <1>1, FinalGrows
  <2>2. n \in 1 .. accepted' /\ place \in Places
    BY <1>1, <2>1 DEF Inv, TypeOK, Final, Places
  <2>3. Holds(place, n)'
    BY <1>1, <2>1 DEF Final, Holds
  <2>4. PICK only \in Places : \A x \in Places : Holds(x, n)' <=> x = only
    BY <1>1, <2>2 DEF EventsAccounted, Places
  <2> QED BY <2>2, <2>3, <2>4
<1>2. Inv /\ EventsAccounted' /\ [Next]_vars =>
          [\A n \in 1 .. accepted : \A place \in Final : Holds(place, n) =>
              \A other \in Places : Holds(other, n)' <=> other = place]_vars
  BY <1>1
<1> QED BY <1>2, Invariance, ChannelEventsAccounted, PTL DEF Spec
=============================================================================
