------------------------- MODULE QueryForwarderProofs -------------------------
(***************************************************************************)
(* Proofs about QueryForwarder, for any queries, DNS ids, numbers of       *)
(* nameservers and retries, and any datagrams: the loop that resolves a    *)
(* query is the step Resolve of the pipeline, gives a query with a DNS id  *)
(* of its own no other query's answer, and asks as often as it is to.      *)
(***************************************************************************)
EXTENDS QueryForwarder, DnsProxyProofs

Items == forwardQueue.items

(* The queries that the forwarder has not taken yet: the ones queued, the  *)
(* ones received, and the next one to be asked.                            *)
Ahead == {Items[i].q : i \in 1 .. Len(Items)} \cup {inbox[j] : j \in 1 .. Len(inbox)}
           \cup {Len(asked) + 1}

(* They are handled in the order in which they came.                       *)
Queued ==
    /\ \A i, j \in 1 .. Len(Items) : i < j => Items[i].q < Items[j].q
    /\ \A i \in 1 .. Len(Items), j \in 1 .. Len(inbox) : Items[i].q < inbox[j]
    /\ \A i, j \in 1 .. Len(inbox) : i < j => inbox[i] < inbox[j]
    /\ \A i \in 1 .. Len(Items) : Items[i].q <= Len(asked)
Current == forwarder.pc \in {"read", "resolve"} => \A a \in Ahead : query < a
QueueOrder == Queued /\ Current

(* No nameserver has been asked about q or a later query.                  *)
FreshFrom(q) == \A r \in Queries : r >= q => sends[r] = 0 /\ outcome[r].by = "nobody"

(* How often the query at hand has been sent.                              *)
Sent == (attempt.server - 1) * Retries + (attempt.try - 1)
          + (IF attempt.at = "send" THEN 0 ELSE 1)

(* Past the last nameserver nothing is sent any more.                      *)
AttemptOK ==
    attempt.server <= Nameservers \/ (attempt.at = "send" /\ attempt.try = 1)

Counted ==
    /\ \A a \in Ahead : FreshFrom(a)
    /\ forwarder.pc = "read" => FreshFrom(query)
    /\ forwarder.pc = "resolve" => sends[query] = Sent /\ outcome[query].by = "nobody"

(* A nameserver's response was taken for its DNS id.                       *)
OwnId == \A q \in Queries :
           outcome[q].by = "nameserver" => DnsId[outcome[q].of] = DnsId[q]

-----------------------------------------------------------------------------
(* The refinement: no invariant is needed, each step is the process's step *)
(* of the same thread or changes nothing that the process knows of.        *)
LEMMA Concluding ==
  ASSUME NEW res, NEW by, NEW of, Conclude(res, by, of)
  PROVE  \E r \in Results : Resolve(r)
<1>1. res \in Results
  BY DEF Conclude, Resolve, ResultsFor, Results
<1> QED BY <1>1 DEF Conclude

LEMMA HandlerIsForwarderStep ==
  ASSUME Handler \/ Around
  PROVE  ForwarderStep \/ UNCHANGED vars
<1>1. CASE EncodeFails \/ Accept \/ NoAnswer
  BY <1>1, Concluding DEF EncodeFails, Accept, NoAnswer, ForwarderStep
<1>2. CASE Send \/ Discard \/ LastMoment \/ Timeout \/ TryAgain
  BY <1>2 DEF Send, Discard, LastMoment, Timeout, TryAgain
<1>3. CASE GiveUp \/ Around
  BY <1>3 DEF GiveUp, Around, ForwarderStep
<1> QED BY <1>1, <1>2, <1>3 DEF Handler

LEMMA ForwarderStepIsProxyStep ==
  ASSUME [NextForwarder]_forwarderVars
  PROVE  [NextProxy]_allVars
<1>1. CASE ForwarderSteps
  BY <1>1, HandlerIsForwarderStep DEF ForwarderSteps, NextProxy, ForwarderRuns, allVars, mainVars
<1>2. CASE SocketFaults
  BY <1>2 DEF SocketFaults, SocketFails, NextProxy, ForwarderFaults
<1>3. CASE Others
  BY <1>3 DEF Others, NextProxy
<1>4. CASE Upstream
  BY <1>4 DEF Upstream, NameserverSends
<1>5. CASE UNCHANGED forwarderVars
  BY <1>5 DEF forwarderVars
<1> QED BY <1>1, <1>2, <1>3, <1>4, <1>5 DEF NextForwarder

(* The retry loop with its time-outs, late and repeated answers is, for    *)
(* the rest of the process, the step that resolves a query.                *)
THEOREM LoopIsResolve == SpecForwarder => SpecProxy
<1>1. InitForwarder => InitProxy
  BY DEF InitForwarder
<1> QED BY <1>1, ForwarderStepIsProxyStep, PTL DEF SpecForwarder, SpecProxy
-----------------------------------------------------------------------------
LEMMA AheadNumbers == ASSUME TypeInv PROVE \A a \in Ahead : a \in Nat
<1>1. Len(asked) \in Nat /\ Items \in Seq(Entries) /\ inbox \in Seq(1 .. Len(asked))
  BY DEF TypeInv, TypeOK, Queue, Items
<1>2. \A i \in 1 .. Len(Items) : Items[i].q \in Nat
  <2>1. \A i \in 1 .. Len(Items) : Items[i] \in Entries
    BY <1>1
  <2>2. \A e \in Entries : e.q \in Nat
    BY MaxAssumption DEF Entries, Queries
  <2> QED BY <2>1, <2>2
<1>3. \A j \in 1 .. Len(inbox) : inbox[j] \in Nat
  BY <1>1
<1> QED BY <1>1, <1>2, <1>3 DEF Ahead

LEMMA QueueOrderInit == Init => QueueOrder
BY DEF Init, QueueOrder, Queued, Current, Items, EmptyQueue

(* How a step moves the queries towards the forwarder.                     *)
Stay == /\ UNCHANGED <<Items, inbox, asked>>
        /\ forwarder'.pc \in {"read", "resolve"}
             => forwarder.pc \in {"read", "resolve"} /\ query' = query
Grow == /\ UNCHANGED <<Items, forwarder>>
        /\ Len(asked') = Len(asked) + 1
        /\ inbox' = Append(inbox, Len(asked) + 1)
Pass == /\ UNCHANGED <<asked, forwarder>>
        /\ inbox # <<>> /\ inbox' = Tail(inbox)
        /\ Items' = Items \/ \E e \in Entries : e.q = Head(inbox) /\ Items' = Append(Items, e)
Take == /\ UNCHANGED <<asked, inbox>>
        /\ Items # <<>> /\ Items' = Tail(Items)
        /\ forwarder'.pc = "read" /\ query' = Head(Items).q

LEMMA ReceiverPasses ==
  ASSUME TypeInv, ReceiverStep \/ ReceiverFails
  PROVE  Stay \/ Pass
<1>0. forwardQueue \in Queue /\ (receiver.pc = "recv" => inbox # <<>>)
  BY TypeParts DEF TypeInv, QueuesOK, InHand
<1>1. CASE Poll \/ TakeResponse \/ SendReply \/ DropReply \/ ReceiverStops \/ ReceiverFails
  BY <1>1 DEF Poll, TakeResponse, SendReply, DropReply, ReceiverStops, ReceiverFails, ReadResponse,
              Stay, Items, query
<1>2. CASE SkipDatagram
  BY <1>0, <1>2 DEF SkipDatagram, Pass, Items
<1>3. CASE WriteQuery
  <2>1. Items' = Items
    BY <1>0, <1>3, PipeOK DEF WriteQuery, Items
  <2> QED BY <1>3, <2>1 DEF WriteQuery, Stay, query
<1>4. CASE HandleIncomingUDP
  <2> DEFINE e == [id |-> NextId, q |-> Head(inbox), res |-> "query"]
  <2>1. e \in Entries
    BY <1>4, NewEntry DEF HandleIncomingUDP
  <2>2. Items' = Items \/ Items' = Append(Items, e)
    BY <1>0, <1>4, <2>1, EnqueueOK DEF HandleIncomingUDP, Items
  <2>3. e.q = Head(inbox)
    OBVIOUS
  <2> HIDE DEF e
  <2> QED BY <1>0, <1>4, <2>1, <2>2, <2>3 DEF HandleIncomingUDP, Pass
<1> QED BY <1>1, <1>2, <1>3, <1>4 DEF ReceiverStep

LEMMA ForwarderTakes ==
  ASSUME TypeInv, ForwarderStep \/ ForwarderFails
  PROVE  Stay \/ Take
<1>0. forwardQueue \in Queue /\ forwarder \in ForwarderRecords
  BY TypeParts DEF TypeInv, QueuesOK
<1>1. CASE TakeQuery
  <2>1. Items # <<>> /\ Items' = Tail(Items)
    BY <1>0, <1>1, DequeueOK DEF TakeQuery, Items
  <2> QED BY <1>1, <2>1 DEF TakeQuery, Take, query, Items
<1>2. CASE ReadQuery
  <2>1. Items' = Items
    BY <1>0, <1>2, PipeOK DEF ReadQuery, Items
  <2> QED BY <1>0, <1>2, <2>1 DEF ReadQuery, Stay, query, ForwarderRecords
<1>3. CASE \E res \in Results : Resolve(res)
  BY <1>3 DEF Resolve, Stay, Items
<1>4. CASE WriteResponse \/ GiveUpStopping \/ ForwarderFails
  BY <1>4 DEF WriteResponse, GiveUpStopping, ForwarderFails, AbandonQuery, Stay, Items
<1>5. CASE ForwarderStops
  BY <1>0, <1>5 DEF ForwarderStops, Stay, Items, ForwarderRecords
<1> QED BY <1>1, <1>2, <1>3, <1>4, <1>5 DEF ForwarderStep

LEMMA LineMoves ==
  ASSUME TypeInv, [Next]_vars
  PROVE  Stay \/ Grow \/ Pass \/ Take
<1>1. ASSUME NEW c \in Clients, NEW k \in Kinds, Arrive(c, k) PROVE Grow
  BY <1>1 DEF Arrive, Grow, Items, TypeInv, TypeOK
<1>2. ASSUME \E t \in ThreadNames : AskToStop(t) PROVE Stay
  BY <1>2 DEF AskToStop, Stay, Items, query
<1>3. ASSUME UNCHANGED vars PROVE Stay
  BY <1>3 DEF vars, Stay, Items, query
<1> QED BY <1>1, <1>2, <1>3, ReceiverPasses, ForwarderTakes DEF Next

LEMMA LineTypes ==
  ASSUME TypeInv
  PROVE  /\ Items \in Seq(Entries) /\ inbox \in Seq(1 .. Len(asked)) /\ Len(asked) \in Nat
         /\ \A e \in Entries : e.q \in Queries /\ e.q \in Nat
         /\ \A i \in 1 .. Len(Items) : Items[i] \in Entries
         /\ \A j \in 1 .. Len(inbox) : inbox[j] \in 1 .. Len(asked)
         /\ forwarder.pc \in {"read", "resolve"} => query \in Queries /\ query \in Nat
<1>1. Items \in Seq(Entries) /\ inbox \in Seq(1 .. Len(asked)) /\ Len(asked) \in Nat
  BY DEF TypeInv, TypeOK, Queue, Items
<1>2. \A e \in Entries : e.q \in Queries /\ e.q \in Nat
  BY MaxAssumption DEF Entries, Queries
<1>3. forwarder.pc \in {"read", "resolve"} => query \in Queries /\ query \in Nat
  BY <1>2 DEF TypeInv, InHand, query
<1> QED BY <1>1, <1>2, <1>3

LEMMA AheadMoves ==
  ASSUME TypeInv, Queued, Stay \/ Grow \/ Pass \/ Take
  PROVE  /\ \A a \in Ahead' : a \in Nat /\ \E b \in Ahead : b <= a
         /\ Take => query' \in Ahead
<1> DEFINE n == Len(asked)
<1>0. Items \in Seq(Entries) /\ inbox \in Seq(1 .. n) /\ n \in Nat /\ \A e \in Entries : e.q \in Nat
  BY LineTypes
<1>1. \A a \in Ahead : a \in Nat
  BY AheadNumbers
<1>2. CASE Stay
  <2>1. Ahead' = Ahead
    BY <1>2 DEF Stay, Ahead
  <2>2. ~Take
    <3>1. ASSUME Items # <<>> PROVE Len(Tail(Items)) # Len(Items)
      BY <1>0, <3>1
    <3> QED BY <1>2, <3>1 DEF Stay, Take
  <2>3. \A a \in Ahead : a \in Nat /\ a <= a
    BY <1>1
  <2> QED BY <2>1, <2>2, <2>3
<1>3. CASE Grow
  <2>1. \A j \in 1 .. Len(inbox') : inbox'[j] = n + 1 \/ \E k \in 1 .. Len(inbox) : inbox'[j] = inbox[k]
    BY <1>0, <1>3 DEF Grow
  <2>2. \A a \in Ahead' : a \in Ahead \/ a = n + 2
    <3> SUFFICES ASSUME NEW a \in Ahead' PROVE a \in Ahead \/ a = n + 2
      OBVIOUS
    <3>1. \/ \E i \in 1 .. Len(Items) : a = Items[i].q
          \/ \E j \in 1 .. Len(inbox') : a = inbox'[j]
          \/ a = (n + 1) + 1
      BY <1>3 DEF Grow, Ahead
    <3> QED BY <1>0, <2>1, <3>1 DEF Ahead
  <2>3. n + 1 \in Ahead /\ n + 1 <= n + 2 /\ n + 2 \in Nat
    BY <1>0 DEF Ahead
  <2>4. ~Take
    <3>1. ASSUME Items # <<>> PROVE Len(Tail(Items)) # Len(Items)
      BY <1>0, <3>1
    <3> QED BY <1>3, <3>1 DEF Grow, Take
  <2> HIDE DEF n
  <2> QED BY <1>1, <2>2, <2>3, <2>4
<1>4. CASE Pass
  <2>1. /\ \A j \in 1 .. Len(inbox') : \E k \in 1 .. Len(inbox) : inbox'[j] = inbox[k]
        /\ \E k \in 1 .. Len(inbox) : Head(inbox) = inbox[k]
    BY <1>0, <1>4 DEF Pass
  <2>2. \A i \in 1 .. Len(Items') : \/ Items'[i].q = Head(inbox)
                                    \/ \E k \in 1 .. Len(Items) : Items'[i].q = Items[k].q
    <3>1. CASE Items' = Items
      BY <3>1
    <3>2. ASSUME NEW e \in Entries, e.q = Head(inbox), Items' = Append(Items, e),
                 NEW i \in 1 .. Len(Items')
          PROVE  \/ Items'[i].q = Head(inbox)
                 \/ \E k \in 1 .. Len(Items) : Items'[i].q = Items[k].q
      <4>1. /\ i \in 1 .. Len(Items) \/ i = Len(Items) + 1
            /\ \A k \in 1 .. Len(Items) : Append(Items, e)[k] = Items[k]
            /\ Append(Items, e)[Len(Items) + 1] = e
        BY <1>0, <3>2
      <4> QED BY <3>2, <4>1
    <3> QED BY <1>4, <3>1, <3>2 DEF Pass
  <2>3. Ahead' \subseteq Ahead
    <3> SUFFICES ASSUME NEW a \in Ahead' PROVE a \in Ahead
      OBVIOUS
    <3>1. \/ \E i \in 1 .. Len(Items') : a = Items'[i].q
          \/ \E j \in 1 .. Len(inbox') : a = inbox'[j]
          \/ a = n + 1
      BY <1>4 DEF Pass, Ahead
    <3> QED BY <2>1, <2>2, <3>1 DEF Ahead
  <2>4. ~Take
    <3>1. Len(Tail(inbox)) # Len(inbox)
      BY <1>0, <1>4 DEF Pass
    <3> QED BY <1>4, <3>1 DEF Pass, Take
  <2> QED BY <1>1, <2>3, <2>4
<1>5. CASE Take
  <2>1. /\ \A i \in 1 .. Len(Items') : \E k \in 1 .. Len(Items) : Items'[i] = Items[k]
        /\ \E k \in 1 .. Len(Items) : Head(Items) = Items[k]
    BY <1>0, <1>5 DEF Take
  <2>2. Ahead' \subseteq Ahead
    <3> SUFFICES ASSUME NEW a \in Ahead' PROVE a \in Ahead
      OBVIOUS
    <3>1. \/ \E i \in 1 .. Len(Items') : a = Items'[i].q
          \/ \E j \in 1 .. Len(inbox) : a = inbox[j]
          \/ a = n + 1
      BY <1>5 DEF Take, Ahead
    <3> QED BY <2>1, <3>1 DEF Ahead
  <2>3. query' \in Ahead
    BY <1>5, <2>1 DEF Take, Ahead
  <2> QED BY <1>1, <2>2, <2>3
<1> QED BY <1>2, <1>3, <1>4, <1>5

LEMMA OrderMoves ==
  ASSUME TypeInv, QueueOrder, Stay \/ Grow \/ Pass \/ Take
  PROVE  QueueOrder'
<1> DEFINE n == Len(asked)
<1>0. /\ Items \in Seq(Entries) /\ inbox \in Seq(1 .. n) /\ n \in Nat
      /\ \A e \in Entries : e.q \in Nat
      /\ \A i \in 1 .. Len(Items) : Items[i] \in Entries
      /\ \A j \in 1 .. Len(inbox) : inbox[j] \in 1 .. n
      /\ forwarder.pc \in {"read", "resolve"} => query \in Nat
  BY LineTypes
<1>1. /\ \A a \in Ahead' : a \in Nat /\ \E b \in Ahead : b <= a
      /\ \A a \in Ahead : a \in Nat
      /\ Queued /\ Current
  BY AheadMoves, AheadNumbers DEF QueueOrder
<1>2. ASSUME UNCHANGED <<forwarder>> \/ Stay PROVE Current'
  <2>1. forwarder'.pc \in {"read", "resolve"} => forwarder.pc \in {"read", "resolve"} /\ query' = query
    BY <1>2 DEF Stay, query
  <2>2. ASSUME forwarder.pc \in {"read", "resolve"}, NEW a \in Ahead' PROVE query < a
    BY <1>0, <1>1, <2>2 DEF Current
  <2> QED BY <2>1, <2>2 DEF Current
<1>3. CASE Stay
  <2>1. Queued'
    BY <1>1, <1>3 DEF Stay, Queued
  <2> QED BY <1>2, <1>3, <2>1 DEF QueueOrder
<1>4. CASE Grow
  <2>1. /\ Len(inbox') = Len(inbox) + 1 /\ inbox'[Len(inbox) + 1] = n + 1
        /\ \A j \in 1 .. Len(inbox) : inbox'[j] = inbox[j]
    BY <1>0, <1>4 DEF Grow
  <2>2. Queued'
    BY <1>0, <1>1, <1>4, <2>1 DEF Grow, Queued
  <2> QED BY <1>2, <1>4, <2>2 DEF QueueOrder, Grow
<1>5. CASE Pass
  <2>1. /\ Len(inbox) \in Nat /\ Len(inbox') = Len(inbox) - 1 /\ Len(inbox) >= 1 /\ Head(inbox) = inbox[1]
        /\ \A j \in 1 .. Len(inbox') : inbox'[j] = inbox[j + 1]
    BY <1>0, <1>5 DEF Pass
  <2>4. \A i, j \in 1 .. Len(inbox') : i < j => inbox'[i] < inbox'[j]
    <3> SUFFICES ASSUME NEW i \in 1 .. Len(inbox'), NEW j \in 1 .. Len(inbox'), i < j
                 PROVE  inbox'[i] < inbox'[j]
      OBVIOUS
    <3>1. i + 1 \in 1 .. Len(inbox) /\ j + 1 \in 1 .. Len(inbox) /\ i + 1 < j + 1
      BY <2>1
    <3> QED BY <1>1, <2>1, <3>1 DEF Queued
  <2>5. \A j \in 1 .. Len(inbox') :
          /\ inbox[1] < inbox'[j]
          /\ \A i \in 1 .. Len(Items) : Items[i].q < inbox'[j]
    <3> SUFFICES ASSUME NEW j \in 1 .. Len(inbox')
                 PROVE  /\ inbox[1] < inbox'[j]
                        /\ \A i \in 1 .. Len(Items) : Items[i].q < inbox'[j]
      OBVIOUS
    <3>1. j + 1 \in 1 .. Len(inbox) /\ 1 \in 1 .. Len(inbox) /\ 1 < j + 1
      BY <2>1
    <3> QED BY <1>1, <2>1, <3>1 DEF Queued
  <2>6. \A i \in 1 .. Len(Items) : Items[i].q <= n /\ Items[i].q < inbox[1]
    <3>1. 1 \in 1 .. Len(inbox)
      BY <2>1
    <3> QED BY <1>1, <3>1 DEF Queued
  <2>2. CASE Items' = Items
    <3>1. Queued'
      BY <1>1, <1>5, <2>2, <2>4, <2>5 DEF Pass, Queued
    <3> QED BY <1>2, <1>5, <3>1 DEF QueueOrder, Pass
  <2>3. CASE Items' # Items
    <3>1. PICK e \in Entries : e.q = inbox[1] /\ Items' = Append(Items, e)
      BY <1>5, <2>1, <2>3 DEF Pass
    <3>2. /\ Len(Items) \in Nat /\ Len(Items') = Len(Items) + 1 /\ Items'[Len(Items) + 1] = e
          /\ \A i \in 1 .. Len(Items) : Items'[i] = Items[i]
      BY <1>0, <3>1
    <3>3. \A i \in 1 .. Len(Items') : i \in 1 .. Len(Items) \/ i = Len(Items) + 1
      BY <3>2
    <3>4. \A i, j \in 1 .. Len(Items') : i < j => Items'[i].q < Items'[j].q
      <4> SUFFICES ASSUME NEW i \in 1 .. Len(Items'), NEW j \in 1 .. Len(Items'), i < j
                   PROVE  Items'[i].q < Items'[j].q
        OBVIOUS
      <4>1. i \in 1 .. Len(Items)
        BY <3>2
      <4>2. CASE j \in 1 .. Len(Items)
        BY <1>1, <3>2, <4>1, <4>2 DEF Queued
      <4>3. CASE j = Len(Items) + 1
        BY <2>6, <3>1, <3>2, <4>1, <4>3
      <4> QED BY <3>3, <4>2, <4>3
    <3>5. \A i \in 1 .. Len(Items') : Items'[i].q <= n /\ \A j \in 1 .. Len(inbox') : Items'[i].q < inbox'[j]
      <4> SUFFICES ASSUME NEW i \in 1 .. Len(Items')
                   PROVE  Items'[i].q <= n /\ \A j \in 1 .. Len(inbox') : Items'[i].q < inbox'[j]
        OBVIOUS
      <4>1. CASE i \in 1 .. Len(Items)
        BY <2>5, <2>6, <3>2, <4>1
      <4>2. CASE i = Len(Items) + 1
        <5>1. inbox[1] <= n
          BY <1>0, <2>1
        <5> QED BY <2>5, <3>1, <3>2, <4>2, <5>1
      <4> QED BY <3>3, <4>1, <4>2
    <3>6. Queued'
      BY <1>5, <2>4, <3>4, <3>5 DEF Pass, Queued
    <3> QED BY <1>2, <1>5, <3>6 DEF QueueOrder, Pass
  <2> QED BY <2>2, <2>3
<1>6. CASE Take
  <2>1. /\ Len(Items) \in Nat /\ Len(Items') = Len(Items) - 1 /\ Len(Items) >= 1 /\ Head(Items) = Items[1]
        /\ \A i \in 1 .. Len(Items') : Items'[i] = Items[i + 1]
    BY <1>0, <1>6 DEF Take
  <2>2. Queued'
    <3>1. \A i \in 1 .. Len(Items') : i + 1 \in 1 .. Len(Items)
      BY <2>1
    <3>2. \A i, j \in 1 .. Len(Items') : i < j => Items'[i].q < Items'[j].q
      <4> SUFFICES ASSUME NEW i \in 1 .. Len(Items'), NEW j \in 1 .. Len(Items'), i < j
                   PROVE  Items'[i].q < Items'[j].q
        OBVIOUS
      <4>1. i + 1 \in 1 .. Len(Items) /\ j + 1 \in 1 .. Len(Items) /\ i + 1 < j + 1
        BY <2>1
      <4> QED BY <1>1, <2>1, <4>1 DEF Queued
    <3>3. \A i \in 1 .. Len(Items') : Items'[i].q <= n /\ \A j \in 1 .. Len(inbox) : Items'[i].q < inbox[j]
      BY <1>1, <2>1, <3>1 DEF Queued
    <3> QED BY <1>1, <1>6, <3>2, <3>3 DEF Take, Queued
  <2>3. Current'
    <3> SUFFICES ASSUME NEW a \in Ahead' PROVE query' < a
      BY DEF Current
    <3>1. \/ \E i \in 1 .. Len(Items') : a = Items'[i].q
          \/ \E j \in 1 .. Len(inbox) : a = inbox[j]
          \/ a = n + 1
      BY <1>6 DEF Take, Ahead
    <3>2. query' = Items[1].q /\ Items[1].q <= n /\ Items[1].q \in Nat
      BY <1>0, <1>1, <1>6, <2>1 DEF Take, Queued
    <3>3. ASSUME NEW i \in 1 .. Len(Items'), a = Items'[i].q PROVE query' < a
      <4>1. i + 1 \in 1 .. Len(Items) /\ 1 \in 1 .. Len(Items) /\ 1 < i + 1
        BY <2>1
      <4> QED BY <1>1, <2>1, <3>2, <3>3, <4>1 DEF Queued
    <3>4. ASSUME NEW j \in 1 .. Len(inbox), a = inbox[j] PROVE query' < a
      <4>1. 1 \in 1 .. Len(Items)
        BY <2>1
      <4> QED BY <1>1, <3>2, <3>4, <4>1 DEF Queued
    <3>5. query' < n + 1
      BY <1>0, <3>2
    <3> QED BY <3>1, <3>3, <3>4, <3>5
  <2> QED BY <2>2, <2>3 DEF QueueOrder
<1> QED BY <1>3, <1>4, <1>5, <1>6

-----------------------------------------------------------------------------
(* Type correctness of the resolver, and what an attempt may be.           *)
Datagrams == [of : Queries, form : Forms]
Outcomes == [by : {"nobody", "servfail", "nxdomain", "nameserver"}, of : Queries]
Attempts == [at : {"send", "select", "check"}, server : 1 .. Nameservers + 1,
             try : 1 .. Retries, armed : BOOLEAN]
ResolverTypes ==
    /\ attempt \in Attempts
    /\ forwarder.pc # "resolve" => attempt = FirstAttempt
    /\ socketUDP \in Seq(Datagrams)
    /\ unsent \in 0 .. MaxDatagrams
    /\ sends \in [Queries -> Nat]
    /\ outcome \in [Queries -> Outcomes]

ResolverInv == ResolverTypes /\ AttemptOK /\ OwnId

LEMMA FirstAttemptOK ==
  /\ FirstAttempt \in Attempts
  /\ FirstAttempt.at = "send" /\ FirstAttempt.server = 1 /\ FirstAttempt.try = 1
BY NameserversAssumption, RetriesAssumption DEF FirstAttempt, Attempts

LEMMA ResolverInit == InitForwarder => ResolverInv
<1> SUFFICES ASSUME InitForwarder PROVE ResolverInv
  OBVIOUS
<1>1. ResolverTypes
  BY FirstAttemptOK, DatagramsAssumption DEF InitForwarder, ResolverTypes, Outcomes
<1>2. AttemptOK /\ OwnId
  BY FirstAttemptOK DEF InitForwarder, AttemptOK, OwnId
<1> QED BY <1>1, <1>2 DEF ResolverInv

(* Concluding an attempt leaves none behind.                               *)
LEMMA ConcludePreserves ==
  ASSUME TypeInv, ResolverInv, NEW res, NEW by \in {"servfail", "nxdomain", "nameserver"},
         NEW of \in Queries, Conclude(res, by, of), by = "nameserver" => DnsId[of] = DnsId[query],
         socketUDP' \in Seq(Datagrams)
  PROVE  ResolverInv'
<1>1. forwarder.pc = "resolve" /\ query \in Queries
  BY LineTypes DEF Conclude, Resolve
<1>2. attempt' = FirstAttempt /\ UNCHANGED <<unsent, sends>>
  BY DEF Conclude
<1>3. outcome' = [outcome EXCEPT ![query] = [by |-> by, of |-> of]]
  BY DEF Conclude
<1>4. [by |-> by, of |-> of] \in Outcomes
  BY DEF Outcomes
<1>5. outcome' \in [Queries -> Outcomes]
  BY <1>3, <1>4 DEF ResolverInv, ResolverTypes
<1>6. ResolverTypes'
  BY <1>2, <1>5, FirstAttemptOK DEF ResolverInv, ResolverTypes
<1>7. AttemptOK'
  BY <1>2, FirstAttemptOK DEF AttemptOK
<1>8. OwnId'
  <2> SUFFICES ASSUME NEW q \in Queries, outcome'[q].by = "nameserver"
               PROVE  DnsId[outcome'[q].of] = DnsId[q]
    BY DEF OwnId
  <2>1. CASE q = query
    <3>1. outcome'[q] = [by |-> by, of |-> of]
      BY <1>1, <1>3, <2>1 DEF ResolverInv, ResolverTypes
    <3> QED BY <2>1, <3>1
  <2>2. CASE q # query
    <3>1. outcome'[q] = outcome[q]
      BY <1>3, <2>2 DEF ResolverInv, ResolverTypes
    <3> QED BY <3>1 DEF ResolverInv, OwnId
  <2> QED BY <2>1, <2>2
<1> QED BY <1>6, <1>7, <1>8 DEF ResolverInv

(* An attempt goes on: the query stays at hand.                            *)
LEMMA AttemptPreserves ==
  ASSUME ResolverInv, forwarder.pc = "resolve", UNCHANGED vars, UNCHANGED <<unsent, outcome>>,
         sends' \in [Queries -> Nat], socketUDP' \in Seq(Datagrams),
         attempt' \in Attempts,
         attempt'.server <= Nameservers \/ (attempt'.at = "send" /\ attempt'.try = 1)
  PROVE  ResolverInv'
<1>1. UNCHANGED forwarder
  BY DEF vars
<1>2. ResolverTypes'
  BY <1>1 DEF ResolverInv, ResolverTypes
<1>3. AttemptOK' /\ OwnId'
  BY DEF ResolverInv, AttemptOK, OwnId
<1> QED BY <1>2, <1>3 DEF ResolverInv

(* What a step does to the locals of the handler.                          *)
LEMMA AttemptFields ==
  ASSUME attempt \in Attempts, NEW at \in {"send", "select", "check"},
         NEW server \in 1 .. Nameservers + 1, NEW try \in 1 .. Retries, NEW armed \in BOOLEAN
  PROVE  /\ [attempt EXCEPT !.at = at] \in Attempts
         /\ [attempt EXCEPT !.at = at, !.armed = armed] \in Attempts
         /\ [attempt EXCEPT !.at = at, !.try = try] \in Attempts
         /\ [attempt EXCEPT !.at = at, !.try = try, !.server = server] \in Attempts
BY DEF Attempts

LEMMA DatagramFacts ==
  ASSUME socketUDP \in Seq(Datagrams), socketUDP # <<>>
  PROVE  Head(socketUDP) \in Datagrams /\ Head(socketUDP).of \in Queries /\ Tail(socketUDP) \in Seq(Datagrams)
<1>1. Head(socketUDP) \in Datagrams /\ Tail(socketUDP) \in Seq(Datagrams)
  OBVIOUS
<1> QED BY <1>1 DEF Datagrams

LEMMA HandlerPreserves ==
  ASSUME TypeInv, ResolverInv, Handler
  PROVE  ResolverInv'
<1>0. /\ attempt \in Attempts /\ socketUDP \in Seq(Datagrams) /\ sends \in [Queries -> Nat]
      /\ forwarder.pc = "resolve" => query \in Queries
  BY LineTypes DEF ResolverInv, ResolverTypes
<1>1. CASE EncodeFails
  BY <1>0, <1>1, ConcludePreserves DEF EncodeFails
<1>2. CASE Send
  <2>1. forwarder.pc = "resolve" /\ UNCHANGED vars /\ UNCHANGED <<unsent, outcome, socketUDP>>
    BY <1>2 DEF Send, Asking
  <2>2. attempt.server \in Nat /\ attempt.server <= Nameservers
    BY <1>0, <1>2, NameserversAssumption DEF Send, Attempts
  <2>3. attempt' = [attempt EXCEPT !.at = "select"]
    BY <1>2 DEF Send
  <2>4. attempt' \in Attempts /\ attempt'.server = attempt.server
    BY <1>0, <2>3 DEF Attempts
  <2>5. sends' \in [Queries -> Nat]
    BY <1>0, <1>2, <2>1 DEF Send
  <2> QED BY <1>0, <2>1, <2>2, <2>4, <2>5, AttemptPreserves
<1>3. CASE Discard
  <2>1. forwarder.pc = "resolve" /\ UNCHANGED vars /\ UNCHANGED <<unsent, outcome, sends, attempt>>
    BY <1>3 DEF Discard, Asking
  <2>2. socketUDP' \in Seq(Datagrams)
    BY <1>0, <1>3, DatagramFacts DEF Discard, Readable
  <2>3. attempt.server <= Nameservers \/ (attempt.at = "send" /\ attempt.try = 1)
    BY DEF ResolverInv, AttemptOK
  <2> QED BY <1>0, <2>1, <2>2, <2>3, AttemptPreserves
<1>4. CASE Accept
  <2> DEFINE d == Head(socketUDP)
  <2>1. d.of \in Queries /\ Tail(socketUDP) \in Seq(Datagrams)
    BY <1>0, <1>4, DatagramFacts DEF Accept, Readable
  <2>2. DnsId[d.of] = DnsId[query] /\ socketUDP' = Tail(socketUDP)
    BY <1>4 DEF Accept, Matches
  <2>3. \E res : Conclude(res, "nameserver", d.of)
    BY <1>4 DEF Accept
  <2> HIDE DEF d
  <2> QED BY <2>1, <2>2, <2>3, ConcludePreserves
<1>5. CASE LastMoment \/ Timeout
  <2>1. /\ forwarder.pc = "resolve" /\ attempt.at = "select"
        /\ UNCHANGED vars /\ UNCHANGED <<unsent, outcome, sends, socketUDP>>
    BY <1>5 DEF LastMoment, Timeout, Asking
  <2>2. \/ attempt' = [attempt EXCEPT !.at = "check"]
        \/ attempt' = [attempt EXCEPT !.at = "check", !.armed = FALSE]
    BY <1>5 DEF LastMoment, Timeout
  <2>3. attempt' \in Attempts /\ attempt'.server = attempt.server
    BY <1>0, <2>2 DEF Attempts
  <2>4. attempt.server <= Nameservers
    BY <2>1 DEF ResolverInv, AttemptOK
  <2> QED BY <1>0, <2>1, <2>3, <2>4, AttemptPreserves
<1>6. CASE TryAgain
  <2>1. /\ forwarder.pc = "resolve" /\ attempt.at = "check"
        /\ UNCHANGED vars /\ UNCHANGED <<unsent, outcome, sends, socketUDP>>
    BY <1>6 DEF TryAgain, Asking
  <2>2. attempt.server <= Nameservers /\ attempt.server \in Nat /\ attempt.try \in 1 .. Retries
    BY <1>0, <2>1, NameserversAssumption DEF ResolverInv, AttemptOK, Attempts
  <2>3. CASE attempt.try < Retries
    <3>1. attempt' = [attempt EXCEPT !.at = "send", !.try = @ + 1]
      BY <1>6, <2>3 DEF TryAgain, NextAttempt
    <3>2. attempt.try + 1 \in 1 .. Retries
      BY <2>2, <2>3, RetriesAssumption
    <3>3. attempt' \in Attempts /\ attempt'.server = attempt.server
      BY <1>0, <3>1, <3>2 DEF Attempts
    <3> QED BY <1>0, <2>1, <2>2, <3>3, AttemptPreserves
  <2>4. CASE ~(attempt.try < Retries)
    <3>1. attempt' = [attempt EXCEPT !.at = "send", !.try = 1, !.server = @ + 1]
      BY <1>6, <2>4 DEF TryAgain, NextAttempt
    <3>2. attempt.server + 1 \in 1 .. Nameservers + 1 /\ 1 \in 1 .. Retries
      BY <2>2, RetriesAssumption, NameserversAssumption
    <3>3. attempt' \in Attempts /\ attempt'.at = "send" /\ attempt'.try = 1
      BY <1>0, <3>1, <3>2 DEF Attempts
    <3> QED BY <1>0, <2>1, <3>3, AttemptPreserves
  <2> QED BY <2>3, <2>4
<1>7. CASE GiveUp
  <2>1. attempt' = FirstAttempt /\ UNCHANGED <<unsent, outcome, sends, socketUDP>>
    BY <1>7 DEF GiveUp
  <2>2. ResolverTypes' /\ AttemptOK' /\ OwnId'
    BY <2>1, FirstAttemptOK DEF ResolverInv, ResolverTypes, AttemptOK, OwnId
  <2> QED BY <2>2 DEF ResolverInv
<1>8. CASE NoAnswer
  BY <1>0, <1>8, ConcludePreserves DEF NoAnswer, Asking
<1> QED BY <1>1, <1>2, <1>3, <1>4, <1>5, <1>6, <1>7, <1>8 DEF Handler

LEMMA OthersLeaveForwarder == ASSUME TypeInv, Others PROVE UNCHANGED forwarder
<1>1. CASE MainStep
  BY <1>1 DEF MainStep, StartReceiver, StartForwarder, Start, ReceiverStarted, ForwarderStarted,
              Started, StopRefused, StopThread, AskToStop, Join, ReturnFromMain, vars
<1>2. CASE InitializeStep
  BY <1>2 DEF InitializeStep, Initialize, vars
<1>3. CASE ReceiverRuns \/ ReceiverFaults
  BY <1>3, ReceiverMoves DEF ReceiverRuns, ReceiverFaults, ReceiverInitFails
<1>4. CASE Environment
  BY <1>4 DEF Environment, Arrive, Signal, vars
<1> QED BY <1>1, <1>2, <1>3, <1>4 DEF Others

(* The other steps leave the resolver's variables alone, but for a         *)
(* nameserver that answers and a socket call that fails.                   *)
LEMMA ResolverStep ==
  ASSUME TypeInv, ResolverInv, [NextForwarder]_forwarderVars
  PROVE  ResolverInv'
<1>1. ASSUME UNCHANGED resolverVars, forwarder'.pc # "resolve" => attempt = FirstAttempt
      PROVE  ResolverInv'
  <2>1. ResolverTypes' /\ AttemptOK' /\ OwnId'
    BY <1>1 DEF ResolverInv, ResolverTypes, AttemptOK, OwnId, resolverVars
  <2> QED BY <2>1 DEF ResolverInv
<1>2. ASSUME UNCHANGED resolverVars, UNCHANGED forwarder PROVE ResolverInv'
  BY <1>1, <1>2 DEF ResolverInv, ResolverTypes
<1>3. CASE Around
  <2>1. UNCHANGED resolverVars /\ forwarder.pc # "resolve"
    BY <1>3 DEF Around, TakeQuery, ReadQuery, WriteResponse, ForwarderStops
  <2> QED BY <1>1, <2>1 DEF ResolverInv, ResolverTypes
<1>4. CASE SocketFaults
  <2>1. attempt' = FirstAttempt /\ UNCHANGED <<socketUDP, unsent, sends, outcome>>
    BY <1>4 DEF SocketFaults, SocketFails
  <2>2. ResolverTypes' /\ AttemptOK' /\ OwnId'
    BY <2>1, FirstAttemptOK DEF ResolverInv, ResolverTypes, AttemptOK, OwnId
  <2> QED BY <2>2 DEF ResolverInv
<1>5. CASE Others
  <2>1. UNCHANGED resolverVars
    BY <1>5 DEF Others
  <2>2. UNCHANGED forwarder
    BY <1>5, OthersLeaveForwarder
  <2> QED BY <1>2, <2>1, <2>2
<1>6. CASE Upstream
  <2>1. PICK q \in Queries, form \in Forms : NameserverSends(q, form)
    BY <1>6 DEF Upstream
  <2>2. UNCHANGED <<forwarder, attempt, sends, outcome>>
    BY <2>1 DEF NameserverSends, allVars, vars
  <2>3. unsent' \in 0 .. MaxDatagrams
    BY <2>1, DatagramsAssumption DEF NameserverSends, ResolverInv, ResolverTypes
  <2>4. socketUDP' \in Seq(Datagrams)
    <3>1. [of |-> q, form |-> form] \in Datagrams
      BY DEF Datagrams
    <3> QED BY <2>1, <3>1 DEF NameserverSends, ResolverInv, ResolverTypes
  <2>5. ResolverTypes' /\ AttemptOK' /\ OwnId'
    BY <2>2, <2>3, <2>4 DEF ResolverInv, ResolverTypes, AttemptOK, OwnId
  <2> QED BY <2>5 DEF ResolverInv
<1>7. CASE UNCHANGED forwarderVars
  <2>1. UNCHANGED resolverVars /\ UNCHANGED forwarder
    BY <1>7 DEF forwarderVars, allVars, vars
  <2> QED BY <1>2, <2>1
<1> QED BY <1>3, <1>4, <1>5, <1>6, <1>7, HandlerPreserves DEF NextForwarder, ForwarderSteps
-----------------------------------------------------------------------------
(* Counting the attempts.                                                  *)
CountInv == Counted /\ AskedEveryone

LEMMA Products ==
  ASSUME NEW s \in Nat, NEW n \in Nat, NEW r \in Nat, 1 <= s
  PROVE  /\ (s - 1) * r + r = s * r /\ (s - 1) * r \in Nat /\ s * r \in Nat /\ n * r \in Nat
         /\ s <= n => s * r <= n * r
<1>1. (s - 1) * r + r = s * r /\ (s - 1) * r \in Nat /\ s * r \in Nat /\ n * r \in Nat
  OBVIOUS
<1>2. ASSUME s <= n PROVE s * r <= n * r
  <2>1. PICK d \in Nat : n = s + d
    <3>1. n - s \in Nat /\ n = s + (n - s)
      BY <1>2
    <3> QED BY <3>1
  <2>2. n * r = s * r + d * r /\ d * r \in Nat
    BY <2>1
  <2> QED BY <1>1, <2>2
<1> QED BY <1>1, <1>2

LEMMA SentFacts ==
  ASSUME attempt \in Attempts, AttemptOK
  PROVE  /\ attempt.at = "send" /\ attempt.server <= Nameservers => Sent + 1 <= Nameservers * Retries
         /\ ~(attempt.server <= Nameservers) => Sent = Nameservers * Retries
         /\ Sent \in Nat
<1> DEFINE s == attempt.server  t == attempt.try
<1>1. s \in Nat /\ 1 <= s /\ s <= Nameservers + 1 /\ t \in 1 .. Retries /\ attempt.at \in {"send", "select", "check"}
  BY NameserversAssumption DEF Attempts
<1>2. /\ (s - 1) * Retries + Retries = s * Retries /\ (s - 1) * Retries \in Nat
      /\ Nameservers * Retries \in Nat /\ s * Retries \in Nat
      /\ s <= Nameservers => s * Retries <= Nameservers * Retries
  BY <1>1, Products, NameserversAssumption, RetriesAssumption
<1>3. Sent = (s - 1) * Retries + (t - 1) + (IF attempt.at = "send" THEN 0 ELSE 1)
  BY DEF Sent
<1>4. ~(s <= Nameservers) => s - 1 = Nameservers /\ attempt.at = "send" /\ t = 1
  BY <1>1, NameserversAssumption DEF AttemptOK
<1> HIDE DEF s, t
<1>5. Sent \in Nat
  BY <1>1, <1>2, <1>3
<1>6. ASSUME attempt.at = "send", s <= Nameservers PROVE Sent + 1 <= Nameservers * Retries
  <2>1. Sent + 1 = (s - 1) * Retries + t
    BY <1>1, <1>2, <1>3, <1>6
  <2>2. Sent + 1 <= s * Retries
    <3>1. t <= Retries /\ t \in Nat /\ Retries \in Nat
      BY <1>1, RetriesAssumption
    <3> QED BY <1>2, <2>1, <3>1
  <2>3. s * Retries <= Nameservers * Retries
    BY <1>2, <1>6
  <2> QED BY <1>2, <1>5, <2>2, <2>3
<1>7. ASSUME ~(s <= Nameservers) PROVE Sent = Nameservers * Retries
  BY <1>2, <1>3, <1>4, <1>7
<1> QED BY <1>5, <1>6, <1>7 DEF s

LEMMA FreshStays ==
  ASSUME TypeInv, QueueOrder, Counted, [Next]_vars,
         \A r \in Queries : (forwarder.pc = "resolve" /\ r = query) \/
                            (sends'[r] = sends[r] /\ outcome'[r] = outcome[r])
  PROVE  (\A a \in Ahead : FreshFrom(a))'
<1>1. \A a \in Ahead' : a \in Nat /\ \E b \in Ahead : b <= a
  BY LineMoves, AheadMoves DEF QueueOrder
<1>2. \A a \in Ahead : a \in Nat
  BY AheadNumbers
<1> SUFFICES ASSUME NEW a \in Ahead', NEW r \in Queries, r >= a
             PROVE  sends'[r] = 0 /\ outcome'[r].by = "nobody"
  BY DEF FreshFrom
<1>3. PICK b \in Ahead : b <= a
  BY <1>1
<1>4. r >= b /\ r \in Nat
  BY <1>1, <1>2, <1>3, MaxAssumption DEF Queries
<1>5. sends[r] = 0 /\ outcome[r].by = "nobody"
  BY <1>4 DEF Counted, FreshFrom
<1>6. ~(forwarder.pc = "resolve" /\ r = query)
  BY <1>2, <1>4 DEF QueueOrder, Current
<1> QED BY <1>5, <1>6

(* A step that leaves the counts alone, and the forwarder at its place or  *)
(* without a query.                                                        *)
LEMMA CountStays ==
  ASSUME TypeInv, QueueOrder, CountInv, [Next]_vars, UNCHANGED <<sends, outcome>>,
         \/ UNCHANGED <<forwarder, attempt>>
         \/ forwarder'.pc \notin {"read", "resolve"}
  PROVE  CountInv'
<1>1. (\A a \in Ahead : FreshFrom(a))'
  BY FreshStays DEF CountInv
<1>2. AskedEveryone'
  BY DEF CountInv, AskedEveryone
<1>3. (forwarder.pc = "read" => FreshFrom(query))'
  BY DEF CountInv, Counted, FreshFrom, query
<1>4. (forwarder.pc = "resolve" => sends[query] = Sent /\ outcome[query].by = "nobody")'
  BY DEF CountInv, Counted, query, Sent
<1> QED BY <1>1, <1>2, <1>3, <1>4 DEF CountInv, Counted

LEMMA CountConcludes ==
  ASSUME TypeInv, ResolverInv, QueueOrder, CountInv, NEW res, NEW by, NEW of, Conclude(res, by, of),
         by = "nxdomain" => sends[query] = Nameservers * Retries
  PROVE  CountInv'
<1>1. forwarder.pc = "resolve" /\ forwarder'.pc = "write" /\ UNCHANGED sends
  BY DEF Conclude, Resolve
<1>2. outcome' = [outcome EXCEPT ![query] = [by |-> by, of |-> of]]
  BY DEF Conclude
<1>3. query \in Queries /\ outcome \in [Queries -> Outcomes] /\ sends \in [Queries -> Nat]
  BY <1>1, LineTypes DEF ResolverInv, ResolverTypes
<1>4. outcome'[query] = [by |-> by, of |-> of] /\ \A q \in Queries : q # query => outcome'[q] = outcome[q]
  BY <1>2, <1>3
<1>5. [Next]_vars
  BY Concluding DEF Next, ForwarderStep
<1>6. (\A a \in Ahead : FreshFrom(a))'
  BY <1>1, <1>4, <1>5, FreshStays DEF CountInv
<1>7. outcome'[query].by = by
  BY <1>4
<1>8. AskedEveryone'
  BY <1>1, <1>4, <1>7 DEF CountInv, AskedEveryone
<1> QED BY <1>1, <1>6, <1>8 DEF CountInv, Counted

(* An attempt that goes on: only the query at hand may have been sent.     *)
LEMMA CountGoesOn ==
  ASSUME TypeInv, ResolverInv, QueueOrder, CountInv, forwarder.pc = "resolve",
         UNCHANGED vars, UNCHANGED outcome, sends'[query] = Sent',
         \A q \in Queries : q # query => sends'[q] = sends[q],
         sends'[query] <= Nameservers * Retries
  PROVE  CountInv'
<1>1. query' = query /\ UNCHANGED forwarder
  BY DEF vars, query
<1>2. (\A a \in Ahead : FreshFrom(a))'
  BY FreshStays DEF CountInv
<1>3. query \in Queries /\ outcome[query].by = "nobody"
  BY LineTypes DEF CountInv, Counted
<1>4. AskedEveryone'
  BY <1>3 DEF CountInv, AskedEveryone
<1>5. sends'[query'] = Sent' /\ outcome'[query'].by = "nobody"
  BY <1>1, <1>3
<1> QED BY <1>1, <1>2, <1>4, <1>5 DEF CountInv, Counted

LEMMA CountHandler ==
  ASSUME TypeInv, ResolverInv, QueueOrder, CountInv, Handler
  PROVE  CountInv'
<1>0. /\ attempt \in Attempts /\ AttemptOK /\ sends \in [Queries -> Nat]
      /\ attempt.server \in Nat /\ attempt.try \in 1 .. Retries
  BY NameserversAssumption DEF ResolverInv, ResolverTypes, Attempts
<1>1. [Next]_vars
  BY HandlerIsForwarderStep DEF Next
<1>2. forwarder.pc = "resolve" => query \in Queries /\ sends[query] = Sent /\ sends[query] <= Nameservers * Retries
  BY LineTypes DEF CountInv, Counted, AskedEveryone
<1>3. CASE EncodeFails \/ Accept
  <2>1. \E res, by, of : Conclude(res, by, of) /\ by # "nxdomain"
    BY <1>3 DEF EncodeFails, Accept
  <2> QED BY <2>1, CountConcludes
<1>4. CASE NoAnswer
  <2>1. forwarder.pc = "resolve" /\ ~(attempt.server <= Nameservers)
    BY <1>0, <1>4, NameserversAssumption DEF NoAnswer, Asking
  <2>2. sends[query] = Nameservers * Retries
    BY <1>0, <1>2, <2>1, SentFacts
  <2> QED BY <1>4, <2>2, CountConcludes DEF NoAnswer
<1>5. CASE GiveUp
  BY <1>1, <1>5, CountStays DEF GiveUp, GiveUpStopping, AbandonQuery
<1>6. CASE Send
  <2>1. /\ forwarder.pc = "resolve" /\ attempt.at = "send" /\ attempt.server <= Nameservers
        /\ UNCHANGED vars /\ UNCHANGED outcome
    BY <1>6 DEF Send, Asking
  <2>2. sends' = [sends EXCEPT ![query] = @ + 1] /\ attempt' = [attempt EXCEPT !.at = "select"]
    BY <1>6 DEF Send
  <2>3. sends'[query] = sends[query] + 1 /\ \A q \in Queries : q # query => sends'[q] = sends[q]
    BY <1>0, <1>2, <2>1, <2>2
  <2>4. attempt'.at = "select" /\ attempt'.server = attempt.server /\ attempt'.try = attempt.try
    BY <1>0, <2>2 DEF Attempts
  <2>5. Sent \in Nat /\ Sent + 1 <= Nameservers * Retries
    BY <1>0, <2>1, SentFacts
  <2>6. Sent' = Sent + 1
    <3> DEFINE p == (attempt.server - 1) * Retries + (attempt.try - 1)
    <3>1. Sent = p + 0 /\ Sent' = p + 1
      BY <2>1, <2>4 DEF Sent
    <3>2. p \in Int
      BY <1>0, RetriesAssumption
    <3> HIDE DEF p
    <3> QED BY <3>1, <3>2
  <2> QED BY <1>2, <2>1, <2>3, <2>5, <2>6, CountGoesOn
<1>7. CASE Discard
  <2>1. forwarder.pc = "resolve" /\ UNCHANGED vars /\ UNCHANGED <<outcome, sends, attempt>>
    BY <1>7 DEF Discard, Asking
  <2>2. UNCHANGED forwarder
    BY <2>1 DEF vars
  <2> QED BY <1>1, <2>1, <2>2, CountStays
<1>8. CASE LastMoment \/ Timeout
  <2>1. /\ forwarder.pc = "resolve" /\ attempt.at = "select"
        /\ UNCHANGED vars /\ UNCHANGED <<outcome, sends>>
    BY <1>8 DEF LastMoment, Timeout, Asking
  <2>2. \/ attempt' = [attempt EXCEPT !.at = "check"]
        \/ attempt' = [attempt EXCEPT !.at = "check", !.armed = FALSE]
    BY <1>8 DEF LastMoment, Timeout
  <2>3. attempt'.at = "check" /\ attempt'.server = attempt.server /\ attempt'.try = attempt.try
    BY <1>0, <2>2 DEF Attempts
  <2>4. Sent' = Sent
    BY <2>1, <2>3 DEF Sent
  <2> QED BY <1>2, <2>1, <2>4, CountGoesOn
<1>9. CASE TryAgain
  <2>1. /\ forwarder.pc = "resolve" /\ attempt.at = "check"
        /\ UNCHANGED vars /\ UNCHANGED <<outcome, sends>>
    BY <1>9 DEF TryAgain, Asking
  <2>2. CASE attempt.try < Retries
    <3>1. attempt' = [attempt EXCEPT !.at = "send", !.try = @ + 1]
      BY <1>9, <2>2 DEF TryAgain, NextAttempt
    <3>2. attempt'.at = "send" /\ attempt'.server = attempt.server /\ attempt'.try = attempt.try + 1
      BY <1>0, <3>1 DEF Attempts
    <3> DEFINE p == (attempt.server - 1) * Retries
    <3>3. Sent = p + (attempt.try - 1) + 1 /\ Sent' = p + ((attempt.try + 1) - 1) + 0
      BY <2>1, <3>2 DEF Sent
    <3>4. p \in Int /\ attempt.try \in Int
      BY <1>0, RetriesAssumption
    <3> HIDE DEF p
    <3>5. Sent' = Sent
      BY <3>3, <3>4
    <3> QED BY <1>2, <2>1, <3>5, CountGoesOn
  <2>3. CASE ~(attempt.try < Retries)
    <3>1. attempt' = [attempt EXCEPT !.at = "send", !.try = 1, !.server = @ + 1]
      BY <1>9, <2>3 DEF TryAgain, NextAttempt
    <3>2. attempt'.at = "send" /\ attempt'.server = attempt.server + 1 /\ attempt'.try = 1
      BY <1>0, <3>1 DEF Attempts
    <3>3. attempt.try = Retries /\ 1 <= attempt.server /\ Retries \in Nat
      BY <1>0, <2>3, RetriesAssumption DEF Attempts
    <3> DEFINE p == (attempt.server - 1) * Retries  r == attempt.server * Retries
    <3>4. p + Retries = r /\ p \in Nat /\ r \in Nat
      BY <1>0, <3>3, Products
    <3>5. Sent = p + (Retries - 1) + 1
      BY <2>1, <3>3 DEF Sent
    <3>6. Sent' = ((attempt.server + 1) - 1) * Retries + (1 - 1) + 0
      BY <3>2 DEF Sent
    <3>7. (attempt.server + 1) - 1 = attempt.server
      BY <1>0
    <3>8. Sent' = r + (1 - 1) + 0
      BY <3>6, <3>7
    <3> HIDE DEF p, r
    <3>9. Sent' = Sent
      BY <3>3, <3>4, <3>5, <3>8
    <3> QED BY <1>2, <2>1, <3>9, CountGoesOn
  <2> QED BY <2>2, <2>3
<1> QED BY <1>3, <1>4, <1>5, <1>6, <1>7, <1>8, <1>9 DEF Handler

LEMMA CountAround ==
  ASSUME TypeInv, ResolverInv, QueueOrder, CountInv, Around
  PROVE  CountInv'
<1>0. [Next]_vars /\ UNCHANGED <<attempt, sends, outcome>>
  BY DEF Next, Around, ForwarderStep, resolverVars
<1>1. (\A a \in Ahead : FreshFrom(a))' /\ AskedEveryone'
  BY <1>0, FreshStays DEF CountInv, AskedEveryone
<1>2. CASE TakeQuery
  <2>1. forwarder.pc = "idle" /\ forwarder'.pc = "read"
    BY <1>2 DEF TakeQuery
  <2>2. Take
    <3>1. ~Stay
      BY <2>1 DEF Stay
    <3> QED BY <1>2, <3>1, ForwarderTakes DEF ForwarderStep
  <2>3. query' \in Ahead
    BY <2>2, AheadMoves DEF QueueOrder
  <2>4. FreshFrom(query)'
    BY <1>0, <2>3 DEF CountInv, Counted, FreshFrom
  <2> QED BY <1>1, <2>1, <2>4 DEF CountInv, Counted
<1>3. CASE ReadQuery
  <2>1. forwarder.pc = "read" /\ forwarder'.pc = "resolve" /\ query' = query
    <3>1. forwarder \in ForwarderRecords
      BY TypeParts DEF TypeInv
    <3> QED BY <1>3, <3>1 DEF ReadQuery, query, ForwarderRecords
  <2>2. query \in Queries /\ query \in Nat
    BY <2>1, LineTypes
  <2>3. sends[query] = 0 /\ outcome[query].by = "nobody"
    <3>1. query >= query
      BY <2>2
    <3> QED BY <2>1, <2>2, <3>1 DEF CountInv, Counted, FreshFrom
  <2>4. Sent' = 0
    <3>1. attempt' = FirstAttempt
      BY <1>0, <2>1 DEF ResolverInv, ResolverTypes
    <3>2. Sent' = (1 - 1) * Retries + (1 - 1) + 0
      BY <3>1, FirstAttemptOK DEF Sent
    <3>3. (1 - 1) * Retries = 0
      BY RetriesAssumption
    <3> QED BY <3>2, <3>3
  <2> QED BY <1>0, <1>1, <2>1, <2>3, <2>4 DEF CountInv, Counted
<1>4. CASE WriteResponse \/ ForwarderStops
  <2>1. forwarder'.pc \notin {"read", "resolve"}
    <3>1. forwarder \in ForwarderRecords
      BY TypeParts DEF TypeInv
    <3> QED BY <1>4, <3>1 DEF WriteResponse, ForwarderStops, ForwarderRecords
  <2> QED BY <1>0, <2>1, CountStays
<1> QED BY <1>2, <1>3, <1>4 DEF Around

LEMMA CountStep ==
  ASSUME TypeInv, ProxyInv, ResolverInv, QueueOrder, CountInv, [NextForwarder]_forwarderVars
  PROVE  CountInv'
<1>0. [Next]_vars
  BY ForwarderStepIsProxyStep, ProxyStep
<1>1. CASE SocketFaults
  <2>1. UNCHANGED <<sends, outcome>> /\ forwarder'.pc = "failed"
    BY <1>1 DEF SocketFaults, SocketFails, ForwarderFails, AbandonQuery
  <2> QED BY <1>0, <2>1, CountStays
<1>2. CASE Others
  <2>1. UNCHANGED resolverVars
    BY <1>2 DEF Others
  <2>2. UNCHANGED forwarder
    BY <1>2, OthersLeaveForwarder
  <2> QED BY <1>0, <2>1, <2>2, CountStays DEF resolverVars
<1>3. CASE Upstream \/ UNCHANGED forwarderVars
  <2>1. UNCHANGED <<sends, outcome, forwarder, attempt>>
    BY <1>3 DEF Upstream, NameserverSends, forwarderVars, allVars, vars, resolverVars
  <2> QED BY <1>0, <2>1, CountStays
<1> QED BY <1>1, <1>2, <1>3, CountHandler, CountAround DEF NextForwarder, ForwarderSteps
-----------------------------------------------------------------------------
LEMMA OrderInit == InitForwarder => QueueOrder /\ CountInv
<1> SUFFICES ASSUME InitForwarder PROVE QueueOrder /\ CountInv
  OBVIOUS
<1>1. QueueOrder
  BY QueueOrderInit DEF InitForwarder, InitProxy
<1>2. \A q \in Queries : sends[q] = 0 /\ outcome[q].by = "nobody"
  BY DEF InitForwarder
<1>3. Counted
  BY <1>2 DEF Counted, FreshFrom, InitForwarder, InitProxy, Init
<1>4. Nameservers * Retries >= 0
  BY NameserversAssumption, RetriesAssumption
<1>5. AskedEveryone
  BY <1>2, <1>4 DEF AskedEveryone
<1> QED BY <1>1, <1>3, <1>5 DEF CountInv

ForwarderInv == TypeInv /\ ProxyInv /\ ResolverInv /\ QueueOrder /\ CountInv

LEMMA ForwarderInvariant == SpecForwarder => []ForwarderInv
<1>1. InitForwarder => ForwarderInv
  BY ProxyInit, ResolverInit, OrderInit DEF InitForwarder, ForwarderInv
<1>2. ForwarderInv /\ [NextForwarder]_forwarderVars => ForwarderInv'
  <2> SUFFICES ASSUME ForwarderInv, [NextForwarder]_forwarderVars PROVE ForwarderInv'
    OBVIOUS
  <2>1. ProxyInv' /\ TypeInv' /\ [Next]_vars
    BY ForwarderStepIsProxyStep, ProxyStep DEF ForwarderInv
  <2>2. ResolverInv' /\ CountInv'
    BY ResolverStep, CountStep DEF ForwarderInv
  <2>3. QueueOrder'
    BY <2>1, LineMoves, OrderMoves DEF ForwarderInv
  <2> QED BY <2>1, <2>2, <2>3 DEF ForwarderInv
<1> QED BY <1>1, <1>2, PTL DEF SpecForwarder

(* The handler's locals keep their types, and no attempt outlives the      *)
(* query it was made for.                                                  *)
THEOREM ForwarderTypeCorrect == SpecForwarder => []TypeOKForwarder
<1>1. ForwarderInv => TypeOKForwarder
  BY DEF ForwarderInv, TypeInv, ResolverInv, ResolverTypes, TypeOKForwarder, Attempts, Datagrams, Outcomes
<1> QED BY <1>1, ForwarderInvariant, PTL

(* A query whose DNS id no other query has never gets another query's      *)
(* answer, whatever arrives late, twice or malformed in the socket that    *)
(* all queries share.                                                      *)
THEOREM OwnAnswerHolds == SpecForwarder => []UniqueIdOwnAnswer
<1>1. ForwarderInv => UniqueIdOwnAnswer
  <2> SUFFICES ASSUME ForwarderInv, NEW q \in Queries,
                      \A r \in Queries \ {q} : DnsId[r] # DnsId[q],
                      outcome[q].by = "nameserver"
               PROVE  outcome[q].of = q
    BY DEF UniqueIdOwnAnswer
  <2>1. outcome[q] \in Outcomes
    BY DEF ForwarderInv, ResolverInv, ResolverTypes
  <2>2. outcome[q].of \in Queries
    BY <2>1 DEF Outcomes
  <2>3. DnsId[outcome[q].of] = DnsId[q]
    BY DEF ForwarderInv, ResolverInv, OwnId
  <2> QED BY <2>2, <2>3
<1> QED BY <1>1, ForwarderInvariant, PTL

(* NXDOMAIN is sent only after every nameserver has been asked as often as *)
(* configured, and no query is sent more often than that.                  *)
THEOREM AskedEveryoneHolds == SpecForwarder => []AskedEveryone
<1>1. ForwarderInv => AskedEveryone
  BY DEF ForwarderInv, CountInv
<1> QED BY <1>1, ForwarderInvariant, PTL

(* With the retry loop and the main thread in place the proxy still is the *)
(* relay that its clients expect.                                          *)
THEOREM ForwarderIsRelay == SpecForwarder => ImplementsRelay
BY LoopIsResolve, ProcessIsRelay, PTL
=============================================================================
