------------------------- MODULE QueryPipelineProofs -------------------------
(***************************************************************************)
(* Proofs about QueryPipeline, for any clients, any number of queries and  *)
(* ids, and any capacity of the pipes.                                     *)
(***************************************************************************)
EXTENDS QueryPipeline, Integers, TLAPS

(* What TypeOK does not say of the data that the next step will use.       *)
InHand ==
    /\ receiver.pc = "recv" => inbox # <<>>
    /\ receiver.pc \in {"write", "read"} => receiver.entry \in Entries
    /\ receiver.pc = "write" => receiver.entry.q \in DOMAIN asked
    /\ forwarder.pc \in {"read", "resolve"} => forwarder.entry \in Entries

(* Type correctness in parts.                                              *)
ReceiverRecords == [pc : ReceiverPC, out : BOOLEAN, entry : Entries \cup {NoEntry}]
ForwarderRecords == [pc : ForwarderPC, entry : Entries \cup {NoEntry}]
Requests == [client : Clients, kind : Kinds]
MapOK == DOMAIN queryMap \subseteq Ids /\ \A id \in DOMAIN queryMap : queryMap[id] \in Clients
QueuesOK == managedQueue \in Queue /\ forwardQueue \in Queue /\ responseQueue \in Queue

LEMMA NextIdOK == ASSUME TypeOK PROVE NextId \in Ids
BY IdAssumption DEF NextId, Ids, TypeOK

LEMMA SetItems ==
  ASSUME NEW queue \in Queue, NEW s \in Seq(Entries)
  PROVE  /\ [queue EXCEPT !.items = s] \in Queue
         /\ [queue EXCEPT !.items = s].items = s
         /\ [queue EXCEPT !.items = s].pipe = queue.pipe
BY DEF Queue

LEMMA SetPipe ==
  ASSUME NEW queue \in Queue, NEW n \in 0 .. PipeCapacity
  PROVE  /\ [queue EXCEPT !.pipe = n] \in Queue
         /\ [queue EXCEPT !.pipe = n].items = queue.items
         /\ [queue EXCEPT !.pipe = n].pipe = n
BY DEF Queue

LEMMA EnqueueOK ==
  ASSUME NEW queue \in Queue, NEW e \in Entries
  PROVE  /\ Enqueue(queue, e) \in Queue
         /\ Enqueue(queue, e).pipe = queue.pipe
         /\ Enqueue(queue, e).items = Append(queue.items, e)
<1>1. Append(queue.items, e) \in Seq(Entries)
  BY DEF Queue
<1> QED BY <1>1, SetItems DEF Enqueue

LEMMA DequeueOK ==
  ASSUME NEW queue \in Queue, queue.items # <<>>
  PROVE  /\ Dequeue(queue) \in Queue
         /\ Head(queue.items) \in Entries
         /\ Dequeue(queue).pipe = queue.pipe
         /\ Dequeue(queue).items = Tail(queue.items)
<1>1. queue.items \in Seq(Entries)
  BY DEF Queue
<1>2. Tail(queue.items) \in Seq(Entries) /\ Head(queue.items) \in Entries
  BY <1>1
<1> QED BY <1>2, SetItems DEF Dequeue

LEMMA PipeOK ==
  ASSUME NEW queue \in Queue
  PROVE  /\ queue.pipe < PipeCapacity =>
              /\ [queue EXCEPT !.pipe = @ + 1] \in Queue
              /\ [queue EXCEPT !.pipe = @ + 1].items = queue.items
              /\ [queue EXCEPT !.pipe = @ + 1].pipe = queue.pipe + 1
         /\ queue.pipe > 0 =>
              /\ [queue EXCEPT !.pipe = @ - 1] \in Queue
              /\ [queue EXCEPT !.pipe = @ - 1].items = queue.items
              /\ [queue EXCEPT !.pipe = @ - 1].pipe = queue.pipe - 1
<1>1. queue.pipe \in 0 .. PipeCapacity
  BY DEF Queue
<1>2. /\ queue.pipe < PipeCapacity => queue.pipe + 1 \in 0 .. PipeCapacity
      /\ queue.pipe > 0 => queue.pipe - 1 \in 0 .. PipeCapacity
  BY <1>1, CapacityAssumption
<1>3. CASE queue.pipe < PipeCapacity /\ queue.pipe > 0
  BY <1>2, <1>3, SetPipe
<1>4. CASE queue.pipe < PipeCapacity /\ ~(queue.pipe > 0)
  BY <1>2, <1>4, SetPipe
<1>5. CASE ~(queue.pipe < PipeCapacity) /\ queue.pipe > 0
  BY <1>2, <1>5, SetPipe
<1> QED BY <1>3, <1>4, <1>5

LEMMA InsertOK ==
  ASSUME MapOK, NEW id \in Ids, NEW c \in Clients
  PROVE  /\ DOMAIN Insert(queryMap, id, c) \subseteq Ids
         /\ \A i \in DOMAIN Insert(queryMap, id, c) : Insert(queryMap, id, c)[i] \in Clients
BY DEF MapOK, Insert

LEMMA EraseOK ==
  ASSUME MapOK, NEW id
  PROVE  /\ DOMAIN Erase(queryMap, id) \subseteq Ids
         /\ \A i \in DOMAIN Erase(queryMap, id) : Erase(queryMap, id)[i] \in Clients
BY DEF MapOK, Erase
-----------------------------------------------------------------------------
(* TypeOK and InHand are inductive together.                               *)
TypeInv == TypeOK /\ InHand

LEMMA TypeParts ==
  TypeOK <=> /\ asked \in Seq(Requests) /\ Len(asked) <= MaxQueries
             /\ inbox \in Seq(1 .. Len(asked))
             /\ queryIDPool \in Ids
             /\ MapOK
             /\ QueuesOK
             /\ receiver \in ReceiverRecords
             /\ forwarder \in ForwarderRecords
             /\ shouldStop \subseteq ThreadNames
             /\ replies \in [Queries -> Seq(Clients)]
             /\ reused \in BOOLEAN
BY DEF TypeOK, Requests, MapOK, QueuesOK, ReceiverRecords, ForwarderRecords

LEMMA TypePartsNext ==
  TypeOK' <=> (/\ asked \in Seq(Requests) /\ Len(asked) <= MaxQueries
               /\ inbox \in Seq(1 .. Len(asked))
               /\ queryIDPool \in Ids
               /\ MapOK
               /\ QueuesOK
               /\ receiver \in ReceiverRecords
               /\ forwarder \in ForwarderRecords
               /\ shouldStop \subseteq ThreadNames
               /\ replies \in [Queries -> Seq(Clients)]
               /\ reused \in BOOLEAN)'
BY DEF TypeOK, Requests, MapOK, QueuesOK, ReceiverRecords, ForwarderRecords

LEMMA SetReceiver ==
  ASSUME receiver \in ReceiverRecords, NEW pc \in ReceiverPC, NEW out \in BOOLEAN,
         NEW e \in Entries \cup {NoEntry},
         \/ receiver' = [receiver EXCEPT !.pc = pc]
         \/ receiver' = [receiver EXCEPT !.pc = pc, !.out = out]
         \/ receiver' = [receiver EXCEPT !.pc = pc, !.entry = e]
  PROVE  receiver' \in ReceiverRecords /\ receiver'.pc = pc
BY DEF ReceiverRecords

LEMMA SetReceiverEntry ==
  ASSUME receiver \in ReceiverRecords, NEW pc \in ReceiverPC, NEW e \in Entries \cup {NoEntry},
         receiver' = [receiver EXCEPT !.pc = pc, !.entry = e]
  PROVE  receiver' \in ReceiverRecords /\ receiver'.pc = pc /\ receiver'.entry = e
BY DEF ReceiverRecords

LEMMA ReceiverPlaces ==
  /\ "poll" \in ReceiverPC /\ "recv" \in ReceiverPC /\ "write" \in ReceiverPC
  /\ "take" \in ReceiverPC /\ "read" \in ReceiverPC /\ "ended" \in ReceiverPC
  /\ "failed" \in ReceiverPC /\ "terminated" \in ReceiverPC
BY DEF ReceiverPC

LEMMA TypeInit == Init => TypeInv
<1> SUFFICES ASSUME Init PROVE TypeInv
  OBVIOUS
<1> USE DEF Init
<1>1. asked \in Seq(Requests) /\ Len(asked) <= MaxQueries /\ inbox \in Seq(1 .. Len(asked))
  BY MaxAssumption
<1>2. queryIDPool \in Ids
  BY IdAssumption DEF Ids
<1>3. MapOK
  BY DEF MapOK
<1>4. QueuesOK
  BY CapacityAssumption DEF QueuesOK, Queue, EmptyQueue
<1>5. receiver \in ReceiverRecords /\ forwarder \in ForwarderRecords
  BY DEF ReceiverRecords, ForwarderRecords, ReceiverPC, ForwarderPC
<1>6. replies \in [Queries -> Seq(Clients)]
  OBVIOUS
<1>7. InHand
  BY DEF InHand
<1> QED BY <1>1, <1>2, <1>3, <1>4, <1>5, <1>6, <1>7, TypeParts DEF TypeInv

(* The entry at the head of the inbox becomes the entry in hand.           *)
LEMMA NewEntry ==
  ASSUME TypeInv, receiver.pc = "recv"
  PROVE  /\ Head(inbox) \in DOMAIN asked
         /\ asked[Head(inbox)] \in Requests
         /\ Tail(inbox) \in Seq(1 .. Len(asked))
         /\ [id |-> NextId, q |-> Head(inbox), res |-> "query"] \in Entries
<1>1. inbox # <<>> /\ inbox \in Seq(1 .. Len(asked)) /\ asked \in Seq(Requests)
      /\ Len(asked) <= MaxQueries
  BY TypeParts DEF TypeInv, InHand
<1>2. Head(inbox) \in 1 .. Len(asked) /\ Tail(inbox) \in Seq(1 .. Len(asked))
  BY <1>1
<1>3. NextId \in Ids
  BY NextIdOK DEF TypeInv
<1>4. Head(inbox) \in Queries
  BY <1>1, <1>2, MaxAssumption DEF Queries
<1> QED BY <1>1, <1>2, <1>3, <1>4 DEF Entries, Results

LEMMA TypeArrive ==
  ASSUME TypeInv, NEW c \in Clients, NEW k \in Kinds, Arrive(c, k)
  PROVE  TypeInv'
<1> USE TypeParts DEF TypeInv, Arrive
<1>1. asked' \in Seq(Requests) /\ Len(asked') <= MaxQueries /\ Len(asked') = Len(asked) + 1
  BY MaxAssumption DEF Requests
<1>2. inbox' \in Seq(1 .. Len(asked'))
  <2>1. inbox \in Seq(1 .. Len(asked'))
    BY <1>1
  <2>2. Len(asked) + 1 \in 1 .. Len(asked')
    BY <1>1
  <2> QED BY <2>1, <2>2
<1>3. MapOK' /\ QueuesOK'
  BY DEF MapOK, QueuesOK
<1>4. TypeOK'
  BY <1>1, <1>2, <1>3, TypePartsNext
<1>5. inbox # <<>> => inbox' # <<>>
  BY <1>1
<1>6. DOMAIN asked \subseteq DOMAIN asked'
  BY <1>1
<1>7. InHand'
  BY <1>5, <1>6 DEF InHand
<1> QED BY <1>4, <1>7

LEMMA TypeReceiver ==
  ASSUME TypeInv, ReceiverStep \/ ReceiverFails
  PROVE  TypeInv'
<1>0. /\ receiver \in ReceiverRecords /\ AfterIncoming \in {"take", "poll"}
      /\ TRUE \in BOOLEAN /\ NoEntry \in Entries \cup {NoEntry}
  BY TypeParts DEF TypeInv, AfterIncoming
<1>1. CASE Poll
  <2>1. receiver' \in ReceiverRecords /\ receiver'.pc \in {"recv", "take"}
    <3> DEFINE out == responseQueue.pipe > 0
    <3>1. out \in BOOLEAN
      OBVIOUS
    <3>2. PICK pc \in {"recv", "take"} : receiver' = [receiver EXCEPT !.pc = pc, !.out = out]
      BY <1>1 DEF Poll
    <3>3. pc \in ReceiverPC
      BY ReceiverPlaces
    <3> HIDE DEF out
    <3> QED BY <1>0, <3>1, <3>2, <3>3, SetReceiver
  <2>2. MapOK' /\ QueuesOK'
    BY <1>1, TypeParts DEF TypeInv, Poll, MapOK, QueuesOK
  <2>3. TypeOK'
    BY <2>1, <2>2, <1>1, TypeParts, TypePartsNext DEF TypeInv, Poll
  <2>4. InHand'
    <3>1. receiver'.pc = "recv" => inbox # <<>>
      BY <1>0, <1>1 DEF Poll, ReceiverRecords
    <3> QED BY <1>1, <2>1, <3>1 DEF TypeInv, InHand, Poll
  <2> QED BY <2>3, <2>4 DEF TypeInv
<1>2. CASE SkipDatagram
  <2>1. receiver' \in ReceiverRecords /\ receiver'.pc \in {"take", "poll"}
    BY <1>0, <1>2, SetReceiver, ReceiverPlaces DEF SkipDatagram
  <2>2. MapOK' /\ QueuesOK'
    BY <1>2, TypeParts DEF TypeInv, SkipDatagram, MapOK, QueuesOK
  <2>3. TypeOK'
    BY <2>1, <2>2, <1>2, NewEntry, TypeParts, TypePartsNext DEF TypeInv, SkipDatagram
  <2>4. InHand'
    BY <1>2, <2>1 DEF TypeInv, InHand, SkipDatagram
  <2> QED BY <2>3, <2>4 DEF TypeInv
<1>3. CASE HandleIncomingUDP
  <2> DEFINE q == Head(inbox)
             e == [id |-> NextId, q |-> q, res |-> "query"]
  <2>1. e \in Entries /\ q \in DOMAIN asked /\ asked[q] \in Requests
        /\ Tail(inbox) \in Seq(1 .. Len(asked))
    BY <1>3, NewEntry DEF HandleIncomingUDP
  <2>2. /\ receiver' \in ReceiverRecords
        /\ receiver'.pc = "write" /\ receiver'.entry = e
    BY <1>0, <1>3, <2>1, SetReceiverEntry, ReceiverPlaces DEF HandleIncomingUDP
  <2>3. NextId \in Ids /\ asked[q].client \in Clients
    BY <2>1, NextIdOK DEF TypeInv, Requests
  <2>4. MapOK'
    BY <1>3, <2>3, InsertOK, TypeParts DEF TypeInv, HandleIncomingUDP, MapOK
  <2>5. QueuesOK'
    BY <1>3, <2>1, EnqueueOK, TypeParts DEF TypeInv, HandleIncomingUDP, QueuesOK
  <2>6. reused' \in BOOLEAN
    BY <1>3 DEF HandleIncomingUDP
  <2>7. TypeOK'
    BY <1>3, <2>1, <2>2, <2>3, <2>4, <2>5, <2>6, TypeParts, TypePartsNext DEF TypeInv, HandleIncomingUDP
  <2>8. InHand'
    BY <1>3, <2>1, <2>2 DEF TypeInv, InHand, HandleIncomingUDP
  <2> QED BY <2>7, <2>8 DEF TypeInv
<1>4. CASE WriteQuery
  <2>1. receiver' \in ReceiverRecords /\ receiver'.pc \in {"take", "poll"}
    BY <1>0, <1>4, SetReceiver, ReceiverPlaces DEF WriteQuery
  <2>2. MapOK'
    BY <1>4, TypeParts DEF TypeInv, WriteQuery, MapOK
  <2>3. QueuesOK'
    BY <1>4, PipeOK, TypeParts DEF TypeInv, WriteQuery, QueuesOK
  <2>4. TypeOK'
    BY <1>4, <2>1, <2>2, <2>3, TypeParts, TypePartsNext DEF TypeInv, WriteQuery
  <2>5. InHand'
    BY <1>4, <2>1 DEF TypeInv, InHand, WriteQuery
  <2> QED BY <2>4, <2>5 DEF TypeInv
<1>5. CASE TakeResponse
  <2>1. Dequeue(responseQueue) \in Queue /\ Head(responseQueue.items) \in Entries
    BY <1>5, DequeueOK, TypeParts DEF TypeInv, TakeResponse, QueuesOK
  <2>2. /\ receiver' \in ReceiverRecords
        /\ receiver'.pc = "read" /\ receiver'.entry \in Entries
    BY <1>0, <1>5, <2>1, SetReceiverEntry, ReceiverPlaces DEF TakeResponse
  <2>3. MapOK' /\ QueuesOK'
    BY <1>5, <2>1, TypeParts DEF TypeInv, TakeResponse, MapOK, QueuesOK
  <2>4. TypeOK'
    BY <1>5, <2>2, <2>3, TypeParts, TypePartsNext DEF TypeInv, TakeResponse
  <2>5. InHand'
    BY <1>5, <2>2 DEF TypeInv, InHand, TakeResponse
  <2> QED BY <2>4, <2>5 DEF TypeInv
<1>6. ASSUME NEW next \in {"poll", "failed", "terminated"}, ReadResponse(next),
             queryMap' = Erase(queryMap, receiver.entry.id),
             \/ UNCHANGED replies
             \/ Sendable /\ replies' = [replies EXCEPT ![receiver.entry.q] =
                                           Append(@, queryMap[receiver.entry.id])]
      PROVE  TypeInv'
  <2>1. receiver' \in ReceiverRecords /\ receiver'.pc = next
    BY <1>0, <1>6, SetReceiver, ReceiverPlaces DEF ReadResponse
  <2>2. MapOK'
    BY <1>6, EraseOK, TypeParts DEF TypeInv, MapOK
  <2>3. QueuesOK'
    BY <1>6, PipeOK, TypeParts DEF TypeInv, ReadResponse, QueuesOK
  <2>4. replies' \in [Queries -> Seq(Clients)]
    <3>1. receiver.entry.q \in Queries
      BY <1>6 DEF TypeInv, InHand, ReadResponse, Entries
    <3>2. replies \in [Queries -> Seq(Clients)] /\ (Sendable => queryMap[receiver.entry.id] \in Clients)
      BY TypeParts DEF TypeInv, MapOK, Sendable, Known
    <3>3. CASE UNCHANGED replies
      BY <3>2, <3>3
    <3>4. CASE ~UNCHANGED replies
      <4> DEFINE q == receiver.entry.q
                 s == Append(replies[q], queryMap[receiver.entry.id])
      <4>1. s \in Seq(Clients) /\ replies' = [replies EXCEPT ![q] = s]
        BY <1>6, <3>1, <3>2, <3>4
      <4> HIDE DEF q, s
      <4> QED BY <3>1, <3>2, <4>1
    <3> QED BY <3>3, <3>4
  <2>5. TypeOK'
    BY <1>6, <2>1, <2>2, <2>3, <2>4, TypeParts, TypePartsNext DEF TypeInv, ReadResponse
  <2>6. InHand'
    BY <1>6, <2>1 DEF TypeInv, InHand, ReadResponse
  <2> QED BY <2>5, <2>6 DEF TypeInv
<1>7. CASE SendReply
  BY <1>6, <1>7 DEF SendReply
<1>8. CASE DropReply
  BY <1>6, <1>8 DEF DropReply
<1>9. CASE ReceiverFails
  <2>1. CASE receiver.pc = "read"
    BY <1>6, <1>9, <2>1 DEF ReceiverFails
  <2>2. CASE receiver.pc # "read"
    <3>1. receiver' \in ReceiverRecords /\ receiver'.pc = "failed"
      BY <1>0, <1>9, <2>2, SetReceiver, ReceiverPlaces DEF ReceiverFails
    <3>2. MapOK' /\ QueuesOK'
      BY <1>9, <2>2, TypeParts DEF TypeInv, ReceiverFails, MapOK, QueuesOK
    <3>3. TypeOK'
      BY <1>9, <2>2, <3>1, <3>2, TypeParts, TypePartsNext DEF TypeInv, ReceiverFails
    <3>4. InHand'
      BY <1>9, <2>2, <3>1 DEF TypeInv, InHand, ReceiverFails
    <3> QED BY <3>3, <3>4 DEF TypeInv
  <2> QED BY <2>1, <2>2
<1>10. CASE ReceiverStops
  <2>1. receiver' \in ReceiverRecords /\ receiver'.pc = "ended"
    BY <1>0, <1>10, SetReceiver, ReceiverPlaces DEF ReceiverStops
  <2>2. MapOK' /\ QueuesOK'
    BY <1>10, TypeParts DEF TypeInv, ReceiverStops, MapOK, QueuesOK
  <2>3. TypeOK'
    BY <2>1, <2>2, <1>10, TypeParts, TypePartsNext DEF TypeInv, ReceiverStops
  <2>4. InHand'
    BY <1>10, <2>1 DEF TypeInv, InHand, ReceiverStops
  <2> QED BY <2>3, <2>4 DEF TypeInv
<1> QED BY <1>1, <1>2, <1>3, <1>4, <1>5, <1>7, <1>8, <1>9, <1>10 DEF ReceiverStep

LEMMA SetForwarder ==
  ASSUME forwarder \in ForwarderRecords, NEW pc \in ForwarderPC, NEW e \in Entries \cup {NoEntry}
  PROVE  /\ forwarder.pc \in ForwarderPC /\ forwarder.entry \in Entries \cup {NoEntry}
         /\ [forwarder EXCEPT !.pc = pc] = [pc |-> pc, entry |-> forwarder.entry]
         /\ [pc |-> pc, entry |-> e] \in ForwarderRecords
BY DEF ForwarderRecords

LEMMA ForwarderPlaces ==
  /\ "idle" \in ForwarderPC /\ "read" \in ForwarderPC /\ "resolve" \in ForwarderPC
  /\ "write" \in ForwarderPC /\ "ended" \in ForwarderPC /\ "failed" \in ForwarderPC
BY DEF ForwarderPC

(* An entry the forwarder answers keeps its id and its query.              *)
LEMMA ResultEntry ==
  ASSUME NEW e \in Entries, NEW res \in Results
  PROVE  [e EXCEPT !.res = res] \in Entries
BY DEF Entries

LEMMA TypeForwarder ==
  ASSUME TypeInv, ForwarderStep \/ ForwarderFails
  PROVE  TypeInv'
<1>0. /\ forwarder \in ForwarderRecords
      /\ forwarder.pc \in {"read", "resolve"} => forwarder.entry \in Entries
      /\ NoEntry \in Entries \cup {NoEntry}
  BY TypeParts DEF TypeInv, InHand
<1>1. ASSUME UNCHANGED <<asked, inbox, queryIDPool, queryMap, receiver, shouldStop, replies, reused>>,
             forwarder' \in ForwarderRecords, QueuesOK',
             forwarder'.pc \in {"read", "resolve"} => forwarder'.entry \in Entries
      PROVE  TypeInv'
  <2>1. MapOK'
    BY <1>1, TypeParts DEF TypeInv, MapOK
  <2>2. TypeOK'
    BY <1>1, <2>1, TypeParts, TypePartsNext DEF TypeInv
  <2>3. InHand'
    BY <1>1 DEF TypeInv, InHand
  <2> QED BY <2>2, <2>3 DEF TypeInv
<1>2. CASE TakeQuery
  <2> DEFINE e == Head(forwardQueue.items)
  <2>1. Dequeue(forwardQueue) \in Queue /\ e \in Entries
    BY <1>2, DequeueOK, TypeParts DEF TypeInv, TakeQuery, QueuesOK
  <2>2. QueuesOK'
    BY <1>2, <2>1, TypeParts DEF TypeInv, TakeQuery, QueuesOK
  <2>3. forwarder' = [pc |-> "read", entry |-> e]
    BY <1>2 DEF TakeQuery
  <2> HIDE DEF e
  <2>4. forwarder' \in ForwarderRecords /\ forwarder'.entry = e
    BY <1>0, <2>1, <2>3, SetForwarder, ForwarderPlaces
  <2> QED BY <1>1, <1>2, <2>1, <2>2, <2>4 DEF TakeQuery
<1>3. CASE ReadQuery
  <2>1. QueuesOK'
    BY <1>3, PipeOK, TypeParts DEF TypeInv, ReadQuery, QueuesOK
  <2>2. forwarder' = [pc |-> "resolve", entry |-> forwarder.entry] /\ forwarder.entry \in Entries
    BY <1>0, <1>3, SetForwarder, ForwarderPlaces DEF ReadQuery
  <2>3. forwarder' \in ForwarderRecords /\ forwarder'.entry \in Entries
    BY <1>0, <2>2, SetForwarder, ForwarderPlaces
  <2> QED BY <1>1, <1>3, <2>1, <2>3 DEF ReadQuery
<1>4. ASSUME NEW pc \in {"idle", "write", "ended", "failed"},
             forwarder' = [pc |-> pc, entry |-> forwarder.entry]
               \/ forwarder' = [pc |-> pc, entry |-> NoEntry]
      PROVE  forwarder' \in ForwarderRecords /\ forwarder'.pc = pc
  <2>1. pc \in ForwarderPC /\ forwarder.entry \in Entries \cup {NoEntry}
    BY <1>0, SetForwarder, ForwarderPlaces
  <2>2. PICK e \in Entries \cup {NoEntry} : forwarder' = [pc |-> pc, entry |-> e]
    BY <1>4, <2>1
  <2> QED BY <1>0, <2>1, <2>2, SetForwarder
<1>5. ASSUME NEW res \in Results, Resolve(res)
      PROVE  TypeInv'
  <2> DEFINE e == [forwarder.entry EXCEPT !.res = res]
  <2>1. e \in Entries
    BY <1>0, <1>5, ResultEntry DEF Resolve
  <2>2. responseQueue' = Enqueue(responseQueue, e)
    BY <1>5 DEF Resolve
  <2> HIDE DEF e
  <2>3. QueuesOK'
    BY <1>5, <2>1, <2>2, EnqueueOK, TypeParts DEF TypeInv, Resolve, QueuesOK
  <2> QED BY <1>1, <1>4, <1>5, <2>3 DEF Resolve
<1>6. CASE WriteResponse
  <2>1. QueuesOK'
    BY <1>6, PipeOK, TypeParts DEF TypeInv, WriteResponse, QueuesOK
  <2> QED BY <1>1, <1>4, <1>6, <2>1 DEF WriteResponse
<1>7. ASSUME NEW next \in {"idle", "failed"}, AbandonQuery(next)
      PROVE  TypeInv'
  <2>1. QueuesOK'
    BY <1>7, TypeParts DEF TypeInv, AbandonQuery, QueuesOK
  <2> QED BY <1>1, <1>4, <1>7, <2>1 DEF AbandonQuery
<1>8. CASE ForwarderStops
  <2>1. QueuesOK'
    BY <1>8, TypeParts DEF TypeInv, ForwarderStops, QueuesOK
  <2>2. forwarder' = [pc |-> "ended", entry |-> forwarder.entry]
    BY <1>0, <1>8, SetForwarder, ForwarderPlaces DEF ForwarderStops
  <2> QED BY <1>1, <1>4, <1>8, <2>1, <2>2 DEF ForwarderStops
<1> QED BY <1>2, <1>3, <1>5, <1>6, <1>7, <1>8 DEF ForwarderStep, ForwarderFails, GiveUpStopping

LEMMA TypeRest ==
  ASSUME TypeInv, UNCHANGED vars \/ \E t \in ThreadNames : AskToStop(t)
  PROVE  TypeInv'
<1>1. UNCHANGED <<asked, inbox, queryIDPool, queryMap, managedQueue, forwardQueue,
                  responseQueue, receiver, forwarder, replies, reused>>
      /\ shouldStop' \subseteq ThreadNames
  BY TypeParts DEF TypeInv, vars, AskToStop
<1>2. MapOK' /\ QueuesOK'
  BY <1>1, TypeParts DEF TypeInv, MapOK, QueuesOK
<1>3. TypeOK'
  BY <1>1, <1>2, TypeParts, TypePartsNext DEF TypeInv
<1>4. InHand'
  BY <1>1 DEF TypeInv, InHand
<1> QED BY <1>3, <1>4 DEF TypeInv

LEMMA TypeStep ==
  ASSUME TypeInv, [Next]_vars
  PROVE  TypeInv'
BY TypeArrive, TypeReceiver, TypeForwarder, TypeRest DEF Next

LEMMA TypeInvariant == Spec => []TypeInv
BY TypeInit, TypeStep, PTL DEF Spec

(* The values the threads hand each other keep their types, whatever the   *)
(* interleaving: an id in a queue is an id, an entry in hand is an entry.  *)
THEOREM PipelineTypeCorrect == Spec => []TypeOK
BY TypeInvariant, PTL DEF TypeInv
-----------------------------------------------------------------------------
(* The counts that the pipes and the queues keep: entries in a queue,      *)
(* bytes in its pipe, and the entry a thread has in hand at each place.    *)
Responses == Len(responseQueue.items)
ResponseBytes == responseQueue.pipe
Waiting == Len(forwardQueue.items)
QueryBytes == forwardQueue.pipe
Returning == IF receiver.pc = "read" THEN 1 ELSE 0
Sending == IF receiver.pc = "write" /\ asked[receiver.entry.q].kind # "managed" THEN 1 ELSE 0
Fetching == IF forwarder.pc = "read" THEN 1 ELSE 0
Resolving == IF forwarder.pc = "resolve" THEN 1 ELSE 0
Posting == IF forwarder.pc = "write" THEN 1 ELSE 0

Load == Returning + Responses + Fetching + Resolving + Waiting

(* A pipe holds a byte per entry of its queue, but for the entry whose     *)
(* byte is still to be written or still to be read.                        *)
PipesAgree == /\ Returning + Responses = ResponseBytes + Posting
              /\ Fetching + Waiting = QueryBytes + Sending

(* What each place of the receiver's loop allows beyond a full pipe.  The  *)
(* receiver that saw no response when it polled saw an empty response pipe *)
(* and adds one query; the one that saw a response adds one and takes one. *)
Allowance == IF receiver.pc \in {"take", "read"} THEN 3
             ELSE IF receiver.pc = "recv" THEN (IF receiver.out THEN 2 ELSE 1)
             ELSE IF receiver.pc = "write" THEN (IF receiver.out THEN 3 ELSE 2)
             ELSE 2

LoadInv == TypeInv /\ PipesAgree /\ Load <= PipeCapacity + Allowance

LEMMA Numbers ==
  ASSUME TypeInv
  PROVE  /\ Responses \in Nat /\ Waiting \in Nat /\ PipeCapacity \in Nat \ {0}
         /\ ResponseBytes \in 0 .. PipeCapacity /\ QueryBytes \in 0 .. PipeCapacity
         /\ Returning \in 0 .. 1 /\ Sending \in 0 .. 1
         /\ Fetching \in 0 .. 1 /\ Resolving \in 0 .. 1 /\ Posting \in 0 .. 1
         /\ Fetching + Resolving + Posting \in 0 .. 1
         /\ Allowance \in 1 .. 3
<1>1. QueuesOK
  BY TypeParts DEF TypeInv
<1>2. responseQueue.items \in Seq(Entries) /\ forwardQueue.items \in Seq(Entries)
  BY <1>1 DEF QueuesOK, Queue
<1>3. Responses \in Nat /\ Waiting \in Nat
  BY <1>2 DEF Responses, Waiting
<1>4. ResponseBytes \in 0 .. PipeCapacity /\ QueryBytes \in 0 .. PipeCapacity
  BY <1>1 DEF QueuesOK, Queue, ResponseBytes, QueryBytes
<1>5. Returning \in 0 .. 1 /\ Sending \in 0 .. 1 /\ Allowance \in 1 .. 3
  BY DEF Returning, Sending, Allowance
<1>6. /\ Fetching \in 0 .. 1 /\ Resolving \in 0 .. 1 /\ Posting \in 0 .. 1
      /\ Fetching + Resolving + Posting \in 0 .. 1
  BY DEF Fetching, Resolving, Posting
<1> QED BY <1>3, <1>4, <1>5, <1>6, CapacityAssumption

(* What one operation does to a queue, in numbers.                         *)
LEMMA QueueLengths ==
  ASSUME NEW queue \in Queue
  PROVE  /\ \A e \in Entries : Len(Enqueue(queue, e).items) = Len(queue.items) + 1
         /\ queue.items # <<>> => Len(Dequeue(queue).items) = Len(queue.items) - 1
<1>1. queue.items \in Seq(Entries)
  BY DEF Queue
<1>2. ASSUME NEW e \in Entries PROVE Len(Append(queue.items, e)) = Len(queue.items) + 1
  BY <1>1
<1>3. ASSUME queue.items # <<>> PROVE Len(Tail(queue.items)) = Len(queue.items) - 1
  BY <1>1, <1>3
<1> QED BY <1>2, <1>3, EnqueueOK, DequeueOK

(* Whatever the threads do, the full query pipe and the entry the          *)
(* forwarder has in hand bound the load of a receiver that sees no         *)
(* response.                                                               *)
LEMMA LoadWhenPolling ==
  ASSUME LoadInv, receiver.pc = "poll", ~(responseQueue.pipe > 0)
  PROVE  /\ Load <= PipeCapacity + 1
         /\ forwarder.pc \notin {"read", "resolve", "write"} => Load <= PipeCapacity
<1>1. ResponseBytes = 0 /\ Returning = 0 /\ Sending = 0
  BY Numbers DEF LoadInv, ResponseBytes, Returning, Sending
<1>2. forwarder.pc \notin {"read", "resolve", "write"} => Fetching = 0 /\ Resolving = 0 /\ Posting = 0
  BY DEF Fetching, Resolving, Posting
<1> QED BY <1>1, <1>2, Numbers DEF LoadInv, PipesAgree, Load

LEMMA LoadInit == Init => LoadInv
<1> SUFFICES ASSUME Init PROVE LoadInv
  OBVIOUS
<1>1. /\ Responses = 0 /\ Waiting = 0 /\ ResponseBytes = 0 /\ QueryBytes = 0
      /\ Returning = 0 /\ Sending = 0 /\ Fetching = 0 /\ Resolving = 0 /\ Posting = 0
  BY DEF Init, EmptyQueue, Responses, Waiting, ResponseBytes, QueryBytes,
         Returning, Sending, Fetching, Resolving, Posting
<1> QED BY <1>1, TypeInit, Numbers DEF LoadInv, PipesAgree, Load

(* The counts of a thread and of a queue that a step leaves alone.         *)
LEMMA SameCounts ==
  /\ UNCHANGED forwarder => UNCHANGED <<Fetching, Resolving, Posting>>
  /\ UNCHANGED receiver => UNCHANGED <<Returning, Allowance>>
  /\ UNCHANGED <<receiver, asked>> => UNCHANGED Sending
  /\ UNCHANGED responseQueue => UNCHANGED <<Responses, ResponseBytes>>
  /\ UNCHANGED forwardQueue => UNCHANGED <<Waiting, QueryBytes>>
BY DEF Fetching, Resolving, Posting, Returning, Allowance, Sending, Responses,
       ResponseBytes, Waiting, QueryBytes

LEMMA LoadArrive ==
  ASSUME LoadInv, NEW c \in Clients, NEW k \in Kinds, Arrive(c, k)
  PROVE  PipesAgree' /\ Load' = Load /\ Allowance' = Allowance
<1>1. Sending' = Sending
  <2>1. asked \in Seq(Requests) /\ (receiver.pc = "write" => receiver.entry.q \in DOMAIN asked)
    BY TypeParts DEF LoadInv, TypeInv, InHand
  <2>2. asked' = Append(asked, [client |-> c, kind |-> k]) /\ receiver' = receiver
    BY DEF Arrive
  <2>3. \A q \in DOMAIN asked : asked'[q] = asked[q]
    BY <2>1, <2>2 DEF Requests
  <2> QED BY <2>1, <2>2, <2>3 DEF Sending
<1>2. UNCHANGED <<Fetching, Resolving, Posting, Returning, Allowance, Responses,
                  ResponseBytes, Waiting, QueryBytes>>
  BY SameCounts DEF Arrive
<1> QED BY <1>1, <1>2 DEF LoadInv, PipesAgree, Load

(* With k = 1 there is room for an entry that an idle forwarder has lost.  *)
LEMMA LoadReceiver ==
  ASSUME LoadInv, ReceiverStep \/ ReceiverFails,
         NEW k \in 0 .. 1, Load <= PipeCapacity + Allowance - k,
         k = 1 => forwarder.pc \notin {"read", "resolve", "write"}
  PROVE  PipesAgree' /\ Load' <= PipeCapacity + Allowance' - k
<1>0. receiver \in ReceiverRecords /\ QueuesOK /\ TypeInv
  BY TypeParts DEF LoadInv, TypeInv
<1> DEFINE Goal == PipesAgree' /\ Load' <= PipeCapacity + Allowance' - k
<1>1. CASE Poll
  <2>1. receiver.pc = "poll" /\ receiver'.pc \in {"recv", "take"}
    BY <1>0, <1>1 DEF Poll, ReceiverRecords
  <2>2. Returning' = Returning /\ Sending' = Sending
    BY <2>1 DEF Returning, Sending
  <2>3. Load <= PipeCapacity + Allowance' - k
    <3>1. CASE responseQueue.pipe > 0
      <4>1. receiver'.pc = "recv" => receiver'.out
        BY <1>0, <1>1, <3>1 DEF Poll, ReceiverRecords
      <4>2. Allowance = 2 /\ Allowance' \in 2 .. 3
        BY <2>1, <4>1 DEF Allowance
      <4> QED BY <4>2, Numbers DEF LoadInv, Load
    <3>2. CASE ~(responseQueue.pipe > 0)
      <4>1. Load <= PipeCapacity + 1 - k
        BY <1>0, <2>1, <3>2, LoadWhenPolling, Numbers DEF Load
      <4>2. Allowance' \in 1 .. 3
        BY <2>1 DEF Allowance
      <4> QED BY <1>0, <4>1, <4>2, Numbers DEF Load
    <3> QED BY <3>1, <3>2
  <2>4. UNCHANGED <<Fetching, Resolving, Posting, Responses, ResponseBytes, Waiting, QueryBytes>>
    BY <1>1, SameCounts DEF Poll
  <2> QED BY <2>2, <2>3, <2>4 DEF LoadInv, PipesAgree, Load
<1>2. ASSUME NEW next \in {"poll", "take", "ended", "failed"},
             receiver.pc \in {"poll", "recv"}, receiver' = [receiver EXCEPT !.pc = next],
             next = "take" => receiver.out,
             UNCHANGED <<forwarder, responseQueue, forwardQueue>>
      PROVE  Goal
  <2>1. receiver'.pc = next
    BY <1>0, <1>2 DEF ReceiverRecords
  <2>2. Returning' = Returning /\ Sending' = Sending
    BY <1>2, <2>1 DEF Returning, Sending
  <2>3. Allowance <= Allowance' /\ Allowance' \in 1 .. 3
    BY <1>2, <2>1 DEF Allowance
  <2>4. UNCHANGED <<Fetching, Resolving, Posting, Responses, ResponseBytes, Waiting, QueryBytes>>
    BY <1>2, SameCounts
  <2> QED BY <1>0, <2>2, <2>3, <2>4, Numbers DEF LoadInv, PipesAgree, Load
<1>3. CASE SkipDatagram
  <2>1. AfterIncoming \in {"poll", "take"} /\ (AfterIncoming = "take" => receiver.out)
    BY DEF AfterIncoming
  <2> QED BY <1>2, <1>3, <2>1 DEF SkipDatagram
<1>4. CASE HandleIncomingUDP
  <2> DEFINE q == Head(inbox)
             e == [id |-> NextId, q |-> q, res |-> "query"]
  <2>1. e \in Entries
    BY <1>0, <1>4, NewEntry DEF HandleIncomingUDP
  <2>2. /\ receiver.pc = "recv" /\ receiver'.pc = "write" /\ receiver'.entry.q = q
        /\ receiver'.out = receiver.out /\ asked' = asked
    BY <1>0, <1>4 DEF HandleIncomingUDP, ReceiverRecords
  <2>3. Returning' = Returning /\ Sending = 0 /\ Allowance' = Allowance + 1
    BY <2>2 DEF Returning, Sending, Allowance
  <2>4. UNCHANGED <<Fetching, Resolving, Posting, Responses, ResponseBytes>>
    BY <1>4, SameCounts DEF HandleIncomingUDP
  <2>5. CASE asked[q].kind = "managed"
    <3>1. Sending' = 0
      BY <2>2, <2>5 DEF Sending
    <3>2. UNCHANGED <<Waiting, QueryBytes>>
      BY <1>4, <2>5, SameCounts DEF HandleIncomingUDP
    <3> QED BY <1>0, <2>3, <2>4, <3>1, <3>2, Numbers DEF LoadInv, PipesAgree, Load
  <2>6. CASE asked[q].kind # "managed"
    <3>1. Sending' = 1
      BY <2>2, <2>6 DEF Sending
    <3>2. forwardQueue' = Enqueue(forwardQueue, e)
      BY <1>4, <2>6 DEF HandleIncomingUDP
    <3>3. Waiting' = Waiting + 1 /\ QueryBytes' = QueryBytes
      BY <1>0, <2>1, <3>2, EnqueueOK, QueueLengths DEF QueuesOK, Waiting, QueryBytes
    <3> QED BY <1>0, <2>3, <2>4, <3>1, <3>3, Numbers DEF LoadInv, PipesAgree, Load
  <2> QED BY <2>5, <2>6
<1>5. CASE WriteQuery
  <2>1. /\ receiver.pc = "write" /\ receiver'.pc = IF receiver.out THEN "take" ELSE "poll"
        /\ asked' = asked
    BY <1>0, <1>5 DEF WriteQuery, AfterIncoming, ReceiverRecords
  <2>2. Returning' = Returning /\ Sending' = 0 /\ Allowance' = Allowance
    BY <2>1 DEF Returning, Sending, Allowance
  <2>3. UNCHANGED <<Fetching, Resolving, Posting, Responses, ResponseBytes>>
    BY <1>5, SameCounts DEF WriteQuery
  <2>4. CASE asked[receiver.entry.q].kind = "managed"
    <3>1. Sending = 0
      BY <2>1, <2>4 DEF Sending
    <3>2. UNCHANGED <<Waiting, QueryBytes>>
      BY <1>5, <2>4, SameCounts DEF WriteQuery
    <3> QED BY <1>0, <2>2, <2>3, <3>1, <3>2, Numbers DEF LoadInv, PipesAgree, Load
  <2>5. CASE asked[receiver.entry.q].kind # "managed"
    <3>1. Sending = 1
      BY <2>1, <2>5 DEF Sending
    <3>2. forwardQueue.pipe < PipeCapacity /\ forwardQueue' = [forwardQueue EXCEPT !.pipe = @ + 1]
      BY <1>5, <2>5 DEF WriteQuery
    <3>3. QueryBytes' = QueryBytes + 1 /\ Waiting' = Waiting
      BY <1>0, <3>2, PipeOK DEF QueuesOK, QueryBytes, Waiting
    <3> QED BY <1>0, <2>2, <2>3, <3>1, <3>3, Numbers DEF LoadInv, PipesAgree, Load
  <2> QED BY <2>4, <2>5
<1>6. CASE TakeResponse
  <2>1. receiver.pc = "take" /\ receiver'.pc = "read"
    BY <1>0, <1>6 DEF TakeResponse, ReceiverRecords
  <2>2. Returning = 0 /\ Returning' = 1 /\ Sending' = Sending /\ Allowance' = Allowance
    BY <2>1 DEF Returning, Sending, Allowance
  <2>3. responseQueue.items # <<>> /\ responseQueue' = Dequeue(responseQueue)
    BY <1>6 DEF TakeResponse
  <2>4. Responses' = Responses - 1 /\ ResponseBytes' = ResponseBytes
    BY <1>0, <2>3, DequeueOK, QueueLengths DEF QueuesOK, Responses, ResponseBytes
  <2>5. UNCHANGED <<Fetching, Resolving, Posting, Waiting, QueryBytes>>
    BY <1>6, SameCounts DEF TakeResponse
  <2> QED BY <1>0, <2>2, <2>4, <2>5, Numbers DEF LoadInv, PipesAgree, Load
<1>7. ASSUME NEW next \in {"poll", "failed", "terminated"}, ReadResponse(next)
      PROVE  Goal
  <2>1. receiver.pc = "read" /\ receiver'.pc = next
    BY <1>0, <1>7 DEF ReadResponse, ReceiverRecords
  <2>2. Returning = 1 /\ Returning' = 0 /\ Sending' = Sending /\ Allowance = 3 /\ Allowance' = 2
    BY <1>7, <2>1 DEF Returning, Sending, Allowance
  <2>3. responseQueue.pipe > 0 /\ responseQueue' = [responseQueue EXCEPT !.pipe = @ - 1]
    BY <1>7 DEF ReadResponse
  <2>4. Responses' = Responses /\ ResponseBytes' = ResponseBytes - 1
    BY <1>0, <2>3, PipeOK DEF QueuesOK, Responses, ResponseBytes
  <2>5. UNCHANGED <<Fetching, Resolving, Posting, Waiting, QueryBytes>>
    BY <1>7, SameCounts DEF ReadResponse
  <2> QED BY <1>0, <2>2, <2>4, <2>5, Numbers DEF LoadInv, PipesAgree, Load
<1>8. CASE SendReply
  BY <1>7, <1>8 DEF SendReply
<1>9. CASE DropReply
  BY <1>7, <1>9 DEF DropReply
<1>10. CASE ReceiverFails
  BY <1>2, <1>7, <1>10 DEF ReceiverFails
<1>11. CASE ReceiverStops
  BY <1>2, <1>11 DEF ReceiverStops
<1> QED BY <1>1, <1>3, <1>4, <1>5, <1>6, <1>8, <1>9, <1>10, <1>11 DEF ReceiverStep

LEMMA LoadForwarder ==
  ASSUME LoadInv, ForwarderStep \/ ForwarderFails
  PROVE  PipesAgree' /\ Load' <= PipeCapacity + Allowance'
<1>0. forwarder \in ForwarderRecords /\ QueuesOK /\ TypeInv
  BY TypeParts DEF LoadInv, TypeInv
<1>1. UNCHANGED <<receiver, asked>>
  BY DEF ForwarderStep, ForwarderFails, TakeQuery, ReadQuery, Resolve, WriteResponse,
         GiveUpStopping, AbandonQuery, ForwarderStops
<1>2. UNCHANGED <<Returning, Sending, Allowance>>
  BY <1>1, SameCounts
<1>3. CASE TakeQuery
  <2>1. forwarder.pc = "idle" /\ forwarder'.pc = "read"
    BY <1>3 DEF TakeQuery
  <2>2. /\ Fetching = 0 /\ Resolving = 0 /\ Posting = 0
        /\ Fetching' = 1 /\ Resolving' = 0 /\ Posting' = 0
    BY <2>1 DEF Fetching, Resolving, Posting
  <2>3. forwardQueue.items # <<>> /\ forwardQueue' = Dequeue(forwardQueue)
    BY <1>3 DEF TakeQuery
  <2>4. Waiting' = Waiting - 1 /\ QueryBytes' = QueryBytes
    BY <1>0, <2>3, DequeueOK, QueueLengths DEF QueuesOK, Waiting, QueryBytes
  <2>5. UNCHANGED <<Responses, ResponseBytes>>
    BY <1>3, SameCounts DEF TakeQuery
  <2> QED BY <1>0, <1>2, <2>2, <2>4, <2>5, Numbers DEF LoadInv, PipesAgree, Load
<1>4. CASE ReadQuery
  <2>1. forwarder.pc = "read" /\ forwarder'.pc = "resolve"
    BY <1>0, <1>4 DEF ReadQuery, ForwarderRecords
  <2>2. /\ Fetching = 1 /\ Resolving = 0 /\ Posting = 0
        /\ Fetching' = 0 /\ Resolving' = 1 /\ Posting' = 0
    BY <2>1 DEF Fetching, Resolving, Posting
  <2>3. forwardQueue.pipe > 0 /\ forwardQueue' = [forwardQueue EXCEPT !.pipe = @ - 1]
    BY <1>4 DEF ReadQuery
  <2>4. Waiting' = Waiting /\ QueryBytes' = QueryBytes - 1
    BY <1>0, <2>3, PipeOK DEF QueuesOK, Waiting, QueryBytes
  <2>5. UNCHANGED <<Responses, ResponseBytes>>
    BY <1>4, SameCounts DEF ReadQuery
  <2> QED BY <1>0, <1>2, <2>2, <2>4, <2>5, Numbers DEF LoadInv, PipesAgree, Load
<1>5. ASSUME NEW res \in Results, Resolve(res)
      PROVE  PipesAgree' /\ Load' <= PipeCapacity + Allowance'
  <2> DEFINE e == [forwarder.entry EXCEPT !.res = res]
  <2>1. forwarder.pc = "resolve" /\ forwarder'.pc = "write"
    BY <1>5 DEF Resolve
  <2>2. /\ Fetching = 0 /\ Resolving = 1 /\ Posting = 0
        /\ Fetching' = 0 /\ Resolving' = 0 /\ Posting' = 1
    BY <2>1 DEF Fetching, Resolving, Posting
  <2>3. e \in Entries
    BY <1>0, <2>1, ResultEntry DEF TypeInv, InHand
  <2>4. responseQueue' = Enqueue(responseQueue, e)
    BY <1>5 DEF Resolve
  <2> HIDE DEF e
  <2>5. Responses' = Responses + 1 /\ ResponseBytes' = ResponseBytes
    BY <1>0, <2>3, <2>4, EnqueueOK, QueueLengths DEF QueuesOK, Responses, ResponseBytes
  <2>6. UNCHANGED <<Waiting, QueryBytes>>
    BY <1>5, SameCounts DEF Resolve
  <2> QED BY <1>0, <1>2, <2>2, <2>5, <2>6, Numbers DEF LoadInv, PipesAgree, Load
<1>6. CASE WriteResponse
  <2>1. forwarder.pc = "write" /\ forwarder'.pc = "idle"
    BY <1>6 DEF WriteResponse
  <2>2. /\ Fetching = 0 /\ Resolving = 0 /\ Posting = 1
        /\ Fetching' = 0 /\ Resolving' = 0 /\ Posting' = 0
    BY <2>1 DEF Fetching, Resolving, Posting
  <2>3. responseQueue.pipe < PipeCapacity /\ responseQueue' = [responseQueue EXCEPT !.pipe = @ + 1]
    BY <1>6 DEF WriteResponse
  <2>4. Responses' = Responses /\ ResponseBytes' = ResponseBytes + 1
    BY <1>0, <2>3, PipeOK DEF QueuesOK, Responses, ResponseBytes
  <2>5. UNCHANGED <<Waiting, QueryBytes>>
    BY <1>6, SameCounts DEF WriteResponse
  <2> QED BY <1>0, <1>2, <2>2, <2>4, <2>5, Numbers DEF LoadInv, PipesAgree, Load
<1>7. ASSUME NEW next \in {"idle", "failed"}, AbandonQuery(next)
      PROVE  PipesAgree' /\ Load' <= PipeCapacity + Allowance'
  <2>1. forwarder.pc = "resolve" /\ forwarder'.pc = next
    BY <1>7 DEF AbandonQuery
  <2>2. /\ Fetching = 0 /\ Resolving = 1 /\ Posting = 0
        /\ Fetching' = 0 /\ Resolving' = 0 /\ Posting' = 0
    BY <1>7, <2>1 DEF Fetching, Resolving, Posting
  <2>3. UNCHANGED <<Responses, ResponseBytes, Waiting, QueryBytes>>
    BY <1>7, SameCounts DEF AbandonQuery
  <2> QED BY <1>0, <1>2, <2>2, <2>3, Numbers DEF LoadInv, PipesAgree, Load
<1>8. CASE ForwarderStops
  <2>1. forwarder.pc = "idle" /\ forwarder'.pc = "ended"
    BY <1>0, <1>8 DEF ForwarderStops, ForwarderRecords
  <2>2. UNCHANGED <<Fetching, Resolving, Posting>>
    BY <2>1 DEF Fetching, Resolving, Posting
  <2>3. UNCHANGED <<Responses, ResponseBytes, Waiting, QueryBytes>>
    BY <1>8, SameCounts DEF ForwarderStops
  <2> QED BY <1>2, <2>2, <2>3 DEF LoadInv, PipesAgree, Load
<1> QED BY <1>3, <1>4, <1>5, <1>6, <1>7, <1>8 DEF ForwarderStep, ForwarderFails, GiveUpStopping

LEMMA LoadStep ==
  ASSUME LoadInv, [Next]_vars
  PROVE  LoadInv'
<1>1. TypeInv'
  BY TypeStep DEF LoadInv
<1>2. ASSUME UNCHANGED <<receiver, forwarder, asked, responseQueue, forwardQueue>>
      PROVE  PipesAgree' /\ Load' <= PipeCapacity + Allowance'
  BY <1>2, SameCounts DEF LoadInv, PipesAgree, Load
<1>3. ASSUME UNCHANGED vars \/ \E t \in ThreadNames : AskToStop(t)
      PROVE  PipesAgree' /\ Load' <= PipeCapacity + Allowance'
  BY <1>2, <1>3 DEF vars, AskToStop
<1>4. ASSUME NEW c \in Clients, NEW k \in Kinds, Arrive(c, k)
      PROVE  PipesAgree' /\ Load' <= PipeCapacity + Allowance'
  BY <1>4, LoadArrive DEF LoadInv
<1>5. ASSUME ReceiverStep \/ ReceiverFails
      PROVE  PipesAgree' /\ Load' <= PipeCapacity + Allowance'
  <2>1. Allowance \in Int /\ Allowance' \in Int
    BY DEF Allowance
  <2>2. PipesAgree' /\ Load' <= PipeCapacity + Allowance' - 0
    BY <1>5, <2>1, CapacityAssumption, LoadReceiver DEF LoadInv
  <2> QED BY <2>1, <2>2, CapacityAssumption
<1>6. PipesAgree' /\ Load' <= PipeCapacity + Allowance'
  BY <1>3, <1>4, <1>5, LoadForwarder DEF Next
<1> QED BY <1>1, <1>6 DEF LoadInv

LEMMA LoadInvariant == Spec => []LoadInv
BY LoadInit, LoadStep, PTL DEF Spec

LEMMA LoadIsInFlight ==
  ASSUME TypeInv
  PROVE  Len(InFlight) = Load
<1> DEFINE A == Held(receiver, {"read"})
           R == responseQueue.items
           B == Held(forwarder, {"read", "resolve"})
           F == forwardQueue.items
<1>1. R \in Seq(Entries) /\ F \in Seq(Entries) /\ Len(R) = Responses /\ Len(F) = Waiting
  BY TypeParts DEF TypeInv, QueuesOK, Queue, Responses, Waiting
<1>2. A \in Seq(Entries) /\ Len(A) = Returning
  <2>1. CASE receiver.pc = "read"
    <3>1. receiver.entry \in Entries /\ A = <<receiver.entry>> /\ Returning = 1
      BY <2>1 DEF Held, TypeInv, InHand, Returning
    <3> HIDE DEF A
    <3> QED BY <3>1
  <2>2. CASE receiver.pc # "read"
    <3>1. A = <<>> /\ Returning = 0
      BY <2>2 DEF Held, Returning
    <3> HIDE DEF A
    <3> QED BY <3>1
  <2> QED BY <2>1, <2>2
<1>3. B \in Seq(Entries) /\ Len(B) = Fetching + Resolving
  <2>1. CASE forwarder.pc \in {"read", "resolve"}
    <3>1. forwarder.entry \in Entries /\ B = <<forwarder.entry>>
      BY <2>1 DEF Held, TypeInv, InHand
    <3>2. Fetching + Resolving = 1
      BY <2>1 DEF Fetching, Resolving
    <3> HIDE DEF B
    <3> QED BY <3>1, <3>2
  <2>2. CASE forwarder.pc \notin {"read", "resolve"}
    <3>1. B = <<>> /\ Fetching + Resolving = 0
      BY <2>2 DEF Held, Fetching, Resolving
    <3> HIDE DEF B
    <3> QED BY <3>1
  <2> QED BY <2>1, <2>2
<1>4. InFlight = A \o R \o B \o F
  BY DEF InFlight
<1> HIDE DEF A, R, B, F
<1>5. A \o R \in Seq(Entries) /\ Len(A \o R) = Len(A) + Len(R)
  BY <1>1, <1>2
<1>6. A \o R \o B \in Seq(Entries) /\ Len(A \o R \o B) = Len(A \o R) + Len(B)
  BY <1>3, <1>5
<1>7. Len(A \o R \o B \o F) = Len(A \o R \o B) + Len(F)
  BY <1>1, <1>6
<1>8. Len(A) \in Nat /\ Len(R) \in Nat /\ Len(B) \in Nat /\ Len(F) \in Nat
  BY <1>1, <1>2, <1>3
<1>9. Len(InFlight) = Len(A) + Len(R) + Len(B) + Len(F)
  BY <1>4, <1>5, <1>6, <1>7
<1>10. Len(InFlight) = Returning + Responses + (Fetching + Resolving) + Waiting
  BY <1>1, <1>2, <1>3, <1>9
<1> QED BY <1>10, Numbers DEF Load

(* However many queries the clients send and however the threads           *)
(* interleave, fail and stop, the unbounded queues hold at most three      *)
(* queries more than a pipe holds bytes: the clients' load piles up in the *)
(* receiver's socket, not in the process.                                  *)
THEOREM InFlightIsBounded == Spec => []InFlightBounded
<1>1. LoadInv => InFlightBounded
  BY LoadIsInFlight, Numbers DEF LoadInv, InFlightBounded, Load
<1> QED BY <1>1, LoadInvariant, PTL

(* No schedule makes the two threads wait for each other, each on a full   *)
(* pipe that only the other empties, when a pipe holds two bytes or more.  *)
THEOREM NeverMutuallyBlocked == ASSUME PipeCapacity >= 2 PROVE Spec => []NoMutualBlock
<1>1. LoadInv => NoMutualBlock
  <2> SUFFICES ASSUME LoadInv, ~NoMutualBlock PROVE FALSE
    OBVIOUS
  <2>1. /\ Sending = 1 /\ Posting = 1 /\ QueryBytes = PipeCapacity /\ ResponseBytes = PipeCapacity
        /\ Returning = 0 /\ Fetching = 0 /\ Resolving = 0
    BY DEF NoMutualBlock, Sending, Posting, QueryBytes, ResponseBytes, Returning, Fetching, Resolving
  <2> QED BY <2>1, Numbers DEF LoadInv, PipesAgree, Load
<1> QED BY <1>1, LoadInvariant, PTL
=============================================================================
