--------------------------- MODULE QueryPipeline ---------------------------
(***************************************************************************)
(* The two threads of the DNS proxy and the queues between them:           *)
(* QueryReceiver (dns/src/qreceiver.cpp) takes queries from clients, gives *)
(* each one a local id under which it remembers the client's address, and  *)
(* sends responses back; QueryForwarder (dns/src/qforwarder.cpp) resolves  *)
(* the queries one at a time.                                              *)
(*                                                                         *)
(* A queue is what MessageQueue promises (FifoChannel) plus the pipe whose *)
(* bytes the receiver polls: push is an enqueue and then a write that      *)
(* blocks while the pipe is full, pop a dequeue and then a read.  The main *)
(* program creates all queues without limit (main.cpp:13).  What the       *)
(* forwarder does between taking a query and answering it is the subject   *)
(* of QueryForwarder; here it is one step with every possible outcome.     *)
(***************************************************************************)
EXTENDS Naturals, Sequences, FiniteSets

CONSTANTS Clients,       \* return addresses
          Kinds,         \* the kinds of datagrams clients send, see KindOK
          IdCount,       \* number of values of QueryID, 2^16
          PipeCapacity,  \* bytes a pipe holds before write() blocks, 2^16
          Faulty,        \* the threads whose socket calls may fail
          MaxQueries     \* bound: datagrams the clients send

ThreadNames == {"receiver", "forwarder"}

(* "managed":     decodes, asks for a name under BASE_DOMAIN               *)
(* "foreign":     decodes, any other query                                 *)
(* "unencodable": as "foreign", but encode() throws on the decoded message *)
(* "junk":        too long, does not decode, or carries no question        *)
KindOK == Kinds \subseteq {"managed", "foreign", "unencodable", "junk"}

ASSUME KindAssumption == KindOK /\ Kinds # {}
ASSUME ClientAssumption == Clients # {}
ASSUME IdAssumption == IdCount \in Nat \ {0}
ASSUME CapacityAssumption == PipeCapacity \in Nat \ {0}
ASSUME FaultyAssumption == Faulty \subseteq ThreadNames
ASSUME MaxAssumption == MaxQueries \in Nat

VARIABLES asked,         \* what the clients sent, in order of arrival
          inbox,         \* the receiver's UDP socket: indices into asked
          queryIDPool,   \* the last local id given out
          queryMap,      \* local id -> client, for the ids in the map
          managedQueue, forwardQueue, responseQueue,
          receiver,      \* the thread of QueryReceiver
          forwarder,     \* the thread of QueryForwarder
          shouldStop,    \* the threads asked to stop
          replies,       \* per query, the clients its response was sent to
          reused         \* history: an id was given out that was still in the map

vars == <<asked, inbox, queryIDPool, queryMap, managedQueue, forwardQueue,
          responseQueue, receiver, forwarder, shouldStop, replies, reused>>

Ids == 0 .. IdCount - 1
Queries == 1 .. MaxQueries

(* The message of a queue entry: the query q itself, or a response to it,  *)
(* which the receiver can or cannot encode.                                *)
Results == {"query", "answer", "unencodable"}
Entries == [id : Ids, q : Queries, res : Results]
NoEntry == [id |-> 0, q |-> 0, res |-> "none"]

EmptyQueue == [items |-> <<>>, pipe |-> 0]

Init == /\ asked = <<>>
        /\ inbox = <<>>
        /\ queryIDPool = 0
        /\ queryMap = <<>>
        /\ managedQueue = EmptyQueue
        /\ forwardQueue = EmptyQueue
        /\ responseQueue = EmptyQueue
        /\ receiver = [pc |-> "poll", out |-> FALSE, entry |-> NoEntry]
        /\ forwarder = [pc |-> "idle", entry |-> NoEntry]
        /\ shouldStop = {}
        /\ replies = [q \in Queries |-> <<>>]
        /\ reused = FALSE

Enqueue(queue, e) == [queue EXCEPT !.items = Append(@, e)]
Dequeue(queue) == [queue EXCEPT !.items = Tail(@)]

(* An exception that nobody catches ends the process.                      *)
Alive == receiver.pc # "terminated"
-----------------------------------------------------------------------------
(* A client's datagram reaches the socket, which a failed receiver closes. *)
Arrive(c, k) ==
    /\ receiver.pc \notin {"failed", "terminated"}
    /\ Len(asked) < MaxQueries
    /\ asked' = Append(asked, [client |-> c, kind |-> k])
    /\ inbox' = Append(inbox, Len(asked) + 1)
    /\ UNCHANGED <<queryIDPool, queryMap, managedQueue, forwardQueue,
                   responseQueue, receiver, forwarder, shouldStop, replies, reused>>
-----------------------------------------------------------------------------
(* QueryReceiver::processLoop and its handlers *)

(* poll() returns: the readiness it saw decides what this iteration does.  *)
Poll == /\ receiver.pc = "poll"
        /\ "receiver" \notin shouldStop
        /\ LET out == responseQueue.pipe > 0
           IN \/ /\ inbox # <<>>
                 /\ receiver' = [receiver EXCEPT !.pc = "recv", !.out = out]
              \/ /\ inbox = <<>> /\ out
                 /\ receiver' = [receiver EXCEPT !.pc = "take", !.out = out]
        /\ UNCHANGED <<asked, inbox, queryIDPool, queryMap, managedQueue,
                       forwardQueue, responseQueue, forwarder, shouldStop, replies, reused>>

(* Mutant of AfterIncoming: responses wait until no query comes in.        *)
IncomingFirst == "poll"

AfterIncoming == IF receiver.out THEN "take" ELSE "poll"

SkipDatagram ==
    /\ receiver.pc = "recv"
    /\ asked[Head(inbox)].kind = "junk"
    /\ inbox' = Tail(inbox)
    /\ receiver' = [receiver EXCEPT !.pc = AfterIncoming]
    /\ UNCHANGED <<asked, queryIDPool, queryMap, managedQueue, forwardQueue,
                   responseQueue, forwarder, shouldStop, replies, reused>>

(* Mutant of Insert: the id before it is incremented.                      *)
InsertBefore(map, id, c) ==
    [i \in DOMAIN map \cup {queryIDPool} |-> IF i \in DOMAIN map THEN map[i] ELSE c]

(* unordered_map::insert leaves an entry that is already there.            *)
Insert(map, id, c) == [i \in DOMAIN map \cup {id} |-> IF i \in DOMAIN map THEN map[i] ELSE c]

(* Mutants of NextId: a wider type, and no increment.                      *)
NextIdWider == queryIDPool + 1
NextIdSame == queryIDPool

NextId == (queryIDPool + 1) % IdCount

HandleIncomingUDP ==
    /\ receiver.pc = "recv"
    /\ LET q == Head(inbox)
           e == [id |-> NextId, q |-> q, res |-> "query"]
       IN /\ asked[q].kind # "junk"
          /\ queryIDPool' = NextId
          /\ queryMap' = Insert(queryMap, NextId, asked[q].client)
          /\ reused' = (reused \/ NextId \in DOMAIN queryMap)
          /\ receiver' = [receiver EXCEPT !.pc = "write", !.entry = e]
          /\ IF asked[q].kind = "managed"
               THEN managedQueue' = Enqueue(managedQueue, e) /\ UNCHANGED forwardQueue
               ELSE forwardQueue' = Enqueue(forwardQueue, e) /\ UNCHANGED managedQueue
    /\ inbox' = Tail(inbox)
    /\ UNCHANGED <<asked, responseQueue, forwarder, shouldStop, replies>>

(* The write that ends MessageQueue::push.                                 *)
WriteQuery ==
    /\ receiver.pc = "write"
    /\ IF asked[receiver.entry.q].kind = "managed"
         THEN /\ managedQueue.pipe < PipeCapacity
              /\ managedQueue' = [managedQueue EXCEPT !.pipe = @ + 1]
              /\ UNCHANGED forwardQueue
         ELSE /\ forwardQueue.pipe < PipeCapacity
              /\ forwardQueue' = [forwardQueue EXCEPT !.pipe = @ + 1]
              /\ UNCHANGED managedQueue
    /\ receiver' = [receiver EXCEPT !.pc = AfterIncoming, !.entry = NoEntry]
    /\ UNCHANGED <<asked, inbox, queryIDPool, queryMap, responseQueue, forwarder,
                   shouldStop, replies, reused>>

(* Mutant of TakeResponse: the newest response goes first.                 *)
TakeNewest ==
    /\ receiver.pc = "take"
    /\ responseQueue.items # <<>>
    /\ LET last == Len(responseQueue.items)
       IN /\ responseQueue' = [responseQueue EXCEPT !.items = SubSeq(@, 1, last - 1)]
          /\ receiver' = [receiver EXCEPT !.pc = "read", !.entry = responseQueue.items[last]]
    /\ UNCHANGED <<asked, inbox, queryIDPool, queryMap, managedQueue, forwardQueue,
                    forwarder, shouldStop, replies, reused>>

(* handleOutgoingUDP: responseQueue.pop, first the dequeue ...             *)
TakeResponse ==
    /\ receiver.pc = "take"
    /\ responseQueue.items # <<>>
    /\ responseQueue' = Dequeue(responseQueue)
    /\ receiver' = [receiver EXCEPT !.pc = "read", !.entry = Head(responseQueue.items)]
    /\ UNCHANGED <<asked, inbox, queryIDPool, queryMap, managedQueue, forwardQueue,
                   forwarder, shouldStop, replies, reused>>

(* ... then the read, and what follows it up to the sendto.                *)
ReadResponse(next) ==
    /\ receiver.pc = "read"
    /\ responseQueue.pipe > 0
    /\ responseQueue' = [responseQueue EXCEPT !.pipe = @ - 1]
    /\ receiver' = [receiver EXCEPT !.pc = next, !.entry = NoEntry]
    /\ UNCHANGED <<asked, inbox, queryIDPool, managedQueue, forwardQueue, forwarder,
                   shouldStop, reused>>

(* Mutant of Erase: the id stays in the map.                               *)
Keep(map, id) == map

Erase(map, id) == [i \in DOMAIN map \ {id} |-> map[i]]

Known == receiver.entry.id \in DOMAIN queryMap
Sendable == Known /\ receiver.entry.res # "unencodable"


SendReply ==
    /\ receiver.pc = "read" /\ Sendable
    /\ replies' = [replies EXCEPT ![receiver.entry.q] =
                     Append(@, queryMap[receiver.entry.id])]
    /\ queryMap' = Erase(queryMap, receiver.entry.id)
    /\ ReadResponse("poll")

(* encode() throws, which the handler catches; or queryMap.at throws, and  *)
(* nothing catches it.                                                     *)
DropReply ==
    /\ receiver.pc = "read" /\ ~Sendable
    /\ queryMap' = Erase(queryMap, receiver.entry.id)
    /\ UNCHANGED replies
    /\ ReadResponse(IF Known THEN "poll" ELSE "terminated")

(* poll, recvfrom or sendto fails: the thread closes its sockets and ends. *)
ReceiverFails ==
    /\ "receiver" \in Faulty
    /\ \/ /\ receiver.pc \in {"poll", "recv"}
          /\ receiver' = [receiver EXCEPT !.pc = "failed"]
          /\ UNCHANGED <<asked, inbox, queryIDPool, queryMap, managedQueue, forwardQueue,
                         responseQueue, forwarder, shouldStop, replies, reused>>
       \/ /\ receiver.pc = "read" /\ Sendable
          /\ queryMap' = Erase(queryMap, receiver.entry.id)
          /\ UNCHANGED replies
          /\ ReadResponse("failed")

ReceiverStops ==
    /\ receiver.pc = "poll"
    /\ "receiver" \in shouldStop
    /\ receiver' = [receiver EXCEPT !.pc = "ended"]
    /\ UNCHANGED <<asked, inbox, queryIDPool, queryMap, managedQueue, forwardQueue,
                   responseQueue, forwarder, shouldStop, replies, reused>>
-----------------------------------------------------------------------------
(* The main thread asks a thread to stop; DnsProxy says when it does.      *)
AskToStop(t) ==
    /\ shouldStop' = shouldStop \cup {t}
    /\ UNCHANGED <<asked, inbox, queryIDPool, queryMap, managedQueue, forwardQueue,
                   responseQueue, receiver, forwarder, replies, reused>>
-----------------------------------------------------------------------------
(* QueryForwarder::processLoop and its handler *)

TakeQuery ==
    /\ Alive
    /\ forwarder.pc = "idle"
    /\ "forwarder" \notin shouldStop
    /\ forwardQueue.items # <<>>
    /\ forwardQueue' = Dequeue(forwardQueue)
    /\ forwarder' = [pc |-> "read", entry |-> Head(forwardQueue.items)]
    /\ UNCHANGED <<asked, inbox, queryIDPool, queryMap, managedQueue, responseQueue,
                   receiver, shouldStop, replies, reused>>

ReadQuery ==
    /\ Alive
    /\ forwarder.pc = "read"
    /\ forwardQueue.pipe > 0
    /\ forwardQueue' = [forwardQueue EXCEPT !.pipe = @ - 1]
    /\ forwarder' = [forwarder EXCEPT !.pc = "resolve"]
    /\ UNCHANGED <<asked, inbox, queryIDPool, queryMap, managedQueue, responseQueue,
                   receiver, shouldStop, replies, reused>>

(* A query that encode() refuses becomes its own SERVFAIL; any other gets  *)
(* an answer from upstream or becomes its own NXDOMAIN.                    *)
ResultsFor(e) ==
    IF asked[e.q].kind = "unencodable" THEN {"unencodable"} ELSE {"answer", "unencodable"}

Resolve(res) ==
    /\ Alive
    /\ forwarder.pc = "resolve"
    /\ res \in ResultsFor(forwarder.entry)
    /\ responseQueue' = Enqueue(responseQueue, [forwarder.entry EXCEPT !.res = res])
    /\ forwarder' = [pc |-> "write", entry |-> NoEntry]
    /\ UNCHANGED <<asked, inbox, queryIDPool, queryMap, managedQueue, forwardQueue,
                   receiver, shouldStop, replies, reused>>

WriteResponse ==
    /\ Alive
    /\ forwarder.pc = "write"
    /\ responseQueue.pipe < PipeCapacity
    /\ responseQueue' = [responseQueue EXCEPT !.pipe = @ + 1]
    /\ forwarder' = [pc |-> "idle", entry |-> NoEntry]
    /\ UNCHANGED <<asked, inbox, queryIDPool, queryMap, managedQueue, forwardQueue,
                   receiver, shouldStop, replies, reused>>

(* Leaving the handler without an answer: asked to stop between two        *)
(* attempts, or a socket call failed.                                      *)
AbandonQuery(next) ==
    /\ Alive
    /\ forwarder.pc = "resolve"
    /\ asked[forwarder.entry.q].kind # "unencodable"
    /\ forwarder' = [pc |-> next, entry |-> NoEntry]
    /\ UNCHANGED <<asked, inbox, queryIDPool, queryMap, managedQueue, forwardQueue,
                   responseQueue, receiver, shouldStop, replies, reused>>

GiveUpStopping == "forwarder" \in shouldStop /\ AbandonQuery("idle")

ForwarderFails == "forwarder" \in Faulty /\ AbandonQuery("failed")

ForwarderStops ==
    /\ Alive
    /\ forwarder.pc = "idle"
    /\ "forwarder" \in shouldStop
    /\ forwarder' = [forwarder EXCEPT !.pc = "ended"]
    /\ UNCHANGED <<asked, inbox, queryIDPool, queryMap, managedQueue, forwardQueue,
                   responseQueue, receiver, shouldStop, replies, reused>>
-----------------------------------------------------------------------------
ReceiverStep == Poll \/ SkipDatagram \/ HandleIncomingUDP \/ WriteQuery \/ TakeResponse
                  \/ SendReply \/ DropReply \/ ReceiverStops
ForwarderStep == TakeQuery \/ ReadQuery \/ (\E res \in Results : Resolve(res))
                   \/ WriteResponse \/ GiveUpStopping \/ ForwarderStops

Next == \/ \E c \in Clients, k \in Kinds : Arrive(c, k)
        \/ ReceiverStep \/ ReceiverFails
        \/ ForwarderStep \/ ForwarderFails
        \/ \E t \in ThreadNames : AskToStop(t)

Spec == Init /\ [][Next]_vars

(* The scheduler runs both threads; upstream resolution ends, if only by   *)
(* the last time-out.                                                      *)
Fairness == WF_vars(ReceiverStep) /\ WF_vars(ForwarderStep)

FairSpec == Spec /\ Fairness
-----------------------------------------------------------------------------
ReceiverPC == {"poll", "recv", "write", "take", "read", "ended", "failed", "terminated"}
ForwarderPC == {"idle", "read", "resolve", "write", "ended", "failed"}
Queue == [items : Seq(Entries), pipe : 0 .. PipeCapacity]

(* Values of the variables.                                                *)
TypeOK == /\ asked \in Seq([client : Clients, kind : Kinds]) /\ Len(asked) <= MaxQueries
          /\ inbox \in Seq(1 .. Len(asked))
          /\ queryIDPool \in Ids
          /\ DOMAIN queryMap \subseteq Ids
          /\ \A id \in DOMAIN queryMap : queryMap[id] \in Clients
          /\ managedQueue \in Queue /\ forwardQueue \in Queue /\ responseQueue \in Queue
          /\ receiver \in [pc : ReceiverPC, out : BOOLEAN, entry : Entries \cup {NoEntry}]
          /\ forwarder \in [pc : ForwarderPC, entry : Entries \cup {NoEntry}]
          /\ shouldStop \subseteq ThreadNames
          /\ replies \in [Queries -> Seq(Clients)]
          /\ reused \in BOOLEAN

Held(thread, pcs) == IF thread.pc \in pcs THEN <<thread.entry>> ELSE <<>>

(* The queries between their arrival and their response, oldest first.     *)
InFlight == Held(receiver, {"read"}) \o responseQueue.items
              \o Held(forwarder, {"read", "resolve"}) \o forwardQueue.items

Pending == InFlight \o managedQueue.items

EntriesOf(s) == {s[i] : i \in DOMAIN s}

(* What the map is for (qreceiver.cpp:259): every pending query finds its  *)
(* own client under its id, no two share an id, and the map holds nothing  *)
(* else, but for the one query a forwarder that stops or fails abandons.   *)
(* It ends when an id is given out that is still in the map.               *)
Abandoned == IF "forwarder" \in shouldStop \/ forwarder.pc = "failed" THEN {0, 1} ELSE {0}
Tracked ==
    ~reused =>
        /\ \A e \in EntriesOf(Pending) : /\ e.id \in DOMAIN queryMap
                                        /\ queryMap[e.id] = asked[e.q].client
        /\ Cardinality({e.id : e \in EntriesOf(Pending)}) = Len(Pending)
        /\ Cardinality(DOMAIN queryMap) - Len(Pending) \in Abandoned

(* An id is given out while it is still in the map only under load: when   *)
(* all IdCount ids are in use by queries in flight.  Queries for the       *)
(* proxy's own domain, which keep their ids for ever, and a query that was *)
(* abandoned bring it about sooner (qreceiver.cpp:263, 284).               *)
ReuseNeedsLoad ==
    [][(~reused /\ reused' /\ managedQueue.items = <<>> /\ Abandoned = {0})
          => Len(InFlight) >= IdCount]_vars

(* A response goes to the client that asked, and to it once.               *)
RightClient ==
    \A q \in DOMAIN asked : replies[q] \in {<<>>, <<asked[q].client>>}

(* queryMap.at throws, and the process dies of std::out_of_range           *)
(* (qreceiver.cpp:297), only after an id was given out that was in use:    *)
(* stops, failures and the order of the threads never bring it about.      *)
LookupSucceeds == receiver.pc = "terminated" => reused

(* The queues have no limit (main.cpp:13), yet the pipes and the order of  *)
(* the handlers in the receiver's loop bound what is in flight.            *)
InFlightBounded == Len(InFlight) <= PipeCapacity + 3

(* The two threads never wait for each other, each one writing to a pipe   *)
(* that only the other one empties (mqueue.cpp:59).                        *)
NoMutualBlock ==
    ~ /\ receiver.pc = "write" /\ asked[receiver.entry.q].kind # "managed"
      /\ forwardQueue.pipe = PipeCapacity
      /\ forwarder.pc = "write" /\ responseQueue.pipe = PipeCapacity

(* Every query that arrives and is to be forwarded gets its response sent  *)
(* to a client, unless the receiver cannot encode the response, a thread   *)
(* fails or is asked to stop, or the process dies.  The first exception is *)
(* also that of the SERVFAIL meant for a query that cannot be encoded      *)
(* (qforwarder.cpp:143-145): it cannot be encoded either.                  *)
Undisturbed == /\ shouldStop = {}
               /\ receiver.pc \notin {"failed", "terminated"} /\ forwarder.pc # "failed"
Refused(q) ==
    receiver.pc = "read" /\ receiver.entry.q = q /\ receiver.entry.res = "unencodable"
Waits(q) == q \in EntriesOf(inbox) /\ asked[q].kind \in {"foreign", "unencodable"}

(* As the clients see it the pipeline is a relay that answers in order,    *)
(* each query at most once, and to the client that asked until an id is    *)
(* given out that is still in use.                                         *)
Relay == INSTANCE QueryRelay WITH asker <- [i \in DOMAIN asked |-> asked[i].client],
                                  exact <- ~reused
ImplementsRelay == Relay!Spec
=============================================================================
