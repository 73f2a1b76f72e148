---------------------------- MODULE DnsProxyProofs ----------------------------
(***************************************************************************)
(* Proofs about DnsProxy, for any clients, numbers of queries and ids,     *)
(* capacities and failing threads: the process is a QueryPipeline, so that *)
(* the theorems about the pipeline hold of it, and it is aborted only      *)
(* after a thread has failed.                                              *)
(***************************************************************************)
EXTENDS DnsProxy, QueryRelayProofs

(* The stops that main may have ahead of it.                               *)
Orders == {<<>>, <<"receiver">>, <<"forwarder">>,
           <<"receiver", "forwarder">>, <<"forwarder", "receiver">>}
MainPC == {"startReceiver", "waitReceiver", "startForwarder", "waitForwarder", "sigwait",
           "stop", "join", "exited", "aborted"}
MainRecords == [pc : MainPC, stops : Orders, ok : BOOLEAN]

(* A thread moves only after its set-up, and ends only when asked to.      *)
ThreadsOK ==
    /\ initialized \subseteq spawned /\ spawned \subseteq ThreadNames
    /\ "receiver" \notin initialized => receiver.pc = "poll"
    /\ "forwarder" \notin initialized => forwarder.pc = "idle"
    /\ receiver.pc = "ended" => "receiver" \in shouldStop
    /\ forwarder.pc = "ended" => "forwarder" \in shouldStop

(* main gets past a start only when the thread has been set up, and asks   *)
(* nobody to stop before the signal.                                       *)
StartsOK ==
    /\ main \in MainRecords
    /\ main.pc \in {"startForwarder", "waitForwarder", "sigwait", "stop", "join"}
         => "receiver" \in initialized
    /\ main.pc \in {"sigwait", "stop", "join"} => "forwarder" \in initialized
    /\ main.pc \notin {"stop", "join", "exited", "aborted"} => shouldStop = {}

(* After the signal each thread is yet to be stopped, or joined, or it has *)
(* failed; and none is asked to stop before its turn.                      *)
StopsOK ==
    main.pc \in {"stop", "join"} =>
        /\ \A t \in ThreadNames :
             t \in EntriesOf(main.stops) \/ t \in joined \/ PCOf(t) = "failed"
        /\ main.pc = "stop" => shouldStop \cap EntriesOf(main.stops) = {}
        /\ main.pc = "join" => /\ main.stops # <<>>
                               /\ shouldStop \cap EntriesOf(Tail(main.stops)) = {}

ProxyInv == ThreadsOK /\ StartsOK /\ StopsOK /\ AbortOnlyAfterFailure

-----------------------------------------------------------------------------
LEMMA OrderFacts ==
  ASSUME NEW s \in Orders, s # <<>>
  PROVE  /\ Head(s) \in ThreadNames /\ Tail(s) \in Orders
         /\ EntriesOf(s) = {Head(s)} \cup EntriesOf(Tail(s))
         /\ Head(s) \notin EntriesOf(Tail(s))
<1>1. CASE s = <<"receiver">>
  <2>1. Head(s) = "receiver" /\ Tail(s) = <<>> /\ EntriesOf(s) = {"receiver"} /\ EntriesOf(<<>>) = {}
    BY <1>1 DEF EntriesOf
  <2> QED BY <2>1 DEF Orders, ThreadNames
<1>2. CASE s = <<"forwarder">>
  <2>1. Head(s) = "forwarder" /\ Tail(s) = <<>> /\ EntriesOf(s) = {"forwarder"} /\ EntriesOf(<<>>) = {}
    BY <1>2 DEF EntriesOf
  <2> QED BY <2>1 DEF Orders, ThreadNames
<1>3. CASE s = <<"receiver", "forwarder">>
  <2>1. /\ Head(s) = "receiver" /\ Tail(s) = <<"forwarder">>
        /\ EntriesOf(s) = {"receiver", "forwarder"} /\ EntriesOf(<<"forwarder">>) = {"forwarder"}
    BY <1>3 DEF EntriesOf
  <2> QED BY <2>1 DEF Orders, ThreadNames
<1>4. CASE s = <<"forwarder", "receiver">>
  <2>1. /\ Head(s) = "forwarder" /\ Tail(s) = <<"receiver">>
        /\ EntriesOf(s) = {"receiver", "forwarder"} /\ EntriesOf(<<"receiver">>) = {"receiver"}
    BY <1>4 DEF EntriesOf
  <2> QED BY <2>1 DEF Orders, ThreadNames
<1> QED BY <1>1, <1>2, <1>3, <1>4 DEF Orders

LEMMA ReceiverMoves ==
  ASSUME TypeInv, ReceiverStep \/ ReceiverFails
  PROVE  /\ UNCHANGED <<forwarder, shouldStop>>
         /\ receiver.pc # "failed"
         /\ receiver'.pc = "ended" => "receiver" \in shouldStop
<1>1. receiver \in ReceiverRecords
  BY TypeParts DEF TypeInv
<1>2. AfterIncoming \in {"take", "poll"}
  BY DEF AfterIncoming
<1>3. CASE Poll \/ SkipDatagram \/ HandleIncomingUDP \/ WriteQuery
  BY <1>1, <1>2, <1>3 DEF Poll, SkipDatagram, HandleIncomingUDP, WriteQuery, ReceiverRecords
<1>4. CASE TakeResponse \/ SendReply \/ DropReply \/ ReceiverStops \/ ReceiverFails
  BY <1>1, <1>4 DEF TakeResponse, SendReply, DropReply, ReadResponse, ReceiverStops,
                    ReceiverFails, ReceiverRecords
<1> QED BY <1>3, <1>4 DEF ReceiverStep

LEMMA ForwarderMoves ==
  ASSUME TypeInv, ForwarderStep \/ ForwarderFails
  PROVE  /\ UNCHANGED <<receiver, shouldStop>>
         /\ forwarder.pc # "failed"
         /\ forwarder'.pc = "ended" => "forwarder" \in shouldStop
<1>1. forwarder \in ForwarderRecords
  BY TypeParts DEF TypeInv
<1>2. CASE TakeQuery \/ ReadQuery \/ ForwarderStops
  BY <1>1, <1>2 DEF TakeQuery, ReadQuery, ForwarderStops, ForwarderRecords
<1>3. CASE \E res \in Results : Resolve(res)
  BY <1>3 DEF Resolve
<1>4. CASE WriteResponse \/ GiveUpStopping \/ ForwarderFails
  BY <1>4 DEF WriteResponse, GiveUpStopping, ForwarderFails, AbandonQuery
<1> QED BY <1>2, <1>3, <1>4 DEF ForwarderStep
-----------------------------------------------------------------------------
LEMMA ProxyInit == InitProxy => ProxyInv /\ TypeInv
<1> SUFFICES ASSUME InitProxy PROVE ProxyInv /\ TypeInv
  OBVIOUS
<1>1. TypeInv
  BY TypeInit DEF InitProxy
<1>2. ThreadsOK /\ StopsOK /\ AbortOnlyAfterFailure
  BY DEF InitProxy, Init, ThreadsOK, StopsOK, AbortOnlyAfterFailure
<1>3. StartsOK
  BY DEF InitProxy, Init, StartsOK, MainRecords, MainPC, Orders
<1> QED BY <1>1, <1>2, <1>3 DEF ProxyInv

(* A step of main and its environment is a step of the pipeline or none.   *)
LEMMA ProxyStepIsPipelineStep ==
  ASSUME ProxyInv, NextProxy
  PROVE  [Next]_vars
<1>1. CASE MainStep
  <2>1. CASE StopThread
    <3>1. main.stops \in Orders
      BY DEF ProxyInv, StartsOK, MainRecords
    <3>2. \E t \in ThreadNames : AskToStop(t)
      BY <2>1, <3>1, OrderFacts DEF StopThread
    <3> QED BY <3>2 DEF Next
  <2>2. CASE ~StopThread
    BY <1>1, <2>2 DEF MainStep, StartReceiver, StartForwarder, Start, ReceiverStarted,
                      ForwarderStarted, Started, StopRefused, Join, ReturnFromMain
  <2> QED BY <2>1, <2>2
<1>2. CASE InitializeStep
  BY <1>2 DEF InitializeStep, Initialize
<1>3. CASE ReceiverRuns \/ ForwarderRuns \/ ForwarderFaults
  BY <1>3 DEF ReceiverRuns, ForwarderRuns, ForwarderFaults, Next
<1>4. CASE ReceiverFaults
  <2>1. CASE ReceiverInitFails
    <3>1. receiver.pc = "poll"
      BY <2>1 DEF ReceiverInitFails, ProxyInv, ThreadsOK
    <3>2. ReceiverFails
      BY <2>1, <3>1 DEF ReceiverInitFails, ReceiverFails
    <3> QED BY <3>2 DEF Next
  <2> QED BY <1>4, <2>1 DEF ReceiverFaults, Next
<1>5. CASE Environment
  BY <1>5 DEF Environment, Next, Signal
<1> QED BY <1>1, <1>2, <1>3, <1>4, <1>5 DEF NextProxy
-----------------------------------------------------------------------------
LEMMA SetMain ==
  ASSUME main \in MainRecords, NEW pc \in MainPC, NEW stops \in Orders, NEW ok \in BOOLEAN
  PROVE  /\ main' = [main EXCEPT !.pc = pc]
              => main' \in MainRecords /\ main'.pc = pc /\ main'.stops = main.stops
         /\ main' = [main EXCEPT !.pc = pc, !.stops = stops]
              => main' \in MainRecords /\ main'.pc = pc /\ main'.stops = stops
         /\ main' = [main EXCEPT !.stops = stops, !.ok = ok]
              => main' \in MainRecords /\ main'.pc = main.pc /\ main'.stops = stops
<1>1. ASSUME main' = [main EXCEPT !.pc = pc]
      PROVE  main' \in MainRecords /\ main'.pc = pc /\ main'.stops = main.stops
  BY <1>1 DEF MainRecords
<1>2. ASSUME main' = [main EXCEPT !.pc = pc, !.stops = stops]
      PROVE  main' \in MainRecords /\ main'.pc = pc /\ main'.stops = stops
  BY <1>2 DEF MainRecords
<1>3. ASSUME main' = [main EXCEPT !.stops = stops, !.ok = ok]
      PROVE  main' \in MainRecords /\ main'.pc = main.pc /\ main'.stops = stops
  BY <1>3 DEF MainRecords
<1> QED BY <1>1, <1>2, <1>3

(* When a thread moves, main stays where it is.                            *)
LEMMA ThreadStep ==
  ASSUME ProxyInv, TypeInv, UNCHANGED mainVars, UNCHANGED shouldStop,
         receiver.pc = "failed" => receiver'.pc = "failed",
         forwarder.pc = "failed" => forwarder'.pc = "failed",
         receiver'.pc = "ended" => "receiver" \in shouldStop,
         forwarder'.pc = "ended" => "forwarder" \in shouldStop,
         "receiver" \in initialized \/ UNCHANGED receiver,
         "forwarder" \in initialized \/ UNCHANGED forwarder
  PROVE  ProxyInv'
<1>1. ThreadsOK'
  BY DEF ProxyInv, ThreadsOK, mainVars
<1>2. StartsOK'
  BY DEF ProxyInv, StartsOK, mainVars
<1>3. \A t \in ThreadNames : PCOf(t) = "failed" => PCOf(t)' = "failed"
  BY DEF PCOf
<1>4. StopsOK'
  BY <1>3 DEF ProxyInv, StopsOK, mainVars
<1>5. AbortOnlyAfterFailure'
  BY DEF ProxyInv, AbortOnlyAfterFailure, mainVars, IsGood, PCOf
<1> QED BY <1>1, <1>2, <1>4, <1>5 DEF ProxyInv

LEMMA StartPreserves ==
  ASSUME ProxyInv, StartReceiver \/ StartForwarder
  PROVE  ProxyInv'
<1>0. /\ main \in MainRecords /\ "waitReceiver" \in MainPC /\ "waitForwarder" \in MainPC
      /\ <<>> \in Orders /\ TRUE \in BOOLEAN
  BY DEF ProxyInv, StartsOK, MainPC, Orders
<1>1. UNCHANGED <<receiver, forwarder, shouldStop, initialized, joined>>
  BY DEF StartReceiver, StartForwarder, Start, vars
<1>2. spawned \subseteq spawned' /\ spawned' \subseteq ThreadNames
  BY DEF StartReceiver, StartForwarder, Start, ProxyInv, ThreadsOK, ThreadNames
<1>3. \/ main.pc = "startReceiver" /\ main' = [main EXCEPT !.pc = "waitReceiver"]
      \/ main.pc = "startForwarder" /\ main' = [main EXCEPT !.pc = "waitForwarder"]
  BY DEF StartReceiver, StartForwarder, Start
<1>4. /\ main' \in MainRecords
      /\ \/ main.pc = "startReceiver" /\ main'.pc = "waitReceiver"
         \/ main.pc = "startForwarder" /\ main'.pc = "waitForwarder"
  BY <1>0, <1>3, SetMain
<1>5. ThreadsOK'
  BY <1>1, <1>2 DEF ProxyInv, ThreadsOK
<1>6. StartsOK'
  BY <1>1, <1>4 DEF ProxyInv, StartsOK
<1>7. StopsOK' /\ AbortOnlyAfterFailure'
  BY <1>4 DEF StopsOK, AbortOnlyAfterFailure
<1> QED BY <1>5, <1>6, <1>7 DEF ProxyInv

LEMMA StartedPreserves ==
  ASSUME ProxyInv, NEW t \in ThreadNames, NEW from, NEW to, Started(t, from, to),
         \/ t = "receiver" /\ from = "waitReceiver" /\ to = "startForwarder"
         \/ t = "forwarder" /\ from = "waitForwarder" /\ to = "sigwait"
  PROVE  ProxyInv'
<1>0. main \in MainRecords /\ to \in MainPC /\ Return \in MainPC /\ <<>> \in Orders /\ TRUE \in BOOLEAN
  BY DEF ProxyInv, StartsOK, MainPC, Return, Orders
<1>1. UNCHANGED <<receiver, forwarder, shouldStop, initialized, spawned, joined>>
  BY DEF Started, vars
<1>2. ThreadsOK'
  BY <1>1 DEF ProxyInv, ThreadsOK
<1>3. CASE IsGood(t)
  <2>1. main' \in MainRecords /\ main'.pc = to
    <3>1. main' = [main EXCEPT !.pc = to]
      BY <1>3 DEF Started
    <3> QED BY <1>0, <3>1, SetMain
  <2>2. StartsOK'
    BY <1>1, <2>1 DEF ProxyInv, StartsOK, Started
  <2>3. StopsOK' /\ AbortOnlyAfterFailure'
    BY <2>1 DEF StopsOK, AbortOnlyAfterFailure
  <2> QED BY <1>2, <2>2, <2>3 DEF ProxyInv
<1>4. CASE ~IsGood(t)
  <2>1. main' \in MainRecords /\ main'.pc = Return
    <3>1. main' = [main EXCEPT !.pc = Return]
      BY <1>4 DEF Started
    <3> QED BY <1>0, <3>1, SetMain
  <2>2. main'.pc \in {"exited", "aborted"}
    BY <2>1 DEF Return
  <2>3. StartsOK' /\ StopsOK'
    BY <2>1, <2>2 DEF StartsOK, StopsOK
  <2>4. t \in spawned'
    BY <1>1 DEF Started, ProxyInv, ThreadsOK
  <2>5. ~IsGood(t)'
    BY <1>1, <1>4 DEF IsGood, PCOf
  <2>6. AbortOnlyAfterFailure'
    BY <2>4, <2>5 DEF AbortOnlyAfterFailure
  <2> QED BY <1>2, <2>3, <2>6 DEF ProxyInv
<1> QED BY <1>3, <1>4

LEMMA SignalPreserves ==
  ASSUME ProxyInv, Signal
  PROVE  ProxyInv'
<1>1. UNCHANGED <<receiver, forwarder, shouldStop, initialized, spawned, joined>> /\ main.pc = "sigwait"
  BY DEF Signal, vars
<1>2. PICK t \in ThreadNames, u \in ThreadNames :
        t # u /\ main' = [main EXCEPT !.pc = "stop", !.stops = <<t, u>>]
  BY DEF Signal
<1>3. <<t, u>> \in Orders /\ EntriesOf(<<t, u>>) = ThreadNames
  BY <1>2 DEF Orders, ThreadNames, EntriesOf
<1>4. main' \in MainRecords /\ main'.pc = "stop" /\ main'.stops = <<t, u>>
  <2>1. main \in MainRecords /\ "stop" \in MainPC /\ TRUE \in BOOLEAN
    BY DEF ProxyInv, StartsOK, MainPC
  <2> QED BY <1>2, <1>3, <2>1, SetMain
<1>5. ThreadsOK'
  BY <1>1 DEF ProxyInv, ThreadsOK
<1>6. StartsOK'
  <2>1. "receiver" \in initialized' /\ "forwarder" \in spawned'
    BY <1>1 DEF ProxyInv, StartsOK, ThreadsOK
  <2> QED BY <1>1, <1>4, <2>1 DEF ProxyInv, StartsOK
<1>7. StopsOK'
  <2>1. shouldStop' = {}
    BY <1>1 DEF ProxyInv, StartsOK
  <2> QED BY <1>3, <1>4, <2>1 DEF StopsOK
<1>8. AbortOnlyAfterFailure'
  BY <1>4 DEF AbortOnlyAfterFailure
<1> QED BY <1>5, <1>6, <1>7, <1>8 DEF ProxyInv

LEMMA StopPreserves ==
  ASSUME ProxyInv, StopRefused \/ StopThread \/ Join
  PROVE  ProxyInv'
<1> DEFINE t == Head(main.stops)
<1>1. main.stops # <<>> /\ main.pc \in {"stop", "join"}
  BY DEF ProxyInv, StopsOK, StopRefused, StopThread, Join
<1>2. main \in MainRecords /\ main.stops \in Orders
  BY DEF ProxyInv, StartsOK, MainRecords
<1>3. /\ t \in ThreadNames /\ Tail(main.stops) \in Orders
      /\ EntriesOf(main.stops) = {t} \cup EntriesOf(Tail(main.stops))
      /\ t \notin EntriesOf(Tail(main.stops))
  BY <1>1, <1>2, OrderFacts
<1>4. /\ UNCHANGED <<receiver, forwarder, initialized, spawned>>
      /\ joined \subseteq joined' /\ shouldStop \subseteq shouldStop'
  BY DEF StopRefused, StopThread, Join, AskToStop, vars
<1>5. ThreadsOK'
  BY <1>4 DEF ProxyInv, ThreadsOK
<1>6. "stop" \in MainPC /\ "join" \in MainPC /\ FALSE \in BOOLEAN /\ TRUE \in BOOLEAN
  BY DEF MainPC
<1>7. "receiver" \in initialized /\ "forwarder" \in initialized
  BY <1>1 DEF ProxyInv, StartsOK
<1>8. \A u \in ThreadNames : PCOf(u)' = PCOf(u)
  BY <1>4 DEF PCOf
<1>9. \A u \in ThreadNames : u \in EntriesOf(main.stops) \/ u \in joined \/ PCOf(u) = "failed"
  BY <1>1 DEF ProxyInv, StopsOK
<1> HIDE DEF t
<1>10. CASE StopRefused
  <2>1. main' \in MainRecords /\ main'.pc = "stop" /\ main'.stops = Tail(main.stops)
    <3>1. main.pc = "stop" /\ main' = [main EXCEPT !.stops = Tail(main.stops), !.ok = FALSE]
      BY <1>10 DEF StopRefused
    <3> QED BY <1>2, <1>3, <1>6, <3>1, SetMain
  <2>2. shouldStop \cap EntriesOf(main.stops) = {} /\ shouldStop' = shouldStop
    BY <1>10 DEF StopRefused, vars, ProxyInv, StopsOK
  <2>3. PCOf(t) = "failed"
    <3>1. Done(t)
      BY <1>3, <1>7, <1>10 DEF StopRefused, IsStarted, ThreadNames, t
    <3>2. t \notin shouldStop
      BY <1>3, <2>2
    <3>3. PCOf(t) # "ended"
      BY <1>3, <3>2 DEF ProxyInv, ThreadsOK, PCOf, ThreadNames
    <3> QED BY <3>1, <3>3 DEF Done
  <2>4. StartsOK'
    BY <1>4, <1>7, <2>1 DEF StartsOK
  <2>5. StopsOK'
    BY <1>3, <1>4, <1>8, <1>9, <2>1, <2>2, <2>3 DEF StopsOK
  <2>6. AbortOnlyAfterFailure'
    BY <2>1 DEF AbortOnlyAfterFailure
  <2> QED BY <1>5, <2>4, <2>5, <2>6 DEF ProxyInv
<1>11. CASE StopThread
  <2>1. main' \in MainRecords /\ main'.pc = "join" /\ main'.stops = main.stops
    <3>1. main' = [main EXCEPT !.pc = "join"]
      BY <1>11 DEF StopThread
    <3> QED BY <1>2, <1>6, <3>1, SetMain
  <2>2. shouldStop \cap EntriesOf(main.stops) = {} /\ shouldStop' = shouldStop \cup {t}
    BY <1>11 DEF StopThread, AskToStop, ProxyInv, StopsOK, t
  <2>3. StartsOK'
    BY <1>4, <1>7, <2>1 DEF StartsOK
  <2>4. StopsOK'
    BY <1>1, <1>3, <1>4, <1>8, <1>9, <2>1, <2>2 DEF StopsOK
  <2>5. AbortOnlyAfterFailure'
    BY <2>1 DEF AbortOnlyAfterFailure
  <2> QED BY <1>5, <2>3, <2>4, <2>5 DEF ProxyInv
<1>12. CASE Join
  <2>1. main' \in MainRecords /\ main'.pc = "stop" /\ main'.stops = Tail(main.stops)
    <3>1. main' = [main EXCEPT !.pc = "stop", !.stops = Tail(main.stops)]
      BY <1>12 DEF Join
    <3> QED BY <1>2, <1>3, <1>6, <3>1, SetMain
  <2>2. shouldStop \cap EntriesOf(Tail(main.stops)) = {} /\ shouldStop' = shouldStop
    BY <1>12 DEF Join, vars, ProxyInv, StopsOK
  <2>3. t \in joined'
    BY <1>12 DEF Join, t
  <2>4. StartsOK'
    BY <1>4, <1>7, <2>1 DEF StartsOK
  <2>5. StopsOK'
    BY <1>3, <1>4, <1>8, <1>9, <2>1, <2>2, <2>3 DEF StopsOK
  <2>6. AbortOnlyAfterFailure'
    BY <2>1 DEF AbortOnlyAfterFailure
  <2> QED BY <1>5, <2>4, <2>5, <2>6 DEF ProxyInv
<1> QED BY <1>10, <1>11, <1>12

LEMMA ReturnPreserves ==
  ASSUME ProxyInv, ReturnFromMain
  PROVE  ProxyInv'
<1>0. main \in MainRecords /\ Return \in MainPC /\ <<>> \in Orders /\ TRUE \in BOOLEAN
  BY DEF ProxyInv, StartsOK, MainPC, Return, Orders
<1>1. UNCHANGED <<receiver, forwarder, shouldStop, initialized, spawned, joined>>
  BY DEF ReturnFromMain, vars
<1>2. main' \in MainRecords /\ main'.pc = Return
  <2>1. main' = [main EXCEPT !.pc = Return]
    BY DEF ReturnFromMain
  <2> QED BY <1>0, <2>1, SetMain
<1>3. ThreadsOK'
  BY <1>1 DEF ProxyInv, ThreadsOK
<1>4. main'.pc \in {"exited", "aborted"}
  BY <1>2 DEF Return
<1>5. StartsOK' /\ StopsOK'
  BY <1>2, <1>4 DEF StartsOK, StopsOK
<1>6. AbortOnlyAfterFailure'
  <2>1. SUFFICES ASSUME ~(spawned \subseteq joined) PROVE \E t \in spawned : PCOf(t) = "failed"
    BY <1>1, <1>2 DEF AbortOnlyAfterFailure, Return, IsGood, PCOf
  <2>2. PICK t \in spawned : t \notin joined
    BY <2>1
  <2>3. EntriesOf(main.stops) = {}
    BY DEF ReturnFromMain, EntriesOf
  <2>4. t \in {"receiver", "forwarder"}
    BY <2>2 DEF ProxyInv, ThreadsOK, ThreadNames
  <2>5. PCOf(t) = "failed"
    BY <2>2, <2>3, <2>4 DEF ReturnFromMain, ProxyInv, StopsOK, ThreadNames
  <2> QED BY <2>5
<1> QED BY <1>3, <1>5, <1>6 DEF ProxyInv

LEMMA InitializePreserves ==
  ASSUME ProxyInv, (\E t \in ThreadNames : Initialize(t)) \/ ReceiverInitFails, TypeInv
  PROVE  ProxyInv'
<1>1. /\ UNCHANGED <<forwarder, shouldStop, main, spawned, joined>>
      /\ initialized \subseteq initialized' /\ initialized' \subseteq spawned
  BY DEF ProxyInv, ThreadsOK, Initialize, ReceiverInitFails, vars
<1>2. UNCHANGED receiver \/ (receiver'.pc = "failed" /\ "receiver" \in initialized')
  <2>1. receiver \in ReceiverRecords
    BY TypeParts DEF TypeInv
  <2>2. CASE \E t \in ThreadNames : Initialize(t)
    <3>1. UNCHANGED vars
      BY <2>2 DEF Initialize
    <3> QED BY <3>1 DEF vars
  <2>3. CASE ReceiverInitFails
    BY <2>1, <2>3 DEF ReceiverInitFails, ReceiverRecords
  <2> QED BY <2>2, <2>3
<1>3. ThreadsOK'
  BY <1>1, <1>2 DEF ProxyInv, ThreadsOK
<1>4. StartsOK'
  BY <1>1 DEF ProxyInv, StartsOK
<1>5. \A t \in ThreadNames : PCOf(t) = "failed" => PCOf(t)' = "failed"
  BY <1>1, <1>2 DEF PCOf
<1>6. StopsOK'
  BY <1>1, <1>5 DEF ProxyInv, StopsOK
<1>7. AbortOnlyAfterFailure'
  BY <1>1, <1>2 DEF ProxyInv, AbortOnlyAfterFailure, IsGood, PCOf
<1> QED BY <1>3, <1>4, <1>6, <1>7 DEF ProxyInv

LEMMA ProxyStep ==
  ASSUME ProxyInv, TypeInv, [NextProxy]_allVars
  PROVE  ProxyInv' /\ TypeInv' /\ [Next]_vars
<1>1. CASE NextProxy
  <2>1. [Next]_vars
    BY <1>1, ProxyStepIsPipelineStep
  <2>2. TypeInv'
    BY <2>1, TypeStep
  <2>3. CASE MainStep
    <3>1. ASSUME StartReceiver \/ StartForwarder PROVE ProxyInv'
      BY <3>1, StartPreserves
    <3>2. ASSUME ReceiverStarted PROVE ProxyInv'
      BY <3>2, StartedPreserves DEF ReceiverStarted, ThreadNames
    <3>3. ASSUME ForwarderStarted PROVE ProxyInv'
      BY <3>3, StartedPreserves DEF ForwarderStarted, ThreadNames
    <3>4. ASSUME StopRefused \/ StopThread \/ Join PROVE ProxyInv'
      BY <3>4, StopPreserves
    <3>5. ASSUME ReturnFromMain PROVE ProxyInv'
      BY <3>5, ReturnPreserves
    <3>6. ProxyInv'
      BY <2>3, <3>1, <3>2, <3>3, <3>4, <3>5 DEF MainStep
    <3> QED BY <2>1, <2>2, <3>6
  <2>4. ASSUME InitializeStep \/ ReceiverInitFails PROVE ProxyInv'
    BY <2>4, InitializePreserves DEF InitializeStep
  <2>5. ASSUME ReceiverRuns \/ (ReceiverFaults /\ ~ReceiverInitFails) PROVE ProxyInv'
    <3>1. (ReceiverStep \/ ReceiverFails) /\ UNCHANGED mainVars /\ "receiver" \in initialized
      BY <2>5 DEF ReceiverRuns, ReceiverFaults
    <3> QED BY <3>1, ReceiverMoves, ThreadStep DEF ProxyInv, ThreadsOK
  <2>6. ASSUME ForwarderRuns \/ ForwarderFaults PROVE ProxyInv'
    <3>1. (ForwarderStep \/ ForwarderFails) /\ UNCHANGED mainVars /\ "forwarder" \in initialized
      BY <2>6 DEF ForwarderRuns, ForwarderFaults
    <3> QED BY <3>1, ForwarderMoves, ThreadStep DEF ProxyInv, ThreadsOK
  <2>7. ASSUME NEW c \in Clients, NEW k \in Kinds, Arrive(c, k), UNCHANGED mainVars PROVE ProxyInv'
    <3>1. UNCHANGED <<receiver, forwarder, shouldStop>>
      BY <2>7 DEF Arrive
    <3> QED BY <2>7, <3>1, ThreadStep DEF ProxyInv, ThreadsOK
  <2>8. ASSUME Signal PROVE ProxyInv'
    BY <2>8, SignalPreserves
  <2>9. ProxyInv'
    BY <1>1, <2>3, <2>4, <2>5, <2>6, <2>7, <2>8
       DEF NextProxy, ReceiverFaults, Environment
  <2> QED BY <2>1, <2>2, <2>9
<1>2. CASE UNCHANGED allVars
  <2>1. UNCHANGED vars /\ UNCHANGED mainVars /\ UNCHANGED <<receiver, forwarder, shouldStop>>
    BY <1>2 DEF allVars, vars
  <2>2. [Next]_vars /\ TypeInv'
    BY <2>1, TypeStep
  <2>3. ProxyInv'
    BY <2>1, ThreadStep DEF ProxyInv, ThreadsOK
  <2> QED BY <2>2, <2>3
<1> QED BY <1>1, <1>2

LEMMA ProxyInvariant == SpecProxy => [](ProxyInv /\ TypeInv)
BY ProxyInit, ProxyStep, PTL DEF SpecProxy

(* The process takes only steps of the pipeline, its starts, stops and     *)
(* joins included: whatever the pipeline never does, the process never     *)
(* does either.                                                            *)
THEOREM ProcessIsPipeline == SpecProxy => Spec
<1>1. InitProxy => Init
  BY DEF InitProxy
<1>2. ProxyInv /\ TypeInv /\ [NextProxy]_allVars => [Next]_vars
  BY ProxyStep
<1> QED BY <1>1, <1>2, ProxyInvariant, PTL DEF SpecProxy, Spec

(* An unjoined std::thread takes the process down only when a thread has   *)
(* failed before, in whichever order main stops the threads.               *)
THEOREM AbortHolds == SpecProxy => []AbortOnlyAfterFailure
<1>1. ProxyInv => AbortOnlyAfterFailure
  BY DEF ProxyInv
<1> QED BY <1>1, ProxyInvariant, PTL

(* The whole process, from its start to its shutdown, answers like a relay *)
(* (in order, each query at most once, to the client that asked while ids   *)
(* last) and keeps a bounded number of queries in its unbounded queues.    *)
THEOREM ProcessIsRelay == SpecProxy => ImplementsRelay
BY ProcessIsPipeline, RefinesRelay, PTL

THEOREM ProcessLoadBounded == SpecProxy => []InFlightBounded
BY ProcessIsPipeline, InFlightIsBounded, PTL
=============================================================================
