------------------------------ MODULE DnsProxy ------------------------------
(***************************************************************************)
(* The process (dns/src/main.cpp): the main thread starts the threads of   *)
(* QueryPipeline one after the other, waits for SIGINT, asks them to stop  *)
(* and joins them.  start and stop are those of QueryReceiver              *)
(* (qreceiver.cpp:123-137, 324-332) and QueryForwarder                     *)
(* (qforwarder.cpp:88-102, 217-225), which do the same.                    *)
(***************************************************************************)
EXTENDS QueryPipeline

VARIABLES main,         \* the main thread: where it is, and the stops it has yet to do
          spawned,      \* the threads that exist
          initialized,  \* the threads that have set threadFinishedInit
          joined        \* the threads that were joined

mainVars == <<main, spawned, initialized, joined>>
allVars == <<vars, mainVars>>

PCOf(t) == IF t = "receiver" THEN receiver.pc ELSE forwarder.pc
Done(t) == PCOf(t) \in {"ended", "failed"}

(* The atomic flags of the two classes.                                    *)
IsStarted(t) == t \in initialized /\ ~Done(t)
IsGood(t) == PCOf(t) # "failed"

(* The process still runs.                                                 *)
Running == Alive /\ main.pc \notin {"exited", "aborted"}

InitProxy == /\ Init
             /\ main = [pc |-> "startReceiver", stops |-> <<>>, ok |-> TRUE]
             /\ spawned = {} /\ initialized = {} /\ joined = {}
-----------------------------------------------------------------------------
(* start: create the thread, and wait until it has tried its set-up.       *)
Start(t, from, to) ==
    /\ main.pc = from
    /\ spawned' = spawned \cup {t}
    /\ main' = [main EXCEPT !.pc = to]
    /\ UNCHANGED <<vars, initialized, joined>>

StartReceiver == Start("receiver", "startReceiver", "waitReceiver")
StartForwarder == Start("forwarder", "startForwarder", "waitForwarder")

(* Returning from main destroys the two objects: a std::thread that was    *)
(* started and not joined takes the process down.                          *)
Return == IF spawned \subseteq joined THEN "exited" ELSE "aborted"

Started(t, from, to) ==
    /\ main.pc = from
    /\ t \in initialized
    /\ main' = [main EXCEPT !.pc = IF IsGood(t) THEN to ELSE Return]
    /\ UNCHANGED <<vars, spawned, initialized, joined>>

ReceiverStarted == Started("receiver", "waitReceiver", "startForwarder")
ForwarderStarted == Started("forwarder", "waitForwarder", "sigwait")

(* SIGINT.  The order of the two stops is not specified by the language.   *)
Signal ==
    /\ main.pc = "sigwait"
    /\ \E t, u \in ThreadNames :
         t # u /\ main' = [main EXCEPT !.pc = "stop", !.stops = <<t, u>>]
    /\ UNCHANGED <<vars, spawned, initialized, joined>>

StopRefused ==
    /\ main.pc = "stop" /\ main.stops # <<>>
    /\ ~IsStarted(Head(main.stops))
    /\ main' = [main EXCEPT !.stops = Tail(@), !.ok = FALSE]
    /\ UNCHANGED <<vars, spawned, initialized, joined>>

(* Mutant of StopThread: the thread is not joined.                         *)
StopWithoutJoin ==
    /\ main.pc = "stop" /\ main.stops # <<>>
    /\ IsStarted(Head(main.stops))
    /\ AskToStop(Head(main.stops))
    /\ main' = [main EXCEPT !.stops = Tail(@)]
    /\ UNCHANGED <<spawned, initialized, joined>>

(* Mutant of StopThread: the flag is not set.                              *)
StopUnasked ==
    /\ main.pc = "stop" /\ main.stops # <<>>
    /\ IsStarted(Head(main.stops))
    /\ main' = [main EXCEPT !.pc = "join"]
    /\ UNCHANGED <<vars, spawned, initialized, joined>>

StopThread ==
    /\ main.pc = "stop" /\ main.stops # <<>>
    /\ IsStarted(Head(main.stops))
    /\ AskToStop(Head(main.stops))
    /\ main' = [main EXCEPT !.pc = "join"]
    /\ UNCHANGED <<spawned, initialized, joined>>

Join ==
    /\ main.pc = "join"
    /\ Done(Head(main.stops))
    /\ joined' = joined \cup {Head(main.stops)}
    /\ main' = [main EXCEPT !.pc = "stop", !.stops = Tail(@)]
    /\ UNCHANGED <<vars, spawned, initialized>>

ReturnFromMain ==
    /\ main.pc = "stop" /\ main.stops = <<>>
    /\ main' = [main EXCEPT !.pc = Return]
    /\ UNCHANGED <<vars, spawned, initialized, joined>>
-----------------------------------------------------------------------------
(* The set-up of a thread: the receiver's is its first poll, with time-out *)
(* 0, which may fail; the forwarder's cannot.                              *)
Initialize(t) ==
    /\ t \in spawned \ initialized
    /\ initialized' = initialized \cup {t}
    /\ UNCHANGED <<vars, main, spawned, joined>>

ReceiverInitFails ==
    /\ "receiver" \in Faulty
    /\ "receiver" \in spawned \ initialized
    /\ initialized' = initialized \cup {"receiver"}
    /\ receiver' = [receiver EXCEPT !.pc = "failed"]
    /\ UNCHANGED <<asked, inbox, queryIDPool, queryMap, managedQueue, forwardQueue,
                   responseQueue, forwarder, shouldStop, replies, reused, main, spawned,
                   joined>>

MainStep == Running /\ (StartReceiver \/ ReceiverStarted \/ StartForwarder \/ ForwarderStarted
                          \/ StopRefused \/ StopThread \/ Join \/ ReturnFromMain)
InitializeStep == Running /\ \E t \in ThreadNames : Initialize(t)
ReceiverRuns == Running /\ "receiver" \in initialized /\ ReceiverStep /\ UNCHANGED mainVars
ForwarderRuns == Running /\ "forwarder" \in initialized /\ ForwarderStep /\ UNCHANGED mainVars
ReceiverFaults == Running /\ (\/ /\ "receiver" \in initialized
                                 /\ ReceiverFails /\ UNCHANGED mainVars
                              \/ ReceiverInitFails)
ForwarderFaults == Running /\ "forwarder" \in initialized /\ ForwarderFails
                     /\ UNCHANGED mainVars
Environment == Running /\ (\/ \E c \in Clients, k \in Kinds : Arrive(c, k) /\ UNCHANGED mainVars
                           \/ Signal)

NextProxy == MainStep \/ InitializeStep \/ ReceiverRuns \/ ReceiverFaults
               \/ ForwarderRuns \/ ForwarderFaults \/ Environment

SpecProxy == InitProxy /\ [][NextProxy]_allVars

(* The scheduler runs all three threads.  Nothing makes a signal, a query  *)
(* or a failure come.                                                      *)
FairProxy == SpecProxy /\ WF_allVars(MainStep) /\ WF_allVars(InitializeStep)
               /\ WF_allVars(ReceiverRuns) /\ WF_allVars(ForwarderRuns)
-----------------------------------------------------------------------------
Exits == main.pc \in {"exited", "aborted"} \/ receiver.pc = "terminated"

(* A thread is in a push to a pipe that is full and that nobody reads: the *)
(* pipe of managedQueue, which has no reader, or one whose thread is gone. *)
HeldUp ==
    \/ /\ receiver.pc = "write"
       /\ IF asked[receiver.entry.q].kind = "managed"
            THEN managedQueue.pipe = PipeCapacity
            ELSE forwardQueue.pipe = PipeCapacity /\ Done("forwarder")
    \/ forwarder.pc = "write" /\ responseQueue.pipe = PipeCapacity /\ Done("receiver")

(* SIGINT ends the process unless a thread hangs in that write for ever    *)
(* (mqueue.cpp:59), where it does not see that it is asked to stop:        *)
(* nothing else that a thread waits for, and no failure or order of the    *)
(* stops, keeps a join (main.cpp:49) from returning.                       *)
ShutdownEnds == main.pc = "stop" ~> Exits \/ HeldUp

(* The process is brought down by an unjoined thread only when a thread    *)
(* had failed before: without failures every thread is joined.             *)
AbortOnlyAfterFailure ==
    main.pc = "aborted" => \E t \in spawned : ~IsGood(t)
=============================================================================
