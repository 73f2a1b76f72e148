---------------------------- MODULE MessageQueue ----------------------------
(***************************************************************************)
(* class MessageQueue (dns/src/mqueue.cpp, dns/include/mqueue.hpp): the    *)
(* queue through which the threads of the DNS proxy exchange queries and   *)
(* responses.  A std::queue guarded by a mutex, two condition variables,   *)
(* an optional limit, and a pipe that carries one byte per entry so that a *)
(* thread can poll() the queue next to its sockets.                        *)
(*                                                                         *)
(* A step of a thread is what it does between two points where another     *)
(* thread can interfere: one critical section of the mutex, one read or    *)
(* write of the pipe, one notification.  The pipe is accessed and the      *)
(* notification sent AFTER the mutex is released, so the queue and the     *)
(* pipe disagree in between; the properties say by how much.               *)
(***************************************************************************)
EXTENDS Integers, Sequences, FiniteSets

CONSTANTS Producers,     \* the threads that push
          Consumers,     \* the threads that pop
          Pollers,       \* the consumers that pop only once poll() reports the pipe readable
          Entry,         \* the pairs (local id, message)
          NoEntry,       \* std::nullopt, and "nothing yet"
          Limit,         \* the constructor's argument; negative means no limit
          PipeCapacity   \* the bytes a pipe holds before write() blocks

ASSUME ThreadsAssumption == /\ IsFiniteSet(Producers)
                            /\ IsFiniteSet(Consumers)
                            /\ Producers \cap Consumers = {}
                            /\ Pollers \subseteq Consumers
ASSUME EntryAssumption == NoEntry \notin Entry
ASSUME LimitAssumption == Limit \in Int
ASSUME PipeAssumption == PipeCapacity \in Nat \ {0}

VARIABLES queue,  \* the std::queue
          pipe,   \* the number of bytes in the pipe
          pc,     \* where each thread is in its call
          entry   \* the argument of push; the queryEntry local of pop and try_pop

vars == <<queue, pipe, pc, entry>>

Threads == Producers \cup Consumers

Bounded == Limit >= 0

(* A thread "locks" when it contends for the mutex to (re-)evaluate the    *)
(* predicate of its condition variable, and "waits" when it is in the wait *)
(* set of the variable.                                                    *)
PushState == {"idle", "pushLock", "pushWait", "pushWrite", "pushNotify"}
PopState  == {"idle", "popLock", "popWait", "tryLock", "tryWait", "tryLast",
              "read", "popNotify"}

ReadWait == {"popWait", "tryWait"}            \* the wait set of readReady
ReadLock == {"popLock", "tryLock", "tryLast"}
WriteWait == {"pushWait"}                     \* the wait set of writeReady

Relock == [popWait |-> "popLock", tryWait |-> "tryLock", pushWait |-> "pushLock"]

At(T, L) == {t \in T : pc[t] \in L}

Init == /\ queue = <<>>
        /\ pipe = 0
        /\ pc = [t \in Threads |-> "idle"]
        /\ entry = [t \in Threads |-> NoEntry]

Goto(t, from, to) == pc[t] = from /\ pc' = [pc EXCEPT ![t] = to]

(* notify_one: wake one waiter, if there is one; the caller then returns.  *)
NotifyAndReturn(t, from, waiting) ==
    /\ pc[t] = from
    /\ IF waiting = {}
         THEN pc' = [pc EXCEPT ![t] = "idle"]
         ELSE \E w \in waiting : pc' = [pc EXCEPT ![t] = "idle", ![w] = Relock[pc[w]]]
    /\ UNCHANGED <<queue, pipe, entry>>
-----------------------------------------------------------------------------
(* push *)

Push(p) == /\ Goto(p, "idle", "pushLock")
           /\ \E e \in Entry : entry' = [entry EXCEPT ![p] = e]
           /\ UNCHANGED <<queue, pipe>>

(* Mutant of HasRoom: the limit is one too high.                           *)
HasRoomOffByOne == Bounded => Len(queue) <= Limit

HasRoom == Bounded => Len(queue) < Limit

(* Mutant of PushEnqueue: no byte is written.                              *)
PushEnqueueSilent(p) == /\ HasRoom
                        /\ Goto(p, "pushLock", "pushNotify")
                        /\ queue' = Append(queue, entry[p])
                        /\ UNCHANGED <<pipe, entry>>

PushEnqueue(p) == /\ HasRoom
                  /\ Goto(p, "pushLock", "pushWrite")
                  /\ queue' = Append(queue, entry[p])
                  /\ UNCHANGED <<pipe, entry>>

PushBlock(p) == /\ ~HasRoom
                /\ Goto(p, "pushLock", "pushWait")
                /\ UNCHANGED <<queue, pipe, entry>>

PushWrite(p) == /\ pipe < PipeCapacity
                /\ Goto(p, "pushWrite", "pushNotify")
                /\ pipe' = pipe + 1
                /\ UNCHANGED <<queue, entry>>

PushNotify(p) == NotifyAndReturn(p, "pushNotify", At(Consumers, ReadWait))
-----------------------------------------------------------------------------
(* pop and try_pop *)

(* Mutant of Pop: it does not wait for poll().                             *)
PopUnpolled(c) == /\ Goto(c, "idle", "popLock")
                  /\ UNCHANGED <<queue, pipe, entry>>

(* Mutant of Pop: it waits without looking at the queue first.             *)
PopBlindly(c) == /\ c \in Pollers => pipe > 0
                 /\ Goto(c, "idle", "popWait")
                 /\ UNCHANGED <<queue, pipe, entry>>

Pop(c) == /\ c \in Pollers => pipe > 0
          /\ Goto(c, "idle", "popLock")
          /\ UNCHANGED <<queue, pipe, entry>>

TryPop(c) == /\ c \notin Pollers
             /\ Goto(c, "idle", "tryLock")
             /\ UNCHANGED <<queue, pipe, entry>>

PopDequeue(c) == /\ pc[c] \in ReadLock
                 /\ queue # <<>>
                 /\ entry' = [entry EXCEPT ![c] = Head(queue)]
                 /\ queue' = Tail(queue)
                 /\ pc' = [pc EXCEPT ![c] = "read"]
                 /\ UNCHANGED pipe

PopBlock(c) == /\ queue = <<>>
               /\ \/ Goto(c, "popLock", "popWait")
                  \/ Goto(c, "tryLock", "tryWait")
               /\ UNCHANGED <<queue, pipe, entry>>

(* wait_for times out, and evaluates its predicate once more.              *)
TryPopTimeout(c) == /\ Goto(c, "tryWait", "tryLast")
                    /\ UNCHANGED <<queue, pipe, entry>>

(* Mutant of TryPopEmpty: the time-out counts although an entry has come.  *)
TryPopHastily(c) == /\ Goto(c, "tryLast", "idle")
                    /\ entry' = [entry EXCEPT ![c] = NoEntry]
                    /\ UNCHANGED <<queue, pipe>>

TryPopEmpty(c) == /\ queue = <<>>
                  /\ Goto(c, "tryLast", "idle")
                  /\ entry' = [entry EXCEPT ![c] = NoEntry]
                  /\ UNCHANGED <<queue, pipe>>

(* Mutant of PopRead: the byte stays in the pipe.                          *)
PopLeavesByte(c) == /\ pipe > 0
                    /\ Goto(c, "read", IF Bounded THEN "popNotify" ELSE "idle")
                    /\ UNCHANGED <<queue, pipe, entry>>

(* Mutant of PopRead: it does not wait for the byte.                       *)
PopReadsEarly(c) == /\ Goto(c, "read", IF Bounded THEN "popNotify" ELSE "idle")
                    /\ pipe' = pipe - 1
                    /\ UNCHANGED <<queue, entry>>

(* Mutant of PopRead: nobody is notified of the free place.                *)
PopReadsQuietly(c) == /\ pipe > 0
                      /\ Goto(c, "read", "idle")
                      /\ pipe' = pipe - 1
                      /\ UNCHANGED <<queue, entry>>

PopRead(c) == /\ pipe > 0
              /\ Goto(c, "read", IF Bounded THEN "popNotify" ELSE "idle")
              /\ pipe' = pipe - 1
              /\ UNCHANGED <<queue, entry>>

PopNotify(c) == NotifyAndReturn(c, "popNotify", At(Producers, WriteWait))

(* A condition variable may wake a waiter that nobody notified.            *)
SpuriousWakeup(t) == /\ pc[t] \in ReadWait \cup WriteWait
                     /\ pc' = [pc EXCEPT ![t] = Relock[pc[t]]]
                     /\ UNCHANGED <<queue, pipe, entry>>
-----------------------------------------------------------------------------
(* A call in progress, and the calls threads make.                         *)
PushStep(p) == PushEnqueue(p) \/ PushBlock(p) \/ PushWrite(p) \/ PushNotify(p)
PopStep(c) == PopDequeue(c) \/ PopBlock(c) \/ TryPopTimeout(c) \/ TryPopEmpty(c)
                \/ PopRead(c) \/ PopNotify(c)

Next == \/ \E p \in Producers : Push(p) \/ PushStep(p)
        \/ \E c \in Consumers : Pop(c) \/ TryPop(c) \/ PopStep(c)
        \/ \E t \in Threads : SpuriousWakeup(t)

Spec == Init /\ [][Next]_vars

(* The scheduler runs every thread whose call can go on, and a consumer    *)
(* calls again: processLoop of either thread is an endless loop around its *)
(* pop or try_pop.  Nothing makes a producer push.                         *)
Fairness == /\ \A p \in Producers : WF_vars(PushStep(p))
            /\ \A c \in Consumers : WF_vars(Pop(c) \/ TryPop(c)) /\ WF_vars(PopStep(c))

FairSpec == Spec /\ Fairness
-----------------------------------------------------------------------------
(* Values of the variables.                                                *)
TypeOK == /\ queue \in Seq(Entry)
          /\ pipe \in 0 .. PipeCapacity
          /\ pc \in [Threads -> PushState \cup PopState]
          /\ \A p \in Producers : pc[p] \in PushState
          /\ \A c \in Consumers : pc[c] \in PopState
          /\ entry \in [Threads -> Entry \cup {NoEntry}]

(* The queue and the pipe, which no lock keeps together, differ exactly by *)
(* the calls between their unlock and their read or write: every byte has  *)
(* its entry and every entry its byte, whatever the interleaving.          *)
Conservation == Len(queue) + Cardinality(At(Consumers, {"read"}))
                  = pipe + Cardinality(At(Producers, {"pushWrite"}))

(* A limited queue never holds more than its limit (mqueue.cpp:53-54),     *)
(* whoever pushes at the same time.                                        *)
LimitRespected == Bounded => Len(queue) <= Limit

(* No wake-up of a consumer is lost although push notifies after unlocking *)
(* and writing (mqueue.cpp:56-60): while a consumer sleeps, each entry in  *)
(* the queue has a producer still to notify or a consumer still to look.   *)
NoLostReadWakeup ==
    At(Consumers, ReadWait) # {} =>
        Len(queue) <= Cardinality(At(Producers, {"pushWrite", "pushNotify"}))
                        + Cardinality(At(Consumers, ReadLock))

(* No wake-up of a producer is lost although pop notifies after unlocking  *)
(* and reading (mqueue.cpp:41-46): while a producer sleeps, each free      *)
(* place has a consumer still to notify or a producer still to look.       *)
NoLostWriteWakeup ==
    At(Producers, WriteWait) # {} =>
        Limit - Len(queue) <= Cardinality(At(Consumers, {"read", "popNotify"}))
                                + Cardinality(At(Producers, {"pushLock"}))

(* The blocking read and write after the unlock cannot strand their        *)
(* callers: a reader has a byte or a writer about to write one, a writer   *)
(* facing a full pipe has an entry or a reader that will empty it.         *)
NeverStranded ==
    /\ At(Consumers, {"read"}) # {} => pipe > 0 \/ At(Producers, {"pushWrite"}) # {}
    /\ At(Producers, {"pushWrite"}) # {} /\ pipe = PipeCapacity =>
         queue # <<>> \/ At(Consumers, {"read"}) # {}

(* A limit that leaves the pipe room for the calls in progress keeps push  *)
(* from ever blocking in its write (mqueue.cpp:59).                        *)
WriteNeverBlocks ==
    Bounded /\ PipeCapacity >= Limit + Cardinality(Consumers) =>
        (At(Producers, {"pushWrite"}) # {} => pipe < PipeCapacity)

(* The only consumer, when poll() told it that the pipe is readable, finds *)
(* an entry: its pop never waits, so the loop that also serves the socket  *)
(* is never held up there (qreceiver.cpp:180-182, 296).                    *)
PolledPopNeverWaits ==
    \A c \in Pollers : Consumers = {c} => pc[c] \notin ReadWait

(* Every push on a queue without limit, as the proxy's are (main.cpp:13),  *)
(* returns although the pipe fills up, as long as the consumers come back. *)
PushReturns == \A p \in Producers : pc[p] # "idle" ~> pc[p] = "idle"

(* The queue is a FIFO channel: order kept, no entry lost or delivered     *)
(* twice, no nullopt while there is an entry, and, as consumers keep       *)
(* asking, an entry that is there is taken.                                *)
Channel == INSTANCE FifoChannel WITH
             Takers <- Consumers, buffer <- queue,
             taken <- [c \in Consumers |-> entry[c]]
ImplementsChannel == Channel!SafeSpec
ImplementsFairChannel == Channel!Spec
=============================================================================
