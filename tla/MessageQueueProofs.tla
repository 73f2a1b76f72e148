------------------------- MODULE MessageQueueProofs -------------------------
(***************************************************************************)
(* Proofs about MessageQueue, for any finite sets of producers and         *)
(* consumers, any limit and any capacity of the pipe.                      *)
(***************************************************************************)
EXTENDS MessageQueue, FiniteSetTheorems, TLAPS

Bit(b) == IF b THEN 1 ELSE 0

(* When one thread t of T moves and the others stay, the number of threads *)
(* of T at the places L changes by what t contributes before and after.    *)
LEMMA CountMove ==
  ASSUME NEW T, IsFiniteSet(T), NEW t \in T, NEW L,
         \A u \in T \ {t} : pc'[u] = pc[u]
  PROVE  /\ Cardinality(At(T, L)) \in Nat
         /\ Cardinality(At(T, L)') \in Nat
         /\ Cardinality(At(T, L)')
              = Cardinality(At(T, L)) + Bit(pc'[t] \in L) - Bit(pc[t] \in L)
<1> DEFINE F == At(T, L)
           G == At(T, L)'
<1>1. IsFiniteSet(F) /\ IsFiniteSet(G)
  <2>1. F \in SUBSET T /\ G \in SUBSET T
    BY DEF At
  <2> QED BY <2>1, FS_Subset
<1>2. Cardinality(F) \in Nat /\ Cardinality(G) \in Nat
  BY <1>1, FS_CardinalityType
<1>3. CASE (pc[t] \in L) = (pc'[t] \in L)
  <2>1. F = G
    BY <1>3 DEF At
  <2> QED BY <1>2, <1>3, <2>1 DEF Bit
<1>4. CASE pc[t] \notin L /\ pc'[t] \in L
  <2>1. G = F \cup {t} /\ t \notin F
    BY <1>4 DEF At
  <2>2. Cardinality(G) = Cardinality(F) + 1
    BY <1>1, <2>1, FS_AddElement
  <2> QED BY <1>2, <1>4, <2>2 DEF Bit
<1>5. CASE pc[t] \in L /\ pc'[t] \notin L
  <2>1. F = G \cup {t} /\ t \notin G
    BY <1>5 DEF At
  <2>2. Cardinality(F) = Cardinality(G) + 1
    BY <1>1, <2>1, FS_AddElement
  <2> QED BY <1>2, <1>5, <2>2 DEF Bit
<1> QED BY <1>3, <1>4, <1>5

NP(L) == Cardinality(At(Producers, L))
NC(L) == Cardinality(At(Consumers, L))

(* The counts of a notification that wakes a waiter: a producer and a      *)
(* consumer move at once.                                                  *)
LEMMA BothMove ==
  ASSUME TypeOK, NEW p \in Producers, NEW c \in Consumers, NEW L,
         \A u \in Producers \ {p} : pc'[u] = pc[u],
         \A u \in Consumers \ {c} : pc'[u] = pc[u]
  PROVE  /\ NC(L)' = NC(L) + Bit(pc'[c] \in L) - Bit(pc[c] \in L)
         /\ NP(L)' = NP(L) + Bit(pc'[p] \in L) - Bit(pc[p] \in L)
<1>1. NP(L)' = NP(L) + Bit(pc'[p] \in L) - Bit(pc[p] \in L)
  BY ThreadsAssumption, CountMove DEF NP
<1>2. NC(L)' = NC(L) + Bit(pc'[c] \in L) - Bit(pc[c] \in L)
  BY ThreadsAssumption, CountMove DEF NC
<1> QED BY <1>1, <1>2
-----------------------------------------------------------------------------
(* What a producer is about to enqueue is an entry.                        *)
ArgumentHeld == \A p \in Producers :
                  pc[p] \in {"pushLock", "pushWait"} => entry[p] \in Entry

TypeInv == TypeOK /\ ArgumentHeld

(* The type invariant holds in the initial state.                          *)
LEMMA TypeInit == Init => TypeInv
  BY PipeAssumption, ThreadsAssumption
  DEF Init, TypeInv, TypeOK, ArgumentHeld, Threads, PushState, PopState

(* Every step of a producer or a consumer keeps the type invariant.        *)
LEMMA TypeStep == TypeInv /\ [Next]_vars => TypeInv'
<1> SUFFICES ASSUME TypeInv, [Next]_vars PROVE TypeInv'
  OBVIOUS
<1> USE ThreadsAssumption, PipeAssumption
    DEF TypeInv, TypeOK, ArgumentHeld, Threads, PushState, PopState, Goto
<1>1. ASSUME NEW p \in Producers, Push(p) PROVE TypeInv'
  BY <1>1 DEF Push
<1>2. ASSUME NEW p \in Producers, PushEnqueue(p) PROVE TypeInv'
  BY <1>2 DEF PushEnqueue
<1>3. ASSUME NEW p \in Producers, PushBlock(p) PROVE TypeInv'
  BY <1>3 DEF PushBlock
<1>4. ASSUME NEW p \in Producers, PushWrite(p) PROVE TypeInv'
  BY <1>4 DEF PushWrite
<1>5. ASSUME NEW p \in Producers, PushNotify(p) PROVE TypeInv'
  BY <1>5 DEF PushNotify, NotifyAndReturn, At, ReadWait, Relock
<1>6. ASSUME NEW c \in Consumers, Pop(c) PROVE TypeInv'
  BY <1>6 DEF Pop
<1>7. ASSUME NEW c \in Consumers, TryPop(c) PROVE TypeInv'
  BY <1>7 DEF TryPop
<1>8. ASSUME NEW c \in Consumers, PopDequeue(c) PROVE TypeInv'
  BY <1>8 DEF PopDequeue
<1>9. ASSUME NEW c \in Consumers, PopBlock(c) PROVE TypeInv'
  BY <1>9 DEF PopBlock
<1>10. ASSUME NEW c \in Consumers, TryPopTimeout(c) PROVE TypeInv'
  BY <1>10 DEF TryPopTimeout
<1>11. ASSUME NEW c \in Consumers, TryPopEmpty(c) PROVE TypeInv'
  BY <1>11 DEF TryPopEmpty
<1>12. ASSUME NEW c \in Consumers, PopRead(c) PROVE TypeInv'
  BY <1>12 DEF PopRead
<1>13. ASSUME NEW c \in Consumers, PopNotify(c) PROVE TypeInv'
  BY <1>13 DEF PopNotify, NotifyAndReturn, At, WriteWait, Relock
<1>14. ASSUME NEW t \in Threads, SpuriousWakeup(t) PROVE TypeInv'
  BY <1>14 DEF SpuriousWakeup, ReadWait, WriteWait, Relock
<1>15. CASE UNCHANGED vars
  BY <1>15 DEF vars
<1> QED BY <1>1, <1>2, <1>3, <1>4, <1>5, <1>6, <1>7, <1>8, <1>9, <1>10, <1>11,
           <1>12, <1>13, <1>14, <1>15 DEF Next, PushStep, PopStep

(* The type invariant holds always.                                        *)
LEMMA TypeInvariant == Spec => []TypeInv
  BY TypeInit, TypeStep, PTL DEF Spec

(* The variables keep their types.                                         *)
THEOREM TypeCorrect == Spec => []TypeOK
<1>1. TypeInv => TypeOK
  BY DEF TypeInv
<1> QED BY <1>1, TypeInvariant, PTL
-----------------------------------------------------------------------------
(* The numbers of threads that the invariants relate.                      *)
Writing    == NP({"pushWrite"})
Announcing == NP({"pushWrite", "pushNotify"})
Retrying   == NP({"pushLock"})
Reading    == NC({"read"})
Looking    == NC(ReadLock)
Freeing    == NC({"read", "popNotify"})

ReadSleep  == At(Consumers, ReadWait) # {}
WriteSleep == At(Producers, WriteWait) # {}

(* The numbers of threads are natural numbers.                             *)
LEMMA CountsAreNaturals ==
  ASSUME TypeOK
  PROVE  /\ Writing \in Nat /\ Announcing \in Nat /\ Retrying \in Nat
         /\ Reading \in Nat /\ Looking \in Nat /\ Freeing \in Nat
<1>1. \A L : At(Producers, L) \in SUBSET Producers /\ At(Consumers, L) \in SUBSET Consumers
  BY DEF At
<1>2. \A L : NP(L) \in Nat /\ NC(L) \in Nat
  BY <1>1, ThreadsAssumption, FS_Subset, FS_CardinalityType DEF NP, NC
<1> QED BY <1>2 DEF Writing, Announcing, Retrying, Reading, Looking, Freeing

(* How the counts change in a step in which only c, or only p, moves.      *)
ConsumerDelta(c) ==
    /\ Writing' = Writing /\ Announcing' = Announcing /\ Retrying' = Retrying
    /\ WriteSleep' = WriteSleep
    /\ Reading' = Reading + Bit(pc'[c] \in {"read"}) - Bit(pc[c] \in {"read"})
    /\ Looking' = Looking + Bit(pc'[c] \in ReadLock) - Bit(pc[c] \in ReadLock)
    /\ Freeing' = Freeing + Bit(pc'[c] \in {"read", "popNotify"})
                          - Bit(pc[c] \in {"read", "popNotify"})
    /\ Reading' \in Nat /\ Looking' \in Nat /\ Freeing' \in Nat
    /\ pc'[c] \notin ReadWait => (ReadSleep' => ReadSleep)

ProducerDelta(p) ==
    /\ Reading' = Reading /\ Looking' = Looking /\ Freeing' = Freeing
    /\ ReadSleep' = ReadSleep
    /\ Writing' = Writing + Bit(pc'[p] \in {"pushWrite"}) - Bit(pc[p] \in {"pushWrite"})
    /\ Announcing' = Announcing + Bit(pc'[p] \in {"pushWrite", "pushNotify"})
                                - Bit(pc[p] \in {"pushWrite", "pushNotify"})
    /\ Retrying' = Retrying + Bit(pc'[p] \in {"pushLock"}) - Bit(pc[p] \in {"pushLock"})
    /\ Writing' \in Nat /\ Announcing' \in Nat /\ Retrying' \in Nat
    /\ pc'[p] \notin WriteWait => (WriteSleep' => WriteSleep)

(* A step that moves one consumer changes the counts of consumers by that  *)
(* one alone.                                                              *)
LEMMA ConsumerCounts ==
  ASSUME TypeOK, NEW c \in Consumers, NEW to, pc' = [pc EXCEPT ![c] = to]
  PROVE  pc'[c] = to /\ ConsumerDelta(c)
<1>1. /\ pc'[c] = to
      /\ \A u \in Consumers \ {c} : pc'[u] = pc[u]
      /\ \A u \in Producers : pc'[u] = pc[u]
  BY ThreadsAssumption DEF TypeOK, Threads
<1>2. \A L : NC(L)' = NC(L) + Bit(pc'[c] \in L) - Bit(pc[c] \in L)
  BY <1>1, ThreadsAssumption, CountMove DEF NC
<1>3. \A L : At(Producers, L)' = At(Producers, L)
  BY <1>1 DEF At
<1>4. \A L : NP(L)' = NP(L)
  BY <1>3 DEF NP
<1>5. Writing' = Writing
  BY <1>4 DEF Writing
<1>6. Announcing' = Announcing
  BY <1>4 DEF Announcing
<1>7. Retrying' = Retrying
  BY <1>4 DEF Retrying
<1>8. WriteSleep' = WriteSleep
  BY <1>3 DEF WriteSleep, WriteWait
<1>9. Reading' = Reading + Bit(pc'[c] \in {"read"}) - Bit(pc[c] \in {"read"})
  BY <1>2 DEF Reading
<1>10. Looking' = Looking + Bit(pc'[c] \in ReadLock) - Bit(pc[c] \in ReadLock)
  BY <1>2 DEF Looking
<1>11. Freeing' = Freeing + Bit(pc'[c] \in {"read", "popNotify"})
                         - Bit(pc[c] \in {"read", "popNotify"})
  BY <1>2 DEF Freeing
<1>12. Reading' \in Nat /\ Looking' \in Nat /\ Freeing' \in Nat
  <2>1. \A L : NC(L)' \in Nat
    BY <1>1, ThreadsAssumption, CountMove DEF NC
  <2> QED BY <2>1 DEF Reading, Looking, Freeing
<1>13. pc'[c] \notin ReadWait => (ReadSleep' => ReadSleep)
  BY <1>1 DEF At, ReadSleep
<1> QED BY <1>1, <1>5, <1>6, <1>7, <1>8, <1>9, <1>10, <1>11, <1>12, <1>13 DEF ConsumerDelta

(* A step that moves one producer changes the counts of producers by that  *)
(* one alone.                                                              *)
LEMMA ProducerCounts ==
  ASSUME TypeOK, NEW p \in Producers, NEW to, pc' = [pc EXCEPT ![p] = to]
  PROVE  pc'[p] = to /\ ProducerDelta(p)
<1>1. /\ pc'[p] = to
      /\ \A u \in Producers \ {p} : pc'[u] = pc[u]
      /\ \A u \in Consumers : pc'[u] = pc[u]
  BY ThreadsAssumption DEF TypeOK, Threads
<1>2. \A L : NP(L)' = NP(L) + Bit(pc'[p] \in L) - Bit(pc[p] \in L)
  BY <1>1, ThreadsAssumption, CountMove DEF NP
<1>3. \A L : At(Consumers, L)' = At(Consumers, L)
  BY <1>1 DEF At
<1>4. \A L : NC(L)' = NC(L)
  BY <1>3 DEF NC
<1>5. Reading' = Reading
  BY <1>4 DEF Reading
<1>6. Looking' = Looking
  BY <1>4 DEF Looking, ReadLock
<1>7. Freeing' = Freeing
  BY <1>4 DEF Freeing
<1>8. ReadSleep' = ReadSleep
  BY <1>3 DEF ReadSleep, ReadWait
<1>9. Writing' = Writing + Bit(pc'[p] \in {"pushWrite"}) - Bit(pc[p] \in {"pushWrite"})
  BY <1>2 DEF Writing
<1>10. Announcing' = Announcing + Bit(pc'[p] \in {"pushWrite", "pushNotify"})
                               - Bit(pc[p] \in {"pushWrite", "pushNotify"})
  BY <1>2 DEF Announcing
<1>11. Retrying' = Retrying + Bit(pc'[p] \in {"pushLock"}) - Bit(pc[p] \in {"pushLock"})
  BY <1>2 DEF Retrying
<1>12. Writing' \in Nat /\ Announcing' \in Nat /\ Retrying' \in Nat
  <2>1. \A L : NP(L)' \in Nat
    BY <1>1, ThreadsAssumption, CountMove DEF NP
  <2> QED BY <2>1 DEF Writing, Announcing, Retrying
<1>13. pc'[p] \notin WriteWait => (WriteSleep' => WriteSleep)
  BY <1>1 DEF At, WriteSleep
<1> QED BY <1>1, <1>5, <1>6, <1>7, <1>8, <1>9, <1>10, <1>11, <1>12, <1>13 DEF ProducerDelta

(* push's notification wakes a consumer.                                   *)
LEMMA ConsumerWoken ==
  ASSUME TypeOK, NEW p \in Producers, NEW c \in Consumers,
         pc[p] = "pushNotify", pc[c] \in ReadWait,
         pc' = [pc EXCEPT ![p] = "idle", ![c] = Relock[pc[c]]]
  PROVE  /\ Writing' = Writing /\ Announcing' = Announcing - 1 /\ Retrying' = Retrying
         /\ Reading' = Reading /\ Looking' = Looking + 1 /\ Freeing' = Freeing
         /\ (WriteSleep' => WriteSleep)
<1>1. /\ pc'[p] = "idle" /\ pc'[c] = Relock[pc[c]]
      /\ \A u \in Producers \ {p} : pc'[u] = pc[u]
      /\ \A u \in Consumers \ {c} : pc'[u] = pc[u]
  BY ThreadsAssumption DEF TypeOK, Threads, WriteWait, Relock
<1>2. \A L : /\ NC(L)' = NC(L) + Bit(pc'[c] \in L) - Bit(pc[c] \in L)
             /\ NP(L)' = NP(L) + Bit(pc'[p] \in L) - Bit(pc[p] \in L)
  BY <1>1, BothMove
<1>3. Writing' = Writing + Bit(pc'[p] \in {"pushWrite"}) - Bit(pc[p] \in {"pushWrite"})
  BY <1>2 DEF Writing
<1>4. Announcing' = Announcing + Bit(pc'[p] \in {"pushWrite", "pushNotify"})
                              - Bit(pc[p] \in {"pushWrite", "pushNotify"})
  BY <1>2 DEF Announcing
<1>5. Retrying' = Retrying + Bit(pc'[p] \in {"pushLock"}) - Bit(pc[p] \in {"pushLock"})
  BY <1>2 DEF Retrying
<1>6. Reading' = Reading + Bit(pc'[c] \in {"read"}) - Bit(pc[c] \in {"read"})
  BY <1>2 DEF Reading
<1>7. Looking' = Looking + Bit(pc'[c] \in ReadLock) - Bit(pc[c] \in ReadLock)
  BY <1>2 DEF Looking
<1>8. Freeing' = Freeing + Bit(pc'[c] \in {"read", "popNotify"})
                        - Bit(pc[c] \in {"read", "popNotify"})
  BY <1>2 DEF Freeing
<1>9. pc[c] \in {"popWait", "tryWait"} /\ pc'[c] \in {"popLock", "tryLock"}
  BY <1>1 DEF ReadWait, Relock
<1>10. WriteSleep' => WriteSleep
  BY <1>1 DEF At, WriteSleep, WriteWait
<1> QED BY <1>1, <1>3, <1>4, <1>5, <1>6, <1>7, <1>8, <1>9, <1>10, CountsAreNaturals
        DEF Bit, ReadLock

(* pop's notification wakes a producer.                                    *)
LEMMA ProducerWoken ==
  ASSUME TypeOK, NEW c \in Consumers, NEW p \in Producers,
         pc[c] = "popNotify", pc[p] \in WriteWait,
         pc' = [pc EXCEPT ![c] = "idle", ![p] = Relock[pc[p]]]
  PROVE  /\ Writing' = Writing /\ Announcing' = Announcing /\ Retrying' = Retrying + 1
         /\ Reading' = Reading /\ Looking' = Looking /\ Freeing' = Freeing - 1
         /\ (ReadSleep' => ReadSleep)
<1>1. /\ pc'[p] = Relock[pc[p]] /\ pc'[c] = "idle"
      /\ \A u \in Producers \ {p} : pc'[u] = pc[u]
      /\ \A u \in Consumers \ {c} : pc'[u] = pc[u]
  BY ThreadsAssumption DEF TypeOK, Threads, WriteWait, Relock
<1>2. \A L : /\ NC(L)' = NC(L) + Bit(pc'[c] \in L) - Bit(pc[c] \in L)
             /\ NP(L)' = NP(L) + Bit(pc'[p] \in L) - Bit(pc[p] \in L)
  BY <1>1, BothMove
<1>3. Writing' = Writing + Bit(pc'[p] \in {"pushWrite"}) - Bit(pc[p] \in {"pushWrite"})
  BY <1>2 DEF Writing
<1>4. Announcing' = Announcing + Bit(pc'[p] \in {"pushWrite", "pushNotify"})
                              - Bit(pc[p] \in {"pushWrite", "pushNotify"})
  BY <1>2 DEF Announcing
<1>5. Retrying' = Retrying + Bit(pc'[p] \in {"pushLock"}) - Bit(pc[p] \in {"pushLock"})
  BY <1>2 DEF Retrying
<1>6. Reading' = Reading + Bit(pc'[c] \in {"read"}) - Bit(pc[c] \in {"read"})
  BY <1>2 DEF Reading
<1>7. Looking' = Looking + Bit(pc'[c] \in ReadLock) - Bit(pc[c] \in ReadLock)
  BY <1>2 DEF Looking
<1>8. Freeing' = Freeing + Bit(pc'[c] \in {"read", "popNotify"})
                        - Bit(pc[c] \in {"read", "popNotify"})
  BY <1>2 DEF Freeing
<1>9. pc[p] = "pushWait" /\ pc'[p] = "pushLock"
  BY <1>1 DEF WriteWait, Relock
<1>10. ReadSleep' => ReadSleep
  BY <1>1 DEF At, ReadSleep, ReadWait
<1> QED BY <1>1, <1>3, <1>4, <1>5, <1>6, <1>7, <1>8, <1>9, <1>10, CountsAreNaturals
        DEF Bit, ReadLock
-----------------------------------------------------------------------------
(* The inductive invariant, and the form of it the provers work with.      *)
IInv == TypeInv /\ Conservation /\ LimitRespected /\ NoLostReadWakeup /\ NoLostWriteWakeup

Balance ==
    /\ Len(queue) + Reading = pipe + Writing
    /\ Bounded => Len(queue) <= Limit
    /\ ReadSleep => Len(queue) <= Announcing + Looking
    /\ WriteSleep => Limit - Len(queue) <= Freeing + Retrying

(* Balance is the invariant, said with counts.                             *)
LEMMA BalanceIsInv == IInv <=> TypeInv /\ Balance
  BY DEF IInv, Balance, Conservation, LimitRespected, NoLostReadWakeup, NoLostWriteWakeup,
         Writing, Announcing, Retrying, Reading, Looking, Freeing, NP, NC,
         ReadSleep, WriteSleep

(* The invariant holds in the initial state: nobody is in a call.          *)
LEMMA BalanceInit == Init => Balance
<1> SUFFICES ASSUME Init PROVE Balance
  OBVIOUS
<1>1. \A L : "idle" \notin L => At(Producers, L) = {} /\ At(Consumers, L) = {}
  BY DEF Init, At, Threads
<1>2. \A L : "idle" \notin L => NP(L) = 0 /\ NC(L) = 0
  BY <1>1, FS_EmptySet DEF NP, NC
<1>3. Writing = 0 /\ Reading = 0
  <2>1. "idle" \notin {"pushWrite"} /\ "idle" \notin {"read"}
    OBVIOUS
  <2> QED BY <1>2, <2>1 DEF Writing, Reading
<1>4. ~ReadSleep /\ ~WriteSleep
  BY <1>1 DEF ReadSleep, WriteSleep, ReadWait, WriteWait
<1> QED BY <1>3, <1>4, LimitAssumption DEF Balance, Init, Bounded

(* Every step keeps the invariant: the arithmetic of each action, given    *)
(* how the counts change for the threads that it moves.                    *)
LEMMA BalanceStep == TypeInv /\ Balance /\ [Next]_vars => Balance'
<1> SUFFICES ASSUME TypeInv, Balance, [Next]_vars PROVE Balance'
  OBVIOUS
<1> USE DEF TypeInv
<1>types. TypeOK /\ Len(queue) \in Nat /\ pipe \in Nat /\ Limit \in Int
  BY PipeAssumption, LimitAssumption DEF TypeOK
<1>counts. /\ Writing \in Nat /\ Announcing \in Nat /\ Retrying \in Nat
      /\ Reading \in Nat /\ Looking \in Nat /\ Freeing \in Nat
  BY <1>types, CountsAreNaturals
<1>1. ASSUME NEW p \in Producers, Push(p) PROVE Balance'
  <2>1. /\ pc[p] = "idle" /\ pc' = [pc EXCEPT ![p] = "pushLock"] /\ "pushLock" \in PushState
        /\ UNCHANGED <<queue, pipe>>
    BY <1>1 DEF Push, Goto, PushState
  <2>moved. pc'[p] = "pushLock" /\ ProducerDelta(p)
    BY <1>types, <2>1, ProducerCounts
  <2> QED BY <1>types, <2>1, <2>moved, <1>counts
          DEF Balance, Bounded, Bit, WriteWait, ProducerDelta
<1>2. ASSUME NEW p \in Producers, PushEnqueue(p) PROVE Balance'
  <2>1. /\ pc[p] = "pushLock" /\ pc' = [pc EXCEPT ![p] = "pushWrite"] /\ "pushWrite" \in PushState
        /\ pipe' = pipe
    BY <1>2 DEF PushEnqueue, Goto, PushState
  <2>2. Len(queue') = Len(queue) + 1 /\ (Bounded => Len(queue) < Limit)
    BY <1>2, <2>1 DEF PushEnqueue, HasRoom, TypeOK, ArgumentHeld
  <2>moved. pc'[p] = "pushWrite" /\ ProducerDelta(p)
    BY <1>types, <2>1, <2>2, ProducerCounts
  <2> QED BY <1>types, <1>counts, <2>1, <2>2, <2>moved
          DEF Balance, Bounded, Bit, WriteWait, ProducerDelta
<1>3. ASSUME NEW p \in Producers, PushBlock(p) PROVE Balance'
  <2>1. /\ pc[p] = "pushLock" /\ pc' = [pc EXCEPT ![p] = "pushWait"] /\ "pushWait" \in PushState
        /\ UNCHANGED <<queue, pipe>> /\ Bounded /\ ~ (Len(queue) < Limit)
    BY <1>3 DEF PushBlock, Goto, PushState, HasRoom
  <2>moved. pc'[p] = "pushWait" /\ ProducerDelta(p)
    BY <1>types, <2>1, ProducerCounts
  <2> QED BY <1>types, <2>1, <2>moved, <1>counts
          DEF Balance, Bounded, Bit, ProducerDelta
<1>4. ASSUME NEW p \in Producers, PushWrite(p) PROVE Balance'
  <2>1. /\ pc[p] = "pushWrite" /\ pc' = [pc EXCEPT ![p] = "pushNotify"] /\ "pushNotify" \in PushState
        /\ pipe' = pipe + 1 /\ queue' = queue
    BY <1>4 DEF PushWrite, Goto, PushState
  <2>moved. pc'[p] = "pushNotify" /\ ProducerDelta(p)
    BY <1>types, <2>1, ProducerCounts
  <2> QED BY <1>types, <2>1, <2>moved, <1>counts
          DEF Balance, Bounded, Bit, WriteWait, ProducerDelta
<1>5. ASSUME NEW p \in Producers, PushNotify(p) PROVE Balance'
  <2>1. pc[p] = "pushNotify" /\ UNCHANGED <<queue, pipe>> /\ "idle" \in PushState
    BY <1>5 DEF PushNotify, NotifyAndReturn, PushState
  <2>2. CASE ~ReadSleep
    <3>1. pc' = [pc EXCEPT ![p] = "idle"]
      BY <1>5, <2>2 DEF PushNotify, NotifyAndReturn, ReadSleep
    <3>moved. pc'[p] = "idle" /\ ProducerDelta(p)
      BY <1>types, <2>1, <2>2, <3>1, ProducerCounts
    <3> QED BY <1>types, <2>1, <2>2, <3>1, <3>moved, <1>counts
            DEF Balance, Bounded, Bit, WriteWait, ProducerDelta
  <2>3. CASE ReadSleep
    <3>1. PICK c \in At(Consumers, ReadWait) :
                pc' = [pc EXCEPT ![p] = "idle", ![c] = Relock[pc[c]]]
      BY <1>5, <2>3 DEF PushNotify, NotifyAndReturn, ReadSleep
    <3>2. c \in Consumers /\ pc[c] \in ReadWait
      BY <3>1 DEF At
    <3>3. /\ Writing' = Writing /\ Announcing' = Announcing - 1 /\ Retrying' = Retrying
          /\ Reading' = Reading /\ Looking' = Looking + 1 /\ Freeing' = Freeing
          /\ WriteSleep' => WriteSleep
      BY <1>types, <2>1, <3>1, <3>2, ConsumerWoken
    <3> QED BY <1>types, <1>counts, <2>1, <2>3, <3>3 DEF Balance, Bounded
  <2> QED BY <2>2, <2>3
<1>6. ASSUME NEW c \in Consumers, Pop(c) \/ TryPop(c) PROVE Balance'
  <2>1. PICK to \in {"popLock", "tryLock"} :
          /\ pc[c] = "idle" /\ pc' = [pc EXCEPT ![c] = to] /\ to \in PopState
          /\ UNCHANGED <<queue, pipe>>
    BY <1>6 DEF Pop, TryPop, Goto, PopState
  <2>moved. pc'[c] = to /\ ConsumerDelta(c)
    BY <1>types, <2>1, ConsumerCounts
  <2> QED BY <1>types, <2>1, <2>moved, <1>counts
          DEF Balance, Bounded, Bit, ReadWait, ReadLock, ConsumerDelta
<1>7. ASSUME NEW c \in Consumers, PopDequeue(c) PROVE Balance'
  <2>1. /\ pc[c] \in ReadLock /\ pc' = [pc EXCEPT ![c] = "read"] /\ "read" \in PopState
        /\ pipe' = pipe
    BY <1>7 DEF PopDequeue, PopState
  <2>2. Len(queue') = Len(queue) - 1
    BY <1>7 DEF PopDequeue, TypeOK
  <2>moved. pc'[c] = "read" /\ ConsumerDelta(c)
    BY <1>types, <2>1, <2>2, ConsumerCounts
  <2> QED BY <1>types, <2>1, <2>2, <2>moved, <1>counts
          DEF Balance, Bounded, Bit, ReadWait, ReadLock, ConsumerDelta
<1>8. ASSUME NEW c \in Consumers, PopBlock(c) PROVE Balance'
  <2>1. PICK to \in {"popWait", "tryWait"} :
          /\ pc[c] \in {"popLock", "tryLock"} /\ pc' = [pc EXCEPT ![c] = to] /\ to \in PopState
          /\ UNCHANGED <<queue, pipe>> /\ Len(queue) = 0
    BY <1>8 DEF PopBlock, Goto, PopState
  <2>moved. pc'[c] = to /\ ConsumerDelta(c)
    BY <1>types, <2>1, ConsumerCounts
  <2> QED BY <1>types, <2>1, <2>moved, <1>counts
          DEF Balance, Bounded, Bit, ReadWait, ReadLock, ConsumerDelta
<1>9. ASSUME NEW c \in Consumers, TryPopTimeout(c) PROVE Balance'
  <2>1. /\ pc[c] = "tryWait" /\ pc' = [pc EXCEPT ![c] = "tryLast"] /\ "tryLast" \in PopState
        /\ UNCHANGED <<queue, pipe>>
    BY <1>9 DEF TryPopTimeout, Goto, PopState
  <2>moved. pc'[c] = "tryLast" /\ ConsumerDelta(c)
    BY <1>types, <2>1, ConsumerCounts
  <2> QED BY <1>types, <2>1, <2>moved, <1>counts
          DEF Balance, Bounded, Bit, ReadWait, ReadLock, ConsumerDelta
<1>10. ASSUME NEW c \in Consumers, TryPopEmpty(c) PROVE Balance'
  <2>1. /\ pc[c] = "tryLast" /\ pc' = [pc EXCEPT ![c] = "idle"] /\ "idle" \in PopState
        /\ UNCHANGED <<queue, pipe>> /\ Len(queue) = 0
    BY <1>10 DEF TryPopEmpty, Goto, PopState
  <2>moved. pc'[c] = "idle" /\ ConsumerDelta(c)
    BY <1>types, <2>1, ConsumerCounts
  <2> QED BY <1>types, <2>1, <2>moved, <1>counts
          DEF Balance, Bounded, Bit, ReadWait, ReadLock, ConsumerDelta
<1>11. ASSUME NEW c \in Consumers, PopRead(c) PROVE Balance'
  <2>1. PICK to \in {"popNotify", "idle"} :
          /\ pc[c] = "read" /\ pc' = [pc EXCEPT ![c] = to] /\ to \in PopState
          /\ pipe' = pipe - 1 /\ queue' = queue /\ (to = "idle" => ~Bounded)
    BY <1>11 DEF PopRead, Goto, PopState
  <2>moved. pc'[c] = to /\ ConsumerDelta(c)
    BY <1>types, <2>1, ConsumerCounts
  <2>2. Freeing' >= Freeing \/ ~Bounded
    BY <1>counts, <2>1, <2>moved DEF Bit, ConsumerDelta
  <2> QED BY <1>types, <2>1, <2>2, <2>moved, <1>counts
          DEF Balance, Bounded, Bit, ReadWait, ReadLock, ConsumerDelta
<1>12. ASSUME NEW c \in Consumers, PopNotify(c) PROVE Balance'
  <2>1. pc[c] = "popNotify" /\ UNCHANGED <<queue, pipe>> /\ "idle" \in PopState
    BY <1>12 DEF PopNotify, NotifyAndReturn, PopState
  <2>2. CASE ~WriteSleep
    <3>1. pc' = [pc EXCEPT ![c] = "idle"]
      BY <1>12, <2>2 DEF PopNotify, NotifyAndReturn, WriteSleep
    <3>moved. pc'[c] = "idle" /\ ConsumerDelta(c)
      BY <1>types, <2>1, <2>2, <3>1, ConsumerCounts
    <3> QED BY <1>types, <2>1, <2>2, <3>1, <3>moved, <1>counts
            DEF Balance, Bounded, Bit, ReadWait, ReadLock, ConsumerDelta
  <2>3. CASE WriteSleep
    <3>1. PICK p \in At(Producers, WriteWait) :
                pc' = [pc EXCEPT ![c] = "idle", ![p] = Relock[pc[p]]]
      BY <1>12, <2>3 DEF PopNotify, NotifyAndReturn, WriteSleep
    <3>2. p \in Producers /\ pc[p] \in WriteWait
      BY <3>1 DEF At
    <3>3. /\ Writing' = Writing /\ Announcing' = Announcing /\ Retrying' = Retrying + 1
          /\ Reading' = Reading /\ Looking' = Looking /\ Freeing' = Freeing - 1
          /\ ReadSleep' => ReadSleep
      BY <1>types, <2>1, <3>1, <3>2, ProducerWoken
    <3> QED BY <1>types, <1>counts, <2>1, <2>3, <3>3 DEF Balance, Bounded
  <2> QED BY <2>2, <2>3
<1>13. ASSUME NEW t \in Threads, SpuriousWakeup(t) PROVE Balance'
  <2>1. CASE t \in Producers
    <3>wakes. pc[t] = "pushWait" /\ Relock[pc[t]] = "pushLock"
      BY <1>13, <2>1, <1>types DEF SpuriousWakeup, Relock, ReadWait, WriteWait, PushState, TypeOK
    <3>1. /\ pc[t] = "pushWait" /\ pc' = [pc EXCEPT ![t] = "pushLock"] /\ "pushLock" \in PushState
          /\ UNCHANGED <<queue, pipe>>
      BY <1>13, <3>wakes DEF SpuriousWakeup, PushState
    <3>moved. pc'[t] = "pushLock" /\ ProducerDelta(t)
      BY <1>types, <2>1, <3>1, ProducerCounts
    <3> QED BY <1>types, <2>1, <3>1, <3>moved, <1>counts
            DEF Balance, Bounded, Bit, WriteWait, ProducerDelta
  <2>2. CASE t \in Consumers
    <3>wakes. pc[t] \in ReadWait /\ Relock[pc[t]] \in {"popLock", "tryLock"}
      BY <1>13, <2>2, <1>types DEF SpuriousWakeup, Relock, ReadWait, WriteWait, PopState, TypeOK
    <3>1. PICK to \in {"popLock", "tryLock"} :
            /\ pc[t] \in ReadWait /\ pc' = [pc EXCEPT ![t] = to] /\ to \in PopState
            /\ UNCHANGED <<queue, pipe>>
      BY <1>13, <3>wakes DEF SpuriousWakeup, PopState
    <3>moved. pc'[t] = to /\ ConsumerDelta(t)
      BY <1>types, <2>2, <3>1, ConsumerCounts
    <3> QED BY <1>types, <2>2, <3>1, <3>moved, <1>counts
            DEF Balance, Bounded, Bit, ReadWait, ReadLock, ConsumerDelta
  <2> QED BY <1>13, <2>1, <2>2 DEF Threads
<1>14. CASE UNCHANGED vars
  BY <1>14 DEF vars, Balance, Bounded, Reading, Writing, Announcing, Looking, Freeing,
               Retrying, NP, NC, At,
               ReadSleep, WriteSleep
<1> QED BY <1>1, <1>2, <1>3, <1>4, <1>5, <1>6, <1>7, <1>8, <1>9, <1>10, <1>11,
           <1>12, <1>13, <1>14 DEF Next, PushStep, PopStep

(* The inductive invariant holds always: the queue and the pipe agree up   *)
(* to the calls in progress, the limit is kept, and no sleeper is          *)
(* forgotten (mqueue.cpp:35-79).                                           *)
THEOREM InvariantHolds == Spec => []IInv
<1>1. Init => TypeInv /\ Balance
  BY TypeInit, BalanceInit
<1>2. TypeInv /\ Balance /\ [Next]_vars => (TypeInv /\ Balance)'
  BY TypeStep, BalanceStep
<1>3. TypeInv /\ Balance => IInv
  BY BalanceIsInv
<1> QED BY <1>1, <1>2, <1>3, PTL DEF Spec
-----------------------------------------------------------------------------
(* The queue and the pipe agree up to the calls in progress, for any       *)
(* number of producers and consumers (mqueue.cpp:41-44, 56-59).            *)
THEOREM ConservationHolds == Spec => []Conservation
<1>1. IInv => Conservation
  BY DEF IInv
<1> QED BY <1>1, InvariantHolds, PTL

(* The limit is never exceeded, however many threads push at once.         *)
THEOREM LimitHolds == Spec => []LimitRespected
<1>1. IInv => LimitRespected
  BY DEF IInv
<1> QED BY <1>1, InvariantHolds, PTL

(* No notification meant for a sleeping consumer is lost.                  *)
THEOREM ReadWakeupsHold == Spec => []NoLostReadWakeup
<1>1. IInv => NoLostReadWakeup
  BY DEF IInv
<1> QED BY <1>1, InvariantHolds, PTL

(* Nor is one meant for a producer that waits for room in a limited queue. *)
THEOREM WriteWakeupsHold == Spec => []NoLostWriteWakeup
<1>1. IInv => NoLostWriteWakeup
  BY DEF IInv
<1> QED BY <1>1, InvariantHolds, PTL

(* There is a thread in its read or its write just when the count says so. *)
LEMMA PositiveCounts ==
  /\ At(Consumers, {"read"}) # {} <=> Reading # 0
  /\ At(Producers, {"pushWrite"}) # {} <=> Writing # 0
<1>1. IsFiniteSet(At(Consumers, {"read"})) /\ IsFiniteSet(At(Producers, {"pushWrite"}))
  <2>1. At(Consumers, {"read"}) \in SUBSET Consumers /\ At(Producers, {"pushWrite"}) \in SUBSET Producers
    BY DEF At
  <2> QED BY <2>1, ThreadsAssumption, FS_Subset
<1> QED BY <1>1, FS_EmptySet DEF Reading, Writing, NC, NP

(* A thread in the read or the write that follows the unlock has somebody  *)
(* who will let it go on.                                                  *)
THEOREM NobodyStranded == Spec => []NeverStranded
<1>1. TypeInv /\ Balance => NeverStranded
  <2> SUFFICES ASSUME TypeInv, Balance PROVE NeverStranded
    OBVIOUS
  <2>1. /\ Reading \in Nat /\ Writing \in Nat /\ Len(queue) \in Nat /\ pipe \in Nat
        /\ PipeCapacity \in Nat /\ PipeCapacity # 0
    BY CountsAreNaturals, PipeAssumption DEF TypeInv, TypeOK
  <2>2. Len(queue) + Reading = pipe + Writing
    BY DEF Balance
  <2>3. queue # <<>> <=> Len(queue) # 0
    BY DEF TypeInv, TypeOK
  <2> QED BY <2>1, <2>2, <2>3, PositiveCounts DEF NeverStranded
<1>2. IInv => NeverStranded
  BY <1>1, BalanceIsInv
<1> QED BY <1>2, InvariantHolds, PTL

(* With room in the pipe for the limit and the consumers, push is never    *)
(* held up by the pipe.                                                    *)
THEOREM WritesNeverBlock == Spec => []WriteNeverBlocks
<1>1. TypeInv /\ Balance => WriteNeverBlocks
  <2> SUFFICES ASSUME TypeInv, Balance, Bounded,
                      PipeCapacity >= Limit + Cardinality(Consumers),
                      At(Producers, {"pushWrite"}) # {}
               PROVE  pipe < PipeCapacity
    BY DEF WriteNeverBlocks
  <2>1. /\ Reading \in Nat /\ Writing \in Nat /\ Len(queue) \in Nat /\ pipe \in Nat
        /\ PipeCapacity \in Nat /\ Limit \in Int
    BY CountsAreNaturals, PipeAssumption, LimitAssumption DEF TypeInv, TypeOK
  <2>2. Cardinality(Consumers) \in Nat /\ Reading <= Cardinality(Consumers)
    <3>1. At(Consumers, {"read"}) \in SUBSET Consumers
      BY DEF At
    <3> QED BY <3>1, ThreadsAssumption, FS_Subset, FS_CardinalityType DEF Reading, NC
  <2>3. Len(queue) + Reading = pipe + Writing /\ Len(queue) <= Limit
    BY DEF Balance
  <2>4. Writing # 0
    BY PositiveCounts
  <2> QED BY <2>1, <2>2, <2>3, <2>4
<1>2. IInv => WriteNeverBlocks
  BY <1>1, BalanceIsInv
<1> QED BY <1>2, InvariantHolds, PTL
-----------------------------------------------------------------------------
(* Between the poll() that reports the pipe readable and the pop, the byte *)
(* stays: only the poller itself takes bytes.                              *)
PolledInv == \A c \in Pollers : Consumers = {c} =>
                /\ pc[c] \in {"idle", "popLock", "read", "popNotify"}
                /\ pc[c] = "popLock" => pipe > 0

(* When the only consumer is not in its read, a byte in the pipe means an  *)
(* entry in the queue.                                                     *)
LEMMA PolledEntryThere ==
  ASSUME TypeInv, Balance, NEW c \in Consumers, Consumers = {c}, pc[c] # "read", pipe > 0
  PROVE  queue # <<>>
<1>1. At(Consumers, {"read"}) = {}
  BY DEF At
<1>2. Reading = 0
  BY <1>1, PositiveCounts
<1>3. Len(queue) + Reading = pipe + Writing /\ Writing \in Nat /\ pipe \in Nat /\ Len(queue) \in Nat
  BY CountsAreNaturals, PipeAssumption DEF Balance, TypeInv, TypeOK
<1>4. Len(queue) # 0
  BY <1>2, <1>3
<1> QED BY <1>4

(* Every step keeps the byte that the only consumer was told of.           *)
LEMMA PolledStep == TypeInv /\ Balance /\ PolledInv /\ [Next]_vars => PolledInv'
<1> SUFFICES ASSUME TypeInv, Balance, PolledInv, [Next]_vars,
                    NEW c \in Pollers, Consumers = {c}
             PROVE  /\ pc'[c] \in {"idle", "popLock", "read", "popNotify"}
                    /\ pc'[c] = "popLock" => pipe' > 0
  BY DEF PolledInv
<1>1. /\ c \in Consumers /\ c \notin Producers /\ pc \in [Threads -> PushState \cup PopState]
      /\ pc[c] \in {"idle", "popLock", "read", "popNotify"} /\ (pc[c] = "popLock" => pipe > 0)
      /\ pipe \in Nat
  BY ThreadsAssumption, PipeAssumption DEF PolledInv, TypeInv, TypeOK
<1>2. At(Consumers, ReadWait) = {}
  BY <1>1 DEF At, ReadWait
<1>3. pc[c] = "popLock" => queue # <<>>
  BY <1>1, PolledEntryThere
<1>4. ASSUME NEW p \in Producers, Push(p) \/ PushEnqueue(p) \/ PushBlock(p)
      PROVE  pc'[c] = pc[c] /\ pipe' = pipe
  BY <1>1, <1>4 DEF Push, PushEnqueue, PushBlock, Goto, Threads
<1>5. ASSUME NEW p \in Producers, PushWrite(p) PROVE pc'[c] = pc[c] /\ pipe' = pipe + 1
  BY <1>1, <1>5 DEF PushWrite, Goto, Threads
<1>6. ASSUME NEW p \in Producers, PushNotify(p) PROVE pc'[c] = pc[c] /\ pipe' = pipe
  BY <1>1, <1>2, <1>6 DEF PushNotify, NotifyAndReturn, Threads
<1>7. CASE Pop(c)
  BY <1>1, <1>7 DEF Pop, Goto, Threads
<1>8. CASE TryPop(c)
  BY <1>8 DEF TryPop
<1>9. CASE PopDequeue(c)
  BY <1>1, <1>9 DEF PopDequeue, Threads
<1>10. CASE PopBlock(c)
  BY <1>1, <1>3, <1>10 DEF PopBlock, Goto
<1>11. CASE TryPopTimeout(c) \/ TryPopEmpty(c)
  BY <1>1, <1>11 DEF TryPopTimeout, TryPopEmpty, Goto
<1>12. CASE PopRead(c)
  BY <1>1, <1>12 DEF PopRead, Goto, Threads
<1>13. CASE PopNotify(c)
  <2>1. c \notin At(Producers, WriteWait)
    BY <1>1 DEF At
  <2>2. pc'[c] = "idle"
    BY <1>1, <1>13, <2>1 DEF PopNotify, NotifyAndReturn, Threads
  <2> QED BY <2>2
<1>14. ASSUME NEW t \in Threads, SpuriousWakeup(t) PROVE pc'[c] = pc[c] /\ pipe' = pipe
  BY <1>1, <1>14 DEF SpuriousWakeup, ReadWait, WriteWait
<1>15. CASE UNCHANGED vars
  BY <1>1, <1>15 DEF vars
<1>16. CASE Next
  <2>1. CASE \E p \in Producers : Push(p) \/ PushStep(p)
    BY <1>1, <1>4, <1>5, <1>6, <2>1 DEF PushStep
  <2>2. CASE \E d \in Consumers : Pop(d) \/ TryPop(d) \/ PopStep(d)
    BY <1>7, <1>8, <1>9, <1>10, <1>11, <1>12, <1>13, <2>2 DEF PopStep
  <2>3. CASE \E t \in Threads : SpuriousWakeup(t)
    BY <1>1, <1>14, <2>3
  <2> QED BY <1>16, <2>1, <2>2, <2>3 DEF Next
<1> QED BY <1>15, <1>16

(* The thread that pops only what poll() announced never waits in pop.     *)
THEOREM PolledPopHolds == Spec => []PolledPopNeverWaits
<1>1. Init => PolledInv
  BY ThreadsAssumption DEF Init, PolledInv, Threads
<1>2. IInv /\ PolledInv /\ [Next]_vars => PolledInv'
  BY PolledStep, BalanceIsInv
<1>3. PolledInv => PolledPopNeverWaits
  BY DEF PolledInv, PolledPopNeverWaits, ReadWait
<1> QED BY <1>1, <1>2, <1>3, InvariantHolds, PTL DEF Spec
-----------------------------------------------------------------------------
(* Every step of the queue is a step of the channel, or leaves it alone.   *)
LEMMA ChannelStep == TypeInv /\ [Next]_vars => [Channel!Next]_(Channel!vars)
<1> SUFFICES ASSUME TypeInv, [Next]_vars PROVE [Channel!Next]_(Channel!vars)
  OBVIOUS
<1> USE ThreadsAssumption DEF Channel!vars
<1>1. \A p \in Producers : p \notin Consumers
  OBVIOUS
<1>2. entry \in [Threads -> Entry \cup {NoEntry}]
  BY DEF TypeInv, TypeOK
<1>3. ASSUME NEW p \in Producers, Push(p) PROVE UNCHANGED Channel!vars
  BY <1>1, <1>2, <1>3 DEF Push, Threads
<1>4. ASSUME NEW p \in Producers, PushEnqueue(p) PROVE Channel!Accept
  BY <1>4 DEF PushEnqueue, Channel!Accept, TypeInv, ArgumentHeld, Goto
<1>5. ASSUME NEW p \in Producers, PushBlock(p) \/ PushWrite(p) \/ PushNotify(p)
      PROVE  UNCHANGED Channel!vars
  BY <1>5 DEF PushBlock, PushWrite, PushNotify, NotifyAndReturn
<1>6. ASSUME NEW c \in Consumers, PopDequeue(c) PROVE Channel!Take(c)
  BY <1>2, <1>6 DEF PopDequeue, Channel!Take, Threads
<1>7. ASSUME NEW c \in Consumers, TryPopEmpty(c) PROVE Channel!GiveUp(c)
  BY <1>2, <1>7 DEF TryPopEmpty, Channel!GiveUp, Threads
<1>8. ASSUME NEW c \in Consumers,
             Pop(c) \/ TryPop(c) \/ PopBlock(c) \/ TryPopTimeout(c) \/ PopRead(c) \/ PopNotify(c)
      PROVE  UNCHANGED Channel!vars
  BY <1>8 DEF Pop, TryPop, PopBlock, TryPopTimeout, PopRead, PopNotify, NotifyAndReturn
<1>9. ASSUME NEW t \in Threads, SpuriousWakeup(t) PROVE UNCHANGED Channel!vars
  BY <1>9 DEF SpuriousWakeup
<1>10. CASE UNCHANGED vars
  BY <1>10 DEF vars
<1> QED BY <1>3, <1>4, <1>5, <1>6, <1>7, <1>8, <1>9, <1>10
        DEF Next, PushStep, PopStep, Channel!Next

(* Every behaviour of the queue is one of the FIFO channel: no entry is    *)
(* lost, duplicated or overtaken (mqueue.cpp:39-40, 55, 70-71).            *)
THEOREM RefinesChannel == Spec => ImplementsChannel
<1>1. Init => Channel!Init
  BY DEF Init, Channel!Init, Threads
<1> QED BY <1>1, ChannelStep, TypeInvariant, PTL DEF Spec, ImplementsChannel, Channel!SafeSpec
=============================================================================
