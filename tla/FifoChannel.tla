---------------------------- MODULE FifoChannel ----------------------------
(***************************************************************************)
(* What the two threads of the DNS proxy rely on when they share a         *)
(* MessageQueue: entries come out in the order in which they went in, each *)
(* one exactly once, and while there is an entry to take and somebody asks *)
(* for one, an entry is taken.  Nothing is said of mutexes, condition      *)
(* variables, the notification pipe or time-outs: those are the business   *)
(* of MessageQueue, which implements this specification.                   *)
(***************************************************************************)
EXTENDS Sequences

CONSTANTS Takers,  \* the threads that take entries
          Entry,   \* the entries
          NoEntry  \* a taker that has taken nothing, or whose try_pop gave up

VARIABLES buffer,  \* accepted and not yet taken, oldest first
          taken    \* [Takers -> Entry \cup {NoEntry}]: what each taker took last

vars == <<buffer, taken>>

Init == buffer = <<>> /\ taken = [t \in Takers |-> NoEntry]

Accept == \E e \in Entry : buffer' = Append(buffer, e) /\ UNCHANGED taken

Take(t) == /\ buffer # <<>>
           /\ taken' = [taken EXCEPT ![t] = Head(buffer)]
           /\ buffer' = Tail(buffer)

(* try_pop gives up, which it may do only when there is nothing to take.   *)
GiveUp(t) == /\ buffer = <<>>
             /\ taken' = [taken EXCEPT ![t] = NoEntry]
             /\ UNCHANGED buffer

Next == Accept \/ \E t \in Takers : Take(t) \/ GiveUp(t)

SafeSpec == Init /\ [][Next]_vars

Spec == SafeSpec /\ WF_vars(\E t \in Takers : Take(t))
=============================================================================
