---------------------------- MODULE QueryRelay -----------------------------
(***************************************************************************)
(* What the proxy promises its clients: queries are answered in the order  *)
(* in which they came, each at most once, although some are never          *)
(* answered, and a response goes to the client that asked.  The last part  *)
(* may lapse, but only once a query waits for its response while IdCount   *)
(* later ones have come.  Local ids, threads, queues and pipes are how     *)
(* QueryPipeline keeps the promise.                                        *)
(***************************************************************************)
EXTENDS Naturals, Sequences

CONSTANTS Clients,     \* return addresses
          MaxQueries,  \* bound: queries the clients send
          IdCount      \* queries that may be told apart at a time

VARIABLES asker,    \* the clients that asked, in order of arrival
          replies,  \* per query, the clients its response was sent to
          exact     \* responses go to the client that asked

vars == <<asker, replies, exact>>

Queries == 1 .. MaxQueries

Init == asker = <<>> /\ replies = [q \in Queries |-> <<>>] /\ exact = TRUE

Ask(c) == /\ Len(asker) < MaxQueries
          /\ asker' = Append(asker, c)
          /\ UNCHANGED <<replies, exact>>

Overdue(q) == replies[q] = <<>> /\ q + IdCount <= Len(asker)

Lapse == /\ exact
         /\ \E q \in Queries : Overdue(q)
         /\ exact' = FALSE
         /\ UNCHANGED <<asker, replies>>

(* The response to q goes to the client of r.                              *)
Reply(q, r) == /\ {q, r} \subseteq DOMAIN asker
               /\ exact => r = q
               /\ \A p \in q .. MaxQueries : replies[p] = <<>>
               /\ replies' = [replies EXCEPT ![q] = <<asker[r]>>]
               /\ UNCHANGED <<asker, exact>>

Next == (\E c \in Clients : Ask(c)) \/ Lapse \/ (\E q, r \in Queries : Reply(q, r))

Spec == Init /\ [][Next]_vars
=============================================================================
