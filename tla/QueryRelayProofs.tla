-------------------------- MODULE QueryRelayProofs --------------------------
(***************************************************************************)
(* Proofs that QueryPipeline keeps what QueryRelay promises, for any       *)
(* clients and kinds of queries, any number of queries and ids, and any    *)
(* capacity of the pipes.                                                  *)
(***************************************************************************)
EXTENDS QueryPipelineProofs, FiniteSetTheorems, SequenceTheorems

(* The query a stopped or failed forwarder has dropped, if any: its entry  *)
(* in the map stays.                                                       *)
Drops == {<<>>} \cup {<<e>> : e \in Entries}
Taken(lost) == IF forwarder.pc \in {"read", "resolve"} THEN <<forwarder.entry>> ELSE lost
Bounded(lost) ==
    /\ Load <= PipeCapacity + Allowance - Len(lost)
    /\ lost # <<>> => /\ forwarder.pc \in {"idle", "ended", "failed"}
                      /\ forwarder.pc = "failed" \/ "forwarder" \in shouldStop

(* What is in flight and what was dropped, oldest first.                   *)
Trail(lost) ==
    ((Held(receiver, {"read"}) \o responseQueue.items) \o Taken(lost)) \o forwardQueue.items

(* The queries whose ids are in the map, each with its id: those on the    *)
(* trail, and the managed ones, which nobody takes.                        *)
Keys(s) == {<<s[i].id, s[i].q>> : i \in 1 .. Len(s)}
Owners(t) == Keys(t) \cup Keys(managedQueue.items)

(* The map holds their clients under their ids, which differ.              *)
Holds(O) == /\ DOMAIN queryMap = {p[1] : p \in O}
            /\ \A p \in O : queryMap[p[1]] = asked[p[2]].client
            /\ \A p, r \in O : p[1] = r[1] => p = r

(* How many ids ago an id was given out.  Since a query got its id, a      *)
(* query came for each id given out.                                       *)
Age(id) == IF id <= queryIDPool THEN queryIDPool - id ELSE queryIDPool - id + IdCount
Aged(O) == \A p \in O : p[2] + Age(p[1]) <= Len(asked) - Len(inbox)

(* Without managed queries, the ids on the trail are the last ones given   *)
(* out, in this order.                                                     *)
Consecutive(t) == \A i \in 1 .. Len(t) : Age(t[i].id) = Len(t) - i

Numbered(t) == /\ Holds(Owners(t)) /\ Aged(Owners(t))
               /\ managedQueue.items = <<>> => Consecutive(t)

(* Queries are in the order in which they came, before those to come.      *)
Sorted(s) == /\ \A i, j \in 1 .. Len(s) : i < j => s[i].q < s[j].q
             /\ \A i \in 1 .. Len(s), j \in 1 .. Len(inbox) : s[i].q < inbox[j]

NoReplyFrom(q) == \A r \in Queries : r >= q => replies[r] = <<>>

(* None of the trail, nor any that came later, has had a reply.            *)
InOrder(t) == /\ Sorted(t)
              /\ \A i \in 1 .. Len(t) : /\ t[i].q \in DOMAIN asked /\ NoReplyFrom(t[i].q)
                                        /\ asked[t[i].q].kind # "managed"

(* The order lasts for ever, the numbering until an id is reused.          *)
Ledger(t) == InOrder(t) /\ (~reused => Numbered(t))

(* What is left in the socket, what nobody takes, and what the map can     *)
(* hold in any case.                                                       *)
InboxOK == /\ \A j \in 1 .. Len(inbox) : /\ inbox[j] = Len(asked) - Len(inbox) + j
                                        /\ NoReplyFrom(inbox[j])
           /\ NoReplyFrom(Len(asked) + 1)
Untaken(s) == /\ Sorted(s)
              /\ \A i \in 1 .. Len(s) : /\ s[i].q \in DOMAIN asked /\ replies[s[i].q] = <<>>
                                        /\ asked[s[i].q].kind = "managed"
MapOfClients == \A id \in DOMAIN queryMap : \E r \in DOMAIN asked : queryMap[id] = asked[r].client

Receipts == InboxOK /\ Untaken(managedQueue.items) /\ MapOfClients
-----------------------------------------------------------------------------
LEMMA NextIdIs ==
  ASSUME TypeInv
  PROVE  NextId = IF queryIDPool = IdCount - 1 THEN 0 ELSE queryIDPool + 1
<1>1. queryIDPool \in 0 .. IdCount - 1 /\ IdCount \in Nat \ {0}
  BY TypeParts, IdAssumption DEF TypeInv, Ids
<1>2. ASSUME NEW n \in Nat, NEW m \in Nat \ {0}, n < m PROVE n % m = n
  BY <1>2
<1>3. IdCount % IdCount = 0
  BY <1>1
<1>4. CASE queryIDPool = IdCount - 1
  BY <1>1, <1>3, <1>4 DEF NextId
<1>5. CASE queryIDPool # IdCount - 1
  <2>1. queryIDPool + 1 \in Nat /\ queryIDPool + 1 < IdCount
    BY <1>1, <1>5
  <2>2. (queryIDPool + 1) % IdCount = queryIDPool + 1
    BY <1>1, <1>2, <2>1
  <2> QED BY <1>5, <2>2 DEF NextId
<1> QED BY <1>4, <1>5

LEMMA AgesAreNumbers == ASSUME TypeInv, NEW id \in Ids PROVE Age(id) \in 0 .. IdCount - 1
<1>1. queryIDPool \in 0 .. IdCount - 1 /\ IdCount \in Nat \ {0} /\ id \in 0 .. IdCount - 1
  BY TypeParts, IdAssumption DEF TypeInv, Ids
<1> QED BY <1>1 DEF Age

(* The next id is the one given out longest ago; giving it out makes the   *)
(* others older by one.                                                    *)
LEMMA Aging ==
  ASSUME TypeInv, queryIDPool' = NextId, NEW id \in Ids
  PROVE  /\ id = NextId => Age(id) = IdCount - 1 /\ Age(id)' = 0
         /\ id # NextId => Age(id)' = Age(id) + 1
<1>1. queryIDPool \in 0 .. IdCount - 1 /\ IdCount \in Nat \ {0} /\ id \in 0 .. IdCount - 1
  BY TypeParts, IdAssumption DEF TypeInv, Ids
<1>2. NextId = IF queryIDPool = IdCount - 1 THEN 0 ELSE queryIDPool + 1
  BY NextIdIs
<1>3. queryIDPool' = IF queryIDPool = IdCount - 1 THEN 0 ELSE queryIDPool + 1
  BY <1>2
<1>4. id = NextId => Age(id) = IdCount - 1
  BY <1>1, <1>2 DEF Age
<1>5. id = NextId => Age(id)' = 0
  BY <1>1, <1>2, <1>3 DEF Age
<1>6. id # NextId => Age(id)' = Age(id) + 1
  BY <1>1, <1>2, <1>3 DEF Age
<1> QED BY <1>4, <1>5, <1>6
-----------------------------------------------------------------------------
LEMMA EntriesOnTrail ==
  ASSUME NEW t \in Seq(Entries), NEW i \in 1 .. Len(t)
  PROVE  t[i] \in Entries /\ t[i].id \in Ids /\ t[i].q \in Queries /\ t[i].q \in Nat
<1>1. t[i] \in Entries
  OBVIOUS
<1>2. t[i].id \in Ids /\ t[i].q \in Queries
  BY <1>1 DEF Entries
<1> QED BY <1>1, <1>2, MaxAssumption DEF Queries

(* The keys of a sequence that is changed in place, grows and shrinks.     *)
LEMMA KeysMove ==
  ASSUME NEW t \in Seq(Entries), NEW u \in Seq(Entries), Len(u) = Len(t),
         \A i \in 1 .. Len(t) : u[i].id = t[i].id /\ u[i].q = t[i].q
  PROVE  Keys(u) = Keys(t)
BY DEF Keys

LEMMA KeysAppend ==
  ASSUME NEW t \in Seq(Entries), NEW e \in Entries
  PROVE  Keys(Append(t, e)) = Keys(t) \cup {<<e.id, e.q>>}
<1> DEFINE u == Append(t, e)
<1>1. /\ Len(u) = Len(t) + 1 /\ Len(t) \in Nat /\ u[Len(t) + 1] = e
      /\ \A i \in 1 .. Len(t) : u[i] = t[i]
  OBVIOUS
<1> HIDE DEF u
<1>2. ASSUME NEW i \in 1 .. Len(u) PROVE <<u[i].id, u[i].q>> \in Keys(t) \cup {<<e.id, e.q>>}
  <2>1. CASE i = Len(t) + 1
    BY <1>1, <2>1
  <2>2. CASE i \in 1 .. Len(t)
    BY <1>1, <2>2 DEF Keys
  <2> QED BY <1>1, <2>1, <2>2
<1>3. <<e.id, e.q>> \in Keys(u)
  <2>1. Len(t) + 1 \in 1 .. Len(u)
    BY <1>1
  <2> QED BY <1>1, <2>1 DEF Keys
<1>4. ASSUME NEW i \in 1 .. Len(t) PROVE <<t[i].id, t[i].q>> \in Keys(u)
  <2>1. i \in 1 .. Len(u) /\ u[i] = t[i]
    BY <1>1
  <2> QED BY <2>1 DEF Keys
<1>5. Keys(u) \subseteq Keys(t) \cup {<<e.id, e.q>>}
  BY <1>2 DEF Keys
<1>6. Keys(t) \subseteq Keys(u)
  BY <1>4 DEF Keys
<1>7. Keys(u) = Keys(t) \cup {<<e.id, e.q>>}
  BY <1>3, <1>5, <1>6
<1> QED BY <1>7 DEF u

LEMMA KeysTail ==
  ASSUME NEW t \in Seq(Entries), t # <<>>, \A i, j \in 1 .. Len(t) : i < j => t[i].q < t[j].q
  PROVE  Keys(Tail(t)) = Keys(t) \ {<<t[1].id, t[1].q>>}
<1> DEFINE u == Tail(t)
<1>1. /\ Len(u) = Len(t) - 1 /\ Len(t) \in Nat \ {0}
      /\ \A i \in 1 .. Len(u) : u[i] = t[i + 1] /\ i + 1 \in 1 .. Len(t) /\ 1 < i + 1
      /\ 1 \in 1 .. Len(t)
  OBVIOUS
<1> HIDE DEF u
<1>2. ASSUME NEW i \in 1 .. Len(u)
      PROVE  <<u[i].id, u[i].q>> \in Keys(t) \ {<<t[1].id, t[1].q>>}
  <2>1. t[1].q < t[i + 1].q /\ t[1].q \in Nat
    BY <1>1, EntriesOnTrail
  <2>2. <<t[i + 1].id, t[i + 1].q>> \in Keys(t)
    BY <1>1 DEF Keys
  <2> QED BY <1>1, <2>1, <2>2
<1>3. ASSUME NEW i \in 1 .. Len(t), <<t[i].id, t[i].q>> # <<t[1].id, t[1].q>>
      PROVE  <<t[i].id, t[i].q>> \in Keys(u)
  <2>1. i # 1
    BY <1>3
  <2>2. i - 1 \in 1 .. Len(u) /\ (i - 1) + 1 = i
    BY <1>1, <2>1
  <2>3. u[i - 1] = t[i]
    BY <1>1, <2>2
  <2> QED BY <2>2, <2>3 DEF Keys
<1>4. Keys(u) \subseteq Keys(t) \ {<<t[1].id, t[1].q>>}
  BY <1>2 DEF Keys
<1>5. Keys(t) \ {<<t[1].id, t[1].q>>} \subseteq Keys(u)
  BY <1>3 DEF Keys
<1>6. Keys(u) = Keys(t) \ {<<t[1].id, t[1].q>>}
  BY <1>4, <1>5
<1> QED BY <1>6 DEF u

LEMMA ManagedItems == ASSUME TypeInv PROVE managedQueue \in Queue /\ managedQueue.items \in Seq(Entries)
BY TypeParts DEF TypeInv, QueuesOK, Queue

(* Whoever has an id in the map is a query that has had no reply.          *)
LEMMA OwnersWait ==
  ASSUME TypeInv, Receipts, NEW t \in Seq(Entries), InOrder(t), NEW p \in Owners(t)
  PROVE  /\ p[1] \in Ids /\ p[2] \in Queries /\ p[2] \in Nat /\ p = <<p[1], p[2]>>
         /\ p[2] \in DOMAIN asked /\ replies[p[2]] = <<>>
<1> DEFINE m == managedQueue.items
<1>1. m \in Seq(Entries)
  BY ManagedItems
<1>2. CASE p \in Keys(t)
  <2>1. PICK i \in 1 .. Len(t) : p = <<t[i].id, t[i].q>>
    BY <1>2 DEF Keys
  <2>2. t[i].id \in Ids /\ t[i].q \in Queries /\ t[i].q \in Nat
    BY EntriesOnTrail
  <2>3. t[i].q \in DOMAIN asked /\ NoReplyFrom(t[i].q)
    BY DEF InOrder
  <2>4. replies[t[i].q] = <<>>
    BY <2>2, <2>3 DEF NoReplyFrom
  <2> QED BY <2>1, <2>2, <2>3, <2>4
<1>3. CASE p \in Keys(m)
  <2>0. Untaken(m)
    BY DEF Receipts
  <2> HIDE DEF m
  <2>1. PICK i \in 1 .. Len(m) : p = <<m[i].id, m[i].q>>
    BY <1>3 DEF Keys
  <2>2. m[i].id \in Ids /\ m[i].q \in Queries /\ m[i].q \in Nat
    BY <1>1, EntriesOnTrail
  <2>3. m[i].q \in DOMAIN asked /\ replies[m[i].q] = <<>>
    BY <2>0 DEF Untaken
  <2> QED BY <2>1, <2>2, <2>3
<1> QED BY <1>2, <1>3 DEF Owners
-----------------------------------------------------------------------------
(* What happens to the ledger.  A query moves from place to place:         *)
LEMMA LedgerMove ==
  ASSUME TypeInv, NEW t \in Seq(Entries), NEW u \in Seq(Entries), Ledger(t),
         Len(u) = Len(t), \A i \in 1 .. Len(t) : u[i].id = t[i].id /\ u[i].q = t[i].q,
         UNCHANGED <<asked, inbox, queryIDPool, queryMap, replies, reused, managedQueue.items>>
  PROVE  Ledger(u)'
<1>1. Keys(u) = Keys(t)
  BY KeysMove
<1>2. Owners(u)' = Owners(t)
  BY <1>1 DEF Owners, Keys
<1>3. InOrder(u)'
  BY DEF Ledger, InOrder, Sorted, NoReplyFrom
<1>4. ASSUME Numbered(t) PROVE Numbered(u)'
  <2> DEFINE O == Owners(t)
  <2>1. Holds(O) /\ Aged(O)
    BY <1>4 DEF Numbered
  <2>2. PICK P : P = O
    OBVIOUS
  <2>3. Holds(P)' /\ Aged(P)'
    BY <2>1, <2>2 DEF Holds, Aged, Age
  <2>4. Owners(u)' = P
    BY <1>2, <2>2
  <2>5. Holds(Owners(u))' /\ Aged(Owners(u))'
    BY <2>3, <2>4 DEF Holds, Aged
  <2>6. managedQueue'.items = <<>> => Consecutive(u)'
    BY <1>4 DEF Numbered, Consecutive, Age
  <2> QED BY <2>5, <2>6 DEF Numbered
<1> QED BY <1>3, <1>4 DEF Ledger

LEMMA ReceiptsSame ==
  ASSUME Receipts, UNCHANGED <<asked, inbox, queryMap, replies, managedQueue.items>>
  PROVE  Receipts'
BY DEF Receipts, InboxOK, Untaken, Sorted, MapOfClients, NoReplyFrom

(* a datagram comes in:                                                    *)
LEMMA ArriveFacts ==
  ASSUME TypeInv, NEW c \in Clients, NEW k \in Kinds, Arrive(c, k)
  PROVE  /\ UNCHANGED <<queryIDPool, queryMap, managedQueue, replies, reused>>
         /\ Len(asked) \in Nat /\ Len(asked') = Len(asked) + 1 /\ DOMAIN asked = 1 .. Len(asked)
         /\ DOMAIN asked' = 1 .. Len(asked) + 1
         /\ \A q \in DOMAIN asked : asked'[q] = asked[q]
         /\ Len(inbox) \in Nat /\ Len(inbox') = Len(inbox) + 1
         /\ inbox'[Len(inbox) + 1] = Len(asked) + 1
         /\ \A j \in 1 .. Len(inbox) : inbox'[j] = inbox[j] /\ inbox[j] \in 1 .. Len(asked)
<1>1. asked \in Seq(Requests) /\ inbox \in Seq(1 .. Len(asked))
  BY TypeParts DEF TypeInv
<1>2. /\ asked' = Append(asked, [client |-> c, kind |-> k]) /\ inbox' = Append(inbox, Len(asked) + 1)
      /\ UNCHANGED <<queryIDPool, queryMap, managedQueue, replies, reused>>
  BY DEF Arrive
<1>3. /\ Len(asked) \in Nat /\ Len(asked') = Len(asked) + 1 /\ DOMAIN asked = 1 .. Len(asked)
      /\ DOMAIN asked' = 1 .. Len(asked) + 1
      /\ \A q \in DOMAIN asked : asked'[q] = asked[q]
  BY <1>1, <1>2 DEF Requests
<1>4. /\ Len(inbox) \in Nat /\ Len(inbox') = Len(inbox) + 1 /\ inbox'[Len(inbox) + 1] = Len(asked) + 1
      /\ \A j \in 1 .. Len(inbox) : inbox'[j] = inbox[j] /\ inbox[j] \in 1 .. Len(asked)
  BY <1>1, <1>2
<1> QED BY <1>2, <1>3, <1>4

LEMMA SortedArrive ==
  ASSUME TypeInv, NEW c \in Clients, NEW k \in Kinds, Arrive(c, k),
         NEW s \in Seq(Entries), Sorted(s), \A i \in 1 .. Len(s) : s[i].q \in DOMAIN asked
  PROVE  Sorted(s)'
<1>1. /\ Len(inbox) \in Nat /\ Len(inbox') = Len(inbox) + 1 /\ inbox'[Len(inbox) + 1] = Len(asked) + 1
      /\ \A j \in 1 .. Len(inbox) : inbox'[j] = inbox[j]
      /\ DOMAIN asked = 1 .. Len(asked) /\ Len(asked) \in Nat
  BY ArriveFacts
<1>2. ASSUME NEW i \in 1 .. Len(s), NEW j \in 1 .. Len(inbox') PROVE s[i].q < inbox'[j]
  <2>1. CASE j = Len(inbox) + 1
    BY <1>1, <2>1
  <2>2. CASE j \in 1 .. Len(inbox)
    BY <1>1, <2>2 DEF Sorted
  <2> QED BY <1>1, <2>1, <2>2
<1>3. \A i, j \in 1 .. Len(s) : i < j => s[i].q < s[j].q
  BY DEF Sorted
<1> QED BY <1>2, <1>3 DEF Sorted

LEMMA ReceiptsArrive ==
  ASSUME TypeInv, Receipts, NEW c \in Clients, NEW k \in Kinds, Arrive(c, k)
  PROVE  Receipts'
<1>1. /\ UNCHANGED <<queryMap, managedQueue, replies>>
      /\ Len(asked) \in Nat /\ Len(asked') = Len(asked) + 1 /\ DOMAIN asked = 1 .. Len(asked)
      /\ DOMAIN asked' = 1 .. Len(asked) + 1
      /\ \A q \in DOMAIN asked : asked'[q] = asked[q]
      /\ Len(inbox) \in Nat /\ Len(inbox') = Len(inbox) + 1
      /\ inbox'[Len(inbox) + 1] = Len(asked) + 1
      /\ \A j \in 1 .. Len(inbox) : inbox'[j] = inbox[j] /\ inbox[j] \in 1 .. Len(asked)
  BY ArriveFacts
<1>2. InboxOK'
  <2>1. \A r \in Queries : r >= Len(asked) + 1 => replies'[r] = <<>>
    BY <1>1 DEF Receipts, InboxOK, NoReplyFrom
  <2>2. ASSUME NEW j \in 1 .. Len(inbox')
        PROVE  /\ inbox'[j] = Len(asked') - Len(inbox') + j
               /\ \A r \in Queries : r >= inbox'[j] => replies'[r] = <<>>
    <3>1. CASE j = Len(inbox) + 1
      BY <1>1, <2>1, <3>1
    <3>2. CASE j \in 1 .. Len(inbox)
      <4>1. inbox[j] = Len(asked) - Len(inbox) + j /\ NoReplyFrom(inbox[j])
        BY <3>2 DEF Receipts, InboxOK
      <4> QED BY <1>1, <3>2, <4>1 DEF NoReplyFrom
    <3> QED BY <1>1, <3>1, <3>2
  <2>3. \A r \in Queries : r >= Len(asked') + 1 => replies'[r] = <<>>
    BY <1>1, <2>1, MaxAssumption DEF Queries
  <2> QED BY <2>2, <2>3 DEF InboxOK, NoReplyFrom
<1>3. Untaken(managedQueue.items)'
  <2>1. PICK m \in Seq(Entries) : m = managedQueue.items
    BY ManagedItems
  <2>2. Sorted(m) /\ \A i \in 1 .. Len(m) : /\ m[i].q \in DOMAIN asked /\ replies[m[i].q] = <<>>
                                             /\ asked[m[i].q].kind = "managed"
    BY <2>1 DEF Receipts, Untaken
  <2>3. Sorted(m)'
    BY <2>2, SortedArrive
  <2>4. Untaken(m)'
    BY <1>1, <2>2, <2>3 DEF Untaken
  <2> QED BY <1>1, <2>1, <2>4
<1>4. MapOfClients'
  <2> SUFFICES ASSUME NEW id \in DOMAIN queryMap PROVE \E r \in DOMAIN asked' : queryMap[id] = asked'[r].client
    BY <1>1 DEF MapOfClients
  <2>1. PICK r \in DOMAIN asked : queryMap[id] = asked[r].client
    BY DEF Receipts, MapOfClients
  <2> QED BY <1>1, <2>1
<1> QED BY <1>2, <1>3, <1>4 DEF Receipts

LEMMA LedgerArrive ==
  ASSUME TypeInv, Receipts, NEW t \in Seq(Entries), Ledger(t), NEW c \in Clients, NEW k \in Kinds, Arrive(c, k)
  PROVE  Ledger(t)'
<1>1. /\ UNCHANGED <<queryIDPool, queryMap, managedQueue, replies, reused>>
      /\ Len(asked) \in Nat /\ Len(asked') = Len(asked) + 1 /\ DOMAIN asked = 1 .. Len(asked)
      /\ DOMAIN asked' = 1 .. Len(asked) + 1
      /\ \A q \in DOMAIN asked : asked'[q] = asked[q]
      /\ Len(inbox) \in Nat /\ Len(inbox') = Len(inbox) + 1
  BY ArriveFacts
<1>2. InOrder(t)'
  <2>1. Sorted(t)'
    BY SortedArrive DEF Ledger, InOrder
  <2> QED BY <1>1, <2>1 DEF Ledger, InOrder, NoReplyFrom
<1>3. ASSUME Numbered(t) PROVE Numbered(t)'
  <2>1. PICK O : O = Owners(t)
    OBVIOUS
  <2>2. Owners(t)' = O
    BY <1>1, <2>1 DEF Owners, Keys
  <2>3. \A p \in O : p[2] \in DOMAIN asked
    BY <2>1, OwnersWait DEF Ledger
  <2>4. Holds(O)'
    BY <1>1, <1>3, <2>1, <2>3 DEF Numbered, Holds
  <2>5. Aged(O)'
    BY <1>1, <1>3, <2>1 DEF Numbered, Aged, Age
  <2>6. Holds(Owners(t))' /\ Aged(Owners(t))'
    BY <2>2, <2>4, <2>5 DEF Holds, Aged
  <2>7. managedQueue'.items = <<>> => Consecutive(t)'
    BY <1>1, <1>3 DEF Numbered, Consecutive, Age
  <2> QED BY <2>6, <2>7 DEF Numbered
<1> QED BY <1>1, <1>2, <1>3 DEF Ledger

(* a datagram leaves the socket:                                           *)
LEMMA SkipFacts ==
  ASSUME TypeInv, Receipts, inbox # <<>>, inbox' = Tail(inbox), UNCHANGED asked
  PROVE  /\ Len(inbox) \in Nat \ {0} /\ Len(inbox') = Len(inbox) - 1 /\ Len(asked) \in Nat
         /\ \A j \in 1 .. Len(inbox') : inbox'[j] = inbox[j + 1] /\ j + 1 \in 1 .. Len(inbox)
         /\ \A j \in 1 .. Len(inbox) : inbox[j] \in 1 .. Len(asked)
         /\ Head(inbox) = inbox[1] /\ inbox[1] = Len(asked) - Len(inbox) + 1
         /\ 1 \in 1 .. Len(inbox)
<1>1. inbox \in Seq(1 .. Len(asked)) /\ asked \in Seq(Requests)
  BY TypeParts DEF TypeInv
<1>2. /\ Len(inbox) \in Nat \ {0} /\ Len(inbox') = Len(inbox) - 1 /\ Len(asked) \in Nat
      /\ \A j \in 1 .. Len(inbox') : inbox'[j] = inbox[j + 1] /\ j + 1 \in 1 .. Len(inbox)
      /\ \A j \in 1 .. Len(inbox) : inbox[j] \in 1 .. Len(asked)
      /\ Head(inbox) = inbox[1] /\ 1 \in 1 .. Len(inbox)
  BY <1>1
<1> QED BY <1>2 DEF Receipts, InboxOK

LEMMA InboxSkip ==
  ASSUME TypeInv, Receipts, inbox # <<>>, inbox' = Tail(inbox), UNCHANGED <<asked, replies>>
  PROVE  InboxOK'
<1>1. /\ Len(inbox) \in Nat \ {0} /\ Len(inbox') = Len(inbox) - 1 /\ Len(asked) \in Nat
      /\ \A j \in 1 .. Len(inbox') : inbox'[j] = inbox[j + 1] /\ j + 1 \in 1 .. Len(inbox)
  BY SkipFacts
<1>2. ASSUME NEW j \in 1 .. Len(inbox')
      PROVE  inbox'[j] = Len(asked) - Len(inbox') + j /\ \A r \in Queries : r >= inbox'[j] => replies[r] = <<>>
  <2>1. inbox[j + 1] = Len(asked) - Len(inbox) + (j + 1) /\ NoReplyFrom(inbox[j + 1])
    BY <1>1 DEF Receipts, InboxOK
  <2> QED BY <1>1, <2>1 DEF NoReplyFrom
<1>3. NoReplyFrom(Len(asked) + 1)
  BY DEF Receipts, InboxOK
<1> QED BY <1>2, <1>3 DEF InboxOK, NoReplyFrom

LEMMA SortedSkip ==
  ASSUME TypeInv, Receipts, inbox # <<>>, inbox' = Tail(inbox), UNCHANGED asked,
         NEW s \in Seq(Entries), Sorted(s)
  PROVE  Sorted(s)'
<1>1. \A j \in 1 .. Len(inbox') : inbox'[j] = inbox[j + 1] /\ j + 1 \in 1 .. Len(inbox)
  BY SkipFacts
<1> QED BY <1>1 DEF Sorted

LEMMA SortedTake ==
  ASSUME TypeInv, Receipts, inbox # <<>>, inbox' = Tail(inbox), UNCHANGED asked,
         NEW s \in Seq(Entries), Sorted(s), NEW e \in Entries, e.q = Head(inbox),
         NEW u, u = Append(s, e)
  PROVE  Sorted(u)'
<1>1. /\ Len(inbox) \in Nat \ {0} /\ Len(inbox') = Len(inbox) - 1 /\ Len(asked) \in Nat
      /\ \A j \in 1 .. Len(inbox') : inbox'[j] = inbox[j + 1] /\ j + 1 \in 1 .. Len(inbox)
      /\ e.q = inbox[1] /\ inbox[1] = Len(asked) - Len(inbox) + 1 /\ 1 \in 1 .. Len(inbox)
  BY SkipFacts
<1>2. /\ Len(u) = Len(s) + 1 /\ u[Len(s) + 1] = e /\ Len(s) \in Nat
      /\ \A i \in 1 .. Len(s) : u[i] = s[i]
  OBVIOUS
<1>3. \A i \in 1 .. Len(u) : i = Len(s) + 1 \/ i \in 1 .. Len(s)
  BY <1>2
<1>4. ASSUME NEW i \in 1 .. Len(u), NEW j \in 1 .. Len(u), i < j PROVE u[i].q < u[j].q
  <2>1. i \in 1 .. Len(s)
    BY <1>2, <1>3, <1>4
  <2>2. CASE j = Len(s) + 1
    <3>1. s[i].q < inbox[1]
      BY <1>1, <2>1 DEF Sorted
    <3> QED BY <1>1, <1>2, <2>1, <2>2, <3>1
  <2>3. CASE j \in 1 .. Len(s)
    <3>1. s[i].q < s[j].q
      BY <1>4, <2>1, <2>3 DEF Sorted
    <3> QED BY <1>2, <2>1, <2>3, <3>1
  <2> QED BY <1>3, <2>2, <2>3
<1>5. ASSUME NEW i \in 1 .. Len(u), NEW j \in 1 .. Len(inbox') PROVE u[i].q < inbox'[j]
  <2>1. CASE i = Len(s) + 1
    <3>1. inbox[j + 1] = Len(asked) - Len(inbox) + (j + 1)
      BY <1>1 DEF Receipts, InboxOK
    <3> QED BY <1>1, <1>2, <2>1, <3>1
  <2>2. CASE i \in 1 .. Len(s)
    <3>1. s[i].q < inbox[j + 1]
      BY <1>1, <2>2 DEF Sorted
    <3> QED BY <1>1, <1>2, <2>2, <3>1
  <2> QED BY <1>3, <2>1, <2>2
<1> QED BY <1>4, <1>5 DEF Sorted

LEMMA ReceiptsSkip ==
  ASSUME TypeInv, Receipts, inbox # <<>>, inbox' = Tail(inbox),
         UNCHANGED <<asked, queryMap, replies, managedQueue>>
  PROVE  Receipts'
<1>1. InboxOK'
  BY InboxSkip
<1>2. Untaken(managedQueue.items)'
  <2>1. PICK m \in Seq(Entries) : m = managedQueue.items
    BY ManagedItems
  <2>2. Sorted(m)'
    BY <2>1, SortedSkip DEF Receipts, Untaken
  <2>3. Untaken(m)'
    BY <2>1, <2>2 DEF Receipts, Untaken
  <2> QED BY <2>1, <2>3
<1>3. MapOfClients'
  BY DEF Receipts, MapOfClients
<1> QED BY <1>1, <1>2, <1>3 DEF Receipts

LEMMA LedgerSkip ==
  ASSUME TypeInv, Receipts, NEW t \in Seq(Entries), Ledger(t), inbox # <<>>, inbox' = Tail(inbox),
         UNCHANGED <<asked, queryIDPool, queryMap, replies, reused, managedQueue>>
  PROVE  Ledger(t)'
<1>1. Len(inbox) \in Nat /\ Len(inbox') = Len(inbox) - 1 /\ Len(asked) \in Nat
  BY SkipFacts
<1>2. InOrder(t)'
  <2>1. Sorted(t)'
    BY SortedSkip DEF Ledger, InOrder
  <2> QED BY <2>1 DEF Ledger, InOrder, NoReplyFrom
<1>3. ASSUME Numbered(t) PROVE Numbered(t)'
  <2>1. PICK O : O = Owners(t)
    OBVIOUS
  <2>2. Owners(t)' = O
    BY <2>1 DEF Owners, Keys
  <2>3. \A p \in O : p[2] \in Nat /\ Age(p[1]) \in Nat
    <3> SUFFICES ASSUME NEW p \in O PROVE p[2] \in Nat /\ Age(p[1]) \in Nat
      OBVIOUS
    <3>1. p[2] \in Nat /\ p[1] \in Ids
      BY <2>1, OwnersWait DEF Ledger
    <3>2. Age(p[1]) \in 0 .. IdCount - 1
      BY <3>1, AgesAreNumbers
    <3> QED BY <3>1, <3>2
  <2>4. Holds(O)'
    BY <1>3, <2>1 DEF Numbered, Holds
  <2>5. Aged(O)'
    <3>1. Aged(O)
      BY <1>3, <2>1 DEF Numbered
    <3>2. \A p \in O : p[2] + Age(p[1]) <= Len(asked) - Len(inbox')
      BY <1>1, <2>3, <3>1 DEF Aged
    <3> QED BY <3>2 DEF Aged, Age
  <2>6. Holds(Owners(t))' /\ Aged(Owners(t))'
    BY <2>2, <2>4, <2>5 DEF Holds, Aged
  <2>7. managedQueue'.items = <<>> => Consecutive(t)'
    BY <1>3 DEF Numbered, Consecutive, Age
  <2> QED BY <2>6, <2>7 DEF Numbered
<1> QED BY <1>2, <1>3 DEF Ledger

(* a query gets an id:                                                     *)
LEMMA TakeFacts ==
  ASSUME TypeInv, Receipts, HandleIncomingUDP,
         NEW e, e = [id |-> NextId, q |-> Head(inbox), res |-> "query"]
  PROVE  /\ e \in Entries /\ e.id = NextId /\ e.q = Head(inbox) /\ e.q \in DOMAIN asked
         /\ NextId \in Ids /\ e.q = Len(asked) - Len(inbox) + 1 /\ NoReplyFrom(e.q) /\ replies[e.q] = <<>>
         /\ inbox # <<>> /\ inbox' = Tail(inbox) /\ queryIDPool' = NextId
         /\ queryMap' = Insert(queryMap, NextId, asked[e.q].client)
         /\ UNCHANGED <<asked, replies, responseQueue, forwarder>>
         /\ reused' = (reused \/ NextId \in DOMAIN queryMap)
         /\ asked[e.q].kind = "managed" =>
                managedQueue' = Enqueue(managedQueue, e) /\ UNCHANGED forwardQueue
         /\ asked[e.q].kind # "managed" =>
                forwardQueue' = Enqueue(forwardQueue, e) /\ UNCHANGED managedQueue
<1>1. /\ e \in Entries /\ inbox # <<>> /\ e.q \in DOMAIN asked /\ e.q = Head(inbox) /\ e.id = NextId
  BY NewEntry DEF TypeInv, InHand, HandleIncomingUDP
<1>2. NextId \in Ids
  BY NextIdOK DEF TypeInv
<1>3. /\ inbox' = Tail(inbox) /\ queryIDPool' = NextId
      /\ queryMap' = Insert(queryMap, NextId, asked[e.q].client)
      /\ UNCHANGED <<asked, replies, responseQueue, forwarder>>
      /\ asked[e.q].kind = "managed" =>
             managedQueue' = Enqueue(managedQueue, e) /\ UNCHANGED forwardQueue
      /\ asked[e.q].kind # "managed" =>
             forwardQueue' = Enqueue(forwardQueue, e) /\ UNCHANGED managedQueue
  BY <1>1 DEF HandleIncomingUDP
<1>4. reused' = (reused \/ NextId \in DOMAIN queryMap)
  BY DEF HandleIncomingUDP
<1>5. 1 \in 1 .. Len(inbox) /\ e.q = inbox[1] /\ inbox[1] = Len(asked) - Len(inbox) + 1
  BY <1>1, <1>3, SkipFacts
<1>6. NoReplyFrom(e.q)
  BY <1>5 DEF Receipts, InboxOK
<1>7. e.q \in Queries /\ e.q \in Nat
  BY <1>1, MaxAssumption DEF Entries, Queries
<1>8. replies[e.q] = <<>>
  BY <1>6, <1>7 DEF NoReplyFrom
<1> QED BY <1>1, <1>2, <1>3, <1>4, <1>5, <1>6, <1>8

LEMMA ReceiptsTake ==
  ASSUME TypeInv, Receipts, HandleIncomingUDP
  PROVE  Receipts'
<1>1. PICK e : e = [id |-> NextId, q |-> Head(inbox), res |-> "query"]
  OBVIOUS
<1>2. /\ e \in Entries /\ e.q = Head(inbox) /\ e.q \in DOMAIN asked /\ replies[e.q] = <<>>
      /\ inbox # <<>> /\ inbox' = Tail(inbox)
      /\ queryMap' = Insert(queryMap, NextId, asked[e.q].client)
      /\ UNCHANGED <<asked, replies>>
      /\ asked[e.q].kind = "managed" => managedQueue' = Enqueue(managedQueue, e)
      /\ asked[e.q].kind # "managed" => UNCHANGED managedQueue
  BY <1>1, TakeFacts
<1>3. InboxOK'
  BY <1>2, InboxSkip
<1>4. PICK m \in Seq(Entries) : m = managedQueue.items
  BY ManagedItems
<1>5. Untaken(m)
  BY <1>4 DEF Receipts
<1>6. Untaken(managedQueue.items)'
  <2>1. CASE asked[e.q].kind # "managed"
    <3>1. Sorted(m)'
      BY <1>2, <1>5, SortedSkip DEF Untaken
    <3>2. Untaken(m)'
      BY <1>2, <1>5, <3>1 DEF Untaken
    <3> QED BY <1>2, <1>4, <2>1, <3>2
  <2>2. CASE asked[e.q].kind = "managed"
    <3>1. managedQueue'.items = Append(m, e)
      <4>1. Enqueue(managedQueue, e).items = Append(m, e)
        BY <1>2, <1>4, EnqueueOK, ManagedItems
      <4> QED BY <1>2, <2>2, <4>1
    <3>2. PICK u : u = Append(m, e)
      OBVIOUS
    <3>3. Sorted(u)'
      BY <1>2, <1>5, <3>2, SortedTake DEF Untaken
    <3>4. \A i \in 1 .. Len(u) : u[i] = e \/ \E k \in 1 .. Len(m) : u[i] = m[k]
      <4>1. /\ Len(u) = Len(m) + 1 /\ u[Len(m) + 1] = e /\ Len(m) \in Nat
            /\ \A i \in 1 .. Len(m) : u[i] = m[i]
        BY <1>2, <3>2
      <4> QED BY <4>1
    <3>5. Untaken(u)'
      BY <1>2, <1>5, <2>2, <3>3, <3>4 DEF Untaken
    <3> QED BY <3>1, <3>2, <3>5
  <2> QED BY <2>1, <2>2
<1>7. MapOfClients'
  <2> SUFFICES ASSUME NEW id \in DOMAIN queryMap' PROVE \E r \in DOMAIN asked : queryMap'[id] = asked[r].client
    BY <1>2 DEF MapOfClients
  <2>1. CASE id \in DOMAIN queryMap
    BY <1>2, <2>1 DEF Receipts, MapOfClients, Insert
  <2>2. CASE id \notin DOMAIN queryMap
    BY <1>2, <2>2 DEF Insert
  <2> QED BY <2>1, <2>2
<1> QED BY <1>3, <1>6, <1>7 DEF Receipts

LEMMA NumberedTake ==
  ASSUME TypeInv, Receipts, HandleIncomingUDP, NextId \notin DOMAIN queryMap,
         NEW O, \A p \in O : p[1] \in Ids /\ p[2] \in Nat /\ p[2] \in DOMAIN asked,
         Holds(O), Aged(O),
         NEW k, k = <<NextId, Head(inbox)>>, NEW P, P = O \cup {k}
  PROVE  Holds(P)' /\ Aged(P)' /\ \A p \in O : Age(p[1])' = Age(p[1]) + 1
<1>1. PICK e : e = [id |-> NextId, q |-> Head(inbox), res |-> "query"]
  OBVIOUS
<1>2. /\ e.q = Head(inbox) /\ e.q \in DOMAIN asked /\ NextId \in Ids
      /\ e.q = Len(asked) - Len(inbox) + 1 /\ inbox # <<>> /\ inbox' = Tail(inbox) /\ queryIDPool' = NextId
      /\ queryMap' = Insert(queryMap, NextId, asked[e.q].client)
      /\ UNCHANGED asked
  BY <1>1, TakeFacts
<1>3. Len(inbox) \in Nat \ {0} /\ Len(inbox') = Len(inbox) - 1 /\ Len(asked) \in Nat
  BY <1>2, SkipFacts
<1>4. k[1] = NextId /\ k[2] = e.q
  BY <1>2
<1>5. \A p \in O : p[1] \in DOMAIN queryMap /\ p[1] # NextId
  BY DEF Holds
<1>6. Holds(P)'
  <2>1. /\ DOMAIN queryMap' = DOMAIN queryMap \cup {NextId}
        /\ \A id \in DOMAIN queryMap : queryMap'[id] = queryMap[id]
        /\ queryMap'[NextId] = asked[e.q].client
    BY <1>2 DEF Insert
  <2>2. DOMAIN queryMap' = {p[1] : p \in P}
    BY <1>4, <2>1 DEF Holds
  <2>3. \A p \in P : queryMap'[p[1]] = asked[p[2]].client
    <3>1. \A p \in O : queryMap'[p[1]] = asked[p[2]].client
      BY <1>5, <2>1 DEF Holds
    <3>2. queryMap'[k[1]] = asked[k[2]].client
      BY <1>4, <2>1
    <3> QED BY <3>1, <3>2
  <2>4. ASSUME NEW p \in P, NEW r \in P, p[1] = r[1] PROVE p = r
    <3>1. CASE p \in O /\ r \in O
      BY <2>4, <3>1 DEF Holds
    <3>2. CASE p = k \/ r = k
      <4>1. \A x \in P : x[1] = NextId => x = k
        BY <1>5
      <4> QED BY <1>4, <2>4, <3>2, <4>1
    <3> QED BY <3>1, <3>2
  <2> QED BY <1>2, <2>2, <2>3, <2>4 DEF Holds
<1>7. ASSUME NEW p \in O PROVE Age(p[1])' = Age(p[1]) + 1 /\ Age(p[1]) \in Nat
  <2>1. PICK id \in Ids : id = p[1]
    OBVIOUS
  <2>2. id # NextId
    BY <1>5, <2>1
  <2>3. Age(id)' = Age(id) + 1 /\ Age(id) \in 0 .. IdCount - 1
    BY <1>2, <2>2, Aging, AgesAreNumbers
  <2> QED BY <2>1, <2>3
<1>8. Age(k[1])' = 0
  <2>1. PICK id \in Ids : id = NextId
    BY <1>2
  <2>2. Age(id)' = 0
    BY <1>2, <2>1, Aging
  <2> QED BY <1>4, <2>1, <2>2
<1>9. Aged(P)'
  <2>1. ASSUME NEW p \in O PROVE p[2] + Age(p[1])' <= Len(asked') - Len(inbox')
    <3>1. p[2] + Age(p[1]) <= Len(asked) - Len(inbox) /\ p[2] \in Nat
      BY DEF Aged
    <3> QED BY <1>2, <1>3, <1>7, <3>1
  <2>2. k[2] + Age(k[1])' <= Len(asked') - Len(inbox')
    BY <1>2, <1>3, <1>4, <1>8
  <2> QED BY <2>1, <2>2 DEF Aged
<1> QED BY <1>6, <1>7, <1>9

LEMMA LedgerTake ==
  ASSUME TypeInv, Receipts, NEW t \in Seq(Entries), Ledger(t), HandleIncomingUDP,
         NEW e, e = [id |-> NextId, q |-> Head(inbox), res |-> "query"],
         asked[e.q].kind # "managed",
         NEW u, u = Append(t, e)
  PROVE  u \in Seq(Entries) /\ Ledger(u)'
<1>1. /\ e \in Entries /\ e.id = NextId /\ e.q = Head(inbox) /\ e.q \in DOMAIN asked
      /\ NoReplyFrom(e.q) /\ inbox # <<>> /\ inbox' = Tail(inbox)
      /\ queryIDPool' = NextId /\ UNCHANGED <<asked, replies, managedQueue>>
      /\ reused' = (reused \/ NextId \in DOMAIN queryMap) /\ NextId \in Ids
  BY TakeFacts
<1>2. /\ u \in Seq(Entries) /\ Len(u) = Len(t) + 1 /\ u[Len(t) + 1] = e
      /\ \A i \in 1 .. Len(t) : u[i] = t[i]
      /\ Len(t) \in Nat
  BY <1>1
<1>3. \A i \in 1 .. Len(u) : i = Len(t) + 1 \/ i \in 1 .. Len(t)
  BY <1>2
<1>4. InOrder(u)'
  <2>1. Sorted(u)'
    BY <1>1, SortedTake DEF Ledger, InOrder
  <2>2. ASSUME NEW i \in 1 .. Len(u)
        PROVE  u[i].q \in DOMAIN asked /\ NoReplyFrom(u[i].q) /\ asked[u[i].q].kind # "managed"
    BY <1>1, <1>2, <1>3 DEF Ledger, InOrder
  <2> QED BY <1>1, <2>1, <2>2 DEF InOrder, NoReplyFrom
<1>5. ASSUME ~reused' PROVE Numbered(u)'
  <2>1. ~reused /\ NextId \notin DOMAIN queryMap
    BY <1>1, <1>5
  <2>2. Numbered(t)
    BY <2>1 DEF Ledger
  <2>3. PICK O, k, P : O = Owners(t) /\ k = <<NextId, Head(inbox)>> /\ P = O \cup {k}
    OBVIOUS
  <2>4. \A p \in O : p[1] \in Ids /\ p[2] \in Nat /\ p[2] \in DOMAIN asked
    BY <2>3, OwnersWait DEF Ledger
  <2>5. Holds(P)' /\ Aged(P)' /\ \A p \in O : Age(p[1])' = Age(p[1]) + 1
    BY <2>1, <2>2, <2>3, <2>4, NumberedTake DEF Numbered
  <2>6. Owners(u)' = P
    <3>1. Keys(u) = Keys(t) \cup {k}
      BY <1>1, <2>3, KeysAppend
    <3>2. Keys(u)' = Keys(u) /\ Keys(managedQueue.items)' = Keys(managedQueue.items)
      BY <1>1 DEF Keys
    <3> QED BY <2>3, <3>1, <3>2 DEF Owners
  <2>7. Holds(Owners(u))' /\ Aged(Owners(u))'
    BY <2>5, <2>6 DEF Holds, Aged
  <2>8. ASSUME managedQueue.items = <<>> PROVE Consecutive(u)'
    <3> SUFFICES ASSUME NEW i \in 1 .. Len(u) PROVE (Age(u[i].id))' = Len(u) - i
      BY DEF Consecutive
    <3>1. CASE i = Len(t) + 1
      <4>1. PICK id \in Ids : id = NextId
        BY <1>1
      <4>2. Age(id)' = 0
        BY <1>1, <4>1, Aging
      <4> QED BY <1>1, <1>2, <3>1, <4>1, <4>2
    <3>2. CASE i \in 1 .. Len(t)
      <4>1. PICK id \in Ids : id = t[i].id
        BY <3>2, EntriesOnTrail
      <4>2. Age(id) = Len(t) - i
        BY <2>2, <2>8, <3>2, <4>1 DEF Numbered, Consecutive
      <4>3. <<t[i].id, t[i].q>> \in O
        BY <2>3, <3>2 DEF Owners, Keys
      <4>4. Age(id)' = Age(id) + 1
        BY <2>5, <4>1, <4>3
      <4> QED BY <1>2, <3>2, <4>1, <4>2, <4>4
    <3> QED BY <1>3, <3>1, <3>2
  <2> QED BY <1>1, <2>7, <2>8 DEF Numbered
<1> QED BY <1>2, <1>4, <1>5 DEF Ledger

LEMMA LedgerManaged ==
  ASSUME TypeInv, Receipts, NEW t \in Seq(Entries), Ledger(t), HandleIncomingUDP,
         NEW e, e = [id |-> NextId, q |-> Head(inbox), res |-> "query"],
         asked[e.q].kind = "managed"
  PROVE  Ledger(t)'
<1>1. /\ e \in Entries /\ e.id = NextId /\ e.q = Head(inbox)
      /\ inbox # <<>> /\ inbox' = Tail(inbox)
      /\ UNCHANGED <<asked, replies>> /\ managedQueue' = Enqueue(managedQueue, e)
      /\ reused' = (reused \/ NextId \in DOMAIN queryMap)
  BY TakeFacts
<1>2. PICK m \in Seq(Entries) : m = managedQueue.items
  BY ManagedItems
<1>3. managedQueue'.items = Append(m, e)
  <2>1. Enqueue(managedQueue, e).items = Append(m, e)
    BY <1>1, <1>2, EnqueueOK, ManagedItems
  <2> QED BY <1>1, <2>1
<1>4. InOrder(t)'
  <2>1. Sorted(t)'
    BY <1>1, SortedSkip DEF Ledger, InOrder
  <2> QED BY <1>1, <2>1 DEF Ledger, InOrder, NoReplyFrom
<1>5. ASSUME ~reused' PROVE Numbered(t)'
  <2>1. ~reused /\ NextId \notin DOMAIN queryMap
    BY <1>1, <1>5
  <2>2. Numbered(t)
    BY <2>1 DEF Ledger
  <2>3. PICK O, k, P : O = Owners(t) /\ k = <<NextId, Head(inbox)>> /\ P = O \cup {k}
    OBVIOUS
  <2>4. \A p \in O : p[1] \in Ids /\ p[2] \in Nat /\ p[2] \in DOMAIN asked
    BY <2>3, OwnersWait DEF Ledger
  <2>5. Holds(P)' /\ Aged(P)'
    BY <2>1, <2>2, <2>3, <2>4, NumberedTake DEF Numbered
  <2>6. Owners(t)' = P
    <3>1. Keys(Append(m, e)) = Keys(m) \cup {k}
      BY <1>1, <2>3, KeysAppend
    <3>2. Keys(t)' = Keys(t) /\ Keys(managedQueue.items)' = Keys(Append(m, e))
      BY <1>3 DEF Keys
    <3> QED BY <1>2, <2>3, <3>1, <3>2 DEF Owners
  <2>7. Holds(Owners(t))' /\ Aged(Owners(t))'
    BY <2>5, <2>6 DEF Holds, Aged
  <2>8. managedQueue'.items # <<>>
    <3>1. Append(m, e) # <<>>
      BY <1>1
    <3> QED BY <1>3, <3>1
  <2> QED BY <2>7, <2>8 DEF Numbered
<1> QED BY <1>4, <1>5 DEF Ledger

(* and the oldest query leaves the map, with a reply or without.           *)
LEMMA ReceiptsDrop ==
  ASSUME TypeInv, Receipts, NEW q \in DOMAIN asked, asked[q].kind # "managed",
         \A j \in 1 .. Len(inbox) : q < inbox[j],
         NEW id, queryMap' = Erase(queryMap, id), UNCHANGED <<asked, inbox, managedQueue>>,
         \A r \in Queries : r # q => replies'[r] = replies[r]
  PROVE  Receipts'
<1>1. asked \in Seq(Requests) /\ inbox \in Seq(1 .. Len(asked)) /\ q \in 1 .. Len(asked) /\ Len(asked) \in Nat
  BY TypeParts DEF TypeInv
<1>2. InboxOK'
  <2>1. ASSUME NEW j \in 1 .. Len(inbox) PROVE \A r \in Queries : r >= inbox[j] => replies'[r] = <<>>
    <3>1. q < inbox[j] /\ NoReplyFrom(inbox[j]) /\ inbox[j] \in Nat /\ q \in Nat
      BY <1>1 DEF Receipts, InboxOK
    <3> SUFFICES ASSUME NEW r \in Queries, r >= inbox[j] PROVE replies'[r] = <<>>
      OBVIOUS
    <3>2. r # q
      BY <3>1, MaxAssumption DEF Queries
    <3> QED BY <3>1, <3>2 DEF NoReplyFrom
  <2>2. \A r \in Queries : r >= Len(asked) + 1 => replies'[r] = <<>>
    <3> SUFFICES ASSUME NEW r \in Queries, r >= Len(asked) + 1 PROVE replies'[r] = <<>>
      OBVIOUS
    <3>1. r # q
      BY <1>1, MaxAssumption DEF Queries
    <3> QED BY <3>1 DEF Receipts, InboxOK, NoReplyFrom
  <2> QED BY <2>1, <2>2 DEF Receipts, InboxOK, NoReplyFrom
<1>3. Untaken(managedQueue.items)'
  <2>1. PICK m \in Seq(Entries) : m = managedQueue.items
    BY ManagedItems
  <2>2. Untaken(m)
    BY <2>1 DEF Receipts
  <2>3. ASSUME NEW i \in 1 .. Len(m) PROVE replies'[m[i].q] = <<>>
    <3>1. m[i].q \in Queries
      BY EntriesOnTrail
    <3>2. m[i].q # q
      BY <2>2 DEF Untaken
    <3> QED BY <2>2, <3>1, <3>2 DEF Untaken
  <2>4. Untaken(m)'
    BY <2>2, <2>3 DEF Untaken, Sorted
  <2> QED BY <2>1, <2>4
<1>4. MapOfClients'
  BY DEF Receipts, MapOfClients, Erase
<1> QED BY <1>2, <1>3, <1>4 DEF Receipts

LEMMA LedgerDrop ==
  ASSUME TypeInv, Receipts, NEW t \in Seq(Entries), Ledger(t), t # <<>>,
         queryMap' = Erase(queryMap, t[1].id), UNCHANGED <<asked, inbox, queryIDPool, managedQueue, reused>>,
         \A r \in Queries : r # t[1].q => replies'[r] = replies[r],
         NEW u, u = Tail(t)
  PROVE  u \in Seq(Entries) /\ Ledger(u)' /\ Receipts'
<1>1. /\ u \in Seq(Entries) /\ Len(u) = Len(t) - 1 /\ Len(t) \in Nat \ {0} /\ 1 \in 1 .. Len(t)
      /\ \A i \in 1 .. Len(u) : u[i] = t[i + 1] /\ i + 1 \in 1 .. Len(t) /\ 1 < i + 1
  OBVIOUS
<1>2. \A i \in 1 .. Len(t) : t[i].q \in Nat /\ t[i].q \in Queries
  BY EntriesOnTrail
<1>3. InOrder(u)'
  <2>1. \A i \in 1 .. Len(u) : t[1].q < u[i].q /\ u[i].q \in Nat
    BY <1>1, <1>2 DEF Ledger, InOrder, Sorted
  <2>2. ASSUME NEW i \in 1 .. Len(u) PROVE (NoReplyFrom(u[i].q))'
    <3> SUFFICES ASSUME NEW r \in Queries, r >= u[i].q PROVE replies'[r] = <<>>
      BY DEF NoReplyFrom
    <3>1. r # t[1].q
      BY <1>1, <1>2, <2>1, MaxAssumption DEF Queries
    <3>2. NoReplyFrom(u[i].q)
      BY <1>1 DEF Ledger, InOrder
    <3> QED BY <3>1, <3>2 DEF NoReplyFrom
  <2>3. ASSUME NEW i \in 1 .. Len(u), NEW j \in 1 .. Len(u), i < j PROVE u[i].q < u[j].q
    <3>1. i + 1 \in 1 .. Len(t) /\ j + 1 \in 1 .. Len(t) /\ i + 1 < j + 1
      BY <1>1, <2>3
    <3>2. t[i + 1].q < t[j + 1].q
      BY <3>1 DEF Ledger, InOrder, Sorted
    <3> QED BY <1>1, <3>2
  <2>4. \A i \in 1 .. Len(u), j \in 1 .. Len(inbox) : u[i].q < inbox[j]
    BY <1>1 DEF Ledger, InOrder, Sorted
  <2>5. \A i \in 1 .. Len(u) : u[i].q \in DOMAIN asked /\ asked[u[i].q].kind # "managed"
    BY <1>1 DEF Ledger, InOrder
  <2> QED BY <2>2, <2>3, <2>4, <2>5 DEF InOrder, Sorted
<1>4. Receipts'
  <2>1. t[1].q \in DOMAIN asked /\ asked[t[1].q].kind # "managed" /\ \A j \in 1 .. Len(inbox) : t[1].q < inbox[j]
    BY <1>1 DEF Ledger, InOrder, Sorted
  <2> QED BY <2>1, ReceiptsDrop
<1>5. ASSUME Numbered(t) PROVE Numbered(u)'
  <2>1. PICK O, h, P : O = Owners(t) /\ h = <<t[1].id, t[1].q>> /\ P = O \ {h}
    OBVIOUS
  <2>2. Holds(O) /\ Aged(O) /\ h \in O
    BY <1>1, <1>5, <2>1 DEF Numbered, Owners, Keys
  <2>3. Holds(P)'
    <3>1. /\ DOMAIN queryMap' = DOMAIN queryMap \ {h[1]}
          /\ \A id \in DOMAIN queryMap \ {h[1]} : queryMap'[id] = queryMap[id]
      BY <2>1 DEF Erase
    <3>2. \A p \in P : p[1] \in DOMAIN queryMap /\ p[1] # h[1]
      BY <2>1, <2>2 DEF Holds
    <3>3. DOMAIN queryMap' = {p[1] : p \in P}
      BY <2>1, <2>2, <3>1, <3>2 DEF Holds
    <3>4. \A p \in P : queryMap'[p[1]] = asked[p[2]].client
      BY <2>1, <2>2, <3>1, <3>2 DEF Holds
    <3> QED BY <2>1, <2>2, <3>3, <3>4 DEF Holds
  <2>4. Aged(P)'
    BY <2>1, <2>2 DEF Aged, Age
  <2>5. Owners(u)' = P
    <3>1. Keys(u) = Keys(t) \ {h}
      BY <2>1, KeysTail DEF Ledger, InOrder, Sorted
    <3>2. h \notin Keys(managedQueue.items)
      <4>1. asked[t[1].q].kind # "managed"
        BY <1>1 DEF Ledger, InOrder
      <4>2. PICK m : m = managedQueue.items
        OBVIOUS
      <4>3. Untaken(m)
        BY <4>2 DEF Receipts
      <4>4. h \notin Keys(m)
        BY <2>1, <4>1, <4>3 DEF Untaken, Keys
      <4> QED BY <4>2, <4>4
    <3>3. Owners(u) = P
      BY <2>1, <3>1, <3>2 DEF Owners
    <3>4. Owners(u)' = Owners(u)
      BY DEF Owners, Keys
    <3> QED BY <3>3, <3>4
  <2>6. Holds(Owners(u))' /\ Aged(Owners(u))'
    BY <2>3, <2>4, <2>5 DEF Holds, Aged
  <2>7. ASSUME managedQueue.items = <<>> PROVE Consecutive(u)'
    <3>1. \A i \in 1 .. Len(u) : Age(u[i].id) = Len(u) - i
      <4>1. \A i \in 1 .. Len(t) : Age(t[i].id) = Len(t) - i
        BY <1>5, <2>7 DEF Numbered, Consecutive
      <4> QED BY <1>1, <4>1
    <3> QED BY <3>1 DEF Consecutive, Age
  <2> QED BY <2>6, <2>7 DEF Numbered
<1> QED BY <1>1, <1>3, <1>4, <1>5 DEF Ledger
-----------------------------------------------------------------------------
(* Sequences of entries that are cut and joined.                           *)
LEMMA PushLast ==
  ASSUME NEW s \in Seq(Entries), NEW r \in Seq(Entries), NEW e \in Entries
  PROVE  s \o Append(r, e) = Append(s \o r, e)
<1>1. Append(r, e) \in Seq(Entries) /\ Len(Append(r, e)) = Len(r) + 1 /\ Len(r) \in Nat /\ Len(s) \in Nat
  OBVIOUS
<1>2. /\ s \o Append(r, e) \in Seq(Entries) /\ Len(s \o Append(r, e)) = Len(s) + Len(r) + 1
      /\ \A i \in 1 .. Len(s) + Len(r) + 1 : (s \o Append(r, e))[i] =
             IF i <= Len(s) THEN s[i] ELSE Append(r, e)[i - Len(s)]
  BY <1>1, ConcatProperties
<1>3. /\ s \o r \in Seq(Entries) /\ Len(s \o r) = Len(s) + Len(r)
      /\ \A i \in 1 .. Len(s) + Len(r) : (s \o r)[i] = IF i <= Len(s) THEN s[i] ELSE r[i - Len(s)]
  BY ConcatProperties
<1>4. Append(s \o r, e) \in Seq(Entries) /\ Len(Append(s \o r, e)) = Len(s) + Len(r) + 1
  BY <1>3
<1>5. ASSUME NEW i \in 1 .. Len(s) + Len(r) + 1 PROVE (s \o Append(r, e))[i] = Append(s \o r, e)[i]
  <2>1. CASE i = Len(s) + Len(r) + 1
    <3>1. Append(r, e)[Len(r) + 1] = e /\ i - Len(s) = Len(r) + 1 /\ ~(i <= Len(s))
      BY <1>1, <2>1
    <3>2. Append(s \o r, e)[i] = e
      BY <1>3, <2>1
    <3> QED BY <1>2, <3>1, <3>2
  <2>2. CASE i <= Len(s)
    <3>1. i \in 1 .. Len(s \o r)
      BY <1>1, <1>3, <2>2
    <3>2. Append(s \o r, e)[i] = (s \o r)[i]
      BY <1>3, <3>1
    <3> QED BY <1>2, <1>3, <2>2, <3>1, <3>2
  <2>3. CASE i > Len(s) /\ i < Len(s) + Len(r) + 1
    <3>1. i \in 1 .. Len(s \o r) /\ i - Len(s) \in 1 .. Len(r)
      BY <1>1, <1>3, <2>3
    <3>2. Append(s \o r, e)[i] = (s \o r)[i] /\ Append(r, e)[i - Len(s)] = r[i - Len(s)]
      BY <1>3, <3>1
    <3> QED BY <1>1, <1>2, <1>3, <2>3, <3>1, <3>2
  <2> QED BY <1>1, <2>1, <2>2, <2>3
<1> QED BY <1>2, <1>4, <1>5, SeqEqual

LEMMA TakeFirst ==
  ASSUME NEW s \in Seq(Entries), s # <<>>
  PROVE  <<Head(s)>> \o Tail(s) = s /\ Head(s) \in Entries /\ Tail(s) \in Seq(Entries)
<1>1. /\ Head(s) \in Entries /\ Tail(s) \in Seq(Entries) /\ Len(Tail(s)) = Len(s) - 1
      /\ \A i \in 1 .. Len(Tail(s)) : Tail(s)[i] = s[i + 1]
      /\ Head(s) = s[1] /\ Len(s) \in Nat \ {0}
  BY HeadTailProperties
<1>2. <<Head(s)>> \in Seq(Entries) /\ Len(<<Head(s)>>) = 1 /\ <<Head(s)>>[1] = s[1]
  BY <1>1
<1>3. /\ <<Head(s)>> \o Tail(s) \in Seq(Entries) /\ Len(<<Head(s)>> \o Tail(s)) = Len(s)
      /\ \A i \in 1 .. Len(s) : (<<Head(s)>> \o Tail(s))[i] =
             IF i <= 1 THEN <<Head(s)>>[i] ELSE Tail(s)[i - 1]
  BY <1>1, <1>2, ConcatProperties
<1>4. ASSUME NEW i \in 1 .. Len(s) PROVE (<<Head(s)>> \o Tail(s))[i] = s[i]
  <2>1. CASE i = 1
    BY <1>2, <1>3, <2>1
  <2>2. CASE i # 1
    <3>1. i - 1 \in 1 .. Len(Tail(s)) /\ ~(i <= 1) /\ (i - 1) + 1 = i
      BY <1>1, <2>2
    <3> QED BY <1>1, <1>3, <3>1
  <2> QED BY <2>1, <2>2
<1>5. <<Head(s)>> \o Tail(s) = s
  BY <1>3, <1>4, SeqEqual
<1> QED BY <1>1, <1>5

LEMMA DropFirst ==
  ASSUME NEW s \in Seq(Entries), NEW e \in Entries, NEW t, t = <<e>> \o s
  PROVE  t \in Seq(Entries) /\ t # <<>> /\ t[1] = e /\ Tail(t) = s
<1>1. <<e>> \in Seq(Entries) /\ Len(<<e>>) = 1 /\ <<e>>[1] = e /\ Len(s) \in Nat
  OBVIOUS
<1>2. /\ t \in Seq(Entries) /\ Len(t) = 1 + Len(s)
      /\ \A i \in 1 .. 1 + Len(s) : t[i] = IF i <= 1 THEN <<e>>[i] ELSE s[i - 1]
  BY <1>1, ConcatProperties
<1>3. t # <<>> /\ t[1] = e
  BY <1>1, <1>2, EmptySeq
<1>4. /\ Tail(t) \in Seq(Entries) /\ Len(Tail(t)) = Len(s)
      /\ \A i \in 1 .. Len(Tail(t)) : Tail(t)[i] = t[i + 1]
  BY <1>1, <1>2, <1>3, HeadTailProperties
<1>5. \A i \in 1 .. Len(s) : Tail(t)[i] = s[i]
  BY <1>1, <1>2, <1>4
<1> QED BY <1>2, <1>3, <1>4, <1>5, SeqEqual
-----------------------------------------------------------------------------
LEMMA TrailParts ==
  ASSUME TypeInv, NEW lost \in Drops
  PROVE  /\ Held(receiver, {"read"}) \in Seq(Entries) /\ Len(Held(receiver, {"read"})) = Returning
         /\ responseQueue.items \in Seq(Entries) /\ Len(responseQueue.items) = Responses
         /\ Taken(lost) \in Seq(Entries)
         /\ Bounded(lost) => Len(Taken(lost)) = Fetching + Resolving + Len(lost)
         /\ lost \in Seq(Entries) /\ Len(lost) \in 0 .. 1
         /\ forwardQueue.items \in Seq(Entries) /\ Len(forwardQueue.items) = Waiting
<1>1. responseQueue.items \in Seq(Entries) /\ forwardQueue.items \in Seq(Entries)
  BY TypeParts DEF TypeInv, QueuesOK, Queue
<1>2. lost \in Seq(Entries) /\ Len(lost) \in 0 .. 1
  <2>1. CASE lost = <<>>
    BY <2>1, EmptySeq
  <2>2. CASE lost # <<>>
    <3>1. PICK e \in Entries : lost = <<e>>
      BY <2>2 DEF Drops
    <3> QED BY <3>1
  <2> QED BY <2>1, <2>2
<1>3. Held(receiver, {"read"}) \in Seq(Entries) /\ Len(Held(receiver, {"read"})) = Returning
  <2>1. CASE receiver.pc = "read"
    <3>1. receiver.entry \in Entries /\ Held(receiver, {"read"}) = <<receiver.entry>> /\ Returning = 1
      BY <2>1 DEF Held, TypeInv, InHand, Returning
    <3> QED BY <3>1
  <2>2. CASE receiver.pc # "read"
    <3>1. Held(receiver, {"read"}) = <<>> /\ Returning = 0
      BY <2>2 DEF Held, Returning
    <3> QED BY <3>1
  <2> QED BY <2>1, <2>2
<1>4. Taken(lost) \in Seq(Entries) /\ (Bounded(lost) => Len(Taken(lost)) = Fetching + Resolving + Len(lost))
  <2>1. CASE forwarder.pc \in {"read", "resolve"}
    <3>1. forwarder.entry \in Entries /\ Taken(lost) = <<forwarder.entry>>
      BY <2>1 DEF Taken, TypeInv, InHand
    <3>2. Fetching + Resolving = 1 /\ (Bounded(lost) => lost = <<>>)
      BY <2>1 DEF Fetching, Resolving, Bounded
    <3> QED BY <3>1, <3>2
  <2>2. CASE forwarder.pc \notin {"read", "resolve"}
    <3>1. Taken(lost) = lost /\ Fetching + Resolving = 0
      BY <2>2 DEF Taken, Fetching, Resolving
    <3> QED BY <1>2, <3>1
  <2> QED BY <2>1, <2>2
<1> QED BY <1>1, <1>2, <1>3, <1>4 DEF Responses, Waiting

(* The trail is as long as the load bound admits.                          *)
LEMMA TrailLength ==
  ASSUME TypeInv, NEW lost \in Drops
  PROVE  /\ Trail(lost) \in Seq(Entries)
         /\ Bounded(lost) => Len(Trail(lost)) = Load + Len(lost)
<1> DEFINE A == Held(receiver, {"read"})
           R == responseQueue.items
           B == Taken(lost)
           F == forwardQueue.items
<1>1. /\ A \in Seq(Entries) /\ R \in Seq(Entries) /\ B \in Seq(Entries) /\ F \in Seq(Entries)
      /\ Len(A) = Returning /\ Len(R) = Responses /\ Len(F) = Waiting
      /\ Bounded(lost) => Len(B) = Fetching + Resolving + Len(lost)
      /\ Len(lost) \in 0 .. 1
  BY TrailParts
<1>2. Trail(lost) = ((A \o R) \o B) \o F
  BY DEF Trail
<1> HIDE DEF A, R, B, F
<1>3. A \o R \in Seq(Entries) /\ Len(A \o R) = Len(A) + Len(R)
  BY <1>1, ConcatProperties
<1>4. (A \o R) \o B \in Seq(Entries) /\ Len((A \o R) \o B) = Len(A \o R) + Len(B)
  BY <1>1, <1>3, ConcatProperties
<1>5. ((A \o R) \o B) \o F \in Seq(Entries) /\ Len(((A \o R) \o B) \o F) = Len((A \o R) \o B) + Len(F)
  BY <1>1, <1>4, ConcatProperties
<1>6. Bounded(lost) => Len(Trail(lost)) = Returning + Responses + (Fetching + Resolving + Len(lost)) + Waiting
  BY <1>1, <1>2, <1>3, <1>4, <1>5
<1>7. Trail(lost) \in Seq(Entries)
  BY <1>2, <1>5
<1>8. Bounded(lost) => Len(Trail(lost)) = Load + Len(lost)
  <2>1. /\ Returning \in Int /\ Responses \in Int /\ Fetching \in Int /\ Resolving \in Int
        /\ Waiting \in Int /\ Len(lost) \in Int
    BY <1>1, Numbers
  <2>2. Returning + Responses + (Fetching + Resolving + Len(lost)) + Waiting
          = Returning + Responses + Fetching + Resolving + Waiting + Len(lost)
    BY <2>1
  <2> QED BY <1>6, <2>2 DEF Load
<1> QED BY <1>7, <1>8
-----------------------------------------------------------------------------
(* The trail under the steps of the receiver:                              *)
LEMMA TrailSame ==
  ASSUME UNCHANGED <<responseQueue, forwarder>>, forwardQueue'.items = forwardQueue.items,
         receiver.pc # "read", receiver'.pc # "read", NEW lost \in Drops
  PROVE  Trail(lost)' = Trail(lost)
<1>1. Held(receiver, {"read"})' = <<>> /\ Held(receiver, {"read"}) = <<>>
  BY DEF Held
<1>2. Taken(lost)' = Taken(lost)
  BY DEF Taken
<1> QED BY <1>1, <1>2 DEF Trail

LEMMA TrailTakes ==
  ASSUME TypeInv, TypeInv', NEW lost \in Drops, NEW e \in Entries,
         receiver.pc # "read", receiver'.pc # "read",
         UNCHANGED <<responseQueue, forwarder>>, forwardQueue' = Enqueue(forwardQueue, e)
  PROVE  Trail(lost)' = Append(Trail(lost), e)
<1>1. Held(receiver, {"read"})' = Held(receiver, {"read"}) /\ Taken(lost)' = Taken(lost)
  BY DEF Held, Taken
<1>2. forwardQueue'.items = Append(forwardQueue.items, e)
  <2>1. forwardQueue \in Queue
    BY TypeParts DEF TypeInv, QueuesOK
  <2>2. Enqueue(forwardQueue, e).items = Append(forwardQueue.items, e)
    BY <2>1, EnqueueOK
  <2> QED BY <2>2
<1> DEFINE A == Held(receiver, {"read"})
           R == responseQueue.items
           B == Taken(lost)
           F == forwardQueue.items
<1>3. A \in Seq(Entries) /\ R \in Seq(Entries) /\ B \in Seq(Entries) /\ F \in Seq(Entries)
  BY TrailParts
<1>4. Trail(lost) = ((A \o R) \o B) \o F /\ Trail(lost)' = ((A \o R) \o B) \o Append(F, e)
  BY <1>1, <1>2 DEF Trail
<1> HIDE DEF A, R, B, F
<1>5. (A \o R) \o B \in Seq(Entries)
  BY <1>3, ConcatProperties
<1> QED BY <1>3, <1>4, <1>5, PushLast

LEMMA TrailReturns ==
  ASSUME TypeInv, NEW lost \in Drops, TakeResponse
  PROVE  Trail(lost)' = Trail(lost)
<1> DEFINE R == responseQueue.items
<1>1. receiver \in ReceiverRecords /\ responseQueue \in Queue
  BY TypeParts DEF TypeInv, QueuesOK
<1>2. R \in Seq(Entries) /\ R # <<>>
  BY <1>1 DEF Queue, TakeResponse
<1>3. receiver.pc = "take" /\ receiver'.pc = "read" /\ receiver'.entry = Head(R)
  BY <1>1 DEF TakeResponse, ReceiverRecords
<1>4. responseQueue'.items = Tail(R)
  BY <1>1, <1>2, DequeueOK DEF TakeResponse
<1>5. Taken(lost)' = Taken(lost) /\ forwardQueue' = forwardQueue
  BY DEF Taken, TakeResponse
<1>6. Held(receiver, {"read"})' = <<Head(R)>> /\ Held(receiver, {"read"}) = <<>>
  BY <1>3 DEF Held
<1> HIDE DEF R
<1>7. <<Head(R)>> \o Tail(R) = R /\ <<>> \o R = R
  BY <1>2, TakeFirst, ConcatEmptySeq
<1> QED BY <1>4, <1>5, <1>6, <1>7 DEF Trail, R

LEMMA TrailReplies ==
  ASSUME TypeInv, NEW lost \in Drops, NEW next \in {"poll", "failed", "terminated"}, ReadResponse(next)
  PROVE  /\ Trail(lost) # <<>> /\ Trail(lost)[1] = receiver.entry
         /\ Trail(lost)' = Tail(Trail(lost))
<1> DEFINE R == responseQueue.items
           B == Taken(lost)
           F == forwardQueue.items
           e == receiver.entry
<1>1. receiver \in ReceiverRecords /\ responseQueue \in Queue
  BY TypeParts DEF TypeInv, QueuesOK
<1>2. receiver.pc = "read" /\ receiver'.pc = next
  BY <1>1 DEF ReadResponse, ReceiverRecords
<1>3. responseQueue'.items = R
  BY <1>1, PipeOK DEF ReadResponse
<1>4. Taken(lost)' = B /\ forwardQueue' = forwardQueue
  BY DEF Taken, ReadResponse
<1>5. Held(receiver, {"read"}) = <<e>> /\ Held(receiver, {"read"})' = <<>> /\ e \in Entries
  BY <1>2 DEF Held, TypeInv, InHand
<1>6. R \in Seq(Entries) /\ B \in Seq(Entries) /\ F \in Seq(Entries)
  BY TrailParts
<1>7. Trail(lost) = ((<<e>> \o R) \o B) \o F /\ Trail(lost)' = ((<<>> \o R) \o B) \o F
  BY <1>3, <1>4, <1>5 DEF Trail
<1> HIDE DEF R, B, F, e
<1>8. <<>> \o R = R /\ R \o B \in Seq(Entries) /\ (R \o B) \o F \in Seq(Entries) /\ <<e>> \in Seq(Entries)
  BY <1>5, <1>6, ConcatEmptySeq, ConcatProperties
<1>9. (<<e>> \o R) \o B = <<e>> \o (R \o B)
  BY <1>6, <1>8, ConcatAssociative
<1>10. (<<e>> \o (R \o B)) \o F = <<e>> \o ((R \o B) \o F)
  BY <1>6, <1>8, ConcatAssociative
<1>11. Trail(lost) = <<e>> \o ((R \o B) \o F) /\ Trail(lost)' = (R \o B) \o F
  BY <1>7, <1>8, <1>9, <1>10
<1>12. e \in Entries
  BY <1>5
<1>13. Trail(lost) # <<>> /\ Trail(lost)[1] = e /\ Tail(Trail(lost)) = (R \o B) \o F
  BY <1>8, <1>11, <1>12, DropFirst
<1> QED BY <1>11, <1>13 DEF e
-----------------------------------------------------------------------------
(* The trail under the steps of the forwarder:                             *)
LEMMA Exchange ==
  ASSUME NEW s \in Seq(Entries), NEW f \in Seq(Entries), NEW d \in Entries, NEW e \in Entries,
         d.id = e.id, d.q = e.q, NEW t, t = (s \o <<d>>) \o f, NEW u, u = (s \o <<e>>) \o f
  PROVE  Len(u) = Len(t) /\ \A i \in 1 .. Len(t) : u[i].id = t[i].id /\ u[i].q = t[i].q
<1>1. Len(s) \in Nat /\ Len(f) \in Nat
  OBVIOUS
<1>2. ASSUME NEW x \in Entries, NEW v, v = (s \o <<x>>) \o f
      PROVE  /\ Len(v) = Len(s) + 1 + Len(f)
             /\ \A i \in 1 .. Len(s) + 1 + Len(f) :
                    v[i] = IF i <= Len(s) THEN s[i] ELSE IF i = Len(s) + 1 THEN x ELSE f[i - (Len(s) + 1)]
  <2>1. <<x>> \in Seq(Entries) /\ Len(<<x>>) = 1 /\ <<x>>[1] = x
    OBVIOUS
  <2>2. /\ s \o <<x>> \in Seq(Entries) /\ Len(s \o <<x>>) = Len(s) + 1
        /\ \A i \in 1 .. Len(s) + 1 : (s \o <<x>>)[i] = IF i <= Len(s) THEN s[i] ELSE <<x>>[i - Len(s)]
    BY <2>1, ConcatProperties
  <2>3. /\ Len(v) = Len(s) + 1 + Len(f)
        /\ \A i \in 1 .. Len(s) + 1 + Len(f) :
               v[i] = IF i <= Len(s) + 1 THEN (s \o <<x>>)[i] ELSE f[i - (Len(s) + 1)]
    BY <1>2, <2>2, ConcatProperties
  <2>4. ASSUME NEW i \in 1 .. Len(s) + 1 + Len(f)
        PROVE  v[i] = IF i <= Len(s) THEN s[i] ELSE IF i = Len(s) + 1 THEN x ELSE f[i - (Len(s) + 1)]
    <3>1. CASE i <= Len(s)
      BY <1>1, <2>2, <2>3, <3>1
    <3>2. CASE i = Len(s) + 1
      <4>1. (s \o <<x>>)[i] = <<x>>[i - Len(s)] /\ i - Len(s) = 1
        BY <1>1, <2>2, <3>2
      <4> QED BY <1>1, <2>1, <2>3, <3>2, <4>1
    <3>3. CASE i > Len(s) + 1
      BY <1>1, <2>3, <3>3
    <3> QED BY <1>1, <3>1, <3>2, <3>3
  <2> QED BY <2>3, <2>4
<1>3. \A i \in 1 .. Len(t) : u[i] = t[i] \/ (u[i] = e /\ t[i] = d)
  BY <1>1, <1>2
<1> QED BY <1>2, <1>3

LEMMA TrailFetched ==
  ASSUME TypeInv, NEW lost \in Drops, Bounded(lost), TakeQuery
  PROVE  Trail(lost)' = Trail(lost) /\ lost = <<>>
<1> DEFINE A == Held(receiver, {"read"})
           R == responseQueue.items
           F == forwardQueue.items
<1>1. forwardQueue \in Queue /\ F \in Seq(Entries) /\ F # <<>>
  BY TypeParts DEF TypeInv, QueuesOK, Queue, TakeQuery
<1>2. forwarder.pc = "idle" /\ "forwarder" \notin shouldStop
      /\ forwarder'.pc = "read" /\ forwarder'.entry = Head(F)
  BY DEF TakeQuery
<1>3. lost = <<>>
  BY <1>2 DEF Bounded
<1>4. Taken(lost) = <<>> /\ Taken(lost)' = <<Head(F)>>
  BY <1>2, <1>3 DEF Taken
<1>5. forwardQueue'.items = Tail(F)
  BY <1>1, DequeueOK DEF TakeQuery
<1>6. A' = A /\ R' = R
  BY DEF Held, TakeQuery
<1>7. A \in Seq(Entries) /\ R \in Seq(Entries)
  BY TrailParts
<1>8. Trail(lost) = ((A \o R) \o <<>>) \o F /\ Trail(lost)' = ((A \o R) \o <<Head(F)>>) \o Tail(F)
  BY <1>4, <1>5, <1>6 DEF Trail
<1> HIDE DEF A, R, F
<1>9. A \o R \in Seq(Entries) /\ (A \o R) \o <<>> = A \o R
  BY <1>7, ConcatProperties, ConcatEmptySeq
<1>10. /\ <<Head(F)>> \in Seq(Entries) /\ Tail(F) \in Seq(Entries)
       /\ <<Head(F)>> \o Tail(F) = F
  BY <1>1, TakeFirst
<1>11. ((A \o R) \o <<Head(F)>>) \o Tail(F) = (A \o R) \o (<<Head(F)>> \o Tail(F))
  BY <1>9, <1>10, ConcatAssociative
<1>12. Trail(lost)' = Trail(lost)
  BY <1>8, <1>9, <1>10, <1>11
<1> QED BY <1>3, <1>12

LEMMA TrailResolved ==
  ASSUME TypeInv, NEW lost \in Drops, NEW res \in Results, Resolve(res),
         NEW t, t = Trail(lost), NEW u, u = Trail(<<>>)'
  PROVE  u \in Seq(Entries) /\ Len(u) = Len(t) /\ \A i \in 1 .. Len(t) : u[i].id = t[i].id /\ u[i].q = t[i].q
<1> DEFINE A == Held(receiver, {"read"})
           R == responseQueue.items
           F == forwardQueue.items
           d == forwarder.entry
           e == [forwarder.entry EXCEPT !.res = res]
<1>1. forwarder.pc = "resolve" /\ forwarder'.pc = "write" /\ d \in Entries
  BY DEF Resolve, TypeInv, InHand
<1>2. e \in Entries /\ e.id = d.id /\ e.q = d.q
  BY <1>1 DEF Entries
<1>3. Taken(lost) = <<d>> /\ Taken(<<>>)' = <<>>
  BY <1>1 DEF Taken
<1>4. A' = A /\ forwardQueue' = forwardQueue
  BY DEF Held, Resolve
<1>5. responseQueue \in Queue /\ responseQueue' = Enqueue(responseQueue, e)
  BY TypeParts DEF TypeInv, QueuesOK, Resolve
<1> HIDE DEF e
<1>6. responseQueue'.items = Append(R, e)
  <2>1. Enqueue(responseQueue, e).items = Append(R, e)
    BY <1>2, <1>5, EnqueueOK
  <2> QED BY <1>5, <2>1
<1>7. A \in Seq(Entries) /\ R \in Seq(Entries) /\ F \in Seq(Entries)
  BY TrailParts
<1>8. t = ((A \o R) \o <<d>>) \o F /\ u = ((A \o Append(R, e)) \o <<>>) \o F
  BY <1>3, <1>4, <1>6 DEF Trail
<1> HIDE DEF A, R, F, d
<1>9. A \o R \in Seq(Entries) /\ Append(R, e) \in Seq(Entries) /\ A \o Append(R, e) \in Seq(Entries)
  BY <1>2, <1>7, ConcatProperties
<1>10. (A \o Append(R, e)) \o <<>> = A \o Append(R, e)
  BY <1>9, ConcatEmptySeq
<1>11. A \o Append(R, e) = Append(A \o R, e)
  BY <1>2, <1>7, PushLast
<1>12. Append(A \o R, e) = (A \o R) \o <<e>>
  BY <1>2, <1>9, AppendIsConcat
<1>13. u = ((A \o R) \o <<e>>) \o F
  BY <1>8, <1>10, <1>11, <1>12
<1>14. Len(u) = Len(t) /\ \A i \in 1 .. Len(t) : u[i].id = t[i].id /\ u[i].q = t[i].q
  BY <1>1, <1>2, <1>7, <1>8, <1>9, <1>13, Exchange
<1>15. u \in Seq(Entries)
  BY <1>7, <1>8, <1>9, <1>10, ConcatProperties
<1> QED BY <1>14, <1>15

LEMMA TrailDropped ==
  ASSUME NEW lost \in Drops, NEW next \in {"idle", "failed"}, AbandonQuery(next),
         NEW e, e = forwarder.entry
  PROVE  Trail(<<e>>)' = Trail(lost)
<1>1. forwarder.pc = "resolve" /\ forwarder'.pc = next
  BY DEF AbandonQuery
<1>2. Taken(lost) = <<e>> /\ Taken(<<e>>)' = <<e>>
  BY <1>1 DEF Taken
<1>3. Held(receiver, {"read"})' = Held(receiver, {"read"})
  BY DEF Held, AbandonQuery
<1> QED BY <1>2, <1>3 DEF Trail, AbandonQuery

LEMMA TrailKept ==
  ASSUME TypeInv, NEW lost \in Drops, Bounded(lost), ReadQuery \/ WriteResponse \/ ForwarderStops
  PROVE  Trail(lost)' = Trail(lost)
<1>1. forwarder \in ForwarderRecords /\ QueuesOK
  BY TypeParts DEF TypeInv
<1>2. forwardQueue'.items = forwardQueue.items /\ responseQueue'.items = responseQueue.items
  <2>1. CASE ReadQuery
    BY <1>1, <2>1, PipeOK DEF QueuesOK, ReadQuery
  <2>2. CASE WriteResponse
    BY <1>1, <2>2, PipeOK DEF QueuesOK, WriteResponse
  <2>3. CASE ForwarderStops
    BY <2>3 DEF ForwarderStops
  <2> QED BY <2>1, <2>2, <2>3
<1>3. UNCHANGED receiver
  BY DEF ReadQuery, WriteResponse, ForwarderStops
<1>4. Taken(lost)' = Taken(lost)
  <2>1. CASE ReadQuery
    <3>1. forwarder.pc = "read" /\ forwarder'.pc = "resolve" /\ forwarder'.entry = forwarder.entry
      BY <1>1, <2>1 DEF ReadQuery, ForwarderRecords
    <3> QED BY <3>1 DEF Taken
  <2>2. CASE WriteResponse
    <3>1. forwarder.pc = "write" /\ forwarder'.pc = "idle"
      BY <2>2 DEF WriteResponse
    <3> QED BY <3>1 DEF Taken
  <2>3. CASE ForwarderStops
    <3>1. forwarder.pc = "idle" /\ forwarder'.pc = "ended"
      BY <1>1, <2>3 DEF ForwarderStops, ForwarderRecords
    <3> QED BY <3>1 DEF Taken
  <2> QED BY <2>1, <2>2, <2>3
<1>5. Held(receiver, {"read"})' = Held(receiver, {"read"})
  BY <1>3 DEF Held
<1> QED BY <1>2, <1>4, <1>5 DEF Trail
-----------------------------------------------------------------------------
(* Of the entries in flight and at most one that was dropped there is a    *)
(* ledger.                                                                 *)
Kept == \E lost \in Drops, t \in Seq(Entries) : t = Trail(lost) /\ Bounded(lost) /\ Ledger(t)

RelayInv == LoadInv /\ Receipts /\ Kept /\ LookupSucceeds /\ (~reused => RightClient)

LEMMA RelayInit == Init => RelayInv
<1> SUFFICES ASSUME Init PROVE RelayInv
  OBVIOUS
<1>1. LoadInv /\ TypeInv
  BY LoadInit DEF LoadInv
<1>2. LookupSucceeds /\ RightClient
  BY DEF Init, LookupSucceeds, RightClient
<1>3. <<>> \in Drops /\ <<>> \in Seq(Entries) /\ Len(<<>>) = 0
  BY EmptySeq DEF Drops
<1>4. Trail(<<>>) = <<>>
  <2>1. Held(receiver, {"read"}) = <<>> /\ Taken(<<>>) = <<>>
    BY DEF Init, Held, Taken
  <2>2. responseQueue.items = <<>> /\ forwardQueue.items = <<>>
    BY DEF Init, EmptyQueue
  <2>3. <<>> \o <<>> = <<>>
    BY <1>3, ConcatEmptySeq
  <2> QED BY <2>1, <2>2, <2>3 DEF Trail
<1>5. Bounded(<<>>)
  BY <1>1, <1>3, Numbers DEF Bounded, LoadInv, Load
<1>6. inbox = <<>> /\ managedQueue.items = <<>> /\ (\A r \in Queries : replies[r] = <<>>) /\ DOMAIN queryMap = {}
  BY DEF Init, EmptyQueue
<1>7. Sorted(<<>>)
  BY <1>3, <1>6 DEF Sorted
<1>8. Ledger(<<>>)
  <2>1. Keys(<<>>) = {}
    BY <1>3 DEF Keys
  <2>2. Owners(<<>>) = {}
    BY <1>6, <2>1 DEF Owners
  <2>3. Numbered(<<>>)
    BY <1>3, <1>6, <2>2 DEF Numbered, Holds, Aged, Consecutive
  <2>4. InOrder(<<>>)
    BY <1>3, <1>7 DEF InOrder
  <2> QED BY <2>3, <2>4 DEF Ledger
<1>9. Receipts
  <2>1. InboxOK
    BY <1>3, <1>6 DEF InboxOK, NoReplyFrom
  <2>2. Untaken(managedQueue.items)
    BY <1>3, <1>6, <1>7 DEF Untaken
  <2>3. MapOfClients
    BY <1>6 DEF MapOfClients
  <2> QED BY <2>1, <2>2, <2>3 DEF Receipts
<1> QED BY <1>1, <1>2, <1>3, <1>4, <1>5, <1>8, <1>9 DEF RelayInv, Kept

LEMMA BoundedReceiver ==
  ASSUME LoadInv, NEW lost \in Drops, Bounded(lost), ReceiverStep \/ ReceiverFails
  PROVE  Bounded(lost)'
<1>1. UNCHANGED <<forwarder, shouldStop>>
  BY DEF ReceiverStep, ReceiverFails, Poll, SkipDatagram, HandleIncomingUDP, WriteQuery, TakeResponse,
         SendReply, DropReply, ReadResponse, ReceiverStops
<1>2. TypeInv /\ Len(lost) \in 0 .. 1 /\ (Len(lost) = 1 => lost # <<>>)
  <2>1. TypeInv
    BY DEF LoadInv
  <2>2. Len(lost) \in 0 .. 1
    BY <2>1, TrailParts
  <2>3. Len(lost) = 1 => lost # <<>>
    BY EmptySeq
  <2> QED BY <2>1, <2>2, <2>3
<1>3. Load <= PipeCapacity + Allowance - Len(lost)
      /\ (Len(lost) = 1 => forwarder.pc \notin {"read", "resolve", "write"})
  BY <1>2 DEF Bounded
<1>4. Load' <= PipeCapacity + Allowance' - Len(lost)
  BY <1>2, <1>3, LoadReceiver
<1> QED BY <1>1, <1>4 DEF Bounded

LEMMA KeptArrive ==
  ASSUME LoadInv, Receipts, Kept, NEW c \in Clients, NEW k \in Kinds, Arrive(c, k)
  PROVE  Kept' /\ Receipts'
<1>1. PICK lost \in Drops, t \in Seq(Entries) : t = Trail(lost) /\ Bounded(lost) /\ Ledger(t)
  BY DEF Kept
<1>2. Ledger(t)' /\ Receipts'
  BY <1>1, LedgerArrive, ReceiptsArrive DEF LoadInv
<1>3. t = Trail(lost)'
  <2>1. UNCHANGED <<receiver, responseQueue, forwarder, forwardQueue>>
    BY DEF Arrive
  <2> QED BY <1>1, <2>1 DEF Trail, Held, Taken
<1>4. Bounded(lost)'
  <2>1. Load' = Load /\ Allowance' = Allowance
    BY LoadArrive
  <2>2. UNCHANGED <<forwarder, shouldStop>>
    BY DEF Arrive
  <2> QED BY <1>1, <2>1, <2>2 DEF Bounded
<1> QED BY <1>2, <1>3, <1>4 DEF Kept

(* What the receiver finds when it reads a response.                       *)
Oldest == LET q == receiver.entry.q
          IN /\ replies[q] = <<>> /\ q \in DOMAIN asked /\ NoReplyFrom(q)
             /\ ~reused => Known /\ queryMap[receiver.entry.id] = asked[q].client

LEMMA OldestOfLedger ==
  ASSUME TypeInv, NEW t \in Seq(Entries), Ledger(t), t # <<>>, t[1] = receiver.entry
  PROVE  Oldest
<1>1. 1 \in 1 .. Len(t) /\ t[1].q \in Queries /\ t[1].q \in Nat
  <2>1. Len(t) \in Nat \ {0}
    BY EmptySeq
  <2>2. 1 \in 1 .. Len(t)
    BY <2>1
  <2> QED BY <2>2, EntriesOnTrail
<1>2. t[1].q \in DOMAIN asked /\ NoReplyFrom(t[1].q)
  BY <1>1 DEF Ledger, InOrder
<1>3. replies[t[1].q] = <<>>
  BY <1>1, <1>2 DEF NoReplyFrom
<1>4. ASSUME ~reused PROVE t[1].id \in DOMAIN queryMap /\ queryMap[t[1].id] = asked[t[1].q].client
  <2>1. PICK p : p = <<t[1].id, t[1].q>>
    OBVIOUS
  <2>2. p \in Owners(t)
    BY <1>1, <2>1 DEF Owners, Keys
  <2>3. Holds(Owners(t))
    BY <1>4 DEF Ledger, Numbered
  <2>4. p[1] \in DOMAIN queryMap /\ queryMap[p[1]] = asked[p[2]].client
    BY <2>2, <2>3 DEF Holds
  <2> QED BY <2>1, <2>4
<1> QED BY <1>2, <1>3, <1>4 DEF Oldest, Known

LEMMA KeptReceiver ==
  ASSUME LoadInv, Receipts, Kept, ReceiverStep \/ ReceiverFails
  PROVE  /\ Kept' /\ Receipts'
         /\ \A next \in {"poll", "failed", "terminated"} : ReadResponse(next) => Oldest
<1>0. TypeInv /\ TypeInv' /\ receiver \in ReceiverRecords /\ QueuesOK
  BY TypeParts, TypeReceiver DEF LoadInv, TypeInv
<1>1. PICK lost \in Drops, t \in Seq(Entries) : t = Trail(lost) /\ Bounded(lost) /\ Ledger(t)
  BY DEF Kept
<1>2. Bounded(lost)'
  BY <1>1, BoundedReceiver
<1>3. ASSUME NEW u \in Seq(Entries), u = Trail(lost)', Ledger(u)'
      PROVE  Kept'
  BY <1>2, <1>3 DEF Kept
<1>4. ASSUME UNCHANGED <<asked, inbox, queryIDPool, queryMap, replies, reused>>,
             managedQueue'.items = managedQueue.items, Trail(lost)' = Trail(lost)
      PROVE  Kept' /\ Receipts'
  <2>1. Ledger(t)'
    BY <1>0, <1>1, <1>4, LedgerMove
  <2>2. Receipts'
    BY <1>4, ReceiptsSame
  <2> QED BY <1>1, <1>3, <1>4, <2>1, <2>2
<1>5. ASSUME Poll \/ ReceiverStops \/ (ReceiverFails /\ receiver.pc # "read") PROVE Kept' /\ Receipts'
  <2>1. /\ receiver.pc # "read" /\ receiver'.pc # "read"
        /\ UNCHANGED <<asked, inbox, queryIDPool, queryMap, replies, reused, managedQueue,
                       responseQueue, forwarder, forwardQueue>>
    BY <1>0, <1>5 DEF Poll, ReceiverStops, ReceiverFails, ReadResponse, ReceiverRecords
  <2>2. Trail(lost)' = Trail(lost)
    BY <2>1, TrailSame
  <2> QED BY <1>4, <2>1, <2>2
<1>6. ASSUME WriteQuery PROVE Kept' /\ Receipts'
  <2>1. /\ receiver.pc = "write" /\ receiver'.pc # "read"
        /\ UNCHANGED <<asked, inbox, queryIDPool, queryMap, replies, reused, responseQueue, forwarder>>
    BY <1>0, <1>6 DEF WriteQuery, AfterIncoming, ReceiverRecords
  <2>2. forwardQueue'.items = forwardQueue.items /\ managedQueue'.items = managedQueue.items
    BY <1>0, <1>6, PipeOK DEF WriteQuery, QueuesOK
  <2>3. Trail(lost)' = Trail(lost)
    BY <2>1, <2>2, TrailSame
  <2> QED BY <1>4, <2>1, <2>2, <2>3
<1>7. ASSUME SkipDatagram PROVE Kept' /\ Receipts'
  <2>1. /\ receiver.pc = "recv" /\ receiver'.pc # "read"
        /\ UNCHANGED <<asked, queryIDPool, queryMap, replies, reused, managedQueue,
                       responseQueue, forwarder, forwardQueue>>
        /\ inbox' = Tail(inbox)
    BY <1>0, <1>7 DEF SkipDatagram, AfterIncoming, ReceiverRecords
  <2>2. inbox # <<>>
    BY <1>0, <2>1 DEF TypeInv, InHand
  <2>3. Ledger(t)' /\ Receipts'
    BY <1>0, <1>1, <2>1, <2>2, LedgerSkip, ReceiptsSkip
  <2>4. Trail(lost)' = Trail(lost)
    BY <2>1, TrailSame
  <2> QED BY <1>1, <1>3, <2>3, <2>4
<1>8. ASSUME HandleIncomingUDP PROVE Kept' /\ Receipts'
  <2>1. PICK e : e = [id |-> NextId, q |-> Head(inbox), res |-> "query"]
    OBVIOUS
  <2>2. receiver.pc = "recv" /\ receiver'.pc # "read" /\ UNCHANGED <<responseQueue, forwarder>>
    BY <1>0, <1>8 DEF HandleIncomingUDP, ReceiverRecords
  <2>3. /\ e \in Entries
        /\ asked[e.q].kind = "managed" => UNCHANGED forwardQueue
        /\ asked[e.q].kind # "managed" => forwardQueue' = Enqueue(forwardQueue, e)
    BY <1>0, <1>8, <2>1, TakeFacts
  <2>4. Receipts'
    BY <1>0, <1>8, ReceiptsTake
  <2>5. CASE asked[e.q].kind = "managed"
    <3>1. Trail(lost)' = t
      BY <1>1, <2>2, <2>3, <2>5, TrailSame
    <3>2. Ledger(t)'
      BY <1>0, <1>1, <1>8, <2>1, <2>5, LedgerManaged
    <3> QED BY <1>3, <2>4, <3>1, <3>2
  <2>6. CASE asked[e.q].kind # "managed"
    <3>1. PICK u : u = Append(t, e)
      OBVIOUS
    <3>2. u = Trail(lost)'
      BY <1>0, <1>1, <2>2, <2>3, <2>6, <3>1, TrailTakes
    <3>3. u \in Seq(Entries) /\ Ledger(u)'
      BY <1>0, <1>1, <1>8, <2>1, <2>6, <3>1, LedgerTake
    <3> QED BY <1>3, <2>4, <3>2, <3>3
  <2> QED BY <2>5, <2>6
<1>9. ASSUME TakeResponse PROVE Kept' /\ Receipts'
  <2>1. UNCHANGED <<asked, inbox, queryIDPool, queryMap, replies, reused, managedQueue>>
    BY <1>9 DEF TakeResponse
  <2>2. Trail(lost)' = Trail(lost)
    BY <1>0, <1>9, TrailReturns
  <2> QED BY <1>4, <2>1, <2>2
<1>10. ASSUME NEW next \in {"poll", "failed", "terminated"}, ReadResponse(next)
       PROVE  t # <<>> /\ t[1] = receiver.entry /\ Trail(lost)' = Tail(t) /\ Oldest
  <2>1. t # <<>> /\ t[1] = receiver.entry /\ Trail(lost)' = Tail(t)
    BY <1>0, <1>1, <1>10, TrailReplies
  <2> QED BY <1>0, <1>1, <2>1, OldestOfLedger
<1>11. ASSUME SendReply \/ DropReply \/ (ReceiverFails /\ receiver.pc = "read") PROVE Kept' /\ Receipts'
  <2>1. PICK next \in {"poll", "failed", "terminated"} : ReadResponse(next)
    BY <1>11 DEF SendReply, DropReply, ReceiverFails
  <2>2. t # <<>> /\ t[1] = receiver.entry /\ Trail(lost)' = Tail(t)
    BY <1>10, <2>1
  <2>3. /\ queryMap' = Erase(queryMap, t[1].id)
        /\ UNCHANGED <<asked, inbox, queryIDPool, managedQueue, reused>>
    BY <1>11, <2>1, <2>2 DEF SendReply, DropReply, ReceiverFails, ReadResponse
  <2>4. \A r \in Queries : r # t[1].q => replies'[r] = replies[r]
    <3>1. UNCHANGED replies \/ replies' = [replies EXCEPT ![t[1].q] = Append(@, queryMap[t[1].id])]
      BY <1>11, <2>2 DEF SendReply, DropReply, ReceiverFails
    <3>2. replies \in [Queries -> Seq(Clients)]
      BY <1>0, TypeParts DEF TypeInv
    <3> QED BY <3>1, <3>2
  <2>5. PICK u : u = Tail(t)
    OBVIOUS
  <2>6. u \in Seq(Entries) /\ Ledger(u)' /\ Receipts'
    BY <1>0, <1>1, <2>2, <2>3, <2>4, <2>5, LedgerDrop
  <2>7. u = Trail(lost)'
    BY <2>2, <2>5
  <2> QED BY <1>3, <2>6, <2>7
<1>12. Kept' /\ Receipts'
  BY <1>5, <1>6, <1>7, <1>8, <1>9, <1>11 DEF ReceiverStep
<1> QED BY <1>10, <1>12

LEMMA KeptForwarder ==
  ASSUME LoadInv, Receipts, Kept, ForwarderStep \/ ForwarderFails
  PROVE  Kept' /\ Receipts'
<1>0. TypeInv /\ forwarder \in ForwarderRecords /\ QueuesOK
  BY TypeParts DEF LoadInv, TypeInv
<1>1. PICK lost \in Drops, t \in Seq(Entries) : t = Trail(lost) /\ Bounded(lost) /\ Ledger(t)
  BY DEF Kept
<1>2. UNCHANGED <<asked, inbox, queryIDPool, queryMap, replies, shouldStop, reused, managedQueue>>
  BY DEF ForwarderStep, ForwarderFails, TakeQuery, ReadQuery, Resolve, WriteResponse, GiveUpStopping,
         AbandonQuery, ForwarderStops
<1>3. Load' <= PipeCapacity + Allowance' /\ Allowance' = Allowance /\ Allowance \in Int /\ PipeCapacity \in Int
  <2>1. UNCHANGED receiver
    BY DEF ForwarderStep, ForwarderFails, TakeQuery, ReadQuery, Resolve, WriteResponse, GiveUpStopping,
           AbandonQuery, ForwarderStops
  <2>2. Allowance' = Allowance
    BY <2>1, SameCounts
  <2>3. Allowance \in Int /\ PipeCapacity \in Int
    BY <1>0, Numbers
  <2> QED BY <2>2, <2>3, LoadForwarder
<1>4. ASSUME NEW l \in Drops, Bounded(l)', NEW u \in Seq(Entries), u = Trail(l)',
             Len(u) = Len(t), \A i \in 1 .. Len(t) : u[i].id = t[i].id /\ u[i].q = t[i].q
      PROVE  Kept'
  <2>1. Ledger(u)'
    BY <1>0, <1>1, <1>2, <1>4, LedgerMove
  <2> QED BY <1>4, <2>1 DEF Kept
<1>5. Bounded(<<>>)' /\ <<>> \in Drops
  BY <1>3 DEF Bounded, Drops
<1>6. ASSUME TakeQuery PROVE Kept'
  <2>1. lost = <<>> /\ Trail(lost)' = t
    BY <1>0, <1>1, <1>6, TrailFetched
  <2> QED BY <1>1, <1>4, <1>5, <2>1
<1>7. ASSUME NEW res \in Results, Resolve(res)
      PROVE  Kept'
  <2>1. PICK u : u = Trail(<<>>)'
    OBVIOUS
  <2>2. u \in Seq(Entries) /\ Len(u) = Len(t) /\ \A i \in 1 .. Len(t) : u[i].id = t[i].id /\ u[i].q = t[i].q
    BY <1>0, <1>1, <1>7, <2>1, TrailResolved
  <2> QED BY <1>4, <1>5, <2>1, <2>2
<1>8. ASSUME NEW next \in {"idle", "failed"}, AbandonQuery(next),
             next = "failed" \/ "forwarder" \in shouldStop
      PROVE  Kept'
  <2>1. PICK e \in Entries : e = forwarder.entry
    BY <1>0, <1>8 DEF TypeInv, InHand, AbandonQuery
  <2>2. <<e>> \in Drops /\ <<e>> # <<>> /\ Len(<<e>>) = 1
    BY <2>1 DEF Drops
  <2>3. t = Trail(<<e>>)'
    BY <1>1, <1>8, <2>1, TrailDropped
  <2>4. Bounded(<<e>>)'
    <3>1. forwarder.pc = "resolve" /\ forwarder'.pc = next
      BY <1>8 DEF AbandonQuery
    <3>2. Load' = Load - 1
      BY <1>0, <1>8, <3>1, SameCounts, Numbers DEF Load, Fetching, Resolving, AbandonQuery
    <3>3. Load <= PipeCapacity + Allowance /\ Load \in Int
      BY <1>0, Numbers DEF LoadInv, Load
    <3>4. Load' <= PipeCapacity + Allowance' - Len(<<e>>)
      BY <1>3, <2>2, <3>2, <3>3
    <3> QED BY <1>2, <1>8, <3>1, <3>4 DEF Bounded
  <2> QED BY <1>1, <1>4, <2>2, <2>3, <2>4
<1>9. ASSUME ReadQuery \/ WriteResponse \/ ForwarderStops PROVE Kept'
  <2>1. Trail(lost)' = t
    BY <1>0, <1>1, <1>9, TrailKept
  <2>2. CASE lost = <<>>
    BY <1>1, <1>4, <1>5, <2>1, <2>2
  <2>3. CASE lost # <<>>
    <3>1. forwarder.pc \in {"idle", "ended", "failed"} /\ (forwarder.pc = "failed" \/ "forwarder" \in shouldStop)
      BY <1>1, <2>3 DEF Bounded
    <3>2. ForwarderStops /\ forwarder'.pc = "ended"
      BY <1>0, <1>9, <3>1 DEF ReadQuery, WriteResponse, ForwarderStops, ForwarderRecords
    <3>3. Load' = Load
      <4>1. forwarder.pc = "idle"
        BY <3>2 DEF ForwarderStops
      <4> QED BY <3>2, <4>1, SameCounts DEF Load, Fetching, Resolving, ForwarderStops
    <3>4. Bounded(lost)'
      BY <1>1, <1>2, <1>3, <3>1, <3>2, <3>3 DEF Bounded, ForwarderStops
    <3> QED BY <1>1, <1>4, <2>1, <3>4
  <2> QED BY <2>2, <2>3
<1>10. Receipts'
  BY <1>2, ReceiptsSame
<1> QED BY <1>6, <1>7, <1>8, <1>9, <1>10 DEF ForwarderStep, ForwarderFails, GiveUpStopping
-----------------------------------------------------------------------------
(* What the ledger means to the clients: a step sends a reply to one query *)
(* at a time, before any later one has had a reply, and to its client      *)
(* unless an id was reused.                                                *)
LEMMA Replying ==
  ASSUME RelayInv, [Next]_vars
  PROVE  \/ UNCHANGED replies
         \/ \E q \in Queries, r \in DOMAIN asked :
                /\ q \in DOMAIN asked /\ NoReplyFrom(q) /\ UNCHANGED <<asked, reused>>
                /\ ~reused => r = q
                /\ replies' = [replies EXCEPT ![q] = <<asked[r].client>>]
<1>1. CASE SendReply
  <2> DEFINE q == receiver.entry.q
             id == receiver.entry.id
  <2>1. /\ ReadResponse("poll") /\ UNCHANGED <<asked, reused>> /\ id \in DOMAIN queryMap
        /\ replies' = [replies EXCEPT ![q] = Append(@, queryMap[id])]
    BY <1>1 DEF SendReply, ReadResponse, Sendable, Known
  <2>2. Oldest
    BY <1>1, <2>1, KeptReceiver DEF RelayInv, ReceiverStep
  <2>3. /\ replies[q] = <<>> /\ q \in DOMAIN asked /\ NoReplyFrom(q)
        /\ ~reused => queryMap[id] = asked[q].client
    BY <2>2 DEF Oldest
  <2>4. q \in Queries /\ replies \in [Queries -> Seq(Clients)]
    BY <2>1, TypeParts DEF RelayInv, LoadInv, TypeInv, InHand, ReadResponse, Entries
  <2>5. PICK r \in DOMAIN asked : queryMap[id] = asked[r].client /\ (~reused => r = q)
    <3>1. CASE reused
      BY <2>1, <3>1 DEF RelayInv, Receipts, MapOfClients
    <3>2. CASE ~reused
      BY <2>3, <3>2
    <3> QED BY <3>1, <3>2
  <2> HIDE DEF q, id
  <2>6. Append(<<>>, asked[r].client) = <<asked[r].client>>
    OBVIOUS
  <2>7. replies' = [replies EXCEPT ![q] = <<asked[r].client>>]
    BY <2>1, <2>3, <2>4, <2>5, <2>6
  <2> QED BY <2>1, <2>3, <2>4, <2>5, <2>7
<1>2. CASE ~SendReply
  BY <1>2 DEF Next, vars, Arrive, ReceiverStep, ReceiverFails, Poll, SkipDatagram, HandleIncomingUDP,
     WriteQuery, TakeResponse, DropReply, ReceiverStops, ForwarderStep, ForwarderFails, TakeQuery, ReadQuery,
     Resolve, WriteResponse, GiveUpStopping, AbandonQuery, ForwarderStops, AskToStop
<1> QED BY <1>1, <1>2

(* An id once reused stays so, and only a query that comes in reuses one.  *)
LEMMA Reusing ==
  ASSUME [Next]_vars
  PROVE  UNCHANGED reused \/ (HandleIncomingUDP /\ reused' = (reused \/ NextId \in DOMAIN queryMap))
BY DEF Next, vars, Arrive, ReceiverStep, ReceiverFails, Poll, SkipDatagram, HandleIncomingUDP, WriteQuery,
   TakeResponse, SendReply, DropReply, ReadResponse, ReceiverStops, ForwarderStep, ForwarderFails, TakeQuery,
   ReadQuery, Resolve, WriteResponse, GiveUpStopping, AbandonQuery, ForwarderStops, AskToStop

LEMMA RelayStep ==
  ASSUME RelayInv, [Next]_vars
  PROVE  RelayInv'
<1>0. LoadInv /\ TypeInv /\ Receipts /\ Kept /\ receiver \in ReceiverRecords /\ QueuesOK /\ reused \in BOOLEAN
  BY TypeParts DEF RelayInv, LoadInv, TypeInv
<1>1. LoadInv'
  BY <1>0, LoadStep
<1>2. Kept' /\ Receipts'
  <2>1. CASE UNCHANGED vars \/ \E t \in ThreadNames : AskToStop(t)
    <3>1. PICK lost \in Drops, t \in Seq(Entries) : t = Trail(lost) /\ Bounded(lost) /\ Ledger(t)
      BY <1>0 DEF Kept
    <3>2. /\ UNCHANGED <<asked, inbox, queryIDPool, queryMap, replies, reused, managedQueue,
                         receiver, forwarder, responseQueue, forwardQueue>>
          /\ shouldStop \subseteq shouldStop'
      BY <2>1 DEF vars, AskToStop
    <3>3. Trail(lost)' = t
      BY <3>1, <3>2 DEF Trail, Held, Taken
    <3>4. Ledger(t)' /\ Receipts'
      BY <1>0, <3>1, <3>2, LedgerMove, ReceiptsSame
    <3>5. Bounded(lost)'
      <4>1. UNCHANGED <<Load, Allowance>>
        BY <3>2, SameCounts DEF Load
      <4> QED BY <3>1, <3>2, <4>1 DEF Bounded
    <3> QED BY <3>3, <3>4, <3>5 DEF Kept
  <2>2. CASE \E c \in Clients, k \in Kinds : Arrive(c, k)
    BY <1>0, <2>2, KeptArrive
  <2>3. CASE ReceiverStep \/ ReceiverFails
    BY <1>0, <2>3, KeptReceiver
  <2>4. CASE ForwarderStep \/ ForwarderFails
    BY <1>0, <2>4, KeptForwarder
  <2> QED BY <2>1, <2>2, <2>3, <2>4 DEF Next
<1>3. LookupSucceeds'
  <2>1. CASE DropReply
    <3>1. PICK next \in {"poll", "failed", "terminated"} : ReadResponse(next) /\ (Known => next = "poll")
      BY <2>1 DEF DropReply
    <3>2. Oldest /\ UNCHANGED reused
      BY <1>0, <2>1, <3>1, KeptReceiver DEF ReceiverStep, ReadResponse
    <3>3. ~reused => receiver'.pc = "poll"
      BY <1>0, <3>1, <3>2 DEF Oldest, ReadResponse, ReceiverRecords
    <3> QED BY <3>2, <3>3 DEF LookupSucceeds
  <2>2. CASE (ReceiverStep \/ ReceiverFails) /\ ~DropReply
    BY <1>0, <2>2 DEF RelayInv, LookupSucceeds, ReceiverStep, ReceiverFails, Poll, SkipDatagram, HandleIncomingUDP,
       WriteQuery, TakeResponse, SendReply, ReadResponse, ReceiverStops, AfterIncoming, ReceiverRecords
  <2>3. CASE ~(ReceiverStep \/ ReceiverFails)
    BY <2>3 DEF RelayInv, LookupSucceeds, Next, vars, Arrive, ForwarderStep, ForwarderFails, TakeQuery, ReadQuery,
       Resolve, WriteResponse, GiveUpStopping, AbandonQuery, ForwarderStops, AskToStop
  <2> QED BY <2>1, <2>2, <2>3
<1>4. ~reused' => RightClient'
  <2> SUFFICES ASSUME ~reused' PROVE RightClient'
    OBVIOUS
  <2>0. ~reused /\ RightClient
    <3>1. ~reused
      BY <1>0, Reusing
    <3> QED BY <3>1 DEF RelayInv
  <2>1. replies \in [Queries -> Seq(Clients)] /\ asked \in Seq(Requests)
    BY <1>0, TypeParts DEF TypeInv
  <2>2. CASE \E c \in Clients, k \in Kinds : Arrive(c, k)
    <3>1. PICK c \in Clients, k \in Kinds : Arrive(c, k)
      BY <2>2
    <3>2. Len(asked) < MaxQueries /\ asked' = Append(asked, [client |-> c, kind |-> k]) /\ UNCHANGED replies
      BY <3>1 DEF Arrive
    <3>3. /\ DOMAIN asked = 1 .. Len(asked) /\ Len(asked) \in Nat
          /\ DOMAIN asked' = 1 .. Len(asked) + 1
          /\ \A q \in DOMAIN asked : asked'[q] = asked[q]
      BY <2>1, <3>2 DEF Requests
    <3>4. replies[Len(asked) + 1] = <<>>
      <4>1. NoReplyFrom(Len(asked) + 1)
        BY <1>0 DEF Receipts, InboxOK
      <4>2. Len(asked) + 1 \in Queries
        BY <3>2, <3>3, MaxAssumption DEF Queries
      <4> QED BY <3>3, <4>1, <4>2 DEF NoReplyFrom
    <3> SUFFICES ASSUME NEW q \in DOMAIN asked' PROVE replies'[q] \in {<<>>, <<asked'[q].client>>}
      BY DEF RightClient
    <3>5. q = Len(asked) + 1 \/ q \in DOMAIN asked
      BY <3>3
    <3> QED BY <2>0, <3>2, <3>3, <3>4, <3>5 DEF RightClient
  <2>3. CASE ~ \E c \in Clients, k \in Kinds : Arrive(c, k)
    <3>1. UNCHANGED asked
      BY <2>3 DEF Next, vars, ReceiverStep, ReceiverFails, Poll, SkipDatagram, HandleIncomingUDP, WriteQuery,
         TakeResponse, SendReply, DropReply, ReadResponse, ReceiverStops, ForwarderStep, ForwarderFails, TakeQuery,
         ReadQuery, Resolve, WriteResponse, GiveUpStopping, AbandonQuery, ForwarderStops, AskToStop
    <3>2. \A q \in DOMAIN asked : replies'[q] \in {replies[q], <<asked[q].client>>}
      <4>1. CASE UNCHANGED replies
        BY <4>1
      <4>2. CASE ~UNCHANGED replies
        <5>1. PICK q \in Queries : replies' = [replies EXCEPT ![q] = <<asked[q].client>>]
          BY <2>0, <4>2, Replying
        <5> QED BY <2>1, <5>1
      <4> QED BY <4>1, <4>2
    <3> QED BY <2>0, <3>1, <3>2 DEF RightClient
  <2> QED BY <2>2, <2>3
<1> QED BY <1>1, <1>2, <1>3, <1>4 DEF RelayInv

LEMMA RelayInvariant == Spec => []RelayInv
<1>1. RelayInv /\ [Next]_vars => RelayInv'
  BY RelayStep
<1> QED BY <1>1, RelayInit, PTL DEF Spec

(* Threads stop and fail, queries are dropped or never taken, ids wrap     *)
(* around: at() throws (qreceiver.cpp:297) only after an id was given out  *)
(* that was in use.                                                        *)
THEOREM LookupHolds == Spec => []LookupSucceeds
BY RelayInvariant, PTL DEF RelayInv

(* No client gets the response to another client's query, nor one twice,   *)
(* before an id is given out that is in use (qreceiver.cpp:263, 297).      *)
THEOREM RightClientHolds == Spec => [](~reused => RightClient)
BY RelayInvariant, PTL DEF RelayInv
-----------------------------------------------------------------------------
(* A sequence whose ids differ has as many ids as entries.                 *)
LEMMA CountIds ==
  ASSUME NEW s \in Seq(Entries),
         \A i, j \in 1 .. Len(s) : s[i].id = s[j].id => i = j
  PROVE  Cardinality({s[i].id : i \in 1 .. Len(s)}) = Len(s)
<1> DEFINE S == {s[i].id : i \in 1 .. Len(s)}
           f == [i \in 1 .. Len(s) |-> s[i].id]
<1>1. Len(s) \in Nat
  OBVIOUS
<1>2. f \in [1 .. Len(s) -> S] /\ \A i \in 1 .. Len(s) : f[i] = s[i].id
  OBVIOUS
<1>3. f \in Injection(1 .. Len(s), S)
  BY <1>2 DEF Injection, IsInjective
<1>4. f \in Surjection(1 .. Len(s), S)
  BY <1>2 DEF Surjection
<1>5. ExistsBijection(1 .. Len(s), S)
  BY <1>3, <1>4 DEF ExistsBijection, Bijection
<1> HIDE DEF S
<1>6. Cardinality(S) = Len(s)
  BY <1>1, <1>5, FS_CountingElements
<1> QED BY <1>6 DEF S

(* Leaving out what was dropped, the trail is InFlight.                    *)
LEMMA LeftOut ==
  ASSUME NEW s \in Seq(Entries), NEW f \in Seq(Entries), NEW d \in Entries,
         NEW t, t = (s \o <<d>>) \o f, NEW u, u = (s \o <<>>) \o f
  PROVE  /\ u \in Seq(Entries) /\ Len(t) = Len(u) + 1
         /\ \A i \in 1 .. Len(u) : u[i] = t[IF i <= Len(s) THEN i ELSE i + 1]
<1>1. <<d>> \in Seq(Entries) /\ Len(<<d>>) = 1 /\ Len(s) \in Nat /\ Len(f) \in Nat
  OBVIOUS
<1>2. s \o <<>> = s
  BY ConcatEmptySeq
<1>3. /\ u \in Seq(Entries) /\ Len(u) = Len(s) + Len(f)
      /\ \A i \in 1 .. Len(s) + Len(f) : u[i] = IF i <= Len(s) THEN s[i] ELSE f[i - Len(s)]
  BY <1>2, ConcatProperties
<1>4. /\ s \o <<d>> \in Seq(Entries) /\ Len(s \o <<d>>) = Len(s) + 1
      /\ \A i \in 1 .. Len(s) + 1 : (s \o <<d>>)[i] = IF i <= Len(s) THEN s[i] ELSE <<d>>[i - Len(s)]
  BY <1>1, ConcatProperties
<1>5. /\ Len(t) = Len(s) + 1 + Len(f)
      /\ \A i \in 1 .. Len(s) + 1 + Len(f) :
             t[i] = IF i <= Len(s) + 1 THEN (s \o <<d>>)[i] ELSE f[i - (Len(s) + 1)]
  BY <1>4, ConcatProperties
<1>6. ASSUME NEW i \in 1 .. Len(u) PROVE u[i] = t[IF i <= Len(s) THEN i ELSE i + 1]
  <2>1. CASE i <= Len(s)
    BY <1>1, <1>3, <1>4, <1>5, <2>1
  <2>2. CASE i > Len(s)
    <3>1. i + 1 \in 1 .. Len(s) + 1 + Len(f) /\ ~(i + 1 <= Len(s) + 1) /\ (i + 1) - (Len(s) + 1) = i - Len(s)
      BY <1>1, <1>3, <2>2
    <3> QED BY <1>1, <1>3, <1>5, <2>2, <3>1
  <2> QED BY <1>1, <1>3, <2>1, <2>2
<1> QED BY <1>1, <1>3, <1>5, <1>6

LEMMA TrailHoldsInFlight ==
  ASSUME TypeInv, NEW lost \in Drops, Bounded(lost), NEW t, t = Trail(lost), NEW u, u = InFlight
  PROVE  /\ u \in Seq(Entries) /\ Len(t) = Len(u) + Len(lost)
         /\ \E n \in Nat : \A i \in 1 .. Len(u) :
                u[i] = t[IF i <= n THEN i ELSE i + Len(lost)]
<1> DEFINE A == Held(receiver, {"read"})
           R == responseQueue.items
           B == Held(forwarder, {"read", "resolve"})
           F == forwardQueue.items
<1>1. A \in Seq(Entries) /\ R \in Seq(Entries) /\ F \in Seq(Entries)
  BY TrailParts
<1>2. u = ((A \o R) \o B) \o F
  BY DEF InFlight
<1>3. CASE lost = <<>>
  <2>1. Taken(lost) = B
    BY <1>3 DEF Taken, Held
  <2>2. u = t
    BY <1>2, <2>1 DEF Trail
  <2>3. t \in Seq(Entries) /\ Len(t) \in Nat /\ Len(lost) = 0
    <3>1. t \in Seq(Entries)
      BY TrailLength
    <3> QED BY <1>3, <3>1, EmptySeq
  <2>4. \A i \in 1 .. Len(u) : u[i] = t[IF i <= 0 THEN i ELSE i + Len(lost)]
    BY <2>2, <2>3
  <2> QED BY <2>2, <2>3, <2>4
<1>4. CASE lost # <<>>
  <2>1. PICK d \in Entries : lost = <<d>>
    BY <1>4 DEF Drops
  <2>2. forwarder.pc \notin {"read", "resolve"}
    BY <1>4 DEF Bounded
  <2>3. Taken(lost) = <<d>> /\ B = <<>>
    BY <2>1, <2>2 DEF Taken, Held
  <2>4. t = ((A \o R) \o <<d>>) \o F
    BY <2>3 DEF Trail
  <2>5. Len(lost) = 1
    BY <2>1
  <2> HIDE DEF A, R, B, F
  <2>6. A \o R \in Seq(Entries) /\ Len(A \o R) \in Nat
    BY <1>1, ConcatProperties
  <2>7. /\ u \in Seq(Entries) /\ Len(t) = Len(u) + 1
        /\ \A i \in 1 .. Len(u) : u[i] = t[IF i <= Len(A \o R) THEN i ELSE i + 1]
    BY <1>1, <1>2, <2>3, <2>4, <2>6, LeftOut
  <2> QED BY <2>5, <2>6, <2>7
<1> QED BY <1>3, <1>4

LEMMA JoinedTrails ==
  ASSUME NEW s \in Seq(Entries), NEW r \in Seq(Entries), NEW w, w = s \o r
  PROVE  /\ w \in Seq(Entries) /\ Len(w) = Len(s) + Len(r)
         /\ \A i \in 1 .. Len(s) + Len(r) : w[i] = IF i <= Len(s) THEN s[i] ELSE r[i - Len(s)]
BY ConcatProperties

(* z is w but for d entries in a row.                                      *)
Within(z, w, d) == \E n \in Nat : \A i \in 1 .. Len(z) : z[i] = w[IF i <= n THEN i ELSE i + d]

(* The trail and the managed queries hold what is pending, and what was    *)
(* dropped.                                                                *)
LEMMA TrailHoldsPending ==
  ASSUME TypeInv, NEW lost \in Drops, Bounded(lost), NEW t \in Seq(Entries), t = Trail(lost),
         NEW w, w = t \o managedQueue.items, NEW z, z = Pending
  PROVE  z \in Seq(Entries) /\ Len(w) = Len(z) + Len(lost) /\ Within(z, w, Len(lost))
<1>1. PICK u, m : u = InFlight /\ m = managedQueue.items
  OBVIOUS
<1>2. /\ u \in Seq(Entries) /\ Len(t) = Len(u) + Len(lost) /\ Len(lost) \in 0 .. 1 /\ Len(u) \in Nat
      /\ t \in Seq(Entries) /\ m \in Seq(Entries) /\ Len(m) \in Nat
  <2>1. /\ u \in Seq(Entries) /\ Len(t) = Len(u) + Len(lost) /\ Len(lost) \in 0 .. 1
        /\ t \in Seq(Entries) /\ m \in Seq(Entries)
    BY <1>1, TrailHoldsInFlight, TrailParts, TrailLength, ManagedItems
  <2> QED BY <2>1
<1>3. PICK n \in Nat : \A i \in 1 .. Len(u) : u[i] = t[IF i <= n THEN i ELSE i + Len(lost)]
  BY <1>1, TrailHoldsInFlight
<1>4. z = u \o m /\ w = t \o m
  BY <1>1 DEF Pending
<1>5. /\ z \in Seq(Entries) /\ Len(z) = Len(u) + Len(m)
      /\ \A i \in 1 .. Len(u) + Len(m) : z[i] = IF i <= Len(u) THEN u[i] ELSE m[i - Len(u)]
  BY <1>2, <1>4, JoinedTrails
<1>6. /\ w \in Seq(Entries) /\ Len(w) = Len(t) + Len(m)
      /\ \A i \in 1 .. Len(t) + Len(m) : w[i] = IF i <= Len(t) THEN t[i] ELSE m[i - Len(t)]
  <2>1. t \in Seq(Entries) /\ m \in Seq(Entries) /\ w = t \o m
    BY <1>2, <1>4
  <2> QED BY <2>1, JoinedTrails
<1>7. PICK k \in Nat : k = IF n <= Len(u) THEN n ELSE Len(u)
  BY <1>2
<1>8. ASSUME NEW i \in 1 .. Len(z) PROVE z[i] = w[IF i <= k THEN i ELSE i + Len(lost)]
  <2>1. CASE i <= Len(u)
    <3>1. PICK j : j = IF i <= n THEN i ELSE i + Len(lost)
      OBVIOUS
    <3>2. j = IF i <= k THEN i ELSE i + Len(lost)
      BY <1>2, <1>7, <2>1, <3>1
    <3>3. z[i] = u[i] /\ u[i] = t[j]
      BY <1>2, <1>3, <1>5, <2>1, <3>1
    <3>4. j \in 1 .. Len(t)
      BY <1>2, <2>1, <3>1
    <3>5. w[j] = t[j]
      BY <1>2, <1>6, <3>4
    <3> QED BY <3>2, <3>3, <3>5
  <2>2. CASE i > Len(u)
    <3>1. PICK j : j = i + Len(lost)
      OBVIOUS
    <3>2. /\ j \in 1 .. Len(t) + Len(m) /\ ~(j <= Len(t)) /\ j - Len(t) = i - Len(u)
          /\ ~(i <= k) /\ ~(i <= Len(u)) /\ i \in 1 .. Len(u) + Len(m)
      <4>1. i \in 1 .. Len(u) + Len(m) /\ k <= Len(u)
        BY <1>2, <1>5, <1>7
      <4> QED BY <1>2, <2>2, <3>1, <4>1
    <3>3. w[j] = m[j - Len(t)]
      BY <1>6, <3>2
    <3>4. z[i] = m[i - Len(u)]
      BY <1>5, <3>2
    <3> QED BY <3>1, <3>2, <3>3, <3>4
  <2>3. i <= Len(u) \/ i > Len(u)
    BY <1>2
  <2> QED BY <2>1, <2>2, <2>3
<1>9. Len(w) = Len(z) + Len(lost)
  BY <1>2, <1>5, <1>6
<1>10. Within(z, w, Len(lost))
  BY <1>7, <1>8 DEF Within
<1> QED BY <1>5, <1>9, <1>10

(* Each entry has an id of its own, under which the map has its client.    *)
OwnIds(w) == /\ w \in Seq(Entries)
             /\ \A i \in 1 .. Len(w) : w[i].id \in DOMAIN queryMap /\ queryMap[w[i].id] = asked[w[i].q].client
             /\ \A i, j \in 1 .. Len(w) : w[i].id = w[j].id => i = j
             /\ DOMAIN queryMap = {w[i].id : i \in 1 .. Len(w)}

LEMMA AllOwnIds ==
  ASSUME TypeInv, Receipts, NEW t \in Seq(Entries), Ledger(t), ~reused,
         NEW w, w = t \o managedQueue.items
  PROVE  OwnIds(w)
<1>0. PICK m \in Seq(Entries) : m = managedQueue.items
  BY ManagedItems
<1>1. Len(m) \in Nat /\ Len(t) \in Nat /\ w = t \o m
  BY <1>0
<1>2. /\ w \in Seq(Entries) /\ Len(w) = Len(t) + Len(m)
      /\ \A i \in 1 .. Len(t) + Len(m) : w[i] = IF i <= Len(t) THEN t[i] ELSE m[i - Len(t)]
  BY <1>0, <1>1, JoinedTrails
<1>3. InOrder(t) /\ Untaken(m) /\ Holds(Owners(t)) /\ Owners(t) = Keys(t) \cup Keys(m)
  BY <1>0 DEF Ledger, Receipts, Numbered, Owners
<1>4. \A i \in 1 .. Len(t) : /\ w[i] = t[i] /\ asked[w[i].q].kind # "managed" /\ i \in 1 .. Len(w)
                            /\ <<w[i].id, w[i].q>> \in Owners(t) /\ w[i].q \in Nat
  <2> SUFFICES ASSUME NEW i \in 1 .. Len(t)
               PROVE  /\ w[i] = t[i] /\ asked[w[i].q].kind # "managed" /\ i \in 1 .. Len(w)
                      /\ <<w[i].id, w[i].q>> \in Owners(t) /\ w[i].q \in Nat
    OBVIOUS
  <2>1. w[i] = t[i] /\ i \in 1 .. Len(w)
    BY <1>1, <1>2
  <2>2. t[i].q \in Nat /\ asked[t[i].q].kind # "managed"
    BY <1>3, EntriesOnTrail DEF InOrder
  <2>3. <<t[i].id, t[i].q>> \in Owners(t)
    BY <1>3 DEF Keys
  <2> QED BY <2>1, <2>2, <2>3
<1>5. \A i \in 1 .. Len(m) : /\ w[Len(t) + i] = m[i] /\ asked[w[Len(t) + i].q].kind = "managed"
                            /\ Len(t) + i \in 1 .. Len(w)
                            /\ <<w[Len(t) + i].id, w[Len(t) + i].q>> \in Owners(t) /\ w[Len(t) + i].q \in Nat
  <2> SUFFICES ASSUME NEW i \in 1 .. Len(m)
               PROVE  /\ w[Len(t) + i] = m[i] /\ asked[w[Len(t) + i].q].kind = "managed"
                      /\ Len(t) + i \in 1 .. Len(w)
                      /\ <<w[Len(t) + i].id, w[Len(t) + i].q>> \in Owners(t) /\ w[Len(t) + i].q \in Nat
    OBVIOUS
  <2>1. w[Len(t) + i] = m[i] /\ Len(t) + i \in 1 .. Len(w)
    <3>1. Len(t) + i \in 1 .. Len(t) + Len(m) /\ ~(Len(t) + i <= Len(t)) /\ (Len(t) + i) - Len(t) = i
      BY <1>1
    <3> QED BY <1>2, <3>1
  <2>2. m[i].q \in Nat
    BY <1>1, EntriesOnTrail
  <2>3. asked[m[i].q].kind = "managed"
    BY <1>3 DEF Untaken
  <2>4. <<m[i].id, m[i].q>> \in Owners(t)
    <3>1. <<m[i].id, m[i].q>> \in Keys(m)
      BY DEF Keys
    <3> QED BY <1>3, <3>1
  <2> QED BY <2>1, <2>2, <2>3, <2>4
<1>6. \A i \in 1 .. Len(w) : i \in 1 .. Len(t) \/ \E j \in 1 .. Len(m) : i = Len(t) + j
  <2> SUFFICES ASSUME NEW i \in 1 .. Len(w), ~(i <= Len(t)) PROVE \E j \in 1 .. Len(m) : i = Len(t) + j
    BY <1>1, <1>2
  <2>1. i - Len(t) \in 1 .. Len(m) /\ i = Len(t) + (i - Len(t))
    BY <1>1, <1>2
  <2> QED BY <2>1
<1>7. ASSUME NEW i \in 1 .. Len(w)
      PROVE  <<w[i].id, w[i].q>> \in Owners(t) /\ w[i].q \in Nat
  BY <1>4, <1>5, <1>6
<1>8. ASSUME NEW i \in 1 .. Len(w), NEW j \in 1 .. Len(w), i < j PROVE w[i].q # w[j].q
  <2>0. w[i].q \in Nat /\ w[j].q \in Nat
    BY <1>7
  <2>1. CASE i \in 1 .. Len(t) /\ j \in 1 .. Len(t)
    <3>1. t[i].q < t[j].q
      BY <1>3, <1>8, <2>1 DEF InOrder, Sorted
    <3>2. w[i] = t[i] /\ w[j] = t[j]
      BY <1>4, <2>1
    <3> QED BY <2>0, <3>1, <3>2
  <2>2. CASE i \in 1 .. Len(t) /\ j \notin 1 .. Len(t)
    <3>1. PICK b \in 1 .. Len(m) : j = Len(t) + b
      BY <1>6, <2>2
    <3>2. asked[w[i].q].kind # "managed" /\ asked[w[j].q].kind = "managed"
      BY <1>4, <1>5, <2>2, <3>1
    <3> QED BY <3>2
  <2>3. CASE i \notin 1 .. Len(t)
    <3>1. PICK a \in 1 .. Len(m) : i = Len(t) + a
      BY <1>6, <2>3
    <3>2. j \notin 1 .. Len(t)
      BY <1>1, <1>8, <3>1
    <3>3. PICK b \in 1 .. Len(m) : j = Len(t) + b
      BY <1>6, <3>2
    <3>4. a < b
      BY <1>1, <1>8, <3>1, <3>3
    <3>5. m[a].q < m[b].q
      BY <1>3, <3>4 DEF Untaken, Sorted
    <3>6. w[i] = m[a] /\ w[j] = m[b]
      BY <1>5, <3>1, <3>3
    <3> QED BY <2>0, <3>5, <3>6
  <2> QED BY <2>1, <2>2, <2>3
<1>9. ASSUME NEW i \in 1 .. Len(w), NEW j \in 1 .. Len(w), w[i].id = w[j].id PROVE i = j
  <2>1. PICK p, r : p = <<w[i].id, w[i].q>> /\ r = <<w[j].id, w[j].q>>
    OBVIOUS
  <2>2. p \in Owners(t) /\ r \in Owners(t) /\ p[1] = r[1]
    BY <1>7, <1>9, <2>1
  <2>3. p = r
    BY <1>3, <2>2 DEF Holds
  <2>4. w[i].q = w[j].q
    BY <2>1, <2>3
  <2> QED BY <1>1, <1>2, <1>8, <2>4
<1>10. ASSUME NEW i \in 1 .. Len(w)
       PROVE  w[i].id \in DOMAIN queryMap /\ queryMap[w[i].id] = asked[w[i].q].client
  <2>1. PICK p : p = <<w[i].id, w[i].q>>
    OBVIOUS
  <2>2. p[1] \in DOMAIN queryMap /\ queryMap[p[1]] = asked[p[2]].client
    BY <1>3, <1>7, <2>1 DEF Holds
  <2> QED BY <2>1, <2>2
<1>11. ASSUME NEW id \in DOMAIN queryMap PROVE \E i \in 1 .. Len(w) : w[i].id = id
  <2>1. PICK p \in Owners(t) : p[1] = id
    BY <1>3 DEF Holds
  <2>2. CASE p \in Keys(t)
    <3>1. PICK i \in 1 .. Len(t) : p = <<t[i].id, t[i].q>>
      BY <2>2 DEF Keys
    <3> QED BY <1>4, <2>1, <3>1
  <2>3. CASE p \in Keys(m)
    <3>1. PICK i \in 1 .. Len(m) : p = <<m[i].id, m[i].q>>
      BY <2>3 DEF Keys
    <3> QED BY <1>5, <2>1, <3>1
  <2> QED BY <1>3, <2>2, <2>3
<1>12. DOMAIN queryMap = {w[i].id : i \in 1 .. Len(w)}
  BY <1>10, <1>11
<1> QED BY <1>2, <1>9, <1>10, <1>12 DEF OwnIds

(* The map is what qreceiver.cpp:259 keeps it for, managed queries, stops  *)
(* and failures included, until an id is given out that is in use: every   *)
(* query between its id and its response finds its own client under an id  *)
(* of its own, and the map holds nothing else but a query the forwarder    *)
(* has abandoned.                                                          *)
THEOREM TrackedHolds == Spec => []Tracked
<1>1. RelayInv => Tracked
  <2> SUFFICES ASSUME RelayInv, ~reused
               PROVE  /\ \A e \in EntriesOf(Pending) : /\ e.id \in DOMAIN queryMap
                                                       /\ queryMap[e.id] = asked[e.q].client
                      /\ Cardinality({e.id : e \in EntriesOf(Pending)}) = Len(Pending)
                      /\ Cardinality(DOMAIN queryMap) - Len(Pending) \in Abandoned
    BY DEF Tracked
  <2>1. PICK lost \in Drops, t \in Seq(Entries) : t = Trail(lost) /\ Bounded(lost) /\ Ledger(t)
    BY DEF RelayInv, Kept
  <2>2. TypeInv /\ Receipts
    BY DEF RelayInv, LoadInv
  <2>3. PICK w, z : w = t \o managedQueue.items /\ z = Pending
    OBVIOUS
  <2>4. /\ w \in Seq(Entries)
        /\ \A i \in 1 .. Len(w) : w[i].id \in DOMAIN queryMap /\ queryMap[w[i].id] = asked[w[i].q].client
        /\ \A i, j \in 1 .. Len(w) : w[i].id = w[j].id => i = j
        /\ DOMAIN queryMap = {w[i].id : i \in 1 .. Len(w)}
    <3>1. OwnIds(w)
      BY <2>1, <2>2, <2>3, AllOwnIds
    <3> QED BY <3>1 DEF OwnIds
  <2>5. z \in Seq(Entries) /\ Len(w) = Len(z) + Len(lost) /\ Len(lost) \in 0 .. 1 /\ Len(z) \in Nat
    <3>1. z \in Seq(Entries) /\ Len(w) = Len(z) + Len(lost) /\ Len(lost) \in 0 .. 1
      BY <2>1, <2>2, <2>3, TrailHoldsPending, TrailParts
    <3> QED BY <3>1
  <2>6. PICK n \in Nat : \A i \in 1 .. Len(z) : z[i] = w[IF i <= n THEN i ELSE i + Len(lost)]
    <3>1. Within(z, w, Len(lost))
      BY <2>1, <2>2, <2>3, TrailHoldsPending
    <3> QED BY <3>1 DEF Within
  <2>7. ASSUME NEW i \in 1 .. Len(z)
        PROVE  (IF i <= n THEN i ELSE i + Len(lost)) \in 1 .. Len(w)
    BY <2>5
  <2>8. ASSUME NEW i \in 1 .. Len(z), NEW j \in 1 .. Len(z), z[i].id = z[j].id PROVE i = j
    <3>1. PICK k, l : k = (IF i <= n THEN i ELSE i + Len(lost)) /\ l = (IF j <= n THEN j ELSE j + Len(lost))
      OBVIOUS
    <3>2. k \in 1 .. Len(w) /\ l \in 1 .. Len(w)
      BY <2>7, <3>1
    <3>3. z[i] = w[k] /\ z[j] = w[l]
      BY <2>6, <3>1
    <3>4. k = l
      BY <2>4, <2>8, <3>2, <3>3
    <3> QED BY <2>5, <3>1, <3>4
  <2>9. \A e \in EntriesOf(z) : e.id \in DOMAIN queryMap /\ queryMap[e.id] = asked[e.q].client
    <3> SUFFICES ASSUME NEW i \in 1 .. Len(z)
                 PROVE  z[i].id \in DOMAIN queryMap /\ queryMap[z[i].id] = asked[z[i].q].client
      BY <2>5 DEF EntriesOf
    <3>1. PICK k \in 1 .. Len(w) : z[i] = w[k]
      BY <2>6, <2>7
    <3> QED BY <2>4, <3>1
  <2>10. Cardinality({e.id : e \in EntriesOf(z)}) = Len(z)
    <3>1. {e.id : e \in EntriesOf(z)} = {z[i].id : i \in 1 .. Len(z)}
      BY <2>5 DEF EntriesOf
    <3>2. Cardinality({z[i].id : i \in 1 .. Len(z)}) = Len(z)
      BY <2>5, <2>8, CountIds
    <3> QED BY <3>1, <3>2
  <2>11. Cardinality(DOMAIN queryMap) = Len(w)
    BY <2>4, CountIds
  <2>12. Len(lost) \in Abandoned
    <3>1. lost = <<>> => Len(lost) = 0
      BY EmptySeq
    <3> QED BY <2>1, <2>5, <3>1 DEF Bounded, Abandoned
  <2>13. Cardinality(DOMAIN queryMap) - Len(z) = Len(lost)
    BY <2>5, <2>11
  <2> QED BY <2>3, <2>9, <2>10, <2>12, <2>13
<1> QED BY <1>1, RelayInvariant, PTL

(* Whoever has the id that is given out again got it IdCount ids ago.      *)
LEMMA FirstReuse ==
  ASSUME RelayInv, [Next]_vars, ~reused, reused', NEW lost \in Drops, NEW t \in Seq(Entries), Ledger(t)
  PROVE  HandleIncomingUDP /\ \E p \in Owners(t) : Age(p[1]) = IdCount - 1
<1>1. TypeInv /\ Receipts
  BY DEF RelayInv, LoadInv
<1>2. HandleIncomingUDP /\ NextId \in DOMAIN queryMap
  BY Reusing
<1>3. Holds(Owners(t))
  BY DEF Ledger, Numbered
<1>4. PICK p \in Owners(t) : p[1] = NextId
  BY <1>2, <1>3 DEF Holds
<1>5. PICK id \in Ids : id = NextId
  BY <1>1, NextIdOK DEF TypeInv
<1>6. Age(id) = IdCount - 1
  BY <1>1, <1>2, <1>5, Aging DEF HandleIncomingUDP
<1> QED BY <1>2, <1>4, <1>5, <1>6

(* Without managed queries and abandoned ones, an id is given out that is  *)
(* in use only when IdCount queries are in flight (qreceiver.cpp:261).     *)
THEOREM ReuseHolds == Spec => ReuseNeedsLoad
<1>1. ASSUME RelayInv, [Next]_vars, ~reused, reused', managedQueue.items = <<>>, Abandoned = {0}
      PROVE  Len(InFlight) >= IdCount
  <2>1. PICK lost \in Drops, t \in Seq(Entries) : t = Trail(lost) /\ Bounded(lost) /\ Ledger(t)
    BY <1>1 DEF RelayInv, Kept
  <2>2. TypeInv
    BY <1>1 DEF RelayInv, LoadInv
  <2>3. PICK p \in Owners(t) : Age(p[1]) = IdCount - 1
    BY <1>1, <2>1, FirstReuse
  <2>4. p \in Keys(t)
    <3>1. Keys(<<>>) = {}
      BY EmptySeq DEF Keys
    <3> QED BY <1>1, <2>3, <3>1 DEF Owners
  <2>5. PICK i \in 1 .. Len(t) : p = <<t[i].id, t[i].q>>
    BY <2>4 DEF Keys
  <2>6. Age(t[i].id) = Len(t) - i
    BY <1>1, <2>1 DEF Ledger, Numbered, Consecutive
  <2>7. lost = <<>>
    <3>1. 1 \notin Abandoned
      BY <1>1
    <3> QED BY <2>1, <3>1 DEF Bounded, Abandoned
  <2>8. Len(lost) = 0 /\ Load \in Nat
    BY <2>2, <2>7, EmptySeq, Numbers DEF Load
  <2>9. Len(t) = Len(InFlight)
    BY <2>1, <2>2, <2>8, TrailLength, LoadIsInFlight
  <2>10. Len(t) \in Nat
    OBVIOUS
  <2> QED BY <2>3, <2>5, <2>6, <2>9, <2>10, IdAssumption
<1>2. RelayInv /\ [Next]_vars =>
        [(~reused /\ reused' /\ managedQueue.items = <<>> /\ Abandoned = {0}) => Len(InFlight) >= IdCount]_vars
  BY <1>1
<1> QED BY <1>2, RelayInvariant, PTL DEF Spec, ReuseNeedsLoad
-----------------------------------------------------------------------------
(* The steps of the pipeline as the clients see them.                      *)
LEMMA RelayStepOrStutter ==
  ASSUME RelayInv, [Next]_vars
  PROVE  [Relay!Next]_(Relay!vars)
<1> DEFINE asker == [i \in DOMAIN asked |-> asked[i].client]
<1>1. asked \in Seq(Requests) /\ replies \in [Queries -> Seq(Clients)] /\ TypeInv /\ reused \in BOOLEAN
  BY TypeParts DEF RelayInv, LoadInv, TypeInv
<1>2. /\ DOMAIN asked = 1 .. Len(asked) /\ Len(asked) \in Nat
      /\ \A i \in DOMAIN asked : asked[i] \in Requests
  BY <1>1
<1>3. asker \in Seq(Clients) /\ Len(asker) = Len(asked)
  BY <1>2 DEF Requests
<1>4. ASSUME NEW c \in Clients, NEW k \in Kinds, Arrive(c, k)
      PROVE  Relay!Ask(c)
  <2>1. /\ Len(asked) < MaxQueries /\ asked' = Append(asked, [client |-> c, kind |-> k])
        /\ UNCHANGED <<replies, reused>>
    BY <1>4 DEF Arrive
  <2>2. /\ DOMAIN asked' = 1 .. Len(asked) + 1
        /\ \A i \in 1 .. Len(asked) : asked'[i] = asked[i]
        /\ asked'[Len(asked) + 1].client = c
    BY <1>1, <1>2, <2>1 DEF Requests
  <2>3. asker' = Append(asker, c)
    <3>1. asker' \in [1 .. Len(asked) + 1 -> Clients]
      BY <1>2, <2>2 DEF Requests
    <3>2. Append(asker, c) \in [1 .. Len(asked) + 1 -> Clients]
      <4> HIDE DEF asker
      <4>1. Append(asker, c) \in Seq(Clients) /\ Len(Append(asker, c)) = Len(asked) + 1
        BY <1>3, AppendProperties
      <4> QED BY <4>1, LenProperties
    <3>3. ASSUME NEW i \in 1 .. Len(asked) + 1 PROVE asker'[i] = Append(asker, c)[i]
      <4>1. CASE i = Len(asked) + 1
        BY <1>2, <1>3, <2>2, <4>1
      <4>2. CASE i \in 1 .. Len(asked)
        BY <1>2, <1>3, <2>2, <4>2
      <4> QED BY <1>2, <4>1, <4>2
    <3> QED BY <3>1, <3>2, <3>3
  <2> QED BY <1>3, <2>1, <2>3 DEF Relay!Ask
<1>5. ASSUME NEW q \in Queries, NEW r \in DOMAIN asked, q \in DOMAIN asked, NoReplyFrom(q),
             UNCHANGED <<asked, reused>>, ~reused => r = q,
             replies' = [replies EXCEPT ![q] = <<asked[r].client>>]
      PROVE  Relay!Reply(q, r)
  <2>1. q \in DOMAIN asker /\ r \in DOMAIN asker /\ asker[r] = asked[r].client /\ UNCHANGED asker
    BY <1>5
  <2>2. \A p \in q .. MaxQueries : replies[p] = <<>>
    BY <1>5, MaxAssumption DEF NoReplyFrom, Queries
  <2> QED BY <1>5, <2>1, <2>2 DEF Relay!Reply
<1>6. ASSUME ~reused, reused' PROVE Relay!Lapse
  <2>1. PICK lost \in Drops, t \in Seq(Entries) : t = Trail(lost) /\ Bounded(lost) /\ Ledger(t)
    BY DEF RelayInv, Kept
  <2>2. HandleIncomingUDP
    BY <1>6, <2>1, FirstReuse
  <2>3. PICK p \in Owners(t) : Age(p[1]) = IdCount - 1
    BY <1>6, <2>1, FirstReuse
  <2>4. p[2] \in Queries /\ p[2] \in Nat /\ replies[p[2]] = <<>>
    BY <1>1, <2>1, <2>3, OwnersWait DEF RelayInv, Ledger
  <2>5. Aged(Owners(t))
    BY <1>6, <2>1 DEF Ledger, Numbered
  <2>6. p[2] + (IdCount - 1) <= Len(asked) - Len(inbox)
    BY <2>3, <2>5 DEF Aged
  <2>7. Len(inbox) \in Nat \ {0}
    <3>1. inbox # <<>> /\ inbox \in Seq(1 .. Len(asked))
      BY <1>1, <2>2, TypeParts DEF TypeInv, InHand, HandleIncomingUDP
    <3> QED BY <3>1
  <2>8. p[2] + IdCount <= Len(asked)
    BY <1>2, <2>4, <2>6, <2>7, IdAssumption
  <2>9. Relay!Overdue(p[2]) /\ p[2] \in Relay!Queries
    BY <1>3, <2>4, <2>8 DEF Relay!Overdue, Relay!Queries, Queries
  <2>10. UNCHANGED <<asked, replies>>
    BY <2>2 DEF HandleIncomingUDP
  <2> QED BY <1>6, <2>9, <2>10 DEF Relay!Lapse
<1>7. CASE \E c \in Clients, k \in Kinds : Arrive(c, k)
  BY <1>4, <1>7 DEF Relay!Next
<1>8. CASE ~UNCHANGED replies
  <2>1. PICK q \in Queries, r \in DOMAIN asked :
             /\ q \in DOMAIN asked /\ NoReplyFrom(q) /\ UNCHANGED <<asked, reused>>
             /\ ~reused => r = q
             /\ replies' = [replies EXCEPT ![q] = <<asked[r].client>>]
    BY <1>8, Replying
  <2>2. q \in Relay!Queries /\ r \in Relay!Queries
    <3>1. r \in 1 .. Len(asked) /\ Len(asked) <= MaxQueries
      BY <1>1, <1>2, TypeParts DEF TypeInv
    <3> QED BY <1>2, <3>1, MaxAssumption DEF Relay!Queries, Queries
  <2>3. Relay!Reply(q, r)
    BY <1>5, <2>1
  <2> QED BY <2>2, <2>3 DEF Relay!Next
<1>9. CASE UNCHANGED replies /\ ~ \E c \in Clients, k \in Kinds : Arrive(c, k)
  <2>1. UNCHANGED asked
    BY <1>9 DEF Next, vars, ReceiverStep, ReceiverFails, Poll, SkipDatagram, HandleIncomingUDP, WriteQuery,
       TakeResponse, SendReply, DropReply, ReadResponse, ReceiverStops, ForwarderStep, ForwarderFails, TakeQuery,
       ReadQuery, Resolve, WriteResponse, GiveUpStopping, AbandonQuery, ForwarderStops, AskToStop
  <2>2. UNCHANGED reused \/ (~reused /\ reused')
    BY <1>1, Reusing
  <2>3. CASE UNCHANGED reused
    BY <1>9, <2>1, <2>3 DEF Relay!vars
  <2>4. CASE ~reused /\ reused'
    BY <1>6, <2>4 DEF Relay!Next
  <2> QED BY <2>2, <2>3, <2>4
<1> QED BY <1>7, <1>8, <1>9

(* The whole pipeline, ids, queues and threads, is a relay that answers in *)
(* order, at most once, and to the client that asked as long as no query   *)
(* waits while IdCount later ones come.                                    *)
THEOREM RefinesRelay == Spec => ImplementsRelay
<1>1. Init => Relay!Init
  BY DEF Init, Relay!Init, Relay!Queries, Queries
<1>2. RelayInv /\ [Next]_vars => [Relay!Next]_(Relay!vars)
  BY RelayStepOrStutter
<1> QED BY <1>1, <1>2, RelayInvariant, PTL DEF Spec, ImplementsRelay, Relay!Spec
=============================================================================
