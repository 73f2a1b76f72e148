-------------------------- MODULE DnsMessageProofs --------------------------
(***************************************************************************)
(* Proofs about DnsMessage, for any messages, any garbage and any size of  *)
(* the buffer.  Decoding ends on every string of bytes; and of a message   *)
(* of plain names and records, what encoding puts, decoding gets, but for  *)
(* labels that follow a name when links to the root are behind it.         *)
(***************************************************************************)
EXTENDS DnsMessage, SequenceTheorems, FiniteSetTheorems, TLAPS

ByteString == Seq(0 .. 255)

(* A range of bytes inside the buffer is a byte string of its length.      *)
LEMMA BytesType ==
  ASSUME NEW b \in ByteString, NEW p \in Nat, NEW n \in Nat, p + n <= Len(b)
  PROVE  /\ Bytes(b, p, n) \in ByteString
         /\ Len(Bytes(b, p, n)) = n
         /\ \A i \in 1 .. n : Bytes(b, p, n)[i] = b[p + i]
<1>1. b \in Seq(0 .. 255) /\ Len(b) \in Nat BY DEF ByteString
<1>2. \A i \in (p + 1) .. (p + n) : i \in 1 .. Len(b) BY <1>1
<1>3. \A i \in (p + 1) .. (p + n) : b[i] \in 0 .. 255 BY <1>1, <1>2, ElementOfSeq
<1>4. SubSeq(b, p + 1, p + n) \in Seq(0 .. 255) BY <1>1, <1>3, SubSeqProperties
<1>5. Len(SubSeq(b, p + 1, p + n)) = n BY <1>1, <1>2, SubSeqProperties
<1>6. \A i \in 1 .. n : SubSeq(b, p + 1, p + n)[i] = b[p + i] BY <1>1, <1>2, SubSeqProperties
<1>7. QED BY <1>4, <1>5, <1>6 DEF Bytes, ByteString

(* What LabelsAt returns.                                                  *)
Pieces == [labels : Seq(ByteString), stop : Nat]

(* One round of reading labels: nothing, or one label and what follows it. *)
LEMMA GetLabelsCases ==
  ASSUME NEW b, NEW rest, NEW p \in Nat
  PROVE  /\ ~IsLabel(b, p) => GetLabels(b, rest)[p] = NoLabels(p)
         /\ IsLabel(b, p) =>
              GetLabels(b, rest)[p] =
                [labels |-> <<Bytes(b, p + 1, Byte(b, p))>> \o rest[p + 1 + Byte(b, p)].labels,
                 stop |-> rest[p + 1 + Byte(b, p)].stop]
BY DEF GetLabels

(* Without labels, too, the result is one of Pieces.                       *)
LEMMA NoLabelsType == \A p \in Nat : NoLabels(p) \in Pieces
<1>1. <<>> \in Seq(ByteString) BY EmptySeq
<1>2. QED BY <1>1 DEF NoLabels, Pieces

(* A round of reading labels keeps the results among Pieces.               *)
LEMMA GetLabelsType ==
  ASSUME NEW b \in ByteString, NEW rest, \A q \in Nat : rest[q] \in Pieces, NEW p \in Nat
  PROVE  GetLabels(b, rest)[p] \in Pieces
<1>1. CASE ~IsLabel(b, p)
  <2>1. GetLabels(b, rest)[p] = NoLabels(p) BY <1>1, GetLabelsCases
  <2>2. QED BY <2>1, NoLabelsType
<1>2. CASE IsLabel(b, p)
  <2> DEFINE code == Byte(b, p)
             following == rest[p + 1 + code]
  <2>1. code \in Nat /\ p + 1 + code \in Nat /\ p + 1 + code <= Len(b) BY <1>2 DEF IsLabel
  <2>2. Bytes(b, p + 1, code) \in ByteString BY <2>1, BytesType
  <2>3. following \in Pieces BY <2>1
  <2>4. GetLabels(b, rest)[p] = [labels |-> <<Bytes(b, p + 1, code)>> \o following.labels,
                                 stop |-> following.stop]
    BY <1>2, GetLabelsCases
  <2> HIDE DEF code, following
  <2>5. following.labels \in Seq(ByteString) /\ following.stop \in Nat BY <2>3 DEF Pieces
  <2>6. <<Bytes(b, p + 1, code)>> \in Seq(ByteString) BY <2>2
  <2>7. <<Bytes(b, p + 1, code)>> \o following.labels \in Seq(ByteString)
    BY <2>5, <2>6, ConcatProperties
  <2>8. QED BY <2>4, <2>5, <2>7 DEF Pieces
<1>3. QED BY <1>1, <1>2

(* Reading labels ends at the place where it began, or behind it.          *)
LEMMA LabelsAtType ==
  ASSUME NEW b \in ByteString, NEW p \in Nat
  PROVE  LabelsAt(b, p) \in Pieces /\ LabelsAt(b, p).stop >= p
<1> DEFINE it == LabelLoop!Iterate(b, [q \in Nat |-> NoLabels(q)])
           Good == {n \in Nat : \A q \in Nat : it[n][q] \in Pieces /\ it[n][q].stop >= q}
<1>1. it[0] = [q \in Nat |-> NoLabels(q)] /\ \A n \in Nat : it[n + 1] = GetLabels(b, it[n])
  BY LabelLoop!IterateSteps
<1> HIDE DEF it
<1>2. 0 \in Good
  <2>1. \A q \in Nat : it[0][q] = NoLabels(q) /\ NoLabels(q).stop >= q BY <1>1 DEF NoLabels
  <2>2. QED BY <2>1, NoLabelsType
<1>3. ASSUME NEW n \in Nat, n \in Good PROVE n + 1 \in Good
  <2>1. \A q \in Nat : GetLabels(b, it[n])[q] \in Pieces BY <1>3, GetLabelsType
  <2>2. ASSUME NEW q \in Nat PROVE GetLabels(b, it[n])[q].stop >= q
    <3>1. CASE ~IsLabel(b, q)
      <4>1. GetLabels(b, it[n])[q] = NoLabels(q) BY <3>1 DEF GetLabels
      <4>2. QED BY <4>1 DEF NoLabels
    <3>2. CASE IsLabel(b, q)
      <4> DEFINE next == q + 1 + Byte(b, q)
      <4>1. next \in Nat /\ next >= q BY <3>2 DEF IsLabel
      <4>2. GetLabels(b, it[n])[q] =
              [labels |-> <<Bytes(b, q + 1, Byte(b, q))>> \o it[n][next].labels,
               stop |-> it[n][next].stop]
        BY <3>2, GetLabelsCases
      <4> HIDE DEF next
      <4>3. it[n][next].stop \in Nat /\ it[n][next].stop >= next BY <1>3, <4>1 DEF Pieces
      <4>4. QED BY <4>1, <4>2, <4>3
    <3>3. QED BY <3>1, <3>2
  <2>3. QED BY <1>1, <2>1, <2>2
<1>4. \A n \in Nat : n \in Good BY <1>2, <1>3, LabelLoop!Induction
<1>5. Len(b) \in Nat BY DEF ByteString
<1>6. QED BY <1>4, <1>5 DEF LabelsAt, it

(* A link leads to a position.                                             *)
LEMMA LinkTargetType ==
  ASSUME NEW b \in ByteString, NEW p \in Nat, IsLink(b, p)
  PROVE  LinkTarget(b, p) \in Nat
<1>1. p + 1 \in 1 .. Len(b) /\ p + 2 \in 1 .. Len(b) BY DEF IsLink, ByteString
<1>2. b[p + 1] \in 0 .. 255 /\ b[p + 2] \in 0 .. 255 BY <1>1, ElementOfSeq DEF ByteString
<1>3. (p + 1) + 1 = p + 2 OBVIOUS
<1>4. Byte(b, p) \in Nat /\ Byte(b, p + 1) \in Nat BY <1>2, <1>3 DEF Byte
<1>5. Byte(b, p) - LinkTag \in Nat BY <1>4 DEF IsLink, LinkTag
<1>6. QED BY <1>4, <1>5 DEF LinkTarget

-----------------------------------------------------------------------------
(* There are at most n different positions below n.                        *)
LEMMA DistinctPositions ==
  ASSUME NEW n \in Nat, NEW k \in Nat, NEW s \in [1 .. k -> 0 .. n - 1],
         \A i, j \in 1 .. k : i # j => s[i] # s[j]
  PROVE  k <= n
<1>1. IsFiniteSet(1 .. k) /\ Cardinality(1 .. k) = k
  BY FS_Interval
<1>2. IsFiniteSet(0 .. n - 1) /\ Cardinality(0 .. n - 1) = n
  BY FS_Interval
<1>3. QED BY <1>1, <1>2, FS_PigeonHole

(* What a getter returned is a value with a position, an exception or      *)
(* undefined behaviour, but not the remainder of calls that are nested too *)
(* deep.                                                                   *)
Ends(got) == got # Endless /\ (got.ok => got.pos \in Nat)

(* What the getters return in the end.                                     *)
LEMMA EndsCases ==
  /\ Ends(Thrown)
  /\ \A val : \A pos \in Nat : Ends(Got(val, pos))
  /\ Ends(Failed("undefined"))
BY DEF Ends, Thrown, Got, Failed, Endless

(* The limit for names adds nothing but an exception.                      *)
LEMMA LimitedEnds == ASSUME NEW name, Ends(name) PROVE Ends(Limited(name))
BY EndsCases DEF Limited

(* Going back behind a link ends when the call behind the link does.       *)
LEMMA BehindLinkEnds ==
  ASSUME NEW b, NEW pos \in Nat, NEW domain, NEW link, Ends(link)
  PROVE  Ends(BehindLink(b, pos, domain, link))
<1>1. Ends(Limited(Got(JoinNames(domain, link.val), pos))) BY EndsCases, LimitedEnds
<1>2. QED BY <1>1, EndsCases DEF BehindLink

(* mLinkPos holds different positions of bytes when a call begins.         *)
Visited(b, linkPos) ==
  /\ linkPos \in Seq(Nat)
  /\ Len(linkPos) > 0
  /\ \A i \in 1 .. Len(linkPos) - 1 : linkPos[i] < Len(b)
  /\ \A i, j \in 1 .. Len(linkPos) - 1 : i # j => linkPos[i] # linkPos[j]

(* There are no more positions in mLinkPos than bytes in the buffer, but   *)
(* for the one at hand.                                                    *)
LEMMA VisitedBound ==
  ASSUME NEW b \in ByteString, NEW linkPos, Visited(b, linkPos)
  PROVE  Len(linkPos) - 1 <= Len(b)
<1> DEFINE k == Len(linkPos) - 1
           s == [i \in 1 .. k |-> linkPos[i]]
<1>1. k \in Nat /\ Len(b) \in Nat BY DEF Visited, ByteString
<1>2. \A i \in 1 .. k : linkPos[i] \in 0 .. Len(b) - 1
  <2>1. \A i \in 1 .. k : linkPos[i] \in Nat BY ElementOfSeq DEF Visited
  <2>2. QED BY <1>1, <2>1 DEF Visited
<1>3. s \in [1 .. k -> 0 .. Len(b) - 1] BY <1>2
<1>4. \A i, j \in 1 .. k : i # j => s[i] # s[j] BY DEF Visited
<1> HIDE DEF k, s
<1>5. k <= Len(b) BY <1>1, <1>3, <1>4, DistinctPositions
<1>6. QED BY <1>5 DEF k

(* getDnsDomainName (buffer.cpp:257-264) calls itself with a position      *)
(* more, and only after the test that the one at hand is new.              *)
LEMMA VisitedAppend ==
  ASSUME NEW b \in ByteString, NEW linkPos, Visited(b, linkPos), ~Repeated(linkPos),
         Last(linkPos) < Len(b), NEW p \in Nat
  PROVE  Visited(b, Append(linkPos, p)) /\ Len(Append(linkPos, p)) = Len(linkPos) + 1
<1> DEFINE k == Len(linkPos)
           s == Append(linkPos, p)
<1>1. linkPos \in Seq(Nat) /\ k \in Nat /\ k > 0 BY DEF Visited
<1>2. s \in Seq(Nat) /\ Len(s) = k + 1 /\ \A i \in 1 .. k : s[i] = linkPos[i]
  BY <1>1, AppendProperties
<1>3. Last(linkPos) = linkPos[k] BY DEF Last
<1>4. \A i \in 1 .. k : s[i] < Len(b)
  BY <1>1, <1>2, <1>3 DEF Visited
<1>5. \A i \in 1 .. k - 1 : linkPos[i] # linkPos[k] BY <1>3 DEF Repeated
<1>6. \A i, j \in 1 .. k : i # j => s[i] # s[j]
  <2> SUFFICES ASSUME NEW i \in 1 .. k, NEW j \in 1 .. k, i # j PROVE linkPos[i] # linkPos[j]
    BY <1>2
  <2>1. CASE i \in 1 .. k - 1 /\ j \in 1 .. k - 1 BY <2>1 DEF Visited
  <2>2. CASE i = k BY <1>1, <1>5, <2>2
  <2>3. CASE j = k BY <1>1, <1>5, <2>3
  <2>4. QED BY <1>1, <2>1, <2>2, <2>3
<1>7. Len(s) - 1 = k BY <1>1, <1>2
<1> HIDE DEF k, s
<1>8. Visited(b, s) BY <1>1, <1>2, <1>4, <1>6, <1>7 DEF Visited
<1>9. QED BY <1>2, <1>8 DEF k, s

(* A call of getDnsDomainName ends if the calls it makes do.               *)
LEMMA GetNameEnds ==
  ASSUME NEW b \in ByteString, NEW call, NEW linkPos, Visited(b, linkPos),
         \A p \in Nat : Visited(b, Append(linkPos, p)) => Ends(call[Append(linkPos, p)])
  PROVE  Ends(GetName(b, call)[linkPos])
<1> DEFINE here == LabelsAt(b, Last(linkPos))
           p == here.stop
<1>1. linkPos \in Seq(Nat) /\ Len(linkPos) \in Nat /\ Len(linkPos) > 0 BY DEF Visited
<1>2. Last(linkPos) \in Nat BY <1>1, ElementOfSeq DEF Last
<1>3. p \in Nat /\ p >= Last(linkPos) BY <1>2, LabelsAtType DEF Pieces
<1>4. GetName(b, call)[linkPos] =
        IF Repeated(linkPos) THEN Thrown ELSE GetEnd(b, here.labels, p, linkPos, call)
  BY <1>1 DEF GetName
<1>5. Len(b) \in Nat BY DEF ByteString
<1> HIDE DEF here, p
<1>6. ASSUME ~Repeated(linkPos), IsLink(b, p)
      PROVE  Ends(GetLink(b, p, here.labels, linkPos, call))
  <2> DEFINE target == LinkTarget(b, p)
  <2>1. target \in Nat BY <1>3, <1>6, LinkTargetType
  <2>2. Last(linkPos) < Len(b) BY <1>2, <1>3, <1>5, <1>6 DEF IsLink
  <2>3. Visited(b, Append(linkPos, target)) BY <1>6, <2>1, <2>2, VisitedAppend
  <2>4. Ends(call[Append(linkPos, target)]) BY <2>1, <2>3
  <2>5. p + 2 \in Nat BY <1>3
  <2>6. Ends(BehindLink(b, p + 2, here.labels, call[Append(linkPos, target)]))
    BY <2>4, <2>5, BehindLinkEnds
  <2>7. QED BY <2>6, EndsCases DEF GetLink
<1>7. ~IsLink(b, p) => Ends(GetLink(b, p, here.labels, linkPos, call))
  BY EndsCases DEF GetLink
<1>8. p + 1 \in Nat BY <1>3
<1>9. Ends(Limited(Got(here.labels, p + 1))) BY <1>8, EndsCases, LimitedEnds
<1>10. ~Repeated(linkPos) => Ends(GetEnd(b, here.labels, p, linkPos, call))
  BY <1>6, <1>7, <1>9, EndsCases DEF GetEnd
<1>11. QED BY <1>4, <1>10, EndsCases

(* Reading a name ends on every byte string, wherever its links lead       *)
(* (buffer.cpp:253-332): each nested call has visited one position more,   *)
(* and there are only as many as bytes.                                    *)
LEMMA GetDnsDomainNameEnds ==
  ASSUME NEW b \in ByteString, NEW p \in Nat
  PROVE  Ends(GetDnsDomainName(b, p))
<1> DEFINE it == GetNameCalls!Iterate(b, [linkPos \in Seq(Nat) |-> Endless])
           Deep(n) == \A s : Visited(b, s) /\ Len(s) + n > Len(b) + 1 => Ends(it[n][s])
           Good == {n \in Nat : Deep(n)}
<1>1. it[0] = [linkPos \in Seq(Nat) |-> Endless] /\ \A n \in Nat : it[n + 1] = GetName(b, it[n])
  BY GetNameCalls!IterateSteps
<1>2. Len(b) \in Nat BY DEF ByteString
<1> HIDE DEF it
<1>3. Deep(0)
  <2>1. ASSUME NEW s, Visited(b, s), Len(s) + 0 > Len(b) + 1 PROVE FALSE
    <3>1. Len(s) \in Nat /\ Len(s) - 1 <= Len(b) BY <2>1, VisitedBound DEF Visited
    <3>2. QED BY <1>2, <2>1, <3>1
  <2>2. QED BY <2>1
<1>4. ASSUME NEW n \in Nat, Deep(n) PROVE Deep(n + 1)
  <2> SUFFICES ASSUME NEW s, Visited(b, s), Len(s) + (n + 1) > Len(b) + 1
               PROVE  Ends(it[n + 1][s])
    OBVIOUS
  <2>1. Len(s) \in Nat /\ s \in Seq(Nat) BY DEF Visited
  <2>2. ASSUME NEW q \in Nat, Visited(b, Append(s, q)) PROVE Ends(it[n][Append(s, q)])
    <3>1. Len(Append(s, q)) = Len(s) + 1 BY <2>1, AppendProperties
    <3>2. Len(Append(s, q)) + n > Len(b) + 1 BY <1>2, <2>1, <3>1
    <3>3. QED BY <1>4, <2>2, <3>2
  <2>3. Ends(GetName(b, it[n])[s]) BY <2>2, GetNameEnds
  <2>4. QED BY <1>1, <2>3
<1>5. \A n \in Nat : n \in Good
  <2> HIDE DEF Deep
  <2>1. 0 \in Good BY <1>3
  <2>2. \A n \in Nat : n \in Good => n + 1 \in Good BY <1>4
  <2>3. QED BY <2>1, <2>2, GetNameCalls!Induction
<1>6. Visited(b, <<p>>) /\ Len(<<p>>) = 1 BY DEF Visited
<1>7. Deep(Len(b) + 1) BY <1>2, <1>5
<1> DEFINE s == <<p>>
<1> HIDE DEF s
<1>8. Ends(it[Len(b) + 1][s]) 
  <2>1. Visited(b, s) /\ Len(s) + (Len(b) + 1) > Len(b) + 1 BY <1>2, <1>6 DEF s
  <2>2. QED BY <1>7, <2>1
<1>9. QED BY <1>8 DEF GetDnsDomainName, it, s

-----------------------------------------------------------------------------
(* Buffer::getBytes ends (buffer.cpp:215-222).                             *)
LEMMA GetBytesEnds ==
  ASSUME NEW b, NEW p \in Nat, NEW n \in Int, p + n \in Nat
  PROVE  Ends(GetBytes(b, p, n))
BY EndsCases DEF GetBytes

(* A byte inside the buffer is a byte.                                     *)
LEMMA ByteType ==
  ASSUME NEW b \in ByteString, NEW p \in Nat, p < Len(b)
  PROVE  Byte(b, p) \in 0 .. 255 /\ Byte(b, p) \in Nat
<1>1. p + 1 \in 1 .. Len(b) BY DEF ByteString
<1>2. b[p + 1] \in 0 .. 255 BY <1>1, ElementOfSeq DEF ByteString
<1>3. \A x \in 0 .. 255 : x \in Nat OBVIOUS
<1>4. QED BY <1>2, <1>3, Zenon DEF Byte

(* Two bytes inside the buffer are a number.                               *)
LEMMA Get16Type ==
  ASSUME NEW b \in ByteString, NEW p \in Nat, p + 1 < Len(b)
  PROVE  Get16(b, p) \in Nat
<1>1. Byte(b, p) \in Nat /\ Byte(b, p + 1) \in Nat
  <2>1. p + 1 \in Nat /\ p < Len(b) BY DEF ByteString
  <2>2. QED BY <2>1, ByteType
<1>2. QED BY <1>1 DEF Get16

(* Buffer::getDnsCharacterString ends (buffer.cpp:235-245).                *)
LEMMA GetStringEnds ==
  ASSUME NEW b \in ByteString, NEW p \in Nat
  PROVE  Ends(GetString(b, p))
<1>1. CASE p < Len(b)
  <2>1. Byte(b, p) \in Nat BY <1>1, ByteType
  <2>2. p + 1 \in Nat /\ p + 1 + Byte(b, p) \in Nat BY <2>1
  <2>3. Ends(GetBytes(b, p + 1, Byte(b, p))) BY <2>1, <2>2, GetBytesEnds
  <2>4. QED BY <2>3, EndsCases DEF GetString
<1>2. CASE ~(p < Len(b))
  <2>1. Len(b) \in Nat BY DEF ByteString
  <2>2. QED BY <1>2, <2>1, EndsCases DEF GetString
<1>3. QED BY <1>1, <1>2

(* A loop ends its round when the getter called in it does.                *)
LEMMA AnotherEnds ==
  ASSUME NEW so, NEW item, Ends(item)
  PROVE  Ends(Another(so, item))
<1>1. CASE item.ok BY <1>1, EndsCases DEF Another, Ends
<1>2. CASE ~item.ok BY <1>2 DEF Another
<1>3. QED BY <1>1, <1>2

(* RDataTXT::decode ends (rr.cpp:272-279).                                 *)
LEMMA GetStringsEnds ==
  ASSUME NEW b \in ByteString, NEW p \in Nat, NEW end
  PROVE  Ends(GetStrings(b, p, end))
<1> DEFINE from == [b |-> b, end |-> end]
           it == StringLoop!Iterate(from, Got(<<>>, p))
           Good == {n \in Nat : Ends(it[n])}
<1>1. it[0] = Got(<<>>, p) /\ \A n \in Nat : it[n + 1] = NextString(from, it[n])
  BY StringLoop!IterateSteps
<1>2. from.b = b OBVIOUS
<1> HIDE DEF it, from
<1>3. 0 \in Good BY <1>1, EndsCases
<1>4. ASSUME NEW n \in Nat, n \in Good PROVE n + 1 \in Good
  <2> DEFINE so == it[n]
  <2>1. Ends(so) BY <1>4
  <2> HIDE DEF so
  <2>2. CASE ~so.ok
    <3>1. NextString(from, so) = so BY <2>2 DEF NextString
    <3>2. QED BY <1>1, <1>4, <3>1 DEF so
  <2>3. CASE so.ok
    <3>1. so.pos \in Nat BY <2>1, <2>3 DEF Ends
    <3>2. Ends(Another(so, GetString(b, so.pos))) BY <3>1, GetStringEnds, AnotherEnds
    <3>3. NextString(from, so) = so \/ NextString(from, so) = Another(so, GetString(b, so.pos))
      BY <1>2 DEF NextString
    <3>4. Ends(NextString(from, so)) BY <2>1, <3>2, <3>3
    <3>5. QED BY <1>1, <3>4 DEF so
  <2>4. QED BY <2>2, <2>3
<1>5. \A n \in Nat : n \in Good BY <1>3, <1>4, StringLoop!Induction
<1>6. Len(b) \in Nat BY DEF ByteString
<1>7. QED BY <1>5, <1>6 DEF GetStrings, it, from

(* Joining strings ends, possibly in undefined behaviour (rr.cpp:454-461). *)
LEMMA JoinStringsEnds ==
  ASSUME NEW so, Ends(so) PROVE Ends(JoinStrings(so))
<1>1. CASE ~so.ok BY <1>1 DEF JoinStrings
<1>2. CASE so.ok
  <2>1. so.pos \in Nat BY <1>2 DEF Ends
  <2>2. QED BY <1>2, <2>1, EndsCases DEF JoinStrings
<1>3. QED BY <1>1, <1>2

(* RDataSRV::decode ends (rr.cpp:445-462).                                 *)
LEMMA GetJoinedEnds ==
  ASSUME NEW b \in ByteString, NEW p \in Nat, NEW end
  PROVE  Ends(GetJoined(b, p, end))
<1>1. Ends(JoinStrings(GetStrings(b, p, end))) BY GetStringsEnds, JoinStringsEnds
<1>2. QED BY <1>1, EndsCases DEF GetJoined

(* A field of a record's data.                                             *)
IsField(field) ==
  /\ field.kind \in {"name", "plain", "string", "strings", "joined", "bytes", "rest"}
  /\ field.size \in Nat

(* The data of every type of record consists of fields.                    *)
LEMMA FieldsType ==
  ASSUME NEW type
  PROVE  /\ Len(Fields("proxy", type)) \in Nat
         /\ \A i \in 1 .. Len(Fields("proxy", type)) : IsField(Fields("proxy", type)[i])
<1> DEFINE All == [kind : {"name", "plain", "string", "strings", "joined", "bytes", "rest"}, size : Nat]
<1>1. \A kind \in {"name", "plain", "string", "strings", "joined", "rest"} : Field(kind) \in All
  BY DEF Field
<1>2. \A n \in Nat : Fixed(n) \in All BY DEF Fixed
<1> HIDE DEF All
<1>3. /\ RDataWithName \in Seq(All) /\ RDataHINFO \in Seq(All) /\ RDataMINFO \in Seq(All)
      /\ RDataMX \in Seq(All) /\ RDataNULL \in Seq(All) /\ RDataSOA \in Seq(All)
      /\ RDataTXT \in Seq(All) /\ RDataA \in Seq(All) /\ RDataAAAA \in Seq(All)
      /\ RDataNAPTR \in Seq(All) /\ RDataSRV("proxy") \in Seq(All)
  BY <1>1, <1>2 DEF RDataWithName, RDataHINFO, RDataMINFO, RDataMX, RDataNULL, RDataSOA, RDataTXT,
                    RDataA, RDataAAAA, RDataNAPTR, RDataSRV
<1>4. Fields("proxy", type) \in Seq(All) BY <1>3 DEF Fields
<1>5. \A field \in All : IsField(field) BY DEF IsField, All
<1>6. QED BY <1>4, <1>5, ElementOfSeq

(* The proxy reads names with getDnsDomainName.                            *)
LEMMA ReadNameEnds ==
  ASSUME NEW b \in ByteString, NEW p \in Nat
  PROVE  Ends(ReadName("proxy", b, p))
BY GetDnsDomainNameEnds DEF ReadName

(* Every field of a record's data is read to an end.                       *)
LEMMA GetFieldEnds ==
  ASSUME NEW b \in ByteString, NEW p \in Nat, NEW field, IsField(field), NEW end \in Nat
  PROVE  Ends(GetField("proxy", b, p, field, end))
<1>1. Ends(ReadName("proxy", b, p)) BY ReadNameEnds
<1>2. Ends(GetPlainName("proxy", b, p)) BY <1>1, EndsCases DEF GetPlainName, Unshortened
<1>3. Ends(GetString(b, p)) BY GetStringEnds
<1>4. Ends(GetStrings(b, p, end)) BY GetStringsEnds
<1>5. Ends(GetJoined(b, p, end)) BY GetJoinedEnds
<1>6. Ends(GetBytes(b, p, field.size)) BY GetBytesEnds DEF IsField
<1>7. Ends(GetBytes(b, p, end - p))
  <2>1. end - p \in Int /\ p + (end - p) \in Nat OBVIOUS
  <2>2. QED BY <2>1, GetBytesEnds
<1>8. QED BY <1>1, <1>2, <1>3, <1>4, <1>5, <1>6, <1>7 DEF GetField, IsField

(* The values that a loop has collected after n rounds.                    *)
Collected(so, n) == Ends(so) /\ (so.ok => \E S : so.val \in Seq(S) /\ Len(so.val) = n)

(* Before the first round nothing is collected.                            *)
LEMMA CollectedFirst == \A p \in Nat : Collected(Got(<<>>, p), 0)
<1> SUFFICES ASSUME NEW p \in Nat PROVE Collected(Got(<<>>, p), 0)
  OBVIOUS
<1>1. Got(<<>>, p).val = <<>> BY DEF Got
<1>2. <<>> \in Seq({}) /\ Len(<<>>) = 0 BY EmptySeq
<1>3. QED BY <1>1, <1>2, EndsCases DEF Collected

(* A round collects one value or fails.                                    *)
LEMMA CollectedAnother ==
  ASSUME NEW n \in Nat, NEW so, Collected(so, n), so.ok, NEW item, Ends(item)
  PROVE  Collected(Another(so, item), n + 1)
<1>1. Ends(Another(so, item)) BY AnotherEnds
<1>2. ASSUME item.ok
      PROVE  \E S : Another(so, item).val \in Seq(S) /\ Len(Another(so, item).val) = n + 1
  <2>1. PICK S : so.val \in Seq(S) /\ Len(so.val) = n BY DEF Collected
  <2>2. so.val \in Seq(S \cup {item.val}) BY <2>1, SeqMonotonic
  <2>3. /\ Append(so.val, item.val) \in Seq(S \cup {item.val})
        /\ Len(Append(so.val, item.val)) = n + 1
    BY <2>1, <2>2, AppendProperties
  <2>4. Another(so, item).val = Append(so.val, item.val) BY <1>2 DEF Another, Got
  <2>5. QED BY <2>3, <2>4
<1>3. ~item.ok => ~Another(so, item).ok BY DEF Another
<1>4. QED BY <1>1, <1>2, <1>3 DEF Collected

(* After a failure the remaining rounds change nothing.                    *)
LEMMA CollectedFailed ==
  ASSUME NEW n \in Nat, NEW so, Collected(so, n), ~so.ok
  PROVE  Collected(so, n + 1)
BY DEF Collected

(* The decode of every type of record's data ends (rr.cpp:495-557).        *)
LEMMA GetDataEnds ==
  ASSUME NEW b \in ByteString, NEW p \in Nat, NEW type, NEW size \in Nat
  PROVE  Ends(GetData("proxy", b, p, type, size))
<1> DEFINE from == [reader |-> "proxy", b |-> b, type |-> type, end |-> p + size]
           it == FieldLoop!Iterate(from, Got(<<>>, p))
           N == Len(Fields("proxy", type))
           Good == {n \in Nat : n <= N => Collected(it[n], n)}
<1>1. it[0] = Got(<<>>, p) /\ \A n \in Nat : it[n + 1] = NextField(from, it[n])
  BY FieldLoop!IterateSteps
<1>2. from.reader = "proxy" /\ from.b = b /\ from.type = type /\ from.end = p + size
  OBVIOUS
<1>3. N \in Nat BY FieldsType
<1> HIDE DEF it, from, N
<1>4. 0 \in Good BY <1>1, CollectedFirst
<1>5. ASSUME NEW n \in Nat, n \in Good PROVE n + 1 \in Good
  <2> SUFFICES ASSUME n + 1 <= N PROVE Collected(it[n + 1], n + 1)
    OBVIOUS
  <2> DEFINE so == it[n]
  <2>1. Collected(so, n) BY <1>3, <1>5
  <2>2. it[n + 1] = NextField(from, so) BY <1>1
  <2> HIDE DEF so
  <2>3. CASE ~so.ok
    <3>1. NextField(from, so) = so BY <2>3 DEF NextField
    <3>2. QED BY <2>1, <2>2, <2>3, <3>1, CollectedFailed
  <2>4. CASE so.ok
    <3> DEFINE field == Fields("proxy", type)[Len(so.val) + 1]
    <3>1. so.pos \in Nat /\ Len(so.val) = n BY <2>1, <2>4 DEF Collected, Ends
    <3>2. IsField(field) BY <1>3, <3>1, FieldsType DEF N
    <3>3. p + size \in Nat OBVIOUS
    <3> HIDE DEF field
    <3>4. Ends(GetField("proxy", b, so.pos, field, p + size)) BY <3>1, <3>2, <3>3, GetFieldEnds
    <3>5. NextField(from, so) = Another(so, GetField("proxy", b, so.pos, field, p + size))
      BY <1>2, <2>4 DEF NextField, field
    <3>6. QED BY <2>1, <2>2, <2>4, <3>4, <3>5, CollectedAnother
  <2>5. QED BY <2>3, <2>4
<1>6. \A n \in Nat : n \in Good BY <1>4, <1>5, FieldLoop!Induction
<1>7. Ends(it[N]) BY <1>3, <1>6 DEF Collected
<1>8. Ends(Got(<<>>, p)) BY EndsCases
<1>9. QED BY <1>7, <1>8 DEF GetData, it, from, N

(* QuerySection decoding ends (message.cpp:105-116).                       *)
LEMMA GetQuestionEnds ==
  ASSUME NEW b \in ByteString, NEW p \in Nat
  PROVE  Ends(GetQuestion("proxy", b, p))
<1> DEFINE name == ReadName("proxy", b, p)
<1>1. Ends(name) BY ReadNameEnds
<1> HIDE DEF name
<1>2. Ends(QuestionOf(b, name))
  <2>1. CASE ~name.ok BY <1>1, <2>1 DEF QuestionOf
  <2>2. CASE name.ok
    <3>1. name.pos + 4 \in Nat BY <1>1, <2>2 DEF Ends
    <3>2. QED BY <2>2, <3>1, EndsCases DEF QuestionOf
  <2>3. QED BY <2>1, <2>2
<1>3. QED BY <1>2 DEF GetQuestion, name

(* ResourceRecord::decode ends (rr.cpp:487-560).                           *)
LEMMA GetRecordEnds ==
  ASSUME NEW b \in ByteString, NEW p \in Nat
  PROVE  Ends(GetRecord("proxy", b, p))
<1> DEFINE name == ReadName("proxy", b, p)
<1>1. Ends(name) BY ReadNameEnds
<1> HIDE DEF name
<1>2. Ends(GetAfterName("proxy", b, name))
  <2>1. CASE ~name.ok BY <1>1, <2>1 DEF GetAfterName
  <2>2. CASE name.ok
    <3> DEFINE q == name.pos
               data == GetData("proxy", b, q + 10, Get16(b, q), Get16(b, q + 8))
    <3>1. q \in Nat BY <1>1, <2>2 DEF Ends
    <3>2. ASSUME q + 10 <= Len(b) PROVE Ends(RecordOf(b, name, data))
      <4>1. q + 10 \in Nat /\ q + 8 \in Nat /\ (q + 8) + 1 < Len(b)
        BY <3>1, <3>2 DEF ByteString
      <4>2. Get16(b, q + 8) \in Nat BY <4>1, Get16Type
      <4>3. Ends(data) BY <4>1, <4>2, GetDataEnds
      <4> HIDE DEF data
      <4>4. CASE ~data.ok BY <4>3, <4>4 DEF RecordOf
      <4>5. CASE data.ok
        <5>1. data.pos \in Nat BY <4>3, <4>5 DEF Ends
        <5>2. QED BY <4>5, <5>1, EndsCases DEF RecordOf
      <4>6. QED BY <4>4, <4>5
    <3>3. Len(b) \in Nat BY DEF ByteString
    <3>4. ~(q + 10 > Len(b)) => q + 10 <= Len(b) BY <3>1, <3>3
    <3> HIDE DEF data
    <3>5. QED BY <2>2, <3>2, <3>4, EndsCases DEF GetAfterName, data
  <2>3. QED BY <2>1, <2>2
<1>3. QED BY <1>2 DEF GetRecord, name

(* The loops over questions and records end (message.cpp:105-136).         *)
LEMMA GetSectionEnds ==
  ASSUME NEW what, NEW b \in ByteString, NEW p \in Nat, NEW n \in Nat
  PROVE  Ends(GetSection(what, "proxy", b, p, n))
<1> DEFINE from == [what |-> what, reader |-> "proxy", b |-> b]
           it == ItemLoop!Iterate(from, Got(<<>>, p))
           Good == {k \in Nat : Ends(it[k])}
<1>1. it[0] = Got(<<>>, p) /\ \A k \in Nat : it[k + 1] = NextItem(from, it[k])
  BY ItemLoop!IterateSteps
<1>2. from.reader = "proxy" /\ from.b = b OBVIOUS
<1> HIDE DEF it, from
<1>3. 0 \in Good BY <1>1, EndsCases
<1>4. ASSUME NEW k \in Nat, k \in Good PROVE k + 1 \in Good
  <2> DEFINE so == it[k]
  <2>1. Ends(so) /\ it[k + 1] = NextItem(from, so) BY <1>1, <1>4
  <2> HIDE DEF so
  <2>2. CASE ~so.ok BY <2>1, <2>2 DEF NextItem
  <2>3. CASE so.ok
    <3>1. so.pos \in Nat BY <2>1, <2>3 DEF Ends
    <3>2. /\ Ends(Another(so, GetQuestion("proxy", b, so.pos)))
          /\ Ends(Another(so, GetRecord("proxy", b, so.pos)))
      BY <3>1, GetQuestionEnds, GetRecordEnds, AnotherEnds
    <3>3. \/ NextItem(from, so) = Another(so, GetQuestion("proxy", b, so.pos))
          \/ NextItem(from, so) = Another(so, GetRecord("proxy", b, so.pos))
      BY <1>2, <2>3 DEF NextItem
    <3>4. QED BY <2>1, <3>2, <3>3
  <2>4. QED BY <2>2, <2>3
<1>5. \A k \in Nat : k \in Good BY <1>3, <1>4, ItemLoop!Induction
<1>6. QED BY <1>5 DEF GetSection, it, from

(* Decoding the three sections ends (message.cpp:118-121).                 *)
LEMMA GetRecordsEnds ==
  ASSUME NEW b \in ByteString, Len(b) >= 12, NEW p \in Nat
  PROVE  Ends(GetRecords("proxy", b, p))
<1> DEFINE from == [reader |-> "proxy", b |-> b]
           it == SectionLoop!Iterate(from, Got(<<>>, p))
<1>2. from.reader = "proxy" /\ from.b = b OBVIOUS
<1> HIDE DEF from
<1>1. it[0] = Got(<<>>, p) /\ \A k \in Nat : it[k + 1] = NextSection(from, it[k])
  BY SectionLoop!IterateSteps
<1> HIDE DEF it
<1>3. Collected(it[0], 0) BY <1>1, CollectedFirst
<1>4. ASSUME NEW k \in 0 .. 2, Collected(it[k], k) PROVE Collected(it[k + 1], k + 1)
  <2> DEFINE so == it[k]
  <2>1. k \in Nat OBVIOUS
  <2>5. Collected(so, k) /\ it[k + 1] = NextSection(from, so) BY <1>1, <1>4, <2>1
  <2> HIDE DEF so
  <2>2. CASE ~so.ok
    <3>1. NextSection(from, so) = so BY <2>2 DEF NextSection
    <3>2. QED BY <2>1, <2>2, <2>5, <3>1, CollectedFailed
  <2>3. CASE so.ok
    <3> DEFINE count == Get16(b, 6 + 2 * Len(so.val))
               section == GetSection("records", "proxy", b, so.pos, count)
    <3>1. so.pos \in Nat /\ Len(so.val) = k BY <2>5, <2>3 DEF Collected, Ends
    <3>2. 6 + 2 * Len(so.val) \in Nat /\ 6 + 2 * Len(so.val) + 1 < Len(b)
      BY <3>1 DEF ByteString
    <3>3. count \in Nat BY <3>2, Get16Type
    <3> HIDE DEF count
    <3>4. Ends(section) BY <3>1, <3>3, GetSectionEnds
    <3>5. NextSection(from, so) = Another(so, section)
      BY <1>2, <2>3 DEF NextSection, count
    <3> HIDE DEF section
    <3>6. QED BY <2>1, <2>3, <2>5, <3>4, <3>5, CollectedAnother
  <2>4. QED BY <2>2, <2>3
<1>5. Collected(it[1], 1) BY <1>3, <1>4
<1>6. Collected(it[2], 2) BY <1>4, <1>5
<1>7. Collected(it[3], 3) BY <1>4, <1>6
<1>8. QED BY <1>7 DEF GetRecords, Collected, it, from

(* Message::decode ends on every byte string.                              *)
LEMMA DecodeEnds ==
  ASSUME NEW b \in ByteString
  PROVE  Ends(Decode(b))
<1> DEFINE qs == GetSection("questions", "proxy", b, 12, Get16(b, 4))
<1>1. Len(b) \in Nat BY DEF ByteString
<1>2. ASSUME Len(b) >= 12 PROVE Ends(DecodeRecords("proxy", b, qs))
  <2>1. Get16(b, 4) \in Nat BY <1>1, <1>2, Get16Type
  <2>2. Ends(qs) BY <2>1, GetSectionEnds
  <2> HIDE DEF qs
  <2>3. CASE ~qs.ok BY <2>2, <2>3 DEF DecodeRecords
  <2>4. CASE qs.ok
    <3> DEFINE rs == GetRecords("proxy", b, qs.pos)
    <3>1. qs.pos \in Nat BY <2>2, <2>4 DEF Ends
    <3>2. Ends(rs) BY <1>2, <3>1, GetRecordsEnds
    <3> HIDE DEF rs
    <3>3. Ends(MessageOf("proxy", b, qs.val, rs))
      <4>1. CASE ~rs.ok BY <3>2, <4>1 DEF MessageOf
      <4>2. CASE rs.ok
        <5>1. rs.pos \in Nat BY <3>2, <4>2 DEF Ends
        <5>2. QED BY <4>2, <5>1, EndsCases DEF MessageOf
      <4>3. QED BY <4>1, <4>2
    <3>4. QED BY <2>4, <3>3 DEF DecodeRecords, rs
  <2>5. QED BY <2>3, <2>4
<1>3. QED BY <1>1, <1>2, EndsCases DEF Decode, DecodeAs

(* The inductive invariant.                                                *)
Readable == datagram \in ByteString /\ LinksEnd

(* Whatever a nameserver sends, decoding it ends, links in circles         *)
(* included: getDnsDomainName (buffer.cpp:253-332) never calls itself      *)
(* without an end.                                                         *)
THEOREM LinksEndHolds == Spec => []LinksEnd
<1>1. Init => Readable BY DEF Init, InitialBytes, Readable, ByteString, LinksEnd
<1>2. Readable /\ [Next]_vars => Readable'
  <2> SUFFICES ASSUME Readable, [Next]_vars PROVE Readable'
    OBVIOUS
  <2>1. CASE DecodeStep
    <3>1. datagram' \in ByteString BY <2>1 DEF DecodeStep, Readable
    <3>2. message' # Endless BY <2>1, DecodeEnds DEF DecodeStep, Readable, Ends
    <3>3. QED BY <3>1, <3>2 DEF Readable, LinksEnd
  <2>2. CASE EncodeStep
    BY <2>2 DEF EncodeStep, Readable, LinksEnd
  <2>3. CASE UNCHANGED vars
    BY <2>3 DEF vars, Readable, LinksEnd
  <2>4. QED BY <2>1, <2>2, <2>3 DEF Next
<1>3. Readable => LinksEnd BY DEF Readable
<1>4. QED BY <1>1, <1>2, <1>3, PTL DEF Spec
-----------------------------------------------------------------------------
(* Labels and names as bytes, one label at a time.                         *)

(* The function FoldLeft builds: the sequences up to the i-th, in a row.   *)
Joined(n, seqs, f) ==
  f = [i \in 1 .. n |-> IF i = 1 THEN seqs[i] ELSE f[i - 1] \o seqs[i]]

(* There is such a function for every number of sequences.                 *)
LEMMA JoinedExists == ASSUME NEW seqs, NEW n \in Nat PROVE \E f : Joined(n, seqs, f)
<1> DEFINE Good == {k \in Nat : \E f : Joined(k, seqs, f)}
<1>1. 0 \in Good
  <2> DEFINE f == [i \in 1 .. 0 |-> seqs[i]]
  <2>1. Joined(0, seqs, f) BY DEF Joined
  <2>2. QED BY <2>1
<1>2. ASSUME NEW k \in Nat, k \in Good PROVE k + 1 \in Good
  <2>1. PICK f : Joined(k, seqs, f) BY <1>2
  <2> DEFINE new == IF k = 0 THEN seqs[1] ELSE f[k] \o seqs[k + 1]
             g == [i \in 1 .. k + 1 |-> IF i = k + 1 THEN new ELSE f[i]]
  <2>2. \A i \in 1 .. k + 1 : g[i] = IF i = 1 THEN seqs[i] ELSE g[i - 1] \o seqs[i]
    <3> SUFFICES ASSUME NEW i \in 1 .. k + 1
                 PROVE  g[i] = IF i = 1 THEN seqs[i] ELSE g[i - 1] \o seqs[i]
      OBVIOUS
    <3>1. ASSUME i = k + 1 PROVE g[i] = IF i = 1 THEN seqs[i] ELSE g[i - 1] \o seqs[i]
      <4>1. g[i] = new BY <3>1
      <4>2. k # 0 => g[i - 1] = f[k] BY <3>1
      <4>3. QED BY <3>1, <4>1, <4>2
    <3>2. ASSUME i # k + 1 PROVE g[i] = IF i = 1 THEN seqs[i] ELSE g[i - 1] \o seqs[i]
      <4>1. i \in 1 .. k /\ g[i] = f[i] BY <3>2
      <4>2. f[i] = IF i = 1 THEN seqs[i] ELSE f[i - 1] \o seqs[i] BY <2>1, <4>1 DEF Joined
      <4>3. i # 1 => g[i - 1] = f[i - 1] BY <4>1
      <4>4. QED BY <4>1, <4>2, <4>3
    <3>3. QED BY <3>1, <3>2
  <2>3. g = [i \in 1 .. k + 1 |-> g[i]] OBVIOUS
  <2> HIDE DEF g
  <2>4. Joined(k + 1, seqs, g) BY <2>2, <2>3 DEF Joined
  <2>5. QED BY <2>4
<1>3. \A k \in Nat : k \in Good BY <1>1, <1>2, LabelLoop!Induction
<1>4. QED BY <1>3

(* What it says of the first n sequences depends on these alone.           *)
LEMMA JoinedSame ==
  ASSUME NEW n \in Nat, NEW m \in Nat, n <= m, NEW s, NEW t, \A i \in 1 .. n : s[i] = t[i],
         NEW f, NEW g, Joined(n, s, f), Joined(m, t, g), n > 0
  PROVE  f[n] = g[n]
<1> DEFINE Same == {k \in Nat : k < n => f[k + 1] = g[k + 1]}
<1>1. 0 \in Same
  <2>1. f[1] = s[1] /\ g[1] = t[1] BY DEF Joined
  <2>2. QED BY <2>1
<1>2. ASSUME NEW k \in Nat, k \in Same PROVE k + 1 \in Same
  <2> SUFFICES ASSUME k + 1 < n PROVE f[k + 2] = g[k + 2] OBVIOUS
  <2>1. f[k + 1] = g[k + 1] BY <1>2
  <2>2. k + 2 \in 1 .. n /\ k + 2 \in 1 .. m /\ k + 2 # 1 /\ (k + 2) - 1 = k + 1 OBVIOUS
  <2>3. f[k + 2] = f[k + 1] \o s[k + 2] /\ g[k + 2] = g[k + 1] \o t[k + 2]
    <3>1. f[k + 2] = IF k + 2 = 1 THEN s[k + 2] ELSE f[(k + 2) - 1] \o s[k + 2] BY <2>2 DEF Joined
    <3>2. g[k + 2] = IF k + 2 = 1 THEN t[k + 2] ELSE g[(k + 2) - 1] \o t[k + 2] BY <2>2 DEF Joined
    <3>3. QED BY <2>2, <3>1, <3>2, ZenonT(60)
  <2>4. s[k + 2] = t[k + 2] BY <2>2
  <2>5. QED BY <2>1, <2>3, <2>4, Zenon
<1>3. \A k \in Nat : k \in Same BY <1>1, <1>2, LabelLoop!Induction
<1>4. n - 1 \in Nat /\ n - 1 < n /\ (n - 1) + 1 = n OBVIOUS
<1>5. QED BY <1>3, <1>4

(* FlattenSeq one sequence at a time.                                      *)
LEMMA FlattenSteps ==
  /\ FlattenSeq(<<>>) = <<>>
  /\ \A S : \A seqs \in Seq(S), e \in S :
        FlattenSeq(Append(seqs, e)) = IF seqs = <<>> THEN e ELSE FlattenSeq(seqs) \o e
<1>1. FlattenSeq(<<>>) = <<>> BY DEF FlattenSeq
<1>2. ASSUME NEW seqs, Len(seqs) \in Nat, Len(seqs) > 0
      PROVE  \E f : Joined(Len(seqs), seqs, f) /\ FlattenSeq(seqs) = f[Len(seqs)]
  <2> DEFINE n == Len(seqs)
             f == CHOOSE f : Joined(n, seqs, f)
  <2>1. Joined(n, seqs, f) BY <1>2, JoinedExists
  <2>2. FlattenSeq(seqs) = f[n] BY <1>2 DEF FlattenSeq, Joined
  <2>3. QED BY <2>1, <2>2
<1>3. ASSUME NEW S, NEW seqs \in Seq(S), NEW e \in S
      PROVE  FlattenSeq(Append(seqs, e)) = IF seqs = <<>> THEN e ELSE FlattenSeq(seqs) \o e
  <2> DEFINE n == Len(seqs)
             t == Append(seqs, e)
  <2>1. n \in Nat /\ Len(t) = n + 1 /\ (\A i \in 1 .. n : t[i] = seqs[i]) /\ t[n + 1] = e
    BY AppendProperties
  <2> HIDE DEF t
  <2>2. PICK g : Joined(n + 1, t, g) /\ FlattenSeq(t) = g[n + 1] BY <1>2, <2>1
  <2>3. CASE seqs = <<>>
    <3>1. n = 0 BY <2>3
    <3>2. g[1] = t[1] BY <2>2, <3>1 DEF Joined
    <3>3. QED BY <2>1, <2>2, <2>3, <3>1, <3>2 DEF t
  <2>4. CASE seqs # <<>>
    <3>1. n > 0 BY <2>1, <2>4, EmptySeq
    <3>2. PICK f : Joined(n, seqs, f) /\ FlattenSeq(seqs) = f[n] BY <1>2, <2>1, <3>1
    <3>3. f[n] = g[n]
      <4>1. n <= n + 1 /\ n + 1 \in Nat /\ \A i \in 1 .. n : seqs[i] = t[i] BY <2>1
      <4>2. n \in Nat /\ Joined(n, seqs, f) /\ Joined(n + 1, t, g) BY <2>1, <2>2, <3>2
      <4> HIDE DEF n
      <4>3. QED BY <3>1, <4>1, <4>2, JoinedSame
    <3>4. n + 1 \in 1 .. n + 1 /\ n + 1 # 1 /\ (n + 1) - 1 = n BY <2>1, <3>1
    <3>5. g[n + 1] = g[n] \o t[n + 1] BY <2>2, <3>4 DEF Joined
    <3>6. QED BY <2>1, <2>2, <2>4, <3>2, <3>3, <3>5 DEF t
  <2>5. QED BY <2>3, <2>4
<1>4. QED BY <1>1, <1>3

(* The labels from a position on, one label at a time.                     *)
LEMMA LabelsAtSteps ==
  ASSUME NEW b \in ByteString, NEW p \in Nat
  PROVE  /\ ~IsLabel(b, p) => LabelsAt(b, p) = NoLabels(p)
         /\ IsLabel(b, p) =>
              LET rest == LabelsAt(b, p + 1 + Byte(b, p))
              IN /\ LabelsAt(b, p).labels = <<Bytes(b, p + 1, Byte(b, p))>> \o rest.labels
                 /\ LabelsAt(b, p).stop = rest.stop
<1> DEFINE it == LabelLoop!Iterate(b, [q \in Nat |-> NoLabels(q)])
           N == Len(b)
           Good == {n \in Nat : \A q \in Nat : q + n >= N => it[n + 1][q] = it[n][q]}
<1>1. it[0] = [q \in Nat |-> NoLabels(q)] /\ \A n \in Nat : it[n + 1] = GetLabels(b, it[n])
  BY LabelLoop!IterateSteps
<1>2. N \in Nat BY DEF ByteString
<1> HIDE DEF it
<1>3. 0 \in Good
  <2> SUFFICES ASSUME NEW q \in Nat, q + 0 >= N PROVE it[0 + 1][q] = it[0][q]
    OBVIOUS
  <2>1. ~IsLabel(b, q) BY <1>2 DEF IsLabel
  <2>2. it[0 + 1] = GetLabels(b, it[0]) BY <1>1
  <2>3. it[0][q] = NoLabels(q) BY <1>1
  <2>4. GetLabels(b, it[0])[q] = NoLabels(q) BY <2>1 DEF GetLabels
  <2>5. QED BY <2>2, <2>3, <2>4
<1>4. ASSUME NEW n \in Nat, n \in Good PROVE n + 1 \in Good
  <2> SUFFICES ASSUME NEW q \in Nat, q + (n + 1) >= N PROVE it[(n + 1) + 1][q] = it[n + 1][q]
    OBVIOUS
  <2>0. n + 1 \in Nat OBVIOUS
  <2>1. it[(n + 1) + 1] = GetLabels(b, it[n + 1]) /\ it[n + 1] = GetLabels(b, it[n]) BY <1>1, <2>0, Zenon
  <2>2. CASE ~IsLabel(b, q)
    <3>1. GetLabels(b, it[n + 1])[q] = NoLabels(q) BY <2>2 DEF GetLabels
    <3>2. GetLabels(b, it[n])[q] = NoLabels(q) BY <2>2 DEF GetLabels
    <3>3. QED BY <2>1, <3>1, <3>2
  <2>3. CASE IsLabel(b, q)
    <3> DEFINE r == q + 1 + Byte(b, q)
    <3>1. Byte(b, q) \in Nat /\ Byte(b, q) >= 1 BY <2>3 DEF IsLabel
    <3>2. r \in Nat /\ r + n >= N BY <1>2, <3>1
    <3>3. it[n + 1][r] = it[n][r] BY <1>4, <3>2
    <3>4. GetLabels(b, it[n + 1])[q] = GetLabels(b, it[n])[q] BY <2>3, <3>3 DEF GetLabels
    <3>5. QED BY <2>1, <3>4
  <2>4. QED BY <2>2, <2>3
<1>5. \A n \in Nat : n \in Good
  <2> HIDE DEF Good
  <2>1. QED BY <1>3, <1>4, LabelLoop!Induction
<1>6. it[N + 1] = GetLabels(b, it[N]) /\ \A q \in Nat : it[N + 1][q] = it[N][q]
  <2>1. N \in Good BY <1>2, <1>5
  <2>2. \A q \in Nat : q + N >= N BY <1>2
  <2> HIDE DEF N
  <2>3. \A q \in Nat : it[N + 1][q] = it[N][q] BY <2>1, <2>2
  <2>4. QED BY <1>1, <1>2, <2>3
<1>7. \A q \in Nat : LabelsAt(b, q) = it[N][q] BY DEF LabelsAt, it
<1>8. ASSUME IsLabel(b, p) PROVE p + 1 + Byte(b, p) \in Nat BY <1>8 DEF IsLabel
<1> HIDE DEF N
<1>9. LabelsAt(b, p) = GetLabels(b, it[N])[p] BY <1>6, <1>7
<1>10. ASSUME ~IsLabel(b, p) PROVE LabelsAt(b, p) = NoLabels(p)
  BY <1>9, <1>10 DEF GetLabels
<1>11. ASSUME IsLabel(b, p)
       PROVE  LET rest == LabelsAt(b, p + 1 + Byte(b, p))
              IN /\ LabelsAt(b, p).labels = <<Bytes(b, p + 1, Byte(b, p))>> \o rest.labels
                 /\ LabelsAt(b, p).stop = rest.stop
  <2>1. LabelsAt(b, p + 1 + Byte(b, p)) = it[N][p + 1 + Byte(b, p)] BY <1>7, <1>8, <1>11
  <2>2. QED BY <1>9, <1>11, <2>1 DEF GetLabels
<1>12. QED BY <1>10, <1>11

(* Where no label is, none is read.                                        *)
LEMMA LabelsStop ==
  ASSUME NEW b \in ByteString, NEW p \in Nat, ~IsLabel(b, p)
  PROVE  LabelsAt(b, p).labels = <<>> /\ LabelsAt(b, p).stop = p
<1>1. LabelsAt(b, p) = NoLabels(p) BY LabelsAtSteps
<1>2. QED BY <1>1 DEF NoLabels

(* A label as a message may hold it: up to 63 bytes, none of them zero or  *)
(* a dot.                                                                  *)
Label == {l \in Seq((1 .. 255) \ {Dot}) : Len(l) \in 1 .. MaxLabel}

(* How a label lies in a buffer: its length and its bytes.                 *)
LEMMA LabelBytesType ==
  ASSUME NEW l \in Label
  PROVE  /\ LabelBytes(l) \in Seq(1 .. 255)
         /\ Len(LabelBytes(l)) = Len(l) + 1
         /\ LabelBytes(l)[1] = Len(l)
         /\ \A i \in 1 .. Len(l) : LabelBytes(l)[i + 1] = l[i]
<1>1. l \in Seq(1 .. 255) BY SeqMonotonic DEF Label
<1>2. Len(l) \in 1 .. 255 BY DEF Label, MaxLabel
<1>3. <<Len(l)>> \in Seq(1 .. 255) BY <1>2
<1>4. Len(<<Len(l)>>) = 1 /\ <<Len(l)>>[1] = Len(l) OBVIOUS
<1> DEFINE h == <<Len(l)>>
<1> HIDE DEF h
<1>5. /\ h \o l \in Seq(1 .. 255) /\ Len(h \o l) = Len(h) + Len(l)
      /\ \A i \in 1 .. Len(h) + Len(l) : (h \o l)[i] = IF i <= Len(h) THEN h[i] ELSE l[i - Len(h)]
  BY <1>1, <1>3, ConcatProperties DEF h
<1>6. Len(h) = 1 /\ h[1] = Len(l) BY <1>4 DEF h
<1>7. \A i \in 1 .. Len(l) : i + 1 \in 1 .. 1 + Len(l) /\ ~(i + 1 <= 1) /\ (i + 1) - 1 = i
  BY <1>2
<1>8. \A i \in 1 .. Len(l) : (h \o l)[i + 1] = l[i] BY <1>5, <1>6, <1>7
<1>9. 1 \in 1 .. 1 + Len(l) BY <1>2
<1>10. (h \o l)[1] = Len(l) BY <1>5, <1>6, <1>9
<1>11. Len(h \o l) = Len(l) + 1
  <2>1. Len(h \o l) = Len(h) + Len(l) BY <1>5
  <2>2. Len(l) \in Nat BY <1>2
  <2>3. \A k \in Nat : 1 + k = k + 1 OBVIOUS
  <2>4. QED BY <1>6, <2>1, <2>2, <2>3
<1>12. LabelBytes(l) = h \o l BY DEF LabelBytes, h
<1>13. Len(LabelBytes(l)) = Len(l) + 1 BY <1>11, <1>12
<1>14. QED BY <1>5, <1>8, <1>10, <1>12, <1>13

(* Flat one label at a time, for labels of any kind.                       *)
LEMMA FlatAppend ==
  ASSUME NEW S, NEW B, \A s \in S : LabelBytes(s) \in B
  PROVE  /\ Flat(<<>>) = <<>>
         /\ \A labels \in Seq(S), l \in S :
               Flat(Append(labels, l)) = IF labels = <<>> THEN LabelBytes(l) ELSE Flat(labels) \o LabelBytes(l)
<1>1. [i \in DOMAIN <<>> |-> LabelBytes(<<>>[i])] = <<>> OBVIOUS
<1>2. Flat(<<>>) = <<>> BY <1>1, FlattenSteps DEF Flat
<1>3. ASSUME NEW labels \in Seq(S), NEW l \in S
      PROVE  Flat(Append(labels, l)) = IF labels = <<>> THEN LabelBytes(l) ELSE Flat(labels) \o LabelBytes(l)
  <2> DEFINE n == Len(labels)
             t == Append(labels, l)
             F(s) == [i \in DOMAIN s |-> LabelBytes(s[i])]
  <2>1. n \in Nat /\ t \in Seq(S) /\ Len(t) = n + 1 /\ (\A i \in 1 .. n : t[i] = labels[i]) /\ t[n + 1] = l
    BY AppendProperties
  <2>2. \A s \in Seq(S) : F(s) \in Seq(B) /\ Len(F(s)) = Len(s) /\ \A i \in 1 .. Len(s) : F(s)[i] = LabelBytes(s[i])
    <3> TAKE s \in Seq(S)
    <3>1. DOMAIN s = 1 .. Len(s) /\ Len(s) \in Nat BY LenProperties
    <3>2. \A i \in 1 .. Len(s) : LabelBytes(s[i]) \in B BY ElementOfSeq
    <3>3. QED BY <3>1, <3>2
  <2>3. F(labels) \in Seq(B) /\ F(t) \in Seq(B) /\ LabelBytes(l) \in B BY <2>1, <2>2
  <2>4. F(t) = Append(F(labels), LabelBytes(l))
    <3> DEFINE u == Append(F(labels), LabelBytes(l))
    <3> HIDE DEF t, F
    <3>1. u \in Seq(B) /\ Len(u) = n + 1 /\ (\A i \in 1 .. n : u[i] = F(labels)[i]) /\ u[n + 1] = LabelBytes(l)
      BY <2>2, <2>3, AppendProperties
    <3>2. Len(F(t)) = n + 1 BY <2>1, <2>2
    <3>3. \A i \in 1 .. n + 1 : F(t)[i] = u[i]
      <4> SUFFICES ASSUME NEW i \in 1 .. n + 1 PROVE F(t)[i] = u[i]
        OBVIOUS
      <4>1. F(t)[i] = LabelBytes(t[i]) BY <2>1, <2>2
      <4>2. CASE i = n + 1 BY <2>1, <3>1, <4>1, <4>2
      <4>3. CASE i # n + 1
        <5>1. i \in 1 .. n BY <2>1, <4>3
        <5>2. QED BY <2>1, <2>2, <3>1, <4>1, <5>1
      <4>4. QED BY <4>2, <4>3
    <3> HIDE DEF u
    <3>4. F(t) = u BY <2>3, <3>1, <3>2, <3>3, SeqEqual
    <3>5. QED BY <3>4 DEF u
  <2>5. F(labels) = <<>> <=> labels = <<>>
    <3>1. Len(F(labels)) = n BY <2>2
    <3>2. n = 0 <=> labels = <<>> BY EmptySeq
    <3>3. Len(F(labels)) = 0 <=> F(labels) = <<>> BY <2>3, EmptySeq
    <3>4. QED BY <3>1, <3>2, <3>3
  <2>6. Flat(t) = FlattenSeq(F(t)) /\ Flat(labels) = FlattenSeq(F(labels)) BY DEF Flat
  <2> HIDE DEF t, F
  <2>7. FlattenSeq(F(t)) = IF F(labels) = <<>> THEN LabelBytes(l) ELSE FlattenSeq(F(labels)) \o LabelBytes(l)
    BY <2>3, <2>4, FlattenSteps
  <2>8. QED BY <2>5, <2>6, <2>7 DEF t
<1>4. QED BY <1>2, <1>3

(* Flat one label at a time.                                               *)
LEMMA FlatSteps ==
  /\ Flat(<<>>) = <<>>
  /\ \A labels \in Seq(Label), l \in Label :
        Flat(Append(labels, l)) = IF labels = <<>> THEN LabelBytes(l) ELSE Flat(labels) \o LabelBytes(l)
<1>1. \A l \in Label : LabelBytes(l) \in Seq(1 .. 255) BY LabelBytesType
<1>2. QED BY <1>1, FlatAppend

(* No byte of a name's labels is zero, and a label takes two bytes or      *)
(* more.                                                                   *)
LEMMA FlatType ==
  ASSUME NEW labels \in Seq(Label)
  PROVE  /\ Flat(labels) \in Seq(1 .. 255)
         /\ Len(Flat(labels)) \in Nat
         /\ Len(Flat(labels)) >= 2 * Len(labels)
<1> DEFINE Right(s) == Flat(s) \in Seq(1 .. 255) /\ Len(Flat(s)) >= 2 * Len(s)
           Good == {n \in Nat : \A s \in Seq(Label) : Len(s) = n => Right(s)}
<1>1. 0 \in Good
  <2> SUFFICES ASSUME NEW s \in Seq(Label), Len(s) = 0 PROVE Right(s)
    OBVIOUS
  <2>1. s = <<>> BY EmptySeq
  <2>2. Flat(s) = <<>> /\ Len(<<>>) = 0 BY <2>1, FlatSteps
  <2>3. <<>> \in Seq(1 .. 255) BY EmptySeq
  <2>4. Len(Flat(s)) = 0 BY <2>2
  <2>5. QED BY <2>2, <2>3, <2>4
<1>2. ASSUME NEW n \in Nat, n \in Good PROVE n + 1 \in Good
  <2> SUFFICES ASSUME NEW s \in Seq(Label), Len(s) = n + 1 PROVE Right(s)
    OBVIOUS
  <2>1. PICK r \in Seq(Label), l \in Label : s = Append(r, l)
    <3>1. s # <<>> BY EmptySeq
    <3>2. QED BY <3>1, SequenceEmptyOrAppend
  <2>2. Len(r) = n /\ Len(s) = n + 1
    <3>1. Len(s) = Len(r) + 1 BY <2>1, AppendProperties
    <3>2. QED BY <3>1
  <2>3. Flat(r) \in Seq(1 .. 255) /\ Len(Flat(r)) >= 2 * n BY <1>2, <2>2
  <2>4. LabelBytes(l) \in Seq(1 .. 255) /\ Len(LabelBytes(l)) >= 2
    BY LabelBytesType DEF Label
  <2>5. CASE r = <<>>
    <3>1. Flat(s) = LabelBytes(l) /\ n = 0 BY <2>1, <2>2, <2>5, FlatSteps
    <3>2. QED BY <2>2, <2>4, <3>1
  <2>6. CASE r # <<>>
    <3>1. Flat(s) = Flat(r) \o LabelBytes(l) BY <2>1, <2>6, FlatSteps
    <3>2. Flat(s) \in Seq(1 .. 255) /\ Len(Flat(s)) = Len(Flat(r)) + Len(LabelBytes(l))
      BY <2>3, <2>4, <3>1, ConcatProperties
    <3>3. Len(Flat(r)) \in Nat /\ Len(LabelBytes(l)) \in Nat BY <2>3, <2>4
    <3>4. QED BY <2>2, <2>3, <2>4, <3>2, <3>3
  <2>7. QED BY <2>5, <2>6
<1>3. \A n \in Nat : n \in Good
  <2> HIDE DEF Good
  <2>1. QED BY <1>1, <1>2, LabelLoop!Induction
<1>4. Right(labels) BY <1>3
<1>5. QED BY <1>4

(* The bytes of text are in c from p on.                                   *)
Holds(c, p, text) ==
  /\ p + Len(text) <= Len(c)
  /\ \A j \in 1 .. Len(text) : c[p + j] = text[j]

(* A text is held when its parts are.                                      *)
LEMMA HoldsConcat ==
  ASSUME NEW S, NEW s \in Seq(S), NEW t \in Seq(S), NEW c \in ByteString, NEW p \in Nat
  PROVE  Holds(c, p, s \o t) <=> Holds(c, p, s) /\ Holds(c, p + Len(s), t)
<1> DEFINE m == Len(s)
           n == Len(t)
           u == s \o t
<1>1. /\ m \in Nat /\ n \in Nat /\ Len(u) = m + n
      /\ \A i \in 1 .. m + n : u[i] = IF i <= m THEN s[i] ELSE t[i - m]
  BY ConcatProperties
<1>2. Len(c) \in Nat BY DEF ByteString
<1> HIDE DEF m, n, u
<1>3. \A i \in 1 .. m : u[i] = s[i] BY <1>1
<1>4. \A i \in 1 .. n : m + i \in 1 .. m + n /\ u[m + i] = t[i] /\ (p + m) + i = p + (m + i)
  <2> SUFFICES ASSUME NEW i \in 1 .. n
               PROVE m + i \in 1 .. m + n /\ u[m + i] = t[i] /\ (p + m) + i = p + (m + i)
    OBVIOUS
  <2>1. m + i \in 1 .. m + n /\ ~(m + i <= m) /\ (m + i) - m = i BY <1>1
  <2>2. (p + m) + i = p + (m + i) BY <1>1
  <2>3. QED BY <1>1, <2>1, <2>2
<1>5. ASSUME Holds(c, p, u) PROVE Holds(c, p, s) /\ Holds(c, p + m, t)
  <2>1. p + (m + n) <= Len(c) /\ \A j \in 1 .. m + n : c[p + j] = u[j] BY <1>1, <1>5 DEF Holds
  <2>2. p + m <= Len(c) /\ (p + m) + n <= Len(c) BY <1>1, <1>2, <2>1
  <2>3. \A j \in 1 .. m : j \in 1 .. m + n BY <1>1
  <2>4. \A j \in 1 .. m : c[p + j] = s[j] BY <1>3, <2>1, <2>3
  <2>5. \A j \in 1 .. n : c[(p + m) + j] = t[j] BY <1>4, <2>1
  <2>6. QED BY <2>2, <2>4, <2>5 DEF Holds, m, n
<1>6. ASSUME Holds(c, p, s), Holds(c, p + m, t) PROVE Holds(c, p, u)
  <2>1. (p + m) + n <= Len(c) /\ (\A j \in 1 .. m : c[p + j] = s[j])
          /\ \A j \in 1 .. n : c[(p + m) + j] = t[j]
    BY <1>6 DEF Holds, m, n
  <2>2. p + (m + n) <= Len(c) BY <1>1, <2>1
  <2>3. \A j \in 1 .. m + n : c[p + j] = u[j]
    <3> SUFFICES ASSUME NEW j \in 1 .. m + n PROVE c[p + j] = u[j]
      OBVIOUS
    <3>1. CASE j <= m
      <4>1. j \in 1 .. m BY <1>1, <3>1
      <4>2. QED BY <1>3, <2>1, <4>1
    <3>2. CASE j > m
      <4>1. j - m \in 1 .. n /\ m + (j - m) = j BY <1>1, <3>2
      <4>2. QED BY <1>4, <2>1, <4>1
    <3>3. QED BY <1>1, <3>1, <3>2
  <2>4. QED BY <1>1, <2>2, <2>3 DEF Holds
<1>7. QED BY <1>5, <1>6 DEF u, m

(* Where a label's bytes are held, the label is read.                      *)
LEMMA ByteOfLabel ==
  ASSUME NEW c \in ByteString, NEW q \in Nat, NEW l \in Label, Holds(c, q, LabelBytes(l))
  PROVE  /\ IsLabel(c, q)
         /\ Byte(c, q) = Len(l)
         /\ Bytes(c, q + 1, Byte(c, q)) = l
         /\ q + Len(LabelBytes(l)) = q + 1 + Byte(c, q)
<1> DEFINE n == Len(l)
<1>1. n \in 1 .. MaxLabel /\ n \in Nat /\ l \in ByteString /\ Len(c) \in Nat
  <2>1. l \in Seq(0 .. 255) BY SeqMonotonic DEF Label
  <2>2. QED BY <2>1 DEF Label, MaxLabel, ByteString
<1>2. /\ Len(LabelBytes(l)) = n + 1
      /\ LabelBytes(l)[1] = n
      /\ \A i \in 1 .. n : LabelBytes(l)[i + 1] = l[i]
  BY LabelBytesType
<1> HIDE DEF n
<1>3. q + (n + 1) <= Len(c) /\ \A j \in 1 .. n + 1 : c[q + j] = LabelBytes(l)[j]
  BY <1>2 DEF Holds
<1>4. c[q + 1] = n /\ \A i \in 1 .. n : c[(q + 1) + i] = l[i]
  <2>1. 1 \in 1 .. n + 1 BY <1>1
  <2>2. \A i \in 1 .. n : i + 1 \in 1 .. n + 1 /\ q + (i + 1) = (q + 1) + i BY <1>1
  <2>3. QED BY <1>2, <1>3, <2>1, <2>2
<1>5. Byte(c, q) = n BY <1>4 DEF Byte
<1>6. q < Len(c) /\ q + 1 + n <= Len(c) BY <1>1, <1>3
<1>7. IsLabel(c, q) BY <1>1, <1>5, <1>6 DEF IsLabel
<1>8. Bytes(c, q + 1, n) = l
  <2> DEFINE t == Bytes(c, q + 1, n)
  <2>1. q + 1 \in Nat /\ (q + 1) + n <= Len(c) BY <1>6
  <2>2. t \in ByteString /\ Len(t) = n /\ \A i \in 1 .. n : t[i] = c[(q + 1) + i]
    BY <1>1, <2>1, BytesType
  <2> HIDE DEF t
  <2>3. \A i \in 1 .. n : t[i] = l[i] BY <1>4, <2>2
  <2>4. t = l BY <1>1, <2>2, <2>3, SeqEqual DEF ByteString, n
  <2>5. QED BY <2>4 DEF t
<1>9. q + (n + 1) = q + 1 + n BY <1>1
<1>10. QED BY <1>2, <1>5, <1>7, <1>8, <1>9 DEF n

(* Concatenation is associative.                                           *)
LEMMA AppendedLabels ==
  \A r, h, x \in Seq(ByteString) : (r \o h) \o x = r \o (h \o x)
BY ConcatAssociative

(* Where the bytes of labels are held, these are read and then what        *)
(* follows.                                                                *)
LEMMA LabelsRead ==
  ASSUME NEW c \in ByteString, NEW p \in Nat, NEW labels \in Seq(Label), Holds(c, p, Flat(labels))
  PROVE  LET rest == LabelsAt(c, p + Len(Flat(labels)))
         IN LabelsAt(c, p).labels = labels \o rest.labels /\ LabelsAt(c, p).stop = rest.stop
<1> DEFINE Rest(s) == LabelsAt(c, p + Len(Flat(s)))
           Read(s) == LabelsAt(c, p).labels = s \o Rest(s).labels /\ LabelsAt(c, p).stop = Rest(s).stop
           Good == {n \in Nat : \A s \in Seq(Label) : Len(s) = n /\ Holds(c, p, Flat(s)) => Read(s)}
<1>1. 0 \in Good
  <2> SUFFICES ASSUME NEW s \in Seq(Label), Len(s) = 0, Holds(c, p, Flat(s)) PROVE Read(s)
    OBVIOUS
  <2>1. s = <<>> BY EmptySeq
  <2>2. p + Len(Flat(s)) = p
    <3>1. Flat(s) = <<>> /\ Len(<<>>) = 0 BY <2>1, FlatSteps
    <3>2. QED BY <3>1
  <2>3. LabelsAt(c, p) \in Pieces BY LabelsAtType
  <2>4. s \o LabelsAt(c, p).labels = LabelsAt(c, p).labels
    <3>1. LabelsAt(c, p).labels \in Seq(ByteString) BY <2>3 DEF Pieces
    <3>2. QED BY <2>1, <3>1, ConcatEmptySeq
  <2>5. QED BY <2>2, <2>4
<1>2. ASSUME NEW n \in Nat, n \in Good PROVE n + 1 \in Good
  <2> SUFFICES ASSUME NEW s \in Seq(Label), Len(s) = n + 1, Holds(c, p, Flat(s)) PROVE Read(s)
    OBVIOUS
  <2>1. PICK r \in Seq(Label), l \in Label : s = Append(r, l)
    <3>1. s # <<>> BY EmptySeq
    <3>2. QED BY <3>1, SequenceEmptyOrAppend
  <2>2. Len(r) = n
    <3>1. Len(s) = Len(r) + 1 BY <2>1, AppendProperties
    <3>2. Len(r) \in Nat OBVIOUS
    <3>3. QED BY <3>1, <3>2
  <2> DEFINE q == p + Len(Flat(r))
  <2>3. Flat(r) \in Seq(1 .. 255) /\ Len(Flat(r)) \in Nat /\ LabelBytes(l) \in Seq(1 .. 255)
    BY FlatType, LabelBytesType
  <2>4. Flat(s) = Flat(r) \o LabelBytes(l)
    <3>1. CASE r = <<>>
      <4>1. Flat(r) = <<>> /\ Flat(s) = LabelBytes(l) BY <2>1, <3>1, FlatSteps
      <4>2. QED BY <2>3, <4>1, ConcatEmptySeq
    <3>2. CASE r # <<>> BY <2>1, <3>2, FlatSteps
    <3>3. QED BY <3>1, <3>2
  <2>5. Holds(c, p, Flat(r)) /\ Holds(c, q, LabelBytes(l)) BY <2>3, <2>4, HoldsConcat
  <2>6. q \in Nat BY <2>3
  <2>7. p + Len(Flat(s)) = q + Len(LabelBytes(l))
    <3>1. Len(Flat(s)) = Len(Flat(r)) + Len(LabelBytes(l)) BY <2>3, <2>4, ConcatProperties
    <3>2. Len(LabelBytes(l)) \in Nat BY <2>3
    <3>3. QED BY <2>3, <3>1, <3>2
  <2>8. Read(r) BY <1>2, <2>2, <2>5
  <2> DEFINE z == p + Len(Flat(s))
  <2>9. IsLabel(c, q) /\ Bytes(c, q + 1, Byte(c, q)) = l /\ z = q + 1 + Byte(c, q)
    BY <2>5, <2>6, <2>7, ByteOfLabel
  <2>10. LabelsAt(c, q).labels = <<l>> \o LabelsAt(c, z).labels /\ LabelsAt(c, q).stop = LabelsAt(c, z).stop
    <3> HIDE DEF q, z
    <3>1. QED BY <2>6, <2>9, LabelsAtSteps
  <2>11. r \o (<<l>> \o LabelsAt(c, z).labels) = s \o LabelsAt(c, z).labels
    <3>1. z \in Nat
      <4>1. Byte(c, q) \in Nat BY <2>9 DEF IsLabel
      <4> HIDE DEF q
      <4>2. QED BY <2>6, <2>9, <4>1
    <3>2. LabelsAt(c, z).labels \in Seq(ByteString) BY <3>1, LabelsAtType DEF Pieces
    <3>3. \A x \in Label : x \in ByteString BY SeqMonotonic DEF Label, ByteString
    <3>4. r \in Seq(ByteString) /\ <<l>> \in Seq(ByteString)
      <4>1. l \in ByteString BY <3>3
      <4>2. r \in Seq(ByteString) BY <3>3, ElementOfSeq, SeqMonotonic
      <4>3. QED BY <4>1, <4>2
    <3>5. s = r \o <<l>> BY <2>1, AppendIsConcat
    <3> DEFINE x == LabelsAt(c, z).labels
               h == <<l>>
    <3>6. x \in Seq(ByteString) /\ h \in Seq(ByteString) BY <3>2, <3>4
    <3> HIDE DEF x, h
    <3>7. (r \o h) \o x = r \o (h \o x) BY <3>4, <3>6, AppendedLabels
    <3>8. QED BY <3>5, <3>7 DEF x, h
  <2>12. LabelsAt(c, p).labels = r \o LabelsAt(c, q).labels /\ LabelsAt(c, p).stop = LabelsAt(c, q).stop
    BY <2>8
  <2> HIDE DEF q, z
  <2>13. LabelsAt(c, p).labels = s \o LabelsAt(c, z).labels /\ LabelsAt(c, p).stop = LabelsAt(c, z).stop
    BY <2>10, <2>11, <2>12
  <2>14. QED BY <2>13 DEF z
<1>3. \A n \in Nat : n \in Good
  <2> HIDE DEF Good
  <2>1. QED BY <1>1, <1>2, LabelLoop!Induction
<1>4. Read(labels) BY <1>3
<1>5. QED BY <1>4

(* Flat of the parts of a name.                                            *)
LEMMA FlatConcat ==
  ASSUME NEW a \in Seq(Label), NEW b \in Seq(Label)
  PROVE  Flat(a \o b) = Flat(a) \o Flat(b)
<1> DEFINE Good == {n \in Nat : \A s \in Seq(Label) : Len(s) = n => Flat(a \o s) = Flat(a) \o Flat(s)}
<1>1. 0 \in Good
  <2> SUFFICES ASSUME NEW s \in Seq(Label), Len(s) = 0 PROVE Flat(a \o s) = Flat(a) \o Flat(s)
    OBVIOUS
  <2>1. s = <<>> BY EmptySeq
  <2>2. a \o s = a BY <2>1, ConcatEmptySeq
  <2>3. Flat(s) = <<>> BY <2>1, FlatSteps
  <2>4. Flat(a) \in Seq(1 .. 255) BY FlatType
  <2>5. Flat(a) \o Flat(s) = Flat(a) BY <2>3, <2>4, ConcatEmptySeq
  <2>6. QED BY <2>2, <2>5
<1>2. ASSUME NEW n \in Nat, n \in Good PROVE n + 1 \in Good
  <2> SUFFICES ASSUME NEW s \in Seq(Label), Len(s) = n + 1 PROVE Flat(a \o s) = Flat(a) \o Flat(s)
    OBVIOUS
  <2>1. PICK r \in Seq(Label), l \in Label : s = Append(r, l)
    <3>1. s # <<>> BY EmptySeq
    <3>2. QED BY <3>1, SequenceEmptyOrAppend
  <2>2. Len(r) = n
    <3>1. Len(s) = Len(r) + 1 BY <2>1, AppendProperties
    <3>2. Len(r) \in Nat OBVIOUS
    <3>3. QED BY <3>1, <3>2
  <2>3. Flat(a \o r) = Flat(a) \o Flat(r) BY <1>2, <2>2
  <2>4. a \o r \in Seq(Label) BY ConcatProperties
  <2>5. a \o s = Append(a \o r, l)
    <3>1. s = r \o <<l>> /\ <<l>> \in Seq(Label) BY <2>1, AppendIsConcat
    <3>2. Append(a \o r, l) = (a \o r) \o <<l>> BY <2>4, AppendIsConcat
    <3> DEFINE h == <<l>>
    <3> HIDE DEF h
    <3>3. (a \o r) \o h = a \o (r \o h) BY <3>1, ConcatAssociative DEF h
    <3>4. QED BY <3>1, <3>2, <3>3 DEF h
  <2>6. /\ Flat(a) \in Seq(1 .. 255) /\ Flat(r) \in Seq(1 .. 255) /\ LabelBytes(l) \in Seq(1 .. 255)
        /\ Flat(a \o r) \in Seq(1 .. 255)
    BY <2>4, FlatType, LabelBytesType
  <2>7. \A x \in Seq(Label) : Flat(Append(x, l)) = Flat(x) \o LabelBytes(l)
    <3> TAKE x \in Seq(Label)
    <3>1. CASE x = <<>>
      <4>1. Flat(x) = <<>> /\ Flat(Append(x, l)) = LabelBytes(l) BY <3>1, FlatSteps
      <4>2. QED BY <2>6, <4>1, ConcatEmptySeq
    <3>2. CASE x # <<>> BY <3>2, FlatSteps
    <3>3. QED BY <3>1, <3>2
  <2>8. Flat(a \o s) = (Flat(a) \o Flat(r)) \o LabelBytes(l) BY <2>3, <2>4, <2>5, <2>7
  <2>9. Flat(s) = Flat(r) \o LabelBytes(l) BY <2>1, <2>7
  <2> DEFINE x == Flat(a)
             y == Flat(r)
             z == LabelBytes(l)
  <2>10. x \in Seq(1 .. 255) /\ y \in Seq(1 .. 255) /\ z \in Seq(1 .. 255) BY <2>6
  <2>11. (x \o y) \o z = x \o (y \o z)
    <3> HIDE DEF x, y, z
    <3>1. QED BY <2>10, ConcatAssociative
  <2>12. QED BY <2>8, <2>9, <2>11, Zenon
<1>3. \A n \in Nat : n \in Good
  <2> HIDE DEF Good
  <2>1. QED BY <1>1, <1>2, LabelLoop!Induction
<1>4. Len(b) \in Nat OBVIOUS
<1>5. QED BY <1>3, <1>4

(* Between two dots there may be a label or nothing.                       *)
LabelOrNone == Label \cup {<<>>}

(* A label without a dot is one part (buffer.cpp:335-338).                 *)
LEMMA NoDots == \A label \in LabelOrNone : Parts(label) = <<label>>
<1> SUFFICES ASSUME NEW label \in LabelOrNone PROVE ~Contains(label, Dot)
  BY DEF Parts
<1>0. \A i \in 1 .. Len(<<>>) : FALSE OBVIOUS
<1>1. label \in Label => \A i \in 1 .. Len(label) : label[i] \in (1 .. 255) \ {Dot} BY ElementOfSeq DEF Label
<1>2. \A i \in 1 .. Len(label) : label[i] # Dot BY <1>0, <1>1 DEF LabelOrNone
<1>3. QED BY <1>2 DEF Contains

(* A name whose labels have no dots stays the name it is, also one with a  *)
(* dot at its end.                                                         *)
LEMMA SplitKeeps == \A name \in Seq(LabelOrNone) : Split(name) = name
<1> DEFINE F(s) == [i \in DOMAIN s |-> Parts(s[i])]
           Good == {n \in Nat : \A s \in Seq(LabelOrNone) : Len(s) = n => Split(s) = s}
           B == Seq(LabelOrNone)
<1>1. \A s \in B : Split(s) = FlattenSeq(F(s)) BY DEF Split
<1>2. 0 \in Good
  <2> SUFFICES ASSUME NEW s \in Seq(LabelOrNone), Len(s) = 0 PROVE Split(s) = s
    OBVIOUS
  <2>1. s = <<>> BY EmptySeq
  <2>2. F(s) = <<>> BY <2>1
  <2>3. QED BY <1>1, <2>1, <2>2, FlattenSteps
<1>3. \A s \in B : F(s) \in Seq(B) /\ Len(F(s)) = Len(s) /\ \A i \in 1 .. Len(s) : F(s)[i] = <<s[i]>>
  <2> TAKE s \in B
  <2>1. DOMAIN s = 1 .. Len(s) /\ Len(s) \in Nat BY LenProperties
  <2>2. \A i \in 1 .. Len(s) : s[i] \in LabelOrNone BY ElementOfSeq
  <2>3. \A i \in 1 .. Len(s) : Parts(s[i]) = <<s[i]>> /\ <<s[i]>> \in B BY <2>2, NoDots
  <2>4. \A i \in 1 .. Len(s) : Parts(s[i]) \in B BY <2>3
  <2>5. F(s) \in Seq(B) /\ Len(F(s)) = Len(s)
    <3> HIDE DEF B
    <3>1. QED BY <2>1, <2>4
  <2>6. \A i \in 1 .. Len(s) : F(s)[i] = Parts(s[i]) BY <2>1
  <2>7. QED BY <2>3, <2>5, <2>6
<1>4. ASSUME NEW n \in Nat, n \in Good PROVE n + 1 \in Good
  <2> SUFFICES ASSUME NEW s \in Seq(LabelOrNone), Len(s) = n + 1 PROVE Split(s) = s
    OBVIOUS
  <2>1. PICK r \in Seq(LabelOrNone), l \in LabelOrNone : s = Append(r, l)
    <3>1. s # <<>> BY EmptySeq
    <3>2. QED BY <3>1, SequenceEmptyOrAppend
  <2>2. Len(r) = n
    <3>1. Len(s) = Len(r) + 1 BY <2>1, AppendProperties
    <3>2. Len(r) \in Nat OBVIOUS
    <3>3. QED BY <3>1, <3>2
  <2>3. Split(r) = r BY <1>4, <2>2
  <2> DEFINE h == <<l>>
             u == Append(F(r), h)
  <2>4. h \in B OBVIOUS
  <2>5. s[n + 1] = l /\ \A i \in 1 .. n : s[i] = r[i] BY <2>1, <2>2, AppendProperties
  <2> HIDE DEF F, B, u
  <2>6. F(r) \in Seq(B) /\ Len(F(r)) = n /\ \A i \in 1 .. n : F(r)[i] = <<r[i]>> BY <1>3, <2>2 DEF B
  <2>7. F(s) \in Seq(B) /\ Len(F(s)) = n + 1 /\ \A i \in 1 .. n + 1 : F(s)[i] = <<s[i]>> BY <1>3 DEF B
  <2>8. u \in Seq(B) /\ Len(u) = n + 1 /\ (\A i \in 1 .. n : u[i] = F(r)[i]) /\ u[n + 1] = <<l>>
    BY <2>4, <2>6, AppendProperties DEF u
  <2>9. \A i \in 1 .. n + 1 : F(s)[i] = u[i]
    <3> SUFFICES ASSUME NEW i \in 1 .. n + 1 PROVE F(s)[i] = u[i]
      OBVIOUS
    <3>1. CASE i = n + 1 BY <2>5, <2>7, <2>8, <3>1
    <3>2. CASE i # n + 1
      <4>1. i \in 1 .. n BY <3>2
      <4>2. F(s)[i] = <<s[i]>> /\ s[i] = r[i] BY <2>5, <2>7, <4>1
      <4>3. u[i] = F(r)[i] /\ F(r)[i] = <<r[i]>> BY <2>6, <2>8, <4>1
      <4>4. QED BY <4>2, <4>3, Zenon
    <3>3. QED BY <3>1, <3>2
  <2>10. F(s) = u BY <2>7, <2>8, <2>9, SeqEqual
  <2>11. FlattenSeq(u) = IF F(r) = <<>> THEN h ELSE FlattenSeq(F(r)) \o h
    <3> HIDE DEF h
    <3>1. QED BY <2>4, <2>6, FlattenSteps DEF u
  <2>12. FlattenSeq(F(r)) = r /\ FlattenSeq(F(s)) = Split(s) BY <1>1, <2>3 DEF B
  <2>13. s = r \o h BY <2>1, AppendIsConcat
  <2>14. CASE F(r) = <<>>
    <3>1. n = 0 BY <2>6, <2>14
    <3>2. r = <<>> BY <2>2, <3>1, EmptySeq
    <3>3. s = h
      <4>1. h \in Seq(LabelOrNone) OBVIOUS
      <4>2. QED BY <2>13, <3>2, <4>1, ConcatEmptySeq
    <3>4. QED BY <2>10, <2>11, <2>12, <2>14, <3>3
  <2>15. CASE F(r) # <<>> BY <2>10, <2>11, <2>12, <2>13, <2>15
  <2>16. QED BY <2>14, <2>15
<1>5. \A n \in Nat : n \in Good
  <2> HIDE DEF Good
  <2>1. QED BY <1>2, <1>4, LabelLoop!Induction
<1>6. TAKE name \in Seq(LabelOrNone)
<1>7. Len(name) \in Nat OBVIOUS
<1>8. QED BY <1>5, <1>7

(* A name as it is written when nothing is shortened.                      *)
InFull(labels) == Flat(labels) \o <<0>>

(* The two bytes of a link.                                                *)
LinkTo(target) == Put16(256 * LinkTag + target)

(* Labels and a link behind them.                                          *)
Linked(labels, target) == Flat(labels) \o LinkTo(target)

(* A number of 16 bits is its high byte and its low byte.                  *)
LEMMA TwoBytes ==
  ASSUME NEW n \in Nat, n < 65536
  PROVE  /\ n \div 256 \in Nat /\ n \div 256 \in 0 .. 255
         /\ n % 256 \in Nat /\ n % 256 \in 0 .. 255
         /\ 256 * (n \div 256) + (n % 256) = n
         /\ (n \div 256) % 256 = n \div 256
<1>1. n % 256 \in Nat /\ n % 256 \in 0 .. 255 OBVIOUS
<1>2. n \div 256 \in Nat /\ n \div 256 \in 0 .. 255 OBVIOUS
<1>3. 256 * (n \div 256) + (n % 256) = n OBVIOUS
<1>4. \A x \in 0 .. 255 : x % 256 = x OBVIOUS
<1>5. QED BY <1>1, <1>2, <1>3, <1>4

(* A link can be told from a label, and leads where it was meant to.       *)
LEMMA LinkBytes ==
  ASSUME NEW target \in Nat, target < 16384
  PROVE  /\ LinkTo(target) \in ByteString
         /\ Len(LinkTo(target)) = 2
         /\ LinkTo(target)[1] \in Nat /\ LinkTo(target)[1] >= LinkTag
         /\ 256 * (LinkTo(target)[1] - LinkTag) + LinkTo(target)[2] = target
<1> DEFINE n == 256 * LinkTag + target
           x == n \div 256
           y == n % 256
<1>1. n \in Nat /\ n < 65536 /\ n = 49152 + target BY DEF LinkTag
<1>2. LinkTo(target) = <<x % 256, y>> BY DEF LinkTo, Put16
<1> HIDE DEF n
<1>3. /\ x \in Nat /\ x \in 0 .. 255 /\ y \in Nat /\ y \in 0 .. 255
      /\ 256 * x + y = n /\ x % 256 = x
  BY <1>1, TwoBytes
<1> HIDE DEF x, y
<1>4. 256 * (x - 192) + y = target /\ x >= 192 BY <1>1, <1>3
<1>5. LinkTo(target) = <<x, y>> BY <1>2, <1>3
<1>6. LinkTo(target)[1] = x /\ LinkTo(target)[2] = y /\ Len(LinkTo(target)) = 2 BY <1>5
<1>7. LinkTo(target) \in ByteString BY <1>3, <1>5 DEF ByteString
<1>8. 256 * (x - LinkTag) + y = target /\ x >= LinkTag BY <1>4 DEF LinkTag
<1>9. QED BY <1>3, <1>6, <1>7, <1>8

(* What a name is written as is a string of bytes.                         *)
LEMMA FlatIsBytes ==
  ASSUME NEW labels \in Seq(Label)
  PROVE  /\ Flat(labels) \in ByteString
         /\ InFull(labels) \in ByteString
         /\ Len(InFull(labels)) = Len(Flat(labels)) + 1
         /\ Len(Flat(labels)) \in Nat
<1>1. Flat(labels) \in Seq(1 .. 255) /\ Len(Flat(labels)) \in Nat BY FlatType
<1>2. Flat(labels) \in Seq(0 .. 255) BY <1>1, SeqMonotonic
<1>3. <<0>> \in Seq(0 .. 255) /\ Len(<<0>>) = 1 OBVIOUS
<1>4. InFull(labels) \in Seq(0 .. 255) /\ Len(InFull(labels)) = Len(Flat(labels)) + 1
  BY <1>2, <1>3, ConcatProperties DEF InFull
<1>5. QED BY <1>1, <1>2, <1>4 DEF ByteString

(* Where a name is held in full, its labels are read up to the zero byte.  *)
LEMMA FullLabels ==
  ASSUME NEW c \in ByteString, NEW p \in Nat, NEW labels \in Seq(Label), Holds(c, p, InFull(labels))
  PROVE  LET z == p + Len(Flat(labels))
         IN /\ LabelsAt(c, p).labels = labels /\ LabelsAt(c, p).stop = z
            /\ z \in Nat /\ z < Len(c) /\ Byte(c, z) = 0
<1> DEFINE z == p + Len(Flat(labels))
<1>1. Flat(labels) \in ByteString /\ Len(Flat(labels)) \in Nat /\ <<0>> \in ByteString
  BY FlatIsBytes DEF ByteString
<1>2. Holds(c, p, Flat(labels)) /\ Holds(c, z, <<0>>)
  <2>1. ASSUME NEW s \in ByteString, NEW t \in ByteString, Holds(c, p, s \o t)
        PROVE  Holds(c, p, s) /\ Holds(c, p + Len(s), t)
    BY <2>1, HoldsConcat DEF ByteString
  <2>2. QED BY <1>1, <2>1 DEF InFull
<1>3. z \in Nat BY <1>1
<1>4. z + 1 <= Len(c) /\ c[z + 1] = 0
  <2>1. Len(<<0>>) = 1 /\ 1 \in 1 .. 1 /\ <<0>>[1] = 0 OBVIOUS
  <2> HIDE DEF z
  <2>2. QED BY <1>2, <2>1 DEF Holds
<1>5. z < Len(c) /\ Byte(c, z) = 0
  <2>1. Len(c) \in Nat BY DEF ByteString
  <2> HIDE DEF z
  <2>2. QED BY <1>3, <1>4, <2>1 DEF Byte
<1>6. ~IsLabel(c, z) BY <1>5 DEF IsLabel
<1> HIDE DEF z
<1>7. LabelsAt(c, z).labels = <<>> /\ LabelsAt(c, z).stop = z BY <1>3, <1>6, LabelsStop
<1>8. LabelsAt(c, p).labels = labels \o LabelsAt(c, z).labels /\ LabelsAt(c, p).stop = LabelsAt(c, z).stop
  BY <1>2, LabelsRead DEF z
<1>9. labels \o <<>> = labels BY ConcatEmptySeq
<1>10. LabelsAt(c, p).labels = labels /\ LabelsAt(c, p).stop = z BY <1>7, <1>8, <1>9
<1>11. QED BY <1>3, <1>5, <1>10 DEF z

(* Where labels and a link are held, the labels are read up to the link.   *)
LEMMA LinkedLabels ==
  ASSUME NEW c \in ByteString, NEW p \in Nat, NEW labels \in Seq(Label), NEW target \in Nat, target < 16384,
         Holds(c, p, Linked(labels, target))
  PROVE  LET z == p + Len(Flat(labels))
         IN /\ LabelsAt(c, p).labels = labels /\ LabelsAt(c, p).stop = z
            /\ z \in Nat /\ z + 2 <= Len(c)
            /\ Byte(c, z) \in Nat /\ Byte(c, z) >= LinkTag /\ IsLink(c, z) /\ LinkTarget(c, z) = target
<1> DEFINE z == p + Len(Flat(labels))
           t == LinkTo(target)
<1>1. Flat(labels) \in ByteString /\ Len(Flat(labels)) \in Nat BY FlatIsBytes
<1>2. /\ t \in ByteString /\ Len(t) = 2
      /\ t[1] \in Nat /\ t[1] >= LinkTag
      /\ 256 * (t[1] - LinkTag) + t[2] = target
  BY LinkBytes
<1> HIDE DEF t
<1>3. Holds(c, p, Flat(labels)) /\ Holds(c, z, t)
  <2>1. ASSUME NEW s \in ByteString, NEW u \in ByteString, Holds(c, p, s \o u)
        PROVE  Holds(c, p, s) /\ Holds(c, p + Len(s), u)
    BY <2>1, HoldsConcat DEF ByteString
  <2>2. QED BY <1>1, <1>2, <2>1 DEF t, Linked
<1>4. z \in Nat /\ Len(c) \in Nat BY <1>1 DEF ByteString
<1> HIDE DEF z
<1>5. z + 2 <= Len(c) /\ c[z + 1] = t[1] /\ c[z + 2] = t[2]
  <2>1. 1 \in 1 .. 2 /\ 2 \in 1 .. 2 OBVIOUS
  <2>2. QED BY <1>2, <1>3, <2>1 DEF Holds
<1>6. Byte(c, z) = t[1] /\ Byte(c, z + 1) = t[2]
  <2>1. (z + 1) + 1 = z + 2 BY <1>4
  <2>2. QED BY <1>5, <2>1 DEF Byte
<1>7. IsLink(c, z) BY <1>2, <1>4, <1>5, <1>6 DEF IsLink
<1>8. LinkTarget(c, z) = target BY <1>2, <1>6 DEF LinkTarget
<1>9. Byte(c, z) \notin 1 .. MaxLabel
  <2>1. \A k \in Nat : k >= LinkTag => k \notin 1 .. MaxLabel BY DEF LinkTag, MaxLabel
  <2>2. QED BY <1>2, <1>6, <2>1
<1>10. ~IsLabel(c, z) BY <1>9 DEF IsLabel
<1>11. LabelsAt(c, z).labels = <<>> /\ LabelsAt(c, z).stop = z BY <1>4, <1>10, LabelsStop
<1>12. LabelsAt(c, p).labels = labels \o LabelsAt(c, z).labels /\ LabelsAt(c, p).stop = LabelsAt(c, z).stop
  BY <1>3, LabelsRead DEF z
<1>13. labels \o <<>> = labels BY ConcatEmptySeq
<1>14. LabelsAt(c, p).labels = labels /\ LabelsAt(c, p).stop = z BY <1>11, <1>12, <1>13
<1>15. QED BY <1>2, <1>4, <1>5, <1>6, <1>7, <1>8, <1>14 DEF z

-----------------------------------------------------------------------------
(* Reading a name from where it is held, in full or shortened.             *)

(* Names no longer than MAX_DOMAIN_LEN, with a dot between the labels.     *)
PlainNames == {name \in Seq(Label) : Len(Flat(name)) <= MaxDomain + 1}

(* Names to which the proxy can add a dot.                                 *)
ShortNames == {name \in Seq(Label) : Len(Flat(name)) <= MaxDomain}

(* The name with a dot at its end, and without it.                         *)
Open(name) == Append(name, <<>>)
Bare(name) == IF name = <<>> THEN <<>> ELSE Labels(name)

(* The nameserver by the way it writes names, and the proxy.               *)
Writers == {"proxy", "equal", "full", "root"}

(* What a writer is given to write.  Names that end with a dot are what    *)
(* the proxy makes of a link to the root (buffer.cpp:303).                 *)
WrittenNames(writer) ==
  CASE writer = "proxy" -> PlainNames \cup {Open(name) : name \in ShortNames \ {<<>>}}
    [] writer = "root" -> ShortNames
    [] OTHER -> PlainNames

(* Who reads what a writer wrote: the proxy does not read its own bytes.   *)
ReadersOf(writer) == IF writer = "proxy" THEN {"client"} ELSE {"proxy", "client"}

(* The labels a client may come to read, and the mark of what is no name.  *)
Parcels == ByteString \cup {Broken}

(* What is read of a name: the name itself, with a dot at its end where it *)
(* was linked to the root, and with labels of others behind its own where  *)
(* such a name was linked by the proxy.                                    *)
NameRead(writer, name, read) ==
  /\ read \in Seq(Parcels)
  /\ \/ read = Bare(name)
     \/ writer = "root" /\ name # <<>> /\ read = Open(name)
     \/ writer = "proxy" /\ name # Bare(name) /\ IsPrefix(Bare(name), read)

(* At p the buffer c holds the labels head and a link to tail.             *)
LinkedName(c, p, name, head, tail, target) ==
  /\ name = head \o tail
  /\ target < 16384
  /\ Holds(c, p, Linked(head, target))

(* At p the buffer c holds the name, in full or shortened, up to end.      *)
NameHeld(writer, c, p, name, end) ==
  \/ Holds(c, p, InFull(Bare(name))) /\ end = p + Len(Flat(Bare(name))) + 1
  \/ \E head, tail \in Seq(Label), target \in Nat :
        /\ LinkedName(c, p, Bare(name), head, tail, target)
        /\ end = p + Len(Flat(head)) + 2
        /\ \/ name = Bare(name) /\ (tail = <<>> => writer = "root") /\ Holds(c, target, InFull(tail))
           \/ writer = "proxy" /\ name # Bare(name) /\ Holds(c, target, Flat(tail))

(* What the proxy makes of a link in the last two bytes (buffer.cpp:291).  *)
CutAtLink(c, got, pos) == got = Thrown /\ pos = Len(c) /\ Byte(c, pos - 2) >= LinkTag

(* The reader reads the name, or is the proxy at such a link.              *)
Reads(writer, reader, c, got, name, pos) ==
  \/ \E read : NameRead(writer, name, read) /\ got = Got(read, pos)
  \/ reader = "proxy" /\ CutAtLink(c, got, pos)

(* A name without a dot at its end.                                        *)
LEMMA BareName ==
  ASSUME NEW name \in Seq(Label)
  PROVE  Bare(name) = name /\ (name # <<>> => Labels(name) = name /\ Ending(name) = <<0>>)
<1>1. SUFFICES ASSUME name # <<>> PROVE Labels(name) = name /\ Ending(name) = <<0>>
  BY DEF Bare
<1>2. Len(name) \in 1 .. Len(name) BY <1>1, EmptySeq
<1>3. Last(name) \in Label BY <1>2, ElementOfSeq DEF Last
<1>4. Last(name) # <<>>
  <2>1. Len(Last(name)) \in 1 .. MaxLabel BY <1>3 DEF Label
  <2>2. Len(<<>>) = 0 /\ 0 \notin 1 .. MaxLabel OBVIOUS
  <2>3. QED BY <2>1, <2>2
<1>5. QED BY <1>4 DEF Labels, Ending

(* A name with a dot at its end.                                           *)
LEMMA OpenName ==
  ASSUME NEW name \in Seq(Label), name # <<>>
  PROVE  /\ Open(name) \in Seq(LabelOrNone) /\ Open(name) # <<>> /\ Open(name) # name
         /\ Labels(Open(name)) = name /\ Ending(Open(name)) = <<>> /\ Bare(Open(name)) = name
         /\ Open(name) \notin Seq(Label)
<1> DEFINE s == Open(name)
           n == Len(name)
<1>0. <<>> \in LabelOrNone /\ Label \subseteq LabelOrNone BY DEF LabelOrNone
<1>1. name \in Seq(LabelOrNone) BY <1>0, SeqMonotonic
<1>2. n \in Nat OBVIOUS
<1>3. s \in Seq(LabelOrNone) /\ Len(s) = n + 1 /\ (\A i \in 1 .. n : s[i] = name[i]) /\ s[n + 1] = <<>>
  BY <1>0, <1>1, AppendProperties DEF Open
<1> HIDE DEF s, n
<1>4. s # <<>> /\ s # name
  <2>1. Len(s) # 0 /\ Len(s) # n BY <1>2, <1>3
  <2>2. QED BY <2>1 DEF n
<1>5. Last(s) = <<>> BY <1>3 DEF Last
<1>6. Front(s) = name
  <2>1. Front(s) = SubSeq(s, 1, n)
    <3>1. (n + 1) - 1 = n BY <1>2
    <3>2. QED BY <1>3, <3>1 DEF Front
  <2>2. SubSeq(s, 1, n) \in Seq(LabelOrNone) /\ Len(SubSeq(s, 1, n)) = n
        /\ \A i \in 1 .. n : SubSeq(s, 1, n)[i] = s[i]
    <3>1. \A i \in 1 .. n : s[i] \in LabelOrNone
      <4>1. \A i \in 1 .. n : i \in 1 .. Len(s) BY <1>2, <1>3
      <4>2. QED BY <1>3, <4>1, ElementOfSeq
    <3>2. QED BY <1>2, <1>3, <3>1, SubSeqProperties
  <2>3. \A i \in 1 .. n : SubSeq(s, 1, n)[i] = name[i] BY <1>3, <2>2
  <2>4. QED BY <1>1, <2>1, <2>2, <2>3, SeqEqual DEF n
<1>7. s \notin Seq(Label)
  <2>1. SUFFICES ASSUME s \in Seq(Label) PROVE FALSE OBVIOUS
  <2>2. n + 1 \in 1 .. Len(s) BY <1>2, <1>3
  <2>3. <<>> \in Label BY <1>3, <2>1, <2>2, ElementOfSeq
  <2>4. Len(<<>>) \in 1 .. MaxLabel BY <2>3 DEF Label
  <2>5. Len(<<>>) = 0 /\ 0 \notin 1 .. MaxLabel OBVIOUS
  <2>6. QED BY <2>4, <2>5
<1>8. QED BY <1>3, <1>4, <1>5, <1>6, <1>7 DEF Labels, Ending, Bare, s

(* A dot at its end makes a name one byte longer.                          *)
LEMMA OpenLength ==
  ASSUME NEW name \in Seq(Label), name # <<>>
  PROVE  Len(Flat(Open(name))) = Len(Flat(name)) + 1
<1> DEFINE B == ByteString
<1>1. \A s \in LabelOrNone : LabelBytes(s) \in B
  <2>1. \A s \in Label : LabelBytes(s) \in B BY LabelBytesType, SeqMonotonic DEF ByteString
  <2>2. LabelBytes(<<>>) = <<0>> /\ <<0>> \in B
    <3>1. <<0>> \o <<>> = <<0>> OBVIOUS
    <3>2. QED BY <3>1 DEF LabelBytes, ByteString
  <2>3. QED BY <2>1, <2>2 DEF LabelOrNone
<1>2. <<>> \in LabelOrNone /\ name \in Seq(LabelOrNone) BY SeqMonotonic DEF LabelOrNone
<1> HIDE DEF B
<1>3. Flat(Append(name, <<>>)) = Flat(name) \o LabelBytes(<<>>) BY <1>1, <1>2, FlatAppend
<1>4. LabelBytes(<<>>) = <<0>>
  <2>1. <<0>> \o <<>> = <<0>> OBVIOUS
  <2>2. QED BY <2>1 DEF LabelBytes
<1>5. Flat(Open(name)) = InFull(name) BY <1>3, <1>4 DEF Open, InFull
<1>6. QED BY <1>5, FlatIsBytes

(* What the proxy splits at dots (buffer.cpp:335-338) it looks up and      *)
(* writes with all of its labels.                                          *)
LEMMA SplitWritten ==
  ASSUME NEW name \in WrittenNames("proxy")
  PROVE  Split(name) = name
<1>1. CASE name \in PlainNames
  <2>1. name \in Seq(Label) BY <1>1 DEF PlainNames
  <2>2. name \in Seq(LabelOrNone) BY <2>1, SeqMonotonic DEF LabelOrNone
  <2>3. QED BY <2>2, SplitKeeps
<1>2. CASE \E n \in ShortNames \ {<<>>} : name = Open(n)
  <2>1. PICK n \in ShortNames \ {<<>>} : name = Open(n) BY <1>2
  <2>2. n \in Seq(Label) BY DEF ShortNames
  <2>3. QED BY <2>1, <2>2, OpenName, SplitKeeps
<1>3. QED BY <1>1, <1>2 DEF WrittenNames

(* What is written of a name is what remains without the dot at its end,   *)
(* which only the proxy is given.                                          *)
LEMMA WrittenName ==
  ASSUME NEW writer \in Writers, NEW name \in WrittenNames(writer)
  PROVE  /\ Bare(name) \in PlainNames /\ Bare(name) \in Seq(Label)
         /\ name = <<>> <=> Bare(name) = <<>>
         /\ name # Bare(name) =>
              writer = "proxy" /\ Bare(name) # <<>> /\ Labels(name) = Bare(name) /\ Ending(name) = <<>>
         /\ writer = "root" => Bare(name) \in ShortNames
<1>0. ShortNames \subseteq PlainNames
  <2>1. SUFFICES ASSUME NEW n \in ShortNames PROVE n \in PlainNames OBVIOUS
  <2>2. n \in Seq(Label) /\ Len(Flat(n)) <= MaxDomain BY DEF ShortNames
  <2>3. Len(Flat(n)) \in Nat BY <2>2, FlatType
  <2>4. Len(Flat(n)) <= MaxDomain + 1 BY <2>2, <2>3 DEF MaxDomain
  <2>5. QED BY <2>2, <2>4 DEF PlainNames
<1>1. CASE name \in PlainNames
  <2>1. name \in Seq(Label) BY <1>1 DEF PlainNames
  <2>2. Bare(name) = name BY <2>1, BareName
  <2>3. writer = "root" => name \in ShortNames BY DEF WrittenNames
  <2>4. QED BY <1>1, <2>1, <2>2, <2>3
<1>2. CASE writer = "proxy" /\ \E n \in ShortNames \ {<<>>} : name = Open(n)
  <2>1. PICK n \in ShortNames \ {<<>>} : name = Open(n) BY <1>2
  <2>2. n \in Seq(Label) /\ n \in PlainNames BY <1>0 DEF ShortNames
  <2>3. Bare(name) = n /\ name # <<>> /\ Labels(name) = n /\ Ending(name) = <<>> BY <2>1, <2>2, OpenName
  <2>4. QED BY <1>2, <2>1, <2>2, <2>3
<1>3. QED BY <1>0, <1>1, <1>2 DEF WrittenNames, Writers

(* The RFC's reading of a name, one and two links deep.                    *)
LEMMA NameAtSteps ==
  ASSUME NEW c \in ByteString
  PROVE  LET N(n) == LinkedNames!Iterate(c, [q \in Nat |-> <<Broken>>])[n]
         IN /\ \A p \in Nat : NameAt(c, p) = FollowLink(c, N(Len(c)))[p]
            /\ Len(c) > 0 => \A p \in Nat : N(Len(c))[p] = FollowLink(c, N(Len(c) - 1))[p]
<1> DEFINE it == LinkedNames!Iterate(c, [q \in Nat |-> <<Broken>>])
           n == Len(c)
<1>1. \A k \in Nat : it[k + 1] = FollowLink(c, it[k]) BY LinkedNames!IterateSteps
<1>2. n \in Nat BY DEF ByteString
<1> HIDE DEF it, n
<1>3. it[n + 1] = FollowLink(c, it[n]) BY <1>1, <1>2
<1>4. ASSUME n > 0 PROVE it[n] = FollowLink(c, it[n - 1])
  <2>1. n - 1 \in Nat /\ (n - 1) + 1 = n BY <1>2, <1>4
  <2>2. it[(n - 1) + 1] = FollowLink(c, it[n - 1]) BY <1>1, <2>1
  <2>3. QED BY <2>1, <2>2
<1>5. QED BY <1>3, <1>4 DEF NameAt, it, n

(* A name held in full is read whatever links would lead to.               *)
LEMMA FullName ==
  ASSUME NEW c \in ByteString, NEW p \in Nat, NEW name \in Seq(Label), Holds(c, p, InFull(name)), NEW call
  PROVE  FollowLink(c, call)[p] = name
<1> DEFINE z == p + Len(Flat(name))
<1>1. /\ LabelsAt(c, p).labels = name /\ LabelsAt(c, p).stop = z
      /\ z < Len(c) /\ Byte(c, z) = 0
  BY FullLabels
<1> HIDE DEF z
<1>2. FollowLink(c, call)[p] = name \o <<>> BY <1>1 DEF FollowLink
<1>3. QED BY <1>2, ConcatEmptySeq

(* Whoever reads a name reads a sequence of byte strings.                  *)
LEMMA NamesAreParcels ==
  ASSUME NEW name \in Seq(Label)
  PROVE  name \in Seq(Parcels) /\ Open(name) \in Seq(Parcels)
<1>1. Label \subseteq Parcels BY SeqMonotonic DEF Label, Parcels, ByteString
<1>2. <<>> \in Parcels BY DEF Parcels, ByteString
<1>3. name \in Seq(Parcels) BY <1>1, SeqMonotonic
<1>4. QED BY <1>2, <1>3, AppendProperties DEF Open

(* The positions a link can lead to.                                       *)
Targets == {t \in Nat : t < 16384}

(* Where the labels stop at a link, the name goes on at its target.        *)
LEMMA FollowLinkCases ==
  \A b, call : \A p \in Nat :
    LET z == LabelsAt(b, p).stop
    IN IsLink(b, z) /\ Byte(b, z) # 0 =>
         FollowLink(b, call)[p] = LabelsAt(b, p).labels \o call[LinkTarget(b, z)]
<1> SUFFICES ASSUME NEW b, NEW call, NEW p \in Nat,
                    IsLink(b, LabelsAt(b, p).stop), Byte(b, LabelsAt(b, p).stop) # 0
             PROVE  FollowLink(b, call)[p] =
                      LabelsAt(b, p).labels \o call[LinkTarget(b, LabelsAt(b, p).stop)]
  BY Zenon
<1>1. ~(LabelsAt(b, p).stop < Len(b) /\ Byte(b, LabelsAt(b, p).stop) = 0) OBVIOUS
<1>2. QED BY <1>1 DEF FollowLink

(* Labels and a link are read as these labels and the name at the target.  *)
LEMMA LinkName ==
  ASSUME NEW c \in ByteString, NEW p \in Nat, NEW head \in Seq(Label), NEW target \in Targets,
         Holds(c, p, Linked(head, target)), NEW call
  PROVE  FollowLink(c, call)[p] = head \o call[target]
<1> DEFINE end == p + Len(Flat(head))
<1>0. target \in Nat /\ target < 16384 BY DEF Targets
<1>1. /\ LabelsAt(c, p).labels = head /\ LabelsAt(c, p).stop = end
      /\ Byte(c, end) >= LinkTag /\ IsLink(c, end) /\ LinkTarget(c, end) = target
      /\ Byte(c, end) \in Nat
  BY <1>0, LinkedLabels
<1> HIDE DEF end
<1>2. Byte(c, end) # 0 BY <1>1 DEF LinkTag
<1>3. IsLink(c, LabelsAt(c, p).stop) /\ Byte(c, LabelsAt(c, p).stop) # 0 BY <1>1, <1>2
<1>4. FollowLink(c, call)[p] = LabelsAt(c, p).labels \o call[LinkTarget(c, LabelsAt(c, p).stop)]
  BY <1>3, FollowLinkCases
<1>5. LabelsAt(c, p).labels = head /\ LinkTarget(c, LabelsAt(c, p).stop) = target BY <1>1
<1>6. QED BY <1>4, <1>5

(* At every position there is something to read.                           *)
AllSequences(call) == \A q \in Nat : call[q] \in Seq(Parcels)

(* The labels come first.                                                  *)
StartsWith(name, labels) == \E rest \in Seq(Parcels) : name = labels \o rest

(* Behind a link other labels are read, and before it these.               *)
LEMMA FollowLinkType ==
  ASSUME NEW c \in ByteString, NEW call, \A q \in Nat : call[q] \in Seq(Parcels), NEW p \in Nat
  PROVE  \E rest \in Seq(Parcels) :
            FollowLink(c, call)[p] = LabelsAt(c, p).labels \o rest
<1> DEFINE here == LabelsAt(c, p)
           rest == IF here.stop < Len(c) /\ Byte(c, here.stop) = 0 THEN <<>>
                   ELSE IF IsLink(c, here.stop) THEN call[LinkTarget(c, here.stop)]
                   ELSE <<Broken>>
<1>1. FollowLink(c, call)[p] = here.labels \o rest BY DEF FollowLink
<1>2. here.stop \in Nat BY LabelsAtType DEF Pieces
<1>3. rest \in Seq(Parcels)
  <2>1. <<>> \in Seq(Parcels) OBVIOUS
  <2>2. <<Broken>> \in Seq(Parcels) BY DEF Parcels
  <2>3. ASSUME IsLink(c, here.stop) PROVE call[LinkTarget(c, here.stop)] \in Seq(Parcels)
    <3>1. LinkTarget(c, here.stop) \in Nat BY <1>2, <2>3, LinkTargetType
    <3>2. QED BY <3>1
  <2> HIDE DEF here
  <2>4. QED BY <2>1, <2>2, <2>3
<1>4. QED BY <1>1, <1>3

(* However deep links lead, what is read is a sequence.                    *)
LEMMA NamesAreSequences ==
  ASSUME NEW c \in ByteString
  PROVE  \A n \in Nat : \A q \in Nat :
            LinkedNames!Iterate(c, [i \in Nat |-> <<Broken>>])[n][q] \in Seq(Parcels)
<1> DEFINE it == LinkedNames!Iterate(c, [i \in Nat |-> <<Broken>>])
           Good == {n \in Nat : \A q \in Nat : it[n][q] \in Seq(Parcels)}
<1>1. it[0] = [i \in Nat |-> <<Broken>>] /\ \A n \in Nat : it[n + 1] = FollowLink(c, it[n])
  BY LinkedNames!IterateSteps
<1>2. 0 \in Good
  <2>1. <<Broken>> \in Seq(Parcels) BY DEF Parcels
  <2>2. QED BY <1>1, <2>1
<1> HIDE DEF it
<1>3. ASSUME NEW n \in Nat, n \in Good PROVE n + 1 \in Good
  <2>1. \A q \in Nat : it[n][q] \in Seq(Parcels) BY <1>3
  <2>2. ASSUME NEW q \in Nat PROVE it[n + 1][q] \in Seq(Parcels)
    <3>1. PICK rest \in Seq(Parcels) : FollowLink(c, it[n])[q] = LabelsAt(c, q).labels \o rest
      BY <2>1, FollowLinkType
    <3>2. LabelsAt(c, q).labels \in Seq(ByteString) BY LabelsAtType DEF Pieces
    <3>3. LabelsAt(c, q).labels \in Seq(Parcels) BY <3>2, SeqMonotonic DEF Parcels
    <3>4. LabelsAt(c, q).labels \o rest \in Seq(Parcels) BY <3>3, ConcatProperties
    <3>5. QED BY <1>1, <3>1, <3>4
  <2>3. QED BY <2>2
<1>4. \A n \in Nat : n \in Good
  <2> HIDE DEF Good
  <2>1. QED BY <1>2, <1>3, LabelLoop!Induction
<1>5. QED BY <1>4 DEF it

(* A sequence is a prefix of what is put behind it, and of itself.         *)
LEMMA PrefixOfConcat ==
  ASSUME NEW S, NEW s \in Seq(S), NEW t \in Seq(S)
  PROVE  IsPrefix(s, s \o t)
<1> DEFINE u == s \o t
           n == Len(s)
<1>1. /\ u \in Seq(S) /\ n \in Nat /\ Len(t) \in Nat /\ Len(u) = n + Len(t)
      /\ \A i \in 1 .. n + Len(t) : u[i] = IF i <= n THEN s[i] ELSE t[i - n]
  BY ConcatProperties
<1>2. s \in Seq(S) /\ \A i \in 1 .. n : s[i] \in S BY ElementOfSeq
<1> HIDE DEF u, n
<1>3. n <= Len(u) /\ \A i \in 1 .. n : u[i] = s[i]
  <2>1. \A i \in 1 .. n : i \in 1 .. n + Len(t) /\ i <= n BY <1>1
  <2>2. n <= Len(u) BY <1>1
  <2>3. QED BY <1>1, <2>1, <2>2
<1>4. SubSeq(s, 1, n) = s BY SubSeqFull DEF n
<1>5. SubSeq(u, 1, n) = s
  <2>1. \A i \in 1 .. n : u[i] \in S BY <1>2, <1>3
  <2>2. /\ SubSeq(u, 1, n) \in Seq(S) /\ Len(SubSeq(u, 1, n)) = n
        /\ \A i \in 1 .. n : SubSeq(u, 1, n)[i] = u[i]
    BY <1>1, <2>1, SubSeqProperties
  <2>3. \A i \in 1 .. n : SubSeq(u, 1, n)[i] = s[i] BY <1>3, <2>2
  <2>4. QED BY <1>2, <2>2, <2>3, SeqEqual DEF n
<1>6. QED BY <1>3, <1>4, <1>5 DEF IsPrefix, u, n

(* Every sequence begins with itself.                                      *)
LEMMA PrefixOfItself == \A S : \A s \in Seq(S) : IsPrefix(s, s)
BY DEF IsPrefix

(* Where the labels of a name are held, whatever follows them, they are    *)
(* the first that are read.                                                *)
LEMMA FirstLabels ==
  ASSUME NEW c \in ByteString, NEW p \in Nat, NEW tail \in Seq(Label), Holds(c, p, Flat(tail)),
         NEW call, AllSequences(call)
  PROVE  StartsWith(FollowLink(c, call)[p], tail)
<1>1. PICK x \in Seq(Parcels) : FollowLink(c, call)[p] = LabelsAt(c, p).labels \o x
  BY FollowLinkType DEF AllSequences
<1> DEFINE q == p + Len(Flat(tail))
           y == LabelsAt(c, q).labels
<1>2. q \in Nat BY FlatType
<1>3. LabelsAt(c, p).labels = tail \o y BY LabelsRead
<1> HIDE DEF q
<1>4. y \in Seq(Parcels)
  <2>1. y \in Seq(ByteString) BY <1>2, LabelsAtType DEF Pieces
  <2>2. QED BY <2>1, SeqMonotonic DEF Parcels
<1> HIDE DEF y
<1>5. tail \in Seq(Parcels)
  <2>1. Label \subseteq Parcels BY SeqMonotonic DEF Label, Parcels, ByteString
  <2>2. QED BY <2>1, SeqMonotonic
<1>6. (tail \o y) \o x = tail \o (y \o x) BY <1>4, <1>5, ConcatAssociative
<1>7. y \o x \in Seq(Parcels) BY <1>4, ConcatProperties
<1>8. QED BY <1>1, <1>3, <1>6, <1>7 DEF StartsWith

(* By the RFC a name is read from where it is held.                        *)
LEMMA NameAtRead ==
  ASSUME NEW c \in ByteString, NEW p \in Nat, NEW writer \in Writers, NEW name \in WrittenNames(writer),
         NEW end, NameHeld(writer, c, p, name, end)
  PROVE  NameRead(writer, name, NameAt(c, p)) /\ EndOfName(c, p) = end
<1> DEFINE N(n) == LinkedNames!Iterate(c, [q \in Nat |-> <<Broken>>])[n]
           bare == Bare(name)
<1>0. /\ \A q \in Nat : NameAt(c, q) = FollowLink(c, N(Len(c)))[q]
      /\ Len(c) > 0 => \A q \in Nat : N(Len(c))[q] = FollowLink(c, N(Len(c) - 1))[q]
  BY NameAtSteps
<1>1. \A n \in Nat : \A q \in Nat : N(n)[q] \in Seq(Parcels) BY NamesAreSequences
<1>2. bare \in Seq(Label) BY WrittenName
<1> HIDE DEF N, bare
<1>20. bare \in Seq(Parcels) BY <1>2, NamesAreParcels
<1>3. ASSUME Holds(c, p, InFull(bare)), end = p + Len(Flat(bare)) + 1
      PROVE  NameRead(writer, name, NameAt(c, p)) /\ EndOfName(c, p) = end
  <2> DEFINE z == p + Len(Flat(bare))
  <2>1. NameAt(c, p) = bare BY <1>0, <1>2, <1>3, FullName
  <2>2. LabelsAt(c, p).stop = z /\ Byte(c, z) = 0 BY <1>2, <1>3, FullLabels
  <2>3. end = z + 1 BY <1>3
  <2> HIDE DEF z
  <2>4. ~IsLink(c, z) BY <2>2 DEF IsLink, LinkTag
  <2>5. NameRead(writer, name, NameAt(c, p)) BY <1>20, <2>1 DEF NameRead, bare
  <2>6. QED BY <2>2, <2>3, <2>4, <2>5 DEF EndOfName
<1>4. ASSUME NEW head \in Seq(Label), NEW tail \in Seq(Label), NEW target \in Nat,
             LinkedName(c, p, bare, head, tail, target), end = p + Len(Flat(head)) + 2,
             \/ name = bare /\ Holds(c, target, InFull(tail))
             \/ writer = "proxy" /\ name # bare /\ Holds(c, target, Flat(tail))
      PROVE  NameRead(writer, name, NameAt(c, p)) /\ EndOfName(c, p) = end
  <2> DEFINE z == p + Len(Flat(head))
  <2>1. target < 16384 /\ Holds(c, p, Linked(head, target)) /\ bare = head \o tail
    BY <1>4 DEF LinkedName
  <2>2. LabelsAt(c, p).stop = z /\ IsLink(c, z) /\ z \in Nat /\ z + 2 <= Len(c) BY <2>1, LinkedLabels
  <2>3. end = z + 2 BY <1>4
  <2> HIDE DEF z
  <2>4. EndOfName(c, p) = end BY <2>2, <2>3 DEF EndOfName
  <2>5. Len(c) > 0 /\ Len(c) \in Nat /\ Len(c) - 1 \in Nat
    <3>1. Len(c) \in Nat BY DEF ByteString
    <3>2. QED BY <2>2, <3>1
  <2>6. N(Len(c))[target] = FollowLink(c, N(Len(c) - 1))[target] BY <1>0, <2>5
  <2>7. NameAt(c, p) = head \o N(Len(c))[target]
    <3>1. NameAt(c, p) = FollowLink(c, N(Len(c)))[p] BY <1>0
    <3>2. target \in Targets BY <2>1 DEF Targets
    <3>3. QED BY <2>1, <3>1, <3>2, LinkName
  <2>8. CASE name = bare /\ Holds(c, target, InFull(tail))
    <3>1. N(Len(c))[target] = tail BY <2>6, <2>8, FullName
    <3>2. NameAt(c, p) = bare BY <2>1, <2>7, <3>1
    <3>3. QED BY <1>20, <2>4, <3>2 DEF NameRead, bare
  <2>9. CASE writer = "proxy" /\ name # bare /\ Holds(c, target, Flat(tail))
    <3> DEFINE call == N(Len(c) - 1)
    <3>1. \A q \in Nat : call[q] \in Seq(Parcels) BY <1>1, <2>5
    <3>0. N(Len(c))[target] = FollowLink(c, call)[target] BY <2>6
    <3> HIDE DEF call
    <3>2. PICK rest \in Seq(Parcels) : FollowLink(c, call)[target] = tail \o rest
      <4>1. Holds(c, target, Flat(tail)) /\ AllSequences(call) BY <2>9, <3>1 DEF AllSequences
      <4>2. StartsWith(FollowLink(c, call)[target], tail) BY <4>1, FirstLabels
      <4>3. QED BY <4>2 DEF StartsWith
    <3>3. head \in Seq(Parcels) /\ tail \in Seq(Parcels) BY NamesAreParcels
    <3>4. NameAt(c, p) = head \o (tail \o rest) BY <2>7, <3>0, <3>2
    <3>5. head \o (tail \o rest) = (head \o tail) \o rest BY <3>3, ConcatAssociative
    <3>7. IsPrefix(bare, NameAt(c, p)) /\ NameAt(c, p) \in Seq(Parcels)
      <4>1. IsPrefix(bare, bare \o rest) BY <1>20, PrefixOfConcat
      <4>2. NameAt(c, p) = bare \o rest BY <2>1, <3>4, <3>5
      <4>3. bare \o rest \in Seq(Parcels) BY <1>20, ConcatProperties
      <4>4. QED BY <4>1, <4>2, <4>3
    <3>8. QED BY <2>4, <2>9, <3>7 DEF NameRead, bare
  <2>10. QED BY <1>4, <2>8, <2>9
<1>5. QED BY <1>3, <1>4 DEF NameHeld, bare

(* Calls of getDnsDomainName one and two links deep.                       *)
LEMMA GetNameSteps ==
  ASSUME NEW c \in ByteString
  PROVE  LET G(n) == GetNameCalls!Iterate(c, [linkPos \in Seq(Nat) |-> Endless])[n]
         IN /\ \A p \in Nat : GetDnsDomainName(c, p) = GetName(c, G(Len(c)))[<<p>>]
            /\ Len(c) > 0 => \A linkPos : G(Len(c))[linkPos] = GetName(c, G(Len(c) - 1))[linkPos]
<1> DEFINE it == GetNameCalls!Iterate(c, [linkPos \in Seq(Nat) |-> Endless])
           n == Len(c)
<1>1. \A k \in Nat : it[k + 1] = GetName(c, it[k]) BY GetNameCalls!IterateSteps
<1>2. n \in Nat BY DEF ByteString
<1> HIDE DEF it, n
<1>3. it[n + 1] = GetName(c, it[n]) BY <1>1, <1>2
<1>4. ASSUME n > 0 PROVE it[n] = GetName(c, it[n - 1])
  <2>1. n - 1 \in Nat /\ (n - 1) + 1 = n BY <1>2, <1>4
  <2>2. it[(n - 1) + 1] = GetName(c, it[n - 1]) BY <1>1, <2>1
  <2>3. QED BY <2>1, <2>2
<1>5. QED BY <1>3, <1>4 DEF GetDnsDomainName, it, n

(* A call reads the labels at its position and then their end.             *)
LEMMA GetNameCases ==
  \A b, call : \A linkPos \in Seq(Nat) :
     ~Repeated(linkPos) =>
        GetName(b, call)[linkPos] =
          GetEnd(b, LabelsAt(b, Last(linkPos)).labels, LabelsAt(b, Last(linkPos)).stop, linkPos, call)
BY DEF GetName

(* A plain name is not too long for the proxy.                             *)
LEMMA LimitedKeeps ==
  ASSUME NEW name \in PlainNames, NEW pos
  PROVE  Limited(Got(name, pos)) = Got(name, pos)
<1>1. Got(name, pos).val = name BY DEF Got
<1>2. name \in Seq(Label) /\ Len(Flat(name)) <= MaxDomain + 1 BY DEF PlainNames
<1>3. Len(Flat(name)) \in Nat BY <1>2, FlatType
<1>4. ~(Len(Flat(name)) > MaxDomain + 1) BY <1>2, <1>3 DEF MaxDomain
<1>5. ~(Len(Flat(Got(name, pos).val)) > MaxDomain + 1) BY <1>1, <1>4
<1>6. QED BY <1>5 DEF Limited

(* Nor is one it adds a dot to, if it was a byte shorter.                  *)
LEMMA LimitedOpen ==
  ASSUME NEW name \in ShortNames, name # <<>>, NEW pos
  PROVE  Limited(Got(Open(name), pos)) = Got(Open(name), pos)
<1>1. Got(Open(name), pos).val = Open(name) BY DEF Got
<1>2. name \in Seq(Label) /\ Len(Flat(name)) <= MaxDomain BY DEF ShortNames
<1>3. Len(Flat(name)) \in Nat /\ Len(Flat(Open(name))) = Len(Flat(name)) + 1 BY <1>2, FlatType, OpenLength
<1>4. ~(Len(Flat(Open(name))) > MaxDomain + 1) BY <1>2, <1>3 DEF MaxDomain
<1>5. ~(Len(Flat(Got(Open(name), pos).val)) > MaxDomain + 1) BY <1>1, <1>4
<1>6. QED BY <1>5 DEF Limited

(* The proxy reads a name that is held in full.                            *)
LEMMA GetFull ==
  ASSUME NEW c \in ByteString, NEW q \in Nat, NEW name \in PlainNames, Holds(c, q, InFull(name)),
         NEW linkPos \in Seq(Nat), Last(linkPos) = q, ~Repeated(linkPos), NEW call
  PROVE  GetName(c, call)[linkPos] = Got(name, q + Len(Flat(name)) + 1)
<1> DEFINE end == q + Len(Flat(name))
<1>1. name \in Seq(Label) BY DEF PlainNames
<1>2. /\ LabelsAt(c, q).labels = name /\ LabelsAt(c, q).stop = end
      /\ end \in Nat /\ end < Len(c) /\ Byte(c, end) = 0
  BY <1>1, FullLabels
<1> HIDE DEF end
<1>3. GetName(c, call)[linkPos] = GetEnd(c, LabelsAt(c, q).labels, LabelsAt(c, q).stop, linkPos, call)
  BY GetNameCases
<1>4. GetName(c, call)[linkPos] = GetEnd(c, name, end, linkPos, call) BY <1>2, <1>3
<1>5. ~(end >= Len(c)) BY <1>2 DEF ByteString
<1>6. GetEnd(c, name, end, linkPos, call) = Limited(Got(name, end + 1)) BY <1>2, <1>5 DEF GetEnd
<1>7. Limited(Got(name, end + 1)) = Got(name, end + 1) BY LimitedKeeps
<1>8. QED BY <1>4, <1>6, <1>7 DEF end

(* At the first position no position is repeated.                          *)
LEMMA PathOfOne ==
  ASSUME NEW p \in Nat
  PROVE  <<p>> \in Seq(Nat) /\ Last(<<p>>) = p /\ ~Repeated(<<p>>)
<1>1. <<p>> \in Seq(Nat) /\ Len(<<p>>) = 1 /\ <<p>>[1] = p OBVIOUS
<1>2. 1 .. 1 - 1 = {} OBVIOUS
<1>3. QED BY <1>1, <1>2 DEF Last, Repeated

(* A single position with another behind it.                               *)
LEMMA OneAndAnother ==
  ASSUME NEW S, NEW one \in Seq(S), NEW q \in S, Len(one) = 1
  PROVE  /\ Append(one, q) \in Seq(S) /\ Len(Append(one, q)) = Len(one) + 1
         /\ Append(one, q)[1] = one[1] /\ Append(one, q)[Len(one) + 1] = q
<1>1. /\ Append(one, q) \in Seq(S) /\ Len(Append(one, q)) = Len(one) + 1
      /\ Append(one, q)[Len(one) + 1] = q
  BY AppendProperties, SMTT(60)
<1>2. \A i \in 1 .. Len(one) : Append(one, q)[i] = one[i] BY AppendProperties, SMTT(60)
<1>3. 1 \in 1 .. Len(one) OBVIOUS
<1>4. QED BY <1>1, <1>2, <1>3

(* At a second position, another than the first, none is.                  *)
LEMMA PathOfTwo ==
  ASSUME NEW p \in Nat, NEW q \in Nat, p # q
  PROVE  Append(<<p>>, q) \in Seq(Nat) /\ Last(Append(<<p>>, q)) = q /\ ~Repeated(Append(<<p>>, q))
<1> DEFINE one == <<p>>
           two == Append(one, q)
<1>1. one \in Seq(Nat) /\ Len(one) = 1 /\ one[1] = p OBVIOUS
<1> HIDE DEF one
<1>2. two \in Seq(Nat) /\ Len(two) = 2 /\ two[1] = p /\ two[2] = q
  <2>1. /\ two \in Seq(Nat) /\ Len(two) = Len(one) + 1
        /\ two[1] = one[1] /\ two[Len(one) + 1] = q
    BY <1>1, OneAndAnother
  <2>2. Len(one) + 1 = 2 BY <1>1
  <2>3. QED BY <1>1, <2>1, <2>2
<1> HIDE DEF two
<1>3. 1 .. 2 - 1 = {1} OBVIOUS
<1>4. Last(two) = q BY <1>2 DEF Last
<1>5. ~Repeated(two) BY <1>2, <1>3, <1>4 DEF Repeated
<1>6. QED BY <1>2, <1>4, <1>5 DEF one, two

(* The end of a plain name is a plain name.                                *)
LEMMA TailIsPlain ==
  ASSUME NEW head \in Seq(Label), NEW tail \in Seq(Label), head \o tail \in PlainNames
  PROVE  tail \in PlainNames
<1>1. Flat(head \o tail) = Flat(head) \o Flat(tail) BY FlatConcat
<1>2. /\ Flat(head) \in Seq(1 .. 255) /\ Len(Flat(head)) \in Nat
      /\ Flat(tail) \in Seq(1 .. 255) /\ Len(Flat(tail)) \in Nat
  BY FlatType
<1>3. Len(Flat(head \o tail)) = Len(Flat(head)) + Len(Flat(tail)) BY <1>1, <1>2
<1>4. Len(Flat(head \o tail)) <= MaxDomain + 1 BY DEF PlainNames
<1>5. Len(Flat(tail)) <= MaxDomain + 1 BY <1>2, <1>3, <1>4 DEF MaxDomain
<1>6. QED BY <1>5 DEF PlainNames

(* A link does not lead to where the shortened name begins.                *)
LEMMA DifferentPlaces ==
  ASSUME NEW c \in ByteString, NEW p \in Nat, NEW name, NEW head \in Seq(Label), NEW tail \in Seq(Label),
         NEW target \in Nat, LinkedName(c, p, name, head, tail, target), Holds(c, target, InFull(tail))
  PROVE  p # target
<1>1. target < 16384 /\ Holds(c, p, Linked(head, target)) /\ Holds(c, target, InFull(tail))
  BY DEF LinkedName
<1>2. /\ Byte(c, LabelsAt(c, p).stop) >= LinkTag /\ Byte(c, LabelsAt(c, p).stop) \in Nat BY <1>1, LinkedLabels
<1>3. Byte(c, LabelsAt(c, target).stop) = 0 BY <1>1, FullLabels
<1>4. Byte(c, LabelsAt(c, p).stop) # 0 BY <1>2 DEF LinkTag
<1>5. QED BY <1>3, <1>4

(* getDnsDomainName reads a name that is held in full.                     *)
LEMMA ReadsFull ==
  ASSUME NEW c \in ByteString, NEW p \in Nat, NEW name \in PlainNames, Holds(c, p, InFull(name))
  PROVE  GetDnsDomainName(c, p) = Got(name, p + Len(Flat(name)) + 1)
<1> DEFINE G(n) == GetNameCalls!Iterate(c, [linkPos \in Seq(Nat) |-> Endless])[n]
<1>1. GetDnsDomainName(c, p) = GetName(c, G(Len(c)))[<<p>>] BY GetNameSteps
<1> DEFINE path == <<p>>
<1>2. path \in Seq(Nat) /\ Last(path) = p /\ ~Repeated(path) BY PathOfOne
<1> HIDE DEF G, path
<1>3. GetName(c, G(Len(c)))[path] = Got(name, p + Len(Flat(name)) + 1) BY <1>2, GetFull
<1>4. QED BY <1>1, <1>3 DEF path

(* getDnsDomainName reads a shortened name, unless its link is at the very *)
(* end; where the link leads to the root, it puts a dot behind the name    *)
(* (buffer.cpp:303).                                                       *)
LEMMA ReadsLink ==
  ASSUME NEW c \in ByteString, NEW p \in Nat, NEW name \in PlainNames, NEW head \in Seq(Label),
         NEW tail \in Seq(Label), NEW target \in Nat, LinkedName(c, p, name, head, tail, target),
         Holds(c, target, InFull(tail)), tail = <<>> => name \in ShortNames
  PROVE  LET end == p + Len(Flat(head)) + 2
             got == GetDnsDomainName(c, p)
         IN \/ got = Got(name, end)
            \/ tail = <<>> /\ name # <<>> /\ got = Got(Open(name), end)
            \/ CutAtLink(c, got, end)
<1> DEFINE G(n) == GetNameCalls!Iterate(c, [linkPos \in Seq(Nat) |-> Endless])[n]
           z == p + Len(Flat(head))
<1>1. /\ GetDnsDomainName(c, p) = GetName(c, G(Len(c)))[<<p>>]
      /\ Len(c) > 0 => \A linkPos : G(Len(c))[linkPos] = GetName(c, G(Len(c) - 1))[linkPos]
  BY GetNameSteps
<1> HIDE DEF G
<1>2. /\ target < 16384 /\ Holds(c, p, Linked(head, target)) /\ Holds(c, target, InFull(tail))
      /\ name = head \o tail
  BY DEF LinkedName
<1>3. /\ LabelsAt(c, p).labels = head /\ LabelsAt(c, p).stop = z
      /\ z \in Nat /\ z + 2 <= Len(c)
      /\ Byte(c, z) \in Nat /\ Byte(c, z) >= LinkTag /\ IsLink(c, z) /\ LinkTarget(c, z) = target
  BY <1>2, LinkedLabels
<1>4. Len(c) \in Nat BY DEF ByteString
<1>5. target < Len(c)
  <2> HIDE DEF z
  <2> DEFINE y == target + Len(Flat(tail))
  <2>1. y < Len(c)
    <3>1. Holds(c, target, InFull(tail)) BY <1>2
    <3>2. QED BY <3>1, FullLabels
  <2>2. Len(Flat(tail)) \in Nat BY FlatType
  <2>3. QED BY <1>4, <2>1, <2>2
<1> HIDE DEF z
<1>6. GetName(c, G(Len(c)))[<<p>>] = GetEnd(c, head, z, <<p>>, G(Len(c))) 
  <2> DEFINE path == <<p>>
  <2>1. path \in Seq(Nat) /\ Last(path) = p /\ ~Repeated(path) BY PathOfOne
  <2> HIDE DEF path
  <2>2. GetName(c, G(Len(c)))[path] =
          GetEnd(c, LabelsAt(c, Last(path)).labels, LabelsAt(c, Last(path)).stop, path, G(Len(c)))
    BY <2>1, GetNameCases
  <2>3. LabelsAt(c, Last(path)).labels = head /\ LabelsAt(c, Last(path)).stop = z BY <1>3, <2>1
  <2>4. GetName(c, G(Len(c)))[path] = GetEnd(c, head, z, path, G(Len(c))) BY <2>2, <2>3
  <2>5. QED BY <2>4 DEF path
<1> DEFINE link == G(Len(c))[Append(<<p>>, target)]
<1>7. GetEnd(c, head, z, <<p>>, G(Len(c))) = BehindLink(c, z + 2, head, link)
  <2>1. ~(z >= Len(c)) BY <1>3, <1>4
  <2>2. Byte(c, z) # 0 BY <1>3 DEF LinkTag
  <2>3. ~(~IsLink(c, z) \/ LinkTarget(c, z) >= Len(c)) BY <1>3, <1>4, <1>5
  <2>4. GetEnd(c, head, z, <<p>>, G(Len(c))) = GetLink(c, z, head, <<p>>, G(Len(c))) BY <2>1, <2>2 DEF GetEnd
  <2>5. GetLink(c, z, head, <<p>>, G(Len(c))) =
          BehindLink(c, z + 2, head, G(Len(c))[Append(<<p>>, LinkTarget(c, z))])
    BY <2>3 DEF GetLink
  <2>6. QED BY <1>3, <2>4, <2>5
<1>8. tail \in PlainNames BY <1>2, TailIsPlain
<1>9. link = Got(tail, target + Len(Flat(tail)) + 1)
  <2>1. p # target BY DifferentPlaces
  <2>2. link = GetName(c, G(Len(c) - 1))[Append(<<p>>, target)] BY <1>1, <1>4, <1>5
  <2>3. /\ Append(<<p>>, target) \in Seq(Nat) /\ Last(Append(<<p>>, target)) = target
        /\ ~Repeated(Append(<<p>>, target))
    BY <2>1, PathOfTwo
  <2> DEFINE path == Append(<<p>>, target)
             call == G(Len(c) - 1)
  <2> HIDE DEF path, call
  <2>4. GetName(c, call)[path] = Got(tail, target + Len(Flat(tail)) + 1)
    <3>1. path \in Seq(Nat) /\ Last(path) = target /\ ~Repeated(path) BY <2>3 DEF path
    <3>2. Holds(c, target, InFull(tail)) BY <1>2
    <3>3. QED BY <1>8, <3>1, <3>2, GetFull
  <2>5. QED BY <2>2, <2>4 DEF path, call
<1> HIDE DEF link
<1>10. link.ok /\ link.val = tail BY <1>9 DEF Got
<1> DEFINE join == JoinNames(head, tail)
<1>11. join = name \/ (tail = <<>> /\ name # <<>> /\ name \in ShortNames /\ join = Open(name))
  <2>1. CASE head # <<>> /\ tail = <<>>
    <3>1. name = head
      <4>1. head \o <<>> = head BY ConcatEmptySeq
      <4>2. QED BY <1>2, <2>1, <4>1
    <3>2. QED BY <2>1, <3>1 DEF JoinNames, Open
  <2>2. CASE ~(head # <<>> /\ tail = <<>>) BY <1>2, <2>2 DEF JoinNames
  <2>3. QED BY <2>1, <2>2
<1> HIDE DEF join
<1>12. GetDnsDomainName(c, p) = BehindLink(c, z + 2, head, link) BY <1>1, <1>6, <1>7, Zenon
<1>13. CASE z + 2 = Len(c)
  <2>1. GetDnsDomainName(c, p) = Thrown BY <1>4, <1>10, <1>12, <1>13 DEF BehindLink
  <2>2. Byte(c, (z + 2) - 2) >= LinkTag
    <3>1. (z + 2) - 2 = z BY <1>3
    <3>2. QED BY <1>3, <3>1
  <2>3. CutAtLink(c, GetDnsDomainName(c, p), z + 2) BY <1>13, <2>1, <2>2 DEF CutAtLink
  <2>4. QED BY <2>3 DEF z
<1>14. CASE z + 2 # Len(c)
  <2>1. ~(z + 2 >= Len(c)) BY <1>3, <1>4, <1>14
  <2>2. GetDnsDomainName(c, p) = Limited(Got(join, z + 2)) BY <1>10, <1>12, <2>1 DEF BehindLink, join
  <2>3. Limited(Got(join, z + 2)) = Got(join, z + 2) BY <1>11, LimitedKeeps, LimitedOpen
  <2>4. GetDnsDomainName(c, p) = Got(join, z + 2) BY <2>2, <2>3
  <2>5. QED BY <1>11, <2>4 DEF z
<1>15. QED BY <1>13, <1>14

(* Both readers read a name from where it is held.                         *)
LEMMA ReadNameReads ==
  ASSUME NEW c \in ByteString, NEW p \in Nat, NEW writer \in Writers, NEW name \in WrittenNames(writer),
         NEW end, NameHeld(writer, c, p, name, end), NEW reader \in ReadersOf(writer)
  PROVE  Reads(writer, reader, c, ReadName(reader, c, p), name, end)
<1> DEFINE bare == Bare(name)
<1>1. /\ bare \in PlainNames /\ bare \in Seq(Label) /\ (name # bare => writer = "proxy")
      /\ (name = <<>> <=> bare = <<>>) /\ (writer = "root" => bare \in ShortNames)
  BY WrittenName
<1>2. CASE reader = "client"
  <2>1. ReadName(reader, c, p) = Got(NameAt(c, p), EndOfName(c, p)) BY <1>2 DEF ReadName
  <2>2. NameRead(writer, name, NameAt(c, p)) /\ EndOfName(c, p) = end BY NameAtRead
  <2>3. QED BY <2>1, <2>2 DEF Reads
<1>3. CASE reader = "proxy"
  <2>1. ReadName(reader, c, p) = GetDnsDomainName(c, p) BY <1>3 DEF ReadName
  <2>2. name = bare BY <1>1, <1>3 DEF ReadersOf
  <2>3. NameRead(writer, name, bare) BY <1>1, NamesAreParcels DEF NameRead
  <2>4. CASE Holds(c, p, InFull(bare)) /\ end = p + Len(Flat(bare)) + 1
    BY <1>1, <2>1, <2>3, <2>4, ReadsFull DEF Reads
  <2>5. ASSUME NEW head \in Seq(Label), NEW tail \in Seq(Label), NEW target \in Nat,
               LinkedName(c, p, bare, head, tail, target), end = p + Len(Flat(head)) + 2,
               (tail = <<>> => writer = "root") /\ Holds(c, target, InFull(tail))
        PROVE  Reads(writer, reader, c, ReadName(reader, c, p), name, end)
    <3> HIDE DEF bare
    <3> DEFINE got == GetDnsDomainName(c, p)
    <3>1. \/ got = Got(bare, end)
          \/ tail = <<>> /\ bare # <<>> /\ got = Got(Open(bare), end)
          \/ CutAtLink(c, got, end)
      BY <1>1, <2>5, ReadsLink
    <3>2. tail = <<>> /\ bare # <<>> => NameRead(writer, name, Open(bare))
      <4>1. Open(bare) \in Seq(Parcels) BY <1>1, NamesAreParcels
      <4>2. QED BY <2>2, <2>5, <4>1 DEF NameRead
    <3>3. QED BY <1>3, <2>1, <2>3, <3>1, <3>2 DEF Reads
  <2>6. QED BY <2>2, <2>4, <2>5 DEF NameHeld
<1>4. reader \in {"client", "proxy"} BY DEF ReadersOf
<1>5. QED BY <1>2, <1>3, <1>4

-----------------------------------------------------------------------------
(* Writing a name: all that is written afterwards holds it.                *)

(* c begins with b.                                                        *)
Extends(c, b) == Len(b) <= Len(c) /\ \A i \in 1 .. Len(b) : c[i] = b[i]

(* The bytes of a length that are written over later: the second one, at   *)
(* h, and the first one too where links to the root make the data longer.  *)
WrittenOver(writer, i, h) == i = h \/ (writer = "root" /\ i + 1 = h)

(* c begins with b but for these bytes.                                    *)
Agrees(writer, c, b, h) ==
  Len(b) <= Len(c) /\ \A i \in 1 .. Len(b) : ~WrittenOver(writer, i, h) => c[i] = b[i]

(* The first name of a message is behind its header, in full, and before   *)
(* any length.                                                             *)
Rooted(b, h) ==
  \/ Len(b) = 12 /\ h = 0
  \/ \E first \in Seq(Label) :
        Holds(b, 12, InFull(first)) /\ (h = 0 \/ 12 + Len(Flat(first)) + 3 <= h)

(* The two bytes before a record's data, until its length is known.        *)
Placeholder(writer, b, h) ==
  /\ h <= Len(b)
  /\ h > 0 => h >= 2 /\ b[h] = 0 /\ b[h - 1] = 0
  /\ writer = "root" => Rooted(b, h)

(* The least of some positions is one of them.                             *)
LEMMA MinOfSet ==
  ASSUME NEW S, S \subseteq Nat, S # {}
  PROVE  Min(S) \in S
<1>1. \E x \in S : \A y \in S : ~ (<<y, x>> \in {pair \in Nat \X Nat : pair[1] < pair[2]})
  BY LabelLoop!LessWellFounded, LabelLoop!WFMin
<1>2. PICK x \in S : \A y \in S : ~ (<<y, x>> \in {pair \in Nat \X Nat : pair[1] < pair[2]})
  BY <1>1
<1>3. \A y \in S : x =< y
  <2>1. SUFFICES ASSUME NEW y \in S PROVE x =< y OBVIOUS
  <2>2. <<y, x>> \in Nat \X Nat /\ <<y, x>>[1] = y /\ <<y, x>>[2] = x OBVIOUS
  <2>3. ~(y < x) BY <1>2, <2>2
  <2>4. QED BY <2>3
<1>4. QED BY <1>3 DEF Min

(* What a concatenation is made of.                                        *)
LEMMA BytesConcat ==
  ASSUME NEW x \in ByteString, NEW y \in ByteString
  PROVE  /\ x \o y \in ByteString
         /\ Len(x) \in Nat /\ Len(y) \in Nat
         /\ Len(x \o y) = Len(x) + Len(y)
         /\ \A i \in 1 .. Len(x) : (x \o y)[i] = x[i]
         /\ \A i \in 1 .. Len(y) : (x \o y)[Len(x) + i] = y[i]
<1> DEFINE m == Len(x)
           n == Len(y)
           z == x \o y
<1>1. /\ m \in Nat /\ n \in Nat /\ Len(z) = m + n /\ z \in Seq(0 .. 255)
      /\ \A i \in 1 .. m + n : z[i] = IF i <= m THEN x[i] ELSE y[i - m]
  BY ConcatProperties DEF ByteString
<1> HIDE DEF m, n, z
<1>2. \A i \in 1 .. m : z[i] = x[i] BY <1>1
<1>3. ASSUME NEW i \in 1 .. n PROVE z[m + i] = y[i]
  <2>1. m + i \in 1 .. m + n /\ ~(m + i <= m) /\ (m + i) - m = i BY <1>1
  <2>2. QED BY <1>1, <2>1
<1>4. QED BY <1>1, <1>2, <1>3 DEF m, n, z, ByteString

(* Concatenation of byte strings is associative.                           *)
LEMMA BytesAssociative ==
  \A x, y, z \in ByteString : (x \o y) \o z = x \o (y \o z)
BY ConcatAssociative DEF ByteString

(* What agrees with a longer string agrees with its beginning.             *)
LEMMA AgreesPrefix ==
  ASSUME NEW c, NEW b \in ByteString, NEW text \in ByteString, NEW h, NEW writer,
         Agrees(writer, c, b \o text, h), Len(c) \in Nat
  PROVE  Agrees(writer, c, b, h)
<1> DEFINE m == Len(b)
           n == Len(text)
           t == b \o text
<1>1. m \in Nat /\ n \in Nat /\ Len(t) = m + n /\ \A i \in 1 .. m : t[i] = b[i]
  BY BytesConcat
<1>2. Len(t) <= Len(c) /\ \A i \in 1 .. Len(t) : ~WrittenOver(writer, i, h) => c[i] = t[i] BY DEF Agrees
<1> HIDE DEF m, n, t
<1>3. m <= Len(c) BY <1>1, <1>2
<1>4. \A i \in 1 .. m : i \in 1 .. Len(t) BY <1>1
<1>5. \A i \in 1 .. m : ~WrittenOver(writer, i, h) => c[i] = b[i] BY <1>1, <1>2, <1>4
<1>6. QED BY <1>3, <1>5 DEF Agrees, m

(* What has been put behind b stays in the buffer.                         *)
LEMMA HoldsNew ==
  ASSUME NEW c, NEW b \in ByteString, NEW text \in ByteString, NEW h \in Nat, h <= Len(b), NEW writer,
         Agrees(writer, c, b \o text, h)
  PROVE  Holds(c, Len(b), text)
<1> DEFINE m == Len(b)
           n == Len(text)
           t == b \o text
<1>1. m \in Nat /\ n \in Nat /\ Len(t) = m + n /\ \A i \in 1 .. n : t[m + i] = text[i]
  BY BytesConcat
<1>2. Len(t) <= Len(c) /\ \A i \in 1 .. Len(t) : ~WrittenOver(writer, i, h) => c[i] = t[i] BY DEF Agrees
<1>3. h <= m OBVIOUS
<1> HIDE DEF m, n, t
<1>4. m + n <= Len(c) BY <1>1, <1>2
<1>5. \A i \in 1 .. n : m + i \in 1 .. Len(t) /\ ~WrittenOver(writer, m + i, h)
  BY <1>1, <1>3 DEF WrittenOver
<1>6. \A i \in 1 .. n : c[m + i] = text[i] BY <1>1, <1>2, <1>5
<1>7. QED BY <1>4, <1>6 DEF Holds, m, n

(* A name falls in two parts at each of its labels.                        *)
LEMMA CutLabels ==
  ASSUME NEW labels \in Seq(Label), NEW i \in 1 .. Len(labels)
  PROVE  LET head == SubSeq(labels, 1, i - 1)
             tail == SubSeq(labels, i, Len(labels))
         IN head \in Seq(Label) /\ tail \in Seq(Label) /\ tail # <<>> /\ labels = head \o tail
<1> DEFINE n == Len(labels)
           head == SubSeq(labels, 1, i - 1)
           tail == SubSeq(labels, i, n)
<1>1. n \in Nat /\ i \in Nat /\ i <= n /\ i >= 1 OBVIOUS
<1>2. \A j \in 1 .. n : labels[j] \in Label BY ElementOfSeq
<1> HIDE DEF n
<1>3. \A j \in 1 .. i - 1 : labels[j] \in Label
  <2>1. \A j \in 1 .. i - 1 : j \in 1 .. n BY <1>1
  <2>2. QED BY <1>2, <2>1
<1>4. \A j \in i .. n : labels[j] \in Label
  <2>1. \A j \in i .. n : j \in 1 .. n BY <1>1
  <2>2. QED BY <1>2, <2>1
<1>5. head \in Seq(Label) BY <1>1, <1>3, SubSeqProperties
<1>6. tail \in Seq(Label) /\ Len(tail) = n - i + 1
  <2>1. tail \in Seq(Label) /\ Len(tail) = IF i <= n THEN n - i + 1 ELSE 0 BY <1>1, <1>4, SubSeqProperties
  <2>2. QED BY <1>1, <2>1
<1>7. tail # <<>>
  <2>1. n - i + 1 # 0 BY <1>1
  <2>2. Len(<<>>) = 0 OBVIOUS
  <2> HIDE DEF tail
  <2>3. QED BY <1>6, <2>1, <2>2
<1>8. labels = head \o tail
  <2>1. 1 \in 1 .. n + 1 /\ i - 1 \in 1 - 1 .. n /\ n \in i - 1 .. n /\ (i - 1) + 1 = i BY <1>1
  <2>2. SubSeq(labels, 1, i - 1) \o SubSeq(labels, (i - 1) + 1, n) = SubSeq(labels, 1, n)
    BY <2>1, ConcatAdjacentSubSeq DEF n
  <2>3. SubSeq(labels, 1, n) = labels BY SubSeqFull DEF n
  <2>4. QED BY <2>1, <2>2, <2>3
<1>9. QED BY <1>5, <1>6, <1>7, <1>8 DEF n

(* t is b and the labels, shortened by a link to where the buffer holds    *)
(* the last of them and the ending.                                        *)
LinksIn(ending, b, labels, head, tail, target, t) ==
  /\ labels = head \o tail /\ tail # <<>>
  /\ target \in Tips(b \o Flat(head), Flat(tail) \o ending)
  /\ t = b \o Linked(head, target)

(* t is b and the labels, in full or shortened.                            *)
PutAs(ending, b, labels, t) ==
  \/ t = b \o InFull(labels)
  \/ \E head, tail \in Seq(Label), target \in Nat : LinksIn(ending, b, labels, head, tail, target, t)

(* What is looked up behind the labels of a name.                          *)
EndingOf(name) == IF name = Bare(name) THEN <<0>> ELSE <<>>

(* t is b and the name, in full or shortened, or linked to the end of the  *)
(* first name.                                                             *)
Put(writer, b, name, t) ==
  \/ t = b \o InFull(Bare(name))
  \/ writer # "root" /\ PutAs(EndingOf(name), b, Bare(name), t)
  \/ writer = "root" /\ Len(b) > 12 /\ t = b \o Linked(name, EndOfName(b, 12) - 1)

(* Two bytes are put for a number.                                         *)
LEMMA LinkIsBytes == \A n \in Nat : Put16(n) \in ByteString /\ Len(Put16(n)) = 2
<1> SUFFICES ASSUME NEW n \in Nat PROVE Put16(n) \in ByteString /\ Len(Put16(n)) = 2 OBVIOUS
<1>1. n \div 256 \in Nat OBVIOUS
<1>2. \A k \in Nat : k % 256 \in 0 .. 255 OBVIOUS
<1>3. (n \div 256) % 256 \in 0 .. 255 /\ n % 256 \in 0 .. 255 BY <1>1, <1>2
<1> DEFINE x == (n \div 256) % 256
           y == n % 256
<1> HIDE DEF x, y
<1>4. x \in 0 .. 255 /\ y \in 0 .. 255 BY <1>3 DEF x, y
<1>5. <<x, y>> \in Seq(0 .. 255) /\ Len(<<x, y>>) = 2 BY <1>4
<1>6. Put16(n) = <<x, y>> BY DEF Put16, x, y
<1>7. QED BY <1>5, <1>6 DEF ByteString

(* A name may be put in full.                                              *)
LEMMA FullIsPut ==
  ASSUME NEW b \in ByteString, NEW labels \in Seq(Label), NEW ending
  PROVE  /\ b \o Flat(labels) \o <<0>> = b \o InFull(labels)
         /\ PutAs(ending, b, labels, b \o Flat(labels) \o <<0>>)
<1>1. Flat(labels) \in ByteString BY FlatIsBytes
<1>2. <<0>> \in ByteString BY DEF ByteString
<1>3. (b \o Flat(labels)) \o <<0>> = b \o (Flat(labels) \o <<0>>) BY <1>1, <1>2, BytesAssociative
<1>4. QED BY <1>3 DEF PutAs, InFull

(* PutLabels puts the name, in full or shortened.                          *)
LEMMA PutLabelsForm ==
  ASSUME NEW b \in ByteString, NEW labels \in Seq(Label), NEW ending
  PROVE  PutAs(ending, b, labels, PutLabels(b, labels, ending))
<1> DEFINE Before(i) == b \o Flat(SubSeq(labels, 1, i - 1))
           Found(i) == Tips(Before(i), Flat(SubSeq(labels, i, Len(labels))) \o ending)
           linked == {i \in DOMAIN labels : Found(i) # {}}
<1>1. /\ linked = {} => PutLabels(b, labels, ending) = b \o Flat(labels) \o <<0>>
      /\ linked # {} => PutLabels(b, labels, ending) =
                          Before(Min(linked)) \o Put16(256 * LinkTag + Min(Found(Min(linked))))
  BY DEF PutLabels
<1>2. CASE linked = {}
  BY <1>1, <1>2, FullIsPut
<1>3. CASE linked # {}
  <2> DEFINE i == Min(linked)
             head == SubSeq(labels, 1, i - 1)
             tail == SubSeq(labels, i, Len(labels))
             target == Min(Found(i))
  <2>1. DOMAIN labels = 1 .. Len(labels) OBVIOUS
  <2>2. i \in linked
    <3>1. linked \subseteq Nat BY <2>1
    <3> HIDE DEF linked
    <3>2. QED BY <1>3, <3>1, MinOfSet
  <2>3. i \in 1 .. Len(labels) /\ Found(i) # {} BY <2>1, <2>2
  <2> HIDE DEF i, linked
  <2>4. head \in Seq(Label) /\ tail \in Seq(Label) /\ tail # <<>> /\ labels = head \o tail
    BY <2>3, CutLabels
  <2>5. Found(i) = Tips(b \o Flat(head), Flat(tail) \o ending) OBVIOUS
  <2>6. target \in Found(i) /\ target \in Nat
    <3>1. Found(i) \subseteq Nat BY DEF Tips
    <3> HIDE DEF Found
    <3>2. target \in Found(i) BY <2>3, <3>1, MinOfSet
    <3>3. QED BY <3>1, <3>2
  <2>7. PutLabels(b, labels, ending) = (b \o Flat(head)) \o LinkTo(target) BY <1>1, <1>3 DEF i, LinkTo
  <2>8. target \in Nat /\ target \in Tips(b \o Flat(head), Flat(tail) \o ending) BY <2>5, <2>6
  <2> HIDE DEF head, tail, target
  <2>9. Flat(head) \in ByteString BY <2>4, FlatIsBytes
  <2>10. LinkTo(target) \in ByteString
    <3>1. 256 * LinkTag + target \in Nat BY <2>8 DEF LinkTag
    <3>2. QED BY <3>1, LinkIsBytes DEF LinkTo
  <2>11. (b \o Flat(head)) \o LinkTo(target) = b \o Linked(head, target)
    BY <2>9, <2>10, BytesAssociative DEF Linked
  <2>12. LinksIn(ending, b, labels, head, tail, target, PutLabels(b, labels, ending))
    BY <2>4, <2>7, <2>8, <2>11 DEF LinksIn
  <2>13. QED BY <2>4, <2>8, <2>12 DEF PutAs
<1>4. QED BY <1>2, <1>3

(* A plain name is looked up and written with all of its labels.           *)
LEMMA NoEmptyEnd ==
  ASSUME NEW name \in Seq(Label), name # <<>>
  PROVE  Labels(Split(name)) = name /\ Ending(Split(name)) = <<0>>
<1>1. name \in Seq(LabelOrNone) BY SeqMonotonic DEF LabelOrNone
<1>2. Split(name) = name BY <1>1, SplitKeeps
<1>3. QED BY <1>2, BareName

(* The end of the first name is some byte of the buffer.                   *)
LEMMA FirstEnd ==
  ASSUME NEW b \in ByteString
  PROVE  EndOfName(b, 12) \in Nat /\ EndOfName(b, 12) - 1 \in Nat
<1> DEFINE q == LabelsAt(b, 12).stop
<1>1. q \in Nat BY LabelsAtType DEF Pieces
<1> HIDE DEF q
<1>2. EndOfName(b, 12) = IF IsLink(b, q) THEN q + 2 ELSE q + 1 BY DEF EndOfName, q
<1>3. QED BY <1>1, <1>2

(* The empty name is a zero byte.                                          *)
LEMMA EmptyInFull == InFull(<<>>) = <<0>>
<1>1. Flat(<<>>) = <<>> BY FlatSteps
<1>2. <<>> \o <<0>> = <<0>> OBVIOUS
<1>3. QED BY <1>1, <1>2 DEF InFull

(* Every writer puts the name, in full or shortened.                       *)
LEMMA PutNameForm ==
  ASSUME NEW b \in ByteString, NEW writer \in Writers, NEW name \in WrittenNames(writer)
  PROVE  Put(writer, b, name, PutName(writer, b, name))
<1> DEFINE bare == Bare(name)
           ending == EndingOf(name)
<1>0. /\ bare \in Seq(Label) /\ (name = <<>> <=> bare = <<>>)
      /\ name # bare => writer = "proxy" /\ Labels(name) = bare /\ Ending(name) = <<>>
  BY WrittenName
<1>20. Len(b) = 12 => ~(Len(b) > 12)
  <2>1. \A k \in Nat : k = 12 => ~(k > 12) OBVIOUS
  <2>2. Len(b) \in Nat BY DEF ByteString
  <2>3. QED BY <2>1, <2>2
<1>1. CASE name = <<>> /\ (writer # "root" \/ Len(b) = 12)
  <2>0. name = <<>> /\ ~(name # <<>>) /\ ~(writer = "root" /\ Len(b) > 12) BY <1>1, <1>20
  <2>1. PutName(writer, b, name) = Append(b, 0) BY <1>1, <2>0 DEF PutName
  <2>2. Append(b, 0) = b \o <<0>> BY AppendIsConcat DEF ByteString
  <2>3. PutName(writer, b, name) = b \o InFull(bare) BY <1>0, <1>1, <2>1, <2>2, EmptyInFull
  <2>4. QED BY <2>3 DEF Put, PutAs
<1>2. CASE writer = "full" /\ name # <<>>
  <2>1. name = bare BY <1>0, <1>2
  <2>2. PutName(writer, b, name) = b \o Flat(name) \o <<0>> BY <1>2 DEF PutName
  <2>3. PutName(writer, b, name) = b \o InFull(bare) BY <1>0, <2>1, <2>2, FullIsPut
  <2>4. QED BY <2>3 DEF Put
<1>3. CASE writer = "equal" /\ name # <<>>
  <2>1. name = bare /\ ending = <<0>> BY <1>0, <1>3 DEF EndingOf
  <2>2. PutName(writer, b, name) = PutLabels(b, name, <<0>>) BY <1>3 DEF PutName
  <2>3. PutAs(ending, b, bare, PutName(writer, b, name)) BY <1>0, <2>1, <2>2, PutLabelsForm
  <2>4. QED BY <1>3, <2>3 DEF Put
<1>4. CASE writer = "proxy" /\ name # <<>>
  <2>1. PutName(writer, b, name) = PutLabels(b, Labels(Split(name)), Ending(Split(name)))
    BY <1>4 DEF PutName
  <2>2. Split(name) = name BY <1>4, SplitWritten
  <2>3. Labels(name) = bare /\ Ending(name) = ending
    <3>1. CASE name = bare BY <1>0, <1>4, <3>1, BareName DEF EndingOf
    <3>2. CASE name # bare BY <1>0, <3>2 DEF EndingOf
    <3>3. QED BY <3>1, <3>2
  <2>4. PutName(writer, b, name) = PutLabels(b, bare, ending) BY <2>1, <2>2, <2>3
  <2> HIDE DEF bare, ending
  <2>5. PutAs(ending, b, bare, PutName(writer, b, name)) BY <1>0, <2>4, PutLabelsForm
  <2>6. QED BY <1>4, <2>5 DEF Put, bare, ending
<1>5. CASE writer = "root" /\ Len(b) > 12
  <2>1. name = bare BY <1>0, <1>5
  <2>2. ~(name = <<>> /\ (writer # "root" \/ Len(b) = 12)) BY <1>5, <1>20
  <2>3. PutName(writer, b, name) = b \o Flat(name) \o Put16(256 * LinkTag + EndOfName(b, 12) - 1)
    BY <1>5, <2>2 DEF PutName
  <2> DEFINE target == EndOfName(b, 12) - 1
  <2>4. target \in Nat /\ EndOfName(b, 12) \in Nat BY FirstEnd
  <2>5. 256 * LinkTag + EndOfName(b, 12) - 1 = 256 * LinkTag + target BY <2>4 DEF LinkTag
  <2>6. PutName(writer, b, name) = (b \o Flat(name)) \o LinkTo(target) BY <2>3, <2>5 DEF LinkTo
  <2> HIDE DEF target, bare
  <2>7. Flat(name) \in ByteString /\ LinkTo(target) \in ByteString
    <3>1. 256 * LinkTag + target \in Nat BY <2>4 DEF LinkTag
    <3>2. QED BY <1>0, <2>1, <3>1, FlatIsBytes, LinkIsBytes DEF LinkTo
  <2>8. PutName(writer, b, name) = b \o Linked(name, target) BY <2>6, <2>7, BytesAssociative DEF Linked
  <2>9. QED BY <1>5, <2>8 DEF Put, target
<1>6. CASE writer = "root" /\ ~(Len(b) > 12) /\ ~(name = <<>> /\ Len(b) = 12)
  <2>1. name = bare BY <1>0, <1>6
  <2>2. PutName(writer, b, name) = b \o Flat(name) \o <<0>> BY <1>6 DEF PutName
  <2>3. PutName(writer, b, name) = b \o InFull(bare) BY <1>0, <2>1, <2>2, FullIsPut
  <2>4. QED BY <2>3 DEF Put
<1>7. QED BY <1>1, <1>2, <1>3, <1>4, <1>5, <1>6 DEF Writers

(* Labels and a link behind them are a byte string.                        *)
LEMMA LinkedIsBytes ==
  ASSUME NEW head \in Seq(Label), NEW target \in Nat
  PROVE  /\ Linked(head, target) \in ByteString
         /\ Len(Linked(head, target)) = Len(Flat(head)) + 2
         /\ LinkTo(target) \in ByteString
         /\ Len(LinkTo(target)) = 2
<1>1. Flat(head) \in ByteString BY FlatIsBytes
<1>2. 256 * LinkTag + target \in Nat BY DEF LinkTag
<1>3. LinkTo(target) \in ByteString /\ Len(LinkTo(target)) = 2 BY <1>2, LinkIsBytes DEF LinkTo
<1>4. Linked(head, target) \in ByteString /\ Len(Linked(head, target)) = Len(Flat(head)) + Len(LinkTo(target))
  BY <1>1, <1>3, BytesConcat DEF Linked
<1>5. QED BY <1>3, <1>4

(* The end of a name takes two bytes or more.                              *)
LEMMA FlatParts ==
  ASSUME NEW head \in Seq(Label), NEW tail \in Seq(Label), tail # <<>>
  PROVE  /\ Len(Flat(head)) \in Nat
         /\ Len(Flat(head)) + 2 <= Len(Flat(head \o tail))
         /\ Len(Flat(head \o tail)) \in Nat
<1>1. Flat(head \o tail) = Flat(head) \o Flat(tail) BY FlatConcat
<1>2. Flat(head) \in ByteString /\ Flat(tail) \in ByteString BY FlatIsBytes
<1>3. /\ Len(Flat(head)) \in Nat /\ Len(Flat(tail)) \in Nat
      /\ Len(Flat(head \o tail)) = Len(Flat(head)) + Len(Flat(tail))
  BY <1>1, <1>2, BytesConcat
<1>4. Len(Flat(tail)) >= 2 * Len(tail) BY FlatType
<1>5. Len(tail) \in Nat /\ Len(tail) # 0 BY EmptySeq
<1> DEFINE k == Len(tail)
           x == Len(Flat(tail))
           y == Len(Flat(head))
<1>6. k \in Nat /\ k # 0 /\ x >= 2 * k /\ x \in Nat /\ y \in Nat BY <1>3, <1>4, <1>5
<1>7. Len(Flat(head \o tail)) = y + x BY <1>3
<1> HIDE DEF k, x, y
<1>8. y + 2 <= y + x BY <1>6
<1>9. QED BY <1>6, <1>7, <1>8 DEF y

(* The length of a concatenation.                                          *)
LEMMA ConcatLen == \A x, y \in ByteString : Len(x \o y) = Len(x) + Len(y)
BY BytesConcat

(* Labels and then a link are put one after the other.                     *)
LEMMA LinkedAfter ==
  \A b \in ByteString, head \in Seq(Label), target \in Nat :
     (b \o Flat(head)) \o LinkTo(target) = b \o Linked(head, target)
<1> SUFFICES ASSUME NEW b \in ByteString, NEW head \in Seq(Label), NEW target \in Nat
             PROVE  (b \o Flat(head)) \o LinkTo(target) = b \o Linked(head, target)
  OBVIOUS
<1>1. Flat(head) \in ByteString BY FlatIsBytes
<1>2. LinkTo(target) \in ByteString 
  <2>1. 256 * LinkTag + target \in Nat BY DEF LinkTag
  <2>2. QED BY <2>1, LinkIsBytes DEF LinkTo
<1>3. QED BY <1>1, <1>2, BytesAssociative DEF Linked

(* t is b and at least one byte more, but at most n.                       *)
Longer(t, b, n) == t \in ByteString /\ Extends(t, b) /\ Len(b) < Len(t) /\ Len(t) <= Len(b) + n

(* Appending some bytes makes a buffer longer by these.                    *)
LEMMA ConcatLonger ==
  ASSUME NEW b \in ByteString, NEW text \in ByteString, NEW n \in Nat, text # <<>>, Len(text) <= n
  PROVE  Longer(b \o text, b, n)
<1> DEFINE t == b \o text
           m == Len(b)
           k == Len(text)
<1>1. t \in ByteString /\ m \in Nat /\ k \in Nat /\ Len(t) = m + k /\ \A i \in 1 .. m : t[i] = b[i]
  BY BytesConcat
<1>2. k # 0 BY EmptySeq DEF ByteString
<1>3. k <= n OBVIOUS
<1> HIDE DEF t, m, k
<1>4. m <= Len(t) /\ m < Len(t) /\ Len(t) <= m + n BY <1>1, <1>2, <1>3
<1>5. Extends(t, b) BY <1>1, <1>4 DEF Extends, m
<1>6. QED BY <1>1, <1>4, <1>5 DEF Longer, m, t

(* A name that is shortened where it is found is not longer than in full.  *)
LEMMA PutAsLonger ==
  ASSUME NEW b \in ByteString, NEW labels \in Seq(Label), NEW t, NEW ending, PutAs(ending, b, labels, t)
  PROVE  Longer(t, b, Len(Flat(labels)) + 1)
<1>1. ASSUME t = b \o InFull(labels) PROVE Longer(t, b, Len(Flat(labels)) + 1)
  <2>1. InFull(labels) \in ByteString /\ Len(InFull(labels)) = Len(Flat(labels)) + 1 /\ Len(Flat(labels)) \in Nat
    BY FlatIsBytes
  <2>2. InFull(labels) # <<>>
    <3>1. Len(InFull(labels)) # 0 BY <2>1
    <3>2. QED BY <3>1
  <2> DEFINE n == Len(Flat(labels)) + 1
  <2>3. n \in Nat /\ Len(InFull(labels)) <= n BY <2>1
  <2> HIDE DEF n
  <2>4. Longer(b \o InFull(labels), b, n) BY <2>1, <2>2, <2>3, ConcatLonger
  <2>5. QED BY <1>1, <2>4 DEF n
<1>2. ASSUME NEW head \in Seq(Label), NEW tail \in Seq(Label), NEW target \in Nat,
             LinksIn(ending, b, labels, head, tail, target, t)
      PROVE  Longer(t, b, Len(Flat(labels)) + 1)
  <2>1. labels = head \o tail /\ tail # <<>> /\ t = b \o Linked(head, target) BY <1>2 DEF LinksIn
  <2>2. Linked(head, target) \in ByteString /\ Len(Linked(head, target)) = Len(Flat(head)) + 2 BY LinkedIsBytes
  <2>3. Len(Flat(head)) \in Nat /\ Len(Flat(head)) + 2 <= Len(Flat(labels)) /\ Len(Flat(labels)) \in Nat
    BY <2>1, FlatParts
  <2>4. Linked(head, target) # <<>>
    <3>1. Len(Linked(head, target)) # 0 BY <2>2, <2>3
    <3>2. QED BY <3>1
  <2> DEFINE n == Len(Flat(labels)) + 1
  <2>5. n \in Nat /\ Len(Linked(head, target)) <= n BY <2>2, <2>3
  <2> HIDE DEF n
  <2>6. Longer(b \o Linked(head, target), b, n) BY <2>2, <2>4, <2>5, ConcatLonger
  <2>7. QED BY <2>1, <2>6 DEF n
<1>3. QED BY <1>1, <1>2 DEF PutAs

(* A link to the root takes one byte more than the zero byte it stands     *)
(* for.                                                                    *)
Slack(writer) == IF writer = "root" THEN 1 ELSE 0

(* What putting a name adds.                                               *)
LEMMA PutLonger ==
  ASSUME NEW b \in ByteString, NEW writer \in Writers, NEW name \in WrittenNames(writer),
         NEW t, Put(writer, b, name, t)
  PROVE  Longer(t, b, Len(Flat(Bare(name))) + 1 + Slack(writer))
<1> DEFINE bare == Bare(name)
           n == Len(Flat(bare))
<1>1. bare \in Seq(Label) /\ (writer = "root" => name = bare) BY WrittenName
<1>2. n \in Nat /\ Slack(writer) \in 0 .. 1 BY <1>1, FlatType DEF Slack
<1> HIDE DEF bare
<1>3. CASE t = b \o InFull(bare) \/ PutAs(EndingOf(name), b, bare, t)
  <2>0. PutAs(EndingOf(name), b, bare, t) BY <1>3 DEF PutAs
  <2>1. Longer(t, b, n + 1) BY <1>1, <2>0, PutAsLonger
  <2>2. Len(t) \in Nat /\ Len(b) \in Nat BY <2>1 DEF Longer, ByteString
  <2> HIDE DEF n
  <2>3. Longer(t, b, n + 1 + Slack(writer)) BY <1>2, <2>1, <2>2 DEF Longer
  <2>4. QED BY <2>3 DEF n, bare
<1>4. CASE writer = "root" /\ t = b \o Linked(name, EndOfName(b, 12) - 1)
  <2> DEFINE text == Linked(bare, EndOfName(b, 12) - 1)
  <2>1. t = b \o text BY <1>1, <1>4
  <2>2. text \in ByteString /\ Len(text) = n + 2 BY <1>1, FirstEnd, LinkedIsBytes
  <2> HIDE DEF text, n
  <2>3. n + 1 + Slack(writer) = n + 2 BY <1>2, <1>4 DEF Slack
  <2>4. text # <<>>
    <3>1. Len(text) # 0 BY <1>2, <2>2
    <3>2. QED BY <3>1
  <2>5. n + 2 \in Nat /\ Len(text) <= n + 2 BY <1>2, <2>2
  <2>6. Longer(t, b, n + 2) BY <2>1, <2>2, <2>4, <2>5, ConcatLonger
  <2>7. QED BY <2>3, <2>6 DEF n, bare
<1>5. QED BY <1>3, <1>4 DEF Put, bare

(* What is behind the labels of a name, with or without a zero.            *)
Endings == {<<0>>, <<>>}

(* The end of a name that a link leads to is not written over.             *)
LEMMA TipHeld ==
  ASSUME NEW c, Len(c) \in Nat, NEW b \in ByteString, NEW h \in Nat, NEW writer \in Writers, writer # "root",
         Agrees(writer, c, b, h), Placeholder(writer, b, h),
         NEW tail \in Seq(Label), tail # <<>>, NEW ending \in Endings,
         NEW target \in Nat, target \in Tips(b, Flat(tail) \o ending)
  PROVE  /\ Holds(c, target, Flat(tail) \o ending)
         /\ target < Len(b)
<1> DEFINE sub == Flat(tail) \o ending
           n == Len(Flat(tail))
           k == Len(sub)
<1>0. /\ Flat(tail) \in ByteString /\ <<0>> \in ByteString /\ <<>> \in ByteString
      /\ Len(<<0>>) = 1 /\ Len(<<>>) = 0
  BY FlatIsBytes DEF ByteString
<1>1. /\ sub \in ByteString /\ k \in {n, n + 1} /\ n \in Nat
      /\ Flat(tail) \in Seq(1 .. 255)
  <2>1. ending \in ByteString /\ Len(ending) \in {0, 1} BY <1>0 DEF Endings
  <2>2. sub \in ByteString /\ k = n + Len(ending) /\ n \in Nat BY <1>0, <2>1, BytesConcat
  <2>3. Flat(tail) \in Seq(1 .. 255) BY FlatType
  <2>4. k \in {n, n + 1}
    <3>1. Len(ending) = 0 => k = n
      <4>1. \A x, y \in Nat : y = x + 0 => y = x OBVIOUS
      <4>2. k \in Nat BY <2>2 DEF ByteString
      <4> HIDE DEF k, n
      <4>3. QED BY <2>2, <4>1, <4>2
    <3>2. QED BY <2>1, <2>2, <3>1
  <2> HIDE DEF sub, n, k
  <2>5. QED BY <2>2, <2>3, <2>4
<1>2. Len(b) \in Nat BY DEF ByteString
<1>3. target \in 0 .. Len(b) - Len(sub) - 1 /\ Bytes(b, target, Len(sub)) = sub BY DEF Tips
<1>4. /\ \A i \in 1 .. n : sub[i] = Flat(tail)[i]
      /\ \A i \in 1 .. n : Flat(tail)[i] \in 1 .. 255
  <2>1. ending \in ByteString BY <1>0 DEF Endings
  <2>2. \A i \in 1 .. n : sub[i] = Flat(tail)[i] BY <1>0, <2>1, BytesConcat
  <2>3. \A i \in 1 .. n : Flat(tail)[i] \in 1 .. 255 BY <1>1, ElementOfSeq
  <2>4. QED BY <2>2, <2>3
<1>15. \A i \in 1 .. n : sub[i] # 0
  <2>1. 0 \notin 1 .. 255 OBVIOUS
  <2> HIDE DEF sub, n
  <2> TAKE i \in 1 .. n
  <2>2. sub[i] = Flat(tail)[i] /\ Flat(tail)[i] \in 1 .. 255 BY <1>4
  <2>3. QED BY <2>1, <2>2
<1>5. n >= 2
  <2>1. n >= 2 * Len(tail) BY FlatType
  <2>2. Len(tail) \in Nat /\ Len(tail) # 0 BY EmptySeq
  <2> HIDE DEF n
  <2>3. QED BY <1>1, <2>1, <2>2
<1>20. k = Len(sub) OBVIOUS
<1> HIDE DEF sub, n, k
<1>6. target + k <= Len(b) /\ target < Len(b) /\ k \in Nat BY <1>1, <1>2, <1>3, <1>20
<1>7. \A i \in 1 .. k : b[target + i] = sub[i]
  <2>1. \A i \in 1 .. k : Bytes(b, target, k)[i] = b[target + i] BY <1>1, <1>6, BytesType
  <2>2. QED BY <1>1, <1>3, <1>20, <2>1
<1>8. \A i \in 1 .. k : ~WrittenOver(writer, target + i, h)
  <2>0. SUFFICES \A i \in 1 .. k : target + i # h BY DEF WrittenOver
  <2>1. SUFFICES ASSUME NEW i \in 1 .. k, target + i = h PROVE FALSE OBVIOUS
  <2>2. h > 0 BY <2>1
  <2>3. h >= 2 /\ b[h] = 0 /\ b[h - 1] = 0 BY <2>2 DEF Placeholder
  <2>4. sub[i] = 0 BY <1>7, <2>1, <2>3
  <2>5. i \notin 1 .. n BY <1>15, <2>4
  <2>6. i = n + 1 BY <1>1, <2>5
  <2>7. h - 1 = target + n BY <1>1, <2>1, <2>6
  <2>8. n \in 1 .. n /\ n \in 1 .. k BY <1>1, <1>5
  <2>9. sub[n] = 0 BY <1>7, <2>3, <2>7, <2>8
  <2>10. QED BY <1>15, <2>8, <2>9
<1>9. \A i \in 1 .. k : target + i \in 1 .. Len(b) BY <1>1, <1>2, <1>6
<1>10. Len(b) <= Len(c) /\ \A i \in 1 .. Len(b) : ~WrittenOver(writer, i, h) => c[i] = b[i] BY DEF Agrees
<1>11. \A i \in 1 .. k : c[target + i] = sub[i] BY <1>7, <1>8, <1>9, <1>10
<1>12. target + k <= Len(c) BY <1>1, <1>2, <1>6, <1>10
<1>13. Holds(c, target, sub) BY <1>1, <1>11, <1>12, <1>20 DEF Holds
<1>14. QED BY <1>6, <1>13 DEF sub

(* Every position of which a link can name.                                *)
Buffers == {c \in ByteString : Len(c) <= 16384}

(* The bytes before a placeholder stay before it as the buffer grows.      *)
LEMMA PlaceholderStays ==
  ASSUME NEW b \in ByteString, NEW d \in ByteString, NEW h \in Nat, NEW writer, writer # "root",
         Placeholder(writer, b, h), Extends(d, b)
  PROVE  Placeholder(writer, d, h)
<1>1. Len(b) \in Nat /\ Len(d) \in Nat BY DEF ByteString
<1>2. Len(b) <= Len(d) /\ \A i \in 1 .. Len(b) : d[i] = b[i] BY DEF Extends
<1>3. h <= Len(b) BY DEF Placeholder
<1>4. h <= Len(d) BY <1>1, <1>2, <1>3
<1>5. ASSUME h > 0 PROVE h >= 2 /\ d[h] = 0 /\ d[h - 1] = 0
  <2>1. h >= 2 /\ b[h] = 0 /\ b[h - 1] = 0 BY <1>5 DEF Placeholder
  <2>2. h \in 1 .. Len(b) /\ h - 1 \in 1 .. Len(b) BY <1>1, <1>3, <2>1
  <2>3. d[h] = b[h] /\ d[h - 1] = b[h - 1] BY <1>2, <2>2
  <2>4. QED BY <2>1, <2>3
<1>6. QED BY <1>4, <1>5 DEF Placeholder

(* The zero byte at the end of the first name is never written over.       *)
LEMMA RootHeld ==
  ASSUME NEW c \in ByteString, NEW b \in ByteString, NEW h \in Nat,
         Agrees("root", c, b, h), Rooted(b, h), Len(b) > 12
  PROVE  /\ Holds(c, EndOfName(b, 12) - 1, InFull(<<>>))
         /\ EndOfName(b, 12) - 1 \in Nat /\ EndOfName(b, 12) - 1 < Len(b)
<1>1. Len(b) # 12
  <2>1. Len(b) \in Nat BY DEF ByteString
  <2>2. \A k \in Nat : k > 12 => k # 12 OBVIOUS
  <2>3. QED BY <2>1, <2>2
<1>2. PICK first \in Seq(Label) :
         Holds(b, 12, InFull(first)) /\ (h = 0 \/ 12 + Len(Flat(first)) + 3 <= h)
  BY <1>1 DEF Rooted
<1> DEFINE z == 12 + Len(Flat(first))
<1>3. /\ LabelsAt(b, 12).stop = z
      /\ z \in Nat /\ z < Len(b) /\ Byte(b, z) = 0
  BY <1>2, FullLabels
<1>4. h = 0 \/ z + 3 <= h BY <1>2
<1>5. Len(b) \in Nat /\ Len(c) \in Nat BY DEF ByteString
<1> HIDE DEF z
<1>6. EndOfName(b, 12) - 1 = z
  <2>1. ~IsLink(b, z) BY <1>3 DEF IsLink, LinkTag
  <2>2. EndOfName(b, 12) = z + 1 BY <1>3, <2>1 DEF EndOfName
  <2>3. QED BY <1>3, <2>2
<1>7. Len(b) <= Len(c) /\ \A i \in 1 .. Len(b) : ~WrittenOver("root", i, h) => c[i] = b[i] BY DEF Agrees
<1>8. z + 1 \in 1 .. Len(b) BY <1>3, <1>5
<1>9. ~WrittenOver("root", z + 1, h) BY <1>3, <1>4 DEF WrittenOver
<1>10. c[z + 1] = 0 BY <1>3, <1>7, <1>8, <1>9 DEF Byte
<1>11. Holds(c, z, <<0>>)
  <2>1. Len(<<0>>) = 1 /\ <<0>>[1] = 0 /\ 1 .. 1 = {1} OBVIOUS
  <2>2. z + 1 <= Len(c) BY <1>3, <1>5, <1>7
  <2>3. QED BY <1>10, <2>1, <2>2 DEF Holds
<1>12. QED BY <1>3, <1>6, <1>11, EmptyInFull

(* A name that has been put is held in all that is written afterwards.     *)
LEMMA PutHeld ==
  ASSUME NEW c \in Buffers, NEW b \in ByteString, NEW h \in Nat, NEW writer \in Writers,
         NEW name \in WrittenNames(writer), Placeholder(writer, b, h),
         NEW t, Put(writer, b, name, t), Agrees(writer, c, t, h)
  PROVE  NameHeld(writer, c, Len(b), name, Len(t))
<1> DEFINE bare == Bare(name)
<1>0. c \in ByteString BY DEF Buffers
<1>1. h <= Len(b) BY DEF Placeholder
<1>2. Len(b) \in Nat /\ Len(c) \in Nat BY <1>0 DEF ByteString
<1>3. bare \in Seq(Label) /\ (name # bare => writer = "proxy") BY WrittenName
<1> HIDE DEF bare
<1>4. ASSUME t = b \o InFull(bare) PROVE NameHeld(writer, c, Len(b), name, Len(t))
  <2>1. InFull(bare) \in ByteString /\ Len(InFull(bare)) = Len(Flat(bare)) + 1 /\ Len(Flat(bare)) \in Nat
    BY <1>3, FlatIsBytes
  <2>2. Holds(c, Len(b), InFull(bare)) BY <1>1, <1>4, <2>1, HoldsNew
  <2>3. Len(t) = Len(b) + Len(InFull(bare)) BY <1>4, <2>1, ConcatLen
  <2>4. Len(t) = Len(b) + Len(Flat(bare)) + 1 BY <1>2, <2>1, <2>3
  <2>5. QED BY <2>2, <2>4 DEF NameHeld, bare
<1>5. ASSUME NEW head \in Seq(Label), NEW target \in Nat, t = b \o Linked(head, target)
      PROVE  /\ Holds(c, Len(b), Linked(head, target))
             /\ Len(t) = Len(b) + Len(Flat(head)) + 2
             /\ b \o Flat(head) \in ByteString
             /\ Len(b \o Flat(head)) \in Nat
             /\ Extends(b \o Flat(head), b)
             /\ Agrees(writer, c, b \o Flat(head), h)
  <2> DEFINE d == b \o Flat(head)
  <2>2. /\ Linked(head, target) \in ByteString /\ Len(Linked(head, target)) = Len(Flat(head)) + 2
        /\ LinkTo(target) \in ByteString
    BY LinkedIsBytes
  <2>3. Flat(head) \in ByteString /\ Len(Flat(head)) \in Nat BY FlatIsBytes
  <2>4. Holds(c, Len(b), Linked(head, target)) BY <1>1, <1>5, <2>2, HoldsNew
  <2>5. /\ d \in ByteString /\ Len(d) \in Nat /\ Len(d) = Len(b) + Len(Flat(head))
        /\ \A i \in 1 .. Len(b) : d[i] = b[i]
    BY <2>3, BytesConcat DEF ByteString
  <2>6. t = d \o LinkTo(target)
    <3>1. (b \o Flat(head)) \o LinkTo(target) = b \o Linked(head, target) BY LinkedAfter
    <3>2. QED BY <1>5, <3>1
  <2>7. Len(t) = Len(b) + (Len(Flat(head)) + 2)
    <3>1. Len(b \o Linked(head, target)) = Len(b) + Len(Linked(head, target)) BY <2>2, ConcatLen
    <3>2. QED BY <1>5, <2>2, <3>1
  <2> HIDE DEF d
  <2>8. Agrees(writer, c, d, h) BY <1>2, <2>2, <2>5, <2>6, AgreesPrefix
  <2>9. Len(b) <= Len(d) BY <1>2, <2>3, <2>5
  <2>10. Extends(d, b) BY <2>5, <2>9 DEF Extends
  <2>11. Len(t) = Len(b) + Len(Flat(head)) + 2 BY <1>2, <2>3, <2>7
  <2>12. QED BY <2>4, <2>5, <2>8, <2>10, <2>11 DEF d
<1>6. ASSUME writer # "root", NEW head \in Seq(Label), NEW tail \in Seq(Label), NEW target \in Nat,
             LinksIn(EndingOf(name), b, bare, head, tail, target, t)
      PROVE  NameHeld(writer, c, Len(b), name, Len(t))
  <2> DEFINE d == b \o Flat(head)
             ending == EndingOf(name)
  <2>1. /\ bare = head \o tail /\ tail # <<>> /\ t = b \o Linked(head, target)
        /\ target \in Tips(d, Flat(tail) \o ending)
    BY <1>6 DEF LinksIn
  <2>2. /\ Holds(c, Len(b), Linked(head, target))
        /\ Len(t) = Len(b) + Len(Flat(head)) + 2
        /\ d \in ByteString /\ Len(d) \in Nat /\ Extends(d, b) /\ Agrees(writer, c, d, h)
    BY <1>5, <2>1
  <2>3. ending \in Endings BY DEF EndingOf, Endings
  <2> HIDE DEF d
  <2>4. Placeholder(writer, d, h) BY <1>6, <2>2, PlaceholderStays
  <2>5. Holds(c, target, Flat(tail) \o ending) /\ target < Len(d)
    <3> HIDE DEF ending
    <3>1. QED BY <1>2, <1>6, <2>1, <2>2, <2>3, <2>4, TipHeld
  <2>6. target < 16384
    <3>1. Len(d) <= Len(c) BY <2>2 DEF Agrees
    <3>2. Len(c) <= 16384 BY DEF Buffers
    <3>3. QED BY <1>2, <2>2, <2>5, <3>1, <3>2
  <2>7. LinkedName(c, Len(b), bare, head, tail, target) BY <2>1, <2>2, <2>6 DEF LinkedName
  <2>8. \/ name = bare /\ (tail = <<>> => writer = "root") /\ Holds(c, target, InFull(tail))
        \/ writer = "proxy" /\ name # bare /\ Holds(c, target, Flat(tail))
    <3>1. CASE name = bare
      <4>1. ending = <<0>> BY <3>1 DEF EndingOf, bare
      <4>2. QED BY <2>1, <2>5, <3>1, <4>1 DEF InFull
    <3>2. CASE name # bare
      <4>1. ending = <<>> BY <3>2 DEF EndingOf, bare
      <4>2. Flat(tail) \o <<>> = Flat(tail) BY FlatIsBytes, ConcatEmptySeq DEF ByteString
      <4>3. QED BY <1>3, <2>5, <3>2, <4>1, <4>2
    <3>3. QED BY <3>1, <3>2
  <2> HIDE DEF ending
  <2>9. QED BY <2>2, <2>7, <2>8 DEF NameHeld, bare
<1>7. ASSUME writer = "root", Len(b) > 12, t = b \o Linked(name, EndOfName(b, 12) - 1)
      PROVE  NameHeld(writer, c, Len(b), name, Len(t))
  <2> DEFINE target == EndOfName(b, 12) - 1
             none == <<>>
  <2>1. name = bare BY <1>3, <1>7
  <2>2. target \in Nat BY FirstEnd
  <2>3. t = b \o Linked(bare, target) BY <1>7, <2>1
  <2>4. Holds(c, Len(b), Linked(bare, target)) /\ Len(t) = Len(b) + Len(Flat(bare)) + 2
    <3> HIDE DEF target
    <3>1. QED BY <1>3, <1>5, <2>2, <2>3
  <2>5. Agrees("root", c, b, h)
    <3>1. Linked(bare, target) \in ByteString
      <4> HIDE DEF target
      <4>1. QED BY <1>3, <2>2, LinkedIsBytes
    <3> HIDE DEF target
    <3>2. QED BY <1>2, <1>7, <2>3, <3>1, AgreesPrefix
  <2>6. Rooted(b, h) BY <1>7 DEF Placeholder
  <2>7. Holds(c, target, InFull(none)) /\ target < Len(b) BY <1>0, <1>7, <2>5, <2>6, RootHeld
  <2> HIDE DEF target
  <2>8. target < 16384
    <3>1. Len(b) <= Len(c) BY <2>5 DEF Agrees
    <3>2. Len(c) <= 16384 BY DEF Buffers
    <3>3. QED BY <1>2, <2>2, <2>7, <3>1, <3>2
  <2>9. none \in Seq(Label) /\ bare = bare \o none BY <1>3, ConcatEmptySeq
  <2>10. LinkedName(c, Len(b), bare, bare, none, target) BY <2>4, <2>8, <2>9 DEF LinkedName
  <2> HIDE DEF none
  <2>11. QED BY <1>3, <1>7, <2>1, <2>2, <2>4, <2>7, <2>9, <2>10 DEF NameHeld, bare
<1>8. QED BY <1>4, <1>6, <1>7 DEF Put, PutAs, bare

-----------------------------------------------------------------------------
(* The fields of a record.                                                 *)

(* Character strings.                                                      *)
Texts == {s \in ByteString : Len(s) <= 255}

(* How a character string lies in a buffer.                                *)
LEMMA TextBytes ==
  ASSUME NEW s \in Texts
  PROVE  /\ LabelBytes(s) \in ByteString
         /\ Len(s) \in 0 .. 255
         /\ Len(LabelBytes(s)) = Len(s) + 1
         /\ LabelBytes(s)[1] = Len(s)
         /\ \A i \in 1 .. Len(s) : LabelBytes(s)[1 + i] = s[i]
<1> DEFINE h == <<Len(s)>>
<1>1. s \in ByteString /\ Len(s) \in 0 .. 255
  <2>1. s \in ByteString /\ Len(s) <= 255 BY DEF Texts
  <2>2. Len(s) \in Nat BY <2>1 DEF ByteString
  <2>3. \A n \in Nat : n <= 255 => n \in 0 .. 255 OBVIOUS
  <2>4. Len(s) \in 0 .. 255 BY <2>1, <2>2, <2>3
  <2>5. QED BY <2>1, <2>4
<1>2. h \in ByteString /\ Len(h) = 1 /\ h[1] = Len(s) BY <1>1 DEF ByteString
<1> HIDE DEF h
<1>3. /\ h \o s \in ByteString
      /\ Len(h \o s) = Len(h) + Len(s)
      /\ \A i \in 1 .. Len(h) : (h \o s)[i] = h[i]
      /\ \A i \in 1 .. Len(s) : (h \o s)[Len(h) + i] = s[i]
  BY <1>1, <1>2, BytesConcat, Zenon
<1>4. LabelBytes(s) = h \o s BY DEF LabelBytes, h
<1> DEFINE hs == h \o s
<1> HIDE DEF hs
<1>5. Len(h \o s) = Len(s) + 1
  <2>1. Len(hs) = Len(h) + Len(s) BY <1>3 DEF hs
  <2>2. Len(hs) = Len(s) + 1 BY <1>1, <1>2, <2>1
  <2>3. QED BY <2>2 DEF hs
<1>6. (h \o s)[1] = Len(s)
  <2>1. 1 \in 1 .. Len(h) BY <1>2
  <2>2. QED BY <1>2, <1>3, <2>1
<1>7. \A i \in 1 .. Len(s) : (h \o s)[1 + i] = s[i] BY <1>2, <1>3
<1>8. QED BY <1>1, <1>3, <1>4, <1>5, <1>6, <1>7

(* Strings in a row, one string at a time.                                 *)
LEMMA TextSteps ==
  ASSUME NEW r \in Seq(Texts), NEW l \in Texts, Flat(r) \in ByteString
  PROVE  Flat(Append(r, l)) = Flat(r) \o LabelBytes(l)
<1>1. \A s \in Texts : LabelBytes(s) \in ByteString BY TextBytes
<1>2. /\ Flat(<<>>) = <<>>
      /\ Flat(Append(r, l)) = IF r = <<>> THEN LabelBytes(l) ELSE Flat(r) \o LabelBytes(l)
  BY <1>1, FlatAppend
<1>3. CASE r = <<>>
  <2>1. <<>> \o LabelBytes(l) = LabelBytes(l) BY <1>1, ConcatEmptySeq DEF ByteString
  <2>2. QED BY <1>2, <1>3, <2>1
<1>4. CASE r # <<>> BY <1>2, <1>4
<1>5. QED BY <1>3, <1>4

(* Strings in a row are a byte string no shorter than their number.        *)
LEMMA TextsType ==
  ASSUME NEW texts \in Seq(Texts)
  PROVE  /\ Flat(texts) \in ByteString
         /\ Len(Flat(texts)) \in Nat
         /\ Len(Flat(texts)) >= Len(texts)
<1> DEFINE Right(s) == Flat(s) \in ByteString /\ Len(Flat(s)) >= Len(s)
           Good == {n \in Nat : \A s \in Seq(Texts) : Len(s) = n => Right(s)}
<1>1. 0 \in Good
  <2> SUFFICES ASSUME NEW s \in Seq(Texts), Len(s) = 0 PROVE Right(s)
    OBVIOUS
  <2>1. s = <<>> BY EmptySeq
  <2>2. Flat(<<>>) = <<>> BY FlatSteps
  <2>3. <<>> \in ByteString /\ Len(<<>>) = 0 BY EmptySeq DEF ByteString
  <2>4. QED BY <2>1, <2>2, <2>3
<1>2. ASSUME NEW n \in Nat, n \in Good PROVE n + 1 \in Good
  <2> SUFFICES ASSUME NEW s \in Seq(Texts), Len(s) = n + 1 PROVE Right(s)
    OBVIOUS
  <2>1. PICK r \in Seq(Texts), l \in Texts : s = Append(r, l)
    <3>1. s # <<>> BY EmptySeq
    <3>2. QED BY <3>1, SequenceEmptyOrAppend
  <2>2. Len(r) = n
    <3>1. Len(s) = Len(r) + 1 BY <2>1, AppendProperties
    <3>2. Len(r) \in Nat OBVIOUS
    <3>3. QED BY <3>1, <3>2
  <2>3. Flat(r) \in ByteString /\ Len(Flat(r)) >= n BY <1>2, <2>2
  <2>4. Flat(s) = Flat(r) \o LabelBytes(l) BY <2>1, <2>3, TextSteps
  <2>5. LabelBytes(l) \in ByteString /\ Len(LabelBytes(l)) = Len(l) + 1 /\ Len(l) \in 0 .. 255 BY TextBytes
  <2>6. /\ Flat(s) \in ByteString /\ Len(Flat(s)) = Len(Flat(r)) + Len(LabelBytes(l))
        /\ Len(Flat(r)) \in Nat
    BY <2>3, <2>4, <2>5, BytesConcat, ZenonT(60)
  <2> DEFINE x == Len(Flat(r))
             y == Len(Flat(s))
             z == Len(l)
  <2>7. x \in Nat /\ z \in 0 .. 255 /\ y = x + (z + 1) /\ x >= n BY <2>3, <2>5, <2>6
  <2> HIDE DEF x, y, z
  <2>8. y \in Nat /\ y >= n + 1 BY <2>7
  <2>9. QED BY <2>6, <2>8 DEF y
<1>3. \A n \in Nat : n \in Good
  <2> HIDE DEF Good
  <2>1. QED BY <1>1, <1>2, LabelLoop!Induction
<1>4. Right(texts) BY <1>3
<1>5. QED BY <1>4 DEF ByteString

(* Bytes are read from where they are held.                                *)
LEMMA GetBytesHeld ==
  ASSUME NEW c \in ByteString, NEW p \in Nat, NEW text \in ByteString, Holds(c, p, text)
  PROVE  GetBytes(c, p, Len(text)) = Got(text, p + Len(text))
<1> DEFINE n == Len(text)
<1>1. n \in Nat /\ Len(c) \in Nat BY DEF ByteString
<1>2. p + n <= Len(c) /\ \A j \in 1 .. n : c[p + j] = text[j] BY DEF Holds
<1>3. /\ Bytes(c, p, n) \in ByteString /\ Len(Bytes(c, p, n)) = n
      /\ \A i \in 1 .. n : Bytes(c, p, n)[i] = c[p + i]
  <2> HIDE DEF n
  <2>1. QED BY <1>1, <1>2, BytesType
<1>4. Bytes(c, p, n) = text
  <2>1. \A i \in 1 .. n : Bytes(c, p, n)[i] = text[i] BY <1>2, <1>3
  <2>2. QED BY <1>3, <2>1, SeqEqual DEF ByteString
<1>5. ~(p + n > Len(c)) BY <1>1, <1>2
<1>6. QED BY <1>4, <1>5 DEF GetBytes

(* A string is read from where it is held.                                 *)
LEMMA GetStringHeld ==
  ASSUME NEW c \in ByteString, NEW p \in Nat, NEW s \in Texts, Holds(c, p, LabelBytes(s))
  PROVE  GetString(c, p) = Got(s, p + Len(s) + 1)
<1> DEFINE n == Len(s)
           l == LabelBytes(s)
<1>1. /\ l \in ByteString /\ n \in 0 .. 255 /\ Len(l) = n + 1 /\ l[1] = n
      /\ \A i \in 1 .. n : l[1 + i] = s[i]
  BY TextBytes
<1>2. Len(c) \in Nat /\ s \in ByteString BY DEF ByteString, Texts
<1>3. p + Len(l) <= Len(c) /\ \A j \in 1 .. Len(l) : c[p + j] = l[j] BY DEF Holds
<1> HIDE DEF l, n
<1>4. p + (n + 1) <= Len(c) BY <1>1, <1>3
<1>5. Byte(c, p) = n
  <2>1. 1 \in 1 .. Len(l) BY <1>1
  <2>2. QED BY <1>1, <1>3, <2>1 DEF Byte
<1>6. Holds(c, p + 1, s)
  <2>1. (p + 1) + n <= Len(c) BY <1>1, <1>2, <1>4
  <2>2. \A j \in 1 .. n : 1 + j \in 1 .. Len(l) /\ p + (1 + j) = (p + 1) + j BY <1>1
  <2>3. \A j \in 1 .. n : c[(p + 1) + j] = s[j] BY <1>1, <1>3, <2>2
  <2>4. QED BY <2>1, <2>3 DEF Holds, n
<1>7. GetBytes(c, p + 1, n) = Got(s, (p + 1) + n) BY <1>2, <1>6, GetBytesHeld DEF n
<1>8. ~(p >= Len(c)) BY <1>1, <1>2, <1>4
<1>9. (p + 1) + n = p + n + 1 BY <1>1
<1>10. GetString(c, p) = Got(s, (p + 1) + n) BY <1>5, <1>7, <1>8 DEF GetString
<1>11. QED BY <1>9, <1>10 DEF n

(* What the loops do with one more value.                                  *)
LEMMA GotAnother ==
  ASSUME NEW val, NEW pos, NEW next, NEW end
  PROVE  Another(Got(val, pos), Got(next, end)) = Got(Append(val, next), end)
BY DEF Another, Got

(* After as many rounds as there are strings, these have been read.        *)
LEMMA GetStringsRounds ==
  ASSUME NEW c \in ByteString, NEW p \in Nat, NEW end \in Nat
  PROVE  LET S(n) == StringLoop!Iterate([b |-> c, end |-> end], Got(<<>>, p))[n]
         IN \A texts \in Seq(Texts) :
               Holds(c, p, Flat(texts)) /\ p + Len(Flat(texts)) <= end
                 => S(Len(texts)) = Got(texts, p + Len(Flat(texts)))
<1> DEFINE S(n) == StringLoop!Iterate([b |-> c, end |-> end], Got(<<>>, p))[n]
           Good == {n \in Nat : \A s \in Seq(Texts) :
                      Len(s) = n /\ Holds(c, p, Flat(s)) /\ p + Len(Flat(s)) <= end
                        => S(n) = Got(s, p + Len(Flat(s)))}
           from == [b |-> c, end |-> end]
<1>1. S(0) = Got(<<>>, p) /\ \A n \in Nat : S(n + 1) = NextString(from, S(n))
  <2> DEFINE first == Got(<<>>, p)
             it == StringLoop!Iterate(from, first)
  <2>1. \A n : S(n) = it[n] OBVIOUS
  <2> HIDE DEF S, from, first
  <2>2. it[0] = first /\ \A n \in Nat : it[n + 1] = NextString(from, it[n]) BY StringLoop!IterateSteps
  <2> HIDE DEF it
  <2>3. S(0) = first /\ \A n \in Nat : S(n + 1) = NextString(from, S(n)) BY <2>1, <2>2
  <2>4. QED BY <2>3 DEF first
<1>2. from.b = c /\ from.end = end OBVIOUS
<1> HIDE DEF S, from
<1>3. 0 \in Good
  <2> SUFFICES ASSUME NEW s \in Seq(Texts), Len(s) = 0 PROVE S(0) = Got(s, p + Len(Flat(s)))
    OBVIOUS
  <2>1. s = <<>> BY EmptySeq
  <2>2. Flat(<<>>) = <<>> BY FlatSteps
  <2>3. p + Len(<<>>) = p OBVIOUS
  <2>4. QED BY <1>1, <2>1, <2>2, <2>3
<1>4. ASSUME NEW n \in Nat, n \in Good PROVE n + 1 \in Good
  <2> SUFFICES ASSUME NEW s \in Seq(Texts), Len(s) = n + 1, Holds(c, p, Flat(s)), p + Len(Flat(s)) <= end
               PROVE  S(n + 1) = Got(s, p + Len(Flat(s)))
    OBVIOUS
  <2>1. PICK r \in Seq(Texts), l \in Texts : s = Append(r, l)
    <3>1. s # <<>> BY EmptySeq
    <3>2. QED BY <3>1, SequenceEmptyOrAppend
  <2>2. Len(r) = n
    <3>1. Len(s) = Len(r) + 1 BY <2>1, AppendProperties
    <3>2. Len(r) \in Nat OBVIOUS
    <3>3. QED BY <3>1, <3>2
  <2>3. Flat(r) \in ByteString /\ Len(Flat(r)) \in Nat BY TextsType
  <2>4. LabelBytes(l) \in ByteString /\ Len(LabelBytes(l)) = Len(l) + 1 /\ Len(l) \in 0 .. 255 BY TextBytes
  <2>5. Flat(s) = Flat(r) \o LabelBytes(l) BY <2>1, <2>3, TextSteps
  <2> DEFINE q == p + Len(Flat(r))
  <2>6. q \in Nat BY <2>3
  <2>7. Holds(c, p, Flat(r)) /\ Holds(c, q, LabelBytes(l)) BY <2>3, <2>4, <2>5, HoldsConcat DEF ByteString
  <2>8. Len(Flat(s)) = Len(Flat(r)) + Len(LabelBytes(l)) BY <2>3, <2>4, <2>5, ConcatLen
  <2>9. p + Len(Flat(s)) = q + Len(l) + 1 BY <2>3, <2>4, <2>8
  <2>10. q < end /\ q <= end BY <2>4, <2>6, <2>9
  <2>11. S(n) = Got(r, q) BY <1>4, <2>2, <2>7, <2>10
  <2> HIDE DEF q
  <2>12. GetString(c, q) = Got(l, q + Len(l) + 1) BY <2>6, <2>7, GetStringHeld
  <2>13. NextString(from, Got(r, q)) = Another(Got(r, q), GetString(c, q))
    <3>1. Got(r, q).ok /\ Got(r, q).pos = q BY DEF Got
    <3>2. ~(q >= end) BY <2>6, <2>10
    <3>3. QED BY <1>2, <3>1, <3>2 DEF NextString
  <2>14. S(n + 1) = Got(s, q + Len(l) + 1) BY <1>1, <2>1, <2>11, <2>12, <2>13, GotAnother
  <2>15. QED BY <2>9, <2>14
<1>5. \A n \in Nat : n \in Good
  <2> HIDE DEF Good
  <2>1. QED BY <1>3, <1>4, LabelLoop!Induction
<1>6. ASSUME NEW texts \in Seq(Texts), Holds(c, p, Flat(texts)), p + Len(Flat(texts)) <= end
      PROVE  S(Len(texts)) = Got(texts, p + Len(Flat(texts)))
  <2>1. Len(texts) \in Good BY <1>5
  <2>2. QED BY <1>6, <2>1
<1>7. QED BY <1>6 DEF S

(* Strings are read up to the end of the data.                             *)
LEMMA GetStringsHeld ==
  ASSUME NEW c \in ByteString, NEW p \in Nat, NEW texts \in Seq(Texts), Holds(c, p, Flat(texts)),
         NEW end, end = p + Len(Flat(texts))
  PROVE  GetStrings(c, p, end) = Got(texts, end)
<1> DEFINE S(n) == StringLoop!Iterate([b |-> c, end |-> end], Got(<<>>, p))[n]
           from == [b |-> c, end |-> end]
           k == Len(texts)
           Good == {n \in Nat : S(k + n) = Got(texts, end)}
<1>1. Len(Flat(texts)) \in Nat /\ Len(Flat(texts)) >= k /\ k \in Nat BY TextsType
<1>2. end \in Nat /\ end <= end BY <1>1
<1>3. S(k) = Got(texts, end) BY <1>2, GetStringsRounds
<1>4. \A n \in Nat : S(n + 1) = NextString(from, S(n)) BY StringLoop!IterateSteps
<1>5. from.b = c /\ from.end = end OBVIOUS
<1> HIDE DEF S, from, k
<1>6. 0 \in Good
  <2>1. k + 0 = k BY <1>1
  <2>2. QED BY <1>3, <2>1
<1>7. ASSUME NEW n \in Nat, n \in Good PROVE n + 1 \in Good
  <2>1. k + n \in Nat /\ (k + n) + 1 = k + (n + 1) BY <1>1
  <2>2. S(k + (n + 1)) = NextString(from, Got(texts, end)) BY <1>4, <1>7, <2>1
  <2>3. Got(texts, end).pos >= from.end BY <1>2, <1>5 DEF Got
  <2>4. NextString(from, Got(texts, end)) = Got(texts, end) BY <2>3 DEF NextString
  <2>5. QED BY <2>2, <2>4
<1>8. \A n \in Nat : n \in Good
  <2> HIDE DEF Good
  <2>1. QED BY <1>6, <1>7, LabelLoop!Induction
<1>9. Len(c) - k \in Nat /\ k + (Len(c) - k) = Len(c)
  <2>1. p + Len(Flat(texts)) <= Len(c) /\ Len(c) \in Nat BY DEF Holds, ByteString
  <2>2. QED BY <1>1, <2>1
<1>10. S(Len(c)) = Got(texts, end)
  <2>1. Len(c) - k \in Good BY <1>8, <1>9
  <2>2. QED BY <1>9, <2>1
<1>11. QED BY <1>10 DEF GetStrings, S


(* Fields that take at least one byte.                                     *)
LongFields == {f \in [kind : {"name", "plain", "string", "bytes"}, size : Nat] :
                 f.kind = "bytes" => f.size > 0}

(* Fields that take what is left.                                          *)
OpenFields == {Field("strings"), Field("rest")}

(* The layouts of a record's data: an open field stands alone.             *)
Layouts == {fs \in Seq(LongFields) : fs # <<>>} \cup {<<f>> : f \in OpenFields}

(* Numbers of 16 bits.                                                     *)
Words == {n \in Nat : n < 65536}

(* The types that the proxy does not take for others.                      *)
PlainTypes == Words \ {Type.WKS, Type.SRV}

(* For these types all writers and readers agree on the layout.            *)
LEMMA PlainLayout ==
  ASSUME NEW type \in PlainTypes, NEW user
  PROVE  Fields(user, type) = Fields("client", type) /\ Fields(user, type) \in Layouts
<1>1. type # Type.WKS /\ type # Type.SRV BY DEF PlainTypes
<1>2. Fields(user, type) = Fields("client", type) BY <1>1 DEF Fields
<1>3. \A kind \in {"name", "plain", "string"} : Field(kind) \in LongFields BY DEF Field, LongFields
<1>4. \A n \in Nat \ {0} : Fixed(n) \in LongFields BY DEF Fixed, LongFields
<1>5. /\ RDataWithName \in Seq(LongFields) /\ RDataHINFO \in Seq(LongFields) /\ RDataMINFO \in Seq(LongFields)
      /\ RDataMX \in Seq(LongFields) /\ RDataSOA \in Seq(LongFields)
      /\ RDataA \in Seq(LongFields) /\ RDataAAAA \in Seq(LongFields) /\ RDataNAPTR \in Seq(LongFields)
  BY <1>3, <1>4 DEF RDataWithName, RDataHINFO, RDataMINFO, RDataMX, RDataSOA, RDataA, RDataAAAA, RDataNAPTR
<1>6. /\ RDataWithName # <<>> /\ RDataHINFO # <<>> /\ RDataMINFO # <<>> /\ RDataMX # <<>> /\ RDataSOA # <<>>
      /\ RDataA # <<>> /\ RDataAAAA # <<>> /\ RDataNAPTR # <<>>
  BY DEF RDataWithName, RDataHINFO, RDataMINFO, RDataMX, RDataSOA, RDataA, RDataAAAA, RDataNAPTR
<1>7. RDataTXT \in Layouts /\ RDataNULL \in Layouts BY DEF RDataTXT, RDataNULL, Layouts, OpenFields
<1>8. /\ RDataWithName \in Layouts /\ RDataHINFO \in Layouts /\ RDataMINFO \in Layouts /\ RDataMX \in Layouts
      /\ RDataSOA \in Layouts /\ RDataA \in Layouts /\ RDataAAAA \in Layouts /\ RDataNAPTR \in Layouts
  BY <1>5, <1>6 DEF Layouts
<1>9. Fields(user, type) \in Layouts BY <1>1, <1>7, <1>8 DEF Fields
<1>10. QED BY <1>2, <1>9

(* A value that a writer may be given for a field.                         *)
PlainValue(writer, field, val) ==
  /\ field.kind = "name" => val \in WrittenNames(writer)
  /\ field.kind = "plain" => val \in PlainNames
  /\ field.kind = "string" => val \in Texts
  /\ field.kind = "strings" => val \in Seq(Texts)
  /\ field.kind \in {"bytes", "rest"} => val \in ByteString
  /\ field.kind = "bytes" => Len(val) = field.size

(* What a field is written as when nothing is shortened.                   *)
FieldText(field, val) ==
  CASE field.kind = "name" -> InFull(Bare(val))
    [] field.kind = "plain" -> InFull(val)
    [] field.kind = "string" -> LabelBytes(val)
    [] field.kind = "strings" -> Flat(val)
    [] OTHER -> val

(* The same without the dot at the end of a name.                          *)
BareValue(field, val) == IF field.kind = "name" THEN Bare(val) ELSE val

(* The buffer c holds the field from p up to end.                          *)
FieldHeld(writer, c, p, field, val, end) ==
  IF field.kind = "name" THEN NameHeld(writer, c, p, val, end)
  ELSE Holds(c, p, FieldText(field, val)) /\ end = p + Len(FieldText(field, val))

(* What may be read of a field.                                            *)
ReadValues == Seq(Parcels) \cup ByteString

(* What is read of a field: only names may be read as others.              *)
ValueRead(writer, field, val, read) ==
  /\ read \in ReadValues
  /\ IF field.kind = "name" THEN NameRead(writer, val, read) ELSE read = val

(* The reader reads the field, or is the proxy at a link at the very end.  *)
FieldReads(writer, reader, c, got, field, val, pos) ==
  \/ \E read \in ReadValues : ValueRead(writer, field, val, read) /\ got = Got(read, pos)
  \/ reader = "proxy" /\ CutAtLink(c, got, pos) /\ field.kind = "name"

(* The fields of a layout, by their places.                                *)
LEMMA LayoutCases ==
  ASSUME NEW fs \in Layouts
  PROVE  /\ Len(fs) \in Nat /\ Len(fs) >= 1
         /\ \A i \in 1 .. Len(fs) : fs[i] \in LongFields \cup OpenFields
         /\ \A i \in 1 .. Len(fs) : fs[i] \in OpenFields => i = Len(fs)
         /\ \A i \in 2 .. Len(fs) : fs[i] \in LongFields
         /\ fs \in Seq(LongFields \cup OpenFields)
<1>1. LongFields \cap OpenFields = {}
  BY DEF LongFields, OpenFields, Field
<1>2. CASE fs \in Seq(LongFields) /\ fs # <<>>
  <2>1. Len(fs) \in Nat /\ Len(fs) # 0 BY <1>2, EmptySeq
  <2>2. \A i \in 1 .. Len(fs) : fs[i] \in LongFields BY <1>2, ElementOfSeq
  <2>3. \A i \in 2 .. Len(fs) : i \in 1 .. Len(fs) BY <2>1
  <2>4. fs \in Seq(LongFields \cup OpenFields) BY <1>2, SeqMonotonic
  <2>5. Len(fs) >= 1 BY <2>1
  <2>6. QED BY <1>1, <2>1, <2>2, <2>3, <2>4, <2>5
<1>3. ASSUME NEW f \in OpenFields, fs = <<f>>
      PROVE  /\ Len(fs) \in Nat /\ Len(fs) >= 1
             /\ \A i \in 1 .. Len(fs) : fs[i] \in LongFields \cup OpenFields
             /\ \A i \in 1 .. Len(fs) : fs[i] \in OpenFields => i = Len(fs)
             /\ \A i \in 2 .. Len(fs) : fs[i] \in LongFields
             /\ fs \in Seq(LongFields \cup OpenFields)
  <2>1. Len(fs) = 1 /\ fs[1] = f BY <1>3
  <2>2. 1 .. 1 = {1} /\ 2 .. 1 = {} OBVIOUS
  <2>3. fs \in Seq(LongFields \cup OpenFields) BY <1>3
  <2>4. QED BY <2>1, <2>2, <2>3
<1>4. QED BY <1>2, <1>3 DEF Layouts

(* The kinds of fields.                                                    *)
LEMMA FieldKinds ==
  ASSUME NEW field \in LongFields \cup OpenFields
  PROVE  field.kind \in {"name", "plain", "string", "strings", "bytes", "rest"} /\ field.size \in Nat
BY DEF LongFields, OpenFields, Field

(* A field is written as a byte string, empty only when it is open.        *)
LEMMA FieldTextType ==
  ASSUME NEW writer \in Writers, NEW field \in LongFields \cup OpenFields, NEW val, PlainValue(writer, field, val)
  PROVE  /\ FieldText(field, val) \in ByteString
         /\ Len(FieldText(field, val)) \in Nat
         /\ field \in LongFields => Len(FieldText(field, val)) > 0
<1>1. field.kind \in {"name", "plain", "string", "strings", "bytes", "rest"} /\ field.size \in Nat BY FieldKinds
<1>2. CASE field.kind \in {"name", "plain"}
  <2> DEFINE name == IF field.kind = "name" THEN Bare(val) ELSE val
  <2>1. name \in Seq(Label)
    <3>1. field.kind = "name" => Bare(val) \in Seq(Label)
      <4>1. ASSUME field.kind = "name" PROVE Bare(val) \in Seq(Label)
        <5>1. val \in WrittenNames(writer) BY <4>1 DEF PlainValue
        <5>2. QED BY <5>1, WrittenName
      <4>2. QED BY <4>1
    <3>2. field.kind = "plain" => val \in Seq(Label) BY DEF PlainValue, PlainNames
    <3>3. QED BY <1>2, <3>1, <3>2
  <2>2. FieldText(field, val) = InFull(name)
    <3>1. CASE field.kind = "name" BY <3>1 DEF FieldText
    <3>2. CASE field.kind = "plain" BY <3>2 DEF FieldText
    <3>3. QED BY <1>2, <3>1, <3>2
  <2> HIDE DEF name
  <2>3. InFull(name) \in ByteString /\ Len(InFull(name)) = Len(Flat(name)) + 1 /\ Len(Flat(name)) \in Nat
    BY <2>1, FlatIsBytes
  <2>4. QED BY <2>2, <2>3
<1>3. CASE field.kind = "string"
  <2>1. val \in Texts BY <1>3 DEF PlainValue
  <2>2. LabelBytes(val) \in ByteString /\ Len(LabelBytes(val)) = Len(val) + 1 /\ Len(val) \in 0 .. 255
    BY <2>1, TextBytes
  <2>3. FieldText(field, val) = LabelBytes(val) BY <1>3 DEF FieldText
  <2>4. QED BY <2>2, <2>3
<1>4. CASE field.kind = "strings"
  <2>1. val \in Seq(Texts) BY <1>4 DEF PlainValue
  <2>2. Flat(val) \in ByteString /\ Len(Flat(val)) \in Nat BY <2>1, TextsType
  <2>3. FieldText(field, val) = Flat(val) BY <1>4 DEF FieldText
  <2>4. field \notin LongFields BY <1>4 DEF LongFields
  <2>5. QED BY <2>2, <2>3, <2>4
<1>5. CASE field.kind \in {"bytes", "rest"}
  <2>1. val \in ByteString /\ (field.kind = "bytes" => Len(val) = field.size) BY <1>5 DEF PlainValue
  <2>2. Len(val) \in Nat BY <2>1 DEF ByteString
  <2>3. FieldText(field, val) = val BY <1>5 DEF FieldText
  <2>4. field \in LongFields => field.kind = "bytes" /\ field.size > 0 BY <1>5 DEF LongFields
  <2>5. QED BY <2>1, <2>2, <2>3, <2>4
<1>6. QED BY <1>1, <1>2, <1>3, <1>4, <1>5

(* What is written when nothing is shortened.                              *)
LEMMA NameInFull ==
  ASSUME NEW b \in ByteString, NEW name \in WrittenNames("full")
  PROVE  PutName("full", b, name) = b \o InFull(name) /\ Bare(name) = name /\ name \in Seq(Label)
<1>1. name \in Seq(Label) BY DEF WrittenNames, PlainNames
<1>2. CASE name = <<>>
  <2>1. PutName("full", b, name) = Append(b, 0) BY <1>2 DEF PutName
  <2>2. Append(b, 0) = b \o <<0>> BY AppendIsConcat DEF ByteString
  <2>3. QED BY <1>1, <1>2, <2>1, <2>2, EmptyInFull, BareName
<1>3. CASE name # <<>>
  <2>1. PutName("full", b, name) = b \o Flat(name) \o <<0>> BY <1>3 DEF PutName
  <2>2. QED BY <1>1, <2>1, FullIsPut, BareName
<1>4. QED BY <1>2, <1>3

(* What each writer makes of a field.                                      *)
LEMMA PutFieldForm ==
  ASSUME NEW b \in ByteString, NEW writer \in Writers, NEW field \in LongFields \cup OpenFields,
         NEW val, PlainValue(writer, field, val)
  PROVE  /\ field.kind # "name" \/ writer = "full" =>
              PutField(writer, b, field, val) = b \o FieldText(field, val)
         /\ field.kind = "name" => Put(writer, b, val, PutField(writer, b, field, val))
<1>1. field.kind \in {"name", "plain", "string", "strings", "bytes", "rest"} BY FieldKinds
<1>2. CASE field.kind = "name"
  <2>1. val \in WrittenNames(writer) BY <1>2 DEF PlainValue
  <2>2. FieldText(field, val) = InFull(Bare(val)) BY <1>2 DEF FieldText
  <2>3. PutField(writer, b, field, val) = PutName(writer, b, val) BY <1>2 DEF PutField
  <2>4. Put(writer, b, val, PutName(writer, b, val)) BY <2>1, PutNameForm
  <2>5. ASSUME writer = "full" PROVE PutName(writer, b, val) = b \o InFull(Bare(val))
    BY <2>1, <2>5, NameInFull
  <2>6. QED BY <1>2, <2>2, <2>3, <2>4, <2>5
<1>7. CASE field.kind = "plain"
  <2>1. val \in Seq(Label) BY <1>7 DEF PlainValue, PlainNames
  <2>2. FieldText(field, val) = InFull(val) BY <1>7 DEF FieldText
  <2>3. b \o Flat(val) \o <<0>> = b \o InFull(val) BY <2>1, FullIsPut
  <2>4. PutField(writer, b, field, val) = PutPlainName(writer, b, val) BY <1>7 DEF PutField
  <2>5. PutPlainName(writer, b, val) = b \o Flat(val) \o <<0>>
    <3>1. CASE writer = "proxy" /\ val # <<>>
      <4>1. PutPlainName(writer, b, val) = b \o Flat(Labels(Split(val))) \o Ending(Split(val))
        BY <3>1 DEF PutPlainName
      <4>2. QED BY <2>1, <3>1, <4>1, NoEmptyEnd
    <3>2. CASE ~(writer = "proxy" /\ val # <<>>) BY <3>2 DEF PutPlainName
    <3>3. QED BY <3>1, <3>2
  <2>6. QED BY <1>7, <2>2, <2>3, <2>4, <2>5
<1>3. CASE field.kind = "string" BY <1>3 DEF PutField, FieldText
<1>4. CASE field.kind = "strings" BY <1>4 DEF PutField, FieldText
<1>5. CASE field.kind \in {"bytes", "rest"} BY <1>5 DEF PutField, FieldText
<1>6. QED BY <1>1, <1>2, <1>3, <1>4, <1>5, <1>7

(* The most that a writer needs for a text of n bytes: links to the root   *)
(* take a byte more than the text.                                         *)
Most(writer, n) == IF writer = "root" THEN 2 * n ELSE n

(* At most that much is added, and something when there is any.            *)
Adds(writer, t, b, text) ==
  /\ t \in ByteString /\ Extends(t, b)
  /\ Len(t) <= Len(b) + Most(writer, Len(text))
  /\ Len(text) > 0 => Len(b) < Len(t)

(* Appending a text adds it.                                               *)
LEMMA ConcatAdds ==
  \A writer : \A b, text \in ByteString :
     /\ b \o text \in ByteString /\ Extends(b \o text, b)
     /\ Len(b \o text) = Len(b) + Len(text)
     /\ Adds(writer, b \o text, b, text)
<1> SUFFICES ASSUME NEW writer, NEW b \in ByteString, NEW text \in ByteString
             PROVE  /\ b \o text \in ByteString /\ Extends(b \o text, b)
                    /\ Len(b \o text) = Len(b) + Len(text)
                    /\ Adds(writer, b \o text, b, text)
  OBVIOUS
<1> DEFINE t == b \o text
           m == Len(b)
           k == Len(text)
<1>1. t \in ByteString /\ m \in Nat /\ k \in Nat /\ Len(t) = m + k /\ \A i \in 1 .. m : t[i] = b[i]
  BY BytesConcat
<1> HIDE DEF t, m, k
<1>2. m <= Len(t) /\ Len(t) <= m + Most(writer, k) /\ (k > 0 => m < Len(t)) BY <1>1 DEF Most
<1>3. Extends(t, b) BY <1>1, <1>2 DEF Extends, m
<1>4. QED BY <1>1, <1>2, <1>3 DEF Adds, m, t, k

(* No writer needs more for a field than its text.                         *)
LEMMA PutFieldAdds ==
  ASSUME NEW b \in ByteString, NEW writer \in Writers, NEW field \in LongFields \cup OpenFields,
         NEW val, PlainValue(writer, field, val)
  PROVE  Adds(writer, PutField(writer, b, field, val), b, FieldText(field, val))
<1>1. FieldText(field, val) \in ByteString BY FieldTextType
<1>2. CASE field.kind = "name"
  <2> DEFINE t == PutField(writer, b, field, val)
             n == Len(FieldText(field, val))
  <2>1. val \in WrittenNames(writer) BY <1>2 DEF PlainValue
  <2>2. Longer(t, b, Len(Flat(Bare(val))) + 1 + Slack(writer))
    BY <1>2, <2>1, PutFieldForm, PutLonger
  <2>3. FieldText(field, val) = InFull(Bare(val)) BY <1>2 DEF FieldText
  <2>4. Len(InFull(Bare(val))) = Len(Flat(Bare(val))) + 1 /\ Len(Flat(Bare(val))) \in Nat
    BY <2>1, WrittenName, FlatIsBytes
  <2>5. n \in Nat /\ n >= 1 /\ n = Len(Flat(Bare(val))) + 1 BY <2>3, <2>4
  <2> HIDE DEF t, n
  <2>6. Longer(t, b, n + Slack(writer)) BY <2>2, <2>5
  <2>7. Len(t) \in Nat /\ Len(b) \in Nat BY <2>6 DEF Longer, ByteString
  <2>8. n + Slack(writer) <= Most(writer, n) /\ n + Slack(writer) \in Nat /\ Most(writer, n) \in Nat
    BY <2>5 DEF Most, Slack
  <2>9. Len(t) <= Len(b) + Most(writer, n)
    <3>1. Len(t) <= Len(b) + (n + Slack(writer)) BY <2>6 DEF Longer
    <3>2. \A i, j, k, l \in Nat : i <= j + k /\ k <= l => i <= j + l OBVIOUS
    <3>3. QED BY <2>7, <2>8, <3>1, <3>2
  <2>10. t \in ByteString /\ Extends(t, b) /\ Len(b) < Len(t) BY <2>6 DEF Longer
  <2>11. QED BY <2>9, <2>10 DEF Adds, t, n
<1>3. CASE field.kind # "name"
  <2>1. PutField(writer, b, field, val) = b \o FieldText(field, val) BY <1>3, PutFieldForm
  <2>2. QED BY <1>1, <2>1, ConcatAdds
<1>4. QED BY <1>2, <1>3

(* A field that has been put is held in all that is written afterwards.    *)
LEMMA PutFieldHeld ==
  ASSUME NEW c \in Buffers, NEW b \in ByteString, NEW h \in Nat, NEW writer \in Writers,
         Placeholder(writer, b, h), NEW field \in LongFields \cup OpenFields,
         NEW val, PlainValue(writer, field, val), Agrees(writer, c, PutField(writer, b, field, val), h)
  PROVE  FieldHeld(writer, c, Len(b), field, val, Len(PutField(writer, b, field, val)))
<1>1. FieldText(field, val) \in ByteString BY FieldTextType
<1>2. CASE field.kind = "name"
  <2>1. val \in WrittenNames(writer) BY <1>2 DEF PlainValue
  <2>2. Put(writer, b, val, PutField(writer, b, field, val)) BY <1>2, PutFieldForm
  <2>3. QED BY <1>2, <2>1, <2>2, PutHeld DEF FieldHeld
<1>3. CASE field.kind # "name"
  <2>1. PutField(writer, b, field, val) = b \o FieldText(field, val) BY <1>3, PutFieldForm
  <2>2. Len(b \o FieldText(field, val)) = Len(b) + Len(FieldText(field, val)) BY <1>1, ConcatLen
  <2>3. c \in ByteString /\ h <= Len(b) BY DEF Buffers, Placeholder
  <2>4. Holds(c, Len(b), FieldText(field, val)) BY <1>1, <2>1, <2>3, HoldsNew
  <2>5. QED BY <1>3, <2>1, <2>2, <2>4 DEF FieldHeld
<1>4. QED BY <1>2, <1>3

(* Both readers read a name that must not be shortened.                    *)
LEMMA PlainNameRead ==
  ASSUME NEW c \in ByteString, NEW p \in Nat, NEW name \in PlainNames, Holds(c, p, InFull(name)),
         NEW reader \in {"proxy", "client"}
  PROVE  GetPlainName(reader, c, p) = Got(name, p + Len(InFull(name)))
<1> DEFINE z == p + Len(Flat(name))
           end == p + Len(Flat(name)) + 1
<1>1. name \in Seq(Label) BY DEF PlainNames
<1>2. Len(InFull(name)) = Len(Flat(name)) + 1 /\ Len(Flat(name)) \in Nat BY <1>1, FlatIsBytes
<1>3. p + Len(InFull(name)) = end BY <1>2
<1>4. ReadName(reader, c, p) = Got(name, end)
  <2>1. CASE reader = "client"
    <3>1. Bare(name) = name /\ name \in WrittenNames("full") /\ "full" \in Writers
      BY <1>1, BareName DEF WrittenNames, Writers
    <3>2. NameHeld("full", c, p, name, end) BY <3>1 DEF NameHeld
    <3>3. NameRead("full", name, NameAt(c, p)) /\ EndOfName(c, p) = end BY <3>1, <3>2, NameAtRead
    <3>4. NameAt(c, p) = name BY <3>1, <3>3 DEF NameRead
    <3>5. QED BY <2>1, <3>3, <3>4 DEF ReadName
  <2>2. CASE reader = "proxy"
    <3>1. GetDnsDomainName(c, p) = Got(name, end) BY ReadsFull
    <3>2. QED BY <2>2, <3>1 DEF ReadName
  <2>3. QED BY <2>1, <2>2
<1>5. ~Shortened(c, p)
  <2>1. LabelsAt(c, p).stop = z /\ Byte(c, z) = 0 BY <1>1, FullLabels
  <2> HIDE DEF z
  <2>2. ~IsLink(c, z) BY <2>1 DEF IsLink, LinkTag
  <2>3. QED BY <2>1, <2>2 DEF Shortened
<1>6. GetPlainName(reader, c, p) = Got(name, end) BY <1>4, <1>5 DEF GetPlainName, Unshortened
<1>7. QED BY <1>3, <1>6

(* Both readers read a field from where it is held.                        *)
LEMMA GetFieldReads ==
  ASSUME NEW c \in ByteString, NEW p \in Nat, NEW writer \in Writers, NEW field \in LongFields \cup OpenFields,
         NEW val, PlainValue(writer, field, val), NEW end, FieldHeld(writer, c, p, field, val, end),
         NEW reader \in ReadersOf(writer), NEW dataEnd, field \in OpenFields => dataEnd = end
  PROVE  FieldReads(writer, reader, c, GetField(reader, c, p, field, dataEnd), field, val, end)
<1>1. field.kind \in {"name", "plain", "string", "strings", "bytes", "rest"} BY FieldKinds
<1>2. CASE field.kind = "name"
  <2>1. val \in WrittenNames(writer) /\ NameHeld(writer, c, p, val, end) BY <1>2 DEF PlainValue, FieldHeld
  <2>2. Reads(writer, reader, c, ReadName(reader, c, p), val, end) BY <2>1, ReadNameReads
  <2>3. GetField(reader, c, p, field, dataEnd) = ReadName(reader, c, p) BY <1>2 DEF GetField
  <2>4. \A read : NameRead(writer, val, read) => read \in ReadValues /\ ValueRead(writer, field, val, read)
    BY <1>2 DEF NameRead, ReadValues, ValueRead
  <2>5. QED BY <1>2, <2>2, <2>3, <2>4 DEF Reads, FieldReads
<1>3. CASE field.kind # "name"
  <2> DEFINE text == FieldText(field, val)
             got == GetField(reader, c, p, field, dataEnd)
  <2>1. Holds(c, p, text) /\ end = p + Len(text) BY <1>3 DEF FieldHeld
  <2>2. text \in ByteString /\ Len(text) \in Nat BY FieldTextType
  <2>10. reader \in {"proxy", "client"} BY DEF ReadersOf
  <2>11. val \in ReadValues
    <3>1. PlainNames \subseteq Seq(Parcels) BY NamesAreParcels DEF PlainNames
    <3>2. Texts \subseteq Parcels BY DEF Texts, Parcels
    <3>3. Seq(Texts) \subseteq Seq(Parcels) BY <3>2, SeqMonotonic
    <3>4. Texts \subseteq ByteString BY DEF Texts
    <3>5. QED BY <1>1, <1>3, <3>1, <3>3, <3>4 DEF PlainValue, ReadValues
  <2>12. got = Got(val, end) => FieldReads(writer, reader, c, got, field, val, end)
    BY <1>3, <2>11 DEF FieldReads, ValueRead
  <2>3. CASE field.kind = "plain"
    <3>1. val \in PlainNames /\ text = InFull(val) BY <2>3 DEF PlainValue, FieldText
    <3>2. got = GetPlainName(reader, c, p) BY <2>3 DEF GetField
    <3> HIDE DEF text, got
    <3>3. GetPlainName(reader, c, p) = Got(val, p + Len(InFull(val))) BY <2>1, <2>10, <3>1, PlainNameRead
    <3>4. got = Got(val, end) BY <2>1, <3>1, <3>2, <3>3
    <3>5. QED BY <2>12, <3>4 DEF got
  <2>4. CASE field.kind = "string"
    <3>1. val \in Texts /\ text = LabelBytes(val) BY <2>4 DEF PlainValue, FieldText
    <3>2. got = GetString(c, p) BY <2>4 DEF GetField
    <3> HIDE DEF text, got
    <3>3. GetString(c, p) = Got(val, p + Len(val) + 1) BY <2>1, <3>1, GetStringHeld
    <3>4. Len(LabelBytes(val)) = Len(val) + 1 /\ Len(val) \in 0 .. 255 BY <3>1, TextBytes
    <3>5. end = p + Len(val) + 1 BY <2>1, <3>1, <3>4
    <3>6. got = Got(val, end) BY <3>2, <3>3, <3>5
    <3>7. QED BY <2>12, <3>6 DEF got
  <2>5. CASE field.kind = "strings"
    <3>1. val \in Seq(Texts) /\ text = Flat(val) BY <2>5 DEF PlainValue, FieldText
    <3>2. got = GetStrings(c, p, dataEnd) BY <2>5 DEF GetField
    <3>3. dataEnd = end
      <4>1. field \notin LongFields BY <2>5 DEF LongFields
      <4>2. QED BY <4>1
    <3> HIDE DEF text, got
    <3>4. GetStrings(c, p, end) = Got(val, end) BY <2>1, <3>1, GetStringsHeld
    <3>5. got = Got(val, end) BY <3>2, <3>3, <3>4
    <3>6. QED BY <2>12, <3>5 DEF got
  <2>6. CASE field.kind = "bytes"
    <3>1. val \in ByteString /\ text = val /\ Len(val) = field.size BY <2>6 DEF PlainValue, FieldText
    <3>2. got = GetBytes(c, p, field.size) BY <2>6 DEF GetField
    <3> HIDE DEF text, got
    <3>3. GetBytes(c, p, Len(val)) = Got(val, p + Len(val)) BY <2>1, <3>1, GetBytesHeld
    <3>4. got = Got(val, end) BY <2>1, <3>1, <3>2, <3>3
    <3>5. QED BY <2>12, <3>4 DEF got
  <2>7. CASE field.kind = "rest"
    <3>1. val \in ByteString /\ text = val BY <2>7 DEF PlainValue, FieldText
    <3>2. got = GetBytes(c, p, dataEnd - p) BY <2>7 DEF GetField
    <3>3. dataEnd = end
      <4>1. field \notin LongFields BY <2>7 DEF LongFields
      <4>2. QED BY <4>1
    <3> HIDE DEF text, got
    <3>4. end - p = Len(val) BY <2>1, <2>2, <3>1
    <3>5. GetBytes(c, p, Len(val)) = Got(val, p + Len(val)) BY <2>1, <3>1, GetBytesHeld
    <3>6. got = Got(val, end) BY <2>1, <3>1, <3>2, <3>3, <3>4, <3>5
    <3>7. QED BY <2>12, <3>6 DEF got
  <2>8. QED BY <1>1, <1>3, <2>3, <2>4, <2>5, <2>6, <2>7
<1>4. QED BY <1>2, <1>3

-----------------------------------------------------------------------------
(* The data of a record.                                                   *)

(* The values of fields.                                                   *)
Values == WrittenNames("proxy") \cup Seq(Texts) \cup ByteString

(* The shape of a record that a writer may be given.                       *)
RecordShapes(writer) ==
  [name : WrittenNames(writer), type : PlainTypes, class : Words, ttl : Words, data : Seq(Values)]

(* The same without the dots at the ends of its names.                     *)
BareRecord(r) ==
  [name |-> Bare(r.name), type |-> r.type, class |-> r.class, ttl |-> r.ttl,
   data |-> [i \in 1 .. Len(r.data) |-> BareValue(Fields("client", r.type)[i], r.data[i])]]

(* The data fits its layout, and in full takes less than 256 bytes.        *)
PlainData(writer, r) ==
  /\ Len(r.data) = Len(Fields("client", r.type))
  /\ \A i \in 1 .. Len(r.data) : PlainValue(writer, Fields("client", r.type)[i], r.data[i])
  /\ Len(PutData("full", <<>>, BareRecord(r))) \in 1 .. 255

(* Records without data, and with data whose length's first byte is zero   *)
(* unless links to the root make it longer.                                *)
RecordsBy(writer) == {r \in RecordShapes(writer) : r.data # <<>> => PlainData(writer, r)}

(* What remains of a value without the dot at the end of a name.           *)
LEMMA BareField ==
  ASSUME NEW writer \in Writers, NEW field \in LongFields \cup OpenFields, NEW val, PlainValue(writer, field, val)
  PROVE  LET bare == BareValue(field, val)
         IN /\ PlainValue("full", field, bare) /\ bare \in Values
            /\ FieldText(field, bare) = FieldText(field, val)
            /\ BareValue(field, bare) = bare
<1>1. field.kind \in {"name", "plain", "string", "strings", "bytes", "rest"} BY FieldKinds
<1>2. PlainNames \subseteq WrittenNames("proxy") /\ WrittenNames("full") = PlainNames BY DEF WrittenNames
<1>3. CASE field.kind = "name"
  <2>1. Bare(val) \in PlainNames /\ Bare(val) \in Seq(Label)
    <3>1. val \in WrittenNames(writer) BY <1>3 DEF PlainValue
    <3>2. QED BY <3>1, WrittenName
  <2>2. Bare(Bare(val)) = Bare(val) BY <2>1, BareName
  <2>3. BareValue(field, val) = Bare(val) /\ BareValue(field, Bare(val)) = Bare(val) BY <1>3, <2>2 DEF BareValue
  <2>4. FieldText(field, val) = InFull(Bare(val)) /\ FieldText(field, Bare(val)) = InFull(Bare(Bare(val)))
    BY <1>3 DEF FieldText
  <2>5. PlainValue("full", field, Bare(val)) BY <1>2, <1>3, <2>1 DEF PlainValue
  <2>6. QED BY <1>2, <2>1, <2>2, <2>3, <2>4, <2>5 DEF Values
<1>4. CASE field.kind # "name"
  <2>1. BareValue(field, val) = val BY <1>4 DEF BareValue
  <2>2. PlainValue("full", field, val) BY <1>4 DEF PlainValue
  <2>3. val \in Values BY <1>1, <1>2, <1>4 DEF PlainValue, Values, Texts
  <2>4. QED BY <2>1, <2>2, <2>3
<1>5. QED BY <1>3, <1>4

(* What remains of a record is a record that can be written in full.       *)
LEMMA BareIsPlain ==
  ASSUME NEW writer \in Writers, NEW r \in RecordsBy(writer)
  PROVE  /\ BareRecord(r) \in RecordsBy("full")
         /\ BareRecord(r).type = r.type /\ Len(BareRecord(r).data) = Len(r.data)
         /\ \A i \in 1 .. Len(r.data) :
               BareRecord(r).data[i] = BareValue(Fields("client", r.type)[i], r.data[i])
         /\ BareRecord(BareRecord(r)) = BareRecord(r)
<1> DEFINE fs == Fields("client", r.type)
           n == Len(r.data)
           w == BareRecord(r)
           val(i) == BareValue(fs[i], r.data[i])
<1>0. r \in RecordShapes(writer) /\ (r.data # <<>> => PlainData(writer, r)) BY DEF RecordsBy
<1>1. /\ r.name \in WrittenNames(writer) /\ r.type \in PlainTypes /\ r.class \in Words /\ r.ttl \in Words
      /\ r.data \in Seq(Values)
  BY <1>0 DEF RecordShapes
<1>2. Bare(r.name) \in PlainNames /\ Bare(r.name) \in Seq(Label) BY <1>1, WrittenName
<1>3. /\ w.name = Bare(r.name) /\ w.type = r.type /\ w.class = r.class /\ w.ttl = r.ttl
      /\ w.data = [i \in 1 .. n |-> val(i)]
  BY DEF BareRecord
<1>4. n \in Nat BY <1>1
<1>5. ASSUME NEW i \in 1 .. n
      PROVE  val(i) \in Values /\ PlainValue("full", fs[i], val(i)) /\ BareValue(fs[i], val(i)) = val(i)
  <2>1. r.data # <<>>
    <3>1. n # 0 BY <1>4
    <3>2. QED BY <3>1, EmptySeq
  <2>2. PlainData(writer, r) BY <1>0, <2>1
  <2>3. n = Len(fs) /\ PlainValue(writer, fs[i], r.data[i]) BY <2>2 DEF PlainData
  <2>4. fs \in Layouts BY <1>1, PlainLayout
  <2> HIDE DEF fs, n
  <2>5. fs[i] \in LongFields \cup OpenFields BY <2>3, <2>4, LayoutCases
  <2>6. QED BY <2>3, <2>5, BareField
<1> HIDE DEF w, val, n, fs
<1>6. w.data \in Seq(Values) /\ Len(w.data) = n /\ \A i \in 1 .. n : w.data[i] = val(i)
  <2>1. \A i \in 1 .. n : val(i) \in Values BY <1>5
  <2>2. QED BY <1>3, <1>4, <2>1
<1>7. w = [name |-> Bare(r.name), type |-> r.type, class |-> r.class, ttl |-> r.ttl, data |-> w.data]
  BY <1>3 DEF w, BareRecord
<1>8. w \in RecordShapes("full")
  <2>1. WrittenNames("full") = PlainNames BY DEF WrittenNames
  <2>2. QED BY <1>1, <1>2, <1>6, <1>7, <2>1 DEF RecordShapes
<1>9. BareRecord(w) = w
  <2>1. Bare(w.name) = w.name BY <1>2, <1>3, BareName
  <2>2. \A i \in 1 .. n : BareValue(fs[i], w.data[i]) = w.data[i] BY <1>5, <1>6
  <2> DEFINE z == [i \in 1 .. n |-> BareValue(fs[i], w.data[i])]
  <2>3. z = w.data
    <3>1. \A i \in 1 .. n : w.data[i] \in Values BY <1>5, <1>6
    <3>2. z \in Seq(Values) /\ Len(z) = n /\ \A i \in 1 .. n : z[i] = w.data[i] BY <1>4, <2>2, <3>1
    <3> HIDE DEF z
    <3>3. QED BY <1>6, <3>2, SeqEqual
  <2>4. BareRecord(w) = [name |-> Bare(w.name), type |-> w.type, class |-> w.class, ttl |-> w.ttl, data |-> z]
    BY <1>3, <1>6 DEF BareRecord, fs
  <2> HIDE DEF z
  <2>5. QED BY <1>3, <1>7, <2>1, <2>3, <2>4
<1>10. ASSUME w.data # <<>> PROVE PlainData("full", w)
  <2>1. n # 0 BY <1>6, <1>10, EmptySeq
  <2>2. r.data # <<>>
    <3>1. Len(<<>>) = 0 OBVIOUS
    <3>2. QED BY <2>1, <3>1 DEF n
  <2>3. n = Len(fs) /\ Len(PutData("full", <<>>, w)) \in 1 .. 255 BY <1>0, <2>2 DEF PlainData, n, fs, w
  <2>4. \A i \in 1 .. n : PlainValue("full", fs[i], w.data[i]) BY <1>5, <1>6
  <2>5. Fields("client", w.type) = fs BY <1>3 DEF fs
  <2>6. QED BY <1>6, <1>9, <2>3, <2>4, <2>5 DEF PlainData
<1>11. w \in RecordsBy("full") BY <1>8, <1>10 DEF RecordsBy
<1>12. QED BY <1>3, <1>6, <1>9, <1>11 DEF w, n, fs, val

(* What has been written after k fields.                                   *)
Stage(writer, b, r, k) ==
  PutFieldLoop!Iterate([writer |-> writer, r |-> r], [done |-> 0, bytes |-> b])[k].bytes

(* The loop over the fields, one field at a time.                          *)
LEMMA StageSteps ==
  ASSUME NEW writer, NEW b, NEW r
  PROVE  /\ Stage(writer, b, r, 0) = b
         /\ \A k \in Nat : Stage(writer, b, r, k + 1) =
                             PutField(writer, Stage(writer, b, r, k), Fields(writer, r.type)[k + 1], r.data[k + 1])
         /\ PutData(writer, b, r) = Stage(writer, b, r, Len(r.data))
<1> DEFINE from == [writer |-> writer, r |-> r]
           first == [done |-> 0, bytes |-> b]
           it == PutFieldLoop!Iterate(from, first)
           Good == {n \in Nat : it[n].done = n}
<1>1. from.writer = writer /\ from.r = r /\ first.done = 0 /\ first.bytes = b OBVIOUS
<1>2. \A k : Stage(writer, b, r, k) = it[k].bytes BY DEF Stage
<1>3. PutData(writer, b, r) = it[Len(r.data)].bytes BY DEF PutData
<1> HIDE DEF from, first
<1>4. it[0] = first /\ \A n \in Nat : it[n + 1] = PutNextField(from, it[n]) BY PutFieldLoop!IterateSteps
<1> HIDE DEF it
<1>5. \A so : /\ PutNextField(from, so).done = so.done + 1
              /\ PutNextField(from, so).bytes =
                   PutField(writer, so.bytes, Fields(writer, r.type)[so.done + 1], r.data[so.done + 1])
  BY <1>1 DEF PutNextField
<1>6. 0 \in Good BY <1>1, <1>4
<1>7. ASSUME NEW n \in Nat, n \in Good PROVE n + 1 \in Good BY <1>4, <1>5, <1>7
<1>8. \A n \in Nat : n \in Good
  <2> HIDE DEF Good
  <2>1. QED BY <1>6, <1>7, LabelLoop!Induction
<1>9. Stage(writer, b, r, 0) = b BY <1>1, <1>2, <1>4
<1>10. ASSUME NEW k \in Nat
       PROVE  Stage(writer, b, r, k + 1) =
                PutField(writer, Stage(writer, b, r, k), Fields(writer, r.type)[k + 1], r.data[k + 1])
  <2>1. it[k].done = k BY <1>8
  <2>2. it[k + 1].bytes = PutField(writer, it[k].bytes, Fields(writer, r.type)[k + 1], r.data[k + 1])
    BY <1>4, <1>5, <2>1
  <2>3. QED BY <1>2, <2>2
<1>11. QED BY <1>2, <1>3, <1>9, <1>10

(* The same for one step.                                                  *)
LEMMA StageNext ==
  \A writer, b, r : \A k \in Nat :
     Stage(writer, b, r, k + 1) =
       PutField(writer, Stage(writer, b, r, k), Fields(writer, r.type)[k + 1], r.data[k + 1])
BY StageSteps

(* Beginning with is transitive.                                           *)
LEMMA ExtendsTransitive ==
  ASSUME NEW a \in ByteString, NEW b \in ByteString, NEW c \in ByteString, Extends(c, b), Extends(b, a)
  PROVE  Extends(c, a)
<1>1. Len(a) \in Nat /\ Len(b) \in Nat /\ Len(c) \in Nat BY DEF ByteString
<1>2. Len(a) <= Len(b) /\ Len(b) <= Len(c) BY DEF Extends
<1>3. \A i \in 1 .. Len(a) : i \in 1 .. Len(b) BY <1>1, <1>2
<1>4. \A i \in 1 .. Len(a) : c[i] = a[i] BY <1>3 DEF Extends
<1>5. QED BY <1>1, <1>2, <1>4 DEF Extends

(* Every buffer begins with itself.                                        *)
LEMMA ExtendsItself == \A b \in ByteString : Extends(b, b)
BY DEF Extends, ByteString

(* The fields of a plain record and their values.                          *)
LEMMA RecordFields ==
  ASSUME NEW writer \in Writers, NEW r \in RecordsBy(writer), r.data # <<>>
  PROVE  LET fs == Fields("client", r.type)
         IN /\ fs \in Layouts /\ \A user : Fields(user, r.type) = fs
            /\ Len(r.data) = Len(fs) /\ Len(fs) \in Nat /\ Len(fs) >= 1
            /\ \A i \in 1 .. Len(fs) : PlainValue(writer, fs[i], r.data[i]) /\ fs[i] \in LongFields \cup OpenFields
            /\ r.data \in Seq(Values)
<1> DEFINE fs == Fields("client", r.type)
<1>0. r \in RecordShapes(writer) /\ PlainData(writer, r) BY DEF RecordsBy
<1>1. r.type \in PlainTypes /\ r.data \in Seq(Values) BY <1>0 DEF RecordShapes
<1>2. fs \in Layouts /\ \A user : Fields(user, r.type) = fs BY <1>1, PlainLayout
<1>3. Len(r.data) = Len(fs) /\ \A i \in 1 .. Len(r.data) : PlainValue(writer, fs[i], r.data[i]) BY <1>0 DEF PlainData
<1> HIDE DEF fs
<1>4. Len(fs) \in Nat /\ Len(fs) >= 1 /\ \A i \in 1 .. Len(fs) : fs[i] \in LongFields \cup OpenFields
  BY <1>2, LayoutCases
<1>5. QED BY <1>1, <1>2, <1>3, <1>4 DEF fs

(* Each field is appended to what has been written before.                 *)
LEMMA StagesGrow ==
  ASSUME NEW writer \in Writers, NEW r \in RecordsBy(writer), r.data # <<>>, NEW b \in ByteString
  PROVE  LET fs == Fields("client", r.type)
             n == Len(r.data)
         IN /\ \A k \in 0 .. n : Stage(writer, b, r, k) \in ByteString /\ Extends(Stage(writer, b, r, k), b)
            /\ \A k \in 0 .. n - 1 :
                  /\ Stage(writer, b, r, k + 1) =
                       PutField(writer, Stage(writer, b, r, k), fs[k + 1], r.data[k + 1])
                  /\ Adds(writer, Stage(writer, b, r, k + 1), Stage(writer, b, r, k),
                          FieldText(fs[k + 1], r.data[k + 1]))
<1> DEFINE fs == Fields("client", r.type)
           n == Len(r.data)
           B(k) == Stage(writer, b, r, k)
           Good == {k \in Nat : k <= n => B(k) \in ByteString /\ Extends(B(k), b)}
<1>1. /\ \A user : Fields(user, r.type) = fs
      /\ n \in Nat
      /\ \A i \in 1 .. n : PlainValue(writer, fs[i], r.data[i]) /\ fs[i] \in LongFields \cup OpenFields
  BY RecordFields
<1>2. B(0) = b /\ \A k \in Nat : B(k + 1) = PutField(writer, B(k), fs[k + 1], r.data[k + 1])
  <2>1. Fields(writer, r.type) = fs BY <1>1
  <2>2. Stage(writer, b, r, 0) = b BY StageSteps
  <2>3. \A k \in Nat : Stage(writer, b, r, k + 1) =
                         PutField(writer, Stage(writer, b, r, k), Fields(writer, r.type)[k + 1], r.data[k + 1])
    BY ONLY StageNext
  <2> HIDE DEF fs
  <2>4. QED BY <2>1, <2>2, <2>3
<1> HIDE DEF B, fs, n
<1>3. ASSUME NEW k \in Nat, k + 1 <= n, B(k) \in ByteString
      PROVE  Adds(writer, B(k + 1), B(k), FieldText(fs[k + 1], r.data[k + 1]))
  <2>1. k + 1 \in 1 .. n BY <1>1, <1>3
  <2>2. PlainValue(writer, fs[k + 1], r.data[k + 1]) /\ fs[k + 1] \in LongFields \cup OpenFields BY <1>1, <2>1
  <2>3. QED BY <1>2, <1>3, <2>2, PutFieldAdds
<1>4. 0 \in Good BY <1>2, ExtendsItself
<1>5. ASSUME NEW k \in Nat, k \in Good PROVE k + 1 \in Good
  <2> SUFFICES ASSUME k + 1 <= n PROVE B(k + 1) \in ByteString /\ Extends(B(k + 1), b)
    OBVIOUS
  <2>1. k <= n BY <1>1
  <2>2. B(k) \in ByteString /\ Extends(B(k), b) BY <1>5, <2>1
  <2>3. B(k + 1) \in ByteString /\ Extends(B(k + 1), B(k)) BY <1>3, <2>2 DEF Adds
  <2>4. QED BY <2>2, <2>3, ExtendsTransitive
<1>6. \A k \in Nat : k \in Good
  <2> HIDE DEF Good
  <2>1. QED BY <1>4, <1>5, LabelLoop!Induction
<1>7. \A k \in 0 .. n : B(k) \in ByteString /\ Extends(B(k), b)
  <2>1. \A k \in 0 .. n : k \in Nat /\ k <= n BY <1>1
  <2>2. QED BY <1>6, <2>1
<1>8. \A k \in 0 .. n - 1 : /\ B(k + 1) = PutField(writer, B(k), fs[k + 1], r.data[k + 1])
                            /\ Adds(writer, B(k + 1), B(k), FieldText(fs[k + 1], r.data[k + 1]))
  <2>1. \A k \in 0 .. n - 1 : k \in Nat /\ k + 1 <= n /\ k \in 0 .. n BY <1>1
  <2>2. QED BY <1>2, <1>3, <1>7, <2>1
<1>9. QED BY <1>7, <1>8 DEF B, fs, n

(* The data takes no more bytes than in full, or than the links to the     *)
(* root need, and some when it is not empty.                               *)
LEMMA StagesBounded ==
  ASSUME NEW writer \in Writers, NEW r \in RecordsBy(writer), r.data # <<>>, NEW b \in ByteString
  PROVE  LET n == Len(r.data)
         IN \A k \in 0 .. n :
              LET full == Len(Stage("full", <<>>, BareRecord(r), k))
              IN /\ full \in Nat
                 /\ Len(Stage(writer, b, r, k)) <= Len(b) + Most(writer, full)
                 /\ full > 0 => Len(b) < Len(Stage(writer, b, r, k))
<1> DEFINE fs == Fields("client", r.type)
           n == Len(r.data)
           w == BareRecord(r)
           B(k) == Stage(writer, b, r, k)
           F(k) == Stage("full", <<>>, w, k)
           text(k) == FieldText(fs[k + 1], r.data[k + 1])
           val(k) == BareValue(fs[k + 1], r.data[k + 1])
           Good == {k \in Nat : k <= n => /\ Len(B(k)) <= Len(b) + Most(writer, Len(F(k)))
                                          /\ Len(F(k)) > 0 => Len(b) < Len(B(k))}
<1>1. <<>> \in ByteString /\ "full" \in Writers /\ Len(<<>>) = 0 BY EmptySeq DEF ByteString, Writers
<1>2. /\ \A k \in 0 .. n : B(k) \in ByteString
      /\ \A k \in 0 .. n - 1 : Adds(writer, B(k + 1), B(k), text(k))
  BY StagesGrow
<1>4. /\ n \in Nat /\ n >= 1
      /\ \A i \in 1 .. n : PlainValue(writer, fs[i], r.data[i]) /\ fs[i] \in LongFields \cup OpenFields
  BY RecordFields
<1>20. /\ w \in RecordsBy("full") /\ w.type = r.type /\ Len(w.data) = n
       /\ \A i \in 1 .. n : w.data[i] = BareValue(fs[i], r.data[i])
  BY BareIsPlain
<1> HIDE DEF w
<1>3. /\ \A k \in 0 .. n : F(k) \in ByteString
      /\ \A k \in 0 .. n - 1 : F(k + 1) = PutField("full", F(k), fs[k + 1], val(k))
  <2>1. w.data # <<>>
    <3>1. Len(w.data) # 0 BY <1>4, <1>20
    <3>2. QED BY <3>1
  <2>2. /\ \A k \in 0 .. Len(w.data) : F(k) \in ByteString
        /\ \A k \in 0 .. Len(w.data) - 1 :
              F(k + 1) = PutField("full", F(k), Fields("client", w.type)[k + 1], w.data[k + 1])
    BY <1>1, <1>20, <2>1, StagesGrow
  <2>3. Fields("client", w.type) = fs BY <1>20
  <2> HIDE DEF F, fs, n
  <2>4. \A k \in 0 .. n - 1 : w.data[k + 1] = val(k)
    <3>1. \A k \in 0 .. n - 1 : k + 1 \in 1 .. n BY <1>4
    <3>2. QED BY <1>20, <3>1
  <2>5. QED BY <1>20, <2>2, <2>3, <2>4
<1>5. B(0) = b /\ F(0) = <<>> BY StageSteps
<1> HIDE DEF B, F, fs, n
<1>6. ASSUME NEW k \in 0 .. n - 1 PROVE Len(F(k + 1)) = Len(F(k)) + Len(text(k)) /\ Len(text(k)) \in Nat
  <2>1. k + 1 \in 1 .. n /\ k \in 0 .. n BY <1>4
  <2>2. PlainValue(writer, fs[k + 1], r.data[k + 1]) /\ fs[k + 1] \in LongFields \cup OpenFields BY <1>4, <2>1
  <2>3. F(k) \in ByteString BY <1>3, <2>1
  <2>6. PlainValue("full", fs[k + 1], val(k)) /\ FieldText(fs[k + 1], val(k)) = text(k) BY <2>2, BareField
  <2>7. F(k + 1) = PutField("full", F(k), fs[k + 1], val(k)) BY <1>3
  <2> HIDE DEF val
  <2>4. F(k + 1) = F(k) \o text(k) BY <1>1, <2>2, <2>3, <2>6, <2>7, PutFieldForm
  <2>5. text(k) \in ByteString /\ Len(text(k)) \in Nat BY <2>2, FieldTextType
  <2> HIDE DEF text
  <2>8. QED BY <2>3, <2>4, <2>5, ConcatLen
<1> HIDE DEF text
<1>7. \A k \in 0 .. n : Len(F(k)) \in Nat /\ Len(B(k)) \in Nat BY <1>2, <1>3 DEF ByteString
<1>8. Len(b) \in Nat BY DEF ByteString
<1>9. 0 \in Good
  <2>1. Len(F(0)) = 0 /\ Len(B(0)) = Len(b) BY <1>1, <1>5
  <2>3. Most(writer, 0) = 0 BY DEF Most
  <2>2. Len(B(0)) <= Len(b) + Most(writer, Len(F(0))) BY <1>8, <2>1, <2>3
  <2>4. QED BY <2>1, <2>2
<1>10. ASSUME NEW k \in Nat, k \in Good PROVE k + 1 \in Good
  <2> SUFFICES ASSUME k + 1 <= n
               PROVE  /\ Len(B(k + 1)) <= Len(b) + Most(writer, Len(F(k + 1)))
                      /\ Len(F(k + 1)) > 0 => Len(b) < Len(B(k + 1))
    OBVIOUS
  <2>1. k \in 0 .. n - 1 /\ k \in 0 .. n /\ k + 1 \in 0 .. n /\ k <= n BY <1>4
  <2>2. Len(B(k)) <= Len(b) + Most(writer, Len(F(k))) /\ (Len(F(k)) > 0 => Len(b) < Len(B(k))) BY <1>10, <2>1
  <2>3. /\ Len(B(k + 1)) <= Len(B(k)) + Most(writer, Len(text(k)))
        /\ Len(text(k)) > 0 => Len(B(k)) < Len(B(k + 1))
        /\ Len(B(k)) <= Len(B(k + 1))
    BY <1>2, <2>1 DEF Adds, Extends
  <2>4. Len(F(k + 1)) = Len(F(k)) + Len(text(k)) /\ Len(text(k)) \in Nat BY <1>6, <2>1
  <2>5. Len(F(k)) \in Nat /\ Len(B(k)) \in Nat /\ Len(F(k + 1)) \in Nat /\ Len(B(k + 1)) \in Nat BY <1>7, <2>1
  <2>6. Len(b) <= Len(B(k)) BY <2>1, StagesGrow DEF Extends, B, n
  <2> DEFINE x == Len(B(k))
             x1 == Len(B(k + 1))
             y == Len(F(k))
             y1 == Len(F(k + 1))
             s == Len(text(k))
             m == Len(b)
  <2>7. /\ x \in Nat /\ x1 \in Nat /\ y \in Nat /\ y1 \in Nat /\ s \in Nat /\ m \in Nat
        /\ x <= m + Most(writer, y) /\ (y > 0 => m < x)
        /\ x1 <= x + Most(writer, s) /\ (s > 0 => x < x1) /\ x <= x1 /\ y1 = y + s /\ m <= x
    BY <1>8, <2>2, <2>3, <2>4, <2>5, <2>6
  <2> HIDE DEF x, x1, y, y1, s, m
  <2>8. x1 <= m + Most(writer, y1) /\ (y1 > 0 => m < x1)
    <3>1. Most(writer, y) \in Nat /\ Most(writer, s) \in Nat /\ Most(writer, y1) = Most(writer, y) + Most(writer, s)
      <4>1. y1 = y + s /\ y \in Nat /\ s \in Nat BY <2>7
      <4>2. \A i, j \in Nat : 2 * (i + j) = 2 * i + 2 * j /\ 2 * i \in Nat OBVIOUS
      <4>3. QED BY ONLY <4>1, <4>2 DEF Most
    <3>2. \A p, q \in Nat : x <= m + p /\ x1 <= x + q => x1 <= m + (p + q) BY <2>7
    <3>3. y1 > 0 => m < x1 BY <2>7
    <3>4. QED BY <2>7, <3>1, <3>2, <3>3
  <2>9. QED BY <2>8 DEF x, x1, y, y1, s, m
<1>11. \A k \in Nat : k \in Good
  <2> HIDE DEF Good
  <2>1. QED BY <1>9, <1>10, LabelLoop!Induction
<1>12. \A k \in 0 .. n : k \in Nat /\ k <= n BY <1>4
<1>13. QED BY <1>7, <1>11, <1>12 DEF B, F, n, w

(* What has been written after some fields is kept.                        *)
LEMMA StagesExtend ==
  ASSUME NEW writer \in Writers, NEW r \in RecordsBy(writer), r.data # <<>>, NEW b \in ByteString
  PROVE  LET n == Len(r.data)
         IN \A j \in 0 .. n : Extends(PutData(writer, b, r), Stage(writer, b, r, j))
<1> DEFINE n == Len(r.data)
           B(k) == Stage(writer, b, r, k)
           Good == {k \in Nat : k <= n => \A j \in 0 .. k : Extends(B(k), B(j))}
<1>1. /\ \A k \in 0 .. n : B(k) \in ByteString
      /\ \A k \in 0 .. n - 1 : Extends(B(k + 1), B(k))
  BY StagesGrow DEF Adds
<1>2. n \in Nat BY RecordFields
<1>3. PutData(writer, b, r) = B(n) BY StageSteps
<1> HIDE DEF B, n
<1>4. 0 \in Good
  <2>1. 0 .. 0 = {0} /\ 0 \in 0 .. n BY <1>2
  <2>2. Extends(B(0), B(0)) BY <1>1, <2>1, ExtendsItself
  <2>3. QED BY <2>1, <2>2
<1>5. ASSUME NEW k \in Nat, k \in Good PROVE k + 1 \in Good
  <2> SUFFICES ASSUME k + 1 <= n, NEW j \in 0 .. k + 1 PROVE Extends(B(k + 1), B(j))
    OBVIOUS
  <2>1. k \in 0 .. n - 1 /\ k \in 0 .. n /\ k + 1 \in 0 .. n /\ j \in 0 .. n /\ k <= n BY <1>2
  <2>2. CASE j = k + 1 BY <1>1, <2>1, <2>2, ExtendsItself
  <2>3. CASE j # k + 1
    <3>1. j \in 0 .. k BY <2>3
    <3>2. Extends(B(k), B(j)) BY <1>5, <2>1, <3>1
    <3>3. Extends(B(k + 1), B(k)) BY <1>1, <2>1
    <3>4. B(j) \in ByteString /\ B(k) \in ByteString /\ B(k + 1) \in ByteString BY <1>1, <2>1
    <3>5. QED BY <3>2, <3>3, <3>4, ExtendsTransitive
  <2>4. QED BY <2>2, <2>3
<1>6. \A k \in Nat : k \in Good
  <2> HIDE DEF Good
  <2>1. QED BY <1>4, <1>5, LabelLoop!Induction
<1>7. \A j \in 0 .. n : Extends(B(n), B(j)) BY <1>2, <1>6
<1>8. QED BY <1>3, <1>7 DEF B, n

(* The data is appended, at most 255 bytes of it, or twice as many.        *)
LEMMA DataWritten ==
  ASSUME NEW writer \in Writers, NEW r \in RecordsBy(writer), NEW b \in ByteString
  PROVE  LET t == PutData(writer, b, r)
         IN /\ t \in ByteString /\ Extends(t, b)
            /\ Len(t) - Len(b) \in 0 .. Most(writer, 255)
            /\ r.data = <<>> => t = b
            /\ r.data # <<>> => Len(b) < Len(t)
<1> DEFINE t == PutData(writer, b, r)
           n == Len(r.data)
<1>1. t = Stage(writer, b, r, n) /\ Stage(writer, b, r, 0) = b BY StageSteps
<1>2. Len(b) \in Nat BY DEF ByteString
<1>20. Most(writer, 255) \in Nat /\ \A k \in 0 .. 255 : Most(writer, k) <= Most(writer, 255) /\ Most(writer, k) \in Nat
  BY DEF Most
<1>3. CASE r.data = <<>>
  <2>1. t = b BY <1>1, <1>3
  <2>2. Len(b) - Len(b) = 0 /\ 0 \in 0 .. Most(writer, 255) BY <1>2, <1>20
  <2> HIDE DEF t
  <2>3. QED BY <1>3, <2>1, <2>2, ExtendsItself DEF t
<1>4. CASE r.data # <<>>
  <2>1. n \in Nat /\ n \in 0 .. n BY <1>4, RecordFields
  <2>2. t \in ByteString /\ Extends(t, b) BY <1>1, <1>4, <2>1, StagesGrow
  <2> DEFINE full == Len(Stage("full", <<>>, BareRecord(r), n))
  <2>3. full \in Nat /\ Len(t) <= Len(b) + Most(writer, full) /\ (full > 0 => Len(b) < Len(t))
    BY <1>1, <1>4, <2>1, StagesBounded
  <2>4. full \in 1 .. 255
    <3>1. PutData("full", <<>>, BareRecord(r)) = Stage("full", <<>>, BareRecord(r), Len(BareRecord(r).data))
      BY StageSteps
    <3>2. PlainData(writer, r) BY <1>4 DEF RecordsBy
    <3>3. Len(BareRecord(r).data) = n BY BareIsPlain
    <3>4. QED BY <3>1, <3>2, <3>3 DEF PlainData
  <2> HIDE DEF t, full
  <2>5. Len(t) \in Nat BY <2>2 DEF ByteString
  <2> DEFINE x == Len(b)
             y == Len(t)
  <2>6. x \in Nat /\ y \in Nat /\ y <= x + Most(writer, full) /\ x < y BY <1>2, <2>3, <2>4, <2>5
  <2> HIDE DEF x, y
  <2>9. Most(writer, full) <= Most(writer, 255) /\ Most(writer, full) \in Nat BY <1>20, <2>4
  <2>10. \A i, j, k, l \in Nat : i < j /\ j <= i + k /\ k <= l => j - i \in 0 .. l OBVIOUS
  <2>8. x < y /\ y - x \in 0 .. Most(writer, 255) BY <1>20, <2>6, <2>9, <2>10
  <2>7. QED BY <1>4, <2>2, <2>8 DEF t, x, y
<1>5. QED BY <1>3, <1>4

(* The length of the data changes the placeholder alone, and of it the     *)
(* first byte only when it is not small.                                   *)
LEMMA LengthOverPlaceholder ==
  ASSUME NEW head \in ByteString, NEW t \in ByteString, Extends(t, head \o <<0, 0>>),
         Len(t) - Len(head) - 2 \in Words
  PROVE  LET pos == Len(head)
             size == Len(t) - Len(head) - 2
             u == PutLength(t, pos)
         IN /\ u \in ByteString /\ Len(u) = Len(t) /\ Extends(u, head)
            /\ Holds(u, pos, Put16(size))
            /\ \A i \in 1 .. Len(t) : i # pos + 2 /\ (i = pos + 1 => size < 256) => u[i] = t[i]
<1> DEFINE pos == Len(head)
           size == Len(t) - pos - 2
           b == head \o <<0, 0>>
           z == <<0, 0>>
           hi == Put16(size)[1]
           lo == Put16(size)[2]
<1>1. z \in ByteString /\ Len(z) = 2 /\ z[1] = 0 /\ z[2] = 0 BY DEF ByteString
<1>2. /\ b \in ByteString /\ pos \in Nat /\ Len(b) = pos + 2
      /\ \A i \in 1 .. pos : b[i] = head[i]
      /\ b[pos + 1] = 0 /\ b[pos + 2] = 0
  <2> HIDE DEF z
  <2>1. /\ head \o z \in ByteString /\ Len(head) \in Nat /\ Len(z) \in Nat /\ Len(head \o z) = Len(head) + Len(z)
        /\ \A i \in 1 .. Len(head) : (head \o z)[i] = head[i]
        /\ \A i \in 1 .. Len(z) : (head \o z)[Len(head) + i] = z[i]
    BY <1>1, BytesConcat
  <2>2. b = head \o z BY DEF z
  <2> HIDE DEF b, pos
  <2>3. 1 \in 1 .. Len(z) /\ 2 \in 1 .. Len(z) BY <1>1
  <2>4. b[Len(head) + 1] = 0 /\ b[Len(head) + 2] = 0 BY <1>1, <2>1, <2>2, <2>3
  <2>5. QED BY <1>1, <2>1, <2>2, <2>4 DEF pos
<1>3. Len(b) <= Len(t) /\ \A i \in 1 .. Len(b) : t[i] = b[i] BY DEF Extends
<1>4. size \in Words OBVIOUS
<1>5. /\ hi \in 0 .. 255 /\ lo \in 0 .. 255 /\ (size < 256 => hi = 0)
      /\ Put16(size) \in ByteString /\ Len(Put16(size)) = 2
  <2> HIDE DEF size
  <2>1. size \in Nat /\ size < 65536 BY <1>4 DEF Words
  <2>2. size \div 256 \in 0 .. 255 /\ size % 256 \in 0 .. 255 /\ (size \div 256) % 256 = size \div 256
    BY <2>1, TwoBytes
  <2>3. size < 256 => size \div 256 = 0
    <3>1. \A n \in Nat : n < 256 => n \div 256 = 0 OBVIOUS
    <3>2. QED BY <2>1, <3>1
  <2>4. Put16(size) = <<size \div 256, size % 256>> BY <2>2 DEF Put16
  <2>5. hi = size \div 256 /\ lo = size % 256 BY <2>4
  <2>6. QED BY <2>1, <2>2, <2>3, <2>5, LinkIsBytes
<1> DEFINE u == PutLength(t, pos)
<1>6. u = [t EXCEPT ![pos + 1] = hi, ![pos + 2] = lo] BY DEF PutLength
<1>7. Len(t) \in Nat BY DEF ByteString
<1> HIDE DEF b, size, u, pos
<1>8. pos + 2 <= Len(t) BY <1>2, <1>3
<1>9. pos + 1 \in 1 .. Len(t) /\ pos + 2 \in 1 .. Len(t) BY <1>2, <1>7, <1>8
<1> DEFINE v == [t EXCEPT ![pos + 1] = hi]
           w == [v EXCEPT ![pos + 2] = lo]
<1> HIDE DEF hi, lo
<1>11. /\ v \in ByteString /\ Len(v) = Len(t)
       /\ \A i \in 1 .. Len(t) : v[i] = IF i = pos + 1 THEN hi ELSE t[i]
  BY <1>5, <1>9, ExceptSeq DEF ByteString
<1>12. /\ u \in ByteString /\ Len(u) = Len(t)
       /\ u[pos + 1] = hi /\ u[pos + 2] = lo
       /\ \A i \in 1 .. Len(t) : i # pos + 1 /\ i # pos + 2 => u[i] = t[i]
  <2>1. u = w BY <1>6
  <2> HIDE DEF v
  <2>2. /\ w \in ByteString /\ Len(w) = Len(v)
        /\ \A i \in 1 .. Len(v) : w[i] = IF i = pos + 2 THEN lo ELSE v[i]
    BY <1>5, <1>9, <1>11, ExceptSeq DEF ByteString
  <2> HIDE DEF w
  <2>3. pos + 1 # pos + 2 BY <1>2
  <2>4. w[pos + 1] = hi /\ w[pos + 2] = lo BY <1>9, <1>11, <2>2, <2>3
  <2>5. \A i \in 1 .. Len(t) : i # pos + 1 /\ i # pos + 2 => w[i] = t[i] BY <1>11, <2>2
  <2>6. QED BY <1>11, <2>1, <2>2, <2>4, <2>5
<1>13. t[pos + 1] = 0
  <2>1. pos + 1 \in 1 .. Len(b) BY <1>2
  <2>2. QED BY <1>2, <1>3, <2>1
<1>14. \A i \in 1 .. Len(t) : i # pos + 2 /\ (i = pos + 1 => size < 256) => u[i] = t[i] BY <1>5, <1>12, <1>13
<1>15. Extends(u, head)
  <2>1. \A i \in 1 .. pos : i \in 1 .. Len(b) /\ i \in 1 .. Len(t) /\ i # pos + 2 /\ i # pos + 1 BY <1>2, <1>7, <1>8
  <2>2. \A i \in 1 .. pos : u[i] = head[i] BY <1>2, <1>3, <1>12, <2>1
  <2>3. pos <= Len(u) BY <1>2, <1>7, <1>8, <1>12
  <2>4. QED BY <2>2, <2>3 DEF Extends, pos
<1>16. Holds(u, pos, Put16(size))
  <2>1. pos + 2 <= Len(u) BY <1>8, <1>12
  <2>2. \A j \in 1 .. 2 : j = 1 \/ j = 2 OBVIOUS
  <2>3. \A j \in 1 .. 2 : u[pos + j] = Put16(size)[j] BY <1>12, <2>2 DEF hi, lo
  <2>4. QED BY <1>5, <2>1, <2>3 DEF Holds
<1>17. QED BY <1>12, <1>14, <1>15, <1>16 DEF u, pos, size

(* The placeholder lies behind the record's head.                          *)
LEMMA PlaceholderBytes ==
  ASSUME NEW head \in ByteString
  PROVE  LET b == head \o <<0, 0>>
         IN /\ b \in ByteString /\ Len(b) = Len(head) + 2 /\ Len(head) \in Nat
            /\ Extends(b, head) /\ b[Len(head) + 1] = 0 /\ b[Len(head) + 2] = 0
<1> DEFINE z == <<0, 0>>
           b == head \o z
           m == Len(head)
<1>1. z \in ByteString /\ Len(z) = 2 /\ z[1] = 0 /\ z[2] = 0 BY DEF ByteString
<1> HIDE DEF z
<1>2. /\ b \in ByteString /\ m \in Nat /\ Len(b) = m + Len(z)
      /\ \A i \in 1 .. Len(z) : b[m + i] = z[i]
  BY <1>1, BytesConcat
<1>3. Extends(b, head) BY <1>1, ConcatAdds
<1>4. 1 \in 1 .. Len(z) /\ 2 \in 1 .. Len(z) BY <1>1
<1> HIDE DEF b, m
<1>5. b[m + 1] = 0 /\ b[m + 2] = 0 BY <1>1, <1>2, <1>4
<1>6. QED BY <1>1, <1>2, <1>3, <1>5 DEF b, m, z

(* What agrees with a buffer agrees with what that one begins with.        *)
LEMMA AgreesUpTo ==
  ASSUME NEW c \in ByteString, NEW t \in ByteString, NEW b \in ByteString, NEW h, NEW writer,
         Agrees(writer, c, t, h), Extends(t, b)
  PROVE  Agrees(writer, c, b, h)
<1>1. Len(b) \in Nat /\ Len(t) \in Nat /\ Len(c) \in Nat BY DEF ByteString
<1>2. Len(b) <= Len(t) /\ \A i \in 1 .. Len(b) : t[i] = b[i] BY DEF Extends
<1>3. Len(t) <= Len(c) /\ \A i \in 1 .. Len(t) : ~WrittenOver(writer, i, h) => c[i] = t[i] BY DEF Agrees
<1>4. \A i \in 1 .. Len(b) : i \in 1 .. Len(t) BY <1>1, <1>2
<1>5. Len(b) <= Len(c) BY <1>1, <1>2, <1>3
<1>6. QED BY <1>2, <1>3, <1>4, <1>5 DEF Agrees

(* What is held stays as the buffer grows.                                 *)
LEMMA HoldsStays ==
  ASSUME NEW b \in ByteString, NEW c \in ByteString, Extends(c, b), NEW p \in Nat, NEW text, Len(text) \in Nat,
         Holds(b, p, text)
  PROVE  Holds(c, p, text)
<1>1. Len(b) \in Nat /\ Len(c) \in Nat BY DEF ByteString
<1>2. Len(b) <= Len(c) /\ \A i \in 1 .. Len(b) : c[i] = b[i] BY DEF Extends
<1>3. p + Len(text) <= Len(b) /\ \A j \in 1 .. Len(text) : b[p + j] = text[j] BY DEF Holds
<1>4. \A j \in 1 .. Len(text) : p + j \in 1 .. Len(b) BY <1>1, <1>3
<1>5. p + Len(text) <= Len(c) BY <1>1, <1>2, <1>3
<1>6. QED BY <1>2, <1>3, <1>4, <1>5 DEF Holds

(* The first name is behind the header, in full.                           *)
Begun(b) == \E first \in Seq(Label) : Holds(b, 12, InFull(first))

(* What has begun with a name in full still does when the buffer grows.    *)
LEMMA BegunStays ==
  ASSUME NEW b \in ByteString, NEW c \in ByteString, Extends(c, b), Begun(b)
  PROVE  Begun(c)
<1>1. PICK first \in Seq(Label) : Holds(b, 12, InFull(first)) BY DEF Begun
<1>2. Len(InFull(first)) \in Nat BY FlatIsBytes
<1>3. 12 \in Nat OBVIOUS
<1>4. Holds(c, 12, InFull(first)) BY <1>1, <1>2, <1>3, HoldsStays
<1>5. QED BY <1>4 DEF Begun

(* The placeholder stays while data is appended.                           *)
LEMMA PlaceholderKept ==
  ASSUME NEW b \in ByteString, NEW t \in ByteString, NEW h \in Nat, h > 0, NEW writer,
         Placeholder(writer, b, h), Extends(t, b)
  PROVE  Placeholder(writer, t, h)
<1>1. Placeholder("full", b, h) BY DEF Placeholder
<1>2. Placeholder("full", t, h) BY <1>1, PlaceholderStays
<1>3. ASSUME writer = "root" PROVE Rooted(t, h)
  <2>1. Rooted(b, h) /\ h # 0 BY <1>3 DEF Placeholder
  <2>2. PICK first \in Seq(Label) : Holds(b, 12, InFull(first)) /\ 12 + Len(Flat(first)) + 3 <= h
    BY <2>1 DEF Rooted
  <2>3. Len(InFull(first)) \in Nat /\ 12 \in Nat BY FlatIsBytes
  <2>4. Holds(t, 12, InFull(first)) BY <2>2, <2>3, HoldsStays
  <2>5. QED BY <2>2, <2>4 DEF Rooted
<1>4. QED BY <1>2, <1>3 DEF Placeholder

(* No length has more than 16 bits.                                        *)
LEMMA SizesAreWords == \A writer : \A n \in 0 .. Most(writer, 255) : n \in Words /\ (writer # "root" => n < 256)
BY DEF Most, Words

(* The buffer before the data, behind it and with its length.              *)
LEMMA RecordBuffers ==
  ASSUME NEW writer \in Writers, NEW r \in RecordsBy(writer), NEW head \in ByteString,
         writer = "root" => Begun(head)
  PROVE  LET b == head \o <<0, 0>>
             t == PutData(writer, b, r)
             u == PutAfterHead(writer, head, r)
             h == Len(head) + 2
         IN /\ b \in ByteString /\ Len(b) = h /\ h \in Nat /\ h > 0
            /\ t \in ByteString /\ u \in ByteString /\ Len(u) = Len(t) /\ Extends(u, head)
            /\ Len(t) - h \in Words /\ h <= Len(t)
            /\ Holds(u, Len(head), Put16(Len(t) - h))
            /\ \A c \in ByteString : Extends(c, u) => Agrees(writer, c, t, h)
            /\ Placeholder(writer, b, h)
<1> DEFINE b == head \o <<0, 0>>
           t == PutData(writer, b, r)
           u == PutAfterHead(writer, head, r)
           m == Len(head)
           h == m + 2
<1>1. /\ b \in ByteString /\ Len(b) = m + 2 /\ m \in Nat
      /\ b[m + 1] = 0 /\ b[m + 2] = 0
  BY PlaceholderBytes
<1>2. t \in ByteString /\ Extends(t, b) /\ Len(t) - Len(b) \in 0 .. Most(writer, 255)
  <2> HIDE DEF b
  <2>1. QED BY <1>1, DataWritten
<1>3. u = PutLength(t, m) BY DEF PutAfterHead
<1>4. Len(t) \in Nat BY <1>2 DEF ByteString
<1> HIDE DEF t, u
<1> DEFINE size == Len(t) - m - 2
<1>5. size \in Words /\ (writer # "root" => size < 256)
  <2> HIDE DEF b, m
  <2>1. Len(t) - Len(b) = size BY <1>1, <1>4
  <2>2. size \in 0 .. Most(writer, 255) BY <1>2, <2>1
  <2> HIDE DEF size
  <2>3. QED BY <2>2, SizesAreWords
<1>6. /\ u \in ByteString /\ Len(u) = Len(t) /\ Extends(u, head)
      /\ Holds(u, m, Put16(size))
      /\ \A i \in 1 .. Len(t) : i # m + 2 /\ (i = m + 1 => size < 256) => u[i] = t[i]
  BY <1>2, <1>3, <1>5, LengthOverPlaceholder
<1>14. Begun(b) => (writer = "root" => Rooted(b, h))
  <2> HIDE DEF m
  <2> SUFFICES ASSUME writer = "root" PROVE Rooted(b, h)
    OBVIOUS
  <2>1. PICK first \in Seq(Label) : Holds(head, 12, InFull(first)) BY DEF Begun
  <2>2. Len(InFull(first)) = Len(Flat(first)) + 1 /\ Len(Flat(first)) \in Nat /\ Len(InFull(first)) \in Nat
    BY FlatIsBytes
  <2>3. Extends(b, head) /\ b \in ByteString /\ 12 \in Nat BY <1>1, PlaceholderBytes
  <2>4. Holds(b, 12, InFull(first)) BY <2>1, <2>2, <2>3, HoldsStays
  <2>5. 12 + Len(InFull(first)) <= m BY <2>1 DEF Holds, m
  <2>6. 12 + Len(Flat(first)) + 3 <= h BY <1>1, <2>2, <2>5
  <2>7. QED BY <2>4, <2>6 DEF Rooted
<1>15. Extends(b, head) BY PlaceholderBytes
<1> HIDE DEF b, m
<1>16. writer = "root" => Rooted(b, h) BY <1>1, <1>14, <1>15, BegunStays
<1>8. h - 1 = m + 1 /\ size = Len(t) - h /\ h \in Nat /\ h >= 2 /\ h > 0 BY <1>1, <1>4
<1>7. \A c \in ByteString : Extends(c, u) => Agrees(writer, c, t, h)
  <2> SUFFICES ASSUME NEW c \in ByteString, Extends(c, u) PROVE Agrees(writer, c, t, h)
    OBVIOUS
  <2>1. Len(t) <= Len(c) /\ \A i \in 1 .. Len(t) : c[i] = u[i] BY <1>6 DEF Extends
  <2>2. ASSUME NEW i \in 1 .. Len(t), ~WrittenOver(writer, i, h) PROVE u[i] = t[i]
    <3>1. i # h /\ (writer = "root" => i + 1 # h) BY <2>2 DEF WrittenOver
    <3>2. i = m + 1 => i + 1 = h BY <1>1
    <3> HIDE DEF size
    <3>3. i # m + 2 /\ (i = m + 1 => size < 256) BY <1>5, <3>1, <3>2
    <3>4. QED BY <1>6, <3>3
  <2>3. QED BY <2>1, <2>2 DEF Agrees
<1>9. Placeholder(writer, b, h)
  <2>1. b[h] = 0 /\ b[h - 1] = 0 /\ h <= Len(b) BY <1>1, <1>8
  <2> HIDE DEF h
  <2>2. QED BY <1>8, <1>16, <2>1 DEF Placeholder
<1>10. Len(t) - h \in Words /\ Holds(u, m, Put16(Len(t) - h)) BY <1>5, <1>6, <1>8
<1>12. Len(b) = h /\ h <= Len(t)
  <2>1. Len(b) <= Len(t) BY <1>2 DEF Extends
  <2>2. QED BY <1>1, <2>1
<1>13. QED BY <1>1, <1>2, <1>6, <1>7, <1>8, <1>9, <1>10, <1>12 DEF b, t, u, m

(* The fields that have been put are held in all that is written           *)
(* afterwards.                                                             *)
LEMMA DataHeld ==
  ASSUME NEW c \in Buffers, NEW writer \in Writers, NEW r \in RecordsBy(writer), r.data # <<>>,
         NEW head \in ByteString, writer = "root" => Begun(head), Extends(c, PutAfterHead(writer, head, r))
  PROVE  LET fs == Fields("client", r.type)
             b == head \o <<0, 0>>
         IN \A k \in 0 .. Len(r.data) - 1 :
               FieldHeld(writer, c, Len(Stage(writer, b, r, k)), fs[k + 1], r.data[k + 1],
                         Len(Stage(writer, b, r, k + 1)))
<1> DEFINE fs == Fields("client", r.type)
           n == Len(r.data)
           b == head \o <<0, 0>>
           B(k) == Stage(writer, b, r, k)
           t == PutData(writer, b, r)
           h == Len(head) + 2
<1>0. c \in ByteString BY DEF Buffers
<1>1. /\ b \in ByteString /\ h \in Nat /\ h > 0 /\ t \in ByteString
      /\ Agrees(writer, c, t, h) /\ Placeholder(writer, b, h)
  BY <1>0, RecordBuffers
<1> HIDE DEF b, h
<1>2. /\ \A k \in 0 .. n : B(k) \in ByteString /\ Extends(B(k), b)
      /\ \A k \in 0 .. n - 1 : B(k + 1) = PutField(writer, B(k), fs[k + 1], r.data[k + 1])
  BY <1>1, StagesGrow
<1>3. \A j \in 0 .. n : Extends(t, B(j)) BY <1>1, StagesExtend
<1>4. n \in Nat /\ \A i \in 1 .. n : PlainValue(writer, fs[i], r.data[i]) /\ fs[i] \in LongFields \cup OpenFields
  BY RecordFields
<1> HIDE DEF fs, n, B, t
<1>5. ASSUME NEW k \in 0 .. n - 1
      PROVE  FieldHeld(writer, c, Len(B(k)), fs[k + 1], r.data[k + 1], Len(B(k + 1)))
  <2>1. k \in 0 .. n /\ k + 1 \in 0 .. n /\ k + 1 \in 1 .. n BY <1>4
  <2>2. PlainValue(writer, fs[k + 1], r.data[k + 1]) /\ fs[k + 1] \in LongFields \cup OpenFields BY <1>4, <2>1
  <2>3. B(k) \in ByteString /\ Extends(B(k), b) /\ B(k + 1) \in ByteString BY <1>2, <2>1
  <2>4. Placeholder(writer, B(k), h) BY <1>1, <2>3, PlaceholderKept
  <2>5. Agrees(writer, c, B(k + 1), h)
    <3>1. Extends(t, B(k + 1)) BY <1>3, <2>1
    <3>2. QED BY <1>0, <1>1, <2>3, <3>1, AgreesUpTo
  <2>6. B(k + 1) = PutField(writer, B(k), fs[k + 1], r.data[k + 1]) BY <1>2
  <2>7. QED BY <1>1, <2>2, <2>3, <2>4, <2>5, <2>6, PutFieldHeld
<1>6. QED BY <1>5 DEF fs, n, B, b

(* The last field of the data is a name.                                   *)
EndsInName(r) == r.data # <<>> /\ Last(Fields("client", r.type)).kind = "name"

(* Where the data is read.                                                 *)
DataFrom(reader, c, p, type, size) == [reader |-> reader, b |-> c, type |-> type, end |-> p + size]

(* What is known after k fields.                                           *)
DataRead(reader, c, p, type, size, k) ==
  FieldLoop!Iterate(DataFrom(reader, c, p, type, size), Got(<<>>, p))[k]

(* Reading the fields, one field at a time.                                *)
LEMMA DataRounds ==
  \A reader, c, p, type, size : size # 0 =>
     /\ DataRead(reader, c, p, type, size, 0) = Got(<<>>, p)
     /\ GetData(reader, c, p, type, size) = DataRead(reader, c, p, type, size, Len(Fields(reader, type)))
     /\ \A k \in Nat : DataRead(reader, c, p, type, size, k + 1) =
                          NextField(DataFrom(reader, c, p, type, size), DataRead(reader, c, p, type, size, k))
<1> SUFFICES ASSUME NEW reader, NEW c, NEW p, NEW type, NEW size, size # 0
             PROVE  /\ DataRead(reader, c, p, type, size, 0) = Got(<<>>, p)
                    /\ GetData(reader, c, p, type, size) = DataRead(reader, c, p, type, size, Len(Fields(reader, type)))
                    /\ \A k \in Nat : DataRead(reader, c, p, type, size, k + 1) =
                          NextField(DataFrom(reader, c, p, type, size), DataRead(reader, c, p, type, size, k))
  OBVIOUS
<1> DEFINE from == DataFrom(reader, c, p, type, size)
           first == Got(<<>>, p)
           it == FieldLoop!Iterate(from, first)
<1>1. GetData(reader, c, p, type, size) = it[Len(Fields(reader, type))] BY DEF GetData, DataFrom
<1>2. \A k : DataRead(reader, c, p, type, size, k) = it[k] BY DEF DataRead
<1> HIDE DEF from, first
<1>3. it[0] = first /\ \A n \in Nat : it[n + 1] = NextField(from, it[n]) BY FieldLoop!IterateSteps
<1> HIDE DEF it
<1>4. QED BY <1>1, <1>2, <1>3 DEF first, from

(* One more field is read behind the others.                               *)
LEMMA NextFieldGot ==
  \A reader, c, p, type, size, val, pos :
     NextField(DataFrom(reader, c, p, type, size), Got(val, pos)) =
       Another(Got(val, pos), GetField(reader, c, pos, Fields(reader, type)[Len(val) + 1], p + size))
BY DEF NextField, DataFrom, Got

(* What was thrown ends a loop.                                            *)
LEMMA ThrownStays == \A so : Another(so, Thrown) = Thrown
BY DEF Another, Thrown, Failed

(* What was thrown is no value.                                            *)
LEMMA ThrownFails == ~Thrown.ok
BY DEF Thrown, Failed

(* What is read of the first k fields.                                     *)
ValuesRead(writer, r, k, vals) ==
  /\ vals \in Seq(ReadValues) /\ Len(vals) = k
  /\ \A i \in 1 .. k : ValueRead(writer, Fields("client", r.type)[i], r.data[i], vals[i])

(* The reader has read these, or is the proxy at a link at the very end.   *)
DataReads(writer, reader, c, got, r, end) ==
  \/ \E vals : ValuesRead(writer, r, Len(r.data), vals) /\ got = Got(vals, end)
  \/ reader = "proxy" /\ CutAtLink(c, got, end) /\ EndsInName(r)

(* One more value is read behind the others.                               *)
LEMMA ValuesNext ==
  ASSUME NEW writer, NEW r, NEW k \in Nat, NEW vals, ValuesRead(writer, r, k, vals), NEW val \in ReadValues,
         ValueRead(writer, Fields("client", r.type)[k + 1], r.data[k + 1], val)
  PROVE  ValuesRead(writer, r, k + 1, Append(vals, val))
<1>1. vals \in Seq(ReadValues) /\ Len(vals) = k BY DEF ValuesRead
<1>2. /\ Append(vals, val) \in Seq(ReadValues) /\ Len(Append(vals, val)) = k + 1
      /\ \A i \in 1 .. k : Append(vals, val)[i] = vals[i]
      /\ Append(vals, val)[k + 1] = val
  BY <1>1, AppendProperties
<1>3. ASSUME NEW i \in 1 .. k + 1
      PROVE  ValueRead(writer, Fields("client", r.type)[i], r.data[i], Append(vals, val)[i])
  <2>1. CASE i = k + 1 BY <1>2, <2>1
  <2>2. CASE i # k + 1
    <3>1. i \in 1 .. k BY <2>2
    <3>2. QED BY <1>2, <3>1 DEF ValuesRead
  <2>3. QED BY <2>1, <2>2
<1>4. QED BY <1>2, <1>3 DEF ValuesRead

(* Both readers read the data that has been written, but for a link at the *)
(* very end.                                                               *)
LEMMA GetDataReads ==
  ASSUME NEW c \in Buffers, NEW writer \in Writers, NEW r \in RecordsBy(writer), r.data # <<>>,
         NEW reader \in ReadersOf(writer), NEW head \in ByteString, writer = "root" => Begun(head),
         Extends(c, PutAfterHead(writer, head, r))
  PROVE  LET b == head \o <<0, 0>>
             t == PutData(writer, b, r)
             got == GetData(reader, c, Len(b), r.type, Len(t) - Len(b))
         IN DataReads(writer, reader, c, got, r, Len(t))
<1> DEFINE fs == Fields("client", r.type)
           n == Len(r.data)
           b == head \o <<0, 0>>
           B(k) == Stage(writer, b, r, k)
           E(k) == Len(Stage(writer, b, r, k))
           t == PutData(writer, b, r)
           p == Len(b)
           size == Len(t) - p
           end == p + size
           data == r.data
           F(k) == DataRead(reader, c, p, r.type, size, k)
           from == DataFrom(reader, c, p, r.type, size)
           got == GetData(reader, c, p, r.type, size)
<1>0. c \in ByteString BY DEF Buffers
<1>1. /\ b \in ByteString /\ t \in ByteString /\ p \in Nat /\ p <= Len(t) /\ Len(t) <= Len(c)
  <2> DEFINE u == PutAfterHead(writer, head, r)
             h == Len(head) + 2
  <2>1. b \in ByteString /\ t \in ByteString /\ p = h /\ h \in Nat /\ h <= Len(t) /\ Len(u) = Len(t) BY RecordBuffers
  <2>2. Len(u) <= Len(c) BY DEF Extends
  <2> HIDE DEF u, t, b, h
  <2>3. QED BY <2>1, <2>2
<1>2. p < Len(t)
  <2> HIDE DEF b
  <2>1. QED BY <1>1, DataWritten
<1>3. end = Len(t) /\ size # 0
  <2>1. Len(t) \in Nat BY <1>1 DEF ByteString
  <2> HIDE DEF t, b
  <2>2. QED BY <1>1, <1>2, <2>1
<1>4. /\ fs \in Layouts /\ Fields(reader, r.type) = fs
      /\ n = Len(fs) /\ n \in Nat /\ n >= 1
      /\ \A i \in 1 .. n : PlainValue(writer, fs[i], data[i]) /\ fs[i] \in LongFields \cup OpenFields
  BY RecordFields
<1>5. /\ \A i \in 1 .. n : fs[i] \in OpenFields => i = n
      /\ \A i \in 2 .. n : fs[i] \in LongFields
  BY <1>4, LayoutCases
<1>6. /\ F(0) = Got(<<>>, p)
      /\ got = F(n)
      /\ \A k \in Nat : F(k + 1) = NextField(from, F(k))
      /\ \A val, pos : NextField(from, Got(val, pos)) =
                          Another(Got(val, pos), GetField(reader, c, pos, fs[Len(val) + 1], end))
  <2> HIDE DEF size, fs, p, b, n
  <2>1. Fields(reader, r.type) = fs /\ size # 0 /\ n = Len(Fields(reader, r.type)) BY <1>3, <1>4
  <2> DEFINE type == r.type
  <2> HIDE DEF type
  <2>2. /\ DataRead(reader, c, p, type, size, 0) = Got(<<>>, p)
        /\ GetData(reader, c, p, type, size) = DataRead(reader, c, p, type, size, Len(Fields(reader, type)))
        /\ \A k \in Nat : DataRead(reader, c, p, type, size, k + 1) =
                             NextField(DataFrom(reader, c, p, type, size), DataRead(reader, c, p, type, size, k))
    BY ONLY <2>1, DataRounds, SMT
  <2>3. F(0) = Got(<<>>, p) BY <2>2 DEF type
  <2>4. got = F(n) BY <2>1, <2>2 DEF type
  <2>5. \A k \in Nat : F(k + 1) = NextField(from, F(k)) BY <2>2 DEF type
  <2>6. \A val, pos : NextField(from, Got(val, pos)) =
                        Another(Got(val, pos), GetField(reader, c, pos, Fields(reader, r.type)[Len(val) + 1], p + size))
    BY NextFieldGot
  <2>7. QED BY <2>1, <2>3, <2>4, <2>5, <2>6
<1>7. \A k \in 0 .. n - 1 : FieldHeld(writer, c, E(k), fs[k + 1], data[k + 1], E(k + 1)) BY DataHeld
<1>8. /\ \A k \in 0 .. n : B(k) \in ByteString
      /\ \A k \in 0 .. n - 1 : Adds(writer, B(k + 1), B(k), FieldText(fs[k + 1], data[k + 1]))
  <2> HIDE DEF b
  <2>1. QED BY <1>1, StagesGrow
<1>9. E(0) = p /\ E(n) = Len(t) /\ \A k \in 0 .. n : E(k) <= Len(t)
  <2> HIDE DEF b
  <2>1. B(0) = b /\ B(n) = t BY StageSteps
  <2>2. \A k \in 0 .. n : Extends(t, B(k)) BY <1>1, StagesExtend
  <2>3. \A k \in 0 .. n : E(k) <= Len(t) BY <2>2 DEF Extends
  <2>4. QED BY <2>1, <2>3
<1>10. \A k \in 0 .. n : E(k) \in Nat BY <1>8 DEF ByteString
<1>11. \A k \in 0 .. n - 1 : fs[k + 1] \in LongFields => E(k) < E(k + 1)
  <2> SUFFICES ASSUME NEW k \in 0 .. n - 1, fs[k + 1] \in LongFields PROVE E(k) < E(k + 1)
    OBVIOUS
  <2> DEFINE text == FieldText(fs[k + 1], data[k + 1])
  <2>1. k + 1 \in 1 .. n BY <1>4
  <2>2. Len(text) > 0 BY <1>4, <2>1, FieldTextType
  <2>3. Adds(writer, B(k + 1), B(k), text) BY <1>8
  <2> HIDE DEF text
  <2>4. QED BY <2>2, <2>3 DEF Adds
<1> DEFINE Whole(k) == \E vals : ValuesRead(writer, r, k, vals) /\ F(k) = Got(vals, E(k))
           Read(k) == \/ Whole(k)
                      \/ reader = "proxy" /\ k > 0 /\ CutAtLink(c, F(k), E(k)) /\ fs[k].kind = "name"
           Good == {k \in Nat : k <= n => Read(k)}
<1>20. ASSUME NEW k \in Nat, NEW vals, ValuesRead(writer, r, k, vals), NEW val \in ReadValues,
              ValueRead(writer, fs[k + 1], data[k + 1], val)
       PROVE  ValuesRead(writer, r, k + 1, Append(vals, val))
  BY <1>20, ValuesNext
<1> HIDE DEF fs, n, b, t, p, size, end, data, F, E, B, got, from
<1>12. 0 \in Good
  <2>1. F(0) = Got(<<>>, E(0)) BY <1>6, <1>9
  <2>2. ValuesRead(writer, r, 0, <<>>)
    <3>1. <<>> \in Seq(ReadValues) /\ Len(<<>>) = 0 BY EmptySeq
    <3>2. QED BY <3>1 DEF ValuesRead
  <2>3. QED BY <2>1, <2>2
<1>13. ASSUME NEW k \in Nat, k \in Good PROVE k + 1 \in Good
  <2> SUFFICES ASSUME k + 1 <= n PROVE Read(k + 1)
    OBVIOUS
  <2> DEFINE field == fs[k + 1]
             val == data[k + 1]
             item == GetField(reader, c, E(k), field, end)
  <2>1. k \in 0 .. n - 1 /\ k \in 0 .. n /\ k + 1 \in 0 .. n /\ k + 1 \in 1 .. n /\ k <= n BY <1>4
  <2>2. Read(k) BY <1>13, <2>1
  <2>3. CASE Whole(k)
    <3>0. PICK done : ValuesRead(writer, r, k, done) /\ F(k) = Got(done, E(k)) BY <2>3
    <3>1. Len(done) = k BY <3>0 DEF ValuesRead
    <3>2. F(k + 1) = Another(Got(done, E(k)), item) BY <1>6, <3>0, <3>1
    <3>3. FieldReads(writer, reader, c, item, field, val, E(k + 1))
      <4>1. FieldHeld(writer, c, E(k), field, val, E(k + 1)) BY <1>7, <2>1
      <4>2. E(k) \in Nat BY <1>10, <2>1
      <4>3. field \in LongFields \cup OpenFields /\ PlainValue(writer, field, val) BY <1>4, <2>1
      <4>4. field \in OpenFields => end = E(k + 1) BY <1>3, <1>5, <1>9, <2>1
      <4> HIDE DEF field, val, item
      <4>5. FieldReads(writer, reader, c, GetField(reader, c, E(k), field, end), field, val, E(k + 1))
        BY <1>0, <4>1, <4>2, <4>3, <4>4, GetFieldReads
      <4>6. QED BY <4>5 DEF item
    <3>4. ASSUME NEW read \in ReadValues, ValueRead(writer, field, val, read), item = Got(read, E(k + 1))
          PROVE  Whole(k + 1)
      <4>1. ValuesRead(writer, r, k + 1, Append(done, read)) BY <1>20, <3>0, <3>4
      <4> HIDE DEF item, field, val
      <4>2. F(k + 1) = Got(Append(done, read), E(k + 1)) BY <3>2, <3>4, GotAnother
      <4>3. QED BY <4>1, <4>2
    <3>5. ASSUME reader = "proxy", CutAtLink(c, item, E(k + 1)), field.kind = "name" PROVE Read(k + 1)
      <4>2. F(k + 1) = Thrown
        <5> HIDE DEF item, field
        <5>1. QED BY <3>2, <3>5, ThrownStays DEF CutAtLink
      <4>3. CutAtLink(c, F(k + 1), E(k + 1)) BY <3>5, <4>2 DEF CutAtLink
      <4>4. k + 1 > 0 OBVIOUS
      <4>5. QED BY <3>5, <4>3, <4>4
    <3> HIDE DEF item, field, val, Whole
    <3>6. QED BY <3>3, <3>4, <3>5 DEF FieldReads
  <2>4. CASE ~Whole(k)
    <3>1. k > 0 /\ E(k) = Len(c) BY <2>2, <2>4 DEF CutAtLink
    <3>2. k + 1 \in 2 .. n BY <2>1, <3>1, <1>4
    <3>3. E(k) < E(k + 1) BY <1>5, <1>11, <2>1, <3>2
    <3>4. E(k + 1) <= Len(t) BY <1>9, <2>1
    <3>5. E(k) \in Nat /\ E(k + 1) \in Nat BY <1>10, <2>1
    <3>6. Len(t) \in Nat BY <1>1 DEF ByteString
    <3>7. Len(c) \in Nat BY <1>0 DEF ByteString
    <3>8. \A x, y, z, w \in Nat : ~(x = w /\ x < y /\ y <= z /\ z <= w) OBVIOUS
    <3>9. FALSE BY <1>1, <3>1, <3>3, <3>4, <3>5, <3>6, <3>7, <3>8
    <3>10. QED BY <3>9
  <2>5. QED BY <2>3, <2>4
<1>14. \A k \in Nat : k \in Good
  <2> HIDE DEF Good
  <2>1. QED BY <1>12, <1>13, LabelLoop!Induction
<1>15. Read(n)
  <2>1. n \in Good /\ n <= n BY <1>4, <1>14
  <2>2. QED BY <2>1
<1>16. \/ \E vals : ValuesRead(writer, r, n, vals) /\ got = Got(vals, Len(t))
       \/ reader = "proxy" /\ CutAtLink(c, got, Len(t)) /\ fs[n].kind = "name"
  BY <1>6, <1>9, <1>15
<1>17. fs[n].kind = "name" => EndsInName(r)
  <2>1. Last(fs) = fs[Len(fs)] BY DEF Last
  <2>2. fs = Fields("client", r.type) BY DEF fs
  <2>3. QED BY <1>4, <2>1, <2>2 DEF EndsInName
<1>18. DataReads(writer, reader, c, got, r, Len(t)) BY <1>16, <1>17 DEF DataReads, n
<1>19. QED BY <1>18 DEF got, t, b, p, size

-----------------------------------------------------------------------------
(* Records, questions and sections.                                        *)

(* Two bytes are read as the number they were put for.                     *)
LEMMA WordHeld ==
  ASSUME NEW c \in ByteString, NEW p \in Nat, NEW n \in Words, Holds(c, p, Put16(n))
  PROVE  Get16(c, p) = n /\ p + 2 <= Len(c)
<1> DEFINE x == n \div 256
           y == n % 256
           w == Put16(n)
<1>1. x \in 0 .. 255 /\ y \in 0 .. 255 /\ 256 * x + y = n /\ x % 256 = x BY TwoBytes DEF Words
<1> HIDE DEF x, y
<1>2. w = <<x, y>> BY <1>1 DEF Put16, x, y
<1>3. Len(w) = 2 /\ w[1] = x /\ w[2] = y /\ 1 \in 1 .. Len(w) /\ 2 \in 1 .. Len(w) BY <1>2
<1> HIDE DEF w
<1>4. p + Len(w) <= Len(c) /\ c[p + 1] = w[1] /\ c[p + 2] = w[2] BY <1>3 DEF Holds, w
<1>5. (p + 1) + 1 = p + 2 OBVIOUS
<1>6. Get16(c, p) = 256 * x + y BY <1>3, <1>4, <1>5 DEF Get16, Byte
<1>7. QED BY <1>1, <1>3, <1>4, <1>6

(* What begins with a buffer agrees with it.                               *)
LEMMA ExtendsAgrees == \A writer, c, b : Extends(c, b) => Agrees(writer, c, b, 0)
BY DEF Extends, Agrees

(* A text that has been appended is held.                                  *)
LEMMA TextAfter ==
  ASSUME NEW c \in ByteString, NEW b \in ByteString, NEW text \in ByteString, Extends(c, b \o text)
  PROVE  /\ b \o text \in ByteString /\ Len(b \o text) = Len(b) + Len(text)
         /\ Extends(b \o text, b) /\ Extends(c, b) /\ Holds(c, Len(b), text)
<1> DEFINE t == b \o text
<1>1. t \in ByteString /\ Len(t) = Len(b) + Len(text) /\ Extends(t, b) BY ConcatAdds
<1>2. Agrees("full", c, t, 0) BY ExtendsAgrees
<1>3. 0 \in Nat /\ 0 <= Len(b) BY DEF ByteString
<1>4. Holds(c, Len(b), text) BY <1>2, <1>3, HoldsNew
<1>5. Extends(c, b)
  <2> HIDE DEF t
  <2>1. Extends(c, t) BY DEF t
  <2>2. QED BY <1>1, <2>1, ExtendsTransitive
<1>6. QED BY <1>1, <1>4, <1>5

(* A number that has been appended is read.                                *)
LEMMA WordAfter ==
  ASSUME NEW b \in ByteString, NEW n \in Words
  PROVE  LET t == b \o Put16(n)
         IN /\ t \in ByteString /\ Len(t) = Len(b) + 2 /\ Extends(t, b)
            /\ \A c \in ByteString : Extends(c, t) => Extends(c, b) /\ Get16(c, Len(b)) = n
<1> DEFINE w == Put16(n)
           t == b \o w
<1>0. n \in Nat BY DEF Words
<1>1. w \in ByteString /\ Len(w) = 2 BY <1>0, LinkIsBytes
<1> HIDE DEF w
<1>2. t \in ByteString /\ Len(t) = Len(b) + Len(w) /\ Extends(t, b) BY <1>1, ConcatAdds
<1>3. ASSUME NEW c \in ByteString, Extends(c, t) PROVE Extends(c, b) /\ Get16(c, Len(b)) = n
  <2>1. Extends(c, b) /\ Holds(c, Len(b), w) BY <1>1, <1>3, TextAfter
  <2>2. Len(b) \in Nat BY DEF ByteString
  <2>3. Get16(c, Len(b)) = n BY <2>1, <2>2, WordHeld DEF w
  <2>4. QED BY <2>1, <2>3
<1>4. QED BY <1>1, <1>2, <1>3 DEF w

(* Links to the root lead to the first name, which is written behind the   *)
(* header.                                                                 *)
Ready(writer, b) == writer = "root" => Len(b) = 12 \/ Begun(b)

(* Whatever has been written, the first name is behind the header.         *)
LEMMA PutBegun ==
  ASSUME NEW b \in ByteString, NEW name \in WrittenNames("root"), Ready("root", b),
         NEW t \in ByteString, Extends(t, b), Put("root", b, name, t)
  PROVE  Begun(t)
<1>1. Bare(name) \in Seq(Label) BY WrittenName DEF Writers
<1>2. CASE Begun(b) BY <1>2, BegunStays
<1>3. CASE Len(b) = 12
  <2>1. ~(Len(b) > 12)
    <3>1. \A k \in Nat : k = 12 => ~(k > 12) OBVIOUS
    <3>2. Len(b) \in Nat BY DEF ByteString
    <3>3. QED BY <1>3, <3>1, <3>2
  <2>2. t = b \o InFull(Bare(name)) BY <2>1 DEF Put
  <2>3. InFull(Bare(name)) \in ByteString BY <1>1, FlatIsBytes
  <2>4. Extends(t, t) BY ExtendsItself
  <2>5. Holds(t, Len(b), InFull(Bare(name))) BY <2>2, <2>3, <2>4, TextAfter
  <2>6. QED BY <1>1, <1>3, <2>5 DEF Begun
<1>4. QED BY <1>2, <1>3 DEF Ready

(* The name is read by its reader.                                         *)
GotName(writer, name, got, pos) == \E read : NameRead(writer, name, read) /\ got = Got(read, pos)

(* A name that has been appended is read.                                  *)
LEMMA NameWritten ==
  ASSUME NEW writer \in Writers, NEW b \in ByteString, Ready(writer, b), NEW name \in WrittenNames(writer)
  PROVE  LET t == PutName(writer, b, name)
         IN /\ t \in ByteString /\ Extends(t, b) /\ Len(b) < Len(t)
            /\ writer = "root" => Begun(t)
            /\ \A c \in Buffers : Extends(c, t) =>
                 \A reader \in ReadersOf(writer) :
                    Reads(writer, reader, c, ReadName(reader, c, Len(b)), name, Len(t))
<1> DEFINE t == PutName(writer, b, name)
<1>2. Put(writer, b, name, t) BY PutNameForm
<1> HIDE DEF t
<1>3. Longer(t, b, Len(Flat(Bare(name))) + 1 + Slack(writer)) BY <1>2, PutLonger
<1>4. t \in ByteString /\ Extends(t, b) /\ Len(b) < Len(t) BY <1>3 DEF Longer
<1>5. ASSUME NEW c \in Buffers, Extends(c, t), NEW reader \in ReadersOf(writer)
      PROVE  Reads(writer, reader, c, ReadName(reader, c, Len(b)), name, Len(t))
  <2>1. Agrees(writer, c, t, 0) BY <1>5, ExtendsAgrees
  <2>2. 0 \in Nat /\ Placeholder(writer, b, 0)
    <3>1. writer = "root" => Rooted(b, 0) BY DEF Ready, Rooted, Begun
    <3>2. QED BY <3>1 DEF Placeholder, ByteString
  <2>3. NameHeld(writer, c, Len(b), name, Len(t)) BY <1>2, <2>1, <2>2, PutHeld
  <2>4. Len(b) \in Nat /\ c \in ByteString BY DEF ByteString, Buffers
  <2>5. QED BY <2>3, <2>4, ReadNameReads
<1>6. writer = "root" => Begun(t) BY <1>2, <1>4, PutBegun
<1>7. QED BY <1>4, <1>5, <1>6 DEF t

(* What is before a record's data, but for the placeholder.                *)
RecordHead(writer, b, r) ==
  PutName(writer, b, r.name) \o Put16(r.type) \o Put16(r.class) \o <<0, 0>> \o Put16(r.ttl)

(* The placeholder is a number.                                            *)
LEMMA ZeroWord == <<0, 0>> = Put16(0) /\ 0 \in Words
<1>1. (0 \div 256) % 256 = 0 /\ 0 % 256 = 0 OBVIOUS
<1>2. QED BY <1>1 DEF Put16, Words

(* The parts of a plain record.                                            *)
LEMMA RecordParts ==
  ASSUME NEW writer, NEW r \in RecordsBy(writer)
  PROVE  /\ r.name \in WrittenNames(writer) /\ r.type \in Words /\ r.class \in Words /\ r.ttl \in Words
         /\ r = [name |-> r.name, type |-> r.type, class |-> r.class, ttl |-> r.ttl, data |-> r.data]
<1>1. r \in RecordShapes(writer) BY DEF RecordsBy
<1>2. PlainTypes \subseteq Words BY DEF PlainTypes
<1>3. QED BY <1>1, <1>2 DEF RecordShapes

(* The name, type, class and time to live that have been appended are      *)
(* read.                                                                   *)
LEMMA HeadWritten ==
  ASSUME NEW writer \in Writers, NEW b \in ByteString, Ready(writer, b), NEW r \in RecordsBy(writer)
  PROVE  LET x == PutName(writer, b, r.name)
             t == RecordHead(writer, b, r)
         IN /\ t \in ByteString /\ x \in ByteString /\ Len(t) = Len(x) + 8 /\ Len(b) < Len(x) /\ Extends(t, b)
            /\ writer = "root" => Begun(t)
            /\ \A c \in Buffers : Extends(c, t) =>
                 /\ \A reader \in ReadersOf(writer) :
                       Reads(writer, reader, c, ReadName(reader, c, Len(b)), r.name, Len(x))
                 /\ Get16(c, Len(x)) = r.type /\ Get16(c, Len(x) + 2) = r.class /\ Get16(c, Len(x) + 6) = r.ttl
<1> DEFINE x == PutName(writer, b, r.name)
           x1 == x \o Put16(r.type)
           x2 == x1 \o Put16(r.class)
           x3 == x2 \o <<0, 0>>
           t == x3 \o Put16(r.ttl)
<1>1. r.name \in WrittenNames(writer) /\ r.type \in Words /\ r.class \in Words /\ r.ttl \in Words BY RecordParts
<1>2. /\ x \in ByteString /\ Extends(x, b) /\ Len(b) < Len(x)
      /\ writer = "root" => Begun(x)
      /\ \A c \in Buffers : Extends(c, x) =>
           \A reader \in ReadersOf(writer) :
              Reads(writer, reader, c, ReadName(reader, c, Len(b)), r.name, Len(x))
  BY <1>1, NameWritten
<1>3. RecordHead(writer, b, r) = t BY DEF RecordHead
<1> HIDE DEF x
<1>4. /\ x1 \in ByteString /\ Len(x1) = Len(x) + 2 /\ Extends(x1, x)
      /\ \A c \in ByteString : Extends(c, x1) => Extends(c, x) /\ Get16(c, Len(x)) = r.type
  BY <1>1, <1>2, WordAfter
<1> HIDE DEF x1
<1>5. /\ x2 \in ByteString /\ Len(x2) = Len(x1) + 2 /\ Extends(x2, x1)
      /\ \A c \in ByteString : Extends(c, x2) => Extends(c, x1) /\ Get16(c, Len(x1)) = r.class
  BY <1>1, <1>4, WordAfter
<1> HIDE DEF x2
<1>6. /\ x3 \in ByteString /\ Len(x3) = Len(x2) + 2 /\ Extends(x3, x2)
      /\ \A c \in ByteString : Extends(c, x3) => Extends(c, x2)
  <2> DEFINE y == x2 \o Put16(0)
  <2>1. /\ y \in ByteString /\ Len(y) = Len(x2) + 2 /\ Extends(y, x2)
        /\ \A c \in ByteString : Extends(c, y) => Extends(c, x2)
    BY <1>5, ZeroWord, WordAfter
  <2>2. y = x3 BY ZeroWord
  <2> HIDE DEF y, x3
  <2>3. QED BY <2>1, <2>2
<1> HIDE DEF x3
<1>7. /\ t \in ByteString /\ Len(t) = Len(x3) + 2 /\ Extends(t, x3)
      /\ \A c \in ByteString : Extends(c, t) => Extends(c, x3) /\ Get16(c, Len(x3)) = r.ttl
  BY <1>1, <1>6, WordAfter
<1> HIDE DEF t
<1>8. Len(x) \in Nat BY <1>2 DEF ByteString
<1>9. Len(x1) = Len(x) + 2 /\ Len(x3) = Len(x) + 6 /\ Len(t) = Len(x) + 8 BY <1>4, <1>5, <1>6, <1>7, <1>8
<1>10. ASSUME NEW c \in Buffers, Extends(c, t)
       PROVE  /\ \A reader \in ReadersOf(writer) :
                    Reads(writer, reader, c, ReadName(reader, c, Len(b)), r.name, Len(x))
              /\ Get16(c, Len(x)) = r.type /\ Get16(c, Len(x) + 2) = r.class /\ Get16(c, Len(x) + 6) = r.ttl
  <2>1. c \in ByteString BY DEF Buffers
  <2>2. Extends(c, x3) /\ Extends(c, x2) /\ Extends(c, x1) /\ Extends(c, x) BY <1>4, <1>5, <1>6, <1>7, <1>10, <2>1
  <2>3. Get16(c, Len(x)) = r.type /\ Get16(c, Len(x) + 2) = r.class /\ Get16(c, Len(x) + 6) = r.ttl
    BY <1>4, <1>5, <1>7, <1>9, <1>10, <2>1, <2>2
  <2>4. QED BY <1>2, <2>2, <2>3
<1>11. Extends(t, b)
  <2>1. Extends(x1, b) BY <1>2, <1>4, ExtendsTransitive
  <2>2. Extends(x2, b) BY <1>4, <1>5, <2>1, ExtendsTransitive
  <2>3. Extends(x3, b) BY <1>5, <1>6, <2>2, ExtendsTransitive
  <2>4. QED BY <1>6, <1>7, <2>3, ExtendsTransitive
<1>12. writer = "root" => Begun(t)
  <2>1. Extends(x2, x) BY <1>2, <1>4, <1>5, ExtendsTransitive
  <2>2. Extends(x3, x) BY <1>2, <1>5, <1>6, <2>1, ExtendsTransitive
  <2>3. Extends(t, x) BY <1>2, <1>6, <1>7, <2>2, ExtendsTransitive
  <2>4. QED BY <1>2, <1>7, <2>3, BegunStays
<1>13. QED BY <1>2, <1>3, <1>7, <1>9, <1>10, <1>11, <1>12 DEF x, t

(* A record is appended.                                                   *)
LEMMA RecordWritten ==
  ASSUME NEW writer \in Writers, NEW b \in ByteString, Ready(writer, b), NEW r \in RecordsBy(writer)
  PROVE  LET u == PutRecord(writer, b, r)
         IN u \in ByteString /\ Extends(u, b) /\ Len(b) < Len(u) /\ Ready(writer, u)
<1> DEFINE x == PutName(writer, b, r.name)
           head == RecordHead(writer, b, r)
           u == PutRecord(writer, b, r)
<1>1. /\ head \in ByteString /\ x \in ByteString /\ Len(head) = Len(x) + 8 /\ Len(b) < Len(x)
      /\ Extends(head, b) /\ (writer = "root" => Begun(head))
  BY HeadWritten
<1>2. u = PutAfterHead(writer, head, r) BY DEF PutRecord, RecordHead
<1> HIDE DEF head, u, x
<1>3. u \in ByteString /\ Extends(u, head) BY <1>1, <1>2, RecordBuffers
<1>4. Extends(u, b) BY <1>1, <1>3, ExtendsTransitive
<1>5. Len(head) <= Len(u) BY <1>3 DEF Extends
<1>6. Len(b) \in Nat /\ Len(x) \in Nat /\ Len(u) \in Nat BY <1>1, <1>3 DEF ByteString
<1>7. \A i, j, k, l \in Nat : j = l + 8 /\ i < l /\ j <= k => i < k OBVIOUS
<1>8. Len(b) < Len(u) BY <1>1, <1>5, <1>6, <1>7
<1>9. Ready(writer, u) BY <1>1, <1>3, BegunStays DEF Ready
<1>10. QED BY <1>3, <1>4, <1>8, <1>9 DEF u

(* Where a record that has been written is in c.                           *)
LEMMA RecordHeld ==
  ASSUME NEW c \in Buffers, NEW writer \in Writers, NEW b \in ByteString, Ready(writer, b),
         NEW r \in RecordsBy(writer), Extends(c, PutRecord(writer, b, r)), NEW reader \in ReadersOf(writer)
  PROVE  LET q == Len(PutName(writer, b, r.name))
             u == PutRecord(writer, b, r)
         IN /\ GotName(writer, r.name, ReadName(reader, c, Len(b)), q)
            /\ q \in Nat /\ q + 10 <= Len(u) /\ Len(u) <= Len(c) /\ Len(u) \in Nat /\ Len(c) \in Nat
            /\ Get16(c, q) = r.type /\ Get16(c, q + 2) = r.class /\ Get16(c, q + 6) = r.ttl
            /\ Get16(c, q + 8) = Len(u) - (q + 10)
            /\ DataReads(writer, reader, c, GetData(reader, c, q + 10, r.type, Len(u) - (q + 10)), r, Len(u))
<1> DEFINE x == PutName(writer, b, r.name)
           q == Len(x)
           head == RecordHead(writer, b, r)
           u == PutRecord(writer, b, r)
           h == head \o <<0, 0>>
           t == PutData(writer, h, r)
           got == GetData(reader, c, q + 10, r.type, Len(u) - (q + 10))
<1>0. c \in ByteString BY DEF Buffers
<1>1. /\ head \in ByteString /\ x \in ByteString /\ Len(head) = q + 8
      /\ writer = "root" => Begun(head)
      /\ \A d \in Buffers : Extends(d, head) =>
           /\ \A rd \in ReadersOf(writer) : Reads(writer, rd, d, ReadName(rd, d, Len(b)), r.name, q)
           /\ Get16(d, q) = r.type /\ Get16(d, q + 2) = r.class /\ Get16(d, q + 6) = r.ttl
  BY HeadWritten
<1>2. u = PutAfterHead(writer, head, r) BY DEF PutRecord, RecordHead
<1> HIDE DEF head, u, x
<1>3. q \in Nat BY <1>1 DEF ByteString
<1> DEFINE k == Len(head) + 2
<1>4. /\ u \in ByteString /\ Len(u) = Len(t) /\ Extends(u, head)
      /\ Len(h) = k /\ k <= Len(t)
      /\ Len(t) - k \in Words /\ Holds(u, Len(head), Put16(Len(t) - k))
  BY <1>1, <1>2, RecordBuffers
<1> HIDE DEF h, t, q
<1>5. k = q + 10 /\ Len(head) = q + 8 BY <1>1, <1>3
<1>6. Len(u) \in Nat /\ Len(c) \in Nat BY <1>0, <1>4 DEF ByteString
<1>7. Extends(c, u) /\ Len(u) <= Len(c) BY DEF u, Extends
<1>8. Extends(c, head) BY <1>0, <1>1, <1>4, <1>7, ExtendsTransitive
<1>9. /\ Reads(writer, reader, c, ReadName(reader, c, Len(b)), r.name, q)
      /\ Get16(c, q) = r.type /\ Get16(c, q + 2) = r.class /\ Get16(c, q + 6) = r.ttl
  BY <1>1, <1>8
<1>10. q + 10 <= Len(u) BY <1>4, <1>5
<1>11. GotName(writer, r.name, ReadName(reader, c, Len(b)), q)
  <2>1. q # Len(c) BY <1>3, <1>6, <1>7, <1>10
  <2>2. QED BY <1>9, <2>1 DEF Reads, CutAtLink, GotName
<1>12. Get16(c, q + 8) = Len(u) - (q + 10)
  <2> DEFINE size == Len(t) - k
  <2>1. size = Len(u) - (q + 10) BY <1>4, <1>5
  <2>2. q + 8 \in Nat BY <1>3
  <2>3. Holds(u, q + 8, Put16(size)) /\ size \in Words BY <1>4, <1>5
  <2> HIDE DEF size
  <2>4. Len(Put16(size)) \in Nat
    <3>1. size \in Nat BY <2>3 DEF Words
    <3>2. QED BY <3>1, LinkIsBytes
  <2>5. Holds(c, q + 8, Put16(size)) BY <1>0, <1>4, <1>7, <2>2, <2>3, <2>4, HoldsStays
  <2>6. QED BY <1>0, <2>1, <2>2, <2>3, <2>5, WordHeld
<1>13. DataReads(writer, reader, c, got, r, Len(u))
  <2> DEFINE size == Len(t) - Len(h)
             data == GetData(reader, c, Len(h), r.type, Len(t) - Len(h))
  <2>1. got = data BY <1>4, <1>5
  <2>2. CASE r.data # <<>>
    <3>1. Extends(c, PutAfterHead(writer, head, r)) BY <1>2, <1>7
    <3>2. DataReads(writer, reader, c, data, r, Len(t)) BY <1>1, <2>2, <3>1, GetDataReads DEF h, t
    <3> HIDE DEF got, data
    <3>3. QED BY <1>4, <2>1, <3>2
  <2>3. CASE r.data = <<>>
    <3>1. h \in ByteString BY <1>1, RecordBuffers DEF h
    <3>2. t = h BY <2>3, <3>1, DataWritten DEF t
    <3>3. Len(h) \in Nat BY <3>1 DEF ByteString
    <3>4. size = 0 BY <3>2, <3>3
    <3>5. GetData(reader, c, Len(h), r.type, 0) = Got(<<>>, Len(h)) BY DEF GetData
    <3>6. data = Got(<<>>, Len(h)) BY <3>4, <3>5
    <3> HIDE DEF got, data
    <3>7. got = Got(<<>>, Len(u)) BY <1>4, <2>1, <3>2, <3>6
    <3>8. ValuesRead(writer, r, Len(r.data), <<>>)
      <4>1. <<>> \in Seq(ReadValues) /\ Len(<<>>) = 0 BY EmptySeq
      <4>2. QED BY <2>3, <4>1 DEF ValuesRead
    <3>9. QED BY <3>7, <3>8 DEF DataReads
  <2>4. QED BY <2>2, <2>3
<1>14. QED BY <1>3, <1>6, <1>7, <1>9, <1>10, <1>11, <1>12, <1>13 DEF u, q, x

(* What may be read of a record.                                           *)
ReadRecords == [name : Seq(Parcels), type : Words, class : Words, ttl : Words, data : Seq(ReadValues)]

(* What is read of a record: the record, but for the ends of its names.    *)
RecordRead(writer, r, read) ==
  /\ NameRead(writer, r.name, read.name)
  /\ ValuesRead(writer, r, Len(r.data), read.data)
  /\ read = [name |-> read.name, type |-> r.type, class |-> r.class, ttl |-> r.ttl, data |-> read.data]

(* Both readers read a record that has been written, but for a link at the *)
(* very end.                                                               *)
LEMMA GetRecordReads ==
  ASSUME NEW c \in Buffers, NEW writer \in Writers, NEW b \in ByteString, Ready(writer, b),
         NEW r \in RecordsBy(writer), Extends(c, PutRecord(writer, b, r)), NEW reader \in ReadersOf(writer)
  PROVE  LET end == Len(PutRecord(writer, b, r))
             got == GetRecord(reader, c, Len(b))
         IN \/ \E read \in ReadRecords : RecordRead(writer, r, read) /\ got = Got(read, end)
            \/ reader = "proxy" /\ CutAtLink(c, got, end) /\ EndsInName(r)
<1> DEFINE q == Len(PutName(writer, b, r.name))
           end == Len(PutRecord(writer, b, r))
           got == GetRecord(reader, c, Len(b))
           size == end - (q + 10)
           data == GetData(reader, c, q + 10, r.type, size)
<1>0. /\ GotName(writer, r.name, ReadName(reader, c, Len(b)), q)
      /\ q \in Nat /\ q + 10 <= end /\ end <= Len(c) /\ end \in Nat /\ Len(c) \in Nat
      /\ Get16(c, q) = r.type /\ Get16(c, q + 2) = r.class /\ Get16(c, q + 6) = r.ttl
      /\ Get16(c, q + 8) = size
      /\ DataReads(writer, reader, c, data, r, end)
  BY RecordHeld
<1>10. PICK own : NameRead(writer, r.name, own) /\ ReadName(reader, c, Len(b)) = Got(own, q)
  BY <1>0 DEF GotName
<1> DEFINE name == Got(own, q)
<1>1. /\ ReadName(reader, c, Len(b)) = name
      /\ q \in Nat /\ q + 10 <= end /\ end <= Len(c) /\ end \in Nat /\ Len(c) \in Nat
      /\ Get16(c, q) = r.type /\ Get16(c, q + 2) = r.class /\ Get16(c, q + 6) = r.ttl
      /\ Get16(c, q + 8) = size
  BY <1>0, <1>10
<1>2. name.ok /\ name.val = own /\ name.pos = q BY DEF Got
<1> HIDE DEF end, q, name
<1>3. ~(q + 10 > Len(c)) BY <1>1
<1>4. got = RecordOf(c, name, data)
  <2>1. got = GetAfterName(reader, c, name) BY <1>1 DEF GetRecord
  <2> HIDE DEF got, size
  <2>2. QED BY <1>1, <1>2, <1>3, <2>1 DEF GetAfterName
<1> HIDE DEF got, data
<1>5. ASSUME NEW vals, ValuesRead(writer, r, Len(r.data), vals), data = Got(vals, end)
      PROVE  \E read \in ReadRecords : RecordRead(writer, r, read) /\ got = Got(read, end)
  <2> DEFINE read == [name |-> own, type |-> r.type, class |-> r.class, ttl |-> r.ttl, data |-> vals]
  <2>1. data.ok /\ data.pos = end /\ data.val = vals BY <1>5 DEF Got
  <2>2. q + 10 + size = end BY <1>1
  <2> HIDE DEF size
  <2>3. got = Got(read, end) BY <1>1, <1>2, <1>4, <2>1, <2>2 DEF RecordOf
  <2>4. own \in Seq(Parcels) /\ vals \in Seq(ReadValues) BY <1>5, <1>10 DEF NameRead, ValuesRead
  <2>5. read \in ReadRecords BY <2>4, RecordParts DEF ReadRecords
  <2>6. read.name = own /\ read.data = vals OBVIOUS
  <2>7. read = [name |-> own, type |-> r.type, class |-> r.class, ttl |-> r.ttl, data |-> vals] OBVIOUS
  <2> HIDE DEF read
  <2>8. RecordRead(writer, r, read) BY <1>5, <1>10, <2>6, <2>7 DEF RecordRead
  <2>9. QED BY <2>3, <2>5, <2>8
<1>6. ASSUME reader = "proxy", CutAtLink(c, data, end), EndsInName(r)
      PROVE  reader = "proxy" /\ CutAtLink(c, got, end) /\ EndsInName(r)
  <2>1. got = data BY <1>4, <1>6, ThrownFails DEF RecordOf, CutAtLink
  <2>2. QED BY <1>6, <2>1
<1>7. \/ \E read \in ReadRecords : RecordRead(writer, r, read) /\ got = Got(read, end)
      \/ reader = "proxy" /\ CutAtLink(c, got, end) /\ EndsInName(r)
  BY <1>0, <1>5, <1>6 DEF DataReads
<1>8. QED BY <1>7 DEF got, end

(* A question that has been appended is read.                              *)
LEMMA QuestionWritten ==
  ASSUME NEW writer \in Writers, NEW b \in ByteString, Ready(writer, b), NEW name \in WrittenNames(writer)
  PROVE  LET u == PutQuestion(writer, b, name)
         IN /\ u \in ByteString /\ Extends(u, b) /\ Len(b) < Len(u) /\ Ready(writer, u)
            /\ \A c \in Buffers : Extends(c, u) =>
                 \A reader \in ReadersOf(writer) : GotName(writer, name, GetQuestion(reader, c, Len(b)), Len(u))
<1> DEFINE x == PutName(writer, b, name)
           y == x \o Put16(Type.A)
           u == y \o Put16(1)
           q == Len(x)
<1>1. Type.A \in Words /\ 1 \in Words BY DEF Type, Words
<1>2. /\ x \in ByteString /\ Extends(x, b) /\ Len(b) < q
      /\ writer = "root" => Begun(x)
      /\ \A c \in Buffers : Extends(c, x) =>
           \A reader \in ReadersOf(writer) : Reads(writer, reader, c, ReadName(reader, c, Len(b)), name, q)
  BY NameWritten
<1>3. PutQuestion(writer, b, name) = u BY DEF PutQuestion
<1> HIDE DEF x
<1>4. /\ y \in ByteString /\ Len(y) = q + 2 /\ Extends(y, x)
      /\ \A c \in ByteString : Extends(c, y) => Extends(c, x)
  BY <1>1, <1>2, WordAfter
<1> HIDE DEF y
<1>5. /\ u \in ByteString /\ Len(u) = Len(y) + 2 /\ Extends(u, y)
      /\ \A c \in ByteString : Extends(c, u) => Extends(c, y)
  BY <1>1, <1>4, WordAfter
<1> HIDE DEF u
<1>6. q \in Nat /\ Len(b) \in Nat BY <1>2 DEF ByteString
<1> HIDE DEF q
<1>7. Len(u) = q + 4 /\ Len(b) < Len(u) BY <1>2, <1>4, <1>5, <1>6
<1>8. Extends(u, b)
  <2>1. Extends(y, b) BY <1>2, <1>4, ExtendsTransitive
  <2>2. QED BY <1>4, <1>5, <2>1, ExtendsTransitive
<1>9. ASSUME NEW c \in Buffers, Extends(c, u), NEW reader \in ReadersOf(writer)
      PROVE  GotName(writer, name, GetQuestion(reader, c, Len(b)), Len(u))
  <2>1. c \in ByteString BY DEF Buffers
  <2>2. Extends(c, x) BY <1>4, <1>5, <1>9, <2>1
  <2>3. Reads(writer, reader, c, ReadName(reader, c, Len(b)), name, q) BY <1>2, <2>2
  <2>4. Len(c) \in Nat /\ Len(u) <= Len(c) BY <1>9, <2>1 DEF Extends, ByteString
  <2>5. q # Len(c) /\ ~(q + 4 > Len(c)) BY <1>6, <1>7, <2>4
  <2>6. PICK read : NameRead(writer, name, read) /\ ReadName(reader, c, Len(b)) = Got(read, q)
    BY <2>3, <2>5 DEF Reads, CutAtLink
  <2> DEFINE got == Got(read, q)
  <2>7. got.ok /\ got.val = read /\ got.pos = q BY DEF Got
  <2>10. ReadName(reader, c, Len(b)) = got BY <2>6
  <2> HIDE DEF got
  <2>8. QuestionOf(c, got) = Got(read, q + 4) BY <2>5, <2>7 DEF QuestionOf
  <2>9. GetQuestion(reader, c, Len(b)) = Got(read, Len(u)) BY <1>7, <2>8, <2>10 DEF GetQuestion
  <2>11. QED BY <2>6, <2>9 DEF GotName
<1>10. Ready(writer, u)
  <2>1. Extends(u, x) BY <1>2, <1>4, <1>5, ExtendsTransitive
  <2>2. QED BY <1>2, <1>5, <2>1, BegunStays DEF Ready
<1>11. QED BY <1>3, <1>5, <1>7, <1>8, <1>9, <1>10

(* Questions or records that a writer may be given.                        *)
Items(what, writer) == IF what = "questions" THEN WrittenNames(writer) ELSE RecordsBy(writer)

(* What may be read of them.                                               *)
ReadItems(what) == IF what = "questions" THEN Seq(Parcels) ELSE ReadRecords

(* What is read of one.                                                    *)
ItemRead(what, writer, item, read) ==
  /\ read \in ReadItems(what)
  /\ IF what = "questions" THEN NameRead(writer, item, read) ELSE RecordRead(writer, item, read)

(* A question or a record is written.                                      *)
PutItem(what, writer, b, item) ==
  IF what = "questions" THEN PutQuestion(writer, b, item) ELSE PutRecord(writer, b, item)

(* A question or a record is read.                                         *)
GetItem(what, reader, c, p) ==
  IF what = "questions" THEN GetQuestion(reader, c, p) ELSE GetRecord(reader, c, p)

(* The proxy reads no record whose last two bytes, the last of all, are a  *)
(* link.                                                                   *)
CutAtItem(what, reader, c, got, item, end) ==
  reader = "proxy" /\ what # "questions" /\ CutAtLink(c, got, end) /\ EndsInName(item)

(* The item is read, or the proxy is at such a record.                     *)
ItemReads(what, writer, reader, c, got, item, end) ==
  \/ \E read : ItemRead(what, writer, item, read) /\ got = Got(read, end)
  \/ CutAtItem(what, reader, c, got, item, end)

(* A question or record that has been appended is read.                    *)
LEMMA ItemWritten ==
  ASSUME NEW what, NEW writer \in Writers, NEW b \in ByteString, Ready(writer, b), NEW item \in Items(what, writer)
  PROVE  LET u == PutItem(what, writer, b, item)
         IN /\ u \in ByteString /\ Extends(u, b) /\ Len(b) < Len(u) /\ Ready(writer, u)
            /\ \A c \in Buffers : Extends(c, u) =>
                 \A reader \in ReadersOf(writer) :
                    ItemReads(what, writer, reader, c, GetItem(what, reader, c, Len(b)), item, Len(u))
<1>1. CASE what = "questions"
  <2> DEFINE u == PutQuestion(writer, b, item)
  <2>1. item \in WrittenNames(writer) /\ PutItem(what, writer, b, item) = u BY <1>1 DEF Items, PutItem
  <2>2. /\ u \in ByteString /\ Extends(u, b) /\ Len(b) < Len(u) /\ Ready(writer, u)
        /\ \A c \in Buffers : Extends(c, u) =>
             \A reader \in ReadersOf(writer) : GotName(writer, item, GetQuestion(reader, c, Len(b)), Len(u))
    BY <2>1, QuestionWritten
  <2>3. \A reader, c, p : GetItem(what, reader, c, p) = GetQuestion(reader, c, p) BY <1>1 DEF GetItem
  <2> HIDE DEF u
  <2>4. ASSUME NEW c \in Buffers, Extends(c, u), NEW reader \in ReadersOf(writer)
        PROVE  ItemReads(what, writer, reader, c, GetItem(what, reader, c, Len(b)), item, Len(u))
    <3>1. PICK read : NameRead(writer, item, read) /\ GetQuestion(reader, c, Len(b)) = Got(read, Len(u))
      BY <2>2, <2>4 DEF GotName
    <3>2. ItemRead(what, writer, item, read) BY <1>1, <3>1 DEF ItemRead, ReadItems, NameRead
    <3>3. QED BY <2>3, <3>1, <3>2 DEF ItemReads
  <2>5. QED BY <2>1, <2>2, <2>4
<1>2. CASE what # "questions"
  <2> DEFINE u == PutRecord(writer, b, item)
  <2>1. item \in RecordsBy(writer) /\ PutItem(what, writer, b, item) = u BY <1>2 DEF Items, PutItem
  <2>2. u \in ByteString /\ Extends(u, b) /\ Len(b) < Len(u) /\ Ready(writer, u) BY <2>1, RecordWritten
  <2>3. \A reader, c, p : GetItem(what, reader, c, p) = GetRecord(reader, c, p) BY <1>2 DEF GetItem
  <2>4. ASSUME NEW c \in Buffers, Extends(c, u), NEW reader \in ReadersOf(writer)
        PROVE  ItemReads(what, writer, reader, c, GetItem(what, reader, c, Len(b)), item, Len(u))
    <3> DEFINE got == GetRecord(reader, c, Len(b))
    <3>1. \/ \E read \in ReadRecords : RecordRead(writer, item, read) /\ got = Got(read, Len(u))
          \/ reader = "proxy" /\ CutAtLink(c, got, Len(u)) /\ EndsInName(item)
      BY <2>1, <2>4, GetRecordReads
    <3>2. GetItem(what, reader, c, Len(b)) = got BY <2>3
    <3> HIDE DEF got, u
    <3>3. QED BY <1>2, <3>1, <3>2 DEF ItemReads, CutAtItem, ItemRead, ReadItems
  <2> HIDE DEF u
  <2>5. QED BY <2>1, <2>2, <2>4
<1>3. QED BY <1>1, <1>2

(* What has been written after k questions or records.                     *)
SectionStage(what, writer, b, items, k) ==
  PutItemLoop!Iterate([what |-> what, writer |-> writer, items |-> items], [done |-> 0, bytes |-> b])[k].bytes

(* The loop over them, one at a time.                                      *)
LEMMA SectionSteps ==
  \A what, writer, b, items :
     /\ SectionStage(what, writer, b, items, 0) = b
     /\ PutSection(what, writer, b, items) = SectionStage(what, writer, b, items, Len(items))
     /\ \A k \in Nat : SectionStage(what, writer, b, items, k + 1) =
                         PutItem(what, writer, SectionStage(what, writer, b, items, k), items[k + 1])
<1> SUFFICES ASSUME NEW what, NEW writer, NEW b, NEW items
             PROVE  /\ SectionStage(what, writer, b, items, 0) = b
                    /\ PutSection(what, writer, b, items) = SectionStage(what, writer, b, items, Len(items))
                    /\ \A k \in Nat : SectionStage(what, writer, b, items, k + 1) =
                                        PutItem(what, writer, SectionStage(what, writer, b, items, k), items[k + 1])
  OBVIOUS
<1> DEFINE from == [what |-> what, writer |-> writer, items |-> items]
           first == [done |-> 0, bytes |-> b]
           it == PutItemLoop!Iterate(from, first)
           Good == {n \in Nat : it[n].done = n}
<1>1. from.what = what /\ from.writer = writer /\ from.items = items /\ first.done = 0 /\ first.bytes = b OBVIOUS
<1>2. \A k : SectionStage(what, writer, b, items, k) = it[k].bytes BY DEF SectionStage
<1>3. PutSection(what, writer, b, items) = it[Len(items)].bytes BY DEF PutSection
<1> HIDE DEF from, first
<1>4. it[0] = first /\ \A n \in Nat : it[n + 1] = PutNextItem(from, it[n]) BY PutItemLoop!IterateSteps
<1> HIDE DEF it
<1>5. \A so : /\ PutNextItem(from, so).done = so.done + 1
              /\ PutNextItem(from, so).bytes = PutItem(what, writer, so.bytes, items[so.done + 1])
  BY <1>1 DEF PutNextItem, PutItem
<1>6. 0 \in Good BY <1>1, <1>4
<1>7. ASSUME NEW n \in Nat, n \in Good PROVE n + 1 \in Good BY <1>4, <1>5, <1>7
<1>8. \A n \in Nat : n \in Good
  <2> HIDE DEF Good
  <2>1. QED BY <1>6, <1>7, LabelLoop!Induction
<1>9. SectionStage(what, writer, b, items, 0) = b BY <1>1, <1>2, <1>4
<1>10. ASSUME NEW k \in Nat
       PROVE  SectionStage(what, writer, b, items, k + 1) =
                PutItem(what, writer, SectionStage(what, writer, b, items, k), items[k + 1])
  <2>1. it[k].done = k BY <1>8
  <2>2. it[k + 1].bytes = PutItem(what, writer, it[k].bytes, items[k + 1]) BY <1>4, <1>5, <2>1
  <2>3. QED BY <1>2, <2>2
<1>11. QED BY <1>2, <1>3, <1>9, <1>10

(* Each one is appended to what has been written before.                   *)
LEMMA SectionGrows ==
  ASSUME NEW what, NEW writer \in Writers, NEW items \in Seq(Items(what, writer)), NEW b \in ByteString,
         Ready(writer, b)
  PROVE  LET B(k) == SectionStage(what, writer, b, items, k)
             n == Len(items)
         IN /\ n \in Nat
            /\ \A k \in 0 .. n : /\ B(k) \in ByteString /\ Extends(B(k), b) /\ Len(b) <= Len(B(k))
                                 /\ Ready(writer, B(k))
            /\ \A k \in 0 .. n - 1 : /\ items[k + 1] \in Items(what, writer)
                                     /\ B(k + 1) = PutItem(what, writer, B(k), items[k + 1])
                                     /\ Extends(B(k + 1), B(k)) /\ Len(B(k)) < Len(B(k + 1))
<1> DEFINE B(k) == SectionStage(what, writer, b, items, k)
           n == Len(items)
           Good == {k \in Nat : k <= n => B(k) \in ByteString /\ Extends(B(k), b) /\ Ready(writer, B(k))}
<1>1. n \in Nat /\ \A i \in 1 .. n : items[i] \in Items(what, writer) BY ElementOfSeq
<1>2. B(0) = b /\ \A k \in Nat : B(k + 1) = PutItem(what, writer, B(k), items[k + 1]) BY SectionSteps
<1> HIDE DEF B, n
<1>3. ASSUME NEW k \in Nat, k + 1 <= n, B(k) \in ByteString, Ready(writer, B(k))
      PROVE  /\ items[k + 1] \in Items(what, writer)
             /\ B(k + 1) \in ByteString /\ Extends(B(k + 1), B(k)) /\ Len(B(k)) < Len(B(k + 1))
             /\ Ready(writer, B(k + 1))
  <2>1. k + 1 \in 1 .. n BY <1>1, <1>3
  <2>2. items[k + 1] \in Items(what, writer) BY <1>1, <2>1
  <2>3. B(k + 1) = PutItem(what, writer, B(k), items[k + 1]) BY <1>2
  <2>4. QED BY <1>3, <2>2, <2>3, ItemWritten
<1>4. 0 \in Good BY <1>2, ExtendsItself
<1>5. ASSUME NEW k \in Nat, k \in Good PROVE k + 1 \in Good
  <2> SUFFICES ASSUME k + 1 <= n PROVE B(k + 1) \in ByteString /\ Extends(B(k + 1), b) /\ Ready(writer, B(k + 1))
    OBVIOUS
  <2>1. k <= n BY <1>1
  <2>2. B(k) \in ByteString /\ Extends(B(k), b) /\ Ready(writer, B(k)) BY <1>5, <2>1
  <2>3. B(k + 1) \in ByteString /\ Extends(B(k + 1), B(k)) /\ Ready(writer, B(k + 1)) BY <1>3, <2>2
  <2>4. QED BY <2>2, <2>3, ExtendsTransitive
<1>6. \A k \in Nat : k \in Good
  <2> HIDE DEF Good
  <2>1. QED BY <1>4, <1>5, LabelLoop!Induction
<1>7. \A k \in 0 .. n : B(k) \in ByteString /\ Extends(B(k), b) /\ Len(b) <= Len(B(k)) /\ Ready(writer, B(k))
  <2>1. \A k \in 0 .. n : k \in Nat /\ k <= n BY <1>1
  <2>2. QED BY <1>6, <2>1 DEF Extends
<1>8. \A k \in 0 .. n - 1 : /\ items[k + 1] \in Items(what, writer)
                            /\ B(k + 1) = PutItem(what, writer, B(k), items[k + 1])
                            /\ Extends(B(k + 1), B(k)) /\ Len(B(k)) < Len(B(k + 1))
  <2>1. \A k \in 0 .. n - 1 : k \in Nat /\ k + 1 <= n /\ k \in 0 .. n BY <1>1
  <2>2. QED BY <1>2, <1>3, <1>7, <2>1
<1>9. QED BY <1>1, <1>7, <1>8 DEF B, n

(* What has been written after some of them is kept.                       *)
LEMMA SectionExtends ==
  ASSUME NEW what, NEW writer \in Writers, NEW items \in Seq(Items(what, writer)), NEW b \in ByteString,
         Ready(writer, b)
  PROVE  LET t == PutSection(what, writer, b, items)
             n == Len(items)
         IN /\ t \in ByteString /\ Extends(t, b) /\ Ready(writer, t)
            /\ items = <<>> => t = b
            /\ items # <<>> => Len(b) < Len(t)
            /\ \A j \in 0 .. n : Extends(t, SectionStage(what, writer, b, items, j))
<1> DEFINE n == Len(items)
           B(k) == SectionStage(what, writer, b, items, k)
           t == PutSection(what, writer, b, items)
           Good == {k \in Nat : k <= n => \A j \in 0 .. k : Extends(B(k), B(j))}
<1>1. /\ n \in Nat
      /\ \A k \in 0 .. n : B(k) \in ByteString /\ Extends(B(k), b) /\ Len(b) <= Len(B(k)) /\ Ready(writer, B(k))
      /\ \A k \in 0 .. n - 1 : Extends(B(k + 1), B(k)) /\ Len(B(k)) < Len(B(k + 1))
  BY SectionGrows
<1>2. t = B(n) /\ B(0) = b BY SectionSteps
<1>3. items = <<>> <=> n = 0 BY EmptySeq
<1> HIDE DEF B, n, t
<1>4. 0 \in Good
  <2>1. 0 .. 0 = {0} /\ 0 \in 0 .. n BY <1>1
  <2>2. Extends(B(0), B(0)) BY <1>1, <2>1, ExtendsItself
  <2>3. QED BY <2>1, <2>2
<1>5. ASSUME NEW k \in Nat, k \in Good PROVE k + 1 \in Good
  <2> SUFFICES ASSUME k + 1 <= n, NEW j \in 0 .. k + 1 PROVE Extends(B(k + 1), B(j))
    OBVIOUS
  <2>1. k \in 0 .. n - 1 /\ k \in 0 .. n /\ k + 1 \in 0 .. n /\ j \in 0 .. n /\ k <= n BY <1>1
  <2>2. CASE j = k + 1 BY <1>1, <2>1, <2>2, ExtendsItself
  <2>3. CASE j # k + 1
    <3>1. j \in 0 .. k BY <2>3
    <3>2. Extends(B(k), B(j)) BY <1>5, <2>1, <3>1
    <3>3. Extends(B(k + 1), B(k)) BY <1>1, <2>1
    <3>4. B(j) \in ByteString /\ B(k) \in ByteString /\ B(k + 1) \in ByteString BY <1>1, <2>1
    <3>5. QED BY <3>2, <3>3, <3>4, ExtendsTransitive
  <2>4. QED BY <2>2, <2>3
<1>6. \A k \in Nat : k \in Good
  <2> HIDE DEF Good
  <2>1. QED BY <1>4, <1>5, LabelLoop!Induction
<1>7. \A j \in 0 .. n : Extends(t, B(j)) BY <1>1, <1>2, <1>6
<1>8. t \in ByteString /\ Extends(t, b) /\ Ready(writer, t)
  <2>1. n \in 0 .. n BY <1>1
  <2>2. QED BY <1>1, <1>2, <2>1
<1>9. ASSUME n # 0 PROVE Len(b) < Len(t)
  <2>1. 0 \in 0 .. n - 1 /\ 0 + 1 = 1 /\ 1 \in 0 .. n /\ 0 \in 0 .. n BY <1>1, <1>9
  <2>2. Len(B(0)) < Len(B(1)) BY <1>1, <2>1
  <2>3. Len(B(1)) <= Len(t) BY <1>7, <2>1 DEF Extends
  <2>4. Len(B(0)) \in Nat /\ Len(B(1)) \in Nat /\ Len(t) \in Nat BY <1>1, <1>8, <2>1 DEF ByteString
  <2>5. QED BY <1>2, <2>2, <2>3, <2>4
<1>10. n = 0 => t = b BY <1>2
<1>11. QED BY <1>3, <1>7, <1>8, <1>9, <1>10 DEF B, n, t

(* Where a section is read.                                                *)
SectionFrom(what, reader, c) == [what |-> what, reader |-> reader, b |-> c]

(* What is known after k questions or records.                             *)
SectionRead(what, reader, c, p, k) == ItemLoop!Iterate(SectionFrom(what, reader, c), Got(<<>>, p))[k]

(* Reading them, one at a time.                                            *)
LEMMA SectionRounds ==
  \A what, reader, c, p :
     /\ SectionRead(what, reader, c, p, 0) = Got(<<>>, p)
     /\ \A n : GetSection(what, reader, c, p, n) = SectionRead(what, reader, c, p, n)
     /\ \A k \in Nat : SectionRead(what, reader, c, p, k + 1) =
                         NextItem(SectionFrom(what, reader, c), SectionRead(what, reader, c, p, k))
<1> SUFFICES ASSUME NEW what, NEW reader, NEW c, NEW p
             PROVE  /\ SectionRead(what, reader, c, p, 0) = Got(<<>>, p)
                    /\ \A n : GetSection(what, reader, c, p, n) = SectionRead(what, reader, c, p, n)
                    /\ \A k \in Nat : SectionRead(what, reader, c, p, k + 1) =
                                        NextItem(SectionFrom(what, reader, c), SectionRead(what, reader, c, p, k))
  OBVIOUS
<1> DEFINE from == SectionFrom(what, reader, c)
           first == Got(<<>>, p)
           it == ItemLoop!Iterate(from, first)
<1>1. \A n : GetSection(what, reader, c, p, n) = it[n] BY DEF GetSection, SectionFrom
<1>2. \A k : SectionRead(what, reader, c, p, k) = it[k] BY DEF SectionRead
<1> HIDE DEF from, first
<1>3. it[0] = first /\ \A n \in Nat : it[n + 1] = NextItem(from, it[n]) BY ItemLoop!IterateSteps
<1> HIDE DEF it
<1>4. QED BY <1>1, <1>2, <1>3 DEF first, from

(* One more is read behind the others.                                     *)
LEMMA NextItemGot ==
  \A what, reader, c, val, pos :
     NextItem(SectionFrom(what, reader, c), Got(val, pos)) = Another(Got(val, pos), GetItem(what, reader, c, pos))
BY DEF NextItem, SectionFrom, Got, GetItem

(* What is read of the first k of them.                                    *)
ItemsRead(what, writer, items, k, vals) ==
  /\ vals \in Seq(ReadItems(what)) /\ Len(vals) = k
  /\ \A i \in 1 .. k : ItemRead(what, writer, items[i], vals[i])

(* One more is read behind the others.                                     *)
LEMMA ItemsNext ==
  ASSUME NEW what, NEW writer, NEW items, NEW k \in Nat, NEW vals, ItemsRead(what, writer, items, k, vals), NEW val,
         ItemRead(what, writer, items[k + 1], val)
  PROVE  ItemsRead(what, writer, items, k + 1, Append(vals, val))
<1>1. vals \in Seq(ReadItems(what)) /\ Len(vals) = k BY DEF ItemsRead
<1>5. val \in ReadItems(what) BY DEF ItemRead
<1>2. /\ Append(vals, val) \in Seq(ReadItems(what)) /\ Len(Append(vals, val)) = k + 1
      /\ \A i \in 1 .. k : Append(vals, val)[i] = vals[i]
      /\ Append(vals, val)[k + 1] = val
  BY <1>1, <1>5, AppendProperties
<1>3. ASSUME NEW i \in 1 .. k + 1
      PROVE  ItemRead(what, writer, items[i], Append(vals, val)[i])
  <2>1. CASE i = k + 1 BY <1>2, <2>1
  <2>2. CASE i # k + 1
    <3>1. i \in 1 .. k BY <2>2
    <3>2. QED BY <1>2, <3>1 DEF ItemsRead
  <2>3. QED BY <2>1, <2>2
<1>4. QED BY <1>2, <1>3 DEF ItemsRead

(* A section is read, or the proxy is at such a record, the last of it.    *)
SectionReads(what, writer, reader, c, got, items, end) ==
  \/ \E vals : ItemsRead(what, writer, items, Len(items), vals) /\ got = Got(vals, end)
  \/ items # <<>> /\ CutAtItem(what, reader, c, got, Last(items), end)

(* Both readers read a section that has been written.                      *)
LEMMA GetSectionReads ==
  ASSUME NEW what, NEW writer \in Writers, NEW items \in Seq(Items(what, writer)), NEW b \in ByteString,
         Ready(writer, b), NEW c \in Buffers, Extends(c, PutSection(what, writer, b, items)),
         NEW reader \in ReadersOf(writer)
  PROVE  SectionReads(what, writer, reader, c, GetSection(what, reader, c, Len(b), Len(items)), items,
                      Len(PutSection(what, writer, b, items)))
<1> DEFINE n == Len(items)
           B(k) == SectionStage(what, writer, b, items, k)
           E(k) == Len(B(k))
           t == PutSection(what, writer, b, items)
           p == Len(b)
           from == SectionFrom(what, reader, c)
           F(k) == SectionRead(what, reader, c, p, k)
           got == GetSection(what, reader, c, p, n)
<1>0. c \in ByteString BY DEF Buffers
<1>1. /\ n \in Nat
      /\ \A k \in 0 .. n : B(k) \in ByteString /\ Ready(writer, B(k))
      /\ \A k \in 0 .. n - 1 : /\ items[k + 1] \in Items(what, writer)
                               /\ B(k + 1) = PutItem(what, writer, B(k), items[k + 1])
                               /\ E(k) < E(k + 1)
  BY SectionGrows
<1>2. t \in ByteString /\ \A j \in 0 .. n : Extends(t, B(j)) BY SectionExtends
<1>3. t = B(n) /\ B(0) = b BY SectionSteps
<1>4. /\ F(0) = Got(<<>>, p)
      /\ got = F(n)
      /\ \A k \in Nat : F(k + 1) = NextItem(from, F(k))
  BY SectionRounds
<1>5. \A val, pos : NextItem(from, Got(val, pos)) = Another(Got(val, pos), GetItem(what, reader, c, pos))
  BY NextItemGot
<1>6. \A k \in 0 .. n : E(k) \in Nat BY <1>1 DEF ByteString
<1>7. Extends(c, t) OBVIOUS
<1>8. E(0) = p /\ E(n) = Len(t) BY <1>3
<1> HIDE DEF B, t
<1>9. \A k \in 0 .. n : Extends(c, B(k)) BY <1>0, <1>1, <1>2, <1>7, ExtendsTransitive
<1>10. \A k \in 0 .. n : E(k) <= Len(c) BY <1>9 DEF Extends
<1>11. \A k \in 0 .. n - 1 :
          ItemReads(what, writer, reader, c, GetItem(what, reader, c, E(k)), items[k + 1], E(k + 1))
  <2> SUFFICES ASSUME NEW k \in 0 .. n - 1
               PROVE  ItemReads(what, writer, reader, c, GetItem(what, reader, c, E(k)), items[k + 1], E(k + 1))
    OBVIOUS
  <2>1. k \in 0 .. n /\ k + 1 \in 0 .. n BY <1>1
  <2>2. Extends(c, PutItem(what, writer, B(k), items[k + 1])) BY <1>1, <1>9, <2>1
  <2>3. ItemReads(what, writer, reader, c, GetItem(what, reader, c, Len(B(k))), items[k + 1],
                  Len(PutItem(what, writer, B(k), items[k + 1])))
    BY <1>1, <2>1, <2>2, ItemWritten
  <2>4. QED BY <1>1, <2>3
<1> DEFINE Whole(k) == \E vals : ItemsRead(what, writer, items, k, vals) /\ F(k) = Got(vals, E(k))
           Read(k) == Whole(k) \/ (k > 0 /\ CutAtItem(what, reader, c, F(k), items[k], E(k)))
           Good == {k \in Nat : k <= n => Read(k)}
<1> HIDE DEF n, E, F, p, got, from
<1>12. 0 \in Good
  <2>1. F(0) = Got(<<>>, E(0)) BY <1>4, <1>8
  <2>2. ItemsRead(what, writer, items, 0, <<>>)
    <3>1. <<>> \in Seq(ReadItems(what)) /\ Len(<<>>) = 0 BY EmptySeq
    <3>2. QED BY <3>1 DEF ItemsRead
  <2>3. QED BY <2>1, <2>2
<1>13. ASSUME NEW k \in Nat, k \in Good PROVE k + 1 \in Good
  <2> SUFFICES ASSUME k + 1 <= n PROVE Read(k + 1)
    OBVIOUS
  <2> DEFINE item == GetItem(what, reader, c, E(k))
             next == items[k + 1]
  <2>1. k \in 0 .. n - 1 /\ k \in 0 .. n /\ k + 1 \in 0 .. n /\ k <= n BY <1>1
  <2>2. Read(k) BY <1>13, <2>1
  <2>3. CASE Whole(k)
    <3>1. PICK done : ItemsRead(what, writer, items, k, done) /\ F(k) = Got(done, E(k)) BY <2>3
    <3>2. F(k + 1) = Another(Got(done, E(k)), item) BY <1>4, <1>5, <3>1
    <3>3. ItemReads(what, writer, reader, c, item, next, E(k + 1)) BY <1>11, <2>1
    <3>4. ASSUME NEW read, ItemRead(what, writer, next, read), item = Got(read, E(k + 1)) PROVE Whole(k + 1)
      <4>1. ItemsRead(what, writer, items, k + 1, Append(done, read)) BY <3>1, <3>4, ItemsNext
      <4> HIDE DEF item, next
      <4>2. F(k + 1) = Got(Append(done, read), E(k + 1)) BY <3>2, <3>4, GotAnother
      <4>3. QED BY <4>1, <4>2
    <3>5. ASSUME CutAtItem(what, reader, c, item, next, E(k + 1)) PROVE Read(k + 1)
      <4>2. F(k + 1) = Thrown /\ item = Thrown
        <5> HIDE DEF item, next
        <5>1. QED BY <3>2, <3>5, ThrownStays DEF CutAtItem, CutAtLink
      <4>3. CutAtItem(what, reader, c, F(k + 1), next, E(k + 1)) BY <3>5, <4>2
      <4>4. k + 1 > 0 OBVIOUS
      <4>5. QED BY <4>3, <4>4
    <3> HIDE DEF item, next, Whole
    <3>6. QED BY <3>3, <3>4, <3>5 DEF ItemReads
  <2>4. CASE ~Whole(k)
    <3>1. E(k) = Len(c) BY <2>2, <2>4 DEF CutAtItem, CutAtLink
    <3>2. E(k) < E(k + 1) /\ E(k + 1) <= Len(c) BY <1>1, <1>10, <2>1
    <3>3. E(k) \in Nat /\ E(k + 1) \in Nat BY <1>6, <2>1
    <3>4. FALSE BY <3>1, <3>2, <3>3
    <3>5. QED BY <3>4
  <2>5. QED BY <2>3, <2>4
<1>14. \A k \in Nat : k \in Good
  <2> HIDE DEF Good
  <2>1. QED BY <1>12, <1>13, LabelLoop!Induction
<1>15. Read(n)
  <2>1. n \in Good /\ n <= n BY <1>1, <1>14
  <2>2. QED BY <2>1
<1>16. SectionReads(what, writer, reader, c, got, items, Len(t))
  <2>1. n > 0 => items # <<>> /\ Last(items) = items[n] BY EmptySeq DEF n, Last
  <2>2. n = Len(items) BY DEF n
  <2>3. CASE Whole(n) BY <1>4, <1>8, <2>2, <2>3 DEF SectionReads
  <2>4. CASE ~Whole(n) BY <1>4, <1>8, <1>15, <2>1, <2>4 DEF SectionReads
  <2>5. QED BY <2>3, <2>4
<1>17. QED BY <1>16 DEF got, t, p, n

-----------------------------------------------------------------------------
(* The header, and whole messages.                                         *)

(* The shape of a message that a writer may be given.                      *)
MessageShapes(writer) ==
  [id : Words, qr : 0 .. 1, mid : 0 .. 255, z : 0 .. 7, rcode : 0 .. 15,
   questions : Seq(WrittenNames(writer)), records : [1 .. 3 -> Seq(RecordsBy(writer))]]

(* The messages that it may be given, and those of plain names and records.*)
MessagesBy(writer) ==
  {m \in MessageShapes(writer) :
     Len(m.questions) \in Words /\ \A i \in 1 .. 3 : Len(m.records[i]) \in Words}
PlainMessages == MessagesBy("full")

(* The second word of the header.                                          *)
HeaderBits(qr, mid, z, rcode) == 32768 * qr + 128 * mid + 16 * z + rcode

(* The word of two bytes.                                                  *)
TwoByteWord(x, y) == 256 * x + y

(* The six words of the header.                                            *)
Header(id, bits, n0, n1, n2, n3) ==
  Put16(id) \o Put16(bits) \o Put16(n0) \o Put16(n1) \o Put16(n2) \o Put16(n3)

(* The low byte of a word.                                                 *)
LEMMA LowByte ==
  ASSUME NEW i \in Nat, NEW s \in 0 .. 255
  PROVE  (256 * i + s) % 256 = s
OBVIOUS

(* The parts of the second word, within their bits.                        *)
HeaderValues(qr, mid, z, rcode) == qr \in 0 .. 1 /\ mid \in 0 .. 255 /\ z \in 0 .. 7 /\ rcode \in 0 .. 15

(* Two bytes.                                                              *)
AreBytes(x, y) == x \in 0 .. 255 /\ y \in 0 .. 255

(* The parts are read back from the two bytes.                             *)
BitsRead(x, y, qr, mid, z, rcode) ==
  /\ x \div 128 = qr
  /\ (TwoByteWord(x, y) \div 128) % 256 = mid
  /\ (y \div 16) % 8 = z
  /\ y % 16 = rcode

(* The parts of the second word do not run into one another.               *)
LEMMA BitsOfBytes ==
  ASSUME NEW qr \in 0 .. 1, NEW mid \in 0 .. 255, NEW z \in 0 .. 7, NEW rcode \in 0 .. 15,
         NEW x \in 0 .. 255, NEW y \in 0 .. 255, TwoByteWord(x, y) = HeaderBits(qr, mid, z, rcode)
  PROVE  BitsRead(x, y, qr, mid, z, rcode)
<1>0. 256 * x + y = 32768 * qr + 128 * mid + 16 * z + rcode BY DEF TwoByteWord, HeaderBits
<1>1. x \div 128 = qr BY <1>0
<1>2. ((256 * x + y) \div 128) % 256 = mid BY <1>0
<1> DEFINE e == mid \div 2
           f == mid % 2
           k == 8 * f + z
<1>3. e \in Nat /\ f \in 0 .. 1 /\ mid = 2 * e + f OBVIOUS
<1>4. y = 16 * k + rcode
  <2> HIDE DEF e, f
  <2>1. 128 * f + 16 * z + rcode \in 0 .. 255 BY <1>3
  <2>2. 256 * x + y = 256 * (128 * qr + e) + (128 * f + 16 * z + rcode) BY <1>0, <1>3
  <2>4. 128 * qr + e \in Nat /\ x \in Nat BY <1>3
  <2> DEFINE rest == 128 * f + 16 * z + rcode
             high == 128 * qr + e
  <2>6. rest \in 0 .. 255 /\ high \in Nat /\ 256 * x + y = 256 * high + rest BY <2>1, <2>2, <2>4
  <2> HIDE DEF rest, high
  <2>8. (256 * x + y) % 256 = y BY <2>4, LowByte
  <2>9. high \in Nat /\ rest \in 0 .. 255 BY <2>6
  <2>11. (256 * high + rest) % 256 = rest BY ONLY <2>9, LowByte
  <2>5. y = rest BY <2>6, <2>8, <2>11
  <2>7. y = 128 * f + 16 * z + rcode BY <2>5 DEF rest
  <2>10. QED BY <1>3, <2>7
<1>5. \A i \in 0 .. 15 : \A s \in 0 .. 15 : (16 * i + s) \div 16 = i /\ (16 * i + s) % 16 = s OBVIOUS
<1>6. \A i \in 0 .. 1 : \A s \in 0 .. 7 : (8 * i + s) % 8 = s /\ 8 * i + s \in 0 .. 15 OBVIOUS
<1>7. (y \div 16) % 8 = z /\ y % 16 = rcode
  <2> HIDE DEF f
  <2>1. k % 8 = z /\ k \in 0 .. 15 BY <1>3, <1>6
  <2> HIDE DEF k
  <2>2. (16 * k + rcode) \div 16 = k /\ (16 * k + rcode) % 16 = rcode BY <1>5, <2>1
  <2>3. y = 16 * k + rcode BY <1>4
  <2>4. y \div 16 = k /\ y % 16 = rcode BY <2>2, <2>3, Zenon
  <2>5. QED BY <2>1, <2>4, Zenon
<1>8. QED BY <1>1, <1>2, <1>7 DEF TwoByteWord, BitsRead

(* The same for all parts and bytes.                                       *)
LEMMA BitsOf ==
  \A qr, mid, z, rcode, x, y :
     HeaderValues(qr, mid, z, rcode) /\ AreBytes(x, y) /\ TwoByteWord(x, y) = HeaderBits(qr, mid, z, rcode) =>
       BitsRead(x, y, qr, mid, z, rcode)
<1> SUFFICES ASSUME NEW qr, NEW mid, NEW z, NEW rcode, NEW x, NEW y, HeaderValues(qr, mid, z, rcode), AreBytes(x, y),
                    TwoByteWord(x, y) = HeaderBits(qr, mid, z, rcode)
             PROVE  BitsRead(x, y, qr, mid, z, rcode)
  OBVIOUS
<1>1. qr \in 0 .. 1 /\ mid \in 0 .. 255 /\ z \in 0 .. 7 /\ rcode \in 0 .. 15 BY DEF HeaderValues
<1>2. x \in 0 .. 255 /\ y \in 0 .. 255 BY DEF AreBytes
<1>3. QED BY <1>1, <1>2, BitsOfBytes, ZenonT(60)

(* The parts make a word.                                                  *)
LEMMA BitsAreWord ==
  \A qr, mid, z, rcode : HeaderValues(qr, mid, z, rcode) => HeaderBits(qr, mid, z, rcode) \in Words
<1> SUFFICES ASSUME NEW qr \in 0 .. 1, NEW mid \in 0 .. 255, NEW z \in 0 .. 7, NEW rcode \in 0 .. 15
             PROVE  HeaderBits(qr, mid, z, rcode) \in Words
  BY DEF HeaderValues
<1> DEFINE low == 128 * mid + 16 * z + rcode
<1>1. low \in Nat /\ low <= 32767 OBVIOUS
<1>2. 32768 * qr + 128 * mid + 16 * z + rcode = 32768 * qr + low OBVIOUS
<1> HIDE DEF low
<1>3. qr = 0 \/ qr = 1 OBVIOUS
<1>4. 32768 * qr + low \in Nat /\ 32768 * qr + low < 65536 BY <1>1, <1>3
<1>5. QED BY <1>2, <1>4 DEF Words, HeaderBits

(* What is in a buffer is a byte.                                          *)
LEMMA ByteInRange ==
  ASSUME NEW c \in ByteString, NEW p \in Nat, p < Len(c)
  PROVE  Byte(c, p) \in 0 .. 255
<1>1. Len(c) \in Nat BY DEF ByteString
<1>2. p + 1 \in 1 .. Len(c) BY <1>1
<1>3. QED BY <1>2, ElementOfSeq DEF ByteString, Byte

(* The first word of a buffer is read.                                     *)
LEMMA FirstWord ==
  ASSUME NEW n \in Words
  PROVE  LET t == Put16(n)
         IN /\ t \in ByteString /\ Len(t) = 2
            /\ \A c \in ByteString : Extends(c, t) => Get16(c, 0) = n
<1> DEFINE e == <<>>
           t == Put16(n)
<1>1. e \in ByteString /\ Len(e) = 0 BY EmptySeq DEF ByteString
<1>2. n \in Nat BY DEF Words
<1>3. t \in ByteString /\ Len(t) = 2 BY <1>2, LinkIsBytes
<1>4. e \o t = t BY <1>3 DEF ByteString
<1> HIDE DEF e
<1>5. \A c \in ByteString : Extends(c, e \o t) => Get16(c, Len(e)) = n BY <1>1, WordAfter
<1> HIDE DEF t
<1>6. QED BY <1>1, <1>3, <1>4, <1>5 DEF t

(* The six words are read back.                                            *)
WordsRead(c, id, bits, n0, n1, n2, n3) ==
  /\ Get16(c, 0) = id /\ Get16(c, 2) = bits /\ Get16(c, 4) = n0
  /\ Get16(c, 6) = n1 /\ Get16(c, 8) = n2 /\ Get16(c, 10) = n3

(* The six words that have been written are read.                          *)
LEMMA HeaderWritten ==
  \A id, bits, n0, n1, n2, n3 \in Words :
     LET t == Header(id, bits, n0, n1, n2, n3)
     IN /\ t \in ByteString /\ Len(t) = 12
        /\ \A c \in ByteString : Extends(c, t) => WordsRead(c, id, bits, n0, n1, n2, n3)
<1> SUFFICES ASSUME NEW id \in Words, NEW bits \in Words,
                    NEW n0 \in Words, NEW n1 \in Words, NEW n2 \in Words, NEW n3 \in Words
             PROVE  LET t == Header(id, bits, n0, n1, n2, n3)
                    IN /\ t \in ByteString /\ Len(t) = 12
                       /\ \A c \in ByteString : Extends(c, t) => WordsRead(c, id, bits, n0, n1, n2, n3)
  OBVIOUS
<1> DEFINE a == Put16(id)
           b == a \o Put16(bits)
           c0 == b \o Put16(n0)
           c1 == c0 \o Put16(n1)
           c2 == c1 \o Put16(n2)
           t == c2 \o Put16(n3)
<1>1. /\ a \in ByteString /\ Len(a) = 2
      /\ \A c \in ByteString : Extends(c, a) => Get16(c, 0) = id
  BY FirstWord
<1> HIDE DEF a
<1>2. /\ b \in ByteString /\ Len(b) = Len(a) + 2
      /\ \A c \in ByteString : Extends(c, b) => Extends(c, a) /\ Get16(c, Len(a)) = bits
  BY <1>1, WordAfter
<1> HIDE DEF b
<1>3. /\ c0 \in ByteString /\ Len(c0) = Len(b) + 2
      /\ \A c \in ByteString : Extends(c, c0) => Extends(c, b) /\ Get16(c, Len(b)) = n0
  BY <1>2, WordAfter
<1> HIDE DEF c0
<1>4. /\ c1 \in ByteString /\ Len(c1) = Len(c0) + 2
      /\ \A c \in ByteString : Extends(c, c1) => Extends(c, c0) /\ Get16(c, Len(c0)) = n1
  BY <1>3, WordAfter
<1> HIDE DEF c1
<1>5. /\ c2 \in ByteString /\ Len(c2) = Len(c1) + 2
      /\ \A c \in ByteString : Extends(c, c2) => Extends(c, c1) /\ Get16(c, Len(c1)) = n2
  BY <1>4, WordAfter
<1> HIDE DEF c2
<1>6. /\ t \in ByteString /\ Len(t) = Len(c2) + 2
      /\ \A c \in ByteString : Extends(c, t) => Extends(c, c2) /\ Get16(c, Len(c2)) = n3
  BY <1>5, WordAfter
<1>7. /\ Len(a) = 2 /\ Len(b) = 4 /\ Len(c0) = 6 /\ Len(c1) = 8 /\ Len(c2) = 10 /\ Len(t) = 12
  <2> HIDE DEF t
  <2>1. Len(b) = 4 BY <1>1, <1>2
  <2>2. Len(c0) = 6 BY <1>3, <2>1
  <2>3. Len(c1) = 8 BY <1>4, <2>2
  <2>4. Len(c2) = 10 BY <1>5, <2>3
  <2>5. Len(t) = 12 BY <1>6, <2>4
  <2>6. QED BY <1>1, <2>1, <2>2, <2>3, <2>4, <2>5
<1> HIDE DEF t
<1>8. ASSUME NEW c \in ByteString, Extends(c, t)
      PROVE  WordsRead(c, id, bits, n0, n1, n2, n3)
  <2>1. Extends(c, c2) /\ Get16(c, 10) = n3 BY <1>6, <1>7, <1>8
  <2>2. Extends(c, c1) /\ Get16(c, 8) = n2 BY <1>5, <1>7, <2>1
  <2>3. Extends(c, c0) /\ Get16(c, 6) = n1 BY <1>4, <1>7, <2>2
  <2>4. Extends(c, b) /\ Get16(c, 4) = n0 BY <1>3, <1>7, <2>3
  <2>5. Extends(c, a) /\ Get16(c, 2) = bits BY <1>2, <1>7, <2>4
  <2>6. Get16(c, 0) = id BY <1>1, <2>5
  <2>7. QED BY <2>1, <2>2, <2>3, <2>4, <2>5, <2>6 DEF WordsRead
<1>9. QED BY <1>6, <1>7, <1>8 DEF t, c2, c1, c0, b, a, Header

(* The parts of a message.                                                 *)
LEMMA MessageParts ==
  ASSUME NEW writer, NEW m \in MessagesBy(writer)
  PROVE  /\ m.id \in Words /\ m.qr \in 0 .. 1 /\ m.mid \in 0 .. 255 /\ m.z \in 0 .. 7 /\ m.rcode \in 0 .. 15
         /\ m.questions \in Seq(WrittenNames(writer)) /\ m.records \in [1 .. 3 -> Seq(RecordsBy(writer))]
         /\ Len(m.questions) \in Words /\ Len(m.records[1]) \in Words
         /\ Len(m.records[2]) \in Words /\ Len(m.records[3]) \in Words
         /\ m = [id |-> m.id, qr |-> m.qr, mid |-> m.mid, z |-> m.z, rcode |-> m.rcode,
                 questions |-> m.questions, records |-> m.records]
<1>1. m \in MessageShapes(writer) BY DEF MessagesBy
<1>2. Len(m.questions) \in Words /\ \A i \in 1 .. 3 : Len(m.records[i]) \in Words BY DEF MessagesBy
<1>3. 1 \in 1 .. 3 /\ 2 \in 1 .. 3 /\ 3 \in 1 .. 3 OBVIOUS
<1>4. Len(m.records[1]) \in Words /\ Len(m.records[2]) \in Words /\ Len(m.records[3]) \in Words BY <1>2, <1>3
<1>5. QED BY <1>1, <1>2, <1>4 DEF MessageShapes

(* The header of a message is read back.                                   *)
LEMMA HeaderRead ==
  ASSUME NEW writer, NEW m \in MessagesBy(writer)
  PROVE  LET t == HeaderBytes(m)
         IN /\ t \in ByteString /\ Len(t) = 12
            /\ \A c \in ByteString : Extends(c, t) =>
                 /\ Get16(c, 0) = m.id
                 /\ Byte(c, 2) \div 128 = m.qr
                 /\ (Get16(c, 2) \div 128) % 256 = m.mid
                 /\ (Byte(c, 3) \div 16) % 8 = m.z
                 /\ Byte(c, 3) % 16 = m.rcode
                 /\ Get16(c, 4) = Len(m.questions)
                 /\ Get16(c, 6) = Len(m.records[1])
                 /\ Get16(c, 8) = Len(m.records[2])
                 /\ Get16(c, 10) = Len(m.records[3])
<1> DEFINE t == HeaderBytes(m)
           bits == HeaderBits(m.qr, m.mid, m.z, m.rcode)
<1>1. m.qr \in 0 .. 1 /\ m.mid \in 0 .. 255 /\ m.z \in 0 .. 7 /\ m.rcode \in 0 .. 15 BY MessageParts
<1>11. /\ m.id \in Words
       /\ Len(m.questions) \in Words /\ Len(m.records[1]) \in Words
       /\ Len(m.records[2]) \in Words /\ Len(m.records[3]) \in Words
  BY MessageParts
<1>2. bits \in Words BY ONLY <1>1, BitsAreWord DEF HeaderValues
<1>3. t = Header(m.id, bits, Len(m.questions), Len(m.records[1]), Len(m.records[2]), Len(m.records[3]))
  BY DEF HeaderBytes, Header, HeaderBits
<1> HIDE DEF t, bits
<1> DEFINE id == m.id
           n0 == Len(m.questions)
           n1 == Len(m.records[1])
           n2 == Len(m.records[2])
           n3 == Len(m.records[3])
           h == Header(id, bits, n0, n1, n2, n3)
<1>15. id \in Words /\ n0 \in Words /\ n1 \in Words /\ n2 \in Words /\ n3 \in Words BY <1>11
<1> HIDE DEF id, n0, n1, n2, n3
<1>12. h \in ByteString /\ Len(h) = 12 BY <1>15, <1>2, HeaderWritten
<1>13. ASSUME NEW c \in ByteString, Extends(c, h)
       PROVE  WordsRead(c, id, bits, n0, n1, n2, n3)
  BY <1>15, <1>2, <1>13, HeaderWritten
<1>14. t = h BY <1>3 DEF id, n0, n1, n2, n3
<1> HIDE DEF h
<1>4. /\ t \in ByteString /\ Len(t) = 12
      /\ \A c \in ByteString : Extends(c, t) =>
           /\ Get16(c, 0) = m.id /\ Get16(c, 2) = bits /\ Get16(c, 4) = Len(m.questions)
           /\ Get16(c, 6) = Len(m.records[1]) /\ Get16(c, 8) = Len(m.records[2]) /\ Get16(c, 10) = Len(m.records[3])
  BY <1>12, <1>13, <1>14 DEF WordsRead, id, n0, n1, n2, n3
<1>5. ASSUME NEW c \in ByteString, Extends(c, t)
      PROVE  /\ Byte(c, 2) \div 128 = m.qr
             /\ (Get16(c, 2) \div 128) % 256 = m.mid
             /\ (Byte(c, 3) \div 16) % 8 = m.z
             /\ Byte(c, 3) % 16 = m.rcode
  <2>1. Len(c) \in Nat /\ 12 <= Len(c) BY <1>4, <1>5 DEF Extends, ByteString
  <2>2. 2 \in Nat /\ 2 < Len(c) /\ 3 \in Nat /\ 3 < Len(c) /\ 2 + 1 = 3 BY <2>1
  <2>3. Byte(c, 2) \in 0 .. 255 /\ Byte(c, 3) \in 0 .. 255 BY <2>2, ByteInRange
  <2>4. Get16(c, 2) = TwoByteWord(Byte(c, 2), Byte(c, 3)) BY <2>2 DEF Get16, TwoByteWord
  <2>5. TwoByteWord(Byte(c, 2), Byte(c, 3)) = HeaderBits(m.qr, m.mid, m.z, m.rcode)
    BY <1>4, <1>5, <2>4 DEF bits
  <2>6. /\ Byte(c, 2) \div 128 = m.qr
        /\ (TwoByteWord(Byte(c, 2), Byte(c, 3)) \div 128) % 256 = m.mid
        /\ (Byte(c, 3) \div 16) % 8 = m.z
        /\ Byte(c, 3) % 16 = m.rcode
    <3>1. HeaderValues(m.qr, m.mid, m.z, m.rcode) BY <1>1 DEF HeaderValues
    <3>2. AreBytes(Byte(c, 2), Byte(c, 3)) BY <2>3 DEF AreBytes
    <3>3. BitsRead(Byte(c, 2), Byte(c, 3), m.qr, m.mid, m.z, m.rcode) BY <2>5, <3>1, <3>2, BitsOf
    <3>4. QED BY <3>3 DEF BitsRead
  <2>7. QED BY <2>4, <2>6
<1>6. QED BY <1>4, <1>5 DEF t

(* What is written after each section.                                     *)
LEMMA MessageWritten ==
  ASSUME NEW writer \in Writers, NEW m \in MessagesBy(writer)
  PROVE  LET u1 == UpToQuestions(writer, m)
             u2 == UpToAnswers(writer, m)
             u3 == UpToAuthorities(writer, m)
             u4 == EncodeAs(writer, m)
         IN /\ u1 \in ByteString /\ u2 \in ByteString /\ u3 \in ByteString /\ u4 \in ByteString
            /\ Ready(writer, HeaderBytes(m)) /\ Ready(writer, u1) /\ Ready(writer, u2) /\ Ready(writer, u3)
            /\ Extends(u1, HeaderBytes(m)) /\ Extends(u2, u1) /\ Extends(u3, u2) /\ Extends(u4, u3)
            /\ m.records[2] = <<>> => u3 = u2
            /\ m.records[2] # <<>> => Len(u2) < Len(u3)
            /\ m.records[3] = <<>> => u4 = u3
            /\ m.records[3] # <<>> => Len(u3) < Len(u4)
<1> DEFINE u0 == HeaderBytes(m)
           u1 == UpToQuestions(writer, m)
           u2 == UpToAnswers(writer, m)
           u3 == UpToAuthorities(writer, m)
           u4 == EncodeAs(writer, m)
<1>1. u0 \in ByteString /\ Ready(writer, u0)
  <2>1. u0 \in ByteString /\ Len(u0) = 12 BY HeaderRead
  <2>2. QED BY <2>1 DEF Ready
<1>2. m.questions \in Seq(Items("questions", writer)) BY MessageParts DEF Items
<1>3. \A i \in 1 .. 3 : m.records[i] \in Seq(Items("records", writer))
  <2>1. Items("records", writer) = RecordsBy(writer) BY DEF Items
  <2>2. QED BY <2>1, MessageParts
<1>4. 1 \in 1 .. 3 /\ 2 \in 1 .. 3 /\ 3 \in 1 .. 3 OBVIOUS
<1>5. /\ u1 = PutSection("questions", writer, u0, m.questions)
      /\ u2 = PutSection("records", writer, u1, m.records[1])
      /\ u3 = PutSection("records", writer, u2, m.records[2])
      /\ u4 = PutSection("records", writer, u3, m.records[3])
  BY DEF UpToQuestions, UpToAnswers, UpToAuthorities, EncodeAs
<1> HIDE DEF u0, u1, u2, u3, u4
<1>6. u1 \in ByteString /\ Extends(u1, u0) /\ Ready(writer, u1) BY <1>1, <1>2, <1>5, SectionExtends
<1>7. u2 \in ByteString /\ Extends(u2, u1) /\ Ready(writer, u2) BY <1>3, <1>4, <1>5, <1>6, SectionExtends
<1>8. /\ u3 \in ByteString /\ Extends(u3, u2) /\ Ready(writer, u3)
      /\ m.records[2] = <<>> => u3 = u2
      /\ m.records[2] # <<>> => Len(u2) < Len(u3)
  BY <1>3, <1>4, <1>5, <1>7, SectionExtends
<1>9. /\ u4 \in ByteString /\ Extends(u4, u3)
      /\ m.records[3] = <<>> => u4 = u3
      /\ m.records[3] # <<>> => Len(u3) < Len(u4)
  BY <1>3, <1>4, <1>5, <1>8, SectionExtends
<1>10. QED BY <1>1, <1>6, <1>7, <1>8, <1>9 DEF u0, u1, u2, u3, u4

(* The last element of a concatenation.                                    *)
LEMMA LastConcat ==
  ASSUME NEW S, NEW s \in Seq(S), NEW t \in Seq(S), t # <<>>
  PROVE  s \o t \in Seq(S) /\ s \o t # <<>> /\ Last(s \o t) = Last(t)
<1> DEFINE m == Len(s)
           n == Len(t)
           u == s \o t
<1>1. /\ m \in Nat /\ n \in Nat /\ Len(u) = m + n /\ u \in Seq(S)
      /\ \A i \in 1 .. m + n : u[i] = IF i <= m THEN s[i] ELSE t[i - m]
  BY ConcatProperties
<1>2. n # 0 BY EmptySeq
<1>3. Last(u) = u[Len(u)] /\ Last(t) = t[n] BY DEF Last
<1> HIDE DEF m, n, u
<1>4. m + n \in 1 .. m + n /\ ~(m + n <= m) /\ (m + n) - m = n BY <1>1, <1>2
<1>5. u[m + n] = t[n] BY <1>1, <1>4
<1>6. Len(u) # 0 BY <1>1, <1>2
<1>7. u # <<>> BY <1>6
<1>8. Last(u) = Last(t) BY <1>1, <1>3, <1>5
<1>9. QED BY <1>1, <1>7, <1>8 DEF u

(* Three are appended one after the other.                                 *)
LEMMA ThreeAppended ==
  ASSUME NEW S, NEW r1 \in S, NEW r2 \in S, NEW r3 \in S
  PROVE  LET s1 == Append(<<>>, r1)
             s2 == Append(s1, r2)
             s3 == Append(s2, r3)
         IN /\ s1 \in Seq(S) /\ s2 \in Seq(S) /\ s3 \in Seq(S)
            /\ s1 # <<>> /\ s2 # <<>> /\ Len(s1) = 1 /\ Len(s2) = 2 /\ Len(s3) = 3
            /\ s3[1] = r1 /\ s3[2] = r2 /\ s3[3] = r3
<1> DEFINE s1 == Append(<<>>, r1)
           s2 == Append(s1, r2)
           s3 == Append(s2, r3)
<1>1. <<>> \in Seq(S) /\ Len(<<>>) = 0 OBVIOUS
<1>2. s1 \in Seq(S) /\ Len(s1) = 1 /\ s1[1] = r1 /\ s1 # <<>> BY <1>1, AppendProperties
<1> HIDE DEF s1
<1>3. s2 \in Seq(S) /\ Len(s2) = 2 /\ s2[1] = r1 /\ s2[2] = r2 /\ s2 # <<>>
  <2>1. s1 \in Seq(S) BY <1>2
  <2>2. /\ s2 \in Seq(S) /\ s2 # <<>> /\ Len(s2) = Len(s1) + 1
        /\ \A i \in 1 .. Len(s1) : s2[i] = s1[i]
        /\ s2[Len(s1) + 1] = r2
    BY ONLY <2>1, r2 \in S, AppendProperties
  <2>3. 1 \in 1 .. Len(s1) /\ Len(s1) + 1 = 2 BY <1>2
  <2>4. QED BY <1>2, <2>2, <2>3
<1> HIDE DEF s2
<1>4. s3 \in Seq(S) /\ Len(s3) = 3 /\ s3[1] = r1 /\ s3[2] = r2 /\ s3[3] = r3
  <2>1. s2 \in Seq(S) BY <1>3
  <2>2. /\ s3 \in Seq(S) /\ Len(s3) = Len(s2) + 1
        /\ \A i \in 1 .. Len(s2) : s3[i] = s2[i]
        /\ s3[Len(s2) + 1] = r3
    BY ONLY <2>1, r3 \in S, AppendProperties
  <2>3. 1 \in 1 .. Len(s2) /\ 2 \in 1 .. Len(s2) /\ Len(s2) + 1 = 3 BY <1>3
  <2>4. QED BY <1>3, <2>2, <2>3
<1> HIDE DEF s3
<1>5. QED BY <1>2, <1>3, <1>4 DEF s3, s2, s1

(* A message's records are those of its three sections.                    *)
LEMMA RecordsOf ==
  ASSUME NEW writer, NEW m \in MessagesBy(writer)
  PROVE  LET r1 == m.records[1]
             r2 == m.records[2]
             r3 == m.records[3]
         IN /\ r1 \in Seq(RecordsBy(writer)) /\ r2 \in Seq(RecordsBy(writer)) /\ r3 \in Seq(RecordsBy(writer))
            /\ m.records = Append(Append(Append(<<>>, r1), r2), r3)
            /\ Records(m) = (r1 \o r2) \o r3
<1> DEFINE r1 == m.records[1]
           r2 == m.records[2]
           r3 == m.records[3]
           S == Seq(RecordsBy(writer))
<1>1. m.records \in [1 .. 3 -> S] BY MessageParts
<1>2. 1 \in 1 .. 3 /\ 2 \in 1 .. 3 /\ 3 \in 1 .. 3 OBVIOUS
<1>3. r1 \in S /\ r2 \in S /\ r3 \in S BY <1>1, <1>2
<1> DEFINE s1 == Append(<<>>, r1)
           s2 == Append(s1, r2)
           s3 == Append(s2, r3)
<1>4. m.records = [i \in 1 .. 3 |-> m.records[i]] BY <1>1
<1>5. r1 = m.records[1] /\ r2 = m.records[2] /\ r3 = m.records[3] OBVIOUS
<1> HIDE DEF r1, r2, r3, S
<1>6. <<>> \in Seq(S) OBVIOUS
<1>9. /\ s1 \in Seq(S) /\ s2 \in Seq(S) /\ s3 \in Seq(S) /\ s1 # <<>> /\ s2 # <<>>
      /\ Len(s3) = 3 /\ s3[1] = r1 /\ s3[2] = r2 /\ s3[3] = r3
  BY <1>3, ThreeAppended
<1> HIDE DEF s1, s2, s3
<1>10. s3 = m.records
  <2>1. s3 = [i \in 1 .. 3 |-> s3[i]] BY <1>9
  <2>2. \A i \in 1 .. 3 : i = 1 \/ i = 2 \/ i = 3 OBVIOUS
  <2>3. \A i \in 1 .. 3 : s3[i] = m.records[i] BY <1>5, <1>9, <2>2
  <2>4. QED BY <1>4, <2>1, <2>3
<1>11. \A seqs \in Seq(S), e \in S : FlattenSeq(Append(seqs, e)) = IF seqs = <<>> THEN e ELSE FlattenSeq(seqs) \o e
  BY FlattenSteps
<1>12. FlattenSeq(s1) = r1 BY <1>3, <1>6, <1>11 DEF s1
<1>14. FlattenSeq(s2) = r1 \o r2 BY <1>3, <1>9, <1>11, <1>12 DEF s2
<1>15. FlattenSeq(s3) = (r1 \o r2) \o r3 BY <1>3, <1>9, <1>11, <1>14 DEF s3
<1>16. QED BY <1>3, <1>10, <1>15 DEF r1, r2, r3, S, Records, s3, s2, s1

(* The last record is the last one of the last section that has any.       *)
LEMMA LastRecord ==
  ASSUME NEW writer, NEW m \in MessagesBy(writer)
  PROVE  LET r1 == m.records[1]
             r2 == m.records[2]
             r3 == m.records[3]
         IN /\ r3 # <<>> => Records(m) # <<>> /\ Last(Records(m)) = Last(r3)
            /\ r3 = <<>> /\ r2 # <<>> => Records(m) # <<>> /\ Last(Records(m)) = Last(r2)
            /\ r3 = <<>> /\ r2 = <<>> => Records(m) = r1
<1> DEFINE r1 == m.records[1]
           r2 == m.records[2]
           r3 == m.records[3]
           s == r1 \o r2
<1>1. /\ r1 \in Seq(RecordsBy(writer)) /\ r2 \in Seq(RecordsBy(writer)) /\ r3 \in Seq(RecordsBy(writer))
      /\ Records(m) = s \o r3
  BY RecordsOf
<1> HIDE DEF r1, r2, r3
<1>2. s \in Seq(RecordsBy(writer)) BY <1>1
<1>3. r2 # <<>> => s # <<>> /\ Last(s) = Last(r2) BY <1>1, LastConcat
<1>4. r2 = <<>> => s = r1 BY <1>1, ConcatEmptySeq
<1> HIDE DEF s
<1>5. r3 # <<>> => Records(m) # <<>> /\ Last(Records(m)) = Last(r3) BY <1>1, <1>2, LastConcat
<1>6. r3 = <<>> => Records(m) = s BY <1>1, <1>2, ConcatEmptySeq
<1>7. QED BY <1>3, <1>4, <1>5, <1>6 DEF r1, r2, r3

(* Where the records are read.                                             *)
SectionsFrom(reader, c) == [reader |-> reader, b |-> c]

(* What is known after k sections of records.                              *)
SectionsRead(reader, c, p, k) == SectionLoop!Iterate(SectionsFrom(reader, c), Got(<<>>, p))[k]

(* Reading the records, one section at a time.                             *)
LEMMA SectionsRounds ==
  \A reader, c, p :
     LET F(k) == SectionsRead(reader, c, p, k)
     IN /\ F(0) = Got(<<>>, p)
        /\ GetRecords(reader, c, p) = F(3)
        /\ F(1) = NextSection(SectionsFrom(reader, c), F(0))
        /\ F(2) = NextSection(SectionsFrom(reader, c), F(1))
        /\ F(3) = NextSection(SectionsFrom(reader, c), F(2))
<1> SUFFICES ASSUME NEW reader, NEW c, NEW p
             PROVE  LET F(k) == SectionsRead(reader, c, p, k)
                    IN /\ F(0) = Got(<<>>, p)
                       /\ GetRecords(reader, c, p) = F(3)
                       /\ F(1) = NextSection(SectionsFrom(reader, c), F(0))
                       /\ F(2) = NextSection(SectionsFrom(reader, c), F(1))
                       /\ F(3) = NextSection(SectionsFrom(reader, c), F(2))
  OBVIOUS
<1> DEFINE from == SectionsFrom(reader, c)
           first == Got(<<>>, p)
           it == SectionLoop!Iterate(from, first)
<1>1. GetRecords(reader, c, p) = it[3] BY DEF GetRecords, SectionsFrom
<1>2. \A k : SectionsRead(reader, c, p, k) = it[k] BY DEF SectionsRead
<1> HIDE DEF from, first
<1>3. it[0] = first /\ \A n \in Nat : it[n + 1] = NextSection(from, it[n]) BY SectionLoop!IterateSteps
<1> HIDE DEF it
<1>4. 0 + 1 = 1 /\ 1 + 1 = 2 /\ 2 + 1 = 3 /\ 0 \in Nat /\ 1 \in Nat /\ 2 \in Nat OBVIOUS
<1>5. it[1] = NextSection(from, it[0]) BY <1>3, <1>4
<1>6. it[2] = NextSection(from, it[1]) BY <1>3, <1>4
<1>7. it[3] = NextSection(from, it[2]) BY <1>3, <1>4
<1>8. QED BY <1>1, <1>2, <1>3, <1>5, <1>6, <1>7 DEF first, from

(* One more section is read behind the others.                             *)
LEMMA NextSectionGot ==
  \A reader, c, val, pos :
     NextSection(SectionsFrom(reader, c), Got(val, pos)) =
       Another(Got(val, pos), GetSection("records", reader, c, pos, Get16(c, 6 + 2 * Len(val))))
BY DEF NextSection, SectionsFrom, Got

(* What was thrown ends the sections.                                      *)
LEMMA NextSectionThrown == \A from : NextSection(from, Thrown) = Thrown
BY ThrownFails DEF NextSection

(* A section is read behind the others, or the proxy is at its last        *)
(* record.                                                                 *)
LEMMA SectionAfter ==
  ASSUME NEW writer, NEW reader, NEW c, NEW val, NEW pos, NEW items, NEW end,
         Get16(c, 6 + 2 * Len(val)) = Len(items),
         SectionReads("records", writer, reader, c, GetSection("records", reader, c, pos, Len(items)), items, end)
  PROVE  LET next == NextSection(SectionsFrom(reader, c), Got(val, pos))
         IN \/ \E vals : /\ ItemsRead("records", writer, items, Len(items), vals)
                         /\ next = Got(Append(val, vals), end)
            \/ next = Thrown /\ CutAtItem("records", reader, c, next, Last(items), end) /\ items # <<>>
<1> DEFINE got == GetSection("records", reader, c, pos, Len(items))
           next == NextSection(SectionsFrom(reader, c), Got(val, pos))
<1>1. next = Another(Got(val, pos), got) BY NextSectionGot
<1> HIDE DEF got, next
<1>2. SectionReads("records", writer, reader, c, got, items, end) BY DEF got
<1>3. ASSUME NEW vals, ItemsRead("records", writer, items, Len(items), vals), got = Got(vals, end)
      PROVE  next = Got(Append(val, vals), end)
  BY <1>1, <1>3, GotAnother
<1>4. ASSUME items # <<>>, CutAtItem("records", reader, c, got, Last(items), end)
      PROVE  next = Thrown /\ CutAtItem("records", reader, c, next, Last(items), end) /\ items # <<>>
  <2>1. got = Thrown BY <1>4 DEF CutAtItem, CutAtLink
  <2>2. next = Thrown BY <1>1, <2>1, ThrownStays
  <2>3. QED BY <1>4, <2>1, <2>2
<1>5. \/ \E vals : ItemsRead("records", writer, items, Len(items), vals) /\ next = Got(Append(val, vals), end)
      \/ next = Thrown /\ CutAtItem("records", reader, c, next, Last(items), end) /\ items # <<>>
  BY <1>2, <1>3, <1>4 DEF SectionReads
<1>6. QED BY <1>5 DEF next

(* What the proxy skips: a message whose last two bytes are a link.        *)
CutAtEnd(reader, c, got, m) ==
  /\ reader = "proxy" /\ got = Thrown
  /\ Records(m) # <<>> /\ EndsInName(Last(Records(m)))
  /\ Byte(c, Len(c) - 2) >= LinkTag

(* The header and all sections of an encoded message can be read.          *)
LEMMA EncodedSections ==
  ASSUME NEW writer \in Writers, NEW m \in MessagesBy(writer), EncodeAs(writer, m) \in Buffers,
         NEW reader \in ReadersOf(writer)
  PROVE  LET c == EncodeAs(writer, m)
             u0 == HeaderBytes(m)
             u1 == UpToQuestions(writer, m)
             u2 == UpToAnswers(writer, m)
             u3 == UpToAuthorities(writer, m)
         IN /\ Extends(c, u0) /\ c \in ByteString /\ Len(u0) = 12
            /\ SectionReads("questions", writer, reader, c,
                            GetSection("questions", reader, c, Len(u0), Len(m.questions)), m.questions, Len(u1))
            /\ SectionReads("records", writer, reader, c,
                            GetSection("records", reader, c, Len(u1), Len(m.records[1])), m.records[1], Len(u2))
            /\ SectionReads("records", writer, reader, c,
                            GetSection("records", reader, c, Len(u2), Len(m.records[2])), m.records[2], Len(u3))
            /\ SectionReads("records", writer, reader, c,
                            GetSection("records", reader, c, Len(u3), Len(m.records[3])), m.records[3], Len(c))
<1> DEFINE c == EncodeAs(writer, m)
           u0 == HeaderBytes(m)
           u1 == UpToQuestions(writer, m)
           u2 == UpToAnswers(writer, m)
           u3 == UpToAuthorities(writer, m)
<1>1. u0 \in ByteString /\ Len(u0) = 12 BY HeaderRead
<1>2. /\ u1 \in ByteString /\ u2 \in ByteString /\ u3 \in ByteString /\ c \in ByteString
      /\ Ready(writer, u0) /\ Ready(writer, u1) /\ Ready(writer, u2) /\ Ready(writer, u3)
      /\ Extends(u1, u0) /\ Extends(u2, u1) /\ Extends(u3, u2) /\ Extends(c, u3)
  BY MessageWritten
<1>3. m.questions \in Seq(Items("questions", writer)) BY MessageParts DEF Items
<1>4. m.records[1] \in Seq(Items("records", writer)) /\ m.records[2] \in Seq(Items("records", writer))
        /\ m.records[3] \in Seq(Items("records", writer))
  BY RecordsOf DEF Items
<1>5. /\ u1 = PutSection("questions", writer, u0, m.questions)
      /\ u2 = PutSection("records", writer, u1, m.records[1])
      /\ u3 = PutSection("records", writer, u2, m.records[2])
      /\ c = PutSection("records", writer, u3, m.records[3])
  BY DEF UpToQuestions, UpToAnswers, UpToAuthorities, EncodeAs
<1>6. c \in Buffers OBVIOUS
<1> HIDE DEF c, u0, u1, u2, u3
<1>7. Extends(c, c) BY <1>2, ExtendsItself
<1>8. Extends(c, u2) BY <1>2, ExtendsTransitive
<1>9. Extends(c, u1) BY <1>2, <1>8, ExtendsTransitive
<1>10. Extends(c, u0) BY <1>1, <1>2, <1>9, ExtendsTransitive
<1>11. SectionReads("questions", writer, reader, c, GetSection("questions", reader, c, Len(u0), Len(m.questions)),
                    m.questions, Len(u1))
  BY <1>1, <1>2, <1>3, <1>5, <1>6, <1>9, GetSectionReads
<1>12. SectionReads("records", writer, reader, c, GetSection("records", reader, c, Len(u1), Len(m.records[1])),
                    m.records[1], Len(u2))
  BY <1>2, <1>4, <1>5, <1>6, <1>8, GetSectionReads
<1>13. SectionReads("records", writer, reader, c, GetSection("records", reader, c, Len(u2), Len(m.records[2])),
                    m.records[2], Len(u3))
  BY <1>2, <1>4, <1>5, <1>6, GetSectionReads
<1>14. SectionReads("records", writer, reader, c, GetSection("records", reader, c, Len(u3), Len(m.records[3])),
                    m.records[3], Len(c))
  BY <1>2, <1>4, <1>5, <1>6, <1>7, GetSectionReads
<1>15. QED BY <1>1, <1>2, <1>10, <1>11, <1>12, <1>13, <1>14 DEF c, u0, u1, u2, u3

(* What is read of the records.                                            *)
RecordsGot(writer, m, rs) ==
  /\ rs \in [1 .. 3 -> Seq(ReadRecords)]
  /\ \A i \in 1 .. 3 : ItemsRead("records", writer, m.records[i], Len(m.records[i]), rs[i])

(* The three sections that are read.                                       *)
LEMMA ThreeRead ==
  ASSUME NEW writer, NEW m, NEW w1, NEW w2, NEW w3,
         ItemsRead("records", writer, m.records[1], Len(m.records[1]), w1),
         ItemsRead("records", writer, m.records[2], Len(m.records[2]), w2),
         ItemsRead("records", writer, m.records[3], Len(m.records[3]), w3)
  PROVE  /\ Len(Append(<<>>, w1)) = 1 /\ Len(Append(Append(<<>>, w1), w2)) = 2
         /\ RecordsGot(writer, m, Append(Append(Append(<<>>, w1), w2), w3))
<1> DEFINE S == Seq(ReadRecords)
           s3 == Append(Append(Append(<<>>, w1), w2), w3)
<1>1. ReadItems("records") = ReadRecords BY DEF ReadItems
<1>2. w1 \in S /\ w2 \in S /\ w3 \in S BY <1>1 DEF ItemsRead
<1> HIDE DEF S
<1>3. /\ Len(Append(<<>>, w1)) = 1 /\ Len(Append(Append(<<>>, w1), w2)) = 2
      /\ s3 \in Seq(S) /\ Len(s3) = 3 /\ s3[1] = w1 /\ s3[2] = w2 /\ s3[3] = w3
  BY <1>2, ThreeAppended
<1> HIDE DEF s3
<1>5. \A i \in 1 .. 3 : i = 1 \/ i = 2 \/ i = 3 OBVIOUS
<1>4. s3 \in [1 .. 3 -> S]
  <2>1. s3 = [i \in 1 .. 3 |-> s3[i]] BY <1>3
  <2>2. \A i \in 1 .. 3 : s3[i] \in S BY <1>2, <1>3, <1>5
  <2>3. QED BY <2>1, <2>2
<1>6. \A i \in 1 .. 3 : ItemsRead("records", writer, m.records[i], Len(m.records[i]), s3[i]) BY <1>3, <1>5
<1>7. RecordsGot(writer, m, s3) BY <1>4, <1>6 DEF RecordsGot, S
<1>8. QED BY <1>3, <1>7 DEF s3

(* The records of an encoded message are read, but for a link at the very  *)
(* end.                                                                    *)
LEMMA GetRecordsReads ==
  ASSUME NEW writer \in Writers, NEW m \in MessagesBy(writer), EncodeAs(writer, m) \in Buffers,
         NEW reader \in ReadersOf(writer)
  PROVE  LET c == EncodeAs(writer, m)
             got == GetRecords(reader, c, Len(UpToQuestions(writer, m)))
         IN \/ \E rs : RecordsGot(writer, m, rs) /\ got = Got(rs, Len(c))
            \/ CutAtEnd(reader, c, got, m)
<1> DEFINE c == EncodeAs(writer, m)
           u1 == UpToQuestions(writer, m)
           u2 == UpToAnswers(writer, m)
           u3 == UpToAuthorities(writer, m)
           r1 == m.records[1]
           r2 == m.records[2]
           r3 == m.records[3]
           from == SectionsFrom(reader, c)
           F(k) == SectionsRead(reader, c, Len(u1), k)
           got == GetRecords(reader, c, Len(u1))
           R(items, vals) == ItemsRead("records", writer, items, Len(items), vals)
           Cut(k, items, end) ==
             F(k) = Thrown /\ items # <<>> /\ CutAtItem("records", reader, c, F(k), Last(items), end)
<1>1. /\ SectionReads("records", writer, reader, c, GetSection("records", reader, c, Len(u1), Len(r1)), r1, Len(u2))
      /\ SectionReads("records", writer, reader, c, GetSection("records", reader, c, Len(u2), Len(r2)), r2, Len(u3))
      /\ SectionReads("records", writer, reader, c, GetSection("records", reader, c, Len(u3), Len(r3)), r3, Len(c))
  BY EncodedSections
<1>2. Extends(c, HeaderBytes(m)) /\ c \in ByteString BY EncodedSections
<1>3. Get16(c, 6) = Len(r1) /\ Get16(c, 8) = Len(r2) /\ Get16(c, 10) = Len(r3) BY <1>2, HeaderRead
<1>4. /\ F(0) = Got(<<>>, Len(u1)) /\ got = F(3)
      /\ F(1) = NextSection(from, F(0)) /\ F(2) = NextSection(from, F(1)) /\ F(3) = NextSection(from, F(2))
  BY SectionsRounds
<1>6. /\ u2 \in ByteString /\ u3 \in ByteString
      /\ Len(u2) <= Len(u3) /\ Len(u3) <= Len(c)
      /\ r2 # <<>> => Len(u2) < Len(u3)
      /\ r3 # <<>> => Len(u3) < Len(c)
  BY MessageWritten DEF Extends
<1>7. /\ r3 # <<>> => Records(m) # <<>> /\ Last(Records(m)) = Last(r3)
      /\ r3 = <<>> /\ r2 # <<>> => Records(m) # <<>> /\ Last(Records(m)) = Last(r2)
      /\ r3 = <<>> /\ r2 = <<>> => Records(m) = r1
  BY LastRecord
<1> DEFINE Goal == \/ \E rs : RecordsGot(writer, m, rs) /\ got = Got(rs, Len(c))
                   \/ CutAtEnd(reader, c, got, m)
<1>5. ASSUME NEW w1, NEW w2, NEW w3, R(r1, w1), R(r2, w2), R(r3, w3)
      PROVE  /\ Len(Append(<<>>, w1)) = 1 /\ Len(Append(Append(<<>>, w1), w2)) = 2
             /\ RecordsGot(writer, m, Append(Append(Append(<<>>, w1), w2), w3))
  BY <1>5, ThreeRead
<1>21. 6 + 2 * 0 = 6 /\ 6 + 2 * 1 = 8 /\ 6 + 2 * 2 = 10 /\ Len(<<>>) = 0 OBVIOUS
<1> HIDE DEF c, u1, u2, u3, r1, r2, r3, from, F, got
<1>8. Len(u2) \in Nat /\ Len(u3) \in Nat /\ Len(c) \in Nat BY <1>2, <1>6 DEF ByteString
<1>9. ASSUME NEW val, NEW pos, NEW items, NEW end, NEW k, NEW j,
             Get16(c, 6 + 2 * Len(val)) = Len(items), F(j) = Got(val, pos), F(k) = NextSection(from, F(j)),
             SectionReads("records", writer, reader, c, GetSection("records", reader, c, pos, Len(items)), items, end)
      PROVE  (\E vals : R(items, vals) /\ F(k) = Got(Append(val, vals), end)) \/ Cut(k, items, end)
  <2>1. NextSection(SectionsFrom(reader, c), Got(val, pos)) = F(k) BY <1>9 DEF from
  <2>2. QED BY <1>9, <2>1, SectionAfter
<1>13. (F(1) = Thrown => F(2) = Thrown) /\ (F(2) = Thrown => F(3) = Thrown) BY <1>4, NextSectionThrown
<1>14. ASSUME Cut(1, r1, Len(u2)) PROVE CutAtEnd(reader, c, got, m)
  <2>0. reader = "proxy" /\ EndsInName(Last(r1)) /\ Len(u2) = Len(c) /\ Byte(c, Len(c) - 2) >= LinkTag /\ r1 # <<>>
    BY <1>14 DEF CutAtItem, CutAtLink
  <2>1. r2 = <<>> /\ r3 = <<>> BY <1>6, <1>8, <2>0
  <2>2. Records(m) = r1 BY <1>7, <2>1
  <2>3. got = Thrown BY <1>4, <1>13, <1>14
  <2>4. QED BY <2>0, <2>2, <2>3 DEF CutAtEnd
<1>15. ASSUME Cut(2, r2, Len(u3)) PROVE CutAtEnd(reader, c, got, m)
  <2>0. reader = "proxy" /\ EndsInName(Last(r2)) /\ Len(u3) = Len(c) /\ Byte(c, Len(c) - 2) >= LinkTag /\ r2 # <<>>
    BY <1>15 DEF CutAtItem, CutAtLink
  <2>1. r3 = <<>> BY <1>6, <1>8, <2>0
  <2>2. Records(m) # <<>> /\ Last(Records(m)) = Last(r2) BY <1>7, <2>0, <2>1
  <2>3. got = Thrown BY <1>4, <1>13, <1>15
  <2>4. QED BY <2>0, <2>2, <2>3 DEF CutAtEnd
<1>16. ASSUME Cut(3, r3, Len(c)) PROVE CutAtEnd(reader, c, got, m)
  <2>0. reader = "proxy" /\ EndsInName(Last(r3)) /\ Byte(c, Len(c) - 2) >= LinkTag /\ r3 # <<>>
    BY <1>16 DEF CutAtItem, CutAtLink
  <2>1. Records(m) # <<>> /\ Last(Records(m)) = Last(r3) BY <1>7, <2>0
  <2>2. QED BY <1>4, <1>16, <2>0, <2>1 DEF CutAtEnd
<1>17. ASSUME NEW w1, R(r1, w1), F(1) = Got(Append(<<>>, w1), Len(u2)) PROVE Goal
  <2> DEFINE v1 == Append(<<>>, w1)
  <2>1. 6 + 2 * Len(v1) = 8
    <3>1. w1 \in Seq(ReadItems("records")) BY <1>17 DEF ItemsRead
    <3>2. <<>> \in Seq(Seq(ReadItems("records"))) OBVIOUS
    <3>3. Len(v1) = Len(<<>>) + 1 BY <3>1, <3>2, AppendProperties
    <3> HIDE DEF v1
    <3>4. QED BY <1>21, <3>3
  <2> HIDE DEF v1
  <2>2. F(1) = Got(v1, Len(u2)) BY <1>17 DEF v1
  <2>3. (\E w2 : R(r2, w2) /\ F(2) = Got(Append(v1, w2), Len(u3))) \/ Cut(2, r2, Len(u3))
    BY <1>1, <1>3, <1>4, <1>9, <2>1, <2>2
  <2>4. ASSUME NEW w2, R(r2, w2), F(2) = Got(Append(v1, w2), Len(u3)) PROVE Goal
    <3> DEFINE v2 == Append(v1, w2)
    <3>1. 6 + 2 * Len(v2) = 10
      <4>1. w1 \in Seq(ReadItems("records")) /\ w2 \in Seq(ReadItems("records")) BY <1>17, <2>4 DEF ItemsRead
      <4>2. Len(v2) = 2 BY <4>1, ThreeAppended DEF v1
      <4> HIDE DEF v2
      <4>3. QED BY <1>21, <4>2
    <3> HIDE DEF v2
    <3>2. F(2) = Got(v2, Len(u3)) BY <2>4 DEF v2
    <3>3. (\E w3 : R(r3, w3) /\ F(3) = Got(Append(v2, w3), Len(c))) \/ Cut(3, r3, Len(c))
      BY <1>1, <1>3, <1>4, <1>9, <3>1, <3>2
    <3>4. ASSUME NEW w3, R(r3, w3), F(3) = Got(Append(v2, w3), Len(c)) PROVE Goal
      <4>1. RecordsGot(writer, m, Append(v2, w3)) BY <1>5, <1>17, <2>4, <3>4 DEF v1, v2
      <4>2. got = Got(Append(v2, w3), Len(c)) BY <1>4, <3>4
      <4>3. QED BY <4>1, <4>2
    <3> HIDE DEF R, Cut, Goal
    <3>5. CutAtEnd(reader, c, got, m) => Goal BY DEF Goal
    <3>6. QED BY <1>16, <3>3, <3>4, <3>5
  <2> HIDE DEF R, Cut, Goal
  <2>5. CutAtEnd(reader, c, got, m) => Goal BY DEF Goal
  <2>6. QED BY <1>15, <2>3, <2>4, <2>5
<1>18. (\E w1 : R(r1, w1) /\ F(1) = Got(Append(<<>>, w1), Len(u2))) \/ Cut(1, r1, Len(u2))
  BY <1>1, <1>3, <1>4, <1>9, <1>21
<1>19. Goal
  <2>1. CutAtEnd(reader, c, got, m) => Goal OBVIOUS
  <2> HIDE DEF R, Cut, Goal
  <2>2. QED BY <1>14, <1>17, <1>18, <2>1
<1>20. QED BY <1>19 DEF Goal, c, got, u1

-----------------------------------------------------------------------------
(* What decoding gives back.                                               *)

(* The proxy knows nothing of the last seven bits of the header.           *)
ReadAs(reader, m, questions, rs) ==
  [id |-> m.id, qr |-> m.qr, mid |-> m.mid,
   z |-> IF reader = "proxy" THEN 0 ELSE m.z, rcode |-> IF reader = "proxy" THEN 0 ELSE m.rcode,
   questions |-> questions, records |-> rs]
Forgotten(m) == ReadAs("proxy", m, m.questions, m.records)

(* What a reader makes of a message.                                       *)
MessageGot(writer, reader, m, v) ==
  /\ ItemsRead("questions", writer, m.questions, Len(m.questions), v.questions)
  /\ RecordsGot(writer, m, v.records)
  /\ v = ReadAs(reader, m, v.questions, v.records)

(* The header is read with the questions and records.                      *)
LEMMA MessageRead ==
  ASSUME NEW writer, NEW m \in MessagesBy(writer), NEW c \in ByteString, Extends(c, HeaderBytes(m)),
         NEW reader, NEW qs, NEW val
  PROVE  MessageOf(reader, c, qs, Got(val, Len(c))) = Got(ReadAs(reader, m, qs, val), Len(c))
<1> DEFINE rs == Got(val, Len(c))
           bits == LastBits(reader, Byte(c, 3))
           id == Get16(c, 0)
           qr == Byte(c, 2) \div 128
           mid == (Get16(c, 2) \div 128) % 256
<1>1. /\ id = m.id /\ qr = m.qr /\ mid = m.mid
      /\ (Byte(c, 3) \div 16) % 8 = m.z
      /\ Byte(c, 3) % 16 = m.rcode
  BY HeaderRead
<1>2. rs.ok /\ rs.val = val /\ rs.pos = Len(c) BY DEF Got
<1>3. /\ reader = "proxy" => bits.z = 0 /\ bits.rcode = 0
      /\ reader # "proxy" => bits.z = m.z /\ bits.rcode = m.rcode
  BY <1>1 DEF LastBits
<1> HIDE DEF rs
<1>4. MessageOf(reader, c, qs, rs) =
        Got([id |-> id, qr |-> qr, mid |-> mid, z |-> bits.z, rcode |-> bits.rcode,
             questions |-> qs, records |-> rs.val], rs.pos)
  BY <1>2 DEF MessageOf
<1> HIDE DEF bits, id, qr, mid
<1>5. MessageOf(reader, c, qs, rs) = Got(ReadAs(reader, m, qs, val), Len(c)) BY <1>1, <1>2, <1>3, <1>4 DEF ReadAs
<1>6. QED BY <1>5 DEF rs

(* Whoever encodes a message, decoding it gives back what was said, but    *)
(* for what the names have become: the proxy forgets the header's last     *)
(* bits, and skips the message when its last bytes are a link.             *)
LEMMA DecodeReads ==
  ASSUME NEW writer \in Writers, NEW m \in MessagesBy(writer), EncodeAs(writer, m) \in Buffers,
         NEW reader \in ReadersOf(writer)
  PROVE  LET c == EncodeAs(writer, m)
             got == DecodeAs(reader, c)
         IN \/ \E v : MessageGot(writer, reader, m, v) /\ got = Got(v, Len(c))
            \/ CutAtEnd(reader, c, got, m)
<1> DEFINE c == EncodeAs(writer, m)
           u0 == HeaderBytes(m)
           u1 == UpToQuestions(writer, m)
           got == DecodeAs(reader, c)
           rs == GetRecords(reader, c, Len(u1))
<1>1. /\ Extends(c, u0) /\ c \in ByteString /\ Len(u0) = 12
      /\ SectionReads("questions", writer, reader, c, GetSection("questions", reader, c, Len(u0), Len(m.questions)),
                      m.questions, Len(u1))
  BY EncodedSections
<1>2. (\E val : RecordsGot(writer, m, val) /\ rs = Got(val, Len(c))) \/ CutAtEnd(reader, c, rs, m)
  BY GetRecordsReads
<1>3. Get16(c, 4) = Len(m.questions) BY <1>1, HeaderRead
<1>4. Len(c) \in Nat /\ 12 <= Len(c) BY <1>1 DEF Extends, ByteString
<1>5. PICK vals : /\ ItemsRead("questions", writer, m.questions, Len(m.questions), vals)
                  /\ GetSection("questions", reader, c, 12, Get16(c, 4)) = Got(vals, Len(u1))
  BY <1>1, <1>3 DEF SectionReads, CutAtItem
<1> DEFINE qs == Got(vals, Len(u1))
<1>6. qs.ok /\ qs.val = vals /\ qs.pos = Len(u1) BY DEF Got
<1> HIDE DEF c, u0, u1, qs, rs
<1>7. DecodeRecords(reader, c, qs) = MessageOf(reader, c, vals, rs) BY <1>6 DEF DecodeRecords, rs
<1>8. got = MessageOf(reader, c, vals, rs)
  <2>1. ~(Len(c) < 12) BY <1>4
  <2>2. GetSection("questions", reader, c, 12, Get16(c, 4)) = qs BY <1>5 DEF qs
  <2>3. QED BY <1>7, <2>1, <2>2 DEF DecodeAs
<1> HIDE DEF got
<1>9. ASSUME NEW val, RecordsGot(writer, m, val), rs = Got(val, Len(c))
      PROVE  \E v : MessageGot(writer, reader, m, v) /\ got = Got(v, Len(c))
  <2> DEFINE v == ReadAs(reader, m, vals, val)
  <2>1. got = Got(v, Len(c)) BY <1>1, <1>8, <1>9, MessageRead DEF u0
  <2>2. v.questions = vals /\ v.records = val BY DEF ReadAs
  <2>3. v = ReadAs(reader, m, v.questions, v.records) BY <2>2
  <2> HIDE DEF v
  <2>4. MessageGot(writer, reader, m, v) BY <1>5, <1>9, <2>2, <2>3 DEF MessageGot
  <2>5. QED BY <2>1, <2>4
<1>10. ASSUME CutAtEnd(reader, c, rs, m) PROVE CutAtEnd(reader, c, got, m)
  <2>1. rs = Thrown BY <1>10 DEF CutAtEnd
  <2>2. got = rs BY <1>8, <2>1, ThrownFails DEF MessageOf
  <2>3. QED BY <1>10, <2>2
<1>11. (\E v : MessageGot(writer, reader, m, v) /\ got = Got(v, Len(c))) \/ CutAtEnd(reader, c, got, m)
  BY <1>2, <1>9, <1>10
<1>12. QED BY <1>11 DEF got, c

(* Who may write more names may write more messages.                       *)
LEMMA MoreNames ==
  ASSUME NEW v, NEW w, WrittenNames(v) \subseteq WrittenNames(w)
  PROVE  RecordsBy(v) \subseteq RecordsBy(w) /\ MessagesBy(v) \subseteq MessagesBy(w)
<1>1. RecordShapes(v) \subseteq RecordShapes(w)
  <2> DEFINE A == WrittenNames(v)
             B == WrittenNames(w)
  <2>1. \A r \in RecordShapes(v) : r \in [name : A, type : PlainTypes, class : Words, ttl : Words, data : Seq(Values)]
    BY DEF RecordShapes
  <2>2. RecordShapes(w) = [name : B, type : PlainTypes, class : Words, ttl : Words, data : Seq(Values)]
    BY DEF RecordShapes
  <2>3. A \subseteq B OBVIOUS
  <2> HIDE DEF A, B
  <2>4. QED BY <2>1, <2>2, <2>3
<1>2. \A field, val : PlainValue(v, field, val) => PlainValue(w, field, val) BY DEF PlainValue
<1>3. \A r : PlainData(v, r) => PlainData(w, r) BY <1>2 DEF PlainData
<1>4. RecordsBy(v) \subseteq RecordsBy(w) BY <1>1, <1>3 DEF RecordsBy
<1>5. Seq(WrittenNames(v)) \subseteq Seq(WrittenNames(w)) /\ Seq(RecordsBy(v)) \subseteq Seq(RecordsBy(w))
  BY <1>4, SeqMonotonic
<1>6. MessageShapes(v) \subseteq MessageShapes(w)
  <2> DEFINE A == Seq(WrittenNames(v))
             B == Seq(WrittenNames(w))
             C == Seq(RecordsBy(v))
             D == Seq(RecordsBy(w))
  <2>1. MessageShapes(v) = [id : Words, qr : 0 .. 1, mid : 0 .. 255, z : 0 .. 7, rcode : 0 .. 15,
                            questions : A, records : [1 .. 3 -> C]]
    BY DEF MessageShapes
  <2>2. MessageShapes(w) = [id : Words, qr : 0 .. 1, mid : 0 .. 255, z : 0 .. 7, rcode : 0 .. 15,
                            questions : B, records : [1 .. 3 -> D]]
    BY DEF MessageShapes
  <2>3. A \subseteq B /\ C \subseteq D BY <1>5
  <2> HIDE DEF A, B, C, D
  <2>4. [1 .. 3 -> C] \subseteq [1 .. 3 -> D] BY <2>3
  <2>5. QED BY <2>1, <2>2, <2>3, <2>4
<1>7. QED BY <1>4, <1>6 DEF MessagesBy

(* Without long names the styles do not differ in what they can say.       *)
LEMMA StyleNames ==
  /\ WrittenNames("equal") = PlainNames /\ WrittenNames("full") = PlainNames
  /\ WrittenNames("root") = ShortNames /\ ShortNames \subseteq PlainNames
  /\ PlainNames \subseteq WrittenNames("proxy")
  /\ MessagesBy("equal") = PlainMessages
  /\ MessagesBy("root") \subseteq PlainMessages
<1>1. WrittenNames("equal") = PlainNames /\ WrittenNames("full") = PlainNames /\ WrittenNames("root") = ShortNames
      /\ PlainNames \subseteq WrittenNames("proxy")
  BY DEF WrittenNames
<1>2. ShortNames \subseteq PlainNames
  <2>1. SUFFICES ASSUME NEW n \in ShortNames PROVE n \in PlainNames OBVIOUS
  <2>2. n \in Seq(Label) /\ Len(Flat(n)) <= MaxDomain BY DEF ShortNames
  <2>3. Len(Flat(n)) \in Nat BY <2>2, FlatIsBytes
  <2>4. Len(Flat(n)) <= MaxDomain + 1 BY <2>2, <2>3 DEF MaxDomain
  <2>5. QED BY <2>2, <2>4 DEF PlainNames
<1>3. MessagesBy("equal") \subseteq MessagesBy("full") /\ MessagesBy("full") \subseteq MessagesBy("equal")
      /\ MessagesBy("root") \subseteq MessagesBy("full")
  <2>1. MessagesBy("equal") \subseteq MessagesBy("full") BY <1>1, MoreNames
  <2>2. MessagesBy("full") \subseteq MessagesBy("equal") BY <1>1, MoreNames
  <2>3. MessagesBy("root") \subseteq MessagesBy("full") BY <1>1, <1>2, MoreNames
  <2>4. QED BY <2>1, <2>2, <2>3
<1>4. QED BY <1>1, <1>2, <1>3 DEF PlainMessages

-----------------------------------------------------------------------------
(* What the proxy makes of what a nameserver says.                         *)

(* What the proxy reads of a name is the name, with or without a dot at    *)
(* its end.                                                                *)
LEMMA NamePassed ==
  ASSUME NEW w \in Styles, NEW name \in WrittenNames(w), NEW read, NameRead(w, name, read)
  PROVE  /\ read \in WrittenNames("proxy") /\ Bare(read) = name /\ Bare(name) = name
         /\ w # "root" => read = name
<1>1. w # "proxy" BY DEF Styles
<1>2. name \in PlainNames /\ (w = "root" => name \in ShortNames)
  <2>1. w = "full" \/ w = "equal" \/ w = "root" BY DEF Styles
  <2>2. QED BY <2>1, StyleNames
<1>3. name \in Seq(Label) BY <1>2 DEF PlainNames
<1>4. Bare(name) = name BY <1>3, BareName
<1>5. CASE read = Bare(name) BY <1>2, <1>4, <1>5, StyleNames
<1>6. CASE read # Bare(name)
  <2>1. w = "root" /\ name # <<>> /\ read = Open(name) BY <1>1, <1>6 DEF NameRead
  <2>2. Bare(read) = name BY <1>3, <2>1, OpenName
  <2>3. read \in {Open(n) : n \in ShortNames \ {<<>>}} BY <1>2, <2>1
  <2>4. QED BY <1>4, <2>1, <2>2, <2>3 DEF WrittenNames
<1>7. QED BY <1>5, <1>6

(* The same for a field.                                                   *)
LEMMA FieldPassed ==
  ASSUME NEW w \in Styles, NEW field \in LongFields \cup OpenFields, NEW val, PlainValue(w, field, val),
         NEW read, ValueRead(w, field, val, read)
  PROVE  /\ PlainValue("proxy", field, read) /\ read \in Values
         /\ BareValue(field, read) = val /\ BareValue(field, val) = val
         /\ w # "root" => read = val
<1>0. w \in Writers BY DEF Styles, Writers
<1>1. CASE field.kind = "name"
  <2>1. val \in WrittenNames(w) /\ NameRead(w, val, read) BY <1>1 DEF PlainValue, ValueRead
  <2>2. read \in WrittenNames("proxy") /\ Bare(read) = val /\ Bare(val) = val /\ (w # "root" => read = val)
    BY <2>1, NamePassed
  <2>3. PlainValue("proxy", field, read) BY <1>1, <2>2 DEF PlainValue
  <2>4. QED BY <1>1, <2>2, <2>3 DEF BareValue, Values
<1>2. CASE field.kind # "name"
  <2>1. read = val BY <1>2 DEF ValueRead
  <2>2. BareValue(field, val) = val BY <1>2 DEF BareValue
  <2>3. val \in Values BY <1>0, <2>2, BareField
  <2>4. PlainValue("proxy", field, val) BY <1>2 DEF PlainValue
  <2>5. QED BY <2>1, <2>2, <2>3, <2>4
<1>3. QED BY <1>1, <1>2

(* The layout of a record's data.                                          *)
LEMMA DataLayout ==
  ASSUME NEW w \in Writers, NEW r \in RecordsBy(w)
  PROVE  LET fs == Fields("client", r.type)
         IN /\ Len(r.data) \in Nat /\ r.data \in Seq(Values) /\ r.data = [i \in 1 .. Len(r.data) |-> r.data[i]]
            /\ r.type \in PlainTypes
            /\ \A i \in 1 .. Len(r.data) : PlainValue(w, fs[i], r.data[i]) /\ fs[i] \in LongFields \cup OpenFields
<1>1. r.data \in Seq(Values) /\ r.type \in PlainTypes BY DEF RecordsBy, RecordShapes
<1>2. Len(r.data) \in Nat /\ r.data = [i \in 1 .. Len(r.data) |-> r.data[i]] BY <1>1
<1>3. CASE r.data = <<>>
  <2>1. \A i \in 1 .. Len(<<>>) : FALSE OBVIOUS
  <2>2. QED BY <1>1, <1>2, <1>3, <2>1
<1>4. CASE r.data # <<>> BY <1>1, <1>2, <1>4, RecordFields
<1>5. QED BY <1>3, <1>4

(* The same for a record.                                                  *)
LEMMA RecordPassed ==
  ASSUME NEW w \in Styles, NEW r \in RecordsBy(w), NEW read \in ReadRecords, RecordRead(w, r, read)
  PROVE  read \in RecordsBy("proxy") /\ BareRecord(read) = r /\ (w # "root" => read = r)
<1> DEFINE fs == Fields("client", r.type)
           n == Len(r.data)
           data == r.data
           own == read.data
<1>0. w \in Writers BY DEF Styles, Writers
<1>1. /\ n \in Nat /\ data = [i \in 1 .. n |-> data[i]] /\ r.type \in PlainTypes
      /\ \A i \in 1 .. n : PlainValue(w, fs[i], data[i]) /\ fs[i] \in LongFields \cup OpenFields
  BY <1>0, DataLayout
<1>2. /\ own \in Seq(ReadValues) /\ Len(own) = n
      /\ \A i \in 1 .. n : ValueRead(w, fs[i], data[i], own[i])
  BY DEF RecordRead, ValuesRead
<1>3. /\ r.name \in WrittenNames(w) /\ r.class \in Words /\ r.ttl \in Words
      /\ r = [name |-> r.name, type |-> r.type, class |-> r.class, ttl |-> r.ttl, data |-> data]
  BY RecordParts
<1>4. /\ NameRead(w, r.name, read.name)
      /\ read = [name |-> read.name, type |-> r.type, class |-> r.class, ttl |-> r.ttl, data |-> own]
  BY DEF RecordRead
<1>13. read.type = r.type /\ read.class = r.class /\ read.ttl = r.ttl BY <1>4
<1>5. /\ read.name \in WrittenNames("proxy") /\ Bare(read.name) = r.name /\ Bare(r.name) = r.name
      /\ w # "root" => read.name = r.name
  BY <1>3, <1>4, NamePassed
<1> HIDE DEF fs, n, data, own
<1>6. \A i \in 1 .. n : /\ PlainValue("proxy", fs[i], own[i]) /\ own[i] \in Values
                        /\ BareValue(fs[i], own[i]) = data[i] /\ BareValue(fs[i], data[i]) = data[i]
                        /\ w # "root" => own[i] = data[i]
  BY <1>1, <1>2, FieldPassed
<1>7. own = [i \in 1 .. n |-> own[i]] BY <1>2
<1>8. own \in Seq(Values) BY <1>1, <1>6, <1>7
<1>9. BareRecord(read) = r
  <2>1. [i \in 1 .. n |-> BareValue(fs[i], own[i])] = data BY <1>1, <1>6
  <2>2. BareRecord(read) = [name |-> r.name, type |-> r.type, class |-> r.class, ttl |-> r.ttl,
                            data |-> [i \in 1 .. n |-> BareValue(fs[i], own[i])]]
    BY <1>2, <1>5, <1>13 DEF BareRecord, fs, own
  <2>3. QED BY <1>3, <2>1, <2>2
<1>10. BareRecord(r) = r
  <2>1. [i \in 1 .. n |-> BareValue(fs[i], data[i])] = data BY <1>1, <1>6
  <2>2. BareRecord(r) = [name |-> r.name, type |-> r.type, class |-> r.class, ttl |-> r.ttl,
                         data |-> [i \in 1 .. n |-> BareValue(fs[i], data[i])]]
    BY <1>5 DEF BareRecord, fs, n, data
  <2>3. QED BY <1>3, <2>1, <2>2
<1>11. read \in RecordsBy("proxy")
  <2>1. read \in RecordShapes("proxy") BY <1>1, <1>3, <1>4, <1>5, <1>8 DEF RecordShapes
  <2>2. ASSUME own # <<>> PROVE PlainData("proxy", read)
    <3>1. n # 0 BY <1>2, <2>2, EmptySeq
    <3>2. r.data # <<>> BY <3>1, EmptySeq DEF n
    <3>3. n = Len(fs) /\ Len(PutData("full", <<>>, BareRecord(r))) \in 1 .. 255
      BY <3>2 DEF RecordsBy, PlainData, n, fs
    <3>4. Len(own) = Len(fs) BY <1>2, <3>3
    <3>5. QED BY <1>2, <1>6, <1>9, <1>10, <1>13, <3>3, <3>4 DEF PlainData, fs, own
  <2>3. QED BY <2>1, <2>2 DEF RecordsBy, own
<1>12. ASSUME w # "root" PROVE read = r
  <2>1. own = data BY <1>1, <1>6, <1>7, <1>12
  <2>2. QED BY <1>3, <1>4, <1>5, <1>12, <2>1
<1>14. QED BY <1>9, <1>11, <1>12

(* A question or a record without the dots at the ends of its names.       *)
BareItem(what, item) == IF what = "questions" THEN Bare(item) ELSE BareRecord(item)

(* Without such dots the items are the others.                             *)
Bares(what, items, bares) ==
  Len(items) = Len(bares) /\ \A i \in 1 .. Len(bares) : BareItem(what, items[i]) = bares[i]

(* The same for questions and records.                                     *)
LEMMA ItemsPassed ==
  ASSUME NEW what, NEW w \in Styles, NEW items \in Seq(Items(what, w)), NEW vals,
         ItemsRead(what, w, items, Len(items), vals)
  PROVE  vals \in Seq(Items(what, "proxy")) /\ Bares(what, vals, items) /\ (w # "root" => vals = items)
<1> DEFINE n == Len(items)
<1>1. n \in Nat /\ (\A i \in 1 .. n : items[i] \in Items(what, w)) /\ items = [i \in 1 .. n |-> items[i]]
  BY ElementOfSeq
<1>2. vals \in Seq(ReadItems(what)) /\ Len(vals) = n /\ \A i \in 1 .. n : ItemRead(what, w, items[i], vals[i])
  BY DEF ItemsRead
<1> HIDE DEF n
<1>3. ASSUME NEW i \in 1 .. n
      PROVE  /\ vals[i] \in Items(what, "proxy") /\ BareItem(what, vals[i]) = items[i]
             /\ w # "root" => vals[i] = items[i]
  <2>1. items[i] \in Items(what, w) /\ ItemRead(what, w, items[i], vals[i]) BY <1>1, <1>2
  <2>2. CASE what = "questions"
    <3>1. items[i] \in WrittenNames(w) /\ NameRead(w, items[i], vals[i]) BY <2>1, <2>2 DEF Items, ItemRead
    <3>2. QED BY <2>2, <3>1, NamePassed DEF Items, BareItem
  <2>3. CASE what # "questions"
    <3>1. items[i] \in RecordsBy(w) /\ vals[i] \in ReadRecords /\ RecordRead(w, items[i], vals[i])
      BY <2>1, <2>3 DEF Items, ItemRead, ReadItems
    <3>2. QED BY <2>3, <3>1, RecordPassed DEF Items, BareItem
  <2>4. QED BY <2>2, <2>3
<1>4. vals = [i \in 1 .. n |-> vals[i]] BY <1>2
<1>5. vals \in Seq(Items(what, "proxy")) BY <1>1, <1>3, <1>4
<1>6. w # "root" => vals = items BY <1>1, <1>3, <1>4
<1>7. QED BY <1>2, <1>3, <1>5, <1>6 DEF Bares, n

(* A message whose names are, without the dots at their ends, those of     *)
(* another.                                                                *)
Passed(v, m) ==
  /\ Bares("questions", v.questions, m.questions)
  /\ \A i \in 1 .. 3 : Bares("records", v.records[i], m.records[i])

(* What the proxy reads of a message is one it may be given to write.      *)
LEMMA MessagePassed ==
  ASSUME NEW w \in Styles, NEW m \in MessagesBy(w), NEW v, MessageGot(w, "proxy", m, v)
  PROVE  v \in MessagesBy("proxy") /\ Passed(v, m) /\ (w # "root" => v = Forgotten(m))
<1> DEFINE qs == v.questions
           rs == v.records
<1>1. /\ m.id \in Words /\ m.qr \in 0 .. 1 /\ m.mid \in 0 .. 255
      /\ m.questions \in Seq(WrittenNames(w)) /\ m.records \in [1 .. 3 -> Seq(RecordsBy(w))]
  BY MessageParts
<1>2. Len(m.questions) \in Words /\ \A i \in 1 .. 3 : Len(m.records[i]) \in Words BY DEF MessagesBy
<1>3. Items("questions", w) = WrittenNames(w) /\ Items("records", w) = RecordsBy(w)
      /\ Items("questions", "proxy") = WrittenNames("proxy") /\ Items("records", "proxy") = RecordsBy("proxy")
  BY DEF Items
<1>4. /\ ItemsRead("questions", w, m.questions, Len(m.questions), qs)
      /\ rs \in [1 .. 3 -> Seq(ReadRecords)]
      /\ \A i \in 1 .. 3 : ItemsRead("records", w, m.records[i], Len(m.records[i]), rs[i])
      /\ v = ReadAs("proxy", m, qs, rs)
  BY DEF MessageGot, RecordsGot
<1> HIDE DEF qs, rs
<1>5. qs \in Seq(WrittenNames("proxy")) /\ Bares("questions", qs, m.questions) /\ (w # "root" => qs = m.questions)
  BY <1>1, <1>3, <1>4, ItemsPassed
<1>6. ASSUME NEW i \in 1 .. 3
      PROVE  /\ rs[i] \in Seq(RecordsBy("proxy")) /\ Bares("records", rs[i], m.records[i])
             /\ w # "root" => rs[i] = m.records[i]
  <2>1. m.records[i] \in Seq(Items("records", w)) BY <1>1, <1>3
  <2>2. ItemsRead("records", w, m.records[i], Len(m.records[i]), rs[i]) BY <1>4
  <2>3. QED BY <1>3, <2>1, <2>2, ItemsPassed
<1>7. v = [id |-> m.id, qr |-> m.qr, mid |-> m.mid, z |-> 0, rcode |-> 0, questions |-> qs, records |-> rs]
  BY <1>4 DEF ReadAs
<1>8. rs \in [1 .. 3 -> Seq(RecordsBy("proxy"))] BY <1>4, <1>6
<1>9. v \in MessageShapes("proxy")
  <2>1. 0 \in 0 .. 7 /\ 0 \in 0 .. 15 OBVIOUS
  <2>2. QED BY <1>1, <1>5, <1>7, <1>8, <2>1 DEF MessageShapes
<1>10. v.questions = qs /\ v.records = rs BY <1>7
<1>11. Len(qs) \in Words /\ \A i \in 1 .. 3 : Len(rs[i]) \in Words BY <1>2, <1>5, <1>6 DEF Bares
<1>12. v \in MessagesBy("proxy") BY <1>9, <1>10, <1>11 DEF MessagesBy
<1>13. Passed(v, m) BY <1>5, <1>6, <1>10 DEF Passed
<1>14. ASSUME w # "root" PROVE v = Forgotten(m)
  <2>1. \A i \in 1 .. 3 : rs[i] = m.records[i] BY <1>6, <1>14
  <2>2. rs = [i \in 1 .. 3 |-> rs[i]] BY <1>4
  <2>3. m.records = [i \in 1 .. 3 |-> m.records[i]] BY <1>1
  <2>4. rs = m.records BY <2>1, <2>2, <2>3
  <2>5. QED BY <1>4, <1>5, <1>14, <2>4 DEF Forgotten
<1>15. QED BY <1>12, <1>13, <1>14

-----------------------------------------------------------------------------
(* What the client makes of what the proxy passes on.                      *)

(* Of a name it reads all labels; more of them only when the name had a    *)
(* dot at its end.                                                         *)
LEMMA NameKept ==
  ASSUME NEW name \in WrittenNames("proxy"), NEW read, NameRead("proxy", name, read)
  PROVE  SameName(TRUE, read, Bare(name)) /\ (Bare(name) = name => read = name)
<1>1. Bare(name) \in Seq(Label) BY WrittenName DEF Writers
<1>2. IsPrefix(Bare(name), Bare(name)) BY <1>1, PrefixOfItself
<1>3. QED BY <1>2 DEF NameRead, SameName

(* The same for a field.                                                   *)
FieldIsKept(type, i, field, val, read) ==
  /\ SameField(TRUE, type, i, read, BareValue(field, val))
  /\ BareValue(field, val) = val => read = val

LEMMA FieldKept ==
  ASSUME NEW type, NEW i, NEW field, field = Fields("client", type)[i], NEW val, PlainValue("proxy", field, val),
         NEW read, ValueRead("proxy", field, val, read)
  PROVE  FieldIsKept(type, i, field, val, read)
<1>1. CASE field.kind = "name"
  <2>1. val \in WrittenNames("proxy") /\ NameRead("proxy", val, read) BY <1>1 DEF PlainValue, ValueRead
  <2>2. QED BY <1>1, <2>1, NameKept DEF BareValue, SameField, FieldIsKept
<1>2. CASE field.kind # "name" BY <1>2 DEF BareValue, SameField, ValueRead, FieldIsKept
<1>3. QED BY <1>1, <1>2

(* The same for a record.                                                  *)
LEMMA RecordKept ==
  ASSUME NEW r \in RecordsBy("proxy"), NEW read, RecordRead("proxy", r, read)
  PROVE  SameRecord(TRUE, read, BareRecord(r)) /\ (BareRecord(r) = r => read = r)
<1> DEFINE fs == Fields("client", r.type)
           n == Len(r.data)
           data == r.data
           own == read.data
           bare == BareRecord(r)
<1>0. "proxy" \in Writers BY DEF Writers
<1>1. /\ n \in Nat /\ data = [i \in 1 .. n |-> data[i]]
      /\ \A i \in 1 .. n : PlainValue("proxy", fs[i], data[i])
  BY <1>0, DataLayout
<1>2. own \in Seq(ReadValues) /\ Len(own) = n /\ \A i \in 1 .. n : ValueRead("proxy", fs[i], data[i], own[i])
  BY DEF RecordRead, ValuesRead
<1>3. /\ r.name \in WrittenNames("proxy")
      /\ r = [name |-> r.name, type |-> r.type, class |-> r.class, ttl |-> r.ttl, data |-> data]
  BY RecordParts
<1>4. /\ NameRead("proxy", r.name, read.name)
      /\ read = [name |-> read.name, type |-> r.type, class |-> r.class, ttl |-> r.ttl, data |-> own]
  BY DEF RecordRead
<1>5. SameName(TRUE, read.name, Bare(r.name)) /\ (Bare(r.name) = r.name => read.name = r.name) BY <1>3, <1>4, NameKept
<1>6. bare = [name |-> Bare(r.name), type |-> r.type, class |-> r.class, ttl |-> r.ttl, data |-> bare.data]
      /\ bare.data = [i \in 1 .. n |-> BareValue(fs[i], data[i])]
  BY DEF BareRecord
<1> HIDE DEF fs, n, data, own, bare
<1>7. ASSUME NEW i \in 1 .. n
      PROVE  /\ SameField(TRUE, r.type, i, own[i], BareValue(fs[i], data[i]))
             /\ BareValue(fs[i], data[i]) = data[i] => own[i] = data[i]
  <2> DEFINE field == fs[i]
             val == data[i]
             is == own[i]
  <2>1. field = Fields("client", r.type)[i] BY DEF fs
  <2>2. PlainValue("proxy", field, val) /\ ValueRead("proxy", field, val, is) BY <1>1, <1>2
  <2> HIDE DEF field, val, is
  <2>3. FieldIsKept(r.type, i, field, val, is) BY <2>1, <2>2, FieldKept
  <2>4. QED BY <2>3 DEF FieldIsKept, field, val, is
<1>8. bare.name = Bare(r.name) /\ bare.type = r.type BY <1>6
<1>9. DOMAIN own = 1 .. n /\ own = [i \in 1 .. n |-> own[i]] BY <1>1, <1>2
<1>10. DOMAIN bare.data = 1 .. n /\ \A i \in 1 .. n : bare.data[i] = BareValue(fs[i], data[i]) BY <1>6
<1>11. [read EXCEPT !.name = bare.name, !.data = bare.data] = bare
  <2> DEFINE nm == read.name
  <2>1. read = [name |-> nm, type |-> r.type, class |-> r.class, ttl |-> r.ttl, data |-> own] BY <1>4
  <2> DEFINE was == [name |-> nm, type |-> r.type, class |-> r.class, ttl |-> r.ttl, data |-> own]
             is == [name |-> bare.name, type |-> r.type, class |-> r.class, ttl |-> r.ttl, data |-> bare.data]
  <2>2. [was EXCEPT !.name = bare.name, !.data = bare.data] = is
    <3> DEFINE y == [was EXCEPT !.name = bare.name, !.data = bare.data]
               fields == {"name", "type", "class", "ttl", "data"}
    <3>1. DOMAIN was = fields OBVIOUS
    <3>2. y = [i \in DOMAIN was |-> y[i]] OBVIOUS
    <3>3. is = [i \in fields |-> is[i]] OBVIOUS
    <3>4. y["name"] = bare.name /\ y["data"] = bare.data OBVIOUS
    <3>5. y["type"] = r.type /\ y["class"] = r.class /\ y["ttl"] = r.ttl OBVIOUS
    <3>6. is["name"] = bare.name /\ is["data"] = bare.data
          /\ is["type"] = r.type /\ is["class"] = r.class /\ is["ttl"] = r.ttl
      OBVIOUS
    <3> HIDE DEF was, is, y
    <3>7. \A i \in fields : y[i] = is[i] BY <3>4, <3>5, <3>6
    <3>8. y = is BY <3>1, <3>2, <3>3, <3>7
    <3>9. QED BY <3>8 DEF y
  <2>3. read = was BY <2>1
  <2>4. bare = is BY <1>6, <1>8
  <2> HIDE DEF was, is
  <2>5. [read EXCEPT !.name = bare.name, !.data = bare.data] = bare BY ONLY <2>2, <2>3, <2>4
  <2>6. QED BY <2>5
<1>12. SameRecord(TRUE, read, bare)
  BY <1>5, <1>7, <1>8, <1>9, <1>10, <1>11 DEF SameRecord, own
<1>13. ASSUME bare = r PROVE read = r
  <2>1. Bare(r.name) = r.name BY <1>8, <1>13
  <2>2. \A i \in 1 .. n : BareValue(fs[i], data[i]) = data[i] BY <1>10, <1>13 DEF data
  <2>3. own = data BY <1>1, <1>7, <1>9, <2>2
  <2>4. QED BY <1>3, <1>4, <1>5, <2>1, <2>3
<1>14. QED BY <1>12, <1>13 DEF bare

(* What is read of a question or a record has the labels of what was said. *)
SameItem(what, read, sent) ==
  IF what = "questions" THEN SameName(TRUE, read, sent) ELSE SameRecord(TRUE, read, sent)
SameItems(what, reads, sents) ==
  Len(reads) = Len(sents) /\ \A i \in 1 .. Len(sents) : SameItem(what, reads[i], sents[i])

(* The same for questions and records.                                     *)
LEMMA ItemsKept ==
  ASSUME NEW what, NEW items \in Seq(Items(what, "proxy")), NEW bares, Bares(what, items, bares),
         NEW vals, ItemsRead(what, "proxy", items, Len(items), vals)
  PROVE  SameItems(what, vals, bares) /\ (items = bares => vals = items)
<1> DEFINE n == Len(items)
<1>1. n \in Nat /\ (\A i \in 1 .. n : items[i] \in Items(what, "proxy")) /\ items = [i \in 1 .. n |-> items[i]]
  BY ElementOfSeq
<1>2. vals \in Seq(ReadItems(what)) /\ Len(vals) = n /\ \A i \in 1 .. n : ItemRead(what, "proxy", items[i], vals[i])
  BY DEF ItemsRead
<1>3. Len(bares) = n /\ \A i \in 1 .. n : BareItem(what, items[i]) = bares[i] BY DEF Bares
<1> HIDE DEF n
<1>4. ASSUME NEW i \in 1 .. n
      PROVE  SameItem(what, vals[i], bares[i]) /\ (bares[i] = items[i] => vals[i] = items[i])
  <2>1. /\ items[i] \in Items(what, "proxy") /\ ItemRead(what, "proxy", items[i], vals[i])
        /\ BareItem(what, items[i]) = bares[i]
    BY <1>1, <1>2, <1>3
  <2>2. CASE what = "questions"
    <3>1. items[i] \in WrittenNames("proxy") /\ NameRead("proxy", items[i], vals[i]) BY <2>1, <2>2 DEF Items, ItemRead
    <3>2. QED BY <2>1, <2>2, <3>1, NameKept DEF BareItem, SameItem
  <2>3. CASE what # "questions"
    <3>1. items[i] \in RecordsBy("proxy") /\ RecordRead("proxy", items[i], vals[i]) BY <2>1, <2>3 DEF Items, ItemRead
    <3>2. QED BY <2>1, <2>3, <3>1, RecordKept DEF BareItem, SameItem
  <2>4. QED BY <2>2, <2>3
<1>5. vals = [i \in 1 .. n |-> vals[i]] BY <1>2
<1>6. items = bares => vals = items BY <1>1, <1>4, <1>5
<1>7. QED BY <1>2, <1>3, <1>4, <1>6 DEF SameItems

(* The client reads what was said, but for labels that follow.             *)
LEMMA MessageKept ==
  ASSUME NEW w \in Styles, NEW m \in MessagesBy(w), NEW v \in MessagesBy("proxy"), Passed(v, m),
         v = ReadAs("proxy", m, v.questions, v.records),
         NEW x, MessageGot("proxy", "client", v, x)
  PROVE  SameMessage(TRUE, x, m) /\ (v = Forgotten(m) => x = v)
<1> DEFINE sent == Forgotten(m)
           qs == x.questions
           rs == x.records
<1>1. /\ v.questions \in Seq(WrittenNames("proxy")) /\ v.records \in [1 .. 3 -> Seq(RecordsBy("proxy"))]
      /\ m.questions \in Seq(WrittenNames(w)) /\ m.records \in [1 .. 3 -> Seq(RecordsBy(w))]
  BY MessageParts
<1>2. Items("questions", "proxy") = WrittenNames("proxy") /\ Items("records", "proxy") = RecordsBy("proxy")
  BY DEF Items
<1>3. /\ ItemsRead("questions", "proxy", v.questions, Len(v.questions), qs)
      /\ rs \in [1 .. 3 -> Seq(ReadRecords)]
      /\ \A i \in 1 .. 3 : ItemsRead("records", "proxy", v.records[i], Len(v.records[i]), rs[i])
      /\ x = ReadAs("client", v, qs, rs)
  BY DEF MessageGot, RecordsGot
<1>4. /\ sent = [id |-> m.id, qr |-> m.qr, mid |-> m.mid, z |-> 0, rcode |-> 0,
                 questions |-> m.questions, records |-> m.records]
      /\ sent.questions = m.questions /\ sent.records = m.records
  BY DEF Forgotten, ReadAs
<1> HIDE DEF qs, rs, sent
<1>5. SameItems("questions", qs, m.questions) /\ (v.questions = m.questions => qs = v.questions)
  <2>1. Bares("questions", v.questions, m.questions) BY DEF Passed
  <2>2. v.questions \in Seq(Items("questions", "proxy")) BY <1>1, <1>2
  <2>3. QED BY <1>3, <2>1, <2>2, ItemsKept
<1>6. ASSUME NEW i \in 1 .. 3
      PROVE  SameItems("records", rs[i], m.records[i]) /\ (v.records[i] = m.records[i] => rs[i] = v.records[i])
  <2>1. Bares("records", v.records[i], m.records[i]) BY DEF Passed
  <2>2. v.records[i] \in Seq(Items("records", "proxy")) BY <1>1, <1>2
  <2>3. ItemsRead("records", "proxy", v.records[i], Len(v.records[i]), rs[i]) BY <1>3
  <2>4. QED BY <2>1, <2>2, <2>3, ItemsKept
<1>7. v.id = m.id /\ v.qr = m.qr /\ v.mid = m.mid /\ v.z = 0 /\ v.rcode = 0 BY DEF ReadAs
<1>8. x = [id |-> m.id, qr |-> m.qr, mid |-> m.mid, z |-> 0, rcode |-> 0, questions |-> qs, records |-> rs]
  BY <1>3, <1>7 DEF ReadAs
<1>9. [x EXCEPT !.z = m.z, !.rcode = m.rcode, !.questions = m.questions, !.records = m.records] = m
  <2> DEFINE was == [id |-> m.id, qr |-> m.qr, mid |-> m.mid, z |-> 0, rcode |-> 0, questions |-> qs, records |-> rs]
             is == [id |-> m.id, qr |-> m.qr, mid |-> m.mid, z |-> m.z, rcode |-> m.rcode,
                    questions |-> m.questions, records |-> m.records]
  <2>1. [was EXCEPT !.z = m.z, !.rcode = m.rcode, !.questions = m.questions, !.records = m.records] = is
    <3> DEFINE y == [was EXCEPT !.z = m.z, !.rcode = m.rcode, !.questions = m.questions, !.records = m.records]
               fields == {"id", "qr", "mid", "z", "rcode", "questions", "records"}
    <3>1. DOMAIN was = fields OBVIOUS
    <3>2. y = [i \in DOMAIN was |-> y[i]] OBVIOUS
    <3>3. is = [i \in fields |-> is[i]] OBVIOUS
    <3>4. y["questions"] = m.questions /\ y["records"] = m.records OBVIOUS
    <3>5. y["id"] = m.id /\ y["qr"] = m.qr /\ y["mid"] = m.mid /\ y["z"] = m.z /\ y["rcode"] = m.rcode OBVIOUS
    <3>6. is["questions"] = m.questions /\ is["records"] = m.records
          /\ is["id"] = m.id /\ is["qr"] = m.qr /\ is["mid"] = m.mid /\ is["z"] = m.z /\ is["rcode"] = m.rcode
      OBVIOUS
    <3> HIDE DEF was, is, y
    <3>7. \A i \in fields : y[i] = is[i] BY <3>4, <3>5, <3>6
    <3>8. y = is BY <3>1, <3>2, <3>3, <3>7
    <3>9. QED BY <3>8 DEF y
  <2>2. x = was /\ m = is BY <1>8, MessageParts
  <2> HIDE DEF was, is
  <2>3. QED BY ONLY <2>1, <2>2
<1>10. DOMAIN m.questions = 1 .. Len(m.questions) /\ \A i \in 1 .. 3 : DOMAIN m.records[i] = 1 .. Len(m.records[i])
  <2>1. \A i \in 1 .. 3 : m.records[i] \in Seq(RecordsBy(w)) BY <1>1
  <2>2. QED BY <1>1, <2>1
<1>11. Len(qs) = Len(m.questions) /\ \A i \in DOMAIN m.questions : SameName(TRUE, qs[i], m.questions[i])
  BY <1>5, <1>10 DEF SameItems, SameItem
<1>12. \A i \in 1 .. 3 : /\ Len(rs[i]) = Len(m.records[i])
                         /\ \A j \in DOMAIN m.records[i] : SameRecord(TRUE, rs[i][j], m.records[i][j])
  BY <1>6, <1>10 DEF SameItems, SameItem
<1>13. SameMessage(TRUE, x, m)
  <2>1. x.questions = qs /\ x.records = rs BY DEF qs, rs
  <2>2. QED BY <1>9, <1>11, <1>12, <2>1 DEF SameMessage
<1>14. ASSUME v = sent PROVE x = v
  <2>1. qs = m.questions BY <1>4, <1>5, <1>14
  <2>2. \A i \in 1 .. 3 : rs[i] = m.records[i] BY <1>4, <1>6, <1>14
  <2>3. rs = [i \in 1 .. 3 |-> rs[i]] BY <1>3
  <2>4. m.records = [i \in 1 .. 3 |-> m.records[i]] BY <1>1
  <2>5. rs = m.records BY <2>2, <2>3, <2>4
  <2>6. QED BY <1>4, <1>8, <1>14, <2>1, <2>5
<1>15. QED BY <1>13, <1>14 DEF sent

(* What only lost the header's last bits is the same.                      *)
LEMMA ForgottenIsSame ==
  ASSUME NEW w, NEW m \in MessagesBy(w)
  PROVE  SameMessage(FALSE, Forgotten(m), m)
<1> DEFINE x == Forgotten(m)
<1>1. /\ m = [id |-> m.id, qr |-> m.qr, mid |-> m.mid, z |-> m.z, rcode |-> m.rcode,
              questions |-> m.questions, records |-> m.records]
      /\ m.records \in [1 .. 3 -> Seq(RecordsBy(w))]
  BY MessageParts
<1>2. x = [id |-> m.id, qr |-> m.qr, mid |-> m.mid, z |-> 0, rcode |-> 0,
           questions |-> m.questions, records |-> m.records]
  BY DEF Forgotten, ReadAs
<1>3. [x EXCEPT !.z = m.z, !.rcode = m.rcode, !.questions = m.questions, !.records = m.records] = m
  <2> DEFINE was == [id |-> m.id, qr |-> m.qr, mid |-> m.mid, z |-> 0, rcode |-> 0,
                     questions |-> m.questions, records |-> m.records]
             is == [id |-> m.id, qr |-> m.qr, mid |-> m.mid, z |-> m.z, rcode |-> m.rcode,
                    questions |-> m.questions, records |-> m.records]
  <2>1. [was EXCEPT !.z = m.z, !.rcode = m.rcode, !.questions = m.questions, !.records = m.records] = is
    <3> DEFINE y == [was EXCEPT !.z = m.z, !.rcode = m.rcode, !.questions = m.questions, !.records = m.records]
               fields == {"id", "qr", "mid", "z", "rcode", "questions", "records"}
    <3>1. DOMAIN was = fields OBVIOUS
    <3>2. y = [i \in DOMAIN was |-> y[i]] OBVIOUS
    <3>3. is = [i \in fields |-> is[i]] OBVIOUS
    <3>4. y["questions"] = m.questions /\ y["records"] = m.records OBVIOUS
    <3>5. y["id"] = m.id /\ y["qr"] = m.qr /\ y["mid"] = m.mid /\ y["z"] = m.z /\ y["rcode"] = m.rcode OBVIOUS
    <3>6. is["questions"] = m.questions /\ is["records"] = m.records
          /\ is["id"] = m.id /\ is["qr"] = m.qr /\ is["mid"] = m.mid /\ is["z"] = m.z /\ is["rcode"] = m.rcode
      OBVIOUS
    <3> HIDE DEF was, is, y
    <3>7. \A i \in fields : y[i] = is[i] BY <3>4, <3>5, <3>6
    <3>8. y = is BY <3>1, <3>2, <3>3, <3>7
    <3>9. QED BY <3>8 DEF y
  <2>2. x = was /\ m = is BY <1>1, <1>2
  <2> HIDE DEF was, is, x
  <2>3. QED BY ONLY <2>1, <2>2
<1>4. x.questions = m.questions /\ x.records = m.records BY <1>2
<1> HIDE DEF x
<1>5. \A name : SameName(FALSE, name, name) BY DEF SameName
<1>6. ASSUME NEW i \in 1 .. 3, NEW j \in DOMAIN m.records[i]
      PROVE  SameRecord(FALSE, m.records[i][j], m.records[i][j])
  <2> DEFINE r == m.records[i][j]
  <2>1. m.records[i] \in Seq(RecordsBy(w)) BY <1>1
  <2>2. r \in RecordsBy(w) BY <2>1
  <2>3. r = [name |-> r.name, type |-> r.type, class |-> r.class, ttl |-> r.ttl, data |-> r.data]
    BY <2>2, RecordParts
  <2> HIDE DEF r
  <2>4. [r EXCEPT !.name = r.name, !.data = r.data] = r BY <2>3
  <2>5. \A k \in DOMAIN r.data : SameField(FALSE, r.type, k, r.data[k], r.data[k]) BY DEF SameField
  <2>6. SameRecord(FALSE, r, r) BY <1>5, <2>4, <2>5 DEF SameRecord
  <2>7. QED BY <2>6 DEF r
<1>7. QED BY <1>3, <1>4, <1>5, <1>6 DEF SameMessage, x

(* A message with names no longer than the proxy can read, in the style in *)
(* which they are written.                                                 *)
SaidPlainly == said \in MessagesBy(style)

(* What the nameserver sent is what it wrote.                              *)
WrittenPlain ==
  /\ datagram \in ByteString /\ datagram \in Buffers /\ Len(datagram) <= BufferSize
  /\ said # <<>> => style \in Styles /\ datagram = EncodeAs(style, said)

(* What the proxy knows and sends, by its stage.                           *)
DecodedPlain ==
  /\ stage \in {"received", "skipped", "decoded", "dropped", "relayed", "undefined"}
  /\ stage # "received" => message = Decode(datagram)
  /\ stage \in {"decoded", "dropped", "relayed"} => message.ok
  /\ stage \in {"skipped", "undefined"} => ~message.ok
  /\ stage = "undefined" => message = Failed("undefined")
  /\ stage = "relayed" => ~EncodeThrows(message.val) /\ relayed = EncodeBytes(message.val)
  /\ stage = "dropped" => EncodeThrows(message.val)

(* The inductive invariant of a message's way through the proxy.           *)
OnItsWay == WrittenPlain /\ DecodedPlain

(* It holds of every message, plain or not.                                *)
LEMMA OnItsWayHolds == Spec => []OnItsWay
<1>1. Init => OnItsWay
  <2> SUFFICES ASSUME Init PROVE OnItsWay OBVIOUS
  <2>1. datagram \in Seq(0 .. 255) /\ Len(datagram) <= BufferSize BY DEF Init, InitialBytes
  <2>2. BufferSize <= 16384 BY BufferAssumption
  <2>3. datagram \in Buffers BY <2>1, <2>2, BufferAssumption DEF Buffers, ByteString
  <2>4. said # <<>> => style \in Styles /\ datagram = EncodeAs(style, said) BY DEF Init, InitialBytes
  <2>5. DecodedPlain BY DEF Init, DecodedPlain
  <2>6. datagram \in ByteString BY <2>1 DEF ByteString
  <2>7. QED BY <2>1, <2>3, <2>4, <2>5, <2>6 DEF OnItsWay, WrittenPlain
<1>2. OnItsWay /\ [Next]_vars => OnItsWay'
  <2> SUFFICES ASSUME OnItsWay, [Next]_vars PROVE OnItsWay' OBVIOUS
  <2>1. CASE DecodeStep
    <3>1. WrittenPlain' BY <2>1 DEF DecodeStep, OnItsWay, WrittenPlain
    <3>2. message' = Decode(datagram') BY <2>1 DEF DecodeStep
    <3>3. stage' = CASE message'.ok -> "decoded" [] message' = Failed("undefined") -> "undefined"
                     [] OTHER -> "skipped"
      BY <2>1 DEF DecodeStep
    <3>4. ~Failed("undefined").ok BY DEF Failed
    <3>5. CASE message'.ok
      <4>1. message' # Failed("undefined") BY <3>4, <3>5
      <4>2. stage' = "decoded" BY <3>3, <3>5, <4>1
      <4>3. QED BY <3>1, <3>2, <3>5, <4>2 DEF OnItsWay, DecodedPlain
    <3>6. CASE ~message'.ok
      <4>1. /\ stage' \in {"undefined", "skipped"}
            /\ stage' = "undefined" => message' = Failed("undefined")
        BY <3>3, <3>6
      <4>2. QED BY <3>1, <3>2, <3>6, <4>1 DEF OnItsWay, DecodedPlain
    <3>7. QED BY <3>5, <3>6
  <2>2. CASE EncodeStep
    <3>1. WrittenPlain' BY <2>2 DEF EncodeStep, OnItsWay, WrittenPlain
    <3>2. message' = Decode(datagram') /\ message'.ok
      BY <2>2 DEF EncodeStep, OnItsWay, DecodedPlain
    <3>3. \/ stage' = "dropped" /\ EncodeThrows(message'.val)
          \/ stage' = "relayed" /\ ~EncodeThrows(message'.val) /\ relayed' = EncodeBytes(message'.val)
      BY <2>2 DEF EncodeStep
    <3>4. QED BY <3>1, <3>2, <3>3 DEF OnItsWay, DecodedPlain
  <2>3. CASE UNCHANGED vars
    BY <2>3 DEF vars, OnItsWay, WrittenPlain, DecodedPlain
  <2>4. QED BY <2>1, <2>2, <2>3 DEF Next
<1>3. QED BY <1>1, <1>2, PTL DEF Spec

(* A plain message is none of the datagrams no nameserver should send.     *)
LEMMA PlainIsSaid == \A m \in PlainMessages : m # <<>>
<1> SUFFICES ASSUME NEW m \in PlainMessages PROVE m # <<>> OBVIOUS
<1>1. m \in MessageShapes("full") BY DEF PlainMessages, MessagesBy
<1>2. DOMAIN m = {"id", "qr", "mid", "z", "rcode", "questions", "records"} BY <1>1 DEF MessageShapes
<1>3. "id" \in DOMAIN m BY <1>2
<1>4. DOMAIN <<>> = {} BY EmptySeq
<1>5. QED BY <1>3, <1>4

(* A nameserver that writes no links to the root has said every plain      *)
(* message in its own style.                                               *)
LEMMA PlainIsSaidPlainly ==
  ASSUME OnItsWay, said \in PlainMessages, style # "root"
  PROVE  SaidPlainly
<1>1. style \in Styles BY PlainIsSaid DEF OnItsWay, WrittenPlain
<1>2. style = "full" \/ style = "equal" BY <1>1 DEF Styles
<1>3. QED BY <1>2, StyleNames DEF SaidPlainly, PlainMessages

(* What was said is plain, and was written in one of the styles.           *)
LEMMA SentIsWritten ==
  ASSUME OnItsWay, SaidPlainly
  PROVE  style \in Styles /\ said \in PlainMessages /\ datagram = EncodeAs(style, said)
<1>1. \A w : w \notin {"proxy", "root"} => MessagesBy(w) = PlainMessages
  <2> SUFFICES ASSUME NEW w, w \notin {"proxy", "root"} PROVE MessagesBy(w) = PlainMessages OBVIOUS
  <2>1. WrittenNames(w) = PlainNames BY DEF WrittenNames
  <2>2. WrittenNames(w) \subseteq WrittenNames("full") /\ WrittenNames("full") \subseteq WrittenNames(w)
    BY <2>1, StyleNames
  <2>3. MessagesBy(w) \subseteq MessagesBy("full") /\ MessagesBy("full") \subseteq MessagesBy(w) BY <2>2, MoreNames
  <2>4. QED BY <2>3 DEF PlainMessages
<1>2. said # <<>>
  <2>1. CASE style = "proxy"
    <3>1. said \in MessageShapes("proxy") BY <2>1 DEF SaidPlainly, MessagesBy
    <3>2. DOMAIN said = {"id", "qr", "mid", "z", "rcode", "questions", "records"} BY <3>1 DEF MessageShapes
    <3>3. "id" \in DOMAIN said BY <3>2
    <3>4. DOMAIN <<>> = {} BY EmptySeq
    <3>5. QED BY <3>3, <3>4
  <2>2. CASE style # "proxy"
    <3>1. said \in PlainMessages BY <1>1, <2>2, StyleNames DEF SaidPlainly
    <3>2. QED BY <3>1, PlainIsSaid
  <2>3. QED BY <2>1, <2>2
<1>3. style \in Styles /\ datagram = EncodeAs(style, said) BY <1>2 DEF OnItsWay, WrittenPlain
<1>4. said \in PlainMessages BY <1>1, <1>3, StyleNames DEF SaidPlainly, Styles
<1>5. QED BY <1>3, <1>4

(* What the proxy may have understood.                                     *)
Understood(v) ==
  /\ v \in MessagesBy("proxy") /\ Passed(v, said)
  /\ v = ReadAs("proxy", said, v.questions, v.records)
  /\ style # "root" => v = Forgotten(said)

(* The proxy has read it, or skipped it for the link at its end.           *)
LEMMA SentIsDecoded ==
  ASSUME OnItsWay, SaidPlainly, stage # "received"
  PROVE  \/ \E v : Understood(v) /\ message = Got(v, Len(datagram))
         \/ message = Thrown /\ CutAtEnd("proxy", datagram, message, said)
<1>1. style \in Styles /\ datagram = EncodeAs(style, said) BY SentIsWritten
<1>2. style \in Writers /\ "proxy" \in ReadersOf(style) BY <1>1 DEF Styles, Writers, ReadersOf
<1>3. datagram \in Buffers BY DEF OnItsWay, WrittenPlain
<1>4. message = DecodeAs("proxy", datagram) BY DEF OnItsWay, DecodedPlain, Decode
<1>5. said \in MessagesBy(style) BY DEF SaidPlainly
<1>6. \/ \E v : MessageGot(style, "proxy", said, v) /\ message = Got(v, Len(datagram))
      \/ CutAtEnd("proxy", datagram, message, said)
  BY <1>1, <1>2, <1>3, <1>4, <1>5, DecodeReads
<1>7. ASSUME NEW v, MessageGot(style, "proxy", said, v) PROVE Understood(v)
  <2>1. v \in MessagesBy("proxy") /\ Passed(v, said) /\ (style # "root" => v = Forgotten(said))
    BY <1>1, <1>5, <1>7, MessagePassed
  <2>2. v = ReadAs("proxy", said, v.questions, v.records) BY <1>7 DEF MessageGot
  <2>3. QED BY <2>1, <2>2 DEF Understood
<1>8. QED BY <1>6, <1>7 DEF CutAtEnd

(* The client reads what the nameserver said, but for labels that follow   *)
(* its names when the nameserver links to the root.                        *)
LEMMA RelayedReads ==
  ASSUME OnItsWay, SaidPlainly, stage = "relayed"
  PROVE  Keeps(TRUE) /\ (style # "root" => Keeps(FALSE))
<1>1. style \in Styles /\ said \in PlainMessages /\ said \in MessagesBy(style) BY SentIsWritten DEF SaidPlainly
<1>2. message.ok /\ relayed = EncodeBytes(message.val) /\ ~EncodeThrows(message.val)
  BY DEF OnItsWay, DecodedPlain
<1>3. PICK v : Understood(v) /\ message = Got(v, Len(datagram)) BY <1>2, ThrownFails, SentIsDecoded
<1>4. message.val = v BY <1>3 DEF Got
<1>5. /\ v \in MessagesBy("proxy") /\ Passed(v, said) /\ v = ReadAs("proxy", said, v.questions, v.records)
      /\ style # "root" => v = Forgotten(said)
  BY <1>3 DEF Understood
<1>6. "proxy" \in Writers /\ "client" \in ReadersOf("proxy") BY DEF Writers, ReadersOf
<1>7. relayed = EncodeAs("proxy", v) /\ ~EncodeThrows(v) BY <1>2, <1>4 DEF EncodeBytes
<1>8. relayed \in ByteString BY <1>5, <1>6, <1>7, MessageWritten
<1>9. Len(relayed) <= BufferSize
  <2>1. Len(relayed) \in Nat BY <1>8 DEF ByteString
  <2>2. ~(Len(relayed) > BufferSize) BY <1>7 DEF EncodeThrows, EncodeBytes
  <2>3. QED BY <2>1, <2>2, BufferAssumption
<1>10. relayed \in Buffers
  <2>1. BufferSize <= 16384 BY BufferAssumption
  <2>2. BufferSize \in Nat BY BufferAssumption
  <2>3. Len(relayed) \in Nat BY <1>8 DEF ByteString
  <2>4. QED BY <1>8, <1>9, <2>1, <2>2, <2>3 DEF Buffers
<1>11. \/ \E x : MessageGot("proxy", "client", v, x) /\ ReadByRFC = Got(x, Len(relayed))
       \/ CutAtEnd("client", relayed, ReadByRFC, v)
  BY <1>5, <1>6, <1>7, <1>10, DecodeReads DEF ReadByRFC
<1>12. PICK x : MessageGot("proxy", "client", v, x) /\ ReadByRFC = Got(x, Len(relayed))
  BY <1>11 DEF CutAtEnd
<1>13. SameMessage(TRUE, x, said) /\ (v = Forgotten(said) => x = v) BY <1>1, <1>5, <1>12, MessageKept
<1>14. SameMessage(FALSE, Forgotten(said), said) BY <1>1, ForgottenIsSame
<1>15. ReadByRFC.ok /\ ReadByRFC.val = x BY <1>12 DEF Got
<1>16. QED BY <1>5, <1>13, <1>14, <1>15 DEF Keeps

(* Whatever records a nameserver sends, in full or with its names linked   *)
(* to equal bytes, the client reads them as they were said: what           *)
(* Message::decode makes of the links and Message::encode of the names     *)
(* (buffer.cpp:253-387) loses nothing of a plain message but the header's  *)
(* last bits.                                                              *)
THEOREM OnlyTheseChangePlain == Spec => [](said \in PlainMessages => OnlyTheseChange)
<1>1. OnItsWay => (said \in PlainMessages => OnlyTheseChange)
  BY PlainIsSaidPlainly, RelayedReads DEF OnlyTheseChange, Relayed
<1>2. QED BY <1>1, OnItsWayHolds, PTL

(* Whichever way the nameserver shortens names, with links to the root     *)
(* too, the client reads all its records, each with the labels of its      *)
(* names: what the proxy makes of such a link, a name with a dot at its    *)
(* end, which it looks up without its end (buffer.cpp:367), costs no label *)
(* and no byte of other data.  Labels that were not said may follow, which *)
(* the statement does not exclude.                                         *)
THEOREM LabelsKeptPlain == Spec => [](SaidPlainly => LabelsKept)
<1>1. OnItsWay => (SaidPlainly => LabelsKept) BY RelayedReads DEF LabelsKept, Relayed
<1>2. QED BY <1>1, OnItsWayHolds, PTL

(* The proxy skips such a message only when its last two bytes are a link  *)
(* (buffer.cpp:291), and never reaches undefined behaviour.                *)
THEOREM SkipsNothingElsePlain == Spec => [](SaidPlainly => SkipsNothingElse)
<1>1. OnItsWay => (SaidPlainly => SkipsNothingElse)
  <2> SUFFICES ASSUME OnItsWay, SaidPlainly PROVE SkipsNothingElse OBVIOUS
  <2>1. said \in MessagesBy(style) BY DEF SaidPlainly
  <2>2. \A val, pos : Got(val, pos).ok BY DEF Got
  <2>3. Thrown # Failed("undefined") BY DEF Thrown, Failed
  <2>4. stage # "undefined"
    <3> SUFFICES ASSUME stage = "undefined" PROVE FALSE OBVIOUS
    <3>1. message = Failed("undefined") /\ ~message.ok BY DEF OnItsWay, DecodedPlain
    <3>2. QED BY <2>2, <2>3, <3>1, SentIsDecoded
  <2>5. ASSUME stage = "skipped" PROVE Records(said) # <<>> /\ EndsInLink
    <3>1. ~message.ok BY <2>5 DEF OnItsWay, DecodedPlain
    <3>2. CutAtEnd("proxy", datagram, message, said) BY <2>2, <2>5, <3>1, SentIsDecoded
    <3> DEFINE r == Last(Records(said))
               S == RecordsBy(style)
    <3>3. Records(said) # <<>> /\ EndsInName(r) /\ Byte(datagram, Len(datagram) - 2) >= LinkTag
      BY <3>2 DEF CutAtEnd
    <3>4. r \in S
      <4>1. Records(said) \in Seq(S)
        <5> DEFINE r1 == said.records[1]
                   r2 == said.records[2]
                   r3 == said.records[3]
        <5>1. r1 \in Seq(S) /\ r2 \in Seq(S) /\ r3 \in Seq(S) /\ Records(said) = (r1 \o r2) \o r3
          BY <2>1, RecordsOf
        <5> HIDE DEF r1, r2, r3, S
        <5>2. (r1 \o r2) \in Seq(S) BY <5>1
        <5>3. QED BY <5>1, <5>2
      <4> HIDE DEF S
      <4>2. Len(Records(said)) \in 1 .. Len(Records(said)) BY <3>3, <4>1, EmptySeq
      <4>3. QED BY <4>1, <4>2, ElementOfSeq DEF Last
    <3>5. r.type \in PlainTypes BY <3>4 DEF RecordsBy, RecordShapes
    <3> HIDE DEF r
    <3>6. Fields("nameserver", r.type) = Fields("client", r.type) BY <3>5, PlainLayout
    <3>7. QED BY <3>3, <3>6 DEF EndsInLink, EndsInName, r
  <2>6. QED BY <2>4, <2>5 DEF SkipsNothingElse
<1>2. QED BY <1>1, OnItsWayHolds, PTL

-----------------------------------------------------------------------------
(* Nothing gets longer.                                                    *)

(* In full, or with a link to the root instead of the zero byte, a field   *)
(* takes at least the bytes of its text.                                   *)
LEMMA FieldNotShorter ==
  ASSUME NEW f \in ByteString, NEW other \in {"full", "root"}, NEW field \in LongFields \cup OpenFields,
         NEW val, PlainValue(other, field, val)
  PROVE  LET t == PutField(other, f, field, val)
         IN t \in ByteString /\ Len(f) + Len(FieldText(field, val)) <= Len(t)
<1> DEFINE t == PutField(other, f, field, val)
           text == FieldText(field, val)
<1>1. other \in Writers BY DEF Writers
<1>2. t \in ByteString BY <1>1, PutFieldAdds DEF Adds
<1>3. text \in ByteString BY <1>1, FieldTextType
<1>4. CASE t = f \o text
  <2> HIDE DEF t, text
  <2>1. Len(t) = Len(f) + Len(text) BY <1>3, <1>4, ConcatLen
  <2>2. Len(t) \in Nat /\ Len(f) \in Nat /\ Len(text) \in Nat BY <1>2, <1>3 DEF ByteString
  <2>3. Len(f) + Len(text) <= Len(t) BY <2>1, <2>2
  <2>4. QED BY <1>2, <2>3 DEF t, text
<1>5. CASE t # f \o text
  <2> DEFINE name == Bare(val)
             n == Len(Flat(name))
             linked == Linked(name, EndOfName(f, 12) - 1)
  <2>1. field.kind = "name" /\ Put(other, f, val, t) BY <1>1, <1>5, PutFieldForm
  <2>2. text = InFull(name) BY <2>1 DEF FieldText
  <2>3. other = "root" BY <1>1, <1>5, PutFieldForm
  <2>4. val \in WrittenNames(other) BY <2>1 DEF PlainValue
  <2>5. name \in Seq(Label) /\ val = name BY <1>1, <2>3, <2>4, WrittenName
  <2>6. Len(f) > 12 /\ t = f \o Linked(val, EndOfName(f, 12) - 1) BY <1>5, <2>1, <2>2, <2>3 DEF Put
  <2>7. t = f \o linked BY <2>5, <2>6
  <2>8. Len(text) = n + 1 /\ n \in Nat BY <2>2, <2>5, FlatIsBytes
  <2>9. linked \in ByteString /\ Len(linked) = n + 2 BY <2>5, FirstEnd, LinkedIsBytes
  <2> HIDE DEF t, text, linked, n, name
  <2>10. Len(t) = Len(f) + (n + 2) BY <2>7, <2>9, ConcatLen
  <2>11. Len(f) \in Nat BY DEF ByteString
  <2>12. Len(f) + Len(text) <= Len(t) BY <2>8, <2>10, <2>11
  <2>13. QED BY <1>2, <2>12 DEF t, text
<1>6. QED BY <1>4, <1>5

(* A name takes no more bytes than in full, wherever it is put, its dot at *)
(* its end left aside.                                                     *)
LEMMA NameNoLonger ==
  ASSUME NEW b \in ByteString, NEW f \in ByteString, Len(b) <= Len(f), NEW writer \in Writers \ {"root"},
         NEW name \in WrittenNames(writer), NEW other \in {"full", "root"}, Bare(name) \in WrittenNames(other)
  PROVE  Len(PutName(writer, b, name)) <= Len(PutName(other, f, Bare(name)))
<1> DEFINE field == Field("name")
           bare == Bare(name)
           x == PutName(writer, b, name)
           y == PutName(other, f, bare)
           n == Len(FieldText(field, name))
<1>1. field \in LongFields \cup OpenFields /\ field.kind = "name" BY DEF LongFields, Field
<1>2. PlainValue(writer, field, name) /\ PlainValue(other, field, bare) BY <1>1 DEF PlainValue
<1>3. PutField(writer, b, field, name) = x /\ PutField(other, f, field, bare) = y BY <1>1 DEF PutField
<1>4. FieldText(field, bare) = FieldText(field, name)
  <2>1. bare \in Seq(Label) BY WrittenName
  <2>2. Bare(bare) = bare BY <2>1, BareName
  <2>3. QED BY <1>1, <2>2 DEF FieldText
<1>5. n \in Nat BY <1>1, <1>2, FieldTextType
<1> HIDE DEF field, bare
<1>6. Adds(writer, x, b, FieldText(field, name)) BY <1>1, <1>2, <1>3, PutFieldAdds
<1>7. y \in ByteString /\ Len(f) + n <= Len(y) BY <1>1, <1>2, <1>3, <1>4, FieldNotShorter
<1> HIDE DEF x, y, n
<1>8. x \in ByteString /\ Len(x) <= Len(b) + n BY <1>6 DEF Adds, Most, n
<1>9. Len(x) \in Nat /\ Len(y) \in Nat /\ Len(b) \in Nat /\ Len(f) \in Nat BY <1>7, <1>8 DEF ByteString
<1>10. \A x1, y1, b1, f1, n1 \in Nat : b1 <= f1 /\ x1 <= b1 + n1 /\ f1 + n1 <= y1 => x1 <= y1 OBVIOUS
<1>11. Len(x) <= Len(y) BY <1>5, <1>7, <1>8, <1>9, <1>10
<1>12. QED BY <1>11 DEF x, y, bare

(* Nor does the data of a record.                                          *)
LEMMA DataNoLonger ==
  ASSUME NEW b \in ByteString, NEW f \in ByteString, Len(b) <= Len(f), NEW writer \in Writers \ {"root"},
         NEW r \in RecordsBy(writer), NEW other \in {"full", "root"}, BareRecord(r) \in RecordsBy(other)
  PROVE  Len(PutData(writer, b, r)) <= Len(PutData(other, f, BareRecord(r)))
<1> DEFINE fs == Fields("client", r.type)
           w == BareRecord(r)
           n == Len(r.data)
           B(k) == Stage(writer, b, r, k)
           F(k) == Stage(other, f, w, k)
           text(k) == FieldText(fs[k + 1], r.data[k + 1])
           Good == {k \in Nat : k <= n => Len(B(k)) <= Len(F(k))}
<1>0. writer \in Writers /\ other \in Writers BY DEF Writers
<1>1. w.type = r.type /\ Len(w.data) = n /\ \A i \in 1 .. n : w.data[i] = BareValue(fs[i], r.data[i])
  BY <1>0, BareIsPlain
<1>2. /\ B(0) = b /\ F(0) = f
      /\ PutData(writer, b, r) = B(n) /\ PutData(other, f, w) = F(n)
  <2>1. B(0) = b /\ PutData(writer, b, r) = B(n) BY StageSteps
  <2>2. F(0) = f /\ PutData(other, f, w) = F(Len(w.data)) BY StageSteps
  <2> HIDE DEF B, F, n, w
  <2>3. QED BY <1>1, <2>1, <2>2
<1>3. CASE r.data = <<>>
  <2>1. n = 0 BY <1>3
  <2> HIDE DEF B, F, n
  <2>2. QED BY <1>2, <2>1
<1>4. CASE r.data # <<>>
  <2>1. /\ \A k \in 0 .. n : B(k) \in ByteString
        /\ \A k \in 0 .. n - 1 : Adds(writer, B(k + 1), B(k), text(k))
    BY <1>0, <1>4, StagesGrow
  <2>2. /\ n \in Nat
        /\ \A i \in 1 .. n : PlainValue(writer, fs[i], r.data[i]) /\ fs[i] \in LongFields \cup OpenFields
    BY <1>0, <1>4, RecordFields
  <2>3. w.data # <<>>
    <3>1. n # 0 BY <1>0, <1>4, DataLayout, EmptySeq
    <3>2. Len(<<>>) = 0 OBVIOUS
    <3> HIDE DEF n, w
    <3>3. QED BY <1>1, <3>1, <3>2
  <2>4. /\ \A k \in 0 .. n : F(k) \in ByteString
        /\ \A k \in 0 .. n - 1 : F(k + 1) = PutField(other, F(k), fs[k + 1], w.data[k + 1])
    BY <1>0, <1>1, <2>3, StagesGrow
  <2>5. \A i \in 1 .. n : PlainValue(other, fs[i], w.data[i])
    BY <1>0, <1>1, <2>3, RecordFields
  <2> HIDE DEF B, F, fs, n, w
  <2>6. ASSUME NEW k \in 0 .. n - 1 PROVE Len(F(k)) + Len(text(k)) <= Len(F(k + 1)) /\ Len(text(k)) \in Nat
    <3> DEFINE field == fs[k + 1]
               val == r.data[k + 1]
               own == w.data[k + 1]
    <3>1. k + 1 \in 1 .. n /\ k \in 0 .. n BY <2>2
    <3>2. /\ PlainValue(writer, field, val) /\ field \in LongFields \cup OpenFields
          /\ PlainValue(other, field, own) /\ own = BareValue(field, val)
      BY <1>1, <2>2, <2>5, <3>1
    <3>3. F(k) \in ByteString /\ F(k + 1) = PutField(other, F(k), field, own) BY <2>4, <3>1
    <3>4. FieldText(field, own) = FieldText(field, val) /\ Len(FieldText(field, val)) \in Nat
      BY <1>0, <3>2, BareField, FieldTextType
    <3> HIDE DEF field, val, own
    <3>5. Len(F(k)) + Len(FieldText(field, own)) <= Len(F(k + 1)) BY <3>2, <3>3, FieldNotShorter
    <3>6. QED BY <3>4, <3>5 DEF field, val
  <2> HIDE DEF text
  <2>7. \A k \in 0 .. n : Len(F(k)) \in Nat /\ Len(B(k)) \in Nat BY <2>1, <2>4 DEF ByteString
  <2>8. 0 \in Good BY <1>2
  <2>9. ASSUME NEW k \in Nat, k \in Good PROVE k + 1 \in Good
    <3> SUFFICES ASSUME k + 1 <= n PROVE Len(B(k + 1)) <= Len(F(k + 1)) OBVIOUS
    <3>1. k \in 0 .. n - 1 /\ k \in 0 .. n /\ k + 1 \in 0 .. n /\ k <= n BY <2>2
    <3>2. Len(B(k)) <= Len(F(k)) BY <2>9, <3>1
    <3>3. Len(B(k + 1)) <= Len(B(k)) + Len(text(k)) BY <2>1, <3>1 DEF Adds, Most
    <3>4. Len(F(k)) + Len(text(k)) <= Len(F(k + 1)) /\ Len(text(k)) \in Nat BY <2>6, <3>1
    <3>5. Len(F(k)) \in Nat /\ Len(B(k)) \in Nat /\ Len(F(k + 1)) \in Nat /\ Len(B(k + 1)) \in Nat BY <2>7, <3>1
    <3>6. \A x, x1, y, y1, t \in Nat : x <= y /\ x1 <= x + t /\ y + t <= y1 => x1 <= y1 OBVIOUS
    <3>7. QED BY <3>2, <3>3, <3>4, <3>5, <3>6
  <2>10. \A k \in Nat : k \in Good
    <3> HIDE DEF Good
    <3>1. QED BY <2>8, <2>9, LabelLoop!Induction
  <2>11. Len(B(n)) <= Len(F(n)) BY <2>2, <2>10
  <2>12. QED BY <1>2, <2>11 DEF w
<1>5. QED BY <1>3, <1>4

(* Nor does a record.                                                      *)
LEMMA RecordNoLonger ==
  ASSUME NEW b \in ByteString, NEW f \in ByteString, Len(b) <= Len(f), NEW writer \in Writers \ {"root"},
         NEW r \in RecordsBy(writer), NEW other \in {"full", "root"}, BareRecord(r) \in RecordsBy(other),
         Ready(other, f)
  PROVE  Len(PutRecord(writer, b, r)) <= Len(PutRecord(other, f, BareRecord(r)))
<1> DEFINE w == BareRecord(r)
           h == RecordHead(writer, b, r)
           g == RecordHead(other, f, w)
           hn == PutName(writer, b, r.name)
           gn == PutName(other, f, w.name)
           hz == h \o <<0, 0>>
           gz == g \o <<0, 0>>
<1>0. writer \in Writers /\ other \in Writers /\ writer # "root" /\ Ready(writer, b) BY DEF Writers, Ready
<1>1. w.name = Bare(r.name) BY DEF BareRecord
<1>2. r.name \in WrittenNames(writer) /\ w.name \in WrittenNames(other) BY RecordParts
<1>3. Len(hn) <= Len(gn) BY <1>1, <1>2, NameNoLonger
<1>4. h \in ByteString /\ hn \in ByteString /\ Len(h) = Len(hn) + 8 BY <1>0, HeadWritten
<1>5. /\ g \in ByteString /\ gn \in ByteString /\ Len(g) = Len(gn) + 8
      /\ other = "root" => Begun(g)
  BY <1>0, HeadWritten
<1>6. PutRecord(writer, b, r) = PutAfterHead(writer, h, r) /\ PutRecord(other, f, w) = PutAfterHead(other, g, w)
  BY DEF PutRecord, RecordHead
<1> HIDE DEF h, g, hn, gn
<1>7. hz \in ByteString /\ Len(hz) = Len(h) + 2
      /\ Len(PutAfterHead(writer, h, r)) = Len(PutData(writer, hz, r))
  BY <1>0, <1>4, RecordBuffers
<1>8. gz \in ByteString /\ Len(gz) = Len(g) + 2
      /\ Len(PutAfterHead(other, g, w)) = Len(PutData(other, gz, w))
  BY <1>0, <1>5, RecordBuffers
<1> HIDE DEF hz, gz
<1>9. Len(hz) <= Len(gz)
  <2>1. Len(hn) \in Nat /\ Len(gn) \in Nat BY <1>4, <1>5 DEF ByteString
  <2>2. \A x, y \in Nat : x <= y => (x + 8) + 2 <= (y + 8) + 2 OBVIOUS
  <2>3. QED BY <1>3, <1>4, <1>5, <1>7, <1>8, <2>1, <2>2
<1>10. Len(PutData(writer, hz, r)) <= Len(PutData(other, gz, w)) BY <1>7, <1>8, <1>9, DataNoLonger
<1>11. QED BY <1>6, <1>7, <1>8, <1>10 DEF w

(* Nor does a question.                                                    *)
LEMMA ItemNoLonger ==
  ASSUME NEW what, NEW b \in ByteString, NEW f \in ByteString, Len(b) <= Len(f), NEW writer \in Writers \ {"root"},
         NEW item \in Items(what, writer), NEW other \in {"full", "root"}, BareItem(what, item) \in Items(what, other),
         Ready(other, f)
  PROVE  Len(PutItem(what, writer, b, item)) <= Len(PutItem(what, other, f, BareItem(what, item)))
<1>0. writer \in Writers /\ other \in Writers /\ Ready(writer, b) BY DEF Writers, Ready
<1>1. CASE what # "questions"
  <2>1. item \in RecordsBy(writer) /\ BareItem(what, item) = BareRecord(item) /\ BareRecord(item) \in RecordsBy(other)
    BY <1>1 DEF Items, BareItem
  <2>2. Len(PutRecord(writer, b, item)) <= Len(PutRecord(other, f, BareRecord(item))) BY <2>1, RecordNoLonger
  <2>3. QED BY <1>1, <2>1, <2>2 DEF PutItem
<1>2. CASE what = "questions"
  <2> DEFINE x == PutName(writer, b, item)
             y == PutName(other, f, Bare(item))
  <2>1. item \in WrittenNames(writer) /\ BareItem(what, item) = Bare(item) /\ Bare(item) \in WrittenNames(other)
    BY <1>2 DEF Items, BareItem
  <2>2. Len(x) <= Len(y) BY <2>1, NameNoLonger
  <2>4. x \in ByteString /\ y \in ByteString BY <1>0, <2>1, NameWritten
  <2>5. Type.A \in Words /\ 1 \in Words BY DEF Type, Words
  <2> HIDE DEF x, y
  <2>6. \A z \in ByteString : Len(z \o Put16(Type.A) \o Put16(1)) = Len(z) + 4
    <3> SUFFICES ASSUME NEW z \in ByteString PROVE Len(z \o Put16(Type.A) \o Put16(1)) = Len(z) + 4 OBVIOUS
    <3> DEFINE z1 == z \o Put16(Type.A)
    <3>1. z1 \in ByteString /\ Len(z1) = Len(z) + 2 BY <2>5, WordAfter
    <3> HIDE DEF z1
    <3>2. Len(z1 \o Put16(1)) = Len(z1) + 2 BY <2>5, <3>1, WordAfter
    <3>3. Len(z) \in Nat BY DEF ByteString
    <3>4. QED BY <3>1, <3>2, <3>3 DEF z1
  <2>7. Len(x) \in Nat /\ Len(y) \in Nat BY <2>4 DEF ByteString
  <2>8. Len(x \o Put16(Type.A) \o Put16(1)) <= Len(y \o Put16(Type.A) \o Put16(1)) BY <2>2, <2>4, <2>6, <2>7
  <2>9. QED BY <1>2, <2>1, <2>8 DEF PutItem, PutQuestion, x, y
<1>3. QED BY <1>1, <1>2

(* Nor does a section.                                                     *)
LEMMA SectionNoLonger ==
  ASSUME NEW what, NEW b \in ByteString, NEW f \in ByteString, Len(b) <= Len(f), NEW writer \in Writers \ {"root"},
         NEW items \in Seq(Items(what, writer)), NEW other \in {"full", "root"},
         NEW bares \in Seq(Items(what, other)), Bares(what, items, bares), Ready(other, f)
  PROVE  Len(PutSection(what, writer, b, items)) <= Len(PutSection(what, other, f, bares))
<1> DEFINE n == Len(items)
           B(k) == SectionStage(what, writer, b, items, k)
           F(k) == SectionStage(what, other, f, bares, k)
           Good == {k \in Nat : k <= n => Len(B(k)) <= Len(F(k))}
<1>0. writer \in Writers /\ other \in Writers /\ Ready(writer, b) BY DEF Writers, Ready
<1>1. Len(bares) = n /\ \A i \in 1 .. n : BareItem(what, items[i]) = bares[i] BY DEF Bares
<1>2. /\ B(0) = b /\ F(0) = f
      /\ PutSection(what, writer, b, items) = B(n) /\ PutSection(what, other, f, bares) = F(n)
  BY <1>1, SectionSteps
<1>3. /\ n \in Nat
      /\ \A k \in 0 .. n : B(k) \in ByteString
      /\ \A k \in 0 .. n - 1 : /\ items[k + 1] \in Items(what, writer)
                               /\ B(k + 1) = PutItem(what, writer, B(k), items[k + 1])
  BY <1>0, SectionGrows
<1>4. /\ \A k \in 0 .. n : F(k) \in ByteString /\ Ready(other, F(k))
      /\ \A k \in 0 .. n - 1 : /\ bares[k + 1] \in Items(what, other)
                               /\ F(k + 1) = PutItem(what, other, F(k), bares[k + 1])
  BY <1>0, <1>1, SectionGrows
<1> HIDE DEF B, F, n
<1>5. 0 \in Good BY <1>2
<1>6. ASSUME NEW k \in Nat, k \in Good PROVE k + 1 \in Good
  <2> SUFFICES ASSUME k + 1 <= n PROVE Len(B(k + 1)) <= Len(F(k + 1)) OBVIOUS
  <2> DEFINE item == items[k + 1]
  <2>1. k \in 0 .. n - 1 /\ k \in 0 .. n /\ k <= n /\ k + 1 \in 1 .. n BY <1>3
  <2>2. Len(B(k)) <= Len(F(k)) BY <1>6, <2>1
  <2>3. /\ B(k) \in ByteString /\ F(k) \in ByteString /\ Ready(other, F(k))
        /\ item \in Items(what, writer) /\ BareItem(what, item) = bares[k + 1]
        /\ bares[k + 1] \in Items(what, other)
    BY <1>1, <1>3, <1>4, <2>1
  <2> HIDE DEF item
  <2>4. Len(PutItem(what, writer, B(k), item)) <= Len(PutItem(what, other, F(k), BareItem(what, item)))
    BY <2>2, <2>3, ItemNoLonger
  <2>5. QED BY <1>3, <1>4, <2>1, <2>3, <2>4 DEF item
<1>7. \A k \in Nat : k \in Good
  <2> HIDE DEF Good
  <2>1. QED BY <1>5, <1>6, LabelLoop!Induction
<1>8. Len(B(n)) <= Len(F(n)) BY <1>3, <1>7
<1>9. QED BY <1>2, <1>8

(* What the proxy passes on is not longer than what came in, in full or    *)
(* with links to the root.                                                 *)
LEMMA EncodeNoLonger ==
  ASSUME NEW writer \in Writers \ {"root"}, NEW v \in MessagesBy(writer), NEW other \in {"full", "root"},
         NEW m \in MessagesBy(other), Passed(v, m)
  PROVE  Len(EncodeAs(writer, v)) <= Len(EncodeAs(other, m))
<1> DEFINE q1 == v.records[1]
           q2 == v.records[2]
           q3 == v.records[3]
           r1 == m.records[1]
           r2 == m.records[2]
           r3 == m.records[3]
<1>0. writer \in Writers /\ other \in Writers BY DEF Writers
<1>1. \A w : Items("questions", w) = WrittenNames(w) /\ Items("records", w) = RecordsBy(w) BY DEF Items
<1>2. /\ v.questions \in Seq(Items("questions", writer)) /\ q1 \in Seq(Items("records", writer))
      /\ q2 \in Seq(Items("records", writer)) /\ q3 \in Seq(Items("records", writer))
  BY <1>1, MessageParts, RecordsOf
<1>3. /\ m.questions \in Seq(Items("questions", other)) /\ r1 \in Seq(Items("records", other))
      /\ r2 \in Seq(Items("records", other)) /\ r3 \in Seq(Items("records", other))
  BY <1>1, MessageParts, RecordsOf
<1>4. /\ Bares("questions", v.questions, m.questions)
      /\ Bares("records", q1, r1) /\ Bares("records", q2, r2) /\ Bares("records", q3, r3)
  BY DEF Passed
<1> DEFINE b0 == HeaderBytes(v)
           b1 == UpToQuestions(writer, v)
           b2 == UpToAnswers(writer, v)
           b3 == UpToAuthorities(writer, v)
           f0 == HeaderBytes(m)
           f1 == UpToQuestions(other, m)
           f2 == UpToAnswers(other, m)
           f3 == UpToAuthorities(other, m)
<1>5. b0 \in ByteString /\ f0 \in ByteString /\ Len(b0) = 12 /\ Len(f0) = 12 BY HeaderRead
<1>6. b1 \in ByteString /\ b2 \in ByteString /\ b3 \in ByteString BY <1>0, MessageWritten
<1>7. /\ f1 \in ByteString /\ f2 \in ByteString /\ f3 \in ByteString
      /\ Ready(other, f0) /\ Ready(other, f1) /\ Ready(other, f2) /\ Ready(other, f3)
  BY <1>0, MessageWritten
<1>8. /\ b1 = PutSection("questions", writer, b0, v.questions) /\ b2 = PutSection("records", writer, b1, q1)
      /\ b3 = PutSection("records", writer, b2, q2) /\ EncodeAs(writer, v) = PutSection("records", writer, b3, q3)
  BY DEF UpToQuestions, UpToAnswers, UpToAuthorities, EncodeAs
<1>9. /\ f1 = PutSection("questions", other, f0, m.questions) /\ f2 = PutSection("records", other, f1, r1)
      /\ f3 = PutSection("records", other, f2, r2) /\ EncodeAs(other, m) = PutSection("records", other, f3, r3)
  BY DEF UpToQuestions, UpToAnswers, UpToAuthorities, EncodeAs
<1> HIDE DEF b0, b1, b2, b3, f0, f1, f2, f3, q1, q2, q3, r1, r2, r3
<1>10. Len(b0) <= Len(f0) BY <1>5
<1>11. Len(b1) <= Len(f1) BY <1>2, <1>3, <1>4, <1>5, <1>7, <1>8, <1>9, <1>10, SectionNoLonger
<1>12. Len(b2) <= Len(f2) BY <1>2, <1>3, <1>4, <1>6, <1>7, <1>8, <1>9, <1>11, SectionNoLonger
<1>13. Len(b3) <= Len(f3) BY <1>2, <1>3, <1>4, <1>6, <1>7, <1>8, <1>9, <1>12, SectionNoLonger
<1>14. Len(EncodeAs(writer, v)) <= Len(EncodeAs(other, m))
  <2>1. Len(PutSection("records", writer, b3, q3)) <= Len(PutSection("records", other, f3, r3))
    BY <1>2, <1>3, <1>4, <1>6, <1>7, <1>13, SectionNoLonger
  <2>2. QED BY <1>8, <1>9, <2>1
<1>15. QED BY <1>14

-----------------------------------------------------------------------------
(* What stays the same to the byte.                                        *)

(* A nameserver that links to equal bytes writes plain names as the proxy  *)
(* does.                                                                   *)
LEMMA NameSame == \A name \in PlainNames : \A b : PutName("equal", b, name) = PutName("proxy", b, name)
<1> SUFFICES ASSUME NEW name \in PlainNames, NEW b PROVE PutName("equal", b, name) = PutName("proxy", b, name)
  OBVIOUS
<1>1. CASE name = <<>> BY <1>1 DEF PutName
<1>2. CASE name # <<>>
  <2>1. PutName("equal", b, name) = PutLabels(b, name, <<0>>) BY <1>2 DEF PutName
  <2>2. PutName("proxy", b, name) = PutLabels(b, Labels(Split(name)), Ending(Split(name))) BY <1>2 DEF PutName
  <2>3. name \in Seq(Label) BY DEF PlainNames
  <2>4. QED BY <1>2, <2>1, <2>2, <2>3, NoEmptyEnd
<1>3. QED BY <1>1, <1>2

(* And it writes fields so.                                                *)
LEMMA FieldSame ==
  \A field \in LongFields \cup OpenFields : \A val, b :
     PlainValue("full", field, val) => PutField("equal", b, field, val) = PutField("proxy", b, field, val)
<1> SUFFICES ASSUME NEW field \in LongFields \cup OpenFields, NEW val, NEW b, PlainValue("full", field, val)
             PROVE  PutField("equal", b, field, val) = PutField("proxy", b, field, val)
  OBVIOUS
<1>1. CASE field.kind = "name"
  <2>1. val \in PlainNames BY <1>1, StyleNames DEF PlainValue
  <2>2. \A w : PutField(w, b, field, val) = PutName(w, b, val) BY <1>1 DEF PutField
  <2>3. QED BY <2>1, <2>2, NameSame
<1>2. CASE field.kind = "plain"
  <2>1. val \in PlainNames BY <1>2 DEF PlainValue
  <2>2. \A w : PutField(w, b, field, val) = PutPlainName(w, b, val) BY <1>2 DEF PutField
  <2>3. PutPlainName("equal", b, val) = b \o Flat(val) \o <<0>> BY DEF PutPlainName
  <2>4. PutPlainName("proxy", b, val) = b \o Flat(val) \o <<0>>
    <3>1. CASE val = <<>> BY <3>1 DEF PutPlainName
    <3>2. CASE val # <<>>
      <4>1. PutPlainName("proxy", b, val) = b \o Flat(Labels(Split(val))) \o Ending(Split(val))
        BY <3>2 DEF PutPlainName
      <4>2. val \in Seq(Label) BY <2>1 DEF PlainNames
      <4>3. QED BY <3>2, <4>1, <4>2, NoEmptyEnd
    <3>3. QED BY <3>1, <3>2
  <2>5. QED BY <2>2, <2>3, <2>4
<1>3. CASE field.kind \notin {"name", "plain"}
  <2>1. field.kind \in {"string", "strings", "bytes", "rest"} BY <1>3, FieldKinds
  <2>2. QED BY <2>1 DEF PutField
<1>4. QED BY <1>1, <1>2, <1>3

(* And the data of records.                                                *)
LEMMA DataSame == \A r \in RecordsBy("full") : \A b : PutData("equal", b, r) = PutData("proxy", b, r)
<1> SUFFICES ASSUME NEW r \in RecordsBy("full"), NEW b PROVE PutData("equal", b, r) = PutData("proxy", b, r)
  OBVIOUS
<1>0. "full" \in Writers BY DEF Writers
<1> DEFINE fs == Fields("client", r.type)
           n == Len(r.data)
           E(k) == Stage("equal", b, r, k)
           P(k) == Stage("proxy", b, r, k)
           Good == {k \in Nat : k <= n => E(k) = P(k)}
<1>1. E(0) = b /\ P(0) = b /\ PutData("equal", b, r) = E(n) /\ PutData("proxy", b, r) = P(n) BY StageSteps
<1>2. CASE r.data = <<>>
  <2>1. n = 0 BY <1>2
  <2> HIDE DEF E, P, n
  <2>2. QED BY <1>1, <2>1
<1>3. CASE r.data # <<>>
  <2>1. /\ n \in Nat
        /\ \A user : Fields(user, r.type) = fs
        /\ \A i \in 1 .. n : PlainValue("full", fs[i], r.data[i]) /\ fs[i] \in LongFields \cup OpenFields
    BY <1>0, <1>3, RecordFields
  <2>2. \A k \in Nat : /\ E(k + 1) = PutField("equal", E(k), Fields("equal", r.type)[k + 1], r.data[k + 1])
                       /\ P(k + 1) = PutField("proxy", P(k), Fields("proxy", r.type)[k + 1], r.data[k + 1])
    BY StageNext
  <2> HIDE DEF E, P, fs, n
  <2>3. \A k \in Nat : /\ E(k + 1) = PutField("equal", E(k), fs[k + 1], r.data[k + 1])
                       /\ P(k + 1) = PutField("proxy", P(k), fs[k + 1], r.data[k + 1])
    BY <2>1, <2>2
  <2>4. 0 \in Good BY <1>1
  <2>5. ASSUME NEW k \in Nat, k \in Good PROVE k + 1 \in Good
    <3> SUFFICES ASSUME k + 1 <= n PROVE E(k + 1) = P(k + 1) OBVIOUS
    <3>1. k <= n /\ k + 1 \in 1 .. n BY <2>1
    <3>2. E(k) = P(k) BY <2>5, <3>1
    <3>3. PlainValue("full", fs[k + 1], r.data[k + 1]) /\ fs[k + 1] \in LongFields \cup OpenFields BY <2>1, <3>1
    <3>4. PutField("equal", E(k), fs[k + 1], r.data[k + 1]) = PutField("proxy", E(k), fs[k + 1], r.data[k + 1])
      BY <3>3, FieldSame
    <3>5. QED BY <2>3, <3>2, <3>4
  <2>6. \A k \in Nat : k \in Good
    <3> HIDE DEF Good
    <3>1. QED BY <2>4, <2>5, LabelLoop!Induction
  <2>7. E(n) = P(n) BY <2>1, <2>6
  <2>8. QED BY <1>1, <2>7
<1>4. QED BY <1>2, <1>3

(* And questions and records.                                              *)
LEMMA ItemSame ==
  \A what : \A item \in Items(what, "full") : \A b :
     PutItem(what, "equal", b, item) = PutItem(what, "proxy", b, item)
<1> SUFFICES ASSUME NEW what, NEW item \in Items(what, "full"), NEW b
             PROVE  PutItem(what, "equal", b, item) = PutItem(what, "proxy", b, item)
  OBVIOUS
<1>1. CASE what = "questions"
  <2>1. item \in PlainNames BY <1>1, StyleNames DEF Items
  <2>2. PutName("equal", b, item) = PutName("proxy", b, item) BY <2>1, NameSame
  <2>3. QED BY <1>1, <2>2 DEF PutItem, PutQuestion
<1>2. CASE what # "questions"
  <2>1. item \in RecordsBy("full") BY <1>2 DEF Items
  <2>2. item.name \in PlainNames BY <2>1, RecordParts, StyleNames
  <2>3. PutName("equal", b, item.name) = PutName("proxy", b, item.name) BY <2>2, NameSame
  <2>4. RecordHead("equal", b, item) = RecordHead("proxy", b, item) BY <2>3 DEF RecordHead
  <2>5. \A head : PutAfterHead("equal", head, item) = PutAfterHead("proxy", head, item)
    BY <2>1, DataSame DEF PutAfterHead
  <2>6. \A w : PutRecord(w, b, item) = PutAfterHead(w, RecordHead(w, b, item), item) BY DEF PutRecord, RecordHead
  <2>7. QED BY <1>2, <2>4, <2>5, <2>6 DEF PutItem
<1>3. QED BY <1>1, <1>2

(* And sections.                                                           *)
LEMMA SectionSame ==
  \A what : \A items \in Seq(Items(what, "full")) : \A b :
     PutSection(what, "equal", b, items) = PutSection(what, "proxy", b, items)
<1> SUFFICES ASSUME NEW what, NEW items \in Seq(Items(what, "full")), NEW b
             PROVE  PutSection(what, "equal", b, items) = PutSection(what, "proxy", b, items)
  OBVIOUS
<1> DEFINE n == Len(items)
           E(k) == SectionStage(what, "equal", b, items, k)
           P(k) == SectionStage(what, "proxy", b, items, k)
           Good == {k \in Nat : k <= n => E(k) = P(k)}
<1>1. /\ E(0) = b /\ P(0) = b
      /\ PutSection(what, "equal", b, items) = E(n) /\ PutSection(what, "proxy", b, items) = P(n)
      /\ \A k \in Nat : /\ E(k + 1) = PutItem(what, "equal", E(k), items[k + 1])
                        /\ P(k + 1) = PutItem(what, "proxy", P(k), items[k + 1])
  BY SectionSteps
<1>2. n \in Nat /\ \A i \in 1 .. n : items[i] \in Items(what, "full") BY ElementOfSeq
<1> HIDE DEF E, P, n
<1>3. 0 \in Good BY <1>1
<1>4. ASSUME NEW k \in Nat, k \in Good PROVE k + 1 \in Good
  <2> SUFFICES ASSUME k + 1 <= n PROVE E(k + 1) = P(k + 1) OBVIOUS
  <2>1. k <= n /\ k + 1 \in 1 .. n BY <1>2
  <2>2. E(k) = P(k) /\ items[k + 1] \in Items(what, "full") BY <1>2, <1>4, <2>1
  <2>3. PutItem(what, "equal", E(k), items[k + 1]) = PutItem(what, "proxy", E(k), items[k + 1]) BY <2>2, ItemSame
  <2>4. QED BY <1>1, <2>2, <2>3
<1>5. \A k \in Nat : k \in Good
  <2> HIDE DEF Good
  <2>1. QED BY <1>3, <1>4, LabelLoop!Induction
<1>6. QED BY <1>1, <1>2, <1>5

(* And whole messages.                                                     *)
LEMMA EncodeSame == \A m \in PlainMessages : EncodeAs("equal", m) = EncodeAs("proxy", m)
<1> SUFFICES ASSUME NEW m \in PlainMessages PROVE EncodeAs("equal", m) = EncodeAs("proxy", m) OBVIOUS
<1>1. Items("questions", "full") = WrittenNames("full") /\ Items("records", "full") = RecordsBy("full") BY DEF Items
<1>2. /\ m.questions \in Seq(Items("questions", "full"))
      /\ m.records[1] \in Seq(Items("records", "full")) /\ m.records[2] \in Seq(Items("records", "full"))
      /\ m.records[3] \in Seq(Items("records", "full"))
  BY <1>1, MessageParts, RecordsOf DEF PlainMessages
<1>3. UpToQuestions("equal", m) = UpToQuestions("proxy", m) BY <1>2, SectionSame DEF UpToQuestions
<1>4. UpToAnswers("equal", m) = UpToAnswers("proxy", m) BY <1>2, <1>3, SectionSame DEF UpToAnswers
<1>5. UpToAuthorities("equal", m) = UpToAuthorities("proxy", m) BY <1>2, <1>4, SectionSame DEF UpToAuthorities
<1>6. QED BY <1>2, <1>5, SectionSame DEF EncodeAs

(* A message without a response code and the bits before it loses nothing. *)
LEMMA ForgottenSame == \A m \in PlainMessages : m.z = 0 /\ m.rcode = 0 => Forgotten(m) = m
<1> SUFFICES ASSUME NEW m \in PlainMessages, m.z = 0, m.rcode = 0 PROVE Forgotten(m) = m OBVIOUS
<1>1. m = [id |-> m.id, qr |-> m.qr, mid |-> m.mid, z |-> m.z, rcode |-> m.rcode,
           questions |-> m.questions, records |-> m.records]
  BY MessageParts DEF PlainMessages
<1>2. QED BY <1>1 DEF Forgotten, ReadAs

(* Nothing is said in the header's last bits, which the proxy forgets and  *)
(* to which a name could be linked.                                        *)
NothingForgotten == said.z = 0 /\ said.rcode = 0

(* Where the nameserver shortens names as the proxy does, and nothing was  *)
(* in the header's last bits, the client gets the nameserver's bytes.      *)
THEOREM RelaysUnchanged ==
  Spec => [](SaidPlainly /\ style = "equal" /\ NothingForgotten /\ stage = "relayed" => relayed = datagram)
<1>1. OnItsWay => (SaidPlainly /\ style = "equal" /\ NothingForgotten /\ stage = "relayed" => relayed = datagram)
  <2> SUFFICES ASSUME OnItsWay, SaidPlainly, style = "equal", NothingForgotten, stage = "relayed"
               PROVE  relayed = datagram
    OBVIOUS
  <2>1. said \in PlainMessages BY SentIsWritten
  <2>2. message.ok /\ relayed = EncodeBytes(message.val) BY DEF OnItsWay, DecodedPlain
  <2>3. PICK v : Understood(v) /\ message = Got(v, Len(datagram)) BY <2>2, ThrownFails, SentIsDecoded
  <2>4. message.val = Forgotten(said) BY <2>3 DEF Got, Understood
  <2>5. Forgotten(said) = said BY <2>1, ForgottenSame DEF NothingForgotten
  <2>6. relayed = EncodeAs("proxy", said) BY <2>2, <2>4, <2>5 DEF EncodeBytes
  <2>7. datagram = EncodeAs("equal", said) BY SentIsWritten
  <2>8. QED BY <2>1, <2>6, <2>7, EncodeSame
<1>2. QED BY <1>1, OnItsWayHolds, PTL

(* Encoding never makes such a message longer than it came in, so that it  *)
(* is dropped only when it fills the whole buffer (rr.cpp:580).            *)
THEOREM DropsOnlyFullMessagesPlain ==
  Spec => [](SaidPlainly /\ (style # "equal" \/ NothingForgotten) => DropsOnlyFullMessages)
<1>1. OnItsWay => (SaidPlainly /\ (style # "equal" \/ NothingForgotten) => DropsOnlyFullMessages)
  <2> SUFFICES ASSUME OnItsWay, SaidPlainly, style # "equal" \/ NothingForgotten, stage = "dropped"
               PROVE  Len(datagram) = BufferSize
    BY DEF DropsOnlyFullMessages
  <2>1. message.ok /\ EncodeThrows(message.val) BY DEF OnItsWay, DecodedPlain
  <2>2. PICK v : Understood(v) /\ message = Got(v, Len(datagram)) BY <2>1, ThrownFails, SentIsDecoded
  <2> DEFINE x == EncodeAs("proxy", v)
  <2>3. v \in MessagesBy("proxy") /\ Passed(v, said) /\ (style # "root" => v = Forgotten(said))
    BY <2>2 DEF Understood
  <2>4. message.val = v BY <2>2 DEF Got
  <2>5. "proxy" \in Writers \ {"root"} BY DEF Writers
  <2>6. x \in ByteString BY <2>3, <2>5, MessageWritten
  <2>7. Len(x) > BufferSize \/ Len(x) = BufferSize BY <2>1, <2>4 DEF EncodeThrows, EncodeBytes
  <2>8. /\ datagram = EncodeAs(style, said) /\ style \in {"full", "equal", "root"}
        /\ said \in PlainMessages /\ said \in MessagesBy(style)
    BY SentIsWritten DEF Styles, SaidPlainly
  <2>9. Len(x) <= Len(datagram)
    <3>1. CASE style \in {"full", "root"} BY <2>3, <2>5, <2>8, <3>1, EncodeNoLonger
    <3>2. CASE style = "equal"
      <4>1. NothingForgotten BY <3>2
      <4>2. v = said BY <2>3, <2>8, <3>2, <4>1, ForgottenSame DEF NothingForgotten
      <4>3. x = datagram BY <2>8, <3>2, <4>2, EncodeSame
      <4>4. Len(x) \in Nat BY <2>6 DEF ByteString
      <4> HIDE DEF x
      <4>5. QED BY <4>3, <4>4
    <3>3. QED BY <2>8, <3>1, <3>2
  <2>10. datagram \in ByteString /\ Len(datagram) <= BufferSize BY DEF OnItsWay, WrittenPlain
  <2>11. Len(x) \in Nat /\ Len(datagram) \in Nat /\ BufferSize \in Nat
    BY <2>6, <2>10, BufferAssumption DEF ByteString
  <2> HIDE DEF x
  <2>12. QED BY <2>7, <2>9, <2>10, <2>11
<1>2. QED BY <1>1, OnItsWayHolds, PTL
=============================================================================
