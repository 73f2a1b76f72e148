----------------------------- MODULE DnsMessage -----------------------------
(***************************************************************************)
(* A message on its way through the proxy: QueryForwarder decodes a        *)
(* nameserver's datagram into a Message and QueryReceiver encodes the      *)
(* Message for the client, or the other way round with a query             *)
(* (dns/src/message.cpp, rr.cpp, qs.cpp and buffer.cpp).  What the         *)
(* properties need is kept to the byte: lengths, the links by which domain *)
(* names share their ends, the header's bits and the positions at which    *)
(* the buffer throws.  The sender is called the nameserver, the receiver   *)
(* the client.                                                             *)
(*                                                                         *)
(* Positions in a buffer count from 0, as in the code.  A byte string and  *)
(* a label are sequences of bytes, a domain name is the sequence of its    *)
(* labels: the std::string "b.a" is <<"b", "a">>, and "a." is <<"a", "">>. *)
(* A record's data is the sequence of its fields, <<>> when there is none. *)
(* Types of records with the same fields are represented by one of them.   *)
(*                                                                         *)
(* Loops and recursive calls are written with Iteration: the n-th iterate  *)
(* is what is known after n rounds, or of calls at most n deep.            *)
(***************************************************************************)
EXTENDS Naturals, Sequences, SequencesExt, FiniteSetsExt

CONSTANTS Messages,   \* responses of nameservers, and queries
          Garbage,    \* datagrams that no nameserver should send
          BufferSize  \* MAX_DNS_LEN and MAX_MSG_LEN

(* A link has 14 bits.                                                     *)
ASSUME BufferAssumption == BufferSize \in 12 .. 16384

VARIABLES said,      \* the message as the nameserver means it; <<>>: the datagram is garbage
          style,     \* how the nameserver writes names: a member of Styles
          datagram,  \* the bytes the nameserver sends
          message,   \* what decode makes of it
          relayed,   \* the bytes the client gets
          stage      \* received, skipped, decoded, dropped, relayed or undefined

vars == <<said, style, datagram, message, relayed, stage>>

Type == [A |-> 1, CNAME |-> 5, SOA |-> 6, NULL |-> 10, WKS |-> 11, HINFO |-> 13,
         MINFO |-> 14, MX |-> 15, TXT |-> 16, AAAA |-> 28, SRV |-> 33, NAPTR |-> 35, OPT |-> 41]

LinkTag == 192
MaxLabel == 63
MaxDomain == 255
Dot == 46

(* Names in full, names linked to equal bytes before them, and names that  *)
(* all end with a link to the zero byte of the question's name.            *)
Styles == {"full", "equal", "root"}

Byte(b, p) == b[p + 1]
Bytes(b, p, n) == SubSeq(b, p + 1, p + n)
Put16(n) == <<(n \div 256) % 256, n % 256>>
Get16(b, p) == 256 * Byte(b, p) + Byte(b, p + 1)
-----------------------------------------------------------------------------
(* Buffer::putDnsDomainName.  A dot in a label separates two labels.  A    *)
(* name that ends with a dot gets no zero at its end while it is looked    *)
(* up; it does get one when it is written.                                 *)

NewPart(parts, byte) ==
    IF byte = Dot THEN Append(parts, <<>>) ELSE [parts EXCEPT ![Len(parts)] = Append(@, byte)]
Parts(label) == IF Contains(label, Dot) THEN FoldLeft(NewPart, <<<<>>>>, label) ELSE <<label>>
Split(name) == FlattenSeq([i \in DOMAIN name |-> Parts(name[i])])

Labels(name) == IF Last(name) = <<>> THEN Front(name) ELSE name
Ending(name) == IF Last(name) = <<>> THEN <<>> ELSE <<0>>
LabelBytes(label) == <<Len(label)>> \o label
Flat(labels) == FlattenSeq([i \in DOMAIN labels |-> LabelBytes(labels[i])])

(* Mutant of Tips: the end of the name is not compared.                    *)
TipsInside(b, sub) ==
    {p \in 0 .. Len(b) - Len(sub) - 1 : Bytes(b, p, Len(sub) - 1) = Front(sub)}

(* Where the buffer already holds the same bytes.                          *)
Tips(b, sub) == {p \in 0 .. Len(b) - Len(sub) - 1 : Bytes(b, p, Len(sub)) = sub}

(* The labels up to the first one from which on the buffer holds the rest  *)
(* of the name already.                                                    *)
PutLabels(b, labels, ending) ==
    LET Before(i) == b \o Flat(SubSeq(labels, 1, i - 1))
        Found(i) == Tips(Before(i), Flat(SubSeq(labels, i, Len(labels))) \o ending)
        linked == {i \in DOMAIN labels : Found(i) # {}}
    IN IF linked = {} THEN b \o Flat(labels) \o <<0>>
       ELSE Before(Min(linked)) \o Put16(256 * LinkTag + Min(Found(Min(linked))))

(* The labels that follow one another from p on, and where they stop.      *)
IsLabel(b, p) == p < Len(b) /\ Byte(b, p) \in 1 .. MaxLabel /\ p + 1 + Byte(b, p) <= Len(b)
NoLabels(p) == [labels |-> <<>>, stop |-> p]

GetLabels(b, rest) ==
    [p \in Nat |->
        IF ~IsLabel(b, p) THEN NoLabels(p)
        ELSE LET following == rest[p + 1 + Byte(b, p)]
             IN [labels |-> <<Bytes(b, p + 1, Byte(b, p))>> \o following.labels,
                 stop |-> following.stop]]

LabelLoop == INSTANCE Iteration WITH Step <- GetLabels
LabelsAt(b, p) == LabelLoop!Iterate(b, [q \in Nat |-> NoLabels(q)])[Len(b)][p]

IsLink(b, p) == p + 1 < Len(b) /\ Byte(b, p) >= LinkTag
LinkTarget(b, p) == 256 * (Byte(b, p) - LinkTag) + Byte(b, p + 1)

(* How the RFC reads a name: a link stands for the name it points to.      *)
(* What is no name after all ends with the label Broken.                   *)
Broken == <<256>>

FollowLink(b, name) ==
    [p \in Nat |->
        LET here == LabelsAt(b, p)
        IN here.labels \o (IF here.stop < Len(b) /\ Byte(b, here.stop) = 0 THEN <<>>
                           ELSE IF IsLink(b, here.stop) THEN name[LinkTarget(b, here.stop)]
                           ELSE <<Broken>>)]

LinkedNames == INSTANCE Iteration WITH Step <- FollowLink
NameAt(b, p) == LinkedNames!Iterate(b, [q \in Nat |-> <<Broken>>])[Len(b) + 1][p]

EndOfName(b, p) == LET q == LabelsAt(b, p).stop IN IF IsLink(b, q) THEN q + 2 ELSE q + 1

(* A writer is the proxy or a style of the nameserver.                     *)
PutName(writer, b, name) ==
    CASE name = <<>> /\ (writer # "root" \/ Len(b) = 12) -> Append(b, 0)
      [] writer = "proxy" /\ name # <<>> -> PutLabels(b, Labels(Split(name)), Ending(Split(name)))
      [] writer = "equal" /\ name # <<>> -> PutLabels(b, name, <<0>>)
      [] writer = "root" /\ Len(b) > 12 -> b \o Flat(name) \o Put16(256 * LinkTag + EndOfName(b, 12) - 1)
      [] OTHER -> b \o Flat(name) \o <<0>>

(* putDnsDomainName(false).                                                *)
PutPlainName(writer, b, name) ==
    IF writer = "proxy" /\ name # <<>> THEN b \o Flat(Labels(Split(name))) \o Ending(Split(name))
    ELSE b \o Flat(name) \o <<0>>
-----------------------------------------------------------------------------
(* What the data of a record is made of: names, names that must not be     *)
(* shortened, character strings, and bytes.  The last field may take all   *)
(* that is left, as strings or as bytes.                                   *)
Field(kind) == [kind |-> kind, size |-> 0]
Fixed(n) == [kind |-> "bytes", size |-> n]

RDataWithName == <<Field("name")>>
RDataHINFO == <<Field("string"), Field("string")>>
RDataMINFO == <<Field("name"), Field("name")>>
RDataMX == <<Fixed(2), Field("name")>>
RDataNULL == <<Field("rest")>>
RDataSOA == <<Field("name"), Field("name"), Fixed(20)>>
RDataTXT == <<Field("strings")>>
RDataA == <<Fixed(4)>>
RDataAAAA == <<Fixed(16)>>
RDataNAPTR == <<Fixed(4), Field("string"), Field("string"), Field("string"), Field("plain")>>
RDataSRV(user) ==
    <<Fixed(6), CASE user = "proxy" -> Field("joined") [] user = "client" -> Field("rest")
                  [] OTHER -> Field("plain")>>

(* The proxy takes a WKS record for an address, and the target of an SRV   *)
(* record for strings, which it joins; a client can only look at what      *)
(* comes of it.                                                            *)
Fields(user, type) ==
    CASE type = Type.CNAME -> RDataWithName
      [] type = Type.HINFO -> RDataHINFO
      [] type = Type.MINFO -> RDataMINFO
      [] type = Type.MX -> RDataMX
      [] type = Type.SOA -> RDataSOA
      [] type = Type.TXT -> RDataTXT
      [] type = Type.A -> RDataA
      [] type = Type.WKS -> IF user = "proxy" THEN RDataA ELSE RDataNULL
      [] type = Type.SRV -> RDataSRV(user)
      [] type = Type.AAAA -> RDataAAAA
      [] type = Type.NAPTR -> RDataNAPTR
      [] OTHER -> RDataNULL
-----------------------------------------------------------------------------
(* Message::encode, QuerySection::encode, ResourceRecord::encode           *)

PutQuestion(writer, b, name) == PutName(writer, b, name) \o Put16(Type.A) \o Put16(1)

PutField(writer, b, field, val) ==
    CASE field.kind = "name" -> PutName(writer, b, val)
      [] field.kind = "plain" -> PutPlainName(writer, b, val)
      [] field.kind \in {"string", "joined"} -> b \o LabelBytes(val)
      [] field.kind = "strings" -> b \o Flat(val)
      [] field.kind \in {"bytes", "rest"} -> b \o val

PutNextField(from, so) ==
    LET i == so.done + 1
    IN [done |-> i,
        bytes |-> PutField(from.writer, so.bytes, Fields(from.writer, from.r.type)[i], from.r.data[i])]

PutFieldLoop == INSTANCE Iteration WITH Step <- PutNextField
PutData(writer, b, r) ==
    PutFieldLoop!Iterate([writer |-> writer, r |-> r], [done |-> 0, bytes |-> b])[Len(r.data)].bytes

(* The length of the data is written over a placeholder at the end.        *)
PutLength(b, pos) ==
    LET size == Put16(Len(b) - pos - 2)
    IN [b EXCEPT ![pos + 1] = size[1], ![pos + 2] = size[2]]
PutAfterHead(writer, head, r) == PutLength(PutData(writer, head \o <<0, 0>>, r), Len(head))

PutRecord(writer, b, r) ==
    PutAfterHead(writer,
                 PutName(writer, b, r.name) \o Put16(r.type) \o Put16(r.class) \o <<0, 0>> \o Put16(r.ttl),
                 r)

(* "mid": opcode, AA, TC, RD and RA; "z": the three bits after them.       *)
HeaderBytes(m) ==
    Put16(m.id) \o Put16(32768 * m.qr + 128 * m.mid + 16 * m.z + m.rcode)
      \o Put16(Len(m.questions)) \o Put16(Len(m.records[1])) \o Put16(Len(m.records[2]))
      \o Put16(Len(m.records[3]))

PutNextItem(from, so) ==
    LET i == so.done + 1
    IN [done |-> i,
        bytes |-> IF from.what = "questions" THEN PutQuestion(from.writer, so.bytes, from.items[i])
                                             ELSE PutRecord(from.writer, so.bytes, from.items[i])]

PutItemLoop == INSTANCE Iteration WITH Step <- PutNextItem
PutSection(what, writer, b, items) ==
    LET from == [what |-> what, writer |-> writer, items |-> items]
    IN PutItemLoop!Iterate(from, [done |-> 0, bytes |-> b])[Len(items)].bytes

(* What has been written after each section.                               *)
UpToQuestions(writer, m) == PutSection("questions", writer, HeaderBytes(m), m.questions)
UpToAnswers(writer, m) == PutSection("records", writer, UpToQuestions(writer, m), m.records[1])
UpToAuthorities(writer, m) == PutSection("records", writer, UpToAnswers(writer, m), m.records[2])
EncodeAs(writer, m) == PutSection("records", writer, UpToAuthorities(writer, m), m.records[3])

Records(m) == FlattenSeq(m.records)

EncodeBytes(m) == EncodeAs("proxy", m)

(* Mutant of EncodeThrows: the buffer ends one byte early.                 *)
EncodeThrowsEarly(m) == Len(EncodeBytes(m)) >= BufferSize - 1

(* What does not fit throws, and so does going back behind the data of the *)
(* last record when that is the end of the buffer (setPos).                *)
EncodeThrows(m) ==
    LET size == Len(EncodeBytes(m))
    IN \/ size > BufferSize
       \/ size = BufferSize /\ Records(m) # <<>> /\ Last(Records(m)).data # <<>>
-----------------------------------------------------------------------------
(* What a getter returns: a value and the position behind it, or it threw. *)
Got(val, pos) == [ok |-> TRUE, val |-> val, pos |-> pos]
Failed(why) == [ok |-> FALSE, why |-> why]
Thrown == Failed("thrown")
Endless == Failed("endless")

(* Mutant of JoinNames: the link replaces what was read before it.         *)
LinkOnly(domain, link) == link

(* The labels read before a link, and the name the link leads to.          *)
JoinNames(domain, link) ==
    IF domain # <<>> /\ link = <<>> THEN Append(domain, <<>>) ELSE domain \o link

(* No name is longer than MAX_DOMAIN_LEN, with a dot between its labels.   *)
Limited(name) == IF Len(Flat(name.val)) > MaxDomain + 1 THEN Thrown ELSE name

(* setPos accepts only positions of bytes, also when it goes back behind a *)
(* link.                                                                   *)
BehindLink(b, pos, domain, link) ==
    IF ~link.ok THEN link
    ELSE IF pos >= Len(b) THEN Thrown
    ELSE Limited(Got(JoinNames(domain, link.val), pos))

(* Mutant of GetLink: reading goes on in the middle of the link.           *)
GetLinkShort(b, p, domain, linkPos, call) ==
    IF ~IsLink(b, p) \/ LinkTarget(b, p) >= Len(b) THEN Thrown
    ELSE BehindLink(b, p + 1, domain, call[Append(linkPos, LinkTarget(b, p))])

GetLink(b, p, domain, linkPos, call) ==
    IF ~IsLink(b, p) \/ LinkTarget(b, p) >= Len(b) THEN Thrown
    ELSE BehindLink(b, p + 2, domain, call[Append(linkPos, LinkTarget(b, p))])

(* Behind the labels: a zero byte, a link, or what is neither.             *)
GetEnd(b, domain, p, linkPos, call) ==
    IF p >= Len(b) THEN Thrown
    ELSE IF Byte(b, p) = 0 THEN Limited(Got(domain, p + 1))
    ELSE GetLink(b, p, domain, linkPos, call)

(* Mutant of Repeated: positions may be visited again.                     *)
NeverRepeated(linkPos) == FALSE

Repeated(linkPos) == \E i \in 1 .. Len(linkPos) - 1 : linkPos[i] = Last(linkPos)

(* One call of Buffer::getDnsDomainName; "linkPos" is mLinkPos, in which   *)
(* the position at hand is the last, and "call" what the call behind a     *)
(* link returns.                                                           *)
GetName(b, call) ==
    [linkPos \in Seq(Nat) |->
        IF Repeated(linkPos) THEN Thrown
        ELSE LET here == LabelsAt(b, Last(linkPos))
             IN GetEnd(b, here.labels, here.stop, linkPos, call)]

(* "Endless" is what would be left of calls nested deeper than that, which *)
(* LinksEnd says there are not.                                            *)
GetNameCalls == INSTANCE Iteration WITH Step <- GetName
GetDnsDomainName(b, p) ==
    GetNameCalls!Iterate(b, [linkPos \in Seq(Nat) |-> Endless])[Len(b) + 1][<<p>>]
-----------------------------------------------------------------------------
(* Message::decode, ResourceRecord::decode.  The reader is the proxy, or   *)
(* the client at the other end, which reads as the RFC says.               *)

ReadName(reader, b, p) ==
    IF reader = "proxy" THEN GetDnsDomainName(b, p) ELSE Got(NameAt(b, p), EndOfName(b, p))

Another(so, item) == IF item.ok THEN Got(Append(so.val, item.val), item.pos) ELSE item

GetBytes(b, p, n) == IF p + n > Len(b) THEN Thrown ELSE Got(Bytes(b, p, n), p + n)

GetString(b, p) == IF p >= Len(b) THEN Thrown ELSE GetBytes(b, p + 1, Byte(b, p))

(* The loops go on until something is thrown.                              *)
NextString(from, so) ==
    IF ~so.ok \/ so.pos >= from.end THEN so ELSE Another(so, GetString(from.b, so.pos))

StringLoop == INSTANCE Iteration WITH Step <- NextString
GetStrings(b, p, end) ==
    StringLoop!Iterate([b |-> b, end |-> end], Got(<<>>, p))[Len(b)]

(* RDataSRV::decode: a dot after each string, and the last two bytes are   *)
(* removed.  When there are not two, the behaviour is undefined.           *)
JoinStrings(so) ==
    LET text == FlattenSeq([i \in DOMAIN so.val |-> Append(so.val[i], Dot)])
    IN IF ~so.ok THEN so
       ELSE IF Len(text) < 2 THEN Failed("undefined")
       ELSE Got(SubSeq(text, 1, Len(text) - 2), so.pos)

(* Less than six bytes of data: the length of the target wraps around, and *)
(* the loop ends at the end of the buffer.                                 *)
GetJoined(b, p, end) == IF p > end THEN Thrown ELSE JoinStrings(GetStrings(b, p, end))

Shortened(b, p) == IsLink(b, LabelsAt(b, p).stop)

(* getDnsDomainName(false).                                                *)
Unshortened(b, p, name) == IF name.ok /\ Shortened(b, p) THEN Thrown ELSE name
GetPlainName(reader, b, p) == Unshortened(b, p, ReadName(reader, b, p))

GetField(reader, b, p, field, end) ==
    CASE field.kind = "name" -> ReadName(reader, b, p)
      [] field.kind = "plain" -> GetPlainName(reader, b, p)
      [] field.kind = "string" -> GetString(b, p)
      [] field.kind = "strings" -> GetStrings(b, p, end)
      [] field.kind = "joined" -> GetJoined(b, p, end)
      [] field.kind = "bytes" -> GetBytes(b, p, field.size)
      [] field.kind = "rest" -> GetBytes(b, p, end - p)

QuestionOf(b, name) ==
    IF ~name.ok THEN name
    ELSE IF name.pos + 4 > Len(b) THEN Thrown
    ELSE Got(name.val, name.pos + 4)

GetQuestion(reader, b, p) == QuestionOf(b, ReadName(reader, b, p))

NextField(from, so) ==
    LET field == Fields(from.reader, from.type)[Len(so.val) + 1]
    IN IF so.ok THEN Another(so, GetField(from.reader, from.b, so.pos, field, from.end)) ELSE so

FieldLoop == INSTANCE Iteration WITH Step <- NextField
GetData(reader, b, p, type, size) ==
    LET from == [reader |-> reader, b |-> b, type |-> type, end |-> p + size]
    IN IF size = 0 THEN Got(<<>>, p)
       ELSE FieldLoop!Iterate(from, Got(<<>>, p))[Len(Fields(reader, type))]

RecordOf(b, name, data) ==
    LET p == name.pos
    IN IF ~data.ok THEN data
       ELSE IF data.pos # p + 10 + Get16(b, p + 8) THEN Thrown
       ELSE Got([name |-> name.val, type |-> Get16(b, p), class |-> Get16(b, p + 2),
                 ttl |-> Get16(b, p + 6), data |-> data.val], data.pos)

GetAfterName(reader, b, name) ==
    IF ~name.ok THEN name
    ELSE IF name.pos + 10 > Len(b) THEN Thrown
    ELSE RecordOf(b, name, GetData(reader, b, name.pos + 10, Get16(b, name.pos), Get16(b, name.pos + 8)))

GetRecord(reader, b, p) == GetAfterName(reader, b, ReadName(reader, b, p))

NextItem(from, so) ==
    IF ~so.ok THEN so
    ELSE Another(so, IF from.what = "questions" THEN GetQuestion(from.reader, from.b, so.pos)
                                                ELSE GetRecord(from.reader, from.b, so.pos))

(* The n questions or records from p on.                                   *)
ItemLoop == INSTANCE Iteration WITH Step <- NextItem
GetSection(what, reader, b, p, n) ==
    ItemLoop!Iterate([what |-> what, reader |-> reader, b |-> b], Got(<<>>, p))[n]

NextSection(from, so) ==
    IF ~so.ok THEN so
    ELSE Another(so, GetSection("records", from.reader, from.b, so.pos,
                                Get16(from.b, 6 + 2 * Len(so.val))))

(* Answers, authorities and additional records.                            *)
SectionLoop == INSTANCE Iteration WITH Step <- NextSection
GetRecords(reader, b, p) ==
    SectionLoop!Iterate([reader |-> reader, b |-> b], Got(<<>>, p))[3]

(* decode leaves mRCode as the constructor set it and knows nothing of "z".*)
LastBits(reader, byte) ==
    IF reader = "proxy" THEN [z |-> 0, rcode |-> 0] ELSE [z |-> (byte \div 16) % 8, rcode |-> byte % 16]

MessageOf(reader, b, questions, rs) ==
    LET bits == LastBits(reader, Byte(b, 3))
    IN IF ~rs.ok THEN rs
       ELSE IF rs.pos # Len(b) THEN Thrown
       ELSE Got([id |-> Get16(b, 0), qr |-> Byte(b, 2) \div 128,
                 mid |-> (Get16(b, 2) \div 128) % 256, z |-> bits.z, rcode |-> bits.rcode,
                 questions |-> questions, records |-> rs.val], rs.pos)

DecodeRecords(reader, b, qs) ==
    IF qs.ok THEN MessageOf(reader, b, qs.val, GetRecords(reader, b, qs.pos)) ELSE qs

DecodeAs(reader, b) ==
    IF Len(b) < 12 THEN Thrown
    ELSE DecodeRecords(reader, b, GetSection("questions", reader, b, 12, Get16(b, 4)))

Decode(b) == DecodeAs("proxy", b)
-----------------------------------------------------------------------------
InitialBytes == /\ \/ \E m \in Messages :
                        style \in Styles /\ said = m /\ datagram = EncodeAs(style, m)
                   \/ \E g \in Garbage : style = "full" /\ said = <<>> /\ datagram = g
                /\ datagram \in Seq(0 .. 255) /\ Len(datagram) <= BufferSize

Init == InitialBytes /\ message = <<>> /\ relayed = <<>> /\ stage = "received"

(* Where the behaviour is undefined the process ends, here or when the     *)
(* message is encoded.                                                     *)
DecodeStep ==
    /\ stage = "received"
    /\ message' = Decode(datagram)
    /\ stage' = CASE message'.ok -> "decoded" [] message' = Failed("undefined") -> "undefined"
                  [] OTHER -> "skipped"
    /\ UNCHANGED <<said, style, datagram, relayed>>

EncodeStep ==
    /\ stage = "decoded"
    /\ IF EncodeThrows(message.val)
         THEN stage' = "dropped" /\ UNCHANGED relayed
         ELSE stage' = "relayed" /\ relayed' = EncodeBytes(message.val)
    /\ UNCHANGED <<said, style, datagram, message>>

Next == DecodeStep \/ EncodeStep

Spec == Init /\ [][Next]_vars
-----------------------------------------------------------------------------
(* A name may be linked to bytes that are no name, the two bytes kept free *)
(* for a length among them (rr.cpp:570).  Nobody repairs such links when   *)
(* the length is written (rr.cpp:580): the proxy's own encoder breaks them *)
(* if a label has a zero byte or the data 256 bytes or more, because the   *)
(* first of the two bytes, which ended the name, is then no longer zero.   *)
NamesOf(r) ==
    {r.name} \cup {r.data[i] : i \in {j \in DOMAIN r.data : Fields("nameserver", r.type)[j].kind = "name"}}
LengthsBreakNoLinks ==
    /\ \A r \in ToSet(Records(said)) : Len(PutData("full", <<>>, r)) < 256
    /\ \A name \in ToSet(said.questions) \cup UNION {NamesOf(r) : r \in ToSet(Records(said))} :
          \A label \in ToSet(name) : 0 \notin ToSet(label)

FromNameserver == said # <<>> /\ LengthsBreakNoLinks

ReadByRFC == DecodeAs("client", relayed)

(* The proxy relays a response without interfering (report/rapport.tex:63):*)
(* the client reads what the nameserver said.  It does not: decode forgets *)
(* the response code (message.cpp:99), names are split at the dots in      *)
(* their labels (buffer.cpp:358), an SRV target becomes one string         *)
(* (rr.cpp:459), a name that was linked to the root may go on with the     *)
(* labels of another (buffer.cpp:367), a link into the place of a length   *)
(* breaks when the length is written (rr.cpp:580), and a message is taken  *)
(* for malformed if it ends in a link (buffer.cpp:291) or has a WKS record *)
(* (rr.cpp:541).                                                           *)
NotInterfered ==
    said # <<>> => /\ stage \notin {"skipped", "undefined"}
                   /\ stage = "relayed" => ReadByRFC = Got(said, Len(relayed))

(* What is left of it: the comparison leaves aside what is lost whenever   *)
(* it occurs, that is the header's last seven bits, the target of an SRV   *)
(* record and dots in labels.  With "longer", names may also go on with    *)
(* labels that were not said.                                              *)
SameName(longer, read, sent) ==
    \E kept \in {sent, Split(sent)} : IF longer THEN IsPrefix(kept, read) ELSE read = kept
SameField(longer, type, i, read, sent) ==
    LET kind == Fields("client", type)[i].kind
    IN \/ read = sent
       \/ kind \in {"name", "plain"} /\ SameName(longer /\ kind = "name", read, sent)
       \/ type = Type.SRV /\ i = 2
SameRecord(longer, read, sent) ==
    /\ [read EXCEPT !.name = sent.name, !.data = sent.data] = sent
    /\ SameName(longer, read.name, sent.name)
    /\ DOMAIN read.data = DOMAIN sent.data
    /\ \A i \in DOMAIN sent.data : SameField(longer, sent.type, i, read.data[i], sent.data[i])
SameMessage(longer, read, sent) ==
    /\ [read EXCEPT !.z = sent.z, !.rcode = sent.rcode,
                    !.questions = sent.questions, !.records = sent.records] = sent
    /\ Len(read.questions) = Len(sent.questions)
    /\ \A i \in DOMAIN sent.questions : SameName(longer, read.questions[i], sent.questions[i])
    /\ \A i \in 1 .. 3 :
          /\ Len(read.records[i]) = Len(sent.records[i])
          /\ \A j \in DOMAIN sent.records[i] :
                SameRecord(longer, read.records[i][j], sent.records[i][j])

Relayed == stage = "relayed" /\ FromNameserver
Keeps(longer) == ReadByRFC.ok /\ SameMessage(longer, ReadByRFC.val, said)

(* Whichever way the names were shortened before the proxy and by it, also *)
(* by links into bytes that are no name (buffer.cpp:419), the client reads *)
(* the same questions and records, with the same names and data, except    *)
(* for the losses SameMessage leaves aside.                                *)
OnlyTheseChange == Relayed /\ style # "root" => Keeps(FALSE)

(* When the nameserver links to the root, the proxy looks names up without *)
(* their end (buffer.cpp:367), and the client may read labels of another   *)
(* name behind those of a name: that is an error this property permits and *)
(* NotInterfered finds.  Nothing else is damaged by it: no label that was  *)
(* said is missing, no record is lost, and no other data changes.          *)
LabelsKept == Relayed => Keeps(TRUE)

(* Apart from the errors that LinksUnderstood and NotInterfered find, no   *)
(* message of a nameserver is refused: only one whose last bytes are a     *)
(* link (buffer.cpp:291) or that has a WKS record (rr.cpp:541, although    *)
(* rr.hpp:545 has the class) is taken for malformed, and only the reading  *)
(* of an SRV record that names no target is undefined.                     *)
EndsInLink ==
    LET r == Last(Records(said))
    IN /\ r.data # <<>> /\ Last(Fields("nameserver", r.type)).kind = "name"
       /\ Byte(datagram, Len(datagram) - 2) >= LinkTag
SkipsNothingElse ==
    FromNameserver =>
        /\ stage = "skipped" =>
             /\ Records(said) # <<>>
             /\ EndsInLink \/ \E r \in ToSet(Records(said)) : r.type = Type.WKS
        /\ stage = "undefined" =>
             \E r \in ToSet(Records(said)) : r.type = Type.SRV /\ r.data[2] = <<>>

(* Every program must understand links (buffer.cpp:80-81): a message that  *)
(* would be understood with its names in full is not skipped.              *)
LinksUnderstood ==
    stage = "skipped" /\ FromNameserver => ~Decode(EncodeAs("full", said)).ok

(* A message that was short enough to come in is dropped on its way out    *)
(* only when it fills the whole buffer (rr.cpp:580): encoding does not     *)
(* make it longer.  It could, by a byte or two, if the nameserver had      *)
(* linked a name to bits of the header that decode forgets.                *)
DropsOnlyFullMessages ==
    stage = "dropped" /\ FromNameserver => Len(datagram) = BufferSize

(* Whatever the bytes, reading a name ends, links that lead in a circle    *)
(* included (buffer.cpp:257-264).                                          *)
LinksEnd == stage = "skipped" => message # Endless
=============================================================================
