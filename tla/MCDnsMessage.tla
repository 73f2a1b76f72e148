---------------------------- MODULE MCDnsMessage ----------------------------
(* DnsMessage on short names and at most two records.                      *)
EXTENDS DnsMessage

a == <<97>>
b2 == <<98, 98>>
dotted == <<98, Dot, 98>>

Names == {<<>>, <<a>>, <<b2, a>>, <<a, a>>}
Targets == {<<>>, <<b2, a>>}

(* The ttl 353, the address and the other bytes read like the label "a"    *)
(* and the end of a name.                                                  *)
Lure == <<1, 97, 0, 7>>

Of(names, type, data) == [name : names, type : {type}, class : {1}, ttl : {353}, data : data]

Common ==
    Of(Names, Type.CNAME, {<<n>> : n \in Names})
      \cup [name : Names, type : {Type.A}, class : {1}, ttl : {0, 353}, data : {<<>>, <<Lure>>}]

Rare ==
    UNION {Of(Targets, Type.MX, {<<<<1, 97>>, n>> : n \in Targets}),
           Of(Targets, Type.MINFO, {<<m, n>> : m, n \in Targets}),
           Of({<<>>}, Type.SOA, {<<n, <<a>>, Lure \o Lure \o Lure \o Lure \o Lure>> : n \in Targets}),
           Of({<<a>>}, Type.AAAA, {<<Lure \o Lure \o Lure \o Lure>>}),
           Of({<<a>>}, Type.WKS, {<<Lure \o <<6, 0>>>>}),
           Of(Targets, Type.NULL, {<<Lure>>}),
           Of({<<a>>}, Type.HINFO, {<<a, <<>>>>, <<<<>>, Lure>>}),
           Of({<<a>>}, Type.TXT, {<<<<a, Lure>>>>, <<<<<<>>>>>>}),
           Of({<<a>>}, Type.SRV, {<<Lure \o <<1, 97>>, n>> : n \in Targets \cup {<<a>>}}),
           Of({<<>>}, Type.NAPTR, {<<Lure, a, <<>>, b2, n>> : n \in Targets \cup {<<dotted, a>>}}),
           Of({<<dotted>>}, Type.CNAME, {<<<<a, dotted>>>>})}

OPT == [name |-> <<>>, type |-> Type.OPT, class |-> 1232, ttl |-> 353, data |-> <<>>]

Response(id, mid, rcode, question, records) ==
    [id |-> id, qr |-> 1, mid |-> mid, z |-> 0, rcode |-> rcode, questions |-> <<question>>,
     records |-> records]

NoError == {Response(353, 0, 0, q, rs) : q \in Names,
              rs \in {<<<<r>>, <<s>>, <<>>>> : r \in Common, s \in Rare}
                      \cup {<<<<r>>, <<>>, <<s>>>> : r \in Rare, s \in Common}
                      \cup {<<<<r, s>>, <<>>, <<>>>> : r, s \in Common}}
NXDomain == {Response(7, 131, 3, q, rs) : q \in Names,
              rs \in {<<<<>>, <<>>, <<>>>>} \cup {<<<<>>, <<r>>, <<>>>> : r \in Common \cup Rare}}

Queries == {[Response(353, 2, 0, q, <<<<>>, <<>>, rs>>) EXCEPT !.qr = 0, !.z = 1] :
              q \in Names \cup {<<dotted, a>>}, rs \in {<<>>, <<OPT>>}}

Sent == NoError \cup NXDomain \cup Queries

(* One message for each thing that NotInterfered finds, each a set to give *)
(* to Messages.                                                            *)
Record(name, type, data) == [name |-> name, type |-> type, class |-> 1, ttl |-> 353, data |-> data]
Address(name) == Record(name, Type.A, <<<<4, 5, 6, 7>>>>)
Answers(records) == {Response(9, 0, 0, <<>>, <<records, <<>>, <<>>>>)}

NoSuchName == {Response(9, 0, 3, <<a>>, <<<<>>, <<>>, <<>>>>)}
DottedLabel == Answers(<<Address(<<dotted, a>>)>>)
Service == Answers(<<Record(<<a>>, Type.SRV, <<Lure \o <<1, 97>>, <<b2, a>>>>)>>)
WellKnownService == Answers(<<Record(<<a>>, Type.WKS, <<Lure \o <<6, 0>>>>), Address(<<a>>)>>)

(* The second name is the beginning of the first.                          *)
Beginning == Answers(<<Address(<<b2, a>>), Address(<<b2>>)>>)

(* The last byte of a label is zero: the name is linked to the ttl and to  *)
(* the two bytes kept free for the length.                                 *)
ZeroInLabel ==
    Answers(<<[Record(<<>>, Type.MINFO, <<<<>>, <<<<97, 0>>>>>>) EXCEPT !.ttl = 609],
              Address(<<a>>)>>)

(* A header that announces one question, up to four bytes of a name, and   *)
(* the type and class; or one record of each type with too much or too     *)
(* little data.                                                            *)
Garbled ==
    LET header(qd, an) == Put16(7) \o Put16(0) \o Put16(qd) \o Put16(an) \o Put16(0) \o Put16(0)
        names == UNION {[1 .. n -> {0, 1, 2, 12, 14, 64, 192}] : n \in 0 .. 4}
    IN {header(1, 0) \o name \o Put16(Type.A) \o Put16(1) : name \in names}
         \cup {header(0, 1) \o <<0>> \o Put16(type) \o Put16(1) \o <<0, 0, 0, 0>> \o Put16(size)
                 \o <<1, 97, 192, 12, 0>> :
                 type \in {Type[t] : t \in DOMAIN Type}, size \in 1 .. 6}
=============================================================================
