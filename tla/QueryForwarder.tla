--------------------------- MODULE QueryForwarder ---------------------------
(***************************************************************************)
(* How QueryForwarder (dns/src/qforwarder.cpp) resolves a query: it sends  *)
(* it to the nameservers one after the other, several times to each, waits *)
(* in select() after each send, and takes the first datagram that carries  *)
(* the query's DNS id.  The rest of the process is DnsProxy, of which this *)
(* specification refines the forwarder's step Resolve.                     *)
(*                                                                         *)
(* A datagram is known by the query it answers: recvfrom ignores the       *)
(* address it comes from.  Nameservers answer late, twice or not at all.   *)
(***************************************************************************)
EXTENDS DnsProxy

CONSTANTS Nameservers,   \* how many are configured
          Retries,       \* retriesPerNameserver
          DnsId,         \* the id in the header of each query, chosen by its client
          MaxDatagrams   \* bound: datagrams the nameservers send

ASSUME NameserversAssumption == Nameservers \in Nat
ASSUME RetriesAssumption == Retries \in Nat \ {0}
ASSUME DnsIdAssumption == DOMAIN DnsId = Queries
ASSUME DatagramsAssumption == MaxDatagrams \in Nat

VARIABLES attempt,    \* the handler's locals: nameserver, retry, readfds, and where it is
          socketUDP,  \* datagrams that wait in the forwarder's socket
          unsent,     \* datagrams the nameservers may still send
          sends,      \* per query, how often it was sent
          outcome     \* per query, where its response comes from

resolverVars == <<attempt, socketUDP, unsent, sends, outcome>>

(* "armed": readfds holds the socket.  It does at first and after a select *)
(* that found the socket readable; a select that times out clears it.      *)
FirstAttempt == [at |-> "send", server |-> 1, try |-> 1, armed |-> TRUE]

(* "unencodable": decodes, but the receiver will not be able to encode it; *)
(* "junk": too long or does not decode.                                    *)
Forms == {"good", "unencodable", "junk"}

InitForwarder == /\ InitProxy
                 /\ attempt = FirstAttempt
                 /\ socketUDP = <<>>
                 /\ unsent = MaxDatagrams
                 /\ sends = [q \in Queries |-> 0]
                 /\ outcome = [q \in Queries |-> [by |-> "nobody", of |-> q]]

query == forwarder.entry.q
-----------------------------------------------------------------------------
(* A nameserver answers a query that was sent to it.                       *)
NameserverSends(q, form) ==
    /\ sends[q] > 0
    /\ unsent > 0
    /\ unsent' = unsent - 1
    /\ socketUDP' = Append(socketUDP, [of |-> q, form |-> form])
    /\ UNCHANGED <<allVars, attempt, sends, outcome>>
-----------------------------------------------------------------------------
(* handleOutgoingUDP, from the encode on *)

Conclude(res, by, of) ==
    /\ Resolve(res)
    /\ outcome' = [outcome EXCEPT ![query] = [by |-> by, of |-> of]]
    /\ attempt' = FirstAttempt
    /\ UNCHANGED <<unsent, sends>>

EncodeFails ==
    /\ forwarder.pc = "resolve" /\ asked[query].kind = "unencodable"
    /\ Conclude("unencodable", "servfail", query)
    /\ UNCHANGED socketUDP

Asking(at) == /\ Alive
              /\ forwarder.pc = "resolve" /\ asked[query].kind # "unencodable"
              /\ attempt.at = at

Send == /\ Asking("send")
        /\ attempt.server <= Nameservers
        /\ sends' = [sends EXCEPT ![query] = @ + 1]
        /\ attempt' = [attempt EXCEPT !.at = "select"]
        /\ UNCHANGED <<vars, socketUDP, unsent, outcome>>

(* select() sees only what readfds names.                                  *)
Readable == attempt.armed /\ socketUDP # <<>>

(* Mutant of Matches: the DNS id is not compared.                          *)
MatchesAny(d) == d.form # "junk"

Matches(d) == d.form # "junk" /\ DnsId[d.of] = DnsId[query]

Discard ==
    /\ Asking("select") /\ Readable
    /\ ~Matches(Head(socketUDP))
    /\ socketUDP' = Tail(socketUDP)
    /\ UNCHANGED <<vars, attempt, unsent, sends, outcome>>

Accept ==
    /\ Asking("select") /\ Readable
    /\ Matches(Head(socketUDP))
    /\ Conclude(IF Head(socketUDP).form = "good" THEN "answer" ELSE "unencodable",
                "nameserver", Head(socketUDP).of)
    /\ socketUDP' = Tail(socketUDP)

(* The socket became readable, but no time remains: it is not read.        *)
LastMoment ==
    /\ Asking("select") /\ Readable
    /\ attempt' = [attempt EXCEPT !.at = "check"]
    /\ UNCHANGED <<vars, socketUDP, unsent, sends, outcome>>

Timeout ==
    /\ Asking("select") /\ ~Readable
    /\ attempt' = [attempt EXCEPT !.at = "check", !.armed = FALSE]
    /\ UNCHANGED <<vars, socketUDP, unsent, sends, outcome>>

(* Mutants of NextAttempt: never another nameserver; once too often.       *)
SameServer == [attempt EXCEPT !.at = "send", !.try = @ + 1]
OnceMore ==
    IF attempt.try <= Retries
      THEN [attempt EXCEPT !.at = "send", !.try = @ + 1]
      ELSE [attempt EXCEPT !.at = "send", !.try = 1, !.server = @ + 1]

NextAttempt ==
    IF attempt.try < Retries
      THEN [attempt EXCEPT !.at = "send", !.try = @ + 1]
      ELSE [attempt EXCEPT !.at = "send", !.try = 1, !.server = @ + 1]

TryAgain ==
    /\ Asking("check")
    /\ "forwarder" \notin shouldStop
    /\ attempt' = NextAttempt
    /\ UNCHANGED <<vars, socketUDP, unsent, sends, outcome>>

GiveUp ==
    /\ Asking("check")
    /\ GiveUpStopping
    /\ attempt' = FirstAttempt
    /\ UNCHANGED <<socketUDP, unsent, sends, outcome>>

(* Mutant of NoAnswer: the client is not told.                             *)
NoResponse ==
    /\ Asking("send")
    /\ attempt.server > Nameservers
    /\ AbandonQuery("idle")
    /\ attempt' = FirstAttempt
    /\ UNCHANGED <<socketUDP, unsent, sends, outcome>>

NoAnswer ==
    /\ Asking("send")
    /\ attempt.server > Nameservers
    /\ Conclude("answer", "nxdomain", query)
    /\ UNCHANGED socketUDP

(* sendto, select or recvfrom fails.                                       *)
SocketFails ==
    /\ \/ Asking("send") /\ attempt.server <= Nameservers
       \/ Asking("select")
    /\ ForwarderFails
    /\ attempt' = FirstAttempt
    /\ UNCHANGED <<socketUDP, unsent, sends, outcome>>

Handler == EncodeFails \/ Send \/ Discard \/ Accept \/ LastMoment \/ Timeout
             \/ TryAgain \/ GiveUp \/ NoAnswer
Around == (TakeQuery \/ ReadQuery \/ WriteResponse \/ ForwarderStops) /\ UNCHANGED resolverVars

ForwarderSteps == /\ Running /\ "forwarder" \in initialized
                  /\ Handler \/ Around
                  /\ UNCHANGED mainVars
SocketFaults == Running /\ "forwarder" \in initialized /\ SocketFails /\ UNCHANGED mainVars
Others == (MainStep \/ InitializeStep \/ ReceiverRuns \/ ReceiverFaults \/ Environment)
            /\ UNCHANGED resolverVars
Upstream == Running /\ \E q \in Queries, form \in Forms : NameserverSends(q, form)

NextForwarder == ForwarderSteps \/ SocketFaults \/ Others \/ Upstream

forwarderVars == <<allVars, resolverVars>>

SpecForwarder == InitForwarder /\ [][NextForwarder]_forwarderVars

(* Nothing makes a nameserver answer.  A wait in select() ends, if only by *)
(* its time-out.                                                           *)
FairForwarder == /\ SpecForwarder
                 /\ WF_forwarderVars(MainStep /\ UNCHANGED resolverVars)
                 /\ WF_forwarderVars(InitializeStep /\ UNCHANGED resolverVars)
                 /\ WF_forwarderVars(ReceiverRuns /\ UNCHANGED resolverVars)
                 /\ WF_forwarderVars(ForwarderSteps)
-----------------------------------------------------------------------------
(* Values of the variables; a query that is not being resolved leaves no   *)
(* attempt behind.                                                         *)
TypeOKForwarder ==
    /\ TypeOK
    /\ attempt \in [at : {"send", "select", "check"}, server : 1 .. Nameservers + 1,
                    try : 1 .. Retries, armed : BOOLEAN]
    /\ forwarder.pc # "resolve" => attempt = FirstAttempt
    /\ socketUDP \in Seq([of : Queries, form : Forms])
    /\ unsent \in 0 .. MaxDatagrams
    /\ sends \in [Queries -> Nat]
    /\ outcome \in [Queries -> [by : {"nobody", "servfail", "nxdomain", "nameserver"},
                                of : Queries]]

(* A query whose DNS id no other query has is never given the answer to    *)
(* another one, although answers come late and the socket outlives the     *)
(* queries (qforwarder.cpp:191-196).                                       *)
UniqueIdOwnAnswer ==
    \A q \in Queries :
        (\A r \in Queries \ {q} : DnsId[r] # DnsId[q])
            => (outcome[q].by = "nameserver" => outcome[q].of = q)

(* The proxy says that a name does not exist only after it has asked every *)
(* nameserver as often as it is configured to, and it never asks more      *)
(* often (qforwarder.cpp:154-158, 211-214).                                *)
AskedEveryone ==
    \A q \in Queries : /\ sends[q] <= Nameservers * Retries
                       /\ outcome[q].by = "nxdomain" => sends[q] = Nameservers * Retries

(* A wait for the response ends by its time-out only when no response has  *)
(* come: a retry hears its answer (qforwarder.cpp:165-166).                *)
TimeoutMeansSilence ==
    [][Timeout => \A i \in DOMAIN socketUDP : ~Matches(socketUDP[i])]_forwarderVars

(* Resolving a query this way is, for the rest of the process, one step    *)
(* that ends: the process is the one DnsProxy describes, fairness          *)
(* included.                                                               *)
ImplementsProxy == FairProxy
=============================================================================
