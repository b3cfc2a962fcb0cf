------------------------------ MODULE DnsCheck ------------------------------
(***************************************************************************)
(* DnsChecker (checkers/dns.py) and the client it asks with, query and     *)
(* _parse_response (dnsclient.py): four questions about one name, each put *)
(* to one public resolver over UDP and, when that does not answer in time, *)
(* to a second one.                                                        *)
(*                                                                         *)
(* A datagram under way stands for a question and then for its answer: it  *)
(* may be lost, or come when its socket is closed. Each query opens a      *)
(* socket, numbered here; that the system gives out a port again while an  *)
(* answer to it is still under way is left out. All questions carry the    *)
(* same transaction id, so nothing but the socket tells answers apart.     *)
(*                                                                         *)
(* An answer is whole ("records"), without records because the resolver    *)
(* failed or cut it short, or not a message; of its names one is decoded.  *)
(***************************************************************************)
EXTENDS DnsName, Findings, FiniteSets

CONSTANTS
  Zones,    \* what may be published about a name: for each question
            \* "strong", or what the checker has to say of it
  Wires,    \* the bytes of a name, as answers may carry it
  MaxLate   \* bound: datagrams under way

Questions == <<"spf", "dmarc", "dnssec", "caa">>
Resolvers == 1 .. 2

VARIABLES
  dns,       \* where the checker is
  question,  \* which question it is at
  resolver,  \* which of RESOLVERS it asks
  socket,    \* the sockets opened so far, the last of which is the one in use
  net,       \* the datagrams under way
  got,       \* the answer being parsed
  heard,     \* heard[q]: what the answer to question q was, if one was parsed
  zone,      \* what is published about the name
  dnsSaid    \* the findings yielded

dnsVars == <<dns, question, resolver, socket, net, got, heard, zone, dnsSaid, nameVars>>

\* The severity of what is said of a question.
DnsSeverity ==
  [spf    |-> [absent |-> "medium", all |-> "high", neutral |-> "low"],
   dmarc  |-> [absent |-> "medium", none |-> "low"],
   dnssec |-> [absent |-> "low"],
   caa    |-> [absent |-> "info"]]
DnsWeights == {SEVERITY[DnsSeverity[f.check][f.what]] : f \in dnsSaid}

Silence == "nothing"
NoZone == [q \in 1 .. 4 |-> "absent"]
NoAnswer == [to |-> 0, about |-> 0, kind |-> Silence, name |-> << >>]
Kinds == {"records", "failure", "cut", "mangled", "short"}

\* The state of a checker that has not been started.
Idle ==
  /\ dns = "ask" /\ question = 1 /\ resolver = 1
  /\ socket = 0 /\ net = {} /\ got = NoAnswer
  /\ heard = [q \in 1 .. 4 |-> Silence]
  /\ dnsSaid = {}
  /\ Off

Init == Idle /\ zone = NoZone

\* The checker is started on a name.
StartDns ==
  /\ zone' \in Zones
  /\ UNCHANGED <<dns, question, resolver, socket, net, got, heard, dnsSaid, nameVars>>

\* The engine goes on; nothing of the checker is kept.
Leave ==
  /\ dns' = "ask" /\ question' = 1 /\ resolver' = 1
  /\ socket' = 0 /\ net' = {} /\ got' = NoAnswer
  /\ heard' = [q \in 1 .. 4 |-> Silence]
  /\ dnsSaid' = {} /\ zone' = NoZone
  /\ Stop

-----------------------------------------------------------------------------
(* query: the loop over the resolvers *)

\* Mutant of OpenSocket: one socket serves all the questions.
OneSocket == socket' = 1

OpenSocket == socket' = socket + 1

Answer(kind, wire) == [to |-> socket', about |-> question, kind |-> kind, name |-> wire]

\* The answers a question may get; what its name is like matters in a whole one.
Answers == {Answer("records", w) : w \in Wires}
           \cup {Answer(kind, <<0>>) : kind \in Kinds \ {"records"}}

\* The question is sent; it is answered sooner or later, or lost.
Ask ==
  /\ dns = "ask"
  /\ OpenSocket
  /\ \/ UNCHANGED net
     \/ /\ Cardinality(net) < MaxLate
        /\ \E a \in Answers : net' = net \cup {a}
  /\ dns' = "wait"
  /\ UNCHANGED <<question, resolver, got, heard, zone, dnsSaid, nameVars>>

\* The method for this question returns.
NextQuestion ==
  /\ resolver' = 1
  /\ question' = question + 1
  /\ dns' = IF question < Len(Questions) THEN "ask" ELSE "returned"

\* The last resolver failed too: DnsError, and the method says nothing.
GiveUp == NextQuestion /\ UNCHANGED socket

NextResolver ==
  IF resolver + 1 \in Resolvers
  THEN resolver' = resolver + 1 /\ dns' = "ask" /\ UNCHANGED question
  ELSE NextQuestion

\* No answer in time. One may come later, to a socket that is closed.
Timeout ==
  /\ dns = "wait"
  /\ NextResolver
  /\ UNCHANGED <<socket, net, got, heard, zone, dnsSaid, nameVars>>

\* sendto raises OSError, which is treated like a timeout.
SendFails ==
  /\ dns = "ask"
  /\ OpenSocket
  /\ NextResolver
  /\ UNCHANGED <<net, got, heard, zone, dnsSaid, nameVars>>

\* The name has a label that is too long: DnsError before anything is sent.
LabelTooLong ==
  /\ dns = "ask" /\ resolver = 1
  /\ GiveUp
  /\ UNCHANGED <<net, got, heard, zone, dnsSaid, nameVars>>

\* The name is not ASCII, or no socket can be made: neither is a DnsError.
AskRaises ==
  /\ dns = "ask"
  /\ dns' = "raised"
  /\ UNCHANGED <<question, resolver, socket, net, got, heard, zone, dnsSaid, nameVars>>

\* What comes for a closed socket is dropped by the system.
Discard ==
  /\ \E d \in net : /\ d.to # socket \/ dns # "wait"
                    /\ net' = net \ {d}
  /\ UNCHANGED <<dns, question, resolver, socket, got, heard, zone, dnsSaid, nameVars>>

-----------------------------------------------------------------------------
(* _parse_response *)

Receive ==
  /\ dns = "wait"
  /\ \E d \in net : /\ d.to = socket
                    /\ net' = net \ {d}
                    /\ got' = d
                    /\ Start(d.name)
  /\ dns' = "parse"
  /\ UNCHANGED <<question, resolver, socket, heard, zone, dnsSaid>>

\* Fewer than twelve bytes, or a name that cannot be decoded: DnsError, which
\* the loop over the resolvers lets through.
Malformed ==
  /\ dns = "parse"
  /\ got.kind = "short" \/ name = "DnsError"
  /\ GiveUp
  /\ got' = NoAnswer /\ Stop
  /\ UNCHANGED <<net, heard, zone, dnsSaid>>

Decode ==
  /\ dns = "parse" /\ got.kind # "short"
  /\ NameStep
  /\ UNCHANGED <<dns, question, resolver, socket, net, got, heard, zone, dnsSaid>>

\* struct.error or IndexError: no DnsError, the checker ends.
ParseRaises ==
  /\ dns = "parse"
  /\ name = "IndexError" \/ (name = "decoded" /\ got.kind = "mangled")
  /\ dns' = "raised"
  /\ got' = NoAnswer /\ Stop
  /\ UNCHANGED <<question, resolver, socket, net, heard, zone, dnsSaid>>

\* What the method makes of the records: those of another question are of
\* another type, or do not begin as its own do.
Verdict ==
  IF got.kind = "records" /\ got.about = question THEN zone[question] ELSE "absent"

\* A response code other than 0, or an answer cut to nothing, is an empty
\* list of records, like that of a name that has none.
Parsed ==
  /\ dns = "parse"
  /\ name = "decoded" /\ got.kind \in {"records", "failure", "cut"}
  /\ heard' = [heard EXCEPT ![question] = got.kind]
  /\ dnsSaid' = IF Verdict = "strong" THEN dnsSaid
             ELSE dnsSaid \cup {[check |-> Questions[question], what |-> Verdict]}
  /\ NextQuestion
  /\ got' = NoAnswer /\ Stop
  /\ UNCHANGED <<socket, net, zone>>

-----------------------------------------------------------------------------
Step ==
  \/ Ask \/ Timeout \/ SendFails \/ LabelTooLong \/ AskRaises
  \/ Receive \/ Malformed \/ Decode \/ ParseRaises \/ Parsed

Ended == dns \in {"returned", "raised"}

-----------------------------------------------------------------------------
Datagrams == [to : Nat, about : 0 .. 4, kind : Kinds \cup {Silence}, name : Wires \cup {<< >>, <<0>>}]

\* The types of the variables.
DnsTypeOK ==
  /\ NameTypeOK
  /\ dns \in {"ask", "wait", "parse", "returned", "raised"}
  /\ question \in 1 .. 5 /\ resolver \in Resolvers
  /\ socket \in 0 .. 8
  /\ net \subseteq Datagrams /\ Cardinality(net) <= MaxLate
  /\ got \in Datagrams
  /\ heard \in [1 .. 4 -> {Silence, "records", "failure", "cut"}]
  /\ zone \in Zones \cup {NoZone}

SaidOf(q) == {s.what : s \in {t \in dnsSaid : t.check = Questions[q]}}

\* What is said of a question is what is published, when a whole answer was
\* heard, and nothing when none was, however late, lost or overtaken the
\* answers to it and to the other questions are. (query, dnsclient.py:71-92,
\* and the four methods of dns.py; the transaction id is one for all.)
VerdictsTrue ==
  \A q \in 1 .. 4 :
    /\ q < question /\ heard[q] = "records" => SaidOf(q) = {zone[q]} \ {"strong"}
    /\ heard[q] = Silence => SaidOf(q) = {}

\* "resolver unreachable; say nothing rather than guess" (checkers/dns.py:35):
\* a record is said to be missing only if it is not published.
MissingIsMissing ==
  \A q \in 1 .. 4 : "absent" \in SaidOf(q) => zone[q] = "absent"
=============================================================================
