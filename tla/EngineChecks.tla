---------------------------- MODULE EngineChecks ----------------------------
(***************************************************************************)
(* run_scan with its checkers in full: where Engine lets a checker find    *)
(* and raise as it likes, here the DNS client, the sweep with its threads, *)
(* the TLS handshakes and the HTTP probes run, step by step, in the order  *)
(* of the engine. Each checker starts from scratch for a target (a port),  *)
(* and what it leaves for the engine are its findings, their severities,   *)
(* and how it ended.                                                       *)
(*                                                                         *)
(* The report is run_scan's own until it returns: what a port showed is    *)
(* added to it when the checker is done with the port.                     *)
(***************************************************************************)
EXTENDS Engine, Findings

CONSTANTS
  Zones, Wires, MaxLate, MaxPointers,           \* of DnsCheck
  Protocols, Certificates,                      \* of TlsCheck
  Paths, PathWeight, PlainPaths, Responses,     \* of HttpCheck
  SecurePorts,  \* HTTPS_PORTS
  Sensitive,    \* Sensitive[p]: the weight of finding port p open
  Banners       \* the weights of what may be found in a banner, {} if none

ASSUME WeightsAssumption ==
  /\ Sensitive \in [Ports -> Weights]
  /\ Banners \subseteq SUBSET Weights
  /\ PathWeight \in [DOMAIN PathWeight -> Weights]
  /\ Paths \in Seq(DOMAIN PathWeight)

VARIABLES
  dns, question, resolver, socket, net, got, heard, zone, dnsSaid,
  msg, name, pos, end, seen, labels,
  sweep, left, probe, swept,
  tls, verify, proto, cert, certError, raw, shown, tlsSaid,
  http, secure, replies, httpSaid,
  port,     \* the port that the TLS or the HTTP checker is at
  weights   \* the severities in report.findings

Dns      == INSTANCE DnsCheck
Sweeping == INSTANCE PortSweep
Tls      == INSTANCE TlsCheck
Http     == INSTANCE HttpCheck

\* What a zone publishes, and a response shows, is something the checkers know.
ASSUME AnswersAssumption ==
  /\ \A z \in Zones, q \in 1 .. 4 :
       z[q] \in {"strong"} \cup DOMAIN Dns!DnsSeverity[Dns!Questions[q]]
  /\ \A r \in Responses : /\ r.lacks \subseteq DOMAIN Http!HeaderWeight
                          /\ r.cookies \subseteq DOMAIN Http!CookieWeight
  /\ Http!NoReply \notin Responses
ASSUME HandshakesAssumption ==
  "bad certificate" \notin Protocols /\ Certificates \subseteq SUBSET Tls!Fields
ASSUME PathsAssumption == {Http!Root, Http!Cors} \cap DOMAIN PathWeight = {}
ASSUME WiresAssumption == Wires \subseteq Seq(0 .. 255)
ASSUME BoundsAssumption == MaxLate \in Nat /\ MaxPointers \in Nat

NoPort == 0
ASSUME NumbersAssumption == Ports \subseteq Nat \ {NoPort}

dnsDetail == <<dns, question, resolver, socket, net, got, heard, zone, dnsSaid,
               msg, name, pos, end, seen, labels>>
sweepDetail == <<sweep, left, probe, swept>>
tlsDetail   == <<tls, verify, proto, cert, certError, raw, shown, tlsSaid>>
httpDetail  == <<http, secure, replies, httpSaid>>

followUpDetail == <<tlsDetail, httpDetail, port>>
detailVars == <<dnsDetail, sweepDetail, followUpDetail, weights>>
checkVars  == <<vars, detailVars>>

ChecksInit ==
  /\ Init
  /\ Dns!Init /\ Sweeping!Init /\ Tls!Idle /\ Http!Idle
  /\ port = NoPort
  /\ weights = {}

Report(ws) == weights' = weights \cup ws

-----------------------------------------------------------------------------
(* The guard, and the start of the DNS checker on what the target publishes *)

Guarded ==
  /\ \/ Clear /\ Dns!StartDns
     \/ (Refuse \/ GuardRaises \/ Return) /\ UNCHANGED dnsDetail
  /\ UNCHANGED <<sweepDetail, followUpDetail, weights>>

DnsChecks ==
  /\ pc = "dns"
  /\ Dns!Step
  /\ IF dnsSaid' = dnsSaid THEN UNCHANGED vars ELSE DnsFinding
  /\ UNCHANGED <<sweepDetail, followUpDetail, weights>>

\* The network's, not the program's.
LateAnswer ==
  /\ pc = "dns"
  /\ Dns!Discard
  /\ UNCHANGED <<vars, sweepDetail, followUpDetail, weights>>

DnsEnds ==
  /\ pc = "dns"
  /\ \/ dns = "returned" /\ DnsReturns
     \/ dns = "raised" /\ DnsRaises
  /\ Report(Dns!DnsWeights)
  /\ Dns!Leave
  /\ UNCHANGED <<sweepDetail, followUpDetail>>

-----------------------------------------------------------------------------
(* PortChecker *)

Sweeps ==
  /\ pc = "ports" /\ Ingested = {}
  /\ Sweeping!Next
  /\ UNCHANGED <<vars, dnsDetail, followUpDetail, weights>>

\* What was ingested is taken as it is; otherwise what the sweep found. One
\* that raises leaves through PortsRaises.
PortsKnown ==
  /\ pc = "ports"
  /\ Ingested # {} \/ Sweeping!Ended
  /\ Sweep
  /\ Ingested = {} => found' = IF sweep = "returned" THEN swept ELSE {}
  /\ IF sweep = "raised" THEN UNCHANGED sweepDetail ELSE Sweeping!Restart
  /\ UNCHANGED <<dnsDetail, followUpDetail, weights>>

PortsYielded ==
  /\ sweep # "raised"
  /\ PortsReturn
  /\ Report({Sensitive[p] : p \in found})
  /\ UNCHANGED <<dnsDetail, sweepDetail, followUpDetail>>

PortsRaises ==
  /\ sweep = "raised"
  /\ PortsRaise
  /\ UNCHANGED detailVars

-----------------------------------------------------------------------------
(* The follow-ups *)

\* sorted(...)
NextPort == CHOOSE p \in todo : \A q \in todo : p <= q

Raised == tls = "raised" \/ http = "raised"

TakePort ==
  /\ pc = "follow" /\ todo # {}
  /\ port = NoPort /\ ~Raised
  /\ port' = NextPort
  /\ \/ Check = "tls"  /\ Tls!Start /\ UNCHANGED httpDetail
     \/ Check = "http" /\ Http!Start(NextPort \in SecurePorts) /\ UNCHANGED tlsDetail
  /\ UNCHANGED <<vars, dnsDetail, sweepDetail, weights>>

Inspect ==
  /\ port # NoPort
  /\ \/ Tls!Step /\ UNCHANGED httpDetail
     \/ Http!Step /\ UNCHANGED tlsDetail
  /\ UNCHANGED <<vars, dnsDetail, sweepDetail, port, weights>>

\* The weights of what the checker yielded for the port.
Yielded == IF Check = "tls" THEN Tls!TlsWeights ELSE {f.weight : f \in httpSaid}

\* Visit, of port p, with these findings.
Visited(p, ws) ==
  /\ todo' = todo \ {p}
  /\ IF ws = {} THEN UNCHANGED findings ELSE Found(Check)
  /\ Visit
  /\ Report(ws)

LeavePort ==
  /\ port # NoPort
  /\ Tls!Ended \/ Http!Ended
  /\ Visited(port, Yielded)
  /\ port' = NoPort
  /\ IF Raised THEN UNCHANGED <<tlsDetail, httpDetail>> ELSE Tls!Leave /\ Http!Leave
  /\ UNCHANGED <<dnsDetail, sweepDetail>>

\* BannerChecker: one read, of what the service says by itself; no answer in
\* time, a refusal or an empty line is no finding.
ReadBanner ==
  /\ pc = "follow" /\ Check = "banners" /\ todo # {}
  /\ \E b \in Banners : Visited(NextPort, b)
  /\ UNCHANGED <<dnsDetail, sweepDetail, followUpDetail>>

FollowUpEnds ==
  /\ port = NoPort
  /\ ~Raised /\ FollowUpReturns
  /\ UNCHANGED detailVars

\* Mutant of FollowUpRaised: the exception leaves run_scan.
FollowUpAborts ==
  /\ port = NoPort /\ Raised
  /\ pc' = "raised"
  /\ UNCHANGED <<argVars, targetVars, portVars, followVars, reportVars, history, detailVars>>

\* A checker raised at a port; the banner one when it gets no socket.
FollowUpRaised ==
  /\ port = NoPort
  /\ Raised \/ (Check = "banners" /\ todo # {})
  /\ FollowUpRaises
  /\ Tls!Leave /\ Http!Leave
  /\ UNCHANGED <<dnsDetail, sweepDetail, port, weights>>

-----------------------------------------------------------------------------
ChecksStep ==
  \/ Guarded \/ DnsChecks \/ DnsEnds
  \/ Sweeps \/ PortsKnown \/ PortsYielded \/ PortsRaises
  \/ TakePort \/ Inspect \/ LeavePort \/ ReadBanner \/ FollowUpEnds \/ FollowUpRaised

\* The types of the variables.
ChecksTypeOK ==
  /\ TypeOK
  /\ Dns!DnsTypeOK /\ Sweeping!TypeOK /\ Tls!TypeOK /\ Http!TypeOK
  /\ port \in Ports \cup {NoPort}
  /\ weights \subseteq Weights

=============================================================================
