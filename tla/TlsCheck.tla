------------------------------ MODULE TlsCheck ------------------------------
(***************************************************************************)
(* TlsChecker._inspect (checkers/tls.py) on one port: a handshake that     *)
(* verifies the certificate, and when the certificate is what fails, a     *)
(* second one that does not verify, to record why. Only a verified         *)
(* handshake gives the certificate's fields. The server may answer the two *)
(* handshakes differently.                                                 *)
(***************************************************************************)
EXTENDS Findings, Sequences

CONSTANTS
  Protocols,    \* the versions a server may choose
  Certificates  \* what is remarkable about a certificate that verified: sets
                \* of "expired", "expiring", "self-signed"

VARIABLES
  tls,       \* where _inspect is
  verify,    \* which pass of its loop
  proto,     \* the protocol negotiated
  cert,      \* the fields of the certificate, NoCert when there are none
  certError, \* cert_error is set
  raw,       \* the passes whose socket is open
  shown,     \* how the handshakes ended
  tlsSaid    \* the findings yielded

tlsVars == <<tls, verify, proto, cert, certError, raw, shown, tlsSaid>>

Titles == [high   |-> {"expired", "not verified", "deprecated"},
           medium |-> {"expiring", "self-signed"},
           low    |-> {"no 1.3"},
           info   |-> {"handshake failed"}]
TlsWeights == {SEVERITY[s] : s \in {t \in DOMAIN Titles : Titles[t] \cap tlsSaid # {}}}

NoProto == "None"
NoCert == {"None"}
Outdated == {"SSLv2", "SSLv3", "TLSv1", "TLSv1.1"}

Idle ==
  /\ tls = "idle" /\ verify = TRUE /\ proto = NoProto /\ cert = NoCert
  /\ certError = FALSE /\ raw = {} /\ shown = << >> /\ tlsSaid = {}

\* _inspect is called for a port.
Start ==
  /\ tls = "idle"
  /\ tls' = "connect"
  /\ UNCHANGED <<verify, proto, cert, certError, raw, shown, tlsSaid>>

\* The checker is done with the port.
Leave ==
  /\ tls' = "idle" /\ verify' = TRUE /\ proto' = NoProto /\ cert' = NoCert
  /\ certError' = FALSE /\ raw' = {} /\ shown' = << >> /\ tlsSaid' = {}

-----------------------------------------------------------------------------
OpenSocket ==
  /\ tls = "connect"
  /\ raw' = raw \cup {verify}
  /\ tls' = "handshake"
  /\ UNCHANGED <<verify, proto, cert, certError, shown, tlsSaid>>

\* socket() is called outside of the try.
NoSocket ==
  /\ tls = "connect"
  /\ tls' = "raised"
  /\ UNCHANGED <<verify, proto, cert, certError, raw, shown, tlsSaid>>

\* Mutant of Close: only the last pass closes.
CloseLast == raw' = IF verify THEN raw ELSE raw \ {verify}

\* finally: raw.close(), or the close of the socket that took it over.
Close == raw' = raw \ {verify}

HandshakeEnds(outcome) ==
  /\ tls = "handshake"
  /\ Close
  /\ shown' = Append(shown, outcome)

\* Mutant of Completes: the certificate is believed to be there in any case.
CompletesWithCert ==
  /\ proto' \in Protocols
  /\ cert' \in Certificates
  /\ HandshakeEnds(proto')
  /\ tls' = "review"
  /\ UNCHANGED <<verify, certError, tlsSaid>>

Completes ==
  /\ proto' \in Protocols
  /\ IF verify THEN cert' \in Certificates ELSE cert' = NoCert
  /\ HandshakeEnds(proto')
  /\ tls' = "review"
  /\ UNCHANGED <<verify, certError, tlsSaid>>

\* Mutant of BadCertificate: the error is not kept.
BadCertificateForgotten ==
  /\ verify /\ verify' = FALSE
  /\ HandshakeEnds("bad certificate")
  /\ tls' = "connect"
  /\ UNCHANGED <<proto, cert, certError, tlsSaid>>

\* SSLCertVerificationError, which only the verifying pass can meet.
BadCertificate ==
  /\ verify /\ verify' = FALSE
  /\ certError' = TRUE
  /\ HandshakeEnds("bad certificate")
  /\ tls' = "connect"
  /\ UNCHANGED <<proto, cert, tlsSaid>>

\* Any other SSLError, a timeout, a connection refused or reset: whatever the
\* first pass has found, this is all that is said.
Fails ==
  /\ HandshakeEnds("failed")
  /\ tlsSaid' = tlsSaid \cup {"handshake failed"}
  /\ tls' = "returned"
  /\ UNCHANGED <<verify, proto, cert, certError>>

\* A host that is no server name: ValueError.
HandshakeRaises ==
  /\ HandshakeEnds("raised")
  /\ tls' = "raised"
  /\ UNCHANGED <<verify, proto, cert, certError, tlsSaid>>

\* After the loop: the verdicts on what the last handshake left.
Review ==
  /\ tls = "review"
  /\ tlsSaid' = tlsSaid
       \cup (IF certError /\ cert = NoCert THEN {"not verified"} ELSE {})
       \cup (IF proto \in Outdated THEN {"deprecated"} ELSE {})
       \cup (IF proto = "TLSv1.2" THEN {"no 1.3"} ELSE {})
       \cup (IF cert = NoCert THEN {} ELSE cert)
  /\ tls' = "returned"
  /\ UNCHANGED <<verify, proto, cert, certError, raw, shown>>

-----------------------------------------------------------------------------
Step ==
  \/ OpenSocket \/ NoSocket \/ Completes \/ BadCertificate \/ Fails
  \/ HandshakeRaises \/ Review

Ended == tls \in {"returned", "raised"}

-----------------------------------------------------------------------------
Fields == {"expired", "expiring", "self-signed"}

\* The types of the variables.
TypeOK ==
  /\ tls \in {"idle", "connect", "handshake", "review", "returned", "raised"}
  /\ verify \in BOOLEAN /\ certError \in BOOLEAN
  /\ proto \in Protocols \cup {NoProto}
  /\ cert \in Certificates \cup {NoCert}
  /\ raw \subseteq BOOLEAN
  /\ shown \in Seq(Protocols \cup {"bad certificate", "failed", "raised"})
  /\ tlsSaid \subseteq UNION {Titles[s] : s \in DOMAIN Titles}

Saw(outcome) == \E i \in DOMAIN shown : shown[i] = outcome

\* A certificate that did not verify is not passed over: when the port is
\* done the report says so, or at least that a handshake failed, the one made
\* to characterise the fault; and no other port is accused. (The two-stage
\* handshake, tls.py:34-78.)
FaultReported ==
  tls = "returned" =>
    /\ Saw("bad certificate") => tlsSaid \cap {"not verified", "handshake failed"} # {}
    /\ "not verified" \in tlsSaid => Saw("bad certificate")

\* Nothing is said of the fields of a certificate that was not verified
\* ("the expiry check is simply skipped rather than guessed", tls.py:129-130).
OnlyVerifiedFields == tlsSaid \cap Fields # {} => ~Saw("bad certificate")

\* Two handshakes are never under way at once, and no socket outlives the
\* port, however the handshakes end. (finally, tls.py:66-70.)
SocketsClosed ==
  /\ raw \subseteq {verify}
  /\ tls \in {"idle", "review", "returned", "raised"} => raw = {}
=============================================================================
