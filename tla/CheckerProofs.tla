--------------------------- MODULE CheckerProofs ---------------------------
(***************************************************************************)
(* Proofs about the checkers as the program runs them, one target and one  *)
(* port after the other: what the TLS, HTTP and DNS checkers say, and what *)
(* the sweep finds, for every set of certificates, responses, zones and    *)
(* wires, every number of ports and of datagrams under way.                *)
(***************************************************************************)
EXTENDS CommandLineProofs, FiniteSetTheorems, WellFoundedInduction

SweepProofs == INSTANCE PortSweepProofs

-----------------------------------------------------------------------------
(* A step of the program, as a checker sees it *)

LEMMA OutsideChecks ==
  ASSUME [MainNext]_cliVars
  PROVE  ChecksStep \/ LateAnswer \/ UNCHANGED checkVars
BY MainSteps, AroundSteps DEF cliVars

LEMMA SweepMoves ==
  ASSUME [MainNext]_cliVars
  PROVE  Sweeping!Next \/ Sweeping!Restart \/ UNCHANGED sweepDetail
BY OutsideChecks
DEF ChecksStep, LateAnswer, Guarded, DnsChecks, DnsEnds, Sweeps, PortsKnown, PortsYielded,
    PortsRaises, TakePort, Inspect, LeavePort, ReadBanner, FollowUpEnds, FollowUpRaised,
    checkVars, detailVars

LEMMA TlsMoves ==
  ASSUME [MainNext]_cliVars
  PROVE  Tls!Start \/ Tls!Step \/ Tls!Leave \/ UNCHANGED tlsDetail
BY OutsideChecks
DEF ChecksStep, LateAnswer, Guarded, DnsChecks, DnsEnds, Sweeps, PortsKnown, PortsYielded,
    PortsRaises, TakePort, Inspect, LeavePort, ReadBanner, FollowUpEnds, FollowUpRaised,
    checkVars, detailVars, followUpDetail

LEMMA HttpMoves ==
  ASSUME [MainNext]_cliVars
  PROVE  (\E s \in BOOLEAN : Http!Start(s)) \/ Http!Step \/ Http!Leave \/ UNCHANGED httpDetail
<1>1. CASE TakePort
  <2>1. (NextPort \in SecurePorts) \in BOOLEAN
    OBVIOUS
  <2>2. Http!Start(NextPort \in SecurePorts) \/ UNCHANGED httpDetail
    BY <1>1 DEF TakePort
  <2>. QED  BY <2>1, <2>2, Zenon
<1>2. CASE ~TakePort
  BY <1>2, OutsideChecks
  DEF ChecksStep, LateAnswer, Guarded, DnsChecks, DnsEnds, Sweeps, PortsKnown, PortsYielded,
      PortsRaises, Inspect, LeavePort, ReadBanner, FollowUpEnds, FollowUpRaised,
      checkVars, detailVars, followUpDetail
<1>. QED  BY <1>1, <1>2

-----------------------------------------------------------------------------
(* The sweep *)

LEMMA SweepStep ==
  ASSUME SweepProofs!SweepInv, [MainNext]_cliVars
  PROVE  SweepProofs!SweepInv'
<1>1. CASE Sweeping!Next
  <2>1. SweepProofs!Next
    BY <1>1
    DEF Sweeping!Next, Sweeping!Thread, Sweeping!Begin, Sweeping!CannotBegin, Sweeping!Answered,
        Sweeping!Submit, Sweeping!SubmitFails, Sweeping!Collect, Sweeping!CollectRaises,
        Sweeping!Leave, Sweeping!Joined,
        SweepProofs!Next, SweepProofs!Thread, SweepProofs!Begin, SweepProofs!CannotBegin,
        SweepProofs!Answered, SweepProofs!Submit, SweepProofs!SubmitFails, SweepProofs!Collect,
        SweepProofs!CollectRaises, SweepProofs!Leave, SweepProofs!Joined
  <2>. QED
    BY <2>1, SweepProofs!ThreadInv, SweepProofs!LoopInv, SweepProofs!LeaveInv DEF SweepProofs!Next
<1>2. CASE Sweeping!Restart
  <2>1. SweepProofs!Init'
    BY <1>2 DEF Sweeping!Restart, SweepProofs!Init
  <2>. QED  BY <2>1 DEF SweepProofs!Init, SweepProofs!SweepInv, SweepProofs!TypeOK, SweepProofs!Ended
<1>3. CASE UNCHANGED sweepDetail
  BY <1>3 DEF sweepDetail, SweepProofs!SweepInv, SweepProofs!TypeOK, SweepProofs!Ended,
              SweepProofs!Joined
<1>. QED  BY <1>1, <1>2, <1>3, SweepMoves

\* In every state the sweep is as it may be in PortSweep, whatever target it is
\* made for.
THEOREM SweepsInvariant == MainSpec => []SweepProofs!SweepInv
<1>1. MainInit => SweepProofs!SweepInv
  BY DEF MainInit, ChecksInit, Sweeping!Init, SweepProofs!SweepInv, SweepProofs!TypeOK,
         SweepProofs!Ended
<1>2. SweepProofs!SweepInv /\ [MainNext]_cliVars => SweepProofs!SweepInv'
  BY SweepStep
<1>. QED  BY <1>1, <1>2, PTL DEF MainSpec

\* Whatever the threads of a sweep do and in whatever order, the ports found
\* open for a target are those that accepted. (ports.py:76-82.)
THEOREM SweepsExact == MainSpec => []FoundExact
<1>1. SweepProofs!SweepInv => FoundExact
  BY DEF SweepProofs!SweepInv, SweepProofs!TypeOK, FoundExact, Sweeping!FoundExact
<1>. QED  BY SweepsInvariant, <1>1, PTL

\* When the engine goes on, no thread of the sweep is left. (ports.py:75.)
THEOREM SweepsLeaveNothing == MainSpec => []NothingLeftBehind
<1>1. SweepProofs!SweepInv => NothingLeftBehind
  BY DEF SweepProofs!SweepInv, SweepProofs!Ended, SweepProofs!Joined,
         NothingLeftBehind, Sweeping!NothingLeftBehind, Sweeping!Ended
<1>. QED  BY SweepsInvariant, <1>1, PTL

-----------------------------------------------------------------------------
(* The handshakes *)

\* The second handshake, which gives no fields, is made if and only if the
\* first showed a bad certificate.
Outcomes == Protocols \cup {"bad certificate", "failed", "raised"}

TlsInv ==
  /\ tls \in {"idle", "connect", "handshake", "review", "returned", "raised"}
  /\ verify \in BOOLEAN
  /\ raw = IF tls = "handshake" THEN {verify} ELSE {}
  /\ shown \in Seq(Outcomes)
  /\ certError = ~verify
  /\ Tls!Saw("bad certificate") <=> ~verify
  /\ cert = Tls!NoCert \/ (verify /\ cert \subseteq Tls!Fields)
  /\ tls \in {"idle", "connect", "handshake"} => cert = Tls!NoCert
  /\ tls \in {"idle", "connect", "handshake", "review"} => tlsSaid = {}
  /\ tls = "returned" /\ ~verify => tlsSaid \cap {"not verified", "handshake failed"} # {}
  /\ "not verified" \in tlsSaid => ~verify
  /\ tlsSaid \cap Tls!Fields # {} => verify

LEMMA SawAppended ==
  ASSUME TlsInv, NEW outcome \in Outcomes, shown' = Append(shown, outcome)
  PROVE  /\ shown' \in Seq(Outcomes)
         /\ Tls!Saw("bad certificate")' <=>
              Tls!Saw("bad certificate") \/ outcome = "bad certificate"
<1>1. PICK n \in Nat : n = Len(shown) /\ DOMAIN shown = 1 .. n /\ shown \in Seq(Outcomes)
  BY LenProperties DEF TlsInv
<1>2. /\ shown' \in Seq(Outcomes)
      /\ Len(shown') = n + 1
      /\ \A i \in 1 .. n : shown'[i] = shown[i]
      /\ shown'[n + 1] = outcome
  BY <1>1, AppendProperties
<1>3. DOMAIN shown' = 1 .. n + 1
  BY <1>1, <1>2, LenProperties
<1>4. \A i \in 1 .. n + 1 : i \in 1 .. n \/ i = n + 1
  BY <1>1
<1>5. n + 1 \in DOMAIN shown' /\ \A i \in DOMAIN shown : i \in DOMAIN shown'
  BY <1>1, <1>3
<1>6. Tls!Saw("bad certificate") \/ outcome = "bad certificate" => Tls!Saw("bad certificate")'
  BY <1>1, <1>2, <1>5, Zenon DEF Tls!Saw
<1>7. Tls!Saw("bad certificate")' => Tls!Saw("bad certificate") \/ outcome = "bad certificate"
  BY <1>1, <1>2, <1>3, <1>4, Zenon DEF Tls!Saw
<1>. QED  BY <1>2, <1>6, <1>7

\* Nothing was shown yet.
LEMMA NothingShown == << >> \in Seq(Outcomes) /\ \A i \in DOMAIN << >> : FALSE
BY EmptySeq

\* A handshake ends.
LEMMA HandshakeEnded ==
  ASSUME TlsInv, NEW outcome \in Outcomes, Tls!HandshakeEnds(outcome)
  PROVE  /\ tlsSaid = {} /\ raw' = {} /\ cert = Tls!NoCert
         /\ shown' \in Seq(Outcomes)
         /\ Tls!Saw("bad certificate")' <=> ~verify \/ outcome = "bad certificate"
<1>1. tls = "handshake" /\ raw' = raw \ {verify} /\ shown' = Append(shown, outcome)
  BY DEF Tls!HandshakeEnds, Tls!Close
<1>2. raw' = {} /\ tlsSaid = {} /\ cert = Tls!NoCert
  BY <1>1 DEF TlsInv
<1>. QED  BY <1>1, <1>2, SawAppended DEF TlsInv

LEMMA TlsStepInv == ASSUME TlsInv, Tls!Step PROVE TlsInv'
<1>1. CASE Tls!OpenSocket
  <2>1. raw' = {verify'} /\ tls' = "handshake" /\ tls = "connect"
    BY <1>1 DEF TlsInv, Tls!OpenSocket
  <2>2. UNCHANGED <<verify, cert, certError, shown, tlsSaid>>
    BY <1>1 DEF Tls!OpenSocket
  <2>. QED  BY <2>1, <2>2 DEF TlsInv, Tls!Saw
<1>6. CASE Tls!NoSocket
  <2>1. raw' = {} /\ tls' = "raised" /\ tls = "connect"
    BY <1>6 DEF TlsInv, Tls!NoSocket
  <2>2. UNCHANGED <<verify, cert, certError, shown, tlsSaid>>
    BY <1>6 DEF Tls!NoSocket
  <2>. QED  BY <2>1, <2>2 DEF TlsInv, Tls!Saw
<1>2. CASE Tls!Completes
  <2>1. proto' \in Outcomes /\ proto' # "bad certificate" /\ Tls!HandshakeEnds(proto')
    BY <1>2, HandshakesAssumption DEF Tls!Completes, Outcomes
  <2>2. /\ tlsSaid = {} /\ raw' = {} /\ shown' \in Seq(Outcomes)
        /\ Tls!Saw("bad certificate")' <=> ~verify
    BY <2>1, HandshakeEnded
  <2>3. UNCHANGED <<verify, certError, tlsSaid>> /\ tls' = "review"
    BY <1>2 DEF Tls!Completes
  <2>4. cert' = Tls!NoCert \/ (verify' /\ cert' \subseteq Tls!Fields)
    <3>1. CASE verify
      BY <1>2, <2>3, <3>1, HandshakesAssumption DEF Tls!Completes
    <3>2. CASE ~verify
      BY <1>2, <3>2 DEF Tls!Completes
    <3>. QED  BY <3>1, <3>2
  <2>. QED  BY <2>2, <2>3, <2>4 DEF TlsInv
<1>3. CASE Tls!BadCertificate
  <2>1. /\ tlsSaid = {} /\ raw' = {} /\ shown' \in Seq(Outcomes) /\ cert = Tls!NoCert
        /\ Tls!Saw("bad certificate")'
    BY <1>3, HandshakeEnded DEF Tls!BadCertificate, Outcomes
  <2>2. /\ verify' = FALSE /\ certError' = TRUE /\ cert' = cert /\ tlsSaid' = tlsSaid
        /\ tls' = "connect"
    BY <1>3 DEF Tls!BadCertificate
  <2>. QED  BY <2>1, <2>2 DEF TlsInv
<1>4. CASE Tls!Fails \/ Tls!HandshakeRaises
  <2>1. PICK outcome \in {"failed", "raised"} : Tls!HandshakeEnds(outcome)
    BY <1>4 DEF Tls!Fails, Tls!HandshakeRaises
  <2>2. outcome \in Outcomes
    BY <2>1 DEF Outcomes
  <2>3. /\ tlsSaid = {} /\ raw' = {} /\ shown' \in Seq(Outcomes)
        /\ Tls!Saw("bad certificate")' <=> ~verify
    BY <2>1, <2>2, HandshakeEnded
  <2>4. CASE Tls!Fails
    BY <2>3, <2>4 DEF Tls!Fails, TlsInv, Tls!Fields
  <2>5. CASE Tls!HandshakeRaises
    BY <2>3, <2>5 DEF Tls!HandshakeRaises, TlsInv
  <2>. QED  BY <1>4, <2>4, <2>5
<1>5. CASE Tls!Review
  BY <1>5 DEF TlsInv, Tls!Review, Tls!Saw, Tls!NoCert, Tls!Fields
<1>. QED  BY <1>1, <1>2, <1>3, <1>4, <1>5, <1>6 DEF Tls!Step

LEMMA TlsMoveInv == ASSUME TlsInv, [MainNext]_cliVars PROVE TlsInv'
<1>1. CASE Tls!Start
  BY <1>1 DEF TlsInv, Tls!Start, Tls!Saw
<1>2. CASE Tls!Leave
  BY <1>2, NothingShown DEF TlsInv, Tls!Leave, Tls!Saw
<1>3. CASE UNCHANGED tlsDetail
  BY <1>3 DEF TlsInv, tlsDetail, Tls!Saw
<1>. QED  BY <1>1, <1>2, <1>3, TlsStepInv, TlsMoves

\* The invariant of the handshakes.
THEOREM TlsInvariant == MainSpec => []TlsInv
<1>1. MainInit => TlsInv
  <2>. SUFFICES ASSUME Tls!Idle PROVE TlsInv
    BY DEF MainInit, ChecksInit
  <2>. QED  BY NothingShown DEF Tls!Idle, TlsInv, Tls!Saw
<1>2. TlsInv /\ [MainNext]_cliVars => TlsInv'
  BY TlsMoveInv
<1>. QED  BY <1>1, <1>2, PTL DEF MainSpec

\* Whatever certificates servers show and however their handshakes end, a bad
\* certificate is reported, and no other. (tls.py:34-78.)
THEOREM HandshakesTold == MainSpec => []FaultReported
<1>1. TlsInv => FaultReported
  BY DEF TlsInv, FaultReported, Tls!FaultReported
<1>. QED  BY TlsInvariant, <1>1, PTL

\* No field is taken from a certificate that was not verified. (tls.py:129-130.)
THEOREM FieldsVerified == MainSpec => []OnlyVerifiedFields
<1>1. TlsInv => OnlyVerifiedFields
  BY DEF TlsInv, OnlyVerifiedFields, Tls!OnlyVerifiedFields
<1>. QED  BY TlsInvariant, <1>1, PTL

\* Two handshakes are never under way at once, and no socket outlives its port.
\* (tls.py:66-70.)
THEOREM SocketsAreClosed == MainSpec => []SocketsClosed
<1>1. TlsInv => SocketsClosed
  BY DEF TlsInv, SocketsClosed, Tls!SocketsClosed
<1>. QED  BY TlsInvariant, <1>1, PTL

-----------------------------------------------------------------------------
(* The HTTP probes *)

\* Before a port is taken nothing has been asked; a port is left when all has;
\* and what is said is what the answers show.
HttpInv ==
  /\ HttpGraded
  /\ http = "idle" => replies = << >>
  /\ http = "returned" /\ replies[1] # Http!NoReply => Len(replies) = Len(Http!Probes)
  /\ EachReplyItsOwn

LEMMA RootFirst == ASSUME NEW i \in 1 .. Len(Http!Probes), Http!Probes[i] = Http!Root PROVE i = 1
<1>. DEFINE S == {Http!Root, Http!Cors} \cup DOMAIN PathWeight
            start == <<Http!Root, Http!Cors>>
<1>1. /\ start \in Seq(S) /\ Len(start) = 2
      /\ start[2] = Http!Cors /\ Http!Cors # Http!Root
  BY DEF Http!Root, Http!Cors
<1>2. /\ Paths \in Seq(S) /\ Len(Paths) \in Nat
      /\ \A k \in 1 .. Len(Paths) : Paths[k] # Http!Root
  BY WeightsAssumption, PathsAssumption, LenProperties, ElementOfSeq
<1>3. /\ Len(Http!Probes) = 2 + Len(Paths)
      /\ \A k \in 1 .. 2 + Len(Paths) :
           Http!Probes[k] = IF k <= 2 THEN start[k] ELSE Paths[k - 2]
  BY <1>1, <1>2, ConcatProperties DEF Http!Probes
<1>. HIDE DEF start
<1>4. i \notin 3 .. 2 + Len(Paths)
  BY <1>2, <1>3
<1>5. i # 2
  BY <1>1, <1>2, <1>3
<1>. QED  BY <1>2, <1>3, <1>4, <1>5

\* Nothing is said before the first answer.
LEMMA NothingSaid == ASSUME replies = << >> PROVE EachReplyItsOwn <=> httpSaid = {}
BY DEF EachReplyItsOwn, Http!EachReplyItsOwn, Http!Answers

LEMMA NothingSaidNext == ASSUME replies' = << >>, httpSaid' = {} PROVE EachReplyItsOwn'
BY DEF EachReplyItsOwn, Http!EachReplyItsOwn, Http!Answers

LEMMA SaidKept ==
  ASSUME EachReplyItsOwn, UNCHANGED <<secure, replies, httpSaid>>
  PROVE  EachReplyItsOwn'
BY DEF EachReplyItsOwn, Http!EachReplyItsOwn, Http!Answers, Http!Verdicts,
       Http!CheckHeaders, Http!CheckCookies, Http!CheckFingerprint, Http!CheckCors,
       Http!CheckExposure, Http!LooksLikeHtml404

\* What an answer shows depends on the port, which stays the same for all probes.
LEMMA VerdictKept ==
  ASSUME NEW i, NEW r, UNCHANGED secure
  PROVE  Http!Verdicts(i, r)' = Http!Verdicts(i, r)
BY DEF Http!Verdicts, Http!CheckHeaders, Http!CheckCookies, Http!CheckFingerprint,
       Http!CheckCors, Http!CheckExposure, Http!LooksLikeHtml404

LEMMA HttpStepInv == ASSUME HttpInv, Http!Step PROVE HttpInv'
<1>1. HttpGraded' /\ http = "get"
  BY HttpStepGraded DEF HttpInv, Http!Step, Http!Answered, Http!Unanswered, Http!GetRaises
<1>2. CASE Http!GetRaises
  BY <1>1, <1>2, SaidKept DEF HttpInv, Http!GetRaises
<1>3. PICK n \in Nat : n = Len(replies) /\ DOMAIN replies = 1 .. n
                       /\ n < Len(Http!Probes) /\ (n = 0 <=> replies = << >>)
  BY <1>1, LenProperties, EmptySeq DEF HttpInv, HttpGraded
<1>4. ASSUME NEW r \in Responses \cup {Http!NoReply}, replies' = Append(replies, r)
      PROVE  /\ Len(replies') = n + 1 /\ DOMAIN replies' = 1 .. n + 1
             /\ \A i \in 1 .. n : replies'[i] = replies[i]
             /\ replies'[n + 1] = r /\ replies' # << >>
  <2>1. replies \in Seq(Responses \cup {Http!NoReply})
    BY DEF HttpInv, HttpGraded
  <2>2. /\ replies' \in Seq(Responses \cup {Http!NoReply}) /\ Len(replies') = n + 1
        /\ \A i \in 1 .. n : replies'[i] = replies[i]
        /\ replies'[n + 1] = r /\ replies' # << >>
    BY <1>3, <1>4, <2>1, AppendProperties
  <2>. QED  BY <1>3, <2>2, LenProperties
<1>5. ASSUME NEW r \in Responses \cup {Http!NoReply}, replies' = Append(replies, r),
             UNCHANGED secure,
             httpSaid' = IF r = Http!NoReply THEN httpSaid
                         ELSE httpSaid \cup Http!Verdicts(n + 1, r)
      PROVE  EachReplyItsOwn'
  <2>. DEFINE Shown(i) == Http!Verdicts(i, replies[i])
  <2>1. /\ httpSaid = UNION {Shown(i) : i \in Http!Answers}
        /\ \A i \in Http!Answers : i \in 1 .. n
    BY <1>3 DEF HttpInv, EachReplyItsOwn, Http!EachReplyItsOwn, Http!Answers
  <2>2. Http!Answers' = IF r = Http!NoReply THEN Http!Answers ELSE Http!Answers \cup {n + 1}
    BY <1>3, <1>4, <1>5 DEF Http!Answers
  <2>3. /\ \A i \in 1 .. n : Shown(i)' = Shown(i)
        /\ Shown(n + 1)' = Http!Verdicts(n + 1, r)
    BY <1>4, <1>5, VerdictKept
  <2>. HIDE DEF Shown
  <2>4. httpSaid' = UNION {Shown(i)' : i \in Http!Answers'}
    BY <1>5, <2>1, <2>2, <2>3
  <2>. QED  BY <2>4 DEF EachReplyItsOwn, Http!EachReplyItsOwn, Shown
<1>6. Http!Probe = n + 1 /\ Len(Http!Probes) \in Nat
  BY <1>3, ProbesAre DEF Http!Probe
<1>7. CASE Http!Answered
  <2>1. PICK r \in Responses : replies' = Append(replies, r)
                               /\ httpSaid' = httpSaid \cup Http!Verdicts(Http!Probe, r)
    BY <1>7 DEF Http!Answered
  <2>2. http' = "get" \/ (http' = "returned" /\ Len(replies') = Len(Http!Probes))
    BY <1>3, <1>4, <1>6, <1>7, <2>1 DEF Http!Answered, Http!NextProbe
  <2>3. EachReplyItsOwn'
    BY <1>5, <1>6, <1>7, <2>1, AnswersAssumption DEF Http!Answered
  <2>. QED  BY <1>1, <2>2, <2>3 DEF HttpInv
<1>8. CASE Http!Unanswered
  <2>1. replies' = Append(replies, Http!NoReply) /\ EachReplyItsOwn'
    BY <1>5, <1>8 DEF Http!Unanswered
  <2>2. CASE Http!Probes[n + 1] = Http!Root
    <3>1. n = 0
      BY <1>3, <2>2, RootFirst
    <3>2. replies'[1] = Http!NoReply /\ http' = "returned"
      BY <1>4, <1>6, <1>8, <2>1, <2>2, <3>1 DEF Http!Unanswered
    <3>. QED  BY <1>1, <2>1, <3>2 DEF HttpInv
  <2>3. CASE Http!Probes[n + 1] # Http!Root
    <3>1. http' = "get" \/ (http' = "returned" /\ Len(replies') = Len(Http!Probes))
      BY <1>3, <1>4, <1>6, <1>8, <2>1, <2>3 DEF Http!Unanswered, Http!NextProbe
    <3>. QED  BY <1>1, <2>1, <3>1 DEF HttpInv
  <2>. QED  BY <2>2, <2>3
<1>. QED  BY <1>2, <1>7, <1>8 DEF Http!Step

LEMMA HttpMoveInv == ASSUME HttpInv, [MainNext]_cliVars PROVE HttpInv'
<1>1. CASE \E s : Http!Start(s)
  <2>1. replies = << >> /\ httpSaid = {}
    BY <1>1, NothingSaid DEF HttpInv, Http!Start
  <2>2. EachReplyItsOwn'
    BY <1>1, <2>1, NothingSaidNext DEF Http!Start
  <2>. QED  BY <1>1, <2>2, HttpRestGraded DEF HttpInv, Http!Start
<1>2. CASE Http!Leave
  <2>1. EachReplyItsOwn'
    BY <1>2, NothingSaidNext DEF Http!Leave
  <2>. QED  BY <1>2, <2>1, HttpRestGraded DEF HttpInv, Http!Leave
<1>3. CASE UNCHANGED httpDetail
  BY <1>3, HttpRestGraded, SaidKept DEF HttpInv, httpDetail
<1>. QED  BY <1>1, <1>2, <1>3, HttpStepInv, HttpMoves

\* The invariant of the probes.
THEOREM HttpInvariant == MainSpec => []HttpInv
<1>1. MainInit => HttpInv
  BY GradesInit, NothingSaid DEF GradesInv, HttpInv, MainInit, ChecksInit, Http!Idle
<1>2. HttpInv /\ [MainNext]_cliVars => HttpInv'
  BY HttpMoveInv
<1>. QED  BY <1>1, <1>2, PTL DEF MainSpec

\* For every list of paths, and whichever probes a server drops: each is made
\* once the root page was answered. (http.py:17.)
THEOREM ProbesFair == MainSpec => []ProbesIndependent
<1>1. HttpInv => ProbesIndependent
  BY DEF HttpInv, ProbesIndependent, Http!ProbesIndependent
<1>. QED  BY HttpInvariant, <1>1, PTL

\* For every list of paths, every set of answers, and whichever probes a server
\* drops: what is said of a port is what the answer to each probe shows for it.
\* (http.py:89-100.)
THEOREM RepliesAreOwn == MainSpec => []EachReplyItsOwn
<1>1. HttpInv => EachReplyItsOwn
  BY DEF HttpInv
<1>. QED  BY HttpInvariant, <1>1, PTL

-----------------------------------------------------------------------------
(* The DNS client *)

\* Every answer under way to the socket in use is to the question at hand.
\* Nothing is known of later questions, and there are none before a target.
DnsInv ==
  /\ dns \in {"ask", "wait", "parse", "returned", "raised"}
  /\ question \in 1 .. 5 /\ socket \in Nat
  /\ dns \in {"ask", "wait", "parse"} => question \in 1 .. 4
  /\ \A d \in net : /\ d.to \in Nat /\ d.to <= socket
                    /\ dns = "wait" /\ d.to = socket => d.about = question
  /\ dns = "parse" => got.about = question
  /\ DOMAIN heard = 1 .. 4
  /\ \A f \in dnsSaid : \E q \in 1 .. 4 : q < question /\ f.check = Dns!Questions[q]
  /\ \A q \in 1 .. 4 :
       /\ q >= question => heard[q] = Dns!Silence
       /\ q < question /\ heard[q] = "records" => Dns!SaidOf(q) = {zone[q]} \ {"strong"}
       /\ heard[q] = Dns!Silence => Dns!SaidOf(q) = {}
  /\ pc # "dns" => question = 1 /\ dns = "ask"

LEMMA DnsMoves ==
  ASSUME [MainNext]_cliVars
  PROVE  \/ pc = "dns" /\ pc' = "dns" /\ Dns!Step
         \/ pc = "dns" /\ pc' = "dns" /\ Dns!Discard
         \/ pc = "guard" /\ pc' = "dns" /\ Dns!StartDns
         \/ Dns!Leave
         \/ UNCHANGED dnsDetail /\ (pc = "dns" <=> pc' = "dns")
<1>1. CASE DnsChecks \/ LateAnswer
  BY <1>1 DEF DnsChecks, LateAnswer, DnsFinding, vars
<1>2. CASE DnsEnds
  BY <1>2 DEF DnsEnds
<1>3. CASE Guarded
  BY <1>3 DEF Guarded, Clear, Refuse, GuardRaises, Return, NextTarget
<1>4. CASE Sweeps \/ PortsKnown \/ PortsYielded \/ PortsRaises
  BY <1>4 DEF Sweeps, PortsKnown, Sweep, PortsYielded, PortsReturn, UseOpenPorts, PortsRaises,
              PortsRaise, NextTarget, detailVars, vars
<1>5. CASE TakePort \/ Inspect \/ LeavePort \/ ReadBanner \/ FollowUpEnds \/ FollowUpRaised
  BY <1>5 DEF TakePort, Inspect, LeavePort, ReadBanner, Visited, Visit, FollowUpEnds,
              FollowUpReturns, FollowUpRaised, FollowUpRaises, NextFollowUp, NextTarget,
              detailVars, vars
<1>6. CASE UNCHANGED checkVars
  BY <1>6 DEF checkVars, vars, detailVars
<1>. QED  BY <1>1, <1>2, <1>3, <1>4, <1>5, <1>6, OutsideChecks DEF ChecksStep

LEMMA QuestionsDiffer ==
  \A q, r \in 1 .. 4 : Dns!Questions[q] = Dns!Questions[r] => q = r
BY DEF Dns!Questions

\* The steps that say nothing.
LEMMA QuietStep ==
  ASSUME DnsInv,
         Dns!Ask \/ Dns!Timeout \/ Dns!SendFails \/ Dns!LabelTooLong \/ Dns!AskRaises
         \/ Dns!Receive \/ Dns!Malformed \/ Dns!Decode \/ Dns!ParseRaises
  PROVE  UNCHANGED <<heard, dnsSaid, zone>> /\ question <= question'
BY DEF DnsInv, Dns!Ask, Dns!Timeout, Dns!SendFails, Dns!LabelTooLong, Dns!AskRaises,
       Dns!Receive, Dns!Malformed, Dns!Decode, Dns!ParseRaises, Dns!NextResolver,
       Dns!NextQuestion, Dns!GiveUp

LEMMA QuietInv ==
  ASSUME DnsInv, pc = "dns", pc' = "dns",
         Dns!Ask \/ Dns!Timeout \/ Dns!SendFails \/ Dns!LabelTooLong \/ Dns!AskRaises
         \/ Dns!Receive \/ Dns!Malformed \/ Dns!Decode \/ Dns!ParseRaises
  PROVE  DnsInv'
<1>0. /\ UNCHANGED <<heard, dnsSaid, zone>> /\ question <= question'
      /\ Len(Dns!Questions) = 4
  BY QuietStep, QuestionNames
<1>1. ASSUME question' \in 1 .. 5
      PROVE  /\ DOMAIN heard' = 1 .. 4
             /\ \A f \in dnsSaid' : \E q \in 1 .. 4 : q < question' /\ f.check = Dns!Questions[q]
             /\ \A q \in 1 .. 4 :
                  /\ q >= question' => heard'[q] = Dns!Silence
                  /\ q < question' /\ heard'[q] = "records" =>
                       Dns!SaidOf(q)' = {zone'[q]} \ {"strong"}
                  /\ heard'[q] = Dns!Silence => Dns!SaidOf(q)' = {}
  <2>1. \A q \in 1 .. 4 : q >= question => heard[q] # "records"
    BY DEF DnsInv, Dns!Silence
  <2>2. \A q \in 1 .. 4 : Dns!SaidOf(q)' = Dns!SaidOf(q)
    BY <1>0 DEF Dns!SaidOf
  <2>. QED  BY <1>0, <1>1, <2>1, <2>2 DEF DnsInv
<1>2. CASE Dns!Ask
  <2>1. /\ socket' = socket + 1 /\ dns' = "wait" /\ question' = question
        /\ \A d \in net' : d \in net \/ (d.to = socket' /\ d.about = question)
    BY <1>2 DEF Dns!Ask, Dns!OpenSocket, Dns!Answers, Dns!Answer
  <2>. QED  BY <1>1, <1>2, <2>1 DEF DnsInv, Dns!Ask
<1>3. CASE Dns!Timeout \/ Dns!SendFails \/ Dns!LabelTooLong
  BY <1>0, <1>1, <1>3
  DEF DnsInv, Dns!Timeout, Dns!SendFails, Dns!LabelTooLong, Dns!OpenSocket, Dns!NextResolver,
      Dns!NextQuestion, Dns!GiveUp
<1>4. CASE Dns!AskRaises \/ Dns!Decode \/ Dns!ParseRaises
  BY <1>1, <1>4 DEF DnsInv, Dns!AskRaises, Dns!Decode, Dns!ParseRaises
<1>5. CASE Dns!Receive
  BY <1>1, <1>5 DEF DnsInv, Dns!Receive
<1>6. CASE Dns!Malformed
  BY <1>0, <1>1, <1>6 DEF DnsInv, Dns!Malformed, Dns!NextQuestion, Dns!GiveUp
<1>. QED  BY <1>2, <1>3, <1>4, <1>5, <1>6

\* A whole answer, or one without records, to the question at hand.
LEMMA ParsedInv == ASSUME DnsInv, pc = "dns", pc' = "dns", Dns!Parsed PROVE DnsInv'
<1>0. PICK q0, kind, said : q0 = question /\ kind = got.kind /\ said = Dns!Verdict
  OBVIOUS
<1>. DEFINE f0 == [check |-> Dns!Questions[q0], what |-> said]
<1>1. /\ q0 \in 1 .. 4 /\ question' = q0 + 1 /\ got.about = q0
      /\ kind \in {"records", "failure", "cut"} /\ kind # Dns!Silence
      /\ heard' = [heard EXCEPT ![q0] = kind]
      /\ dnsSaid' = IF said = "strong" THEN dnsSaid ELSE dnsSaid \cup {f0}
      /\ dns' = IF q0 < 4 THEN "ask" ELSE "returned"
      /\ UNCHANGED <<socket, net, zone>>
  BY <1>0, QuestionNames DEF DnsInv, Dns!Parsed, Dns!NextQuestion, Dns!Silence
<1>2. /\ f0.check = Dns!Questions[q0] /\ f0.what = said
      /\ kind = "records" => said = zone[q0]
  BY <1>0, <1>1 DEF Dns!Verdict
<1>. HIDE DEF f0
<1>3. \A f \in dnsSaid : f.check # Dns!Questions[q0]
  <2>. SUFFICES ASSUME NEW f \in dnsSaid, f.check = Dns!Questions[q0] PROVE FALSE
    OBVIOUS
  <2>1. PICK q \in 1 .. 4 : q < question /\ f.check = Dns!Questions[q]
    BY DEF DnsInv
  <2>2. q = q0
    BY <1>1, <2>1, QuestionsDiffer
  <2>. QED  BY <1>0, <2>1, <2>2
<1>4. Dns!SaidOf(q0)' = {said} \ {"strong"}
  <2>1. CASE said = "strong"
    BY <1>1, <1>3, <2>1 DEF Dns!SaidOf
  <2>2. CASE said # "strong"
    <3>1. {t \in dnsSaid' : t.check = Dns!Questions[q0]} = {f0}
      BY <1>1, <1>2, <1>3, <2>2
    <3>. QED  BY <1>2, <2>2, <3>1 DEF Dns!SaidOf
  <2>. QED  BY <2>1, <2>2
<1>5. ASSUME NEW q \in 1 .. 4, q # q0
      PROVE  Dns!SaidOf(q)' = Dns!SaidOf(q) /\ heard'[q] = heard[q]
  <2>1. Dns!Questions[q] # Dns!Questions[q0]
    BY <1>1, <1>5, QuestionsDiffer
  <2>2. {t \in dnsSaid' : t.check = Dns!Questions[q]} = {t \in dnsSaid : t.check = Dns!Questions[q]}
    BY <1>1, <1>2, <2>1
  <2>. QED  BY <1>1, <1>5, <2>2 DEF Dns!SaidOf, DnsInv
<1>6. heard'[q0] = kind /\ DOMAIN heard' = 1 .. 4
  BY <1>1 DEF DnsInv
<1>7. \A f \in dnsSaid' : \E q \in 1 .. 4 : q < question' /\ f.check = Dns!Questions[q]
  <2>1. \A f \in dnsSaid : \E q \in 1 .. 4 : q < question' /\ f.check = Dns!Questions[q]
    BY <1>0, <1>1 DEF DnsInv
  <2>2. q0 < question' /\ f0.check = Dns!Questions[q0]
    BY <1>1, <1>2
  <2>. QED  BY <1>1, <2>1, <2>2
<1>8. ASSUME NEW q \in 1 .. 4
      PROVE  /\ q >= question' => heard'[q] = Dns!Silence
             /\ q < question' /\ heard'[q] = "records" =>
                  Dns!SaidOf(q)' = {zone'[q]} \ {"strong"}
             /\ heard'[q] = Dns!Silence => Dns!SaidOf(q)' = {}
  <2>1. CASE q = q0
    BY <1>1, <1>2, <1>4, <1>6, <2>1
  <2>2. CASE q # q0
    <3>1. (q >= question' => q >= question) /\ (q < question' => q < question)
      BY <1>0, <1>1, <2>2
    <3>. QED  BY <1>1, <1>5, <2>2, <3>1 DEF DnsInv
  <2>. QED  BY <2>1, <2>2
<1>9. /\ dns' \in {"ask", "wait", "parse", "returned", "raised"}
      /\ question' \in 1 .. 5 /\ socket' \in Nat
      /\ dns' \in {"ask", "wait", "parse"} => question' \in 1 .. 4
      /\ \A d \in net' : d.to \in Nat /\ d.to <= socket' /\ dns' # "wait"
      /\ dns' # "parse"
  BY <1>1 DEF DnsInv
<1>. QED  BY <1>6, <1>7, <1>8, <1>9 DEF DnsInv

LEMMA DnsMoveInv == ASSUME DnsInv, [MainNext]_cliVars PROVE DnsInv'
<1>1. CASE pc = "dns" /\ pc' = "dns" /\ Dns!Step
  BY <1>1, QuietInv, ParsedInv DEF Dns!Step
<1>2. CASE pc = "dns" /\ pc' = "dns" /\ Dns!Discard
  BY <1>2 DEF DnsInv, Dns!Discard, Dns!SaidOf
<1>3. CASE pc = "guard" /\ pc' = "dns" /\ Dns!StartDns
  BY <1>3 DEF DnsInv, Dns!StartDns, Dns!SaidOf
<1>4. CASE Dns!Leave
  BY <1>4 DEF DnsInv, Dns!Leave, Dns!SaidOf, Dns!Silence
<1>5. CASE UNCHANGED dnsDetail /\ (pc = "dns" <=> pc' = "dns")
  BY <1>5 DEF DnsInv, dnsDetail, Dns!SaidOf
<1>. QED  BY <1>1, <1>2, <1>3, <1>4, <1>5, DnsMoves

\* The invariant of the DNS client's verdicts.
THEOREM DnsInvariant == MainSpec => []DnsInv
<1>1. MainInit => DnsInv
  BY DEF MainInit, ChecksInit, Init, Dns!Init, Dns!Idle, DnsInv, Dns!SaidOf, Dns!Silence
<1>2. DnsInv /\ [MainNext]_cliVars => DnsInv'
  BY DnsMoveInv
<1>. QED  BY <1>1, <1>2, PTL DEF MainSpec

\* For every zone, and any number of datagrams lost, late or under way at
\* once: one transaction id is enough, no answer is taken for another's.
THEOREM VerdictsAreTrue == MainSpec => []VerdictsTrue
<1>1. DnsInv => VerdictsTrue
  BY DEF DnsInv, VerdictsTrue, Dns!VerdictsTrue
<1>. QED  BY DnsInvariant, <1>1, PTL

-----------------------------------------------------------------------------
(* Names on the wire *)

Bytes == 0 .. 255

\* Every set of numbers that is not empty has a least one.
LEMMA LeastNumber ==
  ASSUME NEW T \in SUBSET Nat, T # {}
  PROVE  \E x \in T : \A y \in T : x <= y
<1>. DEFINE R == {ss \in Nat \X Nat : ss[1] < ss[2]}
<1>1. IsWellFoundedOn(R, Nat)
  <2>1. OpToRel(<, Nat) = R
    BY DEF OpToRel
  <2>. QED  BY NatLessThanWellFounded, <2>1, Zenon
<1>2. ASSUME NEW x \in Nat, NEW y \in Nat, y < x PROVE <<y, x>> \in R
  BY <1>2
<1>. HIDE DEF R
<1>3. PICK x \in T : \A y \in T : <<y, x>> \notin R
  BY <1>1, WFMin
<1>4. ASSUME NEW y \in T PROVE x <= y
  <2>1. ~(y < x)
    BY <1>2, <1>3
  <2>. QED  BY <2>1
<1>. QED  BY <1>4

\* Induction over the numbers, as a fact about sets.
LEMMA AllNumbers ==
  ASSUME NEW S \in SUBSET Nat, 0 \in S, \A n \in S : n + 1 \in S
  PROVE  S = Nat
<1>. SUFFICES ASSUME Nat \ S # {} PROVE FALSE
  OBVIOUS
<1>1. PICK x \in Nat \ S : \A y \in Nat \ S : x <= y
  BY LeastNumber
<1>. QED  BY <1>1

\* The end of the name at i, when those of the names behind it are in f.
EndFrom(f, i) ==
  IF ~Dns!Inside(i) THEN Len(msg)
  ELSE IF Dns!Byte(i) = 0 THEN i + 1
  ELSE IF Dns!IsPointer(Dns!Byte(i)) THEN i + 2
  ELSE IF Dns!Inside(i + Dns!Byte(i)) THEN f[i + 1 + Dns!Byte(i)] ELSE Len(msg)

\* The function that WireEnd is defined by.
WireEnds == CHOOSE f : f = [i \in 0 .. Len(msg) |-> EndFrom(f, i)]

LEMMA WireEndIs == Dns!WireEnd = WireEnds[0]
BY DEF Dns!WireEnd, WireEnds, EndFrom, Dns!Inside, Dns!Byte, Dns!IsPointer

LEMMA ByteTyped ==
  ASSUME msg \in Seq(Bytes), NEW i \in Nat, Dns!Inside(i)
  PROVE  Dns!Byte(i) \in Bytes /\ Dns!Byte(i) \in Nat
<1>1. Len(msg) \in Nat /\ i < Len(msg)
  BY LenProperties DEF Dns!Inside
<1>2. i + 1 \in 1 .. Len(msg)
  BY <1>1
<1>3. msg[i + 1] \in Bytes
  BY <1>2, ElementOfSeq
<1>4. \A b \in Bytes : b \in Nat
  BY DEF Bytes
<1>. QED  BY <1>3, <1>4, Zenon DEF Dns!Byte

\* The end of a name only depends on those of the names behind it.
LEMMA EndsLater ==
  ASSUME msg \in Seq(Bytes), NEW f, NEW g, NEW i \in 0 .. Len(msg),
         \A k \in i + 1 .. Len(msg) : f[k] = g[k]
  PROVE  EndFrom(f, i) = EndFrom(g, i)
<1>1. Len(msg) \in Nat /\ (Dns!Inside(i) => Dns!Byte(i) \in Nat)
  <2>1. Len(msg) \in Nat
    BY LenProperties
  <2>2. i \in Nat
    BY <2>1
  <2>3. Dns!Inside(i) => Dns!Byte(i) \in Nat
    BY <2>2, ByteTyped
  <2>. QED  BY <2>1, <2>3
<1>2. CASE Dns!Inside(i) /\ Dns!Byte(i) # 0 /\ Dns!Inside(i + Dns!Byte(i))
  <2>1. i + 1 + Dns!Byte(i) \in i + 1 .. Len(msg)
    BY <1>1, <1>2 DEF Dns!Inside
  <2>. QED  BY <2>1 DEF EndFrom
<1>. QED  BY <1>2 DEF EndFrom

\* So there is such a function: it is filled in from the end of the message.
LEMMA WireEndsExist ==
  ASSUME msg \in Seq(Bytes)
  PROVE  \E f : f = [i \in 0 .. Len(msg) |-> EndFrom(f, i)]
<1>. DEFINE N == Len(msg)
            Good(g, n) == \A i \in 0 .. N : N < i + n => g[i] = EndFrom(g, i)
            S == {n \in Nat : \E g : DOMAIN g = 0 .. N /\ g = [i \in 0 .. N |-> g[i]] /\ Good(g, n)}
<1>1. N \in Nat
  BY LenProperties
<1>2. 0 \in S
  <2>. DEFINE g0 == [i \in 0 .. N |-> 0]
  <2>1. DOMAIN g0 = 0 .. N /\ g0 = [i \in 0 .. N |-> g0[i]]
    OBVIOUS
  <2>2. Good(g0, 0)
    BY <1>1
  <2>. QED  BY <2>1, <2>2
<1>3. ASSUME NEW n \in S PROVE n + 1 \in S
  <2>1. PICK g : DOMAIN g = 0 .. N /\ g = [i \in 0 .. N |-> g[i]] /\ Good(g, n)
    OBVIOUS
  <2>. DEFINE h == [i \in 0 .. N |-> IF i = N - n THEN EndFrom(g, i) ELSE g[i]]
  <2>2. DOMAIN h = 0 .. N /\ h = [i \in 0 .. N |-> h[i]]
    OBVIOUS
  <2>3. ASSUME NEW i \in 0 .. N, N < i + (n + 1) PROVE h[i] = EndFrom(h, i)
    <3>1. \A k \in i + 1 .. N : h[k] = g[k]
      BY <1>1, <2>3
    <3>2. EndFrom(h, i) = EndFrom(g, i)
      <4>. HIDE DEF h
      <4>. QED  BY <3>1, EndsLater
    <3>3. h[i] = EndFrom(g, i)
      <4>1. CASE i = N - n
        BY <4>1
      <4>2. CASE i # N - n
        <5>1. N < i + n
          BY <1>1, <2>3, <4>2
        <5>2. h[i] = g[i]
          BY <4>2
        <5>. QED  BY <2>1, <5>1, <5>2
      <4>. QED  BY <4>1, <4>2
    <3>. QED  BY <3>2, <3>3
  <2>. HIDE DEF h
  <2>4. Good(h, n + 1)
    BY <2>3
  <2>5. n + 1 \in Nat
    OBVIOUS
  <2>. QED  BY <2>2, <2>4, <2>5
<1>4. N + 1 \in S
  <2>. HIDE DEF S
  <2>. SUFFICES S = Nat
    BY <1>1
  <2>1. S \in SUBSET Nat
    BY DEF S
  <2>. QED  BY <1>2, <1>3, <2>1, AllNumbers
<1>5. PICK g : DOMAIN g = 0 .. N /\ g = [i \in 0 .. N |-> g[i]] /\ Good(g, N + 1)
  BY <1>4
<1>6. \A i \in 0 .. N : g[i] = EndFrom(g, i)
  BY <1>1, <1>5
<1>7. g = [i \in 0 .. N |-> EndFrom(g, i)]
  BY <1>5, <1>6
<1>. QED  BY <1>7

LEMMA WireEndsAre ==
  ASSUME msg \in Seq(Bytes)
  PROVE  \A i \in 0 .. Len(msg) : WireEnds[i] = EndFrom(WireEnds, i)
<1>1. WireEnds = [i \in 0 .. Len(msg) |-> EndFrom(WireEnds, i)]
  BY WireEndsExist, Zenon DEF WireEnds
<1>. QED  BY <1>1, Zenon

\* While the first pointer has not been met, the decoder is on the way to where
\* the name ends; then it knows.
NameInv ==
  /\ Dns!NameTypeOK
  /\ name = "loop" => seen <= MaxPointers
  /\ name = "loop" /\ end = Dns!NoEnd /\ pos <= Len(msg) => WireEnds[pos] = WireEnds[0]
  /\ end # Dns!NoEnd => end = WireEnds[0]
  /\ name = "decoded" /\ end = Dns!NoEnd => pos = WireEnds[0]

LEMMA NameRestInv ==
  ASSUME \/ (\E bytes \in Seq(Bytes) : Dns!Start(bytes)) \/ Dns!Stop
         \/ NameInv /\ UNCHANGED Dns!nameVars
  PROVE  NameInv'
<1>1. CASE \E bytes \in Seq(Bytes) : Dns!Start(bytes)
  BY <1>1, EmptySeq, BoundsAssumption DEF NameInv, Dns!NameTypeOK, Dns!Start, Dns!NoEnd, Bytes
<1>2. CASE Dns!Stop
  BY <1>2, EmptySeq, BoundsAssumption DEF NameInv, Dns!NameTypeOK, Dns!Stop, Dns!NoEnd
<1>3. CASE NameInv /\ UNCHANGED Dns!nameVars
  <2>1. WireEnds' = WireEnds
    BY <1>3 DEF Dns!nameVars, WireEnds, EndFrom, Dns!Inside, Dns!Byte, Dns!IsPointer
  <2>. QED  BY <1>3, <2>1 DEF Dns!nameVars, NameInv, Dns!NameTypeOK
<1>. QED  BY <1>1, <1>2, <1>3

LEMMA NameStepTyped == ASSUME NameInv, Dns!NameStep PROVE Dns!NameTypeOK'
<1>1. /\ msg' = msg /\ msg \in Seq(Bytes) /\ pos \in Nat
      /\ Dns!Inside(pos) => Dns!Byte(pos) \in Nat
      /\ Dns!Inside(pos + 1) => Dns!Byte(pos + 1) \in Nat
  <2>1. msg \in Seq(Bytes) /\ pos \in Nat
    BY DEF NameInv, Dns!NameTypeOK, Bytes
  <2>2. msg' = msg
    BY DEF Dns!NameStep, Dns!Truncated, Dns!Root, Dns!Label, Dns!HalfPointer, Dns!Pointer
  <2>. QED  BY <2>1, <2>2, ByteTyped
<1>2. CASE Dns!Truncated \/ Dns!Root \/ Dns!HalfPointer
  BY <1>2 DEF NameInv, Dns!NameTypeOK, Dns!Truncated, Dns!Root, Dns!HalfPointer
<1>3. CASE Dns!Label
  <2>. DEFINE last == IF Dns!Inside(pos + Dns!Byte(pos)) THEN pos + 1 + Dns!Byte(pos) ELSE Len(msg)
  <2>1. Dns!Byte(pos) \in Nat /\ pos' = pos + 1 + Dns!Byte(pos) /\ Len(msg) \in Nat
    BY <1>1, <1>3, LenProperties DEF Dns!Label
  <2>2. pos + 2 \in Int /\ last \in Int /\ last <= Len(msg)
    BY <1>1, <2>1 DEF Dns!Inside
  <2>3. \A k \in pos + 2 .. last : k \in 1 .. Len(msg)
    BY <1>1, <2>1, <2>2
  <2>4. \A k \in pos + 2 .. last : msg[k] \in Bytes
    BY <1>1, <2>3, ElementOfSeq
  <2>5. SubSeq(msg, pos + 2, last) \in Seq(Bytes)
    <3>. HIDE DEF last
    <3>. QED  BY <2>2, <2>4, SubSeqProperties
  <2>6. labels \in Seq(Seq(Bytes)) /\ labels' = Append(labels, SubSeq(msg, pos + 2, last))
    BY <1>3 DEF Dns!Label, NameInv, Dns!NameTypeOK, Bytes
  <2>7. labels' \in Seq(Seq(Bytes))
    <3>. HIDE DEF last
    <3>. QED  BY <2>5, <2>6, AppendProperties
  <2>8. pos' \in Nat
    BY <1>1, <2>1
  <2>. QED  BY <1>3, <2>7, <2>8 DEF Dns!Label, NameInv, Dns!NameTypeOK, Bytes
<1>4. CASE Dns!Pointer
  <2>1. Dns!Byte(pos) \in Nat /\ Dns!Byte(pos + 1) \in Nat
    BY <1>1, <1>4 DEF Dns!Pointer, Dns!AtPointer
  <2>2. pos' \in Nat
    <3>1. (Dns!Byte(pos) % 64) \in Nat
      BY <2>1
    <3>. QED  BY <1>4, <2>1, <3>1 DEF Dns!Pointer
  <2>3. end' \in Nat
    BY <1>1, <1>4 DEF Dns!Pointer, NameInv, Dns!NameTypeOK
  <2>4. seen' \in 0 .. MaxPointers + 1 /\ name' \in {"loop", "DnsError"}
    BY <1>4, BoundsAssumption DEF Dns!Pointer, Dns!AtPointer, NameInv, Dns!NameTypeOK
  <2>. QED  BY <1>4, <2>2, <2>3, <2>4 DEF Dns!Pointer, NameInv, Dns!NameTypeOK
<1>. QED  BY <1>2, <1>3, <1>4 DEF Dns!NameStep

LEMMA NameStepInv == ASSUME NameInv, Dns!NameStep PROVE NameInv'
<1>1. /\ msg \in Seq(Bytes) /\ Len(msg) \in Nat /\ pos \in Nat /\ name = "loop"
      /\ seen <= MaxPointers /\ seen \in Nat
  BY LenProperties
  DEF NameInv, Dns!NameTypeOK, Bytes, Dns!NameStep, Dns!Truncated, Dns!Root, Dns!Label,
      Dns!HalfPointer, Dns!Pointer, Dns!AtPointer
<1>2. msg' = msg /\ WireEnds' = WireEnds
  BY DEF Dns!NameStep, Dns!Truncated, Dns!Root, Dns!Label, Dns!HalfPointer, Dns!Pointer,
         WireEnds, EndFrom, Dns!Inside, Dns!Byte, Dns!IsPointer
<1>3. pos <= Len(msg) => WireEnds[pos] = EndFrom(WireEnds, pos)
  BY <1>1, WireEndsAre
<1>4. CASE Dns!Truncated \/ Dns!HalfPointer
  BY <1>2, <1>4, NameStepTyped DEF Dns!Truncated, Dns!HalfPointer, NameInv
<1>5. CASE Dns!Root
  <2>1. end = Dns!NoEnd => pos' = WireEnds[0]
    BY <1>1, <1>3, <1>5 DEF Dns!Root, NameInv, EndFrom, Dns!Inside
  <2>. QED  BY <1>2, <1>5, <2>1, NameStepTyped DEF Dns!Root, NameInv
<1>6. CASE Dns!Label
  <2>1. Dns!Byte(pos) \in Nat /\ Dns!Byte(pos) > 0 /\ pos < Len(msg)
    BY <1>1, <1>6, ByteTyped DEF Dns!Label, Dns!Inside
  <2>2. end = Dns!NoEnd /\ pos' <= Len(msg) => WireEnds[pos'] = WireEnds[0]
    <3>. SUFFICES ASSUME end = Dns!NoEnd, pos' <= Len(msg) PROVE WireEnds[pos'] = WireEnds[0]
      OBVIOUS
    <3>1. pos' = pos + 1 + Dns!Byte(pos) /\ Dns!Inside(pos + Dns!Byte(pos))
      BY <1>1, <1>6, <2>1 DEF Dns!Label, Dns!Inside
    <3>2. EndFrom(WireEnds, pos) = WireEnds[pos']
      BY <1>6, <2>1, <3>1 DEF EndFrom, Dns!Label
    <3>. QED  BY <1>1, <1>3, <2>1, <3>2 DEF NameInv
  <2>. QED  BY <1>2, <1>6, <2>2, NameStepTyped DEF Dns!Label, NameInv
<1>7. CASE Dns!Pointer
  <2>1. /\ end' = IF end = Dns!NoEnd THEN pos + 2 ELSE end
        /\ name' = "loop" => seen' <= MaxPointers
        /\ name' # "decoded"
    BY <1>1, <1>7, BoundsAssumption DEF Dns!Pointer
  <2>2. end = Dns!NoEnd => pos + 2 = WireEnds[0]
    <3>1. pos < Len(msg) /\ Dns!Byte(pos) # 0
      BY <1>1, <1>7 DEF Dns!Pointer, Dns!AtPointer, Dns!Inside, Dns!IsPointer
    <3>2. EndFrom(WireEnds, pos) = pos + 2
      BY <1>7, <3>1 DEF EndFrom, Dns!Pointer, Dns!AtPointer
    <3>. QED  BY <1>1, <1>3, <3>1, <3>2 DEF NameInv
  <2>3. end' = WireEnds[0] /\ end' # Dns!NoEnd
    BY <1>1, <2>1, <2>2 DEF NameInv, Dns!NoEnd
  <2>. QED  BY <1>2, <2>1, <2>3, NameStepTyped DEF NameInv
<1>. QED  BY <1>4, <1>5, <1>6, <1>7 DEF Dns!NameStep

-----------------------------------------------------------------------------
(* The DNS client's variables *)

\* A question is put to each resolver at most once, on a socket of its own.
TurnInv ==
  /\ dns \in {"ask", "wait", "parse", "returned", "raised"}
  /\ question \in 1 .. 5 /\ resolver \in 1 .. 2 /\ socket \in Nat
  /\ dns = "returned" => question = 5 /\ resolver = 1
  /\ dns # "returned" => question <= 4
  /\ socket <= 2 * (question - 1) + (IF dns \in {"ask", "returned"} THEN resolver - 1 ELSE resolver)

NetInv ==
  /\ net \subseteq Dns!Datagrams /\ IsFiniteSet(net) /\ Cardinality(net) <= MaxLate
  /\ got \in Dns!Datagrams

HeardInv ==
  /\ heard \in [1 .. 4 -> {Dns!Silence, "records", "failure", "cut"}]
  /\ zone \in Zones \cup {Dns!NoZone}

ClientInv == TurnInv /\ NetInv /\ HeardInv /\ NameInv

LEMMA TurnStepInv == ASSUME TurnInv, Dns!Step PROVE TurnInv'
<1>1. Len(Dns!Questions) = 4 /\ \A r \in 1 .. 2 : r + 1 \in Dns!Resolvers <=> r = 1
  BY DEF Dns!Questions, Dns!Resolvers
<1>2. CASE Dns!Ask \/ Dns!AskRaises \/ Dns!Receive \/ Dns!Decode \/ Dns!ParseRaises
  BY <1>2 DEF TurnInv, Dns!Ask, Dns!OpenSocket, Dns!AskRaises, Dns!Receive, Dns!Decode,
              Dns!ParseRaises
<1>3. CASE Dns!Timeout \/ Dns!SendFails
  <2>1. CASE resolver = 1
    BY <1>1, <1>3, <2>1
    DEF TurnInv, Dns!Timeout, Dns!SendFails, Dns!OpenSocket, Dns!NextResolver
  <2>2. CASE resolver = 2
    BY <1>1, <1>3, <2>2
    DEF TurnInv, Dns!Timeout, Dns!SendFails, Dns!OpenSocket, Dns!NextResolver, Dns!NextQuestion
  <2>. QED  BY <2>1, <2>2 DEF TurnInv
<1>4. CASE Dns!LabelTooLong \/ Dns!Malformed \/ Dns!Parsed
  BY <1>1, <1>4
  DEF TurnInv, Dns!LabelTooLong, Dns!Malformed, Dns!Parsed, Dns!GiveUp, Dns!NextQuestion
<1>. QED  BY <1>2, <1>3, <1>4 DEF Dns!Step

LEMMA DatagramsAre ==
  /\ Dns!NoAnswer \in Dns!Datagrams
  /\ \A d \in Dns!Datagrams : d.name \in Seq(Bytes)
<1>1. << >> \in Seq(Bytes) /\ <<0>> \in Seq(Bytes)
  BY EmptySeq DEF Bytes
<1>2. \A d \in Dns!Datagrams : d.name \in Wires \cup {<< >>, <<0>>}
  BY DEF Dns!Datagrams
<1>3. Wires \subseteq Seq(Bytes)
  BY WiresAssumption DEF Bytes
<1>4. Dns!NoAnswer \in Dns!Datagrams
  BY DEF Dns!NoAnswer, Dns!Datagrams
<1>. QED  BY <1>1, <1>2, <1>3, <1>4, Zenon

LEMMA SameCount == Dns!Cardinality(net) = Cardinality(net)
BY DEF Cardinality, Dns!Cardinality, IsFiniteSet, Dns!IsFiniteSet

LEMMA FewerDatagrams ==
  ASSUME NetInv, NEW d \in net
  PROVE  IsFiniteSet(net \ {d}) /\ Cardinality(net \ {d}) <= MaxLate
<1>1. IsFiniteSet(net \ {d}) /\ Cardinality(net \ {d}) <= Cardinality(net)
  BY FS_Subset DEF NetInv
<1>2. Cardinality(net) \in Nat /\ Cardinality(net \ {d}) \in Nat
  BY <1>1, FS_CardinalityType DEF NetInv
<1>. QED  BY <1>1, <1>2, BoundsAssumption DEF NetInv

LEMMA NetStepInv == ASSUME TurnInv, NetInv, Dns!Step PROVE NetInv'
<1>1. CASE Dns!Ask
  <2>1. CASE UNCHANGED net
    BY <1>1, <2>1 DEF Dns!Ask, NetInv
  <2>2. CASE /\ Cardinality(net) < MaxLate
             /\ \E a \in Dns!Answers : net' = net \cup {a}
    <3>1. PICK a \in Dns!Answers : net' = net \cup {a}
      BY <2>2
    <3>2. a \in Dns!Datagrams
      <4>1. socket' \in Nat /\ question \in 0 .. 4
        BY <1>1 DEF Dns!Ask, Dns!OpenSocket, TurnInv
      <4>2. PICK kind \in Dns!Kinds, wire \in Wires \cup {<<0>>} : a = Dns!Answer(kind, wire)
        BY DEF Dns!Answers, Dns!Kinds
      <4>. QED  BY <4>1, <4>2 DEF Dns!Answer, Dns!Datagrams
    <3>3. IsFiniteSet(net') /\ Cardinality(net') <= MaxLate
      <4>1. Cardinality(net) \in Nat
        BY FS_CardinalityType DEF NetInv
      <4>2. IsFiniteSet(net') /\ Cardinality(net') <= Cardinality(net) + 1
        BY <3>1, <4>1, FS_AddElement DEF NetInv
      <4>3. Cardinality(net') \in Nat
        BY <4>2, FS_CardinalityType
      <4>. QED  BY <2>2, <4>1, <4>2, <4>3, BoundsAssumption
    <3>. QED  BY <1>1, <3>1, <3>2, <3>3 DEF Dns!Ask, NetInv
  <2>3. \/ UNCHANGED net
        \/ /\ Cardinality(net) < MaxLate
           /\ \E a \in Dns!Answers : net' = net \cup {a}
    BY <1>1, SameCount, Zenon DEF Dns!Ask
  <2>. QED  BY <2>1, <2>2, <2>3
<1>2. CASE Dns!Receive
  <2>1. PICK d \in net : net' = net \ {d} /\ got' = d
    BY <1>2 DEF Dns!Receive
  <2>2. IsFiniteSet(net') /\ Cardinality(net') <= MaxLate
    BY <2>1, FewerDatagrams
  <2>3. net' \subseteq Dns!Datagrams /\ d \in Dns!Datagrams
    BY <2>1 DEF NetInv
  <2>4. Dns!Datagrams' = Dns!Datagrams
    BY DEF Dns!Datagrams, Dns!Kinds
  <2>. QED  BY <2>1, <2>2, <2>3, <2>4 DEF NetInv
<1>3. CASE \/ Dns!Timeout \/ Dns!SendFails \/ Dns!LabelTooLong \/ Dns!AskRaises
           \/ Dns!Malformed \/ Dns!Decode \/ Dns!ParseRaises \/ Dns!Parsed
  <2>1. UNCHANGED net /\ (got' = got \/ got' = Dns!NoAnswer)
    BY <1>3
    DEF Dns!Timeout, Dns!SendFails, Dns!LabelTooLong, Dns!AskRaises, Dns!Malformed, Dns!Decode,
        Dns!ParseRaises, Dns!Parsed
  <2>. QED  BY <2>1, DatagramsAre DEF NetInv
<1>. QED  BY <1>1, <1>2, <1>3 DEF Dns!Step

LEMMA HeardStepInv == ASSUME TurnInv, HeardInv, Dns!Step PROVE HeardInv'
<1>1. CASE Dns!Parsed
  <2>1. question \in 1 .. 4
    BY <1>1 DEF TurnInv, Dns!Parsed
  <2>. QED  BY <1>1, <2>1 DEF HeardInv, Dns!Parsed
<1>2. CASE ~Dns!Parsed
  BY <1>2
  DEF HeardInv, Dns!Step, Dns!Ask, Dns!Timeout, Dns!SendFails, Dns!LabelTooLong,
      Dns!AskRaises, Dns!Receive, Dns!Malformed, Dns!Decode, Dns!ParseRaises
<1>. QED  BY <1>1, <1>2

LEMMA NameInStepInv == ASSUME NetInv, NameInv, Dns!Step PROVE NameInv'
<1>1. CASE Dns!Receive
  <2>1. PICK d \in net : Dns!Start(d.name)
    BY <1>1 DEF Dns!Receive
  <2>2. d.name \in Seq(Bytes)
    BY <2>1, DatagramsAre DEF NetInv
  <2>. QED  BY <2>1, <2>2, NameRestInv
<1>2. CASE Dns!Decode
  BY <1>2, NameStepInv DEF Dns!Decode
<1>3. CASE Dns!Malformed \/ Dns!ParseRaises \/ Dns!Parsed
  BY <1>3, NameRestInv DEF Dns!Malformed, Dns!ParseRaises, Dns!Parsed
<1>4. CASE Dns!Ask \/ Dns!Timeout \/ Dns!SendFails \/ Dns!LabelTooLong \/ Dns!AskRaises
  BY <1>4, NameRestInv
  DEF Dns!Ask, Dns!Timeout, Dns!SendFails, Dns!LabelTooLong, Dns!AskRaises
<1>. QED  BY <1>1, <1>2, <1>3, <1>4 DEF Dns!Step

\* A client that is not at work.
LEMMA ClientAtRest ==
  ASSUME dns' = "ask", question' = 1, resolver' = 1, socket' = 0, net' = {},
         got' = Dns!NoAnswer, heard' = [q \in 1 .. 4 |-> Dns!Silence],
         zone' = Dns!NoZone, Dns!Stop
  PROVE  ClientInv'
<1>1. NetInv'
  BY DatagramsAre, FS_EmptySet, BoundsAssumption DEF NetInv
<1>2. TurnInv' /\ HeardInv'
  BY DEF TurnInv, HeardInv
<1>. QED  BY <1>1, <1>2, NameRestInv DEF ClientInv

LEMMA ClientMoveInv == ASSUME ClientInv, [MainNext]_cliVars PROVE ClientInv'
<1>. USE DEF ClientInv
<1>1. CASE Dns!Step
  BY <1>1, TurnStepInv, NetStepInv, HeardStepInv, NameInStepInv
<1>2. CASE Dns!Discard
  <2>1. PICK d \in net : net' = net \ {d}
    BY <1>2 DEF Dns!Discard
  <2>2. NetInv'
    BY <1>2, <2>1, FewerDatagrams DEF NetInv, Dns!Discard
  <2>3. TurnInv' /\ HeardInv'
    BY <1>2 DEF Dns!Discard, TurnInv, HeardInv
  <2>. QED  BY <1>2, <2>2, <2>3, NameRestInv DEF Dns!Discard
<1>3. CASE Dns!StartDns
  <2>1. TurnInv' /\ NetInv' /\ HeardInv'
    BY <1>3 DEF Dns!StartDns, TurnInv, NetInv, HeardInv
  <2>. QED  BY <1>3, <2>1, NameRestInv DEF Dns!StartDns
<1>4. CASE Dns!Leave
  BY <1>4, ClientAtRest DEF Dns!Leave
<1>5. CASE UNCHANGED dnsDetail
  <2>1. TurnInv' /\ NetInv' /\ HeardInv'
    BY <1>5 DEF dnsDetail, TurnInv, NetInv, HeardInv
  <2>2. UNCHANGED Dns!nameVars
    BY <1>5 DEF dnsDetail, Dns!nameVars
  <2>. QED  BY <2>1, <2>2, NameRestInv
<1>. QED  BY <1>1, <1>2, <1>3, <1>4, <1>5, DnsMoves

\* The invariant of the DNS client's variables.
THEOREM ClientInvariant == MainSpec => []ClientInv
<1>1. MainInit => ClientInv
  <2>. SUFFICES ASSUME MainInit PROVE ClientInv
    OBVIOUS
  <2>1. Dns!Idle /\ Dns!Off /\ zone = Dns!NoZone
    BY DEF MainInit, ChecksInit, Dns!Init, Dns!Idle
  <2>2. TurnInv /\ HeardInv
    BY <2>1 DEF Dns!Idle, TurnInv, HeardInv
  <2>3. NetInv
    BY <2>1, DatagramsAre, FS_EmptySet, BoundsAssumption DEF Dns!Idle, NetInv
  <2>4. NameInv
    BY <2>1, EmptySeq, BoundsAssumption DEF NameInv, Dns!NameTypeOK, Dns!Off, Dns!NoEnd
  <2>. QED  BY <2>2, <2>3, <2>4 DEF ClientInv
<1>2. ClientInv /\ [MainNext]_cliVars => ClientInv'
  BY ClientMoveInv
<1>. QED  BY <1>1, <1>2, PTL DEF MainSpec

\* For every message: whatever lengths and pointers a name is made of, what
\* follows it is read from where it ends. (_decode_name, dnsclient.py:37-38.)
THEOREM CursorIsExact == MainSpec => []CursorExact
<1>1. ClientInv => CursorExact
  BY WireEndIs DEF ClientInv, NameInv, CursorExact, Dns!CursorExact, Dns!NextOffset
<1>. QED  BY ClientInvariant, <1>1, PTL

\* A pass of the decoder's loop that does not end it follows one of the pointers
\* that may still be followed, or goes on to a later byte of the message.
PassProgresses ==
  \/ name' # "loop"
  \/ seen' = seen + 1 /\ seen' <= MaxPointers
  \/ seen' = seen /\ msg' = msg /\ pos < Len(msg) /\ pos < pos'

\* So no name makes the decoder loop: between two pointers it reads each byte
\* at most once, and it follows MaxPointers at most. (dnsclient.py:43-60.)
THEOREM DecoderProgresses == MainSpec => [][Dns!NameStep => PassProgresses]_cliVars
<1>1. ASSUME ClientInv PROVE [Dns!NameStep => PassProgresses]_cliVars
  <2>. SUFFICES ASSUME Dns!NameStep PROVE PassProgresses
    OBVIOUS
  <2>1. /\ msg \in Seq(Bytes) /\ Len(msg) \in Nat /\ pos \in Nat /\ seen \in Nat
    BY <1>1, LenProperties DEF ClientInv, NameInv, Dns!NameTypeOK, Bytes
  <2>2. CASE Dns!Truncated \/ Dns!Root \/ Dns!HalfPointer
    BY <2>2 DEF Dns!Truncated, Dns!Root, Dns!HalfPointer, PassProgresses
  <2>3. CASE Dns!Label
    <3>1. /\ Dns!Byte(pos) \in Nat /\ Dns!Byte(pos) > 0 /\ pos < Len(msg)
          /\ pos' = pos + 1 + Dns!Byte(pos)
      BY <2>1, <2>3, ByteTyped DEF Dns!Label, Dns!Inside
    <3>2. pos < pos'
      BY <2>1, <3>1
    <3>. QED  BY <2>3, <3>1, <3>2 DEF Dns!Label, PassProgresses
  <2>4. CASE Dns!Pointer
    BY <2>1, <2>4, BoundsAssumption DEF Dns!Pointer, PassProgresses
  <2>. QED  BY <2>2, <2>3, <2>4 DEF Dns!NameStep
<1>. QED  BY <1>1, ClientInvariant, PTL

-----------------------------------------------------------------------------
(* The types of all the variables *)

\* What the verdicts are made of, beside TlsInv.
TlsTyped ==
  /\ proto \in Protocols \cup {Tls!NoProto}
  /\ cert \in Certificates \cup {Tls!NoCert}
  /\ tlsSaid \subseteq UNION {Tls!Titles[s] : s \in DOMAIN Tls!Titles}

HttpTyped == secure \in BOOLEAN /\ Len(replies) <= Len(Http!Probes)

PortTyped == port \in Ports \cup {NoPort}

ExitTyped ==
  /\ main \in {"arguments", "scope", "ingest", "targets", "scan", "print", "grade", "exited"} \cup Files
  /\ exit \in {0, 1, 2, 3, Running}

LEMMA TitlesAre ==
  UNION {Tls!Titles[s] : s \in DOMAIN Tls!Titles} =
    {"not verified", "deprecated", "no 1.3", "handshake failed"} \cup Tls!Fields
<1>1. DOMAIN Tls!Titles = {"high", "medium", "low", "info"}
  BY DEF Tls!Titles
<1>2. UNION {Tls!Titles[s] : s \in DOMAIN Tls!Titles} =
        Tls!Titles["high"] \cup Tls!Titles["medium"] \cup Tls!Titles["low"] \cup Tls!Titles["info"]
  BY <1>1
<1>. QED  BY <1>2 DEF Tls!Titles, Tls!Fields

LEMMA TlsTypedMove == ASSUME TlsInv, TlsTyped, [MainNext]_cliVars PROVE TlsTyped'
<1>1. CASE Tls!Completes
  <2>1. proto' \in Protocols /\ cert' \in Certificates \cup {Tls!NoCert} /\ UNCHANGED tlsSaid
    BY <1>1 DEF Tls!Completes
  <2>. QED  BY <2>1 DEF TlsTyped
<1>2. CASE Tls!Fails \/ Tls!Review
  <2>1. UNCHANGED <<proto, cert>>
    BY <1>2 DEF Tls!Fails, Tls!Review
  <2>2. tlsSaid' \subseteq UNION {Tls!Titles[s] : s \in DOMAIN Tls!Titles}
    BY <1>2, TitlesAre DEF TlsInv, TlsTyped, Tls!Fails, Tls!Review
  <2>. QED  BY <2>1, <2>2 DEF TlsTyped
<1>3. CASE Tls!OpenSocket \/ Tls!NoSocket \/ Tls!BadCertificate \/ Tls!HandshakeRaises
           \/ Tls!Start \/ UNCHANGED tlsDetail
  BY <1>3
  DEF TlsTyped, Tls!OpenSocket, Tls!NoSocket, Tls!BadCertificate, Tls!HandshakeRaises,
      Tls!Start, tlsDetail
<1>4. CASE Tls!Leave
  BY <1>4 DEF TlsTyped, Tls!Leave
<1>. QED  BY <1>1, <1>2, <1>3, <1>4, TlsMoves DEF Tls!Step

LEMMA NoReplies == Len(<< >>) <= Len(Http!Probes)
<1>1. Len(<< >>) = 0
  OBVIOUS
<1>. QED  BY <1>1, ProbesAre

LEMMA HttpTypedMove == ASSUME HttpInv, HttpTyped, [MainNext]_cliVars PROVE HttpTyped'
<1>1. CASE Http!Answered \/ Http!Unanswered
  <2>1. PICK r \in Responses \cup {Http!NoReply} : replies' = Append(replies, r)
    BY <1>1 DEF Http!Answered, Http!Unanswered
  <2>2. /\ replies \in Seq(Responses \cup {Http!NoReply}) /\ UNCHANGED secure
        /\ Len(replies) < Len(Http!Probes) /\ Len(Http!Probes) \in Nat
    BY <1>1, ProbesAre DEF Http!Answered, Http!Unanswered, HttpInv, HttpGraded
  <2>3. Len(replies) \in Nat /\ Len(replies') = Len(replies) + 1
    BY <2>1, <2>2, AppendProperties, LenProperties
  <2>. QED  BY <2>2, <2>3 DEF HttpTyped
<1>2. CASE \E s \in BOOLEAN : Http!Start(s)
  BY <1>2 DEF HttpTyped, Http!Start
<1>3. CASE Http!Leave
  BY <1>3, NoReplies DEF HttpTyped, Http!Leave
<1>4. CASE Http!GetRaises \/ UNCHANGED httpDetail
  BY <1>4 DEF HttpTyped, Http!GetRaises, httpDetail
<1>. QED  BY <1>1, <1>2, <1>3, <1>4, HttpMoves DEF Http!Step

\* The next port is one of those to be visited.
LEMMA NextPortIsOne == ASSUME TypeOK, todo # {} PROVE NextPort \in todo
<1>1. todo \in SUBSET Nat
  BY NumbersAssumption DEF TypeOK
<1>2. \E p \in todo : \A q \in todo : p <= q
  BY <1>1, LeastNumber
<1>. QED  BY <1>2 DEF NextPort

LEMMA PortTypedMove == ASSUME TypeOK, PortTyped, [MainNext]_cliVars PROVE PortTyped'
<1>1. CASE TakePort
  <2>1. port' = NextPort /\ todo # {} /\ todo \subseteq Ports
    BY <1>1 DEF TakePort, TypeOK
  <2>. QED  BY <2>1, NextPortIsOne DEF PortTyped
<1>2. CASE ~TakePort
  <2>1. port' = port \/ port' = NoPort
    BY <1>2, OutsideChecks
    DEF ChecksStep, LateAnswer, Guarded, DnsChecks, DnsEnds, Sweeps, PortsKnown, PortsYielded,
        PortsRaises, Inspect, LeavePort, ReadBanner, FollowUpEnds, FollowUpRaised,
        checkVars, detailVars, followUpDetail
  <2>. QED  BY <2>1 DEF PortTyped
<1>. QED  BY <1>1, <1>2

LEMMA ExitTypedMove == ASSUME GradesInv, ExitTyped, [MainNext]_cliVars PROVE ExitTyped'
<1>1. CASE UNCHANGED mainVars
  BY <1>1 DEF mainVars, ExitTyped
<1>2. CASE Grade
  <2>1. Worst(weights) \in {"critical", "high", "medium", "low", "info"}
    BY WorstIsWorst, WeightsAre DEF GradesInv
  <2>2. ExitCode[Worst(weights)] \in {0, 1, 2, 3}
    BY <2>1 DEF ExitCode
  <2>. QED  BY <1>2, <2>2 DEF Grade, Exit, ExitTyped
<1>3. CASE \/ Arguments \/ LoadScope \/ LoadIngest \/ HaveTargets \/ ScanEnds \/ PrintReport
           \/ Write("json", "html") \/ Write("html", "grade")
  <2>1. exit' = exit \/ exit' \in {1, 2}
    BY <1>3
    DEF Arguments, LoadScope, LoadIngest, HaveTargets, ScanEnds, PrintReport, Write, GoTo, Exit,
        Traceback
  <2>2. main' \in {"scope", "ingest", "targets", "scan", "print", "json", "html", "grade", "exited"}
    BY <1>3
    DEF Arguments, LoadScope, LoadIngest, HaveTargets, ScanEnds, PrintReport, Write, GoTo, Exit,
        Traceback
  <2>. QED  BY <2>1, <2>2 DEF ExitTyped, Files
<1>. QED  BY <1>1, <1>2, <1>3, MainSteps DEF Around, cliVars

RestTyped == TlsTyped /\ HttpTyped /\ PortTyped /\ ExitTyped

\* What is left of the types, when the invariants above are known.
THEOREM RestInvariant == MainSpec => []RestTyped
<1>1. MainInit => RestTyped
  <2>. SUFFICES ASSUME MainInit PROVE RestTyped
    OBVIOUS
  <2>1. Tls!Idle /\ Http!Idle /\ port = NoPort /\ main = "arguments" /\ exit = Running
    BY DEF MainInit, ChecksInit
  <2>2. HttpTyped
    BY <2>1, NoReplies DEF Http!Idle, HttpTyped
  <2>3. TlsTyped
    BY <2>1 DEF Tls!Idle, TlsTyped
  <2>. QED  BY <2>1, <2>2, <2>3 DEF RestTyped, PortTyped, ExitTyped
<1>2. TypeOK /\ TlsInv /\ HttpInv /\ GradesInv /\ RestTyped /\ [MainNext]_cliVars => RestTyped'
  <2>. SUFFICES ASSUME TypeOK, TlsInv, HttpInv, GradesInv, RestTyped, [MainNext]_cliVars
                PROVE  RestTyped'
    OBVIOUS
  <2>. QED
    BY TlsTypedMove, HttpTypedMove, PortTypedMove, ExitTypedMove DEF RestTyped
<1>3. MainSpec => []TypeOK
  BY ImplementsEngine, TypeCorrect, PTL DEF EngineImplemented
<1>. QED  BY <1>1, <1>2, <1>3, TlsInvariant, HttpInvariant, ReportInvariant, PTL DEF MainSpec

LEMMA ClientTyped == ASSUME ClientInv PROVE Dns!DnsTypeOK
<1>1. socket \in 0 .. 8 /\ question \in 1 .. 5 /\ resolver \in Dns!Resolvers
  BY DEF ClientInv, TurnInv, Dns!Resolvers
<1>2. net \subseteq Dns!Datagrams /\ Dns!Cardinality(net) <= MaxLate /\ got \in Dns!Datagrams
  BY SameCount DEF ClientInv, NetInv
<1>. QED  BY <1>1, <1>2 DEF ClientInv, TurnInv, HeardInv, NameInv, Dns!DnsTypeOK

\* In every state of the program each variable is of its type: a question has
\* eight sockets at the most, a port is one of those to be scanned.
THEOREM ProgramTyped == MainSpec => []MainTypeOK
<1>1. ASSUME TypeOK, ClientInv, SweepProofs!SweepInv, TlsInv, HttpInv, GradesInv, MainInv, RestTyped
      PROVE  MainTypeOK
  <2>1. Dns!DnsTypeOK
    BY <1>1, ClientTyped
  <2>2. Sweeping!TypeOK
    BY <1>1 DEF SweepProofs!SweepInv, SweepProofs!TypeOK, SweepProofs!Outcomes, Sweeping!TypeOK,
                Sweeping!Outcomes
  <2>3. Tls!TypeOK
    BY <1>1 DEF TlsInv, RestTyped, TlsTyped, Tls!TypeOK, Outcomes
  <2>4. Http!TypeOK
    BY <1>1 DEF HttpInv, HttpGraded, RestTyped, HttpTyped, Http!TypeOK, Http!Weights, Weights,
                Http!SEVERITY, SEVERITY
  <2>5. ChecksTypeOK
    BY <1>1, <2>1, <2>2, <2>3, <2>4 DEF ChecksTypeOK, RestTyped, PortTyped, GradesInv
  <2>. QED  BY <1>1, <2>5 DEF MainTypeOK, MainInv, RestTyped, ExitTyped
<1>2. MainSpec => []TypeOK
  BY ImplementsEngine, TypeCorrect, PTL DEF EngineImplemented
<1>. QED
  BY <1>1, <1>2, ClientInvariant, SweepsInvariant, TlsInvariant, HttpInvariant, ReportInvariant,
     RestInvariant, PTL
=============================================================================
