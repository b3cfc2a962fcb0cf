------------------------- MODULE CommandLineProofs -------------------------
(***************************************************************************)
(* Proofs about CommandLine: that run_scan with the real checkers          *)
(* implements Engine, so that what EngineProofs shows holds of the whole   *)
(* program; and that its exit code can be relied on.                       *)
(***************************************************************************)
EXTENDS CommandLine, EngineProofs

-----------------------------------------------------------------------------
(* Each step of the program is a step of Engine or none *)

LEMMA GuardedSteps == ASSUME Guarded PROVE Next
BY DEF Guarded, Next, Step

LEMMA DnsSteps == ASSUME DnsChecks \/ LateAnswer \/ DnsEnds PROVE [Next]_vars
<1>1. CASE DnsChecks
  BY <1>1 DEF DnsChecks, Next
<1>2. CASE LateAnswer
  BY <1>2 DEF LateAnswer
<1>3. CASE DnsEnds
  BY <1>3 DEF DnsEnds, Next, Step
<1>. QED  BY <1>1, <1>2, <1>3

LEMMA PortSteps ==
  ASSUME Sweeps \/ PortsKnown \/ PortsYielded \/ PortsRaises
  PROVE  [Next]_vars
BY DEF Sweeps, PortsKnown, PortsYielded, PortsRaises, Next, Step

LEMMA FollowUpSteps ==
  ASSUME \/ TakePort \/ Inspect \/ LeavePort \/ ReadBanner
         \/ FollowUpEnds \/ FollowUpRaised
  PROVE  [Next]_vars
BY DEF TakePort, Inspect, LeavePort, ReadBanner, Visited, FollowUpEnds, FollowUpRaised,
       Next, Step

LEMMA ChecksSteps == ASSUME ChecksStep \/ LateAnswer PROVE [Next]_vars
BY GuardedSteps, DnsSteps, PortSteps, FollowUpSteps DEF ChecksStep

\* What main does besides run_scan.
Around ==
  \/ Arguments \/ LoadScope \/ LoadIngest \/ HaveTargets \/ ScanEnds \/ PrintReport
  \/ Write("json", "html") \/ Write("html", "grade") \/ Grade

LEMMA AroundSteps == ASSUME Around PROVE UNCHANGED checkVars
BY DEF Around, Arguments, LoadScope, LoadIngest, HaveTargets, ScanEnds, PrintReport, Write,
       Grade, Exit, GoTo, Traceback

LEMMA MainSteps ==
  ASSUME [MainNext]_cliVars
  PROVE  \/ main = "scan" /\ (ChecksStep \/ LateAnswer) /\ UNCHANGED mainVars
         \/ Around
         \/ UNCHANGED cliVars
BY DEF MainNext, MainStep, RunScan, Network, Around

LEMMA EngineSteps == ASSUME [MainNext]_cliVars PROVE [Next]_vars
<1>1. CASE ChecksStep \/ LateAnswer
  BY <1>1, ChecksSteps
<1>2. CASE Around \/ UNCHANGED cliVars
  <2>1. UNCHANGED checkVars
    BY <1>2, AroundSteps DEF cliVars
  <2>. QED  BY <2>1 DEF checkVars
<1>. QED  BY <1>1, <1>2, MainSteps

\* The program, from its arguments to its exit code, with the checkers in
\* full, is an Engine: for every set of responses, certificates, zones and
\* wires, and every bound.
THEOREM ImplementsEngine == MainSpec => EngineImplemented
<1>1. MainInit => Init
  BY DEF MainInit, ChecksInit
<1>2. [MainNext]_cliVars => [Next]_vars
  BY EngineSteps
<1>. QED  BY <1>1, <1>2, PTL DEF MainSpec, EngineImplemented, Spec

\* So the rebinding argument covers the real checkers: every connection of the
\* program is to an address permitted for its target.
THEOREM ProgramContactsPermitted == MainSpec => []ContactsPermitted
BY ImplementsEngine, OnlyPermittedContacts, PTL DEF EngineImplemented
-----------------------------------------------------------------------------
(* The severities in the report *)

LEMMA WeightsAre ==
  /\ DOMAIN SEVERITY = {"critical", "high", "medium", "low", "info"}
  /\ Weights = {0, 1, 2, 3, 4}
BY DEF SEVERITY, Weights

\* worst() names the heaviest finding, whichever there are.
LEMMA WorstIsWorst ==
  ASSUME NEW ws \in SUBSET Weights
  PROVE  /\ Worst(ws) \in DOMAIN SEVERITY
         /\ ws # {} => SEVERITY[Worst(ws)] \in ws
         /\ \A w \in ws : w <= SEVERITY[Worst(ws)]
<1>. DEFINE Heaviest(s) == SEVERITY[s] \in ws /\ \A w \in ws : w <= SEVERITY[s]
<1>1. CASE ws = {}
  BY <1>1, WeightsAre DEF Worst
<1>2. CASE ws # {}
  <2>1. \E s \in DOMAIN SEVERITY : Heaviest(s)
    <3>1. \A w \in ws : w \in {0, 1, 2, 3, 4}
      BY WeightsAre
    <3>2. CASE 4 \in ws
      <4>1. Heaviest("critical")
        BY <3>1, <3>2, SMT DEF SEVERITY
      <4>. QED  BY <4>1, WeightsAre
    <3>3. CASE 4 \notin ws /\ 3 \in ws
      <4>1. Heaviest("high")
        BY <3>1, <3>3, SMT DEF SEVERITY
      <4>. QED  BY <4>1, WeightsAre
    <3>4. CASE ws \cap {3, 4} = {} /\ 2 \in ws
      <4>1. Heaviest("medium")
        BY <3>1, <3>4, SMT DEF SEVERITY
      <4>. QED  BY <4>1, WeightsAre
    <3>5. CASE ws \cap {2, 3, 4} = {} /\ 1 \in ws
      <4>1. Heaviest("low")
        BY <3>1, <3>5, SMT DEF SEVERITY
      <4>. QED  BY <4>1, WeightsAre
    <3>6. CASE ws \subseteq {0}
      <4>1. 0 \in ws /\ \A w \in ws : w = 0
        BY <3>6, <1>2
      <4>2. Heaviest("info")
        BY <4>1, SMT DEF SEVERITY
      <4>. QED  BY <4>2, WeightsAre
    <3>. QED  BY <3>1, <3>2, <3>3, <3>4, <3>5, <3>6
  <2>2. Worst(ws) = CHOOSE s \in DOMAIN SEVERITY : Heaviest(s)
    BY <1>2 DEF Worst
  <2>3. Worst(ws) \in DOMAIN SEVERITY /\ Heaviest(Worst(ws))
    BY <2>1, <2>2, Zenon
  <2>. QED  BY <2>3
<1>. QED  BY <1>1, <1>2

\* What is said of a question, or of a probe, has a severity.
DnsGraded ==
  /\ zone \in Zones \cup {Dns!NoZone}
  /\ question \in Nat
  /\ dns \in {"ask", "wait", "parse"} => question \in 1 .. 4
  /\ \A f \in dnsSaid : \E q \in 1 .. 4 :
       f.check = Dns!Questions[q] /\ f.what \in DOMAIN Dns!DnsSeverity[Dns!Questions[q]]

HttpGraded ==
  /\ http \in {"idle", "get", "returned", "raised"}
  /\ replies \in Seq(Responses \cup {Http!NoReply})
  /\ http \in {"idle", "get"} => Len(replies) < Len(Http!Probes)
  /\ \A f \in httpSaid : f.weight \in Weights

GradesInv == DnsGraded /\ HttpGraded /\ weights \subseteq Weights

LEMMA QuestionNames ==
  /\ Len(Dns!Questions) = 4
  /\ \A q \in 1 .. 4 : /\ "absent" \in DOMAIN Dns!DnsSeverity[Dns!Questions[q]]
                       /\ \A w \in DOMAIN Dns!DnsSeverity[Dns!Questions[q]] :
                            Dns!DnsSeverity[Dns!Questions[q]][w] \in DOMAIN SEVERITY
BY WeightsAre DEF Dns!Questions, Dns!DnsSeverity

LEMMA DnsWeightsInv == ASSUME DnsGraded PROVE Dns!DnsWeights \subseteq Weights
<1>1. ASSUME NEW f \in dnsSaid
      PROVE  Dns!DnsSeverity[f.check][f.what] \in DOMAIN SEVERITY
  BY QuestionNames DEF DnsGraded
<1>2. \A s \in DOMAIN SEVERITY : Dns!SEVERITY[s] \in Weights
  BY DEF Weights, SEVERITY, Dns!SEVERITY
<1>. QED  BY <1>1, <1>2 DEF Dns!DnsWeights

LEMMA DnsStepGraded == ASSUME DnsGraded, Dns!Step PROVE DnsGraded'
<1>1. CASE Dns!Parsed
  <2>1. question \in 1 .. 4 /\ zone \in Zones \cup {Dns!NoZone}
    BY <1>1 DEF DnsGraded, Dns!Parsed
  <2>2. Dns!Verdict \in {"strong"} \cup DOMAIN Dns!DnsSeverity[Dns!Questions[question]]
    BY <2>1, QuestionNames, AnswersAssumption DEF Dns!Verdict, Dns!NoZone
  <2>3. \A f \in dnsSaid' : \E q \in 1 .. 4 :
          f.check = Dns!Questions[q] /\ f.what \in DOMAIN Dns!DnsSeverity[Dns!Questions[q]]
    BY <1>1, <2>1, <2>2 DEF DnsGraded, Dns!Parsed
  <2>. QED  BY <1>1, <2>1, <2>3, QuestionNames DEF DnsGraded, Dns!Parsed, Dns!NextQuestion
<1>2. CASE Dns!Malformed \/ Dns!LabelTooLong \/ Dns!Timeout \/ Dns!SendFails
  BY <1>2, QuestionNames
  DEF DnsGraded, Dns!Malformed, Dns!LabelTooLong, Dns!Timeout, Dns!SendFails, Dns!GiveUp,
      Dns!NextResolver, Dns!NextQuestion
<1>3. CASE Dns!Ask \/ Dns!AskRaises \/ Dns!Receive \/ Dns!Decode \/ Dns!ParseRaises
  BY <1>3 DEF DnsGraded, Dns!Ask, Dns!AskRaises, Dns!Receive, Dns!Decode, Dns!ParseRaises
<1>. QED  BY <1>1, <1>2, <1>3 DEF Dns!Step

LEMMA DnsRestGraded ==
  ASSUME DnsGraded, Dns!StartDns \/ Dns!Discard \/ Dns!Leave \/ UNCHANGED dnsDetail
  PROVE  DnsGraded'
<1>1. CASE Dns!StartDns  BY <1>1 DEF DnsGraded, Dns!StartDns
<1>2. CASE Dns!Discard   BY <1>2 DEF DnsGraded, Dns!Discard
<1>3. CASE Dns!Leave     BY <1>3 DEF DnsGraded, Dns!Leave
<1>4. CASE UNCHANGED dnsDetail  BY <1>4 DEF DnsGraded, dnsDetail
<1>. QED  BY <1>1, <1>2, <1>3, <1>4

LEMMA ProbesAre ==
  /\ Len(Http!Probes) \in Nat /\ Len(Http!Probes) >= 2
  /\ \A i \in 1 .. Len(Http!Probes) :
       Http!Probes[i] \in {Http!Root, Http!Cors} \cup DOMAIN PathWeight
<1>. DEFINE S == {Http!Root, Http!Cors} \cup DOMAIN PathWeight
<1>1. <<Http!Root, Http!Cors>> \in Seq(S) /\ Len(<<Http!Root, Http!Cors>>) = 2
  OBVIOUS
<1>2. Paths \in Seq(S) /\ Len(Paths) \in Nat
  BY WeightsAssumption, LenProperties
<1>3. Http!Probes \in Seq(S) /\ Len(Http!Probes) = 2 + Len(Paths)
  BY <1>1, <1>2, ConcatProperties DEF Http!Probes
<1>. QED  BY <1>2, <1>3, ElementOfSeq

LEMMA VerdictWeights ==
  ASSUME NEW i \in 1 .. Len(Http!Probes), NEW r \in Responses
  PROVE  \A f \in Http!Verdicts(i, r) : f.weight \in Weights
<1>1. \A f \in Http!CheckHeaders(r) \cup Http!CheckCookies(r) : f.weight \in Weights
  BY AnswersAssumption, WeightsAre
  DEF Http!CheckHeaders, Http!CheckCookies, Http!HeaderWeight, Http!CookieWeight, Http!Said
<1>2. \A f \in Http!CheckFingerprint(r) \cup Http!CheckCors(r) : f.weight \in Weights
  BY WeightsAre DEF Http!CheckFingerprint, Http!KnownServers, Http!CheckCors, Http!Said
<1>3. Http!Probes[i] \notin {Http!Root, Http!Cors} =>
        \A f \in Http!CheckExposure(Http!Probes[i], r) : f.weight \in Weights
  BY ProbesAre, WeightsAssumption DEF Http!CheckExposure, Http!Said
<1>. QED  BY <1>1, <1>2, <1>3 DEF Http!Verdicts

LEMMA HttpStepGraded == ASSUME HttpGraded, Http!Step PROVE HttpGraded'
<1>. USE ProbesAre DEF HttpGraded
<1>1. Len(replies) \in Nat
  BY LenProperties
<1>2. CASE Http!GetRaises
  BY <1>2 DEF Http!GetRaises
<1>3. ASSUME NEW r \in Responses \cup {Http!NoReply}, replies' = Append(replies, r)
      PROVE  replies' \in Seq(Responses \cup {Http!NoReply}) /\ Len(replies') = Len(replies) + 1
  BY <1>3, AppendProperties
<1>4. CASE Http!Answered
  <2>1. PICK r \in Responses : /\ replies' = Append(replies, r)
                               /\ httpSaid' = httpSaid \cup Http!Verdicts(Http!Probe, r)
    BY <1>4 DEF Http!Answered
  <2>2. Http!Probe = Len(replies) + 1 /\ Http!Probe \in 1 .. Len(Http!Probes)
    BY <1>1, <1>4 DEF Http!Answered, Http!Probe
  <2>3. \A f \in httpSaid' : f.weight \in Weights
    BY <2>1, <2>2, VerdictWeights
  <2>. QED  BY <1>1, <1>3, <1>4, <2>1, <2>2, <2>3 DEF Http!Answered, Http!NextProbe
<1>5. CASE Http!Unanswered
  BY <1>1, <1>3, <1>5 DEF Http!Unanswered, Http!NextProbe, Http!Probe
<1>. QED  BY <1>2, <1>4, <1>5 DEF Http!Step

LEMMA HttpRestGraded ==
  ASSUME HttpGraded, (\E s : Http!Start(s)) \/ Http!Leave \/ UNCHANGED httpDetail
  PROVE  HttpGraded'
<1>1. CASE \E s : Http!Start(s)  BY <1>1 DEF HttpGraded, Http!Start
<1>2. CASE Http!Leave
  BY <1>2, ProbesAre DEF HttpGraded, Http!Leave
<1>3. CASE UNCHANGED httpDetail  BY <1>3 DEF HttpGraded, httpDetail
<1>. QED  BY <1>1, <1>2, <1>3

\* Each step that adds to the report adds what a checker may say.
LEMMA StepGraded == ASSUME TypeOK, GradesInv, ChecksStep \/ LateAnswer PROVE GradesInv'
<1>. USE DEF GradesInv
<1>1. CASE Guarded
  BY <1>1, DnsRestGraded, HttpRestGraded DEF Guarded, followUpDetail
<1>2. CASE DnsChecks
  BY <1>2, DnsStepGraded, HttpRestGraded DEF DnsChecks, followUpDetail
<1>3. CASE LateAnswer
  BY <1>3, DnsRestGraded, HttpRestGraded DEF LateAnswer, followUpDetail
<1>4. CASE DnsEnds
  BY <1>4, DnsRestGraded, DnsWeightsInv, HttpRestGraded DEF DnsEnds, Report, followUpDetail
<1>5. CASE Sweeps \/ PortsKnown \/ PortsRaises \/ FollowUpEnds
  BY <1>5, DnsRestGraded, HttpRestGraded
  DEF Sweeps, PortsKnown, PortsRaises, FollowUpEnds, detailVars, followUpDetail
<1>6. CASE PortsYielded
  <2>1. {Sensitive[p] : p \in found} \subseteq Weights
    BY WeightsAssumption DEF TypeOK
  <2>. QED  BY <1>6, <2>1, DnsRestGraded, HttpRestGraded DEF PortsYielded, Report, followUpDetail
<1>7. CASE TakePort
  BY <1>7, DnsRestGraded, HttpRestGraded DEF TakePort
<1>8. CASE Inspect
  BY <1>8, DnsRestGraded, HttpStepGraded, HttpRestGraded DEF Inspect
<1>9. CASE LeavePort
  <2>1. Tls!TlsWeights \subseteq Weights
    BY DEF Tls!TlsWeights, Tls!SEVERITY, Tls!Titles, Weights, SEVERITY
  <2>2. {f.weight : f \in httpSaid} \subseteq Weights
    BY DEF HttpGraded
  <2>. QED
    BY <1>9, <2>1, <2>2, DnsRestGraded, HttpRestGraded
    DEF LeavePort, Yielded, Visited, Report
<1>10. CASE ReadBanner
  BY <1>10, WeightsAssumption, DnsRestGraded, HttpRestGraded
  DEF ReadBanner, Visited, Report, followUpDetail
<1>11. CASE FollowUpRaised
  BY <1>11, DnsRestGraded, HttpRestGraded DEF FollowUpRaised
<1>. QED  BY <1>1, <1>2, <1>3, <1>4, <1>5, <1>6, <1>7, <1>8, <1>9, <1>10, <1>11 DEF ChecksStep

LEMMA GradesInit == ASSUME MainInit PROVE GradesInv
<1>1. DnsGraded
  BY DEF MainInit, ChecksInit, Dns!Init, Dns!Idle, DnsGraded
<1>2. HttpGraded
  BY ProbesAre DEF MainInit, ChecksInit, Http!Idle, HttpGraded
<1>. QED  BY <1>1, <1>2 DEF MainInit, ChecksInit, GradesInv

LEMMA GradesStep == ASSUME TypeOK, GradesInv, [MainNext]_cliVars PROVE GradesInv'
<1>1. CASE UNCHANGED checkVars
  BY <1>1, DnsRestGraded, HttpRestGraded DEF GradesInv, checkVars, detailVars, followUpDetail
<1>. QED  BY <1>1, StepGraded, MainSteps, AroundSteps DEF cliVars
-----------------------------------------------------------------------------
(* main, after the scan *)

MainInv ==
  /\ wanted \subseteq Files /\ written \in [Files -> {"nothing", "part", "whole"}]
  /\ main \in {"print", "grade"} \cup Files => pc = "returned"
  /\ main \in {"html", "grade"} /\ "json" \in wanted => written["json"] = "whole"
  /\ main = "grade" /\ "html" \in wanted => written["html"] = "whole"
  /\ main # "exited" => exit = Running

\* A code of 0 or 3 is that of a scan that came to its end.
ExitInv ==
  exit \in {0, 3} =>
    /\ pc = "returned"
    /\ \A f \in wanted : written[f] = "whole"
    /\ exit = 0 => weights \subseteq {0}
    /\ exit = 3 => 4 \in weights

\* What the exit code says of the report.
LEMMA CodeTellsWorst ==
  ASSUME weights \subseteq Weights
  PROVE  /\ ExitCode[Worst(weights)] = 0 => weights \subseteq {0}
         /\ ExitCode[Worst(weights)] = 3 => 4 \in weights
<1>. DEFINE w == Worst(weights)
<1>1. /\ w \in {"critical", "high", "medium", "low", "info"}
      /\ weights # {} => SEVERITY[w] \in weights
      /\ \A x \in weights : x <= SEVERITY[w] /\ x \in {0, 1, 2, 3, 4}
  BY WorstIsWorst, WeightsAre
<1>2. weights = {} => w = "info"
  BY DEF Worst
<1>. QED  BY <1>1, <1>2, SMT DEF ExitCode, SEVERITY

LEMMA MainStepInv ==
  ASSUME GradesInv, MainInv, ExitInv, [MainNext]_cliVars
  PROVE  MainInv' /\ ExitInv'
<1>. USE DEF MainInv, ExitInv, Files, Running
<1>1. CASE UNCHANGED mainVars /\ (main = "scan" \/ UNCHANGED checkVars)
  BY <1>1 DEF mainVars, checkVars, vars, detailVars
<1>2. ASSUME main' = "exited", exit' \in {1, 2}, UNCHANGED wanted,
             written' \in [Files -> {"nothing", "part", "whole"}]
      PROVE  MainInv' /\ ExitInv'
  BY <1>2
<1>3. CASE Arguments \/ LoadScope \/ LoadIngest \/ HaveTargets \/ ScanEnds
  <2>1. \/ main' = "exited" /\ exit' \in {1, 2}
        \/ /\ exit' = Running /\ main \notin Files \cup {"print", "grade", "exited"}
           /\ main' \in {"scope", "ingest", "targets", "scan"} \/ (main' = "print" /\ pc' = "returned")
    BY <1>3
    DEF Arguments, LoadScope, LoadIngest, HaveTargets, ScanEnds, GoTo, Exit, Traceback,
        checkVars, vars
  <2>2. UNCHANGED <<wanted, written>>
    BY <1>3 DEF Arguments, LoadScope, LoadIngest, HaveTargets, ScanEnds, GoTo, Exit, Traceback
  <2>. QED  BY <1>2, <2>1, <2>2
<1>4. CASE PrintReport
  <2>1. CASE Traceback
    BY <1>2, <2>1 DEF Traceback, Exit
  <2>2. CASE ~Traceback
    BY <1>4, <2>2 DEF PrintReport, checkVars, vars
  <2>. QED  BY <2>1, <2>2
<1>5. CASE Write("json", "html") \/ Write("html", "grade")
  <2>1. PICK file \in Files : /\ main = file
                              /\ Write(file, IF file = "json" THEN "html" ELSE "grade")
    BY <1>5 DEF Write
  <2>. DEFINE next == IF file = "json" THEN "html" ELSE "grade"
  <2>2. UNCHANGED <<pc, wanted>> /\ main \in Files /\ pc = "returned" /\ exit = Running
    BY <2>1 DEF Write, GoTo, checkVars, vars
  <2>3. CASE file \notin wanted /\ GoTo(next)
    BY <2>1, <2>2, <2>3 DEF GoTo
  <2>4. CASE /\ main' = next /\ exit' = exit
             /\ written' = [written EXCEPT ![file] = "whole"]
    BY <2>1, <2>2, <2>4
  <2>5. CASE /\ main' = "exited" /\ exit' = 1
             /\ \E w \in {"nothing", "part"} : written' = [written EXCEPT ![file] = w]
    BY <1>2, <2>1, <2>2, <2>5
  <2>. QED  BY <2>1, <2>3, <2>4, <2>5 DEF Write
<1>6. CASE Grade
  <2>1. exit' = 0 => weights' \subseteq {0}
    BY <1>6, CodeTellsWorst DEF Grade, Exit, GradesInv, checkVars, detailVars
  <2>2. exit' = 3 => 4 \in weights'
    BY <1>6, CodeTellsWorst DEF Grade, Exit, GradesInv, checkVars, detailVars
  <2>. QED  BY <1>6, <2>1, <2>2 DEF Grade, Exit, checkVars, vars
<1>. QED  BY <1>1, <1>3, <1>4, <1>5, <1>6, MainSteps DEF Around, cliVars

\* The invariant of the severities and of main.
THEOREM ReportInvariant == MainSpec => [](GradesInv /\ MainInv /\ ExitInv)
<1>. DEFINE I == GradesInv /\ MainInv /\ ExitInv
<1>1. MainInit => I
  BY GradesInit DEF MainInit, MainInv, ExitInv, Files, Running
<1>2. TypeOK /\ I /\ [MainNext]_cliVars => I'
  BY GradesStep, MainStepInv
<1>3. MainSpec => []TypeOK
  BY ImplementsEngine, TypeCorrect, PTL DEF EngineImplemented
<1>. QED  BY <1>1, <1>2, <1>3, PTL DEF MainSpec

\* "The exit code encodes the worst finding": for whatever checkers find, a
\* code of 0 or 3 is that of a scan that ended, reported whole, as bad as said,
\* with every target that was refused and every checker that raised listed.
THEOREM ExitCodeFaithful == MainSpec => []ExitFaithful
<1>1. ExitInv /\ EveryTargetAccounted => ExitFaithful
  BY DEF ExitInv, EveryTargetAccounted, ExitFaithful
<1>2. MainSpec => []EveryTargetAccounted
  BY ImplementsEngine, AllAccounted, PTL DEF EngineImplemented
<1>. QED  BY ReportInvariant, <1>1, <1>2, PTL
=============================================================================
