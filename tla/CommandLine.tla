---------------------------- MODULE CommandLine ----------------------------
(***************************************************************************)
(* main (__main__.py): read the scope file and the ingested ports, run the *)
(* scan, print the report and write the files asked for, and tell the      *)
(* caller, a pipeline, what to think of it by the exit code.               *)
(*                                                                         *)
(* Which files were asked for is told when they are written, nothing looks *)
(* at it before; --help, and an interrupt from the keyboard, are left out. *)
(***************************************************************************)
EXTENDS EngineChecks

VARIABLES
  main,    \* where main is
  exit,    \* the exit code
  wanted,  \* of --json and --html, those given
  written  \* what of these files was written

mainVars == <<main, exit, wanted, written>>
cliVars  == <<checkVars, mainVars>>

Files == {"json", "html"}
Running == 256  \* no exit code yet

MainInit ==
  /\ ChecksInit
  /\ main = "arguments"
  /\ exit = Running
  /\ wanted = {}
  /\ written = [f \in Files |-> "nothing"]

Exit(code) ==
  /\ main' = "exited" /\ exit' = code
  /\ UNCHANGED <<checkVars, wanted, written>>

\* main goes on with its next part.
GoTo(part) ==
  /\ main' = part
  /\ UNCHANGED <<checkVars, exit, wanted, written>>

\* An exception leaves main: the interpreter prints it.
Traceback == Exit(1)

-----------------------------------------------------------------------------
(* Before the scan *)

\* argparse takes the arguments, or exits.
Arguments == main = "arguments" /\ (GoTo("scope") \/ Exit(2))

\* OSError and ScopeError are caught, and a policy that allows nothing is
\* refused; a file that is no UTF-8 is neither.
LoadScope == main = "scope" /\ (GoTo("ingest") \/ Exit(2) \/ Traceback)

\* OSError and ValueError are caught; JSON of another shape raises TypeError
\* or AttributeError.
LoadIngest == main = "ingest" /\ (GoTo("targets") \/ Exit(2) \/ Traceback)

\* The targets named, or those ingested, or none.
HaveTargets ==
  /\ main = "targets"
  /\ IF targets = << >> THEN Exit(2) ELSE GoTo("scan")

-----------------------------------------------------------------------------
(* The scan *)

RunScan ==
  /\ main = "scan"
  /\ ChecksStep
  /\ UNCHANGED mainVars

Network == main = "scan" /\ LateAnswer /\ UNCHANGED mainVars

\* Mutant of ScanEnds: an exception is caught, and what there is reported.
ScanEndsAnyhow == main = "scan" /\ Ended /\ GoTo("print")

ScanEnds ==
  /\ main = "scan"
  /\ \/ pc = "returned" /\ GoTo("print")
     \/ pc = "raised" /\ Traceback

-----------------------------------------------------------------------------
(* After the scan *)

PrintReport ==
  /\ main = "print"
  /\ \/ /\ main' = "json"
        /\ wanted' \in SUBSET Files
        /\ UNCHANGED <<checkVars, exit, written>>
     \/ Traceback

\* Opening the file empties it; writing may end on the way.
Write(file, next) ==
  /\ main = file
  /\ \/ file \notin wanted /\ GoTo(next)
     \/ /\ file \in wanted
        /\ main' = next
        /\ written' = [written EXCEPT ![file] = "whole"]
        /\ UNCHANGED <<checkVars, exit, wanted>>
     \/ /\ file \in wanted
        /\ main' = "exited" /\ exit' = 1
        /\ \E w \in {"nothing", "part"} : written' = [written EXCEPT ![file] = w]
        /\ UNCHANGED <<checkVars, wanted>>

\* Mutant of ExitCode: the weight itself.
WeightAsCode == SEVERITY

ExitCode == [info |-> 0, low |-> 1, medium |-> 1, high |-> 2, critical |-> 3]

Grade == main = "grade" /\ Exit(ExitCode[Worst(weights)])

-----------------------------------------------------------------------------
MainStep ==
  \/ Arguments \/ LoadScope \/ LoadIngest \/ HaveTargets
  \/ RunScan \/ ScanEnds
  \/ PrintReport \/ Write("json", "html") \/ Write("html", "grade") \/ Grade

Exited == main = "exited"

MainNext == MainStep \/ Network \/ (Exited /\ UNCHANGED cliVars)

(***************************************************************************)
(* Nothing in the program waits without a timeout: the sweep's threads and *)
(* every socket have one, and the guard's name service is the system's.    *)
(* So a step that can be taken is; nothing is assumed of late answers.     *)
(***************************************************************************)
MainSpec == MainInit /\ [][MainNext]_cliVars /\ WF_cliVars(MainStep)

-----------------------------------------------------------------------------
\* The types of the variables.
MainTypeOK ==
  /\ ChecksTypeOK
  /\ main \in {"arguments", "scope", "ingest", "targets", "scan", "print", "grade", "exited"} \cup Files
  /\ exit \in {0, 1, 2, 3, Running}
  /\ wanted \subseteq Files
  /\ written \in [Files -> {"nothing", "part", "whole"}]

\* The run_scan of the real checkers does nothing that Engine does not allow:
\* what is shown of Engine, over all targets and policies, holds of it. The
\* checkers of Engine end because these do. (engine.py:39-77.)
EngineImplemented == Spec

\* The program ends, whatever the servers and resolvers send or leave unsent:
\* no name loops, no thread is waited for in vain. (The bound of dnsclient.py:55,
\* the timeouts of every socket.)
MainEnds == <>Exited

\* "The exit code encodes the worst finding" (README.md; __main__.py:114-117).
\* A pipeline that reads 0 or 3 has a report that is whole wherever it was asked
\* for, of a scan that came to its end, with nothing above info in it, or with
\* something critical; no refused argument, no exception that leaves main and
\* no failed write ends so. The report lists each target that was refused and
\* each checker that raised. The code itself does not tell: main looks at the
\* findings and not at report.errors, so 0 is also the code when every target
\* was refused, or when checkers raised or were not answered.
ExitFaithful ==
  exit \in {0, 3} =>
    /\ pc = "returned"
    /\ \A f \in wanted : written[f] = "whole"
    /\ exit = 0 => weights \subseteq {0}
    /\ exit = 3 => 4 \in weights
    /\ \A i \in DOMAIN targets : Accounted(i)

FoundExact         == Sweeping!FoundExact
NothingLeftBehind  == Sweeping!NothingLeftBehind
CursorExact        == Dns!CursorExact
VerdictsTrue       == Dns!VerdictsTrue
MissingIsMissing   == Dns!MissingIsMissing
FaultReported      == Tls!FaultReported
OnlyVerifiedFields == Tls!OnlyVerifiedFields
SocketsClosed      == Tls!SocketsClosed
ProbesIndependent  == Http!ProbesIndependent
EachReplyItsOwn    == Http!EachReplyItsOwn
=============================================================================
