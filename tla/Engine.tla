------------------------------- MODULE Engine -------------------------------
(***************************************************************************)
(* One call of run_scan (engine.py): guard each target, then run the       *)
(* checkers against the one address the guard vetted: dns (which asks a    *)
(* public resolver, never the target), ports, and the follow-ups tls, http *)
(* and banners on the ports found open.                                    *)
(*                                                                         *)
(* A checker is a generator: it connects, yields findings and may raise in *)
(* between. The name service is free to answer every question differently. *)
(***************************************************************************)
EXTENDS Scope

CONSTANTS
  Ports,         \* TCP ports
  CommonPorts,   \* those PortChecker sweeps
  Serves,        \* Serves[c]: the ports that follow-up c looks at
  Calls          \* bound: the arguments considered, a scope file, a list of
                 \* targets and an ingested map of targets to ports

FollowUps == <<"tls", "http", "banners">>
FollowUpSet == {"tls", "http", "banners"}
Checkers == {"dns", "ports"} \cup FollowUpSet

ASSUME PortsAssumption == CommonPorts \subseteq Ports
ASSUME ServesAssumption == Serves \in [FollowUpSet -> SUBSET Ports]
ASSUME CallsAssumption ==
  \A c \in Calls :
    /\ ~Malformed(c.file) => FromLines(c.file) \in Policies
    /\ c.targets \in Seq(Targets)
    /\ DOMAIN c.ingest \subseteq Targets /\ c.ingest \in [DOMAIN c.ingest -> SUBSET Ports]

VARIABLES
  scope, targets, ingest,  \* the arguments, which nothing changes
  at,          \* which target the loop is at
  pc,          \* what it does next with it
  ip,          \* the vetted address, ips[0]
  preset,      \* the ports ingested for the target
  found,       \* inside PortChecker.run: the ports it goes through
  discovered,  \* port_checker.discovered
  open,        \* open_ports
  follow,      \* which follow-up is running
  todo,        \* the ports it has still to look at
  findings,    \* report.findings: which checker found something on which target
  errors,      \* report.errors
  contacts,    \* the connections attempted: for which target, where, by whom
  completed    \* the checkers that ran to their end on a target

argVars    == <<scope, targets, ingest>>
targetVars == <<at, ip>>
portVars   == <<preset, found, discovered, open>>
followVars == <<follow, todo>>
reportVars == <<findings, errors>>
history    == <<contacts, completed>>
vars == <<argVars, targetVars, pc, portVars, followVars, reportVars, history>>

NoAddress == "none"
Target == targets[at]

\* The callers refuse a malformed scope file and one that allows nothing.
Init ==
  /\ \E c \in Calls : /\ ~Malformed(c.file) /\ ~IsEmpty(FromLines(c.file))
                      /\ scope = FromLines(c.file)
                      /\ targets = c.targets
                      /\ ingest = c.ingest
  /\ at = 1
  /\ pc = "guard"
  /\ ip = NoAddress
  /\ preset = {} /\ found = {} /\ discovered = {} /\ open = {}
  /\ follow = 1
  /\ todo = {}
  /\ findings = {} /\ errors = {}
  /\ contacts = {} /\ completed = {}

Found(check) == findings' = findings \cup {[at |-> at, check |-> check]}
Failed(what) == errors' = errors \cup {[at |-> at, what |-> what]}
Completed(check) == completed' = completed \cup {[at |-> at, check |-> check]}
\* Mutant of Connect: the checker resolves the name again.
ConnectResolvingAgain(check) ==
  \E a \in Addresses : contacts' = contacts \cup {[at |-> at, ip |-> a, by |-> check]}

Connect(check) == contacts' = contacts \cup {[at |-> at, ip |-> ip, by |-> check]}

\* Mutant of NextTarget: one target too far.
NextTargetButOne == at' = at + 2 /\ pc' = "guard"

\* continue: the loop takes the next target.
NextTarget == at' = at + 1 /\ pc' = "guard"

-----------------------------------------------------------------------------
(* The guard *)

\* Mutant of Refuse: break in the place of continue.
RefuseAndStop ==
  /\ pc = "guard" /\ at \in DOMAIN targets
  /\ \E resolved \in SUBSET Addresses : ~Guard(scope, Target, resolved)
  /\ Failed("refused")
  /\ pc' = "returned"
  /\ UNCHANGED <<argVars, targetVars, portVars, followVars, findings, history>>

\* The name service answers; guard raises ScopeError.
Refuse ==
  /\ pc = "guard" /\ at \in DOMAIN targets
  /\ \E resolved \in SUBSET Addresses : ~Guard(scope, Target, resolved)
  /\ Failed("refused")
  /\ NextTarget
  /\ UNCHANGED <<argVars, ip, portVars, followVars, findings, history>>

Clear ==
  /\ pc = "guard" /\ at \in DOMAIN targets
  /\ \E resolved \in SUBSET Addresses :
       /\ Guard(scope, Target, resolved)
       /\ ip' \in FirstOf(Target, resolved)
  /\ pc' = "dns"
  /\ UNCHANGED <<argVars, at, portVars, followVars, reportVars, history>>

\* getaddrinfo raises what _resolve does not catch (a name it cannot encode):
\* no handler of run_scan catches it either.
GuardRaises ==
  /\ pc = "guard" /\ at \in DOMAIN targets
  /\ Target \in Names
  /\ pc' = "raised"
  /\ UNCHANGED <<argVars, targetVars, portVars, followVars, reportVars, history>>

Return ==
  /\ pc = "guard" /\ at \notin DOMAIN targets
  /\ pc' = "returned"
  /\ UNCHANGED <<argVars, targetVars, portVars, followVars, reportVars, history>>

-----------------------------------------------------------------------------
(* DnsChecker: asks about the name, connects to nothing of the target *)

DnsFinding ==
  /\ pc = "dns"
  /\ Found("dns")
  /\ UNCHANGED <<argVars, targetVars, pc, portVars, followVars, errors, history>>

DnsReturns ==
  /\ pc = "dns"
  /\ Completed("dns")
  /\ pc' = "ports"
  /\ UNCHANGED <<argVars, targetVars, portVars, followVars, reportVars, contacts>>

DnsRaises ==
  /\ pc = "dns"
  /\ Failed("dns")
  /\ pc' = "ports"
  /\ UNCHANGED <<argVars, targetVars, portVars, followVars, findings, history>>

-----------------------------------------------------------------------------
(* PortChecker *)

\* preset = ingest.get(target); discovered is emptied; the checker goes
\* through the preset, and sweeps when there is none or it is empty.
Ingested == IF Target \in DOMAIN ingest THEN ingest[Target] ELSE {}

\* Mutant of Sweep: discovered is not emptied.
SweepKeepingDiscovered ==
  /\ pc = "ports"
  /\ preset' = Ingested
  /\ \/ /\ Ingested # {}
        /\ found' = Ingested
        /\ UNCHANGED contacts
     \/ /\ Ingested = {}
        /\ found' \in SUBSET CommonPorts
        /\ Connect("ports")
  /\ pc' = "yield"
  /\ UNCHANGED <<argVars, targetVars, discovered, open, followVars, reportVars, completed>>

Sweep ==
  /\ pc = "ports"
  /\ preset' = Ingested
  /\ discovered' = {}
  /\ \/ /\ Ingested # {}
        /\ found' = Ingested
        /\ UNCHANGED contacts
     \/ /\ Ingested = {}
        /\ found' \in SUBSET CommonPorts
        /\ Connect("ports")
  /\ pc' = "yield"
  /\ UNCHANGED <<argVars, targetVars, open, followVars, reportVars, completed>>

\* open_ports, and what follows for it.
UseOpenPorts(ports) ==
  /\ open' = ports
  /\ follow' = 1
  /\ IF ports = {}
     THEN NextTarget /\ todo' = {}
     ELSE pc' = "follow" /\ todo' = ports \cap Serves[FollowUps[1]] /\ UNCHANGED at

OpenPorts(d) == IF d # {} THEN d ELSE preset

\* One finding for each port, then discovered is set for the engine.
PortsReturn ==
  /\ pc = "yield"
  /\ IF found = {} THEN UNCHANGED findings ELSE Found("ports")
  /\ discovered' = found
  /\ Completed("ports")
  /\ UseOpenPorts(OpenPorts(found))
  /\ UNCHANGED <<argVars, ip, preset, found, errors, contacts>>

\* OSError, the one exception handled here. The generator ends before it
\* yields or sets discovered. (The sweep catches the errors of its own
\* connections; this is what the engine grants whatever else fails there.)
PortsFail ==
  /\ pc = "yield"
  /\ Failed("ports")
  /\ UseOpenPorts(OpenPorts(discovered))
  /\ UNCHANGED <<argVars, ip, preset, found, discovered, findings, history>>

\* Any other exception leaves run_scan (settimeout of a negative timeout, no
\* thread to be had for the sweep).
PortsRaise ==
  /\ pc = "yield"
  /\ preset = {}
  /\ pc' = "raised"
  /\ UNCHANGED <<argVars, targetVars, portVars, followVars, reportVars, history>>

-----------------------------------------------------------------------------
(* The follow-ups *)

Check == FollowUps[follow]

\* One port of those the checker knows, with or without something to report.
Visit ==
  /\ pc = "follow"
  /\ \E p \in todo : todo' = todo \ {p}
  /\ Connect(Check)
  /\ Found(Check) \/ UNCHANGED findings
  /\ UNCHANGED <<argVars, targetVars, pc, portVars, follow, errors, completed>>

NextFollowUp ==
  IF follow < Len(FollowUps)
  THEN /\ follow' = follow + 1
       /\ todo' = open \cap Serves[FollowUps[follow + 1]]
       /\ UNCHANGED <<at, pc>>
  ELSE /\ NextTarget
       /\ todo' = {}
       /\ UNCHANGED follow

FollowUpReturns ==
  /\ pc = "follow"
  /\ todo = {}
  /\ Completed(Check)
  /\ NextFollowUp
  /\ UNCHANGED <<argVars, ip, portVars, reportVars, contacts>>

\* Mutant of FollowUpRaises: the checker is tried again.
FollowUpRetried ==
  /\ pc = "follow"
  /\ todo' = open \cap Serves[Check]
  /\ UNCHANGED <<argVars, targetVars, pc, portVars, follow, reportVars, history>>

FollowUpRaises ==
  /\ pc = "follow"
  /\ Failed(Check)
  /\ NextFollowUp
  /\ UNCHANGED <<argVars, ip, portVars, findings, history>>

-----------------------------------------------------------------------------
Step ==
  \/ Refuse \/ Clear \/ GuardRaises \/ Return
  \/ DnsReturns \/ DnsRaises
  \/ Sweep \/ PortsReturn \/ PortsFail \/ PortsRaise
  \/ Visit \/ FollowUpReturns \/ FollowUpRaises

Ended == pc \in {"returned", "raised"}

Next == Step \/ DnsFinding \/ (Ended /\ UNCHANGED vars)

Spec == Init /\ [][Next]_vars

(***************************************************************************)
(* run_scan is one thread that the system schedules. Every connection has  *)
(* a timeout and DnsChecker asks a fixed number of questions, so a checker *)
(* always returns or raises: Step, without DnsFinding, is fair.            *)
(***************************************************************************)
FairSpec == Spec /\ WF_vars(Step)

-----------------------------------------------------------------------------
Contacts == [at : Nat, ip : Addresses, by : Checkers]

\* The types of the variables.
TypeOK ==
  /\ scope \in Policies
  /\ targets \in Seq(Targets)
  /\ DOMAIN ingest \subseteq Targets /\ ingest \in [DOMAIN ingest -> SUBSET Ports]
  /\ at \in 1 .. Len(targets) + 1
  /\ pc \in {"guard", "dns", "ports", "yield", "follow", "returned", "raised"}
  /\ ip \in Addresses \cup {NoAddress}
  /\ preset \subseteq Ports /\ found \subseteq Ports
  /\ discovered \subseteq Ports /\ open \subseteq Ports /\ todo \subseteq Ports
  /\ follow \in 1 .. 3
  /\ findings \subseteq [at : Nat, check : Checkers]
  /\ errors \subseteq [at : Nat, what : Checkers \cup {"refused"}]
  /\ contacts \subseteq Contacts
  /\ completed \subseteq [at : Nat, check : Checkers]

\* What the policy says of touching an address for a target, with no regard
\* to when or how it was resolved.
Permitted(s, target, a) ==
  /\ a \notin PermanentlyDenied
  /\ ~InAny(a, s.denyNets)
  /\ target \in Names => /\ ~HostDenied(s, target)
                         /\ HostAllowed(s, target) \/ InAny(a, s.allowNets)
  /\ target \in Literals => /\ a \in AllOf[target]
                            /\ Len(HostsOf[target]) = 1 => InAny(a, s.allowNets)

\* Whatever the name service answers, and when, every connection of every
\* checker goes to an address the policy permits for the target it is made
\* for. (engine.py:41-48 and the rule of checkers/base.py:4-8.)
ContactsPermitted ==
  \A c \in contacts : c.at \in DOMAIN targets /\ Permitted(scope, targets[c.at], c.ip)

Ran(i, check) == [at |-> i, check |-> check] \in completed
Said(i, what) == [at |-> i, what |-> what] \in errors

\* The ports that were found or ingested for the target are the only ones a
\* follow-up connects to: nothing is left over from the target before it,
\* also when its own sweep failed. (engine.py:58-65.)
OwnPortsOnly ==
  pc = "follow" =>
    /\ open \subseteq (IF preset # {} THEN preset ELSE found)
    /\ ~Ran(at, "ports") => open = preset

\* Target i has been dealt with and the report says so: refused, and then
\* nothing connected to it or was found on it; or scanned, and then each
\* checker ran to its end or has its error listed, the follow-ups unless no
\* port was open.
Accounted(i) ==
  IF Said(i, "refused")
  THEN /\ \A c \in contacts \cup findings \cup completed : c.at # i
       /\ \A c \in Checkers : ~Said(i, c)
  ELSE /\ \A c \in {"dns", "ports"} : Ran(i, c) \/ Said(i, c)
       /\ \/ \A c \in FollowUpSet : Ran(i, c) \/ Said(i, c)
          \/ /\ [at |-> i, check |-> "ports"] \notin findings
             /\ targets[i] \in DOMAIN ingest => ingest[targets[i]] = {}

\* When run_scan returns, no target was passed over in silence, whichever of
\* them were refused and whichever checkers raised. (engine.py:39-77.)
EveryTargetAccounted == pc = "returned" => \A i \in DOMAIN targets : Accounted(i)

\* The call comes to its end, whatever raises.
Terminates == <>Ended

\* "a checker must never abort the whole run" (engine.py:54, 74): an exception
\* that leaves run_scan does so before any checker has seen the target.
CheckersNeverAbort ==
  pc = "raised" => \A c \in completed \cup errors : c.at # at

\* "A target is refused unless it matches an explicit allow rule"
\* (README.md, the line it will not cross): what is connected to for a
\* literal target is in an allowed network.
RangeContactsAllowed ==
  \A c \in contacts :
    targets[c.at] \in Literals => InAny(c.ip, scope.allowNets)

\* "assess exactly what ReconScope found, instead of re-sweeping"
\* (README.md, the recon handoff).
IngestedNotSwept ==
  \A c \in contacts : c.by = "ports" => targets[c.at] \notin DOMAIN ingest
=============================================================================
