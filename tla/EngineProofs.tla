---------------------------- MODULE EngineProofs ----------------------------
(***************************************************************************)
(* Proofs about Engine, for every policy, list of targets, ingested map,   *)
(* set of ports and behaviour of the name service: its types, that every   *)
(* connection is to a permitted address, that the follow-ups see the       *)
(* target's own ports only, and that every target is accounted for.        *)
(***************************************************************************)
EXTENDS Engine, SequenceTheorems, TLAPS

Busy == {"dns", "ports", "yield", "follow"}

\* The target at hand is one of the list, and the address permitted for it.
AddressInv ==
  pc \in Busy =>
    /\ at \in DOMAIN targets
    /\ ip \in Addresses
    /\ Permitted(scope, targets[at], ip)

-----------------------------------------------------------------------------
(* The guard *)

\* The address the engine takes from a guard that returned is permitted.
LEMMA GuardPermits ==
  ASSUME NEW s, NEW t \in Targets, NEW resolved \in SUBSET Addresses,
         Guard(s, t, resolved), NEW a \in FirstOf(t, resolved)
  PROVE  a \in Addresses /\ Permitted(s, t, a)
<1>. DEFINE ips == Vetted(t, resolved)
<1>0. /\ t # Blank /\ PermanentlyClear(t, ips) /\ NotDenied(s, t, ips)
      /\ Allowed(s, t, ips)
  BY DEF Guard
<1>1. CASE t \in Literals
  <2>1. /\ HostsOf[t] \in Seq(Addresses) /\ HostsOf[t] # << >>
        /\ a = HostsOf[t][1] /\ 1 \in DOMAIN HostsOf[t]
    BY <1>1, LiteralAssumption DEF FirstOf
  <2>2. a \in Addresses /\ a \in AllOf[t] /\ a \in ips
    BY <1>1, <2>1, LiteralAssumption DEF Vetted
  <2>3. a \notin PermanentlyDenied /\ ~InAny(a, s.denyNets)
    BY <1>0, <2>2 DEF PermanentlyClear, NotDenied
  <2>4. ASSUME Len(HostsOf[t]) = 1 PROVE InAny(a, s.allowNets)
    <3>1. DOMAIN HostsOf[t] = {1}
      BY <2>1, <2>4
    <3>2. ips = {a}
      BY <1>1, <2>1, <3>1 DEF Vetted
    <3>. QED  BY <1>0, <1>1, <3>2 DEF Allowed
  <2>. QED  BY <1>1, <2>2, <2>3, <2>4, KindsAssumption DEF Permitted
<1>2. CASE t \notin Literals
  <2>1. ips = resolved /\ a \in ips /\ t \in Names
    BY <1>0, <1>2 DEF Vetted, FirstOf, Targets
  <2>2. a \notin PermanentlyDenied /\ ~InAny(a, s.denyNets) /\ ~HostDenied(s, t)
    BY <1>0, <1>2, <2>1 DEF PermanentlyClear, NotDenied
  <2>3. HostAllowed(s, t) \/ InAny(a, s.allowNets)
    BY <1>0, <1>2, <2>1 DEF Allowed
  <2>. QED  BY <1>2, <2>1, <2>2, <2>3 DEF Permitted
<1>. QED  BY <1>1, <1>2

-----------------------------------------------------------------------------
(* The policy *)

\* Fail closed: a policy without permissions lets nothing through, whatever
\* the target and whatever it resolves to, its denials or the lack of them. ("guard()
\* denies by default", scope.py:11.)
THEOREM EmptyPolicyRefuses ==
  ASSUME NEW s, IsEmpty(s), NEW t \in Targets, NEW resolved \in SUBSET Addresses
  PROVE  ~Guard(s, t, resolved)
BY DEF IsEmpty, Guard, Allowed, HostAllowed, InAny

\* s permits no more than r does, and denies no less.
Stricter(s, r) ==
  /\ s.allowHosts \subseteq r.allowHosts
  /\ s.allowSuffixes \subseteq r.allowSuffixes
  /\ s.allowNets \subseteq r.allowNets
  /\ r.denyHosts \subseteq s.denyHosts
  /\ r.denyNets \subseteq s.denyNets

LEMMA StricterPolicy ==
  ASSUME NEW s, NEW r, Stricter(s, r), NEW t, NEW resolved, Guard(s, t, resolved)
  PROVE  Guard(r, t, resolved)
<1>. DEFINE ips == Vetted(t, resolved)
<1>1. /\ t # Blank /\ PermanentlyClear(t, ips) /\ NotDenied(s, t, ips)
      /\ Allowed(s, t, ips)
  BY DEF Guard
<1>2. \A address : /\ InAny(address, s.allowNets) => InAny(address, r.allowNets)
                   /\ InAny(address, r.denyNets) => InAny(address, s.denyNets)
  BY DEF Stricter, InAny
<1>3. HostDenied(r, t) => HostDenied(s, t)
  BY DEF Stricter, HostDenied
<1>4. HostAllowed(s, t) => HostAllowed(r, t)
  BY DEF Stricter, HostAllowed
<1>5. NotDenied(r, t, ips)
  BY <1>1, <1>2, <1>3 DEF NotDenied
<1>6. Allowed(r, t, ips)
  <2>1. s.allowNets # {} => r.allowNets # {}
    BY DEF Stricter
  <2>. HIDE DEF ips
  <2>. QED  BY <1>1, <1>2, <1>4, <2>1 DEF Allowed
<1>. QED  BY <1>1, <1>5, <1>6 DEF Guard

\* Of two scope files, the one that has no permission the other lacks, and
\* lacks no denial it has, lets guard return for no more: adding a denial, or
\* leaving out a permission, never opens anything, and the order of the lines,
\* or a line given twice, means nothing. (scope.py:63-94, 118-165.)
THEOREM StricterFileNarrows ==
  ASSUME NEW a, NEW b,
         \A i \in DOMAIN a : a[i].action = "allow" => \E j \in DOMAIN b : b[j] = a[i],
         \A j \in DOMAIN b : b[j].action = "deny" => \E i \in DOMAIN a : a[i] = b[j],
         NEW t \in Targets, NEW resolved \in SUBSET Addresses,
         Guard(FromLines(a), t, resolved)
  PROVE  Guard(FromLines(b), t, resolved)
<1>. DEFINE Of(lines, action, kind) ==
       {lines[i].what : i \in {j \in DOMAIN lines : lines[j].action = action
                                                    /\ lines[j].kind = kind}}
<1>1. ASSUME NEW kind PROVE Of(a, "allow", kind) \subseteq Of(b, "allow", kind)
  OBVIOUS
<1>2. ASSUME NEW kind PROVE Of(b, "deny", kind) \subseteq Of(a, "deny", kind)
  OBVIOUS
<1>3. ASSUME NEW lines
      PROVE  FromLines(lines) =
               [allowHosts    |-> Of(lines, "allow", "host"),
                allowSuffixes |-> Of(lines, "allow", "suffix"),
                allowNets     |-> Of(lines, "allow", "net"),
                denyHosts     |-> Of(lines, "deny", "host") \cup Of(lines, "deny", "suffix"),
                denyNets      |-> Of(lines, "deny", "net")]
  BY DEF FromLines
<1>. HIDE DEF Of
<1>4. Stricter(FromLines(a), FromLines(b))
  <2>1. /\ Of(a, "allow", "host") \subseteq Of(b, "allow", "host")
        /\ Of(a, "allow", "suffix") \subseteq Of(b, "allow", "suffix")
        /\ Of(a, "allow", "net") \subseteq Of(b, "allow", "net")
    BY <1>1
  <2>2. /\ Of(b, "deny", "host") \subseteq Of(a, "deny", "host")
        /\ Of(b, "deny", "suffix") \subseteq Of(a, "deny", "suffix")
        /\ Of(b, "deny", "net") \subseteq Of(a, "deny", "net")
    BY <1>2
  <2>. QED  BY <1>3, <2>1, <2>2 DEF Stricter
<1>. QED  BY <1>4, StricterPolicy

-----------------------------------------------------------------------------
(* Types *)

LEMMA FollowUpNames ==
  Len(FollowUps) = 3 /\ \A k \in 1 .. 3 : FollowUps[k] \in FollowUpSet
BY DEF FollowUps, FollowUpSet

\* The steps of a call, one by one.
LEMMA Steps ==
  ASSUME [Next]_vars
  PROVE  \/ Refuse \/ Clear \/ GuardRaises \/ Return
         \/ DnsFinding \/ DnsReturns \/ DnsRaises
         \/ Sweep \/ PortsReturn \/ PortsFail \/ PortsRaise
         \/ Visit \/ FollowUpReturns \/ FollowUpRaises
         \/ UNCHANGED vars
BY Zenon DEF Next, Step

LEMMA InitTypes == Init => TypeOK /\ AddressInv /\ ContactsPermitted
<1>. SUFFICES ASSUME Init PROVE TypeOK /\ AddressInv /\ ContactsPermitted
  OBVIOUS
<1>1. PICK c \in Calls : /\ ~Malformed(c.file) /\ scope = FromLines(c.file)
                         /\ targets = c.targets /\ ingest = c.ingest
  BY DEF Init
<1>2. /\ scope \in Policies /\ targets \in Seq(Targets)
      /\ DOMAIN ingest \subseteq Targets /\ ingest \in [DOMAIN ingest -> SUBSET Ports]
  BY <1>1, CallsAssumption
<1>3. at \in 1 .. Len(targets) + 1
  BY <1>2, LenProperties DEF Init
<1>4. TypeOK
  BY <1>2, <1>3 DEF Init, TypeOK, Checkers, FollowUpSet
<1>. QED  BY <1>4 DEF Init, AddressInv, ContactsPermitted, Busy

\* The variables keep their types.
LEMMA TypeStep == TypeOK /\ AddressInv /\ [Next]_vars => TypeOK'
<1>. SUFFICES ASSUME TypeOK, AddressInv, [Next]_vars PROVE TypeOK'
  OBVIOUS
<1>0. /\ Len(targets) \in Nat /\ at \in Nat
      /\ pc \in Busy => at \in DOMAIN targets /\ at \in 1 .. Len(targets) /\ ip \in Addresses
  BY LenProperties DEF TypeOK, AddressInv
<1>. USE <1>0 DEF TypeOK, argVars, targetVars, portVars, followVars, reportVars, history
<1>1. CASE Refuse
  BY <1>1 DEF Refuse, NextTarget, Failed
<1>2. CASE Clear
  <2>1. PICK r \in SUBSET Addresses : Guard(scope, Target, r) /\ ip' \in FirstOf(Target, r)
    BY <1>2 DEF Clear
  <2>2. Target \in Targets
    BY <1>2 DEF Clear, Target
  <2>3. ip' \in Addresses
    BY <2>1, <2>2, GuardPermits
  <2>. QED  BY <1>2, <2>3 DEF Clear
<1>3. CASE GuardRaises  BY <1>3 DEF GuardRaises
<1>4. CASE Return  BY <1>4 DEF Return
<1>5. CASE DnsFinding  BY <1>5 DEF DnsFinding, Found, Checkers
<1>6. CASE DnsReturns  BY <1>6 DEF DnsReturns, Completed, Checkers
<1>7. CASE DnsRaises  BY <1>7 DEF DnsRaises, Failed, Checkers
<1>8. CASE Sweep
  <2>1. Ingested \subseteq Ports
    BY DEF Ingested
  <2>2. contacts' \subseteq Contacts
    BY <1>8 DEF Sweep, Connect, Contacts, Checkers, Busy
  <2>3. found' \subseteq Ports
    BY <1>8, <2>1, PortsAssumption DEF Sweep
  <2>. QED  BY <1>8, <2>1, <2>2, <2>3 DEF Sweep
<1>9. ASSUME NEW ports \in SUBSET Ports, UseOpenPorts(ports), pc = "yield"
      PROVE  /\ open' \subseteq Ports /\ todo' \subseteq Ports /\ follow' \in 1 .. 3
             /\ at' \in 1 .. Len(targets) + 1
             /\ pc' \in {"guard", "follow"}
  <2>1. ports \cap Serves[FollowUps[1]] \subseteq Ports
    OBVIOUS
  <2>. QED  BY <1>9, <2>1 DEF UseOpenPorts, NextTarget, Busy
<1>10. CASE PortsReturn
  <2>1. OpenPorts(found) \in SUBSET Ports
    BY DEF OpenPorts
  <2>2. UseOpenPorts(OpenPorts(found)) /\ pc = "yield"
    BY <1>10 DEF PortsReturn
  <2>3. /\ findings' \subseteq [at : Nat, check : Checkers]
        /\ completed' \subseteq [at : Nat, check : Checkers]
    BY <1>10 DEF PortsReturn, Found, Completed, Checkers
  <2>. QED  BY <1>10, <1>9, <2>1, <2>2, <2>3 DEF PortsReturn
<1>11. CASE PortsFail
  <2>1. OpenPorts(discovered) \in SUBSET Ports
    BY DEF OpenPorts
  <2>2. UseOpenPorts(OpenPorts(discovered)) /\ pc = "yield"
    BY <1>11 DEF PortsFail
  <2>3. errors' \subseteq [at : Nat, what : Checkers \cup {"refused"}]
    BY <1>11 DEF PortsFail, Failed, Checkers
  <2>. QED  BY <1>11, <1>9, <2>1, <2>2, <2>3 DEF PortsFail
<1>12. CASE PortsRaise  BY <1>12 DEF PortsRaise
<1>13. Check \in Checkers
  BY FollowUpNames DEF Check, Checkers
<1>14. CASE Visit
  <2>1. contacts' \subseteq Contacts
    BY <1>14, <1>13 DEF Visit, Connect, Contacts, Busy
  <2>2. findings' \subseteq [at : Nat, check : Checkers]
    BY <1>14, <1>13 DEF Visit, Found
  <2>. QED  BY <1>14, <2>1, <2>2 DEF Visit
<1>15. ASSUME NextFollowUp, pc = "follow"
       PROVE  /\ todo' \subseteq Ports /\ follow' \in 1 .. 3
              /\ at' \in 1 .. Len(targets) + 1
              /\ pc' \in {"guard", "follow"}
  <2>1. CASE follow < Len(FollowUps)
    BY <1>15, <2>1, FollowUpNames DEF NextFollowUp
  <2>2. CASE ~(follow < Len(FollowUps))
    BY <1>15, <2>2 DEF NextFollowUp, NextTarget, Busy
  <2>. QED  BY <2>1, <2>2
<1>16. CASE FollowUpReturns
  <2>1. completed' \subseteq [at : Nat, check : Checkers]
    BY <1>16, <1>13 DEF FollowUpReturns, Completed
  <2>. QED  BY <1>16, <1>15, <2>1 DEF FollowUpReturns
<1>17. CASE FollowUpRaises
  <2>1. errors' \subseteq [at : Nat, what : Checkers \cup {"refused"}]
    BY <1>17, <1>13 DEF FollowUpRaises, Failed
  <2>. QED  BY <1>17, <1>15, <2>1 DEF FollowUpRaises
<1>18. CASE UNCHANGED vars  BY <1>18 DEF vars
<1>. HIDE DEF TypeOK
<1>. QED
  BY <1>1, <1>2, <1>3, <1>4, <1>5, <1>6, <1>7, <1>8, <1>10, <1>11, <1>12, <1>14,
     <1>16, <1>17, <1>18, Steps, Zenon

-----------------------------------------------------------------------------
(* What a step adds to the report and to the history *)

\* Records are only added, and only about the target at hand.
Adds(old, new) == old \subseteq new /\ \A c \in new \ old : c.at = at

LEMMA StepAdds ==
  TypeOK /\ [Next]_vars => /\ Adds(findings, findings') /\ Adds(errors, errors')
                           /\ Adds(contacts, contacts') /\ Adds(completed, completed')
                           /\ UNCHANGED argVars
<1>. SUFFICES ASSUME [Next]_vars
              PROVE  /\ Adds(findings, findings') /\ Adds(errors, errors')
                     /\ Adds(contacts, contacts') /\ Adds(completed, completed')
                     /\ UNCHANGED argVars
  OBVIOUS
<1>. USE DEF Adds, Found, Failed, Completed, Connect, targetVars, reportVars, history
<1>1. CASE Refuse  BY <1>1 DEF Refuse
<1>2. CASE Clear  BY <1>2 DEF Clear
<1>3. CASE GuardRaises \/ Return  BY <1>3 DEF GuardRaises, Return
<1>4. CASE DnsFinding  BY <1>4 DEF DnsFinding
<1>5. CASE DnsReturns  BY <1>5 DEF DnsReturns
<1>6. CASE DnsRaises  BY <1>6 DEF DnsRaises
<1>7. CASE Sweep  BY <1>7 DEF Sweep
<1>8. CASE PortsReturn  BY <1>8 DEF PortsReturn
<1>9. CASE PortsFail  BY <1>9 DEF PortsFail
<1>10. CASE PortsRaise  BY <1>10 DEF PortsRaise
<1>11. CASE Visit  BY <1>11 DEF Visit
<1>12. CASE FollowUpReturns  BY <1>12 DEF FollowUpReturns
<1>13. CASE FollowUpRaises  BY <1>13 DEF FollowUpRaises
<1>14. CASE UNCHANGED vars  BY <1>14 DEF vars
<1>. HIDE DEF Adds
<1>. QED
  BY <1>1, <1>2, <1>3, <1>4, <1>5, <1>6, <1>7, <1>8, <1>9, <1>10, <1>11, <1>12,
     <1>13, <1>14, Steps, Zenon

-----------------------------------------------------------------------------
(* Connections *)

\* Where the loop goes: on with the same target and address, or to the next.
LEMMA AddressStep == TypeOK /\ AddressInv /\ [Next]_vars => AddressInv'
<1>. SUFFICES ASSUME TypeOK, AddressInv, [Next]_vars PROVE AddressInv'
  OBVIOUS
<1>0. UNCHANGED <<scope, targets>>
  BY StepAdds DEF argVars
<1>. USE <1>0 DEF AddressInv, Busy, argVars, targetVars
<1>1. CASE Refuse  BY <1>1 DEF Refuse, NextTarget
<1>2. CASE Clear
  <2>1. PICK r \in SUBSET Addresses : Guard(scope, Target, r) /\ ip' \in FirstOf(Target, r)
    BY <1>2 DEF Clear
  <2>2. Target \in Targets /\ at \in DOMAIN targets /\ at' = at
    BY <1>2 DEF Clear, Target, TypeOK
  <2>3. ip' \in Addresses /\ Permitted(scope, Target, ip')
    BY <2>1, <2>2, GuardPermits
  <2>. QED  BY <2>2, <2>3 DEF Target
<1>3. CASE GuardRaises \/ Return  BY <1>3 DEF GuardRaises, Return
<1>4. CASE DnsFinding  BY <1>4 DEF DnsFinding
<1>5. CASE DnsReturns  BY <1>5 DEF DnsReturns
<1>6. CASE DnsRaises  BY <1>6 DEF DnsRaises
<1>7. CASE Sweep  BY <1>7 DEF Sweep
<1>8. CASE PortsReturn  BY <1>8 DEF PortsReturn, UseOpenPorts, NextTarget
<1>9. CASE PortsFail  BY <1>9 DEF PortsFail, UseOpenPorts, NextTarget
<1>10. CASE PortsRaise  BY <1>10 DEF PortsRaise
<1>11. CASE Visit  BY <1>11 DEF Visit
<1>12. CASE FollowUpReturns  BY <1>12 DEF FollowUpReturns, NextFollowUp, NextTarget
<1>13. CASE FollowUpRaises  BY <1>13 DEF FollowUpRaises, NextFollowUp, NextTarget
<1>14. CASE UNCHANGED vars  BY <1>14 DEF vars
<1>. HIDE DEF AddressInv
<1>. QED
  BY <1>1, <1>2, <1>3, <1>4, <1>5, <1>6, <1>7, <1>8, <1>9, <1>10, <1>11, <1>12,
     <1>13, <1>14, Steps, Zenon

LEMMA ContactsStep ==
  TypeOK /\ AddressInv /\ ContactsPermitted /\ [Next]_vars => ContactsPermitted'
<1>. SUFFICES ASSUME TypeOK, AddressInv, ContactsPermitted, [Next]_vars
              PROVE  ContactsPermitted'
  OBVIOUS
<1>0. UNCHANGED <<scope, targets>>
  BY StepAdds DEF argVars
<1>1. ASSUME NEW check, Connect(check), pc \in Busy PROVE ContactsPermitted'
  BY <1>0, <1>1 DEF Connect, ContactsPermitted, AddressInv
<1>2. ASSUME UNCHANGED contacts PROVE ContactsPermitted'
  BY <1>0, <1>2 DEF ContactsPermitted
<1>3. CASE Sweep  BY <1>3, <1>1, <1>2 DEF Sweep, Busy
<1>4. CASE Visit  BY <1>4, <1>1 DEF Visit, Busy
<1>5. CASE \/ Refuse \/ Clear \/ GuardRaises \/ Return
           \/ DnsFinding \/ DnsReturns \/ DnsRaises \/ PortsReturn \/ PortsFail
           \/ PortsRaise \/ FollowUpReturns \/ FollowUpRaises \/ UNCHANGED vars
  <2>1. UNCHANGED contacts
    BY <1>5 DEF Refuse, Clear, GuardRaises, Return, DnsFinding, DnsReturns,
                DnsRaises, PortsReturn, PortsFail, PortsRaise, FollowUpReturns,
                FollowUpRaises, history, vars
  <2>. QED  BY <1>2, <2>1
<1>. QED  BY <1>3, <1>4, <1>5, Steps, Zenon

\* Types and connections together are inductive.
THEOREM ContactsInvariance == Spec => [](TypeOK /\ AddressInv /\ ContactsPermitted)
<1>. DEFINE I == TypeOK /\ AddressInv /\ ContactsPermitted
<1>1. I /\ [Next]_vars => I'
  BY TypeStep, AddressStep, ContactsStep
<1>. QED  BY InitTypes, <1>1, PTL DEF Spec

\* The state of run_scan, with the report it builds, keeps its types.
THEOREM TypeCorrect == Spec => []TypeOK
BY ContactsInvariance, PTL

\* No checker ever connects to an address the policy does not permit for its
\* target, whatever the name service answers: the vetted address is kept from
\* the guard to the last connection.
THEOREM OnlyPermittedContacts == Spec => []ContactsPermitted
BY ContactsInvariance, PTL

-----------------------------------------------------------------------------
(* Every target is accounted for *)

\* Nothing is said yet of target i.
Untouched(i) ==
  /\ \A c \in contacts \cup findings \cup completed : c.at # i
  /\ \A e \in errors : e.at # i

Dealt(i, check) == Ran(i, check) \/ Said(i, check)

\* How far the report has come with the target at hand.
CurrentInv ==
  /\ pc \in {"guard", "returned"} => Untouched(at)
  /\ pc \in Busy => ~Said(at, "refused")
  /\ pc \in {"dns", "ports", "yield"} =>
       [at |-> at, check |-> "ports"] \notin findings /\ ~Ran(at, "ports")
  /\ pc \in {"ports", "yield", "follow"} => Dealt(at, "dns")
  /\ pc = "yield" => /\ discovered = {} /\ preset = Ingested
                     /\ preset # {} => found = preset
  /\ pc = "follow" => /\ open # {}
                      /\ Dealt(at, "ports")
                      /\ \A k \in 1 .. follow - 1 : Dealt(at, FollowUps[k])
  /\ pc = "returned" => at = Len(targets) + 1

\* The targets after it are untouched, those before it accounted for.
AccountInv ==
  /\ \A i \in Nat : i > at => Untouched(i)
  /\ \A i \in 1 .. at - 1 : Accounted(i)
  /\ CurrentInv

IInv == TypeOK /\ AddressInv /\ ContactsPermitted /\ OwnPortsOnly /\ AccountInv

\* What is recorded of another target than the one at hand does not change.
LEMMA OthersKept ==
  ASSUME TypeOK, [Next]_vars, NEW i \in Nat, i # at
  PROVE  /\ Untouched(i) => Untouched(i)'
         /\ i \in DOMAIN targets /\ Accounted(i) => Accounted(i)'
<1>1. /\ Adds(findings, findings') /\ Adds(errors, errors')
      /\ Adds(contacts, contacts') /\ Adds(completed, completed')
      /\ targets' = targets /\ ingest' = ingest
  BY StepAdds DEF argVars
<1>2. Untouched(i) => Untouched(i)'
  BY <1>1 DEF Adds, Untouched
<1>3. \A w : Said(i, w)' <=> Said(i, w)
  BY <1>1 DEF Adds, Said
<1>4. \A c : Ran(i, c) => Ran(i, c)'
  BY <1>1 DEF Adds, Ran
<1>5. \A c : [at |-> i, check |-> c] \in findings' => [at |-> i, check |-> c] \in findings
  BY <1>1 DEF Adds
<1>6. (\A c \in contacts \cup findings \cup completed : c.at # i)
        => (\A c \in contacts' \cup findings' \cup completed' : c.at # i)
  BY <1>1 DEF Adds
<1>7. Accounted(i) => Accounted(i)'
  BY <1>1, <1>3, <1>4, <1>5, <1>6 DEF Accounted
<1>. QED  BY <1>2, <1>7

\* A step that stays with its target keeps what AccountInv says of the others.
LEMMA SameTarget ==
  ASSUME TypeOK, AccountInv, [Next]_vars, at' = at, CurrentInv'
  PROVE  AccountInv'
<1>1. at \in 1 .. Len(targets) + 1 /\ Len(targets) \in Nat /\ DOMAIN targets = 1 .. Len(targets)
  BY LenProperties DEF TypeOK
<1>2. \A i \in Nat : i > at => Untouched(i)'
  BY <1>1, OthersKept DEF AccountInv
<1>3. \A i \in 1 .. at - 1 : Accounted(i)'
  BY <1>1, OthersKept DEF AccountInv
<1>. QED  BY <1>1, <1>2, <1>3 DEF AccountInv

\* The step that goes on to the next target leaves the last one accounted for.
LEMMA OtherTarget ==
  ASSUME TypeOK, AccountInv, [Next]_vars, NextTarget, at \in DOMAIN targets,
         NEW last, last = at, Accounted(last)'
  PROVE  AccountInv'
<1>1. at \in 1 .. Len(targets) /\ Len(targets) \in Nat /\ DOMAIN targets = 1 .. Len(targets)
  BY LenProperties DEF TypeOK
<1>2. \A i \in Nat : i > at => Untouched(i)'
  BY <1>1, OthersKept DEF AccountInv
<1>3. \A i \in 1 .. at - 1 : Accounted(i)'
  BY <1>1, OthersKept DEF AccountInv
<1>4. at' = at + 1 /\ pc' = "guard"
  BY DEF NextTarget
<1>5. ASSUME NEW i \in 1 .. at' - 1 PROVE Accounted(i)'
  <2>1. CASE i = last  BY <2>1
  <2>2. CASE i # last
    <3>1. i \in 1 .. at - 1
      BY <1>1, <1>4, <2>2
    <3>. QED  BY <3>1, <1>3
  <2>. QED  BY <2>1, <2>2
<1>6. Untouched(at)'
  BY <1>1, <1>2, <1>4 DEF Untouched
<1>7. CurrentInv'
  BY <1>4, <1>6 DEF CurrentInv, Busy
<1>. QED  BY <1>1, <1>2, <1>4, <1>5, <1>7 DEF AccountInv

LEMMA RefuseAccounted ==
  ASSUME TypeOK, AddressInv, AccountInv, [Next]_vars, Refuse PROVE AccountInv'
<1>1. /\ pc = "guard" /\ at \in DOMAIN targets /\ NextTarget
      /\ errors' = errors \cup {[at |-> at, what |-> "refused"]}
      /\ UNCHANGED <<findings, contacts, completed, targets, ingest>>
  BY DEF Refuse, Failed, argVars, history
<1>2. Untouched(at)
  BY <1>1 DEF AccountInv, CurrentInv
<1>3. ASSUME NEW last, last = at PROVE Accounted(last)'
  <2>1. Said(last, "refused")'
    BY <1>1, <1>3 DEF Said
  <2>2. \A c \in contacts' \cup findings' \cup completed' : c.at # last
    BY <1>1, <1>2, <1>3 DEF Untouched
  <2>3. \A c \in Checkers : ~Said(last, c)'
    <3>1. \A c \in Checkers : c # "refused"
      BY DEF Checkers, FollowUpSet
    <3>. QED  BY <1>1, <1>2, <1>3, <3>1 DEF Said, Untouched
  <2>. QED  BY <2>1, <2>2, <2>3 DEF Accounted
<1>. QED  BY <1>1, <1>3, OtherTarget

LEMMA GuardAccounted ==
  ASSUME TypeOK, AddressInv, AccountInv, [Next]_vars, Clear \/ GuardRaises \/ Return
  PROVE  AccountInv'
<1>1. /\ pc = "guard" /\ pc' \in {"dns", "raised", "returned"} /\ at' = at
      /\ pc' = "returned" => at \notin DOMAIN targets
      /\ UNCHANGED <<findings, errors, contacts, completed, targets>>
  BY DEF Clear, GuardRaises, Return, argVars, targetVars, reportVars, history
<1>2. Untouched(at)
  BY <1>1 DEF AccountInv, CurrentInv
<1>3. pc' = "returned" => at = Len(targets) + 1
  <2>1. at \in 1 .. Len(targets) + 1 /\ Len(targets) \in Nat /\ DOMAIN targets = 1 .. Len(targets)
    BY LenProperties DEF TypeOK
  <2>. QED  BY <1>1, <2>1
<1>4. Untouched(at)' /\ ~Said(at, "refused")' /\ ~Ran(at, "ports")'
      /\ [at |-> at, check |-> "ports"] \notin findings'
  BY <1>1, <1>2 DEF Untouched, Said, Ran
<1>5. CurrentInv'
  BY <1>1, <1>3, <1>4 DEF CurrentInv
<1>. QED  BY <1>1, <1>5, SameTarget

LEMMA DnsAccounted ==
  ASSUME TypeOK, AddressInv, AccountInv, [Next]_vars,
         DnsFinding \/ DnsReturns \/ DnsRaises
  PROVE  AccountInv'
<1>1. /\ pc = "dns" /\ pc' \in {"dns", "ports"} /\ at' = at
      /\ findings' = findings \/ findings' = findings \cup {[at |-> at, check |-> "dns"]}
      /\ completed' = completed \/ completed' = completed \cup {[at |-> at, check |-> "dns"]}
      /\ errors' = errors \/ errors' = errors \cup {[at |-> at, what |-> "dns"]}
      /\ pc' = "ports" => \/ [at |-> at, check |-> "dns"] \in completed'
                          \/ [at |-> at, what |-> "dns"] \in errors'
  BY DEF DnsFinding, DnsReturns, DnsRaises, Found, Completed, Failed,
         targetVars, reportVars, history
<1>2. /\ ~Said(at, "refused") /\ ~Ran(at, "ports")
      /\ [at |-> at, check |-> "ports"] \notin findings
  BY <1>1 DEF AccountInv, CurrentInv, Busy
<1>3. CurrentInv'
  BY <1>1, <1>2 DEF CurrentInv, Busy, Said, Ran, Dealt
<1>. QED  BY <1>1, <1>3, SameTarget

LEMMA SweepAccounted ==
  ASSUME TypeOK, AddressInv, AccountInv, [Next]_vars, Sweep \/ PortsRaise
  PROVE  AccountInv'
<1>1. at' = at /\ UNCHANGED <<findings, errors, completed, targets, ingest>>
  BY DEF Sweep, PortsRaise, argVars, targetVars, reportVars, history
<1>2. CASE Sweep
  <2>1. /\ pc = "ports" /\ pc' = "yield" /\ preset' = Ingested /\ discovered' = {}
        /\ Ingested # {} => found' = Ingested
    BY <1>2 DEF Sweep
  <2>2. Ingested' = Ingested
    BY <1>1 DEF Ingested, Target
  <2>3. CurrentInv'
    BY <1>1, <2>1, <2>2 DEF AccountInv, CurrentInv, Busy, Said, Ran, Dealt
  <2>. QED  BY <1>1, <2>3, SameTarget
<1>3. CASE PortsRaise
  <2>1. pc' = "raised"
    BY <1>3 DEF PortsRaise
  <2>2. CurrentInv'
    BY <2>1 DEF CurrentInv, Busy
  <2>. QED  BY <1>1, <2>2, SameTarget
<1>. QED  BY <1>2, <1>3

LEMMA PortsAccounted ==
  ASSUME TypeOK, AddressInv, AccountInv, [Next]_vars, PortsReturn \/ PortsFail
  PROVE  AccountInv'
<1>. DEFINE d == IF PortsReturn THEN found ELSE discovered
<1>1. /\ pc = "yield"
      /\ UseOpenPorts(OpenPorts(d))
      /\ d = {} => findings' = findings
      /\ findings' = findings \/ findings' = findings \cup {[at |-> at, check |-> "ports"]}
      /\ completed' = completed \/ completed' = completed \cup {[at |-> at, check |-> "ports"]}
      /\ errors' = errors \/ errors' = errors \cup {[at |-> at, what |-> "ports"]}
      /\ \/ [at |-> at, check |-> "ports"] \in completed'
         \/ [at |-> at, what |-> "ports"] \in errors'
      /\ UNCHANGED <<targets, ingest>>
  <2>1. CASE PortsReturn
    BY <2>1 DEF PortsReturn, Found, Completed, argVars
  <2>2. CASE ~PortsReturn
    <3>1. PortsFail
      BY <2>2
    <3>. QED  BY <2>2, <3>1 DEF PortsFail, Failed, argVars, history
  <2>. QED  BY <2>1, <2>2
<1>2. /\ ~Said(at, "refused") /\ Dealt(at, "dns") /\ preset = Ingested
      /\ [at |-> at, check |-> "ports"] \notin findings
      /\ at \in DOMAIN targets
  BY <1>1 DEF AccountInv, AddressInv, CurrentInv, Busy
<1>3. CASE OpenPorts(d) # {}
  <2>1. at' = at /\ pc' = "follow" /\ open' # {} /\ follow' = 1
    BY <1>1, <1>3 DEF UseOpenPorts
  <2>2. CurrentInv'
    BY <1>1, <1>2, <2>1 DEF CurrentInv, Busy, Said, Ran, Dealt
  <2>. QED  BY <2>1, <2>2, SameTarget
<1>4. CASE OpenPorts(d) = {}
  <2>1. NextTarget /\ d = {} /\ Ingested = {}
    BY <1>1, <1>2, <1>4 DEF UseOpenPorts, OpenPorts
  <2>2. ASSUME NEW last, last = at PROVE Accounted(last)'
    <3>1. ~Said(last, "refused")'
      BY <1>1, <1>2, <2>2 DEF Said
    <3>2. \A c \in {"dns", "ports"} : Ran(last, c)' \/ Said(last, c)'
      BY <1>1, <1>2, <2>2 DEF Said, Ran, Dealt
    <3>3. /\ [at |-> last, check |-> "ports"] \notin findings'
          /\ targets'[last] \in DOMAIN ingest' => ingest'[targets'[last]] = {}
      BY <1>1, <1>2, <2>1, <2>2 DEF Ingested, Target
    <3>. QED  BY <3>1, <3>2, <3>3 DEF Accounted
  <2>. QED  BY <1>2, <2>1, <2>2, OtherTarget
<1>. QED  BY <1>3, <1>4

LEMMA VisitAccounted ==
  ASSUME TypeOK, AddressInv, AccountInv, [Next]_vars, Visit PROVE AccountInv'
<1>1. pc = "follow" /\ UNCHANGED <<at, pc, open, follow, errors, completed>>
  BY DEF Visit, targetVars, portVars
<1>2. CurrentInv'
  BY <1>1 DEF AccountInv, CurrentInv, Busy, Said, Ran, Dealt
<1>. QED  BY <1>1, <1>2, SameTarget

LEMMA FollowUpAccounted ==
  ASSUME TypeOK, AddressInv, AccountInv, [Next]_vars, FollowUpReturns \/ FollowUpRaises
  PROVE  AccountInv'
<1>1. /\ pc = "follow" /\ NextFollowUp
      /\ completed' = completed \/ completed' = completed \cup {[at |-> at, check |-> Check]}
      /\ errors' = errors \/ errors' = errors \cup {[at |-> at, what |-> Check]}
      /\ \/ [at |-> at, check |-> Check] \in completed'
         \/ [at |-> at, what |-> Check] \in errors'
      /\ UNCHANGED <<open, findings>>
  BY DEF FollowUpReturns, FollowUpRaises, Completed, Failed, portVars, reportVars, history
<1>2. /\ ~Said(at, "refused") /\ Dealt(at, "dns") /\ Dealt(at, "ports") /\ open # {}
      /\ \A k \in 1 .. follow - 1 : Dealt(at, FollowUps[k])
      /\ at \in DOMAIN targets
  BY <1>1 DEF AccountInv, AddressInv, CurrentInv, Busy
<1>3. Check = FollowUps[follow] /\ follow \in 1 .. 3 /\ Check # "refused"
  BY FollowUpNames DEF Check, TypeOK, FollowUpSet
<1>4. ASSUME NEW i, i = at
      PROVE  /\ ~Said(i, "refused")' /\ Dealt(i, "dns")' /\ Dealt(i, "ports")'
             /\ \A k \in 1 .. follow : Dealt(i, FollowUps[k])'
  <2>1. ~Said(i, "refused")' /\ Dealt(i, "dns")' /\ Dealt(i, "ports")'
    BY <1>1, <1>2, <1>3, <1>4 DEF Said, Ran, Dealt
  <2>2. \A k \in 1 .. follow - 1 : Dealt(i, FollowUps[k])'
    BY <1>1, <1>2, <1>4 DEF Said, Ran, Dealt
  <2>3. ASSUME NEW k, k = follow PROVE Dealt(i, FollowUps[k])'
    BY <1>1, <1>3, <1>4, <2>3 DEF Said, Ran, Dealt
  <2>4. \A k \in 1 .. follow : k \in 1 .. follow - 1 \/ k = follow
    BY <1>3
  <2>. QED  BY <2>1, <2>2, <2>3, <2>4
<1>5. CASE follow < Len(FollowUps)
  <2>1. at' = at /\ pc' = "follow" /\ follow' = follow + 1
    BY <1>1, <1>5 DEF NextFollowUp
  <2>2. /\ ~Said(at, "refused")' /\ Dealt(at, "dns")' /\ Dealt(at, "ports")'
        /\ \A k \in 1 .. follow : Dealt(at, FollowUps[k])'
    BY <1>4, <2>1
  <2>3. CurrentInv'
    BY <1>1, <1>2, <1>3, <2>1, <2>2 DEF CurrentInv, Busy
  <2>. QED  BY <2>1, <2>3, SameTarget
<1>6. CASE ~(follow < Len(FollowUps))
  <2>1. NextTarget /\ follow = 3
    BY <1>1, <1>3, <1>6, FollowUpNames DEF NextFollowUp
  <2>2. ASSUME NEW last, last = at PROVE Accounted(last)'
    <3>1. \A c \in FollowUpSet : Dealt(last, c)'
      <4>1. \A c \in FollowUpSet : \E k \in 1 .. 3 : c = FollowUps[k]
        BY DEF FollowUpSet, FollowUps
      <4>. QED  BY <1>4, <2>1, <2>2, <4>1
    <3>. QED  BY <1>4, <2>2, <3>1 DEF Accounted, Dealt
  <2>. QED  BY <1>2, <2>1, <2>2, OtherTarget
<1>. QED  BY <1>5, <1>6

LEMMA AccountStep == TypeOK /\ AddressInv /\ AccountInv /\ [Next]_vars => AccountInv'
<1>. SUFFICES ASSUME TypeOK, AddressInv, AccountInv, [Next]_vars PROVE AccountInv'
  OBVIOUS
<1>1. CASE UNCHANGED vars
  <2>1. /\ UNCHANGED <<pc, at, preset, found, discovered, open, follow>>
        /\ UNCHANGED <<findings, errors, contacts, completed, targets, ingest>>
    BY <1>1 DEF vars, argVars, targetVars, portVars, followVars, reportVars, history
  <2>2. CurrentInv'
    BY <2>1 DEF AccountInv, CurrentInv, Busy, Untouched, Said, Ran, Dealt, Ingested, Target
  <2>. QED  BY <2>1, <2>2, SameTarget
<1>. QED
  BY <1>1, Steps, RefuseAccounted, GuardAccounted, DnsAccounted, SweepAccounted,
     PortsAccounted, VisitAccounted, FollowUpAccounted, Zenon

\* The follow-ups' ports are the target's own.
LEMMA OwnPortsStep ==
  TypeOK /\ OwnPortsOnly /\ AccountInv /\ [Next]_vars => OwnPortsOnly'
<1>. SUFFICES ASSUME OwnPortsOnly, AccountInv, [Next]_vars PROVE OwnPortsOnly'
  OBVIOUS
<1>. USE DEF OwnPortsOnly
<1>1. CASE \/ Refuse \/ Clear \/ GuardRaises \/ Return \/ DnsFinding \/ DnsReturns
           \/ DnsRaises \/ Sweep \/ PortsRaise
  BY <1>1 DEF Refuse, NextTarget, Clear, GuardRaises, Return, DnsFinding, DnsReturns,
              DnsRaises, Sweep, PortsRaise
<1>2. CASE PortsReturn
  BY <1>2 DEF PortsReturn, UseOpenPorts, OpenPorts, NextTarget, Completed, Ran,
              AccountInv, CurrentInv
<1>3. CASE PortsFail
  BY <1>3 DEF PortsFail, UseOpenPorts, OpenPorts, NextTarget, AccountInv, CurrentInv
<1>4. CASE Visit
  BY <1>4 DEF Visit, targetVars, portVars, Ran
<1>5. CASE FollowUpReturns \/ FollowUpRaises
  BY <1>5 DEF FollowUpReturns, FollowUpRaises, NextFollowUp, NextTarget, Completed,
              Ran, portVars, history
<1>6. CASE UNCHANGED vars
  BY <1>6 DEF vars, targetVars, portVars, history, Ran
<1>. HIDE DEF OwnPortsOnly
<1>. QED  BY <1>1, <1>2, <1>3, <1>4, <1>5, <1>6, Steps, Zenon

LEMMA InitInv == Init => IInv
<1>. SUFFICES ASSUME Init PROVE IInv
  OBVIOUS
<1>1. \A i : Untouched(i)
  BY DEF Init, Untouched
<1>2. AccountInv
  BY <1>1 DEF Init, AccountInv, CurrentInv, Busy
<1>. QED  BY <1>2, InitTypes DEF Init, IInv, OwnPortsOnly

\* The inductive invariant of run_scan.
THEOREM Invariance == Spec => []IInv
<1>1. IInv /\ [Next]_vars => IInv'
  BY TypeStep, AddressStep, ContactsStep, OwnPortsStep, AccountStep DEF IInv
<1>. QED  BY InitInv, <1>1, PTL DEF Spec

\* The follow-ups of a target connect to the ports ingested or found for that
\* target, never to those of an earlier one, whichever sweeps fail.
THEOREM NoStalePorts == Spec => []OwnPortsOnly
<1>1. IInv => OwnPortsOnly
  BY DEF IInv
<1>. QED  BY Invariance, <1>1, PTL

\* A run_scan that returns has refused or assessed every target of the list,
\* and its report lists every refusal and every checker that raised.
THEOREM AllAccounted == Spec => []EveryTargetAccounted
<1>1. IInv => EveryTargetAccounted
  <2>. SUFFICES ASSUME IInv, pc = "returned", NEW i \in DOMAIN targets
                PROVE  Accounted(i)
    BY DEF EveryTargetAccounted
  <2>1. at = Len(targets) + 1 /\ targets \in Seq(Targets)
    BY DEF IInv, AccountInv, CurrentInv, TypeOK
  <2>2. i \in 1 .. at - 1
    BY <2>1, LenProperties
  <2>. QED  BY <2>2 DEF IInv, AccountInv
<1>. QED  BY Invariance, <1>1, PTL
=============================================================================
