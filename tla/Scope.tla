------------------------------- MODULE Scope -------------------------------
(***************************************************************************)
(* The scope policy (scope.py): reading the lines of a scope file, and     *)
(* guard, which decides whether a target may be touched and returns the    *)
(* addresses it vetted.                                                    *)
(*                                                                         *)
(* An address is a value, a network the set of its addresses, a name a     *)
(* value (guard and from_lines lower-case both sides of a comparison), and *)
(* a literal target, one address or a range, a value with its addresses.   *)
(***************************************************************************)
EXTENDS Naturals, Sequences

CONSTANTS
  Addresses,          \* IP addresses
  PermanentlyDenied,  \* those in PERMANENTLY_DENIED
  Names,              \* host names
  Suffixes,           \* suffixes beginning with "."
  Covers,             \* Covers[d]: the names that are d[1:] or end with d
  Literals,           \* targets that _as_network parses
  AllOf,              \* AllOf[l]: the addresses of literal l
  HostsOf,            \* HostsOf[l]: what hosts() lists of it, in order
  Blank               \* the empty target

ASSUME PermanentAssumption == PermanentlyDenied \subseteq Addresses
ASSUME CoversAssumption == Covers \in [Suffixes -> SUBSET Names]
ASSUME LiteralAssumption ==
  /\ AllOf \in [Literals -> SUBSET Addresses]
  /\ HostsOf \in [Literals -> Seq(Addresses)]
  /\ \A l \in Literals : /\ HostsOf[l] # << >>
                         /\ \A i \in DOMAIN HostsOf[l] : HostsOf[l][i] \in AllOf[l]
ASSUME KindsAssumption ==
  /\ Names \cap Literals = {} /\ Names \cap Suffixes = {}
  /\ Blank \notin Names \cup Literals

Targets == Names \cup Literals \cup {Blank}
Networks == SUBSET Addresses

\* A policy: the fields of the dataclass Scope, its lists as sets (only any()
\* and all() read them).
Policies == [allowHosts : SUBSET Names, allowSuffixes : SUBSET Suffixes,
             allowNets : SUBSET Networks,
             denyHosts : SUBSET (Names \cup Suffixes), denyNets : SUBSET Networks]

\* One line: blank or a comment, malformed, or an action and what it is about.
Line(action, kind, what) == [action |-> action, kind |-> kind, what |-> what]

-----------------------------------------------------------------------------
\* from_lines raises ScopeError at a malformed line.
Malformed(lines) == \E i \in DOMAIN lines : lines[i].kind = "malformed"

\* A denied suffix goes into deny_hosts, where _host_denied looks for it.
FromLines(lines) ==
  LET Of(action, kind) ==
        {lines[i].what : i \in {j \in DOMAIN lines :
                                  lines[j].action = action /\ lines[j].kind = kind}}
  IN [allowHosts    |-> Of("allow", "host"),
      allowSuffixes |-> Of("allow", "suffix"),
      allowNets     |-> Of("allow", "net"),
      denyHosts     |-> Of("deny", "host") \cup Of("deny", "suffix"),
      denyNets      |-> Of("deny", "net")]

IsEmpty(s) == s.allowHosts = {} /\ s.allowSuffixes = {} /\ s.allowNets = {}

HostDenied(s, host) ==
  \/ host \in s.denyHosts
  \/ \E d \in s.denyHosts \cap Suffixes : host \in Covers[d]

HostAllowed(s, host) ==
  \/ host \in s.allowHosts
  \/ \E d \in s.allowSuffixes : host \in Covers[d]

InAny(ip, nets) == \E n \in nets : ip \in n

-----------------------------------------------------------------------------
\* The addresses guard vets: a literal's own, or what the name resolved to.
Vetted(target, resolved) ==
  IF target \in Literals THEN {HostsOf[target][i] : i \in DOMAIN HostsOf[target]}
                         ELSE resolved

\* Every address of a literal is tested against the permanent denials, and
\* every vetted one. (A name that does not resolve has nothing to vet.)
PermanentlyClear(target, ips) ==
  /\ target \in Literals => AllOf[target] \cap PermanentlyDenied = {}
  /\ target \notin Literals => ips # {}
  /\ ips \cap PermanentlyDenied = {}

NotDenied(s, target, ips) ==
  /\ target \notin Literals => ~HostDenied(s, target)
  /\ \A ip \in ips : ~InAny(ip, s.denyNets)

\* A range is accepted when some address of it is allowed.
Allowed(s, target, ips) ==
  IF target \in Literals
  THEN \E ip \in ips : InAny(ip, s.allowNets)
  ELSE \/ HostAllowed(s, target)
       \/ s.allowNets # {} /\ \A ip \in ips : InAny(ip, s.allowNets)

\* guard returns, rather than raising ScopeError.
Guard(s, target, resolved) ==
  LET ips == Vetted(target, resolved) IN
  /\ target # Blank
  /\ PermanentlyClear(target, ips)
  /\ NotDenied(s, target, ips)
  /\ Allowed(s, target, ips)

\* The address the engine takes, ips[0]: the first of a literal, any one of a
\* name's (list(set) has no order to rely on).
FirstOf(target, resolved) ==
  IF target \in Literals THEN {HostsOf[target][1]} ELSE resolved

=============================================================================
