------------------------------ MODULE MCEngine ------------------------------
(***************************************************************************)
(* Small instances of Engine for TLC: a host of its own, a host under an   *)
(* allowed suffix, one address and a range; ports of every follow-up.      *)
(***************************************************************************)
EXTENDS Engine, TLC

CONSTANTS www, sub, dom,                \* names "www..", "sub.dom", suffix ".dom"
          inside, outside, shut, loop,  \* addresses
          single, range                 \* literal targets

MCAddresses == {inside, outside, shut, loop}
MCCovers == dom :> {sub}
MCAllOf == single :> {inside} @@ range :> {outside, inside}
MCHostsOf == single :> <<inside>> @@ range :> <<outside, inside>>

MCPorts == {22, 443, 993}
MCCommonPorts == {22, 443}
MCServes == "tls" :> {443, 993} @@ "http" :> {443} @@ "banners" :> {22}

AllowNet == Line("allow", "net", {inside})
AllowWww == Line("allow", "host", www)
AllowDom == Line("allow", "suffix", dom)
DenyShut == Line("deny", "net", {shut})
DenyDom  == Line("deny", "suffix", dom)
DenyWww  == Line("deny", "host", www)
Comment  == Line("none", "blank", www)
Broken   == Line("none", "malformed", www)

Call(file, tgts, ports) == [file |-> file, targets |-> tgts, ingest |-> ports]
NoIngest == << >>

\* Names allowed by themselves, by suffix and by their addresses, denials that
\* override them, literals, the empty target, ingested ports; the last two are
\* a malformed file and one that allows nothing, which never reach run_scan.
MCCalls ==
  {Call(<<AllowWww, AllowDom, DenyShut>>, <<www, sub>>, www :> {993}),
   Call(<<AllowNet, DenyShut>>, <<range, www>>, NoIngest),
   Call(<<AllowNet, AllowWww, Comment, DenyDom>>, <<sub, single>>, single :> {443} @@ sub :> {22}),
   Call(<<DenyWww, AllowWww, AllowNet>>, <<www, Blank, single>>, single :> { }),
   Call(<<AllowWww, Broken>>, <<www>>, NoIngest),
   Call(<<DenyShut>>, <<www>>, NoIngest)}

\* An ingested target whose list of ports is empty.
EmptyIngestCalls == {Call(<<AllowNet>>, <<single>>, single :> { })}

\* A range of which one address is allowed.
RangeCalls == {Call(<<AllowNet>>, <<range>>, NoIngest)}
=============================================================================
