--------------------------- MODULE MCCommandLine ---------------------------
(***************************************************************************)
(* A small instance of CommandLine: a name that is swept for a port of the *)
(* HTTP checker, one of the banner checker and one that should not be open *)
(* at all, and an address whose two ingested ports are for the TLS checker *)
(* and one of them for the HTTP checker too.                               *)
(***************************************************************************)
EXTENDS CommandLine, TLC

CONSTANTS www, inside, loop, single

MCAddresses == {inside, loop}
MCAllOf == single :> {inside}
MCHostsOf == single :> <<inside>>
MCCovers == << >>

MCPorts == {22, 80, 443, 993, 6379}
MCCommonPorts == {22, 80, 6379}
MCServes == "tls" :> {443, 993} @@ "http" :> {80, 443} @@ "banners" :> {22}
MCSensitive == [p \in MCPorts |-> IF p = 6379 THEN 4 ELSE 0]

Policy == <<Line("allow", "host", www), Line("allow", "net", {inside})>>
Call(tgts, ports) == [file |-> Policy, targets |-> tgts, ingest |-> ports]
MCCalls == {Call(<<www>>, << >>), Call(<<single>>, single :> {443, 993}), Call(<< >>, << >>)}

\* Everything published as it should be, or one fault for each question.
MCZones == {<<"strong", "strong", "strong", "strong">>, <<"all", "none", "absent", "absent">>}

\* A root; a label and a pointer over what follows it; a pointer to a pointer
\* back; a pointer to itself, one behind a label; half a pointer; a name cut
\* short.
MCWires == {<<0>>, <<1, 97, 192, 6, 9, 9, 0>>, <<192, 3, 0, 192, 2>>, <<192, 0>>,
            <<1, 97, 192, 2>>, <<192>>, <<2, 97>>}

MCCertificates == {{}, {"expiring"}, {"self-signed"}}

Page(status, body) ==
  [server |-> "none", lacks |-> {}, cookies |-> {}, cms |-> FALSE,
   origin |-> "no", status |-> status, body |-> body]

\* A page for everything, a file, a page that an old server does not find, and
\* a page with much to say about it.
MCResponses ==
  {Page(200, "html"), Page(200, "text"), [Page(404, "html") EXCEPT !.server = "outdated"],
   [Page(200, "html") EXCEPT !.server = "vulnerable", !.lacks = {"hsts", "csp"},
      !.cookies = {"samesite"}, !.cms = TRUE, !.origin = "credentials"]}
MCPaths == <<"/.env", "/server-status">>
MCPathWeight == "/.env" :> 4 @@ "/server-status" :> 2

MCBanners == {{}, {0}, {1, 4}}
=============================================================================
