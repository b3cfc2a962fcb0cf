------------------------------ MODULE HttpCheck ------------------------------
(***************************************************************************)
(* HttpChecker (checkers/http.py) on one port: a GET of the root page, and *)
(* when that is answered one more with a foreign Origin and one for each   *)
(* path that should not be public. Each is answered on its own connection, *)
(* in whatever way the server likes, or fails.                             *)
(***************************************************************************)
EXTENDS Findings, Sequences

CONSTANTS
  Paths,       \* SENSITIVE_PATHS, in order
  PathWeight,  \* PathWeight[p]: the weight of a finding at p
  PlainPaths,  \* those that _looks_like_html_404 knows to be plain text
  Responses    \* the answers considered

VARIABLES
  http,     \* where run is with the port
  secure,   \* whether it is one of HTTPS_PORTS
  replies,  \* what _get returned, for each probe made
  httpSaid  \* the findings yielded

httpVars == <<http, secure, replies, httpSaid>>

Root == "/"
Cors == "Origin"
Probes == <<Root, Cors>> \o Paths
NoReply == [status |-> 0]

(***************************************************************************)
(* A response: its status; its body, "empty", "html" or "text"; the Server *)
(* header ("none", "named", "versioned", or with a version of the list of  *)
(* known ones, "vulnerable" or "outdated"); the expected headers and the   *)
(* cookie attributes it lacks; whether the body shows a CMS; what it says  *)
(* of the Origin ("no", "reflected", or reflected with "credentials").     *)
(* A body is "html" when its first 512 bytes show it; "text" is all else,  *)
(* also the page of an application in JSON or behind a long comment.       *)
(***************************************************************************)
Idle == http = "idle" /\ secure = FALSE /\ replies = << >> /\ httpSaid = {}

\* run comes to a port.
Start(s) ==
  /\ http = "idle"
  /\ http' = "get" /\ secure' = s
  /\ UNCHANGED <<replies, httpSaid>>

Leave == http' = "idle" /\ secure' = FALSE /\ replies' = << >> /\ httpSaid' = {}

-----------------------------------------------------------------------------
Said(what, weight) == [what |-> what, weight |-> weight]

HeaderWeight == [hsts |-> 2, csp |-> 2, nosniff |-> 1, frame |-> 1]
CookieWeight == [secure |-> 2, httponly |-> 2, samesite |-> 1]

\* _check_headers; no HSTS is asked of a port without TLS.
CheckHeaders(r) ==
  {Said(<<"missing", h>>, HeaderWeight[h]) : h \in IF secure THEN r.lacks ELSE r.lacks \ {"hsts"}}
  \cup (IF r.server = "none" THEN {}
        ELSE {Said(<<"server", r.server>>, IF r.server = "named" THEN 0 ELSE 1)})

CheckCookies(r) == {Said(<<"cookie", a>>, CookieWeight[a]) : a \in r.cookies}

\* KNOWN_VULNERABLE_SERVERS.
KnownServers == [vulnerable |-> 4, outdated |-> 2]

CheckFingerprint(r) ==
  (IF r.cms THEN {Said(<<"body", "cms">>, 0)} ELSE {})
  \cup (IF r.server \in DOMAIN KnownServers
        THEN {Said(<<"known", r.server>>, KnownServers[r.server])} ELSE {})

CheckCors(r) ==
  IF r.origin = "no" THEN {}
  ELSE {Said(<<"origin", r.origin>>, IF r.origin = "credentials" THEN 3 ELSE 2)}

LooksLikeHtml404(path, r) == path \in PlainPaths /\ r.body = "html"

CheckExposure(path, r) ==
  IF r.status = 200 /\ r.body # "empty" /\ ~LooksLikeHtml404(path, r)
  THEN {Said(<<"exposed", path>>, PathWeight[path])} ELSE {}

Verdicts(i, r) ==
  IF Probes[i] = Root THEN CheckHeaders(r) \cup CheckCookies(r) \cup CheckFingerprint(r)
  ELSE IF Probes[i] = Cors THEN CheckCors(r)
  ELSE CheckExposure(Probes[i], r)

-----------------------------------------------------------------------------
Probe == Len(replies) + 1

NextProbe == http' = IF Probe < Len(Probes) THEN "get" ELSE "returned"

\* _get returns the answer, and what it shows is yielded.
Answered ==
  /\ http = "get"
  /\ \E r \in Responses : /\ replies' = Append(replies, r)
                          /\ httpSaid' = httpSaid \cup Verdicts(Probe, r)
  /\ NextProbe
  /\ UNCHANGED secure

\* The probes that were answered.
Answers == {i \in DOMAIN replies : replies[i] # NoReply}

\* Mutant of Unanswered: an answer to an earlier probe is taken for this one's.
UnansweredReuses ==
  /\ http = "get"
  /\ replies' = Append(replies, NoReply)
  /\ \E i \in Answers : httpSaid' = httpSaid \cup Verdicts(Probe, replies[i])
  /\ NextProbe
  /\ UNCHANGED secure

\* Mutant of Unanswered: return in the place of continue.
UnansweredReturns ==
  /\ http = "get"
  /\ replies' = Append(replies, NoReply)
  /\ http' = "returned"
  /\ UNCHANGED <<secure, httpSaid>>

\* _get returns None at an OSError or HTTPException. Without the root page
\* the port is left.
Unanswered ==
  /\ http = "get"
  /\ replies' = Append(replies, NoReply)
  /\ IF Probes[Probe] = Root THEN http' = "returned" ELSE NextProbe
  /\ UNCHANGED <<secure, httpSaid>>

\* Any other exception: a host name that no header can hold.
GetRaises ==
  /\ http = "get"
  /\ http' = "raised"
  /\ UNCHANGED <<secure, replies, httpSaid>>

Step == Answered \/ Unanswered \/ GetRaises

Ended == http \in {"returned", "raised"}

-----------------------------------------------------------------------------
\* The types of the variables.
TypeOK ==
  /\ http \in {"idle", "get", "returned", "raised"}
  /\ secure \in BOOLEAN
  /\ replies \in Seq(Responses \cup {NoReply}) /\ Len(replies) <= Len(Probes)
  /\ \A f \in httpSaid : f.weight \in Weights

\* One failure does not hide the rest: once the root page was answered, run
\* leaves the port only when every probe was made, once, whichever of them the
\* server dropped. ("One GET each", http.py:17, and the two loops.)
ProbesIndependent ==
  http = "returned" /\ replies[1] # NoReply => Len(replies) = Len(Probes)

\* What is said of a port is what the answer to each probe shows for that
\* probe, all of it and nothing besides: of a probe that the server dropped
\* nothing is said, the answer to one probe is not held against another (the
\* root page is not the file, the reply to a foreign Origin is not the root
\* page), and a probe that raises loses nothing said before it. (run and the
\* generators it chains, http.py:89-100, 151-163, 190-207.)
EachReplyItsOwn == httpSaid = UNION {Verdicts(i, replies[i]) : i \in Answers}
=============================================================================
