---------------------------- MODULE HistoryPage ----------------------------
(***************************************************************************)
(* A page of the web interface with the store behind it: from the history  *)
(* sidebar the user opens a scan (openScan, watchEvents and loadReport in  *)
(* web/static/app.js), which asks scan_status, the event stream and        *)
(* scan_report (web/app.py, web/store.py). A page asks for one scan at a   *)
(* time here.                                                              *)
(***************************************************************************)
EXTENDS ScanStore

VARIABLES
  opc,    \* opc[p]: how far page p is with opening a scan
  want,   \* want[p]: that scan
  listed  \* listed[p]: the page showed it as done when it asked

openVars == <<opc, want, listed>>
vars == <<storeState, openVars>>

NoScan == "none"

PageInit ==
  /\ Init
  /\ opc = [p \in Pages |-> "idle"]
  /\ want = [p \in Pages |-> NoScan]
  /\ listed = [p \in Pages |-> FALSE]

Ask(p, s, pc) ==
  /\ opc[p] = "idle"
  /\ \E e \in Entries(history[p]) : e.id = s
  /\ want' = [want EXCEPT ![p] = s]
  /\ listed' = [listed EXCEPT ![p] = Entry(s, "done") \in Entries(history[p])]
  /\ opc' = [opc EXCEPT ![p] = pc]
  /\ UNCHANGED storeState

OpenScan(p, s) == Ask(p, s, "status")

\* A link to the report itself (the download links, a bookmark).
FetchReport(p, s) == Ask(p, s, "report")

Becomes(p, pc) ==
  /\ opc' = [opc EXCEPT ![p] = pc]
  /\ UNCHANGED <<storeState, want, listed>>

\* Mutant of StatusAnswered: the record's status is taken for the view.
StatusAnsweredRaw(p) ==
  LET s == want[p] IN
  /\ opc[p] = "status"
  /\ Becomes(p, IF s \notin registry THEN "unknown" ELSE status[s])

\* scan_status looks in the registry only.
StatusAnswered(p) ==
  LET s == want[p] IN
  /\ opc[p] = "status"
  /\ Becomes(p, IF s \notin registry THEN "unknown"
                ELSE CASE status[s] = "running" -> "watching"
                       [] status[s] = "error"   -> "error"
                       [] status[s] = "done"    -> "report")

\* The "done" event of the record's stream.
WatchEnds(p) ==
  LET s == want[p] IN
  /\ opc[p] = "watching"
  /\ status[s] # "running"
  /\ Becomes(p, IF status[s] = "error" THEN "error" ELSE "report")

\* Mutant of ReportFromMemory: no record, no report.
ReportFromMemoryOnly(p) ==
  LET s == want[p] IN
  /\ opc[p] = "report"
  /\ Becomes(p, IF s \in registry /\ report[s] THEN "served" ELSE "noReport")

\* load_report_dict: the record's report, else the file if there is one ...
ReportFromMemory(p) ==
  LET s == want[p] IN
  /\ opc[p] = "report"
  /\ Becomes(p, IF s \in registry /\ report[s] THEN "served"
                ELSE IF file[s] # "absent" THEN "read" ELSE "noReport")

\* ... which may turn out not to parse.
ReportFromFile(p) ==
  /\ opc[p] = "read"
  /\ Becomes(p, IF file[want[p]] = "complete" THEN "served" ELSE "broken")

Outcomes == {"unknown", "error", "served", "noReport", "broken"}

Leave(p) ==
  /\ opc[p] \in Outcomes
  /\ opc' = [opc EXCEPT ![p] = "idle"]
  /\ want' = [want EXCEPT ![p] = NoScan]
  /\ listed' = [listed EXCEPT ![p] = FALSE]
  /\ UNCHANGED storeState

Open(p) ==
  \/ StatusAnswered(p) \/ WatchEnds(p) \/ ReportFromMemory(p) \/ ReportFromFile(p)
  \/ Leave(p)
  \/ \E s \in Scans : OpenScan(p, s) \/ FetchReport(p, s)

-----------------------------------------------------------------------------
\* A restart breaks off the requests under way.
RestartAll ==
  /\ Restart
  /\ opc' = [p \in Pages |-> IF opc[p] \in Outcomes THEN opc[p] ELSE "idle"]
  /\ UNCHANGED <<want, listed>>

\* The store's own steps, and its lists, go on meanwhile.
StoreStep ==
  /\ \/ \E s \in Scans : Start(s) \/ Worker(s)
     \/ \E p \in Pages : List(p)
  /\ UNCHANGED openVars

PageNext ==
  \/ StoreStep
  \/ \E p \in Pages : Open(p)
  \/ RestartAll

PageSpec == PageInit /\ [][PageNext]_vars

-----------------------------------------------------------------------------
\* The types of the page's variables.
PageTypeOK ==
  /\ opc \in [Pages -> {"idle", "status", "watching", "report", "read"} \cup Outcomes]
  /\ want \in [Pages -> Scans \cup {NoScan}]
  /\ listed \in [Pages -> BOOLEAN]

\* A report that the page lists as done is served when it is asked for, from
\* memory or from its file, before and after a restart. (load_report_dict,
\* store.py:159-168; scan_report, app.py:113-118.)
DoneReportServed ==
  \A p \in Pages : listed[p] => opc[p] \notin {"noReport", "broken", "error"}

\* "Reports are also written to disk as JSON so scan history survives a server
\* restart" (store.py:6-8): a scan listed as done can be opened.
HistoryOpens ==
  \A p \in Pages : listed[p] => opc[p] # "unknown"
=============================================================================
