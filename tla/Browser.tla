------------------------------ MODULE Browser ------------------------------
(***************************************************************************)
(* What one page of the web interface does while its user opens scans      *)
(* (web/static/app.js). JavaScript runs one handler at a time, but openScan *)
(* and the "done" handler wait for the server in between, and nothing      *)
(* cancels a call that a later one has overtaken: several are under way at *)
(* once, and their answers come in any order.                              *)
(*                                                                         *)
(* A call of openScan has a number. The log element that it renders and    *)
(* the event source that it opens have the same number.                    *)
(***************************************************************************)
EXTENDS Naturals, Sequences

CONSTANTS
  Scans,      \* the scans in the history
  MaxEvents,  \* bound: messages a scan emits
  MaxOpens    \* bound: calls of openScan

ASSUME EventsAssumption == MaxEvents \in Nat
ASSUME OpensAssumption == MaxOpens \in Nat

Opens == 1 .. MaxOpens
None == 0
NoScan == "none"

VARIABLES
  status,   \* status[s]: the status of scan s at the server
  emitted,  \* emitted[s]: how many messages it has emitted
  opened,   \* how many calls of openScan were made
  of,       \* of[t]: the scan call t is for
  pc,       \* pc[t]: what call t waits for
  answer,   \* answer[t]: the status the server answered it
  lines,    \* lines[t]: the lines in log element t
  sent,     \* sent[t]: the messages event source t has received
  current,  \* currentScanId
  source,   \* currentSource
  report,   \* the scan that currentReport is of
  view      \* what #main shows

serverVars == <<status, emitted>>
callVars   == <<opened, of, pc, answer>>
logVars    == <<lines, sent>>
globals    == <<current, source, report>>
vars == <<serverVars, callVars, logVars, globals, view>>

View(kind, s, t) == [kind |-> kind, scan |-> s, log |-> t]
Message(s, i) == [scan |-> s, nr |-> i]

Init ==
  /\ status = [s \in Scans |-> "running"]
  /\ emitted = [s \in Scans |-> 0]
  /\ opened = 0
  /\ of = [t \in Opens |-> NoScan]
  /\ pc = [t \in Opens |-> "none"]
  /\ answer = [t \in Opens |-> "running"]
  /\ lines = [t \in Opens |-> << >>]
  /\ sent = [t \in Opens |-> 0]
  /\ current = NoScan /\ source = None /\ report = NoScan
  /\ view = View("empty", NoScan, None)

Goto(t, next) == pc' = [pc EXCEPT ![t] = next]

-----------------------------------------------------------------------------
(* The server: a scan's thread (modules ScanRecord and ScanStore) *)

Emit(s) ==
  /\ status[s] = "running" /\ emitted[s] < MaxEvents
  /\ emitted' = [emitted EXCEPT ![s] = @ + 1]
  /\ UNCHANGED <<status, callVars, logVars, globals, view>>

Finish(s) ==
  /\ status[s] = "running"
  /\ \E outcome \in {"done", "error"} : status' = [status EXCEPT ![s] = outcome]
  /\ UNCHANGED <<emitted, callVars, logVars, globals, view>>

-----------------------------------------------------------------------------
(* openScan *)

\* A click in the history, or the scan just submitted: the current source is
\* closed, the status asked for.
OpenScan(s) ==
  /\ opened < MaxOpens
  /\ opened' = opened + 1
  /\ of' = [of EXCEPT ![opened'] = s]
  /\ pc' = [t \in Opens |-> IF t = opened' THEN "status"
                            ELSE IF t = source THEN "end" ELSE pc[t]]
  /\ current' = s
  /\ source' = None
  /\ UNCHANGED <<serverVars, answer, logVars, report, view>>

\* scan_status answers; the answer is on its way.
StatusAnswered(t) ==
  /\ pc[t] = "status"
  /\ answer' = [answer EXCEPT ![t] = status[of[t]]]
  /\ Goto(t, "answered")
  /\ UNCHANGED <<serverVars, opened, of, logVars, globals, view>>

\* It arrives: the log with a new event source, the error, or the report.
WatchEvents(t) ==
  /\ pc[t] = "answered" /\ answer[t] = "running"
  /\ view' = View("running", of[t], t)
  /\ source' = t
  /\ Goto(t, "watching")
  /\ UNCHANGED <<serverVars, opened, of, answer, logVars, current, report>>

RenderError(t) ==
  /\ pc[t] \in {"answered", "history"} /\ answer[t] = "error"
  /\ view' = View("error", of[t], None)
  /\ Goto(t, "end")
  /\ UNCHANGED <<serverVars, opened, of, answer, logVars, globals>>

LoadReport(t) ==
  /\ pc[t] \in {"answered", "history"} /\ answer[t] = "done"
  /\ Goto(t, "report")
  /\ UNCHANGED <<serverVars, opened, of, answer, logVars, globals, view>>

\* Mutant of ShowReport: renderReport(currentScanId, currentReport).
ShowReportAsCurrent(t) ==
  /\ pc[t] = "report"
  /\ report' = of[t]
  /\ view' = View("report", current, None)
  /\ Goto(t, "end")
  /\ UNCHANGED <<serverVars, opened, of, answer, logVars, current, source>>

\* The report arrives: currentReport is set and rendered.
ShowReport(t) ==
  /\ pc[t] = "report"
  /\ report' = of[t]
  /\ view' = View("report", of[t], None)
  /\ Goto(t, "end")
  /\ UNCHANGED <<serverVars, opened, of, answer, logVars, current, source>>

-----------------------------------------------------------------------------
(* watchEvents: the handlers of event source t *)

\* Mutant of OnMessage: the log element is looked up when the message comes.
OnMessageInVisibleLog(t) ==
  /\ pc[t] = "watching" /\ sent[t] < emitted[of[t]]
  /\ sent' = [sent EXCEPT ![t] = @ + 1]
  /\ lines' = IF view.kind = "running"
              THEN [lines EXCEPT ![view.log] = Append(@, Message(of[t], sent'[t]))]
              ELSE lines
  /\ UNCHANGED <<serverVars, callVars, globals, view>>

\* A line for the log element of the time the source was opened, on the page
\* or not by now.
OnMessage(t) ==
  /\ pc[t] = "watching" /\ sent[t] < emitted[of[t]]
  /\ sent' = [sent EXCEPT ![t] = @ + 1]
  /\ lines' = [lines EXCEPT ![t] = Append(@, Message(of[t], sent'[t]))]
  /\ UNCHANGED <<serverVars, callVars, globals, view>>

\* Mutant of OnDone: currentSource is not set to null.
OnDoneKeepingSource(t) ==
  /\ pc[t] = "watching"
  /\ status[of[t]] # "running" /\ sent[t] = emitted[of[t]]
  /\ answer' = [answer EXCEPT ![t] = status[of[t]]]
  /\ Goto(t, "history")
  /\ UNCHANGED <<serverVars, opened, of, logVars, globals, view>>

\* Mutant of OnDone: nothing more is done for a scan that failed.
OnDoneIgnoringErrors(t) ==
  /\ pc[t] = "watching"
  /\ status[of[t]] # "running" /\ sent[t] = emitted[of[t]]
  /\ answer' = [answer EXCEPT ![t] = status[of[t]]]
  /\ source' = None
  /\ Goto(t, IF status[of[t]] = "error" THEN "end" ELSE "history")
  /\ UNCHANGED <<serverVars, opened, of, logVars, current, report, view>>

\* "done", with the summary: currentSource is set to null, whichever source
\* that is by now, and loadHistory awaited; then RenderError or LoadReport.
OnDone(t) ==
  /\ pc[t] = "watching"
  /\ status[of[t]] # "running" /\ sent[t] = emitted[of[t]]
  /\ answer' = [answer EXCEPT ![t] = status[of[t]]]
  /\ source' = None
  /\ Goto(t, "history")
  /\ UNCHANGED <<serverVars, opened, of, logVars, current, report, view>>

\* onerror: the connection drops; the source is closed, not opened again.
OnError(t) ==
  /\ pc[t] = "watching"
  /\ source' = None
  /\ Goto(t, "lost")
  /\ UNCHANGED <<serverVars, opened, of, answer, logVars, current, report, view>>

\* A request fails: nothing catches the rejection, nothing is rendered. (That
\* of loadHistory is caught there.)
RequestFails(t) ==
  /\ pc[t] \in {"status", "answered", "report"}
  /\ Goto(t, "lost")
  /\ UNCHANGED <<serverVars, opened, of, answer, logVars, globals, view>>

-----------------------------------------------------------------------------
Handle(t) ==
  \/ StatusAnswered(t) \/ WatchEvents(t) \/ RenderError(t) \/ LoadReport(t)
  \/ ShowReport(t) \/ OnMessage(t) \/ OnDone(t)

Fails(t) == OnError(t) \/ RequestFails(t)

Next ==
  \/ \E s \in Scans : Emit(s) \/ Finish(s) \/ OpenScan(s)
  \/ \E t \in Opens : Handle(t) \/ Fails(t)

Spec == Init /\ [][Next]_vars

(***************************************************************************)
(* A scan comes to its end (Engine, Terminates), the server answers and    *)
(* the browser delivers; whether the user clicks, and a connection holds,  *)
(* is theirs to decide.                                                    *)
(***************************************************************************)
FairSpec ==
  /\ Spec
  /\ \A s \in Scans : WF_vars(Finish(s))
  /\ \A t \in Opens : WF_vars(Handle(t))

-----------------------------------------------------------------------------
PCs == {"none", "status", "answered", "watching", "history", "report", "end", "lost"}
ViewKinds == {"empty", "running", "error", "report"}

\* The types of the variables; currentSource is null or an open source.
TypeOK ==
  /\ status \in [Scans -> {"running", "done", "error"}]
  /\ emitted \in [Scans -> 0 .. MaxEvents]
  /\ opened \in 0 .. MaxOpens
  /\ of \in [Opens -> Scans \cup {NoScan}]
  /\ pc \in [Opens -> PCs]
  /\ answer \in [Opens -> {"running", "done", "error"}]
  /\ lines \in [Opens -> Seq([scan : Scans, nr : 1 .. MaxEvents])]
  /\ sent \in [Opens -> 0 .. MaxEvents]
  /\ {current, report} \subseteq Scans \cup {NoScan}
  /\ source \in Opens \cup {None}
  /\ view \in [kind : ViewKinds, scan : Scans \cup {NoScan}, log : Opens \cup {None}]
  /\ source # None => pc[source] = "watching"

\* The log on the page is that of the scan named above it: its messages, in
\* order, none twice, however many sources are open behind it. (watchEvents,
\* app.js:142-153.)
LogOwn ==
  view.kind = "running" =>
    /\ Len(lines[view.log]) <= emitted[view.scan]
    /\ \A i \in DOMAIN lines[view.log] : lines[view.log][i] = Message(view.scan, i)

\* The findings on the page are those of the scan whose report the buttons
\* above them download. (loadReport and renderReport, app.js:173-201.)
ReportMatches == view.kind = "report" => report = view.scan

\* A page does not say "scanning..." for ever: the log gives way to the report
\* or to the error, or to what was opened since, unless the network failed.
\* (The "done" handler, app.js:154-164.)
RunningEnds ==
  \A t \in Opens :
    (view.kind = "running" /\ view.log = t) ~>
      \/ ~(view.kind = "running" /\ view.log = t)
      \/ \E u \in Opens : pc[u] = "lost"

\* "when it finishes you get a filterable, searchable findings dashboard"
\* (README.md, Web UI): once everything has been answered and no request has
\* failed, the page shows the scan that was opened last.
SelectedShown ==
  (opened > 0 /\ \A t \in 1 .. opened : pc[t] = "end") => view.scan = current
=============================================================================
