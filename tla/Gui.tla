-------------------------------- MODULE Gui --------------------------------
(***************************************************************************)
(* The desktop window (gui.py): the user interface thread, the worker      *)
(* thread of each scan, and the queue between them, which a timer of the   *)
(* user interface thread drains.                                           *)
(*                                                                         *)
(* The scans are numbered. A dialog box runs an event loop of its own, in  *)
(* which the timer fires, but keeps the user from the window; the error    *)
(* box is opened by _drain itself, whose timer is not set again before.    *)
(***************************************************************************)
EXTENDS Naturals, Sequences

CONSTANTS
  MaxScans,    \* bound: scans started
  MaxProgress  \* bound: progress messages of a scan

ASSUME ScansAssumption == MaxScans \in Nat
ASSUME ProgressAssumption == MaxProgress \in Nat

Scans == 1 .. MaxScans
None == 0

VARIABLES
  started,    \* the scans started so far: 1 .. started
  wpc,        \* wpc[n]: where the worker of scan n is
  progress,   \* progress[n]: the messages it has put
  q,          \* the queue
  scanning,   \* self.scanning
  scanButton, \* the Scan button can be pressed
  saveButton, \* the Save buttons can be pressed
  report,     \* the scan that self.report is of
  table,      \* the scan whose findings the table and the counts show
  label,      \* what the status line says, of which scan
  dialog,     \* the dialog box that is open
  draining,   \* _drain is running
  saved       \* the scan of the report saved last

workerVars == <<wpc, progress>>
windowVars == <<scanning, scanButton, saveButton, report, table, label>>
vars == <<started, workerVars, q, windowVars, dialog, draining, saved>>

Item(kind, n) == [kind |-> kind, scan |-> n]

Init ==
  /\ started = 0
  /\ wpc = [n \in Scans |-> "none"]
  /\ progress = [n \in Scans |-> 0]
  /\ q = << >>
  /\ scanning = FALSE /\ scanButton = TRUE /\ saveButton = FALSE
  /\ report = None /\ table = None /\ saved = None
  /\ label = Item("ready", None)
  /\ dialog = "none" /\ draining = FALSE

\* The window is free for the user: no box is open, no handler running.
Free == dialog = "none" /\ ~draining

-----------------------------------------------------------------------------
(* _start *)

\* No target or no authorization.
StartRefused ==
  /\ Free /\ scanButton /\ ~scanning
  /\ dialog' = "warning"
  /\ UNCHANGED <<started, workerVars, q, windowVars, draining, saved>>

\* Mutant of Start: the Save buttons are left as they are.
StartKeepingSave ==
  /\ Free /\ scanButton /\ ~scanning
  /\ started < MaxScans
  /\ started' = started + 1
  /\ wpc' = [wpc EXCEPT ![started'] = "scan"]
  /\ scanning' = TRUE /\ scanButton' = FALSE
  /\ table' = None
  /\ label' = Item("starting", started')
  /\ UNCHANGED <<progress, q, saveButton, report, dialog, draining, saved>>

\* The table is emptied, the worker started. (self.report stays.)
Start ==
  /\ Free /\ scanButton /\ ~scanning
  /\ started < MaxScans
  /\ started' = started + 1
  /\ wpc' = [wpc EXCEPT ![started'] = "scan"]
  /\ scanning' = TRUE /\ scanButton' = FALSE /\ saveButton' = FALSE
  /\ table' = None
  /\ label' = Item("starting", started')
  /\ UNCHANGED <<progress, q, report, dialog, draining, saved>>

-----------------------------------------------------------------------------
(* _worker *)

PutProgress(n) ==
  /\ wpc[n] = "scan" /\ progress[n] < MaxProgress
  /\ progress' = [progress EXCEPT ![n] = @ + 1]
  /\ q' = Append(q, Item("progress", n))
  /\ UNCHANGED <<started, wpc, windowVars, dialog, draining, saved>>

\* Mutant of PutResult: the worker touches the window, as soon as it is done.
PutResultEarly(n) ==
  /\ wpc[n] = "scan"
  /\ \E outcome \in {"done", "error"} : q' = Append(q, Item(outcome, n))
  /\ wpc' = [wpc EXCEPT ![n] = "end"]
  /\ scanning' = FALSE /\ scanButton' = TRUE
  /\ UNCHANGED <<started, progress, saveButton, report, table, label, dialog, draining, saved>>

\* run_scan returns, or raises.
PutResult(n) ==
  /\ wpc[n] = "scan"
  /\ \E outcome \in {"done", "error"} : q' = Append(q, Item(outcome, n))
  /\ wpc' = [wpc EXCEPT ![n] = "end"]
  /\ UNCHANGED <<started, progress, windowVars, dialog, draining, saved>>

Worker(n) == PutProgress(n) \/ PutResult(n)

-----------------------------------------------------------------------------
(* _drain *)

TimerFires ==
  /\ ~draining
  /\ draining' = TRUE
  /\ UNCHANGED <<started, workerVars, q, windowVars, dialog, saved>>

\* get_nowait, in the loop: the box that shows an error holds it up.
Take(kind) ==
  /\ draining /\ dialog # "error"
  /\ q # << >> /\ Head(q).kind = kind
  /\ q' = Tail(q)
  /\ UNCHANGED <<started, workerVars, draining, saved>>

ShowProgress ==
  /\ Take("progress")
  /\ label' = Head(q)
  /\ UNCHANGED <<scanning, scanButton, saveButton, report, table, dialog>>

\* _render
Render ==
  /\ Take("done")
  /\ report' = Head(q).scan /\ table' = Head(q).scan
  /\ scanning' = FALSE /\ scanButton' = TRUE /\ saveButton' = TRUE
  /\ label' = Head(q)
  /\ UNCHANGED dialog

\* Mutant of ShowError: self.scanning is not reset.
ShowErrorScanning ==
  /\ Take("error")
  /\ scanButton' = TRUE
  /\ label' = Head(q)
  /\ dialog' = "error"
  /\ UNCHANGED <<scanning, saveButton, report, table>>

\* Mutant of ShowError: the message is shown, the window left as it is.
ShowErrorOnly ==
  /\ Take("error")
  /\ label' = Head(q)
  /\ dialog' = "error"
  /\ UNCHANGED <<scanning, scanButton, saveButton, report, table>>

ShowError ==
  /\ Take("error")
  /\ scanning' = FALSE /\ scanButton' = TRUE
  /\ label' = Head(q)
  /\ dialog' = "error"
  /\ UNCHANGED <<saveButton, report, table>>

\* queue.Empty: the timer is set again.
DrainEnds ==
  /\ draining /\ dialog # "error"
  /\ q = << >>
  /\ draining' = FALSE
  /\ UNCHANGED <<started, workerVars, q, windowVars, dialog, saved>>

Drain == TimerFires \/ ShowProgress \/ Render \/ ShowError \/ DrainEnds

-----------------------------------------------------------------------------
(* _save, and the boxes *)

Save ==
  /\ Free /\ saveButton
  /\ report # None
  /\ dialog' = "save"
  /\ UNCHANGED <<started, workerVars, q, windowVars, draining, saved>>

\* A path was chosen; self.report is read now.
WriteReport ==
  /\ dialog = "save" /\ ~draining
  /\ dialog' = "none"
  /\ saved' = report
  /\ label' = Item("saved", report)
  /\ UNCHANGED <<started, workerVars, q, scanning, scanButton, saveButton, report, table, draining>>

\* A warning is read, the save cancelled or the file cannot be written.
Dismiss ==
  /\ \/ dialog \in {"warning", "save"} /\ ~draining
     \/ dialog = "error"
  /\ dialog' = "none"
  /\ UNCHANGED <<started, workerVars, q, windowVars, draining, saved>>

User == StartRefused \/ Start \/ Save \/ WriteReport \/ Dismiss

-----------------------------------------------------------------------------
Next ==
  \/ User \/ Drain
  \/ \E n \in Scans : Worker(n)

Spec == Init /\ [][Next]_vars

(***************************************************************************)
(* A scan comes to its end (Engine, Terminates), and the event loop serves *)
(* the timer. Nothing is asked of the user: while a scan runs no error box *)
(* is open that would hold the timer up.                                   *)
(***************************************************************************)
FairSpec ==
  /\ Spec
  /\ \A n \in Scans : WF_vars(PutResult(n))
  /\ WF_vars(Drain)

-----------------------------------------------------------------------------
Kinds == {"progress", "done", "error"}

\* The types of the variables; the Scan button is disabled while scanning.
TypeOK ==
  /\ started \in 0 .. MaxScans
  /\ wpc \in [Scans -> {"none", "scan", "end"}]
  /\ progress \in [Scans -> 0 .. MaxProgress]
  /\ q \in Seq([kind : Kinds, scan : Scans])
  /\ scanButton \in BOOLEAN /\ scanning = ~scanButton
  /\ saveButton \in BOOLEAN /\ draining \in BOOLEAN
  /\ {report, table, saved} \subseteq Scans \cup {None}
  /\ label \in [kind : Kinds \cup {"ready", "starting", "saved"}, scan : Scans \cup {None}]
  /\ dialog \in {"none", "warning", "save", "error"}

\* The window never shows an earlier scan's findings or messages for those of
\* the scan started last, whatever is still in the queue: there is one worker
\* at a time, and its result the last thing it puts. (_start, gui.py:158 and
\* 175-183, and _drain.)
LatestShown ==
  /\ table \in {None, started}
  /\ scanning => table = None
  /\ label.scan = started
  /\ \A i \in DOMAIN q : q[i].scan = started
  /\ q # << >> => scanning

\* What is written to a file is the report whose findings the table shows, that
\* of the scan started last. (_save, gui.py:269-281; a failed scan leaves the
\* report of the one before in self.report.)
SavedIsShown == [][saved' # saved => saved' = table /\ table = started]_vars

\* A scan that was started ends, and the window can start the next one, also
\* when run_scan raises. (_worker and _drain, gui.py:187-215.)
WindowRecovers == scanning ~> ~scanning /\ scanButton
=============================================================================
