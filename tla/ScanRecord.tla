----------------------------- MODULE ScanRecord -----------------------------
(***************************************************************************)
(* One scan record of the web interface (web/store.py): the worker thread  *)
(* that runs the scan (ScanStore._run), the Server-Sent-Events requests    *)
(* that watch it (scan_events in web/app.py) and the status requests that  *)
(* read it without a lock (scan_status).                                   *)
(*                                                                         *)
(* emit, subscribe and finish hold the record's lock; every step they take *)
(* under it is a step of its own here, so that the readers, who never take *)
(* the lock to read their queue or the record's fields, run in between.    *)
(***************************************************************************)
EXTENDS Naturals, Sequences

CONSTANTS Streams,    \* the requests for the record's event stream
          Polls,      \* the requests for the record's summary
          Messages,   \* the progress messages run_scan emits
          Failure,    \* the message the failure branches of _run emit
          End,        \* None, the sentinel that ends a queue
          MaxEvents   \* bound: messages emitted before the scan ends

AllMessages == Messages \cup {Failure}

ASSUME SentinelAssumption == End \notin AllMessages
ASSUME BoundAssumption == MaxEvents \in Nat

VARIABLES
  lock,         \* who holds record._lock
  events,       \* record.events
  subscribers,  \* record._subscribers
  status,       \* record.status
  error,        \* _run has set record.error
  report,       \* record.report is not None
  file,         \* its file in the reports directory
  wpc,          \* where the worker thread is in _run
  pending,      \* the subscribers the worker's loop has still to put to
  queue,        \* queue[s]: the queue of stream s
  spc,          \* where the request for stream s is
  received,     \* received[s]: the data events sent to the page
  sent,         \* sent[s]: the summary sent with the "done" event
  ppc,          \* where status request p is
  answer        \* answer[p]: the fields it has read so far

recordVars == <<lock, events, subscribers, status>>
workVars   == <<error, report, file, wpc, pending>>
streamVars == <<queue, spc, received, sent>>
pollVars   == <<ppc, answer>>
vars == <<recordVars, workVars, streamVars, pollVars>>

Free   == "free"
Worker == "worker"
ASSUME HolderAssumption == Streams \cap {Free, Worker} = {}

Statuses == {"running", "done", "error"}
Summary == [status : Statuses, error : BOOLEAN, counts : BOOLEAN]
NoSummary == [status |-> "running", error |-> FALSE, counts |-> FALSE]

\* Mutant of Acquire: emit, subscribe and finish without "with self._lock".
AcquireNoLock(p) == lock' = p

Acquire(p) == lock = Free /\ lock' = p
Release == lock' = Free

Init ==
  /\ lock = Free
  /\ events = << >>
  /\ subscribers = {}
  /\ status = "running"
  /\ error = FALSE
  /\ report = FALSE
  /\ file = "absent"
  /\ wpc = "parse"
  /\ pending = {}
  /\ queue = [s \in Streams |-> << >>]
  /\ spc = [s \in Streams |-> "new"]
  /\ received = [s \in Streams |-> << >>]
  /\ sent = [s \in Streams |-> NoSummary]
  /\ ppc = [p \in Polls |-> "status"]
  /\ answer = [p \in Polls |-> NoSummary]

-----------------------------------------------------------------------------
(* The worker thread: _run *)

\* The scope text is malformed, or allows nothing.
ScopeRejected ==
  /\ wpc = "parse"
  /\ error' = TRUE
  /\ wpc' = "fail"
  /\ UNCHANGED <<recordVars, report, file, pending, streamVars, pollVars>>

ScopeAccepted ==
  /\ wpc = "parse"
  /\ wpc' = "scan"
  /\ UNCHANGED <<recordVars, error, report, file, pending, streamVars, pollVars>>

\* The first half of emit: append to the log, start the loop over the queues.
\* The order of that loop is not kept: each put touches one queue.
BeginEmit(m, loop) ==
  /\ Acquire(Worker)
  /\ events' = Append(events, m)
  /\ pending' = subscribers
  /\ wpc' = loop
  /\ UNCHANGED <<subscribers, status, error, report, file, streamVars, pollVars>>

EmitProgress(m) == wpc = "scan" /\ Len(events) < MaxEvents /\ BeginEmit(m, "putProgress")

EmitFailure == wpc = "fail" /\ BeginEmit(Failure, "putFailure")

Put(s) ==
  /\ wpc \in {"putProgress", "putFailure"}
  /\ s \in pending
  /\ queue' = [queue EXCEPT ![s] = Append(@, events[Len(events)])]
  /\ pending' = pending \ {s}
  /\ UNCHANGED <<recordVars, error, report, file, wpc, spc, received, sent, pollVars>>

EndEmit ==
  /\ wpc \in {"putProgress", "putFailure"}
  /\ pending = {}
  /\ Release
  /\ wpc' = IF wpc = "putProgress" THEN "scan" ELSE "finishError"
  /\ UNCHANGED <<events, subscribers, status, error, report, file, pending, streamVars, pollVars>>

\* Mutant of ScanReturns: finish() is called before the report is persisted.
ScanReturnsUnsaved ==
  /\ wpc = "scan"
  /\ report' = TRUE
  /\ wpc' = "finishDone"
  /\ UNCHANGED <<recordVars, error, file, pending, streamVars, pollVars>>

\* Mutant of ScanReturns: record.report is not set once the scan returns.
ScanReturnsNoReport ==
  /\ wpc = "scan"
  /\ wpc' = "persist"
  /\ UNCHANGED <<recordVars, error, report, file, pending, streamVars, pollVars>>

ScanReturns ==
  /\ wpc = "scan"
  /\ report' = TRUE
  /\ wpc' = "persist"
  /\ UNCHANGED <<recordVars, error, file, pending, streamVars, pollVars>>

\* _persist: the file is there once it is opened, but whole only when closed.
OpenFile ==
  /\ wpc = "persist"
  /\ file' = "partial"
  /\ wpc' = "write"
  /\ UNCHANGED <<recordVars, error, report, pending, streamVars, pollVars>>

WriteFile ==
  /\ wpc = "write"
  /\ file' = "complete"
  /\ wpc' = "finishDone"
  /\ UNCHANGED <<recordVars, error, report, pending, streamVars, pollVars>>

\* Mutant of ScanRaises: an error of _persist is logged and forgotten.
ScanRaisesUnseen ==
  /\ wpc \in {"scan", "persist", "write"}
  /\ error' = (wpc = "scan")
  /\ wpc' = IF wpc = "scan" THEN "fail" ELSE "finishDone"
  /\ UNCHANGED <<recordVars, report, file, pending, streamVars, pollVars>>

\* run_scan or _persist raised: the except branch of _run. What was written
\* of the file stays.
ScanRaises ==
  /\ wpc \in {"scan", "persist", "write"}
  /\ error' = TRUE
  /\ wpc' = "fail"
  /\ UNCHANGED <<recordVars, report, file, pending, streamVars, pollVars>>

\* finish: set the status, put the sentinel to every queue, forget the queues.
BeginFinish ==
  /\ wpc \in {"finishDone", "finishError"}
  /\ Acquire(Worker)
  /\ status' = IF wpc = "finishDone" THEN "done" ELSE "error"
  /\ pending' = subscribers
  /\ wpc' = "putEnd"
  /\ UNCHANGED <<events, subscribers, error, report, file, streamVars, pollVars>>

PutEnd(s) ==
  /\ wpc = "putEnd"
  /\ s \in pending
  /\ queue' = [queue EXCEPT ![s] = Append(@, End)]
  /\ pending' = pending \ {s}
  /\ UNCHANGED <<recordVars, error, report, file, wpc, spc, received, sent, pollVars>>

EndFinish ==
  /\ wpc = "putEnd"
  /\ pending = {}
  /\ subscribers' = {}
  /\ Release
  /\ wpc' = "end"
  /\ UNCHANGED <<events, status, error, report, file, pending, streamVars, pollVars>>

WorkerStep ==
  \/ ScopeRejected \/ ScopeAccepted \/ EmitFailure \/ EndEmit
  \/ ScanReturns \/ OpenFile \/ WriteFile \/ ScanRaises \/ BeginFinish \/ EndFinish
  \/ \E m \in Messages : EmitProgress(m)
  \/ \E s \in Streams : Put(s) \/ PutEnd(s)

-----------------------------------------------------------------------------
(* A request for the event stream: subscribe, then stream() in web/app.py *)

\* Mutant of Subscribe: the history is not replayed.
SubscribeNoReplay(s) ==
  /\ spc[s] = "new"
  /\ Acquire(s)
  /\ spc' = [spc EXCEPT ![s] = "register"]
  /\ UNCHANGED <<events, subscribers, status, workVars, queue, received, sent, pollVars>>

\* Under the lock: replay what was emitted before the stream was opened ...
Subscribe(s) ==
  /\ spc[s] = "new"
  /\ Acquire(s)
  /\ queue' = [queue EXCEPT ![s] = events]
  /\ spc' = [spc EXCEPT ![s] = "register"]
  /\ UNCHANGED <<events, subscribers, status, workVars, received, sent, pollVars>>

\* Mutant of Register: registers whatever the status is.
RegisterAlways(s) ==
  /\ spc[s] = "register"
  /\ subscribers' = subscribers \cup {s}
  /\ Release
  /\ spc' = [spc EXCEPT ![s] = "stream"]
  /\ UNCHANGED <<events, status, workVars, queue, received, sent, pollVars>>

\* ... then register for what follows, unless nothing will.
Register(s) ==
  /\ spc[s] = "register"
  /\ \/ /\ status = "running"
        /\ subscribers' = subscribers \cup {s}
        /\ UNCHANGED queue
     \/ /\ status # "running"
        /\ queue' = [queue EXCEPT ![s] = Append(@, End)]
        /\ UNCHANGED subscribers
  /\ Release
  /\ spc' = [spc EXCEPT ![s] = "stream"]
  /\ UNCHANGED <<events, status, workVars, received, sent, pollVars>>

\* Mutant of SendMessage: stream() does not look for the sentinel.
SendAnything(s) ==
  /\ spc[s] = "stream"
  /\ queue[s] # << >>
  /\ received' = [received EXCEPT ![s] = Append(@, Head(queue[s]))]
  /\ queue' = [queue EXCEPT ![s] = Tail(@)]
  /\ UNCHANGED <<recordVars, workVars, spc, sent, pollVars>>

SendMessage(s) ==
  /\ spc[s] = "stream"
  /\ queue[s] # << >>
  /\ Head(queue[s]) # End
  /\ received' = [received EXCEPT ![s] = Append(@, Head(queue[s]))]
  /\ queue' = [queue EXCEPT ![s] = Tail(@)]
  /\ UNCHANGED <<recordVars, workVars, spc, sent, pollVars>>

TakeEnd(s) ==
  /\ spc[s] = "stream"
  /\ queue[s] # << >>
  /\ Head(queue[s]) = End
  /\ queue' = [queue EXCEPT ![s] = Tail(@)]
  /\ spc' = [spc EXCEPT ![s] = "summary"]
  /\ UNCHANGED <<recordVars, workVars, received, sent, pollVars>>

\* The "done" event carries record.summary(), read without the lock.
SendDone(s) ==
  /\ spc[s] = "summary"
  /\ sent' = [sent EXCEPT ![s] = [status |-> status, error |-> error, counts |-> report]]
  /\ spc' = [spc EXCEPT ![s] = "closed"]
  /\ UNCHANGED <<recordVars, workVars, queue, received, pollVars>>

\* The page goes away. Nothing unsubscribes its queue.
Disconnect(s) ==
  /\ spc[s] = "stream"
  /\ spc' = [spc EXCEPT ![s] = "gone"]
  /\ UNCHANGED <<recordVars, workVars, queue, received, sent, pollVars>>

ServeStream(s) ==
  Subscribe(s) \/ Register(s) \/ SendMessage(s) \/ TakeEnd(s) \/ SendDone(s)

-----------------------------------------------------------------------------
(* A status request: summary() reads the fields one after the other *)

ReadStatus(p) ==
  /\ ppc[p] = "status"
  /\ answer' = [answer EXCEPT ![p].status = status]
  /\ ppc' = [ppc EXCEPT ![p] = "error"]
  /\ UNCHANGED <<recordVars, workVars, streamVars>>

ReadError(p) ==
  /\ ppc[p] = "error"
  /\ answer' = [answer EXCEPT ![p].error = error]
  /\ ppc' = [ppc EXCEPT ![p] = "report"]
  /\ UNCHANGED <<recordVars, workVars, streamVars>>

ReadReport(p) ==
  /\ ppc[p] = "report"
  /\ answer' = [answer EXCEPT ![p].counts = report]
  /\ ppc' = [ppc EXCEPT ![p] = "answered"]
  /\ UNCHANGED <<recordVars, workVars, streamVars>>

Poll(p) == ReadStatus(p) \/ ReadError(p) \/ ReadReport(p)

-----------------------------------------------------------------------------
\* Everything has run: a stutter, so that TLC reports any other stop.
Finished ==
  /\ wpc = "end"
  /\ \A s \in Streams : spc[s] \in {"closed", "gone"}
  /\ \A p \in Polls : ppc[p] = "answered"
  /\ UNCHANGED vars

Next ==
  \/ WorkerStep
  \/ \E s \in Streams : ServeStream(s) \/ Disconnect(s)
  \/ \E p \in Polls : Poll(p)
  \/ Finished

(***************************************************************************)
(* The worker and each opened stream are threads the system schedules; a   *)
(* page decides for itself whether to open a stream, to poll or to leave.  *)
(* Weak fairness is enough for the lock too: it is held for finitely many  *)
(* steps, finitely often.                                                  *)
(***************************************************************************)
Fairness ==
  /\ WF_vars(WorkerStep)
  /\ \A s \in Streams : WF_vars(ServeStream(s) /\ spc[s] # "new")

Spec == Init /\ [][Next]_vars
FairSpec == Spec /\ Fairness

-----------------------------------------------------------------------------
WorkerPCs == {"parse", "scan", "fail", "persist", "write", "finishDone", "finishError",
              "putProgress", "putFailure", "putEnd", "end"}
FileStates == {"absent", "partial", "complete"}
StreamPCs == {"new", "register", "stream", "summary", "closed", "gone"}
PollPCs   == {"status", "error", "report", "answered"}

\* The types of the variables; a queue holds messages and the sentinel, what
\* the page was sent holds messages only.
TypeOK ==
  /\ lock \in {Free, Worker} \cup Streams
  /\ events \in Seq(AllMessages)
  /\ subscribers \subseteq Streams
  /\ status \in Statuses
  /\ error \in BOOLEAN /\ report \in BOOLEAN /\ file \in FileStates
  /\ wpc \in WorkerPCs
  /\ pending \subseteq Streams
  /\ queue \in [Streams -> Seq(AllMessages \cup {End})]
  /\ spc \in [Streams -> StreamPCs]
  /\ received \in [Streams -> Seq(AllMessages)]
  /\ sent \in [Streams -> Summary]
  /\ ppc \in [Polls -> PollPCs]
  /\ answer \in [Polls -> Summary]

\* What a stream was sent and what waits in its queue is the record's log,
\* whole: nothing lost between the replay and the registration, nothing
\* twice. A put of the worker's loop that has not happened yet is the only
\* thing that may be missing; after the end the sentinel follows, once.
\* (emit, subscribe and finish, store.py:42-64.)
ExactStream ==
  \A s \in Streams :
    LET held == received[s] \o queue[s] IN
    spc[s] \in {"stream", "gone"} =>
      IF status = "running"
      THEN IF s \in pending THEN Append(held, events[Len(events)]) = events
                            ELSE held = events
      ELSE held = IF s \in pending THEN events ELSE Append(events, End)

\* A page that is told the scan is over has been sent every message, and the
\* summary it gets is final: not "running", an error with its text set, "done"
\* only with the report in memory and its file complete, so that the request
\* for the report that follows finds it. (finish store.py:59-64, _run 93-123,
\* stream() app.py:100-107, the "done" handler app.js:154-164.)
DoneIsFinal ==
  \A s \in Streams :
    spc[s] = "closed" =>
      /\ received[s] = events
      /\ sent[s].status = status /\ status # "running"
      /\ sent[s].status = "done" => sent[s].counts /\ file = "complete"
      /\ sent[s].status = "error" => sent[s].error

\* The lock-free summary of a status request may mix two moments of the scan,
\* but never so that a finished scan lacks its counts or a failed one its
\* error: _run sets both before the status, summary() reads them after it.
\* (store.py:66-74, 93-123.)
PollConsistent ==
  \A p \in Polls :
    ppc[p] = "answered" =>
      /\ answer[p].status = "done" => answer[p].counts /\ ~answer[p].error
      /\ answer[p].status = "error" => answer[p].error

\* The record implements the abstract event stream: a stream's messages are
\* the log's, in order, each once, and its end comes after all of them.
Stream == INSTANCE EventStream WITH
  Messages <- AllMessages,
  log <- events,
  closed <- (status # "running"),
  seen <- received,
  ended <- [s \in Streams |-> spc[s] \in {"summary", "closed"}]

StreamSpec == Stream!Spec

\* What ScanStore sees of the record: its status, its report, its file. Its
\* thread has these points only, and a registry of this scan alone; nobody
\* lists it and the server is not killed.
Ours == "this scan"
StorePC ==
  CASE wpc \in {"parse", "scan", "putProgress"}        -> "scan"
    [] wpc = "persist"                                 -> "open"
    [] wpc = "write"                                   -> "write"
    [] wpc = "finishDone"                              -> "finish"
    [] wpc \in {"fail", "putFailure", "finishError"}   -> "fail"
    [] wpc \in {"putEnd", "end"}                       -> "end"

Store == INSTANCE ScanStore WITH
  Scans <- {Ours}, Pages <- {}, Limit <- 1, MaxRestarts <- 0,
  started <- {Ours}, registry <- {Ours},
  status <- [s \in {Ours} |-> status],
  report <- [s \in {Ours} |-> report],
  wpc <- [s \in {Ours} |-> StorePC],
  file <- [s \in {Ours} |-> file],
  finished <- IF status = "done" THEN {Ours} ELSE {},
  restarts <- 0,
  lpc <- << >>, live <- << >>, left <- << >>, out <- << >>, known <- << >>, history <- << >>

\* The record's thread is the one ScanStore reduces it to: with its lock, its
\* loops and its failure branches it does, as ScanStore sees it, what Worker
\* does there after Start, a step or nothing at a time. So what ScanStore says
\* of crashes between two steps, and of the files they leave, holds of the
\* thread in full. (_run and _persist, store.py:93-130.)
WorkerAsStored ==
  /\ status = "running" /\ ~report /\ file = "absent" /\ StorePC = "scan"
  /\ [][Store!Worker(Ours)]_Store!storeState

\* Every stream whose page stays is ended, whenever it was opened and however
\* the scan ends (an exception included): no watcher waits forever on a queue
\* nobody will put to.
EveryStreamEnds ==
  \A s \in Streams : spc[s] = "register" ~> spc[s] \in {"closed", "gone"}
=============================================================================
