----------------------------- MODULE ScanStore -----------------------------
(***************************************************************************)
(* The scan registry of the web interface (web/store.py) with its reports  *)
(* directory: the thread of each scan and the requests that list the       *)
(* scans. The server may be killed and started again at any moment: the    *)
(* registry is lost, a file being written stays half-written.              *)
(*                                                                         *)
(* What happens inside one record (its log, its streams, its lock) is the  *)
(* subject of ScanRecord; here a record is its status and its report.      *)
(***************************************************************************)
EXTENDS Naturals, Sequences, FiniteSets

CONSTANTS
  Scans,       \* scan ids; start never makes the same twice
  Pages,       \* the pages open in a browser
  Limit,       \* list_recent's limit
  MaxRestarts  \* bound: how often the server is killed

ASSUME LimitAssumption == Limit \in Nat \ {0}
ASSUME RestartAssumption == MaxRestarts \in Nat

VARIABLES
  started,   \* the ids handed out so far
  registry,  \* store._scans: the records of this server process
  status,    \* status[s]: record.status
  report,    \* report[s]: record.report is not None
  wpc,       \* wpc[s]: where the thread of s is in _run
  file,      \* file[s]: its file in the reports directory
  restarts,  \* how often the server was killed
  finished,  \* the scans that ever had status "done", which anyone may know
  lpc,       \* lpc[p]: where list_recent for page p is
  live,      \* live[p]: the records it found in the registry
  left,      \* left[p]: the summaries or files it has still to read
  out,       \* out[p]: the entries so far
  known,     \* known[p]: finished, when it was called
  history    \* history[p]: the entries page p shows

storeVars == <<started, registry, status, report, wpc, finished>>
diskVars  == <<file, restarts>>
listVars  == <<lpc, live, left, out, known, history>>
storeState == <<storeVars, diskVars, listVars>>

Entry(s, st) == [id |-> s, status |-> st]
Entries(l) == {l[i] : i \in DOMAIN l}

Init ==
  /\ started = {} /\ registry = {} /\ finished = {}
  /\ status = [s \in Scans |-> "running"]
  /\ report = [s \in Scans |-> FALSE]
  /\ wpc = [s \in Scans |-> "none"]
  /\ file = [s \in Scans |-> "absent"]
  /\ restarts = 0
  /\ lpc = [p \in Pages |-> "idle"]
  /\ live = [p \in Pages |-> {}]
  /\ left = [p \in Pages |-> {}]
  /\ out = [p \in Pages |-> << >>]
  /\ known = [p \in Pages |-> {}]
  /\ history = [p \in Pages |-> << >>]

-----------------------------------------------------------------------------
(* start, and the thread it starts *)

Goto(s, pc) == wpc' = [wpc EXCEPT ![s] = pc]

Start(s) ==
  /\ s \notin started
  /\ started' = started \cup {s}
  /\ registry' = registry \cup {s}
  /\ Goto(s, "scan")
  /\ UNCHANGED <<status, report, finished, diskVars, listVars>>

ScanReturns(s) ==
  /\ wpc[s] = "scan"
  /\ report' = [report EXCEPT ![s] = TRUE]
  /\ Goto(s, "open")
  /\ UNCHANGED <<started, registry, status, finished, diskVars, listVars>>

\* The scope is malformed or empty, or run_scan raises.
ScanFails(s) ==
  /\ wpc[s] = "scan"
  /\ Goto(s, "fail")
  /\ UNCHANGED <<started, registry, status, report, finished, diskVars, listVars>>

\* _persist opens the file, which is then there, but empty ...
OpenFile(s) ==
  /\ wpc[s] = "open"
  /\ file' = [file EXCEPT ![s] = "partial"]
  /\ Goto(s, "write")
  /\ UNCHANGED <<started, registry, status, report, finished, restarts, listVars>>

\* ... and is whole once it is closed.
WriteFile(s) ==
  /\ wpc[s] = "write"
  /\ file' = [file EXCEPT ![s] = "complete"]
  /\ Goto(s, "finish")
  /\ UNCHANGED <<started, registry, status, report, finished, restarts, listVars>>

\* Mutant of PersistFails: the error is swallowed.
PersistFailsUnseen(s) ==
  /\ wpc[s] \in {"open", "write"}
  /\ Goto(s, "finish")
  /\ UNCHANGED <<started, registry, status, report, finished, diskVars, listVars>>

\* Opening or writing raises: what was written stays.
PersistFails(s) ==
  /\ wpc[s] \in {"open", "write"}
  /\ Goto(s, "fail")
  /\ UNCHANGED <<started, registry, status, report, finished, diskVars, listVars>>

FinishDone(s) ==
  /\ wpc[s] = "finish"
  /\ status' = [status EXCEPT ![s] = "done"]
  /\ finished' = finished \cup {s}
  /\ Goto(s, "end")
  /\ UNCHANGED <<started, registry, report, diskVars, listVars>>

FinishError(s) ==
  /\ wpc[s] = "fail"
  /\ status' = [status EXCEPT ![s] = "error"]
  /\ Goto(s, "end")
  /\ UNCHANGED <<started, registry, report, finished, diskVars, listVars>>

Worker(s) ==
  \/ ScanReturns(s) \/ ScanFails(s) \/ OpenFile(s) \/ WriteFile(s)
  \/ PersistFails(s) \/ FinishDone(s) \/ FinishError(s)

-----------------------------------------------------------------------------
(* list_recent, for the history sidebar (loadHistory) *)

\* The snapshot of the registry, under the store's lock.
BeginList(p) ==
  /\ lpc[p] = "idle"
  /\ lpc' = [lpc EXCEPT ![p] = "live"]
  /\ live' = [live EXCEPT ![p] = registry]
  /\ left' = [left EXCEPT ![p] = registry]
  /\ out' = [out EXCEPT ![p] = << >>]
  /\ known' = [known EXCEPT ![p] = finished]
  /\ UNCHANGED <<storeVars, diskVars, history>>

\* One summary of live[:limit]. (created_at has a resolution of a second: the
\* order of scans started together is any, and any order is allowed here.)
ListRecord(p, s) ==
  /\ lpc[p] = "live"
  /\ s \in left[p] /\ Len(out[p]) < Limit
  /\ out' = [out EXCEPT ![p] = Append(@, Entry(s, status[s]))]
  /\ left' = [left EXCEPT ![p] = @ \ {s}]
  /\ UNCHANGED <<storeVars, diskVars, lpc, live, known, history>>

\* Mutant of ListDirectory: the files are read only when nothing is in memory.
ListDirectoryIfEmpty(p) ==
  /\ lpc[p] = "live"
  /\ left[p] = {} \/ Len(out[p]) >= Limit
  /\ IF out[p] = << >>
     THEN /\ lpc' = [lpc EXCEPT ![p] = "disk"]
          /\ left' = [left EXCEPT ![p] = {s \in Scans : file[s] # "absent"}]
     ELSE /\ lpc' = [lpc EXCEPT ![p] = "answer"]
          /\ left' = [left EXCEPT ![p] = {}]
  /\ UNCHANGED <<storeVars, diskVars, live, out, known, history>>

\* With room left, the files that are in the directory now.
ListDirectory(p) ==
  /\ lpc[p] = "live"
  /\ left[p] = {} \/ Len(out[p]) >= Limit
  /\ IF Len(out[p]) < Limit
     THEN /\ lpc' = [lpc EXCEPT ![p] = "disk"]
          /\ left' = [left EXCEPT ![p] = {s \in Scans : file[s] # "absent"}]
     ELSE /\ lpc' = [lpc EXCEPT ![p] = "answer"]
          /\ left' = [left EXCEPT ![p] = {}]
  /\ UNCHANGED <<storeVars, diskVars, live, out, known, history>>

\* Mutant of ListFile: the ids already listed are not skipped.
ListFileAgain(p, s) ==
  /\ lpc[p] = "disk"
  /\ s \in left[p] /\ Len(out[p]) < Limit
  /\ out' = IF file[s] = "partial" THEN out ELSE [out EXCEPT ![p] = Append(@, Entry(s, "done"))]
  /\ left' = [left EXCEPT ![p] = @ \ {s}]
  /\ UNCHANGED <<storeVars, diskVars, lpc, live, known, history>>

\* Mutant of ListFile: one entry more than the limit.
ListFileOneMore(p, s) ==
  /\ lpc[p] = "disk"
  /\ s \in left[p] /\ Len(out[p]) <= Limit
  /\ out' = IF s \in live[p] \/ file[s] = "partial" THEN out
            ELSE [out EXCEPT ![p] = Append(@, Entry(s, "done"))]
  /\ left' = [left EXCEPT ![p] = @ \ {s}]
  /\ UNCHANGED <<storeVars, diskVars, lpc, live, known, history>>

\* One file: skipped when its record was in the snapshot, or when it does not
\* parse. A persisted report is listed as done.
ListFile(p, s) ==
  /\ lpc[p] = "disk"
  /\ s \in left[p] /\ Len(out[p]) < Limit
  /\ out' = IF s \in live[p] \/ file[s] = "partial" THEN out
            ELSE [out EXCEPT ![p] = Append(@, Entry(s, "done"))]
  /\ left' = [left EXCEPT ![p] = @ \ {s}]
  /\ UNCHANGED <<storeVars, diskVars, lpc, live, known, history>>

\* The page shows the list.
EndList(p) ==
  /\ \/ lpc[p] = "answer"
     \/ lpc[p] = "disk" /\ (left[p] = {} \/ Len(out[p]) >= Limit)
  /\ history' = [history EXCEPT ![p] = out[p]]
  /\ lpc' = [lpc EXCEPT ![p] = "shown"]
  /\ left' = [left EXCEPT ![p] = {}]
  /\ live' = [live EXCEPT ![p] = {}]
  /\ UNCHANGED <<storeVars, diskVars, out, known>>

\* Nothing of the last request is left when the next one is made.
Reload(p) ==
  /\ lpc[p] = "shown"
  /\ lpc' = [lpc EXCEPT ![p] = "idle"]
  /\ out' = [out EXCEPT ![p] = << >>]
  /\ known' = [known EXCEPT ![p] = {}]
  /\ UNCHANGED <<storeVars, diskVars, live, left, history>>

List(p) ==
  \/ BeginList(p) \/ ListDirectory(p) \/ EndList(p) \/ Reload(p)
  \/ \E s \in Scans : ListRecord(p, s) \/ ListFile(p, s)

-----------------------------------------------------------------------------
\* The server is killed and started again: the threads (daemons) die where
\* they are, the registry is empty, requests under way fail; files and what
\* the pages show stay.
Restart ==
  /\ restarts < MaxRestarts
  /\ restarts' = restarts + 1
  /\ registry' = {}
  /\ status' = [s \in Scans |-> "running"]
  /\ report' = [s \in Scans |-> FALSE]
  /\ wpc' = [s \in Scans |-> "none"]
  /\ lpc' = [p \in Pages |-> IF lpc[p] = "shown" THEN "shown" ELSE "idle"]
  /\ live' = [p \in Pages |-> {}]
  /\ left' = [p \in Pages |-> {}]
  /\ out' = [p \in Pages |-> IF lpc[p] = "shown" THEN out[p] ELSE << >>]
  /\ known' = [p \in Pages |-> IF lpc[p] = "shown" THEN known[p] ELSE {}]
  /\ UNCHANGED <<started, finished, file, history>>

Next ==
  \/ \E s \in Scans : Start(s) \/ Worker(s)
  \/ \E p \in Pages : List(p)
  \/ Restart

Spec == Init /\ [][Next]_storeState

-----------------------------------------------------------------------------
Statuses == {"running", "done", "error"}
EntryType == [id : Scans, status : Statuses]
WorkerPCs == {"none", "scan", "open", "write", "finish", "fail", "end"}

\* The types of the variables; a listing is never longer than the limit.
TypeOK ==
  /\ registry \subseteq started /\ started \subseteq Scans /\ finished \subseteq started
  /\ status \in [Scans -> Statuses]
  /\ report \in [Scans -> BOOLEAN]
  /\ wpc \in [Scans -> WorkerPCs]
  /\ file \in [Scans -> {"absent", "partial", "complete"}]
  /\ restarts \in 0 .. MaxRestarts
  /\ lpc \in [Pages -> {"idle", "live", "disk", "answer", "shown"}]
  /\ live \in [Pages -> SUBSET Scans] /\ left \in [Pages -> SUBSET Scans]
  /\ known \in [Pages -> SUBSET Scans]
  /\ \A p \in Pages : /\ Entries(out[p]) \subseteq EntryType /\ Len(out[p]) <= Limit
                      /\ Entries(history[p]) \subseteq EntryType /\ Len(history[p]) <= Limit

\* What anyone was told is done is complete on disk, now and after any crash:
\* the scans that finished, and those a page shows as done. (_run persists
\* before it finishes, store.py:117-119; list_recent skips what does not
\* parse, 145-148.)
DoneIsDurable ==
  /\ \A s \in finished : file[s] = "complete"
  /\ \A p \in Pages : \A e \in Entries(history[p]) :
       e.status = "done" => file[e.id] = "complete"

\* No scan is listed twice, although a scan may start, finish and be persisted
\* while the list is put together. (store.py:137-144.)
ListedOnce ==
  \A p \in Pages : \A i, j \in DOMAIN history[p] :
    history[p][i].id = history[p][j].id => i = j

\* A scan that was done when the list was asked for is in it, as done, unless
\* the list is full, whatever starts, finishes or is killed meanwhile.
\* (list_recent, store.py:136-157.)
DoneStaysListed ==
  \A p \in Pages :
    lpc[p] = "shown" /\ Len(out[p]) < Limit =>
      \A s \in known[p] : Entry(s, "done") \in Entries(out[p])
=============================================================================
