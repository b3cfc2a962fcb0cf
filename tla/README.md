# TLA+ specifications of vulnscope

vulnscope is a non-intrusive vulnerability scanner in Python: an engine that
checks targets under a fail-closed scope policy, driven from a command line, a
desktop window or a web interface. This directory models it in TLA+,
model-checks small instances with TLC and proves the central properties for
every instance with TLAPS. `PROJECT.json` lists the runs, the mutants that show
each property can fail, and for every definition the source lines it translates.

Paths below are relative to the repository; `store.py`, `app.py` and `app.js`
are `vulnscope/web/store.py`, `vulnscope/web/app.py`, `vulnscope/web/static/app.js`.

    tlc -config Engine.cfg MCEngine.tla            # any run: its cfg and its module
    tlapm EngineProofs.tla                         # the proofs of one component

## The system

| Part | State | Operations | Talks to |
|---|---|---|---|
| Scope (`scope.py`) | the allow and deny sets of one file | `from_lines`, `is_empty`, `guard` | the name service |
| Engine (`engine.py`) | the report, `port_checker.discovered` | `run_scan` | guard, the checkers, the `on_event` callback |
| Checkers (`checkers/*.py`) | none, but `discovered` of the port checker; the sweep's threads | `run`, a generator of findings | one vetted address; the DNS checker a public resolver |
| DNS client (`dnsclient.py`) | a socket for each attempt | `query`, `_parse_response`, `_decode_name` | two resolvers, over UDP |
| Findings (`findings.py`), rendering (`reporting.py`) | the findings and errors of a run | `add`, `by_severity`, `counts`, `worst`; text, JSON, HTML | |
| Scan record (`store.py`) | log, status, error, report, subscriber queues, a lock | `emit`, `subscribe`, `finish`, `summary` | its worker thread, a thread for each event stream |
| Scan store (`store.py`) | the registry, a directory of report files | `start`, `_run`, `_persist`, `get`, `list_recent`, `load_report_*` | a thread for each scan; the HTTP handlers |
| HTTP API (`app.py`) | none | seven routes, the event stream's generator | the store; threads of the server's pool |
| Web page (`app.js`) | `currentScanId`, `currentSource`, `currentReport`, the view | `openScan`, `watchEvents`, `loadReport`, the form | the API, several requests at once |
| Desktop window (`gui.py`) | `scanning`, `report`, the widgets, a queue | `_start`, `_worker`, `_drain`, `_render`, `_save` | a worker thread, through the queue |
| Command line (`__main__.py`) | none | read the files, one `run_scan`, print, write, an exit code | the engine; a pipeline that reads the code |
| Launchers (`scan.ps1`, `web/__main__.py`) | none | ask for arguments, start one of the above | |

What makes it hard, and what would make each part correct:

- **Scan record.** Three kinds of thread meet in it: the worker that emits, the
  streams that subscribe, the status requests that take no lock. No stream may
  lose or repeat a message or wait for ever for its end, whenever it is opened;
  a page that is told "done" asks for the report at once.
- **Store.** Scans start and end while the list is put together; the server can
  be killed in the middle of a write. What was called done must be whole on
  disk and stay listed.
- **Engine and scope.** The name service may answer differently each time; a
  checker may raise after half its findings. Every connection must go to an
  address that the policy permits *for the target it is made for*; no target
  may be passed over in silence; no port may leak from one target to the next.
- **Checkers.** The sweep has a thread for each port, and any of them may fail
  alone; an answer must count for the port it came from, and no thread may still
  connect once the engine has gone on. A DNS answer may come late, when another
  question is being asked with the same transaction id; its names may point in
  circles. A certificate that does not verify is looked at in a second handshake,
  which may fail in its turn. One dropped HTTP request must not hide the rest.
- **Command line.** A pipeline sees nothing but the exit code: a refused argument,
  an exception that leaves `main` or a failed write must not be read as "nothing
  found", nor "critical" be lost. What fails inside of the scan is in the report
  and not in the code: `main` does not look at `report.errors`.
- **Web page.** `openScan` waits for two answers, and nothing cancels it when
  the user clicks again.
- **Desktop window.** Results come through a queue that a timer drains, dialog
  boxes run an event loop of their own.

Every hazard found, at its line, with the properties that cover it or the
reason none does, is in `PROJECT.json` under `hazards`.

## The modules

| Module | Models | Extends / instantiates |
|---|---|---|
| `EventStream` | abstract: a log that grows and closes, streams that get it in order, once, then an end | |
| `ScanRecord` | one record with its worker, streams and status requests | instantiates `EventStream`, `ScanStore` |
| `ScanStore` | registry, reports directory, `list_recent`, kill and restart | |
| `HistoryPage` | a page that opens scans from the list, over the store | `ScanStore` |
| `Scope` | the policy and `guard`, as operators | |
| `Engine` | `run_scan` | `Scope` |
| `Findings` | the severities and the worst of a report | |
| `PortSweep` | the port checker's sweep, a thread for each port | |
| `DnsName` | reading one name of a DNS message | |
| `DnsCheck` | the DNS checker, its resolvers and the datagrams under way | `DnsName`, `Findings` |
| `TlsCheck` | the two handshakes on one port | `Findings` |
| `HttpCheck` | the probes of one HTTP port | `Findings` |
| `EngineChecks` | `run_scan` with these checkers in it | `Engine`; instantiates the four |
| `CommandLine` | `main`, from the arguments to the exit code | `EngineChecks` |
| `Browser` | overlapping `openScan` calls of one page | |
| `Gui` | the desktop window, its worker and its queue | |
| `ScanRecordProofs`, `EngineProofs`, `PortSweepProofs`, `BrowserProofs`, `GuiProofs` | the theorems | the component, `TLAPS` |
| `HistoryPageProofs` | the theorems of the store, and of the pages that open scans | `HistoryPage`, `TLAPS` |
| `CommandLineProofs` | the program implements Engine; the exit code | `CommandLine`, `EngineProofs` |
| `CheckerProofs` | the checkers, inside the program | `CommandLineProofs`; instantiates `PortSweepProofs` |
| `MCEngine`, `MCHistoryPage`, `MCCommandLine` | the instances TLC checks of these; the cfg says it all for the others | the component |

    EventStream     ScanStore --- HistoryPage            Browser      Gui
          \         /
          ScanRecord            Scope --- Engine --- EngineChecks --- CommandLine
                                                      /   |   |  \
                                 DnsName --- DnsCheck PortSweep TlsCheck HttpCheck

**ScanRecord.** Each statement under `with self._lock` that other threads can
tell apart is a step: `emit` is BeginEmit (append, start the loop), Put for each
queue, EndEmit; `subscribe` is Subscribe (replay) and Register; `finish` is
BeginFinish, PutEnd, EndFinish. `_run` is the worker's program counter `wpc`:
parse the scope, emit any number of messages, return or raise, persist, finish;
each failure branch sets the error, emits its message and finishes. `stream()`
is SendMessage, TakeEnd, SendDone; a page may Disconnect, which unsubscribes
nothing. `summary()` reads three fields in the order of the code, one a step.
Which message comes when is open; a message is a value. The order in which a
loop visits the subscribers is left open: each put touches one queue. Of
`_persist`, OpenFile and WriteFile. `Store` maps the record to a ScanStore with
this scan alone: status, report and file as they are, the worker's points
folded into the seven that ScanStore knows.

**ScanStore.** A record is reduced to its status and whether its report is
there. Writing a file is two steps, `open` truncates and closing completes, so
that a crash or an error in between leaves a partial file, which does not
parse. `list_recent` is BeginList (the snapshot under the lock), ListRecord for
each summary, ListDirectory (which files exist), ListFile for each file,
EndList. `created_at` has a resolution of one second and file times change, so
the order within a list is left open. Restart kills every thread and empties
the registry; files and what the browser shows stay. `finished` remembers the
scans that ever had status "done"; `known` what was finished when a list was
asked for.

**HistoryPage.** `openScan` asks `scan_status` (registry only), watches a
running scan, or asks for the report (`load_report_dict`: memory, else file).
FetchReport is the download link. `listed` remembers that the page showed the
scan as done.

**Scope, Engine.** An address is a value, a network a set of addresses, a name
a value with the suffixes that cover it; so parsing is abstracted to what a line
parses to, and lower-casing, which both sides of every comparison go through,
is left out. Guard is a predicate of the policy, the target and what the name
resolved to; each call of the name service is free to answer any set. A literal
range carries its addresses and, apart, what `hosts()` lists of it. In Engine,
one action for each way a handler of the loop ends: Refuse, Clear, GuardRaises;
DnsFinding, DnsReturns, DnsRaises; Sweep, PortsReturn, PortsFail (OSError),
PortsRaise (anything else); Visit, FollowUpReturns, FollowUpRaises. `contacts`
and `completed` record every connection with the target it was made for and
every checker that ran to its end. A checker here may find something or not, and
raise, as it likes: what the real ones do is in EngineChecks.

**PortSweep.** `_sweep` and `tcp_connect`: Submit for each port, a thread for
each (Begin, Answered; CannotBegin when no socket can be made, which is outside
of the `try`), Collect, Leave, which waits for all threads (the `with` block). The
code collects in the order of submission, waiting for each; Collect takes any
thread that has ended, which allows every order and so this one too. An OSError of a future is passed over, any other
exception leaves the loop (CollectRaises); `submit` itself may raise.

**DnsName, DnsCheck.** `_decode_name` byte by byte, one pass of its loop a step:
Root, Label, Pointer, and the three ways it fails (Truncated, HalfPointer, too
many pointers). DnsCheck puts four questions; `query` is Ask, Timeout or
SendFails for each resolver, then Receive. A datagram under way is an answer to
one socket: it may be lost, or come after the timeout, and is then dropped
(Discard), because each attempt opens a socket of its own. All questions carry
one transaction id and nothing compares the question of an answer, so the socket
is all that tells answers apart; that the system gives a port out again while an
answer is on its way to it is left out. An answer is whole, or a failure of the
resolver, or cut short, or not a message, which stands for every answer that
`_parse_response` refuses before it reads a name, a wrong transaction id included. Who sent a datagram is
not looked at by the code and not in the model. One name is decoded for each
answer, and the message begins with it: a pointer, an offset in the whole message
in the code, cannot reach bytes before the name here. `zone` is what is really published,
for the properties to compare.

**TlsCheck.** `_inspect` of one port: a verifying handshake, and when the
certificate is what fails, a second one that does not verify. The server may
answer the two differently. A certificate that has expired does not verify, so
it is reported as "not verified"; the branch for "expired" is for one that runs
out between the handshake and the review, and is left to the theorems, the run's
certificates being in order, expiring, or signed by themselves and trusted.

**HttpCheck.** The GET of the root, the one with a foreign Origin, one for each
sensitive path; each answered, unanswered, or raising. A response is a record of
what the five `_check` methods look at. Its body is "html" when the test of the
first 512 bytes sees that; a page for everything that the test does not see (JSON,
plain text, HTML behind a long preamble) is "text", and is reported as the file
it was asked for, critical for `/.env`: so does the code, whose test at
http.py:209 is the only guard against it, and which makes none for
`/server-status`. A GET, with all that is read of its answer, is one step: the
timeout is one for each `recv`, so a server that sends a byte at a time may hold a
GET for longer, and that is left out.

**EngineChecks, CommandLine.** The actions of Engine conjoined with those of the
checkers: DnsChecks, Sweeps, Inspect are their steps, and PortsKnown, LeavePort,
DnsEnds and the rest hand over what they found. Each checker starts from nothing
for each target or port, so its variables are reset when the engine goes on. The
report is local to `run_scan` until it returns: findings count in `weights` once
a checker is done with a port or a target. The banner checker reads once; it is
one step (ReadBanner). `main` reads its arguments and files, runs, prints,
writes the JSON and the HTML if asked, and exits; every one of these may raise,
which is exit code 1 with a traceback, as for "low" and "medium". The code is made
of the findings alone. 0, which the project's README calls clean
(`README.md:54`), is therefore also the code of a scan whose targets were all
refused, or whose checkers raised or got no answer; the report says so, and
ExitFaithful that it does (each target in it is refused, or was checked by every
checker that had a port to look at, or has the error listed), but no more.

**Browser.** A call of `openScan` has a number, which its log element and its
event source share. A status answer is computed by the server at one step and
arrives at a later one. The "done" handler and `onerror` set `currentSource` to
null whichever source it is by then, as the code does. Requests may fail, and
nothing is rendered then; the note that a scan or a report is missing, which the
code puts in the place of it, is left out.

**Gui.** The worker puts items in the queue; `_drain` takes them one at a time,
and the worker may put more in between. A dialog box keeps the user from the
window while the timer goes on, except the error box, which is opened inside
`_drain`. Starting a scan empties the table and disables the buttons but leaves
`self.report`, as in the code. That the thread starts is taken for granted.

## The runs

| Run | Instance | Shows |
|---|---|---|
| `ScanRecord` | 2 streams, 1 status request, 2 message values, 2 messages | TypeOK, ExactStream, DoneIsFinal, PollConsistent; it implements EventStream (StreamSpec) and, as its thread goes, ScanStore (WorkerAsStored); EveryStreamEnds |
| `Engine` | 4 addresses (allowed, other, denied, loopback), 2 names, a suffix, an address and a range, 3 ports, 6 calls | TypeOK, ContactsPermitted, OwnPortsOnly, EveryTargetAccounted, Terminates |
| `HistoryPage` | 3 scans, 1 page, a limit of 2, 1 restart | TypeOK, DoneIsDurable, ListedOnce, DoneStaysListed of the store, PageTypeOK, DoneReportServed |
| `Browser` | 2 scans of 1 message, 3 calls of `openScan` | TypeOK, LogOwn, ReportMatches, RunningEnds |
| `Gui` | 3 scans of 2 messages | TypeOK, LatestShown, SavedIsShown, WindowRecovers |
| `CommandLine` | a name swept for 3 ports, an address with 2 ingested ports, no target at all; 2 zones, 7 names as they come in answers, 2 pointers at most, 1 late datagram, 3 TLS versions, 3 certificates, 4 HTTP responses, 2 paths, 3 banners | MainTypeOK; FoundExact, NothingLeftBehind of the sweep; CursorExact, VerdictsTrue of DNS; FaultReported, OnlyVerifiedFields, SocketsClosed of TLS; ProbesIndependent, EachReplyItsOwn of HTTP; ExitFaithful; it implements Engine (EngineImplemented); MainEnds |

Six runs end in a violation and show where the code departs from what the
repository says of it (`findings` in `PROJECT.json` quotes the lines):

| Run | Property | What TLC shows |
|---|---|---|
| `HistoryPageOpens` | HistoryOpens | after a restart, a scan listed as done is answered 404 and cannot be opened |
| `EngineAborts` | CheckersNeverAbort | what the port checker raises besides OSError ends the whole run |
| `EngineRange` | RangeContactsAllowed | a range is accepted for one allowed address, and another one is contacted |
| `EngineIngest` | IngestedNotSwept | a target ingested with no ports is swept |
| `DnsGuess` | MissingIsMissing | a resolver that fails, or answers cut short, makes the checker report a published record as missing |
| `BrowserSelected` | SelectedShown | two overlapping openScan calls leave the page on the wrong scan |

**Why these bounds are enough.** Two streams are one in the worker's loop and
one that subscribes meanwhile; a third adds no interleaving that the two do not
have, and the theorems cover any number. Three scans with a limit of two make a
list that is cut in memory, cut on disk, or short; the restart puts a persisted
scan, a partial file and a scan of the new server side by side. In Engine the six
scope files hold each kind of rule, denials that override permissions, an
ingested target in front of one that is swept, a target with an empty list of
ports, the empty target; the last two never reach `run_scan`. Three openScan
calls on two scans give two sources open at once and one opened over them.

In CommandLine three swept ports have one thread that answers, one that fails
and one that has not begun at the same moment; of the ports found, one goes to
HTTP, one to the banner checker, one to neither but is itself critical; the
ingested address sends port 443 through TLS and then HTTP. The two zones answer
each question with what is right, and with one of its faults, of different
weights. The names hold each kind of byte in each place: a root, a label, a
pointer forwards over other data, to a pointer back, to itself, to a label
before itself, cut in half, and a label cut short. `MaxPointers` is 2 in the
place of 64, which the code only compares a count with; the circle of one
pointer is met at any limit. `MaxLate` 1 lets an answer to the question before
be under way while another one is put; two of them add no case, as each is for a
socket of its own. The four responses differ in everything that is looked at, so
an answer held against the wrong probe shows, and any of them may be dropped. The
larger calls (several targets, ranges, every kind of
scope line) are the Engine run's, which CommandLine is shown to implement.

In Engine, Calls is the only bound; elsewhere MaxEvents, MaxRestarts, MaxOpens,
MaxScans, MaxProgress and MaxLate bound counters that the code leaves free, each
in the guard of the action that counts. Symmetry is used for the scans of HistoryPage
only, which checks no liveness; scan ids are random and nothing compares them
but for equality.

Deadlock is checked in the runs of ScanRecord, Engine, HistoryPage, Gui and
CommandLine; ScanRecord, Engine and CommandLine have a stutter once everything
has ended, so any other stop is reported. A page of Browser may stop: all calls made, all answered.

**Fairness.** The worker of a scan, an opened stream and `run_scan` are threads
that the operating system schedules: weak fairness of their steps. Every
connection has a timeout and the DNS checker asks a fixed number of questions,
so a checker ends; its findings (DnsFinding) are not fair. In CommandLine the
whole program is one fair step (MainStep): every socket of every checker has a
timeout, so a step that can be taken is, and MainEnds shows that no loop of the
checkers, the name decoder's included, goes on for ever. The network is not
fair: an answer may stay away. In ScanRecord weak
fairness is enough for the lock too: it is held for finitely many steps,
finitely often. In Browser the server ends its scans and answers, the browser
delivers; clicks and failures are free. In Gui the event loop serves the timer.
Nothing is asked of a user or of a connection.

## The proofs

Every invariant and every safety refinement that a run checks is a theorem; what
is left to TLC alone is liveness. All theorems hold for every value of the
constants under the named assumptions of the modules:

- the sentinel is no message; the holders of a lock are different (ScanRecord);
- a list's limit is not 0, and the bounds of counters are numbers;
- a file's rules are of the kinds the parser makes; a range's `hosts()` lists
  some of its addresses, at least one; the swept ports are ports (Scope, Engine);
- the weights of ports, paths and banners are severities; zones and responses
  are about what the checkers know; "/" and the Origin probe are no sensitive
  paths; a certificate's fields are the three that `_inspect` looks at; a message
  is made of bytes; a port is a number other than 0 (EngineChecks).

Each inductive invariant was checked by TLC on the run of its component before
it was proved.

**ScanRecord** (`ScanRecordProofs`): TypeCorrect, StreamsExact, DoneFinal,
PollsConsistent, and ImplementsEventStream (`Spec => StreamSpec`). The inductive
invariant adds to the types four families of facts: who holds the lock and where
that thread is (a stream at "register" holds it, the worker holds it exactly in
its loops); which queues are registered and which are still pending in a loop;
what a stream that is between its replay and its registration has in its queue
(the whole log, which the lock keeps from growing); and what the worker has set
by each point of `_run` (report and file before "finishDone", error before
"finishError"). ExactStream is the core of it: it must also describe a queue in
the middle of a loop, one message or the sentinel behind. PollConsistent needs
the history of one request: each answered field is at most as new as the record.
The refinement maps the log to `events`, "closed" to `status # "running"`, an
ended stream to one past its sentinel; every other step is a stutter.
ImplementsStoredWorker (`Spec => WorkerAsStored`) goes through the same steps:
an action that moves the worker between ScanStore's points is one step there,
every other changes nothing ScanStore keeps; that `finish` is only
called on a running record (from the lock invariant) is the one fact needed.

**Store and pages** (`HistoryPageProofs`): DoneDurable, NoneListedTwice,
DoneListed, DoneServed and the types. None of the four properties is inductive:
that a done scan is whole on disk depends on what its thread did before it said
so, and a list is put together while threads go on and the server is restarted.
ThreadInv says for each point of `_run` what is in memory and on disk (the file is
partial exactly while it is written, complete from then on, and never opened
again, as an id is given out once). ListInv says for each point of `list_recent`
that what is in the answer is no longer to be read, from memory or from disk
(hence NoneListedTwice), and that what was finished when it was called is in the
answer or still to be read (hence DoneListed); the step from memory to disk is
the delicate one, for a restart in between must neither lose nor double a scan:
a record that was in the snapshot is not read from its file. OpenInv says that a
page that asks for a scan listed as done asks for one whose file is complete, and
FilesStay that no step, a kill included, takes a complete file back; so neither a
404 nor a broken file can follow. PageImplementsStore (`PageSpec => Spec`) carries
the store's theorems over to the store with its pages (StoreKeepsItsPromises).

**Engine** (`EngineProofs`): TypeCorrect, OnlyPermittedContacts, NoStalePorts,
AllAccounted. The lemma GuardPermits says that the address the engine takes from
a guard that returned is Permitted; since the arguments never change and `ip` is
set only there, it stays so until the next target, whatever the name service
answers later: this is the rebinding argument of the project's README.
AllAccounted needs, besides the accounting of the targets before `at`, what is
known of the current one at each point of the loop. Of the policy by itself:
EmptyPolicyRefuses (without a permission nothing passes), and StricterFileNarrows
(a file with no permission that another lacks, and with all of its denials, lets
`guard` return for no more targets), from which it follows that an added denial
never opens anything and that the order of the lines means nothing.

**Sweep** (`PortSweepProofs`): SweepFindsWhatAccepts and SweepLeavesNothing of
PortSweep by itself. The invariant relates the ports still to go through to what
their threads have come to: a port collected has an outcome, `swept` is exactly
the collected ports that are open, an uncollected one was at least submitted.

**Program** (`CommandLineProofs`): ImplementsEngine (`MainSpec =>
EngineImplemented`), by conjoining: each action of EngineChecks contains an
action of Engine or leaves its variables alone. So every theorem of Engine holds
of the whole program: ProgramContactsPermitted states it for the contacts.
ExitCodeFaithful rests on the lemma WorstIsWorst (the grade is that of the
heaviest finding), on the invariant of ReportInvariant: every checker only
ever yields known severities, a file once written stays whole, and `main` is past
the scan only when `run_scan` returned; and, for what the report lists, on
Engine's AllAccounted, which ImplementsEngine carries over.

**Checkers** (`CheckerProofs`), inside the program, from one target or port to the
next. The lemmas SweepMoves, TlsMoves, HttpMoves and DnsMoves say that a step of
the program is, to a checker, a step of its own, a start, the reset when the
engine goes on, or nothing; each checker then has an invariant of its own:

- SweepsExact and SweepsLeaveNothing carry over the invariant of one sweep.
- TlsInv: which handshake the loop is in (the second exactly if the first showed a
  bad certificate), which socket is open then, and that nothing is said before
  the review. HandshakesTold, FieldsVerified and SocketsAreClosed follow.
- HttpInv: the k-th reply is that of the k-th probe, so that a port is only left
  with all of them (ProbesFair); and what has been said is the union of what the
  answers so far show for their own probes (RepliesAreOwn). That it stays so needs
  that the port, on which the verdict on the root page depends, does not change
  while there are replies (VerdictKept, NothingSaid).
- DnsInv: a datagram for the socket in use can only be about the question being
  asked (each socket is opened for one question and never used again), and nothing
  has been said of a question before its turn. This is why one transaction id for
  all questions does no harm (VerdictsAreTrue).
- NameInv: until the first pointer is met, the name that begins at the decoder's
  position ends where the whole name does; from then on `end` says where
  (CursorIsExact). Where a name ends is a recursive function of its bytes, each
  value of which depends on those further on. That there is such a function
  is the lemma WireEndsExist: it is filled in from the end of the message, by
  induction over the sets of numbers (AllNumbers), which a well-founded order
  gives without the library's induction rules.
- ProgramTyped, the types of all variables at once, needs besides all of these
  TurnInv (a resolver is asked once for each question, so the sockets opened are
  at most two for each question so far), NetInv (the datagrams under way are a
  finite set), and that the next port to be visited, chosen as the least, exists.

**Web page** (`BrowserProofs`): LogIsOwn, ReportsMatch and the types. The log on the
page is right because every call of `openScan` fills a log element of its own:
CallInv says for each call, also those whose log is not shown any more, that its
element holds what its own source received, a beginning of the messages of its
own scan; ViewInv that the element shown is that of a call made for the scan it is
headed with. That the page may show another scan than the one clicked last is not
excluded by it (`BrowserSelected`).

**Desktop window** (`GuiProofs`): ShowsLatest, SavesWhatItShows (an action property)
and the types. The invariant is about the three parties at once: at most one
worker runs, the one started last, and only while the window is scanning
(WorkersInv); what is in the queue is of that scan, its result is the last item,
and is there from when the worker ends until the window takes it (QueueInv); the
Save buttons are enabled only when the report is the one in the table, and stay
so while the save box is open (WindowInv). So when a new scan can be started the
queue is empty, and nothing of an earlier one is left to come.

**Only model-checked:** the liveness properties EveryStreamEnds, Terminates,
RunningEnds, WindowRecovers and MainEnds: proofs under fairness are out of the
prover's reach. So they are known for the instances of the runs alone. Of what they
rest on, safety is proved: each pass of the name decoder that does not end it
follows one of the pointers still allowed or goes on to a later byte of the message
(DecoderProgresses), and each question has at most two sockets (ProgramTyped).

## Plan

Done: the modules above, in the order ScanRecord (with EventStream), Scope and
Engine, ScanStore, HistoryPage, Browser, Gui, PortSweep, DnsName and DnsCheck,
TlsCheck, HttpCheck, their composition with the engine (EngineChecks) and with
the program (CommandLine), and the thread of a ScanRecord as ScanStore's; the
proofs of every invariant, of the action property of Gui and of the refinements.
The eight modules of proofs are all there are to be: theorems about further parts
would go into the module of the component they talk to.

Next, the most important behaviour first:

1. For the liveness properties, what their proofs would rest on and safety can
   say, as DecoderProgresses does of the decoder: for the engine's loop and for the
   other checkers, what each step that is not free brings nearer to the end.
2. The validation of `start_scan` and the ingest parser of the web interface,
   which say in other words what the command line's do.

## Not modelled

- Rendering (`reporting.py`, `by_severity`, `counts`, `to_dict`, the HTML of the
  page and the window), which formats and keeps no state. The browser's filter
  and form validation keep nothing either.
- The launchers, which ask for arguments and start the program; `--help` and an
  interrupt from the keyboard.
- FastAPI, uvicorn, tkinter, the browser, `ThreadPoolExecutor`, `ssl` and the
  name service, but for the rules by which they call or answer the code (threads,
  one handler at a time, modal boxes, exceptions).
- The wording of findings, the dates and the patterns: what a checker tells apart
  is kept, how it tells it is not.
- A thread that cannot be started. `ScanStore.start` has registered the record by
  then (store.py:86), which would say "running" for ever; the window has set
  `scanning` (gui.py:185), and its Scan button would stay disabled. Both start
  their thread in one step that succeeds. (In the sweep, where the executor
  starts threads, it is modelled: PortsRaise, CollectRaises.)
- A callback `on_event` that raises, and the flush of standard output when the
  interpreter exits, which may turn any code into 120.
- What an address looks like: addresses are values, so that IPv4-mapped IPv6
  addresses, which are in no IPv4 network, do not occur. PortsFail may happen with
  ingested ports too, where the code does nothing that can fail so: the model
  allows more than the code.
- Running time and memory: huge ranges, a registry that only grows, event streams
  that occupy the threads of the server's pool.
