----------------------------- MODULE GuiProofs -----------------------------
(***************************************************************************)
(* Proofs about Gui, for any number of scans and of progress messages: the *)
(* window shows the scan started last and no other, and what is saved is   *)
(* what the table shows.                                                   *)
(***************************************************************************)
EXTENDS Gui, TLAPS

Items == [kind : Kinds, scan : Scans]

\* The workers before the last one have ended; a worker runs while the window
\* is scanning.
WorkersInv ==
  \A n \in Scans : /\ n > started => wpc[n] = "none"
                   /\ n < started => wpc[n] = "end"
                   /\ n = started => wpc[n] \in {"scan", "end"}
                   /\ wpc[n] = "scan" => scanning

\* What is in the queue is of the last scan. Its result is the last item, and
\* is there from when its worker ends until the window takes it.
QueueInv ==
  /\ q # << >> => scanning
  /\ \A i \in DOMAIN q : /\ q[i].scan = started
                         /\ q[i].kind # "progress" => i = Len(q) /\ wpc[started] = "end"
  /\ scanning /\ wpc[started] = "end" => q # << >> /\ q[Len(q)].kind # "progress"

\* The Save buttons can be pressed only when the report is that of the table,
\* and the scan it is of is over; so it is while the save box is open.
WindowInv ==
  /\ scanning => started > 0 /\ table = None
  /\ table \in {None, started} /\ label.scan = started
  /\ saveButton => ~scanning /\ report = started /\ table = started
  /\ dialog = "save" => saveButton

GuiInv == TypeOK /\ WorkersInv /\ QueueInv /\ WindowInv

USE ScansAssumption, ProgressAssumption

\* The Scan button is pressed: nothing of the scans before is left to come.
LEMMA StartStep ==
  ASSUME GuiInv, Start
  PROVE  GuiInv'
<1>. USE DEF Start, workerVars
<1>1. PICK n \in Scans : n = started + 1
  BY DEF GuiInv, TypeOK, Scans
<1>2. /\ started' = n /\ started \in Nat /\ ~scanning /\ q = << >> /\ q' = << >>
      /\ scanning' = TRUE /\ table' = None /\ saveButton' = FALSE /\ dialog' = "none"
      /\ label'.scan = n
  BY <1>1 DEF GuiInv, TypeOK, QueueInv, Item, Free
<1>3. wpc'[n] = "scan" /\ \A m \in Scans : m # n => wpc'[m] = wpc[m]
  BY <1>1 DEF GuiInv, TypeOK
<1>4. TypeOK'
  <2>1. label' \in [kind : Kinds \cup {"ready", "starting", "saved"}, scan : Scans \cup {None}]
    BY <1>1 DEF Item
  <2>2. wpc' \in [Scans -> {"none", "scan", "end"}] /\ started' \in 0 .. MaxScans
    BY <1>1, <1>2 DEF GuiInv, TypeOK, Scans
  <2>. QED BY <2>1, <2>2 DEF GuiInv, TypeOK
<1>5. WorkersInv'
  <2>1. ASSUME NEW m \in Scans, m # n
        PROVE  /\ m > n => wpc[m] = "none"
               /\ m < n => wpc[m] = "end"
               /\ wpc[m] # "scan"
    BY <1>1, <1>2, <2>1 DEF GuiInv, WorkersInv, TypeOK, Scans
  <2>. QED BY <2>1, <1>2, <1>3 DEF WorkersInv, Scans
<1>6. QueueInv'
  BY <1>2, <1>3 DEF QueueInv
<1>7. WindowInv'
  BY <1>1, <1>2 DEF WindowInv
<1>. QED BY <1>4, <1>5, <1>6, <1>7 DEF GuiInv

\* A worker that runs is the one started last.
LEMMA OneWorker ==
  ASSUME GuiInv, NEW n \in Scans, wpc[n] = "scan"
  PROVE  n = started /\ scanning
<1>1. ~ (n > started) /\ ~ (n < started) /\ scanning
  BY DEF GuiInv, WorkersInv
<1>2. n \in Nat /\ started \in Nat
  BY DEF GuiInv, TypeOK, Scans
<1>. QED BY <1>1, <1>2

\* A message for the queue.
LEMMA Queued ==
  ASSUME GuiInv, NEW n \in Scans, NEW kind \in Kinds, wpc[n] = "scan"
  PROVE  LET r == Append(q, Item(kind, n)) IN
         /\ r \in Seq(Items) /\ r # << >>
         /\ Len(r) = Len(q) + 1 /\ r[Len(r)].kind = kind
         /\ \A i \in DOMAIN r : /\ r[i].scan = started
                                /\ r[i].kind # "progress" => i = Len(r) /\ r[i].kind = kind
<1>. DEFINE e == Item(kind, n)
            r == Append(q, e)
<1>1. n = started
  BY OneWorker
<1>2. e \in Items /\ e.kind = kind /\ e.scan = started /\ q \in Seq(Items)
  BY <1>1 DEF Item, Items, GuiInv, TypeOK
<1>3. \A i \in DOMAIN q : q[i].scan = started /\ q[i].kind = "progress"
  BY <1>1 DEF GuiInv, QueueInv
<1>. HIDE DEF e
<1>4. /\ r \in Seq(Items) /\ r # << >> /\ Len(r) = Len(q) + 1 /\ r[Len(r)] = e
      /\ DOMAIN r = 1 .. Len(q) + 1 /\ DOMAIN q = 1 .. Len(q) /\ Len(q) \in Nat
      /\ \A i \in 1 .. Len(q) : r[i] = q[i]
  BY <1>2
<1>5. ASSUME NEW i \in DOMAIN r
      PROVE  r[i].scan = started /\ (r[i].kind # "progress" => i = Len(r) /\ r[i].kind = kind)
  <2>1. CASE i = Len(q) + 1
    BY <2>1, <1>2, <1>4
  <2>2. CASE i \in 1 .. Len(q)
    BY <2>2, <1>3, <1>4
  <2>3. i = Len(q) + 1 \/ i \in 1 .. Len(q)
    BY <1>4
  <2>. QED BY <2>1, <2>2, <2>3
<1>. QED BY <1>2, <1>4, <1>5 DEF e

LEMMA WorkerStep ==
  ASSUME GuiInv, NEW n \in Scans, Worker(n)
  PROVE  GuiInv'
<1>. USE DEF windowVars
<1>1. CASE PutProgress(n)
  <2>1. /\ wpc[n] = "scan" /\ q' = Append(q, Item("progress", n)) /\ wpc' = wpc /\ started' = started
        /\ UNCHANGED <<windowVars, dialog, draining, saved>>
    BY <1>1 DEF PutProgress
  <2>2. n = started /\ scanning
    BY <2>1, OneWorker
  <2>3. progress' \in [Scans -> 0 .. MaxProgress]
    BY <1>1 DEF PutProgress, GuiInv, TypeOK
  <2>4. /\ q' \in Seq(Items) /\ q' # << >>
        /\ \A i \in DOMAIN q' : q'[i].scan = started /\ q'[i].kind = "progress"
    BY <2>1, Queued DEF Kinds
  <2>5. TypeOK'
    BY <2>1, <2>3, <2>4 DEF GuiInv, TypeOK, Items
  <2>6. WorkersInv' /\ WindowInv'
    BY <2>1 DEF GuiInv, WorkersInv, WindowInv
  <2>7. QueueInv'
    BY <2>1, <2>2, <2>4 DEF QueueInv
  <2>. QED BY <2>5, <2>6, <2>7 DEF GuiInv
<1>2. CASE PutResult(n)
  <2>1. /\ wpc[n] = "scan" /\ wpc' = [wpc EXCEPT ![n] = "end"] /\ started' = started
        /\ UNCHANGED <<progress, windowVars, dialog, draining, saved>>
    BY <1>2 DEF PutResult
  <2>2. PICK outcome \in {"done", "error"} : q' = Append(q, Item(outcome, n))
    BY <1>2 DEF PutResult
  <2>3. n = started /\ scanning
    BY <2>1, OneWorker
  <2>4. /\ q' \in Seq(Items) /\ q' # << >> /\ q'[Len(q')].kind = outcome
        /\ \A i \in DOMAIN q' : q'[i].scan = started /\ (q'[i].kind # "progress" => i = Len(q'))
    BY <2>1, <2>2, Queued DEF Kinds
  <2>5. wpc'[n] = "end" /\ \A m \in Scans : m # n => wpc'[m] = wpc[m]
    BY <2>1 DEF GuiInv, TypeOK
  <2>6. TypeOK'
    BY <2>1, <2>4 DEF GuiInv, TypeOK, Items
  <2>7. WorkersInv' /\ WindowInv'
    BY <2>1, <2>3, <2>5 DEF GuiInv, WorkersInv, WindowInv
  <2>8. QueueInv'
    BY <2>1, <2>3, <2>4, <2>5 DEF QueueInv
  <2>. QED BY <2>6, <2>7, <2>8 DEF GuiInv
<1>. QED BY <1>1, <1>2 DEF Worker


-----------------------------------------------------------------------------
(* _drain *)

\* What is taken from the queue, and what is left of it.
LEMMA Taken ==
  ASSUME GuiInv, NEW kind \in Kinds, Take(kind)
  PROVE  /\ Head(q) \in Items /\ Head(q).kind = kind /\ Head(q).scan = started
         /\ scanning /\ started \in Scans /\ table = None /\ saveButton = FALSE
         /\ dialog # "error" /\ dialog # "save"
         /\ q' \in Seq(Items)
         /\ \A i \in DOMAIN q' :
              /\ q'[i].scan = started
              /\ q'[i].kind # "progress" => i = Len(q') /\ wpc[started] = "end"
         /\ kind # "progress" => q' = << >> /\ wpc[started] = "end"
         /\ kind = "progress" /\ wpc[started] = "end" => q' # << >> /\ q'[Len(q')].kind # "progress"
<1>1. q \in Seq(Items) /\ q # << >> /\ Head(q).kind = kind /\ q' = Tail(q) /\ dialog # "error"
  BY DEF Take, GuiInv, TypeOK, Items
<1>2. /\ Len(q) \in Nat \ {0} /\ DOMAIN q = 1 .. Len(q) /\ Head(q) = q[1] /\ Head(q) \in Items
      /\ q' \in Seq(Items) /\ Len(q') = Len(q) - 1 /\ DOMAIN q' = 1 .. Len(q) - 1
      /\ \A i \in 1 .. Len(q) - 1 : q'[i] = q[i + 1] /\ i + 1 \in 1 .. Len(q)
  BY <1>1
<1>3. scanning
  BY <1>1 DEF GuiInv, QueueInv
<1>4. started \in Scans /\ table = None /\ saveButton = FALSE /\ dialog # "save"
  BY <1>3 DEF GuiInv, WindowInv, TypeOK, Scans
<1>5. \A i \in 1 .. Len(q) : /\ q[i].scan = started
                             /\ q[i].kind # "progress" => i = Len(q) /\ wpc[started] = "end"
  BY <1>2 DEF GuiInv, QueueInv
<1>6. ASSUME NEW i \in 1 .. Len(q) - 1
      PROVE  /\ q'[i].scan = started
             /\ q'[i].kind # "progress" => i = Len(q') /\ wpc[started] = "end"
  <2>1. q'[i] = q[i + 1] /\ i + 1 \in 1 .. Len(q)
    BY <1>2, Zenon
  <2>2. Len(q) \in Nat
    BY <1>2, Zenon
  <2>3. i + 1 = Len(q) => i = Len(q) - 1
    BY <2>2
  <2>4. Len(q') = Len(q) - 1
    BY <1>2, Zenon
  <2>. QED BY <2>1, <2>3, <2>4, <1>5
<1>7. /\ 1 \in 1 .. Len(q) /\ q[1].scan = started
      /\ q[1].kind # "progress" => 1 = Len(q) /\ wpc[started] = "end"
  <2>1. 1 \in 1 .. Len(q)
    BY <1>2
  <2>. QED BY <2>1, <1>5
<1>8. ASSUME kind # "progress" PROVE q' = << >> /\ wpc[started] = "end"
  <2>1. Len(q) = 1 /\ wpc[started] = "end"
    BY <1>1, <1>2, <1>7, <1>8
  <2>. QED BY <2>1, <1>1, <1>2
<1>9. ASSUME kind = "progress", wpc[started] = "end"
      PROVE  q' # << >> /\ q'[Len(q')].kind # "progress"
  <2>1. q[Len(q)].kind # "progress"
    BY <1>3, <1>9 DEF GuiInv, QueueInv
  <2>2. Len(q) > 1
    BY <2>1, <1>1, <1>2, <1>9
  <2>3. Len(q) - 1 \in 1 .. Len(q) - 1 /\ q'[Len(q) - 1] = q[Len(q)]
    BY <2>2, <1>2
  <2>. QED BY <2>1, <2>2, <2>3, <1>2
<1>. QED BY <1>1, <1>2, <1>3, <1>4, <1>6, <1>7, <1>8, <1>9

LEMMA DrainStep ==
  ASSUME GuiInv, Drain
  PROVE  GuiInv'
<1>. USE DEF windowVars, workerVars
<1>1. CASE TimerFires
  BY <1>1 DEF TimerFires, GuiInv, TypeOK, WorkersInv, QueueInv, WindowInv
<1>2. CASE DrainEnds
  BY <1>2 DEF DrainEnds, GuiInv, TypeOK, WorkersInv, QueueInv, WindowInv
<1>3. CASE ShowProgress
  <2>1. /\ Take("progress") /\ label' = Head(q)
        /\ UNCHANGED <<started, workerVars, draining, saved,
                       scanning, scanButton, saveButton, report, table, dialog>>
    BY <1>3 DEF ShowProgress, Take
  <2>2. /\ Head(q) \in Items /\ Head(q).scan = started /\ scanning
        /\ q' \in Seq(Items)
        /\ \A i \in DOMAIN q' :
             /\ q'[i].scan = started
             /\ q'[i].kind # "progress" => i = Len(q') /\ wpc[started] = "end"
        /\ wpc[started] = "end" => q' # << >> /\ q'[Len(q')].kind # "progress"
    BY <2>1, Taken DEF Kinds
  <2>3. TypeOK'
    BY <2>1, <2>2 DEF GuiInv, TypeOK, Items
  <2>4. QueueInv'
    BY <2>1, <2>2 DEF QueueInv
  <2>5. WorkersInv' /\ WindowInv'
    BY <2>1, <2>2 DEF GuiInv, WorkersInv, WindowInv
  <2>. QED BY <2>3, <2>4, <2>5 DEF GuiInv
<1>4. CASE Render
  <2>1. /\ Take("done") /\ label' = Head(q) /\ report' = Head(q).scan /\ table' = Head(q).scan
        /\ scanning' = FALSE /\ scanButton' = TRUE /\ saveButton' = TRUE
        /\ UNCHANGED <<started, workerVars, draining, saved, dialog>>
    BY <1>4 DEF Render, Take
  <2>2. /\ Head(q) \in Items /\ Head(q).scan = started /\ started \in Scans
        /\ q' = << >> /\ q' \in Seq(Items) /\ wpc[started] = "end"
    BY <2>1, Taken DEF Kinds
  <2>3. TypeOK'
    BY <2>1, <2>2 DEF GuiInv, TypeOK, Items
  <2>4. QueueInv'
    BY <2>1, <2>2 DEF QueueInv
  <2>5. WorkersInv'
    BY <2>1, <2>2, OneWorker DEF GuiInv, WorkersInv
  <2>6. WindowInv'
    BY <2>1, <2>2 DEF WindowInv
  <2>. QED BY <2>3, <2>4, <2>5, <2>6 DEF GuiInv
<1>5. CASE ShowError
  <2>1. /\ Take("error") /\ label' = Head(q) /\ dialog' = "error"
        /\ scanning' = FALSE /\ scanButton' = TRUE
        /\ UNCHANGED <<started, workerVars, draining, saved, saveButton, report, table>>
    BY <1>5 DEF ShowError, Take
  <2>2. /\ Head(q) \in Items /\ Head(q).scan = started /\ table = None /\ saveButton = FALSE
        /\ q' = << >> /\ q' \in Seq(Items) /\ wpc[started] = "end"
    BY <2>1, Taken DEF Kinds
  <2>3. TypeOK'
    BY <2>1, <2>2 DEF GuiInv, TypeOK, Items
  <2>4. QueueInv'
    BY <2>1, <2>2 DEF QueueInv
  <2>5. WorkersInv'
    BY <2>1, <2>2, OneWorker DEF GuiInv, WorkersInv
  <2>6. WindowInv'
    BY <2>1, <2>2 DEF WindowInv
  <2>. QED BY <2>3, <2>4, <2>5, <2>6 DEF GuiInv
<1>. QED BY <1>1, <1>2, <1>3, <1>4, <1>5 DEF Drain

-----------------------------------------------------------------------------
(* The user, and the theorems *)

LEMMA UserStep ==
  ASSUME GuiInv, User
  PROVE  GuiInv'
<1>. USE DEF windowVars, workerVars
<1>1. CASE StartRefused
  BY <1>1 DEF StartRefused, GuiInv, TypeOK, WorkersInv, QueueInv, WindowInv
<1>2. CASE Save
  BY <1>2 DEF Save, GuiInv, TypeOK, WorkersInv, QueueInv, WindowInv
<1>3. CASE Dismiss
  BY <1>3 DEF Dismiss, GuiInv, TypeOK, WorkersInv, QueueInv, WindowInv
<1>4. CASE WriteReport
  <2>. USE <1>4 DEF WriteReport
  <2>1. report = started
    BY DEF GuiInv, WindowInv
  <2>2. TypeOK'
    BY DEF GuiInv, TypeOK, Item
  <2>3. WorkersInv' /\ QueueInv'
    BY DEF GuiInv, WorkersInv, QueueInv
  <2>4. WindowInv'
    BY <2>1 DEF GuiInv, WindowInv, Item
  <2>. QED BY <2>2, <2>3, <2>4 DEF GuiInv
<1>. QED BY <1>1, <1>2, <1>3, <1>4, StartStep DEF User

\* The invariant of the window holds in every state.
THEOREM WindowInvariant == Spec => []GuiInv
<1>1. Init => GuiInv
  <2>1. ASSUME Init PROVE TypeOK
    <3>1. started \in 0 .. MaxScans /\ progress \in [Scans -> 0 .. MaxProgress]
      BY <2>1 DEF Init
    <3>2. q \in Seq([kind : Kinds, scan : Scans])
      BY <2>1 DEF Init
    <3>3. label \in [kind : Kinds \cup {"ready", "starting", "saved"}, scan : Scans \cup {None}]
      BY <2>1 DEF Init, Item
    <3>. QED BY <3>1, <3>2, <3>3, <2>1 DEF Init, TypeOK
  <2>2. Init => WorkersInv /\ QueueInv /\ WindowInv
    BY DEF Init, WorkersInv, QueueInv, WindowInv, Item, Scans, None
  <2>. QED BY <2>1, <2>2 DEF GuiInv
<1>2. GuiInv /\ [Next]_vars => GuiInv'
  <2>1. ASSUME GuiInv, UNCHANGED vars PROVE GuiInv'
    BY <2>1 DEF vars, windowVars, workerVars, GuiInv, TypeOK, WorkersInv, QueueInv, WindowInv
  <2>. QED BY <2>1, UserStep, DrainStep, WorkerStep DEF Next
<1>. QED BY <1>1, <1>2, PTL DEF Spec

\* The variables keep their types; the Scan button is disabled while scanning.
THEOREM WindowTyped == Spec => []TypeOK
<1>1. GuiInv => TypeOK
  BY DEF GuiInv
<1>. QED BY WindowInvariant, <1>1, PTL

\* The window shows nothing of an earlier scan for the one started last.
\* (_start, gui.py:158 and 175-183, and _drain.)
THEOREM ShowsLatest == Spec => []LatestShown
<1>1. GuiInv => LatestShown
  BY DEF GuiInv, WindowInv, QueueInv, LatestShown
<1>. QED BY WindowInvariant, <1>1, PTL

\* What is written to a file is what the table shows. (_save, gui.py:269-281.)
THEOREM SavesWhatItShows == Spec => SavedIsShown
<1>1. GuiInv /\ [Next]_vars => (saved' # saved => saved' = table /\ table = started)
  <2>. USE DEF windowVars, workerVars
  <2>1. ASSUME GuiInv, WriteReport PROVE saved' = table /\ table = started
    BY <2>1 DEF WriteReport, GuiInv, WindowInv
  <2>2. ASSUME StartRefused \/ Start \/ Save \/ Dismiss PROVE saved' = saved
    BY <2>2 DEF StartRefused, Start, Save, Dismiss
  <2>3. ASSUME Drain PROVE saved' = saved
    BY <2>3 DEF Drain, TimerFires, ShowProgress, Render, ShowError, DrainEnds, Take
  <2>4. ASSUME NEW n \in Scans, Worker(n) PROVE saved' = saved
    BY <2>4 DEF Worker, PutProgress, PutResult
  <2>. QED BY <2>1, <2>2, <2>3, <2>4 DEF Next, User, vars
<1>. QED BY WindowInvariant, <1>1, PTL DEF Spec, SavedIsShown
=============================================================================
