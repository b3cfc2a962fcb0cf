--------------------------- MODULE BrowserProofs ---------------------------
(***************************************************************************)
(* Proofs about Browser, for any number of scans, of messages and of calls *)
(* of openScan: whatever calls are under way and in whatever order they    *)
(* are answered, a log on the page is that of the scan it is headed with,  *)
(* and the findings are those that the download buttons are for.           *)
(***************************************************************************)
EXTENDS Browser, TLAPS

\* A call, and the log element it renders: what the element holds is what its
\* own event source received. A number that was not given out is unused.
CallInv(t) ==
  /\ t > opened => pc[t] = "none" /\ sent[t] = 0
  /\ t <= opened => pc[t] # "none" /\ of[t] \in Scans /\ sent[t] <= emitted[of[t]]
  /\ Len(lines[t]) = sent[t]
  /\ \A i \in 1 .. sent[t] : lines[t][i] = Message(of[t], i)

\* The page shows the log of a call that was made, under that call's scan.
ViewInv ==
  /\ view.kind = "running" => view.log \in 1 .. opened /\ view.scan = of[view.log]
  /\ ReportMatches

BrowserInv == TypeOK /\ ViewInv /\ \A t \in Opens : CallInv(t)

\* A call that waits for something was made.
LEMMA CallMade ==
  ASSUME BrowserInv, NEW t \in Opens, pc[t] # "none"
  PROVE  t \in 1 .. opened /\ of[t] \in Scans
BY OpensAssumption DEF BrowserInv, CallInv, TypeOK, Opens

\* A call keeps its part of the invariant when its scan goes on, and when only
\* what it waits for changes.
LEMMA CallKept ==
  ASSUME BrowserInv, NEW t \in Opens, opened' = opened, of' = of,
         UNCHANGED logVars, pc[t] = "none" <=> pc'[t] = "none",
         \A s \in Scans : emitted[s] <= emitted'[s], emitted' \in [Scans -> Nat]
  PROVE  CallInv(t)'
<1>1. t <= opened => of[t] \in Scans /\ sent[t] <= emitted[of[t]] /\ emitted[of[t]] \in Nat
                     /\ emitted'[of[t]] \in Nat /\ sent[t] \in Nat
  BY DEF BrowserInv, CallInv, TypeOK
<1>2. t <= opened => sent[t] <= emitted'[of[t]]
  BY <1>1
<1>. QED BY <1>2 DEF BrowserInv, CallInv, logVars

\* The scan emits a message, or ends.
LEMMA EmitStep ==
  ASSUME BrowserInv, NEW s \in Scans, Emit(s)
  PROVE  BrowserInv'
<1>. USE DEF Emit, callVars, logVars, globals
<1>1. TypeOK'
  <2>1. emitted[s] \in Nat /\ emitted[s] + 1 \in 0 .. MaxEvents
    BY EventsAssumption DEF BrowserInv, TypeOK
  <2>2. emitted' \in [Scans -> 0 .. MaxEvents]
    BY <2>1 DEF BrowserInv, TypeOK
  <2>. QED BY <2>2 DEF BrowserInv, TypeOK
<1>2. ViewInv'
  BY DEF BrowserInv, ViewInv, ReportMatches
<1>3. /\ \A r \in Scans : emitted[r] <= emitted'[r]
      /\ emitted' \in [Scans -> Nat]
  BY EventsAssumption DEF BrowserInv, TypeOK
<1>4. ASSUME NEW t \in Opens PROVE CallInv(t)'
  BY <1>3, CallKept
<1>. QED BY <1>1, <1>2, <1>4 DEF BrowserInv

LEMMA FinishStep ==
  ASSUME BrowserInv, NEW s \in Scans, Finish(s)
  PROVE  BrowserInv'
<1>. USE DEF Finish, callVars, logVars, globals
<1>1. TypeOK'
  BY DEF BrowserInv, TypeOK
<1>2. ViewInv'
  BY DEF BrowserInv, ViewInv, ReportMatches
<1>3. /\ \A r \in Scans : emitted[r] <= emitted'[r]
      /\ emitted' \in [Scans -> Nat]
  BY EventsAssumption DEF BrowserInv, TypeOK
<1>4. ASSUME NEW t \in Opens PROVE CallInv(t)'
  BY <1>3, CallKept
<1>. QED BY <1>1, <1>2, <1>4 DEF BrowserInv

\* A click: the next number is unused, the other calls go on.
LEMMA OpenScanStep ==
  ASSUME BrowserInv, NEW s \in Scans, OpenScan(s)
  PROVE  BrowserInv'
<1>. USE DEF OpenScan, serverVars, logVars
<1>0. PICK n \in Opens : n = opened + 1
  BY OpensAssumption DEF BrowserInv, TypeOK, Opens
<1>1. opened' = n /\ opened \in Nat /\ n = opened + 1
  BY <1>0, OpensAssumption DEF BrowserInv, TypeOK
<1>2. /\ of'[n] = s /\ \A t \in Opens : t # n => of'[t] = of[t]
      /\ pc'[n] = "status"
      /\ \A t \in Opens : t # n => pc'[t] \in {"end", pc[t]} /\ (pc[t] = "none" <=> pc'[t] = "none")
  <2>1. source \in Opens => pc[source] = "watching"
    BY OpensAssumption DEF BrowserInv, TypeOK, Opens, None
  <2>. QED BY <1>1, <2>1 DEF BrowserInv, TypeOK
<1>3. TypeOK'
  <2>1. of' \in [Opens -> Scans \cup {NoScan}]
    BY <1>1 DEF BrowserInv, TypeOK
  <2>2. pc' \in [Opens -> PCs]
    BY DEF BrowserInv, TypeOK, PCs
  <2>3. opened' \in 0 .. MaxOpens
    BY <1>1, OpensAssumption DEF Opens
  <2>. QED BY <2>1, <2>2, <2>3 DEF BrowserInv, TypeOK, callVars
<1>4. ViewInv'
  <2>1. view.kind = "running" => view.log \in 1 .. opened /\ view.scan = of[view.log]
    BY DEF BrowserInv, ViewInv
  <2>2. view.kind = "running" => view.log \in 1 .. n /\ view.log # n /\ view.log \in Opens
    BY <2>1, <1>1, OpensAssumption DEF Opens, BrowserInv, TypeOK
  <2>. QED BY <2>1, <2>2, <1>1, <1>2 DEF BrowserInv, ViewInv, ReportMatches
<1>5. CallInv(n)'
  <2>1. sent[n] = 0 /\ Len(lines[n]) = 0
    BY <1>1 DEF BrowserInv, CallInv
  <2>2. emitted[s] \in Nat
    BY DEF BrowserInv, TypeOK
  <2>3. ~ (n > opened') /\ (1 .. sent'[n]) = {}
    BY <2>1, <1>1
  <2>. QED BY <2>1, <2>2, <2>3, <1>2 DEF CallInv
<1>6. ASSUME NEW t \in Opens, t # n PROVE CallInv(t)'
  <2>1. t \in Nat /\ (t > opened => t > n) /\ (t <= n => t <= opened)
    BY <1>1, <1>6, OpensAssumption DEF Opens
  <2>. QED BY <2>1, <1>1, <1>2, <1>6 DEF BrowserInv, CallInv
<1>7. \A t \in Opens : CallInv(t)'
  BY <1>5, <1>6, Zenon
<1>. QED BY <1>3, <1>4, <1>7 DEF BrowserInv

\* A call whose answer comes goes on to the next thing to wait for.
LEMMA GoesOn ==
  ASSUME BrowserInv, NEW t \in Opens, pc[t] # "none", NEW next \in PCs \ {"none"}, Goto(t, next),
         UNCHANGED <<serverVars, opened, of, logVars>>,
         NEW u \in Opens
  PROVE  CallInv(u)'
<1>1. pc[u] = "none" <=> pc'[u] = "none"
  BY DEF Goto, BrowserInv, TypeOK
<1>2. emitted' \in [Scans -> Nat] /\ \A r \in Scans : emitted[r] <= emitted'[r]
  BY EventsAssumption DEF BrowserInv, TypeOK, serverVars
<1>. QED BY <1>1, <1>2, CallKept

LEMMA CallStep ==
  ASSUME BrowserInv, NEW t \in Opens,
         \/ StatusAnswered(t) \/ WatchEvents(t) \/ RenderError(t) \/ LoadReport(t) \/ ShowReport(t)
         \/ OnDone(t) \/ OnError(t) \/ RequestFails(t)
  PROVE  BrowserInv'
<1>. USE DEF serverVars, logVars, globals, Goto
<1>1. CASE StatusAnswered(t)
  <2>. USE <1>1 DEF StatusAnswered
  <2>1. of[t] \in Scans  BY CallMade
  <2>2. TypeOK'  BY <2>1, OpensAssumption DEF BrowserInv, TypeOK, PCs, Opens, None
  <2>3. ViewInv'  BY DEF BrowserInv, ViewInv, ReportMatches
  <2>4. \A u \in Opens : CallInv(u)'  BY GoesOn DEF PCs
  <2>. QED BY <2>2, <2>3, <2>4 DEF BrowserInv
<1>2. CASE WatchEvents(t)
  <2>. USE <1>2 DEF WatchEvents
  <2>1. t \in 1 .. opened /\ of[t] \in Scans  BY CallMade
  <2>2. TypeOK'  BY <2>1, OpensAssumption DEF BrowserInv, TypeOK, PCs, Opens, None, View, ViewKinds
  <2>3. ViewInv'  BY <2>1 DEF BrowserInv, ViewInv, ReportMatches, View
  <2>4. \A u \in Opens : CallInv(u)'  BY GoesOn DEF PCs
  <2>. QED BY <2>2, <2>3, <2>4 DEF BrowserInv
<1>3. CASE RenderError(t)
  <2>. USE <1>3 DEF RenderError
  <2>1. of[t] \in Scans  BY CallMade
  <2>2. TypeOK'  BY <2>1, OpensAssumption DEF BrowserInv, TypeOK, PCs, Opens, None, View, ViewKinds
  <2>3. ViewInv'  BY DEF ViewInv, ReportMatches, View
  <2>4. \A u \in Opens : CallInv(u)'  BY GoesOn DEF PCs
  <2>. QED BY <2>2, <2>3, <2>4 DEF BrowserInv
<1>4. CASE LoadReport(t)
  <2>. USE <1>4 DEF LoadReport
  <2>2. TypeOK'  BY OpensAssumption DEF BrowserInv, TypeOK, PCs, Opens, None
  <2>3. ViewInv'  BY DEF BrowserInv, ViewInv, ReportMatches
  <2>4. \A u \in Opens : CallInv(u)'  BY GoesOn DEF PCs
  <2>. QED BY <2>2, <2>3, <2>4 DEF BrowserInv
<1>5. CASE ShowReport(t)
  <2>. USE <1>5 DEF ShowReport
  <2>1. of[t] \in Scans  BY CallMade
  <2>2. TypeOK'  BY <2>1, OpensAssumption DEF BrowserInv, TypeOK, PCs, Opens, None, View, ViewKinds
  <2>3. ViewInv'  BY DEF ViewInv, ReportMatches, View
  <2>4. \A u \in Opens : CallInv(u)'  BY GoesOn DEF PCs
  <2>. QED BY <2>2, <2>3, <2>4 DEF BrowserInv
<1>6. CASE OnDone(t)
  <2>. USE <1>6 DEF OnDone
  <2>1. of[t] \in Scans  BY CallMade
  <2>2. TypeOK'  BY <2>1 DEF BrowserInv, TypeOK, PCs
  <2>3. ViewInv'  BY DEF BrowserInv, ViewInv, ReportMatches
  <2>4. \A u \in Opens : CallInv(u)'  BY GoesOn DEF PCs
  <2>. QED BY <2>2, <2>3, <2>4 DEF BrowserInv
<1>7. CASE OnError(t)
  <2>. USE <1>7 DEF OnError
  <2>2. TypeOK'  BY DEF BrowserInv, TypeOK, PCs
  <2>3. ViewInv'  BY DEF BrowserInv, ViewInv, ReportMatches
  <2>4. \A u \in Opens : CallInv(u)'  BY GoesOn DEF PCs
  <2>. QED BY <2>2, <2>3, <2>4 DEF BrowserInv
<1>8. CASE RequestFails(t)
  <2>. USE <1>8 DEF RequestFails
  <2>2. TypeOK'  BY OpensAssumption DEF BrowserInv, TypeOK, PCs, Opens, None
  <2>3. ViewInv'  BY DEF BrowserInv, ViewInv, ReportMatches
  <2>4. \A u \in Opens : CallInv(u)'  BY GoesOn DEF PCs
  <2>. QED BY <2>2, <2>3, <2>4 DEF BrowserInv
<1>. QED BY <1>1, <1>2, <1>3, <1>4, <1>5, <1>6, <1>7, <1>8

\* A message adds the next line to the element of its own source.
LEMMA OnMessageStep ==
  ASSUME BrowserInv, NEW t \in Opens, OnMessage(t)
  PROVE  BrowserInv'
<1>. USE DEF OnMessage, serverVars, callVars, globals
<1>. DEFINE m == Message(of[t], sent[t] + 1)
            Line == [scan : Scans, nr : 1 .. MaxEvents]
<1>1. of[t] \in Scans /\ t \in 1 .. opened
  BY CallMade
<1>2. /\ sent[t] \in Nat /\ sent[t] + 1 <= emitted[of[t]] /\ emitted[of[t]] \in 0 .. MaxEvents
      /\ sent'[t] = sent[t] + 1 /\ sent[t] + 1 \in 1 .. MaxEvents
  BY <1>1, EventsAssumption DEF BrowserInv, TypeOK
<1>3. /\ m \in Line /\ lines[t] \in Seq(Line) /\ lines'[t] = Append(lines[t], m)
      /\ Len(lines[t]) = sent[t]
  BY <1>1, <1>2 DEF BrowserInv, TypeOK, Message, CallInv
<1>4. \A u \in Opens : u # t => lines'[u] = lines[u] /\ sent'[u] = sent[u]
  BY DEF BrowserInv, TypeOK
<1>. HIDE DEF m, Line
<1>5. /\ lines'[t] \in Seq(Line) /\ Len(lines'[t]) = sent[t] + 1
      /\ lines'[t][sent[t] + 1] = m
      /\ \A i \in 1 .. sent[t] : lines'[t][i] = lines[t][i]
  BY <1>2, <1>3
<1>6. TypeOK'
  <2>1. lines' \in [Opens -> Seq(Line)]
    BY <1>5 DEF BrowserInv, TypeOK, Line
  <2>2. sent' \in [Opens -> 0 .. MaxEvents]
    BY <1>2, EventsAssumption DEF BrowserInv, TypeOK
  <2>. QED BY <2>1, <2>2 DEF BrowserInv, TypeOK, Line
<1>7. ViewInv'
  BY DEF BrowserInv, ViewInv, ReportMatches
<1>8. CallInv(t)'
  <2>1. ASSUME NEW i \in 1 .. sent[t] + 1 PROVE lines'[t][i] = Message(of[t], i)
    <3>1. CASE i = sent[t] + 1
      <4>1. m = Message(of[t], sent[t] + 1)
        BY DEF m
      <4>. QED BY <4>1, <3>1, <1>5, Zenon
    <3>2. CASE i \in 1 .. sent[t]
      BY <3>2, <1>5 DEF BrowserInv, CallInv
    <3>3. i = sent[t] + 1 \/ i \in 1 .. sent[t]
      BY <1>2
    <3>. QED BY <3>1, <3>2, <3>3, Zenon
  <2>2. t <= opened /\ ~ (t > opened) /\ pc[t] # "none"
    BY <1>1 DEF BrowserInv, TypeOK
  <2>. QED BY <2>1, <2>2, <1>1, <1>2, <1>5 DEF CallInv
<1>9. ASSUME NEW u \in Opens, u # t PROVE CallInv(u)'
  BY <1>4, <1>9 DEF BrowserInv, CallInv
<1>. QED BY <1>6, <1>7, <1>8, <1>9 DEF BrowserInv

\* The invariant of the page holds in every state.
THEOREM BrowserInvariant == Spec => []BrowserInv
<1>1. Init => BrowserInv
  <2>. USE DEF Init
  <2>1. ASSUME Init PROVE TypeOK
    BY <2>1, EventsAssumption, OpensAssumption DEF TypeOK, View, ViewKinds, PCs, None, Opens
  <2>2. ASSUME Init PROVE ViewInv
    BY <2>2 DEF ViewInv, ReportMatches, View
  <2>3. ASSUME Init, NEW t \in Opens PROVE CallInv(t)
    BY <2>3, OpensAssumption DEF CallInv, Opens
  <2>. QED BY <2>1, <2>2, <2>3 DEF BrowserInv
<1>2. BrowserInv /\ [Next]_vars => BrowserInv'
  <2>1. ASSUME BrowserInv, UNCHANGED vars PROVE BrowserInv'
    BY <2>1 DEF vars, serverVars, callVars, logVars, globals,
                BrowserInv, TypeOK, ViewInv, ReportMatches, CallInv
  <2>. QED BY <2>1, EmitStep, FinishStep, OpenScanStep, CallStep, OnMessageStep
         DEF Next, Handle, Fails
<1>. QED BY <1>1, <1>2, PTL DEF Spec

\* The variables keep their types; currentSource is null or an open source.
THEOREM BrowserTyped == Spec => []TypeOK
<1>1. BrowserInv => TypeOK
  BY DEF BrowserInv
<1>. QED BY BrowserInvariant, <1>1, PTL

\* The log on the page is that of the scan above it, in order, none twice.
\* (watchEvents, app.js:142-153.)
THEOREM LogIsOwn == Spec => []LogOwn
<1>1. ASSUME BrowserInv PROVE LogOwn
  <2>. SUFFICES ASSUME view.kind = "running"
                PROVE  /\ Len(lines[view.log]) <= emitted[view.scan]
                       /\ \A i \in DOMAIN lines[view.log] :
                            lines[view.log][i] = Message(view.scan, i)
    BY DEF LogOwn
  <2>. DEFINE t == view.log
  <2>1. t \in Opens /\ t <= opened /\ view.scan = of[t]
    BY <1>1, OpensAssumption DEF BrowserInv, ViewInv, TypeOK, Opens
  <2>2. CallInv(t) /\ lines[t] \in Seq([scan : Scans, nr : 1 .. MaxEvents])
    BY <2>1, <1>1 DEF BrowserInv, TypeOK
  <2>3. DOMAIN lines[t] = 1 .. sent[t]
    BY <2>2 DEF CallInv
  <2>. QED BY <2>1, <2>2, <2>3 DEF CallInv
<1>. QED BY BrowserInvariant, <1>1, PTL

\* The findings on the page are those that its buttons download.
\* (loadReport and renderReport, app.js:173-201.)
THEOREM ReportsMatch == Spec => []ReportMatches
<1>1. BrowserInv => ReportMatches
  BY DEF BrowserInv, ViewInv
<1>. QED BY BrowserInvariant, <1>1, PTL
=============================================================================
