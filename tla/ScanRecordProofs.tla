-------------------------- MODULE ScanRecordProofs --------------------------
(***************************************************************************)
(* Proofs about ScanRecord, for every set of streams, status requests and  *)
(* messages and every bound: its types, the exactness of the streams, the  *)
(* finality of the "done" event, the consistency of the lock-free status   *)
(* requests, and that it implements EventStream.                           *)
(***************************************************************************)
EXTENDS ScanRecord, SequenceTheorems, TLAPS

Putting == {"putProgress", "putFailure", "putEnd"}

\* Who holds the lock, and what the lock protects.
LockInv ==
  /\ wpc \in Putting <=> lock = Worker
  /\ \A s \in Streams : spc[s] = "register" <=> lock = s
  /\ pending \subseteq subscribers
  /\ wpc \notin Putting => pending = {}
  /\ \A s \in subscribers : spc[s] \notin {"new", "register"}
  /\ status = "running" <=> wpc \notin {"putEnd", "end"}
  /\ wpc \in {"putProgress", "putFailure"} => events # << >>
  /\ \A s \in Streams :
       spc[s] \in {"stream", "gone"} /\ status = "running" => s \in subscribers

\* What a queue holds before and after the stream is live.
QueueInv ==
  \A s \in Streams :
    /\ spc[s] = "new" => received[s] = << >> /\ queue[s] = << >>
    /\ spc[s] = "register" => received[s] = << >> /\ queue[s] = events
    /\ spc[s] \in {"summary", "closed"} =>
         received[s] = events /\ status # "running" /\ s \notin pending

\* The order in which _run sets the fields that summary() reads.
WorkInv ==
  /\ wpc \in {"parse", "scan", "persist", "write", "putProgress", "finishDone"} => ~error
  /\ wpc \in {"fail", "putFailure", "finishError"} => error
  /\ wpc \in {"persist", "write", "finishDone"} => report
  /\ wpc = "finishDone" => file = "complete"
  /\ status = "done" => report /\ file = "complete" /\ ~error
  /\ status = "error" => error

SentInv ==
  \A s \in Streams :
    spc[s] = "closed" =>
      sent[s] = [status |-> status, error |-> error, counts |-> report]

\* What a status request has read so far is still true of a finished scan.
PollInv ==
  \A p \in Polls :
    /\ ppc[p] # "status" /\ answer[p].status # "running" => answer[p].status = status
    /\ ppc[p] \in {"report", "answered"} =>
         /\ answer[p].status = "done" => ~answer[p].error
         /\ answer[p].status = "error" => answer[p].error
    /\ ppc[p] = "answered" /\ answer[p].status = "done" => answer[p].counts

IInv == TypeOK /\ LockInv /\ QueueInv /\ ExactStream /\ WorkInv /\ SentInv /\ PollInv

-----------------------------------------------------------------------------
(* Sequences: a stream's messages followed by what waits in its queue *)

\* Putting to a queue appends to what the stream holds.
LEMMA PutHeld ==
  ASSUME NEW S, NEW r \in Seq(S), NEW q \in Seq(S), NEW m \in S
  PROVE  r \o Append(q, m) = Append(r \o q, m)
<1>1. q \o <<m>> = Append(q, m) /\ (r \o q) \o <<m>> = Append(r \o q, m)
  BY AppendIsConcat, ConcatProperties
<1>2. <<m>> \in Seq(S)
  OBVIOUS
<1>3. (r \o q) \o <<m>> = r \o (q \o <<m>>)
  BY <1>2, ConcatAssociative
<1>. QED  BY <1>1, <1>3

\* Moving the head of the queue to the messages sent leaves them together
\* what they were.
LEMMA GetHeld ==
  ASSUME NEW S, NEW r \in Seq(S), NEW q \in Seq(S), q # << >>
  PROVE  Append(r, Head(q)) \o Tail(q) = r \o q
<1>1. Head(q) \in S /\ Tail(q) \in Seq(S) /\ <<Head(q)>> \in Seq(S)
  BY HeadTailProperties
<1>2. Append(r, Head(q)) = r \o <<Head(q)>>
  BY <1>1, AppendIsConcat
<1>3. (r \o <<Head(q)>>) \o Tail(q) = r \o (<<Head(q)>> \o Tail(q))
  BY <1>1, ConcatAssociative
<1>4. <<Head(q)>> \o Tail(q) = q
  OBVIOUS
<1>. QED  BY <1>2, <1>3, <1>4

\* The head of the queue is the element of the whole that follows what was
\* sent.
LEMMA HeadHeld ==
  ASSUME NEW S, NEW r \in Seq(S), NEW q \in Seq(S), q # << >>
  PROVE  /\ Len(r) < Len(r \o q)
         /\ Head(q) = (r \o q)[Len(r) + 1]
<1>1. Len(q) \in Nat \ {0} /\ Head(q) = q[1]
  BY EmptySeq, LenProperties
<1>2. Len(r) \in Nat /\ Len(r \o q) = Len(r) + Len(q)
  BY LenProperties, ConcatProperties
<1>3. (r \o q)[Len(r) + 1] = q[1]
  BY <1>1, <1>2, ConcatProperties
<1>. QED  BY <1>1, <1>2, <1>3

\* When the sentinel is the head of the queue, everything before it was sent.
LEMMA EndHeld ==
  ASSUME NEW e \in Seq(AllMessages), NEW r \in Seq(AllMessages),
         NEW q \in Seq(AllMessages \cup {End}), q # << >>, Head(q) = End,
         r \o q = Append(e, End)
  PROVE  r = e
<1>. DEFINE S == AllMessages \cup {End}
<1>1. r \in Seq(S) /\ e \in Seq(S) /\ End \in S
  BY SeqMonotonic
<1>2. Len(r) < Len(r \o q) /\ Head(q) = (r \o q)[Len(r) + 1]
  BY <1>1, HeadHeld
<1>3. /\ Len(Append(e, End)) = Len(e) + 1
      /\ \A i \in 1 .. Len(e) : Append(e, End)[i] = e[i]
  BY <1>1, AppendProperties
<1>4. \A i \in 1 .. Len(e) : e[i] # End
  BY SentinelAssumption, ElementOfSeq
<1>5. Len(r) \in Nat /\ Len(e) \in Nat
  BY LenProperties
<1>6. Len(r) = Len(e)
  BY <1>2, <1>3, <1>4, <1>5
<1>7. \A i \in 1 .. Len(r) : (r \o q)[i] = r[i]
  <2>1. q \in Seq(S) /\ Len(q) \in Nat
    BY LenProperties
  <2>2. \A i \in 1 .. Len(r) + Len(q) :
          (r \o q)[i] = IF i <= Len(r) THEN r[i] ELSE q[i - Len(r)]
    BY <1>1, <2>1, ConcatProperties
  <2>. QED  BY <1>5, <2>1, <2>2
<1>8. \A i \in 1 .. Len(r) : r[i] = e[i]
  BY <1>3, <1>6, <1>7
<1>. QED  BY <1>6, <1>8, SeqEqual

\* While the last put may be missing and the sentinel was not put, the head of
\* the queue is the next message of the log.
LEMMA NoEndHeld ==
  ASSUME NEW e \in Seq(AllMessages), NEW r \in Seq(AllMessages),
         NEW q \in Seq(AllMessages \cup {End}), q # << >>,
         NEW m \in AllMessages, r \o q = e \/ Append(r \o q, m) = e
  PROVE  Head(q) \in AllMessages /\ Len(r) < Len(e) /\ Head(q) = e[Len(r) + 1]
<1>. DEFINE S == AllMessages \cup {End}
<1>1. r \in Seq(S) /\ m \in S
  BY SeqMonotonic
<1>2. Len(r) < Len(r \o q) /\ Head(q) = (r \o q)[Len(r) + 1]
  BY <1>1, HeadHeld
<1>3. Len(r) \in Nat /\ Len(e) \in Nat
  BY LenProperties
<1>4. r \o q \in Seq(S) /\ Len(r \o q) \in Nat
  BY <1>1, ConcatProperties, LenProperties
<1>5. CASE r \o q = e
  BY <1>2, <1>3, <1>5, ElementOfSeq
<1>6. CASE Append(r \o q, m) = e
  <2>1. /\ Len(e) = Len(r \o q) + 1
        /\ \A i \in 1 .. Len(r \o q) : e[i] = (r \o q)[i]
    BY <1>1, <1>4, <1>6, AppendProperties
  <2>. QED  BY <1>2, <1>3, <1>4, <2>1, ElementOfSeq
<1>. QED  BY <1>5, <1>6

\* A message at the head of the queue is the next one of the log, also when
\* the sentinel waits behind it.
LEMMA NextHeld ==
  ASSUME NEW e \in Seq(AllMessages), NEW r \in Seq(AllMessages),
         NEW q \in Seq(AllMessages \cup {End}), q # << >>, Head(q) # End,
         r \o q = Append(e, End)
  PROVE  Len(r) < Len(e) /\ Head(q) = e[Len(r) + 1]
<1>. DEFINE S == AllMessages \cup {End}
<1>1. r \in Seq(S) /\ e \in Seq(S) /\ End \in S
  BY SeqMonotonic
<1>2. Len(r) < Len(r \o q) /\ Head(q) = (r \o q)[Len(r) + 1]
  BY <1>1, HeadHeld
<1>3. Len(r) \in Nat /\ Len(e) \in Nat
  BY LenProperties
<1>4. /\ Len(r \o q) = Len(e) + 1
      /\ \A i \in 1 .. Len(e) : (r \o q)[i] = e[i]
      /\ (r \o q)[Len(e) + 1] = End
  BY <1>1, AppendProperties
<1>. QED  BY <1>2, <1>3, <1>4

-----------------------------------------------------------------------------
(* The invariant holds initially and is kept by every step, part by part *)

LEMMA InitInv == Init => IInv
<1>. SUFFICES ASSUME Init PROVE IInv
  OBVIOUS
<1>. USE DEF Init
<1>1. TypeOK
  <2>1. << >> \in Seq(AllMessages) /\ << >> \in Seq(AllMessages \cup {End})
    OBVIOUS
  <2>. QED
    BY <2>1 DEF TypeOK, Free, Worker, Statuses, Summary, NoSummary,
                WorkerPCs, StreamPCs, PollPCs, FileStates
<1>2. LockInv
  BY HolderAssumption DEF LockInv, Putting, Free, Worker
<1>3. QueueInv /\ ExactStream /\ WorkInv /\ SentInv /\ PollInv
  BY DEF QueueInv, ExactStream, WorkInv, SentInv, PollInv, NoSummary
<1>. QED  BY <1>1, <1>2, <1>3 DEF IInv

\* The steps of the system, one by one.
LEMMA Steps ==
  ASSUME [Next]_vars
  PROVE  \/ ScopeRejected \/ ScopeAccepted \/ EmitFailure \/ EndEmit
         \/ ScanReturns \/ OpenFile \/ WriteFile \/ ScanRaises \/ BeginFinish \/ EndFinish
         \/ \E m \in Messages : EmitProgress(m)
         \/ \E s \in Streams : Put(s) \/ PutEnd(s)
         \/ \E s \in Streams : \/ Subscribe(s) \/ Register(s) \/ SendMessage(s)
                               \/ TakeEnd(s) \/ SendDone(s) \/ Disconnect(s)
         \/ \E p \in Polls : Poll(p)
         \/ UNCHANGED vars
<1>1. CASE WorkerStep  BY <1>1, Zenon DEF WorkerStep
<1>2. CASE \E s \in Streams : ServeStream(s) \/ Disconnect(s)
  BY <1>2, Zenon DEF ServeStream
<1>. QED  BY <1>1, <1>2, Zenon DEF Next, Finished

\* The variables keep their types.
LEMMA TypeStep == IInv /\ [Next]_vars => TypeOK'
<1>. SUFFICES ASSUME TypeOK, LockInv, [Next]_vars
              PROVE  TypeOK'
  BY DEF IInv
<1>. USE HolderAssumption, SentinelAssumption
     DEF TypeOK, Free, Worker, Statuses, Summary, NoSummary, AllMessages,
         WorkerPCs, StreamPCs, PollPCs, FileStates, Acquire, Release,
         vars, recordVars, workVars, streamVars, pollVars
<1>1. CASE ScopeRejected  BY <1>1 DEF ScopeRejected
<1>2. CASE ScopeAccepted  BY <1>2 DEF ScopeAccepted
<1>3. CASE EmitFailure  BY <1>3 DEF EmitFailure, BeginEmit
<1>4. CASE EndEmit  BY <1>4 DEF EndEmit
<1>5. CASE ScanReturns  BY <1>5 DEF ScanReturns
<1>6. CASE OpenFile \/ WriteFile  BY <1>6 DEF OpenFile, WriteFile
<1>7. CASE ScanRaises  BY <1>7 DEF ScanRaises
<1>8. CASE BeginFinish  BY <1>8 DEF BeginFinish
<1>9. CASE EndFinish  BY <1>9 DEF EndFinish
<1>10. ASSUME NEW m \in Messages, EmitProgress(m) PROVE TypeOK'
  BY <1>10 DEF EmitProgress, BeginEmit
<1>11. ASSUME NEW s \in Streams, Put(s) PROVE TypeOK'
  <2>1. events[Len(events)] \in AllMessages
    BY <1>11 DEF Put, LockInv
  <2>2. Append(queue[s], events[Len(events)]) \in Seq(AllMessages \cup {End})
    BY <2>1
  <2>. QED  BY <1>11, <2>2 DEF Put
<1>12. ASSUME NEW s \in Streams, PutEnd(s) PROVE TypeOK'
  <2>1. Append(queue[s], End) \in Seq(AllMessages \cup {End})
    OBVIOUS
  <2>. QED  BY <1>12, <2>1 DEF PutEnd
<1>13. ASSUME NEW s \in Streams, Subscribe(s) PROVE TypeOK'
  <2>1. events \in Seq(AllMessages \cup {End})
    BY SeqMonotonic
  <2>. QED  BY <1>13, <2>1 DEF Subscribe
<1>14. ASSUME NEW s \in Streams, Register(s) PROVE TypeOK'
  <2>1. Append(queue[s], End) \in Seq(AllMessages \cup {End})
    OBVIOUS
  <2>2. CASE status = "running"
    BY <1>14, <2>2 DEF Register
  <2>3. CASE status # "running"
    <3>1. queue' = [queue EXCEPT ![s] = Append(queue[s], End)]
      BY <1>14, <2>3 DEF Register
    <3>2. queue' \in [Streams -> Seq(AllMessages \cup {End})]
      BY <2>1, <3>1
    <3>. QED  BY <1>14, <2>3, <3>2 DEF Register
  <2>. QED  BY <2>2, <2>3
<1>15. ASSUME NEW s \in Streams, SendMessage(s) PROVE TypeOK'
  <2>1. Head(queue[s]) \in AllMessages /\ Tail(queue[s]) \in Seq(AllMessages \cup {End})
    BY <1>15, HeadTailProperties DEF SendMessage
  <2>2. Append(received[s], Head(queue[s])) \in Seq(AllMessages)
    BY <2>1
  <2>. QED  BY <1>15, <2>1, <2>2 DEF SendMessage
<1>16. ASSUME NEW s \in Streams, TakeEnd(s) PROVE TypeOK'
  <2>1. Tail(queue[s]) \in Seq(AllMessages \cup {End})
    BY <1>16, HeadTailProperties DEF TakeEnd
  <2>. QED  BY <1>16, <2>1 DEF TakeEnd
<1>17. ASSUME NEW s \in Streams, SendDone(s) PROVE TypeOK'
  BY <1>17 DEF SendDone
<1>18. ASSUME NEW s \in Streams, Disconnect(s) PROVE TypeOK'
  BY <1>18 DEF Disconnect
<1>19. ASSUME NEW p \in Polls, Poll(p) PROVE TypeOK'
  <2>1. CASE ReadStatus(p)  BY <2>1 DEF ReadStatus
  <2>2. CASE ReadError(p)  BY <2>2 DEF ReadError
  <2>3. CASE ReadReport(p)  BY <2>3 DEF ReadReport
  <2>. QED  BY <1>19, <2>1, <2>2, <2>3, Zenon DEF Poll
<1>20. CASE UNCHANGED vars  BY <1>20
<1>. HIDE DEF TypeOK, vars
<1>. QED
  BY <1>1, <1>2, <1>3, <1>4, <1>5, <1>6, <1>7, <1>8, <1>9, <1>10, <1>11, <1>12,
     <1>13, <1>14, <1>15, <1>16, <1>17, <1>18, <1>19, <1>20, Steps, Zenon

\* The lock is held by the one who is in a critical section, and the worker's
\* loop runs over registered streams only.
LEMMA LockStep == IInv /\ [Next]_vars => LockInv'
<1>. SUFFICES ASSUME TypeOK, LockInv, [Next]_vars
              PROVE  LockInv'
  BY DEF IInv
<1>0. /\ spc \in [Streams -> StreamPCs] /\ wpc \in WorkerPCs
      /\ subscribers \subseteq Streams /\ events \in Seq(AllMessages)
      /\ status \in Statuses
  BY DEF TypeOK
<1>. USE <1>0, HolderAssumption
     DEF LockInv, Free, Worker, Acquire, Release, Putting, WorkerPCs, Statuses,
         recordVars, workVars, streamVars, pollVars
<1>1. CASE ScopeRejected  BY <1>1 DEF ScopeRejected
<1>2. CASE ScopeAccepted  BY <1>2 DEF ScopeAccepted
<1>3. CASE EmitFailure
  <2>1. Append(events, Failure) # << >>
    OBVIOUS
  <2>. QED  BY <1>3, <2>1 DEF EmitFailure, BeginEmit
<1>4. CASE EndEmit  BY <1>4 DEF EndEmit
<1>5. CASE ScanReturns  BY <1>5 DEF ScanReturns
<1>6. CASE OpenFile \/ WriteFile  BY <1>6 DEF OpenFile, WriteFile
<1>7. CASE ScanRaises  BY <1>7 DEF ScanRaises
<1>8. CASE BeginFinish  BY <1>8 DEF BeginFinish
<1>9. CASE EndFinish  BY <1>9 DEF EndFinish
<1>10. ASSUME NEW m \in Messages, EmitProgress(m) PROVE LockInv'
  <2>1. Append(events, m) # << >>
    BY DEF AllMessages
  <2>. QED  BY <1>10, <2>1 DEF EmitProgress, BeginEmit
<1>11. ASSUME NEW s \in Streams, Put(s) PROVE LockInv'
  BY <1>11 DEF Put
<1>12. ASSUME NEW s \in Streams, PutEnd(s) PROVE LockInv'
  BY <1>12 DEF PutEnd
<1>13. ASSUME NEW s \in Streams, Subscribe(s) PROVE LockInv'
  BY <1>13 DEF Subscribe
<1>14. ASSUME NEW s \in Streams, Register(s) PROVE LockInv'
  BY <1>14 DEF Register
<1>15. ASSUME NEW s \in Streams, SendMessage(s) PROVE LockInv'
  BY <1>15 DEF SendMessage
<1>16. ASSUME NEW s \in Streams, TakeEnd(s) PROVE LockInv'
  BY <1>16 DEF TakeEnd
<1>17. ASSUME NEW s \in Streams, SendDone(s) PROVE LockInv'
  BY <1>17 DEF SendDone
<1>18. ASSUME NEW s \in Streams, Disconnect(s) PROVE LockInv'
  BY <1>18 DEF Disconnect
<1>19. ASSUME NEW p \in Polls, Poll(p) PROVE LockInv'
  BY <1>19 DEF Poll, ReadStatus, ReadError, ReadReport
<1>20. CASE UNCHANGED vars  BY <1>20 DEF vars
<1>. HIDE DEF LockInv
<1>. QED
  BY <1>1, <1>2, <1>3, <1>4, <1>5, <1>6, <1>7, <1>8, <1>9, <1>10, <1>11, <1>12,
     <1>13, <1>14, <1>15, <1>16, <1>17, <1>18, <1>19, <1>20, Steps, Zenon

\* _run sets its fields in the order summary() relies on.
LEMMA WorkStep == IInv /\ [Next]_vars => WorkInv'
<1>. SUFFICES ASSUME LockInv, WorkInv, [Next]_vars
              PROVE  WorkInv'
  BY DEF IInv
<1>. USE DEF WorkInv, recordVars, workVars, streamVars, pollVars
<1>1. CASE ScopeRejected  BY <1>1 DEF ScopeRejected, LockInv
<1>2. CASE ScopeAccepted  BY <1>2 DEF ScopeAccepted
<1>3. CASE EmitFailure  BY <1>3 DEF EmitFailure, BeginEmit
<1>4. CASE EndEmit  BY <1>4 DEF EndEmit
<1>5. CASE ScanReturns  BY <1>5 DEF ScanReturns, LockInv
<1>6. CASE OpenFile \/ WriteFile  BY <1>6 DEF OpenFile, WriteFile, LockInv
<1>7. CASE ScanRaises  BY <1>7 DEF ScanRaises, LockInv
<1>8. CASE BeginFinish  BY <1>8 DEF BeginFinish
<1>9. CASE EndFinish  BY <1>9 DEF EndFinish
<1>10. ASSUME NEW m \in Messages, EmitProgress(m) PROVE WorkInv'
  BY <1>10 DEF EmitProgress, BeginEmit
<1>11. ASSUME NEW s \in Streams, Put(s) \/ PutEnd(s) PROVE WorkInv'
  BY <1>11 DEF Put, PutEnd
<1>12. ASSUME NEW s \in Streams,
              \/ Subscribe(s) \/ Register(s) \/ SendMessage(s)
              \/ TakeEnd(s) \/ SendDone(s) \/ Disconnect(s)
       PROVE  WorkInv'
  <2>1. UNCHANGED <<workVars, status>>
    BY <1>12 DEF Subscribe, Register, SendMessage, TakeEnd, SendDone, Disconnect
  <2>. QED  BY <2>1
<1>13. ASSUME NEW p \in Polls, Poll(p) PROVE WorkInv'
  BY <1>13 DEF Poll, ReadStatus, ReadError, ReadReport
<1>14. CASE UNCHANGED vars  BY <1>14 DEF vars
<1>. HIDE DEF WorkInv
<1>. QED
  BY <1>1, <1>2, <1>3, <1>4, <1>5, <1>6, <1>7, <1>8, <1>9, <1>10, <1>11, <1>12,
     <1>13, <1>14, Steps, Zenon

\* The end of a stream: the sentinel at the head of the queue means that the
\* scan is over, that nothing is left to put and that everything was sent.
LEMMA EndTaken ==
  ASSUME TypeOK, LockInv, ExactStream, NEW s \in Streams, TakeEnd(s)
  PROVE  received[s] = events /\ status # "running" /\ s \notin pending
<1>1. /\ queue[s] # << >> /\ Head(queue[s]) = End /\ spc[s] = "stream"
      /\ events \in Seq(AllMessages) /\ received[s] \in Seq(AllMessages)
      /\ queue[s] \in Seq(AllMessages \cup {End})
  BY DEF TakeEnd, TypeOK
<1>2. ASSUME s \in pending PROVE events[Len(events)] \in AllMessages \/ status # "running"
  <2>1. CASE status = "running"
    <3>1. events # << >>
      BY <1>2, <2>1 DEF LockInv, Putting
    <3>. QED  BY <1>1, <3>1
  <2>. QED  BY <2>1
<1>3. Failure \in AllMessages
  BY DEF AllMessages
<1>4. received[s] \o queue[s] # events
  BY <1>1, <1>3, NoEndHeld, SentinelAssumption
<1>5. ASSUME events[Len(events)] \in AllMessages
      PROVE  Append(received[s] \o queue[s], events[Len(events)]) # events
  BY <1>1, <1>5, NoEndHeld, SentinelAssumption
<1>6. s \notin pending /\ status # "running"
  BY <1>1, <1>2, <1>4, <1>5 DEF ExactStream
<1>7. received[s] \o queue[s] = Append(events, End)
  BY <1>1, <1>6 DEF ExactStream
<1>. QED  BY <1>1, <1>6, <1>7, EndHeld

LEMMA QueueStep == IInv /\ [Next]_vars => QueueInv'
<1>. SUFFICES ASSUME TypeOK, LockInv, QueueInv, ExactStream, [Next]_vars
              PROVE  QueueInv'
  BY DEF IInv
<1>0. /\ spc \in [Streams -> StreamPCs] /\ subscribers \subseteq Streams
      /\ queue \in [Streams -> Seq(AllMessages \cup {End})]
      /\ received \in [Streams -> Seq(AllMessages)]
  BY DEF TypeOK
<1>. USE <1>0, HolderAssumption
     DEF QueueInv, Free, Worker, Acquire, Release,
         recordVars, workVars, streamVars, pollVars
<1>1. CASE ScopeRejected  BY <1>1 DEF ScopeRejected
<1>2. CASE ScopeAccepted  BY <1>2 DEF ScopeAccepted
<1>3. CASE EmitFailure  BY <1>3 DEF EmitFailure, BeginEmit, LockInv
<1>4. CASE EndEmit  BY <1>4 DEF EndEmit
<1>5. CASE ScanReturns  BY <1>5 DEF ScanReturns
<1>6. CASE OpenFile \/ WriteFile  BY <1>6 DEF OpenFile, WriteFile
<1>7. CASE ScanRaises  BY <1>7 DEF ScanRaises
<1>8. CASE BeginFinish  BY <1>8 DEF BeginFinish, LockInv
<1>9. CASE EndFinish  BY <1>9 DEF EndFinish
<1>10. ASSUME NEW m \in Messages, EmitProgress(m) PROVE QueueInv'
  BY <1>10 DEF EmitProgress, BeginEmit, LockInv
<1>11. ASSUME NEW s \in Streams, Put(s) PROVE QueueInv'
  BY <1>11 DEF Put, LockInv
<1>12. ASSUME NEW s \in Streams, PutEnd(s) PROVE QueueInv'
  BY <1>12 DEF PutEnd, LockInv
<1>13. ASSUME NEW s \in Streams, Subscribe(s) PROVE QueueInv'
  BY <1>13 DEF Subscribe
<1>14. ASSUME NEW s \in Streams, Register(s) PROVE QueueInv'
  BY <1>14 DEF Register
<1>15. ASSUME NEW s \in Streams, SendMessage(s) PROVE QueueInv'
  BY <1>15 DEF SendMessage
<1>16. ASSUME NEW s \in Streams, TakeEnd(s) PROVE QueueInv'
  BY <1>16, EndTaken DEF TakeEnd
<1>17. ASSUME NEW s \in Streams, SendDone(s) PROVE QueueInv'
  BY <1>17 DEF SendDone
<1>18. ASSUME NEW s \in Streams, Disconnect(s) PROVE QueueInv'
  BY <1>18 DEF Disconnect
<1>19. ASSUME NEW p \in Polls, Poll(p) PROVE QueueInv'
  BY <1>19 DEF Poll, ReadStatus, ReadError, ReadReport
<1>20. CASE UNCHANGED vars  BY <1>20 DEF vars
<1>. HIDE DEF QueueInv
<1>. QED
  BY <1>1, <1>2, <1>3, <1>4, <1>5, <1>6, <1>7, <1>8, <1>9, <1>10, <1>11, <1>12,
     <1>13, <1>14, <1>15, <1>16, <1>17, <1>18, <1>19, <1>20, Steps, Zenon

LEMMA ExactStep == IInv /\ [Next]_vars => ExactStream'
<1>. DEFINE Exact(s) ==
       LET held == received[s] \o queue[s] IN
       spc[s] \in {"stream", "gone"} =>
         IF status = "running"
         THEN IF s \in pending THEN Append(held, events[Len(events)]) = events
                               ELSE held = events
         ELSE held = IF s \in pending THEN events ELSE Append(events, End)
<1>. SUFFICES ASSUME TypeOK, LockInv, QueueInv, ExactStream, [Next]_vars,
                     NEW t \in Streams
              PROVE  Exact(t)'
  BY DEF IInv, ExactStream
<1>0. /\ spc \in [Streams -> StreamPCs] /\ subscribers \subseteq Streams
      /\ queue \in [Streams -> Seq(AllMessages \cup {End})]
      /\ received \in [Streams -> Seq(AllMessages)]
      /\ events \in Seq(AllMessages)
      /\ Exact(t)
  BY DEF TypeOK, ExactStream
<1>. USE <1>0, HolderAssumption
     DEF Free, Worker, Acquire, Release,
         recordVars, workVars, streamVars, pollVars
<1>1. CASE ScopeRejected  BY <1>1 DEF ScopeRejected
<1>2. CASE ScopeAccepted  BY <1>2 DEF ScopeAccepted
<1>b. ASSUME NEW m \in AllMessages, NEW loop, BeginEmit(m, loop),
             wpc \in {"scan", "fail"}
      PROVE  Exact(t)'
  <2>1. Append(events, m)[Len(Append(events, m))] = m
    BY <1>b
  <2>2. ASSUME spc[t] \in {"stream", "gone"}
        PROVE  t \in pending' /\ status = "running" /\ received[t] \o queue[t] = events
    BY <1>b, <2>2 DEF BeginEmit, LockInv, Putting
  <2>. QED  BY <1>b, <2>1, <2>2 DEF BeginEmit
<1>3. CASE EmitFailure
  BY <1>3, <1>b DEF EmitFailure, AllMessages
<1>4. CASE EndEmit  BY <1>4 DEF EndEmit
<1>5. CASE ScanReturns  BY <1>5 DEF ScanReturns
<1>6. CASE OpenFile \/ WriteFile  BY <1>6 DEF OpenFile, WriteFile
<1>7. CASE ScanRaises  BY <1>7 DEF ScanRaises
<1>8. CASE BeginFinish
  BY <1>8 DEF BeginFinish, LockInv, Putting
<1>9. CASE EndFinish  BY <1>9 DEF EndFinish
<1>10. ASSUME NEW m \in Messages, EmitProgress(m) PROVE Exact(t)'
  BY <1>10, <1>b DEF EmitProgress, AllMessages
<1>11. ASSUME NEW s \in Streams, Put(s) PROVE Exact(t)'
  <2>1. events[Len(events)] \in AllMessages
    BY <1>11 DEF Put, LockInv
  <2>2. CASE t = s
    <3>1. received[s] \o Append(queue[s], events[Len(events)])
            = Append(received[s] \o queue[s], events[Len(events)])
      <4>1. received[s] \in Seq(AllMessages \cup {End})
        BY SeqMonotonic
      <4>. QED  BY <2>1, <4>1, PutHeld
    <3>. QED  BY <1>11, <2>2, <3>1 DEF Put, LockInv
  <2>3. CASE t # s  BY <1>11, <2>3 DEF Put
  <2>. QED  BY <2>2, <2>3
<1>12. ASSUME NEW s \in Streams, PutEnd(s) PROVE Exact(t)'
  <2>1. CASE t = s
    <3>1. received[s] \o Append(queue[s], End) = Append(received[s] \o queue[s], End)
      <4>1. received[s] \in Seq(AllMessages \cup {End})
        BY SeqMonotonic
      <4>. QED  BY <4>1, PutHeld
    <3>. QED  BY <1>12, <2>1, <3>1 DEF PutEnd, LockInv
  <2>2. CASE t # s  BY <1>12, <2>2 DEF PutEnd
  <2>. QED  BY <2>1, <2>2
<1>13. ASSUME NEW s \in Streams, Subscribe(s) PROVE Exact(t)'
  BY <1>13 DEF Subscribe
<1>14. ASSUME NEW s \in Streams, Register(s) PROVE Exact(t)'
  <2>1. CASE t = s
    <3>1. received[s] = << >> /\ queue[s] = events /\ pending = {}
      BY <1>14 DEF Register, QueueInv, LockInv
    <3>2. << >> \o events = events /\ << >> \o Append(events, End) = Append(events, End)
      <4>1. events \in Seq(AllMessages \cup {End})
        BY SeqMonotonic
      <4>2. Append(events, End) \in Seq(AllMessages \cup {End})
        BY <4>1
      <4>. QED  BY <4>2, ConcatEmptySeq
    <3>. QED  BY <1>14, <2>1, <3>1, <3>2 DEF Register
  <2>2. CASE t # s  BY <1>14, <2>2 DEF Register
  <2>. QED  BY <2>1, <2>2
<1>15. ASSUME NEW s \in Streams, SendMessage(s) PROVE Exact(t)'
  <2>1. CASE t = s
    <3>1. Append(received[s], Head(queue[s])) \o Tail(queue[s]) = received[s] \o queue[s]
      <4>1. received[s] \in Seq(AllMessages \cup {End})
        BY SeqMonotonic
      <4>. QED  BY <1>15, <4>1, GetHeld DEF SendMessage
    <3>. QED  BY <1>15, <2>1, <3>1 DEF SendMessage
  <2>2. CASE t # s  BY <1>15, <2>2 DEF SendMessage
  <2>. QED  BY <2>1, <2>2
<1>16. ASSUME NEW s \in Streams, TakeEnd(s) PROVE Exact(t)'
  BY <1>16 DEF TakeEnd
<1>17. ASSUME NEW s \in Streams, SendDone(s) PROVE Exact(t)'
  BY <1>17 DEF SendDone
<1>18. ASSUME NEW s \in Streams, Disconnect(s) PROVE Exact(t)'
  BY <1>18 DEF Disconnect
<1>19. ASSUME NEW p \in Polls, Poll(p) PROVE Exact(t)'
  BY <1>19 DEF Poll, ReadStatus, ReadError, ReadReport
<1>20. CASE UNCHANGED vars  BY <1>20 DEF vars
<1>. HIDE DEF Exact
<1>. QED
  BY <1>1, <1>2, <1>3, <1>4, <1>5, <1>6, <1>7, <1>8, <1>9, <1>10, <1>11, <1>12,
     <1>13, <1>14, <1>15, <1>16, <1>17, <1>18, <1>19, <1>20, Steps, Zenon

\* Nothing a summary reads changes once the status is final.
LEMMA SentStep == IInv /\ [Next]_vars => SentInv'
<1>. SUFFICES ASSUME TypeOK, LockInv, QueueInv, SentInv, [Next]_vars
              PROVE  SentInv'
  BY DEF IInv
<1>0. /\ spc \in [Streams -> StreamPCs] /\ sent \in [Streams -> Summary]
      /\ \A s \in Streams : spc[s] = "closed" => wpc \in {"putEnd", "end"}
  BY DEF TypeOK, LockInv, QueueInv
<1>. USE <1>0 DEF SentInv, recordVars, workVars, streamVars, pollVars
<1>1. CASE ScopeRejected  BY <1>1 DEF ScopeRejected
<1>2. CASE ScopeAccepted  BY <1>2 DEF ScopeAccepted
<1>3. CASE EmitFailure  BY <1>3 DEF EmitFailure, BeginEmit
<1>4. CASE EndEmit  BY <1>4 DEF EndEmit
<1>5. CASE ScanReturns  BY <1>5 DEF ScanReturns
<1>6. CASE OpenFile \/ WriteFile  BY <1>6 DEF OpenFile, WriteFile
<1>7. CASE ScanRaises  BY <1>7 DEF ScanRaises
<1>8. CASE BeginFinish  BY <1>8 DEF BeginFinish
<1>9. CASE EndFinish  BY <1>9 DEF EndFinish
<1>10. ASSUME NEW m \in Messages, EmitProgress(m) PROVE SentInv'
  BY <1>10 DEF EmitProgress, BeginEmit
<1>11. ASSUME NEW s \in Streams, Put(s) \/ PutEnd(s) PROVE SentInv'
  BY <1>11 DEF Put, PutEnd
<1>12. ASSUME NEW s \in Streams, Subscribe(s) PROVE SentInv'
  BY <1>12 DEF Subscribe
<1>13. ASSUME NEW s \in Streams, Register(s) PROVE SentInv'
  BY <1>13 DEF Register
<1>14. ASSUME NEW s \in Streams, SendMessage(s) PROVE SentInv'
  BY <1>14 DEF SendMessage
<1>15. ASSUME NEW s \in Streams, TakeEnd(s) PROVE SentInv'
  BY <1>15 DEF TakeEnd
<1>16. ASSUME NEW s \in Streams, SendDone(s) PROVE SentInv'
  BY <1>16 DEF SendDone
<1>17. ASSUME NEW s \in Streams, Disconnect(s) PROVE SentInv'
  BY <1>17 DEF Disconnect
<1>18. ASSUME NEW p \in Polls, Poll(p) PROVE SentInv'
  BY <1>18 DEF Poll, ReadStatus, ReadError, ReadReport
<1>19. CASE UNCHANGED vars  BY <1>19 DEF vars
<1>. HIDE DEF SentInv
<1>. QED
  BY <1>1, <1>2, <1>3, <1>4, <1>5, <1>6, <1>7, <1>8, <1>9, <1>10, <1>11, <1>12,
     <1>13, <1>14, <1>15, <1>16, <1>17, <1>18, <1>19, Steps, Zenon

\* A status request reads the status first, so what it reads later is at
\* least as recent.
LEMMA PollStep == IInv /\ [Next]_vars => PollInv'
<1>. SUFFICES ASSUME TypeOK, LockInv, WorkInv, PollInv, [Next]_vars
              PROVE  PollInv'
  BY DEF IInv
<1>0. ppc \in [Polls -> PollPCs] /\ answer \in [Polls -> Summary] /\ status \in Statuses
  BY DEF TypeOK
<1>. USE <1>0 DEF PollInv, recordVars, workVars, streamVars, pollVars
<1>1. ASSUME UNCHANGED pollVars, status' = status PROVE PollInv'
  BY <1>1
<1>2. CASE \/ ScopeRejected \/ ScopeAccepted \/ EmitFailure \/ EndEmit
           \/ ScanReturns \/ OpenFile \/ WriteFile \/ ScanRaises \/ EndFinish
  <2>1. UNCHANGED pollVars /\ status' = status
    BY <1>2 DEF ScopeRejected, ScopeAccepted, EmitFailure, BeginEmit, EndEmit,
                ScanReturns, OpenFile, WriteFile, ScanRaises, EndFinish
  <2>. QED  BY <1>1, <2>1
<1>3. CASE BeginFinish
  BY <1>3 DEF BeginFinish, LockInv
<1>4. ASSUME NEW m \in Messages, EmitProgress(m) PROVE PollInv'
  BY <1>4 DEF EmitProgress, BeginEmit
<1>5. ASSUME NEW s \in Streams, Put(s) \/ PutEnd(s) PROVE PollInv'
  BY <1>5 DEF Put, PutEnd
<1>6. ASSUME NEW s \in Streams,
             \/ Subscribe(s) \/ Register(s) \/ SendMessage(s)
             \/ TakeEnd(s) \/ SendDone(s) \/ Disconnect(s)
      PROVE  PollInv'
  <2>1. UNCHANGED pollVars /\ status' = status
    BY <1>6 DEF Subscribe, Register, SendMessage, TakeEnd, SendDone, Disconnect
  <2>. QED  BY <1>1, <2>1
<1>7. ASSUME NEW p \in Polls, Poll(p) PROVE PollInv'
  <2>1. CASE ReadStatus(p)  BY <2>1 DEF ReadStatus, Statuses, Summary
  <2>2. CASE ReadError(p)  BY <2>2 DEF ReadError, WorkInv, Statuses, Summary
  <2>3. CASE ReadReport(p)  BY <2>3 DEF ReadReport, WorkInv, Statuses, Summary
  <2>. QED  BY <1>7, <2>1, <2>2, <2>3, Zenon DEF Poll
<1>8. CASE UNCHANGED vars  BY <1>8 DEF vars
<1>. HIDE DEF PollInv
<1>. QED
  BY <1>2, <1>3, <1>4, <1>5, <1>6, <1>7, <1>8, Steps, Zenon

-----------------------------------------------------------------------------
(* The theorems *)

\* The inductive invariant holds of every reachable state of a record.
THEOREM Invariance == Spec => []IInv
<1>1. IInv /\ [Next]_vars => IInv'
  BY TypeStep, LockStep, QueueStep, ExactStep, WorkStep, SentStep, PollStep DEF IInv
<1>. QED  BY InitInv, <1>1, PTL DEF Spec

\* Every field of the record, and of the requests that read it, keeps its type:
\* in particular the page is never sent the sentinel as a message.
THEOREM TypeCorrect == Spec => []TypeOK
<1>1. IInv => TypeOK
  BY DEF IInv
<1>. QED  BY Invariance, <1>1, PTL

\* emit, subscribe and finish together: every stream gets the whole log,
\* whenever it subscribes, and one sentinel.
THEOREM StreamsExact == Spec => []ExactStream
<1>1. IInv => ExactStream
  BY DEF IInv
<1>. QED  BY Invariance, <1>1, PTL

\* The "done" event of a stream comes after all messages, with the final
\* summary, and "done" with a report that is complete on disk.
THEOREM DoneFinal == Spec => []DoneIsFinal
<1>1. IInv => DoneIsFinal
  BY DEF IInv, DoneIsFinal, QueueInv, SentInv, WorkInv
<1>. QED  BY Invariance, <1>1, PTL

\* A status request never pairs a final status with fields of an earlier
\* moment, although it takes no lock.
THEOREM PollsConsistent == Spec => []PollConsistent
<1>1. IInv => PollConsistent
  BY DEF IInv, PollConsistent, PollInv
<1>. QED  BY Invariance, <1>1, PTL

\* Which streams have ended, as the abstract specification sees it.
Ended == [s \in Streams |-> spc[s] \in {"summary", "closed"}]

LEMMA StreamInit == Init => Stream!Init
<1>. SUFFICES ASSUME Init PROVE Stream!Init
  OBVIOUS
<1>1. (status # "running") = FALSE
  BY DEF Init
<1>2. ASSUME NEW s \in Streams PROVE (spc[s] \in {"summary", "closed"}) = FALSE
  <2>1. ~(spc[s] \in {"summary", "closed"})
    BY DEF Init
  <2>. QED  BY <2>1
<1>3. [s \in Streams |-> spc[s] \in {"summary", "closed"}] = [s \in Streams |-> FALSE]
  BY <1>2, Zenon
<1>. QED  BY <1>1, <1>3, Zenon DEF Init, Stream!Init

\* A step of the record is a step of the abstract stream or none.
LEMMA StreamStep == IInv /\ [Next]_vars => [Stream!Next]_(Stream!vars)
<1>. SUFFICES ASSUME TypeOK, LockInv, QueueInv, ExactStream, [Next]_vars
              PROVE  [Stream!Next]_(Stream!vars)
  BY DEF IInv
<1>0. /\ spc \in [Streams -> StreamPCs]
      /\ queue \in [Streams -> Seq(AllMessages \cup {End})]
      /\ received \in [Streams -> Seq(AllMessages)]
      /\ events \in Seq(AllMessages)
  BY DEF TypeOK
<1>. USE <1>0 DEF recordVars, workVars, streamVars, pollVars, Acquire, Release
<1>a. ASSUME UNCHANGED <<events, status, received, spc>> PROVE UNCHANGED Stream!vars
  BY <1>a, Zenon DEF Stream!vars
<1>b. ASSUME UNCHANGED <<events, status, received>>, Ended' = Ended
      PROVE  UNCHANGED Stream!vars
  BY <1>b, Zenon DEF Stream!vars, Ended
<1>c. ASSUME NEW s \in Streams, NEW pc \in {"register", "stream", "closed", "gone"},
             spc' = [spc EXCEPT ![s] = pc],
             pc \in {"summary", "closed"} <=> spc[s] \in {"summary", "closed"}
      PROVE  Ended' = Ended
  <2>1. ASSUME NEW t \in Streams
        PROVE  (spc'[t] \in {"summary", "closed"}) = (spc[t] \in {"summary", "closed"})
    BY <1>c
  <2>. QED  BY <2>1, Zenon DEF Ended
<1>1. ASSUME NEW m \in AllMessages, NEW loop, BeginEmit(m, loop),
             wpc \in {"scan", "fail"}
      PROVE  Stream!Publish(m)
  <2>1. status = "running" /\ status' = status
    BY <1>1 DEF BeginEmit, LockInv
  <2>2. events' = Append(events, m) /\ UNCHANGED <<received, spc>>
    BY <1>1 DEF BeginEmit
  <2>. QED  BY <2>1, <2>2 DEF Stream!Publish
<1>2. CASE EmitFailure
  BY <1>2, <1>1, Zenon DEF EmitFailure, Stream!Next, AllMessages
<1>3. ASSUME NEW m \in Messages, EmitProgress(m) PROVE Stream!Next
  BY <1>3, <1>1, Zenon DEF EmitProgress, Stream!Next, AllMessages
<1>4. CASE BeginFinish
  <2>1. status = "running" /\ status' # "running"
    BY <1>4 DEF BeginFinish, LockInv
  <2>2. (status # "running") = FALSE /\ (status' # "running") = TRUE
    BY <2>1, Zenon
  <2>3. UNCHANGED <<events, received, spc>>
    BY <1>4 DEF BeginFinish
  <2>. QED  BY <2>2, <2>3, Zenon DEF Stream!Next, Stream!Close
<1>5. CASE \/ ScopeRejected \/ ScopeAccepted \/ EndEmit \/ ScanReturns
           \/ OpenFile \/ WriteFile \/ ScanRaises \/ EndFinish
  <2>1. UNCHANGED <<events, status, received, spc>>
    BY <1>5 DEF ScopeRejected, ScopeAccepted, EndEmit, ScanReturns, OpenFile, WriteFile,
                ScanRaises, EndFinish
  <2>. QED  BY <1>a, <2>1, Zenon
<1>6. ASSUME NEW s \in Streams, Put(s) \/ PutEnd(s) PROVE UNCHANGED Stream!vars
  <2>1. UNCHANGED <<events, status, received, spc>>
    BY <1>6 DEF Put, PutEnd
  <2>. QED  BY <1>a, <2>1, Zenon
<1>7. ASSUME NEW s \in Streams, Subscribe(s) PROVE UNCHANGED Stream!vars
  <2>1. UNCHANGED <<events, status, received>>
    BY <1>7 DEF Subscribe
  <2>2. spc' = [spc EXCEPT ![s] = "register"] /\ spc[s] = "new"
    BY <1>7 DEF Subscribe
  <2>3. Ended' = Ended
    BY <2>2, <1>c
  <2>. QED  BY <1>b, <2>1, <2>3, Zenon
<1>8. ASSUME NEW s \in Streams, Register(s) PROVE UNCHANGED Stream!vars
  <2>1. UNCHANGED <<events, status, received>>
    BY <1>8 DEF Register
  <2>2. spc' = [spc EXCEPT ![s] = "stream"] /\ spc[s] = "register"
    BY <1>8 DEF Register
  <2>3. Ended' = Ended
    BY <2>2, <1>c
  <2>. QED  BY <1>b, <2>1, <2>3, Zenon
<1>9. ASSUME NEW s \in Streams, SendDone(s) PROVE UNCHANGED Stream!vars
  <2>1. UNCHANGED <<events, status, received>>
    BY <1>9 DEF SendDone
  <2>2. spc' = [spc EXCEPT ![s] = "closed"] /\ spc[s] = "summary"
    BY <1>9 DEF SendDone
  <2>3. Ended' = Ended
    BY <2>2, <1>c
  <2>. QED  BY <1>b, <2>1, <2>3, Zenon
<1>10. ASSUME NEW s \in Streams, Disconnect(s) PROVE UNCHANGED Stream!vars
  <2>1. UNCHANGED <<events, status, received>>
    BY <1>10 DEF Disconnect
  <2>2. spc' = [spc EXCEPT ![s] = "gone"] /\ spc[s] = "stream"
    BY <1>10 DEF Disconnect
  <2>3. Ended' = Ended
    BY <2>2, <1>c
  <2>. QED  BY <1>b, <2>1, <2>3, Zenon
<1>11. ASSUME NEW s \in Streams, SendMessage(s) PROVE Stream!Deliver(s)
  <2>1. /\ spc[s] = "stream" /\ queue[s] # << >> /\ Head(queue[s]) # End
        /\ received' = [received EXCEPT ![s] = Append(@, Head(queue[s]))]
        /\ UNCHANGED <<events, status, spc>>
    BY <1>11 DEF SendMessage
  <2>2. Len(received[s]) < Len(events) /\ Head(queue[s]) = events[Len(received[s]) + 1]
    <3>1. CASE status = "running" /\ s \in pending
      <4>1. events[Len(events)] \in AllMessages
        <5>1. events # << >>
          BY <3>1 DEF LockInv, Putting
        <5>. QED  BY <5>1
      <4>2. Append(received[s] \o queue[s], events[Len(events)]) = events
        BY <2>1, <3>1 DEF ExactStream
      <4>. QED  BY <2>1, <4>1, <4>2, NoEndHeld
    <3>2. CASE \/ status = "running" /\ s \notin pending
               \/ status # "running" /\ s \in pending
      <4>1. received[s] \o queue[s] = events
        BY <2>1, <3>2 DEF ExactStream
      <4>2. Failure \in AllMessages
        BY DEF AllMessages
      <4>. QED  BY <2>1, <4>1, <4>2, NoEndHeld
    <3>3. CASE status # "running" /\ s \notin pending
      <4>1. received[s] \o queue[s] = Append(events, End)
        BY <2>1, <3>3 DEF ExactStream
      <4>. QED  BY <2>1, <4>1, NextHeld
    <3>. QED  BY <3>1, <3>2, <3>3
  <2>3. received' = [received EXCEPT ![s] = Append(@, events[Len(@) + 1])]
    BY <2>1, <2>2
  <2>4. ~[t \in Streams |-> spc[t] \in {"summary", "closed"}][s]
    BY <2>1
  <2>. QED  BY <2>1, <2>2, <2>3, <2>4 DEF Stream!Deliver
<1>12. ASSUME NEW s \in Streams, TakeEnd(s) PROVE Stream!EndStream(s)
  <2>1. /\ spc[s] = "stream" /\ spc' = [spc EXCEPT ![s] = "summary"]
        /\ UNCHANGED <<events, status, received>>
    BY <1>12 DEF TakeEnd
  <2>2. received[s] = events /\ status # "running"
    BY <1>12, EndTaken
  <2>3. ~[t \in Streams |-> spc[t] \in {"summary", "closed"}][s]
    BY <2>1
  <2>4. \A t \in Streams \ {s} : spc'[t] = spc[t]
    BY <2>1
  <2>5. (spc'[s] \in {"summary", "closed"}) = TRUE
    <3>1. spc'[s] \in {"summary", "closed"}
      BY <2>1
    <3>. QED  BY <3>1, Zenon
  <2>6. [t \in Streams |-> spc'[t] \in {"summary", "closed"}]
          = [[t \in Streams |-> spc[t] \in {"summary", "closed"}] EXCEPT ![s] = TRUE]
    BY <2>4, <2>5, Zenon
  <2>. QED  BY <2>1, <2>2, <2>3, <2>6, Zenon DEF Stream!EndStream
<1>13. ASSUME NEW p \in Polls, Poll(p) PROVE UNCHANGED Stream!vars
  <2>1. UNCHANGED <<events, status, received, spc>>
    BY <1>13 DEF Poll, ReadStatus, ReadError, ReadReport
  <2>. QED  BY <1>a, <2>1, Zenon
<1>14. CASE UNCHANGED vars
  <2>1. UNCHANGED <<events, status, received, spc>>
    BY <1>14 DEF vars
  <2>. QED  BY <1>a, <2>1, Zenon
<1>15. ASSUME NEW s \in Streams, Stream!Deliver(s) \/ Stream!EndStream(s) PROVE Stream!Next
  BY <1>15, Zenon DEF Stream!Next
<1>. QED
  BY <1>2, <1>3, <1>4, <1>5, <1>6, <1>7, <1>8, <1>9, <1>10, <1>11, <1>12,
     <1>13, <1>14, <1>15, Steps, Zenon

\* A record's event stream does what EventStream promises: emit publishes,
\* finish closes, the loop in stream() delivers and ends each stream.
THEOREM ImplementsEventStream == Spec => StreamSpec
<1>. QED
  BY StreamInit, StreamStep, Invariance, PTL DEF Spec, StreamSpec, Stream!Spec

-----------------------------------------------------------------------------
(* The record's thread, as ScanStore reduces it *)

\* A step that leaves the fields ScanStore keeps, and its point in _run, is
\* none there.
LEMMA StoreStutter ==
  ASSUME UNCHANGED <<status, report, file>>, StorePC' = StorePC
  PROVE  UNCHANGED Store!storeState
BY Zenon DEF Store!storeState, Store!storeVars, Store!diskVars, Store!listVars

\* A function on the one id is changed by changing its value.
LEMMA OneChange ==
  ASSUME NEW a, NEW b
  PROVE  /\ [s \in {Ours} |-> b] = [[s \in {Ours} |-> a] EXCEPT ![Ours] = b]
         /\ [s \in {Ours} |-> a][Ours] = a
OBVIOUS

\* The thread starts where Start leaves it, and a step of the record is a step
\* of it or none.
LEMMA StoreInit ==
  Init => status = "running" /\ ~report /\ file = "absent" /\ StorePC = "scan"
BY DEF Init, StorePC

LEMMA StoreStep == IInv /\ [Next]_vars => [Store!Worker(Ours)]_(Store!storeState)
<1>. SUFFICES ASSUME TypeOK, LockInv, [Next]_vars
              PROVE  [Store!Worker(Ours)]_(Store!storeState)
  BY DEF IInv
<1>. USE DEF recordVars, workVars, streamVars, pollVars, Acquire, Release
<1>a. ASSUME NEW a, NEW b, StorePC = a, StorePC' = b
      PROVE  /\ Store!Goto(Ours, b)
             /\ [s \in {Ours} |-> StorePC][Ours] = a
  BY <1>a, OneChange DEF Store!Goto
<1>b. ASSUME UNCHANGED <<status, report, file, wpc>> PROVE UNCHANGED Store!storeState
  BY <1>b, StoreStutter DEF StorePC
<1>1. CASE ScopeRejected \/ ScanRaises
  <2>1. /\ StorePC \in {"scan", "open", "write"} /\ StorePC' = "fail"
        /\ UNCHANGED <<status, report, file>>
    BY <1>1 DEF ScopeRejected, ScanRaises, StorePC
  <2>2. Store!ScanFails(Ours) \/ Store!PersistFails(Ours)
    BY <2>1, <1>a DEF Store!ScanFails, Store!PersistFails, Store!diskVars, Store!listVars
  <2>. QED  BY <2>2, Zenon DEF Store!Worker
<1>2. CASE ScanReturns
  <2>1. /\ StorePC = "scan" /\ StorePC' = "open"
        /\ report' = TRUE /\ UNCHANGED <<status, file>>
    BY <1>2 DEF ScanReturns, StorePC
  <2>2. [s \in {Ours} |-> report'] = [[s \in {Ours} |-> report] EXCEPT ![Ours] = TRUE]
    BY <2>1, OneChange
  <2>3. Store!ScanReturns(Ours)
    BY <2>1, <2>2, <1>a DEF Store!ScanReturns, Store!diskVars, Store!listVars
  <2>. QED  BY <2>3, Zenon DEF Store!Worker
<1>3. CASE OpenFile
  <2>1. /\ StorePC = "open" /\ StorePC' = "write"
        /\ file' = "partial" /\ UNCHANGED <<status, report>>
    BY <1>3 DEF OpenFile, StorePC
  <2>2. Store!OpenFile(Ours)
    BY <2>1, OneChange, <1>a DEF Store!OpenFile, Store!listVars
  <2>. QED  BY <2>2, Zenon DEF Store!Worker
<1>4. CASE WriteFile
  <2>1. /\ StorePC = "write" /\ StorePC' = "finish"
        /\ file' = "complete" /\ UNCHANGED <<status, report>>
    BY <1>4 DEF WriteFile, StorePC
  <2>2. Store!WriteFile(Ours)
    BY <2>1, OneChange, <1>a DEF Store!WriteFile, Store!listVars
  <2>. QED  BY <2>2, Zenon DEF Store!Worker
<1>5. CASE BeginFinish /\ wpc = "finishDone"
  <2>1. /\ StorePC = "finish" /\ StorePC' = "end" /\ status = "running"
        /\ status' = "done" /\ UNCHANGED <<report, file>>
    BY <1>5 DEF BeginFinish, StorePC, LockInv
  <2>2. Store!FinishDone(Ours)
    BY <2>1, OneChange, <1>a DEF Store!FinishDone, Store!diskVars, Store!listVars
  <2>. QED  BY <2>2, Zenon DEF Store!Worker
<1>6. CASE BeginFinish /\ wpc = "finishError"
  <2>1. /\ StorePC = "fail" /\ StorePC' = "end" /\ status = "running"
        /\ status' = "error" /\ UNCHANGED <<report, file>>
    BY <1>6 DEF BeginFinish, StorePC, LockInv
  <2>2. Store!FinishError(Ours)
    BY <2>1, OneChange, <1>a DEF Store!FinishError, Store!diskVars, Store!listVars
  <2>. QED  BY <2>2, Zenon DEF Store!Worker
\* The worker's loops and its way into them change nothing ScanStore keeps.
<1>7. CASE \/ ScopeAccepted \/ EmitFailure \/ EndEmit \/ EndFinish
           \/ \E m \in Messages : EmitProgress(m)
  <2>1. StorePC' = StorePC /\ UNCHANGED <<status, report, file>>
    BY <1>7 DEF ScopeAccepted, EmitFailure, EmitProgress, BeginEmit, EndEmit,
                EndFinish, StorePC
  <2>. QED  BY <2>1, StoreStutter
<1>8. CASE \/ \E s \in Streams : Put(s) \/ PutEnd(s)
           \/ \E p \in Polls : Poll(p)
           \/ UNCHANGED vars
  BY <1>8, <1>b DEF Put, PutEnd, Poll, ReadStatus, ReadError, ReadReport, vars
<1>9. CASE \E s \in Streams : \/ Subscribe(s) \/ Register(s) \/ SendMessage(s)
                             \/ TakeEnd(s) \/ SendDone(s) \/ Disconnect(s)
  BY <1>9, <1>b DEF Subscribe, Register, SendMessage, TakeEnd, SendDone, Disconnect
<1>10. BeginFinish => wpc \in {"finishDone", "finishError"}
  BY DEF BeginFinish
<1>. QED
  BY <1>1, <1>2, <1>3, <1>4, <1>5, <1>6, <1>7, <1>8, <1>9, <1>10, Steps, Zenon

\* _run with _persist, with everything the record does around it, does what
\* the thread of ScanStore does: what is shown there of the order of file and
\* status, and of a kill between any two steps, is about this thread.
THEOREM ImplementsStoredWorker == Spec => WorkerAsStored
<1>. QED
  BY StoreInit, StoreStep, Invariance, PTL DEF Spec, WorkerAsStored
=============================================================================
