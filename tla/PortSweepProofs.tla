-------------------------- MODULE PortSweepProofs --------------------------
(***************************************************************************)
(* Proofs about PortSweep, for every set of ports: whatever the order in   *)
(* which calls are submitted, threads run and results are collected, and   *)
(* whatever fails on the way.                                              *)
(***************************************************************************)
EXTENDS PortSweep, TLAPS

Taken == {"open", "closed", "OSError"}

\* What the loop has gone through is in the futures, resp. in found.
SweepInv ==
  /\ TypeOK
  /\ sweep = "submit" => /\ swept = {}
                         /\ \A p \in CommonPorts : probe[p] = "none" <=> p \in left
  /\ sweep \in {"collect", "returned"} =>
       \A p \in CommonPorts :
         /\ probe[p] # "none"
         /\ p \notin left => probe[p] \in Taken
         /\ p \in swept <=> p \notin left /\ probe[p] = "open"
  /\ sweep = "returned" => left = {}
  /\ Ended => Joined

LEMMA InitSweepInv == Init => SweepInv
BY DEF Init, SweepInv, TypeOK, Ended

LEMMA ThreadInv ==
  ASSUME SweepInv, NEW p \in CommonPorts, Thread(p)
  PROVE  SweepInv'
<1>1. /\ ~Ended /\ UNCHANGED <<sweep, left, swept>>
      /\ probe[p] \in {"queued", "connecting"}
  BY DEF SweepInv, Ended, Joined, Thread, Begin, CannotBegin, Answered
<1>2. PICK outcome \in {"connecting"} \cup Outcomes : probe' = [probe EXCEPT ![p] = outcome]
  BY DEF Thread, Begin, CannotBegin, Answered, Outcomes
<1>3. TypeOK'
  BY <1>1, <1>2 DEF SweepInv, TypeOK
<1>4. \A q \in CommonPorts : /\ q # p => probe'[q] = probe[q]
                             /\ q = p => probe'[q] \in {"connecting"} \cup Outcomes
  BY <1>2 DEF SweepInv, TypeOK
\* A port the loop has done with has nothing left to run.
<1>5. sweep = "collect" => p \in left
  BY <1>1 DEF SweepInv, Taken
<1>. QED  BY <1>1, <1>3, <1>4, <1>5 DEF SweepInv, Ended, Outcomes

LEMMA LoopInv ==
  ASSUME SweepInv, NEW p \in CommonPorts,
         Submit(p) \/ SubmitFails(p) \/ Collect(p) \/ CollectRaises(p)
  PROVE  SweepInv'
<1>1. CASE Submit(p)
  <2>1. TypeOK'
    BY <1>1 DEF Submit, SweepInv, TypeOK
  <2>2. \A q \in CommonPorts : probe'[q] = IF q = p THEN "queued" ELSE probe[q]
    BY <1>1 DEF Submit, SweepInv, TypeOK
  <2>3. CASE left = {p}
    BY <1>1, <2>1, <2>2, <2>3 DEF Submit, SweepInv, Ended
  <2>4. CASE left # {p}
    BY <1>1, <2>1, <2>2, <2>4 DEF Submit, SweepInv, Ended
  <2>. QED  BY <2>3, <2>4
<1>2. CASE SubmitFails(p)
  BY <1>2 DEF SubmitFails, SweepInv, TypeOK, Ended
<1>3. CASE Collect(p)
  <2>1. TypeOK'
    BY <1>3 DEF Collect, SweepInv, TypeOK
  <2>. QED  BY <1>3, <2>1 DEF Collect, SweepInv, Taken, Ended
<1>4. CASE CollectRaises(p)
  BY <1>4 DEF CollectRaises, SweepInv, TypeOK, Ended
<1>. QED  BY <1>1, <1>2, <1>3, <1>4

LEMMA LeaveInv == ASSUME SweepInv, Leave PROVE SweepInv'
<1>1. TypeOK'
  BY DEF Leave, SweepInv, TypeOK
<1>2. Joined'
  BY DEF Leave, Joined
<1>. QED  BY <1>1, <1>2 DEF Leave, SweepInv, Ended

\* The inductive invariant of one sweep.
THEOREM SweepInvariance == Spec => []SweepInv
<1>1. SweepInv /\ [Next]_sweepVars => SweepInv'
  <2>. SUFFICES ASSUME SweepInv, [Next]_sweepVars PROVE SweepInv'
    OBVIOUS
  <2>1. ASSUME UNCHANGED sweepVars PROVE SweepInv'
    BY <2>1 DEF sweepVars, SweepInv, TypeOK, Ended, Joined
  <2>. QED  BY <2>1, ThreadInv, LoopInv, LeaveInv DEF Next
<1>. QED  BY InitSweepInv, <1>1, PTL DEF Spec

\* A sweep that returns has found exactly the ports that accepted, in whatever
\* order their threads ended and whichever of the others failed.
THEOREM SweepFindsWhatAccepts == Spec => []FoundExact
<1>1. SweepInv => FoundExact
  BY DEF SweepInv, TypeOK, FoundExact
<1>. QED  BY SweepInvariance, <1>1, PTL

\* Once the sweep has returned or raised, none of its threads touches the
\* target any more.
THEOREM SweepLeavesNothing == Spec => []NothingLeftBehind
<1>1. SweepInv => NothingLeftBehind
  BY DEF SweepInv, NothingLeftBehind, Joined
<1>. QED  BY SweepInvariance, <1>1, PTL
=============================================================================
