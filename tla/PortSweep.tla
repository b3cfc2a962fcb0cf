----------------------------- MODULE PortSweep -----------------------------
(***************************************************************************)
(* PortChecker._sweep (checkers/ports.py): one connection attempt for each *)
(* common port, each in a thread of a ThreadPoolExecutor, collected one    *)
(* after the other by the thread that runs the checker.                    *)
(*                                                                         *)
(* The executor is the library's: submit queues the call and sees that a   *)
(* thread is there for it, leaving the with block waits for all of them.   *)
(***************************************************************************)

CONSTANT CommonPorts

VARIABLES
  sweep,  \* where _sweep is
  left,   \* the ports that the loop it is in has still to go through
  probe,  \* probe[p]: how far tcp_connect has come with port p
  swept   \* found, its local variable

sweepVars == <<sweep, left, probe, swept>>

Init ==
  /\ sweep = "submit"
  /\ left = CommonPorts
  /\ probe = [p \in CommonPorts |-> "none"]
  /\ swept = {}

-----------------------------------------------------------------------------
(* tcp_connect, in a thread *)

Begin(p) ==
  /\ probe[p] = "queued"
  /\ probe' = [probe EXCEPT ![p] = "connecting"]
  /\ UNCHANGED <<sweep, left, swept>>

\* The socket is made, and its timeout set, outside of the try: the future
\* gets the exception, an OSError when there is no descriptor left.
CannotBegin(p) ==
  /\ probe[p] = "queued"
  /\ \E outcome \in {"OSError", "exception"} : probe' = [probe EXCEPT ![p] = outcome]
  /\ UNCHANGED <<sweep, left, swept>>

\* It is accepted; or refused, filtered until the timeout, unreachable.
Answered(p) ==
  /\ probe[p] = "connecting"
  /\ \E outcome \in {"open", "closed"} : probe' = [probe EXCEPT ![p] = outcome]
  /\ UNCHANGED <<sweep, left, swept>>

Thread(p) == Begin(p) \/ CannotBegin(p) \/ Answered(p)

-----------------------------------------------------------------------------
(* _sweep *)

Submit(p) ==
  /\ sweep = "submit" /\ p \in left
  /\ probe' = [probe EXCEPT ![p] = "queued"]
  /\ IF left = {p} THEN sweep' = "collect" /\ left' = CommonPorts
                   ELSE left' = left \ {p} /\ UNCHANGED sweep
  /\ UNCHANGED swept

\* No thread can be started: submit raises, but has queued the call, which a
\* thread that was started for another port may take.
SubmitFails(p) ==
  /\ sweep = "submit" /\ p \in left
  /\ probe' = IF left = CommonPorts THEN probe ELSE [probe EXCEPT ![p] = "queued"]
  /\ sweep' = "raising"
  /\ UNCHANGED <<left, swept>>

\* Mutant of Collect: the first port that fails ends the loop.
CollectUntilError(p) ==
  /\ sweep = "collect" /\ p \in left
  /\ probe[p] \in {"open", "closed", "OSError"}
  /\ swept' = IF probe[p] = "open" THEN swept \cup {p} ELSE swept
  /\ left' = IF probe[p] = "OSError" THEN {} ELSE left \ {p}
  /\ UNCHANGED <<sweep, probe>>

\* fut.result() waits for the thread; an OSError is passed over.
Collect(p) ==
  /\ sweep = "collect" /\ p \in left
  /\ probe[p] \in {"open", "closed", "OSError"}
  /\ swept' = IF probe[p] = "open" THEN swept \cup {p} ELSE swept
  /\ left' = left \ {p}
  /\ UNCHANGED <<sweep, probe>>

\* Any other exception leaves the loop.
CollectRaises(p) ==
  /\ sweep = "collect" /\ p \in left
  /\ probe[p] = "exception"
  /\ sweep' = "raising"
  /\ UNCHANGED <<left, probe, swept>>

\* Mutant of Joined: shutdown(wait=False).
JoinedAtOnce == TRUE

\* No thread has anything left to do.
Joined == \A p \in CommonPorts : probe[p] \notin {"queued", "connecting"}

\* The with block is left, by its end or by the exception.
Leave ==
  /\ Joined
  /\ \/ sweep = "collect" /\ left = {} /\ sweep' = "returned"
     \/ sweep = "raising" /\ sweep' = "raised"
  /\ UNCHANGED <<left, probe, swept>>

-----------------------------------------------------------------------------
Next ==
  \/ \E p \in CommonPorts :
       Thread(p) \/ Submit(p) \/ SubmitFails(p) \/ Collect(p) \/ CollectRaises(p)
  \/ Leave

Spec == Init /\ [][Next]_sweepVars

Ended == sweep \in {"returned", "raised"}

\* The engine goes on; the next sweep starts from nothing.
Restart ==
  /\ sweep' = "submit"
  /\ left' = CommonPorts
  /\ probe' = [p \in CommonPorts |-> "none"]
  /\ swept' = {}

-----------------------------------------------------------------------------
Outcomes == {"open", "closed", "OSError", "exception"}

\* The types of the variables.
TypeOK ==
  /\ sweep \in {"submit", "collect", "raising", "returned", "raised"}
  /\ left \subseteq CommonPorts /\ swept \subseteq CommonPorts
  /\ probe \in [CommonPorts -> {"none", "queued", "connecting"} \cup Outcomes]

\* A sweep that returns has found exactly the ports that accepted: each answer
\* is credited to its own port, in whatever order the threads end, and a port
\* that fails loses no other. (ports.py:76-82.)
FoundExact == sweep = "returned" => swept = {p \in CommonPorts : probe[p] = "open"}

\* When _sweep is over, returned or raised, no thread of it is connecting or
\* will: the target is not touched again behind the back of the engine, which
\* may have gone on to the next one. (The with block, ports.py:75.)
NothingLeftBehind ==
  Ended => \A p \in CommonPorts : probe[p] \notin {"queued", "connecting"}
=============================================================================
