---------------------------- MODULE EventStream ----------------------------
(***************************************************************************)
(* What a scan record promises the pages that watch it: one log of         *)
(* progress messages that only grows until the scan ends, and for every    *)
(* stream the messages of that log, each exactly once and in order,        *)
(* whenever the stream was opened, followed by a single end of stream.     *)
(***************************************************************************)
EXTENDS Naturals, Sequences

CONSTANTS Streams,    \* the event streams that may be opened
          Messages    \* the progress messages

VARIABLES log,        \* every message of the scan, in order
          closed,     \* the scan has ended
          seen,       \* seen[s]: what stream s was sent
          ended       \* ended[s]: stream s was told that the scan has ended

vars == <<log, closed, seen, ended>>

Init == /\ log = << >>
        /\ closed = FALSE
        /\ seen = [s \in Streams |-> << >>]
        /\ ended = [s \in Streams |-> FALSE]

Publish(m) == /\ ~closed
              /\ log' = Append(log, m)
              /\ UNCHANGED <<closed, seen, ended>>

Close == /\ ~closed
         /\ closed' = TRUE
         /\ UNCHANGED <<log, seen, ended>>

\* The next message of the log, and no other.
Deliver(s) == /\ ~ended[s]
              /\ Len(seen[s]) < Len(log)
              /\ seen' = [seen EXCEPT ![s] = Append(@, log[Len(@) + 1])]
              /\ UNCHANGED <<log, closed, ended>>

\* A stream ends once, after the scan has, with nothing left to deliver.
EndStream(s) == /\ closed
                /\ ~ended[s]
                /\ seen[s] = log
                /\ ended' = [ended EXCEPT ![s] = TRUE]
                /\ UNCHANGED <<log, closed, seen>>

Next == \/ \E m \in Messages : Publish(m)
        \/ Close
        \/ \E s \in Streams : Deliver(s) \/ EndStream(s)

Spec == Init /\ [][Next]_vars
=============================================================================
