------------------------------ MODULE DnsName ------------------------------
(***************************************************************************)
(* _decode_name (dnsclient.py): reading one name of a DNS message, bytes   *)
(* that hold labels and pointers to labels elsewhere in the message, which *)
(* may lead anywhere, also round in a circle or out of the message. One    *)
(* pass of the loop is one step.                                           *)
(***************************************************************************)
EXTENDS Naturals, Sequences

CONSTANT MaxPointers  \* pointers followed before the name is given up, 64

VARIABLES
  msg,     \* the message from the name's offset on: a sequence of bytes
  name,    \* where the decoder is: "off", "loop", or how it ended
  pos,     \* the next byte to look at, counted from 0
  end,     \* where the caller goes on, once a pointer has been met
  seen,    \* the pointers followed
  labels   \* the labels read

nameVars == <<msg, name, pos, end, seen, labels>>

NoEnd == 0   \* None: no name ends at 0

Off ==
  /\ msg = << >> /\ name = "off"
  /\ pos = 0 /\ end = NoEnd /\ seen = 0 /\ labels = << >>

Start(bytes) ==
  /\ msg' = bytes /\ name' = "loop"
  /\ pos' = 0 /\ end' = NoEnd /\ seen' = 0 /\ labels' = << >>

Stop ==
  /\ msg' = << >> /\ name' = "off"
  /\ pos' = 0 /\ end' = NoEnd /\ seen' = 0 /\ labels' = << >>

-----------------------------------------------------------------------------
Inside(i) == i < Len(msg)
Byte(i) == msg[i + 1]
IsPointer(b) == b >= 192

\* "truncated name"
Truncated ==
  /\ name = "loop" /\ ~Inside(pos)
  /\ name' = "DnsError"
  /\ UNCHANGED <<msg, pos, end, seen, labels>>

Root ==
  /\ name = "loop" /\ Inside(pos) /\ Byte(pos) = 0
  /\ pos' = pos + 1
  /\ name' = "decoded"
  /\ UNCHANGED <<msg, end, seen, labels>>

\* Bytes of 64 to 191, which no name has, are read as lengths too. A slice
\* stops at the end of the message.
Label ==
  /\ name = "loop" /\ Inside(pos) /\ Byte(pos) > 0 /\ ~IsPointer(Byte(pos))
  /\ labels' = Append(labels, SubSeq(msg, pos + 2,
                 IF Inside(pos + Byte(pos)) THEN pos + 1 + Byte(pos) ELSE Len(msg)))
  /\ pos' = pos + 1 + Byte(pos)
  /\ UNCHANGED <<msg, name, end, seen>>

AtPointer == name = "loop" /\ Inside(pos) /\ IsPointer(Byte(pos))

\* Its second byte is looked for beyond the message.
HalfPointer ==
  /\ AtPointer /\ ~Inside(pos + 1)
  /\ name' = "IndexError"
  /\ UNCHANGED <<msg, pos, end, seen, labels>>

\* Mutant of Pointer: the caller goes on after the last pointer.
PointerMovingEnd ==
  /\ AtPointer /\ Inside(pos + 1)
  /\ end' = pos + 2
  /\ pos' = (Byte(pos) % 64) * 256 + Byte(pos + 1)
  /\ seen' = seen + 1
  /\ name' = IF seen' > MaxPointers THEN "DnsError" ELSE name
  /\ UNCHANGED <<msg, labels>>

\* Mutant of Pointer: no count of the pointers followed.
PointerUncounted ==
  /\ AtPointer /\ Inside(pos + 1)
  /\ end' = IF end = NoEnd THEN pos + 2 ELSE end
  /\ pos' = (Byte(pos) % 64) * 256 + Byte(pos + 1)
  /\ UNCHANGED <<msg, name, seen, labels>>

\* The first one is where the caller goes on.
Pointer ==
  /\ AtPointer /\ Inside(pos + 1)
  /\ end' = IF end = NoEnd THEN pos + 2 ELSE end
  /\ pos' = (Byte(pos) % 64) * 256 + Byte(pos + 1)
  /\ seen' = seen + 1
  /\ name' = IF seen' > MaxPointers THEN "DnsError" ELSE name
  /\ UNCHANGED <<msg, labels>>

NameStep == Truncated \/ Root \/ Label \/ HalfPointer \/ Pointer

-----------------------------------------------------------------------------
\* What the caller gets beside the name.
NextOffset == IF end = NoEnd THEN pos ELSE end

\* Where the name at the offset ends by the wire format: after its labels, at
\* a root or at the first pointer, wherever that points.
WireEnd ==
  LET e[i \in 0 .. Len(msg)] ==
        IF ~Inside(i) THEN Len(msg)
        ELSE IF Byte(i) = 0 THEN i + 1
        ELSE IF IsPointer(Byte(i)) THEN i + 2
        ELSE IF Inside(i + Byte(i)) THEN e[i + 1 + Byte(i)] ELSE Len(msg)
  IN e[0]

\* The types of the variables.
NameTypeOK ==
  /\ msg \in Seq(0 .. 255)
  /\ name \in {"off", "loop", "decoded", "DnsError", "IndexError"}
  /\ pos \in Nat /\ end \in Nat
  /\ seen \in 0 .. MaxPointers + 1
  /\ labels \in Seq(Seq(0 .. 255))

\* "Follows compression pointers but never advances the caller's cursor past
\* the FIRST pointer encountered" (dnsclient.py:37-38): wherever the pointers
\* of a name lead, what follows it is read from where the name itself ends.
CursorExact == name = "decoded" => NextOffset = WireEnd
=============================================================================
