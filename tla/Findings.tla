------------------------------ MODULE Findings ------------------------------
(***************************************************************************)
(* The severities of findings.py, by weight, and the worst of a report.    *)
(***************************************************************************)
EXTENDS Naturals

SEVERITY == [critical |-> 4, high |-> 3, medium |-> 2, low |-> 1, info |-> 0]

Weights == {SEVERITY[s] : s \in DOMAIN SEVERITY}

\* "info" when there is no finding at all.
Worst(weights) ==
  IF weights = {} THEN "info"
  ELSE CHOOSE s \in DOMAIN SEVERITY :
         SEVERITY[s] \in weights /\ \A w \in weights : w <= SEVERITY[s]
=============================================================================
