--------------------------- MODULE MCHistoryPage ---------------------------
(* Small instances of HistoryPage for TLC. *)
EXTENDS HistoryPage, TLC

\* Scans are interchangeable.
Symmetry == Permutations(Scans)
=============================================================================
