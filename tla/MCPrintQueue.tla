---------------------------- MODULE MCPrintQueue ----------------------------
(***************************************************************************)
(* Instances of PrintQueue small enough for TLC.                           *)
(***************************************************************************)
EXTENDS JobStatus, TLC

CONSTANTS j1, j2, p1, p2, s1, s2

\* One job of two plates on one printer.
OneJob       == [pl \in {1, 2} |-> j1]
OneJobFits   == [j \in {j1} |-> {p1}]

Symmetry == Permutations(Starters) \cup Permutations(Printers)
OneJobFitsBoth == [j \in {j1} |-> {p1, p2}]
=============================================================================
