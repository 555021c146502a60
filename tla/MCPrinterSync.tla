--------------------------- MODULE MCPrinterSync ---------------------------
(* Instances of PrinterSync for TLC. *)
EXTENDS PrinterSync, TLC

CONSTANTS p1, p2, gcodeFile

\* Two jobs of the same name: their plates are uploaded under one name.
SharedName == [p \in {p1, p2} |-> gcodeFile]

Symmetry == Permutations({p1, p2})
=============================================================================
