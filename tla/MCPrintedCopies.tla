-------------------------- MODULE MCPrintedCopies --------------------------
(* A job of one part with two meshes, printed twice: objects 1 and 2 are   *)
(* the first mesh, 3 and 4 the second one.  All on one plate, a plate for  *)
(* each copy, both copies split over two plates, and an object that lies   *)
(* on no plate.                                                            *)
EXTENDS PrintedCopies, TLC

TwoOfTwoMeshes == << [quantity |-> 2, meshes |-> 2] >>

FourLayouts == {<< 1, 1, 1, 1 >>, << 1, 2, 1, 2 >>, << 1, 2, 2, 1 >>, << 1, 2, 1, 0 >>}

(* Users are alike. *)
Symmetry == Permutations(Users)
============================================================================
