-------------------------- MODULE MCProfileImport --------------------------
(***************************************************************************)
(* Instances of ProfileImport small enough for TLC: of three names, the    *)
(* second is also one that files state as their former name, and its own   *)
(* file may leave its type out.                                            *)
(***************************************************************************)
EXTENDS ProfileImport

CONSTANTS base, user, leaf

Shown == [n \in {base, user, leaf} |-> CASE n = base -> 2 [] n = user -> 3 [] n = leaf -> 1]
OneUntyped == [n \in {base, user, leaf} |-> IF n = user THEN NoValue ELSE "process"]
=============================================================================
