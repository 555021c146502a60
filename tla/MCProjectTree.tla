--------------------------- MODULE MCProjectTree ---------------------------
(* Projects that exist at the start are alike, and so are those that do    *)
(* not, files and requests.                                                *)
EXTENDS ProjectNeeds, TLC

Symmetry == Permutations(Existing) \cup Permutations(Projects \ Existing)
            \cup Permutations(Files) \cup Permutations(Requests)

=============================================================================
