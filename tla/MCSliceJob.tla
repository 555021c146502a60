----------------------------- MODULE MCSliceJob -----------------------------
(* Instances of SliceJob for TLC: parts that have different presets at      *)
(* first.                                                                   *)
EXTENDS SliceJob, TLC

CONSTANTS a, b, fine, coarse, red

TwoPresets == a :> [preset |-> fine, filament |-> red] @@ b :> [preset |-> coarse, filament |-> red]
=============================================================================
