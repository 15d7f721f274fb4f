----------------------------- MODULE MCRecorder -----------------------------
(***************************************************************************)
(* Recorder with two callers, which are interchangeable.                   *)
(***************************************************************************)
EXTENDS Recorder, TLC

CONSTANTS c1, c2
MCCallers == {c1, c2}
MCSymmetry == Permutations(MCCallers)
=============================================================================
