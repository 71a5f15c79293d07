------------------------------ MODULE MCTranscript -----------------------------
(* Transcript with two runs that may share their conversation.                *)
EXTENDS Transcript, TLC

CONSTANTS r1, r2

RunSymmetry == Permutations({r1, r2})
================================================================================
