---------------------------- MODULE MCLanguageModel ----------------------------
(* Two runs and one setting with two values.                                   *)
EXTENDS LanguageModel, TLC

CONSTANTS r1, r2, model, old, new

MCEnv == [k \in Keys |-> old]
RunSymmetry == Permutations({r1, r2})
===============================================================================
