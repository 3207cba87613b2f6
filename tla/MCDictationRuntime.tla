-------------------------- MODULE MCDictationRuntime --------------------------
(***************************************************************************)
(* Values for model-checking DictationRuntime.                             *)
(***************************************************************************)
EXTENDS DictationRuntime, TLC

(* Threads run the same code and only their identity differs.              *)
ThreadSymmetry == Permutations(Threads)
=============================================================================
