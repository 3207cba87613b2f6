-------------------------- MODULE MCShortcutDictation --------------------------
(***************************************************************************)
(* Values for model-checking ShortcutDictation.                            *)
(***************************************************************************)
EXTENDS ShortcutDictation, TLC

WorkerSymmetry == Permutations(Workers)
=============================================================================
