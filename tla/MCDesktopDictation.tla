-------------------------- MODULE MCDesktopDictation --------------------------
(***************************************************************************)
(* Values for model-checking DesktopDictation.                             *)
(***************************************************************************)
EXTENDS DesktopDictation, TLC

(* Commands run the same code, and so do the workers.                      *)
DesktopSymmetry == Permutations(Commands) \cup Permutations(Pumps)
=============================================================================
