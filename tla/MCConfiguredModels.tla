-------------------------- MODULE MCConfiguredModels --------------------------
(* Small instances of ConfiguredModels for TLC.                            *)
EXTENDS ConfiguredModels, TLC

MCSymmetry == Permutations(Workers) \cup Permutations(Models)
=============================================================================
