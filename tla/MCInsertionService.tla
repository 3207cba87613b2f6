-------------------------- MODULE MCInsertionService --------------------------
(* Small instances of InsertionService for TLC.                            *)
EXTENDS InsertionService

MCTexts == {<<>>, <<"a", "a">>, <<"a", "LF">>, <<"BEL">>}
=============================================================================
