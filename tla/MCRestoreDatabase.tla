-------------------------- MODULE MCRestoreDatabase --------------------------
(* Two restores of one database, started in the same minute or in different *)
(* ones, each with up to one injected failure.                              *)
EXTENDS RestoreDatabase, TLC

CONSTANTS a1, a2

MCAsides == {a1, a2}
=============================================================================
