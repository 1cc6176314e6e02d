---------------------------- MODULE MCConfigApply ----------------------------
(***************************************************************************)
(* Two requests: two that run side by side, or an apply and the revert     *)
(* that takes it back.                                                     *)
(***************************************************************************)
EXTENDS ConfigApply

MCTwo  == 1..2

=============================================================================
