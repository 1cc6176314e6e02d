---------------------------- MODULE MCRolloutView ----------------------------
(* RolloutView with one Deployment that starts the new pod first, and one    *)
(* StatefulSet that ends the old one first.                                  *)
EXTENDS RolloutView
=============================================================================
