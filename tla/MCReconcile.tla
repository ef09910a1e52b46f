---------------------------- MODULE MCReconcile ----------------------------
(* Instances of Reconcile for TLC. *)
EXTENDS Reconcile, TLC
=============================================================================
