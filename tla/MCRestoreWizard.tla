-------------------------- MODULE MCRestoreWizard --------------------------
(* Instances of RestoreWizard for TLC. *)
EXTENDS RestoreWizard, TLC

(* Domains are interchangeable. *)
Symmetry == Permutations(Domains)
=============================================================================
