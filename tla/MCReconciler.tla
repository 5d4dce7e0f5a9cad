---------------------------- MODULE MCReconciler ----------------------------
(***************************************************************************)
(* Reconciler, instantiated for TLC.                                       *)
(***************************************************************************)
EXTENDS ReconcilerProperties, MCInstances
=============================================================================
