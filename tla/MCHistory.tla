----------------------------- MODULE MCHistory -----------------------------
(***************************************************************************)
(* ReconcilerHistory, instantiated for TLC.                                *)
(***************************************************************************)
EXTENDS ReconcilerHistory, MCInstances
=============================================================================
