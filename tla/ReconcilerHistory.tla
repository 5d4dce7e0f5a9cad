------------------------- MODULE ReconcilerHistory -------------------------
(***************************************************************************)
(* Reconciler with a history of what really happened, against which the    *)
(* durable status of the ShadowWorkload is judged.  The history is written *)
(* by every step and read by none.                                         *)
(***************************************************************************)
EXTENDS ReconcilerProperties

VARIABLES
  taken,      \* the successful measurements, each with its source
  held        \* the pairs that phantoms have requested

hvars == <<vars, taken, held>>

Snapshot(st) == [gen |-> st.measGen, cpu |-> st.measCPU, mem |-> st.measMemory,
                 found |-> st.found, source |-> st.source]

HInit ==
  /\ Init
  /\ taken = {Snapshot(NoStatus)}
  /\ held = {ZeroPair}

(* What a measurement observed, rounded for the status, for the spec that  *)
(* its pass works from.                                                    *)
Observation == [gen |-> pass.base.gen,
                cpu |-> MeasurementPairOf(backend).cpu,
                mem |-> MeasurementPairOf(backend).mem,
                found |-> backend.found, source |-> pass.base.spec.source]

MeasurementTaken == pc = "measure" /\ pc' # "measure" /\ pass'.measured

Record ==
  /\ taken' = IF MeasurementTaken THEN taken \cup {Observation} ELSE taken
  /\ held' = IF pod'.owner # 0 THEN held \cup {CurrentPairOf(pod')} ELSE held

HSpec == HInit /\ [][Next /\ Record]_hvars

(* lastMeasurement and resolvedSource are together one measurement that    *)
(* was really taken: no field of it comes from another one.                *)
CoherentSnapshot == Snapshot(sw.status) \in taken

(* The currents of the status are a pair that a phantom really requested,  *)
(* also while the phantom is unobserved or a resize was refused.           *)
ReportedWasHeld == CurrentPair(sw.status) \in held
=============================================================================
