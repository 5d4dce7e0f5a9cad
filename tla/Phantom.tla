------------------------------ MODULE Phantom ------------------------------
(***************************************************************************)
(* The pure phantom-pod mechanics of internal/shadow: unit conversion,     *)
(* clamping, drift detection and node eligibility.  A resource pair is a   *)
(* record of whole units: millicores and bytes for a request, nanocores    *)
(* and bytes for a measurement.  Admission keeps every bound non-negative, *)
(* and the Prometheus client rejects negative samples, so a quantity is a  *)
(* natural number.                                                         *)
(***************************************************************************)
EXTENDS Integers

Pair == [cpu : Nat, mem : Nat]

ZeroPair == [cpu |-> 0, mem |-> 0]

(***************************************************************************)
(* The update section of a spec, as admission lets it through.             *)
(***************************************************************************)
UpdatePolicy ==
  {u \in [floor : Pair, ceiling : Pair, threshold : 0 .. 100] :
     u.floor.cpu <= u.ceiling.cpu /\ u.floor.mem <= u.ceiling.mem}

(***************************************************************************)
(* Measurements.  A reading is finer than what is kept of it: it counts    *)
(* tenths of a nanocore and tenths of a byte.  MeasurementPairOf rounds it *)
(* to nanocores and bytes, PairOf to millicores and bytes, each from the   *)
(* raw reading, with a half going up (math.Round).                         *)
(***************************************************************************)
rounded(reading, unit) == (reading + unit \div 2) \div unit

MeasurementPairOf(r) == [cpu |-> rounded(r.cpu, 10), mem |-> rounded(r.mem, 10)]

PairOf(r) == [cpu |-> rounded(r.cpu, 10000000), mem |-> rounded(r.mem, 10)]

(***************************************************************************)
(* Clamping: the floor first, then the ceiling.                            *)
(***************************************************************************)
clampQuantity(desired, floor, ceiling) ==
  LET raised == IF desired < floor THEN floor ELSE desired
  IN  IF raised > ceiling THEN ceiling ELSE raised

Clamp(desired, floor, ceiling) ==
  [cpu |-> clampQuantity(desired.cpu, floor.cpu, ceiling.cpu),
   mem |-> clampQuantity(desired.mem, floor.mem, ceiling.mem)]

(***************************************************************************)
(* Drift.  The code computes |want - cur| / cur * 100 in float64, so where *)
(* the exact quotient EQUALS the threshold the rounding may put the result *)
(* on either side: drift is the set of answers the code can give.  (A      *)
(* definition whose name starts with Mut is a deliberately wrong form of   *)
(* the next.)                                                              *)
(***************************************************************************)
Abs(i) == IF i < 0 THEN -i ELSE i

MutDrift(cur, want, threshold) == {Abs(want - cur) * 100 > threshold * cur /\ cur > 0}

drift(cur, want, threshold) ==
  LET change == Abs(want - cur) * 100
      onEdge == change = threshold * cur /\ change # 0
  IN  {b \in BOOLEAN : IF cur <= 0 THEN b <=> want > 0
                       ELSE onEdge \/ (b <=> change > threshold * cur)}

DriftExceeds(current, desired, threshold) ==
  {b \in BOOLEAN : \E c \in drift(current.cpu, desired.cpu, threshold),
                      m \in drift(current.mem, desired.mem, threshold) : b <=> c \/ m}

(***************************************************************************)
(* Node eligibility and the condition reason of an ineligible node.  A     *)
(* node with a deletion timestamp is terminating whatever its conditions;  *)
(* one that reports no Ready condition counts as not ready.                *)
(***************************************************************************)
NodeStates == {"ready", "notready", "terminating", "missing"}

NodeEligible(node) == node = "ready"

MutConditionReason(node) == node

nodeConditionReason(node) ==
  CASE node = "terminating" -> "NodeTerminating"
    [] node = "notready"    -> "NodeNotReady"
    [] OTHER                -> "NodeMissing"
=============================================================================
