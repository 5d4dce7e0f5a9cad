---------------------------- MODULE MCInstances ----------------------------
(***************************************************************************)
(* Specs and readings of the small instances that TLC checks.              *)
(***************************************************************************)
Even(n) == [cpu |-> n, mem |-> n]

Policy(f, c, t) == [floor |-> Even(f), ceiling |-> Even(c), threshold |-> t]

(* The smallest floor is nothing: a reservation may start from zero.       *)
SpecA == [node |-> "n1", source |-> "systemd", valid |-> TRUE, update |-> Policy(0, 3, 10)]

(* 50 percent: the way from 2 to 4 is a drift, and the way back is exactly *)
(* the threshold.                                                          *)
SpecB == [SpecA EXCEPT !.node = "n2", !.source = "docker", !.update = Policy(2, 4, 50)]

(* The node of SpecA with other bounds, and a threshold that the way from  *)
(* 2 to 4 meets exactly: only the way up from zero is a drift.             *)
SpecC == [SpecA EXCEPT !.update = Policy(2, 4, 100)]

(* A source that Resolve, or a URL that QuerierFor, refuses.               *)
SpecInvalid == [SpecA EXCEPT !.valid = FALSE]

MCOneSpec    == {SpecA}
MCTwoSpecs   == {SpecA, SpecB}
MCEdits      == {SpecA, SpecB, SpecC}
MCThreeSpecs == {SpecA, SpecB, SpecInvalid}

Ok(c, m) == [reason |-> "", cpu |-> c, mem |-> m, found |-> TRUE]

Off      == [reason |-> "", cpu |-> 0, mem |-> 0, found |-> FALSE]
Down     == [reason |-> "PrometheusUnavailable", cpu |-> 0, mem |-> 0, found |-> FALSE]
NoTarget == [Down EXCEPT !.reason = "CadvisorTargetUnavailable"]

(* 2.49999960 millicores: shown as 2.5, but 2 are requested.  8.6 bytes    *)
(* round to 9, over every ceiling.                                         *)
MCUp       == {Off, Ok(24999996, 86)}
MCReadings == {Off, Ok(24999996, 86), Down}
MCOutage   == {Ok(24000000, 20), Down, NoTarget}
MCMixed    == {Ok(24000000, 20), Ok(24000000, 30), Ok(10000000, 30)}
=============================================================================
