---------------------------- MODULE Reservation ----------------------------
(***************************************************************************)
(* What a phantom pod is for, without the controller: a reservation on one *)
(* node, sized by a measurement, that belongs to one ShadowWorkload.       *)
(*                                                                         *)
(* There is at most one reservation.  While it exists it stays on its node *)
(* and with its owner; its size only changes to what a successful          *)
(* measurement calls for, under a spec that names its node.  It may end at *)
(* any time.                                                               *)
(***************************************************************************)
EXTENDS Phantom

CONSTANTS Nodes, Specs, Readings, Uids

VARIABLES
  owner,      \* the uid of the ShadowWorkload that reserves, 0 for none
  node,       \* where
  req         \* how much

rvars == <<owner, node, req>>

Nowhere == CHOOSE n \in Nodes : TRUE

None == owner = 0 /\ node = Nowhere /\ req = ZeroPair

(* The sizes that measurements call for under a spec.  A reservation that  *)
(* starts without a measurement has the smallest size.                     *)
SizeFor(s, amount) == Clamp(amount, s.update.floor, s.update.ceiling)

MeasuredSizes(s) == {SizeFor(s, PairOf(r)) : r \in {x \in Readings : x.reason = ""}}

Sizes(s) == MeasuredSizes(s) \cup {SizeFor(s, ZeroPair)}

Reserve ==
  /\ owner = 0
  /\ owner' \in Uids
  /\ \E s \in Specs : node' = s.node /\ req' \in Sizes(s)

Adjust ==
  /\ owner # 0
  /\ \E s \in Specs : s.node = node /\ req' \in MeasuredSizes(s)
  /\ UNCHANGED <<owner, node>>

Release == owner # 0 /\ None'

Next == Reserve \/ Adjust \/ Release

Spec == None /\ [][Next]_rvars
=============================================================================
