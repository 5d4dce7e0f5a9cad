------------------------- MODULE ReservationProofs -------------------------
(***************************************************************************)
(* Proof that the controller implements Reservation: every step of the     *)
(* manager, its informers, its failures and its environment is, for the    *)
(* owner, the node and the size of the pod that has the phantom's name, a  *)
(* step of the abstract specification or none.                             *)
(***************************************************************************)
EXTENDS ForeignProofs

(* A pod that is not a phantom reserves nothing.                           *)
BareUnlessOwned ==
  /\ pod.uid = 0 => pod.owner = 0
  /\ pod.owner = 0 => pod.node = NoPod.node /\ pod.req = ZeroPair

ReservationInv == BoundsInv /\ ForeignInv /\ BareUnlessOwned

(* The invariant holds before the manager starts.                          *)
LEMMA ReservationInvInit == Init => ReservationInv
  BY BoundsInvInit, ForeignInvInit DEF Init, ReservationInv, BareUnlessOwned, NoPod

(* A writer creates a reservation for itself, on the node of its spec.     *)
LEMMA CreatedReserves ==
  ASSUME ReservationInv, NEW w, w.pass \in PassType, Sized(w), Owns(w), PodCreated(w)
  PROVE  R!Reserve /\ BareUnlessOwned'
<1>1. w.pass.base.uid \in Uids /\ w.pass.base.uid # 0 /\ w.pass.base.spec \in Specs
  BY DEF PassType, SWType, Owns, PodCreated
<1>2. w.pass.desired \in R!Sizes(w.pass.base.spec)
  BY DEF Sized, PodCreated
<1>3. pod.owner = 0 /\ pod'.uid # 0
  BY DEF ReservationInv, BareUnlessOwned, PodCreated
<1> QED BY <1>1, <1>2, <1>3 DEF R!Reserve, PodCreated, CurrentPairOf, BareUnlessOwned

(* A writer adjusts a reservation of its own, on the node of its spec.     *)
LEMMA ResizedAdjusts ==
  ASSUME ReservationInv, NEW w, w.pass \in PassType, w.pass.pod \in KnownPods, Sized(w), Owns(w),
         PodResized(w)
  PROVE  R!Adjust /\ BareUnlessOwned'
<1>1. pod.owner # 0 /\ pod.node = w.pass.base.spec.node
  BY AcceptedIsOwned DEF ReservationInv, PodResized
<1>2. w.pass.base.spec \in Specs /\ w.pass.desired \in R!MeasuredSizes(w.pass.base.spec)
  BY DEF PassType, SWType, Sized, PodResized
<1> QED BY <1>1, <1>2 DEF R!Adjust, PodResized, CurrentPairOf, BareUnlessOwned

(* What both writers have in common.                                       *)
LEMMA WroteImplements ==
  ASSUME ReservationInv, PassWrote \/ LateWrote
  PROVE  R!Next /\ BareUnlessOwned'
<1>1. /\ Self.pass \in PassType /\ Self.pass.pod \in KnownPods
      /\ late.pass \in PassType /\ late.pass.pod \in KnownPods
  BY Holders DEF ReservationInv, ForeignInv
<1>2. Sized(Self) /\ Sized(late) /\ Owns(Self) /\ Owns(late)
  BY DEF ReservationInv, BoundsInv, ForeignInv
<1>3. \A w \in {Self, late} : PodCreated(w) => R!Reserve /\ BareUnlessOwned'
  BY <1>1, <1>2, CreatedReserves
<1>4. \A w \in {Self, late} : PodResized(w) => R!Adjust /\ BareUnlessOwned'
  BY <1>1, <1>2, ResizedAdjusts
<1> QED BY <1>3, <1>4 DEF PassWrote, LateWrote, Wrote, R!Next

(* A pod that goes ends the reservation, and one that stays keeps it.      *)
LEMMA KeptImplements ==
  ASSUME ReservationInv, PodKept
  PROVE  (R!Release \/ UNCHANGED R!rvars) /\ BareUnlessOwned'
<1>1. NoPod.owner = 0 /\ NoPod.node = R!Nowhere /\ NoPod.req = R!ZeroPair /\ NoPod.uid = 0
  BY DEF NoPod, R!Nowhere, R!ZeroPair, ZeroPair
<1>2. R!ZeroPair = ZeroPair
  BY DEF R!ZeroPair, ZeroPair
<1>3. CASE pod' = NoPod /\ pod.owner # 0
  BY <1>1, <1>2, <1>3 DEF R!Release, R!None, CurrentPairOf, BareUnlessOwned
<1>4. CASE pod' = NoPod /\ pod.owner = 0
  BY <1>1, <1>2, <1>4 DEF R!rvars, CurrentPairOf, BareUnlessOwned, ReservationInv
<1>5. CASE /\ pod'.uid = pod.uid /\ pod'.owner = pod.owner
           /\ pod'.node = pod.node /\ pod'.req = pod.req
  BY <1>5 DEF R!rvars, CurrentPairOf, BareUnlessOwned, ReservationInv
<1> QED BY <1>3, <1>4, <1>5 DEF PodKept

(* Every step is a step of the abstract specification, or none.            *)
LEMMA StepImplements ==
  ReservationInv /\ [Next]_vars => [R!Next]_(R!rvars) /\ BareUnlessOwned'
<1> SUFFICES ASSUME ReservationInv, [Next]_vars
             PROVE  [R!Next]_(R!rvars) /\ BareUnlessOwned'
  OBVIOUS
<1>1. PodKept \/ ForeignCreated \/ PassWrote \/ LateWrote
  BY PodStep DEF ReservationInv, BoundsInv
<1>2. CASE PodKept
  BY <1>2, KeptImplements DEF R!Next
<1>3. CASE ForeignCreated
  BY <1>3 DEF ForeignCreated, ReservationInv, BareUnlessOwned, R!rvars, CurrentPairOf
<1>4. CASE PassWrote \/ LateWrote
  BY <1>4, WroteImplements
<1> QED BY <1>1, <1>2, <1>3, <1>4

(* The controller keeps a reservation: the phantom it writes never moves   *)
(* to another node or owner while it exists, and is only resized to what a *)
(* successful measurement calls for under a spec of its own node.  Create, *)
(* deletePhantom and resizePhantom do so through lagging caches, lost      *)
(* answers, crashes and writes that outlive their manager.                 *)
THEOREM ReservationKeptAlways == Spec => ReservationKept
<1>1. Init => R!None
  BY DEF Init, R!None, NoPod, R!Nowhere, R!ZeroPair, ZeroPair, CurrentPairOf
<1>2. ReservationInv /\ [Next]_vars => ReservationInv'
  BY BoundsInvNext, ForeignInvNext, StepImplements DEF ReservationInv
<1> QED BY <1>1, <1>2, ReservationInvInit, StepImplements, PTL DEF Spec, ReservationKept, R!Spec
=============================================================================
