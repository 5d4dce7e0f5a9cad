---------------------------- MODULE BoundsProofs ----------------------------
(***************************************************************************)
(* Proofs that a phantom's requests respect the bounds of a spec, and that *)
(* a resize writes the clamped measurement of the pass that issues it.     *)
(*                                                                         *)
(* Between the measurement and the write a pass makes up to two more API   *)
(* calls, and anybody may act: both facts hold because what the pass will  *)
(* write is fixed, as the invariants below say, when the measurement ends. *)
(* A write that outlives its manager carries the pass it was issued by, so *)
(* every fact is stated of a writer: a call and the pass it belongs to.    *)
(***************************************************************************)
EXTENDS ReconcilerProofs

(***************************************************************************)
(* Clamping.                                                               *)
(***************************************************************************)
(* The bounds that admission lets through leave room for every request.    *)
LEMMA ClampInBounds ==
  ASSUME NEW u \in UpdatePolicy, NEW d \in Pair
  PROVE  InBounds(Clamp(d, u.floor, u.ceiling), u)
<1>1. /\ u.floor.cpu \in Nat /\ u.floor.mem \in Nat
      /\ u.ceiling.cpu \in Nat /\ u.ceiling.mem \in Nat
      /\ u.floor.cpu <= u.ceiling.cpu /\ u.floor.mem <= u.ceiling.mem
      /\ d.cpu \in Nat /\ d.mem \in Nat
  BY DEF UpdatePolicy, Pair
<1>2. \A x, f, c \in Nat :
        f <= c => f <= clampQuantity(x, f, c) /\ clampQuantity(x, f, c) <= c
  BY DEF clampQuantity
<1> QED BY <1>1, <1>2 DEF Clamp, InBounds

(* The sizes of the abstract specification, in the operators of the model. *)
LEMMA AbstractSizes ==
  /\ \A s, p : R!SizeFor(s, p) = Clamp(p, s.update.floor, s.update.ceiling)
  /\ \A s : R!MeasuredSizes(s) =
              {R!SizeFor(s, PairOf(x)) : x \in {y \in Readings : y.reason = ""}}
  /\ \A s : R!Sizes(s) = R!MeasuredSizes(s) \cup {R!SizeFor(s, ZeroPair)}
<1>1. \A a, b, c : R!Clamp(a, b, c) = Clamp(a, b, c)
  BY Zenon DEF R!Clamp, R!clampQuantity, Clamp, clampQuantity
<1>2. \A x : R!PairOf(x) = PairOf(x)
  BY SMT DEF R!PairOf, R!rounded, PairOf, rounded
<1>3. R!ZeroPair = ZeroPair
  BY Zenon DEF R!ZeroPair, ZeroPair
<1>4. \A s, p : R!SizeFor(s, p) = Clamp(p, s.update.floor, s.update.ceiling)
  BY <1>1, Zenon DEF R!SizeFor
<1>5. \A s : R!MeasuredSizes(s) =
               {R!SizeFor(s, PairOf(x)) : x \in {y \in Readings : y.reason = ""}}
  BY <1>2 DEF R!MeasuredSizes
<1>6. \A s : R!Sizes(s) = R!MeasuredSizes(s) \cup {R!SizeFor(s, ZeroPair)}
  BY <1>3, Zenon DEF R!Sizes
<1> QED BY <1>4, <1>5, <1>6

(* Every size a spec and the readings allow lies in the spec's bounds.     *)
LEMMA SizesInBounds ==
  ASSUME NEW s \in Specs, NEW d \in R!Sizes(s)
  PROVE  InBounds(d, s.update)
<1>1. s.update \in UpdatePolicy
  BY SpecsAssumption DEF ShadowWorkloadSpec
<1>2. PICK p \in Pair : d = Clamp(p, s.update.floor, s.update.ceiling)
  <2>1. ZeroPair \in Pair
    BY DEF ZeroPair, Pair
  <2>2. \A x \in Readings : PairOf(x) \in Pair
    BY PairOfType, ReadingsAssumption DEF Reading
  <2>3. PICK p : /\ d = R!SizeFor(s, p)
                 /\ p = ZeroPair \/ \E x \in Readings : p = PairOf(x)
    BY AbstractSizes
  <2> QED BY <2>1, <2>2, <2>3, AbstractSizes
<1> QED BY <1>1, <1>2, ClampInBounds

(***************************************************************************)
(* Writers, and what the steps do to the pod.                              *)
(***************************************************************************)
(* The running pass as a writer; the other one is late.                    *)
Self == [call |-> pc, pass |-> pass]

(* Only a death and an arrival change the late write.                      *)
LEMMA LateOnly == [Next]_vars => late' = late \/ OrphanWrite \/ LateWrite
<1>1. Reconcile => late' = late
  BY DEF Reconcile, ForgetDeleted, StartPass, GetNode, GetPriorityClass, Measure, GetPod,
         CreatePhantom, Resolve, Recover, Repin, Resize, PatchStatus, apiVars
<1>2. Failure => late' = late \/ OrphanWrite
  BY DEF Failure, APIError, LostReply, RefuseResize, Crash, Relist, apiVars
<1>3. Environment => late' = late
  BY DEF Environment, CreateSW, EditSpec, DeleteSW, NodeChanges, PriorityClassChanges,
         BackendChanges, CreateForeign, DeletePod, StripLabels, TouchPod, FailPod, ModifyPod
<1> QED BY <1>1, <1>2, <1>3
        DEF Next, DeliverSW, DeliverPod, PollFires, CollectGarbage, Restart, apiVars, vars

(* A step leaves the late write, ends it, or makes it of the running pass. *)
LEMMA LateStep == [Next]_vars => late' \in {late, NoLate, Self}
  BY LateOnly DEF OrphanWrite, LateWrite, Self

(* The pod goes, or keeps its identity, its owner, node and requests.      *)
PodKept ==
  \/ pod' = NoPod
  \/ /\ pod'.uid = pod.uid /\ pod'.owner = pod.owner
     /\ pod'.node = pod.node /\ pod'.req = pod.req

(* A writer creates the phantom, on its node and at the desired size.      *)
PodCreated(w) ==
  /\ w.call = "create" /\ pod.uid = 0 /\ pod'.uid # 0
  /\ pod'.owner = w.pass.base.uid
  /\ pod'.node = w.pass.base.spec.node /\ pod'.req = w.pass.desired

(* A writer resizes the pod it observed, at the version it observed.       *)
PodResized(w) ==
  /\ w.call = "resize" /\ pod.uid # 0 /\ pod.rv = w.pass.pod.rv
  /\ pod'.uid = pod.uid /\ pod'.owner = pod.owner
  /\ pod'.node = pod.node /\ pod'.req = w.pass.desired

Wrote(w) == PodCreated(w) \/ PodResized(w)

PassWrote == pc' # pc /\ Wrote(Self)

LateWrote == pc' = pc /\ Wrote(late)

(* Somebody else creates a pod of that name.                               *)
ForeignCreated ==
  pod.uid = 0 /\ pod'.owner = 0 /\ pod'.node = NoPod.node /\ pod'.req = ZeroPair

(* The next value of the pod after a write.                                *)
LEMMA Written == ASSUME NEW p, WritePod(p) PROVE pod' = p
  BY DEF WritePod

(* An accepted resize is a resize.                                         *)
LEMMA ResizeAcceptedPod ==
  ASSUME TypeOK, NEW w, w.call = "resize", NEW r \in Revs, ResizeAccepted(w.pass, r)
  PROVE  PodResized(w)
<1>1. pod' = [pod EXCEPT !.req = w.pass.desired, !.rv = r]
  BY Written DEF ResizeAccepted
<1> QED BY <1>1 DEF TypeOK, PodType, ResizeAccepted, PodResized

(* An accepted Create is a creation.                                       *)
LEMMA CreateAcceptedPod ==
  ASSUME NEW w, w.call = "create", NEW r \in Revs, CreateAccepted(w.pass, r)
  PROVE  PodCreated(w)
  BY Written, RevsAssumption DEF CreateAccepted, BuildPhantomPod, PodCreated

(* A Delete leaves the pod or removes it.                                  *)
LEMMA DeletedPod ==
  ASSUME NEW p, DeleteAccepted(p) \/ UNCHANGED pod PROVE PodKept
  BY Written DEF DeleteAccepted, PodKept

(* Every step of a pass keeps, creates or resizes the pod.                 *)
LEMMA ReconcilePod == TypeOK /\ Reconcile => PodKept \/ PassWrote
<1> SUFFICES ASSUME TypeOK, Reconcile PROVE PodKept \/ PassWrote
  OBVIOUS
<1>1. Self.call = pc /\ Self.pass = pass
  BY DEF Self
<1>2. CASE CreatePhantom
  BY <1>1, <1>2, CreateAcceptedPod DEF CreatePhantom, PodKept, PassWrote, Wrote
<1>3. CASE Recover \/ Repin
  BY <1>3, DeletedPod DEF Recover, Repin
<1>4. CASE Resize
  BY <1>1, <1>4, ResizeAcceptedPod DEF Resize, PodKept, PassWrote, Wrote
<1>5. CASE pod' = pod
  BY <1>5 DEF PodKept
<1> QED BY <1>2, <1>3, <1>4, <1>5
        DEF Reconcile, ForgetDeleted, StartPass, GetNode, GetPriorityClass, Measure, GetPod,
            Resolve, PatchStatus, apiVars

(* So does every failure of a call.                                        *)
LEMMA FailurePod == TypeOK /\ Failure => PodKept \/ PassWrote
<1> SUFFICES ASSUME TypeOK, Failure PROVE PodKept \/ PassWrote
  OBVIOUS
<1>1. Self.call = pc /\ Self.pass = pass
  BY DEF Self
<1>2. CASE LostReply
  <2>1. CASE LostCreate
    BY <1>1, <2>1, CreateAcceptedPod DEF LostCreate, Return, PassWrote, Wrote
  <2>2. CASE LostDelete
    BY <2>2, DeletedPod DEF LostDelete
  <2>3. CASE LostResize
    BY <1>1, <2>3, ResizeAcceptedPod DEF LostResize, PassWrote, Wrote
  <2>4. CASE LostPatch
    BY <2>4 DEF LostPatch, PodKept
  <2> QED BY <1>2, <2>1, <2>2, <2>3, <2>4 DEF LostReply
<1>3. CASE pod' = pod
  BY <1>3 DEF PodKept
<1> QED BY <1>2, <1>3
        DEF Failure, APIError, RefuseResize, Crash, OrphanWrite, Exit, Relist, apiVars

(* And the write that outlives its manager.                                *)
LEMMA LatePod == TypeOK /\ LateWrite => PodKept \/ LateWrote
<1> SUFFICES ASSUME TypeOK, LateWrite PROVE PodKept \/ LateWrote
  OBVIOUS
<1>1. CASE LateCreate
  BY <1>1, CreateAcceptedPod DEF LateCreate, LateWrite, LateWrote, Wrote
<1>2. CASE LateDelete
  BY <1>2, DeletedPod DEF LateDelete
<1>3. CASE LateResize
  BY <1>3, ResizeAcceptedPod DEF LateResize, LateWrite, LateWrote, Wrote
<1>4. CASE pod' = pod
  BY <1>4 DEF PodKept
<1> QED BY <1>1, <1>2, <1>3, <1>4 DEF LateWrite

(* Others keep the pod or create a foreign one.                            *)
LEMMA EnvironmentPod == TypeOK /\ Environment => PodKept \/ ForeignCreated
<1> SUFFICES ASSUME TypeOK, Environment PROVE PodKept \/ ForeignCreated
  OBVIOUS
<1>1. CASE CreateForeign
  <2>1. PICK r \in Revs, l \in BOOLEAN :
          pod' = [NoPod EXCEPT !.uid = r, !.rv = r, !.labelled = l]
    BY <1>1, Written DEF CreateForeign
  <2>2. pod.uid = 0 /\ pod'.owner = 0 /\ pod'.node = NoPod.node /\ pod'.req = ZeroPair
    BY <1>1, <2>1 DEF CreateForeign, NoPod
  <2> QED BY <2>2 DEF ForeignCreated
<1>2. CASE DeletePod
  BY <1>2, Written DEF DeletePod, PodKept
<1>3. CASE StripLabels \/ TouchPod \/ FailPod
  <2>1. PICK new \in {pod, [pod EXCEPT !.labelled = FALSE], [pod EXCEPT !.failed = TRUE]} :
          ModifyPod(new)
    BY <1>3 DEF StripLabels, TouchPod, FailPod
  <2>2. /\ new \in PodType /\ new.uid = pod.uid /\ new.owner = pod.owner
        /\ new.node = pod.node /\ new.req = pod.req
    BY DEF TypeOK, PodType
  <2>3. PICK r \in Revs : pod' = [new EXCEPT !.rv = r]
    BY <2>1, Written DEF ModifyPod
  <2> QED BY <2>2, <2>3 DEF PodType, PodKept
<1>4. CASE pod' = pod
  BY <1>4 DEF PodKept
<1> QED BY <1>1, <1>2, <1>3, <1>4
        DEF Environment, CreateSW, EditSpec, DeleteSW, NodeChanges, PriorityClassChanges,
            BackendChanges

(* All steps together.                                                     *)
LEMMA PodStep ==
  TypeOK /\ [Next]_vars => PodKept \/ ForeignCreated \/ PassWrote \/ LateWrote
<1> SUFFICES ASSUME TypeOK, [Next]_vars
             PROVE  PodKept \/ ForeignCreated \/ PassWrote \/ LateWrote
  OBVIOUS
<1>1. CASE CollectGarbage
  BY <1>1, Written DEF CollectGarbage, PodKept
<1>2. CASE pod' = pod
  BY <1>2 DEF PodKept
<1> QED BY <1>1, <1>2, ReconcilePod, FailurePod, EnvironmentPod, LatePod
        DEF Next, DeliverSW, DeliverPod, PollFires, Restart, apiVars, vars

(***************************************************************************)
(* What a pass will write.                                                 *)
(***************************************************************************)
(* A writer that resizes, or still may, has measured what it will write,   *)
(* and any size it will write is one its spec and a reading call for.      *)
Sized(w) ==
  /\ w.call \in {"pod", "create", "resize"}
       => w.pass.desired \in R!Sizes(w.pass.base.spec)
  /\ w.call = "resize" \/ (w.call = "pod" /\ w.pass.reason = "")
       => /\ w.pass.measured
          /\ w.pass.desired \in MeasuredSizes(w.pass)
          /\ w.pass.desired \in R!MeasuredSizes(w.pass.base.spec)

BoundsInv == TypeOK /\ Sized(Self) /\ Sized(late) /\ BoundedReservation

(* The invariant holds before the manager starts.                          *)
LEMMA BoundsInvInit == Init => BoundsInv
  BY InitType DEF Init, BoundsInv, Sized, Self, NoLate, BoundedReservation, NoPod

(* The measurement fixes what the pass will write.                         *)
LEMMA MeasureFixes == TypeOK /\ Measure => Sized(Self')
<1> SUFFICES ASSUME TypeOK, Measure PROVE Sized(Self')
  OBVIOUS
<1> DEFINE spec == pass.base.spec
           want == IF MeasureFailure # "" THEN ZeroPair ELSE PairOf(backend)
<1>1. pc' = "pod" /\ pass \in PassType /\ Self' = [call |-> "pod", pass |-> pass']
  BY DEF TypeOK, Measure, Self
<1>2. pass'.desired = R!SizeFor(spec, want) /\ pass'.base = pass.base
  <2>1. pass'.desired = DesiredPair(want) /\ pass'.base = pass.base
    BY <1>1 DEF Measure, setDegraded, Measured, PassType
  <2> QED BY <2>1, AbstractSizes DEF DesiredPair
<1>3. CASE MeasureFailure # ""
  <2>1. pass'.reason # ""
    BY <1>1, <1>3 DEF Measure, setDegraded, PassType
  <2>2. pass'.desired \in R!Sizes(spec)
    BY <1>2, <1>3, AbstractSizes
  <2> QED BY <1>1, <1>2, <2>1, <2>2 DEF Sized
<1>4. CASE MeasureFailure = ""
  <2>1. pass' = [Measured(pass, backend) EXCEPT !.desired = DesiredPair(PairOf(backend))]
    BY <1>4 DEF Measure
  <2>2. pass'.measured /\ pass'.st = MeasuredStatus(pass, backend)
    BY <1>1, <2>1 DEF Measured, PassType
  <2>3. Shown(pass'.st) = MeasurementPairOf(backend)
    <3>1. pass.st \in StatusType
      BY <1>1 DEF PassType
    <3>2. pass'.st = [pass.st EXCEPT !.measGen = pass.base.gen,
                                     !.measCPU = MeasurementPairOf(backend).cpu,
                                     !.measMemory = MeasurementPairOf(backend).mem,
                                     !.found = backend.found,
                                     !.source = pass.base.spec.source]
      BY <2>2, Zenon DEF MeasuredStatus
    <3>3. /\ pass'.st.measCPU = MeasurementPairOf(backend).cpu
          /\ pass'.st.measMemory = MeasurementPairOf(backend).mem
      BY <3>1, <3>2 DEF StatusType
    <3> QED BY <3>3, Zenon DEF Shown, MeasurementPairOf
  <2>4. pass'.desired \in MeasuredSizes(pass')
    <3>1. backend \in Readings /\ backend.reason = ""
      BY <1>4 DEF TypeOK, MeasureFailure
    <3>2. pass'.desired = Clamp(PairOf(backend), spec.update.floor, spec.update.ceiling)
      BY <1>2, <1>4, AbstractSizes, Zenon
    <3> QED BY <1>2, <2>3, <3>1, <3>2, Zenon DEF MeasuredSizes
  <2>5. pass'.desired \in R!MeasuredSizes(spec)
    <3>1. backend \in Readings /\ backend.reason = ""
      BY <1>4 DEF TypeOK, MeasureFailure
    <3> QED BY <1>2, <1>4, <3>1, AbstractSizes
  <2>6. pass'.desired \in R!Sizes(spec)
    BY <2>5, AbstractSizes
  <2> QED BY <1>1, <1>2, <2>2, <2>4, <2>5, <2>6 DEF Sized
<1> QED BY <1>3, <1>4

(* The read of the phantom keeps it.                                       *)
LEMMA GetPodKeeps == BoundsInv /\ GetPod => Sized(Self')
<1> SUFFICES ASSUME BoundsInv, GetPod PROVE Sized(Self')
  OBVIOUS
<1>1. Self' = [call |-> pc', pass |-> pass'] /\ Self = [call |-> "pod", pass |-> pass]
  BY DEF Self, GetPod
<1>2. CASE pc' = "create" /\ UNCHANGED pass
  BY <1>1, <1>2 DEF BoundsInv, Sized
<1>3. CASE pc' = "resize" /\ pass' = Observed(pass, podCache) /\ pass.reason = ""
  <2>1. pass \in PassType
    BY DEF BoundsInv, TypeOK
  <2>2. /\ pass'.desired = pass.desired /\ pass'.base = pass.base
        /\ pass'.st = pass.st /\ pass'.measured = pass.measured
    BY <1>3, <2>1 DEF Observed, PassType
  <2>3. MeasuredSizes(pass') = MeasuredSizes(pass)
    BY <2>2 DEF MeasuredSizes
  <2> QED BY <1>1, <1>3, <2>2, <2>3 DEF BoundsInv, Sized
<1>4. CASE pc' \in {"status", "repin"}
  BY <1>1, <1>4 DEF Sized
<1> QED BY <1>2, <1>3, <1>4 DEF GetPod, ResizeDue

(* The other steps leave the pass alone or lead elsewhere.                 *)
PassElsewhere == pc' \notin {"pod", "create", "resize"} \/ UNCHANGED <<pc, pass>>

(* Such a step keeps what the pass will write.                             *)
LEMMA ElsewhereKeeps == ASSUME BoundsInv, PassElsewhere PROVE Sized(Self')
  BY DEF BoundsInv, PassElsewhere, Sized, Self

(* The steps of a pass.                                                    *)
LEMMA ReconcileKeeps == BoundsInv /\ Reconcile => Sized(Self')
<1> SUFFICES ASSUME BoundsInv, Reconcile PROVE Sized(Self')
  OBVIOUS
<1>1. CASE Measure
  BY <1>1, MeasureFixes DEF BoundsInv
<1>2. CASE GetPod
  BY <1>2, GetPodKeeps
<1>3. CASE PassElsewhere
  BY <1>3, ElsewhereKeeps
<1> QED BY <1>1, <1>2, <1>3
        DEF Reconcile, PassElsewhere, Return, RecreateLater, ForgetDeleted, StartPass, GetNode,
            GetPriorityClass, CreatePhantom, Resolve, Recover, Repin, Resize, PatchStatus

(* The steps of everybody else.                                            *)
LEMMA OthersElsewhere ==
  DeliverSW \/ DeliverPod \/ PollFires \/ CollectGarbage \/ Restart \/ LateWrite \/ Failure
    \/ Environment => PassElsewhere
<1>1. Failure => PassElsewhere
  BY DEF Failure, APIError, LostReply, LostCreate, LostDelete, LostResize, LostPatch,
         RefuseResize, Crash, OrphanWrite, Exit, Relist, Return, PassElsewhere
<1>2. Environment => PassElsewhere
  BY DEF Environment, CreateSW, EditSpec, DeleteSW, NodeChanges, PriorityClassChanges,
         BackendChanges, CreateForeign, DeletePod, StripLabels, TouchPod, FailPod, ModifyPod,
         ManagerVars, PassElsewhere
<1> QED BY <1>1, <1>2
        DEF DeliverSW, DeliverPod, PollFires, CollectGarbage, Restart, LateWrite, PassElsewhere

(* What a writer writes lies in the bounds of the spec its pass read.      *)
LEMMA WroteInBounds ==
  ASSUME NEW w, w.pass \in PassType, Sized(w), Wrote(w) PROVE BoundedReservation'
<1>1. w.pass.base.spec \in Specs
  BY DEF PassType, SWType
<1>2. w.pass.desired \in R!Sizes(w.pass.base.spec)
  BY DEF Sized, Wrote, PodCreated, PodResized
<1>3. InBounds(pod'.req, w.pass.base.spec.update)
  BY <1>1, <1>2, SizesInBounds DEF Wrote, PodCreated, PodResized
<1> QED BY <1>1, <1>3 DEF BoundedReservation, CurrentPairOf

(* So every step leaves the phantom within bounds.                         *)
LEMMA BoundsKept == BoundsInv /\ [Next]_vars => BoundedReservation'
<1> SUFFICES ASSUME BoundsInv, [Next]_vars PROVE BoundedReservation'
  OBVIOUS
<1>1. PodKept \/ ForeignCreated \/ PassWrote \/ LateWrote
  BY PodStep DEF BoundsInv
<1>2. CASE PodKept
  BY <1>2 DEF PodKept, BoundsInv, BoundedReservation, CurrentPairOf, NoPod
<1>3. CASE ForeignCreated
  BY <1>3 DEF ForeignCreated, BoundedReservation
<1>4. Self.pass \in PassType /\ late.pass \in PassType
  BY DEF BoundsInv, TypeOK, LateType, Self
<1>5. CASE PassWrote \/ LateWrote
  BY <1>4, <1>5, WroteInBounds DEF BoundsInv, PassWrote, LateWrote
<1> QED BY <1>1, <1>2, <1>3, <1>5

(* Every step keeps the invariant.                                         *)
LEMMA BoundsInvNext == BoundsInv /\ [Next]_vars => BoundsInv'
<1> SUFFICES ASSUME BoundsInv, [Next]_vars PROVE BoundsInv'
  OBVIOUS
<1>1. TypeOK' /\ BoundedReservation'
  BY NextType, BoundsKept DEF BoundsInv
<1>2. UNCHANGED vars => PassElsewhere
  BY DEF vars, PassElsewhere
<1>3. Sized(Self')
  BY <1>2, ElsewhereKeeps, ReconcileKeeps, OthersElsewhere DEF Next
<1>4. Sized(late')
  <2>1. Sized(NoLate)
    BY DEF Sized, NoLate
  <2> QED BY <2>1, LateStep DEF BoundsInv
<1> QED BY <1>1, <1>3, <1>4 DEF BoundsInv

(* The requests of a phantom stay within the floor and the ceiling of one  *)
(* written spec: Clamp runs before every Create and every resize, and no   *)
(* edit, failure, other writer or change of manager gets between it and    *)
(* the write.                                                              *)
THEOREM BoundedReservationAlways == Spec => []BoundedReservation
<1>1. BoundsInv => BoundedReservation
  BY DEF BoundsInv
<1> QED BY <1>1, BoundsInvInit, BoundsInvNext, PTL DEF Spec

(* A step that changes the requests of a pod is a resize by a pass that    *)
(* measured, to a clamped value of the measurement that it reports:        *)
(* resizePhantom is reached through resizeIfDrifting of an undegraded pass *)
(* only.                                                                   *)
THEOREM ResizedByMeasurementAlways == Spec => ResizedByMeasurement
<1> DEFINE writer == IF pc' # pc THEN pass ELSE late.pass
           ByMeasurement ==
             pod.uid # 0 /\ pod'.uid = pod.uid /\ pod'.req # pod.req
               => writer.measured /\ pod'.req \in MeasuredSizes(writer)
<1>1. BoundsInv /\ [Next]_vars => ByMeasurement
  <2> SUFFICES ASSUME BoundsInv, [Next]_vars, pod.uid # 0, pod'.uid = pod.uid,
                      pod'.req # pod.req
               PROVE  writer.measured /\ pod'.req \in MeasuredSizes(writer)
    OBVIOUS
  <2>1. PassWrote \/ LateWrote
    BY PodStep DEF BoundsInv, PodKept, ForeignCreated, NoPod
  <2>2. CASE PassWrote
    <3>1. PodResized(Self) /\ writer = pass /\ Self.pass = pass
      BY <2>2 DEF PassWrote, Wrote, PodCreated, Self
    <3> QED BY <3>1 DEF PodResized, BoundsInv, Sized
  <2>3. CASE LateWrote
    <3>1. PodResized(late) /\ writer = late.pass
      BY <2>3 DEF LateWrote, Wrote, PodCreated
    <3> QED BY <3>1 DEF PodResized, BoundsInv, Sized
  <2> QED BY <2>1, <2>2, <2>3
<1> QED BY <1>1, BoundsInvInit, BoundsInvNext, PTL DEF Spec, ResizedByMeasurement
=============================================================================
