-------------------------- MODULE ReconcilerProofs --------------------------
(***************************************************************************)
(* Proofs, for every value of the constants, of the safety properties of   *)
(* the ShadowWorkload controller.                                          *)
(***************************************************************************)
EXTENDS ReconcilerProperties, TLAPS

(***************************************************************************)
(* The operators the model is built from.                                  *)
(***************************************************************************)
(* Rounding a reading yields a request, and a measurement to show.         *)
LEMMA PairOfType ==
  ASSUME NEW r, r.cpu \in Nat, r.mem \in Nat
  PROVE  PairOf(r) \in Pair /\ MeasurementPairOf(r) \in Pair
  BY SMT DEF PairOf, MeasurementPairOf, rounded, Pair

(* Clamping yields a request.                                              *)
LEMMA ClampType ==
  ASSUME NEW d \in Pair, NEW f \in Pair, NEW c \in Pair
  PROVE  Clamp(d, f, c) \in Pair
  BY SMT DEF Clamp, clampQuantity, Pair

(* The initial values of objects and of a pass have their types.           *)
LEMMA NoObjectsType ==
  /\ NoStatus \in StatusType /\ NoSW \in SWType
  /\ NoPod \in PodType /\ NoPass \in PassType /\ NoLate \in LateType
<1>1. NoStatus \in StatusType
  BY DEF NoStatus, StatusType, NoCond, CondType, ZeroPair, Pair, Reasons, ReadyReasons
<1>2. NoSW \in SWType
  BY <1>1, SpecsAssumption DEF NoSW, SWType
<1>3. Nodes # {}
  BY SpecsAssumption DEF ShadowWorkloadSpec
<1>4. NoPod \in PodType
  BY <1>3 DEF NoPod, PodType, ZeroPair, Pair
<1>5. NoPass \in PassType
  BY <1>1, <1>2, <1>4 DEF NoPass, PassType, ZeroPair, Pair, Reasons, ReadyReasons
<1>6. NoLate \in LateType
  BY <1>5 DEF NoLate, LateType
<1> QED BY <1>1, <1>2, <1>4, <1>5, <1>6

(* A degraded pass is a pass.                                              *)
LEMMA SetDegradedType ==
  ASSUME NEW p \in PassType, NEW reason \in Reasons
  PROVE  setDegraded(p, reason) \in PassType
  BY DEF setDegraded, PassType

(* A spec bounds its pairs.                                                *)
LEMMA SpecBounds ==
  ASSUME NEW s \in ShadowWorkloadSpec
  PROVE  s.update.floor \in Pair /\ s.update.ceiling \in Pair
  BY DEF ShadowWorkloadSpec, UpdatePolicy

(* A write of the ShadowWorkload keeps it and its stream typed.            *)
LEMMA WriteSWType ==
  ASSUME TypeOK, NEW w \in SWType, WriteSW(w)
  PROVE  sw' \in SWType /\ swWatch' \in Seq(SWType)
  BY DEF TypeOK, WriteSW

(* What the pod informer shows of a pod is a pod.                          *)
LEMMA VisibleType == ASSUME NEW p \in PodType PROVE Visible(p) \in PodType
  BY NoObjectsType DEF Visible

(* A write of the pod keeps the pod and its stream typed.                  *)
LEMMA WritePodType ==
  ASSUME TypeOK, NEW p \in PodType, WritePod(p)
  PROVE  pod' \in PodType /\ podWatch' \in Seq(PodType)
  BY VisibleType DEF TypeOK, WritePod

(* Returning from a pass.                                                  *)
LEMMA ReturnType ==
  ASSUME TypeOK, NEW q \in {"poll", "ready"}, Return(q)
  PROVE  pc' \in PCs /\ pass' \in PassType /\ queue' \in {"none", "poll", "ready"}
  BY NoObjectsType DEF TypeOK, Return, Requeue, PCs

(***************************************************************************)
(* Type correctness, one lemma per group of actions.                       *)
(***************************************************************************)
(* The first step of a pass keeps the types.                               *)
LEMMA StartType == TypeOK /\ (ForgetDeleted \/ StartPass) => TypeOK'
<1> SUFFICES ASSUME TypeOK, ForgetDeleted \/ StartPass PROVE TypeOK'
  OBVIOUS
<1>1. CASE ForgetDeleted
  BY <1>1 DEF TypeOK, ForgetDeleted, apiVars, swVars, podVars
<1>2. CASE StartPass
  <2>1. pass' \in PassType
    BY <1>2, NoObjectsType DEF TypeOK, StartPass, PassType, SWType, ReadyReasons
  <2> QED BY <1>2, <2>1 DEF TypeOK, StartPass, apiVars, swVars, podVars, PCs
<1> QED BY <1>1, <1>2

(* The node gate and the PriorityClass gate keep the types.                *)
LEMMA GateType == TypeOK /\ (GetNode \/ GetPriorityClass) => TypeOK'
<1> SUFFICES ASSUME TypeOK, GetNode \/ GetPriorityClass PROVE TypeOK'
  OBVIOUS
<1>1. \A node : nodeConditionReason(node) \in Reasons
  BY DEF nodeConditionReason, Reasons
<1>2. CASE GetNode
  <2>1. pass' \in PassType
    BY <1>1, <1>2, SetDegradedType DEF TypeOK, GetNode
  <2> QED BY <1>2, <2>1 DEF TypeOK, GetNode, apiVars, swVars, podVars, PCs
<1>3. CASE GetPriorityClass
  <2>1. pass' \in PassType
    BY <1>3, SetDegradedType DEF TypeOK, GetPriorityClass, Reasons
  <2> QED BY <1>3, <2>1 DEF TypeOK, GetPriorityClass, apiVars, swVars, podVars, PCs
<1> QED BY <1>2, <1>3

(* A measured pass is a pass.                                              *)
LEMMA MeasuredType ==
  ASSUME NEW p \in PassType, NEW r \in Reading
  PROVE  Measured(p, r) \in PassType
<1>1. p.base.gen \in Nat /\ p.base.spec.source \in Sources
  BY SpecsAssumption DEF PassType, SWType, ShadowWorkloadSpec
<1>2. r.cpu \in Nat /\ r.mem \in Nat /\ r.found \in BOOLEAN
  BY DEF Reading
<1>3. MeasurementPairOf(r).cpu \in Nat /\ MeasurementPairOf(r).mem \in Nat
  BY <1>2, PairOfType DEF Pair
<1>4. MeasuredStatus(p, r) \in StatusType
  BY <1>1, <1>2, <1>3 DEF MeasuredStatus, PassType, StatusType
<1> QED BY <1>4 DEF Measured, PassType

(* The desired reservation is a request.                                   *)
LEMMA DesiredPairType ==
  ASSUME TypeOK, NEW r \in Pair
  PROVE  DesiredPair(r) \in Pair
<1>1. pass.base.spec \in ShadowWorkloadSpec
  BY SpecsAssumption DEF TypeOK, PassType, SWType
<1> QED BY <1>1, SpecBounds, ClampType DEF DesiredPair

(* A measurement keeps the types, whether it succeeds or fails.            *)
LEMMA MeasureType == TypeOK /\ Measure => TypeOK'
<1> SUFFICES ASSUME TypeOK, Measure PROVE TypeOK'
  OBVIOUS
<1>1. backend \in Reading
  BY ReadingsAssumption DEF TypeOK
<1>2. MeasureFailure \in Reasons
  BY <1>1 DEF MeasureFailure, Reading, Reasons
<1>3. backend.cpu \in Nat /\ backend.mem \in Nat
  BY <1>1 DEF Reading
<1>4. PairOf(backend) \in Pair /\ ZeroPair \in Pair
  BY <1>3, PairOfType DEF ZeroPair, Pair
<1>5. DesiredPair(PairOf(backend)) \in Pair /\ DesiredPair(ZeroPair) \in Pair
  BY <1>4, DesiredPairType
<1>6. pass \in PassType
  BY DEF TypeOK
<1>7. setDegraded(pass, MeasureFailure) \in PassType /\ Measured(pass, backend) \in PassType
  BY <1>1, <1>2, <1>6, SetDegradedType, MeasuredType
<1>8. \A p \in PassType, d \in Pair : [p EXCEPT !.desired = d] \in PassType
  BY DEF PassType
<1>9. pass' \in PassType
  BY <1>5, <1>7, <1>8 DEF Measure
<1>10. series' \subseteq Families
  BY DEF TypeOK, Measure, Families
<1> QED BY <1>9, <1>10 DEF TypeOK, Measure, apiVars, swVars, podVars, PCs

(* The cached read of the phantom keeps the types.                         *)
LEMMA GetPodType == TypeOK /\ GetPod => TypeOK'
<1> SUFFICES ASSUME TypeOK, GetPod PROVE TypeOK'
  OBVIOUS
<1>1. pass \in PassType /\ podCache \in PodType
  BY DEF TypeOK
<1>2. pass' \in PassType
  <2>1. PhantomConflict(pass) \in PassType
    BY <1>1, SetDegradedType DEF PhantomConflict, Reasons
  <2>2. [pass EXCEPT !.pod = podCache] \in PassType
    BY <1>1 DEF PassType
  <2>3. Observed(pass, podCache) \in PassType
    BY <1>1 DEF Observed, PassType
  <2> QED BY <1>1, <2>1, <2>2, <2>3 DEF GetPod
<1>3. pc' \in PCs
  BY DEF GetPod, PCs
<1> QED BY <1>2, <1>3 DEF TypeOK, GetPod, apiVars, swVars, podVars

(* A new phantom is a pod.                                                 *)
LEMMA BuildPhantomPodType ==
  ASSUME NEW p \in PassType, NEW r \in Revs
  PROVE  BuildPhantomPod(p.base, p.desired, r) \in PodType
  BY SpecsAssumption DEF PassType, SWType, ShadowWorkloadSpec, BuildPhantomPod, PodType

(* An accepted Create leaves a pod.                                        *)
LEMMA CreateAcceptedType ==
  ASSUME TypeOK, NEW p \in PassType, NEW r \in Revs, CreateAccepted(p, r)
  PROVE  pod' \in PodType /\ podWatch' \in Seq(PodType)
  BY BuildPhantomPodType, WritePodType DEF CreateAccepted

(* A Create keeps the types.                                               *)
LEMMA CreatePhantomType == TypeOK /\ CreatePhantom => TypeOK'
<1> SUFFICES ASSUME TypeOK, CreatePhantom PROVE TypeOK'
  OBVIOUS
<1>1. CASE pod.uid # 0
  BY <1>1 DEF TypeOK, CreatePhantom, swVars, PCs
<1>2. CASE pod.uid = 0
  <2>1. pod' \in PodType /\ podWatch' \in Seq(PodType)
    BY <1>2, CreateAcceptedType DEF CreatePhantom, TypeOK
  <2>2. pass' = [Observed(pass, pod') EXCEPT !.readyReason = "PhantomCreated"]
    BY <1>2 DEF CreatePhantom
  <2>3. Observed(pass, pod') \in PassType
    BY <2>1 DEF TypeOK, Observed, PassType
  <2>4. pass' \in PassType
    BY <2>2, <2>3 DEF PassType, ReadyReasons
  <2>5. UNCHANGED <<sw, nodes, priority, backend, late, swVars, podCache, queue, env>>
    BY DEF CreatePhantom
  <2> QED BY <1>2, <2>1, <2>4, <2>5 DEF CreatePhantom, TypeOK, swVars, PCs, Families
<1> QED BY <1>1, <1>2 DEF TypeOK, PodType

(* The live read of a colliding pod keeps the types.                       *)
LEMMA ResolveType == TypeOK /\ Resolve => TypeOK'
<1> SUFFICES ASSUME TypeOK, Resolve PROVE TypeOK'
  OBVIOUS
<1>1. pass \in PassType /\ pod \in PodType
  BY DEF TypeOK
<1>2. PhantomConflict(pass) \in PassType /\ [pass EXCEPT !.pod = pod] \in PassType
  BY <1>1, SetDegradedType DEF PhantomConflict, Reasons, PassType
<1>3. pass' \in PassType /\ pc' \in PCs /\ queue' \in {"none", "poll", "ready"}
  BY <1>2, ReturnType DEF Resolve, TypeOK, PCs
<1> QED BY <1>3 DEF TypeOK, Resolve, apiVars, swVars, podVars

(* A Delete leaves no pod, or the one there was.                           *)
LEMMA DeleteType ==
  ASSUME TypeOK, NEW p, DeleteAccepted(p) \/ UNCHANGED <<pod, podWatch>>
  PROVE  pod' \in PodType /\ podWatch' \in Seq(PodType)
  BY NoObjectsType, WritePodType DEF TypeOK, DeleteAccepted

(* The Delete of a collided phantom keeps the types.                       *)
LEMMA RecoverType == TypeOK /\ Recover => TypeOK'
<1> SUFFICES ASSUME TypeOK, Recover PROVE TypeOK'
  OBVIOUS
<1>1. pass' \in PassType /\ pc' \in PCs /\ queue' \in {"none", "poll", "ready"}
  BY ReturnType DEF Recover, RecreateLater
<1>2. pod' \in PodType /\ podWatch' \in Seq(PodType)
  BY DeleteType DEF Recover
<1> QED BY <1>1, <1>2 DEF TypeOK, Recover, swVars

(* The Delete of a phantom on the wrong node keeps the types.              *)
LEMMA RepinType == TypeOK /\ Repin => TypeOK'
<1> SUFFICES ASSUME TypeOK, Repin PROVE TypeOK'
  OBVIOUS
<1>1. [setDegraded(pass, "PhantomRecreating") EXCEPT !.soon = TRUE] \in PassType
  <2>1. setDegraded(pass, "PhantomRecreating") \in PassType
    BY SetDegradedType DEF TypeOK, Reasons
  <2> QED BY <2>1 DEF PassType
<1>2. pass' \in PassType /\ pc' \in PCs /\ queue' \in {"none", "poll", "ready"}
  BY <1>1, ReturnType DEF Repin, TypeOK, PCs
<1>3. pod' \in PodType /\ podWatch' \in Seq(PodType)
  BY DeleteType DEF Repin
<1> QED BY <1>2, <1>3 DEF TypeOK, Repin, swVars

(* An accepted resize leaves a pod.                                        *)
LEMMA ResizeAcceptedType ==
  ASSUME TypeOK, NEW p \in PassType, NEW r \in Revs, ResizeAccepted(p, r)
  PROVE  pod' \in PodType /\ podWatch' \in Seq(PodType)
<1>1. [pod EXCEPT !.req = p.desired, !.rv = r] \in PodType
  BY DEF TypeOK, PodType, PassType
<1> QED BY <1>1, WritePodType DEF ResizeAccepted

(* A rejected resize leaves a pass and series.                             *)
LEMMA ResizeRejectedType ==
  ASSUME TypeOK, ResizeRejected
  PROVE  pass' \in PassType /\ series' \subseteq Families
  BY SetDegradedType DEF TypeOK, ResizeRejected, Reasons, Families

(* A resized pass is a pass.                                               *)
LEMMA ResizeSucceedsType ==
  ASSUME TypeOK, NEW r \in Revs
  PROVE  ResizeSucceeds(pass, r) \in PassType
<1>1. ResizedStatus(pass) \in StatusType
  <2>1. env + 1 \in Nat
    BY BoundsAssumption DEF TypeOK
  <2>2. pass.desired.cpu \in Nat /\ pass.desired.mem \in Nat /\ pass.st \in StatusType
    BY DEF TypeOK, PassType, Pair
  <2> QED BY <2>1, <2>2 DEF ResizedStatus, StatusType
<1>2. [pass.pod EXCEPT !.req = pass.desired, !.rv = r] \in PodType
  BY DEF TypeOK, PassType, PodType
<1> QED BY <1>1, <1>2 DEF TypeOK, ResizeSucceeds, PassType, ReadyReasons

(* The resize patch keeps the types.                                       *)
LEMMA ResizeType == TypeOK /\ Resize => TypeOK'
<1> SUFFICES ASSUME TypeOK, Resize PROVE TypeOK'
  OBVIOUS
<1>1. pod' \in PodType /\ podWatch' \in Seq(PodType)
  BY ResizeAcceptedType DEF Resize, TypeOK
<1>2. pass' \in PassType /\ series' \subseteq Families
  BY ResizeSucceedsType, ResizeRejectedType DEF Resize, TypeOK, Families
<1> QED BY <1>1, <1>2 DEF TypeOK, Resize, swVars, PCs

(* The status a pass ends with.                                            *)
LEMMA FinalStatusType == ASSUME NEW p \in PassType PROVE FinalStatus(p) \in StatusType
<1> DEFINE st == WithCurrents(p)
<1>1. CurrentPairOf(p.pod).cpu \in Nat /\ CurrentPairOf(p.pod).mem \in Nat
  BY DEF CurrentPairOf, PassType, PodType, Pair
<1>2. st \in StatusType
  BY <1>1 DEF WithCurrents, PassType, StatusType
<1>3. Condition(p, st) \in CondType
  <2>1. p.base.gen \in Nat /\ p.reason \in Reasons /\ p.readyReason \in ReadyReasons
    BY DEF PassType, SWType
  <2>2. [cpu |-> st.currentCPU, mem |-> st.currentMemory] \in Pair /\ ZeroPair \in Pair
    BY <1>2 DEF StatusType, Pair, ZeroPair
  <2> QED BY <2>1, <2>2 DEF Condition, CondType
<1> HIDE DEF st
<1>4. [st EXCEPT !.cond = Condition(p, st)] \in StatusType
  BY <1>2, <1>3 DEF StatusType
<1> QED BY <1>4 DEF FinalStatus, st

(* A merge patch of statuses is a status.                                  *)
LEMMA MergePatchType ==
  ASSUME NEW live \in StatusType, NEW base \in StatusType, NEW new \in StatusType
  PROVE  MergePatch(live, base, new) \in StatusType
  BY DEF MergePatch, Leaf, MeasLeaf, StatusType

(* An accepted status patch keeps the ShadowWorkload typed.                *)
LEMMA PatchAcceptedType ==
  ASSUME TypeOK, NEW p \in PassType, PatchAccepted(p)
  PROVE  sw' \in SWType /\ swWatch' \in Seq(SWType)
<1> DEFINE st == MergePatch(sw.status, p.base.status, FinalStatus(p))
<1>1. sw.status \in StatusType /\ p.base.status \in StatusType
  BY DEF TypeOK, PassType, SWType
<1>2. st \in StatusType
  BY <1>1, FinalStatusType, MergePatchType
<1>3. WriteSW([sw EXCEPT !.status = st])
  BY DEF PatchAccepted
<1> HIDE DEF st
<1>4. [sw EXCEPT !.status = st] \in SWType
  BY <1>2 DEF TypeOK, SWType
<1> QED BY <1>3, <1>4, WriteSWType

(* The last step of a pass keeps the types.                                *)
LEMMA PatchStatusType == TypeOK /\ PatchStatus => TypeOK'
<1> SUFFICES ASSUME TypeOK, PatchStatus PROVE TypeOK'
  OBVIOUS
<1>1. sw' \in SWType /\ swWatch' \in Seq(SWType)
  BY PatchAcceptedType DEF PatchStatus, TypeOK
<1>2. pass' \in PassType /\ pc' \in PCs /\ queue' \in {"none", "poll", "ready"}
  BY ReturnType DEF PatchStatus
<1>3. series' \subseteq Families
  BY DEF PatchStatus, SetReserved, TypeOK, Families
<1> QED BY <1>1, <1>2, <1>3 DEF TypeOK, PatchStatus, podVars

(* The informers' events.                                                  *)
LEMMA DeliverType == TypeOK /\ (DeliverSW \/ DeliverPod) => TypeOK'
<1> SUFFICES ASSUME TypeOK, DeliverSW \/ DeliverPod PROVE TypeOK'
  OBVIOUS
<1>1. CASE DeliverSW
  <2>1. Head(swWatch) \in SWType /\ Tail(swWatch) \in Seq(SWType)
    BY <1>1 DEF TypeOK, DeliverSW
  <2> QED BY <1>1, <2>1 DEF TypeOK, DeliverSW, UpdateSWCache, Requeue, apiVars, podVars
<1>2. CASE DeliverPod
  <2>1. Head(podWatch) \in PodType /\ Tail(podWatch) \in Seq(PodType)
    BY <1>2 DEF TypeOK, DeliverPod
  <2> QED BY <1>2, <2>1 DEF TypeOK, DeliverPod, UpdatePodCache, Requeue, apiVars, swVars
<1> QED BY <1>1, <1>2

(* The clock, the garbage collector and a start keep the types.            *)
LEMMA BackgroundType == TypeOK /\ (PollFires \/ CollectGarbage \/ Restart) => TypeOK'
<1> SUFFICES ASSUME TypeOK, PollFires \/ CollectGarbage \/ Restart PROVE TypeOK'
  OBVIOUS
<1>1. CASE PollFires
  BY <1>1 DEF TypeOK, PollFires, apiVars, swVars, podVars
<1>2. CASE CollectGarbage
  BY <1>2, NoObjectsType, WritePodType DEF TypeOK, CollectGarbage, swVars
<1>3. CASE Restart
  <2>1. Visible(pod) \in PodType
    BY VisibleType DEF TypeOK
  <2> QED BY <1>3, <2>1 DEF TypeOK, Restart, apiVars, PCs
<1> QED BY <1>1, <1>2, <1>3

(* Every failure and every environment step uses up some of the budget.    *)
LEMMA FaultType == ASSUME TypeOK, NEW kind, Fault(kind) PROVE env' \in 0 .. MaxEnv
  BY BoundsAssumption DEF TypeOK, Fault

(* A failed API call keeps the types.                                      *)
LEMMA APIErrorType == TypeOK /\ APIError => TypeOK'
<1> SUFFICES ASSUME TypeOK, APIError PROVE TypeOK'
  OBVIOUS
<1>1. pass' \in PassType /\ pc' \in PCs /\ queue' \in {"none", "poll", "ready"}
  BY ReturnType DEF APIError
<1>2. series' \subseteq Families
  BY DEF APIError, SetReserved, TypeOK, Families
<1>3. env' \in 0 .. MaxEnv
  BY FaultType DEF APIError
<1> QED BY <1>1, <1>2, <1>3 DEF TypeOK, APIError, apiVars, swVars, podVars

(* A write whose answer is lost keeps the types.                           *)
LEMMA LostReplyType == TypeOK /\ LostReply => TypeOK'
<1> SUFFICES ASSUME TypeOK, LostReply PROVE TypeOK'
  OBVIOUS
<1>1. env' \in 0 .. MaxEnv /\ UNCHANGED <<nodes, priority, backend, late, swCache, podCache>>
  BY FaultType DEF LostReply
<1>2. CASE LostCreate
  <2>1. pod' \in PodType /\ podWatch' \in Seq(PodType)
    BY <1>2, CreateAcceptedType DEF LostCreate, TypeOK
  <2>2. pass' \in PassType /\ pc' \in PCs /\ queue' \in {"none", "poll", "ready"}
    BY <1>2, ReturnType DEF LostCreate
  <2> QED BY <1>1, <1>2, <2>1, <2>2 DEF TypeOK, LostCreate
<1>3. CASE LostDelete
  <2>1. pod' \in PodType /\ podWatch' \in Seq(PodType)
    BY <1>3, DeleteType DEF LostDelete
  <2>2. pass' \in PassType /\ pc' \in PCs /\ queue' \in {"none", "poll", "ready"}
    BY <1>3, ReturnType DEF LostDelete
  <2> QED BY <1>1, <1>3, <2>1, <2>2 DEF TypeOK, LostDelete
<1>4. CASE LostResize
  <2>1. pod' \in PodType /\ podWatch' \in Seq(PodType)
    BY <1>4, ResizeAcceptedType DEF LostResize, TypeOK
  <2>2. pass' \in PassType /\ series' \subseteq Families
    BY <1>4, ResizeRejectedType DEF LostResize
  <2> QED BY <1>1, <1>4, <2>1, <2>2 DEF TypeOK, LostResize, PCs
<1>5. CASE LostPatch
  <2>1. sw' \in SWType /\ swWatch' \in Seq(SWType)
    BY <1>5, PatchAcceptedType DEF LostPatch, TypeOK
  <2>2. pass' \in PassType /\ pc' \in PCs /\ queue' \in {"none", "poll", "ready"}
    BY <1>5, ReturnType DEF LostPatch
  <2>3. series' \subseteq Families
    BY <1>5 DEF LostPatch, SetReserved, TypeOK, Families
  <2> QED BY <1>1, <1>5, <2>1, <2>2, <2>3 DEF TypeOK, LostPatch
<1> QED BY <1>2, <1>3, <1>4, <1>5 DEF LostReply

(* Refused resizes, crashes and new lists keep the types.                  *)
LEMMA ManagerFailureType ==
  TypeOK /\ (RefuseResize \/ Crash \/ OrphanWrite \/ Relist) => TypeOK'
<1> SUFFICES ASSUME TypeOK, RefuseResize \/ Crash \/ OrphanWrite \/ Relist PROVE TypeOK'
  OBVIOUS
<1>1. env' \in 0 .. MaxEnv
  BY FaultType DEF RefuseResize, Crash, OrphanWrite, Relist
<1>2. CASE RefuseResize
  BY <1>1, <1>2, ResizeRejectedType DEF TypeOK, RefuseResize, apiVars, swVars, podVars, PCs
<1>3. CASE Crash \/ OrphanWrite
  <2>1. late' \in LateType
    BY <1>3 DEF Crash, OrphanWrite, TypeOK, LateType
  <2>2. Exit
    BY <1>3 DEF Crash, OrphanWrite
  <2>3. /\ sw' \in SWType /\ swCache' \in SWType /\ swWatch' \in Seq(SWType)
        /\ pod' \in PodType /\ podCache' \in PodType /\ podWatch' \in Seq(PodType)
    BY <2>2, NoObjectsType DEF TypeOK, Exit
  <2>4. /\ nodes' \in [Nodes -> NodeStates] /\ priority' \in BOOLEAN /\ backend' \in Readings
        /\ queue' \in {"none", "poll", "ready"} /\ pc' \in PCs /\ pass' \in PassType
        /\ series' \subseteq Families
    BY <2>2, NoObjectsType DEF TypeOK, Exit, PCs
  <2> QED BY <1>1, <2>1, <2>3, <2>4 DEF TypeOK
<1>4. CASE Relist
  <2>1. Visible(pod) \in PodType
    BY VisibleType DEF TypeOK
  <2>2. swCache' \in SWType /\ swWatch' \in Seq(SWType)
    <3>1. (swCache' = sw /\ swWatch' = <<>>) \/ (swCache' = swCache /\ swWatch' = swWatch)
      BY <1>4 DEF Relist, UpdateSWCache, swVars
    <3>2. <<>> \in Seq(SWType)
      OBVIOUS
    <3> QED BY <3>1, <3>2, Zenon DEF TypeOK
  <2>3. podCache' \in PodType /\ podWatch' \in Seq(PodType)
    <3>1. \/ podCache' = Visible(pod) /\ podWatch' = <<>>
          \/ podCache' = podCache /\ podWatch' = podWatch
      BY <1>4 DEF Relist, UpdatePodCache, podVars
    <3>2. <<>> \in Seq(PodType)
      OBVIOUS
    <3> QED BY <2>1, <3>1, <3>2, Zenon DEF TypeOK
  <2>4. queue' \in {"none", "poll", "ready"}
    BY <1>4 DEF TypeOK, Relist, UpdateSWCache, UpdatePodCache, Requeue
  <2> QED BY <1>1, <1>4, <2>2, <2>3, <2>4 DEF TypeOK, Relist, apiVars
<1> QED BY <1>2, <1>3, <1>4

(* A write that outlives its manager keeps the types.                      *)
LEMMA LateWriteType == TypeOK /\ LateWrite => TypeOK'
<1> SUFFICES ASSUME TypeOK, LateWrite PROVE TypeOK'
  OBVIOUS
<1>1. late.pass \in PassType
  BY DEF TypeOK, LateType
<1>2. pod' \in PodType /\ podWatch' \in Seq(PodType)
  <2>1. LateCreate \/ LateDelete \/ LateResize \/ UNCHANGED <<pod, podWatch>>
    BY DEF LateWrite
  <2> QED BY <1>1, <2>1, CreateAcceptedType, DeleteType, ResizeAcceptedType
          DEF LateCreate, LateDelete, LateResize, TypeOK
<1>3. sw' \in SWType /\ swWatch' \in Seq(SWType)
  <2>1. LatePatch \/ UNCHANGED <<sw, swWatch>>
    BY DEF LateWrite
  <2> QED BY <1>1, <2>1, PatchAcceptedType DEF LatePatch, TypeOK
<1>4. late' = NoLate /\ UNCHANGED <<nodes, priority, backend, swCache, podCache, queue, pc,
                                   pass, series, env>>
  BY DEF LateWrite
<1> QED BY <1>2, <1>3, <1>4, NoObjectsType DEF TypeOK

(* What users do to the ShadowWorkload keeps the types.                    *)
LEMMA UserType == TypeOK /\ (CreateSW \/ EditSpec \/ DeleteSW) => TypeOK'
<1> SUFFICES ASSUME TypeOK, CreateSW \/ EditSpec \/ DeleteSW PROVE TypeOK'
  OBVIOUS
<1>1. env' \in 0 .. MaxEnv
  BY FaultType DEF CreateSW, EditSpec, DeleteSW
<1>2. sw' \in SWType /\ swWatch' \in Seq(SWType)
  <2>1. \A u \in Uids, s \in Specs : NewSW(u, s) \in SWType
    BY NoObjectsType, SpecsAssumption DEF NewSW, SWType
  <2>2. \A s \in Specs : [sw EXCEPT !.spec = s, !.gen = sw.gen + 1] \in SWType
    <3>1. sw.gen + 1 \in Nat /\ sw \in SWType
      BY DEF TypeOK, SWType
    <3> QED BY <3>1, SpecsAssumption DEF SWType
  <2> QED BY <2>1, <2>2, NoObjectsType, WriteSWType DEF CreateSW, EditSpec, DeleteSW
<1>3. UNCHANGED <<pod, nodes, priority, backend, late, podWatch, ManagerVars>>
  BY DEF CreateSW, EditSpec, DeleteSW
<1> QED BY <1>1, <1>2, <1>3 DEF TypeOK, ManagerVars

(* Changes of nodes, PriorityClass and backend keep the types.             *)
LEMMA ClusterType ==
  TypeOK /\ (NodeChanges \/ PriorityClassChanges \/ BackendChanges) => TypeOK'
<1> SUFFICES ASSUME TypeOK, NodeChanges \/ PriorityClassChanges \/ BackendChanges
             PROVE  TypeOK'
  OBVIOUS
<1>1. env' \in 0 .. MaxEnv
  BY FaultType DEF NodeChanges, PriorityClassChanges, BackendChanges
<1>2. CASE NodeChanges
  BY <1>1, <1>2 DEF TypeOK, NodeChanges, ManagerVars
<1>3. CASE PriorityClassChanges
  BY <1>1, <1>3 DEF TypeOK, PriorityClassChanges, ManagerVars
<1>4. CASE BackendChanges
  BY <1>1, <1>4 DEF TypeOK, BackendChanges, ManagerVars
<1> QED BY <1>2, <1>3, <1>4

(* What others do to the pod keeps the types.                              *)
LEMMA PodChangesType ==
  TypeOK /\ (CreateForeign \/ DeletePod \/ StripLabels \/ TouchPod \/ FailPod) => TypeOK'
<1> SUFFICES ASSUME TypeOK, CreateForeign \/ DeletePod \/ StripLabels \/ TouchPod \/ FailPod
             PROVE  TypeOK'
  OBVIOUS
<1>1. env' \in 0 .. MaxEnv
  BY FaultType DEF CreateForeign, DeletePod, StripLabels, TouchPod, FailPod
<1>2. pod' \in PodType /\ podWatch' \in Seq(PodType)
  <2>1. \A r \in Revs, l \in BOOLEAN :
          [NoPod EXCEPT !.uid = r, !.rv = r, !.labelled = l] \in PodType
    BY NoObjectsType DEF PodType
  <2>2. \A p \in PodType, r \in Revs : [p EXCEPT !.rv = r] \in PodType
    BY DEF PodType
  <2>3. /\ pod \in PodType /\ [pod EXCEPT !.labelled = FALSE] \in PodType
        /\ [pod EXCEPT !.failed = TRUE] \in PodType
    BY DEF TypeOK, PodType
  <2>4. CASE CreateForeign
    BY <2>1, <2>4, WritePodType DEF CreateForeign
  <2>5. CASE DeletePod
    BY <2>5, NoObjectsType, WritePodType DEF DeletePod
  <2>6. CASE StripLabels \/ TouchPod \/ FailPod
    BY <2>2, <2>3, <2>6, WritePodType DEF StripLabels, TouchPod, FailPod, ModifyPod
  <2> QED BY <2>4, <2>5, <2>6
<1>3. UNCHANGED <<sw, nodes, priority, backend, late, swWatch, ManagerVars>>
  BY DEF CreateForeign, DeletePod, StripLabels, TouchPod, FailPod, ModifyPod
<1> QED BY <1>1, <1>2, <1>3 DEF TypeOK, ManagerVars

(* The initial states are typed.                                           *)
LEMMA InitType == Init => TypeOK
<1> SUFFICES ASSUME Init PROVE TypeOK
  OBVIOUS
<1>1. sw \in SWType
  BY NoObjectsType, SpecsAssumption DEF Init, NewSW, SWType
<1> QED BY <1>1, NoObjectsType, BoundsAssumption DEF Init, TypeOK, NodeStates, PCs

(* Every step keeps the types.                                             *)
LEMMA NextType == TypeOK /\ [Next]_vars => TypeOK'
<1>1. TypeOK /\ UNCHANGED vars => TypeOK'
  BY DEF TypeOK, vars
<1>2. TypeOK /\ Reconcile => TypeOK'
  BY StartType, GateType, MeasureType, GetPodType, CreatePhantomType, ResolveType,
     RecoverType, RepinType, ResizeType, PatchStatusType DEF Reconcile
<1>3. TypeOK /\ Failure => TypeOK'
  BY APIErrorType, LostReplyType, ManagerFailureType DEF Failure
<1>4. TypeOK /\ Environment => TypeOK'
  BY UserType, ClusterType, PodChangesType DEF Environment
<1> QED BY <1>1, <1>2, <1>3, <1>4, DeliverType, BackgroundType, LateWriteType DEF Next

(* The controller, its caches and its environment stay well typed.         *)
THEOREM TypeCorrect == Spec => []TypeOK
  BY InitType, NextType, PTL DEF Spec
=============================================================================
