---------------------------- MODULE StatusProofs ----------------------------
(***************************************************************************)
(* Proofs about what the status of a ShadowWorkload says: that a settled   *)
(* Ready report is true of the phantom, that the snapshot of a measurement *)
(* and the pair of currents are never put together from two sources, that  *)
(* Ready implies a measurement of the same generation, and that what has   *)
(* converged stays so.                                                     *)
(*                                                                         *)
(* Except for the last, none of this holds of every behaviour: the patch   *)
(* carries no version and goes by name, so it is right only while what the *)
(* pass read is still true.  The hypotheses of the theorems say which      *)
(* disturbances must be absent, and every one of them is needed.           *)
(***************************************************************************)
EXTENDS ForeignProofs, LoopProofs, ReconcilerHistory

(* A ShadowWorkload may be deleted and created again under its name.       *)
Recreates == {"create", "delete"} \subseteq Faults

(***************************************************************************)
(* What a pass read, and what becomes of it.                               *)
(***************************************************************************)
(* The base of the pass is the live ShadowWorkload, except that its spec   *)
(* may have been edited meanwhile.                                         *)
Matches ==
  /\ sw.uid = pass.base.uid /\ sw.status = pass.base.status
  /\ pass.base.gen <= sw.gen
  /\ pass.base.gen = sw.gen => pass.base.spec = sw.spec

(* Only users and patches change the ShadowWorkload, and a patch ends the  *)
(* pass.                                                                   *)
LEMMA SWMoves ==
  [Next]_vars => \/ UNCHANGED <<sw, swWatch>> \/ DeliverSW \/ Relist \/ Crash \/ OrphanWrite
                 \/ CreateSW \/ EditSpec \/ DeleteSW
                 \/ PatchStatus \/ (LostReply /\ LostPatch) \/ LateWrite
<1>1. Reconcile => UNCHANGED <<sw, swWatch>> \/ PatchStatus
  BY DEF Reconcile, ForgetDeleted, StartPass, GetNode, GetPriorityClass, Measure, GetPod,
         CreatePhantom, Resolve, Recover, Repin, Resize, apiVars, swVars
<1>2. Failure => \/ UNCHANGED <<sw, swWatch>> \/ Relist \/ Crash \/ OrphanWrite
                 \/ (LostReply /\ LostPatch)
  BY DEF Failure, APIError, LostReply, LostCreate, LostDelete, LostResize, RefuseResize,
         apiVars, swVars
<1>3. Environment => UNCHANGED <<sw, swWatch>> \/ CreateSW \/ EditSpec \/ DeleteSW
  BY DEF Environment, NodeChanges, PriorityClassChanges, BackendChanges, CreateForeign,
         DeletePod, StripLabels, TouchPod, FailPod, ModifyPod
<1> QED BY <1>1, <1>2, <1>3
        DEF Next, vars, DeliverPod, PollFires, CollectGarbage, Restart, apiVars, swVars

(* While the pass runs on, its base stays the live one until a user        *)
(* deletes it.                                                             *)
LEMMA MatchesKept ==
  ASSUME TypeOK, [Next]_vars, Working, Working', Matches, pass.base.uid # 0
  PROVE  Matches' \/ DeleteSW \/ LateWrite
<1>1. pass'.base = pass.base
  BY BaseStays
<1>2. sw \in SWType /\ sw.gen \in Nat /\ pass.base.gen \in Nat
  BY DEF TypeOK, SWType, PassType
<1>3. CASE sw' = sw
  BY <1>1, <1>3 DEF Matches
<1>4. CASE EditSpec
  <2>1. PICK s \in Specs : sw' = [sw EXCEPT !.spec = s, !.gen = sw.gen + 1]
    BY <1>4 DEF EditSpec, WriteSW
  <2>2. sw'.uid = sw.uid /\ sw'.status = sw.status /\ sw'.gen = sw.gen + 1
    BY <1>2, <2>1 DEF SWType
  <2> QED BY <1>1, <1>2, <2>2 DEF Matches
<1>5. ~CreateSW
  BY DEF CreateSW, Matches
<1>6. ~PatchStatus /\ ~(LostReply /\ LostPatch)
  BY DEF PatchStatus, LostPatch, Return, Working
<1> QED BY <1>3, <1>4, <1>5, <1>6, SWMoves
        DEF DeliverSW, Relist, Crash, OrphanWrite, Exit, apiVars

(* A patch onto the status that the pass read leaves the pass's status.    *)
LEMMA MergeOntoBase ==
  ASSUME NEW new \in StatusType, NEW base \in StatusType
  PROVE  MergePatch(base, base, new) = new
  BY DEF MergePatch, Leaf, MeasLeaf, StatusType

(* So an accepted patch of a pass that matches reports what it found.      *)
LEMMA PatchedStatus ==
  ASSUME TypeOK, Matches, PatchAccepted(pass)
  PROVE  /\ sw'.uid = sw.uid /\ sw'.gen = sw.gen /\ sw'.spec = sw.spec
         /\ sw'.status = FinalStatus(pass)
<1>1. pass \in PassType /\ sw \in SWType /\ sw.status \in StatusType
  BY DEF TypeOK, SWType
<1>2. MergePatch(sw.status, pass.base.status, FinalStatus(pass)) = FinalStatus(pass)
  BY <1>1, FinalStatusType, MergeOntoBase DEF Matches
<1>3. sw' = [sw EXCEPT !.status = FinalStatus(pass)]
  BY <1>2 DEF PatchAccepted, WriteSW
<1> QED BY <1>1, <1>3 DEF SWType

(* What a final status is made of.                                         *)
LEMMA FinalStatusParts ==
  ASSUME NEW p \in PassType
  PROVE  /\ Snapshot(FinalStatus(p)) = Snapshot(p.st)
         /\ CurrentPair(FinalStatus(p)) = IF p.observed THEN p.pod.req ELSE CurrentPair(p.st)
         /\ FinalStatus(p).measGen = p.st.measGen
         /\ FinalStatus(p).cond.gen = p.base.gen
         /\ FinalStatus(p).cond.ready <=> p.reason = ""
         /\ FinalStatus(p).cond.reason = IF p.reason # "" THEN p.reason ELSE p.readyReason
<1> DEFINE st == WithCurrents(p)
<1>1. p.st \in StatusType /\ p.pod.req \in Pair
  BY DEF PassType, PodType
<1>2. st \in StatusType
  BY <1>1 DEF WithCurrents, StatusType, CurrentPairOf, Pair
<1>3. Snapshot(st) = Snapshot(p.st) /\ st.measGen = p.st.measGen
  BY <1>1 DEF Snapshot, WithCurrents, StatusType
<1>4. CurrentPair(st) = IF p.observed THEN p.pod.req ELSE CurrentPair(p.st)
  BY <1>1 DEF CurrentPair, WithCurrents, StatusType, CurrentPairOf, Pair
<1> HIDE DEF st
<1>5. FinalStatus(p) = [st EXCEPT !.cond = Condition(p, st)]
  BY DEF FinalStatus, st
<1>6. /\ Snapshot(FinalStatus(p)) = Snapshot(st) /\ CurrentPair(FinalStatus(p)) = CurrentPair(st)
      /\ FinalStatus(p).measGen = st.measGen /\ FinalStatus(p).cond = Condition(p, st)
  BY <1>2, <1>5 DEF Snapshot, CurrentPair, StatusType
<1>7. /\ Condition(p, st).gen = p.base.gen
      /\ Condition(p, st).ready <=> p.reason = ""
      /\ Condition(p, st).reason = IF p.reason # "" THEN p.reason ELSE p.readyReason
  <2>1. CASE p.reason # ""
    BY <2>1 DEF Condition
  <2>2. CASE p.reason = ""
    BY <2>2 DEF Condition
  <2> QED BY <2>1, <2>2
<1> QED BY <1>3, <1>4, <1>6, <1>7

(***************************************************************************)
(* A settled Ready report is true.  The hypotheses exclude                 *)
(*   - cached reads that trail the API server, so that a pass starts from  *)
(*     the ShadowWorkload and the phantom there are;                       *)
(*   - patches that arrive when their manager is gone, which put an old    *)
(*     report over a newer one;                                            *)
(*   - pods under the phantom's name that the label-scoped cache hides or  *)
(*     nobody controls: their removal calls no pass, and a Create that     *)
(*     collides with one returns without a report;                         *)
(*   - lists that skip the events of a deletion and a re-creation, after   *)
(*     which the informer sees one object, at most changed.                *)
(***************************************************************************)
Undisturbed ==
  /\ Lag = "none"
  /\ Faults \cap {"orphan", "strip", "foreign"} = {}
  /\ "relist" \in Faults => "podDelete" \notin Faults /\ ~Recreates

(* A pass is due that will see the end of the ShadowWorkload the present   *)
(* one works from, or no pass will ever report again.                      *)
SWDue ==
  \/ queue = "ready"
  \/ "relist" \notin Faults /\ \E i \in DOMAIN swWatch : swWatch[i].uid = 0
  \/ sw.uid = 0 /\ "create" \notin Faults

(* An event of the phantom will call a pass.                               *)
EventDue == "relist" \notin Faults /\ podWatch # <<>>

(* Every pod of the phantom's name is a labelled, controlled one.          *)
Ours(p) == p = NoPod \/ (p.uid # 0 /\ p.owner # 0 /\ p.labelled)

OnlyOurs ==
  Ours(pod) /\ Ours(podCache) /\ \A i \in DOMAIN podWatch : Ours(podWatch[i])

(* A pass works from the live ShadowWorkload, or another one will follow.  *)
BaseCurrent == Working => pass.base.uid # 0 /\ (Matches \/ SWDue)

(* The live pod has the identity, the node and the size of p.              *)
Stands(p) == pod.uid # 0 /\ pod.owner = p.owner /\ pod.node = p.node /\ pod.req = p.req

(* What a pass has observed stands, or another pass will follow.           *)
PassTrue ==
  /\ pc \notin {"resolve", "recover"}
  /\ pc = "create" => pod.uid = 0
  /\ pass.observed => pc \in {"resize", "status"}
  /\ pc = "resize" \/ (pc = "status" /\ pass.reason = "") => pass.observed
  /\ pass.observed => pass.pod.owner = pass.base.uid /\ pass.pod.node = pass.base.spec.node
  /\ pass.observed /\ pass.reason = "" => Stands(pass.pod) \/ SWDue \/ EventDue

(* What a Ready report says of the present spec.                           *)
ReportStands ==
  ownedBySw(pod, sw) /\ pod.node = sw.spec.node /\ CurrentPairOf(pod) = CurrentPair(sw.status)

(* A report that waits for the next poll is true, or a pass will follow.   *)
ReportTrue ==
  pc = "idle" /\ queue = "poll"
    => \/ SWDue
       \/ /\ sw.status.cond.gen <= sw.gen
          /\ ReportsReady => EventDue \/ ReportStands

GoneIsNotReady == sw.uid = 0 => ~sw.status.cond.ready

SettledInv ==
  /\ LoopInv /\ StreamInv /\ late = NoLate /\ OnlyOurs
  /\ BaseCurrent /\ PassTrue /\ ReportTrue /\ GoneIsNotReady

(* The invariant holds before the manager starts.                          *)
LEMMA SettledInit == Init => SettledInv
<1> SUFFICES ASSUME Init PROVE SettledInv
  OBVIOUS
<1>1. LoopInv /\ StreamInv
  BY LoopInvInit, StreamInit
<1>2. podWatch = <<>> /\ DOMAIN podWatch = {} /\ Visible(NoPod) = NoPod
  BY DEF Init, Visible
<1>3. OnlyOurs
  BY <1>2 DEF Init, OnlyOurs, Ours
<1>4. PICK u \in Uids, s \in Specs : sw \in {NoSW, NewSW(u, s)}
  BY DEF Init
<1>5. sw.status = NoStatus
  BY <1>4 DEF NewSW, NoSW
<1>6. GoneIsNotReady
  <2>1. ~NoStatus.cond.ready
    BY DEF NoStatus, NoCond
  <2> QED BY <1>5, <2>1, Zenon DEF GoneIsNotReady
<1> QED BY <1>1, <1>3, <1>6
        DEF Init, SettledInv, BaseCurrent, PassTrue, ReportTrue, Working, NoPass

(* What the hypotheses exclude.                                            *)
LEMMA Undisturbing ==
  ASSUME Undisturbed, [Next]_vars, late = NoLate
  PROVE  /\ ~OrphanWrite /\ ~LateWrite /\ ~StripLabels /\ ~CreateForeign
         /\ late' = NoLate /\ (Relist => ~EventDue)
<1>1. ~OrphanWrite /\ ~LateWrite /\ ~StripLabels /\ ~CreateForeign
  BY DEF Undisturbed, OrphanWrite, LateWrite, StripLabels, CreateForeign, Fault
<1>2. Relist => ~EventDue
  BY DEF Relist, Fault, EventDue
<1> QED BY <1>1, <1>2, LateOnly

(* Only the first step of a pass and the end of the manager take the key   *)
(* from the queue, and nothing but a return makes it wait for a poll.      *)
LEMMA QueueMoves ==
  ASSUME [Next]_vars
  PROVE  /\ queue = "ready" => \/ queue' = "ready" \/ StartPass \/ ForgetDeleted
                               \/ pc' = "down" \/ Restart
         /\ pc' = "idle" /\ queue' = "poll"
              => \/ pc = "idle" /\ queue = "poll"
                 \/ (PatchStatus /\ PatchAccepted(pass)) \/ Resolve \/ Recover
<1>1. CASE Reconcile
  BY <1>1 DEF Reconcile, ForgetDeleted, StartPass, GetNode, GetPriorityClass, Measure, GetPod,
         CreatePhantom, Resolve, Recover, Repin, Resize, PatchStatus, Return, RecreateLater, Requeue
<1>2. CASE Failure
  BY <1>2 DEF Failure, APIError, LostReply, LostCreate, LostDelete, LostResize, LostPatch,
         RefuseResize, Crash, OrphanWrite, Exit, Relist, UpdateSWCache, UpdatePodCache, Return,
         Requeue, swVars, podVars
<1>3. CASE Environment
  BY <1>3 DEF Environment, CreateSW, EditSpec, DeleteSW, NodeChanges, PriorityClassChanges,
         BackendChanges, CreateForeign, DeletePod, StripLabels, TouchPod, FailPod, ModifyPod,
         ManagerVars
<1>4. CASE DeliverSW \/ DeliverPod \/ PollFires \/ CollectGarbage \/ Restart \/ LateWrite
             \/ UNCHANGED vars
  BY <1>4 DEF DeliverSW, DeliverPod, UpdateSWCache, UpdatePodCache, PollFires, CollectGarbage,
         Restart, LateWrite, Requeue, vars
<1> QED BY <1>1, <1>2, <1>3, <1>4 DEF Next

(***************************************************************************)
(* What is due stays due until a pass starts.                              *)
(***************************************************************************)
(* A write leaves the events that wait where they are.                     *)
LEMMA EventsStay ==
  ASSUME TypeOK, TypeOK', WriteSW(sw'), NEW i \in DOMAIN swWatch
  PROVE  i \in DOMAIN swWatch' /\ swWatch'[i] = swWatch[i]
<1>1. swWatch \in Seq(SWType) /\ sw' \in SWType
  BY DEF TypeOK
<1>2. swWatch' = swWatch \/ swWatch' = Append(swWatch, sw')
  BY DEF WriteSW
<1> QED BY <1>1, <1>2

(* Users and patches write so.                                             *)
LEMMA WritesSW ==
  CreateSW \/ EditSpec \/ DeleteSW \/ PatchAccepted(pass) => WriteSW(sw')
  BY DEF CreateSW, EditSpec, DeleteSW, PatchAccepted, WriteSW

(* The event of an end stays, or is delivered and calls a pass.            *)
LEMMA EndDelivered ==
  ASSUME TypeOK, DeliverSW, NEW i \in DOMAIN swWatch, swWatch[i].uid = 0
  PROVE  queue' = "ready" \/ \E j \in DOMAIN swWatch' : swWatch'[j].uid = 0
<1>1. swWatch \in Seq(SWType) /\ swWatch # <<>>
  BY DEF TypeOK, DeliverSW
<1>2. /\ Tail(swWatch) \in Seq(SWType) /\ Len(Tail(swWatch)) = Len(swWatch) - 1
      /\ \A k \in 1 .. Len(Tail(swWatch)) : Tail(swWatch)[k] = swWatch[k + 1]
  BY <1>1, HeadTailProperties
<1>3. CASE i = 1
  <2>1. Head(swWatch).uid = 0
    BY <1>1, <1>3
  <2> QED BY <2>1 DEF DeliverSW, UpdateSWCache, primaryShadowWorkloadPredicate, Requeue
<1>4. CASE i # 1
  <2> DEFINE rest == Tail(swWatch)
             m == Len(rest)
  <2>1. Len(swWatch) \in Nat /\ i \in 1 .. Len(swWatch) /\ DOMAIN rest = 1 .. m /\ m \in Nat
    BY <1>1, <1>2
  <2> HIDE DEF rest, m
  <2>2. i - 1 \in 1 .. m /\ (i - 1) + 1 = i
    BY <1>2, <1>4, <2>1 DEF rest, m
  <2>3. rest[i - 1].uid = 0 /\ i - 1 \in DOMAIN rest
    BY <1>2, <2>1, <2>2 DEF rest, m
  <2> QED BY <2>3 DEF DeliverSW, rest
<1> QED BY <1>3, <1>4

(* So what is due stays due.                                               *)
LEMMA DueKept ==
  ASSUME TypeOK, Undisturbed, late = NoLate, [Next]_vars, SWDue, pc # "down", pc' # "down"
  PROVE  SWDue' \/ StartPass \/ ForgetDeleted
<1>1. TypeOK' /\ ~OrphanWrite /\ ~LateWrite
  BY NextType, Undisturbing
<1>2. CASE queue = "ready"
  BY <1>2, QueueMoves DEF SWDue, Restart
<1>3. ASSUME "relist" \notin Faults, NEW i \in DOMAIN swWatch, swWatch[i].uid = 0
      PROVE  SWDue'
  <2>1. CASE UNCHANGED swWatch
    BY <1>3, <2>1 DEF SWDue
  <2>2. CASE DeliverSW
    BY <1>3, <2>2, EndDelivered DEF SWDue
  <2>3. CASE CreateSW \/ EditSpec \/ DeleteSW \/ PatchAccepted(pass)
    BY <1>1, <1>3, <2>3, WritesSW, EventsStay DEF SWDue
  <2>4. ~Relist /\ ~Crash
    BY <1>3 DEF Relist, Fault, Crash, Exit
  <2>5. PatchStatus \/ LostPatch => UNCHANGED swWatch \/ PatchAccepted(pass)
    BY DEF PatchStatus, LostPatch
  <2> QED BY <1>1, <2>1, <2>2, <2>3, <2>4, <2>5, SWMoves
<1>4. CASE sw.uid = 0 /\ "create" \notin Faults
  <2>1. ~CreateSW /\ ~EditSpec /\ ~DeleteSW /\ ~PatchAccepted(pass)
    BY <1>4 DEF CreateSW, EditSpec, DeleteSW, PatchAccepted, PatchRefused, Fault
  <2>2. sw' = sw
    BY <1>1, <2>1, SWMoves
       DEF DeliverSW, Relist, Crash, Exit, PatchStatus, LostPatch, apiVars
  <2> QED BY <1>4, <2>2 DEF SWDue
<1> QED BY <1>2, <1>3, <1>4 DEF SWDue

(* The deletion of a ShadowWorkload makes a pass due.                      *)
LEMMA DeletionDue ==
  ASSUME TypeOK, Undisturbed, DeleteSW, pc # "down" PROVE SWDue'
<1>1. WriteSW(NoSW) /\ sw # NoSW /\ "delete" \in Faults
  BY DEF DeleteSW, NoSW, Fault
<1>2. sw' = NoSW /\ swWatch' = Append(swWatch, NoSW) /\ swWatch \in Seq(SWType)
  BY <1>1 DEF WriteSW, TypeOK
<1>3. NoSW.uid = 0 /\ NoSW \in SWType
  BY NoObjectsType DEF NoSW
<1>4. Len(swWatch) + 1 \in DOMAIN swWatch' /\ swWatch'[Len(swWatch) + 1] = NoSW
  BY <1>2, <1>3
<1>5. CASE "relist" \notin Faults
  BY <1>3, <1>4, <1>5 DEF SWDue
<1>6. CASE "relist" \in Faults
  BY <1>1, <1>2, <1>3, <1>6 DEF SWDue, Undisturbed, Recreates
<1> QED BY <1>5, <1>6

(***************************************************************************)
(* The base of a pass is current, and every pod is the phantom's.          *)
(***************************************************************************)
(* A pass begins with StartPass.                                           *)
LEMMA PassBegins == [Next]_vars /\ Working' => Working \/ StartPass
  BY DEF Next, vars, Reconcile, Failure, Environment, ForgetDeleted, StartPass, GetNode,
         GetPriorityClass, Measure, GetPod, CreatePhantom, Resolve, Recover, Repin, Resize,
         PatchStatus, DeliverSW, DeliverPod, PollFires, CollectGarbage, Restart, LateWrite,
         APIError, LostReply, LostCreate, LostDelete, LostResize, LostPatch, RefuseResize, Crash,
         OrphanWrite, Exit, Relist, Return, CreateSW, EditSpec, DeleteSW, NodeChanges,
         PriorityClassChanges, BackendChanges, CreateForeign, DeletePod, StripLabels, TouchPod,
         FailPod, ModifyPod, ManagerVars, Working

(* Without lag a pass starts from the live ShadowWorkload.                 *)
LEMMA StartsCurrent ==
  ASSUME LoopInv, Lag = "none", StartPass
  PROVE  Matches' /\ pass'.base.uid # 0 /\ pass' = [NoPass EXCEPT !.base = sw, !.st = sw.status,
                                                                  !.readyReason = "WithinThreshold"]
<1>1. swCache = sw /\ sw \in SWType
  BY DEF StartPass, CacheCurrent, Drained, LoopInv, CacheFollows, TypeOK
<1>2. pass' = [NoPass EXCEPT !.base = sw, !.st = sw.status, !.readyReason = "WithinThreshold"]
  BY <1>1 DEF StartPass
<1>3. pass'.base = sw /\ sw' = sw
  BY <1>2 DEF NoPass, StartPass, apiVars
<1> QED BY <1>1, <1>2, <1>3 DEF StartPass, Matches, SWType

(* The base of every pass is the live ShadowWorkload, or a pass is due.    *)
LEMMA BaseCurrentNext == Undisturbed /\ SettledInv /\ [Next]_vars => BaseCurrent'
<1> SUFFICES ASSUME Undisturbed, SettledInv, [Next]_vars, Working'
             PROVE  pass'.base.uid # 0 /\ (Matches' \/ SWDue')
  BY DEF BaseCurrent
<1>1. TypeOK /\ LoopInv /\ late = NoLate /\ BaseCurrent
  BY DEF SettledInv, LoopInv
<1>2. CASE StartPass
  BY <1>1, <1>2, StartsCurrent DEF Undisturbed
<1>3. CASE Working
  <2>1. pass'.base = pass.base /\ pass.base.uid # 0 /\ pc # "down" /\ pc' # "down"
    BY <1>1, <1>3, BaseStays DEF BaseCurrent, Working
  <2>2. CASE Matches
    BY <1>1, <1>3, <2>1, <2>2, MatchesKept, DeletionDue, Undisturbing
  <2>3. CASE SWDue
    BY <1>1, <1>3, <2>1, <2>3, DueKept DEF StartPass, ForgetDeleted, Working
  <2> QED BY <1>1, <1>3, <2>1, <2>2, <2>3 DEF BaseCurrent
<1> QED BY <1>2, <1>3, PassBegins

(* The pod keeps what matters of it.                                       *)
Touches ==
  /\ pod.uid # 0
  /\ pod'.uid = pod.uid /\ pod'.owner = pod.owner /\ pod'.node = pod.node
  /\ pod'.req = pod.req /\ pod'.labelled = pod.labelled

PassCreates == pc = "create" /\ pc' # pc /\ \E r \in Revs : CreateAccepted(pass, r)
PassResizes == pc = "resize" /\ pc' # pc /\ \E r \in Revs : ResizeAccepted(pass, r)

PodDeleted == pod' = NoPod /\ (DeletePod \/ CollectGarbage \/ pc \in {"recover", "repin"})

(* Nobody else creates or resizes a pod.                                   *)
LEMMA PodWritten ==
  ASSUME TypeOK, Undisturbed, late = NoLate, [Next]_vars
  PROVE  pod' = pod \/ PodDeleted \/ Touches \/ PassCreates \/ PassResizes
<1>1. ~OrphanWrite /\ ~LateWrite /\ ~StripLabels /\ ~CreateForeign
  BY Undisturbing
<1>2. CASE Reconcile
  BY <1>2
     DEF Reconcile, ForgetDeleted, StartPass, GetNode, GetPriorityClass, Measure, GetPod,
         CreatePhantom, Resolve, Recover, Repin, Resize, PatchStatus, DeleteAccepted, WritePod,
         PassCreates, PassResizes, PodDeleted, apiVars
<1>3. CASE Failure
  BY <1>1, <1>3
     DEF Failure, APIError, LostReply, LostCreate, LostDelete, LostResize, LostPatch,
         RefuseResize, Crash, Exit, Relist, DeleteAccepted, WritePod, Return,
         PassCreates, PassResizes, PodDeleted, apiVars
<1>4. CASE TouchPod \/ FailPod
  <2>1. PICK new \in {pod, [pod EXCEPT !.failed = TRUE]} : ModifyPod(new)
    BY <1>4 DEF TouchPod, FailPod
  <2>2. pod \in PodType
    BY DEF TypeOK
  <2>3. PICK r \in Revs : pod' = [new EXCEPT !.rv = r]
    BY <2>1 DEF ModifyPod, WritePod
  <2> QED BY <2>1, <2>2, <2>3 DEF Touches, ModifyPod, PodType
<1>5. CASE DeletePod \/ CollectGarbage
  BY <1>5 DEF DeletePod, CollectGarbage, WritePod, PodDeleted
<1>6. CASE UNCHANGED pod
  BY <1>6
<1> QED BY <1>1, <1>2, <1>3, <1>4, <1>5, <1>6
        DEF Next, Environment, CreateSW, EditSpec, DeleteSW, NodeChanges, PriorityClassChanges,
            BackendChanges, DeliverSW, DeliverPod, PollFires, Restart, apiVars, vars

(* What a pass creates is its ShadowWorkload's phantom, as desired.        *)
LEMMA CreatedPod ==
  ASSUME PassCreates
  PROVE  /\ pod.uid = 0 /\ pod'.uid # 0 /\ pod'.labelled
         /\ pod'.owner = pass.base.uid /\ pod'.node = pass.base.spec.node
<1>1. PICK r \in Revs : pod.uid = 0 /\ pod' = BuildPhantomPod(pass.base, pass.desired, r)
  BY DEF PassCreates, CreateAccepted, WritePod
<1>2. r # 0
  BY RevsAssumption
<1> QED BY <1>1, <1>2 DEF BuildPhantomPod

(* A resize changes the size and the version of the pod.                   *)
LEMMA ResizedPod ==
  ASSUME TypeOK, PassResizes
  PROVE  /\ pod.uid # 0 /\ pod'.uid = pod.uid /\ pod'.labelled = pod.labelled
         /\ pod'.owner = pod.owner /\ pod'.node = pod.node /\ pod'.req = pass.desired
<1>1. PICK r \in Revs : pod.uid # 0 /\ pod' = [pod EXCEPT !.req = pass.desired, !.rv = r]
  BY DEF PassResizes, ResizeAccepted, WritePod
<1>2. pod \in PodType
  BY DEF TypeOK
<1> QED BY <1>1, <1>2 DEF PodType

(* The pod stays a labelled and controlled one.                            *)
LEMMA PodStaysOurs ==
  ASSUME TypeOK, Undisturbed, late = NoLate, BaseCurrent, Ours(pod), [Next]_vars
  PROVE  Ours(pod')
<1>1. NoPod.uid = 0
  BY DEF NoPod
<1>2. CASE pod' = pod \/ PodDeleted \/ Touches
  BY <1>1, <1>2 DEF Ours, PodDeleted, Touches
<1>3. CASE PassCreates
  BY <1>3, CreatedPod DEF BaseCurrent, Working, Ours, PassCreates
<1>4. CASE PassResizes
  BY <1>1, <1>4, ResizedPod DEF Ours
<1> QED BY <1>2, <1>3, <1>4, PodWritten

(* And so do its copies.                                                   *)
LEMMA OnlyOursNext == Undisturbed /\ SettledInv /\ [Next]_vars => OnlyOurs'
<1> SUFFICES ASSUME Undisturbed, SettledInv, [Next]_vars PROVE OnlyOurs'
  OBVIOUS
<1>1. TypeOK /\ PodFollows /\ podWatch \in Seq(PodType) /\ OnlyOurs
  BY DEF SettledInv, StreamInv, TypeOK
<1>2. Ours(pod')
  BY <1>1, PodStaysOurs DEF SettledInv, OnlyOurs
<1>3. \A p : Ours(p) => Ours(Visible(p))
  BY DEF Ours, Visible
<1>4. Ours(NoPod)
  BY DEF Ours
<1>5. CASE SamePods
  BY <1>1, <1>5 DEF SamePods, OnlyOurs
<1>6. CASE ListsPod \/ DropsPods
  BY <1>1, <1>2, <1>3, <1>4, <1>6 DEF ListsPod, DropsPods, OnlyOurs
<1>7. CASE WritesPod
  <2>1. TypeOK' /\ podCache' = podCache
    BY <1>1, <1>7, NextType DEF WritesPod
  <2>2. podWatch' = podWatch \/ podWatch' = Append(podWatch, Visible(pod'))
    BY <1>7 DEF WritesPod, WritePod
  <2>3. ASSUME NEW i \in DOMAIN podWatch' PROVE Ours(podWatch'[i])
    <3>1. CASE podWatch' = podWatch
      BY <1>1, <2>3, <3>1 DEF OnlyOurs
    <3>2. CASE podWatch' = Append(podWatch, Visible(pod'))
      <4>1. Visible(pod') \in PodType
        BY <2>1, VisibleType DEF TypeOK
      <4>2. \/ i \in DOMAIN podWatch /\ podWatch'[i] = podWatch[i]
            \/ podWatch'[i] = Visible(pod')
        BY <1>1, <2>3, <3>2, <4>1
      <4> QED BY <1>1, <1>2, <1>3, <4>2 DEF OnlyOurs
    <3> QED BY <2>2, <3>1, <3>2
  <2> QED BY <1>1, <1>2, <2>1, <2>3 DEF OnlyOurs
<1>8. CASE DeliverPod
  <2>1. podWatch # <<>> /\ podCache' = Head(podWatch) /\ podWatch' = Tail(podWatch)
    BY <1>8 DEF DeliverPod, UpdatePodCache
  <2>2. 1 \in DOMAIN podWatch /\ Head(podWatch) = podWatch[1]
    BY <1>1, <2>1
  <2>3. \A i \in DOMAIN podWatch' : i + 1 \in DOMAIN podWatch /\ podWatch'[i] = podWatch[i + 1]
    <3>1. /\ Tail(podWatch) \in Seq(PodType) /\ Len(Tail(podWatch)) = Len(podWatch) - 1
          /\ \A i \in 1 .. Len(Tail(podWatch)) : Tail(podWatch)[i] = podWatch[i + 1]
      BY <1>1, <2>1, HeadTailProperties
    <3> DEFINE rest == Tail(podWatch)
               n == Len(podWatch)
               m == Len(rest)
    <3>2. n \in Nat /\ DOMAIN podWatch = 1 .. n /\ DOMAIN rest = 1 .. m
      BY <1>1, <3>1
    <3> HIDE DEF rest, n, m
    <3> QED BY <2>1, <3>1, <3>2 DEF rest, n, m
  <2> QED BY <1>1, <1>2, <2>1, <2>2, <2>3 DEF OnlyOurs
<1> QED BY <1>1, <1>5, <1>6, <1>7, <1>8, PodMoves

(***************************************************************************)
(* What a pass observed stands, or an event of the phantom is due.         *)
(***************************************************************************)
(* Events wait until they are delivered, or skipped by a list.             *)
LEMMA EventsWait ==
  [Next]_vars => \/ podWatch' = podWatch \/ WritePod(pod') \/ DeliverPod \/ Relist
                 \/ pc' = "down"
<1>1. Reconcile => podWatch' = podWatch \/ WritePod(pod')
  BY DEF Reconcile, ForgetDeleted, StartPass, GetNode, GetPriorityClass, Measure, GetPod,
         CreatePhantom, Resolve, Recover, Repin, Resize, PatchStatus, CreateAccepted,
         DeleteAccepted, ResizeAccepted, WritePod, podVars
<1>2. Failure => podWatch' = podWatch \/ WritePod(pod') \/ Relist \/ pc' = "down"
  BY DEF Failure, APIError, LostReply, LostCreate, LostDelete, LostResize, LostPatch,
         RefuseResize, Crash, OrphanWrite, Exit, CreateAccepted, DeleteAccepted,
         ResizeAccepted, WritePod, podVars
<1>3. Environment => podWatch' = podWatch \/ WritePod(pod')
  BY DEF Environment, CreateSW, EditSpec, DeleteSW, NodeChanges, PriorityClassChanges,
         BackendChanges, CreateForeign, DeletePod, StripLabels, TouchPod, FailPod, ModifyPod,
         WritePod
<1>4. LateWrite => podWatch' = podWatch \/ WritePod(pod')
  BY DEF LateWrite, LateCreate, LateDelete, LateResize, CreateAccepted, DeleteAccepted,
         ResizeAccepted, WritePod
<1> QED BY <1>1, <1>2, <1>3, <1>4
        DEF Next, vars, DeliverSW, PollFires, CollectGarbage, Restart, WritePod, podVars

(* A delivered pod event calls a pass.                                     *)
LEMMA DeliveredDue == SettledInv /\ DeliverPod => queue' = "ready"
<1> SUFFICES ASSUME SettledInv, DeliverPod PROVE queue' = "ready"
  OBVIOUS
<1>1. podWatch \in Seq(PodType) /\ podWatch # <<>> /\ EventsDiffer /\ OnlyOurs
  BY DEF SettledInv, StreamInv, TypeOK, DeliverPod
<1>2. Head(podWatch) = podWatch[1] /\ 1 \in DOMAIN podWatch
  BY <1>1
<1>3. Head(podWatch) # podCache /\ Ours(Head(podWatch)) /\ Ours(podCache)
  BY <1>1, <1>2 DEF EventsDiffer, OnlyOurs
<1>4. podCache.owner # 0 \/ Head(podWatch).owner # 0
  BY <1>3 DEF Ours
<1> QED BY <1>3, <1>4 DEF DeliverPod, UpdatePodCache, Requeue

(* So an event that is due stays due, or has called a pass.                *)
LEMMA EventDueKept ==
  ASSUME SettledInv, Undisturbed, [Next]_vars, EventDue, pc' # "down"
  PROVE  EventDue' \/ SWDue'
<1>1. podWatch \in Seq(PodType) /\ podWatch # <<>> /\ pod' \in PodType
  BY NextType DEF SettledInv, StreamInv, TypeOK, EventDue
<1>2. ~Relist
  BY Undisturbing DEF SettledInv
<1>3. CASE WritePod(pod')
  <2>1. Visible(pod') \in PodType
    BY <1>1, VisibleType
  <2>2. podWatch' # <<>>
    BY <1>1, <1>3, <2>1 DEF WritePod
  <2> QED BY <2>2 DEF EventDue
<1>4. CASE DeliverPod
  BY <1>4, DeliveredDue DEF SWDue
<1> QED BY <1>2, <1>3, <1>4, EventsWait DEF EventDue

(* The removal of the phantom by others is an event.                       *)
LEMMA RemovalDue ==
  ASSUME SettledInv, Undisturbed, DeletePod, pc # "down" PROVE EventDue'
<1>1. /\ WritePod(NoPod) /\ pod.uid # 0 /\ "podDelete" \in Faults /\ podWatch \in Seq(PodType)
      /\ Ours(pod)
  BY DEF DeletePod, Fault, SettledInv, StreamInv, TypeOK, OnlyOurs
<1>2. NoPod.uid = 0 /\ NoPod \in PodType /\ ~NoPod.labelled
  BY NoObjectsType DEF NoPod
<1>3. Visible(pod) = pod /\ Visible(NoPod) = NoPod
  BY <1>1, <1>2, Zenon DEF Ours, Visible
<1>4. podWatch' = Append(podWatch, NoPod)
  BY <1>1, <1>2, <1>3 DEF WritePod
<1>5. podWatch' # <<>>
  BY <1>1, <1>2, <1>4
<1> QED BY <1>1, <1>5 DEF EventDue, Undisturbed

(* The phantom of the live ShadowWorkload stands, unless the pass itself   *)
(* deletes or resizes it.                                                  *)
LEMMA StandsKept ==
  ASSUME SettledInv, Undisturbed, [Next]_vars, NEW p, Stands(p), p.owner = sw.uid,
         pc \notin {"down", "recover", "repin"}, ~PassResizes
  PROVE  Stands(p)' \/ EventDue'
<1>1. TypeOK /\ late = NoLate
  BY DEF SettledInv, LoopInv
<1>2. ~PassCreates
  BY CreatedPod DEF Stands
<1>3. CASE pod' = pod \/ Touches
  BY <1>3 DEF Stands, Touches
<1>4. CASE PodDeleted
  <2>1. ~CollectGarbage
    BY DEF CollectGarbage, Stands
  <2> QED BY <1>4, <2>1, RemovalDue DEF PodDeleted
<1> QED BY <1>1, <1>2, <1>3, <1>4, PodWritten

(***************************************************************************)
(* The steps of a pass keep what it says true.                             *)
(***************************************************************************)
(* Before its observation a pass says nothing of the phantom.              *)
LEMMA Unobserved ==
  ASSUME ~pass'.observed, pc' \notin {"create", "resolve", "recover", "resize"},
         pc' = "status" => pass'.reason # ""
  PROVE  PassTrue'
  BY DEF PassTrue

(* The first reason of a pass stays its reason.                            *)
LEMMA DegradedPass ==
  ASSUME NEW p \in PassType, NEW reason, reason # ""
  PROVE  /\ setDegraded(p, reason).reason # ""
         /\ setDegraded(p, reason).observed = p.observed
  BY DEF setDegraded, PassType

(* A pass starts without an observation, and ends without one.             *)
LEMMA StartTrue == StartPass \/ (pass' = NoPass /\ pc' \in {"idle", "down"}) => PassTrue'
<1>1. NoPass.observed = FALSE
  BY DEF NoPass
<1>2. StartPass => pass'.observed = FALSE /\ pc' = "node"
  BY DEF StartPass, NoPass
<1> QED BY <1>1, <1>2, Unobserved

(* Up to the read of the phantom.                                          *)
LEMMA GatesTrue ==
  TypeOK /\ PassTrue /\ (GetNode \/ GetPriorityClass \/ Measure) => PassTrue'
<1> SUFFICES ASSUME TypeOK, PassTrue, GetNode \/ GetPriorityClass \/ Measure PROVE PassTrue'
  OBVIOUS
<1>1. pass \in PassType /\ ~pass.observed
  BY DEF TypeOK, PassTrue, GetNode, GetPriorityClass, Measure
<1>2. \A node : nodeConditionReason(node) # ""
  BY DEF nodeConditionReason
<1>3. CASE GetNode
  BY <1>1, <1>2, <1>3, DegradedPass, Unobserved DEF GetNode
<1>4. CASE GetPriorityClass
  <2>1. /\ setDegraded(pass, "PriorityClassMissing").reason # ""
        /\ ~setDegraded(pass, "PriorityClassMissing").observed
    BY <1>1 DEF setDegraded, PassType
  <2> QED BY <1>1, <1>4, <2>1, Unobserved DEF GetPriorityClass
<1>5. CASE Measure
  <2>1. pass'.observed = pass.observed /\ pc' = "pod"
    BY <1>1, <1>5 DEF Measure, setDegraded, Measured, PassType
  <2> QED BY <1>1, <2>1, Unobserved
<1> QED BY <1>3, <1>4, <1>5

(* The phantom a pass reads is the live one.                               *)
LEMMA GetPodTrue ==
  ASSUME Undisturbed, SettledInv, GetPod PROVE PassTrue'
<1>1. pass \in PassType /\ ~pass.observed
  BY DEF SettledInv, LoopInv, TypeOK, PassTrue, GetPod
<1>2. podCache = pod /\ pod' = pod
  <2>1. podCache = Visible(pod) /\ Ours(pod)
    BY DEF SettledInv, OnlyOurs, StreamInv, PodFollows, GetPod, CacheCurrent, Drained, Undisturbed
  <2> QED BY <2>1 DEF Ours, Visible, GetPod, apiVars
<1>3. CASE podCache.uid = 0 /\ pc' = "create" /\ UNCHANGED pass
  BY <1>1, <1>2, <1>3 DEF PassTrue
<1>4. CASE pc' = "status" /\ pass' = PhantomConflict(pass)
  <2>1. PhantomConflict(pass).reason # "" /\ ~PhantomConflict(pass).observed
    BY <1>1 DEF PhantomConflict, setDegraded, PassType
  <2> QED BY <1>4, <2>1, Unobserved
<1>5. CASE pc' = "repin" /\ pass' = [pass EXCEPT !.pod = podCache]
  <2>1. ~pass'.observed
    BY <1>1, <1>5 DEF PassType
  <2> QED BY <1>5, <2>1, Unobserved
<1>6. CASE /\ ownedBySw(podCache, pass.base) /\ Pinned(podCache, pass.base)
           /\ pass' = Observed(pass, podCache) /\ pc' \in {"resize", "status"}
  <2>1. pass'.observed /\ pass'.pod = podCache /\ pass'.base = pass.base
    BY <1>1, <1>6 DEF Observed, PassType
  <2> QED BY <1>2, <1>6, <2>1 DEF PassTrue, Stands, ownedBySw, Pinned
<1> QED BY <1>3, <1>4, <1>5, <1>6 DEF GetPod

(* A rejected resize gives the pass a reason.                              *)
LEMMA RejectedTrue ==
  ASSUME TypeOK, PassTrue, pc = "resize", pc' = "status", ResizeRejected PROVE PassTrue'
<1>1. pass \in PassType
  BY DEF TypeOK
<1>2. pass'.reason # "" /\ pass'.observed = pass.observed /\ pass'.pod = pass.pod
      /\ pass'.base = pass.base
  BY <1>1, DegradedPass, PassPod DEF ResizeRejected
<1> QED BY <1>2 DEF PassTrue

(* So is the phantom it creates, or resizes.                               *)
LEMMA WritesTrue ==
  ASSUME Undisturbed, SettledInv, [Next]_vars, CreatePhantom \/ Resize PROVE PassTrue'
<1>1. pass \in PassType /\ PassTrue /\ BaseCurrent /\ TypeOK /\ late = NoLate
  BY DEF SettledInv, LoopInv, TypeOK
<1>2. CASE CreatePhantom
  <2>1. pass' = [Observed(pass, pod') EXCEPT !.readyReason = "PhantomCreated"] /\ pc' = "status"
        /\ PassCreates
    BY <1>1, <1>2 DEF CreatePhantom, PassTrue, PassCreates
  <2>2. pass'.observed /\ pass'.pod = pod' /\ pass'.base = pass.base
    BY <1>1, <2>1 DEF Observed, PassType
  <2> QED BY <2>1, <2>2, CreatedPod DEF PassTrue, Stands
<1>3. CASE Resize /\ ResizeRejected
  BY <1>1, <1>3, RejectedTrue DEF Resize
<1>4. ASSUME Resize, NEW r \in Revs, ResizeAccepted(pass, r), pass' = ResizeSucceeds(pass, r)
      PROVE  PassTrue'
  <2>1. PassResizes /\ pc' = "status" /\ pc = "resize"
    BY <1>4 DEF Resize, PassResizes
  <2>2. /\ pass'.observed = pass.observed /\ pass'.base = pass.base /\ pass'.reason = pass.reason
        /\ pass'.pod.owner = pass.pod.owner /\ pass'.pod.node = pass.pod.node
        /\ pass'.pod.req = pass.desired
    BY <1>1, <1>4 DEF ResizeSucceeds, PassType, PodType
  <2>3. pass.observed /\ pass.reason = "" => Stands(pass.pod) \/ SWDue \/ EventDue
    BY <1>1 DEF PassTrue
  <2>4. Stands(pass.pod) => Stands(pass.pod)'
    BY <1>1, <2>1, <2>2, ResizedPod DEF Stands
  <2>5. SWDue => SWDue'
    BY <1>1, <2>1, DueKept DEF StartPass, ForgetDeleted
  <2>6. EventDue => EventDue' \/ SWDue'
    BY <2>1, EventDueKept
  <2> QED BY <1>1, <2>1, <2>2, <2>3, <2>4, <2>5, <2>6 DEF PassTrue
<1> QED BY <1>2, <1>3, <1>4 DEF Resize

(* The other calls of a pass.                                              *)
LEMMA CallsTrue ==
  TypeOK /\ PassTrue /\ (Resolve \/ Recover \/ Repin \/ PatchStatus \/ APIError) => PassTrue'
<1> SUFFICES ASSUME TypeOK, PassTrue, Resolve \/ Recover \/ Repin \/ PatchStatus \/ APIError
             PROVE  PassTrue'
  OBVIOUS
<1>1. ~Resolve /\ ~Recover
  BY DEF Resolve, Recover, PassTrue
<1>2. CASE pass' = NoPass /\ pc' = "idle"
  BY <1>2, StartTrue
<1>3. CASE Repin /\ pc' = "status"
  <2>1. pass \in PassType /\ ~pass.observed
    BY <1>3 DEF TypeOK, PassTrue, Repin
  <2>2. pass' = [setDegraded(pass, "PhantomRecreating") EXCEPT !.soon = TRUE]
    BY <1>3 DEF Repin, Return
  <2>3. pass'.reason = setDegraded(pass, "PhantomRecreating").reason
        /\ pass'.observed = setDegraded(pass, "PhantomRecreating").observed
    BY <2>1, <2>2 DEF setDegraded, PassType
  <2> QED BY <1>3, <2>1, <2>3, DegradedPass, Unobserved
<1> QED BY <1>1, <1>2, <1>3 DEF Repin, PatchStatus, APIError, Return

(* The steps of others leave what a pass observed, or call another one.    *)
LEMMA OthersTrue ==
  ASSUME Undisturbed, SettledInv, [Next]_vars, UNCHANGED <<pc, pass>> PROVE PassTrue'
<1>1. PassTrue /\ BaseCurrent /\ TypeOK /\ late = NoLate /\ ~PassCreates /\ ~PassResizes
  BY DEF SettledInv, LoopInv, PassCreates, PassResizes
<1>2. pc = "create" => pod'.uid = 0
  <2>1. NoPod.uid = 0
    BY DEF NoPod
  <2> QED BY <1>1, <2>1, PodWritten DEF PassTrue, PodDeleted, Touches
<1>3. ASSUME pass.observed, pass.reason = ""
      PROVE  Stands(pass.pod)' \/ SWDue' \/ EventDue'
  <2>1. /\ pc \in {"resize", "status"} /\ pass.pod.owner = pass.base.uid
        /\ Stands(pass.pod) \/ SWDue \/ EventDue
    BY <1>1, <1>3 DEF PassTrue
  <2>2. SWDue => SWDue'
    BY <1>1, <2>1, DueKept DEF StartPass, ForgetDeleted
  <2>3. EventDue => EventDue' \/ SWDue'
    BY <2>1, EventDueKept
  <2>4. Matches \/ SWDue
    BY <1>1, <2>1 DEF BaseCurrent, Working
  <2>5. ASSUME Stands(pass.pod), Matches PROVE Stands(pass.pod)' \/ EventDue'
    <3>1. PICK p : p = pass.pod
      OBVIOUS
    <3>2. Stands(p) /\ p.owner = sw.uid
      BY <2>1, <2>5, <3>1 DEF Stands, Matches
    <3>3. Stands(p)' \/ EventDue'
      BY <1>1, <2>1, <3>2, StandsKept
    <3>4. pass'.pod = p
      BY <3>1
    <3> QED BY <3>3, <3>4 DEF Stands
  <2> QED BY <2>1, <2>2, <2>3, <2>4, <2>5
<1> QED BY <1>1, <1>2, <1>3 DEF PassTrue

(* Every step keeps what the pass says true.                               *)
LEMMA PassTrueNext == Undisturbed /\ SettledInv /\ [Next]_vars => PassTrue'
<1> SUFFICES ASSUME Undisturbed, SettledInv, [Next]_vars PROVE PassTrue'
  OBVIOUS
<1>1. TypeOK /\ PassTrue /\ late = NoLate
  BY DEF SettledInv, LoopInv
<1>2. CASE UNCHANGED <<pc, pass>>
  BY <1>2, OthersTrue
<1>3. CASE pass' = NoPass /\ pc' \in {"idle", "down"}
  BY <1>3, StartTrue
<1>4. CASE pc = "resize" /\ pc' = "status" /\ ResizeRejected
  BY <1>1, <1>4, RejectedTrue
<1>5. CASE Restart
  BY <1>1, <1>5, Unobserved DEF Restart, PassTrue
<1>6. CASE Reconcile
  BY <1>1, <1>2, <1>6, StartTrue, GatesTrue, GetPodTrue, WritesTrue, CallsTrue
     DEF Reconcile, ForgetDeleted
<1>7. CASE Failure
  BY <1>1, <1>2, <1>3, <1>4, <1>7, CallsTrue
     DEF Failure, LostReply, LostCreate, LostDelete, LostResize, LostPatch, RefuseResize,
         Crash, OrphanWrite, Exit, Relist, Return
<1> QED BY <1>1, <1>2, <1>5, <1>6, <1>7
        DEF Next, Environment, CreateSW, EditSpec, DeleteSW, NodeChanges, PriorityClassChanges,
            BackendChanges, CreateForeign, DeletePod, StripLabels, TouchPod, FailPod, ModifyPod,
            ManagerVars, DeliverSW, DeliverPod, PollFires, CollectGarbage, LateWrite, vars

(***************************************************************************)
(* So does the report that the pass leaves.                                *)
(***************************************************************************)
(* An accepted patch leaves a report that is true of what was observed.    *)
LEMMA PatchedTrue ==
  ASSUME Undisturbed, SettledInv, [Next]_vars, PatchStatus, PatchAccepted(pass)
  PROVE  ReportTrue'
<1>1. /\ TypeOK /\ PassTrue /\ BaseCurrent /\ late = NoLate /\ pass \in PassType
      /\ pc = "status" /\ pc' = "idle" /\ UNCHANGED <<pod, podWatch>>
  BY DEF SettledInv, LoopInv, TypeOK, PatchStatus, Return, podVars
<1>2. SWDue => SWDue'
  BY <1>1, DueKept DEF StartPass, ForgetDeleted
<1>3. ASSUME Matches, ~SWDue PROVE ReportTrue'
  <2>1. /\ sw'.uid = sw.uid /\ sw'.gen = sw.gen /\ sw'.spec = sw.spec
        /\ sw'.status = FinalStatus(pass)
    BY <1>1, <1>3, PatchedStatus
  <2>2. sw'.status.cond.gen <= sw'.gen
    BY <1>3, <2>1, <1>1, FinalStatusParts DEF Matches
  <2>3. ASSUME ReportsReady' PROVE EventDue' \/ ReportStands'
    <3>1. pass.reason = "" /\ sw.gen = pass.base.gen /\ pass.base.spec = sw.spec
      BY <1>1, <1>3, <2>1, <2>3, FinalStatusParts DEF ReportsReady, Matches
    <3>2. pass.observed /\ (Stands(pass.pod) \/ EventDue)
      BY <1>1, <1>3, <3>1 DEF PassTrue
    <3>3. CurrentPair(sw'.status) = pass.pod.req
      BY <1>1, <2>1, <3>2, FinalStatusParts
    <3>4. CurrentPair(sw.status)' = pass.pod.req
      BY <3>3 DEF CurrentPair
    <3> QED BY <1>1, <1>3, <2>1, <3>1, <3>2, <3>4
            DEF PassTrue, Stands, EventDue, ReportStands, ownedBySw, Matches, CurrentPairOf
  <2> QED BY <2>2, <2>3 DEF ReportTrue
<1> QED BY <1>1, <1>2, <1>3 DEF BaseCurrent, Working, ReportTrue

(* A report that waits is not touched by others, or a pass follows.        *)
LEMMA WaitingTrue ==
  ASSUME Undisturbed, SettledInv, [Next]_vars, pc = "idle", pc' = "idle", queue = "poll",
         queue' = "poll"
  PROVE  ReportTrue'
<1>1. TypeOK /\ late = NoLate /\ ReportTrue /\ sw \in SWType /\ ~PassCreates /\ ~PassResizes
  BY DEF SettledInv, LoopInv, TypeOK, PassCreates, PassResizes
<1>2. SWDue => SWDue'
  BY <1>1, DueKept DEF StartPass, ForgetDeleted
<1>3. ASSUME ~SWDue, ~SWDue' PROVE ReportTrue'
  <2>1. sw.status.cond.gen <= sw.gen /\ (ReportsReady => EventDue \/ ReportStands)
    BY <1>1, <1>3 DEF ReportTrue
  <2>2. CASE sw' = sw
    <3>1. EventDue => EventDue'
      BY <1>3, EventDueKept
    <3>2. ASSUME ReportStands PROVE ReportStands' \/ EventDue'
      <4>1. PICK p : p = pod
        OBVIOUS
      <4>2. Stands(p) /\ p.owner = sw.uid /\ p.node = sw.spec.node /\ p.req = CurrentPair(sw.status)
        BY <3>2, <4>1 DEF Stands, ReportStands, ownedBySw, CurrentPairOf
      <4>3. Stands(p)' \/ EventDue'
        BY <1>1, <4>2, StandsKept
      <4>4. CurrentPair(sw.status)' = CurrentPair(sw.status)
        BY <2>2 DEF CurrentPair
      <4> QED BY <2>2, <4>2, <4>3, <4>4 DEF Stands, ReportStands, ownedBySw, CurrentPairOf
    <3> QED BY <2>1, <2>2, <3>1, <3>2 DEF ReportTrue, ReportsReady
  <2>3. CASE EditSpec
    <3>1. sw'.gen = sw.gen + 1 /\ sw'.status = sw.status
      BY <1>1, <2>3 DEF EditSpec, WriteSW, SWType
    <3>2. sw.gen \in Nat /\ sw.status.cond.gen \in Nat
      BY <1>1 DEF SWType, StatusType, CondType
    <3> QED BY <2>1, <3>1, <3>2 DEF ReportTrue, ReportsReady
  <2>4. CASE CreateSW \/ DeleteSW
    <3>1. sw'.status = NoStatus
      <4>1. sw' = NoSW \/ \E u \in Uids, s \in Specs : sw' = NewSW(u, s)
        BY <2>4 DEF CreateSW, DeleteSW, WriteSW
      <4>2. NoSW.status = NoStatus /\ \A u, s : NewSW(u, s).status = NoStatus
        BY DEF NoSW, NewSW
      <4> QED BY <4>1, <4>2
    <3>4. sw'.gen \in Nat
      BY <1>1, NextType DEF TypeOK, SWType
    <3>2. ~NoStatus.cond.ready /\ NoStatus.cond.gen = 0
      BY DEF NoStatus, NoCond
    <3>3. ~sw'.status.cond.ready /\ sw'.status.cond.gen = 0
      BY <3>1, <3>2, Zenon
    <3> QED BY <3>3, <3>4 DEF ReportTrue, ReportsReady
  <2>5. ~LateWrite /\ ~OrphanWrite /\ ~Crash /\ ~PatchStatus /\ ~LostPatch
    BY <1>1, Undisturbing DEF Crash, Exit, PatchStatus, LostPatch
  <2> QED BY <2>2, <2>3, <2>4, <2>5, SWMoves DEF DeliverSW, Relist, apiVars
<1> QED BY <1>2, <1>3 DEF ReportTrue

(* Every step keeps the report true.                                       *)
LEMMA ReportTrueNext == Undisturbed /\ SettledInv /\ [Next]_vars => ReportTrue'
<1> SUFFICES ASSUME Undisturbed, SettledInv, [Next]_vars, pc' = "idle", queue' = "poll"
             PROVE  ReportTrue'
  BY DEF ReportTrue
<1>1. ~Resolve /\ ~Recover
  BY DEF SettledInv, PassTrue, Resolve, Recover
<1>2. CASE PatchStatus /\ PatchAccepted(pass)
  BY <1>2, PatchedTrue
<1>3. CASE queue = "poll" /\ pc = "idle"
  BY <1>3, WaitingTrue
<1> QED BY <1>1, <1>2, <1>3, QueueMoves

(* An object that is gone does not report.                                 *)
LEMMA GoneNext == SettledInv /\ [Next]_vars => GoneIsNotReady'
<1> SUFFICES ASSUME SettledInv, [Next]_vars, sw'.uid = 0 PROVE ~sw'.status.cond.ready
  BY DEF GoneIsNotReady
<1>1. TypeOK /\ sw \in SWType /\ GoneIsNotReady /\ late = NoLate
  BY DEF SettledInv, LoopInv, TypeOK
<1>2. CASE sw' = sw
  BY <1>1, <1>2 DEF GoneIsNotReady
<1>3. ~CreateSW
  <2>1. ASSUME NEW u \in Uids, NEW s \in Specs, sw' = NewSW(u, s) PROVE FALSE
    BY <2>1, UidsAssumption DEF NewSW
  <2> QED BY <2>1 DEF CreateSW, WriteSW
<1>4. ~EditSpec /\ ~PatchAccepted(pass)
  BY <1>1 DEF EditSpec, PatchAccepted, PatchRefused, WriteSW, SWType
<1>5. CASE DeleteSW
  <2>1. sw'.status = NoStatus
    BY <1>5 DEF DeleteSW, WriteSW, NoSW
  <2>2. ~NoStatus.cond.ready
    BY DEF NoStatus, NoCond
  <2> QED BY <2>1, <2>2, Zenon
<1>6. ~LateWrite
  BY <1>1 DEF LateWrite
<1> QED BY <1>2, <1>3, <1>4, <1>5, <1>6, SWMoves
        DEF DeliverSW, Relist, Crash, OrphanWrite, Exit, PatchStatus, LostPatch, apiVars

(* Every step keeps the whole invariant.                                   *)
LEMMA SettledNext == Undisturbed /\ SettledInv /\ [Next]_vars => SettledInv'
<1> SUFFICES ASSUME Undisturbed, SettledInv, [Next]_vars PROVE SettledInv'
  OBVIOUS
<1>1. LoopInv' /\ StreamInv'
  BY LoopInvNext, StreamNext DEF SettledInv
<1>2. late' = NoLate
  BY Undisturbing DEF SettledInv
<1> QED BY <1>1, <1>2, OnlyOursNext, BaseCurrentNext, PassTrueNext, ReportTrueNext, GoneNext
        DEF SettledInv

(* Once no pass is running or due and the caches are current, a Ready      *)
(* report for the present spec is true: the phantom exists, is labelled    *)
(* and controlled, sits on the node of the spec and has the size that the  *)
(* status reports, whatever was edited, lost, refused or restarted between *)
(* the reads of the Reconcile pass and its status patch.                   *)
THEOREM SettledTruthAlways == ASSUME Undisturbed PROVE Spec => []SettledTruth
<1>1. SettledInv => SettledTruth
  <2> SUFFICES ASSUME SettledInv, Settled, ReportsReady
               PROVE  /\ ownedBySw(pod, sw) /\ pod.labelled /\ pod.node = sw.spec.node
                      /\ CurrentPairOf(pod) = CurrentPair(sw.status)
    BY DEF SettledTruth, ReadyMeansPhantom, CurrentsMirror
  <2>1. /\ ReportTrue /\ GoneIsNotReady /\ OnlyOurs /\ pc = "idle" /\ queue = "poll"
        /\ swWatch = <<>> /\ podWatch = <<>>
    BY DEF SettledInv, Settled, Drained
  <2>2. ~SWDue /\ ~EventDue
    BY <2>1 DEF SWDue, EventDue, GoneIsNotReady, ReportsReady
  <2>3. ReportStands
    BY <2>1, <2>2 DEF ReportTrue
  <2>4. pod.labelled
    BY <2>1, <2>3 DEF ReportStands, ownedBySw, OnlyOurs, Ours, NoPod
  <2> QED BY <2>3, <2>4 DEF ReportStands
<1>2. SettledInv /\ [Next]_vars => SettledInv'
  BY SettledNext
<1> QED BY <1>1, <1>2, SettledInit, PTL DEF Spec

(***************************************************************************)
(* The status holds one measurement and one size, never halves of two.     *)
(* Three things must be absent: lag, with which a pass patches onto a base *)
(* that is no longer the live status; a patch that arrives late; and the   *)
(* re-creation of the ShadowWorkload under a running pass, whose patch     *)
(* goes by name and is merged into the status of the new object.           *)
(***************************************************************************)
Current == Lag = "none" /\ "orphan" \notin Faults /\ ~Recreates

(* The base of a pass is the live ShadowWorkload until that is gone.       *)
BaseSame ==
  Working => pass.base.uid # 0 /\ (Matches \/ (sw.uid = 0 /\ "create" \notin Faults))

(* The requests of every controlled pod are remembered.                    *)
PodHeld == pod.owner # 0 => pod.req \in held

(* What a pass carries in its status, or would write into it, was there.   *)
Reports(p) ==
  /\ Snapshot(p.st) \in taken /\ CurrentPair(p.st) \in held
  /\ p.observed => p.pod.req \in held

HistoryInv ==
  /\ ForeignInv /\ LoopInv /\ StreamInv /\ late = NoLate /\ BaseSame
  /\ Snapshot(NoStatus) \in taken /\ ZeroPair \in held
  /\ CoherentSnapshot /\ ReportedWasHeld /\ PodHeld
  /\ Working => Reports(pass)

(* The invariant holds before the manager starts.                          *)
LEMMA HistoryInit == HInit => HistoryInv
<1> SUFFICES ASSUME HInit PROVE HistoryInv
  OBVIOUS
<1>1. Init /\ taken = {Snapshot(NoStatus)} /\ held = {ZeroPair} /\ ~Working
  BY DEF HInit, Init, Working
<1>2. sw.status = NoStatus
  <2>1. PICK u \in Uids, s \in Specs : sw \in {NoSW, NewSW(u, s)}
    BY <1>1 DEF Init
  <2> QED BY <2>1 DEF NewSW, NoSW
<1>3. CurrentPair(NoStatus) = ZeroPair /\ NoPod.owner = 0 /\ pod = NoPod /\ late = NoLate
  BY <1>1 DEF CurrentPair, NoStatus, ZeroPair, NoPod, Init
<1> QED BY <1>1, <1>2, <1>3, ForeignInvInit, LoopInvInit, StreamInit
        DEF HistoryInv, BaseSame, CoherentSnapshot, ReportedWasHeld, PodHeld

(* What is gone stays gone where nothing is created.                       *)
LEMMA GoneStays ==
  ASSUME [Next]_vars, ~LateWrite, sw.uid = 0, "create" \notin Faults
  PROVE  sw' = sw
<1>1. ~CreateSW /\ ~EditSpec /\ ~DeleteSW /\ ~PatchAccepted(pass)
  BY DEF CreateSW, EditSpec, DeleteSW, PatchAccepted, PatchRefused, Fault
<1> QED BY <1>1, SWMoves
        DEF DeliverSW, Relist, Crash, OrphanWrite, Exit, PatchStatus, LostPatch, apiVars

(* The base of a pass stays the live one.                                  *)
LEMMA BaseSameNext == Current /\ HistoryInv /\ [Next]_vars => BaseSame'
<1> SUFFICES ASSUME Current, HistoryInv, [Next]_vars, Working'
             PROVE  pass'.base.uid # 0 /\ (Matches' \/ (sw'.uid = 0 /\ "create" \notin Faults))
  BY DEF BaseSame
<1>1. TypeOK /\ LoopInv /\ BaseSame /\ ~LateWrite
  BY NeverLate DEF HistoryInv, LoopInv, Current
<1>2. CASE StartPass
  BY <1>1, <1>2, StartsCurrent DEF Current
<1>3. CASE Working
  <2>1. pass'.base = pass.base /\ pass.base.uid # 0
    BY <1>1, <1>3, BaseStays DEF BaseSame
  <2>2. CASE Matches
    <3>1. DeleteSW => sw'.uid = 0 /\ "create" \notin Faults
      BY DEF DeleteSW, WriteSW, NoSW, Fault, Current, Recreates
    <3> QED BY <1>1, <1>3, <2>1, <2>2, <3>1, MatchesKept
  <2>3. CASE sw.uid = 0 /\ "create" \notin Faults
    BY <1>1, <2>1, <2>3, GoneStays
  <2> QED BY <1>1, <1>3, <2>1, <2>2, <2>3 DEF BaseSame
<1> QED BY <1>2, <1>3, PassBegins

(* The history forgets nothing.                                            *)
LEMMA RecordGrows == Record => taken \subseteq taken' /\ held \subseteq held' /\ PodHeld'
  BY DEF Record, PodHeld, CurrentPairOf

(* So the status reports what was there, after a patch too.                *)
LEMMA StatusReports ==
  ASSUME Current, HistoryInv, [Next]_vars, Record
  PROVE  CoherentSnapshot' /\ ReportedWasHeld'
<1> DEFINE Good(st) == Snapshot(st) \in taken /\ CurrentPair(st) \in held
<1>1. TypeOK /\ sw \in SWType /\ Good(sw.status) /\ ~LateWrite /\ pass \in PassType
  BY NeverLate DEF HistoryInv, LoopInv, TypeOK, CoherentSnapshot, ReportedWasHeld, Current
<1>2. Good(sw'.status)
  <2>1. CASE sw' = sw
    BY <1>1, <2>1
  <2>2. CASE EditSpec
    <3>1. sw'.status = sw.status
      BY <1>1, <2>2 DEF EditSpec, WriteSW, SWType
    <3> QED BY <1>1, <3>1
  <2>3. CASE CreateSW \/ DeleteSW
    <3>1. sw' = NoSW \/ \E u \in Uids, s \in Specs : sw' = NewSW(u, s)
      BY <2>3 DEF CreateSW, DeleteSW, WriteSW
    <3>2. NoSW.status = NoStatus /\ \A u, s : NewSW(u, s).status = NoStatus
      BY DEF NoSW, NewSW
    <3>3. CurrentPair(NoStatus) = ZeroPair
      BY DEF CurrentPair, NoStatus, ZeroPair
    <3>4. sw'.status = NoStatus
      BY <3>1, <3>2
    <3> QED BY <3>3, <3>4 DEF HistoryInv
  <2>4. ASSUME PatchAccepted(pass), pc = "status" PROVE Good(sw'.status)
    <3>1. Matches /\ Reports(pass)
      BY <2>4 DEF HistoryInv, BaseSame, Working, PatchAccepted, PatchRefused
    <3>2. sw'.status = FinalStatus(pass)
      BY <1>1, <2>4, <3>1, PatchedStatus
    <3>3. Good(FinalStatus(pass))
      BY <1>1, <3>1, FinalStatusParts DEF Reports
    <3> QED BY <3>2, <3>3
  <2> QED BY <1>1, <2>1, <2>2, <2>3, <2>4, SWMoves
          DEF DeliverSW, Relist, Crash, OrphanWrite, Exit, PatchStatus, LostPatch, apiVars
<1>3. Good(sw'.status)
  BY <1>2
<1> QED BY <1>3, RecordGrows DEF CoherentSnapshot, ReportedWasHeld, Snapshot, CurrentPair

(* A step of the pass that changes nothing of this kind.                   *)
SameReports == pass'.st = pass.st /\ (pass'.observed => pass.observed /\ pass'.pod = pass.pod)

(* Such a step keeps what the pass reports.                                *)
LEMMA SameReport ==
  ASSUME Reports(pass), SameReports, Record PROVE Reports(pass)'
  BY RecordGrows DEF Reports, SameReports, Snapshot, CurrentPair

(* A reason changes nothing of it.                                         *)
LEMMA DegradedReports ==
  ASSUME NEW p \in PassType, NEW reason
  PROVE  /\ setDegraded(p, reason).st = p.st
         /\ setDegraded(p, reason).observed = p.observed
         /\ setDegraded(p, reason).pod = p.pod
  BY DEF setDegraded, PassType

(* The measurement of a pass is remembered as it is put into the status.   *)
LEMMA MeasureReports ==
  ASSUME HistoryInv, Measure, Record PROVE Reports(pass)'
<1>1. /\ pass \in PassType /\ backend \in Reading /\ Reports(pass)
      /\ pc = "measure" /\ pc' = "pod"
  BY ReadingsAssumption DEF HistoryInv, LoopInv, TypeOK, Measure, Working
<1>2. CASE MeasureFailure # ""
  <2>1. pass' = [setDegraded(pass, MeasureFailure) EXCEPT !.desired = DesiredPair(ZeroPair)]
    BY <1>2 DEF Measure
  <2>2. SameReports
    BY <1>1, <2>1 DEF SameReports, setDegraded, PassType
  <2> QED BY <1>1, <2>2, SameReport
<1>3. CASE MeasureFailure = ""
  <2>1. pass' = [Measured(pass, backend) EXCEPT !.desired = DesiredPair(PairOf(backend))]
    BY <1>3 DEF Measure
  <2>2. /\ pass'.measured /\ pass'.st = MeasuredStatus(pass, backend)
        /\ pass'.observed = pass.observed /\ pass'.pod = pass.pod
    BY <1>1, <2>1 DEF Measured, PassType
  <2>3. /\ Snapshot(MeasuredStatus(pass, backend)) = Observation
        /\ CurrentPair(MeasuredStatus(pass, backend)) = CurrentPair(pass.st)
    <3>1. pass.st \in StatusType
      BY <1>1 DEF PassType
    <3> QED BY <3>1
            DEF Snapshot, Observation, CurrentPair, MeasuredStatus, MeasurementPairOf, StatusType
  <2>4. Observation \in taken'
    BY <1>1, <2>2 DEF Record, MeasurementTaken
  <2>5. Snapshot(pass'.st) = Observation /\ CurrentPair(pass'.st) = CurrentPair(pass.st)
    BY <2>2, <2>3
  <2> HIDE DEF Snapshot, CurrentPair
  <2>6. Snapshot(pass'.st) \in taken' /\ CurrentPair(pass'.st) \in held'
        /\ (pass'.observed => pass'.pod.req \in held')
    BY <1>1, <2>2, <2>4, <2>5, RecordGrows DEF Reports
  <2> QED BY <2>6 DEF Reports, Snapshot, CurrentPair
<1> QED BY <1>2, <1>3

(* The phantom that a pass reads is the live one, whose size is known.     *)
LEMMA GetPodReports ==
  ASSUME Lag = "none", HistoryInv, GetPod, Record PROVE Reports(pass)'
<1>1. pass \in PassType /\ Reports(pass) /\ pass.base.uid # 0
  BY DEF HistoryInv, LoopInv, TypeOK, GetPod, Working, BaseSame
<1>2. podCache = Visible(pod)
  BY DEF HistoryInv, StreamInv, PodFollows, GetPod, CacheCurrent, Drained
<1>3. ownedBySw(podCache, pass.base) => podCache.req \in held
  BY <1>1, <1>2 DEF ownedBySw, Visible, NoPod, HistoryInv, PodHeld
<1>4. CASE UNCHANGED pass \/ pass' = PhantomConflict(pass)
  BY <1>1, <1>4, SameReport, DegradedReports DEF SameReports, PhantomConflict
<1>5. CASE /\ ownedBySw(podCache, pass.base)
           /\ pass' = [pass EXCEPT !.pod = podCache] \/ pass' = Observed(pass, podCache)
  <2>1. pass'.st = pass.st /\ pass'.pod = podCache
    BY <1>1, <1>5 DEF Observed, PassType
  <2> QED BY <1>1, <1>3, <1>5, <2>1, RecordGrows DEF Reports, Snapshot, CurrentPair
<1> QED BY <1>4, <1>5 DEF GetPod

(* A created phantom has a known size.                                     *)
LEMMA CreateReports ==
  ASSUME HistoryInv, CreatePhantom, Record PROVE Reports(pass)'
<1>1. pass \in PassType /\ Reports(pass) /\ pass.base.uid # 0
  BY DEF HistoryInv, LoopInv, TypeOK, CreatePhantom, Working, BaseSame
<1>2. CASE UNCHANGED pass
  BY <1>1, <1>2, SameReport DEF SameReports
<1>3. CASE pod.uid = 0
  <2>1. PICK r \in Revs : pod' = BuildPhantomPod(pass.base, pass.desired, r)
    BY <1>3 DEF CreatePhantom, CreateAccepted, WritePod
  <2>2. pod'.req \in held'
    BY <1>1, <2>1, RecordGrows DEF BuildPhantomPod, PodHeld
  <2>3. pass' = [Observed(pass, pod') EXCEPT !.readyReason = "PhantomCreated"]
    BY <1>3 DEF CreatePhantom
  <2>4. pass'.st = pass.st /\ pass'.pod = pod'
    BY <1>1, <2>3 DEF Observed, PassType
  <2> QED BY <1>1, <2>2, <2>4, RecordGrows DEF Reports, Snapshot, CurrentPair
<1> QED BY <1>2, <1>3 DEF CreatePhantom

(* So has a resized one, which is still the ShadowWorkload's.              *)
LEMMA ResizeReports ==
  ASSUME HistoryInv, Resize, Record PROVE Reports(pass)'
<1>1. pass \in PassType /\ Reports(pass) /\ TypeOK
  BY DEF HistoryInv, LoopInv, TypeOK, Resize, Working
<1>2. CASE ResizeRejected
  BY <1>1, <1>2, SameReport, DegradedReports DEF SameReports, ResizeRejected
<1>3. ASSUME NEW r \in Revs, ResizeAccepted(pass, r), pass' = ResizeSucceeds(pass, r)
      PROVE  Reports(pass)'
  <2>1. pod.owner # 0
    BY <1>1, <1>3, AcceptedIsOwned, Holders DEF HistoryInv, ForeignInv, ResizeAccepted, Resize
  <2>2. pod' = [pod EXCEPT !.req = pass.desired, !.rv = r] /\ pod \in PodType
    BY <1>1, <1>3 DEF ResizeAccepted, WritePod, TypeOK
  <2>3. pass.desired \in held'
    BY <2>1, <2>2, RecordGrows DEF PodHeld, PodType
  <2>4. pass'.st = ResizedStatus(pass) /\ pass'.pod.req = pass.desired
    BY <1>1, <1>3 DEF ResizeSucceeds, PassType, PodType
  <2>5. Snapshot(ResizedStatus(pass)) = Snapshot(pass.st)
        /\ CurrentPair(ResizedStatus(pass)) = pass.desired
    <3>1. pass.st \in StatusType /\ pass.desired \in Pair
      BY <1>1 DEF PassType
    <3> QED BY <3>1 DEF Snapshot, CurrentPair, ResizedStatus, StatusType, Pair
  <2>6. Snapshot(pass'.st) \in taken' /\ CurrentPair(pass'.st) \in held'
        /\ (pass'.observed => pass'.pod.req \in held')
    <3>1. Snapshot(pass'.st) = Snapshot(pass.st) /\ CurrentPair(pass'.st) = pass.desired
      BY <2>4, <2>5
    <3> QED BY <1>1, <2>3, <2>4, <3>1, RecordGrows DEF Reports
  <2> QED BY <2>6 DEF Reports, Snapshot, CurrentPair
<1> QED BY <1>2, <1>3 DEF Resize

(* A collided phantom that the pass will delete.                           *)
LEMMA ResolveReports ==
  ASSUME HistoryInv, Resolve, pc' # "idle", Record PROVE Reports(pass)'
<1>1. pass \in PassType /\ Reports(pass) /\ pass.base.uid # 0
  BY DEF HistoryInv, LoopInv, TypeOK, Resolve, Working, BaseSame
<1>2. CASE pass' = PhantomConflict(pass)
  BY <1>1, <1>2, SameReport, DegradedReports DEF SameReports, PhantomConflict
<1>3. CASE ownedBySw(pod, pass.base) /\ pass' = [pass EXCEPT !.pod = pod]
  <2>1. pass'.st = pass.st /\ pass'.pod = pod /\ pod.req \in held
    BY <1>1, <1>3 DEF PassType, ownedBySw, HistoryInv, PodHeld
  <2> QED BY <1>1, <2>1, RecordGrows DEF Reports, Snapshot, CurrentPair
<1> QED BY <1>2, <1>3 DEF Resolve, Return

(* Every step of a running pass keeps what it reports.                     *)
LEMMA PassReportsNext ==
  ASSUME Current, HistoryInv, [Next]_vars, Record, Working' PROVE Reports(pass)'
<1>1. TypeOK /\ pass \in PassType /\ (Working => Reports(pass)) /\ LoopInv
  BY DEF HistoryInv, LoopInv, TypeOK
<1>2. CASE StartPass
  <2>1. pass' = [NoPass EXCEPT !.base = sw, !.st = sw.status, !.readyReason = "WithinThreshold"]
    BY <1>1, <1>2, StartsCurrent DEF Current
  <2>2. pass'.st = sw.status /\ ~pass'.observed
    BY <2>1 DEF NoPass
  <2> QED BY <2>2, RecordGrows
          DEF Reports, HistoryInv, CoherentSnapshot, ReportedWasHeld, Snapshot, CurrentPair
<1>3. CASE Working
  <2>1. CASE UNCHANGED pass
    BY <1>1, <1>3, <2>1, SameReport DEF SameReports
  <2>2. CASE ResizeRejected
    BY <1>1, <1>3, <2>2, SameReport, DegradedReports DEF SameReports, ResizeRejected
  <2>3. CASE GetNode \/ GetPriorityClass
    BY <1>1, <1>3, <2>1, <2>3, SameReport, DegradedReports DEF SameReports, GetNode, GetPriorityClass
  <2>4. CASE Repin
    <3>1. pass' = [setDegraded(pass, "PhantomRecreating") EXCEPT !.soon = TRUE]
      BY <2>4 DEF Repin, Return, Working
    <3>2. SameReports
      BY <1>1, <3>1 DEF SameReports, setDegraded, PassType
    <3> QED BY <1>1, <1>3, <3>2, SameReport
  <2>5. CASE Reconcile
    BY <1>3, <2>1, <2>3, <2>4, <2>5, MeasureReports, GetPodReports, CreateReports, ResizeReports,
       ResolveReports
       DEF Reconcile, ForgetDeleted, StartPass, Recover, RecreateLater, PatchStatus, Return,
           Working, Current
  <2>6. CASE Failure
    BY <2>1, <2>2, <2>6
       DEF Failure, APIError, LostReply, LostCreate, LostDelete, LostResize, LostPatch,
           RefuseResize, Crash, OrphanWrite, Exit, Relist, Return, Working
  <2> QED BY <2>1, <2>5, <2>6
          DEF Next, Environment, CreateSW, EditSpec, DeleteSW, NodeChanges, PriorityClassChanges,
              BackendChanges, CreateForeign, DeletePod, StripLabels, TouchPod, FailPod, ModifyPod,
              ManagerVars, DeliverSW, DeliverPod, PollFires, CollectGarbage, Restart, LateWrite, vars
<1> QED BY <1>2, <1>3, PassBegins

(* Every step keeps the whole invariant.                                   *)
LEMMA HistoryNext == Current /\ HistoryInv /\ [Next /\ Record]_hvars => HistoryInv'
<1> SUFFICES ASSUME Current, HistoryInv, [Next /\ Record]_hvars PROVE HistoryInv'
  OBVIOUS
<1>1. CASE UNCHANGED hvars
  <2>1. UNCHANGED vars /\ taken' = taken /\ held' = held
    BY <1>1 DEF hvars
  <2>2. ForeignInv' /\ LoopInv' /\ StreamInv'
    BY <2>1, ForeignInvNext, LoopInvNext, StreamNext DEF HistoryInv
  <2> QED BY <2>1, <2>2
          DEF HistoryInv, vars, BaseSame, Matches, Working, CoherentSnapshot, ReportedWasHeld,
              PodHeld, Reports, Snapshot, CurrentPair
<1>2. CASE Next /\ Record
  <2>1. ForeignInv' /\ LoopInv' /\ StreamInv' /\ late' = NoLate
    BY <1>2, ForeignInvNext, LoopInvNext, StreamNext, NeverLate DEF HistoryInv, Current
  <2>2. PodHeld' /\ taken \subseteq taken' /\ held \subseteq held'
    BY <1>2, RecordGrows
  <2>3. Snapshot(NoStatus) \in taken' /\ ZeroPair \in held'
    BY <2>2 DEF HistoryInv
  <2>4. BaseSame' /\ CoherentSnapshot' /\ ReportedWasHeld' /\ (Working' => Reports(pass)')
    BY <1>2, BaseSameNext, StatusReports, PassReportsNext
  <2> QED BY <2>1, <2>2, <2>3, <2>4 DEF HistoryInv
<1> QED BY <1>1, <1>2

(* lastMeasurement and resolvedSource are one measurement that was really  *)
(* taken: the merge patch of the status never leaves half of an older one. *)
THEOREM CoherentSnapshotAlways == ASSUME Current PROVE HSpec => []CoherentSnapshot
<1>1. HistoryInv => CoherentSnapshot
  BY DEF HistoryInv
<1>2. HistoryInv /\ [Next /\ Record]_hvars => HistoryInv'
  BY HistoryNext
<1> QED BY <1>1, <1>2, HistoryInit, PTL DEF HSpec

(* The currents of the status are a pair that a phantom of this name       *)
(* really requested, also after a refused, failed or unanswered resize.    *)
THEOREM ReportedWasHeldAlways == ASSUME Current PROVE HSpec => []ReportedWasHeld
<1>1. HistoryInv => ReportedWasHeld
  BY DEF HistoryInv
<1>2. HistoryInv /\ [Next /\ Record]_hvars => HistoryInv'
  BY HistoryNext
<1> QED BY <1>1, <1>2, HistoryInit, PTL DEF HSpec

(***************************************************************************)
(* Ready comes with a measurement of the same generation, however far the  *)
(* cached reads trail the API server.  A pass may then patch onto a status *)
(* that is newer than its base, and what the patch leaves out it leaves to *)
(* the live status.  That the two halves still agree rests on an order:    *)
(* every copy of the ShadowWorkload is older than the next one on its way  *)
(* from the API server to the pass, and the live status was measured under *)
(* a generation that the copy of the running, or next, pass has reached.   *)
(***************************************************************************)
InOrder == "orphan" \notin Faults /\ ~Recreates

(* The reasons of a pass that has measured.                                *)
MeasuredReasons == {"PhantomConflict", "PhantomRecreating", "ResizeRejected"}

Tells(cond) == cond.ready \/ cond.reason \in MeasuredReasons

Telling(st) == Tells(st.cond) => st.measGen = st.cond.gen

AllTelling ==
  /\ Telling(sw.status) /\ Telling(swCache.status)
  /\ \A i \in DOMAIN swWatch : Telling(swWatch[i].status)
  /\ Working => Telling(pass.base.status)

(* d is what became of c: created, edited, measured or deleted since.      *)
Older(c, d) ==
  \/ c.uid = 0 /\ (d.uid = 0 \/ "create" \in Faults)
  \/ c.uid # 0 /\ d.uid = 0 /\ "delete" \in Faults
  \/ /\ c.uid # 0 /\ c.uid = d.uid
     /\ c.gen <= d.gen /\ c.status.measGen <= d.status.measGen

Ordered ==
  pc # "down" =>
    /\ Working => Older(pass.base, swCache)
    /\ Older(swCache, sw)
    /\ \A i \in DOMAIN swWatch : Older(swCache, swWatch[i]) /\ Older(swWatch[i], sw)
    /\ \A i, j \in DOMAIN swWatch : i < j => Older(swWatch[i], swWatch[j])

(* The live status was measured under a generation that w has reached.     *)
Reached(w) == sw.status.measGen = 0 \/ (w.uid # 0 /\ sw.status.measGen <= w.gen)

Bounded ==
  sw.uid # 0 =>
    /\ sw.status.measGen <= sw.gen
    /\ Working => Reached(pass.base)
    /\ pc = "idle" => Reached(swCache)

Gates == {"node", "priority", "measure"}

(* A pass has measured if and only if its reason says so.                  *)
PassMeasured ==
  Working =>
    /\ pass.base.uid # 0
    /\ pass.st.measGen = IF pass.measured THEN pass.base.gen ELSE pass.base.status.measGen
    /\ pc \in Gates => pass.reason = "" /\ ~pass.measured
    /\ pc \notin Gates => (pass.measured <=> pass.reason \in MeasuredReasons \cup {""})

MeasuredInv ==
  LoopInv /\ late = NoLate /\ AllTelling /\ Ordered /\ Bounded /\ PassMeasured

(* A status without conditions tells nothing.                              *)
LEMMA NoStatusTells == Telling(NoStatus) /\ NoStatus.measGen = 0
<1>1. ~Tells(NoCond)
  BY DEF Tells, NoCond, MeasuredReasons
<1>2. NoStatus.cond = NoCond /\ NoStatus.measGen = 0
  BY DEF NoStatus
<1> QED BY <1>1, <1>2 DEF Telling

(* New and deleted objects have it.                                        *)
LEMMA BlankStatus ==
  /\ NoSW.status = NoStatus /\ NoSW.uid = 0
  /\ \A u, s : NewSW(u, s).status = NoStatus /\ NewSW(u, s).uid = u
  BY DEF NoSW, NewSW

(* The invariant holds before the manager starts.                          *)
LEMMA MeasuredInit == Init => MeasuredInv
<1> SUFFICES ASSUME Init PROVE MeasuredInv
  OBVIOUS
<1>1. /\ LoopInv /\ late = NoLate /\ pc = "down" /\ swCache = NoSW /\ swWatch = <<>>
      /\ DOMAIN swWatch = {} /\ ~Working
  BY LoopInvInit DEF Init, Working
<1>2. sw.status = NoStatus
  <2>1. PICK u \in Uids, s \in Specs : sw \in {NoSW, NewSW(u, s)}
    BY DEF Init
  <2> QED BY <2>1, BlankStatus
<1>3. AllTelling
  BY <1>1, <1>2, BlankStatus, NoStatusTells DEF AllTelling
<1>4. sw.gen \in Nat
  BY <1>1 DEF LoopInv, TypeOK, SWType
<1>5. Bounded
  BY <1>1, <1>2, <1>4, NoStatusTells DEF Bounded
<1> QED BY <1>1, <1>3, <1>5 DEF MeasuredInv, Ordered, PassMeasured

(***************************************************************************)
(* The order of the copies.                                                *)
(***************************************************************************)
(* Every copy is as old as itself.                                         *)
LEMMA OlderSelf == ASSUME NEW c \in SWType PROVE Older(c, c)
<1>1. c.gen \in Nat /\ c.status.measGen \in Nat
  BY DEF SWType, StatusType
<1> QED BY <1>1 DEF Older

(* The order is transitive where nothing is re-created.                    *)
LEMMA OlderChain ==
  ASSUME NEW c \in SWType, NEW d \in SWType, NEW e \in SWType, ~Recreates,
         Older(c, d), Older(d, e)
  PROVE  Older(c, e)
<1>1. /\ c.gen \in Nat /\ d.gen \in Nat /\ e.gen \in Nat
      /\ c.status.measGen \in Nat /\ d.status.measGen \in Nat /\ e.status.measGen \in Nat
  BY DEF SWType, StatusType
<1> QED BY <1>1 DEF Older, Recreates

(* The base of a running pass is older than the live ShadowWorkload.       *)
LEMMA BaseIsOlder ==
  ASSUME InOrder, MeasuredInv, Working PROVE Older(pass.base, sw)
<1>1. pass.base \in SWType /\ swCache \in SWType /\ sw \in SWType
  BY DEF MeasuredInv, LoopInv, TypeOK, PassType
<1>2. Older(pass.base, swCache) /\ Older(swCache, sw)
  BY DEF MeasuredInv, Ordered, Working
<1> QED BY <1>1, <1>2, OlderChain DEF InOrder

(* What a final status tells.                                              *)
LEMMA FinalTells ==
  ASSUME TypeOK, PassMeasured, pc = "status"
  PROVE  /\ Tells(FinalStatus(pass).cond) <=> pass.measured
         /\ FinalStatus(pass).cond.gen = pass.base.gen
         /\ FinalStatus(pass).measGen =
              IF pass.measured THEN pass.base.gen ELSE pass.base.status.measGen
<1>1. pass \in PassType /\ pass.measured \in BOOLEAN
  BY DEF TypeOK, PassType
<1>2. /\ pass.measured <=> pass.reason \in MeasuredReasons \cup {""}
      /\ pass.st.measGen = IF pass.measured THEN pass.base.gen ELSE pass.base.status.measGen
  BY DEF PassMeasured, Working, Gates
<1> DEFINE cond == FinalStatus(pass).cond
<1>3. /\ FinalStatus(pass).measGen = pass.st.measGen
      /\ cond.gen = pass.base.gen /\ (cond.ready <=> pass.reason = "")
      /\ cond.reason = IF pass.reason # "" THEN pass.reason ELSE pass.readyReason
  BY <1>1, FinalStatusParts
<1> HIDE DEF cond
<1>4. Tells(cond) <=> pass.measured
  <2>1. CASE pass.reason = ""
    BY <1>2, <1>3, <2>1 DEF Tells
  <2>2. CASE pass.reason # ""
    BY <1>2, <1>3, <2>2 DEF Tells
  <2> QED BY <2>1, <2>2
<1> QED BY <1>2, <1>3, <1>4 DEF cond

(* A patch tells what the pass measured, or what the live status told, and *)
(* never halves of both.                                                   *)
LEMMA PatchTells ==
  ASSUME InOrder, MeasuredInv, PatchAccepted(pass), pc = "status"
  PROVE  /\ sw.uid # 0 /\ sw'.uid = sw.uid /\ sw'.gen = sw.gen
         /\ Telling(sw'.status)
         /\ sw.status.measGen <= sw'.status.measGen
         /\ sw'.status.measGen <= pass.base.gen /\ pass.base.gen <= sw.gen
<1> DEFINE b == pass.base.status
           l == sw.status
           n == FinalStatus(pass)
           r == MergePatch(l, b, n)
<1>1. /\ TypeOK /\ sw \in SWType /\ pass.base \in SWType /\ sw.uid # 0 /\ pass.base.uid # 0
      /\ Working
  BY DEF MeasuredInv, LoopInv, TypeOK, PassType, PatchAccepted, PatchRefused, PassMeasured, Working
<1>2. b \in StatusType /\ l \in StatusType /\ n \in StatusType
  BY <1>1, FinalStatusType DEF TypeOK, SWType
<1>3. b.measGen <= l.measGen /\ pass.base.gen <= sw.gen
  BY <1>1, BaseIsOlder DEF Older
<1>4. l.measGen <= pass.base.gen
  BY <1>1 DEF MeasuredInv, Bounded, Reached, SWType
<1>5. Telling(b) /\ Telling(l)
  BY <1>1 DEF MeasuredInv, AllTelling
<1>6. /\ Tells(n.cond) <=> pass.measured
      /\ n.cond.gen = pass.base.gen
      /\ n.measGen = IF pass.measured THEN pass.base.gen ELSE b.measGen
  BY <1>1, FinalTells DEF MeasuredInv
<1>7. sw' = [sw EXCEPT !.status = r]
  BY DEF PatchAccepted, WriteSW
<1> HIDE DEF n
<1>8. /\ r.cond = IF n.cond = b.cond THEN l.cond ELSE n.cond
      /\ r.measGen = IF n.measGen = b.measGen THEN l.measGen ELSE n.measGen
  BY DEF MergePatch, Leaf, MeasLeaf
<1>9. sw'.uid = sw.uid /\ sw'.gen = sw.gen /\ sw'.status = r
  BY <1>1, <1>7 DEF SWType
<1> HIDE DEF r, b, l
<1>10. /\ b.measGen \in Nat /\ l.measGen \in Nat /\ n.measGen \in Nat /\ pass.base.gen \in Nat
  BY <1>1, <1>2 DEF StatusType, SWType
<1>11. l.measGen <= r.measGen /\ r.measGen <= pass.base.gen
  BY <1>3, <1>4, <1>6, <1>8, <1>10
<1>12. Telling(r)
  <2>1. CASE pass.measured /\ n.cond # b.cond
    BY <1>3, <1>4, <1>6, <1>8, <1>10, <2>1 DEF Telling
  <2>2. CASE pass.measured /\ n.cond = b.cond
    BY <1>5, <1>6, <1>8, <2>2 DEF Telling
  <2>3. CASE ~pass.measured
    BY <1>5, <1>6, <1>8, <2>3 DEF Telling
  <2> QED BY <2>1, <2>2, <2>3
<1> QED BY <1>1, <1>3, <1>9, <1>11, <1>12 DEF l

(***************************************************************************)
(* The steps.                                                              *)
(***************************************************************************)
(* What happens to the copies of the ShadowWorkload.                       *)
LEMMA CacheMoves ==
  [Next]_vars => \/ UNCHANGED swCache /\ (pc = "down" <=> pc' = "down")
                 \/ DeliverSW \/ Restart \/ (pc' = "down" /\ swCache' = NoSW)
                 \/ (pc' # "down" /\ swCache' = sw /\ swWatch' = <<>> /\ UNCHANGED <<sw, pc, pass>>)
<1>1. Reconcile => UNCHANGED swCache /\ pc # "down" /\ pc' # "down"
  BY DEF Reconcile, ForgetDeleted, StartPass, GetNode, GetPriorityClass, Measure, GetPod,
         CreatePhantom, Resolve, Recover, Repin, Resize, PatchStatus, RecreateLater, Return, swVars
<1>2. Failure => \/ UNCHANGED swCache /\ pc # "down" /\ pc' # "down"
                 \/ pc' = "down" /\ swCache' = NoSW
                 \/ (pc' # "down" /\ swCache' = sw /\ swWatch' = <<>> /\ UNCHANGED <<sw, pc, pass>>)
  BY DEF Failure, APIError, LostReply, LostCreate, LostDelete, LostResize, LostPatch,
         RefuseResize, Crash, OrphanWrite, Exit, Relist, UpdateSWCache, Return, swVars, apiVars
<1>3. Environment => UNCHANGED <<swCache, pc>>
  BY DEF Environment, CreateSW, EditSpec, DeleteSW, NodeChanges, PriorityClassChanges,
         BackendChanges, CreateForeign, DeletePod, StripLabels, TouchPod, FailPod, ModifyPod,
         ManagerVars
<1> QED BY <1>1, <1>2, <1>3
        DEF Next, vars, DeliverPod, PollFires, CollectGarbage, LateWrite, swVars

(* A step leaves the ShadowWorkload, or makes it newer and tells of it.    *)
LEMMA SWGrows ==
  ASSUME InOrder, MeasuredInv, [Next]_vars
  PROVE  /\ Older(sw, sw') /\ Telling(sw'.status)
         /\ UNCHANGED <<sw, swWatch>> \/ DeliverSW \/ Relist \/ pc' = "down" \/ WriteSW(sw')
         /\ sw'.uid # 0 => \/ sw'.status.measGen = 0
                           \/ /\ sw'.uid = sw.uid /\ sw'.status.measGen <= sw'.gen
                              /\ \/ sw'.status.measGen = sw.status.measGen
                                 \/ /\ pc = "status" /\ pc' = "idle"
                                    /\ sw'.status.measGen <= pass.base.gen
<1>1. /\ TypeOK /\ sw \in SWType /\ Telling(sw.status) /\ ~LateWrite
      /\ sw.gen \in Nat /\ sw.status.measGen \in Nat
      /\ sw.uid # 0 => sw.status.measGen <= sw.gen
  BY NeverLate DEF MeasuredInv, LoopInv, TypeOK, AllTelling, InOrder, Bounded, SWType, StatusType
<1>2. CASE sw' = sw
  BY <1>1, <1>2, OlderSelf, SWMoves, WritesSW
     DEF CreateSW, EditSpec, DeleteSW, Crash, OrphanWrite, Exit, PatchStatus, LostPatch
<1>3. CASE EditSpec
  <2>1. /\ sw.uid # 0 /\ sw'.uid = sw.uid /\ sw'.gen = sw.gen + 1 /\ sw'.status = sw.status
        /\ WriteSW(sw')
    BY <1>1, <1>3, WritesSW DEF EditSpec, WriteSW, SWType
  <2> QED BY <1>1, <2>1 DEF Older
<1>4. CASE CreateSW \/ DeleteSW
  <2>1. sw' = NoSW \/ \E u \in Uids, s \in Specs : sw' = NewSW(u, s)
    BY <1>4 DEF CreateSW, DeleteSW, WriteSW
  <2>2. sw'.status = NoStatus
    BY <2>1, BlankStatus
  <2>3. Older(sw, sw')
    <3>1. CreateSW => sw.uid = 0 /\ "create" \in Faults
      BY DEF CreateSW, Fault
    <3>2. DeleteSW => sw.uid # 0 /\ sw'.uid = 0 /\ "delete" \in Faults
      BY BlankStatus DEF DeleteSW, WriteSW, Fault
    <3> QED BY <1>4, <3>1, <3>2 DEF Older
  <2> QED BY <1>4, <2>2, <2>3, NoStatusTells, WritesSW
<1>5. ASSUME PatchAccepted(pass), pc = "status", pc' = "idle"
      PROVE  /\ Older(sw, sw') /\ Telling(sw'.status) /\ WriteSW(sw')
             /\ sw'.uid = sw.uid /\ sw'.status.measGen <= sw'.gen
             /\ sw'.status.measGen <= pass.base.gen
  <2>1. /\ sw.uid # 0 /\ sw'.uid = sw.uid /\ sw'.gen = sw.gen
        /\ Telling(sw'.status)
        /\ sw.status.measGen <= sw'.status.measGen
        /\ sw'.status.measGen <= pass.base.gen /\ pass.base.gen <= sw.gen
    BY <1>5, PatchTells
  <2>2. pass.base.gen \in Nat /\ sw'.status.measGen \in Nat
    BY <1>1, NextType DEF TypeOK, PassType, SWType, StatusType
  <2> QED BY <1>1, <1>5, <2>1, <2>2, WritesSW DEF Older
<1>6. PatchStatus \/ LostPatch => UNCHANGED <<sw, swWatch>> \/ (PatchAccepted(pass) /\ pc = "status" /\ pc' = "idle")
  BY DEF PatchStatus, LostPatch, Return
<1> QED BY <1>1, <1>2, <1>3, <1>4, <1>5, <1>6, SWMoves
        DEF DeliverSW, Relist, Crash, OrphanWrite, Exit, apiVars

(* The events of the stream after a write are those before it, and it.     *)
LEMMA AppendedEvents ==
  ASSUME TypeOK, TypeOK', WriteSW(sw'), NEW i \in DOMAIN swWatch'
  PROVE  \/ i \in DOMAIN swWatch /\ swWatch'[i] = swWatch[i]
         \/ i = Len(swWatch) + 1 /\ swWatch'[i] = sw'
<1>1. swWatch \in Seq(SWType) /\ sw' \in SWType
  BY DEF TypeOK
<1>2. swWatch' = swWatch \/ swWatch' = Append(swWatch, sw')
  BY DEF WriteSW
<1> QED BY <1>1, <1>2

(* Those after a delivery are the rest.                                    *)
LEMMA RemainingEvents ==
  ASSUME TypeOK, DeliverSW
  PROVE  /\ 1 \in DOMAIN swWatch /\ swCache' = swWatch[1]
         /\ \A i \in DOMAIN swWatch' :
              i \in Nat \ {0} /\ i + 1 \in DOMAIN swWatch /\ swWatch'[i] = swWatch[i + 1]
<1>1. swWatch \in Seq(SWType) /\ swWatch # <<>> /\ swWatch' = Tail(swWatch)
      /\ swCache' = Head(swWatch)
  BY DEF TypeOK, DeliverSW, UpdateSWCache
<1>2. /\ Tail(swWatch) \in Seq(SWType) /\ Len(Tail(swWatch)) = Len(swWatch) - 1
      /\ \A i \in 1 .. Len(Tail(swWatch)) : Tail(swWatch)[i] = swWatch[i + 1]
  BY <1>1, HeadTailProperties
<1> DEFINE rest == Tail(swWatch)
           n == Len(swWatch)
           m == Len(rest)
<1>3. n \in Nat \ {0} /\ DOMAIN swWatch = 1 .. n /\ DOMAIN rest = 1 .. m /\ Head(swWatch) = swWatch[1]
  BY <1>1, <1>2, EmptySeq
<1> HIDE DEF rest, n, m
<1> QED BY <1>1, <1>2, <1>3 DEF rest, n, m

(* A delivered or listed copy is newer than the one it replaces.           *)
LEMMA CacheGrows ==
  ASSUME InOrder, MeasuredInv, [Next]_vars, pc # "down", pc' # "down"
  PROVE  Older(swCache, swCache')
<1>1. TypeOK /\ swCache \in SWType /\ Ordered
  BY DEF MeasuredInv, LoopInv, TypeOK
<1>2. CASE UNCHANGED swCache
  BY <1>1, <1>2, OlderSelf
<1>3. CASE DeliverSW
  BY <1>1, <1>3, RemainingEvents DEF Ordered
<1>4. CASE swCache' = sw
  BY <1>1, <1>4 DEF Ordered
<1> QED BY <1>2, <1>3, <1>4, CacheMoves DEF Restart

(* A running pass has an older base than the cache.                        *)
LEMMA BaseGrows ==
  ASSUME InOrder, MeasuredInv, [Next]_vars, Working' PROVE Older(pass'.base, swCache')
<1>1. TypeOK /\ TypeOK' /\ swCache \in SWType /\ swCache' \in SWType /\ pass.base \in SWType
  BY NextType DEF MeasuredInv, LoopInv, TypeOK, PassType
<1>2. CASE StartPass
  <2>1. pass'.base = swCache /\ swCache' = swCache
    BY <1>2 DEF StartPass, NoPass, swVars
  <2> QED BY <1>1, <2>1, OlderSelf
<1>3. CASE Working
  <2>1. pass'.base = pass.base /\ pc # "down" /\ pc' # "down"
    BY <1>1, <1>3, BaseStays DEF Working
  <2>2. Older(pass.base, swCache) /\ Older(swCache, swCache')
    BY <1>3, <2>1, CacheGrows DEF MeasuredInv, Ordered
  <2> QED BY <1>1, <2>1, <2>2, OlderChain DEF InOrder
<1> QED BY <1>2, <1>3, PassBegins

(* The order is kept.                                                      *)
LEMMA OrderedNext == InOrder /\ MeasuredInv /\ [Next]_vars => Ordered'
<1> SUFFICES ASSUME InOrder, MeasuredInv, [Next]_vars, pc' # "down" PROVE Ordered'
  BY DEF Ordered
<1>1. /\ TypeOK /\ TypeOK' /\ sw \in SWType /\ sw' \in SWType /\ swCache \in SWType
      /\ swWatch \in Seq(SWType) /\ ~Recreates /\ Older(sw, sw')
  BY NextType, SWGrows DEF MeasuredInv, LoopInv, TypeOK, InOrder
<1>2. Working' => Older(pass'.base, swCache')
  BY BaseGrows
<1>3. CASE /\ swCache' = sw' /\ swWatch' = <<>>
  <2>1. DOMAIN swWatch' = {}
    BY <1>3
  <2> QED BY <1>1, <1>2, <1>3, <2>1, OlderSelf DEF Ordered
<1>4. CASE Restart
  <2>1. swCache' = sw' /\ swWatch' = <<>>
    BY <1>4 DEF Restart, MeasuredInv, LoopInv, CacheFollows, apiVars
  <2> QED BY <1>3, <2>1
<1>5. ASSUME pc # "down", DeliverSW PROVE Ordered'
  <2>1. Ordered /\ sw' = sw
    BY <1>5 DEF MeasuredInv, DeliverSW, apiVars
  <2>2. /\ 1 \in DOMAIN swWatch /\ swCache' = swWatch[1]
        /\ \A i \in DOMAIN swWatch' :
             i \in Nat \ {0} /\ i + 1 \in DOMAIN swWatch /\ swWatch'[i] = swWatch[i + 1]
    BY <1>1, <1>5, RemainingEvents
  <2>3. \A i \in DOMAIN swWatch' : Older(swCache', swWatch'[i]) /\ Older(swWatch'[i], sw')
    <3>1. \A i \in Nat \ {0} : 1 < i + 1
      OBVIOUS
    <3> QED BY <1>5, <2>1, <2>2, <3>1 DEF Ordered
  <2>4. \A i, j \in DOMAIN swWatch' : i < j => Older(swWatch'[i], swWatch'[j])
    <3>1. \A i, j \in Nat \ {0} : i < j => i + 1 < j + 1
      OBVIOUS
    <3> QED BY <1>5, <2>1, <2>2, <3>1 DEF Ordered
  <2>5. Older(swCache', sw')
    BY <1>5, <2>1, <2>2 DEF Ordered
  <2> QED BY <1>2, <2>3, <2>4, <2>5 DEF Ordered
<1>6. ASSUME pc # "down", UNCHANGED swCache, UNCHANGED <<sw, swWatch>> \/ WriteSW(sw')
      PROVE  Ordered'
  <2>1. /\ Older(swCache, sw)
        /\ \A i \in DOMAIN swWatch : Older(swCache, swWatch[i]) /\ Older(swWatch[i], sw)
        /\ \A i, j \in DOMAIN swWatch : i < j => Older(swWatch[i], swWatch[j])
    BY <1>6 DEF MeasuredInv, Ordered
  <2>2. \A c \in SWType : Older(c, sw) => Older(c, sw')
    BY <1>1, OlderChain
  <2>3. /\ \A i \in DOMAIN swWatch : swWatch[i] \in SWType /\ i \in 1 .. Len(swWatch)
        /\ Len(swWatch) \in Nat
    BY <1>1
  <2>4. \A i \in DOMAIN swWatch' : \/ i \in DOMAIN swWatch /\ swWatch'[i] = swWatch[i]
                                   \/ i = Len(swWatch) + 1 /\ swWatch'[i] = sw'
    BY <1>1, <1>6, AppendedEvents
  <2>5. ASSUME NEW i \in DOMAIN swWatch'
        PROVE  Older(swCache, swWatch'[i]) /\ Older(swWatch'[i], sw')
    BY <1>1, <2>1, <2>2, <2>3, <2>4, OlderSelf
  <2>6. ASSUME NEW i \in DOMAIN swWatch', NEW j \in DOMAIN swWatch', i < j
        PROVE  Older(swWatch'[i], swWatch'[j])
    <3>1. i \in DOMAIN swWatch /\ swWatch'[i] = swWatch[i]
      BY <2>3, <2>4, <2>6
    <3> QED BY <2>1, <2>2, <2>3, <2>4, <2>6, <3>1
  <2> QED BY <1>1, <1>2, <1>6, <2>1, <2>2, <2>5, <2>6 DEF Ordered
<1>7. Relist => UNCHANGED <<sw, swWatch>> \/ (swCache' = sw' /\ swWatch' = <<>>)
  BY DEF Relist, UpdateSWCache, swVars, apiVars
<1>8. UNCHANGED <<sw, swWatch>> \/ DeliverSW \/ Relist \/ WriteSW(sw')
  BY SWGrows
<1>9. DeliverSW => pc # "down"
  BY DEF DeliverSW
<1>10. CASE UNCHANGED swCache /\ pc # "down"
  BY <1>3, <1>5, <1>6, <1>7, <1>8, <1>10
<1>11. CASE swCache' = sw /\ swWatch' = <<>> /\ UNCHANGED sw
  BY <1>3, <1>11
<1> QED BY <1>4, <1>5, <1>9, <1>10, <1>11, CacheMoves

(* What an older copy has reached, a newer one has, unless it is gone.     *)
LEMMA ReachedLater ==
  ASSUME NEW c \in SWType, NEW d \in SWType, NEW e \in SWType, NEW m \in Nat, ~Recreates,
         Older(c, d), Older(d, e), c.uid # 0, e.uid # 0, m <= c.gen
  PROVE  d.uid # 0 /\ m <= d.gen
<1>1. c.gen \in Nat /\ d.gen \in Nat
  BY DEF SWType
<1> QED BY <1>1 DEF Older, Recreates

(* A manager that is down starts to do anything.                           *)
LEMMA DownStays == [Next]_vars /\ pc = "down" => pc' = "down" \/ Restart
<1>1. Reconcile => pc # "down"
  BY DEF Reconcile, ForgetDeleted, StartPass, GetNode, GetPriorityClass, Measure, GetPod,
         CreatePhantom, Resolve, Recover, Repin, Resize, PatchStatus
<1>2. Failure => pc # "down"
  BY DEF Failure, APIError, LostReply, LostCreate, LostDelete, LostResize, LostPatch,
         RefuseResize, Crash, OrphanWrite, WriteCalls, Relist
<1>3. Environment => UNCHANGED pc
  BY DEF Environment, CreateSW, EditSpec, DeleteSW, NodeChanges, PriorityClassChanges,
         BackendChanges, CreateForeign, DeletePod, StripLabels, TouchPod, FailPod, ModifyPod,
         ManagerVars
<1> QED BY <1>1, <1>2, <1>3
        DEF Next, vars, DeliverSW, DeliverPod, PollFires, CollectGarbage, LateWrite

(* The bound is kept.                                                      *)
LEMMA BoundedNext == InOrder /\ MeasuredInv /\ [Next]_vars => Bounded'
<1> SUFFICES ASSUME InOrder, MeasuredInv, [Next]_vars, sw'.uid # 0 PROVE Bounded'
  BY DEF Bounded
<1> DEFINE m == sw'.status.measGen
<1>1. /\ TypeOK /\ TypeOK' /\ sw' \in SWType /\ swCache \in SWType /\ swCache' \in SWType
      /\ pass.base \in SWType /\ m \in Nat /\ sw'.gen \in Nat /\ ~Recreates
  BY NextType DEF MeasuredInv, LoopInv, TypeOK, PassType, SWType, StatusType, InOrder
<1>2. CASE m = 0
  BY <1>1, <1>2 DEF Bounded, Reached
<1>3. CASE m # 0
  <2>1. /\ sw.uid # 0 /\ m <= sw'.gen
        /\ m = sw.status.measGen \/ (pc = "status" /\ pc' = "idle" /\ m <= pass.base.gen)
    BY <1>3, SWGrows
  <2>2. Working => pass.base.uid # 0 /\ m <= pass.base.gen
    BY <1>3, <2>1 DEF MeasuredInv, Bounded, Reached, PassMeasured
  <2>3. pc = "idle" => swCache.uid # 0 /\ m <= swCache.gen
    BY <1>3, <2>1 DEF MeasuredInv, Bounded, Reached
  <2>4. Working' => Reached(pass.base)'
    <3>1. CASE StartPass
      <4>1. pass'.base = swCache /\ pc = "idle"
        BY <3>1 DEF StartPass, NoPass
      <4> QED BY <2>3, <4>1 DEF Reached
    <3>2. ASSUME Working, Working' PROVE Reached(pass.base)'
      <4>1. pass'.base = pass.base
        BY <1>1, <3>2, BaseStays
      <4> QED BY <2>2, <3>2, <4>1 DEF Reached
    <3> QED BY <3>1, <3>2, PassBegins
  <2>5. ASSUME pc' = "idle" PROVE swCache'.uid # 0 /\ m <= swCache'.gen
    <3>1. Older(swCache', sw')
      BY <2>5, OrderedNext DEF Ordered
    <3>2. CASE Restart
      BY <2>1, <3>2 DEF Restart, apiVars
    <3>3. CASE pc = "idle"
      <4>1. Older(swCache, swCache')
        BY <2>5, <3>3, CacheGrows
      <4> QED BY <1>1, <2>3, <3>1, <3>3, <4>1, ReachedLater
    <3>4. CASE Working
      <4>1. Older(swCache, swCache') /\ Older(pass.base, swCache)
        BY <2>5, <3>4, CacheGrows DEF Working, MeasuredInv, Ordered
      <4>2. Older(pass.base, swCache')
        BY <1>1, <4>1, OlderChain
      <4> QED BY <1>1, <2>2, <3>1, <3>4, <4>2, ReachedLater
    <3>5. pc = "down" => Restart
      BY <2>5, DownStays
    <3> QED BY <3>2, <3>3, <3>4, <3>5 DEF Working
  <2> QED BY <2>1, <2>4, <2>5 DEF Bounded, Reached
<1> QED BY <1>2, <1>3

(* Every copy tells the truth.                                             *)
LEMMA TellingNext == InOrder /\ MeasuredInv /\ [Next]_vars => AllTelling'
<1> SUFFICES ASSUME InOrder, MeasuredInv, [Next]_vars PROVE AllTelling'
  OBVIOUS
<1>1. /\ TypeOK /\ TypeOK' /\ AllTelling /\ Telling(sw'.status) /\ CacheFollows'
  BY SWGrows, LoopInvNext, NextType DEF MeasuredInv, LoopInv
<1>2. Telling(swCache'.status)
  <2>1. CASE swCache' \in {swCache, sw, NoSW}
    BY <1>1, <2>1, BlankStatus, NoStatusTells DEF AllTelling
  <2>2. CASE DeliverSW
    BY <1>1, <2>2, RemainingEvents DEF AllTelling
  <2> QED BY <2>1, <2>2, CacheMoves DEF Restart
<1>3. ASSUME NEW i \in DOMAIN swWatch' PROVE Telling(swWatch'[i].status)
  <2>1. CASE swWatch' = swWatch
    BY <1>1, <2>1 DEF AllTelling
  <2>2. CASE swWatch' = <<>>
    BY <2>2
  <2>3. CASE DeliverSW
    BY <1>1, <2>3, RemainingEvents DEF AllTelling
  <2>4. CASE WriteSW(sw')
    BY <1>1, <2>4, AppendedEvents DEF AllTelling
  <2>5. Relist => swWatch' = swWatch \/ swWatch' = <<>>
    BY DEF Relist, swVars
  <2> QED BY <1>1, <2>1, <2>2, <2>3, <2>4, <2>5, SWGrows DEF CacheFollows
<1>4. Working' => Telling(pass'.base.status)
  <2>1. CASE StartPass
    <3>1. pass'.base = swCache
      BY <2>1 DEF StartPass, NoPass
    <3> QED BY <1>1, <3>1 DEF AllTelling
  <2>2. ASSUME Working, Working' PROVE Telling(pass'.base.status)
    <3>1. pass'.base = pass.base
      BY <1>1, <2>2, BaseStays
    <3> QED BY <1>1, <2>2, <3>1 DEF AllTelling
  <2> QED BY <2>1, <2>2, PassBegins
<1> QED BY <1>1, <1>2, <1>3, <1>4 DEF AllTelling, Telling, Tells

(***************************************************************************)
(* The steps of the pass.                                                  *)
(***************************************************************************)
(* A step after the measurement, which may set the first reason.           *)
LaterReason ==
  /\ pc \notin Gates /\ pc' \notin Gates
  /\ pass'.base = pass.base /\ pass'.st.measGen = pass.st.measGen
  /\ pass'.measured = pass.measured
  /\ pass'.reason = pass.reason \/ (pass.reason = "" /\ pass'.reason \in MeasuredReasons)

(* Such a step keeps what the reason says.                                 *)
LEMMA LaterReasonTells == ASSUME PassMeasured, Working, LaterReason PROVE PassMeasured'
  BY DEF PassMeasured, LaterReason

(* The reasons of a measured pass that such steps set.                     *)
LEMMA DegradedMeasured ==
  ASSUME NEW reason \in MeasuredReasons, pass \in PassType,
         pass' = setDegraded(pass, reason) \/ pass' = [setDegraded(pass, reason) EXCEPT !.soon = TRUE],
         pc \notin Gates, pc' \notin Gates
  PROVE  LaterReason
<1>1. CASE pass.reason = ""
  BY <1>1 DEF LaterReason, setDegraded, PassType
<1>2. CASE pass.reason # ""
  BY <1>2 DEF LaterReason, setDegraded, PassType
<1> QED BY <1>1, <1>2

(* The three gates before the measurement, and the measurement.            *)
LEMMA GatesTell ==
  ASSUME MeasuredInv, GetNode \/ GetPriorityClass \/ Measure PROVE PassMeasured'
<1>1. /\ pass \in PassType /\ PassMeasured /\ Working /\ pc \in Gates /\ backend \in Reading
      /\ pass.base.uid # 0 /\ pass.reason = "" /\ ~pass.measured
      /\ pass.st.measGen = pass.base.status.measGen
  BY ReadingsAssumption
     DEF MeasuredInv, LoopInv, TypeOK, PassMeasured, Working, Gates, GetNode, GetPriorityClass,
         Measure
<1>2. CASE UNCHANGED pass /\ pc' \in Gates
  BY <1>1, <1>2 DEF PassMeasured
<1>3. ASSUME NEW reason, reason \notin MeasuredReasons \cup {""}, pc' \notin Gates,
             \/ pass' = setDegraded(pass, reason)
             \/ pass' = [setDegraded(pass, reason) EXCEPT !.desired = DesiredPair(ZeroPair)]
      PROVE  PassMeasured'
  <2>1. /\ pass'.reason = reason /\ pass'.base = pass.base /\ pass'.st = pass.st
        /\ pass'.measured = pass.measured
    BY <1>1, <1>3 DEF setDegraded, PassType
  <2> QED BY <1>1, <1>3, <2>1 DEF PassMeasured
<1>4. CASE GetNode
  <2>1. \A n : nodeConditionReason(n) \notin MeasuredReasons \cup {""}
    BY DEF nodeConditionReason, MeasuredReasons
  <2> QED BY <1>2, <1>3, <1>4, <2>1 DEF GetNode, Gates
<1>5. CASE GetPriorityClass
  <2>1. "PriorityClassMissing" \notin MeasuredReasons \cup {""}
    BY DEF MeasuredReasons
  <2> QED BY <1>2, <1>3, <1>5, <2>1 DEF GetPriorityClass, Gates
<1>6. CASE Measure /\ MeasureFailure # ""
  <2>1. MeasureFailure \notin MeasuredReasons \cup {""}
    BY <1>1, <1>6 DEF MeasureFailure, MeasuredReasons, Reading
  <2> QED BY <1>3, <1>6, <2>1 DEF Measure, Gates
<1>7. CASE Measure /\ MeasureFailure = ""
  <2>1. pass' = [Measured(pass, backend) EXCEPT !.desired = DesiredPair(PairOf(backend))]
    BY <1>7 DEF Measure
  <2>2. /\ pass'.measured /\ pass'.st = MeasuredStatus(pass, backend)
        /\ pass'.base = pass.base /\ pass'.reason = ""
    BY <1>1, <2>1 DEF Measured, PassType
  <2>3. pass.st \in StatusType
    BY <1>1 DEF PassType
  <2>4. MeasuredStatus(pass, backend).measGen = pass.base.gen
    BY <2>3 DEF MeasuredStatus, StatusType
  <2> QED BY <1>1, <1>7, <2>2, <2>4 DEF PassMeasured, Measure, Gates
<1> QED BY <1>4, <1>5, <1>6, <1>7

(* The steps after the measurement.                                        *)
LEMMA LaterSteps ==
  ASSUME MeasuredInv, Working',
         GetPod \/ CreatePhantom \/ Resolve \/ Repin \/ Resize \/ LostResize \/ RefuseResize
  PROVE  LaterReason
<1>1. /\ pass \in PassType /\ pc \notin Gates /\ pc' \notin Gates
      /\ \A r \in {"PhantomConflict", "PhantomRecreating", "ResizeRejected"} : r \in MeasuredReasons
  BY DEF MeasuredInv, LoopInv, TypeOK, Gates, MeasuredReasons, GetPod, CreatePhantom, Resolve,
         Repin, Resize, LostResize, RefuseResize, Return, Working
<1>2. CASE /\ pass'.base = pass.base /\ pass'.st.measGen = pass.st.measGen
           /\ pass'.measured = pass.measured /\ pass'.reason = pass.reason
  BY <1>1, <1>2 DEF LaterReason
<1>3. CASE UNCHANGED pass
  BY <1>2, <1>3
<1>4. CASE pass' = PhantomConflict(pass) \/ ResizeRejected
  BY <1>1, <1>4, DegradedMeasured DEF PhantomConflict, ResizeRejected
<1>5. CASE \E p : pass' = [pass EXCEPT !.pod = p] \/ pass' = Observed(pass, p)
  BY <1>1, <1>2, <1>5 DEF Observed, PassType
<1>6. CASE GetPod
  BY <1>3, <1>4, <1>5, <1>6 DEF GetPod
<1>7. CASE CreatePhantom
  <2>1. CASE pass' = [Observed(pass, pod') EXCEPT !.readyReason = "PhantomCreated"]
    BY <1>1, <1>2, <2>1 DEF Observed, PassType
  <2> QED BY <1>3, <1>7, <2>1 DEF CreatePhantom
<1>8. CASE Resolve
  BY <1>4, <1>5, <1>8 DEF Resolve, Return, Working
<1>9. CASE Repin
  <2>1. pass' = [setDegraded(pass, "PhantomRecreating") EXCEPT !.soon = TRUE]
    BY <1>9 DEF Repin, Return, Working
  <2> QED BY <1>1, <2>1, DegradedMeasured
<1>10. CASE Resize
  <2>1. ASSUME NEW r, pass' = ResizeSucceeds(pass, r) PROVE LaterReason
    <3>1. /\ pass'.base = pass.base /\ pass'.st = ResizedStatus(pass)
          /\ pass'.measured = pass.measured /\ pass'.reason = pass.reason
      BY <1>1, <2>1 DEF ResizeSucceeds, PassType
    <3>2. pass.st \in StatusType
      BY <1>1 DEF PassType
    <3>3. ResizedStatus(pass).measGen = pass.st.measGen
      BY <3>2 DEF ResizedStatus, StatusType
    <3> QED BY <1>2, <3>1, <3>3
  <2> QED BY <1>4, <1>10, <2>1 DEF Resize
<1>11. CASE LostResize \/ RefuseResize
  BY <1>4, <1>11 DEF LostResize, RefuseResize
<1> QED BY <1>6, <1>7, <1>8, <1>9, <1>10, <1>11

(* Every step keeps what the reason of a pass says.                        *)
LEMMA PassMeasuredNext == MeasuredInv /\ [Next]_vars => PassMeasured'
<1> SUFFICES ASSUME MeasuredInv, [Next]_vars, Working' PROVE PassMeasured'
  BY DEF PassMeasured
<1>1. CASE StartPass
  <2>1. /\ pass'.base = swCache /\ pass'.st = swCache.status /\ swCache.uid # 0
        /\ pass'.reason = "" /\ ~pass'.measured /\ pc' = "node"
    BY <1>1 DEF StartPass, NoPass
  <2> QED BY <2>1 DEF PassMeasured, Gates
<1>2. CASE Working
  <2>1. CASE UNCHANGED <<pc, pass>>
    BY <2>1 DEF MeasuredInv, PassMeasured, Working
  <2>2. CASE GetNode \/ GetPriorityClass \/ Measure
    BY <2>2, GatesTell
  <2>3. CASE GetPod \/ CreatePhantom \/ Resolve \/ Repin \/ Resize \/ LostResize \/ RefuseResize
    BY <1>2, <2>3, LaterSteps, LaterReasonTells DEF MeasuredInv
  <2>4. CASE Reconcile
    BY <1>2, <2>2, <2>3, <2>4
       DEF Reconcile, ForgetDeleted, StartPass, Recover, RecreateLater, PatchStatus, Return,
           Working
  <2>5. CASE Failure
    BY <2>1, <2>3, <2>5
       DEF Failure, APIError, LostReply, LostCreate, LostDelete, LostPatch, Crash, OrphanWrite,
           Exit, Relist, Return, Working
  <2> QED BY <2>1, <2>4, <2>5
          DEF Next, Environment, CreateSW, EditSpec, DeleteSW, NodeChanges, PriorityClassChanges,
              BackendChanges, CreateForeign, DeletePod, StripLabels, TouchPod, FailPod, ModifyPod,
              ManagerVars, DeliverSW, DeliverPod, PollFires, CollectGarbage, Restart, LateWrite,
              Working, vars
<1> QED BY <1>1, <1>2, PassBegins

(* Every step keeps the whole invariant.                                   *)
LEMMA MeasuredNext == InOrder /\ MeasuredInv /\ [Next]_vars => MeasuredInv'
<1> SUFFICES ASSUME InOrder, MeasuredInv, [Next]_vars PROVE MeasuredInv'
  OBVIOUS
<1>1. LoopInv' /\ late' = NoLate
  BY LoopInvNext, NeverLate DEF MeasuredInv, InOrder
<1> QED BY <1>1, TellingNext, OrderedNext, BoundedNext, PassMeasuredNext DEF MeasuredInv

(* Ready is only reported together with a measurement taken under the same *)
(* generation of the spec, however far the cached reads trail.             *)
THEOREM ReadyMeasuredAlways == ASSUME InOrder PROVE Spec => []ReadyMeasured
<1>1. MeasuredInv => ReadyMeasured
  BY DEF MeasuredInv, AllTelling, Telling, Tells, ReadyMeasured
<1>2. MeasuredInv /\ [Next]_vars => MeasuredInv'
  BY MeasuredNext
<1> QED BY <1>1, <1>2, MeasuredInit, PTL DEF Spec

(***************************************************************************)
(* A reservation that has converged rests: the passes go on, but none of   *)
(* them resizes it, although its size need not be the desired one.         *)
(***************************************************************************)
DesiredNow == Clamp(PairOf(backend), sw.spec.update.floor, sw.spec.update.ceiling)

(* The size is within the threshold, whichever way a quotient is rounded.  *)
InBand ==
  DriftExceeds(CurrentPairOf(pod), DesiredNow, sw.spec.update.threshold) = {FALSE}

AtRest == Settled /\ Healthy /\ Converged /\ InBand /\ late = NoLate

(* Converged says it of the live status; the cached copies and the pass    *)
(* must agree with it, as the next patch is computed from them.            *)
Holding(st) ==
  /\ CurrentPair(st) = CurrentPairOf(pod)
  /\ Shown(st) = MeasurementPairOf(backend)

Holds(c) == c.uid = sw.uid /\ c.gen = sw.gen /\ c.spec = sw.spec /\ Holding(c.status)

PassHolds ==
  /\ pc \in {"node", "priority", "measure", "pod", "status"}
  /\ Holds(pass.base) /\ Holding(pass.st) /\ pass.reason = ""
  /\ pc = "pod" => pass.desired = DesiredNow
  /\ pass.observed => pass.pod = pod

RestingPod ==
  /\ Healthy /\ InBand /\ late = NoLate
  /\ ownedBySw(pod, sw) /\ pod.labelled /\ pod.node = sw.spec.node
  /\ podCache = pod /\ podWatch = <<>>

RestingReport ==
  ReportsReady /\ Holds(sw) /\ Holds(swCache) /\ \A i \in DOMAIN swWatch : Holds(swWatch[i])

Resting == pc # "down" /\ RestingPod /\ RestingReport /\ (Working => PassHolds)

(* What is at rest, rests: with the streams drained the caches agree.      *)
LEMMA RestBegins == LoopInv /\ StreamInv /\ AtRest => Resting
<1> SUFFICES ASSUME LoopInv, StreamInv, AtRest PROVE Resting
  OBVIOUS
<1>1. pc = "idle" /\ swWatch = <<>> /\ podWatch = <<>>
  BY DEF AtRest, Settled, Drained
<1>2. swCache = sw /\ podCache = Visible(pod)
  BY <1>1 DEF LoopInv, CacheFollows, StreamInv, PodFollows
<1>3. RestingPod
  BY <1>1, <1>2 DEF AtRest, Converged, RestingPod, Visible
<1>4. Holds(sw) /\ ReportsReady
  BY DEF AtRest, Converged, Holds, Holding
<1>5. RestingReport
  BY <1>1, <1>2, <1>4 DEF RestingReport
<1> QED BY <1>1, <1>3, <1>5 DEF Resting, Working

(* A drift that is certainly none leaves the request near the desired one. *)
LEMMA NoDriftMeans ==
  ASSUME NEW cur \in Nat, NEW want \in Nat, NEW t \in Nat, TRUE \notin drift(cur, want, t)
  PROVE  Near(cur, want, t)
<1> DEFINE change == Abs(want - cur) * 100
           bound == t * cur
<1>1. change \in Nat /\ bound \in Nat
  BY DEF Abs
<1>2. CASE cur <= 0
  <2>1. ~(want > 0)
    BY <1>2, Zenon DEF drift
  <2>2. cur = 0 /\ want = 0
    BY <1>2, <2>1
  <2> QED BY <2>2 DEF Near, Abs
<1>3. CASE ~(cur <= 0)
  <2>1. ~(change > bound)
    BY <1>3, Zenon DEF drift
  <2> HIDE DEF change, bound
  <2>2. change <= bound
    BY <1>1, <2>1
  <2> QED BY <2>2 DEF Near, change, bound
<1> QED BY <1>2, <1>3

(* No drift of the pair is no drift of either amount.                      *)
LEMMA DriftParts ==
  ASSUME NEW c, NEW d, NEW t, TRUE \notin DriftExceeds(c, d, t)
  PROVE  TRUE \notin drift(c.cpu, d.cpu, t) /\ TRUE \notin drift(c.mem, d.mem, t)
<1>1. \A p \in drift(c.cpu, d.cpu, t), q \in drift(c.mem, d.mem, t) : ~(p \/ q)
  BY Zenon DEF DriftExceeds
<1>2. \A x, y : TRUE \in drift(x, y, t) \/ FALSE \in drift(x, y, t)
  BY Zenon DEF drift
<1> QED BY <1>1, <1>2, Zenon

(* Rest implies what Converged says.                                       *)
LEMMA RestConverged == TypeOK /\ Resting => Converged
<1> SUFFICES ASSUME TypeOK, Resting PROVE Converged
  OBVIOUS
<1> DEFINE t == sw.spec.update.threshold
<1>1. /\ pod.req.cpu \in Nat /\ pod.req.mem \in Nat
      /\ DesiredNow.cpu \in Nat /\ DesiredNow.mem \in Nat /\ t \in Nat
  <2>1. sw.spec.update \in UpdatePolicy /\ pod.req \in Pair
    BY SpecsAssumption DEF TypeOK, SWType, PodType, ShadowWorkloadSpec
  <2>2. backend.cpu \in Nat /\ backend.mem \in Nat
    BY ReadingsAssumption DEF TypeOK, Reading
  <2>3. DesiredNow \in Pair
    BY <2>1, <2>2, PairOfType, ClampType DEF DesiredNow, UpdatePolicy
  <2> QED BY <2>1, <2>3 DEF Pair, UpdatePolicy
<1>2. /\ TRUE \notin drift(pod.req.cpu, DesiredNow.cpu, t)
      /\ TRUE \notin drift(pod.req.mem, DesiredNow.mem, t)
  BY DriftParts DEF Resting, RestingPod, InBand, CurrentPairOf
<1>3. Near(pod.req.cpu, DesiredNow.cpu, t) /\ Near(pod.req.mem, DesiredNow.mem, t)
  BY <1>1, <1>2, NoDriftMeans
<1> QED BY <1>3 DEF Resting, RestingPod, RestingReport, Holds, Holding, DesiredNow, Converged

(* While nothing disturbs it, only these steps are left.                   *)
LEMMA RestingSteps ==
  ASSUME TypeOK, Resting, [Next]_vars, env' = env
  PROVE  \/ StartPass \/ GetNode \/ GetPriorityClass \/ Measure \/ GetPod \/ PatchStatus
         \/ DeliverSW \/ PollFires \/ UNCHANGED vars
<1>1. env \in Nat /\ env + 1 # env
  BY DEF TypeOK
<1>2. ~Failure /\ ~Environment
  BY <1>1 DEF Failure, APIError, LostReply, RefuseResize, Crash, OrphanWrite, Relist,
             Environment, CreateSW, EditSpec, DeleteSW, NodeChanges, PriorityClassChanges,
             BackendChanges, CreateForeign, DeletePod, StripLabels, TouchPod, FailPod, Fault
<1>3. ~ForgetDeleted /\ ~Restart /\ ~DeliverPod /\ ~LateWrite
  BY DEF Resting, RestingPod, RestingReport, Holds, Healthy, ForgetDeleted, Restart,
         DeliverPod, LateWrite
<1>4. ~CollectGarbage
  BY DEF Resting, RestingPod, ownedBySw, CollectGarbage
<1>5. ~CreatePhantom /\ ~Resolve /\ ~Recover /\ ~Repin /\ ~Resize
  BY DEF Resting, PassHolds, Working, CreatePhantom, Resolve, Recover, Repin, Resize
<1> QED BY <1>2, <1>3, <1>4, <1>5 DEF Next, Reconcile

(* None of them touches the pod or what a measurement depends on, nor the  *)
(* identity and the spec of the ShadowWorkload.                            *)
Untouched == UNCHANGED <<pod, podCache, podWatch, nodes, priority, backend, late>>

SameSW == sw'.uid = sw.uid /\ sw'.gen = sw.gen /\ sw'.spec = sw.spec

(* So the phantom, and the size that would be desired, stay as they are.   *)
LEMMA RestKept ==
  ASSUME Untouched, SameSW
  PROVE  DesiredNow' = DesiredNow /\ (RestingPod => RestingPod')
<1>1. DesiredNow' = DesiredNow /\ InBand' = InBand
  BY DEF Untouched, SameSW, DesiredNow, InBand, CurrentPairOf
<1>2. RestingPod => RestingPod'
  BY <1>1 DEF Untouched, SameSW, RestingPod, Healthy, ownedBySw
<1> QED BY <1>1, <1>2

(* A pass that starts holds what the cache holds.                          *)
LEMMA StartHolds == Resting /\ StartPass => PassHolds'
<1> SUFFICES ASSUME Resting, StartPass PROVE PassHolds'
  OBVIOUS
<1>1. pass' = [NoPass EXCEPT !.base = swCache, !.st = swCache.status,
                             !.readyReason = "WithinThreshold"]
  BY DEF StartPass
<1>2. /\ pass'.base = swCache /\ pass'.st = swCache.status
      /\ pass'.reason = "" /\ pass'.observed = FALSE /\ pc' = "node"
  BY <1>1 DEF NoPass, StartPass
<1>3. UNCHANGED apiVars /\ Holds(swCache)
  BY DEF StartPass, Resting, RestingReport
<1> QED BY <1>2, <1>3 DEF PassHolds, Holds, Holding, CurrentPair, CurrentPairOf, apiVars

(* The gates are open.                                                     *)
LEMMA GatesHold == TypeOK /\ Resting /\ (GetNode \/ GetPriorityClass) => PassHolds'
<1> SUFFICES ASSUME Resting, GetNode \/ GetPriorityClass PROVE PassHolds'
  OBVIOUS
<1>1. PassHolds /\ RestingPod /\ Healthy
  BY DEF Resting, RestingPod, Working, GetNode, GetPriorityClass
<1>2. pass' = pass /\ pc' \in {"priority", "measure"} /\ UNCHANGED apiVars
  BY <1>1 DEF PassHolds, Holds, Healthy, GetNode, GetPriorityClass
<1> QED BY <1>1, <1>2 DEF PassHolds, Holds, Holding, CurrentPair, CurrentPairOf, apiVars

(* The measurement is the one that the status already reports.             *)
LEMMA MeasureHolds == TypeOK /\ Resting /\ Measure => PassHolds'
<1> SUFFICES ASSUME TypeOK, Resting, Measure PROVE PassHolds'
  OBVIOUS
<1>1. PassHolds /\ Healthy /\ pass \in PassType /\ pass.st \in StatusType
  BY DEF Resting, RestingPod, Working, Measure, TypeOK, PassType
<1>2. MeasureFailure = ""
  BY <1>1 DEF PassHolds, Holds, Healthy, MeasureFailure
<1>3. pass' = [Measured(pass, backend) EXCEPT !.desired = DesiredPair(PairOf(backend))]
  BY <1>2 DEF Measure
<1>4. /\ pass'.base = pass.base /\ pass'.reason = "" /\ pass'.observed = pass.observed
      /\ pass'.pod = pass.pod /\ pass'.st = MeasuredStatus(pass, backend)
      /\ pass'.desired = DesiredPair(PairOf(backend))
  BY <1>1, <1>3 DEF Measured, PassType, PassHolds
<1>5. DesiredPair(PairOf(backend)) = DesiredNow
  BY <1>1 DEF DesiredPair, DesiredNow, PassHolds, Holds
<1>6. Holding(MeasuredStatus(pass, backend))
  BY <1>1 DEF MeasuredStatus, MeasurementPairOf, Holding, Shown, CurrentPair, PassHolds,
              StatusType
<1>7. UNCHANGED apiVars /\ pc' = "pod"
  BY DEF Measure
<1> QED BY <1>1, <1>4, <1>5, <1>6, <1>7
        DEF PassHolds, Holds, Holding, CurrentPair, CurrentPairOf, apiVars, DesiredNow

(* The phantom is found as it is, and within the threshold.                *)
LEMMA GetPodHolds == TypeOK /\ Resting /\ GetPod => PassHolds'
<1> SUFFICES ASSUME TypeOK, Resting, GetPod PROVE PassHolds'
  OBVIOUS
<1>1. PassHolds /\ RestingPod /\ pass \in PassType /\ pass.desired = DesiredNow
  BY DEF Resting, PassHolds, Working, GetPod, TypeOK
<1>2. /\ podCache = pod /\ ownedBySw(podCache, pass.base) /\ Pinned(podCache, pass.base)
      /\ podCache.uid # 0
  BY <1>1 DEF RestingPod, PassHolds, Holds, ownedBySw, Pinned
<1>3. DriftExceeds(CurrentPairOf(podCache), pass.desired, pass.base.spec.update.threshold)
        = {FALSE}
  BY <1>1, <1>2 DEF RestingPod, InBand, PassHolds, Holds
<1>4. pass' = Observed(pass, pod) /\ pc' = "status"
  BY <1>2, <1>3 DEF GetPod, ResizeDue
<1>5. /\ pass'.base = pass.base /\ pass'.st = pass.st /\ pass'.reason = pass.reason
      /\ pass'.pod = pod
  BY <1>1, <1>4 DEF Observed, PassType
<1>6. UNCHANGED apiVars
  BY DEF GetPod
<1> QED BY <1>1, <1>4, <1>5, <1>6
        DEF PassHolds, Holds, Holding, CurrentPair, CurrentPairOf, apiVars

(* The patch repeats what the status already says.                         *)
LEMMA PatchHolds ==
  ASSUME TypeOK, Resting, PatchStatus
  PROVE  /\ SameSW /\ Holding(sw'.status) /\ sw'.status.cond.ready
         /\ sw'.status.cond.gen = sw.gen
<1>1. /\ PassHolds /\ Holds(sw) /\ ReportsReady
      /\ pass \in PassType /\ pass.st \in StatusType /\ pass.base \in SWType
      /\ sw \in SWType /\ sw.status \in StatusType /\ pass.base.status \in StatusType
  BY DEF Resting, RestingReport, Working, PatchStatus, TypeOK, PassType, SWType
<1>2. CASE UNCHANGED sw
  BY <1>1, <1>2 DEF SameSW, Holds, ReportsReady
<1>3. CASE PatchAccepted(pass)
  <2> DEFINE new == FinalStatus(pass)
  <2>1. sw' = [sw EXCEPT !.status = MergePatch(sw.status, pass.base.status, new)]
    BY <1>3 DEF PatchAccepted, WriteSW
  <2>2. Holding(new) /\ new.cond.ready /\ new.cond.gen = sw.gen
    <3>1. CASE pass.observed
      BY <1>1, <3>1 DEF FinalStatus, WithCurrents, Condition, Holding, Shown, CurrentPair,
                        CurrentPairOf, PassHolds, Holds, StatusType
    <3>2. CASE ~pass.observed
      BY <1>1, <3>2 DEF FinalStatus, WithCurrents, Condition, Holding, Shown, CurrentPair,
                        CurrentPairOf, PassHolds, Holds, StatusType
    <3> QED BY <3>1, <3>2
  <2>3. /\ sw'.uid = sw.uid /\ sw'.gen = sw.gen /\ sw'.spec = sw.spec
        /\ sw'.status = MergePatch(sw.status, pass.base.status, new)
    BY <1>1, <2>1 DEF SWType
  <2>4. /\ sw'.status.currentCPU \in {sw.status.currentCPU, new.currentCPU}
        /\ sw'.status.currentMemory \in {sw.status.currentMemory, new.currentMemory}
        /\ sw'.status.measCPU \in {sw.status.measCPU, new.measCPU}
        /\ sw'.status.measMemory \in {sw.status.measMemory, new.measMemory}
        /\ sw'.status.cond \in {sw.status.cond, new.cond}
    BY <2>3 DEF MergePatch, Leaf, MeasLeaf
  <2>5. Holding(sw.status) /\ sw.status.cond.ready /\ sw.status.cond.gen = sw.gen
    BY <1>1 DEF Holds, ReportsReady
  <2> HIDE DEF new
  <2>6. Shown(sw'.status) = Shown(new)
    BY <2>2, <2>4, <2>5 DEF Holding, Shown, MeasurementPairOf
  <2> QED BY <2>2, <2>3, <2>4, <2>5, <2>6 DEF Holding, CurrentPair, SameSW
<1> QED BY <1>2, <1>3 DEF PatchStatus

(* Every step that is left keeps the rest.                                 *)
LEMMA RestingNext == TypeOK /\ Resting /\ [Next]_vars /\ env' = env => Resting'
<1> SUFFICES ASSUME TypeOK, Resting, [Next]_vars, env' = env PROVE Resting'
  OBVIOUS
<1> DEFINE Step == \/ StartPass \/ GetNode \/ GetPriorityClass \/ Measure \/ GetPod
                   \/ PatchStatus \/ DeliverSW \/ PollFires \/ UNCHANGED vars
<1>1. Step
  BY RestingSteps
<1>2. Untouched /\ pc' # "down"
  BY <1>1 DEF Untouched, Resting, StartPass, GetNode, GetPriorityClass, Measure, GetPod,
              PatchStatus, Return, DeliverSW, PollFires, apiVars, podVars, vars
<1>3. SameSW
  BY <1>1, PatchHolds DEF SameSW, StartPass, GetNode, GetPriorityClass, Measure, GetPod,
                          DeliverSW, PollFires, apiVars, vars
<1>4. RestingPod'
  BY <1>2, <1>3, RestKept DEF Resting
<1>5. Working' => PassHolds'
  <2>1. CASE pass' = pass /\ pc' = pc
    BY <1>2, <1>3, <2>1, RestKept
       DEF Resting, Working, PassHolds, Holds, Holding, CurrentPair, CurrentPairOf, Untouched,
           SameSW
  <2>2. CASE PatchStatus
    BY <2>2 DEF PatchStatus, Return, Working
  <2> QED BY <1>1, <2>1, <2>2, StartHolds, GatesHold, MeasureHolds, GetPodHolds
          DEF DeliverSW, PollFires, vars
<1>6. \A c : Holds(c) <=> /\ c.uid = sw'.uid /\ c.gen = sw'.gen /\ c.spec = sw'.spec
                          /\ CurrentPair(c.status) = CurrentPairOf(pod')
                          /\ Shown(c.status) = MeasurementPairOf(backend')
  BY <1>2, <1>3 DEF Holds, Holding, Untouched, SameSW
<1>7. sw \in SWType /\ swCache \in SWType /\ swWatch \in Seq(SWType) /\ RestingReport
  BY DEF TypeOK, Resting
<1>8. Holds(sw') /\ ReportsReady'
  <2>1. CASE sw' = sw
    BY <1>7, <2>1 DEF RestingReport, ReportsReady
  <2>2. CASE PatchStatus
    BY <2>2, PatchHolds DEF SameSW, Holds, ReportsReady
  <2> QED BY <1>1, <2>1, <2>2
          DEF StartPass, GetNode, GetPriorityClass, Measure, GetPod, DeliverSW, PollFires,
              apiVars, vars
<1>9. Holds(swCache') /\ \A i \in DOMAIN swWatch' : Holds(swWatch'[i])
  <2>1. CASE swCache' = swCache /\ swWatch' = swWatch
    BY <1>7, <2>1 DEF RestingReport
  <2>2. CASE DeliverSW
    <3>1. swCache' = swWatch[1] /\ swWatch' = Tail(swWatch) /\ swWatch # <<>>
      BY <2>2 DEF DeliverSW, UpdateSWCache
    <3>2. /\ DOMAIN swWatch = 1 .. Len(swWatch) /\ Len(swWatch) \in Nat \ {0}
          /\ DOMAIN swWatch' = 1 .. Len(swWatch) - 1
          /\ \A i \in 1 .. Len(swWatch) - 1 : swWatch'[i] = swWatch[i + 1]
      BY <1>7, <3>1
    <3> QED BY <1>7, <3>1, <3>2 DEF RestingReport
  <2>3. CASE PatchStatus /\ swCache' = swCache /\ swWatch' = Append(swWatch, sw')
    <3>1. \A i \in DOMAIN swWatch' : swWatch'[i] = sw' \/ \E j \in DOMAIN swWatch : swWatch'[i] = swWatch[j]
      <4>1. sw' \in SWType
        BY NextType DEF TypeOK
      <4> QED BY <1>7, <2>3, <4>1
    <3> QED BY <1>7, <1>8, <2>3, <3>1 DEF RestingReport
  <2>4. PatchStatus => swCache' = swCache /\ (swWatch' = swWatch \/ swWatch' = Append(swWatch, sw'))
    BY DEF PatchStatus, PatchAccepted, WriteSW
  <2> QED BY <1>1, <2>1, <2>2, <2>3, <2>4
          DEF StartPass, GetNode, GetPriorityClass, Measure, GetPod, PollFires, swVars, vars
<1>10. RestingReport'
  BY <1>6, <1>8, <1>9 DEF RestingReport, Holds, Holding, CurrentPair, CurrentPairOf
<1> QED BY <1>2, <1>4, <1>5, <1>10 DEF Resting

(* Once a reservation has converged it stays converged, with the size it   *)
(* has, for as long as neither a failure nor anybody else's step disturbs  *)
(* it: the poll clock brings no pass that would resize, recreate or        *)
(* degrade it, however far the cached reads trail.                         *)
ConvergedStays == [](AtRest => ([][env' = env]_vars => []Converged))

(* It holds for every lag, every spec and every sequence of failures that  *)
(* came before.                                                            *)
THEOREM ConvergedStaysAlways == Spec => ConvergedStays
<1>1. Init => LoopInv /\ StreamInv
  BY LoopInvInit, StreamInit
<1>2. LoopInv /\ StreamInv /\ [Next]_vars => LoopInv' /\ StreamInv'
  BY LoopInvNext, StreamNext
<1>3. LoopInv /\ StreamInv /\ AtRest => Resting
  BY RestBegins
<1>4. LoopInv /\ Resting /\ [Next]_vars /\ [env' = env]_vars => Resting'
  BY RestingNext DEF LoopInv, vars
<1>5. LoopInv /\ Resting => Converged
  BY RestConverged DEF LoopInv
<1> QED BY <1>1, <1>2, <1>3, <1>4, <1>5, PTL DEF Spec, ConvergedStays
=============================================================================
