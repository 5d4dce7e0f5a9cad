----------------------------- MODULE Reconciler -----------------------------
(***************************************************************************)
(* The ShadowWorkload controller of internal/controller against the API    *)
(* server, its two informer caches, its work queue and its environment,    *)
(* for ONE ShadowWorkload and the one pod name derived from it.            *)
(*                                                                         *)
(* A reconcile pass is a process that takes one step per API call: what    *)
(* others do between two calls of one pass is an interleaved step.         *)
(* Reads of the ShadowWorkload and of the phantom pod come from caches     *)
(* that follow the API server through watch streams; reads of the node,    *)
(* of the PriorityClass and of a colliding pod go to the API server.       *)
(***************************************************************************)
EXTENDS Phantom, Sequences

CONSTANTS
  Nodes,      \* node names
  Sources,    \* descriptions of measurement sources
  Specs,      \* the specs users write
  Readings,   \* what a measurement of the backend can return
  Uids,       \* identities of ShadowWorkload objects
  Revs,       \* identities and resource versions of pods
  Faults,     \* kinds of environment steps that may happen
  Lag,        \* how far cached reads may trail the API server
  MaxEnv,     \* bound on the number of environment steps
  MaxLag      \* bound on undelivered watch events, per stream

ShadowWorkloadSpec == [node : Nodes, source : Sources, valid : BOOLEAN, update : UpdatePolicy]

Reading == [reason : {"", "PrometheusUnavailable", "CadvisorTargetUnavailable"},
            cpu : Nat, mem : Nat, found : BOOLEAN]

FaultKinds == {"edit", "delete", "create", "node", "priority", "backend",
               "foreign", "podDelete", "strip", "touch", "fail",
               "apierror", "lost", "reject", "crash", "orphan", "relist"}

ASSUME SpecsAssumption    == Specs \subseteq ShadowWorkloadSpec /\ Specs # {}
ASSUME SourcesAssumption  == Sources \subseteq STRING \ {""}
ASSUME ReadingsAssumption == Readings \subseteq Reading
ASSUME UidsAssumption     == Uids \subseteq Nat \ {0}
ASSUME RevsAssumption     == Revs \subseteq Nat \ {0}
ASSUME FaultsAssumption   == Faults \subseteq FaultKinds
ASSUME LagAssumption      == Lag \in {"none", "poll", "any"}
ASSUME BoundsAssumption   == MaxEnv \in Nat /\ MaxLag \in Nat \ {0}

VARIABLES
  sw,         \* the ShadowWorkload on the API server
  pod,        \* the pod that has the phantom's name on the API server
  nodes,      \* the state of every node
  priority,   \* does the PriorityClass symbiont-ballast exist
  backend,    \* what a measurement would return now
  late,       \* the write that a dead manager left on its way
  swCache, swWatch,     \* the ShadowWorkload informer and its watch stream
  podCache, podWatch,   \* the Pod informer and its watch stream
  queue,      \* the work queue entry of the ShadowWorkload
  pc, pass,   \* the reconcile pass: next API call and local variables
  series,     \* the metric families that hold a series of the ShadowWorkload
  env         \* number of environment steps so far, also the clock

apiVars   == <<sw, pod, nodes, priority, backend, late>>
swVars    == <<swCache, swWatch>>
podVars   == <<podCache, podWatch>>
vars == <<sw, pod, nodes, priority, backend, late, swCache, swWatch, podCache,
          podWatch, queue, pc, pass, series, env>>

(***************************************************************************)
(* API objects.  A uid of 0 stands for an object that does not exist.      *)
(***************************************************************************)
NoCond == [ready |-> FALSE, reason |-> "", gen |-> 0, at |-> ZeroPair]

(* A measGen of 0 stands for a status without lastMeasurement.             *)
NoStatus == [phantomPod |-> FALSE, currentCPU |-> 0, currentMemory |-> 0,
             lastResize |-> 0, measGen |-> 0, measCPU |-> 0, measMemory |-> 0,
             found |-> FALSE, source |-> "", cond |-> NoCond]

NoSW == [uid |-> 0, gen |-> 0, spec |-> CHOOSE s \in Specs : TRUE, status |-> NoStatus]

(* owner is the uid of the controlling ShadowWorkload, 0 for a foreign pod. *)
NoPod == [uid |-> 0, rv |-> 0, owner |-> 0, labelled |-> FALSE,
          node |-> CHOOSE n \in Nodes : TRUE, req |-> ZeroPair, failed |-> FALSE]

CurrentPairOf(p) == p.req

ownedBySw(p, w) == p.uid # 0 /\ p.owner = w.uid

(* The Pod informer selects on the managed-by label.                       *)
Visible(p) == IF p.labelled THEN p ELSE NoPod

BuildPhantomPod(w, initial, r) ==
  [uid |-> r, rv |-> r, owner |-> w.uid, labelled |-> TRUE,
   node |-> w.spec.node, req |-> initial, failed |-> FALSE]

(* Identities nothing refers to any more are as good as new ones.          *)
KnownPods ==
  {pod, podCache, pass.pod, late.pass.pod} \cup {podWatch[i] : i \in DOMAIN podWatch}
KnownSWs ==
  {sw, swCache, pass.base, late.pass.base} \cup {swWatch[i] : i \in DOMAIN swWatch}

FreshRev(r) ==
  LET used == {p.uid : p \in KnownPods} \cup {p.rv : p \in KnownPods}
  IN  /\ r \in Revs \ used
      /\ \A q \in Revs \ used : r <= q

FreshUid(u) ==
  LET used == {w.uid : w \in KnownSWs} \cup {p.owner : p \in KnownPods}
  IN  /\ u \in Uids \ used
      /\ \A v \in Uids \ used : u <= v

(* A write reaches the watch stream of a running informer that selects it. *)
WriteSW(w) ==
  /\ sw' = w
  /\ swWatch' = IF pc = "down" \/ w = sw THEN swWatch ELSE Append(swWatch, w)
  /\ Len(swWatch') <= MaxLag

WritePod(p) ==
  /\ pod' = p
  /\ podWatch' = IF pc = "down" \/ Visible(p) = Visible(pod)
                   THEN podWatch ELSE Append(podWatch, Visible(p))
  /\ Len(podWatch') <= MaxLag

(***************************************************************************)
(* The work queue holds at most one entry for a key: due now ("ready") or  *)
(* when the poll interval has passed ("poll").  The sooner one wins.       *)
(***************************************************************************)
Requeue(q) == queue' = IF queue = "ready" THEN "ready" ELSE q

NoPass == [base |-> NoSW, st |-> NoStatus, reason |-> "", readyReason |-> "",
           desired |-> ZeroPair, pod |-> NoPod, observed |-> FALSE,
           soon |-> FALSE, measured |-> FALSE]

(* The calls that write: create, the two deletes, the resize, the patch.   *)
WriteCalls == {"create", "recover", "repin", "resize", "status"}

NoLate == [call |-> "none", pass |-> NoPass]

Return(q) == pc' = "idle" /\ pass' = NoPass /\ Requeue(q)

setDegraded(p, reason) == IF p.reason = "" THEN [p EXCEPT !.reason = reason] ELSE p

Drained == swWatch = <<>> /\ podWatch = <<>>

CacheCurrent == Lag = "none" => Drained

(***************************************************************************)
(* The reconcile pass.  Every action that follows is a step of Reconcile   *)
(* up to and including its next API call.  A definition whose name starts  *)
(* with Mut is a deliberately wrong form of the one after it; no behaviour *)
(* of Spec uses it.                                                        *)
(***************************************************************************)
(* The key is due and the cached ShadowWorkload is gone: its series go too. *)
MutForgetDeleted ==
  /\ pc = "idle" /\ queue = "ready" /\ CacheCurrent
  /\ swCache.uid = 0
  /\ queue' = "none"
  /\ UNCHANGED <<apiVars, swVars, podVars, pc, pass, series, env>>

ForgetDeleted ==
  /\ pc = "idle" /\ queue = "ready" /\ CacheCurrent
  /\ swCache.uid = 0
  /\ series' = {}
  /\ queue' = "none"
  /\ UNCHANGED <<apiVars, swVars, podVars, pc, pass, env>>

StartPass ==
  /\ pc = "idle" /\ queue = "ready" /\ CacheCurrent
  /\ swCache.uid # 0
  /\ pass' = [NoPass EXCEPT !.base = swCache, !.st = swCache.status,
                            !.readyReason = "WithinThreshold"]
  /\ pc' = "node"
  /\ queue' = "none"
  /\ UNCHANGED <<apiVars, swVars, podVars, series, env>>

(* The node gate: an ineligible node skips everything up to the status.    *)
GetNode ==
  /\ pc = "node"
  /\ LET node == nodes[pass.base.spec.node]
     IN  IF NodeEligible(node)
           THEN pc' = "priority" /\ UNCHANGED pass
           ELSE pc' = "status" /\ pass' = setDegraded(pass, nodeConditionReason(node))
  /\ UNCHANGED <<apiVars, swVars, podVars, queue, series, env>>

GetPriorityClass ==
  /\ pc = "priority"
  /\ IF priority
       THEN pc' = "measure" /\ UNCHANGED pass
       ELSE pc' = "status" /\ pass' = setDegraded(pass, "PriorityClassMissing")
  /\ UNCHANGED <<apiVars, swVars, podVars, queue, series, env>>

(* measure: a failure leaves the measured pair at zero, and the last       *)
(* snapshot of measurement and source in the status.                       *)
MeasureFailure ==
  IF ~pass.base.spec.valid THEN "SourceInvalid" ELSE backend.reason

MeasuredStatus(p, r) ==
  [p.st EXCEPT !.measGen = p.base.gen,
               !.measCPU = MeasurementPairOf(r).cpu,
               !.measMemory = MeasurementPairOf(r).mem,
               !.found = r.found,
               !.source = p.base.spec.source]

MutMeasuredGen(p, r) ==
  [p EXCEPT !.measured = TRUE,
            !.st = [MeasuredStatus(p, r) EXCEPT
                      !.measGen = IF p.st.measGen = 0 THEN p.base.gen ELSE p.st.measGen]]

MutMeasuredSource(p, r) ==
  [p EXCEPT !.measured = TRUE,
            !.st = [MeasuredStatus(p, r) EXCEPT
                      !.source = IF p.st.source = "" THEN p.base.spec.source ELSE p.st.source]]

Measured(p, r) == [p EXCEPT !.measured = TRUE, !.st = MeasuredStatus(p, r)]

MutDesiredPair(r) == r

DesiredPair(r) ==
  Clamp(r, pass.base.spec.update.floor, pass.base.spec.update.ceiling)

Measure ==
  /\ pc = "measure"
  /\ IF MeasureFailure # ""
       THEN /\ pass' = [setDegraded(pass, MeasureFailure)
                          EXCEPT !.desired = DesiredPair(ZeroPair)]
            /\ series' = series \cup {"failures"}
       ELSE /\ pass' = [Measured(pass, backend)
                          EXCEPT !.desired = DesiredPair(PairOf(backend))]
            /\ series' = series \cup {"measured", "lastSuccess"}
  /\ pc' = "pod"
  /\ UNCHANGED <<apiVars, swVars, podVars, queue, env>>

(* The phantom as the label-scoped cache shows it.                         *)
PhantomConflict(p) == setDegraded(p, "PhantomConflict")

Observed(p, phantom) == [p EXCEPT !.observed = TRUE, !.pod = phantom]

(* Only a pass that has not failed so far may resize.                      *)
MutResizeDue(exceeds) == exceeds

ResizeDue(exceeds) == pass.reason = "" /\ exceeds

(* The spec's node may have been edited since the pod was bound.           *)
MutPinned(p, w) == TRUE

Pinned(p, w) == p.node = w.spec.node

GetPod ==
  /\ pc = "pod" /\ CacheCurrent
  /\ \/ /\ podCache.uid = 0
        /\ pc' = "create" /\ UNCHANGED pass
     \/ /\ podCache.uid # 0 /\ ~ownedBySw(podCache, pass.base)
        /\ pc' = "status" /\ pass' = PhantomConflict(pass)
     \/ /\ ownedBySw(podCache, pass.base) /\ ~Pinned(podCache, pass.base)
        /\ pc' = "repin" /\ pass' = [pass EXCEPT !.pod = podCache]
     \/ /\ ownedBySw(podCache, pass.base) /\ Pinned(podCache, pass.base)
        /\ pass' = Observed(pass, podCache)
        /\ \E exceeds \in DriftExceeds(CurrentPairOf(podCache), pass.desired,
                                       pass.base.spec.update.threshold) :
             pc' = IF ResizeDue(exceeds) THEN "resize" ELSE "status"
  /\ UNCHANGED <<apiVars, swVars, podVars, queue, series, env>>

(* createOrRecoverPhantom up to the Create.                                *)
CreateAccepted(p, r) ==
  /\ pod.uid = 0
  /\ FreshRev(r)
  /\ WritePod(BuildPhantomPod(p.base, p.desired, r))

CreatePhantom ==
  /\ pc = "create"
  /\ IF pod.uid # 0
       THEN /\ pc' = "resolve"
            /\ UNCHANGED <<pod, podWatch, pass, series>>
       ELSE /\ \E r \in Revs : CreateAccepted(pass, r)
            /\ pass' = [Observed(pass, pod') EXCEPT !.readyReason = "PhantomCreated"]
            /\ series' = series \cup {"updates"}
            /\ pc' = "status"
  /\ UNCHANGED <<sw, nodes, priority, backend, late, swVars, podCache, queue, env>>

(* resolveCreateConflict: the live read of the colliding pod.              *)
Resolve ==
  /\ pc = "resolve"
  /\ \/ /\ pod.uid = 0
        /\ Return("poll")
     \/ /\ pod.uid # 0 /\ ~ownedBySw(pod, pass.base)
        /\ pc' = "status" /\ pass' = PhantomConflict(pass) /\ UNCHANGED queue
     \/ /\ ownedBySw(pod, pass.base)
        /\ pc' = "recover" /\ pass' = [pass EXCEPT !.pod = pod] /\ UNCHANGED queue
  /\ UNCHANGED <<apiVars, swVars, podVars, series, env>>

(* A Delete with grace period 0 and the observed UID as its precondition.  *)
DeleteGone     == pod.uid = 0
DeleteConflict(p) == pod.uid # 0 /\ pod.uid # p.pod.uid
MutDeleteAccepted(p) == pod.uid # 0 /\ WritePod(NoPod)

DeleteAccepted(p) == pod.uid # 0 /\ pod.uid = p.pod.uid /\ WritePod(NoPod)

(* resolveCreateConflict: the owned pod that collided is deleted; the next *)
(* poll recreates it, and the status is left as it is.                     *)
MutRecreateLater == Return("none")

RecreateLater == Return("poll")

Recover ==
  /\ pc = "recover"
  /\ \/ DeleteConflict(pass) /\ Return("ready") /\ UNCHANGED <<pod, podWatch>>
     \/ DeleteGone /\ RecreateLater /\ UNCHANGED <<pod, podWatch>>
     \/ DeleteAccepted(pass) /\ RecreateLater
  /\ UNCHANGED <<sw, nodes, priority, backend, late, swVars, podCache, series, env>>

(* The phantom is pinned to another node: it is deleted, not observed.     *)
Repin ==
  /\ pc = "repin"
  /\ \/ DeleteConflict(pass) /\ Return("ready") /\ UNCHANGED <<pod, podWatch>>
     \/ /\ \/ DeleteGone /\ UNCHANGED <<pod, podWatch>>
           \/ DeleteAccepted(pass)
        /\ pass' = [setDegraded(pass, "PhantomRecreating") EXCEPT !.soon = TRUE]
        /\ pc' = "status"
        /\ UNCHANGED queue
  /\ UNCHANGED <<sw, nodes, priority, backend, late, swVars, podCache, series, env>>

(* resizeIfDrifting and resizePhantom: the patch carries the observed      *)
(* resource version, any error is reported as a rejection.                 *)
MutResizeAccepted(p, r) ==
  /\ pod.uid # 0
  /\ FreshRev(r)
  /\ WritePod([pod EXCEPT !.req = p.desired, !.rv = r])

ResizeAccepted(p, r) ==
  /\ pod.uid # 0 /\ pod.rv = p.pod.rv
  /\ FreshRev(r)
  /\ WritePod([pod EXCEPT !.req = p.desired, !.rv = r])

ResizedStatus(p) ==
  [p.st EXCEPT !.lastResize = env + 1,
               !.currentCPU = p.desired.cpu,
               !.currentMemory = p.desired.mem]

ResizeSucceeds(p, r) ==
  [p EXCEPT !.pod = [p.pod EXCEPT !.req = p.desired, !.rv = r],
            !.st = ResizedStatus(p),
            !.readyReason = "Resized"]

ResizeRejected ==
  /\ pass' = setDegraded(pass, "ResizeRejected")
  /\ series' = series \cup {"failures"}

Resize ==
  /\ pc = "resize"
  /\ \/ \E r \in Revs :
          /\ ResizeAccepted(pass, r)
          /\ pass' = ResizeSucceeds(pass, r)
          /\ series' = series \cup {"updates"}
     \/ /\ pod.uid = 0 \/ pod.rv # pass.pod.rv
        /\ ResizeRejected
        /\ UNCHANGED <<pod, podWatch>>
  /\ pc' = "status"
  /\ UNCHANGED <<sw, nodes, priority, backend, late, swVars, podCache, queue, env>>

(***************************************************************************)
(* The end of a pass.  Status currents follow an observed phantom; the two *)
(* conditions are one record, because they always change together.         *)
(***************************************************************************)
MutWithCurrents(p) ==
  IF p.observed
    THEN [p.st EXCEPT !.phantomPod = TRUE,
                      !.currentCPU = p.desired.cpu,
                      !.currentMemory = p.desired.mem]
    ELSE p.st

WithCurrents(p) ==
  IF p.observed
    THEN [p.st EXCEPT !.phantomPod = TRUE,
                      !.currentCPU = CurrentPairOf(p.pod).cpu,
                      !.currentMemory = CurrentPairOf(p.pod).mem]
    ELSE p.st

Condition(p, st) ==
  IF p.reason # ""
    THEN [ready |-> FALSE, reason |-> p.reason, gen |-> p.base.gen, at |-> ZeroPair]
    ELSE [ready |-> TRUE, reason |-> p.readyReason, gen |-> p.base.gen,
          at |-> [cpu |-> st.currentCPU, mem |-> st.currentMemory]]

FinalStatus(p) ==
  LET st == WithCurrents(p) IN [st EXCEPT !.cond = Condition(p, st)]

(* client.MergeFrom(statusBase): the patch holds the leaves that differ    *)
(* from the base the pass read; it carries no resource version.  A first   *)
(* lastMeasurement is sent whole.                                          *)
Leaf(live, base, new) == IF new = base THEN live ELSE new

MeasLeaf(whole, live, base, new) == IF new = base /\ ~whole THEN live ELSE new

MergePatch(live, base, new) ==
  LET whole == base.measGen = 0 /\ new.measGen # 0
  IN  [phantomPod    |-> Leaf(live.phantomPod, base.phantomPod, new.phantomPod),
       currentCPU    |-> Leaf(live.currentCPU, base.currentCPU, new.currentCPU),
       currentMemory |-> Leaf(live.currentMemory, base.currentMemory, new.currentMemory),
       lastResize    |-> Leaf(live.lastResize, base.lastResize, new.lastResize),
       measGen       |-> MeasLeaf(whole, live.measGen, base.measGen, new.measGen),
       measCPU       |-> MeasLeaf(whole, live.measCPU, base.measCPU, new.measCPU),
       measMemory    |-> MeasLeaf(whole, live.measMemory, base.measMemory, new.measMemory),
       found         |-> MeasLeaf(whole, live.found, base.found, new.found),
       source        |-> Leaf(live.source, base.source, new.source),
       cond          |-> Leaf(live.cond, base.cond, new.cond)]

(* Validation refuses a patch that would create half a lastMeasurement: it *)
(* always holds the time, but not a leaf that equals the base's.           *)
PatchInvalid(p, live, base, new) ==
  /\ p.measured /\ live.measGen = 0 /\ base.measGen # 0
  /\ \/ new.measGen = base.measGen \/ new.measCPU = base.measCPU
     \/ new.measMemory = base.measMemory \/ new.found = base.found

(* Patches go by name: a re-created ShadowWorkload gets them too.          *)
PatchRefused(p) ==
  sw.uid = 0 \/ PatchInvalid(p, sw.status, p.base.status, FinalStatus(p))

PatchAccepted(p) ==
  /\ ~PatchRefused(p)
  /\ WriteSW([sw EXCEPT !.status = MergePatch(sw.status, p.base.status, FinalStatus(p))])

SetReserved == series' = IF pass.observed THEN series \cup {"reserved"} ELSE series

PatchStatus ==
  /\ pc = "status"
  /\ \/ PatchAccepted(pass) /\ Return(IF pass.soon THEN "ready" ELSE "poll")
     \/ PatchRefused(pass) /\ Return("ready") /\ UNCHANGED <<sw, swWatch>>
  /\ SetReserved
  /\ UNCHANGED <<pod, nodes, priority, backend, late, swCache, podVars, env>>

(***************************************************************************)
(* The informers, the queue's clock and the garbage collector.             *)
(***************************************************************************)
(* GenerationChangedPredicate: creation, deletion and spec changes.        *)
MutPredicate(old, new) == old.uid # 0 /\ new.uid # 0 /\ old.gen # new.gen

primaryShadowWorkloadPredicate(old, new) ==
  old.uid = 0 \/ new.uid = 0 \/ old.gen # new.gen

UpdateSWCache(new) ==
  /\ swCache' = new
  /\ IF primaryShadowWorkloadPredicate(swCache, new)
       THEN Requeue("ready") ELSE UNCHANGED queue

(* Owns(Pod): every event of a pod that has, or had, a ShadowWorkload as   *)
(* its controller enqueues that ShadowWorkload.                            *)
MutUpdatePodCache(new) == podCache' = new /\ UNCHANGED queue

UpdatePodCache(new) ==
  /\ podCache' = new
  /\ IF podCache # new /\ (podCache.owner # 0 \/ new.owner # 0)
       THEN Requeue("ready") ELSE UNCHANGED queue

DeliverSW ==
  /\ pc # "down" /\ swWatch # <<>>
  /\ UpdateSWCache(Head(swWatch))
  /\ swWatch' = Tail(swWatch)
  /\ UNCHANGED <<apiVars, podVars, pc, pass, series, env>>

DeliverPod ==
  /\ pc # "down" /\ podWatch # <<>>
  /\ UpdatePodCache(Head(podWatch))
  /\ podWatch' = Tail(podWatch)
  /\ UNCHANGED <<apiVars, swVars, pc, pass, series, env>>

(* The poll interval passes.  Unless Lag is "any" it is taken to be longer *)
(* than the delay of the watch streams.                                    *)
PollFires ==
  /\ queue = "poll"
  /\ Lag # "any" => Drained
  /\ queue' = "ready"
  /\ UNCHANGED <<apiVars, swVars, podVars, pc, pass, series, env>>

CollectGarbage ==
  /\ pod.owner # 0 /\ pod.owner # sw.uid
  /\ WritePod(NoPod)
  /\ UNCHANGED <<sw, nodes, priority, backend, late, swVars, podCache, queue, pc, pass,
                 series, env>>

(* The manager starts: its informers list, and enqueue what they find.     *)
Restart ==
  /\ pc = "down"
  /\ pc' = "idle"
  /\ swCache' = sw /\ podCache' = Visible(pod)
  /\ queue' = IF sw.uid # 0 \/ Visible(pod).owner # 0 THEN "ready" ELSE "none"
  /\ UNCHANGED <<apiVars, swWatch, podWatch, pass, series, env>>

(***************************************************************************)
(* Failures.  Each is one environment step; env bounds their number.       *)
(***************************************************************************)
Fault(kind) == kind \in Faults /\ env < MaxEnv /\ env' = env + 1

(* A call of the pass fails: the pass returns the error, backoff retries.  *)
APIError ==
  /\ Fault("apierror")
  /\ \/ pc \in {"node", "priority", "create", "resolve", "recover", "repin"}
        /\ UNCHANGED series
     \/ pc = "status" /\ SetReserved
  /\ Return("ready")
  /\ UNCHANGED <<apiVars, swVars, podVars>>

(* A write takes effect but its answer is lost: the pass sees an error.    *)
LostCreate ==
  /\ pc = "create"
  /\ \E r \in Revs : CreateAccepted(pass, r)
  /\ Return("ready")
  /\ UNCHANGED <<sw, swWatch, series>>

LostDelete ==
  /\ pc \in {"recover", "repin"}
  /\ DeleteAccepted(pass)
  /\ Return("ready")
  /\ UNCHANGED <<sw, swWatch, series>>

LostResize ==
  /\ pc = "resize"
  /\ \E r \in Revs : ResizeAccepted(pass, r)
  /\ ResizeRejected
  /\ pc' = "status"
  /\ UNCHANGED <<sw, swWatch, queue>>

LostPatch ==
  /\ pc = "status"
  /\ PatchAccepted(pass) /\ SetReserved
  /\ Return("ready")
  /\ UNCHANGED <<pod, podWatch>>

LostReply ==
  /\ Fault("lost")
  /\ LostCreate \/ LostDelete \/ LostResize \/ LostPatch
  /\ UNCHANGED <<nodes, priority, backend, late, swCache, podCache>>

(* The API server or the kubelet's admission refuses an in-place resize.   *)
RefuseResize ==
  /\ Fault("reject")
  /\ pc = "resize"
  /\ ResizeRejected
  /\ pc' = "status"
  /\ UNCHANGED <<apiVars, swVars, podVars, queue>>

(* The manager dies or loses its lease, which makes it exit.               *)
Exit ==
  /\ pc' = "down" /\ pass' = NoPass /\ queue' = "none" /\ series' = {}
  /\ swCache' = NoSW /\ swWatch' = <<>>
  /\ podCache' = NoPod /\ podWatch' = <<>>
  /\ UNCHANGED <<sw, pod, nodes, priority, backend>>

Crash ==
  /\ Fault("crash")
  /\ pc # "down"
  /\ Exit
  /\ UNCHANGED late

(* ... while a write of its pass is on its way to the API server, where it *)
(* may arrive when the next manager is already at work.                    *)
OrphanWrite ==
  /\ Fault("orphan")
  /\ pc \in WriteCalls /\ late = NoLate
  /\ Exit
  /\ late' = [call |-> pc, pass |-> pass]

LateCreate == late.call = "create" /\ \E r \in Revs : CreateAccepted(late.pass, r)

LateDelete == late.call \in {"recover", "repin"} /\ DeleteAccepted(late.pass)

LateResize == late.call = "resize" /\ \E r \in Revs : ResizeAccepted(late.pass, r)

LatePatch == late.call = "status" /\ PatchAccepted(late.pass)

(* The orphaned write arrives and is judged like any other, or is lost.    *)
LateWrite ==
  /\ late # NoLate
  /\ late' = NoLate
  /\ \/ (LateCreate \/ LateDelete \/ LateResize) /\ UNCHANGED <<sw, swWatch>>
     \/ LatePatch /\ UNCHANGED <<pod, podWatch>>
     \/ UNCHANGED <<sw, pod, swWatch, podWatch>>
  /\ UNCHANGED <<nodes, priority, backend, swCache, podCache, queue, pc, pass,
                 series, env>>

(* A watch breaks: the informer lists again and skips what it missed.      *)
Relist ==
  /\ Fault("relist")
  /\ pc # "down"
  /\ \/ /\ swWatch # <<>>
        /\ UpdateSWCache(sw) /\ swWatch' = <<>> /\ UNCHANGED podVars
     \/ /\ podWatch # <<>>
        /\ UpdatePodCache(Visible(pod)) /\ podWatch' = <<>> /\ UNCHANGED swVars
  /\ UNCHANGED <<apiVars, pc, pass, series>>

(***************************************************************************)
(* Users, nodes, the metrics backend and the kubelet.                      *)
(***************************************************************************)
ManagerVars == <<swCache, podCache, queue, pc, pass, series>>

NewSW(u, s) == [uid |-> u, gen |-> 1, spec |-> s, status |-> NoStatus]

CreateSW ==
  /\ Fault("create")
  /\ sw.uid = 0
  /\ \E u \in Uids, s \in Specs : FreshUid(u) /\ WriteSW(NewSW(u, s))
  /\ UNCHANGED <<pod, nodes, priority, backend, late, podWatch, ManagerVars>>

EditSpec ==
  /\ Fault("edit")
  /\ sw.uid # 0
  /\ \E s \in Specs \ {sw.spec} :
       WriteSW([sw EXCEPT !.spec = s, !.gen = sw.gen + 1])
  /\ UNCHANGED <<pod, nodes, priority, backend, late, podWatch, ManagerVars>>

DeleteSW ==
  /\ Fault("delete")
  /\ sw.uid # 0
  /\ WriteSW(NoSW)
  /\ UNCHANGED <<pod, nodes, priority, backend, late, podWatch, ManagerVars>>

NodeChanges ==
  /\ Fault("node")
  /\ \E n \in Nodes, state \in NodeStates :
       nodes[n] # state /\ nodes' = [nodes EXCEPT ![n] = state]
  /\ UNCHANGED <<sw, pod, priority, backend, late, swWatch, podWatch, ManagerVars>>

PriorityClassChanges ==
  /\ Fault("priority")
  /\ priority' = ~priority
  /\ UNCHANGED <<sw, pod, nodes, backend, late, swWatch, podWatch, ManagerVars>>

BackendChanges ==
  /\ Fault("backend")
  /\ backend' \in Readings \ {backend}
  /\ UNCHANGED <<sw, pod, nodes, priority, late, swWatch, podWatch, ManagerVars>>

(* Somebody else takes the phantom's name, with or without the label.      *)
CreateForeign ==
  /\ Fault("foreign")
  /\ pod.uid = 0
  /\ \E r \in Revs, labelled \in BOOLEAN :
       /\ FreshRev(r)
       /\ WritePod([NoPod EXCEPT !.uid = r, !.rv = r, !.labelled = labelled])
  /\ UNCHANGED <<sw, nodes, priority, backend, late, swWatch, ManagerVars>>

DeletePod ==
  /\ Fault("podDelete")
  /\ pod.uid # 0
  /\ WritePod(NoPod)
  /\ UNCHANGED <<sw, nodes, priority, backend, late, swWatch, ManagerVars>>

ModifyPod(new) ==
  /\ pod.uid # 0
  /\ \E r \in Revs : FreshRev(r) /\ WritePod([new EXCEPT !.rv = r])
  /\ UNCHANGED <<sw, nodes, priority, backend, late, swWatch, ManagerVars>>

(* Somebody removes the managed-by label of the phantom.                   *)
StripLabels ==
  /\ Fault("strip")
  /\ pod.labelled
  /\ ModifyPod([pod EXCEPT !.labelled = FALSE])

(* The kubelet writes the pod's status: a new resource version.            *)
TouchPod ==
  /\ Fault("touch")
  /\ ModifyPod(pod)

(* The kubelet refuses or evicts the pod: its phase becomes Failed.        *)
FailPod ==
  /\ Fault("fail")
  /\ ~pod.failed
  /\ ModifyPod([pod EXCEPT !.failed = TRUE])

(***************************************************************************)
(* The specification.                                                      *)
(***************************************************************************)
Init ==
  /\ \E u \in Uids, s \in Specs : (\A v \in Uids : u <= v) /\ sw \in {NoSW, NewSW(u, s)}
  /\ pod = NoPod
  /\ nodes = [n \in Nodes |-> "ready"]
  /\ priority = TRUE
  /\ backend \in Readings
  /\ late = NoLate
  /\ swCache = NoSW /\ swWatch = <<>>
  /\ podCache = NoPod /\ podWatch = <<>>
  /\ queue = "none"
  /\ pc = "down" /\ pass = NoPass
  /\ series = {}
  /\ env = 0

Reconcile ==
  \/ ForgetDeleted \/ StartPass \/ GetNode \/ GetPriorityClass \/ Measure
  \/ GetPod \/ CreatePhantom \/ Resolve \/ Recover \/ Repin \/ Resize
  \/ PatchStatus

Failure ==
  APIError \/ LostReply \/ RefuseResize \/ Crash \/ OrphanWrite \/ Relist

Environment ==
  \/ CreateSW \/ EditSpec \/ DeleteSW \/ NodeChanges \/ PriorityClassChanges
  \/ BackendChanges \/ CreateForeign \/ DeletePod \/ StripLabels \/ TouchPod
  \/ FailPod

Next ==
  \/ Reconcile \/ DeliverSW \/ DeliverPod \/ PollFires \/ CollectGarbage
  \/ Restart \/ LateWrite \/ Failure \/ Environment

Spec == Init /\ [][Next]_vars

(* The steps of the manager, of its informers and of the garbage collector *)
(* keep running; users, nodes and failures need not do anything.           *)
Fairness ==
  /\ WF_vars(Reconcile)
  /\ WF_vars(DeliverSW) /\ WF_vars(DeliverPod)
  /\ WF_vars(PollFires)
  /\ WF_vars(CollectGarbage)
  /\ WF_vars(Restart)
  /\ WF_vars(LateWrite)

FairSpec == Spec /\ Fairness
=============================================================================
