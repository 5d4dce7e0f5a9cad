------------------------ MODULE ReconcilerProperties ------------------------
(***************************************************************************)
(* What the ShadowWorkload controller promises: types, safety, liveness.   *)
(***************************************************************************)
EXTENDS Reconciler

(***************************************************************************)
(* Types.                                                                  *)
(***************************************************************************)
Reasons == {"", "NodeMissing", "NodeTerminating", "NodeNotReady",
            "PriorityClassMissing", "SourceInvalid", "PrometheusUnavailable",
            "CadvisorTargetUnavailable", "PhantomConflict",
            "PhantomRecreating", "ResizeRejected"}

ReadyReasons == {"", "WithinThreshold", "PhantomCreated", "Resized"}

CondType == [ready : BOOLEAN, reason : Reasons \cup ReadyReasons, gen : Nat, at : Pair]

StatusType ==
  [phantomPod : BOOLEAN, currentCPU : Nat, currentMemory : Nat, lastResize : Nat,
   measGen : Nat, measCPU : Nat, measMemory : Nat, found : BOOLEAN,
   source : Sources \cup {""}, cond : CondType]

SWType == [uid : Uids \cup {0}, gen : Nat, spec : Specs, status : StatusType]

PodType == [uid : Revs \cup {0}, rv : Revs \cup {0}, owner : Uids \cup {0},
            labelled : BOOLEAN, node : Nodes, req : Pair, failed : BOOLEAN]

PassType == [base : SWType, st : StatusType, reason : Reasons,
             readyReason : ReadyReasons, desired : Pair, pod : PodType,
             observed : BOOLEAN, soon : BOOLEAN, measured : BOOLEAN]

LateType == [call : {"none"} \cup WriteCalls, pass : PassType]

PCs == {"down", "idle", "node", "priority", "measure", "pod", "create",
        "resolve", "recover", "repin", "resize", "status"}

Families == {"measured", "lastSuccess", "reserved", "updates", "failures"}

(* Every variable keeps its type, in every state the pass and its          *)
(* environment can reach.                                                  *)
TypeOK ==
  /\ sw \in SWType /\ swCache \in SWType /\ swWatch \in Seq(SWType)
  /\ pod \in PodType /\ podCache \in PodType /\ podWatch \in Seq(PodType)
  /\ nodes \in [Nodes -> NodeStates]
  /\ priority \in BOOLEAN
  /\ backend \in Readings
  /\ late \in LateType
  /\ queue \in {"none", "poll", "ready"}
  /\ pc \in PCs /\ pass \in PassType
  /\ series \subseteq Families
  /\ env \in 0 .. MaxEnv

(***************************************************************************)
(* Safety.                                                                 *)
(***************************************************************************)
LateArrives == late # NoLate /\ late' = NoLate

(* A pass never changes or deletes a pod that the ShadowWorkload it read   *)
(* does not own, whatever happens between its reads and its writes, also   *)
(* when the last write of a dead manager arrives late.                     *)
ForeignUntouched ==
  [][/\ pc' # pc /\ pod.uid # 0 /\ pod.owner # pass.base.uid => pod' = pod
     /\ LateArrives /\ pod.uid # 0 /\ pod.owner # late.pass.base.uid
          => pod' = pod]_vars

Shown(st) == [cpu |-> st.measCPU, mem |-> st.measMemory]

(* What the readings that a pass shows as its measurement call for: more   *)
(* than one, as a request is coarser than the measurement that is shown.   *)
MeasuredSizes(p) ==
  {Clamp(PairOf(r), p.base.spec.update.floor, p.base.spec.update.ceiling) :
     r \in {x \in Readings : x.reason = "" /\ MeasurementPairOf(x) = Shown(p.st)}}

(* A pass changes the requests of a phantom only after a measurement of    *)
(* its own, and to a clamped value of what that measurement reports; so    *)
(* does a write that outlives its manager.                                 *)
ResizedByMeasurement ==
  [][pod.uid # 0 /\ pod'.uid = pod.uid /\ pod'.req # pod.req
       => LET writer == IF pc' # pc THEN pass ELSE late.pass
          IN  writer.measured /\ pod'.req \in MeasuredSizes(writer)]_vars

(* A change of at least t percent of what there is; from nothing, any.     *)
Drifted(cur, want, t) == want # cur /\ Abs(want - cur) * 100 >= t * cur

(* A pass, or the write that outlives its manager, resizes a phantom only  *)
(* when the size the phantom has at that moment is off the new one by the  *)
(* threshold or more, however old the copy it has compared.  (The code     *)
(* divides in floating point, where a change of exactly the threshold may  *)
(* come out above it.)                                                     *)
ResizedOnDrift ==
  [][pod.uid # 0 /\ pod'.uid = pod.uid /\ pod'.req # pod.req
       => LET writer == IF pc' # pc THEN pass ELSE late.pass
              t == writer.base.spec.update.threshold
          IN  \/ Drifted(pod.req.cpu, pod'.req.cpu, t)
              \/ Drifted(pod.req.mem, pod'.req.mem, t)]_vars

InBounds(req, update) ==
  /\ update.floor.cpu <= req.cpu /\ req.cpu <= update.ceiling.cpu
  /\ update.floor.mem <= req.mem /\ req.mem <= update.ceiling.mem

(* The requests of a phantom lie between floor and ceiling of ONE of the   *)
(* specs users write: no reading, failure or race between the measurement  *)
(* and the write gets around the clamp, or mixes the bounds of two specs.  *)
BoundedReservation ==
  pod.owner # 0 => \E s \in Specs : InBounds(CurrentPairOf(pod), s.update)

(* The phantom implements a reservation, through every race, failure and   *)
(* change of manager: it never moves, never changes hands, and takes a new *)
(* size only from a successful measurement under a spec of its own node.   *)
R == INSTANCE Reservation
       WITH owner <- pod.owner, node <- pod.node, req <- CurrentPairOf(pod)

ReservationKept == R!Spec

(* The poll clock of an existing ShadowWorkload never stops: whenever the  *)
(* worker is idle the key is queued, or an event that queues it is due.    *)
LoopAlive == pc = "idle" /\ sw.uid # 0 => queue # "none" \/ swWatch # <<>>

(* Nothing keeps exporting series of a ShadowWorkload that the manager     *)
(* knows to be gone, once the queue is empty.                              *)
NoStaleSeries ==
  pc = "idle" /\ queue = "none" /\ swCache.uid = 0 => series = {}

(* Ready is only reported together with a measurement taken under the same *)
(* generation of the spec.  (Not so where the status patch of a dead       *)
(* manager arrives after a patch of its successor, or that of a pass in a  *)
(* ShadowWorkload created again under its name.)                           *)
ReadyMeasured == sw.status.cond.ready => sw.status.measGen = sw.status.cond.gen

(* Settled: no pass is running or due, and the caches are current.         *)
Settled == pc = "idle" /\ queue = "poll" /\ Drained

ReportsReady == sw.status.cond.ready /\ sw.status.cond.gen = sw.gen

CurrentPair(st) == [cpu |-> st.currentCPU, mem |-> st.currentMemory]

(* Once things have settled, Ready for the present spec means that the     *)
(* phantom exists, carries the label, is this ShadowWorkload's and sits on *)
(* the node of the spec.                                                   *)
ReadyMeansPhantom ==
  Settled /\ ReportsReady
    => ownedBySw(pod, sw) /\ pod.labelled /\ pod.node = sw.spec.node

(* Once things have settled under a Ready report, the currents of the      *)
(* status are the requests of the phantom.                                 *)
CurrentsMirror ==
  Settled /\ ReportsReady /\ pod.uid # 0 => CurrentPairOf(pod) = CurrentPair(sw.status)

(* Once things have settled, a Ready report for the present spec is true   *)
(* in both respects, after failed and unanswered calls, edits, deletions   *)
(* of the phantom and changes of manager.  (Not so where a write of a dead *)
(* manager arrives late, where somebody else changes or takes the place of *)
(* the phantom, or where events are lost: nothing need tell the controller *)
(* before the next pass.)                                                  *)
SettledTruth == ReadyMeansPhantom /\ CurrentsMirror

(* A pass deletes the phantom only because its label is gone or its node   *)
(* is no longer the node of the spec the pass works from.                  *)
HealthyPhantomKept ==
  [][pc' # pc /\ pod.uid # 0 /\ pod'.uid = 0
       => ~pod.labelled \/ pod.node # pass.base.spec.node]_vars

(* A pass that could not measure leaves the reservation at its last        *)
(* accepted size: a phantom it creates is as large as the one reported.    *)
OutageKeepsSize ==
  [][pod.uid = 0 /\ pod'.uid # 0 /\ pc = "create" /\ pc' = "status"
       /\ ~pass.measured /\ sw.status.phantomPod
       => CurrentPairOf(pod') = CurrentPair(sw.status)]_vars

(* Once things have settled, a Ready report means that the scheduler       *)
(* counts the phantom: its phase is not Failed.                            *)
ReadyPhantomCounts == Settled /\ ReportsReady => ~pod.failed

(***************************************************************************)
(* Liveness.                                                               *)
(***************************************************************************)
(* Everything the controller depends on is there.                          *)
Healthy ==
  /\ sw.uid # 0 /\ sw.spec.valid
  /\ NodeEligible(nodes[sw.spec.node]) /\ priority
  /\ backend.reason = ""
  /\ pod.uid # 0 => pod.owner # 0

(* Off by no more than t percent of what there is; nothing is near zero    *)
(* but zero.                                                               *)
Near(cur, want, t) == Abs(want - cur) * 100 <= t * cur

(* The reservation follows the measurement, and the status says so.        *)
Converged ==
  /\ ownedBySw(pod, sw) /\ pod.labelled /\ pod.node = sw.spec.node
  /\ ReportsReady /\ CurrentPairOf(pod) = CurrentPair(sw.status)
  /\ Shown(sw.status) = MeasurementPairOf(backend)
  /\ LET want == Clamp(PairOf(backend), sw.spec.update.floor, sw.spec.update.ceiling)
         t == sw.spec.update.threshold
     IN  Near(pod.req.cpu, want.cpu, t) /\ Near(pod.req.mem, want.mem, t)

(* When what the controller depends on stays healthy, the reservation      *)
(* converges to the measurement and stays there.                           *)
Convergence == <>[]Healthy => <>[]Converged

(* A ShadowWorkload that stays deleted leaves neither a phantom nor series. *)
Cleanup == <>[](sw.uid = 0) => <>[](pod.owner = 0 /\ series = {})
=============================================================================
