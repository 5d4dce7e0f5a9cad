----------------------------- MODULE LoopProofs -----------------------------
(***************************************************************************)
(* Proofs that the poll clock of a ShadowWorkload never stops, and that    *)
(* the series of a deleted one are dropped.                                *)
(*                                                                         *)
(* Neither invariant is inductive.  An idle worker with an empty queue is  *)
(* harmless only because the ShadowWorkload is then absent from the cache, *)
(* and the cache is the API server's state up to the events in the stream: *)
(* the newest event, or the cache when there is none, IS the live object.  *)
(***************************************************************************)
EXTENDS ReconcilerProofs, SequenceTheorems

(* The informer lags but does not lose: the last event is the live object. *)
CacheFollows ==
  /\ pc = "down" => swWatch = <<>>
  /\ pc # "down" /\ swWatch = <<>> => swCache = sw
  /\ swWatch # <<>> => swWatch[Len(swWatch)] = sw

(* A cached ShadowWorkload is queued whenever no pass is working on it.    *)
CachedIsQueued == pc = "idle" /\ swCache.uid # 0 => queue # "none"

(* Series die with the manager that exports them.                          *)
DownIsSilent == pc = "down" => series = {}

LoopInv == TypeOK /\ CacheFollows /\ CachedIsQueued /\ DownIsSilent /\ NoStaleSeries

(* The invariant holds before the manager starts.                          *)
LEMMA LoopInvInit == Init => LoopInv
  BY InitType DEF Init, LoopInv, CacheFollows, CachedIsQueued, DownIsSilent, NoStaleSeries

(***************************************************************************)
(* The cache follows the API server.                                       *)
(***************************************************************************)
(* A write of the ShadowWorkload appends to the stream, or nobody watches. *)
LEMMA WriteSWFollows ==
  ASSUME LoopInv, NEW w \in SWType, WriteSW(w), swCache' = swCache, pc # "down" => pc' # "down",
         pc = "down" => pc' = "down"
  PROVE  CacheFollows'
<1>1. swWatch \in Seq(SWType) /\ sw' = w
  BY DEF LoopInv, TypeOK, WriteSW
<1>2. CASE pc = "down" \/ w = sw
  <2>1. swWatch' = swWatch /\ (pc # "down" => sw' = sw)
    BY <1>2 DEF WriteSW
  <2> QED BY <2>1 DEF LoopInv, CacheFollows
<1>3. CASE pc # "down" /\ w # sw
  <2>1. swWatch' = Append(swWatch, w)
    BY <1>3 DEF WriteSW
  <2>2. swWatch' # <<>> /\ swWatch'[Len(swWatch')] = w
    BY <1>1, <2>1
  <2> QED BY <1>1, <1>3, <2>2 DEF CacheFollows
<1> QED BY <1>2, <1>3

(* A delivered event leaves the newest one, or itself, as the live object. *)
LEMMA DeliverFollows == LoopInv /\ DeliverSW => CacheFollows'
<1> SUFFICES ASSUME LoopInv, DeliverSW PROVE CacheFollows'
  OBVIOUS
<1>1. swWatch \in Seq(SWType) /\ swWatch # <<>> /\ swWatch[Len(swWatch)] = sw
  BY DEF LoopInv, TypeOK, DeliverSW, CacheFollows
<1>2. swCache' = Head(swWatch) /\ swWatch' = Tail(swWatch) /\ sw' = sw /\ pc' = pc /\ pc # "down"
  BY DEF DeliverSW, UpdateSWCache, apiVars
<1> DEFINE rest == Tail(swWatch)
           n == Len(swWatch)
           m == Len(rest)
<1>3. rest \in Seq(SWType) /\ m = n - 1 /\ \A i \in 1 .. m : rest[i] = swWatch[i + 1]
  BY <1>1, HeadTailProperties
<1>4. n \in Nat \ {0} /\ (rest # <<>> => m \in Nat \ {0})
  BY <1>1, <1>3, EmptySeq
<1>5. rest = <<>> => m = 0
  BY EmptySeq, Zenon
<1>6. Head(swWatch) = swWatch[1]
  BY <1>1
<1>7. rest = <<>> => n = 1
  <2> HIDE DEF n, m, rest
  <2> QED BY <1>3, <1>4, <1>5
<1>8. rest # <<>> => m \in 1 .. m /\ m + 1 = n
  <2> HIDE DEF n, m, rest
  <2> QED BY <1>3, <1>4
<1>9. CASE rest = <<>>
  <2>1. Head(swWatch) = sw
    BY <1>1, <1>6, <1>7, <1>9, Zenon
  <2> QED BY <1>2, <1>9, <2>1 DEF CacheFollows
<1>10. CASE rest # <<>>
  <2>1. rest[m] = sw
    BY <1>1, <1>3, <1>8, <1>10, Zenon
  <2> QED BY <1>2, <1>10, <2>1 DEF CacheFollows
<1> QED BY <1>9, <1>10

(***************************************************************************)
(* The queue keeps the key, and the series go.                             *)
(***************************************************************************)
(* A pass runs on, ends with a requeue, or nothing of this kind changes.   *)
KeyKept ==
  \/ pc # "down" /\ pc' \notin {"idle", "down"}
  \/ pc # "down" /\ pc' = "idle" /\ queue' # "none"
  \/ UNCHANGED <<pc, queue, series>>

(* Such a step keeps the clock running.                                    *)
LEMMA KeyKeptLoop ==
  ASSUME LoopInv, KeyKept, swCache' = swCache
  PROVE  CachedIsQueued' /\ DownIsSilent' /\ NoStaleSeries'
  BY DEF LoopInv, KeyKept, CachedIsQueued, DownIsSilent, NoStaleSeries

(* If it does not touch the ShadowWorkload either, the invariant stays.    *)
LEMMA QuietLoop ==
  ASSUME LoopInv, TypeOK', KeyKept, UNCHANGED <<sw, swCache, swWatch>>
  PROVE  LoopInv'
<1>1. (pc = "down") <=> (pc' = "down")
  BY DEF KeyKept
<1>2. CacheFollows'
  BY <1>1 DEF LoopInv, CacheFollows
<1> QED BY <1>2, KeyKeptLoop DEF LoopInv

(* Every return of a pass but that for a deleted object requeues the key.  *)
LEMMA ReturnKept ==
  ASSUME NEW q \in {"poll", "ready"}, pc # "down", Return(q)
  PROVE  KeyKept
  BY DEF Return, Requeue, KeyKept

(***************************************************************************)
(* One lemma per group of actions.                                         *)
(***************************************************************************)
(* The first step of a pass, which alone empties the queue.                *)
LEMMA StartLoop == LoopInv /\ TypeOK' /\ (ForgetDeleted \/ StartPass) => LoopInv'
<1> SUFFICES ASSUME LoopInv, TypeOK', ForgetDeleted \/ StartPass PROVE LoopInv'
  OBVIOUS
<1>1. CASE ForgetDeleted
  BY <1>1 DEF ForgetDeleted, LoopInv, CacheFollows, CachedIsQueued, DownIsSilent,
              NoStaleSeries, apiVars, swVars
<1>2. CASE StartPass
  BY <1>2, QuietLoop DEF StartPass, KeyKept, apiVars, swVars
<1> QED BY <1>1, <1>2

(* The steps of a pass up to the status patch.                             *)
LEMMA PassLoop ==
  LoopInv /\ TypeOK' /\ (GetNode \/ GetPriorityClass \/ Measure \/ GetPod \/ CreatePhantom
                         \/ Resolve \/ Recover \/ Repin \/ Resize) => LoopInv'
<1> SUFFICES ASSUME LoopInv, TypeOK',
                    GetNode \/ GetPriorityClass \/ Measure \/ GetPod \/ CreatePhantom
                      \/ Resolve \/ Recover \/ Repin \/ Resize
             PROVE  LoopInv'
  OBVIOUS
<1>1. UNCHANGED <<sw, swCache, swWatch>>
  BY DEF GetNode, GetPriorityClass, Measure, GetPod, CreatePhantom, Resolve, Recover, Repin,
         Resize, apiVars, swVars
<1>2. CASE GetNode \/ GetPriorityClass \/ Measure \/ GetPod \/ CreatePhantom \/ Resize
  <2>1. KeyKept
    BY <1>2 DEF GetNode, GetPriorityClass, Measure, GetPod, CreatePhantom, Resize, KeyKept
  <2> QED BY <1>1, <2>1, QuietLoop
<1>3. CASE Resolve \/ Recover \/ Repin
  <2>1. pc # "down" /\ (pc' = "status" \/ pc' = "recover" \/ \E q \in {"poll", "ready"} : Return(q))
    BY <1>3 DEF Resolve, Recover, Repin, RecreateLater
  <2>2. KeyKept
    BY <2>1, ReturnKept DEF KeyKept
  <2> QED BY <1>1, <2>2, QuietLoop
<1> QED BY <1>2, <1>3

(* The status patch, answered or lost, is a write of the ShadowWorkload.   *)
LEMMA PatchFollows ==
  ASSUME LoopInv, NEW p \in PassType, PatchAccepted(p), swCache' = swCache,
         pc # "down" => pc' # "down", pc = "down" => pc' = "down"
  PROVE  CacheFollows'
<1> DEFINE st == MergePatch(sw.status, p.base.status, FinalStatus(p))
<1>1. sw.status \in StatusType /\ p.base.status \in StatusType /\ sw \in SWType
  BY DEF LoopInv, TypeOK, PassType, SWType
<1>2. st \in StatusType
  BY <1>1, FinalStatusType, MergePatchType
<1>3. WriteSW([sw EXCEPT !.status = st])
  BY DEF PatchAccepted
<1> HIDE DEF st
<1>4. [sw EXCEPT !.status = st] \in SWType
  BY <1>1, <1>2 DEF SWType
<1> QED BY <1>3, <1>4, WriteSWFollows

(* The last step of a pass.                                                *)
LEMMA PatchLoop == LoopInv /\ TypeOK' /\ PatchStatus => LoopInv'
<1> SUFFICES ASSUME LoopInv, TypeOK', PatchStatus PROVE LoopInv'
  OBVIOUS
<1>1. pc # "down" /\ swCache' = swCache /\ \E q \in {"poll", "ready"} : Return(q)
  BY DEF PatchStatus
<1>2. KeyKept /\ pc' # "down"
  BY <1>1, ReturnKept DEF Return
<1>3. CASE PatchAccepted(pass)
  BY <1>1, <1>2, <1>3, PatchFollows, KeyKeptLoop DEF LoopInv, TypeOK
<1>4. CASE UNCHANGED <<sw, swWatch>>
  BY <1>1, <1>2, <1>4, QuietLoop
<1> QED BY <1>3, <1>4 DEF PatchStatus

(* The informers: what appears or disappears is queued.                    *)
LEMMA CacheLoop ==
  ASSUME LoopInv, NEW new, UpdateSWCache(new), UNCHANGED <<pc, series>>
  PROVE  CachedIsQueued' /\ DownIsSilent' /\ NoStaleSeries'
  BY DEF UpdateSWCache, primaryShadowWorkloadPredicate, Requeue, LoopInv, CachedIsQueued,
         DownIsSilent, NoStaleSeries

(* A pod event queues the key or leaves the queue as it is.                *)
LEMMA PodEventKept ==
  ASSUME pc # "down", NEW new, UpdatePodCache(new), UNCHANGED <<pc, series>>
  PROVE  KeyKept
  BY DEF UpdatePodCache, Requeue, KeyKept

(* Deliveries, the poll clock, the garbage collector and the start.        *)
LEMMA BackgroundLoop ==
  LoopInv /\ TypeOK' /\ (DeliverSW \/ DeliverPod \/ PollFires \/ CollectGarbage \/ Restart)
    => LoopInv'
<1> SUFFICES ASSUME LoopInv, TypeOK',
                    DeliverSW \/ DeliverPod \/ PollFires \/ CollectGarbage \/ Restart
             PROVE  LoopInv'
  OBVIOUS
<1>1. CASE DeliverSW
  BY <1>1, DeliverFollows, CacheLoop DEF DeliverSW, LoopInv
<1>2. CASE DeliverPod
  BY <1>2, PodEventKept, QuietLoop DEF DeliverPod, apiVars, swVars
<1>3. CASE PollFires
  BY <1>3 DEF PollFires, LoopInv, CacheFollows, CachedIsQueued, DownIsSilent, NoStaleSeries,
              apiVars, swVars
<1>4. CASE CollectGarbage
  BY <1>4, QuietLoop DEF CollectGarbage, KeyKept, swVars
<1>5. CASE Restart
  BY <1>5 DEF Restart, LoopInv, CacheFollows, CachedIsQueued, DownIsSilent, NoStaleSeries,
              apiVars
<1> QED BY <1>1, <1>2, <1>3, <1>4, <1>5

(* Failed calls, lost answers and refused resizes end or continue a pass.  *)
LEMMA FailureLoop == LoopInv /\ TypeOK' /\ (APIError \/ LostReply \/ RefuseResize) => LoopInv'
<1> SUFFICES ASSUME LoopInv, TypeOK', APIError \/ LostReply \/ RefuseResize PROVE LoopInv'
  OBVIOUS
<1>1. CASE APIError
  BY <1>1, ReturnKept, QuietLoop DEF APIError, apiVars, swVars
<1>2. CASE RefuseResize
  BY <1>2, QuietLoop DEF RefuseResize, KeyKept, apiVars, swVars
<1>3. CASE LostReply
  <2>1. swCache' = swCache /\ (LostCreate \/ LostDelete \/ LostResize \/ LostPatch)
    BY <1>3 DEF LostReply
  <2>2. CASE LostCreate \/ LostDelete
    BY <2>1, <2>2, ReturnKept, QuietLoop DEF LostCreate, LostDelete
  <2>3. CASE LostResize
    BY <2>1, <2>3, QuietLoop DEF LostResize, KeyKept
  <2>4. CASE LostPatch
    <3>1. pc # "down" /\ pc' # "down" /\ KeyKept
      BY <2>4, ReturnKept DEF LostPatch, Return
    <3> QED BY <2>1, <2>4, <3>1, PatchFollows, KeyKeptLoop DEF LostPatch, LoopInv, TypeOK
  <2> QED BY <2>1, <2>2, <2>3, <2>4
<1> QED BY <1>1, <1>2, <1>3

(* A crash empties everything; a list skips to the live object.            *)
LEMMA ManagerLoop == LoopInv /\ TypeOK' /\ (Crash \/ OrphanWrite \/ Relist) => LoopInv'
<1> SUFFICES ASSUME LoopInv, TypeOK', Crash \/ OrphanWrite \/ Relist PROVE LoopInv'
  OBVIOUS
<1>1. CASE Crash \/ OrphanWrite
  BY <1>1 DEF Crash, OrphanWrite, Exit, LoopInv, CacheFollows, CachedIsQueued, DownIsSilent, NoStaleSeries
<1>2. CASE Relist
  <2>1. pc # "down" /\ UNCHANGED <<sw, pc, series>>
    BY <1>2 DEF Relist, apiVars
  <2>2. CASE UpdateSWCache(sw) /\ swWatch' = <<>>
    <3>1. swCache' = sw
      BY <2>2 DEF UpdateSWCache
    <3>2. CacheFollows'
      BY <2>1, <2>2, <3>1 DEF CacheFollows
    <3> QED BY <2>1, <2>2, <3>2, CacheLoop DEF LoopInv
  <2>3. CASE UpdatePodCache(Visible(pod)) /\ UNCHANGED swVars
    BY <2>1, <2>3, PodEventKept, QuietLoop DEF swVars
  <2> QED BY <1>2, <2>2, <2>3 DEF Relist
<1> QED BY <1>1, <1>2

(* A write that outlives its manager is a write like any other.            *)
LEMMA LateLoop == LoopInv /\ TypeOK' /\ LateWrite => LoopInv'
<1> SUFFICES ASSUME LoopInv, TypeOK', LateWrite PROVE LoopInv'
  OBVIOUS
<1>1. UNCHANGED <<swCache, pc, queue, series>> /\ late.pass \in PassType
  BY DEF LateWrite, LoopInv, TypeOK, LateType
<1>2. CASE PatchAccepted(late.pass)
  BY <1>1, <1>2, PatchFollows, KeyKeptLoop DEF KeyKept, LoopInv
<1>3. CASE UNCHANGED <<sw, swWatch>>
  BY <1>1, <1>3, QuietLoop DEF KeyKept
<1> QED BY <1>2, <1>3 DEF LateWrite, LatePatch

(* Users write the ShadowWorkload, and the stream tells the informer.      *)
LEMMA UserLoop == LoopInv /\ TypeOK' /\ (CreateSW \/ EditSpec \/ DeleteSW) => LoopInv'
<1> SUFFICES ASSUME LoopInv, TypeOK', CreateSW \/ EditSpec \/ DeleteSW PROVE LoopInv'
  OBVIOUS
<1>1. UNCHANGED <<swCache, pc, queue, series>>
  BY DEF CreateSW, EditSpec, DeleteSW, ManagerVars
<1>2. WriteSW(sw')
  BY DEF CreateSW, EditSpec, DeleteSW, WriteSW
<1>3. CacheFollows'
  BY <1>1, <1>2, WriteSWFollows DEF TypeOK
<1> QED BY <1>1, <1>3, KeyKeptLoop DEF KeyKept, LoopInv

(* Nodes, the backend and other writers of the pod do not concern it.      *)
LEMMA ClusterLoop ==
  LoopInv /\ TypeOK' /\ (NodeChanges \/ PriorityClassChanges \/ BackendChanges \/ CreateForeign
                         \/ DeletePod \/ StripLabels \/ TouchPod \/ FailPod) => LoopInv'
<1> SUFFICES ASSUME LoopInv, TypeOK',
                    NodeChanges \/ PriorityClassChanges \/ BackendChanges \/ CreateForeign
                      \/ DeletePod \/ StripLabels \/ TouchPod \/ FailPod
             PROVE  LoopInv'
  OBVIOUS
<1>1. UNCHANGED <<sw, swWatch, ManagerVars>>
  BY DEF NodeChanges, PriorityClassChanges, BackendChanges, CreateForeign, DeletePod,
         StripLabels, TouchPod, FailPod, ModifyPod
<1> QED BY <1>1, QuietLoop DEF ManagerVars, KeyKept

(* Every step keeps the invariant.                                         *)
LEMMA LoopInvNext == LoopInv /\ [Next]_vars => LoopInv'
<1> SUFFICES ASSUME LoopInv, [Next]_vars PROVE LoopInv'
  OBVIOUS
<1>1. TypeOK'
  BY NextType DEF LoopInv
<1>2. CASE UNCHANGED vars
  BY <1>1, <1>2, QuietLoop DEF vars, KeyKept
<1>3. CASE Next
  BY <1>1, <1>3, StartLoop, PassLoop, PatchLoop, BackgroundLoop, FailureLoop, ManagerLoop,
     LateLoop, UserLoop, ClusterLoop DEF Next, Reconcile, Failure, Environment
<1> QED BY <1>2, <1>3

(* The poll clock of an existing ShadowWorkload never stops, whatever      *)
(* fails, is lost or restarts: Reconcile, GenerationChangedPredicate and   *)
(* the informers together never drop its key.                              *)
THEOREM LoopAliveAlways == Spec => []LoopAlive
<1>1. LoopInv => LoopAlive
  BY DEF LoopInv, CacheFollows, CachedIsQueued, LoopAlive
<1> QED BY <1>1, LoopInvInit, LoopInvNext, PTL DEF Spec

(* The series of a deleted ShadowWorkload are dropped once its key leaves  *)
(* the queue, however the deletion interleaves with a running pass.        *)
THEOREM NoStaleSeriesAlways == Spec => []NoStaleSeries
<1>1. LoopInv => NoStaleSeries
  BY DEF LoopInv
<1> QED BY <1>1, LoopInvInit, LoopInvNext, PTL DEF Spec
=============================================================================
