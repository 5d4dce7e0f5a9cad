--------------------------- MODULE ForeignProofs ---------------------------
(***************************************************************************)
(* Proofs about the pods that a pass writes to: it never changes or        *)
(* deletes one that is not owned by the ShadowWorkload it read, it resizes *)
(* its own only on a drift, and, while cached reads are current, it never  *)
(* deletes a healthy one.                                                  *)
(*                                                                         *)
(* The writes of a pass carry what it observed, a UID or a resource        *)
(* version, never an owner.  That protects foreign pods, and makes what    *)
(* the pass has decided about its copy true of the live pod, only because  *)
(* the API server never gives the same identity to two pods, in any place  *)
(* where a copy of a pod may still be held.                                *)
(***************************************************************************)
EXTENDS BoundsProofs, SequenceTheorems

(* What a writer is about to write to is a pod of its ShadowWorkload, and  *)
(* what it resizes was pinned to the node of its spec.                     *)
Owns(w) ==
  /\ w.call \in {"recover", "repin", "resize"} => ownedBySw(w.pass.pod, w.pass.base)
  /\ w.call = "resize" => Pinned(w.pass.pod, w.pass.base)
  /\ w.call \notin {"none", "down", "idle"} => w.pass.base.uid # 0

SamePhantom(p, q) ==
  /\ p.uid # 0 /\ p.uid = q.uid => p.owner = q.owner /\ p.node = q.node
  /\ p.rv # 0 /\ p.rv = q.rv => p = q

(* Known pods with a common UID have the same owner and node, and those    *)
(* with a common version are the same.                                     *)
IdentityFixesPod == \A p, q \in KnownPods : SamePhantom(p, q)

(* A pod that exists has a version, one that does not has none.            *)
VersionedPods == \A p \in KnownPods : p.uid = 0 <=> p.rv = 0

IdentityInv == IdentityFixesPod /\ VersionedPods

ForeignInv == TypeOK /\ Owns(Self) /\ Owns(late) /\ IdentityInv

(* The invariant holds before the manager starts: no pod is known.         *)
LEMMA ForeignInvInit == Init => ForeignInv
<1> SUFFICES ASSUME Init PROVE ForeignInv
  OBVIOUS
<1>1. TypeOK /\ Owns(Self) /\ Owns(late)
  BY InitType DEF Init, Owns, Self, NoLate
<1>2. \A p \in KnownPods : p = NoPod
  <2>1. podWatch = <<>> /\ DOMAIN podWatch = {}
    BY DEF Init
  <2>2. pod = NoPod /\ podCache = NoPod /\ pass.pod = NoPod /\ late.pass.pod = NoPod
    BY DEF Init, NoPass, NoLate
  <2> QED BY <2>1, <2>2 DEF KnownPods
<1>3. IdentityInv
  BY <1>2 DEF IdentityInv, IdentityFixesPod, VersionedPods, SamePhantom, NoPod
<1> QED BY <1>1, <1>3 DEF ForeignInv

(***************************************************************************)
(* Two ways for the known pods to evolve.                                  *)
(***************************************************************************)
(* Copies move and go, and nothing new is known.                           *)
CopiesOnly == \A p \in KnownPods' : p \in KnownPods \/ p = NoPod

(* One pod is new.  It has a fresh version, and a fresh UID or the UID of a *)
(* known pod of the same owner and node.                                   *)
NewVersion(p, r) ==
  /\ p.rv = r
  /\ \/ p.uid = r
     \/ \E k \in KnownPods :
          k.uid # 0 /\ k.uid = p.uid /\ k.owner = p.owner /\ k.node = p.node

OneVersion ==
  \E r \in Revs : \E new :
    /\ FreshRev(r) /\ NewVersion(new, r)
    /\ \A p \in KnownPods' : p \in KnownPods \/ p = NoPod \/ p = new

(* Copies keep their identities.                                           *)
LEMMA CopiesIdentity == IdentityInv /\ CopiesOnly => IdentityInv'
<1> SUFFICES ASSUME IdentityInv, CopiesOnly PROVE IdentityInv'
  OBVIOUS
<1>1. NoPod.uid = 0 /\ NoPod.rv = 0
  BY DEF NoPod
<1>2. VersionedPods'
  BY <1>1 DEF IdentityInv, VersionedPods, CopiesOnly
<1>3. ASSUME NEW p \in KnownPods', NEW q \in KnownPods' PROVE SamePhantom(p, q)
  BY <1>1 DEF IdentityInv, IdentityFixesPod, CopiesOnly, SamePhantom
<1> QED BY <1>2, <1>3 DEF IdentityInv, IdentityFixesPod

(* A fresh version collides with no identity that is still known.          *)
LEMMA FreshIdentity == IdentityInv /\ OneVersion => IdentityInv'
<1> SUFFICES ASSUME IdentityInv, OneVersion PROVE IdentityInv'
  OBVIOUS
<1>1. PICK r \in Revs : \E new :
        /\ FreshRev(r) /\ NewVersion(new, r)
        /\ \A p \in KnownPods' : p \in KnownPods \/ p = NoPod \/ p = new
  BY DEF OneVersion
<1>2. PICK new : /\ NewVersion(new, r)
                 /\ \A p \in KnownPods' : p \in KnownPods \/ p = NoPod \/ p = new
  BY <1>1
<1>3. r # 0 /\ \A k \in KnownPods : k.uid # r /\ k.rv # r
  BY <1>1, RevsAssumption DEF FreshRev
<1>4. NoPod.uid = 0 /\ NoPod.rv = 0
  BY DEF NoPod
<1>5. VersionedPods'
  BY <1>2, <1>3, <1>4 DEF IdentityInv, VersionedPods, NewVersion
<1>6. ASSUME NEW p \in KnownPods PROVE SamePhantom(p, new) /\ SamePhantom(new, p)
  <2>1. p.rv # new.rv
    BY <1>2, <1>3 DEF NewVersion
  <2>2. p.uid # 0 /\ p.uid = new.uid => p.owner = new.owner /\ p.node = new.node
    BY <1>2, <1>3 DEF NewVersion, IdentityInv, IdentityFixesPod, SamePhantom
  <2> QED BY <2>1, <2>2 DEF SamePhantom
<1>7. ASSUME NEW p \in KnownPods', NEW q \in KnownPods' PROVE SamePhantom(p, q)
  <2>1. CASE p = NoPod \/ q = NoPod
    BY <1>4, <2>1 DEF SamePhantom
  <2>2. CASE p \in KnownPods /\ q \in KnownPods
    BY <2>2 DEF IdentityInv, IdentityFixesPod
  <2>3. CASE p = new /\ q = new
    BY <2>3 DEF SamePhantom
  <2> QED BY <1>2, <1>6, <2>1, <2>2, <2>3
<1> QED BY <1>5, <1>7 DEF IdentityInv, IdentityFixesPod

(***************************************************************************)
(* Where copies of pods are.                                               *)
(***************************************************************************)
(* A copy is live, cached, held by a writer or on its way to the cache.    *)
LEMMA KnownNext ==
  ASSUME NEW p \in KnownPods'
  PROVE  \/ p = pod' \/ p = podCache' \/ p = pass'.pod \/ p = late'.pass.pod
         \/ \E i \in DOMAIN podWatch' : p = podWatch'[i]
  BY DEF KnownPods

(* The late write keeps the copy it has, or takes that of the pass.        *)
LateKnown == late'.pass.pod \in KnownPods \cup {NoPod}

(* A pod in the stream is known.                                           *)
LEMMA KnownNow ==
  /\ pod \in KnownPods /\ podCache \in KnownPods /\ pass.pod \in KnownPods
  /\ late.pass.pod \in KnownPods
  /\ \A i \in DOMAIN podWatch : podWatch[i] \in KnownPods
  BY DEF KnownPods

(* Every step does that.                                                   *)
LEMMA LateIsKnown == [Next]_vars => LateKnown
<1> SUFFICES ASSUME [Next]_vars PROVE LateKnown
  OBVIOUS
<1>1. NoLate.pass.pod = NoPod /\ Self.pass.pod = pass.pod
  BY DEF NoLate, NoPass, Self
<1> QED BY <1>1, LateStep, KnownNow DEF LateKnown

(* After a write the only new pods are what is written and what is held.   *)
LEMMA WriteKnown ==
  ASSUME TypeOK, LateKnown, NEW w, WritePod(w), podCache' = podCache
  PROVE  \A p \in KnownPods' : p \in KnownPods \/ p = NoPod \/ p = w \/ p = pass'.pod
<1> SUFFICES ASSUME NEW p \in KnownPods'
             PROVE  p \in KnownPods \/ p = NoPod \/ p = w \/ p = pass'.pod
  OBVIOUS
<1>1. Visible(w) = w \/ Visible(w) = NoPod
  BY DEF Visible
<1>2. ASSUME NEW i \in DOMAIN podWatch' PROVE podWatch'[i] \in KnownPods \/ podWatch'[i] = Visible(w)
  <2>1. podWatch \in Seq(PodType)
    BY DEF TypeOK
  <2>2. CASE podWatch' = podWatch
    BY <1>2, <2>2, KnownNow
  <2>3. CASE podWatch' = Append(podWatch, Visible(w))
    <3> DEFINE v == Visible(w)
    <3>1. (i \in DOMAIN podWatch /\ podWatch'[i] = podWatch[i]) \/ podWatch'[i] = v
      <4> HIDE DEF v
      <4> QED BY <1>2, <2>1, <2>3 DEF v
    <3> QED BY <3>1, KnownNow
  <2> QED BY <2>2, <2>3 DEF WritePod
<1> QED BY <1>1, <1>2, Written, KnownNext, KnownNow DEF LateKnown

(* A deletion leaves copies only.                                          *)
LEMMA DeleteCopies ==
  ASSUME TypeOK, LateKnown, WritePod(NoPod), podCache' = podCache,
         pass'.pod = pass.pod \/ pass'.pod = NoPod
  PROVE  CopiesOnly
  BY WriteKnown, KnownNow DEF CopiesOnly

(* A step that writes no pod, and at most reads one, leaves copies only.   *)
LEMMA ReadCopies ==
  ASSUME LateKnown, UNCHANGED <<pod, podCache, podWatch>>,
         pass'.pod \in {pass.pod, NoPod, pod, podCache}
  PROVE  CopiesOnly
  BY KnownNow, KnownNext DEF CopiesOnly, LateKnown

(* A pod built or changed by a write is one new version.                   *)
LEMMA WriteVersion ==
  ASSUME TypeOK, LateKnown, NEW w, NEW r \in Revs, FreshRev(r), WritePod(w),
         podCache' = podCache, NewVersion(w, r),
         pass'.pod = pass.pod \/ pass'.pod = NoPod \/ pass'.pod = w
  PROVE  OneVersion
<1>1. \A p \in KnownPods' : p \in KnownPods \/ p = NoPod \/ p = w
  BY WriteKnown, KnownNow
<1> QED BY <1>1 DEF OneVersion

(***************************************************************************)
(* One lemma per group of actions.                                         *)
(***************************************************************************)
(* What a pass holds of a pod, after the small updates of a pass.          *)
LEMMA PassPod ==
  ASSUME NEW p \in PassType, NEW reason, NEW phantom, NEW r
  PROVE  /\ setDegraded(p, reason).pod = p.pod
         /\ setDegraded(p, reason).base = p.base
         /\ Observed(p, phantom).pod = phantom
         /\ Observed(p, phantom).base = p.base
         /\ Measured(p, r).pod = p.pod
         /\ Measured(p, r).base = p.base
         /\ NoPass.pod = NoPod
  BY DEF setDegraded, Observed, Measured, PassType, NoPass

(* The steps of a pass that write no pod.                                  *)
LEMMA PassReads ==
  TypeOK /\ LateKnown /\ (ForgetDeleted \/ StartPass \/ GetNode \/ GetPriorityClass \/ Measure \/ GetPod
             \/ Resolve \/ PatchStatus \/ APIError \/ RefuseResize) => CopiesOnly
<1> SUFFICES ASSUME TypeOK, LateKnown,
                    ForgetDeleted \/ StartPass \/ GetNode \/ GetPriorityClass \/ Measure
                      \/ GetPod \/ Resolve \/ PatchStatus \/ APIError \/ RefuseResize
             PROVE  CopiesOnly
  OBVIOUS
<1>1. UNCHANGED <<pod, podCache, podWatch>>
  BY DEF ForgetDeleted, StartPass, GetNode, GetPriorityClass, Measure, GetPod, Resolve,
         PatchStatus, APIError, RefuseResize, apiVars, podVars
<1>2. pass \in PassType
  BY DEF TypeOK
<1>3. CASE StartPass
  <2>1. pass'.pod = NoPod
    BY <1>3 DEF StartPass, NoPass
  <2> QED BY <1>1, <2>1, ReadCopies
<1>4. CASE Measure
  <2>1. pass'.pod = pass.pod
    BY <1>2, <1>4 DEF Measure, setDegraded, Measured, PassType
  <2> QED BY <1>1, <2>1, ReadCopies
<1>5. CASE GetPod
  <2>1. pass'.pod \in {pass.pod, podCache}
    <3>1. /\ PhantomConflict(pass).pod = pass.pod
          /\ [pass EXCEPT !.pod = podCache].pod = podCache
          /\ Observed(pass, podCache).pod = podCache
      BY <1>2, PassPod DEF PhantomConflict, PassType
    <3>2. \/ pass' = pass \/ pass' = PhantomConflict(pass)
          \/ pass' = [pass EXCEPT !.pod = podCache] \/ pass' = Observed(pass, podCache)
      BY <1>5 DEF GetPod
    <3> QED BY <3>1, <3>2
  <2> QED BY <1>1, <2>1, ReadCopies
<1>6. CASE Resolve
  <2>1. pass'.pod \in {pass.pod, pod, NoPod}
    BY <1>2, <1>6, PassPod DEF Resolve, PhantomConflict, Return, PassType
  <2> QED BY <1>1, <2>1, ReadCopies
<1>7. CASE ForgetDeleted \/ GetNode \/ GetPriorityClass \/ PatchStatus \/ APIError \/ RefuseResize
  <2>1. pass'.pod = pass.pod \/ pass'.pod = NoPod
    BY <1>2, <1>7, PassPod DEF ForgetDeleted, GetNode, GetPriorityClass, PatchStatus, APIError,
       RefuseResize, ResizeRejected, Return
  <2> QED BY <1>1, <2>1, ReadCopies
<1> QED BY <1>3, <1>4, <1>5, <1>6, <1>7

(* The deletions of a pass.                                                *)
LEMMA PassDeletes == TypeOK /\ LateKnown /\ (Recover \/ Repin) => CopiesOnly
<1> SUFFICES ASSUME TypeOK, LateKnown, Recover \/ Repin PROVE CopiesOnly
  OBVIOUS
<1>1. pass'.pod = pass.pod \/ pass'.pod = NoPod
  <2>1. setDegraded(pass, "PhantomRecreating") \in PassType
    BY SetDegradedType DEF TypeOK, Reasons
  <2>2. [setDegraded(pass, "PhantomRecreating") EXCEPT !.soon = TRUE].pod = pass.pod
    BY <2>1, PassPod DEF TypeOK, PassType
  <2> QED BY <2>2, PassPod DEF Recover, Repin, RecreateLater, Return, TypeOK
<1>2. podCache' = podCache /\ (WritePod(NoPod) \/ UNCHANGED <<pod, podWatch>>)
  BY DEF Recover, Repin, DeleteAccepted
<1> QED BY <1>1, <1>2, DeleteCopies, ReadCopies

(* An accepted Create is one new version.                                  *)
LEMMA CreatedVersion ==
  ASSUME TypeOK, LateKnown, NEW p, NEW r \in Revs, CreateAccepted(p, r), podCache' = podCache,
         pass'.pod \in {pass.pod, NoPod, pod'}
  PROVE  OneVersion
<1> DEFINE w == BuildPhantomPod(p.base, p.desired, r)
<1>1. NewVersion(w, r)
  BY DEF BuildPhantomPod, NewVersion
<1>2. FreshRev(r) /\ WritePod(w)
  BY DEF CreateAccepted
<1> HIDE DEF w
<1>3. pass'.pod = pass.pod \/ pass'.pod = NoPod \/ pass'.pod = w
  BY <1>2, Written
<1> QED BY <1>1, <1>2, <1>3, WriteVersion

(* The Create of a pass.                                                   *)
LEMMA CreateVersions == TypeOK /\ LateKnown /\ CreatePhantom => CopiesOnly \/ OneVersion
<1> SUFFICES ASSUME TypeOK, LateKnown, CreatePhantom PROVE CopiesOnly \/ OneVersion
  OBVIOUS
<1>1. CASE pod.uid # 0
  BY <1>1, ReadCopies DEF CreatePhantom
<1>2. CASE pod.uid = 0
  <2>1. PICK r \in Revs : CreateAccepted(pass, r)
    BY <1>2 DEF CreatePhantom
  <2>2. pass' = [Observed(pass, pod') EXCEPT !.readyReason = "PhantomCreated"]
    BY <1>2 DEF CreatePhantom
  <2>3. pod' \in PodType
    BY <2>1, CreateAcceptedType DEF TypeOK
  <2>4. pass'.pod = pod'
    BY <2>2, <2>3 DEF Observed, TypeOK, PassType
  <2> QED BY <2>1, <2>4, CreatedVersion DEF CreatePhantom
<1> QED BY <1>1, <1>2

(* A resized phantom is a new version of the pod its writer observed, and  *)
(* the copy that the writer may keep is the same.                          *)
LEMMA ResizedVersion ==
  ASSUME ForeignInv, LateKnown, NEW w, w.pass \in PassType, w.pass.pod \in KnownPods, Owns(w),
         w.call = "resize", NEW r \in Revs, ResizeAccepted(w.pass, r), podCache' = podCache,
         pass'.pod \in {pass.pod, [w.pass.pod EXCEPT !.req = w.pass.desired, !.rv = r]}
  PROVE  OneVersion
<1> DEFINE new == [pod EXCEPT !.req = w.pass.desired, !.rv = r]
<1>1. pod \in PodType /\ w.pass.pod = pod
  <2>1. pod.uid # 0 /\ pod.rv = w.pass.pod.rv
    BY DEF ResizeAccepted
  <2> QED BY <2>1, KnownNow
          DEF ForeignInv, TypeOK, IdentityInv, VersionedPods, IdentityFixesPod, SamePhantom
<1>2. new.uid = pod.uid /\ new.owner = pod.owner /\ new.node = pod.node /\ new.rv = r
  BY <1>1 DEF PodType
<1>3. pod.uid # 0 /\ WritePod(new) /\ FreshRev(r) /\ pass'.pod \in {pass.pod, new}
  BY <1>1 DEF ResizeAccepted
<1> HIDE DEF new
<1>4. NewVersion(new, r)
  BY <1>2, <1>3, KnownNow DEF NewVersion
<1> QED BY <1>3, <1>4, WriteVersion DEF ForeignInv

(* The running pass and the late write hold copies of known pods.          *)
LEMMA Holders ==
  ASSUME TypeOK
  PROVE  /\ Self.call = pc /\ Self.pass = pass /\ Self.pass \in PassType
         /\ Self.pass.pod \in KnownPods
         /\ late.pass \in PassType /\ late.pass.pod \in KnownPods
  BY KnownNow DEF TypeOK, LateType, Self

(* The resize patch of a pass, accepted or refused.                        *)
LEMMA ResizeVersions == ForeignInv /\ LateKnown /\ Resize => CopiesOnly \/ OneVersion
<1> SUFFICES ASSUME ForeignInv, LateKnown, Resize PROVE CopiesOnly \/ OneVersion
  OBVIOUS
<1>1. pass \in PassType /\ TypeOK
  BY DEF ForeignInv, TypeOK
<1>2. CASE UNCHANGED <<pod, podWatch>> /\ ResizeRejected
  BY <1>1, <1>2, PassPod, ReadCopies DEF Resize, ResizeRejected
<1>3. ASSUME NEW r \in Revs, ResizeAccepted(pass, r), pass' = ResizeSucceeds(pass, r)
      PROVE  OneVersion
  <2>1. pass'.pod = [pass.pod EXCEPT !.req = pass.desired, !.rv = r]
    BY <1>1, <1>3 DEF ResizeSucceeds, PassType
  <2>2. Self.call = "resize" /\ Owns(Self) /\ podCache' = podCache
    BY <1>1, Holders DEF Resize, ForeignInv
  <2>3. /\ Self.pass \in PassType /\ Self.pass.pod \in KnownPods /\ ResizeAccepted(Self.pass, r)
        /\ pass'.pod = [Self.pass.pod EXCEPT !.req = Self.pass.desired, !.rv = r]
    BY <1>1, <1>3, <2>1, Holders
  <2> QED BY <2>2, <2>3, ResizedVersion
<1> QED BY <1>2, <1>3 DEF Resize

(* Writes whose answer is lost.                                            *)
LEMMA LostVersions == ForeignInv /\ LateKnown /\ LostReply => CopiesOnly \/ OneVersion
<1> SUFFICES ASSUME ForeignInv, LateKnown, LostReply PROVE CopiesOnly \/ OneVersion
  OBVIOUS
<1>1. TypeOK /\ pass \in PassType /\ podCache' = podCache
  BY DEF ForeignInv, TypeOK, LostReply
<1>2. CASE LostCreate
  <2>1. pass'.pod = NoPod
    BY <1>2 DEF LostCreate, Return, NoPass
  <2> QED BY <1>1, <1>2, <2>1, CreatedVersion DEF LostCreate
<1>3. CASE LostDelete
  BY <1>1, <1>3, DeleteCopies DEF LostDelete, DeleteAccepted, Return, NoPass
<1>4. CASE LostResize
  <2>1. pass'.pod = pass.pod
    BY <1>1, <1>4, PassPod DEF LostResize, ResizeRejected
  <2>2. Self.call = "resize" /\ Owns(Self)
    BY <1>1, <1>4, Holders DEF LostResize, ForeignInv
  <2> QED BY <1>1, <1>4, <2>1, <2>2, Holders, ResizedVersion DEF LostResize
<1>5. CASE LostPatch
  BY <1>1, <1>5, ReadCopies DEF LostPatch, Return, NoPass
<1> QED BY <1>2, <1>3, <1>4, <1>5 DEF LostReply

(* The write that outlives its manager.                                    *)
LEMMA LateVersions == ForeignInv /\ LateKnown /\ LateWrite => CopiesOnly \/ OneVersion
<1> SUFFICES ASSUME ForeignInv, LateKnown, LateWrite PROVE CopiesOnly \/ OneVersion
  OBVIOUS
<1>1. TypeOK /\ podCache' = podCache /\ pass' = pass
  BY DEF ForeignInv, LateWrite
<1>2. CASE LateCreate
  BY <1>1, <1>2, CreatedVersion DEF LateCreate
<1>3. CASE LateDelete
  BY <1>1, <1>3, DeleteCopies DEF LateDelete, DeleteAccepted
<1>4. CASE LateResize
  BY <1>1, <1>4, Holders, ResizedVersion DEF LateResize, ForeignInv
<1>5. CASE UNCHANGED <<pod, podWatch>>
  BY <1>1, <1>5, ReadCopies
<1> QED BY <1>2, <1>3, <1>4, <1>5 DEF LateWrite

(* The informer moves copies, a crash drops them.                          *)
LEMMA InformerCopies ==
  TypeOK /\ LateKnown /\ (DeliverSW \/ DeliverPod \/ PollFires \/ Restart \/ Crash \/ OrphanWrite
                          \/ Relist) => CopiesOnly
<1> SUFFICES ASSUME TypeOK, LateKnown, DeliverSW \/ DeliverPod \/ PollFires \/ Restart \/ Crash
                      \/ OrphanWrite \/ Relist
             PROVE  CopiesOnly
  OBVIOUS
<1>1. Visible(pod) = pod \/ Visible(pod) = NoPod
  BY DEF Visible
<1>2. CASE DeliverSW \/ PollFires
  BY <1>2, ReadCopies DEF DeliverSW, PollFires, apiVars, podVars
<1>3. CASE DeliverPod
  <2>1. podWatch \in Seq(PodType) /\ podWatch # <<>>
    BY <1>3 DEF TypeOK, DeliverPod
  <2>2. podCache' = Head(podWatch) /\ podWatch' = Tail(podWatch) /\ pass' = pass /\ pod' = pod
    BY <1>3 DEF DeliverPod, UpdatePodCache, apiVars
  <2>3. Head(podWatch) \in KnownPods
    <3>1. Head(podWatch) = podWatch[1] /\ 1 \in DOMAIN podWatch
      BY <2>1
    <3> QED BY <3>1, KnownNow
  <2>4. ASSUME NEW i \in DOMAIN podWatch' PROVE podWatch'[i] \in KnownPods
    <3>1. podWatch'[i] = podWatch[i + 1] /\ i + 1 \in DOMAIN podWatch
      BY <2>1, <2>2
    <3> QED BY <3>1, KnownNow
  <2> QED BY <2>2, <2>3, <2>4, KnownNow, KnownNext DEF CopiesOnly, LateKnown
<1>4. CASE Restart
  BY <1>1, <1>4, KnownNow, KnownNext DEF Restart, CopiesOnly, LateKnown, apiVars
<1>5. CASE Crash \/ OrphanWrite
  <2>1. podWatch' = <<>> /\ podCache' = NoPod /\ pod' = pod /\ pass'.pod = NoPod
    <3>1. Exit
      BY <1>5 DEF Crash, OrphanWrite
    <3> QED BY <3>1 DEF Exit, NoPass
  <2>2. DOMAIN podWatch' = {}
    BY <2>1
  <2> QED BY <2>1, <2>2, KnownNow, KnownNext DEF CopiesOnly, LateKnown
<1>6. CASE Relist
  <2>1. pod' = pod /\ pass' = pass
    BY <1>6 DEF Relist, apiVars
  <2>2. CASE podCache' = Visible(pod) /\ podWatch' = <<>>
    <3>1. DOMAIN podWatch' = {}
      BY <2>2
    <3> QED BY <1>1, <2>1, <2>2, <3>1, KnownNow, KnownNext DEF CopiesOnly, LateKnown
  <2>3. CASE UNCHANGED podVars
    BY <2>1, <2>3, ReadCopies DEF podVars
  <2> QED BY <1>6, <2>2, <2>3 DEF Relist, UpdatePodCache
<1> QED BY <1>2, <1>3, <1>4, <1>5, <1>6

(* Users, the kubelet and the garbage collector.                           *)
LEMMA EnvironmentVersions ==
  TypeOK /\ LateKnown /\ (CollectGarbage \/ Environment) => CopiesOnly \/ OneVersion
<1> SUFFICES ASSUME TypeOK, LateKnown, CollectGarbage \/ Environment PROVE CopiesOnly \/ OneVersion
  OBVIOUS
<1>1. CASE CollectGarbage \/ DeletePod
  BY <1>1, DeleteCopies DEF CollectGarbage, DeletePod, ManagerVars
<1>2. CASE CreateForeign
  <2> DEFINE foreign(r, l) == [NoPod EXCEPT !.uid = r, !.rv = r, !.labelled = l]
  <2>1. PICK r \in Revs, l \in BOOLEAN : FreshRev(r) /\ WritePod(foreign(r, l))
    BY <1>2 DEF CreateForeign
  <2>2. NewVersion(foreign(r, l), r)
    BY DEF NewVersion, NoPod
  <2> HIDE DEF foreign
  <2> QED BY <1>2, <2>1, <2>2, WriteVersion DEF CreateForeign, ManagerVars
<1>3. CASE StripLabels \/ TouchPod \/ FailPod
  <2>1. PICK new \in {pod, [pod EXCEPT !.labelled = FALSE], [pod EXCEPT !.failed = TRUE]} :
          ModifyPod(new)
    BY <1>3 DEF StripLabels, TouchPod, FailPod
  <2>2. new \in PodType /\ new.uid = pod.uid /\ new.owner = pod.owner /\ new.node = pod.node
    BY DEF TypeOK, PodType
  <2>3. PICK r \in Revs : FreshRev(r) /\ WritePod([new EXCEPT !.rv = r])
    BY <2>1 DEF ModifyPod
  <2> DEFINE w == [new EXCEPT !.rv = r]
  <2>4. w.rv = r /\ w.uid = pod.uid /\ w.owner = pod.owner /\ w.node = pod.node
    BY <2>2 DEF PodType
  <2>5. pod.uid # 0 /\ podCache' = podCache /\ pass' = pass
    BY <2>1 DEF ModifyPod, ManagerVars
  <2> HIDE DEF w
  <2>6. NewVersion(w, r)
    BY <2>4, <2>5, KnownNow DEF NewVersion
  <2> QED BY <2>3, <2>5, <2>6, WriteVersion DEF w
<1>4. CASE UNCHANGED <<pod, podWatch, ManagerVars>>
  BY <1>4, ReadCopies DEF ManagerVars
<1> QED BY <1>1, <1>2, <1>3, <1>4
        DEF Environment, CreateSW, EditSpec, DeleteSW, NodeChanges, PriorityClassChanges,
            BackendChanges

(* Every step keeps the identities apart.                                  *)
LEMMA IdentityNext == ForeignInv /\ [Next]_vars => IdentityInv'
<1> SUFFICES ASSUME ForeignInv, [Next]_vars PROVE IdentityInv'
  OBVIOUS
<1>1. TypeOK /\ IdentityInv /\ LateKnown
  BY LateIsKnown DEF ForeignInv
<1>2. UNCHANGED vars => CopiesOnly
  BY <1>1, ReadCopies DEF vars
<1>3. Reconcile => CopiesOnly \/ OneVersion
  BY <1>1, PassReads, PassDeletes, CreateVersions, ResizeVersions DEF Reconcile
<1>4. Failure => CopiesOnly \/ OneVersion
  BY <1>1, PassReads, LostVersions, InformerCopies DEF Failure
<1>5. CopiesOnly \/ OneVersion
  BY <1>1, <1>2, <1>3, <1>4, InformerCopies, EnvironmentVersions, LateVersions DEF Next
<1> QED BY <1>1, <1>5, CopiesIdentity, FreshIdentity

(* A pass works for the ShadowWorkload it started from.                    *)
LEMMA BaseKept ==
  TypeOK /\ Reconcile => StartPass \/ pc' = "idle" \/ pass'.base = pass.base
<1> SUFFICES ASSUME TypeOK, Reconcile
             PROVE  StartPass \/ pc' = "idle" \/ pass'.base = pass.base
  OBVIOUS
<1>1. pass \in PassType
  BY DEF TypeOK
<1>2. \A reason : setDegraded(pass, reason).base = pass.base
  BY <1>1, PassPod
<1>3. CASE GetNode \/ GetPriorityClass
  BY <1>2, <1>3 DEF GetNode, GetPriorityClass
<1>4. CASE Measure
  BY <1>1, <1>4 DEF Measure, setDegraded, Measured, PassType
<1>5. CASE GetPod
  BY <1>1, <1>2, <1>5 DEF GetPod, PhantomConflict, Observed, PassType
<1>6. CASE CreatePhantom \/ Resolve
  BY <1>1, <1>2, <1>6 DEF CreatePhantom, Resolve, PhantomConflict, Observed, Return, PassType
<1>7. CASE Recover \/ Repin
  <2>1. [setDegraded(pass, "PhantomRecreating") EXCEPT !.soon = TRUE].base = pass.base
    BY <1>1 DEF setDegraded, PassType
  <2> QED BY <1>7, <2>1 DEF Recover, Repin, RecreateLater, Return
<1>8. CASE Resize
  BY <1>1, <1>2, <1>8 DEF Resize, ResizeSucceeds, ResizeRejected, PassType
<1>9. CASE ForgetDeleted \/ PatchStatus
  BY <1>9 DEF ForgetDeleted, PatchStatus, Return
<1> QED BY <1>3, <1>4, <1>5, <1>6, <1>7, <1>8, <1>9 DEF Reconcile

(* A pass proceeds to a write only after it found the pod to be owned, and *)
(* to a resize only if the pod is on the node of the spec.                 *)
LEMMA PassOwns == TypeOK /\ Owns(Self) /\ Reconcile => Owns(Self')
<1> SUFFICES ASSUME TypeOK, Owns(Self), Reconcile PROVE Owns(Self')
  OBVIOUS
<1>1. pass \in PassType /\ Self = [call |-> pc, pass |-> pass]
      /\ Self' = [call |-> pc', pass |-> pass']
  BY DEF TypeOK, Self
<1>2. pc' \notin {"none", "down", "idle"} => pass'.base.uid # 0
  <2>1. CASE StartPass
    BY <2>1 DEF StartPass, NoPass
  <2>2. CASE pc' = "idle"
    BY <2>2
  <2>3. CASE pass'.base = pass.base
    <3>1. pc \notin {"none", "down", "idle"} \/ ForgetDeleted \/ StartPass
      BY DEF Reconcile, GetNode, GetPriorityClass, Measure, GetPod, CreatePhantom, Resolve,
             Recover, Repin, Resize, PatchStatus
    <3>2. ForgetDeleted => pc' = "idle"
      BY DEF ForgetDeleted
    <3> QED BY <1>1, <2>1, <2>3, <3>1, <3>2 DEF Owns
  <2> QED BY <2>1, <2>2, <2>3, BaseKept
<1>3. CASE GetPod
  <2>1. CASE pc' = "repin" /\ pass' = [pass EXCEPT !.pod = podCache] /\ ownedBySw(podCache, pass.base)
    BY <1>1, <1>2, <2>1 DEF Owns, PassType, ownedBySw
  <2>2. CASE /\ pass' = Observed(pass, podCache) /\ ownedBySw(podCache, pass.base)
             /\ Pinned(podCache, pass.base)
    BY <1>1, <1>2, <2>2, PassPod DEF Owns, ownedBySw, Pinned
  <2>3. CASE pc' \in {"create", "status"}
    BY <1>1, <1>2, <2>3 DEF Owns
  <2> QED BY <1>3, <2>1, <2>2, <2>3 DEF GetPod
<1>4. CASE Resolve
  <2>1. CASE pc' = "recover" /\ pass' = [pass EXCEPT !.pod = pod] /\ ownedBySw(pod, pass.base)
    BY <1>1, <1>2, <2>1 DEF Owns, PassType, ownedBySw
  <2>2. CASE pc' \in {"idle", "status"}
    BY <1>1, <1>2, <2>2 DEF Owns
  <2> QED BY <1>4, <2>1, <2>2 DEF Resolve, Return
<1>5. CASE pc' \notin {"recover", "repin", "resize"}
  BY <1>1, <1>2, <1>5 DEF Owns
<1>6. GetPod \/ Resolve \/ pc' \notin {"recover", "repin", "resize"}
  BY DEF Reconcile, Return, RecreateLater, ForgetDeleted, StartPass, GetNode, GetPriorityClass,
         Measure, CreatePhantom, Recover, Repin, Resize, PatchStatus
<1> QED BY <1>3, <1>4, <1>5, <1>6

(* No step that is not the pass's makes it a writer of something else.     *)
LEMMA WriterNext == TypeOK /\ Owns(Self) /\ [Next]_vars => Owns(Self')
<1> SUFFICES ASSUME TypeOK, Owns(Self), [Next]_vars PROVE Owns(Self')
  OBVIOUS
<1>1. Self = [call |-> pc, pass |-> pass] /\ Self' = [call |-> pc', pass |-> pass']
  BY DEF Self
<1>2. CASE pc' \in {"none", "down", "idle"} \/ UNCHANGED <<pc, pass>>
  BY <1>1, <1>2 DEF Owns
<1>3. CASE pc = "resize" /\ pc' = "status" /\ ResizeRejected
  <2>1. pass'.base = pass.base
    BY <1>3, PassPod DEF ResizeRejected, TypeOK
  <2> QED BY <1>1, <1>3, <2>1 DEF Owns
<1>4. Failure => \/ pc' \in {"none", "down", "idle"} \/ UNCHANGED <<pc, pass>>
                 \/ pc = "resize" /\ pc' = "status" /\ ResizeRejected
  BY DEF Failure, APIError, LostReply, LostCreate, LostDelete, LostResize, LostPatch,
         RefuseResize, Crash, OrphanWrite, Exit, Relist, Return
<1>5. Environment => UNCHANGED <<pc, pass>>
  BY DEF Environment, CreateSW, EditSpec, DeleteSW, NodeChanges, PriorityClassChanges,
         BackendChanges, CreateForeign, DeletePod, StripLabels, TouchPod, FailPod, ModifyPod,
         ManagerVars
<1> QED BY <1>2, <1>3, <1>4, <1>5, PassOwns
        DEF Next, vars, DeliverSW, DeliverPod, PollFires, CollectGarbage, Restart, LateWrite

(* Every step keeps the invariant.                                         *)
LEMMA ForeignInvNext == ForeignInv /\ [Next]_vars => ForeignInv'
<1> SUFFICES ASSUME ForeignInv, [Next]_vars PROVE ForeignInv'
  OBVIOUS
<1>1. TypeOK' /\ Owns(Self') /\ IdentityInv'
  BY NextType, WriterNext, IdentityNext DEF ForeignInv
<1>2. Owns(NoLate)
  BY DEF Owns, NoLate
<1>3. Owns(late')
  BY <1>2, LateStep DEF ForeignInv
<1> QED BY <1>1, <1>3 DEF ForeignInv

(***************************************************************************)
(* The theorem.                                                            *)
(***************************************************************************)
(* The API server accepts a write only on a pod of the writer's owner and, *)
(* if it is a resize, only on the node of the writer's spec.               *)
LEMMA AcceptedIsOwned ==
  ASSUME ForeignInv, NEW w, w.pass.pod \in KnownPods, Owns(w), pod.uid # 0,
         w.call \in {"recover", "repin", "resize"},
         pod.uid = w.pass.pod.uid \/ pod.rv = w.pass.pod.rv
  PROVE  /\ pod.owner = w.pass.base.uid /\ pod.owner # 0
         /\ w.call = "resize" => pod.node = w.pass.base.spec.node
<1>1. pod.rv # 0
  BY KnownNow DEF ForeignInv, IdentityInv, VersionedPods
<1>2. pod.owner = w.pass.pod.owner /\ pod.node = w.pass.pod.node
  BY <1>1, KnownNow DEF ForeignInv, IdentityInv, IdentityFixesPod, SamePhantom
<1> QED BY <1>2 DEF Owns, ownedBySw, Pinned

(* A pass never changes or deletes a pod that the ShadowWorkload it read   *)
(* does not own: deletePhantom and resizePhantom carry the UID or the      *)
(* version of a pod whose owner Reconcile or resolveCreateConflict had     *)
(* checked, and no later pod of that name satisfies that precondition.     *)
THEOREM ForeignUntouchedAlways == Spec => ForeignUntouched
<1> DEFINE Untouched ==
      /\ pc' # pc /\ pod.uid # 0 /\ pod.owner # pass.base.uid => pod' = pod
      /\ LateArrives /\ pod.uid # 0 /\ pod.owner # late.pass.base.uid => pod' = pod
<1>1. ASSUME ForeignInv, [Next]_vars, pc' # pc, pod.uid # 0, pod.owner # pass.base.uid
      PROVE  pod' = pod
  <2>1. ~(pc \in {"recover", "repin", "resize"}
            /\ (pod.uid = pass.pod.uid \/ pod.rv = pass.pod.rv))
    BY <1>1, Holders, AcceptedIsOwned DEF ForeignInv
  <2>2. CASE Reconcile
    BY <1>1, <2>1, <2>2
       DEF Reconcile, ForgetDeleted, StartPass, GetNode, GetPriorityClass, Measure, GetPod,
           CreatePhantom, Resolve, Recover, Repin, DeleteAccepted, Resize, ResizeAccepted,
           PatchStatus, apiVars
  <2>3. CASE Failure
    BY <1>1, <2>1, <2>3
       DEF Failure, APIError, LostReply, LostCreate, CreateAccepted, LostDelete, DeleteAccepted,
           LostResize, ResizeAccepted, LostPatch, RefuseResize, Crash, OrphanWrite, Exit, Relist,
           apiVars
  <2>4. CASE Restart
    BY <2>4 DEF Restart, apiVars
  <2>5. ~(UNCHANGED vars) /\ ~Environment
    BY <1>1 DEF vars, Environment, CreateSW, EditSpec, DeleteSW, NodeChanges,
           PriorityClassChanges, BackendChanges, CreateForeign, DeletePod, StripLabels, TouchPod,
           FailPod, ModifyPod, ManagerVars
  <2> QED BY <1>1, <2>2, <2>3, <2>4, <2>5
          DEF Next, DeliverSW, DeliverPod, PollFires, CollectGarbage, LateWrite
<1>2. ASSUME ForeignInv, [Next]_vars, LateArrives, pod.uid # 0, pod.owner # late.pass.base.uid
      PROVE  pod' = pod
  <2>1. ~(late.call \in {"recover", "repin", "resize"}
            /\ (pod.uid = late.pass.pod.uid \/ pod.rv = late.pass.pod.rv))
    BY <1>2, Holders, AcceptedIsOwned DEF ForeignInv
  <2>2. CASE LateWrite
    BY <1>2, <2>1, <2>2 DEF LateWrite, LateCreate, CreateAccepted, LateDelete, DeleteAccepted,
           LateResize, ResizeAccepted
  <2>3. ~LateWrite => late' = late \/ OrphanWrite
    BY <1>2, LateOnly
  <2> QED BY <1>2, <2>2, <2>3 DEF LateArrives, OrphanWrite
<1>3. ForeignInv /\ [Next]_vars => Untouched
  BY <1>1, <1>2
<1> QED BY <1>3, ForeignInvInit, ForeignInvNext, PTL DEF Spec, ForeignUntouched

(***************************************************************************)
(* A resize answers a drift of the phantom it is applied to.               *)
(***************************************************************************)
(* drift answers TRUE only for a change by the threshold or more, also     *)
(* where the current request is zero.                                      *)
LEMMA DriftMeans ==
  ASSUME NEW cur \in Nat, NEW want \in Nat, NEW t \in Nat, TRUE \in drift(cur, want, t)
  PROVE  Drifted(cur, want, t)
<1> DEFINE change == Abs(want - cur) * 100
           bound == t * cur
<1>1. change \in Nat /\ bound \in Nat
  BY DEF Abs
<1>2. CASE cur = 0
  <2>1. cur <= 0
    BY <1>2
  <2>2. want > 0
    BY <2>1, Zenon DEF drift
  <2>3. bound = 0 /\ want # cur
    BY <1>2, <2>2
  <2> QED BY <1>1, <2>3 DEF Drifted
<1>3. CASE cur # 0
  <2>1. ~(cur <= 0)
    BY <1>3
  <2>2. (change = bound /\ change # 0) \/ change > bound
    BY <2>1, Zenon DEF drift
  <2>3. change # 0 => want # cur
    BY DEF Abs
  <2> HIDE DEF change, bound
  <2>4. change # 0 /\ change >= bound
    BY <1>1, <2>2
  <2> QED BY <2>3, <2>4 DEF Drifted, change, bound
<1> QED BY <1>2, <1>3

(* What a writer is about to resize drifts, in the copy it has observed.   *)
Drifts(w) ==
  w.call = "resize" => TRUE \in DriftExceeds(CurrentPairOf(w.pass.pod), w.pass.desired,
                                             w.pass.base.spec.update.threshold)

DriftInv == BoundsInv /\ ForeignInv /\ Drifts(Self) /\ Drifts(late)

(* A pass turns to a resize only when the phantom it reads drifts.         *)
LEMMA DriftsNext == DriftInv /\ [Next]_vars => Drifts(Self') /\ Drifts(late')
<1> SUFFICES ASSUME DriftInv, [Next]_vars PROVE Drifts(Self') /\ Drifts(late')
  OBVIOUS
<1>1. /\ pass \in PassType /\ Self = [call |-> pc, pass |-> pass]
      /\ Self' = [call |-> pc', pass |-> pass']
  BY DEF DriftInv, BoundsInv, TypeOK, Self
<1>2. UNCHANGED <<pc, pass>> \/ pc' # "resize" => Drifts(Self')
  BY <1>1 DEF DriftInv, Drifts
<1>3. ASSUME GetPod PROVE Drifts(Self')
  <2>1. CASE pc' = "resize"
    <3>1. /\ pass' = Observed(pass, podCache)
          /\ TRUE \in DriftExceeds(CurrentPairOf(podCache), pass.desired,
                                   pass.base.spec.update.threshold)
      BY <1>3, <2>1 DEF GetPod, ResizeDue
    <3>2. pass'.pod = podCache /\ pass'.desired = pass.desired /\ pass'.base = pass.base
      BY <1>1, <3>1 DEF Observed, PassType
    <3> QED BY <1>1, <3>1, <3>2 DEF Drifts
  <2> QED BY <1>2, <2>1
<1>4. Reconcile => GetPod \/ pc' # "resize"
  BY DEF Reconcile, ForgetDeleted, StartPass, GetNode, GetPriorityClass, Measure, CreatePhantom,
         Resolve, Recover, Repin, Resize, PatchStatus, Return, RecreateLater
<1>5. Drifts(Self')
  BY <1>2, <1>3, <1>4, OthersElsewhere DEF Next, vars, PassElsewhere
<1>6. Drifts(NoLate)
  BY DEF Drifts, NoLate
<1> QED BY <1>5, <1>6, LateStep DEF DriftInv

(* The step changes the size of the phantom by the threshold or more.      *)
OffBy(t) == Drifted(pod.req.cpu, pod'.req.cpu, t) \/ Drifted(pod.req.mem, pod'.req.mem, t)

(* The size that a resize replaces is the one its writer has observed.     *)
LEMMA ResizedDrifts ==
  ASSUME TypeOK, TypeOK', ForeignInv,
         NEW w, w.pass \in PassType, w.pass.pod \in KnownPods, Drifts(w), PodResized(w)
  PROVE  OffBy(w.pass.base.spec.update.threshold)
<1>1. pod = w.pass.pod
  BY KnownNow
     DEF PodResized, ForeignInv, IdentityInv, VersionedPods, IdentityFixesPod, SamePhantom
<1>2. LET t == w.pass.base.spec.update.threshold
      IN  TRUE \in drift(pod.req.cpu, pod'.req.cpu, t) \/ TRUE \in drift(pod.req.mem, pod'.req.mem, t)
  <2>1. ASSUME NEW c, NEW d, NEW t, TRUE \in DriftExceeds(c, d, t)
        PROVE  TRUE \in drift(c.cpu, d.cpu, t) \/ TRUE \in drift(c.mem, d.mem, t)
    <3>1. PICK p \in drift(c.cpu, d.cpu, t), q \in drift(c.mem, d.mem, t) : p \/ q
      BY <2>1, Zenon DEF DriftExceeds
    <3>2. p \in BOOLEAN /\ q \in BOOLEAN
      BY Zenon DEF drift
    <3> QED BY <3>1, <3>2, Zenon
  <2>2. /\ w.call = "resize" /\ pod'.req = w.pass.desired
        /\ TRUE \in DriftExceeds(pod.req, pod'.req, w.pass.base.spec.update.threshold)
    BY <1>1 DEF PodResized, Drifts, CurrentPairOf
  <2> QED BY <2>1, <2>2
<1>3. /\ pod.req.cpu \in Nat /\ pod.req.mem \in Nat
      /\ pod'.req.cpu \in Nat /\ pod'.req.mem \in Nat
  BY DEF TypeOK, PodType, Pair
<1>4. w.pass.base.spec.update.threshold \in Nat
  BY SpecsAssumption DEF PassType, SWType, ShadowWorkloadSpec, UpdatePolicy
<1> QED BY <1>2, <1>3, <1>4, DriftMeans DEF OffBy

(* A phantom is resized only when its present size is off the new one by   *)
(* deltaThresholdPercent or more.  resizeIfDrifting compares a cached      *)
(* copy, and the resource version in the patch of resizePhantom makes the  *)
(* API server refuse the write when that copy is old.                      *)
THEOREM ResizedOnDriftAlways == Spec => ResizedOnDrift
<1> DEFINE writer == IF pc' # pc THEN pass ELSE late.pass
           OnDrift ==
             pod.uid # 0 /\ pod'.uid = pod.uid /\ pod'.req # pod.req
               => OffBy(writer.base.spec.update.threshold)
<1>1. DriftInv /\ [Next]_vars => OnDrift
  <2> SUFFICES ASSUME DriftInv, [Next]_vars, pod.uid # 0, pod'.uid = pod.uid,
                      pod'.req # pod.req
               PROVE  OffBy(writer.base.spec.update.threshold)
    OBVIOUS
  <2>1. PassWrote \/ LateWrote
    BY PodStep DEF DriftInv, BoundsInv, PodKept, ForeignCreated, NoPod
  <2>2. /\ Self.pass.pod \in KnownPods /\ late.pass.pod \in KnownPods /\ ForeignInv
        /\ Drifts(Self) /\ Drifts(late) /\ TypeOK /\ TypeOK'
        /\ Self.pass \in PassType /\ late.pass \in PassType
    BY Holders, NextType DEF DriftInv, ForeignInv, BoundsInv, TypeOK, LateType, Self
  <2>3. CASE PassWrote
    <3>1. PodResized(Self) /\ writer = pass /\ Self.pass = pass
      BY <2>3 DEF PassWrote, Wrote, PodCreated, Self
    <3> QED BY <2>2, <3>1, ResizedDrifts
  <2>4. CASE LateWrote
    <3>1. PodResized(late) /\ writer = late.pass
      BY <2>4 DEF LateWrote, Wrote, PodCreated
    <3> QED BY <2>2, <3>1, ResizedDrifts
  <2> QED BY <2>1, <2>3, <2>4
<1>2. Init => DriftInv
  BY BoundsInvInit, ForeignInvInit DEF Init, DriftInv, Drifts, Self, NoLate
<1>3. DriftInv /\ [Next]_vars => DriftInv'
  BY BoundsInvNext, ForeignInvNext, DriftsNext DEF DriftInv
<1> QED BY <1>1, <1>2, <1>3, PTL DEF Spec, ResizedOnDrift, OffBy

(***************************************************************************)
(* The Pod informer follows the API server, event by event.                *)
(***************************************************************************)
(* The last event is what the informer is to show of the live pod, and no  *)
(* event repeats the one before it.                                        *)
PodFollows ==
  /\ pc = "down" => podWatch = <<>>
  /\ pc # "down" /\ podWatch = <<>> => podCache = Visible(pod)
  /\ podWatch # <<>> => podWatch[Len(podWatch)] = Visible(pod)

EventsDiffer ==
  /\ podWatch # <<>> => podWatch[1] # podCache
  /\ \A i \in 1 .. Len(podWatch) - 1 : podWatch[i] # podWatch[i + 1]

StreamInv == TypeOK /\ PodFollows /\ EventsDiffer

(* The ways in which a step moves the pod and its copies.                  *)
SamePods == UNCHANGED <<pod, podCache, podWatch>> /\ (pc = "down" <=> pc' = "down")

WritesPod == /\ \E p \in PodType : WritePod(p)
             /\ podCache' = podCache /\ (pc = "down" <=> pc' = "down")

ListsPod ==
  /\ pc' # "down" /\ podCache' = Visible(pod) /\ podWatch' = <<>> /\ UNCHANGED pod

DropsPods == pc' = "down" /\ podCache' = NoPod /\ podWatch' = <<>> /\ UNCHANGED pod

(* A Delete writes no pod, an accepted Create or resize writes one.        *)
LEMMA AcceptedWrites ==
  ASSUME TypeOK, NEW p \in PassType, podCache' = podCache, pc = "down" <=> pc' = "down",
         \/ DeleteAccepted(p)
         \/ \E r \in Revs : CreateAccepted(p, r) \/ ResizeAccepted(p, r)
  PROVE  WritesPod
<1>1. CASE DeleteAccepted(p)
  BY <1>1, NoObjectsType DEF DeleteAccepted, WritesPod
<1>2. ASSUME NEW r \in Revs, CreateAccepted(p, r) PROVE WritesPod
  BY <1>2, BuildPhantomPodType DEF CreateAccepted, WritesPod
<1>3. ASSUME NEW r \in Revs, ResizeAccepted(p, r) PROVE WritesPod
  <2>1. [pod EXCEPT !.req = p.desired, !.rv = r] \in PodType
    BY DEF TypeOK, PodType, PassType
  <2> QED BY <1>3, <2>1 DEF ResizeAccepted, WritesPod
<1> QED BY <1>1, <1>2, <1>3

(* The steps of a pass.                                                    *)
LEMMA ReconcileMoves == TypeOK /\ Reconcile => SamePods \/ WritesPod
<1> SUFFICES ASSUME TypeOK, Reconcile PROVE SamePods \/ WritesPod
  OBVIOUS
<1>1. pass \in PassType
  BY DEF TypeOK
<1>2. pc # "down" /\ pc' # "down"
  BY DEF Reconcile, ForgetDeleted, StartPass, GetNode, GetPriorityClass, Measure, GetPod,
         CreatePhantom, Resolve, Recover, Repin, Resize, PatchStatus, Return, RecreateLater
<1>3. CASE CreatePhantom \/ Resize \/ Recover \/ Repin
  BY <1>1, <1>2, <1>3, AcceptedWrites
     DEF CreatePhantom, Resize, Recover, Repin, SamePods
<1>4. CASE UNCHANGED <<pod, podCache, podWatch>>
  BY <1>2, <1>4 DEF SamePods
<1> QED BY <1>3, <1>4
        DEF Reconcile, ForgetDeleted, StartPass, GetNode, GetPriorityClass, Measure, GetPod,
            Resolve, PatchStatus, apiVars, podVars

(* The failures.                                                           *)
LEMMA FailureMoves == TypeOK /\ Failure => SamePods \/ WritesPod \/ ListsPod \/ DropsPods
<1> SUFFICES ASSUME TypeOK, Failure PROVE SamePods \/ WritesPod \/ ListsPod \/ DropsPods
  OBVIOUS
<1>1. pass \in PassType
  BY DEF TypeOK
<1>2. CASE LostReply
  <2>1. pc # "down" /\ pc' # "down" /\ podCache' = podCache
    BY <1>2 DEF LostReply, LostCreate, LostDelete, LostResize, LostPatch, Return
  <2>2. \/ DeleteAccepted(pass) \/ UNCHANGED <<pod, podWatch>>
        \/ \E r \in Revs : CreateAccepted(pass, r) \/ ResizeAccepted(pass, r)
    BY <1>2 DEF LostReply, LostCreate, LostDelete, LostResize, LostPatch
  <2> QED BY <1>1, <2>1, <2>2, AcceptedWrites DEF SamePods
<1>3. CASE APIError \/ RefuseResize
  BY <1>3 DEF APIError, RefuseResize, Return, SamePods, apiVars, podVars
<1>4. CASE Crash \/ OrphanWrite
  BY <1>4 DEF Crash, OrphanWrite, Exit, DropsPods
<1>5. CASE Relist
  BY <1>5 DEF Relist, UpdatePodCache, ListsPod, SamePods, apiVars, podVars
<1> QED BY <1>2, <1>3, <1>4, <1>5 DEF Failure

(* Everybody else.                                                         *)
LEMMA OthersMove ==
  TypeOK /\ PodFollows /\ (Environment \/ CollectGarbage \/ LateWrite \/ Restart)
    => SamePods \/ WritesPod \/ ListsPod
<1> SUFFICES ASSUME TypeOK, PodFollows,
                    Environment \/ CollectGarbage \/ LateWrite \/ Restart
             PROVE  SamePods \/ WritesPod \/ ListsPod
  OBVIOUS
<1>1. CASE LateWrite
  <2>1. late.pass \in PassType /\ podCache' = podCache /\ pc' = pc
    BY <1>1 DEF TypeOK, LateType, LateWrite
  <2>2. \/ DeleteAccepted(late.pass) \/ UNCHANGED <<pod, podWatch>>
        \/ \E r \in Revs : CreateAccepted(late.pass, r) \/ ResizeAccepted(late.pass, r)
    BY <1>1 DEF LateWrite, LateCreate, LateDelete, LateResize
  <2> QED BY <2>1, <2>2, AcceptedWrites DEF SamePods
<1>2. CASE CollectGarbage \/ DeletePod
  BY <1>2, NoObjectsType DEF CollectGarbage, DeletePod, ManagerVars, WritesPod
<1>3. CASE CreateForeign
  <2>1. \A r \in Revs, l \in BOOLEAN :
          [NoPod EXCEPT !.uid = r, !.rv = r, !.labelled = l] \in PodType
    BY NoObjectsType DEF PodType
  <2> QED BY <1>3, <2>1 DEF CreateForeign, ManagerVars, WritesPod
<1>4. CASE StripLabels \/ TouchPod \/ FailPod
  <2>1. PICK new \in {pod, [pod EXCEPT !.labelled = FALSE], [pod EXCEPT !.failed = TRUE]} :
          ModifyPod(new)
    BY <1>4 DEF StripLabels, TouchPod, FailPod
  <2>2. new \in PodType
    BY DEF TypeOK, PodType
  <2>3. \A r \in Revs : [new EXCEPT !.rv = r] \in PodType
    BY <2>2 DEF PodType
  <2> QED BY <2>1, <2>3 DEF ModifyPod, ManagerVars, WritesPod
<1>5. CASE Restart
  BY <1>5 DEF Restart, PodFollows, ListsPod, apiVars
<1>6. CASE UNCHANGED <<pod, podWatch, ManagerVars>>
  BY <1>6 DEF SamePods, ManagerVars
<1> QED BY <1>1, <1>2, <1>3, <1>4, <1>5, <1>6
        DEF Environment, CreateSW, EditSpec, DeleteSW, NodeChanges, PriorityClassChanges,
            BackendChanges

(* A written pod is the last event, and not the one before it.             *)
LEMMA WritesFollow == StreamInv /\ WritesPod => PodFollows' /\ EventsDiffer'
<1> SUFFICES ASSUME StreamInv, NEW p \in PodType, WritePod(p), podCache' = podCache,
                    pc = "down" <=> pc' = "down"
             PROVE  PodFollows' /\ EventsDiffer'
  BY DEF WritesPod
<1>1. pod' = p /\ podWatch \in Seq(PodType) /\ PodFollows /\ EventsDiffer
  BY DEF WritePod, StreamInv, TypeOK
<1>2. CASE pc = "down" \/ Visible(p) = Visible(pod)
  <2>1. podWatch' = podWatch
    BY <1>2 DEF WritePod
  <2>2. pc # "down" => Visible(pod') = Visible(pod)
    BY <1>1, <1>2
  <2> QED BY <1>1, <2>1, <2>2 DEF PodFollows, EventsDiffer
<1>3. CASE pc # "down" /\ Visible(p) # Visible(pod)
  <2> DEFINE v == Visible(p)
             n == Len(podWatch)
  <2>1. podWatch' = Append(podWatch, v) /\ v \in PodType
    BY <1>3, VisibleType DEF WritePod
  <2>2. n \in Nat /\ (podWatch = <<>> <=> n = 0)
    BY <1>1, EmptySeq
  <2>3. /\ Len(podWatch') = n + 1 /\ podWatch'[n + 1] = v
        /\ \A i \in 1 .. n : podWatch'[i] = podWatch[i]
    BY <1>1, <2>1
  <2>4. podWatch' # <<>>
    BY <2>1, <1>1
  <2>5. PodFollows'
    BY <1>1, <1>3, <2>3, <2>4 DEF PodFollows
  <2>6. podWatch'[1] # podCache
    <3>1. CASE podWatch = <<>>
      BY <1>1, <1>3, <2>2, <2>3, <3>1 DEF PodFollows
    <3>2. CASE podWatch # <<>>
      <4>1. 1 \in 1 .. n
        BY <2>2, <3>2
      <4> QED BY <1>1, <2>3, <3>2, <4>1 DEF EventsDiffer
    <3> QED BY <3>1, <3>2
  <2>7. ASSUME NEW i \in 1 .. n PROVE podWatch'[i] # podWatch'[i + 1]
    <3>1. CASE i = n
      <4>1. podWatch[n] = Visible(pod)
        BY <1>1, <2>2 DEF PodFollows
      <4> HIDE DEF n, v
      <4> QED BY <1>1, <1>3, <2>2, <2>3, <3>1, <4>1 DEF v
    <3>2. CASE i # n
      <4>1. i \in 1 .. n - 1 /\ i + 1 \in 1 .. n
        BY <2>2, <3>2
      <4> QED BY <1>1, <2>3, <4>1 DEF EventsDiffer
    <3> QED BY <3>1, <3>2
  <2>8. Len(podWatch') - 1 = n
    BY <2>2, <2>3
  <2> QED BY <2>5, <2>6, <2>7, <2>8 DEF EventsDiffer
<1> QED BY <1>2, <1>3

(* A delivered event leaves the rest of them.                              *)
LEMMA DeliverPodFollows == StreamInv /\ DeliverPod => PodFollows' /\ EventsDiffer'
<1> SUFFICES ASSUME StreamInv, DeliverPod PROVE PodFollows' /\ EventsDiffer'
  OBVIOUS
<1> DEFINE rest == Tail(podWatch)
           n == Len(podWatch)
           m == Len(rest)
<1>1. podWatch \in Seq(PodType) /\ podWatch # <<>> /\ PodFollows /\ EventsDiffer
  BY DEF StreamInv, TypeOK, DeliverPod
<1>2. podCache' = Head(podWatch) /\ podWatch' = rest /\ UNCHANGED <<pod, pc>> /\ pc # "down"
  BY DEF DeliverPod, UpdatePodCache, apiVars
<1>3. rest \in Seq(PodType) /\ m = n - 1 /\ \A i \in 1 .. m : rest[i] = podWatch[i + 1]
  BY <1>1, HeadTailProperties
<1>4. n \in Nat \ {0} /\ m \in Nat /\ (rest = <<>> <=> m = 0)
  BY <1>1, <1>3, EmptySeq
<1>5. Head(podWatch) = podWatch[1] /\ podWatch[n] = Visible(pod)
  BY <1>1 DEF PodFollows
<1>6. \A i \in 1 .. n - 1 : podWatch[i] # podWatch[i + 1]
  BY <1>1 DEF EventsDiffer
<1>7. podWatch' # <<>> => podWatch'[Len(podWatch')] = Visible(pod)
  <2> HIDE DEF n, m, rest
  <2>1. rest # <<>> => m \in 1 .. m /\ m + 1 = n
    BY <1>3, <1>4
  <2> QED BY <1>2, <1>3, <1>5, <2>1 DEF m
<1>8. podWatch' = <<>> => podCache' = Visible(pod)
  <2> HIDE DEF n, m, rest
  <2> QED BY <1>2, <1>3, <1>4, <1>5
<1>9. PodFollows'
  BY <1>2, <1>7, <1>8 DEF PodFollows
<1>10. podWatch' # <<>> => podWatch'[1] # podCache'
  <2> HIDE DEF n, m, rest
  <2>1. rest # <<>> => 1 \in 1 .. m /\ 1 \in 1 .. n - 1
    BY <1>3, <1>4
  <2> QED BY <1>2, <1>3, <1>5, <1>6, <2>1
<1>11. ASSUME NEW i \in 1 .. m - 1 PROVE rest[i] # rest[i + 1]
  <2> HIDE DEF n, m, rest
  <2>1. i \in 1 .. m /\ i + 1 \in 1 .. m /\ i + 1 \in 1 .. n - 1
    BY <1>3, <1>4
  <2> QED BY <1>3, <1>6, <2>1
<1> QED BY <1>2, <1>9, <1>10, <1>11 DEF EventsDiffer

(* The invariant of the stream holds before the manager starts.            *)
LEMMA StreamInit == Init => StreamInv
<1> SUFFICES ASSUME Init PROVE StreamInv
  OBVIOUS
<1>1. podWatch = <<>> /\ pc = "down"
  BY DEF Init
<1> QED BY <1>1, InitType, EmptySeq DEF StreamInv, PodFollows, EventsDiffer

(* Every step moves the pod and its copies in one of these ways.           *)
LEMMA PodMoves ==
  TypeOK /\ PodFollows /\ [Next]_vars => SamePods \/ WritesPod \/ ListsPod \/ DropsPods \/ DeliverPod
<1>1. DeliverSW \/ PollFires \/ UNCHANGED vars => SamePods
  BY DEF DeliverSW, PollFires, vars, apiVars, podVars, SamePods
<1> QED BY <1>1, ReconcileMoves, FailureMoves, OthersMove DEF Next

(* Every step keeps the invariant of the stream.                           *)
LEMMA StreamNext == StreamInv /\ [Next]_vars => StreamInv'
<1> SUFFICES ASSUME StreamInv, [Next]_vars PROVE StreamInv'
  OBVIOUS
<1>1. TypeOK' /\ PodFollows /\ EventsDiffer
  BY NextType DEF StreamInv
<1>2. CASE SamePods
  BY <1>1, <1>2 DEF SamePods, StreamInv, PodFollows, EventsDiffer
<1>3. CASE ListsPod \/ DropsPods
  <2>1. podWatch' = <<>> /\ Len(podWatch') - 1 < 1
    BY <1>3 DEF ListsPod, DropsPods
  <2> QED BY <1>1, <1>3, <2>1 DEF ListsPod, DropsPods, StreamInv, PodFollows, EventsDiffer
<1>4. CASE WritesPod \/ DeliverPod
  BY <1>1, <1>4, WritesFollow, DeliverPodFollows DEF StreamInv
<1> QED BY <1>2, <1>3, <1>4, PodMoves DEF StreamInv

(***************************************************************************)
(* A running pass.                                                         *)
(***************************************************************************)
Working == pc \notin {"down", "idle"}

(* A running pass keeps the ShadowWorkload it started from.                *)
LEMMA BaseStays ==
  ASSUME TypeOK, [Next]_vars, Working, Working'
  PROVE  pass'.base = pass.base
<1>1. pass \in PassType
  BY DEF TypeOK
<1>2. CASE Reconcile
  BY <1>2, BaseKept DEF StartPass, Working
<1>3. CASE Failure
  BY <1>1, <1>3, PassPod
     DEF Failure, APIError, LostReply, LostCreate, LostDelete, LostResize, LostPatch,
         RefuseResize, ResizeRejected, Crash, OrphanWrite, Exit, Relist, Return, Working
<1>4. CASE UNCHANGED pass
  BY <1>4
<1> QED BY <1>2, <1>3, <1>4
        DEF Next, Environment, CreateSW, EditSpec, DeleteSW, NodeChanges, PriorityClassChanges,
            BackendChanges, CreateForeign, DeletePod, StripLabels, TouchPod, FailPod, ModifyPod,
            ManagerVars, DeliverSW, DeliverPod, PollFires, CollectGarbage, Restart, LateWrite,
            vars

(* Without orphaned writes there is never a late one.                      *)
LEMMA NeverLate ==
  ASSUME "orphan" \notin Faults, [Next]_vars, late = NoLate
  PROVE  ~OrphanWrite /\ ~LateWrite /\ late' = NoLate
<1>1. ~OrphanWrite /\ ~LateWrite
  BY DEF OrphanWrite, LateWrite, Fault
<1> QED BY <1>1, LateOnly

(***************************************************************************)
(* A pass keeps a healthy phantom, when its reads are current and no write *)
(* outlives its manager.                                                   *)
(***************************************************************************)
(* What a pass is about to create is not there, unless the cache cannot    *)
(* show it; what it is about to delete has lost its label or its node.     *)
KeptPass ==
  /\ pc \in {"create", "resolve"} /\ ownedBySw(pod, pass.base) => ~pod.labelled
  /\ pc = "recover" /\ pod.uid # 0 /\ pod.uid = pass.pod.uid => ~pod.labelled
  /\ pc = "repin" => pass.pod.node # pass.base.spec.node

KeptInv == ForeignInv /\ StreamInv /\ late = NoLate /\ KeptPass

(* A pod keeps its owner and its node, and gets no label back.             *)
Weakens ==
  /\ pod.uid # 0 /\ pod'.uid = pod.uid
  /\ pod'.owner = pod.owner /\ pod'.node = pod.node
  /\ pod'.labelled => pod.labelled

ForeignPod == pod'.owner = 0 /\ pod'.labelled \in BOOLEAN /\ FreshRev(pod'.uid)

(* Between two calls of a pass nobody gives its ShadowWorkload a phantom.  *)
LEMMA OthersWrite ==
  ASSUME TypeOK, late = NoLate, [Next]_vars, UNCHANGED pc, Working
  PROVE  UNCHANGED pass /\ (pod' = pod \/ pod' = NoPod \/ Weakens \/ ForeignPod)
<1>1. ~Reconcile
  BY DEF Reconcile, ForgetDeleted, StartPass, GetNode, GetPriorityClass, Measure, GetPod,
         CreatePhantom, Resolve, Recover, Repin, Resize, PatchStatus, Return, RecreateLater,
         Working
<1>2. ~LateWrite /\ ~Restart
  BY DEF LateWrite, Restart, Working
<1>3. Failure => Relist
  BY DEF Failure, APIError, LostReply, LostCreate, LostDelete, LostResize, LostPatch,
         RefuseResize, Crash, OrphanWrite, Exit, Return, Working
<1>4. Environment => UNCHANGED pass
  BY DEF Environment, CreateSW, EditSpec, DeleteSW, NodeChanges, PriorityClassChanges,
         BackendChanges, CreateForeign, DeletePod, StripLabels, TouchPod, FailPod, ModifyPod,
         ManagerVars
<1>5. CASE StripLabels \/ TouchPod \/ FailPod
  <2>1. PICK new \in {pod, [pod EXCEPT !.labelled = FALSE], [pod EXCEPT !.failed = TRUE]} :
          ModifyPod(new)
    BY <1>5 DEF StripLabels, TouchPod, FailPod
  <2>2. PICK r \in Revs : pod' = [new EXCEPT !.rv = r]
    BY <2>1 DEF ModifyPod, WritePod
  <2>3. pod \in PodType /\ new \in PodType
    BY DEF TypeOK, PodType
  <2>4. /\ pod'.uid = new.uid /\ pod'.owner = new.owner /\ pod'.node = new.node
        /\ pod'.labelled = new.labelled
    BY <2>2, <2>3 DEF PodType
  <2>5. /\ new.uid = pod.uid /\ new.owner = pod.owner /\ new.node = pod.node
        /\ new.labelled => pod.labelled
    BY <2>3 DEF PodType
  <2> QED BY <1>4, <1>5, <2>1, <2>4, <2>5 DEF Weakens, ModifyPod, Environment
<1>6. CASE CreateForeign
  <2>1. PICK r \in Revs, l \in BOOLEAN :
          FreshRev(r) /\ pod' = [NoPod EXCEPT !.uid = r, !.rv = r, !.labelled = l]
    BY <1>6 DEF CreateForeign, WritePod
  <2>2. pod'.owner = 0 /\ pod'.labelled = l /\ pod'.uid = r
    BY <2>1 DEF NoPod
  <2> QED BY <1>4, <1>6, <2>1, <2>2 DEF ForeignPod, Environment
<1>7. CASE DeletePod \/ CollectGarbage
  BY <1>7 DEF DeletePod, CollectGarbage, WritePod, ManagerVars
<1>8. CASE UNCHANGED <<pod, pass>>
  BY <1>8
<1> QED BY <1>1, <1>2, <1>3, <1>5, <1>6, <1>7, <1>8
        DEF Next, Environment, CreateSW, EditSpec, DeleteSW, NodeChanges, PriorityClassChanges,
            BackendChanges, DeliverSW, DeliverPod, PollFires, Relist, ManagerVars, apiVars, vars

(* Those steps keep what the pass relies on.                               *)
LEMMA WaitingKeeps ==
  ASSUME KeptInv, [Next]_vars, UNCHANGED pc PROVE KeptPass'
<1>1. CASE ~Working
  BY <1>1 DEF Working, KeptPass
<1>2. CASE Working
  <2>1. UNCHANGED pass /\ (pod' = pod \/ pod' = NoPod \/ Weakens \/ ForeignPod) /\ KeptPass
    BY <1>2, OthersWrite DEF KeptInv, ForeignInv
  <2>2. pc \in {"create", "resolve", "recover", "repin"} => pass.base.uid # 0
    BY Holders DEF KeptInv, ForeignInv, Owns
  <2>3. NoPod.uid = 0
    BY DEF NoPod
  <2>4. ForeignPod => pod'.uid # pass.pod.uid
    BY KnownNow DEF ForeignPod, FreshRev
  <2> QED BY <2>1, <2>2, <2>3, <2>4 DEF KeptPass, Weakens, ForeignPod, ownedBySw
<1> QED BY <1>1, <1>2

(* A pass with current reads proceeds to a Create only when no labelled    *)
(* phantom of its own is there, and from there to a Delete of another one. *)
LEMMA PassKeeps ==
  ASSUME Lag = "none", KeptInv, Reconcile, pc' # pc PROVE KeptPass'
<1>1. KeptPass /\ PodFollows /\ pass \in PassType
  BY DEF KeptInv, StreamInv, TypeOK
<1>2. CASE GetPod
  <2>1. podCache = Visible(pod) /\ pod' = pod
    BY <1>1, <1>2 DEF GetPod, CacheCurrent, Drained, PodFollows, apiVars
  <2>2. CASE podCache.uid = 0 /\ UNCHANGED pass /\ pc' = "create"
    BY <2>1, <2>2 DEF KeptPass, Visible, ownedBySw
  <2>3. CASE pc' = "repin" /\ ~Pinned(podCache, pass.base) /\ pass' = [pass EXCEPT !.pod = podCache]
    BY <1>1, <2>3 DEF KeptPass, Pinned, PassType
  <2>4. CASE pc' \in {"resize", "status"}
    BY <2>4 DEF KeptPass
  <2> QED BY <1>2, <2>2, <2>3, <2>4 DEF GetPod
<1>3. CASE CreatePhantom
  <2>1. CASE pc' = "resolve" /\ UNCHANGED <<pod, pass>>
    BY <1>1, <1>3, <2>1 DEF KeptPass, CreatePhantom
  <2>2. CASE pc' = "status"
    BY <2>2 DEF KeptPass
  <2> QED BY <1>3, <2>1, <2>2 DEF CreatePhantom
<1>4. CASE Resolve
  <2>1. CASE pc' = "recover" /\ ownedBySw(pod, pass.base) /\ UNCHANGED pod
    BY <1>1, <1>4, <2>1 DEF KeptPass, Resolve
  <2>2. CASE pc' \in {"idle", "status"}
    BY <2>2 DEF KeptPass
  <2> QED BY <1>4, <2>1, <2>2 DEF Resolve, Return, apiVars
<1>5. CASE pc' \notin {"create", "resolve", "recover", "repin"}
  BY <1>5 DEF KeptPass
<1> QED BY <1>2, <1>3, <1>4, <1>5
        DEF Reconcile, ForgetDeleted, StartPass, GetNode, GetPriorityClass, Measure, Recover,
            Repin, Resize, PatchStatus, Return, RecreateLater

(* Every step keeps the invariant.                                         *)
LEMMA KeptNext ==
  ASSUME Lag = "none", "orphan" \notin Faults PROVE KeptInv /\ [Next]_vars => KeptInv'
<1> SUFFICES ASSUME KeptInv, [Next]_vars PROVE KeptInv'
  OBVIOUS
<1>1. ForeignInv' /\ StreamInv' /\ late' = NoLate
  BY ForeignInvNext, StreamNext, NeverLate DEF KeptInv
<1>2. UNCHANGED pc => KeptPass'
  BY WaitingKeeps
<1>3. pc' \notin {"create", "resolve", "recover", "repin"} => KeptPass'
  BY DEF KeptPass
<1>4. Failure \/ Restart => UNCHANGED pc \/ pc' \in {"idle", "down", "status"}
  BY DEF Failure, APIError, LostReply, LostCreate, LostDelete, LostResize, LostPatch,
         RefuseResize, Crash, OrphanWrite, Exit, Relist, Return, Restart
<1>5. Reconcile \/ Failure \/ Restart \/ UNCHANGED pc
  BY DEF Next, Environment, CreateSW, EditSpec, DeleteSW, NodeChanges, PriorityClassChanges,
         BackendChanges, CreateForeign, DeletePod, StripLabels, TouchPod, FailPod, ModifyPod,
         ManagerVars, DeliverSW, DeliverPod, PollFires, CollectGarbage, LateWrite, vars
<1>6. KeptPass'
  BY <1>2, <1>3, <1>4, <1>5, PassKeeps
<1> QED BY <1>1, <1>6 DEF KeptInv

(* A step of the manager that removes the pod is an accepted Delete.       *)
LEMMA OnlyDeletes ==
  ASSUME TypeOK, late = NoLate, [Next]_vars, pc' # pc, pod.uid # 0, pod'.uid = 0
  PROVE  pc \in {"recover", "repin"} /\ DeleteAccepted(pass)
<1>1. \A r \in Revs : ~CreateAccepted(pass, r)
  BY DEF CreateAccepted
<1>2. \A r \in Revs : ~ResizeAccepted(pass, r)
  <2>1. pod \in PodType
    BY DEF TypeOK
  <2>2. \A r \in Revs : [pod EXCEPT !.req = pass.desired, !.rv = r].uid = pod.uid
    BY <2>1 DEF PodType
  <2> QED BY <2>2 DEF ResizeAccepted, WritePod
<1>3. CASE Reconcile
  BY <1>1, <1>2, <1>3
     DEF Reconcile, ForgetDeleted, StartPass, GetNode, GetPriorityClass, Measure, GetPod,
         CreatePhantom, Resolve, Recover, Repin, Resize, PatchStatus, apiVars
<1>4. CASE Failure
  BY <1>1, <1>2, <1>4
     DEF Failure, APIError, LostReply, LostCreate, LostDelete, LostResize, LostPatch,
         RefuseResize, Crash, OrphanWrite, Exit, Relist, apiVars
<1> QED BY <1>3, <1>4
        DEF Next, Environment, CreateSW, EditSpec, DeleteSW, NodeChanges, PriorityClassChanges,
            BackendChanges, CreateForeign, DeletePod, StripLabels, TouchPod, FailPod, ModifyPod,
            ManagerVars, DeliverSW, DeliverPod, PollFires, CollectGarbage, Restart, LateWrite,
            apiVars, vars

(* With current reads and no orphaned write, a pass deletes its phantom    *)
(* only because its label is gone or its node is not the spec's: what the  *)
(* comment on resolveCreateConflict says.  Each hypothesis is needed: a    *)
(* Create that the cache, or the manager before this one, knows nothing of *)
(* collides with a healthy phantom.                                        *)
THEOREM HealthyPhantomKeptAlways ==
  ASSUME Lag = "none", "orphan" \notin Faults PROVE Spec => HealthyPhantomKept
<1> DEFINE Kept == pc' # pc /\ pod.uid # 0 /\ pod'.uid = 0
                     => ~pod.labelled \/ pod.node # pass.base.spec.node
<1>1. KeptInv /\ [Next]_vars => Kept
  <2> SUFFICES ASSUME KeptInv, [Next]_vars, pc' # pc, pod.uid # 0, pod'.uid = 0
               PROVE  ~pod.labelled \/ pod.node # pass.base.spec.node
    OBVIOUS
  <2>1. pc \in {"recover", "repin"} /\ pod.uid = pass.pod.uid
    BY OnlyDeletes DEF KeptInv, StreamInv, DeleteAccepted
  <2>2. pod.node = pass.pod.node
    BY <2>1, KnownNow DEF KeptInv, ForeignInv, IdentityInv, IdentityFixesPod, SamePhantom
  <2> QED BY <2>1, <2>2 DEF KeptInv, KeptPass
<1>2. Init => KeptInv
  <2>1. Init => late = NoLate /\ KeptPass
    BY DEF Init, KeptPass
  <2> QED BY <2>1, ForeignInvInit, StreamInit DEF KeptInv
<1>3. KeptInv /\ [Next]_vars => KeptInv'
  BY KeptNext
<1> QED BY <1>1, <1>2, <1>3, PTL DEF Spec, HealthyPhantomKept
=============================================================================
