----------------------------- MODULE Namespace -----------------------------
(***************************************************************************)
(* Several ShadowWorkloads of one namespace and the phantoms whose names   *)
(* PhantomName derives from theirs.  Module Reconciler follows ONE name    *)
(* through every call of a pass; here a pass is one step with current      *)
(* caches, whose branches delete, create and report as those of Reconcile  *)
(* do, and what counts is which names share a phantom, and which phantoms  *)
(* can exist at all.                                                       *)
(***************************************************************************)
EXTENDS Integers, Sequences

CONSTANTS
  Letters,    \* the letters and digits of names
  Names,      \* the names users give
  Hash,       \* the hash of a name, in hexadecimal
  Prefix,     \* PhantomNamePrefix
  MaxPodNameLength,
  MaxLabelLength,       \* the limit of the API server for a label value
  MaxSubdomainLength,   \* ... and for the name of an object
  Uids        \* identities of ShadowWorkload objects

Chars == Letters \cup {".", "-"}

(* %06x prints a 64 bit hash: the suffix always leaves room for a name.    *)
ASSUME LettersAssumption == {".", "-"} \cap Letters = {}
ASSUME NamesAssumption   == Names \subseteq Seq(Chars) \ {<<>>}
ASSUME PrefixAssumption  == Prefix \in Seq(Chars)
ASSUME LimitsAssumption  ==
  MaxPodNameLength \in Nat /\ MaxLabelLength \in Nat /\ MaxSubdomainLength \in Nat
ASSUME HashAssumption ==
  /\ Hash \in [Names -> Seq(Letters)]
  /\ \A n \in Names : Len(Prefix) + Len(Hash[n]) + 1 <= MaxPodNameLength
ASSUME UidsAssumption == Uids \subseteq Nat \ {0}

VARIABLES
  sws,        \* the uid of the ShadowWorkload of each name, 0 for none
  pods,       \* the pod of each phantom name
  reports,    \* what the Ready condition of each name says, if it has one
  lost,       \* history: names Ready whose phantom was deleted since they said so
  calm        \* nobody disturbs the phantoms and no call fails any more

vars == <<sws, pods, reports, lost, calm>>

(***************************************************************************)
(* Names.  A name that leaves no room for the prefix is cut and gets the   *)
(* hash of the whole name as its suffix.                                   *)
(***************************************************************************)
Full(n) == Prefix \o n

TooLong(n) == Len(Full(n)) > MaxPodNameLength

keep(n) == MaxPodNameLength - Len(Prefix) - Len(Hash[n]) - 1

MutCut(n) == Prefix \o SubSeq(n, 1, keep(n) + 1 + Len(Hash[n]))

Cut(n) == Prefix \o SubSeq(n, 1, keep(n)) \o <<"-">> \o Hash[n]

PhantomName(n) == IF TooLong(n) THEN Cut(n) ELSE Full(n)

PhantomNames == {PhantomName(n) : n \in Names}

(***************************************************************************)
(* What the API server accepts: the name of an object is a DNS subdomain,  *)
(* a label value is shorter and must begin and end with a letter or digit. *)
(***************************************************************************)
Apart(s, i) == s[i] \in Letters \/ s[i + 1] \in Letters

ValidSubdomain(s) ==
  /\ Len(s) \in 1 .. MaxSubdomainLength
  /\ s[1] \in Letters /\ s[Len(s)] \in Letters
  /\ \A i \in 1 .. Len(s) - 1 : Apart(s, i) \/ (s[i] = "-" /\ s[i + 1] = "-")

ValidLabelValue(s) ==
  /\ Len(s) \in 1 .. MaxLabelLength
  /\ s[1] \in Letters /\ s[Len(s)] \in Letters

(* The phantom carries the name of its ShadowWorkload as a label.          *)
Creatable(n) == ValidSubdomain(PhantomName(n)) /\ ValidLabelValue(n)

(***************************************************************************)
(* Pods.  A phantom is known to the controller by its owner, to the cache  *)
(* by its label, and is pinned to a node that may be that of the spec.     *)
(***************************************************************************)
NoPod == [owner |-> 0, labelled |-> TRUE, pinned |-> TRUE]

Phantom(u) == [owner |-> u, labelled |-> TRUE, pinned |-> TRUE]

Holder(n) == pods[PhantomName(n)]

Put(n, pod) == pods' = [pods EXCEPT ![PhantomName(n)] = pod]

MutOwned(n) == Holder(n) # NoPod

ownedBySw(n) == Holder(n).owner = sws[n]

(***************************************************************************)
(* The branches of a pass, by what it finds under the phantom name.  A     *)
(* Create that the API server refuses as invalid makes the pass return the *)
(* error, before it is compared with what exists: no branch is left.       *)
(***************************************************************************)
Create(n) == Holder(n) = NoPod /\ Creatable(n) /\ Put(n, Phantom(sws[n]))

Recover(n) ==
  /\ Holder(n) # NoPod /\ ~Holder(n).labelled /\ Creatable(n) /\ ownedBySw(n)
  /\ Put(n, NoPod)

Conflict(n) ==
  /\ Holder(n) # NoPod /\ (Holder(n).labelled \/ Creatable(n)) /\ ~ownedBySw(n)
  /\ UNCHANGED pods

Observed(n) == Holder(n) # NoPod /\ Holder(n).labelled /\ ownedBySw(n)

Repin(n) == Observed(n) /\ ~Holder(n).pinned /\ Put(n, NoPod)

Keep(n) == Observed(n) /\ Holder(n).pinned /\ UNCHANGED pods

(* A pass ends with a report, or without one.                              *)
Report(n, r) ==
  /\ reports' = [reports EXCEPT ![n] = r]
  /\ lost' = lost \ {n}

Bereft(p) ==
  {m \in Names : PhantomName(m) = p /\ pods[p].owner = sws[m] /\ reports[m] = "Ready"}

Unreported(n) ==
  /\ UNCHANGED reports
  /\ lost' = lost \cup {m \in Bereft(PhantomName(n)) : pods'[PhantomName(n)] = NoPod}

(* Every return of a pass, or its error, queues the key again.             *)
MutPolled(n) == sws[n] # 0 /\ reports[n] # "Degraded"

Polled(n) == sws[n] # 0

(* A pass in which nothing fails.  Recover returns before the status patch *)
(* and waits for the next poll.                                            *)
EnsurePhantom(n) ==
  /\ Polled(n)
  /\ \/ (Create(n) \/ Keep(n)) /\ Report(n, "Ready")
     \/ (Conflict(n) \/ Repin(n)) /\ Report(n, "Degraded")
     \/ Recover(n) /\ Unreported(n)
  /\ UNCHANGED <<sws, calm>>

(* One that cannot measure or resize, or that finds its node or the        *)
(* PriorityClass missing and leaves the pod alone.                         *)
DegradedPass(n) ==
  /\ Polled(n) /\ ~calm
  /\ Create(n) \/ UNCHANGED pods
  /\ Report(n, "Degraded")
  /\ UNCHANGED <<sws, calm>>

(* One whose status patch fails, or is never sent as the process dies.     *)
UnreportedPass(n) ==
  /\ Polled(n) /\ ~calm
  /\ Create(n) \/ Repin(n)
  /\ Unreported(n)
  /\ UNCHANGED <<sws, calm>>

(***************************************************************************)
(* Users, the garbage collector, and whoever else deletes or edits a pod.  *)
(***************************************************************************)
Live(u) == \E n \in Names : sws[n] = u

(* An identity that nothing refers to is as good as a new one.             *)
Used == {sws[n] : n \in Names} \cup {pods[p].owner : p \in PhantomNames}

Fresh(u) == u \notin Used /\ \A v \in Uids \ Used : u <= v

CreateSW(n) ==
  /\ sws[n] = 0 /\ ValidSubdomain(n)
  /\ \E u \in Uids : Fresh(u) /\ sws' = [sws EXCEPT ![n] = u]
  /\ Report(n, "none")
  /\ UNCHANGED <<pods, calm>>

DeleteSW(n) ==
  /\ sws[n] # 0
  /\ sws' = [sws EXCEPT ![n] = 0]
  /\ Report(n, "none")
  /\ UNCHANGED <<pods, calm>>

(* A new node in the spec, or the old one again.                           *)
EditNode(n) ==
  /\ sws[n] # 0 /\ ownedBySw(n) /\ ~calm
  /\ Put(n, [Holder(n) EXCEPT !.pinned = ~@])
  /\ UNCHANGED <<sws, reports, lost, calm>>

EditLabels(p) ==
  /\ pods[p] # NoPod /\ ~calm
  /\ pods' = [pods EXCEPT ![p].labelled = ~@]
  /\ UNCHANGED <<sws, reports, lost, calm>>

DeletePod(p) ==
  /\ pods[p] # NoPod /\ ~calm
  /\ pods' = [pods EXCEPT ![p] = NoPod]
  /\ lost' = lost \cup Bereft(p)
  /\ UNCHANGED <<sws, reports, calm>>

CalmDown == calm' = TRUE /\ UNCHANGED <<sws, pods, reports, lost>>

CollectGarbage(p) ==
  /\ pods[p] # NoPod /\ ~Live(pods[p].owner)
  /\ pods' = [pods EXCEPT ![p] = NoPod]
  /\ UNCHANGED <<sws, reports, lost, calm>>

Init ==
  /\ sws = [n \in Names |-> 0]
  /\ pods = [p \in PhantomNames |-> NoPod]
  /\ reports = [n \in Names |-> "none"]
  /\ lost = {} /\ calm = FALSE

Next ==
  \/ \E n \in Names :
       \/ EnsurePhantom(n) \/ DegradedPass(n) \/ UnreportedPass(n)
       \/ CreateSW(n) \/ DeleteSW(n) \/ EditNode(n)
  \/ \E p \in PhantomNames : EditLabels(p) \/ DeletePod(p) \/ CollectGarbage(p)
  \/ CalmDown

Spec == Init /\ [][Next]_vars

(* Each key is polled and garbage is collected; users need not do          *)
(* anything, and failures and disturbances may go on for ever.             *)
Fairness ==
  /\ \A n \in Names : WF_vars(EnsurePhantom(n))
  /\ \A p \in PhantomNames : WF_vars(CollectGarbage(p))

FairSpec == Spec /\ Fairness

(***************************************************************************)
(* Properties.                                                             *)
(***************************************************************************)
Reports == {"none", "Ready", "Degraded"}

Pods == [owner : Uids, labelled : BOOLEAN, pinned : BOOLEAN] \cup {NoPod}

(* Every name has at most one object, every phantom at most one owner.     *)
NamespaceTypeOK ==
  /\ sws \in [Names -> Uids \cup {0}]
  /\ pods \in [PhantomNames -> Pods]
  /\ reports \in [Names -> Reports]
  /\ lost \subseteq Names /\ calm \in BOOLEAN

Rivals(m, n) == m # n /\ PhantomName(m) = PhantomName(n)

BothReady(m, n) == reports[m] = "Ready" /\ reports[n] = "Ready"

(* One reservation is not counted for two workloads: two names that share  *)
(* a phantom are both reported Ready only while one of the reports is      *)
(* older than the deletion of the phantom it was about (ownedBySw, the     *)
(* conflict branch of Reconcile; caches are current here, so a report is   *)
(* about the phantom that there is).                                       *)
OneReservationEach ==
  \A m, n \in Names : Rivals(m, n) /\ BothReady(m, n) => m \in lost \/ n \in lost

(* And that does not last: once nobody deletes or edits phantoms and no    *)
(* call fails, the pass of the one that lost its phantom says so, whatever *)
(* users create and delete meanwhile.                                      *)
DoubleCountEnds ==
  <>[]calm => <>[](\A m, n \in Names : Rivals(m, n) => ~BothReady(m, n))

(* Two ShadowWorkloads meet in one phantom only when their hashes collide, *)
(* or when one has been given the shortened name of the other.             *)
NamesApart ==
  \A m, n \in Names :
    sws[m] # 0 /\ sws[n] # 0 /\ Rivals(m, n)
      => \/ TooLong(m) /\ TooLong(n) /\ Hash[m] = Hash[n]
         \/ TooLong(m) /\ Full(n) = Cut(m)
         \/ TooLong(n) /\ Full(m) = Cut(n)

Alone(n) == sws[n] # 0 /\ \A m \in Names : Rivals(m, n) => sws[m] = 0

Tracked(n) == reports[n] = "Ready" /\ n \notin lost

(* Whoever waits for a phantom name gets it: once things are calm, a       *)
(* ShadowWorkload that stays the only one with its phantom name becomes    *)
(* and stays Ready, with a phantom it holds, whatever state failures,      *)
(* rivals and other users of the pod left; unless the API server cannot    *)
(* accept its phantom.                                                     *)
Served ==
  \A n \in Names : Creatable(n) => (<>[](calm /\ Alone(n)) => <>[]Tracked(n))

(* Every name that the API server admits is served, also a long one: it is *)
(* truncated and disambiguated.                                            *)
LongNamesServed ==
  \A n \in Names : TooLong(n) => (<>[](calm /\ Alone(n)) => <>[]Tracked(n))
=============================================================================
