# kube-symbiont in TLA+

kube-symbiont keeps, for each `ShadowWorkload`, one *phantom pod* whose resource
requests mirror what a bare-metal workload on a node really uses, so that the
Kubernetes scheduler counts it. This directory holds TLA+ modules that model the
controller, TLC configurations that check them on small instances, and proofs
that TLAPS checks for every value of the constants. Paths below are relative to
the repository, line numbers are those of the commit the modules were written
from.

## 1. The system

| component | code | state it keeps | operations | model |
|---|---|---|---|---|
| reconciler | `internal/controller/shadowworkload_controller.go` | none between passes; a pass has local variables | `Reconcile`, `measure`, `resizePhantom`, `resolveCreateConflict`, `resizeIfDrifting`, `createOrRecoverPhantom` | `Reconciler` |
| phantom mechanics | `internal/shadow/phantom.go` | none | `PairOf`, `MeasurementPairOf`, `Clamp`, `DriftExceeds`, `BuildPhantomPod`, `CurrentPairOf`, `PhantomName` | `Phantom`, `Reconciler`, `Namespace` |
| node eligibility | `internal/shadow/node.go` | none | `NodeEligible` | `Phantom` |
| source resolver | `internal/sources/sources.go` | none | `Resolve`, `Describe` | `SourceResolver`, `Measurement`; in `Reconciler` a `valid` flag and a name |
| Prometheus client | `internal/sources/sources.go` | the call in progress | `NewClient`, `Query`, `QueryPair` | `MetricsClient`, `Measurement` |
| destination policy | `internal/sources/destination_policy.go` | an immutable allowlist | `NewDestinationPolicy`, `Validate` | `DestinationPolicy`, `Measurement` |
| metrics recorder | `internal/metrics/metrics.go` | series per ShadowWorkload | `Observed…`, `SetReserved`, `MeasurementFailed`, `RemoveShadowWorkload` | `Reconciler`: the families with a series |
| API types, admission | `api/v1alpha1`, `config/crd` | the ShadowWorkload object | validation rules | the types of `Phantom` and `ReconcilerProperties`, `PatchInvalid`, `Admitted` |
| manager | `cmd/main.go` | flags, caches, queue, lease | start, exit | `Restart`, `Crash`, `OrphanWrite`, the label-scoped Pod cache; `StartManager` |
| Kubernetes | external | objects, watch streams | API calls, garbage collection, kubelet | the environment of `Reconciler` |
| generated code, charts, release tooling | `zz_generated…`, `hack/`, `config/`, `charts/` | – | – | not modelled |

How they interact. The manager starts informers for ShadowWorkloads and for the
pods that carry the managed-by label. Events, and the `RequeueAfter` of each
pass, put the key of a ShadowWorkload into the work queue; one worker runs
`Reconcile` for it. A pass reads the ShadowWorkload and the phantom from the
informer caches, and nodes, the PriorityClass and colliding pods from the API
server; it measures through the Prometheus client; it creates, deletes or
resizes the phantom; and it ends with a merge patch of the status, relative to
the ShadowWorkload that it read at the beginning.

What is hard. A pass takes up to seven remote calls and anybody may act between
two of them; each call can fail, or take effect and lose its answer; the process
can die or be deposed while a write is on its way; both caches trail the API
server; the label-scoped cache hides pods that exist; nothing but the API
objects survives a restart; and status-only events are filtered, so a return
without a requeue would stop the loop for good. `PROJECT.json` lists each of
these under `hazards`, at its line.

What makes the components correct: a pass touches only pods its ShadowWorkload
owns; requests change only to a clamped measurement, and stay within bounds a
user wrote; the clock never stops; the status tells the truth once things have
settled; a healthy environment makes the reservation converge; a deleted object
leaves nothing behind, and no phantom counts for two for long; the client never takes an
unreachable target for a stopped workload, asks only the endpoints its operator
declared, and describes in the status what it really measured.

## 2. The modules

`Phantom` holds the pure functions. A request is a pair of whole millicores and
bytes, a measurement a pair of nanocores and bytes. A reading is finer than both:
it counts tenths of a nanocore and of a byte, and `PairOf` and `MeasurementPairOf`
each round the raw reading. `drift` computes in floating point, so at exact
equality with the threshold it is a *set* of answers.

`Reconciler` is the core: ONE ShadowWorkload name, the one pod name derived from
it, and everybody who acts on them.

| variables | stand for |
|---|---|
| `sw`, `pod`, `nodes`, `priority`, `backend` | the API server's objects, and what a measurement would return now |
| `swCache`, `swWatch`, `podCache`, `podWatch` | the informers and their undelivered events; unlabelled pods are invisible |
| `queue` | the key: absent, waiting for the poll interval, or due |
| `pc`, `pass` | the running pass: its next API call and its local variables |
| `series` | the metric families with a series of this ShadowWorkload |
| `env` | environment steps so far; also the clock of `lastResize` |

Each action of `Reconcile` is the code from one API call up to the next:
`ForgetDeleted`/`StartPass` (118–137), `GetNode` (155–186), `GetPriorityClass`
(188–202), `Measure` (204–211 and `measure`), `GetPod` (213–259),
`CreatePhantom`, `Resolve` and `Recover` (`createOrRecoverPhantom` and
`resolveCreateConflict`), `Repin` (238–252), `Resize` (`resizeIfDrifting` and
`resizePhantom`), `PatchStatus` (261–304). `APIError`, `LostReply` and
`RefuseResize` are the ways in which a call fails; `Crash`, `Restart` and
`Relist` those in which the manager does. `OrphanWrite` ends the manager while
its pass has issued a write; `late` holds that write with everything the pass
knew, and `LateWrite` lets it arrive (or get lost) at any later time, also when
the next manager is at work: the API server judges it by the same preconditions,
which is why `CreateAccepted`, `DeleteAccepted`, `ResizeAccepted` and
`PatchAccepted` are parameterised by the pass. `MergePatch` computes what
`client.MergeFrom` puts into a patch, leaf by leaf, and `PatchInvalid` what the
CRD schema refuses of it.

`ReconcilerProperties` states types, safety and liveness. `ReconcilerHistory`
adds history variables that every step writes and none reads.

`Reservation` is the abstract specification of what the controller promises the
scheduler: a reservation of an owner on a node appears with a size within the
bounds of a spec of that node, takes the clamped value of a measurement, and
disappears; it never moves and never changes hands. `ReconcilerProperties`
instantiates it with the owner, node and requests of the pod (`ReservationKept`).

`MetricsClient` models one `QueryPair`, query by query, against a Prometheus
whose scrapes, window and targets move on between the queries; `Reconciler`
takes its result as one reading.

`Measurement` composes it with what surrounds it in `measure`: `DestinationPolicy`
(a URL is a record of its components; `Origin` is what the allowlist compares,
`Endpoint` where `net/http` connects), `SourceResolver` (`Resolve` and `Describe`
for the four source types, PromQL text abstracted to what it selects) and the
snapshot in the status. `StartManager` reads a
command line and may refuse it, `Exit` loses everything but the status. Each pass
chooses its spec anew, since an author may edit it between two passes.

`Namespace` has several ShadowWorkloads and the phantoms whose names
`PhantomName` derives from theirs. A name is a sequence of characters, cut and
suffixed with a hash as in the code. A whole pass is one step there, with current
caches: what interleaves inside it is the subject of `Reconciler`. The branches of
a pass are operators (`Create`, `Recover`, `Conflict`, `Repin`, `Keep`) over the
pod it finds, and three actions combine them with its ends: `EnsurePhantom`, in
which no call fails (`Recover` deletes the pod and returns without a status
patch), `DegradedPass`, whose measurement, resize or gates fail, and
`UnreportedPass`, whose status patch fails or whose process dies before it.
Others delete phantoms, take their labels off and put them back, edit the node of
a spec, and create and delete ShadowWorkloads. `lost` is a history variable: the
names whose report of Ready is older than the deletion of their phantom. `calm`
says that failures and disturbances (not the users' creations and deletions of
ShadowWorkloads) have ceased for good; it may stay `FALSE` for ever.

`MCInstances`, `MCReconciler`, `MCHistory`, `MCMeasurement` and `MCNamespace`
give TLC its small instances. `ReconcilerProofs`, `LoopProofs`, `BoundsProofs`,
`ForeignProofs`, `ReservationProofs`, `StatusProofs`, `NamespaceProofs` and
`MeasurementProofs` hold the theorems. Definitions called `Mut…` are wrong forms of their
neighbours, used to test that each property can fail; no behaviour of a
specification uses them.

## 3. The runs

| run | question | instance |
|---|---|---|
| `races` | is a pod that is not ours ever touched, does the phantom implement `Reservation`, is it resized only when its live size is off by the threshold, does the clock stop, do series leak? | unbounded lag, thirteen kinds of fault, one undelivered event per stream; 2 environment steps |
| `settled` | is a settled Ready report true, are the bounds kept, is only a measurement applied, is the durable status one real measurement and a reservation really held? | current caches, ten kinds of fault; 3 steps |
| `convergence` | does the reservation follow the measurement? | current caches, eleven kinds of fault, crashes and late writes among them; 3 steps |
| `failover` | does a deleted ShadowWorkload leave anything, when managers replace each other and writes arrive late? | lag below the poll interval, seven kinds of fault; 3 steps |
| `measurement` | are requests sent exactly where the flags say, is an unreachable target taken for a stopped workload, is the status about what was measured? | all interleavings of a call, its store and restarts; 6 command lines, 16 URLs, 5 declarations |
| `namespace` | when is one reservation reported for two ShadowWorkloads, does that end, and is each served in the end? | three names, three identities; all steps without bound |

Each of the other runs checks one sentence of the documentation that the code
does not keep; TLC's counterexample shows how.

| run | the documentation says | the code does |
|---|---|---|
| `stale_create` | a phantom *that lost its labels* is deleted and recreated | any owned phantom that the cache does not show yet is |
| `outage` | an outage freezes the phantom at its last size | a phantom re-pinned during an outage starts at the floor |
| `evicted` | the currents are the reservation held | the phase of the pod is never read |
| `torn` | measurement and source advance atomically | a patch against a stale copy mixes two measurements |
| `recovered_target` | a dead target is not mistaken for a stopped workload | the health check comes after the queries it vouches for |
| `long_name` | names over the limit are truncated and disambiguated | the label that holds the name is not: a longer one, or one cut after a dot, is refused for ever, with no status |

Some smaller divergences need no run of their own. Under Ready, the phantom may
request more than a ceiling that was lowered by less than the threshold, because
the clamp applies to the desired pair and the drift check decides whether it is
sent. With a threshold of 100, which admission accepts, no shrink ever exceeds
it, so a workload that is off never settles on the floor. And `lastResize` is
stamped in memory only: when the status patch after a resize fails, the retry
finds no drift and the stamp is lost.

**Lag.** `"none"`: cached reads are current. `"poll"`: a read may be stale, but
the poll interval is longer than the delay of a watch stream. `"any"`: no
assumption. Safety that must hold in all circumstances runs under `"any"`. What
is true only when the status has caught up (`settled`, `convergence`) runs under
`"none"`; `torn` shows that `CoherentSnapshot` fails under `"poll"`, and so does
`CurrentsMirror`. `Convergence` too needs `"none"`: under `"poll"` the
controller's own pod events (`stale_create` shows the first round) can drive an
endless create, AlreadyExists, delete cycle, if the Pod cache trails in every
round.

**Bounds.** `MaxEnv` bounds environment and failure steps: two or three suffice
for every known counterexample and for each pair or triple of faults; the
controller's own steps are unbounded. `MaxLag` (1 in `races`, else 2) bounds
undelivered events per stream; a write that would exceed it waits. Two nodes,
one pod and up to three specs are enough for a re-pin, a collision and an
invalid source. Identities of pods and objects (8 to 10, and 3 or 4) are reused
once nobody refers to them; they never run out, which the runs show by reaching
every action. Readings are chosen on both sides of floor, ceiling and rounding:
one shows 2.5 millicores and requests 2. Floors and thresholds put drift at its
edges: with a floor of zero a phantom has a request of zero to grow from, with a
threshold of 50 the way from 4 back to 2 is exactly the threshold, and so is the
way from 2 to 4 with one of 100.
In `measurement` the URLs spell the rules' endpoints otherwise, sit at the edges
of the port range, or are refused for one reason each; all declarations pin one
target, since a second would only rename the first. `namespace` has a long name,
the short name that spells its shortened form, and another long one with the same
beginning: two that share a phantom and one that must not. In `namespace` and `long_name` the limits 63, 63 and 253 become 8, 8 and
12: long enough for a prefix, a hash and three characters, and for a name
between each two of the limits; a creation waits while all identities are in
use. `CHECK_DEADLOCK` is off: without a ShadowWorkload, and with its budget
spent, the system really stops.

**Fairness.** Weak fairness of the pass, of both informers, of the poll clock,
of the garbage collector, of the arrival of a late write and of the manager's
start: each is a goroutine or process that Kubernetes or controller-runtime
keeps running, and no step of one disables another for good. Users, nodes and
failures are not fair. Weak fairness of `Reconcile` as a whole suffices because
exactly one call of a pass is next. In `Namespace` each key is polled fairly, as
each has its own entry in the queue, and each phantom is collected fairly. There
the fair action is the pass in which nothing fails: its premise `calm` excludes
the other two, and a pass that always failed would indeed serve nobody.

## 4. The proofs

| theorem | property | argument |
|---|---|---|
| `TypeCorrect` | `TypeOK` | inductive as it stands; one lemma per group of actions |
| `LoopAliveAlways` | `LoopAlive` | `LoopInv` |
| `NoStaleSeriesAlways` | `NoStaleSeries` | `LoopInv` |
| `ForeignUntouchedAlways` | `ForeignUntouched` | `ForeignInv` |
| `BoundedReservationAlways` | `BoundedReservation` | `BoundsInv` |
| `ResizedByMeasurementAlways` | `ResizedByMeasurement` | `BoundsInv` |
| `ReservationKeptAlways` | `ReservationKept` (a refinement) | `ReservationInv` |
| `ResizedOnDriftAlways` | `ResizedOnDrift` | `DriftInv` |
| `HealthyPhantomKeptAlways` | `HealthyPhantomKept` | `KeptInv`; no lag, no late write |
| `SettledTruthAlways` | `SettledTruth` | `SettledInv`; `Undisturbed`: no lag, no late write, the name not contested, no relist that skips a deletion |
| `CoherentSnapshotAlways`, `ReportedWasHeldAlways` | of the same names | `HistoryInv`; `Current`: no lag, no late write, no re-creation |
| `ReadyMeasuredAlways` | `ReadyMeasured` | `MeasuredInv`; `InOrder`: no late write, no re-creation |
| `ConvergedStaysAlways` | `ConvergedStays` | `Resting` |
| `PhantomNameFits` | a phantom name is never too long | arithmetic of lengths |
| `NamesApartAlways` | `NamesApart` | equal names have equal lengths and suffixes |
| `OneReservationEachAlways` | `OneReservationEach` | `ReadyHolds`: whoever is Ready holds the phantom, or has lost it |
| `DownTargetFailsClosedAlways`, `OffNeedsGapAlways` | of the same names | `FailClosed` |
| `ExactlyDeclaredAlways` | `ExactlyDeclared` | `OriginIsEndpoint`, `ValidateIsDeclared` |
| `DescribedIsMeasuredAlways` | `DescribedIsMeasured` | `DescribeResolves` |

The assumptions are the named `ASSUME`s of the modules: what the constants are,
that `Specs` is not empty, that the prefix and the hash fit into a name, and
that no unit is called `*`. No bound is assumed beyond being a number, so the
theorems hold for any number of faults. Unless the last column says otherwise
they also hold for any lag and any combination of faults.

Five theorems have a hypothesis on `Lag` and `Faults`. The status patch carries
no resource version and goes by name, and a Delete carries only a UID, so what
a pass writes is right only while what it read is still true. Each hypothesis
is needed; TLC shows a counterexample without it:

- *no lag*: a patch against an older copy mixes two measurements (`torn`); a
  pass that does not see its own phantom yet deletes it (`stale_create`).
- *no late write*: the patch of a dead manager puts an old report over a newer
  one, and its Create lands under a pass that has just found no phantom, and
  then deletes what is in its way.
- *no re-creation* of the ShadowWorkload: the patch of a pass that read the
  object before goes to the new one of the same name, merged into its empty
  status.
- *no foreign pod, no stripped label* (`SettledTruth`): a Create that collides
  returns after `resolveCreateConflict` without touching the status, which then
  says Ready of a phantom that is gone until the next poll.
- *no relist together with a deletion* (`SettledTruth`): an informer that lists
  again skips the event that would have called a pass, and
  `GenerationChangedPredicate` takes a re-created object of the same generation
  for a status update.

`settled` runs under the strongest of these hypotheses.

`LoopInv`. `LoopAlive` is not inductive: an idle worker with an empty queue is
harmless only because the cache does not hold the ShadowWorkload, and that says
something about the live object only because the newest event in the stream, or
the cache when there is none, *is* the live object (`CacheFollows`). With
`CachedIsQueued` (a cached object is queued whenever no pass runs) the property
follows.

`BoundsInv`. Bounds and measurement are properties of a write, but they are
decided calls earlier, when the measurement ends. `Sized` says that what a
writer will write is fixed from then on, and that a pass whose gates or
measurement failed can no longer reach the resize. `PodStep` lists the only four
ways in which any step changes the pod: it keeps or loses it, another client
creates one, the pass writes, a late write arrives. Both theorems follow from
it.

`ForeignInv`. The writes of a pass carry a UID or a resource version, never an
owner. `Owns` says that a writer holds a pod that its ShadowWorkload owns, and
resizes only one that is pinned to the node of its spec; `IdentityInv` that no
two copies of pods anywhere (live, cached, held by the pass, in the stream)
share a UID or a version under different owners or nodes. Together they turn the
preconditions of the API server into ownership of the live pod. The second one
rests on `FreshRev`: an identity is reused only when no copy refers to it, as
the API server never reuses one.

`DriftInv` and `KeptInv` add what a pass has decided: that the copy it is about
to resize drifted, that the pod it is about to delete had lost its label or its
node. `IdentityInv` also says that equal versions are equal pods, so an accepted
resize finds the live pod as it was when the drift was computed. A Delete is
weaker, as its precondition is only the UID; `HealthyPhantomKept` therefore
needs `StreamInv` (the Pod informer shows the live pod once its stream is
drained, and no event repeats the one before it) and that nobody else's write
puts a label back.

`late` is handled like the pass throughout: the invariants speak of any holder of
a pass (`Self` or `late`), and a lemma about a write is proved once for both.

`ReservationInv`. Every step maps to a step of `Reservation` or to a stutter.
`PodStep` gives the ways in which the pod changes; `BoundsInv` says that a size
comes from a spec and a measurement of the writer, `ForeignInv` that the pod a
writer resizes is its own and on the node of its spec; a free name maps to the
abstract `None`.

`SettledInv`. What a settled status says must be true although the pod, the spec
and the pass move apart in between. The invariant is a disjunction throughout:
what the pass works from, has observed or has reported still stands (`Matches`,
`Stands`, `ReportStands`), *or* something is under way that will call another
pass (`SWDue`, `EventDue`). Once things are settled nothing is under way.

`HistoryInv`. With current caches the status that a pass read is the live one
until it patches, so the patch leaves exactly what the pass found
(`MergeOntoBase`), and that was taken by one measurement and held by a phantom.

`MeasuredInv` needs no current caches. A patch may be merged into a status that
is newer than its base. The proof orders all copies of the ShadowWorkload on
their way from the API server to the pass (`Ordered`), and shows that the live
status was never measured under a generation that the running or next pass has
not reached (`Bounded`); with `PassMeasured` (a pass has measured if and only if
its reason says so) the generation of the measurement and that of the condition
agree also when the patch sends only one of the two.

`Resting`. From a settled, healthy and converged state, with a size that is
within the threshold of the desired one but need not equal it, the passes go on
with every poll. `ConvergedStays` says that none of them resizes, degrades or
recreates, as long as `env` stands still, that is, without failures and other
actors. All copies of the ShadowWorkload, and the pass, hold the same currents
and the same measurement as the live status, so each patch repeats what is
there. TLC has no form for a box under a box; it checked `Resting` and its
step on the small instances.

The measurement. `OriginIsEndpoint` and `ValidateIsDeclared`: for two URLs that
parse, and whose hosts no trailing dot sets apart, the canonical origins are equal
exactly when `net/http` connects both to the same endpoint, which turns the
allowlist into a statement about connections. The policy strips one trailing dot
before it compares, and the request keeps it. For most names that makes no
difference. A name that the resolver extends with a search domain, as that of the
shipped default `kube-prometheus-stack-prometheus.monitoring`, is absolute with
the dot and may then denote another host or none; the policy takes the two
spellings for one. An IP address with a dot passes the policy, and then no
connection is made. `ExactlyDeclared` says nothing of these spellings, in a rule
or in a URL; it does hold for the shipped default as it is written.
`FailClosed` says, query by query, what the history of the store must have held
for the call to have come so far. `DescribeResolves` relates the two functions
that default a job and build a path, and `DescribedStep` carries the relation
from a pass into the status and past later passes.

Every invariant and every action property of the passing runs is a theorem,
within the hypotheses above. Only model-checked are the liveness properties
(`Convergence`, `Cleanup`, `Served`, `DoubleCountEnds`): they rest on fairness, and `ENABLED` is out
of the prover's reach. `ConvergedStays` is the half of `Convergence` that needs
no fairness. The counterexamples of the other runs are TLC's alone.

## 5. What is not modelled

- The grace period of a terminating pod: the controller deletes with grace
  period 0, but a user's delete leaves the pod visible for a while.
- Two managers that are both at work on passes. A deposed manager exits; what is
  modelled is the one write it may have under way. That write may also be a
  status patch, and then the status is stale until the next poll: `settled`
  therefore runs without orphaned writes, `ReadyMeasured` being false with them.
- The text of names, URLs and PromQL beyond what the modules tell apart: parsing
  by `net/url`, escaping in `promLabel`, IDNA, and what a resolver finds for a
  name (`Searched` is the set of those that it extends).
- Several ShadowWorkloads call by call: `Namespace` takes a pass as one step, as
  different keys share only the pod name and `Reconciler` has every other
  client's pod under that name as a foreign one. What falls between two calls of
  one pass is therefore missing there: another client or another key's pass
  between a Create that collides and the read and Delete after it, a cache that
  trails, foreign pods that nobody of the namespace owns, a terminating pod that
  still has its name. With a cache that trails, a report of Ready can itself be
  newer than the deletion of the phantom it is about; `OneReservationEach` counts
  from the report, and would have to count from the copy that was read.
- Owner references that are edited while the UID stays, ephemeral changes of a
  pod's containers, and in `Reconciler` `resolvedSource` field by field (it is
  one value there; `Measurement` has the fields).
- The times in the status, apart from `lastResize`, and Events, logs, messages;
  the values of gauges and counters (the failure counters among them: a pass with
  a good measurement and a refused resize both stamps the last success and counts
  a failure), and the registration of the collectors.
- Flags for TLS, probes, webhooks and logging, generated deep copies, and the
  scripts that verify releases: no state, or pure input and output.
- The kubelet's actuation of a resize: a request counts once it is accepted.

## 6. Plan

Done: the reconciler with its caches, its failures, its late writes and its
properties; the abstract reservation and its refinement; names; the measurement
from the command line to the status; and theorems about each.

1. Each reading that `Reconciler` takes as one that `Measurement` can return, as
   a refinement between the two.
2. The pure functions of `Phantom` on their own, as lemmas for all numbers: the
   clamp is idempotent and monotone, rounding is off by half a millicore at most,
   and a drift that has been answered by a resize is none any more.
3. A weaker form of `SettledTruth` that also holds when the phantom's name is
   contested.
