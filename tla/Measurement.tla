---------------------------- MODULE Measurement ----------------------------
(***************************************************************************)
(* controller.measure with everything it is built from: the destination    *)
(* policy that the manager makes of its flags, the resolution of the       *)
(* source, the queries of MetricsClient and the snapshot that goes into    *)
(* the status.  A pass works on a copy of its ShadowWorkload, so the spec  *)
(* is chosen anew for every pass: between two of them its author may have  *)
(* changed anything.                                                       *)
(***************************************************************************)
EXTENDS MetricsClient, DestinationPolicy, SourceResolver

CONSTANTS
  Flags,      \* command lines: rules and the allow-any switch
  Sources,    \* the source declarations of users
  Backends    \* the URLs users give as prometheusURL

ASSUME FlagsAssumption    == \A f \in Flags : f.up /\ f.any \in BOOLEAN /\ f.rules \subseteq URL
ASSUME SourcesAssumption  == Sources \subseteq {s \in SourceSpec : Admitted(s)}
ASSUME BackendsAssumption == Backends \subseteq URL

VARIABLES
  flags,      \* the command line of the process, NoFlags while it is down
  policy,     \* its PrometheusDestinationPolicy; the zero value denies all
  call,       \* the pass in flight, or refused: its queries, its description, its backend
  snapshot    \* what status.lastMeasurement was read from, and status.resolvedSource

mine    == <<flags, policy, call, snapshot>>
allVars == <<vars, mine>>

(***************************************************************************)
(* The manager.  A bad command line ends the process before it starts.     *)
(***************************************************************************)
NoFlags == [any |-> FALSE, rules |-> {}, up |-> FALSE]

NoPolicy == [allowAny |-> FALSE, allowed |-> {}]

NoSeries == [match |-> "none", path |-> <<>>]

NoQueries == [series |-> NoSeries, target |-> NoTarget, health |-> NoTarget]

NoDescription == [type |-> "", path |-> <<>>, target |-> NoTarget]

NoCall == [queries |-> NoQueries, description |-> NoDescription,
           endpoint |-> Nowhere, permitted |-> FALSE]

NoSnapshot == [series |-> NoSeries, target |-> NoTarget,
               description |-> NoDescription]

StartManager ==
  /\ flags = NoFlags
  /\ \E f \in Flags :
       IF ValidFlags(f)
         THEN flags' = f /\ policy' = NewDestinationPolicy(f)
         ELSE UNCHANGED <<flags, policy>>
  /\ UNCHANGED <<vars, call, snapshot>>

(* The process ends, with a pass in flight or not; the status stays.       *)
Exit ==
  /\ flags # NoFlags
  /\ flags' = NoFlags /\ policy' = NoPolicy
  /\ pc' = "idle" /\ cpu' = Absent /\ result' = NoResult
  /\ call' = NoCall
  /\ seen' = Unseen
  /\ UNCHANGED <<world, snapshot>>

(***************************************************************************)
(* A pass.  Resolve comes first, then Describe and NewClient, which asks   *)
(* the policy before anything is sent.                                     *)
(***************************************************************************)
Opened ==
  /\ flags # NoFlags /\ pc = "idle"
  /\ UNCHANGED <<flags, policy, snapshot>>

SourceInvalid ==
  /\ result' = NoResult /\ seen' = Unseen
  /\ UNCHANGED <<world, pc, cpu>>

Asked(queries, description, u) ==
  [queries |-> queries, description |-> description,
   endpoint |-> IF Connects(u) THEN Endpoint(u) ELSE Nowhere,
   permitted |-> Validate(policy, u)]

Permitted == {u \in Backends : Validate(policy, u)}

Unresolved ==
  /\ Opened
  /\ \E s \in Sources : ~Resolvable(s)
  /\ call' = NoCall
  /\ SourceInvalid

(* What was resolved is dropped with the pass.                             *)
Refused ==
  /\ Opened
  /\ \E s \in Sources : Resolvable(s)
  /\ call' \in {Asked(NoQueries, NoDescription, u) : u \in Backends \ Permitted}
  /\ SourceInvalid

Begin ==
  /\ Opened
  /\ \E s \in Sources :
       /\ Resolvable(s)
       /\ call' \in {Asked(Resolve(s), Describe(s), u) : u \in Permitted}
       /\ Start(Resolve(s).health # NoTarget)

(* What measure does once QueryPair has returned.  The pair of status      *)
(* fields is one value here: module Reconciler has the patch that writes   *)
(* it, and the crashes and conflicts that lose it.                         *)
Recorded ==
  /\ call' = IF pc' = "idle" THEN NoCall ELSE call
  /\ IF pc' = "idle" /\ result'.err = ""
       THEN snapshot' = [series |-> call.queries.series, target |-> call.queries.target,
                         description |-> call.description]
       ELSE UNCHANGED snapshot
  /\ UNCHANGED <<flags, policy>>

MeasureCPU    == QueryCPU /\ Recorded
MeasureMemory == QueryMemory /\ Recorded
MeasureHealth == QueryHealth /\ Recorded

InitMeasurement ==
  /\ Init
  /\ flags = NoFlags /\ policy = NoPolicy
  /\ call = NoCall /\ snapshot = NoSnapshot

NextMeasurement ==
  \/ StartManager \/ Exit
  \/ Unresolved \/ Refused \/ Begin
  \/ MeasureCPU \/ MeasureMemory \/ MeasureHealth
  \/ WorkloadChanges /\ UNCHANGED mine
  \/ TargetChanges /\ UNCHANGED mine
  \/ Scrape /\ UNCHANGED mine
  \/ WindowSlides /\ UNCHANGED mine
  \/ TargetRemoved /\ UNCHANGED mine

SpecMeasurement == InitMeasurement /\ [][NextMeasurement]_allVars

(***************************************************************************)
(* Properties.  DownTargetFailsClosed and OffNeedsGap are those of         *)
(* MetricsClient.                                                          *)
(***************************************************************************)

(* Requests go exactly where the operator's flags say: a pass is let       *)
(* through to a URL if and only if net/http connects it to an endpoint     *)
(* that a rule connects to, whatever the spelling of the two, or if any    *)
(* endpoint is allowed; and no process runs under flags that are only      *)
(* partly good (DestinationPolicy.Validate, NewClient).  Nothing is said   *)
(* where a trailing dot decides the endpoint.                              *)
ExactlyDeclared ==
  /\ call.endpoint # Nowhere /\ ~call.endpoint.rooted
  /\ \A r \in flags.rules : ~DotMatters(r)
  => (call.permitted <=> Declares(flags, call.endpoint))

(* The durable snapshot of the status describes what was really measured:  *)
(* a reader who selects what resolvedSource says selects the series and    *)
(* the target of the accounting queries that gave lastMeasurement, through *)
(* later failures, edits and restarts (Resolve, Describe, measure).        *)
DescribedIsMeasured ==
  snapshot.description.type \notin {"", "promql"} =>
    /\ snapshot.series = Reads(snapshot.description)
    /\ snapshot.target = snapshot.description.target
=============================================================================
