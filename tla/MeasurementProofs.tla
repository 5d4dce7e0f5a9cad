------------------------- MODULE MeasurementProofs -------------------------
(***************************************************************************)
(* Proofs about Measurement: where requests go, what the status describes, *)
(* and when a workload counts as stopped.                                  *)
(***************************************************************************)
EXTENDS Measurement, TLAPS

USE DEF Host, HostKinds

(* Canonical host names are equal when their kinds and names are.          *)
LEMMA HostRecords ==
  ASSUME NEW k1, NEW n1, NEW k2, NEW n2
  PROVE  [kind |-> k1, name |-> n1, variant |-> FALSE, dots |-> 0]
           = [kind |-> k2, name |-> n2, variant |-> FALSE, dots |-> 0]
         <=> k1 = k2 /\ n1 = n2
OBVIOUS

(* Where no trailing dot decides, spellings that the policy takes for one  *)
(* origin are connected to one endpoint, and spellings of one endpoint     *)
(* have one origin (parsePrometheusURL, canonicalHostname).                *)
LEMMA OriginIsEndpoint ==
  ASSUME NEW u \in URL, NEW v \in URL, Parses(u), Parses(v),
         ~Rooted(u.host), ~Rooted(v.host)
  PROVE  Origin(u) = Origin(v) <=> Endpoint(u) = Endpoint(v)
<1>1. \A w : Parses(w) =>
        /\ ToLower(w.scheme) \in {"http", "https"}
        /\ canonicalHostname(w.host).dots = 0
  BY Zenon DEF Parses, Canonicalizable
<1>2. /\ u.host \in Host /\ v.host \in Host
      /\ u.scheme \in {"http", "HTTP", "https", "HTTPS"}
      /\ v.scheme \in {"http", "HTTP", "https", "HTTPS"}
  BY <1>1 DEF ToLower, URL
<1>8. canonicalHostname(u.host)
        = [kind |-> u.host.kind, name |-> u.host.name, variant |-> FALSE, dots |-> 0]
      /\ canonicalHostname(v.host)
        = [kind |-> v.host.kind, name |-> v.host.name, variant |-> FALSE, dots |-> 0]
  BY <1>1 DEF canonicalHostname
<1>3. ASSUME NEW w \in URL, w.scheme \in {"http", "HTTP", "https", "HTTPS"}
      PROVE  Endpoint(w).port = Port(w)
  BY <1>3 DEF Endpoint, Port, DefaultPort, ToLower
<1>4. Endpoint(u).tls = Endpoint(v).tls <=> ToLower(u.scheme) = ToLower(v.scheme)
  BY <1>2 DEF Endpoint, ToLower
<1>5. canonicalHostname(u.host) = canonicalHostname(v.host)
        <=> Endpoint(u).host = Endpoint(v).host
  <2>1. canonicalHostname(u.host) = canonicalHostname(v.host)
          <=> u.host.kind = v.host.kind /\ u.host.name = v.host.name
    <3>1. PICK a, b, c, d : a = u.host.kind /\ b = u.host.name /\ c = v.host.kind /\ d = v.host.name
      OBVIOUS
    <3>2. /\ canonicalHostname(u.host) = [kind |-> a, name |-> b, variant |-> FALSE, dots |-> 0]
          /\ canonicalHostname(v.host) = [kind |-> c, name |-> d, variant |-> FALSE, dots |-> 0]
      BY <1>8, <3>1, Zenon
    <3> QED
      BY <3>1, <3>2, HostRecords
  <2>2. Endpoint(u).host = Endpoint(v).host
          <=> u.host.kind = v.host.kind /\ u.host.name = v.host.name
    BY DEF Endpoint
  <2> QED
    BY <2>1, <2>2
<1>6. Origin(u) = Origin(v) <=>
        /\ ToLower(u.scheme) = ToLower(v.scheme)
        /\ canonicalHostname(u.host) = canonicalHostname(v.host)
        /\ Port(u) = Port(v)
  BY DEF Origin
<1>7. Endpoint(u) = Endpoint(v) <=>
        /\ Endpoint(u).tls = Endpoint(v).tls
        /\ Endpoint(u).host = Endpoint(v).host
        /\ Endpoint(u).port = Endpoint(v).port
  BY DEF Endpoint, Rooted
<1> QED
  BY <1>2, <1>3, <1>4, <1>5, <1>6, <1>7

(* A policy lets a URL through exactly when the flags it was made of       *)
(* declare its endpoint, where no trailing dot decides (Validate).         *)
LEMMA ValidateIsDeclared ==
  ASSUME NEW f, f.any \in BOOLEAN, f.rules \subseteq URL, ValidFlags(f),
         \A r \in f.rules : ~DotMatters(r),
         NEW u \in URL, Connects(u), ~Rooted(u.host)
  PROVE  Validate(NewDestinationPolicy(f), u) <=> Declares(f, Endpoint(u))
<1>1. Parses(u) /\ \A r \in f.rules : Parses(r) /\ TrimRight(r.path) = "" /\ ~Rooted(r.host)
  BY Zenon DEF Connects, ValidFlags, ValidRule, DotMatters
<1>2. \A r \in f.rules : Connects(r)
  BY <1>1, Zenon DEF Connects, DotMatters
<1>3. \A r \in f.rules : Origin(r) = Origin(u) <=> Endpoint(r) = Endpoint(u)
  BY <1>1, OriginIsEndpoint
<1>4. Origin(u) \in {Origin(r) : r \in f.rules} <=> \E r \in f.rules : Origin(r) = Origin(u)
  OBVIOUS
<1>5. CASE f.rules = {}
  BY <1>1, <1>4, <1>5 DEF Validate, NewDestinationPolicy, Declares
<1>6. CASE f.rules # {}
  <2>1. ~f.any
    BY <1>6 DEF ValidFlags
  <2>2. Declares(f, Endpoint(u)) <=> \E r \in f.rules : Origin(r) = Origin(u)
    BY <1>1, <1>2, <1>3, <1>6, Zenon DEF Declares
  <2> QED
    BY <1>1, <1>4, <2>1, <2>2 DEF Validate, NewDestinationPolicy
<1> QED
  BY <1>5, <1>6

(* What Describe says of a source selects what Resolve queries.            *)
LEMMA DescribeResolves ==
  ASSUME NEW s \in SourceSpec, Resolvable(s), Describe(s).type \notin {"", "promql"}
  PROVE  /\ Resolve(s).series = Reads(Describe(s))
         /\ Resolve(s).target = Describe(s).target
<1>1. s.type \in {"docker", "cgroup", "systemd"} /\ s.unit # "*"
  BY UnitsAssumption DEF SourceSpec, Types, Describe
<1>2. Describe(s) = [type |-> s.type, path |-> CgroupPath(s),
                     target |-> [job |-> cadvisorJob(s.job), instance |-> s.instance]]
  BY <1>1 DEF Describe, DescribedJob
<1>3. Resolve(s).series = Ids(s)
      /\ Resolve(s).target = [job |-> cadvisorJob(s.job), instance |-> s.instance]
  BY <1>1 DEF Resolve, Target
<1>4. CASE s.type = "docker"
  BY <1>2, <1>3, <1>4 DEF Ids, Reads
<1>5. CASE s.type = "cgroup" /\ s.form = "glob"
  BY <1>2, <1>3, <1>5 DEF Ids, Reads, CgroupPath
<1>6. CASE s.type = "cgroup" /\ s.form # "glob"
  BY <1>1, <1>2, <1>3, <1>6 DEF Ids, Reads, CgroupPath
<1>7. CASE s.type = "systemd"
  BY <1>2, <1>3, <1>7 DEF Ids, Reads, CgroupPath
<1> QED
  BY <1>1, <1>4, <1>5, <1>6, <1>7

(***************************************************************************)
(* When a workload counts as stopped.                                      *)
(***************************************************************************)
Histories == [down : BOOLEAN, ran : BOOLEAN, gap : BOOLEAN, blind : BOOLEAN]

ClientType ==
  /\ typed \in BOOLEAN /\ running \in BOOLEAN
  /\ up \in {"none", "0", "1"} /\ samples \in Nat
  /\ pc \in {"idle", "cpu", "memory", "health"}
  /\ seen \in Histories

(* The inductive invariant: while a call is under way, a target seen up    *)
(* was not down throughout, and a window seen empty is remembered; the     *)
(* health query is reached only from an empty pair of a typed source.      *)
InFlight == pc # "idle" => (up = "1" => ~seen.down) /\ (samples = 0 => seen.gap)

Gapped == pc = "health" => typed /\ seen.gap

Closed == pc = "idle" /\ typed /\ ReportedOff => ~seen.down /\ seen.gap

FailClosed == ClientType /\ InFlight /\ Gapped /\ Closed

(* Query answers that a series is absent only when it got an empty vector. *)
LEMMA AbsentIsEmpty ==
  ASSUME NEW a \in Answer, Query(a).err = "", ~Query(a).found
  PROVE  a = Empty
<1>1. CASE a.kind = "error"
  BY <1>1 DEF Query, Absent
<1>2. CASE a.kind = "many"
  BY <1>2 DEF Query, Absent
<1>3. CASE a.kind = "one" /\ a.value = "NaN"
  BY <1>3 DEF Query, Absent
<1>4. CASE a.kind = "one" /\ a.value # "NaN"
  BY <1>4 DEF Query, Absent
<1>5. CASE a.kind = "empty"
  BY <1>5 DEF Answer, Empty
<1> QED
  BY <1>1, <1>2, <1>3, <1>4, <1>5 DEF Answer

(* An accounting query of a typed source comes back empty only when the    *)
(* window holds fewer scrapes than it needs.                               *)
LEMMA TypedAbsence ==
  ASSUME typed, NEW n \in Nat, NEW a \in Accounting(n),
         Query(a).err = "", ~Query(a).found
  PROVE  ~(samples >= n)
<1>1. a \in {Failed} \cup (IF samples >= n THEN {One(v) : v \in Values} ELSE {Empty})
  BY Zenon DEF Accounting
<1>3. a = Failed \/ a = Empty \/ \E v \in Values : a = One(v)
  BY <1>1
<1>4. a \in Answer
  <2>1. Failed \in Answer /\ Empty \in Answer
    BY DEF Answer, Failed, Empty
  <2>2. \A v \in Values : One(v) \in Answer
    BY DEF Answer, One
  <2> QED
    BY <1>3, <2>1, <2>2, Zenon
<1>2. a = Empty
  BY <1>4, AbsentIsEmpty
<1> QED
  BY <1>1, <1>2 DEF Failed, One, Empty

(* The health check accepts one up sample only.                            *)
LEMMA HealthyIsUp ==
  ASSUME NEW a \in HealthAnswers, TargetUp(Query(a)), up \in {"none", "0", "1"}
  PROVE  up = "1"
<1>1. a \notin {Failed, Several, Empty}
  BY DEF Query, Failed, Several, Empty, Absent, TargetUp
<1>2. a # One("other")
  BY DEF Query, One, Absent, TargetUp
<1> QED
  BY <1>1, <1>2 DEF HealthAnswers

(* An answer is remembered; what else the history tells stays.             *)
LEMMA AnsweredType ==
  ASSUME seen \in Histories, Answered
  PROVE  seen' \in Histories /\ seen'.down = seen.down /\ seen'.gap = seen.gap
BY DEF Answered, Histories

(* A call starts with an empty history.                                    *)
LEMMA StartStep == ASSUME FailClosed, NEW t \in BOOLEAN, Start(t) PROVE FailClosed'
BY DEF FailClosed, ClientType, InFlight, Gapped, Closed, ReportedOff, Start, Histories, NoResult

(* A result with an error, or with a value, does not say off.              *)
LEMMA NotOff ==
  /\ \A e, f : e # "" => [err |-> e, found |-> f] # [err |-> "", found |-> FALSE]
  /\ [err |-> "", found |-> TRUE] # [err |-> "", found |-> FALSE]
<1>1. ASSUME NEW e, NEW f, [err |-> e, found |-> f] = [err |-> "", found |-> FALSE]
      PROVE  e = ""
  <2>1. [err |-> e, found |-> f].err = [err |-> "", found |-> FALSE].err
    BY <1>1
  <2> QED
    BY <2>1
<1>2. [err |-> "", found |-> TRUE].found # [err |-> "", found |-> FALSE].found
  OBVIOUS
<1> QED
  BY <1>1, <1>2

(* The CPU query ends the call with an error, or goes on.                  *)
LEMMA CPUStep == ASSUME FailClosed, QueryCPU PROVE FailClosed'
<1>1. ClientType' /\ seen'.down = seen.down /\ seen'.gap = seen.gap
  BY AnsweredType DEF FailClosed, ClientType, QueryCPU, Finish, world
<1>2. PICK e : \/ e # "" /\ pc' = "idle" /\ result' = [err |-> e, found |-> FALSE]
               \/ pc' = "memory"
  BY Zenon DEF QueryCPU, Finish
<1>3. (pc' = "idle" /\ ~ReportedOff') \/ pc' = "memory"
  BY <1>2, NotOff, Zenon DEF ReportedOff
<1>4. pc # "idle" /\ UNCHANGED <<up, samples, typed>>
  BY DEF QueryCPU, world
<1> QED
  BY <1>1, <1>3, <1>4 DEF FailClosed, InFlight, Gapped, Closed

(* The memory query says off only for an untyped source, or asks for the   *)
(* target's health first.                                                  *)
LEMMA MemoryStep == ASSUME FailClosed, QueryMemory PROVE FailClosed'
<1>1. ClientType' /\ seen'.down = seen.down /\ seen'.gap = seen.gap
  BY AnsweredType DEF FailClosed, ClientType, QueryMemory, Finish, world
<1>2. pc # "idle" /\ UNCHANGED <<up, samples, typed>>
  BY DEF QueryMemory, world
<1>3. PICK a \in MemoryAnswers :
        \/ Query(a).err # "" /\ pc' = "idle" /\ result' = [err |-> Query(a).err, found |-> FALSE]
        \/ pc' = "idle" /\ result' = [err |-> "PartialSample", found |-> FALSE]
        \/ pc' = "idle" /\ ~typed
        \/ pc' = "health" /\ typed /\ Query(a).err = "" /\ ~Partial(Query(a)) /\ ~cpu.found
        \/ pc' = "idle" /\ result' = [err |-> "", found |-> TRUE]
        \/ pc' = "idle" /\ result' = [err |-> "InvalidSample", found |-> FALSE]
  BY Zenon DEF QueryMemory, Finish
<1>4. ASSUME typed, Query(a).err = "", ~Partial(Query(a)), ~cpu.found
      PROVE  samples = 0
  <2>1. ~Query(a).found
    BY <1>4, Zenon DEF Partial
  <2>2. ~(samples >= 1)
    BY <1>4, <2>1, TypedAbsence DEF MemoryAnswers
  <2> QED
    BY <2>2 DEF FailClosed, ClientType
<1>5. \/ pc' = "idle" /\ (~ReportedOff' \/ ~typed)
      \/ pc' = "health" /\ typed /\ samples = 0
  BY <1>3, <1>4, NotOff, Zenon DEF ReportedOff
<1> QED
  BY <1>1, <1>2, <1>5 DEF FailClosed, ClientType, InFlight, Gapped, Closed

(* The health query lets a call end as off only when the target is up.     *)
LEMMA HealthStep == ASSUME FailClosed, QueryHealth PROVE FailClosed'
<1>1. ClientType' /\ seen'.down = seen.down /\ seen'.gap = seen.gap
  BY AnsweredType DEF FailClosed, ClientType, QueryHealth, Finish, world
<1>2. pc = "health" /\ UNCHANGED <<up, samples, typed>>
  BY DEF QueryHealth, world
<1>3. PICK a \in HealthAnswers :
        /\ pc' = "idle"
        /\ ~TargetUp(Query(a)) => result' = [err |-> "TargetUnavailable", found |-> FALSE]
  BY Zenon DEF QueryHealth, Finish
<1>4. TargetUp(Query(a)) => up = "1"
  BY HealthyIsUp DEF FailClosed, ClientType
<1>5. pc' = "idle" /\ (~ReportedOff' \/ up = "1")
  BY <1>3, <1>4, NotOff, Zenon DEF ReportedOff
<1> QED
  BY <1>1, <1>2, <1>5 DEF FailClosed, InFlight, Gapped, Closed

(* Whatever happens to the store in between, the history records it.       *)
LEMMA ElapsedStep ==
  ASSUME FailClosed, Elapsed,
         running' \in BOOLEAN, up' \in {"none", "0", "1"}, samples' \in Nat
  PROVE  FailClosed'
<1>1. UNCHANGED <<typed, pc, result>>
  BY DEF Elapsed
<1>2. CASE pc = "idle"
  <2>1. seen' = seen
    BY <1>2 DEF Elapsed
  <2>2. ClientType'
    BY <1>1, <2>1 DEF FailClosed, ClientType
  <2>3. Closed'
    BY <1>1, <2>1, Zenon DEF FailClosed, Closed, ReportedOff
  <2> QED
    BY <1>1, <1>2, <2>2, <2>3 DEF FailClosed, InFlight, Gapped
<1>3. CASE pc # "idle"
  <2>1. seen' = [down |-> seen.down /\ up' # "1", ran |-> seen.ran /\ running',
                 gap |-> seen.gap \/ samples' = 0, blind |-> seen.blind]
    BY <1>3 DEF Elapsed
  <2>2. ClientType'
    BY <1>1, <2>1 DEF FailClosed, ClientType, Histories
  <2> QED
    BY <1>1, <1>3, <2>1, <2>2 DEF FailClosed, InFlight, Gapped, Closed
<1> QED
  BY <1>2, <1>3

(* Every step of the store is such a change.                               *)
LEMMA WorldStep ==
  ASSUME FailClosed,
         WorkloadChanges \/ TargetChanges \/ Scrape \/ WindowSlides \/ TargetRemoved
  PROVE  FailClosed'
<1>1. Elapsed
  BY DEF WorkloadChanges, TargetChanges, Scrape, WindowSlides, TargetRemoved
<1>2. running' \in BOOLEAN /\ up' \in {"none", "0", "1"} /\ samples' \in Nat
  <2>1. CASE WorkloadChanges
    BY <2>1 DEF FailClosed, ClientType, WorkloadChanges
  <2>2. CASE TargetChanges
    BY <2>2 DEF FailClosed, ClientType, TargetChanges
  <2>3. CASE Scrape
    BY <2>3 DEF FailClosed, ClientType, Scrape
  <2>4. CASE WindowSlides
    BY <2>4 DEF FailClosed, ClientType, WindowSlides
  <2>5. CASE TargetRemoved
    BY <2>5 DEF FailClosed, ClientType, TargetRemoved
  <2> QED
    BY <2>1, <2>2, <2>3, <2>4, <2>5
<1> QED
  BY <1>1, <1>2, ElapsedStep

(* The end of the process, and a pass that sends nothing, leave no result. *)
LEMMA ResetStep ==
  ASSUME FailClosed, UNCHANGED world, pc' = "idle", result' = NoResult, seen' = Unseen
  PROVE  FailClosed'
BY DEF FailClosed, ClientType, Histories, InFlight, Gapped, Closed, ReportedOff, world,
       NoResult, Unseen

(* A stutter keeps the invariant.                                          *)
LEMMA UnchangedStep == ASSUME FailClosed, UNCHANGED vars PROVE FailClosed'
<1>1. /\ UNCHANGED typed /\ UNCHANGED running /\ UNCHANGED up /\ UNCHANGED samples
      /\ UNCHANGED pc /\ UNCHANGED seen /\ UNCHANGED result
  BY DEF vars
<1>2. ClientType' /\ InFlight' /\ Gapped'
  BY <1>1 DEF FailClosed, ClientType, InFlight, Gapped
<1>3. Closed'
  BY <1>1, Zenon DEF FailClosed, Closed, ReportedOff
<1> QED
  BY <1>2, <1>3 DEF FailClosed

(* So does every step of a measurement and of what surrounds it.           *)
LEMMA FailClosedStep ==
  ASSUME FailClosed, [NextMeasurement]_allVars PROVE FailClosed'
<1>1. CASE StartManager \/ UNCHANGED allVars
  <2>1. UNCHANGED vars
    BY <1>1 DEF StartManager, allVars
  <2> QED
    BY <2>1, UnchangedStep
<1>2. CASE Exit
  BY <1>2, ResetStep DEF Exit
<1>3. CASE Unresolved \/ Refused
  <2>1. pc = "idle" /\ SourceInvalid
    BY <1>3 DEF Unresolved, Refused, Opened
  <2> QED
    BY <2>1, ResetStep DEF SourceInvalid
<1>4. CASE Begin
  <2>1. PICK t \in BOOLEAN : Start(t)
    BY <1>4 DEF Begin
  <2> QED
    BY <2>1, StartStep
<1>5. CASE MeasureCPU
  BY <1>5, CPUStep DEF MeasureCPU
<1>6. CASE MeasureMemory
  BY <1>6, MemoryStep DEF MeasureMemory
<1>7. CASE MeasureHealth
  BY <1>7, HealthStep DEF MeasureHealth
<1>8. CASE WorkloadChanges \/ TargetChanges \/ Scrape \/ WindowSlides \/ TargetRemoved
  BY <1>8, WorldStep
<1> QED
  BY <1>1, <1>2, <1>3, <1>4, <1>5, <1>6, <1>7, <1>8 DEF NextMeasurement

(* It holds before the first call.                                         *)
LEMMA FailClosedInit == ASSUME InitMeasurement PROVE FailClosed
<1>1. ClientType /\ pc = "idle"
  BY TypedAssumption DEF InitMeasurement, Init, ClientType, Histories, Unseen
<1>2. ~ReportedOff
  <2>1. result = [err |-> "none", found |-> FALSE]
    BY DEF InitMeasurement, Init, NoResult
  <2> QED
    BY <2>1, NotOff, Zenon DEF ReportedOff
<1> QED
  BY <1>1, <1>2 DEF FailClosed, InFlight, Gapped, Closed

(* A typed source whose target stays down for the whole call is never      *)
(* reported off (the health query of QueryPair).                           *)
THEOREM DownTargetFailsClosedAlways == SpecMeasurement => []DownTargetFailsClosed
<1>1. FailClosed => DownTargetFailsClosed
  BY DEF FailClosed, Closed, DownTargetFailsClosed
<1> QED
  BY FailClosedInit, FailClosedStep, <1>1, PTL DEF SpecMeasurement

(* A typed source is reported off only when its window was empty at some   *)
(* moment of the call (the presence check of QueryPair).                   *)
THEOREM OffNeedsGapAlways == SpecMeasurement => []OffNeedsGap
<1>1. FailClosed => OffNeedsGap
  BY DEF FailClosed, Closed, OffNeedsGap
<1> QED
  BY FailClosedInit, FailClosedStep, <1>1, PTL DEF SpecMeasurement

(***************************************************************************)
(* Where requests go.                                                      *)
(***************************************************************************)

(* The policy is the one of valid flags, for as long as the process runs.  *)
PolicyOfFlags ==
  /\ policy = NewDestinationPolicy(flags)
  /\ flags.any \in BOOLEAN /\ flags.rules \subseteq URL /\ ValidFlags(flags)

Declared ==
  /\ PolicyOfFlags /\ ExactlyDeclared
  /\ flags = NoFlags => call = NoCall

(* A pass asks a URL that the policy of its flags has let through.         *)
LEMMA AskedStep ==
  ASSUME Declared, NEW q, NEW d, NEW u \in URL, call' = Asked(q, d, u), flags # NoFlags,
         UNCHANGED <<flags, policy>>
  PROVE  Declared'
<1>1. PolicyOfFlags'
  BY Zenon DEF Declared, PolicyOfFlags
<1>2. /\ call'.endpoint = IF Connects(u) THEN Endpoint(u) ELSE Nowhere
      /\ call'.permitted = Validate(policy, u)
  BY DEF Asked
<1>3. UNCHANGED flags /\ UNCHANGED policy
  OBVIOUS
<1>4. ASSUME Connects(u), ~call'.endpoint.rooted, \A r \in flags.rules : ~DotMatters(r)
      PROVE  call'.permitted <=> Declares(flags, call'.endpoint)
  <2>1. call'.endpoint = Endpoint(u)
    BY <1>2, <1>4, Zenon
  <2>2. Endpoint(u).rooted = Rooted(u.host)
    BY DEF Endpoint
  <2>3. Validate(policy, u) <=> Declares(flags, Endpoint(u))
    <3>1. /\ policy = NewDestinationPolicy(flags)
          /\ flags.any \in BOOLEAN /\ flags.rules \subseteq URL /\ ValidFlags(flags)
      BY Zenon DEF Declared, PolicyOfFlags
    <3>2. ~Rooted(u.host)
      BY <1>4, <2>1, <2>2, Zenon
    <3>3. Validate(NewDestinationPolicy(flags), u) <=> Declares(flags, Endpoint(u))
      BY <1>4, <3>1, <3>2, ValidateIsDeclared
    <3> QED
      BY <3>1, <3>3, Zenon
  <2> QED
    BY <1>2, <2>1, <2>3, Zenon
<1>5. ExactlyDeclared'
  BY <1>2, <1>3, <1>4, Zenon DEF ExactlyDeclared
<1> QED
  BY <1>1, <1>5, Zenon DEF Declared

(* Without a call there is nothing to show.                                *)
LEMMA NoCallStep ==
  ASSUME PolicyOfFlags', call' = NoCall PROVE Declared'
BY Zenon DEF Declared, ExactlyDeclared, NoCall

(* A manager that has not started has the policy of no flags.              *)
LEMMA NoFlagsPolicy ==
  /\ NoPolicy = NewDestinationPolicy(NoFlags)
  /\ NoFlags.any \in BOOLEAN /\ NoFlags.rules \subseteq URL /\ ValidFlags(NoFlags)
BY DEF NoPolicy, NoFlags, NewDestinationPolicy, ValidFlags

(* Every step keeps the call declared by the flags of its process.         *)
LEMMA DeclaredStep == ASSUME Declared, [NextMeasurement]_allVars PROVE Declared'
<1>1. CASE StartManager
  <2>1. UNCHANGED call
    BY <1>1 DEF StartManager
  <2>2. CASE UNCHANGED <<flags, policy>>
    BY <2>1, <2>2, Zenon DEF Declared, PolicyOfFlags, ExactlyDeclared
  <2>3. CASE \E f \in Flags : ValidFlags(f) /\ flags' = f /\ policy' = NewDestinationPolicy(f)
    <3>1. PolicyOfFlags'
      BY <2>3, FlagsAssumption, Zenon DEF PolicyOfFlags
    <3>2. call = NoCall
      BY <1>1, Zenon DEF StartManager, Declared
    <3> QED
      BY <2>1, <3>1, <3>2, NoCallStep, Zenon
  <2> QED
    BY <1>1, <2>2, <2>3, Zenon DEF StartManager
<1>2. CASE Exit
  <2>1. PolicyOfFlags'
    BY <1>2, NoFlagsPolicy, Zenon DEF Exit, PolicyOfFlags
  <2> QED
    BY <1>2, <2>1, NoCallStep, Zenon DEF Exit
<1>3. CASE Unresolved
  BY <1>3, NoCallStep, Zenon DEF Unresolved, Opened, Declared, PolicyOfFlags
<1>4. CASE Refused \/ Begin
  <2>1. PICK q, d : \E u \in Backends : call' = Asked(q, d, u)
    BY <1>4, Zenon DEF Refused, Begin, Permitted
  <2>2. flags # NoFlags /\ UNCHANGED <<flags, policy>>
    BY <1>4 DEF Refused, Begin, Opened
  <2> QED
    BY <2>1, <2>2, AskedStep, BackendsAssumption
<1>5. CASE MeasureCPU \/ MeasureMemory \/ MeasureHealth
  <2>1. Recorded
    BY <1>5 DEF MeasureCPU, MeasureMemory, MeasureHealth
  <2>2. UNCHANGED flags /\ UNCHANGED policy /\ (call' = NoCall \/ call' = call)
    BY <2>1 DEF Recorded
  <2>3. PolicyOfFlags'
    BY <2>2, Zenon DEF Declared, PolicyOfFlags
  <2> QED
    BY <2>2, <2>3, NoCallStep, Zenon DEF Declared, ExactlyDeclared
<1>6. CASE UNCHANGED mine \/ UNCHANGED allVars
  <2>1. UNCHANGED flags /\ UNCHANGED policy /\ UNCHANGED call
    BY <1>6 DEF mine, allVars
  <2> QED
    BY <2>1, Zenon DEF Declared, PolicyOfFlags, ExactlyDeclared
<1> QED
  BY <1>1, <1>2, <1>3, <1>4, <1>5, <1>6 DEF NextMeasurement

(* It holds before the manager starts.                                     *)
LEMMA DeclaredInit == ASSUME InitMeasurement PROVE Declared
BY NoFlagsPolicy, Zenon DEF InitMeasurement, Declared, PolicyOfFlags, ExactlyDeclared, NoCall

(* For all flags, URLs and spellings where no trailing dot decides the     *)
(* endpoint: a pass is let through exactly when the flags declare the      *)
(* endpoint it is connected to, be the flags good, bad or partly bad       *)
(* (NewDestinationPolicy, Validate, NewClient).                            *)
THEOREM ExactlyDeclaredAlways == SpecMeasurement => []ExactlyDeclared
<1>1. Declared => ExactlyDeclared
  BY DEF Declared
<1> QED
  BY DeclaredInit, DeclaredStep, <1>1, PTL DEF SpecMeasurement

(***************************************************************************)
(* What the status describes.                                              *)
(***************************************************************************)
Described ==
  /\ DescribedIsMeasured
  /\ call.description.type \notin {"", "promql"} =>
       /\ call.queries.series = Reads(call.description)
       /\ call.queries.target = call.description.target

(* The absent call describes nothing.                                      *)
LEMMA NoCallType == NoCall.description.type = ""
BY DEF NoCall, NoDescription

(* The status takes over description and measurement together, or keeps    *)
(* both.                                                                   *)
LEMMA DescribedStep == ASSUME Described, [NextMeasurement]_allVars PROVE Described'
<1>1. CASE StartManager \/ UNCHANGED mine \/ UNCHANGED allVars
  <2>1. UNCHANGED call /\ UNCHANGED snapshot
    BY <1>1 DEF StartManager, mine, allVars
  <2> QED
    BY <2>1, Zenon DEF Described, DescribedIsMeasured
<1>2. CASE Exit \/ Unresolved \/ Refused
  <2>1. UNCHANGED snapshot /\ call'.description.type = ""
    <3>1. UNCHANGED snapshot /\ (call' = NoCall \/ \E u : call' = Asked(NoQueries, NoDescription, u))
      BY <1>2, Zenon DEF Exit, Unresolved, Refused, Opened
    <3>2. NoDescription.type = "" /\ NoCall.description = NoDescription
      BY DEF NoDescription, NoCall
    <3>3. \A u : Asked(NoQueries, NoDescription, u).description = NoDescription
      BY DEF Asked
    <3>4. call'.description = NoDescription
      BY <3>1, <3>2, <3>3, Zenon
    <3> QED
      BY <3>1, <3>2, <3>4, Zenon
  <2> QED
    BY <2>1, Zenon DEF Described, DescribedIsMeasured
<1>3. CASE Begin
  <2>1. PICK s \in Sources, u \in Backends : Resolvable(s) /\ call' = Asked(Resolve(s), Describe(s), u)
    BY <1>3, Zenon DEF Begin, Permitted
  <2>2. UNCHANGED snapshot
    BY <1>3 DEF Begin, Opened
  <2>3. call'.queries = Resolve(s) /\ call'.description = Describe(s)
    BY <2>1 DEF Asked
  <2>4. s \in SourceSpec
    BY SourcesAssumption
  <2>5. Describe(s).type \notin {"", "promql"} =>
          /\ Resolve(s).series = Reads(Describe(s))
          /\ Resolve(s).target = Describe(s).target
    BY <2>1, <2>4, DescribeResolves, Zenon
  <2> QED
    BY <2>2, <2>3, <2>5, Zenon DEF Described, DescribedIsMeasured
<1>4. CASE MeasureCPU \/ MeasureMemory \/ MeasureHealth
  <2>1. Recorded
    BY <1>4 DEF MeasureCPU, MeasureMemory, MeasureHealth
  <2>2. call' = call \/ call'.description.type = ""
    BY <2>1, NoCallType, Zenon DEF Recorded
  <2>3. \/ UNCHANGED snapshot
        \/ /\ snapshot'.series = call.queries.series /\ snapshot'.target = call.queries.target
           /\ snapshot'.description = call.description
    <3>1. \/ UNCHANGED snapshot
          \/ snapshot' = [series |-> call.queries.series, target |-> call.queries.target,
                          description |-> call.description]
      BY <2>1, Zenon DEF Recorded
    <3> QED
      BY <3>1
  <2> QED
    BY <2>2, <2>3, Zenon DEF Described, DescribedIsMeasured
<1> QED
  BY <1>1, <1>2, <1>3, <1>4 DEF NextMeasurement

(* It holds of an empty status.                                            *)
LEMMA DescribedInit == ASSUME InitMeasurement PROVE Described
BY DEF InitMeasurement, Described, DescribedIsMeasured, NoCall, NoSnapshot, NoDescription

(* resolvedSource always describes the series and the target that          *)
(* lastMeasurement was measured from (Resolve, Describe, measure).         *)
THEOREM DescribedIsMeasuredAlways == SpecMeasurement => []DescribedIsMeasured
<1>1. Described => DescribedIsMeasured
  BY DEF Described
<1> QED
  BY DescribedInit, DescribedStep, <1>1, PTL DEF SpecMeasurement
=============================================================================
