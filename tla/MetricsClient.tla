--------------------------- MODULE MetricsClient ---------------------------
(***************************************************************************)
(* One measurement of internal/sources: Client.QueryPair issues up to      *)
(* three instant queries, one after the other, against a Prometheus whose  *)
(* store moves on between them.  The scrapes, the sliding window of the    *)
(* range functions, the cAdvisor target and the workload are external.     *)
(***************************************************************************)
EXTENDS Integers

CONSTANTS
  Typed       \* the sources with a TargetHealth query: TRUE, raw PromQL: FALSE

ASSUME TypedAssumption == Typed \subseteq BOOLEAN /\ Typed # {}

VARIABLES
  typed,      \* is the source of the call backed by a pinned cAdvisor target
  running,    \* is the shadowed workload running
  alive,      \* does the cAdvisor target answer scrapes
  up,         \* the up sample of the last scrape, "none" without a target
  samples,    \* scrapes of the workload inside the query window, up to two
  pc,         \* the next query
  cpu,        \* the outcome of the CPU query
  result,     \* what QueryPair returned last
  seen        \* history of the call, read by the properties only

world == <<typed, running, alive, up, samples>>
vars  == <<typed, running, alive, up, samples, pc, cpu, result, seen>>

(***************************************************************************)
(* Answers of the HTTP API.  An error is a failed request, a status other  *)
(* than 200, a body that does not decode, an error status, a result that   *)
(* is no vector or a sample that is no number.  A value is 1, a different  *)
(* acceptable one, one that no quantity can hold (negative, infinite, too  *)
(* large) or NaN.                                                          *)
(***************************************************************************)
Values == {"1", "other", "unrepresentable", "NaN"}

Answer == [kind : {"error", "empty", "many"}, value : {"none"}]
            \cup [kind : {"one"}, value : Values]

Outcome == [err : {"", "failed", "MultiSample", "InvalidSample"},
            found : BOOLEAN, value : Values \cup {"none"}]

Absent == [err |-> "", found |-> FALSE, value |-> "none"]

(* Query: exactly one sample, and not NaN.                                 *)
Query(a) ==
  CASE a.kind = "error" -> [Absent EXCEPT !.err = "failed"]
    [] a.kind = "empty" -> Absent
    [] a.kind = "many"  -> [Absent EXCEPT !.err = "MultiSample"]
    [] a.kind = "one" /\ a.value = "NaN" -> [Absent EXCEPT !.err = "InvalidSample"]
    [] OTHER -> [err |-> "", found |-> TRUE, value |-> a.value]

validResourceSample(value) == value # "unrepresentable"

(* Any query can fail.  A user's PromQL can return anything.  A generated  *)
(* accounting query sums to one sample, which rate() has from two scrapes  *)
(* on and avg_over_time() from one; up selects one target, or several when *)
(* its labels do not identify it.                                          *)
Failed    == [kind |-> "error", value |-> "none"]
Empty     == [kind |-> "empty", value |-> "none"]
One(v)    == [kind |-> "one", value |-> v]
Several   == [kind |-> "many", value |-> "none"]

Accounting(needed) ==
  IF ~typed THEN Answer
  ELSE {Failed} \cup (IF samples >= needed THEN {One(v) : v \in Values} ELSE {Empty})

CPUAnswers    == Accounting(2)
MemoryAnswers == Accounting(1)
HealthAnswers ==
  {Failed, Several}
    \cup (IF up = "none" THEN {Empty} ELSE {One(IF up = "1" THEN "1" ELSE "other")})

(***************************************************************************)
(* QueryPair.                                                              *)
(***************************************************************************)
Unseen == [down |-> FALSE, ran |-> FALSE, gap |-> FALSE, blind |-> FALSE]

NoResult == [err |-> "none", found |-> FALSE]

Finish(err, found) ==
  /\ pc' = "idle"
  /\ result' = [err |-> err, found |-> found]
  /\ UNCHANGED cpu

Start(t) ==
  /\ pc = "idle"
  /\ pc' = "cpu" /\ typed' = t
  /\ cpu' = Absent /\ result' = NoResult
  /\ seen' = [down |-> up # "1", ran |-> running, gap |-> samples = 0, blind |-> TRUE]
  /\ UNCHANGED <<running, alive, up, samples>>

(* What the history keeps of the store as a query is answered.             *)
Answered ==
  seen' = [down |-> seen.down, ran |-> seen.ran, gap |-> seen.gap,
           blind |-> seen.blind /\ (up = "0" \/ pc = "health")]

QueryCPU ==
  /\ pc = "cpu"
  /\ \E a \in CPUAnswers :
       LET out == Query(a)
       IN  \/ out.err # "" /\ Finish(out.err, FALSE)
           \/ out.err = "" /\ cpu' = out /\ pc' = "memory" /\ UNCHANGED result
  /\ Answered /\ UNCHANGED world

(* Both dimensions must have the same presence.                            *)
MutPartial(out) == FALSE

Partial(out) == cpu.found # out.found

QueryMemory ==
  /\ pc = "memory"
  /\ \E a \in MemoryAnswers :
       LET out == Query(a)
       IN  \/ out.err # "" /\ Finish(out.err, FALSE)
           \/ out.err = "" /\ Partial(out) /\ Finish("PartialSample", FALSE)
           \/ /\ out.err = "" /\ ~Partial(out) /\ ~cpu.found
              /\ \/ ~typed /\ Finish("", FALSE)
                 \/ typed /\ pc' = "health" /\ UNCHANGED <<cpu, result>>
           \/ /\ out.err = "" /\ ~Partial(out) /\ cpu.found
              /\ IF validResourceSample(cpu.value) /\ validResourceSample(out.value)
                   THEN Finish("", TRUE) ELSE Finish("InvalidSample", FALSE)
  /\ Answered /\ UNCHANGED world

(* An absent pair counts as stopped only when the target is up.            *)
MutTargetUp(out) == out.err = "" /\ out.found

TargetUp(out) == out.err = "" /\ out.found /\ out.value = "1"

QueryHealth ==
  /\ pc = "health"
  /\ \E a \in HealthAnswers :
       IF TargetUp(Query(a)) THEN Finish("", FALSE) ELSE Finish("TargetUnavailable", FALSE)
  /\ Answered /\ UNCHANGED world

(***************************************************************************)
(* The workload, the target and Prometheus.                                *)
(***************************************************************************)
Elapsed ==
  /\ seen' = IF pc = "idle" THEN seen
             ELSE [down |-> seen.down /\ up' # "1", ran |-> seen.ran /\ running',
                   gap |-> seen.gap \/ samples' = 0, blind |-> seen.blind]
  /\ UNCHANGED <<typed, pc, cpu, result>>

WorkloadChanges == running' = ~running /\ UNCHANGED <<alive, up, samples>> /\ Elapsed

TargetChanges == alive' = ~alive /\ UNCHANGED <<running, up, samples>> /\ Elapsed

Scrape ==
  /\ up' = IF alive THEN "1" ELSE "0"
  /\ samples' = IF alive /\ running /\ samples < 2 THEN samples + 1 ELSE samples
  /\ UNCHANGED <<running, alive>> /\ Elapsed

WindowSlides ==
  /\ samples > 0
  /\ samples' = samples - 1
  /\ UNCHANGED <<running, alive, up>> /\ Elapsed

TargetRemoved ==
  /\ up' = "none"
  /\ UNCHANGED <<running, alive, samples>> /\ Elapsed

Init ==
  /\ typed \in Typed
  /\ running \in BOOLEAN /\ alive \in BOOLEAN
  /\ up = "none" /\ samples = 0
  /\ pc = "idle" /\ cpu = Absent /\ result = NoResult
  /\ seen = Unseen

Next ==
  \/ (\E t \in Typed : Start(t)) \/ QueryCPU \/ QueryMemory \/ QueryHealth
  \/ WorkloadChanges \/ TargetChanges \/ Scrape \/ WindowSlides \/ TargetRemoved

Spec == Init /\ [][Next]_vars

(***************************************************************************)
(* Properties.                                                             *)
(***************************************************************************)
ReportedOff == result = [err |-> "", found |-> FALSE]

(* A typed source whose target stays down, or unknown, for the whole call  *)
(* is never reported off: the health check fails closed.                   *)
DownTargetFailsClosed == pc = "idle" /\ typed /\ ReportedOff => ~seen.down

(* A typed source is reported off only when, at some moment of the call,   *)
(* the window held no sample of it: half a pair never counts as stopped.   *)
OffNeedsGap == pc = "idle" /\ typed /\ ReportedOff => seen.gap

(* A target that was down when both accounting queries came back empty is  *)
(* not mistaken for a stopped workload: one that ran all along is not      *)
(* reported off.                                                           *)
DeadTargetNotStopped ==
  pc = "idle" /\ typed /\ ReportedOff => ~(seen.blind /\ seen.ran)
=============================================================================
