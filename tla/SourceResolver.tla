--------------------------- MODULE SourceResolver ---------------------------
(***************************************************************************)
(* internal/sources, sources.go: what a source declaration is measured by  *)
(* (Resolve), and how the status describes it (Describe).  The text of the *)
(* PromQL is abstracted to what it selects.                                *)
(***************************************************************************)
CONSTANTS
  Jobs,       \* values of cadvisorJob, "" for none
  Instances,  \* values of cadvisorInstance, "" for none
  Units       \* names of systemd units, of cgroups, or expressions

ASSUME JobsAssumption  == "cadvisor" \in Jobs
ASSUME UnitsAssumption == "*" \notin Units

(***************************************************************************)
(* spec.source: a type, whether the block of that type is there, and its   *)
(* fields.  A cgroup path is written plainly, with a * in it, with a //    *)
(* in it, or with a character that the pattern refuses; a unit is plain or *)
(* refused.  window is TRUE when metrics.window matches its pattern.       *)
(***************************************************************************)
Types == {"docker", "promql", "cgroup", "systemd"}

Forms == {"plain", "glob", "doubled", "refused"}

SourceSpec ==
  [type : Types, block : BOOLEAN, job : Jobs, instance : Instances,
   unit : Units, form : Forms, window : BOOLEAN]

(* What the API server admits: the block of the type, and only it, with an *)
(* instance and with a path, a unit and a window that match their          *)
(* patterns.  The pattern of a path admits a //, and cadvisorJob may be    *)
(* written as "": its default fills an absent field only.                  *)
Admitted(s) ==
  /\ s.block /\ s.window
  /\ s.type # "promql" => s.instance # ""
  /\ s.form # "refused"
  /\ s.form # "plain" => s.type = "cgroup"

cadvisorJob(job) == IF job = "" THEN "cadvisor" ELSE job

(* The cgroup ids that the label matcher selects: the containers of        *)
(* Docker, one id, or the ids that a pattern anchored at both ends covers. *)
Ids(s) ==
  CASE s.type = "docker"  -> [match |-> "prefix", path |-> <<"/system.slice/docker-">>]
    [] s.type = "systemd" -> [match |-> "exact", path |-> <<"/system.slice/", s.unit>>]
    [] s.type = "cgroup" /\ s.form = "glob" -> [match |-> "anchored", path |-> <<s.unit>>]
    [] OTHER -> [match |-> "exact", path |-> <<s.unit>>]

Target(s) == [job |-> cadvisorJob(s.job), instance |-> s.instance]

NoTarget == [job |-> "", instance |-> ""]

Resolvable(s) ==
  /\ s.block
  /\ s.type \in {"docker", "cgroup", "systemd"} => s.window /\ s.instance # ""
  /\ s.type = "systemd" => s.form = "plain"
  /\ s.type = "cgroup"  => s.form \in {"plain", "glob"}

(* The accounting pair selects the ids on the target, the health query is  *)
(* the up series of that target; raw PromQL is passed on and has neither.  *)
Resolve(s) ==
  IF s.type = "promql"
    THEN [series |-> [match |-> "promql", path |-> <<s.unit>>], target |-> NoTarget, health |-> NoTarget]
    ELSE [series |-> Ids(s), target |-> Target(s), health |-> Target(s)]

(* Describe: the path is the one of the declaration, with its globs.       *)
CgroupPath(s) ==
  CASE s.type = "cgroup"  -> IF s.form = "glob" THEN <<"*", s.unit>> ELSE <<s.unit>>
    [] s.type = "systemd" -> <<"/system.slice/", s.unit>>
    [] OTHER -> <<>>

MutDescribedJob(s) == s.job

DescribedJob(s) == cadvisorJob(s.job)

Describe(s) ==
  [type |-> s.type, path |-> CgroupPath(s),
   target |-> IF s.type = "promql" THEN NoTarget
              ELSE [job |-> DescribedJob(s), instance |-> s.instance]]

(* What a reader of a description takes it to have measured.               *)
Reads(d) ==
  CASE d.type = "docker" -> [match |-> "prefix", path |-> <<"/system.slice/docker-">>]
    [] d.type = "cgroup" /\ d.path[1] = "*" -> [match |-> "anchored", path |-> <<d.path[2]>>]
    [] OTHER -> [match |-> "exact", path |-> d.path]
=============================================================================
