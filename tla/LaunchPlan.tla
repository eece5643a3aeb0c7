----------------------------- MODULE LaunchPlan -----------------------------
(***************************************************************************)
(* cluster.py's LaunchPlan and config.py's RunnerClusterConfig: what a     *)
(* launch is validated against before the first paid Job, the roster it    *)
(* resolves to, and the checks each node repeats on the configuration it   *)
(* is given.  Operators on a launch's inputs; Admission gives them steps.  *)
(***************************************************************************)
EXTENDS Naturals, Sequences

CONSTANTS
    MaxJobs,  \* 64 in the code, in cluster.py and again in config.py
    None      \* an argument that was not given

ASSUME LaunchPlanAssumption == MaxJobs \in Nat \ {0}

(* Inputs of submit_cluster: persistent, entrypoint (whether one is given),*)
(* workers, scheduler_worker, the flavors, memory_limit, and worker_groups,*)
(* None or a sequence of [flavor, count, tags].                            *)

Flag(b) == IF b THEN 1 ELSE 0
Flavor(override, default) == IF override # None THEN override ELSE default
Grouped(in) == in.worker_groups # None

FieldsValid(in) ==
    /\ in.workers >= 1
    /\ Grouped(in) =>
          /\ in.worker_groups # <<>>
          /\ \A k \in DOMAIN in.worker_groups : in.worker_groups[k].count >= 1

OnePlacementPolicy(in) == Grouped(in) => in.worker_flavor = None

WorkloadFitsMode(in) == in.persistent <=> ~in.entrypoint

(* upto[k]: the machines of the first k groups.                            *)
Upto(groups) ==
    LET upto[k \in 0..Len(groups)] ==
            IF k = 0 THEN 0 ELSE upto[k - 1] + groups[k].count
    IN  upto

RemoteCount(in) ==
    IF Grouped(in) THEN Upto(in.worker_groups)[Len(in.worker_groups)]
                   ELSE in.workers - Flag(in.scheduler_worker)

(* Fault: the scheduler's own Job is forgotten in homogeneous launches.    *)
NodeCountHomogeneous(in) ==
    (IF Grouped(in) THEN 1 ELSE 0) + RemoteCount(in)

NodeCount(in) == 1 + RemoteCount(in)

(* Fault: the limit is on the workers.                                     *)
WithinJobLimitOfWorkers(in) == RemoteCount(in) <= MaxJobs

(* Fault: one Job too few is allowed.                                      *)
WithinJobLimitStrict(in) == NodeCount(in) < MaxJobs

WithinJobLimit(in) == NodeCount(in) <= MaxJobs

ValidPlan(in) ==
    /\ FieldsValid(in)
    /\ OnePlacementPolicy(in)
    /\ WithinJobLimit(in)
    /\ WorkloadFitsMode(in)

(* for group in worker_groups for _ in range(group.count)                  *)
Repeated(groups) ==
    LET rep[k \in 0..Len(groups)] ==
            IF k = 0 THEN <<>>
            ELSE rep[k - 1] \o [i \in 1..groups[k].count |-> groups[k]]
    IN  rep[Len(groups)]

GroupTags(groups) ==
    LET roster == Repeated(groups) IN [i \in DOMAIN roster |-> roster[i].tags]

NodeFlavors(in) ==
    <<Flavor(in.scheduler_flavor, in.flavor)>> \o
    IF Grouped(in)
    THEN LET roster == Repeated(in.worker_groups)
         IN  [i \in DOMAIN roster |-> roster[i].flavor]
    ELSE [i \in 1..RemoteCount(in) |-> Flavor(in.worker_flavor, in.flavor)]

(* Fault: the coordinator, which has no custom tags, is left out.          *)
NodeTagsRemote(in) ==
    IF Grouped(in) THEN GroupTags(in.worker_groups) \o <<{}>>
                   ELSE [i \in 1..NodeCount(in) |-> {}]

NodeTags(in) ==
    <<{}>> \o
    IF Grouped(in) THEN GroupTags(in.worker_groups)
                   ELSE [i \in 1..RemoteCount(in) |-> {}]

(* The public configuration every Job gets, and a persistent cluster's     *)
(* manifest.                                                               *)
Connection(in) ==
    [persistent |-> in.persistent,
     job_nodes |-> NodeCount(in),
     scheduler_worker |-> in.scheduler_worker,
     node_flavors |-> NodeFlavors(in),
     node_tags |-> NodeTags(in)]

(* RunConfig: the submitter's check in JobSpec.command, and the runner's.  *)
RunConfigValid(spec) == spec.entrypoint /\ spec.workers >= 1

(* What every Job's command is built from: a persistent launch has no      *)
(* entrypoint, and names one that is never called.                         *)
Command(in) == IF in.persistent THEN [in EXCEPT !.entrypoint = TRUE] ELSE in

(* RunnerClusterConfig, on node n.                                         *)
RunnerAccepts(config, n) ==
    /\ config.job_nodes \in 1..MaxJobs
    /\ n < config.job_nodes
    /\ Len(config.node_flavors) = config.job_nodes
    /\ Len(config.node_tags) = config.job_nodes
=============================================================================
