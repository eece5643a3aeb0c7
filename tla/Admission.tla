----------------------------- MODULE Admission ------------------------------
(***************************************************************************)
(* What is checked before a cluster is paid for, against what its nodes    *)
(* check when they start: the package plan (DependencyGroups), the launch  *)
(* plan and submission loop of submit_cluster (LaunchPlan), then on each   *)
(* Job the configuration, the machine and its division among workers       *)
(* (WorkerProfiles).  A launch from the command line validates the package *)
(* first; submit_cluster and boot_cluster can be called by themselves, and *)
(* so can jobs.submit, whose only Job divides its machine by itself.       *)
(*                                                                         *)
(* Failing submissions are Launcher's; here each one succeeds.  The nodes  *)
(* start in any order, and while later ones are still being submitted.     *)
(***************************************************************************)
EXTENDS DependencyGroups, LaunchPlan, WorkerProfiles

CONSTANTS
    Inputs,   \* arguments of a launch
    Machines  \* what a Job's machine can turn out to be

IsSequence(s) == s \in Seq({s[k] : k \in DOMAIN s})

(* Any number may be asked for: a count is checked by LaunchPlan.          *)
IsInput(i) ==
    /\ i \in [persistent : BOOLEAN, entrypoint : BOOLEAN, workers : Int,
              scheduler_worker : BOOLEAN, flavor : {i.flavor},
              scheduler_flavor : {i.scheduler_flavor}, worker_flavor : {i.worker_flavor},
              worker_groups : {i.worker_groups}, memory_limit : Nat \cup {AutoLimit}]
    /\ Grouped(i) =>
          /\ IsSequence(i.worker_groups)
          /\ \A k \in DOMAIN i.worker_groups : i.worker_groups[k].count \in Int

(* nvidia-smi lists a GPU once; CUDA_VISIBLE_DEVICES may repeat one.       *)
IsMachine(m) ==
    /\ m.affinity \in Nat /\ m.quotas \subseteq Nat
    /\ m.ram \in Nat /\ m.ramLimits \subseteq Nat
    /\ m.smi \in BOOLEAN /\ m.mig \in BOOLEAN
    /\ IsSequence(m.gpus)
    /\ \A i, j \in DOMAIN m.gpus : m.gpus[i] = m.gpus[j] => i = j
    /\ Listed(m) => /\ IsSequence(m.visible)
                    /\ \A k \in DOMAIN m.visible : IsFiniteSet(m.visible[k])

ASSUME AdmissionAssumption ==
    /\ AutoLimit \notin Nat
    /\ \A i \in Inputs : IsInput(i) /\ Connection(i) # None
    /\ \A m \in Machines : IsMachine(m)

VARIABLES
    phase,   \* "package", "plan", "submit", "submitted" or "refused"
    in,      \* the launch's arguments, None while the package is validated
    env,     \* what the Jobs' bootstrap makes of image and project
    jobs,    \* per Job: its hardware flavor and its arguments
    node     \* per Job: what became of the runner's start

launchVars == <<in, env, jobs, node>>
vars == <<groupVars, phase, launchVars>>

(* How `uv sync --locked --no-dev` can end in a Job, and whether hfdask is *)
(* there to be started afterwards.                                         *)
Environments ==
    {"ready",         \* with hfdask
     "no_uv",         \* the image has no uv
     "bad_groups",    \* uv refuses the groups
     "stale_lock",    \* uv.lock does not match pyproject.toml
     "dev_left_out",  \* hfdask is in a requested dev only
     "no_runner"}     \* hfdask is in no group that was requested

AdmissionTypeOK ==
    /\ phase = "package" => GroupsTypeOK
    /\ phase \in {"package", "plan", "submit", "submitted", "refused"}
    /\ phase # "package" => in = None \/ in \in Inputs
    /\ env \in Environments \cup {"unsynced"}
    /\ Len(jobs) \in 0..MaxJobs
    /\ DOMAIN node = DOMAIN jobs
    /\ \A k \in DOMAIN node : node[k].is \in {"pending", "refused", "started"}

Blank == [is |-> "pending"]

(* What load_cluster makes of a YAML file that ClusterConfig accepts: at   *)
(* least one and at most 63 remote workers, the colocated one in addition. *)
FromYaml(i) ==
    /\ ~i.persistent /\ i.entrypoint
    /\ i.worker_groups = None /\ i.worker_flavor = None
    /\ i.scheduler_flavor # None /\ i.memory_limit = AutoLimit
    /\ i.workers - Flag(i.scheduler_worker) \in 1..(MaxJobs - 1)

(* PackagePlan's locals are gone once it has returned.                     *)
NoPackage ==
    /\ project = None /\ requested = {} /\ pending = {} /\ selected = {}
    /\ found = FALSE /\ verdict = "open"

PackageReturns ==
    /\ project' = None /\ requested' = {} /\ pending' = {} /\ selected' = {}
    /\ found' = FALSE /\ verdict' = "open"

(* A library call brings an image or a bootstrap of its own.               *)
Init ==
    /\ jobs = <<>> /\ node = <<>>
    /\ \/ phase = "package" /\ GroupsInit
          /\ env = "unsynced" /\ in = None
       \/ phase = "plan" /\ NoPackage
          /\ env = "ready" /\ in \in Inputs

-----------------------------------------------------------------------------
ValidatePackage ==
    /\ phase = "package"
    /\ GroupsNext
    /\ UNCHANGED <<phase, launchVars>>

(* All Jobs have the same image and the same payload, so uv ends alike in  *)
(* each; the plan has not looked at the image nor compared the lock.       *)
SyncCanEnd(e) ==
    \/ e = "no_uv"
    \/ e = "bad_groups" /\ ~GroupsAreSound
    \/ e = "stale_lock" /\ GroupsAreSound
    \/ e = "ready" /\ GroupsAreSound /\ RunnerSynced
    \/ e = "dev_left_out" /\ GroupsAreSound /\ ~RunnerSynced /\ DevLeftOut
    \/ e = "no_runner" /\ GroupsAreSound /\ ~RunnerSynced /\ ~DevLeftOut

(* The validator returns, and the project is packed as it was read.        *)
PackageAccepted ==
    /\ phase = "package" /\ verdict = "accepted"
    /\ phase' = "plan"
    /\ env' \in {e \in Environments : SyncCanEnd(e)}
    /\ in' \in {i \in Inputs : FromYaml(i)}
    /\ PackageReturns
    /\ UNCHANGED <<jobs, node>>

PackageRefused ==
    /\ phase = "package" /\ verdict \in {"undeclared", "missing"}
    /\ phase' = "refused"
    /\ PackageReturns
    /\ UNCHANGED launchVars

PlanAccepted ==
    /\ phase = "plan" /\ ValidPlan(in) /\ RunConfigValid(Command(in))
    /\ phase' = "submit"
    /\ UNCHANGED <<groupVars, launchVars>>

PlanRefused ==
    /\ phase = "plan" /\ ~(ValidPlan(in) /\ RunConfigValid(Command(in)))
    /\ phase' = "refused"
    /\ UNCHANGED <<groupVars, launchVars>>

(* for index, credential in enumerate(credentials): run_job(...)           *)
Submit ==
    /\ phase = "submit"
    /\ LET index == Len(jobs) IN
       /\ jobs' = Append(jobs,
             [flavor |-> NodeFlavors(in)[index + 1],
              config |-> Connection(in),
              node |-> index,
              scheduler_worker |-> in.scheduler_worker,
              spec |-> Command(in)])
       /\ node' = Append(node, Blank)
       /\ phase' = IF index + 1 = NodeCount(in) THEN "submitted" ELSE "submit"
    /\ UNCHANGED <<groupVars, in, env>>

(* jobs.submit takes a JobSpec and nothing else of a cluster's arguments.  *)
Alone(i) ==
    /\ ~i.persistent /\ ~i.scheduler_worker
    /\ i.worker_groups = None /\ i.worker_flavor = None /\ i.scheduler_flavor = None

(* Fault: the command is built unchecked, as JobSpec lets the entrypoint   *)
(* be empty.                                                               *)
SubmitAloneUnchecked ==
    /\ phase = "plan" /\ Alone(in) /\ in.workers >= 1
    /\ jobs' = <<[flavor |-> in.flavor, config |-> None, spec |-> in]>>
    /\ node' = <<Blank>>
    /\ phase' = "submitted"
    /\ UNCHANGED <<groupVars, in, env>>

SubmitAlone ==
    /\ phase = "plan" /\ Alone(in) /\ RunConfigValid(in)
    /\ jobs' = <<[flavor |-> in.flavor, config |-> None, spec |-> in]>>
    /\ node' = <<Blank>>
    /\ phase' = "submitted"
    /\ UNCHANGED <<groupVars, in, env>>

AloneRefused ==
    /\ phase = "plan" /\ Alone(in) /\ ~RunConfigValid(in)
    /\ phase' = "refused"
    /\ UNCHANGED <<groupVars, launchVars>>

-----------------------------------------------------------------------------
(* A Job's container: bootstrap, then run_network_group up to its stack.   *)

Networked(job) == job.config # None

(* run, on the only machine: detect, and a core for the scheduler.         *)
LocalWorkers(m) == AvailableCores(m) - 1
AloneRefusals(job, m) ==
    {r \in {"config", "capacity", "gpus", "cores"} :
        \/ r = "config" /\ ~RunConfigValid(job.spec)
        \/ r = "capacity" /\ (HalfCores(m) <= 0 \/ Memory(m) <= 0)
        \/ r = "gpus" /\ GpusUnreadable(m)
        \/ r = "cores" /\ LocalWorkers(m) < 1}

(* Node 0 without scheduler_worker does not look at its machine.           *)
HasProfiles(job) == job.node # 0 \/ job.scheduler_worker
Reserve(job) == Flag(job.node = 0 /\ job.scheduler_worker)

(* What makes the Job's process exit: first the bootstrap, when it does    *)
(* not end in an environment with hfdask; then a configuration the runner  *)
(* does not accept, and its machine.                                       *)
Complaints(job, m) ==
    IF env # "ready" THEN {env}
    ELSE {r \in {"config"} :
             ~(RunConfigValid(job.spec) /\ RunnerAccepts(job.config, job.node))}
         \cup IF HasProfiles(job) THEN Refusals(m, job.spec.memory_limit, Reserve(job)) ELSE {}

Begins(k, outcome) ==
    /\ node[k] = Blank
    /\ node' = [node EXCEPT ![k] = outcome]
    /\ UNCHANGED <<groupVars, phase, in, env, jobs>>

AloneRefuses(k, m) ==
    /\ ~Networked(jobs[k]) /\ AloneRefusals(jobs[k], m) # {}
    /\ Begins(k, [is |-> "refused", why |-> AloneRefusals(jobs[k], m)])

AloneStarts(k, m) ==
    /\ ~Networked(jobs[k]) /\ AloneRefusals(jobs[k], m) = {}
    /\ Begins(k, [is |-> "started", machine |-> m, workers |-> LocalWorkers(m)])

NodeRefuses(k, m) ==
    /\ Networked(jobs[k])
    /\ Complaints(jobs[k], m) # {}
    /\ Begins(k, [is |-> "refused", why |-> Complaints(jobs[k], m)])

Ready(job, m, profiles) ==
    [is |-> "started", machine |-> m,
     flavor |-> job.config.node_flavors[job.node + 1],
     tags |-> job.config.node_tags[job.node + 1],
     profiles |-> profiles]

(* Fault: the scheduler's core is given to a worker.                       *)
NodeStartsUnreserved(k, m) ==
    /\ Networked(jobs[k])
    /\ Complaints(jobs[k], m) = {}
    /\ Begins(k, Ready(jobs[k], m,
          IF HasProfiles(jobs[k]) THEN Profiles(m, jobs[k].spec.memory_limit, 0) ELSE <<>>))

NodeStarts(k, m) ==
    /\ Networked(jobs[k])
    /\ Complaints(jobs[k], m) = {}
    /\ Begins(k, Ready(jobs[k], m,
          IF HasProfiles(jobs[k])
          THEN Profiles(m, jobs[k].spec.memory_limit, Reserve(jobs[k])) ELSE <<>>))

-----------------------------------------------------------------------------
LauncherNext ==
    \/ ValidatePackage \/ PackageAccepted \/ PackageRefused
    \/ PlanAccepted \/ PlanRefused \/ Submit
    \/ SubmitAlone \/ AloneRefused

NodeNext(k) ==
    \E m \in Machines :
        \/ NodeRefuses(k, m) \/ NodeStarts(k, m)
        \/ AloneRefuses(k, m) \/ AloneStarts(k, m)

Next == LauncherNext \/ \E k \in DOMAIN jobs : NodeNext(k)

(* The launcher's thread runs.                                             *)
Spec == Init /\ [][Next]_vars /\ WF_vars(LauncherNext)

-----------------------------------------------------------------------------
(* LaunchPlan: "Validated launch inputs and their resolved topology,       *)
(* before any submission."  Every check that the launcher makes is enough  *)
(* for the nodes: a paid Job stops over its machine, or over what the      *)
(* launcher has not asked: whether the image has uv, and, though they are  *)
(* in the project it has read, whether uv will refuse the lock or other    *)
(* groups' includes, and whether --no-dev drops the one group with hfdask. *)
(* memory_limit="0" is JobSpec's exception: it is allowed for local        *)
(* clusters, and worker_profiles does not take it.                         *)
PaidNodesStart ==
    \A k \in DOMAIN node : node[k].is = "refused" =>
        \/ node[k].why \subseteq {"capacity", "gpus", "cores", "too_many_gpus"}
        \/ node[k].why \subseteq {"no_uv", "bad_groups", "stale_lock", "dev_left_out"}
        \/ in.memory_limit = 0

(* The 63 of ClusterConfig, the 64 of LaunchPlan and the colocated worker  *)
(* fit: a cluster file the command line accepted, and has packaged and     *)
(* uploaded a project for, is never refused as a launch plan.              *)
YamlLaunches ==
    phase = "plan" /\ FromYaml(in) => phase' # "refused"

YamlIsNeverRefused == [][YamlLaunches]_vars

(* Groups may include each other in cycles, and the worklist still ends.   *)
WorklistEnds == phase = "package" ~> phase # "package"

(* The group the n-th remote machine belongs to.                           *)
Owner(n) ==
    LET upto == Upto(in.worker_groups)
    IN  CHOOSE k \in DOMAIN in.worker_groups : upto[k - 1] < n /\ n <= upto[k]

(* Two separately built lists and the submission loop's index agree: a     *)
(* node's workers carry the flavor its Job was bought with, and the flavor *)
(* and the tags of one worker group; and there is a Job for every entry.   *)
RosterIsAligned ==
    /\ \A k \in DOMAIN node : Networked(jobs[k]) /\ node[k].is = "started" =>
          /\ node[k].flavor = jobs[k].flavor
          /\ k = 1 => node[k].tags = {}
          /\ k > 1 /\ Grouped(in) =>
                /\ node[k].flavor = in.worker_groups[Owner(k - 1)].flavor
                /\ node[k].tags = in.worker_groups[Owner(k - 1)].tags
    /\ phase = "submitted" => \A k \in DOMAIN jobs :
          Networked(jobs[k]) => jobs[k].config.job_nodes = Len(jobs)

Planned(k) == {node[k].profiles[i].memory_limit : i \in DOMAIN node[k].profiles}

(* "conservative per-process Dask reservations": on no machine do the      *)
(* workers' limits add up to more than four fifths of the tightest memory  *)
(* limit; workers and scheduler have a whole core each; every GPU found is *)
(* one worker's and no two workers' (unless a lone core is the scheduler's)*)
(* A single Job, whose workers' memory is Dask's matter, has a worker.     *)
SharesFitMachine ==
    \A k \in DOMAIN node : node[k].is = "started" =>
      IF ~Networked(jobs[k])
      THEN node[k].workers >= 1 /\ 2 * (node[k].workers + 1) <= HalfCores(node[k].machine)
      ELSE
        LET m == node[k].machine
            profiles == node[k].profiles
            count == Len(profiles)
            gpus == UNION {profiles[i].gpu : i \in DOMAIN profiles}
        IN  HasProfiles(jobs[k]) =>
                /\ 2 * (count + Reserve(jobs[k])) <= HalfCores(m)
                /\ \A share \in Planned(k) : 10 * count * share <= 8 * Memory(m)
                /\ count > 0 => Cardinality(gpus) = GpuCount(m)
                /\ k > 1 => count > 0
=============================================================================
