# TLA+ models of hfdask

hfdask runs a Dask cluster as a set of paid Hugging Face (HF) Jobs. A launcher on
the user's machine submits one Job per node, records their ids in a manifest,
waits for the driver and releases the machines. Inside the Jobs a runner starts
the Dask scheduler and workers, waits until the topology is complete, runs the
workload and stops the workers. These modules state what that code promises and
check it with TLC; every safety property the passing runs check is proved with
TLAPS for every number of nodes, clients, files and workers.

## The system

| Part | State | Operations | Hard part | What makes it correct |
|---|---|---|---|---|
| Jobs (`jobs.py`) | a remote stage per Job | `submit`, `Job.status`, `Job.cancel`, `Job.wait` | answers are lost, cancellations are late | a submission is never retried, a stage read as terminal is final |
| Cluster (`cluster.py`) | `Cluster.jobs`, the plan | `submit_cluster`, `boot_cluster`, `wait`, `close`, `cancel`, `manifest`, `from_manifest` | partial launch, interrupt, deadline | every acknowledged Job has a handle, `close` returns only over released Jobs |
| Command line (`cli.py`, `main`) | the manifest file, the local `cluster`, the exit code | `hfdask run` | crash and interrupt between any two steps, failing saves | what costs money can be found, and is not reported as released |
| Source shipping (`cli.py` `package_project`, `prepare_spec`; `bootstrap.py`) | archive, bucket, project directory | package, upload, verify, extract, sync | files change while being read, budgets | what runs is what was packaged, within the budgets |
| Runner (`runner.py`) | registered workers, topology marker, nannies | start, `wait_topology`, publish, run, `close_nannies` | nodes in any order, workers that leave, deadlines | the workload sees a complete topology, nodes end when it ends |
| Persistent client (`client.py`) | ssh process, Dask client | `connect` and its exit | tunnel dies or stays silent, deadlines | no tunnel outlives the context, a body works on the cluster of its credentials, with its topology complete |
| Hardware (`hardware.py`) | none (reads the machine) | `worker_profiles`, `worker_metadata` | division at boundaries | the profiles use no more than the machine has |
| Routing (`routing.py`) | none (a snapshot) | `workers_with`, `submit_on` | workers leave after the snapshot | a task runs only on matching workers |
| Configuration (`config.py`) | none | validators | group cycles, limits | the selected groups are the closure |
| Network (`network.py`) | temporary credential files | ports, aliases, TLS identities | clean-up on every path | identities and ports are distinct |
| HF Jobs, buckets, Dask, ssh | external | | | assumed as far as the code relies on it |

The parts interact thus. `cli.main` calls `package_project` and `prepare_spec`,
then `submit_cluster`, which calls `HfApi.run_job` once per node and after each
acknowledged Job calls back `save_manifest`. Then `Cluster.wait` polls the
scheduler's Job and calls `Cluster.close`. Whatever fails ends in `main`'s
except clause, which saves the manifest again and closes. A later process can
restore the cluster from the manifest and close it. In the Jobs, `bootstrap`
executes `runner`, whose processes interact through the Dask scheduler only.

## Modules

| Module | What it models |
|---|---|
| `HFJobs` | the HF Jobs service: the weakest behaviour the code relies on |
| `ClusterHandle` | `Cluster.wait`, `close`, `cancel`, one request per step |
| `Launcher` | `cli.main` with `submit_cluster` and `save_manifest`, the manifest on disk, interrupts, kills, and recovery by a later process |
| `PaidCapacity` | the contract of a launch, without control flow |
| `LauncherRefinement` | the refinement mapping from `Launcher` to `PaidCapacity` |
| `LauncherProofs` | the inductive invariant of `Launcher`, its consequences, and that it implements `PaidCapacity` |
| `ManifestFile` | the manifest's creation in `main` and `save_manifest` by the file system's steps |
| `AtomicManifest` | the one-step save that `Launcher` assumes |
| `ManifestFileProofs` | the inductive invariant of `ManifestFile`, and that it implements `AtomicManifest` |
| `Runner` | `run_network_group` on all nodes of a cluster, with `wait_topology`, publication and `close_nannies` |
| `MCRunner` | worker counts for the runs of `Runner` |
| `RunnerProofs` | the inductive invariant of `Runner`, and its two action properties |
| `PersistentClient` | `connect` in several processes of one machine, with their ssh tunnels |
| `MCPersistent` | two clusters, and what two clients are given of them |
| `PersistentClientProofs` | the inductive invariant of `PersistentClient` and its consequences |
| `DependencyGroups` | the worklist of `PackagePlan` over dependency groups, and which groups uv installs |
| `LaunchPlan` | operators: what a launch is validated against, and the roster it resolves to |
| `WorkerProfiles` | operators: what a node finds on its machine and how it divides it |
| `Admission` | the three composed: all checks before a Job is paid for, then all checks of its runner before it starts anything |
| `MCAdmission` | projects, launch arguments and machines for its run |
| `AdmissionProofs` | that the worklist, the plan, the roster and the shares are right for every project, launch and machine |
| `SourceShipping` | `package_project`, `prepare_spec` and `bootstrap.py` on every node |
| `MCSourceShipping` | working trees for its runs |
| `SourceShippingProofs` | the inductive invariant of `SourceShipping` and its consequences |
| `Routing` | `workers_with` and `submit_on` against workers that come and go on the ports of `run_network_group` |
| `MCRouting` | workers and tasks for its run |
| `RoutingProofs` | the inductive invariant of `Routing` and its consequences |
| `DataLemmas` | facts about numbers, sequences and recursive functions that the proofs share |

`Launcher` extends `ClusterHandle`, which extends `HFJobs`: one thread, whose
program counter `pc` names the statement it runs next, against a service that
takes its own steps in between. `Admission` extends `DependencyGroups`,
`LaunchPlan` and `WorkerProfiles`. A launch from the command line passes through
`SourceShipping` (whose `PackagePlan` is `DependencyGroups`), `Admission`,
`Launcher` and, in the Jobs, `Runner`, in this order.

### HFJobs

`stage`, `label` and `doomed` are the service's: the stage of each Job, the node
label it was created with, and the Jobs whose cancellation it accepted. Ids are
positions in the order of creation. The service may end a Job at any time in any
terminal stage (success, failure, lifetime, another client), starts it when it
likes, and carries out an accepted cancellation later, or never unless a run
assumes so. It creates nothing by itself and revives nothing; that a terminal
stage is final is the assumption `Cluster.close` rests on, since it reads the
stages one at a time. Stages are the four of `TERMINAL` and two others.

### ClusterHandle and Launcher

| Variable | In the code |
|---|---|
| `jobs` | `Cluster.jobs`, the same object in `submit_cluster`, the `LaunchError` and `main` |
| `idx` | position in the loops of `cancel` and of `any(...)` in `close` |
| `late` | whether `time.monotonic()` is past the deadline of the loop being run |
| `seen` | `stage` in `Cluster.wait` |
| `caller` | who called `close`: `wait`, the handler, a recovery |
| `manifest` | the file: absent, something else's, `{}`, or saved with these ids |
| `bound` | `cluster is not None` in `main` |
| `error`, `isLaunch` | the exception `main` handles, and whether it is a `LaunchError` |
| `printed`, `warned` | the handles on the terminal after a failed save, and "Cleanup unverified" |
| `exit` | `0`, `1`, `130`, an uncaught interrupt, or killed |
| `interrupts` | how many KeyboardInterrupts arrived |

Each request to the service is a step of its own. A submission that fails may
have created its Job (the answer was lost); a save that fails may have replaced
the file; an interrupt in the middle of either leaves both outcomes possible. A
Job created by a lost request appears at the moment the exception is raised; the
service's delay is not modelled further. A cancellation that fails is one that
did not reach the service: `close` drops the list `cancel` returns, so an error
after an accepted request makes no difference. Reading a stage and acting on it
is one step, as nothing between the two can change the outcome; `wait` keeps the
stage it read in `seen` while it closes.

An interrupt can arrive at any control point. Inside `submit_cluster`'s try it
becomes a `LaunchError`; inside `main`'s try it is handled; inside an except
clause (if the constant `HandlersInterruptible` says it may arrive there) it
leaves `main`. A kill can come at any time. `Recover` starts
`Cluster.from_manifest(...).close()` from what the file holds, as often as
anyone likes; a recovery that is killed is no different from one that did not
verify, as the file does not change.

### ManifestFile

Launcher creates and saves the manifest in one step or not at all. `ManifestFile`
takes the creation in `main` and the steps of `save_manifest` apart and shows that
this is justified.

| Variable | In the code |
|---|---|
| `pc` | the next call: `open("x")`, the write of `{}`, `NamedTemporaryFile`, `json.dump` to `flush`, `fsync`, `replace`; `"main"` between two saves |
| `want` | the number of Jobs in `cluster.manifest()` |
| `entry` | what a reader of the path finds: nothing, an unfinished or whole placeholder, a saved manifest, or a torn one |
| `durable` | what a reader may find after a power loss |
| `temp` | the temporary file's content, and whether it was synced |
| `saved` | whether the last save returned or raised |

Every call can raise, from the file system or from an interrupt, and the process
can be killed. `replace` is the file system's atomic rename. What is renamed
without having been synced may be torn after a power loss; as the directory
is not synced, a power loss may also take back renames, and the file's creation
with them. The placeholder `{}` is not synced at all: a kill between `open` and
`write`, or a power loss at any time until the first save is on disk, can leave an
empty file, and a power loss no file. So `Launcher`, which has kills but no power
losses, is exact for a killed process but for one case, the empty file, which
records no Jobs as `{}` does; after a power loss what was saved is whole but
the latest saves can be missing (`LossOnlyTakesBack`), and up to as many Jobs are then
known from the printed output only. Missing, unfinished and blank files all count
as a manifest of no Jobs. An interrupt between the creation of the temporary file and the
try statement leaves that file behind; the manifest is the same, and the
model does not follow the litter.

### Runner

| Variable | In the code |
|---|---|
| `node[n]` | where `run_network_group` is on node `n`: before the scheduler is reached, starting nannies, ready, returned, raised |
| `nanny[w]` | the nanny of one worker, whether its worker runs, and whether it was closed |
| `sched`, `registered` | node 0's scheduler and its table of workers |
| `late` | the nodes whose `startup_timeout` has passed; for node 0 it is `wait_topology`'s |
| `coord` | where the coordinator thread is |
| `topology`, `marker` | what `wait_topology` returned, and `TOPOLOGY_METADATA` |
| `asked` | `workers` in `close_nannies` |
| `workers` | `len(profiles)` on every node, fixed by the machines (any of `Inventories`) |
| `persistent` | `config["persistent"]` |

All nodes run at once, and only node `n` knows `workers[n]`: the coordinator
learns a remote node's count from `workers_on_node` of its workers, as
`wait_topology` does. Entering nannies one after another, leaving the exit stack
and the coordinator's thread follow the code; a node's failure closes what its
exit stack holds. An unexpected node number makes `wait_topology` raise, which
`CallRaises` covers.

Assumed of Dask: entering a `Nanny` returns when its worker is registered; a
nanny may restart a lost worker, closes when told to, and closes after
`death_timeout` when there is no scheduler; the scheduler may notice late that a
worker is gone; `Client.scheduler_info()` lists every registered worker, which
`wait_topology` and `close_nannies` rely on (a distributed release whose
`scheduler_info` truncates its answer by default would break both on large
clusters).

### PersistentClient

| Variable | In the code |
|---|---|
| `pc[c]` | where `connect` is in process `c`: the wait for RUNNING, Popen, the poll and port tests, `security()`, `Client(...)`, the marker, the body, and the way out |
| `late[c]` | whether the deadline of the loop it is in (or the 5 s of `process.wait`) has passed |
| `ssh[c]` | the tunnel's process; `reaped` once `poll` or `wait` has seen its exit |
| `port` | whose ssh listens on `local_port` |
| `link[c]` | whose tunnel the Dask connection goes through |
| `keys[c]` | the TLS files of `TLSCredentials.security` |
| `cut[c]` | the cleanups that an interrupt cut short |
| `call[c]` | the arguments: whose manifest and whose credentials |
| `job[k]`, `marker[k]` | cluster `k`'s scheduler Job, and the length of its `TOPOLOGY_METADATA`, which `Runner` writes |

ssh listens late or never, exits when it likes, and at once if it cannot bind
(`ExitOnForwardFailure`); it may ignore SIGTERM for longer than 5 seconds, but SIGKILL
ends it within the second wait. The test of the port is a connection to whoever
listens there, which may be another process's tunnel, to the same cluster or to another.
Which scheduler lets a client in is decided by the certificates: each cluster has
a CA of its own, and both ends verify (`Authenticates`); a foreign service
fails the handshake, which `DaskFails` covers. A Dask client that has lost its
connection reconnects by itself, through whatever tunnel has the port by then.
`call` allows a caller to mix one cluster's manifest with another's credentials.
An interrupt unwinds what was entered; one inside a cleanup ends that cleanup and
not the outer ones. The arguments have been validated when `connect` starts.

The marker is written once, by the coordinator, after it has verified the topology, and
nobody withdraws it when workers leave. `connect` therefore promises nothing of
the present workers, and `YieldsOwnTopology` says only what the code ensures: the
body works on the cluster of its credentials, one with a published topology of
the size the manifest names. As `wait_published_topology` compares sizes
and not cluster ids, a manifest and credentials of two clusters of equal size are taken for one
cluster's.

### Admission, with DependencyGroups, LaunchPlan and WorkerProfiles

| Variable | In the code |
|---|---|
| `project`, `requested`, `pending`, `selected`, `found`, `verdict` | the locals of `PackagePlan`'s validator |
| `phase` | validating the package, the plan, submitting, submitted or refused |
| `in` | the arguments of `submit_cluster`, `boot_cluster` or `submit` |
| `env` | how the bootstrap of each Job ends: with hfdask in the synced environment, or why not |
| `jobs` | per Job, the flavor it was bought with and the arguments of its command |
| `node` | per Job, whether its runner refused, and why, or what it started with |

The code validates a launch on the user's machine and then again, with other
validators, on every machine it has paid for. `Admission` puts the two side by
side: a launch (from the command line after its package was validated, or by
a library call, or of a single Job by `jobs.submit`) goes through the code's
checks in their order; each Job then meets any of `Machines` and makes its own. A
machine is a record of what `detect` and `gpu_inventory` read: CPU quotas in half
cores, memory limits, the GPUs that `nvidia-smi` lists, and the GPUs each token of
`CUDA_VISIBLE_DEVICES` matches. Submissions succeed here; that they may not is
`Launcher`'s subject. In `DependencyGroups` the list `pending` is a set: which
group is popped next, and whether one is listed twice, makes no difference to what
is selected.

What a node then installs is not what the worklist looked at: `bootstrap.py` 80 runs
`uv sync --locked --no-dev --group ...`. `DependencyGroups` therefore has uv's side
beside the validator's. uv refuses groups that include themselves or an undeclared
group, requested or not (`GroupsAreSound`), and `--no-dev` overrides `--group dev`: a
requested group named `dev` is left out, unless another includes it (`Synced`,
`DevLeftOut`). The validator asks for none of this, nor whether `uv.lock` is up to date or the
image has uv. `env` takes any of the ends that the project allows (`SyncCanEnd`), the
same in all Jobs of a launch. Left out of uv's side are `tool.uv.default-groups` and
environment markers on requirements. A library call ships its own image and
bootstrap, so its `env` is `"ready"`.

The consequence is a trap rather than a contradiction of a documented claim about
`dev`: config.py 122-125 asks for hfdask in "project dependencies or a selected
dependency group", and a project that selects `dev` for it passes the validation,
pays for its Jobs, and finds no hfdask on any of them. The repository's README
(145-162) uses a group named `deploy`, which is not affected. `VerdictIsRight` and
`PaidNodesStart` name the case.

### SourceShipping

| Variable | In the code |
|---|---|
| `tree`, `edits` | the working tree, by the size of each file, and how often its owner has changed it |
| `step` | where `package_project` and then `prepare_spec` are |
| `todo`, `size`, `total`, `files` | the loop over the listed files, `st_size`, the sum of sizes, `files` |
| `zipped` | the length of the archive |
| `bucket` | the visibility of the artifact bucket, which may exist already |
| `job[n]`, `payload[n]`, `scanned[n]`, `root[n]` | `bootstrap.py` on node `n`: the archive it read, the members it counted and the members it extracted |

Listing, `stat` and `read_bytes` are steps of their own, and the owner may edit
between any two of them. Contents are told apart by their size: the checksum
then compares contents. The archive's length is the compressor's choice. A mount
may deliver an archive that lacks a member; a disk may fail at any member. The bucket's
visibility does not change between the check and the upload, and the owner's edits do not
turn a file into a link. Paths
are safe ones: what `PurePosixPath` checks reject, git does not list and the
packager does not write.

### Routing

| Variable | In the code |
|---|---|
| `worker`, `departures` | per address, whose worker the scheduler knows there, and how often one left |
| `task[t]` | whether `submit_on` has looked up its workers, refused, submitted, and what became of the task |
| `eligible[t]` | the snapshot `workers=` that `submit_on` passes, a set of addresses |
| `place[t]` | the address that runs it |
| `deaths[t]` | the workers it has seen die |

A nanny is an ordinal of a node; its profile gives its worker's tags and resources.
What `submit_on` passes on are addresses, and a task may run long after the workers
it saw have left and nannies have started others. That an address still means the
same profile is hfdask's doing: `run_network_group` gives each ordinal its own port
(`worker_port`) and contact address, at every restart the same (`Contacts`). With a
port that Dask picks, or with workers that match only in part, the property fails.

The scheduler is external: it places a task on one of the given workers that has
its resources left, reschedules it when its worker leaves and gives it up after
`allowed-failures`. Nothing is assumed of when it does so, and no liveness is
stated: whether a waiting task is placed is Dask's alone. The look-up may
see only a part of the registered workers, as a truncated `scheduler_info` would
give it; `Routing` does not need the whole answer, unlike `Runner`.

## Runs

All runs say `CHECK_DEADLOCK FALSE`: the launcher's process ends and nobody need
recover it, a file is saved no more, the processes of a cluster end, every client
is left, packaging is refused or every runner has started, tasks are done.

| Run | Shows |
|---|---|
| `launch_safety` | `TypeOK`; at most one Job is missing from the manifest in any state (`AtMostOneUnrecorded`); a Job is only requested when all before it are on disk, and never twice for a node (`NewJobOnlyWhenRecorded`); the manifest never loses a handle and a foreign file is never changed (`ManifestOnlyGrows`); exit code 0 means that all Jobs ended and the driver completed (`ZeroMeansReleased`); a recovery that returns released what the manifest names (`ReleasedMeansTerminal`); `main` always ends (`MainEnds`); every behaviour is one of `PaidCapacity` (`KeepsPromises`) |
| `launch_recovery` | without interrupts in handlers: `main` never ends silently over a running Job it knows (`CleanupNeverHidden`); any Job still running is in the manifest, was printed, or is announced by a `LaunchError` (`LiveJobsAreTraceable`); after a failed or killed run, a saved manifest is enough to release, in the end, all it names (`RecoveryReleases`) |
| `interrupt_hides` | `CleanupNeverHidden` fails when interrupts can arrive in handlers: see Findings |
| `manifest_file` | what was saved is whole for every reader, also after a power loss, and a running process always has the placeholder or a saved manifest (`NeverTorn`); a power loss never adds Jobs (`LossOnlyTakesBack`); creation and save are atomic (`ActsAtomically`) |
| `runner` | `wait_topology` returns only in a state where every worker of every node is registered, and with the true counts (`TopologyIsComplete`); no worker `close_nannies` stopped registers again (`StoppedWorkersStayAway`); a batch driver ends (`BatchEnds`), and when a driver has ended, batch or persistent, every other node does (`NodesEnd`) |
| `one_core` | a workload can start on a topology without workers: see Findings |
| `persistent` | when `connect` is left its ssh was waited for, its keys are off the disk and its connection is closed, but for a cleanup an interrupt hit (`NothingOutlivesConnect`); the body works on the cluster of its credentials, with a complete topology of the manifest's size, whoever's tunnel has the port (`YieldsOwnTopology`); `connect` yields or raises, and its exit ends (`ConnectDecides`) |
| `shared_port` | closing one `connect` can take the connection from another: see Findings |
| `shipping` | only whole, eligible source goes up, and only to a private bucket (`StagedIsFit`); a tree nobody edits meanwhile is shipped file for file (`QuietTreeIsShippedWhole`); a runner starts on what was packaged, on every node the same (`RunnersShareTheSource`); a paid node refuses accepted source only if a file grew after its size was counted (`RefusedOnlyIfGrown`) |
| `shipping_grows` | such a file makes accepted source exceed the limits: see Findings |
| `admission` | what the worklist accepts uv makes into an environment with hfdask, unless `--no-dev` leaves out a requested `dev`, and what it refuses mentions an undeclared group or lacks hfdask (`VerdictIsRight`), and ends (`WorklistEnds`); a cluster file that was accepted is never refused as a plan, after packaging and upload (`YamlIsNeverRefused`); a paid Job stops only over its machine, or over what the launcher has not asked of the image and of uv, case by case (`PaidNodesStart`); flavors, tags and Jobs are aligned (`RosterIsAligned`); workers' cores, memory and GPUs fit the machine (`SharesFitMachine`) |
| `routing` | a task runs only on a worker with its tags, and those on one worker fit its resources, although snapshots are old or partial and workers leave, restart and join (`TasksRunWhereTheyBelong`) |

`memory_limit="0"` is the exception in `PaidNodesStart`: `JobSpec` accepts it for
local clusters, and says that distributed workers require a positive limit
(`jobs.py` 70-71), but nothing checks it before the Jobs are paid for.

Bounds. `NodeCount` is 2 in the launcher's runs: with two Jobs there is already
a known one, a recorded one and an ambiguous one at once, and the loops of
`cancel` and `close` have a first, a next and a last round. `MaxInterrupts` is 2:
the first starts the handler, the second cuts it
short. The proofs have neither bound. `ManifestFile` saves up to four Jobs, so that
several saves can be taken back at once. The clusters of `Runner` have a coordinator with no or one worker and
remote nodes with two and one: complete and incomplete nodes, an own and a
remote count, and two remote nodes that start in either order. `MaxFaults` (2) bounds workers lost and nodes killed; two allow a second
loss while the first is being repaired. Each `startup_timeout` passes at most once.
`PersistentClient` has two clients, as a port has one listener and one who finds
it taken, two clusters of different sizes, three ways of handing out manifests and
credentials (one cluster for both clients, one each, one with the other's credentials),
and one interrupt, which can arrive anywhere, in a cleanup that an error or the body's
end has started too; the proof has no bound on either.
`SourceShipping` has five paths, one each of the kinds the packager tells apart (required,
ordinary and untracked, secret, ignored), files of 0 to 2 units, limits of 3 units and two
files so that both are met and exceeded, and two edits: one file can change twice or two
files once. `Admission` has all graphs over three group names, one of them `dev`, a limit of three Jobs
instead of 64 with launches below, at and above it in both ways of counting, and
eight machines, each at one of the boundaries of `worker_profiles`. `FromYaml` states which counts `load_cluster` lets through and does not
follow how it adds them up. `Routing` has a node with two nannies of different profiles
and one with a third, four tasks (by tag, by tag and resource, by resource, with workers of its
own), three departures, so that one may leave and return while another is away,
and one allowed death.

Fairness. `Launcher`'s `FairSpec` assumes that the process's thread runs (each of its calls
returns or raises: the HTTP client's own timeouts) and that the clock reaches each deadline. It
assumes nothing of the service: a status call that raises (`CallFails`) is possible at every
read and is in no fairness condition, so that reading an active stage for ever is a
behaviour unless a deadline ends it. `MainEnds` holds by the deadlines alone; a `wait` that
renews its deadline and a `close` that ignores its own each violate it.
`RecoverySpec` adds what a person and the service must do for money to stop
flowing: recovery is run again while it has not verified; a cancellation that is
retried for ever is accepted in the end (strong fairness, as each try may fail); an
accepted cancellation takes effect.

`Runner`'s `FairSpec` assumes that processes run, that the user's workload ends
(the code sets it no limit but the Job's lifetime), that timers expire and that a
nanny without a scheduler closes. Nothing is assumed of restarts, of the
scheduler noticing a loss, or of faults; a persistent cluster need never be shut down.
`PersistentClient`'s `FairSpec` assumes that the process runs and that deadlines
pass, and nothing of ssh, the Job, the coordinator or the body; calls that fail
before their deadline are possible and never relied on. `Admission` assumes that
the launching thread runs. `ManifestFile`, `SourceShipping` and `Routing` assume no fairness.

## Proofs

Every invariant, every action property and both refinements that the passing
runs check are theorems, for every value of the constants that satisfies the
named assumptions. What TLC shows on a small instance the proof shows without a
bound; liveness is the exception, see the end of this section.

| Module | Theorems, and the property each states |
|---|---|
| `LauncherProofs` | `TypeCorrect` (`TypeOK`), `AtMostOneIsUnrecorded` (`AtMostOneUnrecorded`), `WriteAhead` (`NewJobOnlyWhenRecorded`), `ManifestNeverLosesHandles` (`ManifestOnlyGrows`), `ZeroIsTrue` (`ZeroMeansReleased`), `ReleaseIsTrue` (`ReleasedMeansTerminal`), `CleanupIsNeverHidden` (`CleanupNeverHidden`), `LiveJobsCanBeFound` (`LiveJobsAreTraceable`), `PromisesKept` (`KeepsPromises`) |
| `ManifestFileProofs` | `FileTypeCorrect` (`TypeOK`), `ManifestIsWhole` (`NeverTorn`), `LossIsBounded` (`LossOnlyTakesBack`), `SaveIsAtomic` (`ActsAtomically`) |
| `PersistentClientProofs` | `ClientTypeCorrect` (`TypeOK`), `NothingIsLeftBehind` (`NothingOutlivesConnect`), `YieldedOnOwnTopology` (`YieldsOwnTopology`) |
| `RunnerProofs` | `RunnerTypeCorrect` (`TypeOK`), `AcceptedTopologyIsComplete` (`TopologyIsComplete`), `StoppedWorkersNeverReturn` (`StoppedWorkersStayAway`) |
| `SourceShippingProofs` | `ShippingTypeCorrect` (`TypeOK`), `OnlyFitSourceIsStaged` (`StagedIsFit`), `RunnersStartOnTheSource` (`RunnersShareTheSource`), `QuietTreesAreShippedWhole` (`QuietTreeIsShippedWhole`), `BudgetsAgree` (`RefusedOnlyIfGrown`) |
| `AdmissionProofs` | `VerdictsAreRight` and `LaunchVerdictsAreRight` (`VerdictIsRight`, alone and within a launch), `AdmissionIsWellTyped` (`AdmissionTypeOK`), `NodesStopOnlyOverMachines` (`PaidNodesStart`), `RostersAreAligned` (`RosterIsAligned`), `SharesFit` (`SharesFitMachine`), `YamlIsAccepted` (`YamlIsNeverRefused`) |
| `RoutingProofs` | `RoutingIsWellTyped` (`TypeOK`), `AffinityIsHard` (`TasksRunWhereTheyBelong`) |

### The launcher

`LauncherProofs` holds for every `NodeCount` and every `MaxInterrupts`, and for both
values of `HandlersInterruptible` but for `CleanupIsNeverHidden` and `LiveJobsCanBeFound`,
which assume `~HandlersInterruptible`: the run `interrupt_hides` shows that the first
needs it, and an interrupt in the handler can prevent the printing the second counts on.

The safety properties are not inductive. `IInv` is: `ControlInv` ties the
control point to the exception and the exit code; `OrderInv` says that both lists
hold ids in node order; `LaunchInv` bounds how far service, handles and manifest
can be apart at each control point (this is what makes a second unrecorded Job
impossible); `FileInv` says that nothing is saved before `main` has created the
file; `CloseInv` carries what polling has established, Job by Job, through
to the return of `close`, of `wait` and of `main`. Each part has a lemma of its
own; `ServiceStep` and `CreateStep` carry the facts about the service, above all
that terminal stages are final.

`LiveJobsCanBeFound` adds `TraceInv`: from the moment the handler has tried its save,
every Job that runs is in the manifest or was printed, or is one that no handle
names, and then the exception is the `LaunchError` that says so.

`PromisesKept` is the refinement. An initial state maps to one of
`PaidCapacity`; for a step, `ContractStep` asks what it does to the mapped variables.
Only a submission creates (`CreateRefines`: its guard is `WriteAhead`'s), only a save
records (`SaveRefines`), only the service releases (`ServiceRefines`), and the two
claims are made where `CloseInv` says that they are true. Everything else
stutters or stops the launch (`ModeStep`).

### The manifest file

The invariant `FileInv` of `ManifestFile` begins before the file exists. It says what the
temporary file holds at each control point, above all that it is synced when it is renamed, and
that the file never records more Jobs than are wanted; no step needs the placeholder to be durable. It holds for every `NodeCount`, and with it
every step is one of `AtomicManifest` or stutters.

### Clients and runners

`PersistentClientProofs` holds for any set of clients and any number of interrupts.
`ClientInv` lists what a client has open at each point; that a client's step takes
from another at most the connection (`ClientStep`) is what makes it inductive. `YieldedOnOwnTopology`
rests on two more facts: every connection, a reopened one too, leads to the cluster of the
credentials, and a marker, once written, is the length its cluster has (`MarkerInv`).

`RunnerProofs` holds for every number of Jobs, every count of workers on each and any
number of faults. That only the whole topology is accepted rests on a counting
argument: the registered workers of a node are some of its workers, and as many as
all of them (`CountedIsComplete`). The invariant `RunnerInv` adds to the types what the
coordinator cannot have done yet, and that all it has told to stop are closed.

### Shipping

`SourceShippingProofs` holds for all trees, limits, edits and nodes. Its invariant says that
what has been read is never secret or ignored, that the bucket is private from `verify`
on, and that a node past the checksum holds the package, scanned before it is
extracted. Two further parts are proved on top of it: `QuietInv`, that without an edit
what was read and what is left to read make up the tree; and `BudgetInv`, that the
command within its limits has counted every file it read, so that a refusal by a
node means an edit. A sum of sizes is defined as the number of bytes that are
counted (`Bytes`), so that a part of the files has at most the bytes of the whole
(`PartIsSmaller`) by the library's theorems on cardinality. Reading in sorted order
needs that a nonempty set of naturals has a least element (`NatHasLeast`).

### Admission

`AdmissionProofs` holds for every project, every launch (any count, any flavors, any list
of worker groups) and every machine. In its first part, what a request reaches is the smallest closed set (`ReachIsLeast`), and the
invariant says that what is selected or pending lies in it, contains the requests, and is
closed but for what is pending. Unless it leaves out a requested `dev`, uv syncs all that was requested
(`SyncedIsRequired`), which is where the validator's yardstick and uv's meet. `AdmissionInv` carries this on: per phase what has been validated
and how the Jobs' environments may end (`Stages`), and per Job what was bought and what its start made of the machine it met
(`Arrays`). From it follow

- the roster: `UptoAdds`, `OwnersCover` and `RosterFollowsUpto` show that the list which the
  code builds by repeating each group holds at every position the group that an
  independent definition (`Owner`) assigns to it, for lists of any length;
- the shares: the quotients of `worker_profiles` add up to no more than what was divided
  (`ProfilesDivide`), and a GPU found once is one worker's (`GpusAreDistinct`);
- the two sets of checks: each complaint of bootstrap and runner is matched with a check that was
  made before anything was paid, or is one of those the property names (`PaidNodesFollow`), and each check of `LaunchPlan`
  with one of `load_cluster` (`YamlStep`).

Definitions that unfold from 0 upwards are recursive functions. The library's
induction takes a predicate as a parameter, which the installed provers cannot
instantiate; `DataLemmas` states induction over a set of numbers instead
(`NatSetInduction`, from `NatHasLeast`, which comes from the library's theorem on finite sets), and
that a function which is defined by its first value and a step exists
(`RecursionExists`).

### Routing

`RoutingProofs` holds for all nannies and finite sets of tasks. `RoutingInv` says that a worker is
only ever registered at its nanny's contact address (`Settled`; two nannies never share one,
`ContactsDiffer`), that a snapshot only holds addresses whose nanny has every tag, that a task is
placed on one of them exactly while it runs (`OneTaskPlaced`), and that no worker has lent more than its supply.
What is lent is the number of units its tasks hold (`Used`), so that one task more adds
at most its demand (`OneMoreTask`) and a task that ends or moves only takes away (`SmallerLoad`).

### Assumptions, and what is only model-checked

The only assumptions are the named ones on the constants. They are types (the
arguments of a launch may be any numbers) with three facts besides: `nvidia-smi` lists a
GPU once, the words that stand for no value and for `"auto"` are no numbers or
configurations, and sets of files and tasks are finite. TLC evaluates each on the
constants of a run.

Liveness is model-checked only: `MainEnds`, `RecoveryReleases`, `BatchEnds`, `NodesEnd`,
`ConnectDecides` and `WorklistEnds` rest on fairness and
ENABLED, which the prover does not handle. So are the four findings, which
are counterexamples.


## Findings

- `interrupt_hides`. The repository's README (lines 187-188) says of the command
  line that "Failures and interrupts attempt cleanup without hiding an unverified
  result." `main`'s handler (`cli.py` 319-333) catches only `Exception`. A second
  interrupt, or an interrupt while a failure is being handled, ends the process
  by a KeyboardInterrupt: cleanup stops wherever it was and "Cleanup unverified"
  is not printed. The manifest still names every known Job (`AtMostOneUnrecorded`
  holds in that run's model), so recovery remains possible.
- `one_core`. `run` refuses a machine with one core: "A single-Job cluster needs
  at least two available CPU cores" (`runner.py` 53-54, tested by
  `test_single_job_requires_one_scheduler_and_one_worker_core`). A cluster of one
  Job can also be launched by `submit_cluster(workers=1, scheduler_worker=True)`,
  and then `run_network_group` has no such check: on one core the scheduler
  reserves it, no worker is started, `wait_topology` accepts the topology `(0,)`,
  and the workload starts with nobody to run its tasks.

- `shared_port`. The docstring of `connect` says "Closing it stops only the local
  client and tunnel" (`client.py` 133-134). `_ssh_tunnel` takes whatever listens on
  `local_port` (8786 unless told otherwise) for its own forward and does not look at its ssh
  again. With two processes on one port, the second is yielded over the
  first one's tunnel while its own ssh exits unnoticed, and closing the first
  breaks the second. Distinct values of `local_port` avoid it.
- `shipping_grows`. A comment says of the limits "Bound both upload size and extracted
  working-tree size" (`cli.py` 31). `package_project` adds up `st_size` and ships what
  `read_bytes` returns afterwards (`cli.py` 138-141). A file that grows in between (a
  log, an output still being written) is counted with its old size; the archive
  beyond the limit is accepted and uploaded, and only `bootstrap.py` 61 refuses
  it, on every node that is then paid for.

## Not modelled, and the plan

Not modelled:

- `Job.wait`: a loop over `status` with a deadline that changes nothing; the same
  loop with consequences is `Cluster.wait`, which is in `ClusterHandle`.
- The life of a `LocalCluster` in `run`, and `run_script`, which restores
  `sys.argv` and `sys.path` of its own process: one thread and one `with` statement. What `run` checks before is in
  `Admission`.
- `TLSCredentials.save` and `load`: one file that is created exclusively. The files
  a running client needs are in `PersistentClient`.
- Certificates and their contents (a cluster's CA tells its credentials from another's), aliases
  and the ports other than `worker_port` (injective arithmetic).
- Whether Dask ever places a waiting task, and what `uv` does beyond the groups it installs.
- Validators of single fields (patterns, mount paths, YAML and TOML
  syntax), the reading of cgroup files and of `nvidia-smi`, printing and wording.

The models cover the parts whose failures cost money or mix up what runs
where, and all their safety properties are proved. What is left, in this order:

1. The findings turned round: that `one_core`, `shared_port` and `shipping_grows` cannot
   happen under the precaution each of them names (another core, another port,
   a tree nobody edits), as theorems with that precaution as their assumption.
2. The composition of `ManifestFile` and `Launcher`: `Launcher`'s save is `AtomicManifest`'s
   by its definition, which a refinement between the two would state.
3. The steps that liveness rests on: for each control point of `Launcher` and of
   `PersistentClient`, that a fair step leads on, of which the safety half (which
   steps leave a point, and where to) can be proved.
