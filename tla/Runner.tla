------------------------------- MODULE Runner -------------------------------
(***************************************************************************)
(* src/hfdask/runner.py, run_network_group: the processes inside the Jobs  *)
(* of one cluster.  Node 0 runs the Dask scheduler, perhaps workers, and   *)
(* in a thread the coordinator, which waits for the whole topology,        *)
(* publishes it, runs the workload and stops the nannies.  Every other     *)
(* node waits for the scheduler, starts one nanny per worker and stays     *)
(* until all of them have finished.                                        *)
(*                                                                         *)
(* Dask is not in the repository.  Assumed of it: entering a Nanny returns *)
(* when its worker is registered, a nanny restarts a lost worker, closes   *)
(* when told to and, after its death timeout, when there is no scheduler;  *)
(* the scheduler notices later that a worker is gone; scheduler_info lists *)
(* every registered worker.                                                *)
(***************************************************************************)
EXTENDS Naturals, FiniteSets

CONSTANTS
    JobNodes,    \* config["job_nodes"]
    Inventories, \* the possible values of workers
    MaxFaults    \* bound: workers lost and nodes killed in one run

Nodes == 0..(JobNodes - 1)
Remote == Nodes \ {0}

ASSUME RunnerAssumption ==
    /\ JobNodes \in 1..64
    /\ Inventories \subseteq [Nodes -> Nat]
    /\ \A size \in Inventories : \A n \in Remote : size[n] > 0
    /\ MaxFaults \in Nat

VARIABLES
    node,        \* where run_network_group is on each node
    nanny,       \* each worker's nanny, and whether its worker runs
    sched,       \* the scheduler in node 0's process
    registered,  \* the workers in the scheduler's table
    late,        \* the nodes whose startup_timeout has passed (0: wait_topology's)
    coord,       \* where the coordinator thread is
    topology,    \* what wait_topology returned
    marker,      \* the topology in the scheduler's metadata
    asked,       \* the workers close_nannies read from scheduler_info
    faults,      \* workers lost and nodes killed so far
    workers,     \* workers[n]: len(profiles) on node n, known to n only
    persistent   \* config["persistent"]

nodeVars == <<node, nanny, sched, registered>>
coordVars == <<coord, topology, marker, asked>>
given == <<workers, persistent>>
vars == <<nodeVars, late, coordVars, faults, given>>

(* A worker is its node and its ordinal there; a restart keeps both.       *)
WorkersOf(n) == {n} \X (1..workers[n])
AllWorkers == UNION {WorkersOf(n) : n \in Nodes}

None == <<>>
Over(n) == node[n] \in {"done", "failed"}

TypeOK ==
    /\ node \in [Nodes -> {"boot", "nannies", "ready", "done", "failed"}]
    /\ nanny \in [AllWorkers -> {"off", "up", "restarting", "closed"}]
    /\ sched \in {"down", "up", "closed"}
    /\ registered \subseteq AllWorkers
    /\ late \subseteq Nodes
    /\ coord \in {"off", "topology", "publish", "workload", "snapshot",
                  "broadcast", "returned", "raised"}
    /\ topology \in [Nodes -> Nat] \cup {None}
    /\ marker \in {None, topology}
    /\ asked \subseteq AllWorkers
    /\ faults \in 0..MaxFaults
    /\ workers \in Inventories
    /\ persistent \in BOOLEAN

Init ==
    /\ workers \in Inventories
    /\ node = [n \in Nodes |-> "boot"]
    /\ nanny = [w \in AllWorkers |-> "off"]
    /\ sched = "down" /\ registered = {} /\ late = {}
    /\ coord = "off" /\ topology = None /\ marker = None /\ asked = {}
    /\ faults = 0
    /\ persistent \in BOOLEAN

-----------------------------------------------------------------------------
(* Every node: the scheduler first, then the nannies one after another.    *)

NanniesClosed(S) ==
    nanny' = [w \in AllWorkers |-> IF w \in S THEN "closed" ELSE nanny[w]]

(* Leaving the exit stack closes the node's nannies and, on node 0, the    *)
(* scheduler.                                                              *)
Leave(n, how) ==
    /\ node' = [node EXCEPT ![n] = how]
    /\ NanniesClosed(WorkersOf(n))
    /\ IF n = 0 THEN sched' = "closed" /\ registered' = {}
                ELSE UNCHANGED <<sched, registered>>

StartScheduler ==
    /\ node[0] = "boot"
    /\ node' = [node EXCEPT ![0] = "nannies"]
    /\ sched' = "up"
    /\ UNCHANGED <<nanny, registered, late, coordVars, faults, given>>

SchedulerReached(n) ==
    /\ n \in Remote /\ node[n] = "boot" /\ sched = "up"
    /\ node' = [node EXCEPT ![n] = "nannies"]
    /\ UNCHANGED <<nanny, sched, registered, late, coordVars, faults, given>>

(* Fault: the retries know no deadline while the scheduler is away.        *)
SchedulerNotReachedRetries(n) ==
    /\ n \in Remote /\ node[n] = "boot" /\ n \in late /\ sched = "up"
    /\ Leave(n, "failed")
    /\ UNCHANGED <<late, coordVars, faults, given>>

SchedulerNotReached(n) ==
    /\ n \in Remote /\ node[n] = "boot" /\ n \in late
    /\ Leave(n, "failed")
    /\ UNCHANGED <<late, coordVars, faults, given>>

(* Fault: the worker announces itself under the ordinal after its own.     *)
NannyStartsOffByOne(n) ==
    /\ node[n] = "nannies" /\ sched = "up"
    /\ \E w \in WorkersOf(n) :
        /\ nanny[w] = "off"
        /\ \A v \in WorkersOf(n) : v[2] < w[2] => nanny[v] # "off"
        /\ nanny' = [nanny EXCEPT ![w] = "up"]
        /\ registered' = registered \cup {<<n, w[2] + 1>>}
    /\ UNCHANGED <<node, sched, late, coordVars, faults, given>>

(* enter_async_context(Nanny(...)) of the next ordinal.                    *)
NannyStarts(n) ==
    /\ node[n] = "nannies" /\ sched = "up"
    /\ \E w \in WorkersOf(n) :
        /\ nanny[w] = "off"
        /\ \A v \in WorkersOf(n) : v[2] < w[2] => nanny[v] # "off"
        /\ nanny' = [nanny EXCEPT ![w] = "up"]
        /\ registered' = registered \cup {w}
    /\ UNCHANGED <<node, sched, late, coordVars, faults, given>>

NannyStartFails(n) ==
    /\ node[n] = "nannies" /\ sched = "closed"
    /\ \E w \in WorkersOf(n) : nanny[w] = "off"
    /\ Leave(n, "failed")
    /\ UNCHANGED <<late, coordVars, faults, given>>

NanniesStarted(n) ==
    /\ node[n] = "nannies"
    /\ \A w \in WorkersOf(n) : nanny[w] # "off"
    /\ node' = [node EXCEPT ![n] = "ready"]
    /\ IF n = 0 THEN coord' = "topology" ELSE UNCHANGED coord
    /\ UNCHANGED <<nanny, sched, registered, late, topology, marker, asked, faults, given>>

(* A remote node: gather(nanny.finished() ...).                            *)
NodeFinishes(n) ==
    /\ n \in Remote /\ node[n] = "ready"
    /\ \A w \in WorkersOf(n) : nanny[w] = "closed"
    /\ Leave(n, "done")
    /\ UNCHANGED <<late, coordVars, faults, given>>

-----------------------------------------------------------------------------
(* The coordinator.  Each call of it to the scheduler may raise, and so    *)
(* does wait_topology over a worker that is none of this cluster's.        *)

Observed(n) == Cardinality({w \in registered : w[1] = n})

(* The workers_on_node that the registered workers of n advertise.         *)
Advertised(n) == {workers[w[1]] : w \in {v \in registered : v[1] = n}}

(* Fault: one worker of a node is taken for all of them.                   *)
ConsistentSomeWorker ==
    /\ Observed(0) = workers[0]
    /\ \A n \in Remote : Advertised(n) # {}

Consistent ==
    /\ Observed(0) = workers[0]
    /\ \A n \in Remote : \E count \in Advertised(n) :
        /\ Advertised(n) = {count} /\ count > 0
        /\ Observed(n) = count

Expected(n) == IF n = 0 THEN workers[0] ELSE CHOOSE count \in Advertised(n) : TRUE

TopologyComplete ==
    /\ coord = "topology" /\ Consistent
    /\ topology' = [n \in Nodes |-> Expected(n)]
    /\ coord' = "publish"
    /\ UNCHANGED <<nodeVars, late, marker, asked, faults, given>>

(* Fault: wait_topology waits for as long as it takes.                     *)
TopologyTimeoutIgnored ==
    /\ coord = "topology" /\ ~Consistent /\ 0 \in late
    /\ UNCHANGED vars

TopologyTimeout ==
    /\ coord = "topology" /\ ~Consistent /\ 0 \in late
    /\ coord' = "raised"
    /\ UNCHANGED <<nodeVars, late, topology, marker, asked, faults, given>>

Publish ==
    /\ coord = "publish"
    /\ marker' = topology
    /\ coord' = IF persistent THEN "returned" ELSE "workload"
    /\ UNCHANGED <<nodeVars, late, topology, asked, faults, given>>

WorkloadReturns ==
    /\ coord = "workload"
    /\ coord' = "snapshot"
    /\ UNCHANGED <<nodeVars, late, topology, marker, asked, faults, given>>

(* close_nannies: read the workers, then tell their nannies to terminate.  *)
SnapshotWorkers ==
    /\ coord = "snapshot"
    /\ asked' = registered
    /\ coord' = "broadcast"
    /\ UNCHANGED <<nodeVars, late, topology, marker, faults, given>>

(* Fault: the workers are told to stop, not their nannies.                 *)
BroadcastToWorkers ==
    /\ coord = "broadcast" /\ asked \subseteq registered
    /\ nanny' = [w \in AllWorkers |-> IF w \in asked /\ nanny[w] = "up"
                                        THEN "restarting" ELSE nanny[w]]
    /\ registered' = registered \ asked
    /\ coord' = "returned"
    /\ UNCHANGED <<node, sched, late, topology, marker, asked, faults, given>>

Broadcast ==
    /\ coord = "broadcast" /\ asked \subseteq registered
    /\ NanniesClosed(asked)
    /\ coord' = "returned"
    /\ UNCHANGED <<node, sched, registered, late, topology, marker, asked, faults, given>>

(* A worker that left after the snapshot, or a nanny that does not answer; *)
(* some of the others may have been told.                                  *)
BroadcastRaises ==
    /\ coord = "broadcast"
    /\ \E S \in SUBSET asked : NanniesClosed(S)
    /\ coord' = "raised"
    /\ UNCHANGED <<node, sched, registered, late, topology, marker, asked, faults, given>>

CallRaises ==
    /\ ~Over(0) /\ coord \in {"topology", "publish", "workload", "snapshot"}
    /\ coord' = "raised"
    /\ UNCHANGED <<nodeVars, late, topology, marker, asked, faults, given>>

(* await asyncio.to_thread(coordinator); persistent: scheduler.finished(). *)
DriverEnds ==
    /\ node[0] = "ready"
    /\ \/ coord = "raised" /\ Leave(0, "failed")
       \/ coord = "returned" /\ ~persistent /\ Leave(0, "done")
       \/ coord = "returned" /\ persistent /\ sched = "closed" /\ Leave(0, "done")
    /\ UNCHANGED <<late, coordVars, faults, given>>

-----------------------------------------------------------------------------
(* What happens to them.                                                   *)

StartupTimeoutPasses(n) ==
    /\ n \notin late
    /\ IF n = 0 THEN coord = "topology" ELSE node[n] = "boot"
    /\ late' = late \cup {n}
    /\ UNCHANGED <<nodeVars, coordVars, faults, given>>

Fault == faults < MaxFaults /\ faults' = faults + 1 /\ UNCHANGED given

WorkerLost(w) ==
    /\ Fault
    /\ nanny[w] = "up"
    /\ nanny' = [nanny EXCEPT ![w] = "restarting"]
    /\ UNCHANGED <<node, sched, registered, late, coordVars>>

WorkerRestarts(w) ==
    /\ nanny[w] = "restarting" /\ sched = "up"
    /\ nanny' = [nanny EXCEPT ![w] = "up"]
    /\ registered' = registered \cup {w}
    /\ UNCHANGED <<node, sched, late, coordVars, faults, given>>

SchedulerDropsWorker(w) ==
    /\ w \in registered /\ nanny[w] # "up"
    /\ registered' = registered \ {w}
    /\ UNCHANGED <<node, nanny, sched, late, coordVars, faults, given>>

(* Fault: a nanny that is restarting its worker has no death timeout.      *)
NannyGivesUpUnlessRestarting(w) ==
    /\ sched = "closed" /\ nanny[w] = "up"
    /\ NanniesClosed({w})
    /\ UNCHANGED <<node, sched, registered, late, coordVars, faults, given>>

(* death_timeout                                                           *)
NannyGivesUp(w) ==
    /\ sched = "closed" /\ nanny[w] \in {"up", "restarting"}
    /\ NanniesClosed({w})
    /\ UNCHANGED <<node, sched, registered, late, coordVars, faults, given>>

(* A setup step raises, the Job is cancelled, its lifetime ends, ...       *)
NodeFails(n) ==
    /\ Fault
    /\ ~Over(n)
    /\ Leave(n, "failed")
    /\ UNCHANGED <<late, coordVars>>

(* A persistent cluster: a client shuts the scheduler down.                *)
ClientShutdown ==
    /\ persistent /\ coord = "returned" /\ sched = "up"
    /\ sched' = "closed" /\ registered' = {}
    /\ UNCHANGED <<node, nanny, late, coordVars, faults, given>>

-----------------------------------------------------------------------------
(* A thread whose process has ended takes no step.                         *)
CoordinatorNext ==
    /\ ~Over(0)
    /\ \/ TopologyComplete \/ TopologyTimeout \/ Publish
       \/ WorkloadReturns \/ SnapshotWorkers
       \/ Broadcast \/ BroadcastRaises

NodeNext(n) ==
    \/ SchedulerReached(n) \/ SchedulerNotReached(n)
    \/ NannyStarts(n) \/ NannyStartFails(n) \/ NanniesStarted(n)
    \/ NodeFinishes(n)

WorkerNext(w) == WorkerRestarts(w) \/ SchedulerDropsWorker(w) \/ NannyGivesUp(w)

Next ==
    \/ StartScheduler \/ DriverEnds \/ ClientShutdown
    \/ CoordinatorNext \/ CallRaises
    \/ \E n \in Nodes : NodeNext(n) \/ StartupTimeoutPasses(n) \/ NodeFails(n)
    \/ \E w \in AllWorkers : WorkerNext(w) \/ WorkerLost(w)

Spec == Init /\ [][Next]_vars

(* Processes run, the workload ends, timers expire, a nanny without a      *)
(* scheduler closes.  A lost worker need never be restarted or noticed.    *)
FairSpec ==
    /\ Spec
    /\ WF_vars(StartScheduler) /\ WF_vars(DriverEnds)
    /\ WF_vars(CoordinatorNext)
    /\ \A n \in Nodes :
        /\ WF_vars(NodeNext(n)) /\ WF_vars(StartupTimeoutPasses(n))
        /\ WF_vars(\E w \in WorkersOf(n) : NannyGivesUp(w))

-----------------------------------------------------------------------------
(* wait_topology: "Wait until every remote Job has registered its complete *)
(* detected worker set."  The coordinator leaves it in success only in a   *)
(* state where all workers of all nodes are registered, although it knows  *)
(* their numbers from the workers themselves, and reports those numbers.   *)
WaitedForAll ==
    (coord = "topology" /\ coord' = "publish")
        => registered = AllWorkers /\ topology' = workers

TopologyIsComplete == [][WaitedForAll]_vars

(* close_nannies asks the nannies, "instead of closing worker processes    *)
(* first": no worker it asked to stop registers again.                     *)
StoppedStays ==
    coord = "returned" => registered' \cap asked \subseteq registered

StoppedWorkersStayAway == [][StoppedStays]_vars

(* "A single-Job cluster needs at least two available CPU cores", that is  *)
(* a worker (runner.py:54, where run checks it): no workload starts on a   *)
(* topology without one.                                                   *)
WorkloadHasWorkers == coord = "workload" => \E n \in Nodes : topology[n] > 0

(* A batch driver ends, whatever else fails to start or disappears: the    *)
(* wait for the topology has a deadline and the workload ends.             *)
BatchEnds == ~persistent => <>Over(0)

(* No Job outlives the driver's: once it has ended, every node does.       *)
NodesEnd == Over(0) ~> \A n \in Nodes : Over(n)
=============================================================================
