---------------------------- MODULE RunnerProofs ----------------------------
(***************************************************************************)
(* run_network_group, for every number of Jobs, every number of workers on *)
(* each and any number of faults: the coordinator goes on only with the    *)
(* whole topology, and what close_nannies stops stays stopped.             *)
(***************************************************************************)
EXTENDS Runner, FiniteSetTheorems, TLAPS

-----------------------------------------------------------------------------
(* Counting workers.                                                       *)

(* A node's workers are as many as its count says.                         *)
LEMMA CountOfNode ==
    ASSUME NEW n \in Nodes, workers[n] \in Nat
    PROVE  IsFiniteSet(WorkersOf(n)) /\ Cardinality(WorkersOf(n)) = workers[n]
  <1> DEFINE f == [i \in 1..workers[n] |-> <<n, i>>]
  <1>1. f \in Bijection(1..workers[n], WorkersOf(n))
    <2>1. f \in [1..workers[n] -> WorkersOf(n)]
      BY DEF WorkersOf
    <2>2. \A i, j \in 1..workers[n] : f[i] = f[j] => i = j
      OBVIOUS
    <2>3. \A w \in WorkersOf(n) : \E i \in 1..workers[n] : f[i] = w
      BY DEF WorkersOf
    <2> QED
      BY <2>1, <2>2, <2>3 DEF Bijection, Injection, Surjection, IsInjective
  <1>2. IsFiniteSet(1..workers[n]) /\ Cardinality(1..workers[n]) = workers[n]
    BY FS_Interval
  <1>3. ExistsBijection(1..workers[n], WorkersOf(n))
    BY <1>1 DEF ExistsBijection
  <1> QED
    BY <1>2, <1>3, FS_Bijection

(* A worker's first component is its node.                                 *)
LEMMA NodeOfWorker ==
    /\ \A n \in Nodes : WorkersOf(n) \subseteq AllWorkers
    /\ \A w \in AllWorkers : w[1] \in Nodes /\ w \in WorkersOf(w[1])
    /\ \A n \in Nodes : \A w \in WorkersOf(n) : w[1] = n
  BY DEF AllWorkers, WorkersOf

(* Nodes on which as many workers are registered as there are have all of  *)
(* theirs registered.                                                      *)
LEMMA CountedIsComplete ==
    ASSUME registered \subseteq AllWorkers,
           \A n \in Nodes : workers[n] \in Nat /\ Observed(n) = workers[n]
    PROVE  registered = AllWorkers
  <1> SUFFICES ASSUME NEW w \in AllWorkers PROVE w \in registered
    OBVIOUS
  <1> DEFINE n == w[1]
             here == {v \in registered : v[1] = n}
  <1>1. n \in Nodes /\ w \in WorkersOf(n)
    BY NodeOfWorker
  <1>2. here \subseteq WorkersOf(n)
    BY NodeOfWorker
  <1>3. IsFiniteSet(WorkersOf(n)) /\ Cardinality(WorkersOf(n)) = workers[n]
    BY <1>1, CountOfNode
  <1>4. Cardinality(here) = workers[n]
    BY <1>1 DEF Observed
  <1>5. here \in SUBSET WorkersOf(n)
    BY <1>2
  <1>6. here = WorkersOf(n)
    <2> HIDE DEF here, n
    <2> QED
      BY <1>3, <1>4, <1>5, FS_Subset
  <1> QED
    BY <1>1, <1>6

-----------------------------------------------------------------------------
(* The coordinator: what it has not done yet, and that those it has told   *)
(* to stop are closed.                                                     *)
CoordInv ==
    /\ node[0] \in {"boot", "nannies"} => coord = "off"
    /\ coord \in {"off", "topology", "publish"} => marker = None
    /\ coord \in {"off", "topology", "publish", "workload", "snapshot"} => asked = {}
    /\ coord = "returned" => \A w \in asked : nanny[w] = "closed"

RunnerInv == TypeOK /\ CoordInv

(* No node runs anything before it is started.                             *)
LEMMA InitRunnerInv == Init => RunnerInv
  <1> SUFFICES ASSUME Init PROVE RunnerInv
    OBVIOUS
  <1>1. 0 \in 0..MaxFaults
    BY RunnerAssumption
  <1>2. 0 \in Nodes
    BY RunnerAssumption DEF Nodes
  <1>3. TypeOK
    BY <1>1 DEF Init, TypeOK, None
  <1>4. CoordInv
    BY <1>2 DEF Init, CoordInv
  <1> QED
    BY <1>3, <1>4 DEF RunnerInv

(* The constants' types, in the form the proofs use.                       *)
LEMMA Counts ==
    ASSUME TypeOK
    PROVE  /\ 0 \in Nodes /\ Remote \subseteq Nodes /\ Nodes = Remote \cup {0}
           /\ \A n \in Nodes : workers[n] \in Nat
           /\ workers = [n \in Nodes |-> workers[n]]
  BY RunnerAssumption DEF TypeOK, Nodes, Remote

(* A topology that is accepted is the counts the workers advertise.        *)
LEMMA ConsistentCounts ==
    ASSUME TypeOK, Consistent, NEW n \in Nodes
    PROVE  Expected(n) = workers[n] /\ Observed(n) = workers[n]
  <1>1. CASE n = 0
    BY <1>1 DEF Expected, Consistent
  <1>2. CASE n # 0
    <2>1. n \in Remote
      BY <1>2 DEF Remote
    <2>2. PICK count \in Advertised(n) :
              Advertised(n) = {count} /\ Observed(n) = count
      BY <2>1 DEF Consistent
    <2>3. count = workers[n]
      BY <2>2 DEF Advertised
    <2>4. Expected(n) = CHOOSE c \in {workers[n]} : TRUE
      BY <1>2, <2>2, <2>3 DEF Expected
    <2>5. \A c : (c \in {workers[n]}) => c = workers[n]
      OBVIOUS
    <2>6. Expected(n) \in {workers[n]}
      BY <2>4
    <2> QED
      BY <2>2, <2>3, <2>6
  <1> QED
    BY <1>1, <1>2

(* wait_topology returns only over the whole topology.                     *)
LEMMA AcceptedIsWhole ==
    ASSUME TypeOK, Consistent
    PROVE  registered = AllWorkers /\ [n \in Nodes |-> Expected(n)] = workers
  <1>1. \A n \in Nodes :
            /\ workers[n] \in Nat
            /\ Expected(n) = workers[n] /\ Observed(n) = workers[n]
    BY Counts, ConsistentCounts
  <1>2. registered = AllWorkers
    <2>1. registered \subseteq AllWorkers
      BY DEF TypeOK
    <2> QED
      BY <1>1, <2>1, CountedIsComplete
  <1>3. [n \in Nodes |-> Expected(n)] = [n \in Nodes |-> workers[n]]
    BY <1>1
  <1> QED
    BY <1>2, <1>3, Counts

-----------------------------------------------------------------------------
(* What the steps are made of.                                             *)

(* Closing nannies keeps their types, and closed ones closed.              *)
LEMMA ClosingNannies ==
    ASSUME TypeOK, NEW S \in SUBSET AllWorkers, NanniesClosed(S)
    PROVE  /\ nanny' \in [AllWorkers -> {"off", "up", "restarting", "closed"}]
           /\ \A w \in AllWorkers : nanny[w] = "closed" => nanny'[w] = "closed"
           /\ \A w \in S : nanny'[w] = "closed"
  BY DEF TypeOK, NanniesClosed

(* A node that leaves keeps the types and brings nobody back.              *)
LEMMA Leaving ==
    ASSUME TypeOK, NEW n \in Nodes, NEW how \in {"done", "failed"}, Leave(n, how)
    PROVE  /\ node' \in [Nodes -> {"boot", "nannies", "ready", "done", "failed"}]
           /\ node'[n] = how /\ \A m \in Nodes \ {n} : node'[m] = node[m]
           /\ nanny' \in [AllWorkers -> {"off", "up", "restarting", "closed"}]
           /\ \A w \in AllWorkers : nanny[w] = "closed" => nanny'[w] = "closed"
           /\ sched' \in {"down", "up", "closed"}
           /\ registered' \subseteq registered
  <1>1. WorkersOf(n) \in SUBSET AllWorkers
    BY NodeOfWorker
  <1>2. NanniesClosed(WorkersOf(n))
    BY DEF Leave
  <1>3. /\ nanny' \in [AllWorkers -> {"off", "up", "restarting", "closed"}]
        /\ \A w \in AllWorkers : nanny[w] = "closed" => nanny'[w] = "closed"
    BY <1>1, <1>2, ClosingNannies
  <1> QED
    BY <1>3 DEF Leave, TypeOK

(* The sets of workers change only with the counts, which are given.       *)
LEMMA SameWorkers == UNCHANGED given => AllWorkers' = AllWorkers
  BY DEF given, AllWorkers, WorkersOf

-----------------------------------------------------------------------------
(* Nodes and their nannies: a node registers its own workers only, and     *)
(* none that is closed.                                                    *)
LEMMA NodeStep ==
    ASSUME RunnerInv, NEW n \in Nodes, NodeNext(n)
    PROVE  /\ RunnerInv' /\ (coord' = coord \/ coord' # "publish")
           /\ (coord = "returned" => registered' \cap asked \subseteq registered)
  <1>0. /\ TypeOK /\ CoordInv /\ 0 \in Nodes /\ Remote \subseteq Nodes /\ 0 \notin Remote
    BY Counts DEF RunnerInv, Remote
  <1>1. UNCHANGED given /\ AllWorkers' = AllWorkers
    BY SameWorkers DEF NodeNext, SchedulerReached, SchedulerNotReached, NannyStarts,
       NannyStartFails, NanniesStarted, NodeFinishes
  <1> USE <1>0, <1>1
  <1>2. CASE SchedulerReached(n)
    BY <1>2 DEF SchedulerReached, RunnerInv, TypeOK, CoordInv, coordVars, given
  <1>3. CASE SchedulerNotReached(n) \/ NannyStartFails(n) \/ NodeFinishes(n)
    <2>1. /\ \E how \in {"done", "failed"} : Leave(n, how)
          /\ UNCHANGED <<late, coordVars, faults, given>>
      BY <1>3 DEF SchedulerNotReached, NannyStartFails, NodeFinishes
    <2>2. PICK how \in {"done", "failed"} : Leave(n, how)
      BY <2>1
    <2> QED
      BY <2>1, <2>2, Leaving DEF RunnerInv, TypeOK, CoordInv, coordVars, given
  <1>4. CASE NannyStarts(n)
    <2>1. PICK w \in WorkersOf(n) :
              /\ nanny[w] = "off"
              /\ nanny' = [nanny EXCEPT ![w] = "up"]
              /\ registered' = registered \cup {w}
      BY <1>4 DEF NannyStarts
    <2>2. w \in AllWorkers
      BY NodeOfWorker
    <2>3. TypeOK'
      BY <1>4, <2>1, <2>2 DEF NannyStarts, TypeOK, coordVars, given
    <2>4. CoordInv'
      BY <1>4, <2>1, <2>2 DEF NannyStarts, TypeOK, CoordInv, coordVars
    <2>5. coord' = coord /\ asked' = asked
      BY <1>4 DEF NannyStarts, coordVars
    <2>6. coord = "returned" => w \notin asked
      BY <2>1 DEF CoordInv
    <2> QED
      BY <2>1, <2>3, <2>4, <2>5, <2>6 DEF RunnerInv
  <1>5. CASE NanniesStarted(n)
    BY <1>5 DEF NanniesStarted, RunnerInv, TypeOK, CoordInv, given
  <1> QED
    BY <1>2, <1>3, <1>4, <1>5 DEF NodeNext

(* Workers that are lost, restarted, noticed or given up.                  *)
LEMMA WorkerStep ==
    ASSUME RunnerInv, NEW w \in AllWorkers, WorkerNext(w) \/ WorkerLost(w)
    PROVE  /\ RunnerInv' /\ coord' = coord
           /\ (coord = "returned" => registered' \cap asked \subseteq registered)
  <1>0. TypeOK /\ CoordInv
    BY DEF RunnerInv
  <1>1. UNCHANGED given /\ AllWorkers' = AllWorkers
    BY SameWorkers DEF WorkerNext, WorkerRestarts, SchedulerDropsWorker, NannyGivesUp,
       WorkerLost, Fault
  <1> USE <1>0, <1>1
  <1>2. CASE WorkerRestarts(w)
    <2>1. TypeOK' /\ CoordInv' /\ coord' = coord /\ asked' = asked
      BY <1>2 DEF WorkerRestarts, TypeOK, CoordInv, coordVars, given
    <2>2. coord = "returned" => w \notin asked
      BY <1>2 DEF CoordInv, WorkerRestarts
    <2> QED
      BY <1>2, <2>1, <2>2 DEF WorkerRestarts, RunnerInv
  <1>3. CASE SchedulerDropsWorker(w)
    BY <1>3 DEF SchedulerDropsWorker, RunnerInv, TypeOK, CoordInv, coordVars, given
  <1>4. CASE NannyGivesUp(w)
    <2>1. NanniesClosed({w}) /\ {w} \in SUBSET AllWorkers
      BY <1>4 DEF NannyGivesUp
    <2> QED
      BY <1>4, <2>1, ClosingNannies
      DEF NannyGivesUp, RunnerInv, TypeOK, CoordInv, coordVars, given
  <1>5. CASE WorkerLost(w)
    BY <1>5, RunnerAssumption DEF WorkerLost, Fault, RunnerInv, TypeOK, CoordInv, coordVars, given
  <1> QED
    BY <1>2, <1>3, <1>4, <1>5 DEF WorkerNext

(* The coordinator: publishes what it accepted, and takes its list of      *)
(* workers to stop from the scheduler's table.                             *)
LEMMA CoordinatorStep ==
    ASSUME RunnerInv, CoordinatorNext \/ CallRaises
    PROVE  /\ RunnerInv' /\ registered' = registered
           /\ WaitedForAll
  <1>0. TypeOK /\ CoordInv /\ 0 \in Nodes
    BY Counts DEF RunnerInv
  <1>1. UNCHANGED given /\ AllWorkers' = AllWorkers
    BY SameWorkers DEF CoordinatorNext, TopologyComplete, TopologyTimeout, Publish,
       WorkloadReturns, SnapshotWorkers, Broadcast, BroadcastRaises, CallRaises
  <1> USE <1>0, <1>1
  <1>2. CASE TopologyComplete
    <2>1. registered = AllWorkers /\ topology' = workers
      BY <1>2, AcceptedIsWhole DEF TopologyComplete
    <2>2. workers \in [Nodes -> Nat]
      BY Counts
    <2>3. marker' = None /\ asked' = {} /\ coord' = "publish" /\ coord = "topology"
      BY <1>2 DEF TopologyComplete, CoordInv
    <2>4. TypeOK'
      BY <1>2, <2>1, <2>2, <2>3 DEF TopologyComplete, TypeOK, nodeVars, given
    <2>5. CoordInv'
      BY <1>2, <2>3 DEF TopologyComplete, CoordInv, nodeVars
    <2> QED
      BY <1>2, <2>1, <2>4, <2>5 DEF TopologyComplete, RunnerInv, WaitedForAll, nodeVars
  <1>3. CASE TopologyTimeout \/ CallRaises
    BY <1>3 DEF TopologyTimeout, CallRaises, RunnerInv, TypeOK, CoordInv, nodeVars, given,
       WaitedForAll
  <1>4. CASE Publish
    BY <1>4 DEF Publish, RunnerInv, TypeOK, CoordInv, nodeVars, given, WaitedForAll
  <1>5. CASE WorkloadReturns
    BY <1>5 DEF WorkloadReturns, RunnerInv, TypeOK, CoordInv, nodeVars, given, WaitedForAll
  <1>6. CASE SnapshotWorkers
    BY <1>6 DEF SnapshotWorkers, RunnerInv, TypeOK, CoordInv, nodeVars, given, WaitedForAll
  <1>7. CASE Broadcast
    <2>1. asked \in SUBSET AllWorkers /\ NanniesClosed(asked)
      BY <1>7 DEF Broadcast, TypeOK
    <2> QED
      BY <1>7, <2>1, ClosingNannies
      DEF Broadcast, RunnerInv, TypeOK, CoordInv, given, WaitedForAll
  <1>8. CASE BroadcastRaises
    <2>1. PICK S \in SUBSET asked : NanniesClosed(S)
      BY <1>8 DEF BroadcastRaises
    <2>2. S \in SUBSET AllWorkers
      BY <2>1 DEF TypeOK
    <2> QED
      BY <1>8, <2>1, <2>2, ClosingNannies
      DEF BroadcastRaises, RunnerInv, TypeOK, CoordInv, given, WaitedForAll
  <1> QED
    BY <1>2, <1>3, <1>4, <1>5, <1>6, <1>7, <1>8 DEF CoordinatorNext

(* The driver's beginning and end, time, faults and a client's shutdown.   *)
LEMMA OtherStep ==
    ASSUME RunnerInv,
           \/ StartScheduler \/ DriverEnds \/ ClientShutdown
           \/ \E n \in Nodes : StartupTimeoutPasses(n) \/ NodeFails(n)
    PROVE  RunnerInv' /\ coord' = coord /\ registered' \subseteq registered
  <1>0. TypeOK /\ CoordInv /\ 0 \in Nodes
    BY Counts DEF RunnerInv
  <1>1. UNCHANGED given /\ AllWorkers' = AllWorkers
    BY SameWorkers DEF StartScheduler, DriverEnds, ClientShutdown, StartupTimeoutPasses,
       NodeFails, Fault
  <1> USE <1>0, <1>1
  <1>2. CASE StartScheduler
    BY <1>2 DEF StartScheduler, RunnerInv, TypeOK, CoordInv, coordVars, given
  <1>3. CASE DriverEnds
    <2>1. PICK how \in {"done", "failed"} : Leave(0, how)
      BY <1>3 DEF DriverEnds
    <2>2. UNCHANGED <<late, coordVars, faults, given>>
      BY <1>3 DEF DriverEnds
    <2> QED
      BY <2>1, <2>2, Leaving DEF RunnerInv, TypeOK, CoordInv, coordVars, given
  <1>4. CASE ClientShutdown
    BY <1>4 DEF ClientShutdown, RunnerInv, TypeOK, CoordInv, coordVars, given
  <1>5. CASE \E n \in Nodes : StartupTimeoutPasses(n)
    BY <1>5 DEF StartupTimeoutPasses, RunnerInv, TypeOK, CoordInv, nodeVars, coordVars, given
  <1>6. CASE \E n \in Nodes : NodeFails(n)
    <2>1. PICK n \in Nodes : NodeFails(n)
      BY <1>6
    <2>2. Leave(n, "failed") /\ UNCHANGED <<late, coordVars, given>>
      BY <2>1 DEF NodeFails, Fault
    <2>3. faults' \in 0..MaxFaults
      BY <2>1, RunnerAssumption DEF NodeFails, Fault, TypeOK
    <2> QED
      BY <2>2, <2>3, Leaving DEF RunnerInv, TypeOK, CoordInv, coordVars, given
  <1> QED
    BY <1>2, <1>3, <1>4, <1>5, <1>6

(* All steps: the invariant, and what the two action properties say.       *)
LEMMA RunnerStep ==
    ASSUME RunnerInv, [Next]_vars
    PROVE  RunnerInv' /\ WaitedForAll /\ StoppedStays
  <1>1. CASE \E n \in Nodes : NodeNext(n)
    BY <1>1, NodeStep DEF WaitedForAll, StoppedStays
  <1>2. CASE \E w \in AllWorkers : WorkerNext(w) \/ WorkerLost(w)
    BY <1>2, WorkerStep DEF WaitedForAll, StoppedStays
  <1>3. CASE CoordinatorNext \/ CallRaises
    BY <1>3, CoordinatorStep DEF StoppedStays
  <1>4. CASE \/ StartScheduler \/ DriverEnds \/ ClientShutdown
             \/ \E n \in Nodes : StartupTimeoutPasses(n) \/ NodeFails(n)
    BY <1>4, OtherStep DEF WaitedForAll, StoppedStays
  <1>5. CASE UNCHANGED vars
    <2>1. AllWorkers' = AllWorkers
      BY <1>5, SameWorkers DEF vars, given
    <2> QED
      BY <1>5, <2>1 DEF vars, nodeVars, coordVars, given, RunnerInv, TypeOK, CoordInv,
         WaitedForAll, StoppedStays
  <1> QED
    BY <1>1, <1>2, <1>3, <1>4, <1>5 DEF Next

-----------------------------------------------------------------------------
(* The invariant of the cluster's processes.                               *)
THEOREM RunnerInvariance == Spec => []RunnerInv
  BY InitRunnerInv, RunnerStep, PTL DEF Spec

(* The state of every node, nanny and of the coordinator keeps its type.   *)
THEOREM RunnerTypeCorrect == Spec => []TypeOK
  <1>1. RunnerInv => TypeOK
    BY DEF RunnerInv
  <1> QED
    BY <1>1, RunnerInvariance, PTL

(* wait_topology returns only when every worker of every node is in the    *)
(* scheduler's table, with the true number of each node.                   *)
THEOREM AcceptedTopologyIsComplete == Spec => TopologyIsComplete
  <1>1. RunnerInv /\ [Next]_vars => [WaitedForAll]_vars
    BY RunnerStep
  <1> QED
    BY <1>1, RunnerInvariance, PTL DEF Spec, TopologyIsComplete

(* No worker whose nanny close_nannies has stopped registers again.        *)
THEOREM StoppedWorkersNeverReturn == Spec => StoppedWorkersStayAway
  <1>1. RunnerInv /\ [Next]_vars => [StoppedStays]_vars
    BY RunnerStep
  <1> QED
    BY <1>1, RunnerInvariance, PTL DEF Spec, StoppedWorkersStayAway
=============================================================================
