------------------------------ MODULE Routing ------------------------------
(***************************************************************************)
(* submit_on: a task is tied to the workers whose tags match at the moment *)
(* it is submitted, while nannies restart workers and Jobs come and go.    *)
(*                                                                         *)
(* What submit_on passes on are addresses.  Whether they still mean the    *)
(* same workers later depends on where run_network_group puts a worker: a  *)
(* nanny is one ordinal of one node, its profile gives the worker's tags   *)
(* and resources, and worker_port gives it the same port at every restart. *)
(* The scheduler's side is external: what Dask does with workers=,         *)
(* allow_other_workers=False and resources=.                               *)
(***************************************************************************)
EXTENDS Integers, FiniteSets

CONSTANTS
    Nannies,          \* pairs of a node and an ordinal
    WORKER_PORT_BASE,
    Gone,             \* no worker at an address
    Tasks,
    TagsOf,           \* the tags in each nanny's profile
    Supply,           \* the units of the resource each worker offers
    Wanted,           \* the tags each task asks for
    Demand,           \* the units each task reserves
    Overriding,       \* the tasks that name workers or allow_other_workers
    MaxDepartures,    \* bound: how often a worker leaves
    MaxDeaths         \* distributed's allowed-failures

ASSUME RoutingAssumption ==
    /\ Nannies \subseteq Nat \X Nat /\ WORKER_PORT_BASE \in Nat
    /\ Gone \notin Nannies
    /\ IsFiniteSet(Tasks)
    /\ Supply \in [Nannies -> Nat] /\ Demand \in [Tasks -> Nat]
    /\ MaxDepartures \in Nat /\ MaxDeaths \in Nat

VARIABLES
    worker,        \* whose worker the scheduler knows at each address
    departures,    \* how many workers have left so far
    task,          \* the phase of each task
    eligible,      \* the snapshot each task was submitted with
    place,         \* the addresses that run each task (at most one)
    deaths         \* workers each task has seen die

vars == <<worker, departures, task, eligible, place, deaths>>

worker_port(ordinal) == WORKER_PORT_BASE + ordinal

Contact(n) == <<n[1], worker_port(n[2])>>

Addresses == {Contact(n) : n \in Nannies}

(* contact_address and worker_port of the Nanny.                           *)
ContactsAnyPort(n) ==   \* a plausible bug: Dask picks a free port
    {a \in Addresses : a[1] = n[1]}
Contacts(n) == {Contact(n)}

Registered == {a \in Addresses : worker[a] # Gone}

(* The cluster is at any point of its life when the first task comes.      *)
Init ==
    /\ \E up \in SUBSET Nannies :
          worker = [a \in Addresses |->
                       IF \E n \in up : a = Contact(n)
                       THEN CHOOSE n \in up : a = Contact(n) ELSE Gone]
    /\ departures = 0
    /\ task = [t \in Tasks |-> "new"]
    /\ eligible = [t \in Tasks |-> {}]
    /\ place = [t \in Tasks |-> {}]
    /\ deaths = [t \in Tasks |-> 0]

-----------------------------------------------------------------------------
(* require_owned_placement                                                 *)
RefusePlacement(t) ==
    /\ task[t] = "new" /\ t \in Overriding
    /\ task' = [task EXCEPT ![t] = "refused"]
    /\ UNCHANGED <<worker, departures, eligible, place, deaths>>

(* workers_with: every requested tag, no fallback; none asks for any worker. *)
MatchingAny(tags, listed) ==   \* a plausible bug: one common tag is enough
    {a \in listed : tags = {} \/ tags \cap TagsOf[worker[a]] # {}}
Matching(tags, listed) == {a \in listed : tags \subseteq TagsOf[worker[a]]}

(* scheduler_info may list only some of the workers: the newer releases of *)
(* distributed cut its answer off by default.                              *)
LookUp(t) ==
    /\ task[t] = "new" /\ t \notin Overriding
    /\ \E listed \in SUBSET Registered :
          eligible' = [eligible EXCEPT ![t] = Matching(Wanted[t], listed)]
    /\ task' = [task EXCEPT ![t] = IF eligible'[t] = {} THEN "refused" ELSE "placed"]
    /\ UNCHANGED <<worker, departures, place, deaths>>

(* client.submit reaches the scheduler later.                              *)
Submit(t) ==
    /\ task[t] = "placed"
    /\ task' = [task EXCEPT ![t] = "waiting"]
    /\ UNCHANGED <<worker, departures, eligible, place, deaths>>

(***************************************************************************)
(* External: the scheduler, the workers and their nannies.                 *)
(***************************************************************************)
Units(t) == {t} \X (1..Demand[t])
Used(a) == Cardinality(UNION {Units(t) : t \in {s \in Tasks : a \in place[s]}})
Candidates(t) == eligible[t] \cap Registered

AssignAnywhere(t) ==   \* a plausible bug: allow_other_workers is left on
    /\ task[t] = "waiting"
    /\ \E a \in Registered :
          /\ a \in Candidates(t) \/ Candidates(t) = {}
          /\ Used(a) + Demand[t] <= Supply[worker[a]]
          /\ place' = [place EXCEPT ![t] = {a}]
    /\ task' = [task EXCEPT ![t] = "running"]
    /\ UNCHANGED <<worker, departures, eligible, deaths>>
Assign(t) ==
    /\ task[t] = "waiting"
    /\ \E a \in Candidates(t) :
          /\ Used(a) + Demand[t] <= Supply[worker[a]]
          /\ place' = [place EXCEPT ![t] = {a}]
    /\ task' = [task EXCEPT ![t] = "running"]
    /\ UNCHANGED <<worker, departures, eligible, deaths>>

Finish(t) ==
    /\ task[t] = "running"
    /\ task' = [task EXCEPT ![t] = "done"]
    /\ place' = [place EXCEPT ![t] = {}]
    /\ UNCHANGED <<worker, departures, eligible, deaths>>

(* A worker leaves: its tasks are waiting again, or fail when they have    *)
(* seen too many workers die.                                              *)
Leave(a) ==
    LET hit == {t \in Tasks : a \in place[t]} IN
    /\ worker[a] # Gone /\ departures < MaxDepartures
    /\ worker' = [worker EXCEPT ![a] = Gone]
    /\ departures' = departures + 1
    /\ deaths' = [t \in Tasks |-> deaths[t] + (IF t \in hit THEN 1 ELSE 0)]
    /\ place' = [t \in Tasks |-> place[t] \ {a}]
    /\ task' = [t \in Tasks |->
                   IF t \notin hit THEN task[t]
                   ELSE IF deaths'[t] > MaxDeaths THEN "failed" ELSE "waiting"]
    /\ UNCHANGED eligible

(* A nanny starts its worker, for the first time or again.                 *)
Register(n) ==
    /\ \A a \in Addresses : worker[a] # n
    /\ \E a \in Contacts(n) :
          /\ worker[a] = Gone
          /\ worker' = [worker EXCEPT ![a] = n]
    /\ UNCHANGED <<departures, task, eligible, place, deaths>>

Next ==
    \/ \E t \in Tasks :
          RefusePlacement(t) \/ LookUp(t) \/ Submit(t) \/ Assign(t) \/ Finish(t)
    \/ \E a \in Addresses : Leave(a)
    \/ \E n \in Nannies : Register(n)

Spec == Init /\ [][Next]_vars
-----------------------------------------------------------------------------
(* A task runs on registered workers of its snapshot only, and one that    *)
(* names its own workers never gets that far.                              *)
TypeOK ==
    \A t \in Tasks :
        /\ place[t] \subseteq Registered \cap eligible[t]
        /\ (task[t] = "running") = (Cardinality(place[t]) = 1)
        /\ deaths[t] \in 0..(MaxDeaths + 1)
        /\ t \in Overriding => task[t] \in {"new", "refused"}

(* "Hard categorical affinity plus native numeric reservations": the       *)
(* snapshot is of addresses and may be old, workers have left and others   *)
(* have registered since, and still a task runs only on a worker that has  *)
(* every tag it asked for, and the tasks of a worker fit what it offers.   *)
TasksRunWhereTheyBelong ==
    /\ \A t \in Tasks : \A a \in place[t] : Wanted[t] \subseteq TagsOf[worker[a]]
    /\ \A a \in Registered : Used(a) <= Supply[worker[a]]
=============================================================================
