--------------------------- MODULE RoutingProofs ----------------------------
(***************************************************************************)
(* What submit_on promises, for any number of workers, tasks, tags and     *)
(* resource units.  The inductive invariant adds to the properties where a *)
(* task is in each phase, that an address is only ever one nanny's, and    *)
(* that a snapshot only holds addresses of nannies with every tag: workers *)
(* leave and come back, and find their address as they left it.            *)
(***************************************************************************)
EXTENDS Routing, FiniteSetTheorems, TLAPS

Shapes ==
    /\ worker \in [Addresses -> Nannies \cup {Gone}]
    /\ task \in [Tasks -> {"new", "refused", "placed", "waiting", "running", "done", "failed"}]
    /\ eligible \in [Tasks -> SUBSET Addresses]
    /\ place \in [Tasks -> SUBSET Addresses]
    /\ deaths \in [Tasks -> Nat]

(* Whoever is registered is where its port is.                             *)
Settled == \A a \in Registered : worker[a] \in Nannies /\ Contact(worker[a]) = a

(* A running task is on one registered worker of its snapshot, any other   *)
(* task is nowhere; only a failed one has seen too many workers die.       *)
Placed(t) ==
    /\ task[t] = "running" => \E a \in Registered \cap eligible[t] : place[t] = {a}
    /\ task[t] # "running" => place[t] = {}
    /\ deaths[t] <= MaxDeaths + (IF task[t] = "failed" THEN 1 ELSE 0)
    /\ t \in Overriding => task[t] \in {"new", "refused"}
    /\ \A n \in Nannies : Contact(n) \in eligible[t] => Wanted[t] \subseteq TagsOf[n]

RoutingInv ==
    /\ Shapes
    /\ Settled
    /\ \A t \in Tasks : Placed(t)
    /\ \A n \in Nannies : Used(Contact(n)) <= Supply[n]

(* The ports of a node differ as its ordinals do.                          *)
LEMMA ContactsDiffer ==
    ASSUME NEW n \in Nannies, NEW m \in Nannies, Contact(n) = Contact(m)
    PROVE  n = m
  <1>1. /\ n = <<n[1], n[2]>> /\ n[2] \in Nat
        /\ m = <<m[1], m[2]>> /\ m[2] \in Nat
    BY RoutingAssumption
  <1>2. n[1] = m[1] /\ WORKER_PORT_BASE + n[2] = WORKER_PORT_BASE + m[2]
    BY DEF Contact, worker_port
  <1>3. n[2] = m[2]
    BY <1>1, <1>2, RoutingAssumption
  <1> QED
    BY <1>1, <1>2, <1>3

(* The units the tasks of a set reserve together.                          *)
Load(some) == UNION {Units(t) : t \in some}

(* What is reserved together can be counted.                               *)
LEMMA LoadIsFinite ==
    ASSUME NEW some \in SUBSET Tasks
    PROVE  IsFiniteSet(Load(some)) /\ Cardinality(Load(some)) \in Nat
  <1>1. \A t \in some : IsFiniteSet(Units(t))
    <2> SUFFICES ASSUME NEW t \in some
                 PROVE  IsFiniteSet(Units(t))
      OBVIOUS
    <2> DEFINE One == {t}
               Amount == 1..Demand[t]
    <2>1. IsFiniteSet(One)
      BY FS_Singleton
    <2>2. Demand[t] \in Nat
      BY RoutingAssumption
    <2>3. IsFiniteSet(Amount)
      BY <2>2, FS_Interval
    <2>4. Units(t) = One \X Amount
      BY DEF Units
    <2> HIDE DEF One, Amount
    <2>5. IsFiniteSet(One \X Amount)
      BY <2>1, <2>3, FS_Product
    <2> QED
      BY <2>4, <2>5
  <1>2. IsFiniteSet(some)
    BY RoutingAssumption, FS_Subset
  <1> DEFINE Parts == {Units(t) : t \in some}
  <1>3. IsFiniteSet(Parts)
    <2> DEFINE part == [t \in some |-> Units(t)]
    <2>1. part \in Surjection(some, Parts)
      BY DEF Surjection
    <2> QED
      BY <1>2, <2>1, FS_Surjection
  <1>4. \A part \in Parts : IsFiniteSet(part)
    BY <1>1
  <1> HIDE DEF Parts
  <1>5. IsFiniteSet(UNION Parts)
    BY <1>3, <1>4, FS_UNION
  <1>6. IsFiniteSet(Load(some))
    BY <1>5 DEF Load, Parts
  <1> QED
    BY <1>6, FS_CardinalityType

(* Fewer tasks reserve no more, and one more adds at most its own demand.  *)
LEMMA SmallerLoad ==
    ASSUME NEW some \in SUBSET Tasks, NEW fewer \in SUBSET some
    PROVE  Cardinality(Load(fewer)) <= Cardinality(Load(some))
  <1>1. Load(fewer) \subseteq Load(some)
    BY DEF Load
  <1>2. IsFiniteSet(Load(some))
    BY LoadIsFinite
  <1> QED
    BY <1>1, <1>2, FS_Subset

LEMMA OneMoreTask ==
    ASSUME NEW some \in SUBSET Tasks, NEW t \in Tasks
    PROVE  Cardinality(Load(some \cup {t})) <= Cardinality(Load(some)) + Demand[t]
  <1>1. /\ IsFiniteSet(Load(some)) /\ Cardinality(Load(some)) \in Nat
        /\ IsFiniteSet(Load({t})) /\ Cardinality(Load({t})) \in Nat
    BY LoadIsFinite
  <1>2. Load({t}) = Units(t)
    BY DEF Load
  <1>3. Cardinality(Units(t)) = Demand[t]
    <2> DEFINE One == {t}
               Amount == 1..Demand[t]
    <2>1. IsFiniteSet(One) /\ Cardinality(One) = 1
      BY FS_Singleton
    <2>2. Demand[t] \in Nat
      BY RoutingAssumption
    <2>3. IsFiniteSet(Amount) /\ Cardinality(Amount) = Demand[t]
      BY <2>2, FS_Interval
    <2>4. Units(t) = One \X Amount
      BY DEF Units
    <2> HIDE DEF One, Amount
    <2>5. Cardinality(One \X Amount) = Cardinality(One) * Cardinality(Amount)
      BY <2>1, <2>3, FS_Product
    <2> QED
      BY <2>1, <2>2, <2>3, <2>4, <2>5
  <1>4. Load(some \cup {t}) = Load(some) \cup Load({t})
    BY DEF Load
  <1> DEFINE A == Load(some)
             B == Load({t})
  <1>5. IsFiniteSet(A) /\ IsFiniteSet(B) /\ Cardinality(A) \in Nat /\ Cardinality(B) \in Nat
    BY <1>1
  <1>6. Cardinality(B) = Demand[t]
    BY <1>2, <1>3
  <1> HIDE DEF A, B
  <1>7. Cardinality(A \cup B) = Cardinality(A) + Cardinality(B) - Cardinality(A \cap B)
    BY <1>5, FS_Union
  <1>8. Cardinality(A \cap B) \in Nat
    BY <1>5, FS_Intersection, FS_CardinalityType
  <1>9. Cardinality(A \cup B) <= Cardinality(A) + Demand[t]
    BY <1>5, <1>6, <1>7, <1>8
  <1> QED
    BY <1>4, <1>9 DEF A, B

(* No worker is booked more when tasks only leave.                         *)
LEMMA FewerTasks ==
    ASSUME \A n \in Nannies : Used(Contact(n)) <= Supply[n],
           \A t \in Tasks : place'[t] \subseteq place[t]
    PROVE  \A n \in Nannies : Used(Contact(n))' <= Supply[n]
  <1> SUFFICES ASSUME NEW n \in Nannies
               PROVE  Used(Contact(n))' <= Supply[n]
    OBVIOUS
  <1> DEFINE Was == {t \in Tasks : Contact(n) \in place[t]}
             Is == {t \in Tasks : Contact(n) \in place'[t]}
  <1>1. Was \in SUBSET Tasks /\ Is \in SUBSET Was
    OBVIOUS
  <1>2. Used(Contact(n)) = Cardinality(Load(Was)) /\ Used(Contact(n))' = Cardinality(Load(Is))
    BY DEF Used, Load, Units, Contact, worker_port
  <1> HIDE DEF Was, Is
  <1>3. Is \in SUBSET Tasks
    BY <1>1
  <1>4. Cardinality(Load(Was)) \in Nat /\ Cardinality(Load(Is)) \in Nat
    BY <1>1, <1>3, LoadIsFinite
  <1>5. Cardinality(Load(Is)) <= Cardinality(Load(Was))
    BY <1>1, SmallerLoad
  <1> QED
    BY <1>2, <1>4, <1>5, RoutingAssumption

(* One task more, on a worker that has room for it.                        *)
LEMMA OneTaskPlaced ==
    ASSUME Shapes, \A n \in Nannies : Used(Contact(n)) <= Supply[n],
           NEW t \in Tasks, NEW m \in Nannies,
           Used(Contact(m)) + Demand[t] <= Supply[m],
           place' = [place EXCEPT ![t] = {Contact(m)}]
    PROVE  \A n \in Nannies : Used(Contact(n))' <= Supply[n]
  <1> SUFFICES ASSUME NEW n \in Nannies
               PROVE  Used(Contact(n))' <= Supply[n]
    OBVIOUS
  <1> DEFINE Was == {s \in Tasks : Contact(n) \in place[s]}
             Is == {s \in Tasks : Contact(n) \in place'[s]}
  <1>1. Used(Contact(n)) = Cardinality(Load(Was)) /\ Used(Contact(n))' = Cardinality(Load(Is))
    BY DEF Used, Load, Units, Contact, worker_port
  <1>2. /\ Was \in SUBSET Tasks
        /\ Contact(n) = Contact(m) => Is = Was \cup {t}
        /\ Contact(n) # Contact(m) => Is = Was \ {t}
    BY DEF Shapes
  <1> HIDE DEF Was, Is
  <1>3. CASE n = m
    <2>1. Is \in SUBSET Tasks /\ Cardinality(Load(Is)) <= Cardinality(Load(Was)) + Demand[t]
      BY <1>2, <1>3, OneMoreTask
    <2>2. Cardinality(Load(Was)) \in Nat /\ Cardinality(Load(Is)) \in Nat
      BY <1>2, <2>1, LoadIsFinite
    <2> QED
      BY <1>1, <1>3, <2>1, <2>2, RoutingAssumption
  <1>4. CASE n # m
    <2>1. Is \in SUBSET Was /\ Is \in SUBSET Tasks
      BY <1>2, <1>4, ContactsDiffer
    <2>2. Cardinality(Load(Is)) <= Cardinality(Load(Was))
      BY <1>2, <2>1, SmallerLoad
    <2>3. Cardinality(Load(Was)) \in Nat /\ Cardinality(Load(Is)) \in Nat
      BY <1>2, <2>1, LoadIsFinite
    <2> QED
      BY <1>1, <2>2, <2>3, RoutingAssumption
  <1> QED
    BY <1>3, <1>4

(* Nothing is reserved at first, and only Assign reserves anything.        *)
LEMMA RoutingStart ==
    ASSUME Init
    PROVE  RoutingInv
  <1>1. PICK up \in SUBSET Nannies :
            worker = [a \in Addresses |->
                         IF \E n \in up : a = Contact(n)
                         THEN CHOOSE n \in up : a = Contact(n) ELSE Gone]
    BY DEF Init
  <1>2. \A a \in Addresses :
            worker[a] = Gone \/ (worker[a] \in Nannies /\ Contact(worker[a]) = a)
    <2> SUFFICES ASSUME NEW a \in Addresses, \E n \in up : a = Contact(n)
                 PROVE  worker[a] \in Nannies /\ Contact(worker[a]) = a
      BY <1>1
    <2>1. worker[a] = CHOOSE n \in up : a = Contact(n)
      BY <1>1
    <2>2. worker[a] \in up /\ a = Contact(worker[a])
      <3> HIDE DEF Contact
      <3> QED
        BY <2>1
    <2> QED
      BY <2>2
  <1>3. Shapes /\ Settled
    BY <1>1, <1>2 DEF Init, Shapes, Settled, Registered
  <1>4. \A t \in Tasks : Placed(t)
    BY RoutingAssumption DEF Init, Placed
  <1>5. ASSUME NEW n \in Nannies
        PROVE  Used(Contact(n)) <= Supply[n]
    <2>1. UNION {Units(t) : t \in {s \in Tasks : Contact(n) \in place[s]}} = {}
      BY DEF Init
    <2> QED
      BY <2>1, FS_EmptySet, RoutingAssumption DEF Used
  <1> QED
    BY <1>3, <1>4, <1>5 DEF RoutingInv

LEMMA RoutingStep ==
    ASSUME RoutingInv, [Next]_vars
    PROVE  RoutingInv'
  <1> USE DEF RoutingInv
  <1>1. ASSUME NEW t \in Tasks, RefusePlacement(t) PROVE RoutingInv'
    <2>1. /\ task[t] = "new" /\ UNCHANGED <<worker, eligible, place, deaths>>
          /\ task' = [task EXCEPT ![t] = "refused"]
      BY <1>1 DEF RefusePlacement
    <2>2. Shapes' /\ Settled' /\ \A s \in Tasks : Placed(s)'
      BY <2>1 DEF Shapes, Settled, Placed, Registered, Contact, worker_port
    <2>3. \A n \in Nannies : Used(Contact(n))' <= Supply[n]
      BY <2>1, FewerTasks
    <2> QED
      BY <2>2, <2>3
  <1>2. ASSUME NEW t \in Tasks, LookUp(t) PROVE RoutingInv'
    <2>1. PICK listed \in SUBSET Registered :
              eligible' = [eligible EXCEPT ![t] = Matching(Wanted[t], listed)]
      BY <1>2 DEF LookUp
    <2>2. /\ task[t] = "new" /\ t \notin Overriding /\ UNCHANGED <<worker, place, deaths>>
          /\ task' = [task EXCEPT ![t] = task'[t]] /\ task'[t] \in {"refused", "placed"}
      BY <1>2 DEF LookUp, Shapes
    <2>3. Registered' = Registered /\ Registered \subseteq Addresses
      BY <2>2 DEF Registered, Addresses, Contact, worker_port
    <2>4. Shapes' /\ Settled'
      BY <2>1, <2>2, <2>3 DEF Shapes, Settled, Matching, Contact, worker_port
    <2>5. ASSUME NEW n \in Nannies, Contact(n) \in Matching(Wanted[t], listed)
          PROVE  Wanted[t] \subseteq TagsOf[n]
      <3>1. Contact(n) \in Registered /\ Wanted[t] \subseteq TagsOf[worker[Contact(n)]]
        BY <2>5 DEF Matching
      <3>2. worker[Contact(n)] = n
        BY <3>1, ContactsDiffer DEF Settled
      <3> QED
        BY <3>1, <3>2
    <2>6. ASSUME NEW s \in Tasks PROVE Placed(s)'
      <3> HIDE DEF Contact
      <3>1. eligible'[s] = IF s = t THEN Matching(Wanted[t], listed) ELSE eligible[s]
        BY <2>1 DEF Shapes
      <3>2. \A n \in Nannies : Contact(n) \in eligible'[s] => Wanted[s] \subseteq TagsOf[n]
        BY <2>5, <3>1 DEF Placed
      <3> QED
        BY <2>2, <2>3, <3>1, <3>2 DEF Shapes, Placed, Contact, worker_port
    <2>7. \A n \in Nannies : Used(Contact(n))' <= Supply[n]
      BY <2>2, FewerTasks
    <2> QED
      BY <2>4, <2>6, <2>7
  <1>3. ASSUME NEW t \in Tasks, Submit(t) PROVE RoutingInv'
    <2>1. /\ task[t] = "placed" /\ UNCHANGED <<worker, eligible, place, deaths>>
          /\ task' = [task EXCEPT ![t] = "waiting"]
      BY <1>3 DEF Submit
    <2>2. Shapes' /\ Settled' /\ \A s \in Tasks : Placed(s)'
      BY <2>1 DEF Shapes, Settled, Placed, Registered, Contact, worker_port
    <2>3. \A n \in Nannies : Used(Contact(n))' <= Supply[n]
      BY <2>1, FewerTasks
    <2> QED
      BY <2>2, <2>3
  <1>4. ASSUME NEW t \in Tasks, Assign(t) PROVE RoutingInv'
    <2>1. PICK a \in Candidates(t) : /\ Used(a) + Demand[t] <= Supply[worker[a]]
                                     /\ place' = [place EXCEPT ![t] = {a}]
      BY <1>4 DEF Assign
    <2>2. /\ task[t] = "waiting" /\ UNCHANGED <<worker, eligible, deaths>>
          /\ task' = [task EXCEPT ![t] = "running"]
      BY <1>4 DEF Assign
    <2>3. /\ a \in Registered \cap eligible[t] /\ a \in Addresses
          /\ worker[a] \in Nannies /\ Contact(worker[a]) = a
      BY DEF Candidates, Registered, Settled
    <2>4. Registered' = Registered
      BY <2>2 DEF Registered, Addresses, Contact, worker_port
    <2>5. Shapes' /\ Settled'
      BY <2>1, <2>2, <2>3, <2>4 DEF Shapes, Settled, Contact, worker_port
    <2>6. ASSUME NEW s \in Tasks PROVE Placed(s)'
      BY <2>1, <2>2, <2>3, <2>4 DEF Shapes, Placed, Contact, worker_port
    <2>7. \A n \in Nannies : Used(Contact(n))' <= Supply[n]
      BY <2>1, <2>3, OneTaskPlaced
    <2> QED
      BY <2>5, <2>6, <2>7
  <1>5. ASSUME NEW t \in Tasks, Finish(t) PROVE RoutingInv'
    <2>1. /\ task[t] = "running" /\ UNCHANGED <<worker, eligible, deaths>>
          /\ task' = [task EXCEPT ![t] = "done"]
          /\ place' = [place EXCEPT ![t] = {}]
      BY <1>5 DEF Finish
    <2>2. Shapes' /\ Settled' /\ \A s \in Tasks : Placed(s)'
      BY <2>1 DEF Shapes, Settled, Placed, Registered, Contact, worker_port
    <2>3. \A s \in Tasks : place'[s] \subseteq place[s]
      BY <2>1 DEF Shapes
    <2>4. \A n \in Nannies : Used(Contact(n))' <= Supply[n]
      BY <2>3, FewerTasks
    <2> QED
      BY <2>2, <2>4
  <1>6. ASSUME NEW a \in Addresses, Leave(a) PROVE RoutingInv'
    <2> DEFINE hit == {t \in Tasks : a \in place[t]}
    <2>1. /\ worker' = [worker EXCEPT ![a] = Gone] /\ eligible' = eligible
          /\ deaths' = [t \in Tasks |-> deaths[t] + (IF t \in hit THEN 1 ELSE 0)]
          /\ place' = [t \in Tasks |-> place[t] \ {a}]
          /\ task' = [t \in Tasks |->
                         IF t \notin hit THEN task[t]
                         ELSE IF deaths'[t] > MaxDeaths THEN "failed" ELSE "waiting"]
      BY <1>6 DEF Leave
    <2>2. Registered' = Registered \ {a} /\ \A b \in Registered \ {a} : worker'[b] = worker[b]
      BY <2>1 DEF Registered, Shapes, Addresses, Contact, worker_port
    <2>3. Shapes' /\ Settled'
      <3>1. deaths' \in [Tasks -> Nat]
        BY <2>1 DEF Shapes
      <3>2. worker' \in [Addresses -> Nannies \cup {Gone}]
        BY <2>1 DEF Shapes
      <3> QED
        BY <2>1, <2>2, <3>1, <3>2 DEF Shapes, Settled, Addresses, Contact, worker_port
    <2>4. ASSUME NEW t \in Tasks PROVE Placed(t)'
      <3>1. /\ task[t] = "running" => \E b \in Registered \cap eligible[t] : place[t] = {b}
            /\ task[t] # "running" => place[t] = {}
            /\ deaths[t] <= MaxDeaths + (IF task[t] = "failed" THEN 1 ELSE 0)
            /\ t \in Overriding => task[t] \in {"new", "refused"}
            /\ deaths[t] \in Nat
        BY DEF Placed, Shapes
      <3>2. \A n \in Nannies : Contact(n)' \in eligible'[t] => Wanted[t] \subseteq TagsOf[n]
        BY <2>1 DEF Placed, Contact, worker_port
      <3>3. CASE a \in place[t]
        <4>1. place[t] = {a} /\ task[t] = "running" /\ t \in hit /\ t \notin Overriding
          BY <3>1, <3>3
        <4>2. /\ place'[t] = {} /\ deaths'[t] = deaths[t] + 1
              /\ task'[t] = IF deaths'[t] > MaxDeaths THEN "failed" ELSE "waiting"
          BY <2>1, <4>1
        <4> QED
          BY <3>1, <3>2, <4>1, <4>2, RoutingAssumption DEF Placed
      <3>4. CASE a \notin place[t]
        <4>1. place'[t] = place[t] /\ task'[t] = task[t] /\ deaths'[t] = deaths[t]
          BY <2>1, <3>1, <3>4
        <4>2. task[t] = "running" =>
                  \E b \in Registered' \cap eligible'[t] : place'[t] = {b}
          BY <2>1, <2>2, <3>1, <3>4, <4>1
        <4> QED
          BY <3>1, <3>2, <4>1, <4>2 DEF Placed
      <3> QED
        BY <3>3, <3>4
    <2>5. \A t \in Tasks : place'[t] \subseteq place[t]
      BY <2>1
    <2>6. \A n \in Nannies : Used(Contact(n))' <= Supply[n]
      BY <2>5, FewerTasks
    <2> QED
      BY <2>3, <2>4, <2>6
  <1>7. ASSUME NEW n \in Nannies, Register(n) PROVE RoutingInv'
    <2>1. /\ Contact(n) \in Addresses /\ UNCHANGED <<task, eligible, place, deaths>>
          /\ worker' = [worker EXCEPT ![Contact(n)] = n]
      BY <1>7 DEF Register, Contacts, Addresses
    <2>2. Registered' = Registered \cup {Contact(n)}
      BY <2>1, RoutingAssumption DEF Registered, Shapes, Addresses, Contact, worker_port
    <2>3. Shapes' /\ Settled'
      <3> DEFINE c == Contact(n)
      <3>1. worker' \in [Addresses -> Nannies \cup {Gone}]
        BY <2>1 DEF Shapes
      <3>2. \A b \in Registered' : b = c \/ (worker'[b] = worker[b] /\ b \in Registered)
        BY <2>1, <2>2 DEF Shapes, Registered
      <3>3. worker'[c] = n
        BY <2>1 DEF Shapes
      <3>4. \A b \in Registered' : worker'[b] \in Nannies /\ Contact(worker'[b]) = b
        <4> HIDE DEF Contact
        <4> QED
          BY <3>2, <3>3 DEF Settled
      <3> QED
        BY <2>1, <3>1, <3>4 DEF Shapes, Settled, Addresses, Contact, worker_port
    <2>4. \A s \in Tasks : Placed(s)'
      BY <2>1, <2>2 DEF Placed, Contact, worker_port
    <2>5. \A m \in Nannies : Used(Contact(m))' <= Supply[m]
      BY <2>1, FewerTasks
    <2> QED
      BY <2>3, <2>4, <2>5
  <1>8. CASE UNCHANGED vars
    <2>1. Shapes' /\ Settled' /\ \A s \in Tasks : Placed(s)'
      BY <1>8 DEF vars, Shapes, Settled, Placed, Registered, Addresses, Contact, worker_port
    <2>2. \A m \in Nannies : Used(Contact(m))' <= Supply[m]
      BY <1>8, FewerTasks DEF vars
    <2> QED
      BY <2>1, <2>2
  <1> QED
    BY <1>1, <1>2, <1>3, <1>4, <1>5, <1>6, <1>7, <1>8 DEF Next

(* The inductive invariant: a task is placed where its snapshot allows,    *)
(* and no worker has lent more units than it has.                          *)
THEOREM RoutingInvariance == Spec => []RoutingInv
  <1> QED
    BY RoutingStart, RoutingStep, PTL DEF Spec

(* A task is on exactly one worker while it runs, one that is registered   *)
(* and that its snapshot names; it gives up after MaxDeaths + 1 of them.   *)
THEOREM RoutingIsWellTyped == Spec => []TypeOK
  <1>1. RoutingInv => TypeOK
    <2> SUFFICES ASSUME RoutingInv, NEW t \in Tasks
                 PROVE  /\ place[t] \subseteq Registered \cap eligible[t]
                        /\ (task[t] = "running") = (Cardinality(place[t]) = 1)
                        /\ deaths[t] \in 0..(MaxDeaths + 1)
                        /\ t \in Overriding => task[t] \in {"new", "refused"}
      BY DEF TypeOK
    <2>1. Placed(t) /\ deaths[t] \in Nat
      BY DEF RoutingInv, Shapes
    <2>2. /\ deaths[t] \in 0..(MaxDeaths + 1)
          /\ t \in Overriding => task[t] \in {"new", "refused"}
      BY <2>1, RoutingAssumption DEF Placed
    <2>3. CASE task[t] = "running"
      <3>1. PICK a \in Registered \cap eligible[t] : place[t] = {a}
        BY <2>1, <2>3 DEF Placed
      <3>2. Cardinality(place[t]) = 1
        BY <3>1, FS_Singleton
      <3> QED
        BY <2>2, <2>3, <3>1, <3>2
    <2>4. CASE task[t] # "running"
      <3>1. place[t] = {}
        BY <2>1, <2>4 DEF Placed
      <3>2. Cardinality(place[t]) = 0
        BY <3>1, FS_EmptySet
      <3> QED
        BY <2>2, <2>4, <3>1, <3>2
    <2> QED
      BY <2>3, <2>4
  <1> QED
    BY <1>1, RoutingInvariance, PTL

(* submit_on's affinity and reservations hold whatever leaves and comes    *)
(* back at an address of the snapshot: no task ever runs without one of    *)
(* its tags, and no worker is overbooked.                                  *)
THEOREM AffinityIsHard == Spec => []TasksRunWhereTheyBelong
  <1>1. ASSUME RoutingInv
        PROVE  TasksRunWhereTheyBelong
    <2> USE <1>1 DEF RoutingInv
    <2>1. ASSUME NEW t \in Tasks, NEW a \in place[t]
          PROVE  Wanted[t] \subseteq TagsOf[worker[a]]
      <3>1. a \in Registered /\ a \in eligible[t]
        BY DEF Placed
      <3>2. worker[a] \in Nannies /\ Contact(worker[a]) = a
        BY <3>1 DEF Settled
      <3> QED
        BY <3>1, <3>2 DEF Placed
    <2>2. ASSUME NEW a \in Registered
          PROVE  Used(a) <= Supply[worker[a]]
      <3>1. worker[a] \in Nannies /\ Contact(worker[a]) = a
        BY DEF Settled
      <3> QED
        BY <3>1
    <2> QED
      BY <2>1, <2>2 DEF TasksRunWhereTheyBelong
  <1> QED
    BY <1>1, RoutingInvariance, PTL
=============================================================================
