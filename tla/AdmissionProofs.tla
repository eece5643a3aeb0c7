--------------------------- MODULE AdmissionProofs --------------------------
(***************************************************************************)
(* What holds before a cluster is paid for and on its nodes, for every     *)
(* project, every launch and every machine: the verdict of PackagePlan,    *)
(* then the plan, the roster and the division of a machine.  Recursive     *)
(* definitions are met by induction over a set of numbers (DataLemmas).    *)
(***************************************************************************)
EXTENDS Admission, DataLemmas

(* What R reaches is itself closed, and part of every closed set.          *)
LEMMA ReachIsLeast ==
    ASSUME GroupsTypeOK, NEW R \in SUBSET Groups
    PROVE  /\ Reach(R) \subseteq Groups
           /\ Closed(R, Reach(R))
           /\ \A S \in SUBSET Groups : Closed(R, S) => Reach(R) \subseteq S
  <1>1. Reach(R) \subseteq Groups
    BY DEF Reach
  <1>2. R \subseteq Reach(R)
    BY DEF Reach, Closed
  <1>3. ASSUME NEW g \in Reach(R) \cap project.declared
        PROVE  project.includes[g] \subseteq Reach(R)
    <2>1. project.includes[g] \subseteq Groups
      BY <1>3 DEF GroupsTypeOK, IsProject
    <2>2. ASSUME NEW h \in project.includes[g], NEW S \in SUBSET Groups, Closed(R, S)
          PROVE  h \in S
      <3>1. g \in S
        BY <1>3, <2>2 DEF Reach
      <3> QED
        BY <1>3, <2>2, <3>1 DEF Closed
    <2> QED
      BY <2>1, <2>2 DEF Reach
  <1>4. \A S \in SUBSET Groups : Closed(R, S) => Reach(R) \subseteq S
    BY DEF Reach
  <1> QED
    BY <1>1, <1>2, <1>3, <1>4 DEF Closed

LEMMA ClosureIsLeast ==
    ASSUME GroupsTypeOK
    PROVE  /\ Closure \subseteq Groups
           /\ requested \subseteq Closure
           /\ \A g \in Closure \cap project.declared : project.includes[g] \subseteq Closure
           /\ \A S \in SUBSET Groups : Closed(requested, S) => Closure \subseteq S
  <1>1. requested \in SUBSET Groups
    BY DEF GroupsTypeOK
  <1> QED
    BY <1>1, ReachIsLeast DEF Closure, Closed

(* --no-dev makes no difference unless it leaves a requested dev out.      *)
LEMMA SyncedIsRequired ==
    ASSUME GroupsTypeOK, RunnerRequired
    PROVE  RunnerSynced \/ DevLeftOut
  <1> SUFFICES ASSUME ~DevLeftOut
               PROVE  RunnerSynced
    OBVIOUS
  <1>1. requested \ {Dev} \in SUBSET Groups
    BY DEF GroupsTypeOK
  <1>2. Closed(requested \ {Dev}, Synced) /\ Synced \in SUBSET Groups
    BY <1>1, ReachIsLeast DEF Synced
  <1>3. Closed(requested, Synced)
    BY <1>2 DEF Closed, DevLeftOut
  <1>4. Closure \subseteq Synced
    BY <1>2, <1>3, ClosureIsLeast
  <1> QED
    BY <1>4 DEF RunnerRequired, RunnerSynced

(* An empty worklist: exactly the closure has been selected.               *)
LEMMA WorklistDone ==
    ASSUME GroupsTypeOK, WorklistInv, verdict # "undeclared", pending = {}
    PROVE  selected = Closure
  <1>1. Frontier = selected
    BY DEF Frontier
  <1>2. selected \subseteq Groups
    BY <1>1, ClosureIsLeast DEF WorklistInv
  <1>3. Closed(requested, selected)
    BY <1>1 DEF WorklistInv, Closed
  <1> QED
    BY <1>1, <1>2, <1>3, ClosureIsLeast DEF WorklistInv

(* One lemma for each part of the worklist's invariant.                    *)
LEMMA GroupsStart ==
    ASSUME GroupsInit
    PROVE  GroupsTypeOK /\ WorklistInv
  <1>1. GroupsTypeOK
    BY GroupsAssumption DEF GroupsInit, GroupsTypeOK, IsProject
  <1>2. Frontier = requested
    BY DEF GroupsInit, Frontier
  <1> QED
    BY <1>1, <1>2, ClosureIsLeast DEF GroupsInit, WorklistInv

LEMMA GroupsTypeStep ==
    ASSUME GroupsTypeOK, [GroupsNext]_groupVars
    PROVE  GroupsTypeOK'
  <1>1. CASE \E g \in Groups : PopSelected(g) \/ PopUndeclared(g)
    BY <1>1 DEF PopSelected, PopUndeclared, GroupsTypeOK, IsProject
  <1>2. ASSUME NEW g \in Groups, PopGroup(g)
        PROVE  GroupsTypeOK'
    <2>1. project.includes[g] \subseteq Groups
      BY <1>2 DEF PopGroup, GroupsTypeOK, IsProject
    <2>2. found' \in BOOLEAN
      BY <1>2 DEF PopGroup
    <2> QED
      BY <1>2, <2>1, <2>2 DEF PopGroup, GroupsTypeOK, IsProject
  <1>3. CASE Decide
    BY <1>3 DEF Decide, GroupsTypeOK, IsProject
  <1>4. CASE UNCHANGED groupVars
    BY <1>4 DEF groupVars, GroupsTypeOK, IsProject
  <1> QED
    BY <1>1, <1>2, <1>3, <1>4 DEF GroupsNext

(* Popping a group keeps the frontier in the closure.                      *)
LEMMA WorklistStep ==
    ASSUME GroupsTypeOK, WorklistInv, [GroupsNext]_groupVars
    PROVE  WorklistInv'
  <1>1. UNCHANGED <<project, requested>>
    BY DEF GroupsNext, PopSelected, PopUndeclared, PopGroup, Decide, groupVars
  <1>2. Closure' = Closure
    BY <1>1 DEF Closure, Reach, Closed
  <1>3. ASSUME NEW g \in Groups, PopSelected(g)
        PROVE  WorklistInv'
    <2>1. Frontier' = Frontier
      BY <1>3 DEF PopSelected, Frontier
    <2> QED
      BY <1>1, <1>2, <1>3, <2>1 DEF PopSelected, WorklistInv
  <1>4. ASSUME NEW g \in Groups, PopUndeclared(g)
        PROVE  WorklistInv'
    <2>1. g \in Closure
      BY <1>4 DEF PopUndeclared, WorklistInv, Frontier
    <2>2. ~(Closure \subseteq project.declared)
      BY <1>4, <2>1 DEF PopUndeclared
    <2>3. Frontier' \subseteq Closure
      BY <1>4 DEF PopUndeclared, WorklistInv, Frontier
    <2> QED
      BY <1>1, <1>2, <1>4, <2>2, <2>3 DEF PopUndeclared, WorklistInv
  <1>5. ASSUME NEW g \in Groups, PopGroup(g)
        PROVE  WorklistInv'
    <2>1. g \in Closure /\ g \in project.declared
      BY <1>5 DEF PopGroup, WorklistInv, Frontier
    <2>2. project.includes[g] \subseteq Closure
      BY <2>1, ClosureIsLeast
    <2>3. Frontier' = Frontier \cup project.includes[g]
      BY <1>5 DEF PopGroup, Frontier
    <2>4. selected' = selected \cup {g}
      BY <1>5 DEF PopGroup
    <2>5. found' <=> project.base \/ selected' \cap project.provides # {}
      BY <1>5, <2>4 DEF PopGroup, WorklistInv
    <2>6. verdict = "open" /\ verdict' = "open"
      BY <1>5 DEF PopGroup
    <2>7. /\ requested \subseteq Frontier'
          /\ \A k \in selected' : project.includes[k] \subseteq Frontier'
      BY <2>3, <2>4, <2>6 DEF WorklistInv
    <2> QED
      BY <1>1, <1>2, <2>2, <2>3, <2>5, <2>6, <2>7 DEF WorklistInv
  <1>6. CASE Decide
    <2>1. Frontier' = Frontier
      BY <1>6 DEF Decide, Frontier
    <2> QED
      BY <1>1, <1>2, <1>6, <2>1 DEF Decide, WorklistInv
  <1>7. CASE UNCHANGED groupVars
    <2>1. Frontier' = Frontier
      BY <1>7 DEF groupVars, Frontier
    <2> QED
      BY <1>1, <1>2, <1>7, <2>1 DEF groupVars, WorklistInv
  <1> QED
    BY <1>3, <1>4, <1>5, <1>6, <1>7 DEF GroupsNext

(* A verdict is only given when it is true.                                *)
LEMMA VerdictFollows ==
    ASSUME GroupsTypeOK, WorklistInv
    PROVE  VerdictIsRight
  <1>1. CASE verdict = "accepted"
    <2>1. selected = Closure
      BY <1>1, WorklistDone DEF WorklistInv
    <2> QED
      <3>1. RunnerRequired
        BY <1>1, <2>1 DEF WorklistInv, RunnerRequired
      <3> QED
        BY <1>1, <2>1, <3>1, SyncedIsRequired DEF VerdictIsRight, GroupsTypeOK
  <1>2. CASE verdict = "missing"
    <2>1. selected = Closure
      BY <1>2, WorklistDone DEF WorklistInv
    <2> QED
      BY <1>2, <2>1 DEF WorklistInv, VerdictIsRight, RunnerRequired
  <1>3. CASE verdict = "undeclared"
    BY <1>3 DEF WorklistInv, VerdictIsRight
  <1>4. CASE verdict = "open"
    BY <1>4 DEF VerdictIsRight
  <1> QED
    BY <1>1, <1>2, <1>3, <1>4 DEF GroupsTypeOK

(* The validator of PackagePlan accepts a project only if the environment  *)
(* that uv syncs without dev has hfdask, or --no-dev drops a requested     *)
(* dev, and refuses one only for a reason that holds; for every graph of   *)
(* inclusions.                                                             *)
THEOREM VerdictsAreRight == GroupsSpec => []VerdictIsRight
  <1>1. GroupsInit => GroupsTypeOK /\ WorklistInv
    BY GroupsStart
  <1>2. (GroupsTypeOK /\ WorklistInv) /\ [GroupsNext]_groupVars
            => (GroupsTypeOK /\ WorklistInv)'
    BY GroupsTypeStep, WorklistStep
  <1>3. GroupsTypeOK /\ WorklistInv => VerdictIsRight
    BY VerdictFollows
  <1> QED
    BY <1>1, <1>2, <1>3, PTL DEF GroupsSpec
-----------------------------------------------------------------------------
(* The roster of a grouped launch.  The counts of its groups are natural   *)
(* numbers once FieldsValid has seen them.                                 *)
Rosterable(groups) ==
    /\ IsSequence(groups)
    /\ \A k \in DOMAIN groups : groups[k].count \in Nat

(* Worker groups that can be laid out have numbers for counts.             *)
LEMMA GroupsAreSequence ==
    ASSUME NEW groups, Rosterable(groups)
    PROVE  /\ Len(groups) \in Nat /\ DOMAIN groups = 1..Len(groups)
           /\ \A k \in 1..Len(groups) : groups[k].count \in Nat
  <1> DEFINE Members == {groups[k] : k \in DOMAIN groups}
  <1>1. groups \in Seq(Members)
    BY DEF Rosterable, IsSequence
  <1> HIDE DEF Members
  <1>2. Len(groups) \in Nat /\ DOMAIN groups = 1..Len(groups)
    BY <1>1, SeqDomain
  <1> QED
    BY <1>2 DEF Rosterable

(* upto adds up the counts.                                                *)
LEMMA UptoAdds ==
    ASSUME NEW groups, Rosterable(groups)
    PROVE  /\ Upto(groups) \in [0..Len(groups) -> Nat]
           /\ Upto(groups)[0] = 0
           /\ \A k \in 1..Len(groups) :
                 Upto(groups)[k] = Upto(groups)[k - 1] + groups[k].count
  <1> DEFINE n == Len(groups)
             IsUpto(f) == f = [k \in 0..n |-> IF k = 0 THEN 0 ELSE f[k - 1] + groups[k].count]
             step == [p \in (1..n) \X Nat |-> p[2] + groups[p[1]].count]
             u == Upto(groups)
  <1>1. n \in Nat /\ \A k \in 1..n : groups[k].count \in Nat
    BY GroupsAreSequence
  <1>2. \E f : IsUpto(f)
    <2>1. step \in [(1..n) \X Nat -> Nat]
      <3> SUFFICES ASSUME NEW p \in (1..n) \X Nat
                   PROVE  p[2] + groups[p[1]].count \in Nat
        OBVIOUS
      <3>1. p[1] \in 1..n /\ p[2] \in Nat
        OBVIOUS
      <3> QED
        BY <1>1, <3>1
    <2>2. \A k \in 1..n, x \in Nat : step[<<k, x>>] = x + groups[k].count
      OBVIOUS
    <2> HIDE DEF step, n
    <2>3. PICK f : Unfolds(f, n, Nat, 0, step)
      BY <1>1, <2>1, RecursionExists
    <2>4. \A k \in 0..n : f[k] = IF k = 0 THEN 0 ELSE f[k - 1] + groups[k].count
      <3> SUFFICES ASSUME NEW k \in 0..n, k # 0
                   PROVE  f[k] = f[k - 1] + groups[k].count
        BY <2>3 DEF Unfolds
      <3>1. k \in 1..n /\ k - 1 \in 0..n
        BY <1>1
      <3> QED
        BY <2>2, <2>3, <3>1 DEF Unfolds
    <2>5. IsUpto(f)
      BY <2>3, <2>4 DEF Unfolds
    <2> QED
      BY <2>5
  <1>3. u = CHOOSE f : IsUpto(f)
    BY DEF Upto
  <1> HIDE DEF u
  <1>4. IsUpto(u)
    <2> HIDE DEF IsUpto
    <2> QED
      BY <1>2, <1>3
  <1>5. u[0] = 0 /\ \A k \in 1..n : u[k] = u[k - 1] + groups[k].count
    <2>1. \A k \in 0..n : u[k] = IF k = 0 THEN 0 ELSE u[k - 1] + groups[k].count
      BY <1>4
    <2> HIDE DEF n
    <2> QED
      BY <1>1, <2>1
  <1> HIDE DEF IsUpto
  <1>6. \A k \in 0..n : u[k] \in Nat
    <2> DEFINE Adds == {k \in Nat : k <= n => u[k] \in Nat}
    <2>1. 0 \in Adds
      BY <1>5
    <2>2. ASSUME NEW k \in Adds
          PROVE  k + 1 \in Adds
      <3> SUFFICES ASSUME k + 1 <= n
                   PROVE  u[k + 1] \in Nat
        OBVIOUS
      <3>1. k + 1 \in 1..n /\ (k + 1) - 1 = k /\ u[k] \in Nat
        BY <1>1
      <3> QED
        BY <1>1, <1>5, <3>1
    <2>3. Adds \in SUBSET Nat
      OBVIOUS
    <2> HIDE DEF Adds
    <2>4. Adds = Nat
      BY <2>1, <2>2, <2>3, NatSetInduction
    <2> QED
      BY <1>1, <2>4 DEF Adds
  <1>7. u = [k \in 0..n |-> u[k]]
    BY <1>4 DEF IsUpto
  <1>8. u \in [0..n -> Nat]
    BY <1>6, <1>7
  <1> QED
    BY <1>5, <1>8 DEF u

(* Every machine counted belongs to a group.                               *)
LEMMA OwnersCover ==
    ASSUME NEW groups, Rosterable(groups),
           NEW i \in 1..Upto(groups)[Len(groups)]
    PROVE  \E k \in 1..Len(groups) : Upto(groups)[k - 1] < i /\ i <= Upto(groups)[k]
  <1> DEFINE n == Len(groups)
             u == Upto(groups)
             Owned(k) == \E j \in 1..k : u[j - 1] < i /\ i <= u[j]
             Covered == {k \in Nat : k <= n /\ i <= u[k] => Owned(k)}
  <1>1. /\ n \in Nat /\ u \in [0..n -> Nat] /\ u[0] = 0 /\ i \in Nat /\ i >= 1
    BY GroupsAreSequence, UptoAdds
  <1> HIDE DEF u, n
  <1>2. 0 \in Covered
    BY <1>1
  <1>3. ASSUME NEW k \in Covered
        PROVE  k + 1 \in Covered
    <2> SUFFICES ASSUME k + 1 <= n, i <= u[k + 1]
                 PROVE  Owned(k + 1)
      OBVIOUS
    <2>0. k \in Nat /\ (k <= n /\ i <= u[k] => Owned(k))
      OBVIOUS
    <2> HIDE DEF Owned
    <2>1. k \in Nat /\ k \in 0..n /\ u[k] \in Nat /\ (k + 1) - 1 = k
      BY <1>1, <2>0
    <2>2. CASE i <= u[k]
      <3>1. PICK j \in 1..k : u[j - 1] < i /\ i <= u[j]
        BY <1>1, <2>0, <2>1, <2>2 DEF Owned
      <3>2. j \in 1..(k + 1)
        BY <2>1
      <3> QED
        BY <3>1, <3>2 DEF Owned
    <2>3. CASE ~(i <= u[k])
      <3>1. u[k] < i /\ k + 1 \in 1..(k + 1)
        BY <1>1, <2>1, <2>3
      <3> QED
        BY <2>1, <3>1 DEF Owned
    <2> QED
      BY <2>2, <2>3
  <1>4. Covered \in SUBSET Nat
    OBVIOUS
  <1> HIDE DEF Covered
  <1>5. n \in Covered
    BY <1>1, <1>2, <1>3, <1>4, NatSetInduction
  <1>6. i <= u[n]
    BY <1>1 DEF u, n
  <1> QED
    BY <1>1, <1>5, <1>6 DEF Covered, u, n

(* Repeated lists every group as often as its count says, in order: the    *)
(* machines between upto[k - 1] and upto[k] are the k-th group's.          *)
LEMMA RosterFollowsUpto ==
    ASSUME NEW groups, Rosterable(groups)
    PROVE  /\ IsSequence(Repeated(groups))
           /\ Len(Repeated(groups)) = Upto(groups)[Len(groups)]
           /\ DOMAIN Repeated(groups) = 1..Upto(groups)[Len(groups)]
           /\ \A k \in 1..Len(groups), i \in Nat :
                 Upto(groups)[k - 1] < i /\ i <= Upto(groups)[k] =>
                     Repeated(groups)[i] = groups[k]
  <1> DEFINE n == Len(groups)
             u == Upto(groups)
             Members == {groups[k] : k \in 1..n}
             Copies(k) == [i \in 1..groups[k].count |-> groups[k]]
             IsRep(f) == f = [k \in 0..n |-> IF k = 0 THEN <<>> ELSE f[k - 1] \o Copies(k)]
             step == [p \in (1..n) \X Seq(Members) |-> p[2] \o Copies(p[1])]
             rep == CHOOSE f : IsRep(f)
  <1>1. /\ n \in Nat /\ \A k \in 1..n : groups[k].count \in Nat
        /\ u \in [0..n -> Nat] /\ u[0] = 0
        /\ \A k \in 1..n : u[k] = u[k - 1] + groups[k].count
    BY GroupsAreSequence, UptoAdds
  <1>2. Repeated(groups) = rep[n]
    BY DEF Repeated
  <1>3. \A k \in 1..n : /\ Copies(k) \in Seq(Members)
                        /\ Len(Copies(k)) = groups[k].count
    <2> SUFFICES ASSUME NEW k \in 1..n
                 PROVE  Copies(k) \in Seq(Members) /\ Len(Copies(k)) = groups[k].count
      OBVIOUS
    <2> DEFINE c == groups[k].count
    <2>1. c \in Nat
      BY <1>1
    <2>2. Copies(k) \in [1..c -> Members]
      OBVIOUS
    <2>3. Copies(k) \in Seq(Members)
      BY <2>1, <2>2, SeqDef
    <2>4. DOMAIN Copies(k) = 1..c
      OBVIOUS
    <2> HIDE DEF c, Copies, Members
    <2>5. Len(Copies(k)) = c
      BY <2>1, <2>3, <2>4, LenProperties
    <2> QED
      BY <2>3, <2>5 DEF c
  <1>4. \E f : IsRep(f)
    <2>1. step \in [(1..n) \X Seq(Members) -> Seq(Members)]
      <3> SUFFICES ASSUME NEW p \in (1..n) \X Seq(Members)
                   PROVE  p[2] \o Copies(p[1]) \in Seq(Members)
        OBVIOUS
      <3>1. p[1] \in 1..n /\ p[2] \in Seq(Members)
        OBVIOUS
      <3>2. Copies(p[1]) \in Seq(Members)
        BY <1>3, <3>1
      <3> HIDE DEF Copies, Members
      <3> QED
        BY <3>1, <3>2, ConcatProperties
    <2>2. \A k \in 1..n, s \in Seq(Members) : step[<<k, s>>] = s \o Copies(k)
      OBVIOUS
    <2>3. <<>> \in Seq(Members)
      OBVIOUS
    <2> HIDE DEF step, n, Members, Copies
    <2>4. PICK f : Unfolds(f, n, Seq(Members), <<>>, step)
      BY <1>1, <2>1, <2>3, RecursionExists
    <2>5. \A k \in 0..n : f[k] = IF k = 0 THEN <<>> ELSE f[k - 1] \o Copies(k)
      <3> SUFFICES ASSUME NEW k \in 0..n, k # 0
                   PROVE  f[k] = f[k - 1] \o Copies(k)
        BY <2>4 DEF Unfolds
      <3>1. k \in 1..n /\ k - 1 \in 0..n
        BY <1>1
      <3> QED
        BY <2>2, <2>4, <3>1 DEF Unfolds
    <2>6. IsRep(f)
      BY <2>4, <2>5 DEF Unfolds
    <2> QED
      BY <2>6
  <1>5. IsRep(rep)
    <2> HIDE DEF IsRep
    <2> QED
      BY <1>4
  <1> HIDE DEF rep
  <1>6. rep[0] = <<>> /\ \A k \in 1..n : rep[k] = rep[k - 1] \o Copies(k)
    <2>1. \A k \in 0..n : rep[k] = IF k = 0 THEN <<>> ELSE rep[k - 1] \o Copies(k)
      BY <1>5
    <2>2. 0 \in 0..n /\ \A k \in 1..n : k \in 0..n /\ k # 0
      BY <1>1
    <2> HIDE DEF n, Copies
    <2>3. rep[0] = <<>>
      BY <2>1, <2>2
    <2>4. ASSUME NEW k \in 1..n
          PROVE  rep[k] = rep[k - 1] \o Copies(k)
      <3>1. k \in 0..n /\ k # 0
        BY <2>2
      <3> HIDE DEF IsRep
      <3> QED
        BY <2>1, <3>1, Zenon
    <2> QED
      BY <2>3, <2>4
  <1> DEFINE Right(k) == /\ rep[k] \in Seq(Members) /\ Len(rep[k]) = u[k]
                         /\ \A j \in 1..k, i \in Nat :
                               u[j - 1] < i /\ i <= u[j] => i <= u[k] /\ rep[k][i] = groups[j]
             Reached == {k \in Nat : k <= n => Right(k)}
  <1>7. 0 \in Reached
    <2>1. rep[0] \in Seq(Members) /\ Len(rep[0]) = u[0]
      BY <1>1, <1>6
    <2> HIDE DEF Members, n, u
    <2> QED
      BY <2>1
  <1>8. ASSUME NEW k \in Reached
        PROVE  k + 1 \in Reached
    <2> SUFFICES ASSUME k + 1 <= n
                 PROVE  Right(k + 1)
      OBVIOUS
    <2>1. /\ k \in Nat /\ k + 1 \in 1..n /\ (k + 1) - 1 = k /\ Right(k)
          /\ u[k] \in Nat
      BY <1>1
    <2> DEFINE before == rep[k]
               new == Copies(k + 1)
               c == groups[k + 1].count
    <2>2. /\ rep[k + 1] = before \o new /\ u[k + 1] = u[k] + c /\ c \in Nat
          /\ before \in Seq(Members) /\ new \in Seq(Members)
          /\ Len(before) = u[k] /\ Len(new) = c
      BY <1>1, <1>3, <1>6, <2>1
    <2>3. \A i \in 1..c : new[i] = groups[k + 1]
      OBVIOUS
    <2> HIDE DEF before, new, Copies, Members, n, u, c
    <2>4. /\ before \o new \in Seq(Members)
          /\ Len(before \o new) = u[k] + c
          /\ \A i \in 1..(u[k] + c) :
                (before \o new)[i] = IF i <= u[k] THEN before[i] ELSE new[i - u[k]]
      <3>1. /\ before \o new \in Seq(Members)
            /\ Len(before \o new) = Len(before) + Len(new)
            /\ \A i \in 1..(Len(before) + Len(new)) :
                  (before \o new)[i] = IF i <= Len(before) THEN before[i]
                                       ELSE new[i - Len(before)]
        BY <2>2, ConcatProperties
      <3> QED
        BY <2>2, <3>1
    <2>5. ASSUME NEW j \in 1..(k + 1), NEW i \in Nat, u[j - 1] < i, i <= u[j]
          PROVE  i <= u[k + 1] /\ rep[k + 1][i] = groups[j]
      <3>1. j - 1 \in 0..n /\ u[j - 1] \in Nat /\ i >= 1
        BY <1>1, <2>1, <2>5
      <3>2. CASE j = k + 1
        <4>1. u[k] < i /\ i <= u[k] + c
          BY <2>1, <2>2, <2>5, <3>2
        <4>2. i - u[k] \in 1..c /\ ~(i <= u[k]) /\ i \in 1..(u[k] + c)
          BY <2>1, <2>2, <3>1, <4>1
        <4> QED
          BY <2>2, <2>3, <2>4, <3>2, <4>1, <4>2
      <3>3. CASE j # k + 1
        <4>1. j \in 1..k
          BY <2>1, <3>3
        <4>2. i <= u[k] /\ before[i] = groups[j]
          BY <2>1, <2>5, <4>1 DEF before
        <4>3. i \in 1..(u[k] + c) /\ i <= u[k] + c
          BY <2>1, <2>2, <3>1, <4>2
        <4> QED
          BY <2>2, <2>4, <4>2, <4>3
      <3> QED
        BY <3>2, <3>3
    <2> QED
      BY <2>2, <2>4, <2>5
  <1>9. Reached \in SUBSET Nat
    OBVIOUS
  <1> HIDE DEF Reached
  <1>10. n \in Reached
    BY <1>1, <1>7, <1>8, <1>9, NatSetInduction
  <1>11. Right(n)
    BY <1>1, <1>10 DEF Reached
  <1> HIDE DEF Members, n, u
  <1>12. rep[n] \in Seq(Members) /\ Len(rep[n]) = u[n]
    BY <1>11
  <1>13. DOMAIN rep[n] = 1..u[n] /\ IsSequence(rep[n])
    <2> DEFINE s == rep[n]
               Values == {s[i] : i \in DOMAIN s}
    <2>1. s \in Seq(Members) /\ Len(s) = u[n]
      BY <1>12
    <2> HIDE DEF s
    <2>2. DOMAIN s = 1..Len(s) /\ Len(s) \in Nat /\ s \in [1..Len(s) -> Members]
      BY <2>1, SeqDomain
    <2>3. s \in [1..Len(s) -> Values]
      BY <2>2
    <2>4. s \in Seq(Values)
      BY <2>2, <2>3, SeqDef
    <2> QED
      BY <2>1, <2>2, <2>4 DEF s, IsSequence
  <1>14. \A k \in 1..n, i \in Nat : u[k - 1] < i /\ i <= u[k] => rep[n][i] = groups[k]
    BY <1>11
  <1> QED
    BY <1>2, <1>12, <1>13, <1>14 DEF u, n

-----------------------------------------------------------------------------
(* The inductive invariant of a whole launch.                              *)

(* What the k-th iteration of the submission loop buys.                    *)
Bought(k) ==
    [flavor |-> NodeFlavors(in)[k],
     config |-> Connection(in),
     node |-> k - 1,
     scheduler_worker |-> in.scheduler_worker,
     spec |-> Command(in)]

Launching ==
    /\ ValidPlan(in) /\ RunConfigValid(Command(in))
    /\ \A k \in DOMAIN jobs : jobs[k] = Bought(k)

LoneJob ==
    /\ RunConfigValid(in)
    /\ jobs = <<[flavor |-> in.flavor, config |-> None, spec |-> in]>>

(* What a Job's start comes to on a machine.                               *)
StartOf(job, m) ==
    IF Networked(job)
    THEN IF Complaints(job, m) # {}
         THEN [is |-> "refused", why |-> Complaints(job, m)]
         ELSE Ready(job, m,
                    IF HasProfiles(job)
                    THEN Profiles(m, job.spec.memory_limit, Reserve(job)) ELSE <<>>)
    ELSE IF AloneRefusals(job, m) # {}
         THEN [is |-> "refused", why |-> AloneRefusals(job, m)]
         ELSE [is |-> "started", machine |-> m, workers |-> LocalWorkers(m)]

Started(k) == node[k] = Blank \/ \E m \in Machines : node[k] = StartOf(jobs[k], m)

Arrays ==
    /\ IsSequence(jobs) /\ IsSequence(node)
    /\ Len(node) = Len(jobs)
    /\ \A k \in DOMAIN node : Started(k)

Stages ==
    /\ phase \in {"package", "plan", "submit", "submitted", "refused"}
    /\ env \in Environments \cup {"unsynced"}
    /\ phase = "package" => GroupsTypeOK /\ WorklistInv /\ in = None
    /\ phase # "package" => verdict = "open" /\ (in = None \/ in \in Inputs)
    /\ phase \in {"plan", "submit", "submitted"} =>
          env \in Environments \ {"no_runner"} /\ in \in Inputs
    /\ phase \in {"package", "plan", "refused"} => jobs = <<>>
    /\ phase = "submit" => Launching /\ Len(jobs) < NodeCount(in)
    /\ phase = "submitted" =>
          LoneJob \/ (Launching /\ Len(jobs) = NodeCount(in))

AdmissionInv == Stages /\ Arrays

(* Sequences, whatever they hold.                                          *)
LEMMA AnySequence ==
    ASSUME NEW S, NEW s \in Seq(S)
    PROVE  IsSequence(s)
  <1> DEFINE Values == {s[i] : i \in DOMAIN s}
  <1>1. Len(s) \in Nat /\ DOMAIN s = 1..Len(s) /\ s \in [1..Len(s) -> S]
    BY SeqDomain
  <1>2. s \in [1..Len(s) -> Values]
    BY <1>1
  <1>3. s \in Seq(Values)
    BY <1>1, <1>2, SeqDef
  <1> QED
    BY <1>3 DEF IsSequence

(* Append and EXCEPT keep a sequence one, whatever its elements are.       *)
LEMMA SequenceShape ==
    ASSUME NEW s, IsSequence(s)
    PROVE  Len(s) \in Nat /\ DOMAIN s = 1..Len(s) /\ s = [k \in 1..Len(s) |-> s[k]]
  <1> DEFINE Values == {s[i] : i \in DOMAIN s}
  <1>1. s \in Seq(Values)
    BY DEF IsSequence
  <1> HIDE DEF Values
  <1> QED
    BY <1>1, SeqDomain

LEMMA AnyAppend ==
    ASSUME NEW s, IsSequence(s), NEW e
    PROVE  /\ IsSequence(Append(s, e))
           /\ Len(Append(s, e)) = Len(s) + 1
           /\ DOMAIN Append(s, e) = 1..(Len(s) + 1)
           /\ Append(s, e)[Len(s) + 1] = e
           /\ \A k \in DOMAIN s : Append(s, e)[k] = s[k]
  <1> DEFINE Values == {s[i] : i \in DOMAIN s}
             More == Values \cup {e}
  <1>1. s \in Seq(Values) /\ Values \subseteq More /\ e \in More
    BY DEF IsSequence
  <1> HIDE DEF Values, More
  <1>2. s \in Seq(More)
    BY <1>1, SeqWiden
  <1>3. Append(s, e) \in Seq(More)
    BY <1>1, <1>2, SeqAppend
  <1>4. IsSequence(Append(s, e))
    BY <1>3, AnySequence
  <1> QED
    BY <1>1, <1>2, <1>4, SeqAppend

LEMMA AnyUpdate ==
    ASSUME NEW s, IsSequence(s), NEW i \in DOMAIN s, NEW e
    PROVE  /\ IsSequence([s EXCEPT ![i] = e])
           /\ Len([s EXCEPT ![i] = e]) = Len(s)
           /\ DOMAIN [s EXCEPT ![i] = e] = DOMAIN s
  <1> DEFINE Values == {s[k] : k \in DOMAIN s}
             More == Values \cup {e}
  <1>1. s \in Seq(Values) /\ Values \subseteq More /\ e \in More
    BY DEF IsSequence
  <1> HIDE DEF Values, More
  <1>2. s \in Seq(More)
    BY <1>1, SeqWiden
  <1>3. [s EXCEPT ![i] = e] \in Seq(More)
    BY <1>1, <1>2, SeqUpdate
  <1>4. IsSequence([s EXCEPT ![i] = e])
    BY <1>3, AnySequence
  <1> QED
    BY <1>1, <1>2, <1>4, SeqUpdate

(* The two short sequences.                                                *)
LEMMA NoneIsSequence ==
    IsSequence(<<>>) /\ Len(<<>>) = 0 /\ DOMAIN <<>> = {}
  <1>1. <<>> \in Seq({})
    OBVIOUS
  <1>2. IsSequence(<<>>)
    BY <1>1, AnySequence
  <1> QED
    BY <1>2

LEMMA OneIsSequence ==
    ASSUME NEW e
    PROVE  IsSequence(<<e>>) /\ Len(<<e>>) = 1 /\ DOMAIN <<e>> = {1} /\ <<e>>[1] = e
  <1>1. <<e>> \in Seq({e})
    OBVIOUS
  <1>2. IsSequence(<<e>>)
    BY <1>1, AnySequence
  <1> QED
    BY <1>2

(* The steps of a launch, one lemma for each of its phases.                *)
LEMMA AdmissionStart ==
    ASSUME Init
    PROVE  AdmissionInv
  <1>1. jobs = <<>> /\ node = <<>>
    BY DEF Init
  <1>2. Arrays
    BY <1>1, NoneIsSequence DEF Arrays
  <1>3. CASE phase = "package"
    <2>1. GroupsTypeOK /\ WorklistInv
      BY <1>3, GroupsStart DEF Init
    <2> QED
      BY <1>1, <1>2, <1>3, <2>1 DEF Init, Stages, AdmissionInv
  <1>4. CASE phase = "plan"
    BY <1>1, <1>2, <1>4 DEF Init, NoPackage, Environments, Stages, AdmissionInv
  <1> QED
    BY <1>3, <1>4 DEF Init

(* The counts of a plan that is accepted.                                  *)
LEMMA PlanIsSized ==
    ASSUME NEW i, IsInput(i), ValidPlan(i)
    PROVE  /\ RemoteCount(i) \in Nat /\ NodeCount(i) = 1 + RemoteCount(i)
           /\ NodeCount(i) \in 1..MaxJobs
           /\ Grouped(i) => Rosterable(i.worker_groups)
           /\ Grouped(i) => RemoteCount(i) = Upto(i.worker_groups)[Len(i.worker_groups)]
  <1>1. CASE Grouped(i)
    <2>1. Rosterable(i.worker_groups)
      BY <1>1 DEF IsInput, ValidPlan, FieldsValid, Rosterable
    <2>2. /\ Len(i.worker_groups) \in Nat
          /\ Upto(i.worker_groups) \in [0..Len(i.worker_groups) -> Nat]
      BY <2>1, GroupsAreSequence, UptoAdds
    <2>3. RemoteCount(i) = Upto(i.worker_groups)[Len(i.worker_groups)]
      BY <1>1 DEF RemoteCount
    <2>4. RemoteCount(i) \in Nat
      BY <2>2, <2>3
    <2> QED
      BY <2>1, <2>3, <2>4, LaunchPlanAssumption DEF ValidPlan, WithinJobLimit, NodeCount
  <1>2. CASE ~Grouped(i)
    <2>1. RemoteCount(i) = i.workers - Flag(i.scheduler_worker) /\ i.workers >= 1 /\ i.workers \in Int
      BY <1>2 DEF RemoteCount, ValidPlan, FieldsValid, IsInput
    <2>2. RemoteCount(i) \in Nat
      BY <2>1 DEF Flag
    <2> QED
      BY <1>2, <2>2, LaunchPlanAssumption DEF ValidPlan, WithinJobLimit, NodeCount
  <1> QED
    BY <1>1, <1>2

(* What a launcher's step that buys nothing leaves of the Jobs and nodes.  *)
LEMMA ArraysStep ==
    ASSUME Arrays, IsSequence(jobs), UNCHANGED <<jobs, node>>,
           UNCHANGED env \/ jobs = <<>>
    PROVE  Arrays'
  <1>1. CASE UNCHANGED env
    <2>1. \A k \in DOMAIN node, m \in Machines :
              StartOf(jobs[k], m)' = StartOf(jobs[k], m)
      BY <1>1 DEF StartOf, Complaints
    <2> QED
      BY <2>1 DEF Arrays, Started, Blank
  <1>2. CASE jobs = <<>>
    <2>1. DOMAIN node = {}
      BY <1>2, NoneIsSequence, SequenceShape DEF Arrays
    <2> QED
      BY <2>1 DEF Arrays, Started
  <1> QED
    BY <1>1, <1>2

LEMMA PackageStep ==
    ASSUME AdmissionInv, ValidatePackage \/ PackageAccepted \/ PackageRefused
    PROVE  AdmissionInv'
  <1>1. phase = "package" /\ jobs = <<>> /\ GroupsTypeOK /\ WorklistInv
    BY DEF AdmissionInv, Stages, ValidatePackage, PackageAccepted, PackageRefused
  <1>2. UNCHANGED <<jobs, node>>
    BY DEF ValidatePackage, PackageAccepted, PackageRefused, launchVars
  <1>3. Arrays'
    BY <1>1, <1>2, ArraysStep DEF AdmissionInv, Arrays
  <1>4. CASE ValidatePackage
    <2>1. (GroupsTypeOK /\ WorklistInv)'
      BY <1>1, <1>4, GroupsTypeStep, WorklistStep DEF ValidatePackage
    <2> QED
      BY <1>1, <1>3, <1>4, <2>1 DEF ValidatePackage, launchVars, AdmissionInv, Stages
  <1>5. CASE PackageAccepted
    <2>1. RunnerSynced \/ DevLeftOut
      BY <1>1, <1>5, VerdictFollows DEF PackageAccepted, VerdictIsRight
    <2>2. env' \in Environments \ {"no_runner"}
      BY <1>5, <2>1 DEF PackageAccepted, SyncCanEnd
    <2> QED
      BY <1>1, <1>2, <1>3, <1>5, <2>2 DEF PackageAccepted, PackageReturns, AdmissionInv, Stages
  <1>6. CASE PackageRefused
    <2>1. in = None /\ in' = None /\ env' = env
      BY <1>1, <1>6 DEF PackageRefused, launchVars, AdmissionInv, Stages
    <2> QED
      BY <1>1, <1>2, <1>3, <1>6, <2>1 DEF PackageRefused, PackageReturns, launchVars, AdmissionInv, Stages
  <1> QED
    BY <1>4, <1>5, <1>6

LEMMA PlanStep ==
    ASSUME AdmissionInv, PlanAccepted \/ PlanRefused \/ AloneRefused
    PROVE  AdmissionInv'
  <1>1. /\ phase = "plan" /\ jobs = <<>> /\ in \in Inputs /\ verdict = "open"
        /\ UNCHANGED <<verdict, in, env, jobs, node>>
    BY DEF AdmissionInv, Stages, PlanAccepted, PlanRefused, AloneRefused, launchVars, groupVars
  <1>2. Arrays'
    BY <1>1, ArraysStep DEF AdmissionInv, Arrays
  <1>3. CASE PlanAccepted
    <2>1. ValidPlan(in) /\ RunConfigValid(Command(in)) /\ phase' = "submit"
      BY <1>3 DEF PlanAccepted
    <2>2. NodeCount(in) \in 1..MaxJobs
      BY <1>1, <2>1, PlanIsSized, AdmissionAssumption
    <2>3. Len(jobs) = 0 /\ DOMAIN jobs = {}
      BY <1>1, NoneIsSequence
    <2>4. Launching' /\ Len(jobs') < NodeCount(in')
      BY <1>1, <2>1, <2>2, <2>3 DEF Launching
    <2> QED
      BY <1>1, <1>2, <2>1, <2>4 DEF AdmissionInv, Stages
  <1>4. CASE PlanRefused \/ AloneRefused
    <2>1. phase' = "refused"
      BY <1>4 DEF PlanRefused, AloneRefused
    <2> QED
      BY <1>1, <1>2, <2>1 DEF AdmissionInv, Stages
  <1> QED
    BY <1>3, <1>4

LEMMA SubmitStep ==
    ASSUME AdmissionInv, Submit
    PROVE  AdmissionInv'
  <1> DEFINE index == Len(jobs)
             job == [flavor |-> NodeFlavors(in)[index + 1],
                     config |-> Connection(in),
                     node |-> index,
                     scheduler_worker |-> in.scheduler_worker,
                     spec |-> Command(in)]
  <1>1. /\ phase = "submit" /\ in \in Inputs /\ verdict = "open"
        /\ env \in Environments \ {"no_runner"}
        /\ Launching /\ index < NodeCount(in) /\ Arrays
    BY DEF AdmissionInv, Stages, Submit
  <1>2. /\ jobs' = Append(jobs, job) /\ node' = Append(node, Blank)
        /\ phase' = IF index + 1 = NodeCount(in) THEN "submitted" ELSE "submit"
        /\ UNCHANGED <<verdict, in, env>>
    BY DEF Submit, groupVars
  <1>3. index \in Nat /\ DOMAIN jobs = 1..index /\ DOMAIN node = 1..index
    BY <1>1, SequenceShape DEF Arrays
  <1>4. job = Bought(index + 1)
    BY <1>3 DEF Bought
  <1> HIDE DEF job, index
  <1>5. /\ IsSequence(jobs') /\ Len(jobs') = index + 1 /\ DOMAIN jobs' = 1..(index + 1)
        /\ jobs'[index + 1] = job /\ \A k \in DOMAIN jobs : jobs'[k] = jobs[k]
    BY <1>1, <1>2, AnyAppend DEF Arrays, index
  <1>6. /\ IsSequence(node') /\ Len(node') = index + 1 /\ DOMAIN node' = 1..(index + 1)
        /\ node'[index + 1] = Blank /\ \A k \in DOMAIN node : node'[k] = node[k]
    BY <1>1, <1>2, AnyAppend DEF Arrays, index
  <1>7. Arrays'
    <2>1. ASSUME NEW k \in 1..(index + 1)
          PROVE  Started(k)'
      <3>1. CASE k = index + 1
        BY <1>6, <3>1 DEF Started, Blank
      <3>2. CASE k # index + 1
        <4>1. k \in DOMAIN node /\ k \in DOMAIN jobs
          BY <1>3, <3>2
        <4>2. Started(k) /\ jobs'[k] = jobs[k] /\ node'[k] = node[k]
          BY <1>1, <1>5, <1>6, <4>1 DEF Arrays
        <4> QED
          BY <1>2, <4>2 DEF Started, StartOf, Complaints
      <3> QED
        BY <3>1, <3>2
    <2> QED
      BY <1>5, <1>6, <2>1 DEF Arrays
  <1>8. Launching'
    <2>1. ASSUME NEW k \in 1..(index + 1)
          PROVE  jobs'[k] = Bought(k)
      <3>1. CASE k = index + 1
        BY <1>4, <1>5, <3>1
      <3>2. CASE k # index + 1
        <4>1. k \in DOMAIN jobs
          BY <1>3, <3>2
        <4> QED
          BY <1>1, <1>5, <4>1 DEF Launching
      <3> QED
        BY <3>1, <3>2
    <2> QED
      BY <1>1, <1>2, <1>5, <2>1 DEF Launching, Bought
  <1>9. NodeCount(in) \in Nat
    BY <1>1, PlanIsSized, AdmissionAssumption DEF Launching
  <1>10. Stages'
    BY <1>1, <1>2, <1>3, <1>5, <1>8, <1>9 DEF Stages
  <1> QED
    BY <1>7, <1>10 DEF AdmissionInv

LEMMA SubmitAloneStep ==
    ASSUME AdmissionInv, SubmitAlone
    PROVE  AdmissionInv'
  <1>1. /\ phase = "plan" /\ in \in Inputs /\ verdict = "open"
        /\ env \in Environments \ {"no_runner"}
        /\ RunConfigValid(in)
        /\ jobs' = <<[flavor |-> in.flavor, config |-> None, spec |-> in]>>
        /\ node' = <<Blank>> /\ phase' = "submitted"
        /\ UNCHANGED <<verdict, in, env>>
    BY DEF AdmissionInv, Stages, SubmitAlone, groupVars
  <1>2. LoneJob'
    BY <1>1 DEF LoneJob
  <1>3. /\ IsSequence(jobs') /\ Len(jobs') = 1
        /\ IsSequence(node') /\ Len(node') = 1 /\ DOMAIN node' = {1} /\ node'[1] = Blank
    BY <1>1, OneIsSequence
  <1>4. Arrays'
    BY <1>3 DEF Arrays, Started, Blank
  <1>5. Stages'
    BY <1>1, <1>2 DEF Stages
  <1> QED
    BY <1>4, <1>5 DEF AdmissionInv

LEMMA NodeStep ==
    ASSUME AdmissionInv, NEW k \in DOMAIN jobs, NodeNext(k)
    PROVE  AdmissionInv'
  <1>1. PICK m \in Machines : Begins(k, StartOf(jobs[k], m))
    BY DEF NodeNext, NodeRefuses, NodeStarts, AloneRefuses, AloneStarts, StartOf
  <1>2. /\ UNCHANGED <<verdict, phase, in, env, jobs>>
        /\ UNCHANGED groupVars
        /\ node' = [node EXCEPT ![k] = StartOf(jobs[k], m)]
    BY <1>1 DEF Begins, groupVars
  <1>3. /\ IsSequence(jobs) /\ IsSequence(node) /\ Len(node) = Len(jobs)
        /\ \A j \in DOMAIN node : Started(j)
    BY DEF AdmissionInv, Arrays
  <1>4. k \in DOMAIN node
    BY <1>3, SequenceShape
  <1>5. /\ IsSequence(node') /\ Len(node') = Len(node) /\ DOMAIN node' = DOMAIN node
    BY <1>2, <1>3, <1>4, AnyUpdate
  <1>6. ASSUME NEW j \in DOMAIN node
        PROVE  Started(j)'
    <2>1. \A n \in Machines : StartOf(jobs[j], n)' = StartOf(jobs[j], n)
      BY <1>2 DEF StartOf, Complaints
    <2>2. CASE j = k
      <3>1. node'[k] = StartOf(jobs[k], m)
        BY <1>2, <1>4
      <3> QED
        BY <2>1, <2>2, <3>1 DEF Started
    <2>3. CASE j # k
      <3>1. node'[j] = node[j] /\ Started(j)
        BY <1>2, <1>3, <2>3
      <3> QED
        BY <2>1, <3>1 DEF Started, Blank
    <2> QED
      BY <2>2, <2>3
  <1>7. Arrays'
    BY <1>2, <1>3, <1>5, <1>6 DEF Arrays
  <1>8. Stages'
    <2>1. phase # "package"
      BY NoneIsSequence DEF AdmissionInv, Stages
    <2>2. phase \in {"submit", "submitted"}
      BY NoneIsSequence DEF AdmissionInv, Stages
    <2> QED
      BY <1>2, <2>1, <2>2 DEF AdmissionInv, Stages, Launching, Bought, LoneJob
  <1> QED
    BY <1>7, <1>8 DEF AdmissionInv

LEMMA AdmissionStep ==
    ASSUME AdmissionInv, [Next]_vars
    PROVE  AdmissionInv'
  <1>1. CASE UNCHANGED vars
    <2>1. UNCHANGED <<groupVars, phase, in, env, jobs, node>>
      BY <1>1 DEF vars, launchVars
    <2>2. Arrays'
      BY <2>1, ArraysStep DEF AdmissionInv, Arrays
    <2>3. GroupsTypeOK /\ WorklistInv => (GroupsTypeOK /\ WorklistInv)'
      BY <2>1, GroupsTypeStep, WorklistStep
    <2>4. Stages'
      BY <2>1, <2>3 DEF AdmissionInv, Stages, Launching, Bought, LoneJob, groupVars
    <2> QED
      BY <2>2, <2>4 DEF AdmissionInv
  <1>2. CASE LauncherNext
    BY <1>2, PackageStep, PlanStep, SubmitStep, SubmitAloneStep DEF LauncherNext
  <1>3. CASE \E k \in DOMAIN jobs : NodeNext(k)
    BY <1>3, NodeStep
  <1> QED
    BY <1>1, <1>2, <1>3 DEF Next

(* The state of a launch from packaging to its nodes: what was validated   *)
(* at each phase, and per Job what was bought and what its start made of   *)
(* the machine it met.                                                     *)
THEOREM AdmissionInvariance == Spec => []AdmissionInv
  <1> QED
    BY AdmissionStart, AdmissionStep, PTL DEF Spec

-----------------------------------------------------------------------------
(* What follows from the invariant: the launcher's side.                   *)

(* A validated plan's lists are as long as its number of Jobs.             *)
LEMMA Prefixed ==
    ASSUME NEW n \in Nat, NEW s, s = [k \in 1..n |-> s[k]], NEW x
    PROVE  /\ Len(<<x>> \o s) = n + 1
           /\ (<<x>> \o s)[1] = x
           /\ \A k \in 2..(n + 1) : (<<x>> \o s)[k] = s[k - 1]
  <1> DEFINE Values == {s[k] : k \in 1..n} \cup {x}
  <1>1. s \in [1..n -> Values]
    OBVIOUS
  <1>2. s \in Seq(Values) /\ x \in Values
    BY <1>1, SeqDef
  <1>3. DOMAIN s = 1..n
    OBVIOUS
  <1> HIDE DEF Values
  <1>4. Len(s) = n
    BY <1>2, <1>3, LenProperties
  <1>5. <<x>> \in Seq(Values) /\ Len(<<x>>) = 1 /\ <<x>>[1] = x
    BY <1>2
  <1>6. /\ Len(<<x>> \o s) = Len(<<x>>) + Len(s)
        /\ \A k \in 1..(Len(<<x>>) + Len(s)) :
              (<<x>> \o s)[k] = IF k <= Len(<<x>>) THEN <<x>>[k] ELSE s[k - Len(<<x>>)]
    BY <1>2, <1>5, ConcatProperties
  <1>7. \A k \in 1..(n + 1) : (<<x>> \o s)[k] = IF k <= 1 THEN <<x>>[k] ELSE s[k - 1]
    BY <1>4, <1>5, <1>6
  <1>8. Len(<<x>> \o s) = n + 1
    BY <1>4, <1>5, <1>6
  <1>9. 1 \in 1..(n + 1) /\ \A k \in 2..(n + 1) : k \in 1..(n + 1) /\ ~(k <= 1)
    OBVIOUS
  <1> QED
    BY <1>5, <1>7, <1>8, <1>9

(* node_flavors and node_tags have an entry for every Job, and a remote    *)
(* node's is that of the group it was repeated from.                       *)
LEMMA ListsMatchPlan ==
    ASSUME NEW i, IsInput(i), ValidPlan(i)
    PROVE  /\ Len(NodeFlavors(i)) = NodeCount(i)
           /\ Len(NodeTags(i)) = NodeCount(i)
           /\ NodeTags(i)[1] = {}
           /\ Grouped(i) => \A k \in 2..NodeCount(i) :
                 /\ NodeFlavors(i)[k] = Repeated(i.worker_groups)[k - 1].flavor
                 /\ NodeTags(i)[k] = Repeated(i.worker_groups)[k - 1].tags
  <1> DEFINE n == RemoteCount(i)
             roster == Repeated(i.worker_groups)
  <1>1. /\ n \in Nat /\ NodeCount(i) = n + 1
        /\ Grouped(i) => DOMAIN roster = 1..n
    BY PlanIsSized, RosterFollowsUpto
  <1>2. CASE Grouped(i)
    <2> DEFINE flavors == [k \in DOMAIN roster |-> roster[k].flavor]
               tags == [k \in DOMAIN roster |-> roster[k].tags]
               first == Flavor(i.scheduler_flavor, i.flavor)
    <2>1. NodeFlavors(i) = <<first>> \o flavors /\ NodeTags(i) = <<{}>> \o tags
      BY <1>2 DEF NodeFlavors, NodeTags, GroupTags
    <2>2. /\ flavors = [k \in 1..n |-> flavors[k]] /\ tags = [k \in 1..n |-> tags[k]]
          /\ \A k \in 1..n : flavors[k] = roster[k].flavor /\ tags[k] = roster[k].tags
      BY <1>1, <1>2
    <2> HIDE DEF flavors, tags, first, n, roster
    <2>3. /\ Len(<<first>> \o flavors) = n + 1
          /\ \A k \in 2..(n + 1) : (<<first>> \o flavors)[k] = flavors[k - 1]
      BY <1>1, <2>2, Prefixed
    <2>4. /\ Len(<<{}>> \o tags) = n + 1 /\ (<<{}>> \o tags)[1] = {}
          /\ \A k \in 2..(n + 1) : (<<{}>> \o tags)[k] = tags[k - 1]
      BY <1>1, <2>2, Prefixed
    <2>5. \A k \in 2..(n + 1) : k - 1 \in 1..n
      BY <1>1
    <2> QED
      BY <1>1, <2>1, <2>2, <2>3, <2>4, <2>5 DEF roster
  <1>3. CASE ~Grouped(i)
    <2> DEFINE flavors == [k \in 1..n |-> Flavor(i.worker_flavor, i.flavor)]
               tags == [k \in 1..n |-> {}]
               first == Flavor(i.scheduler_flavor, i.flavor)
    <2>1. NodeFlavors(i) = <<first>> \o flavors /\ NodeTags(i) = <<{}>> \o tags
      BY <1>3 DEF NodeFlavors, NodeTags
    <2>2. flavors = [k \in 1..n |-> flavors[k]] /\ tags = [k \in 1..n |-> tags[k]]
      OBVIOUS
    <2> HIDE DEF flavors, tags, first, n
    <2>3. Len(<<first>> \o flavors) = n + 1
      BY <1>1, <2>2, Prefixed
    <2>4. Len(<<{}>> \o tags) = n + 1 /\ (<<{}>> \o tags)[1] = {}
      BY <1>1, <2>2, Prefixed
    <2> QED
      BY <1>1, <1>3, <2>1, <2>3, <2>4
  <1> QED
    BY <1>2, <1>3

(* The record of every Job, and the outcome of its start.                  *)
LEMMA JobFacts ==
    ASSUME AdmissionInv, NEW k \in DOMAIN node
    PROVE  /\ k \in DOMAIN jobs /\ DOMAIN node = DOMAIN jobs
           /\ k \in 1..Len(jobs) /\ Len(jobs) \in Nat
           /\ phase \in {"submit", "submitted"}
           /\ env \in Environments \ {"no_runner"}
           /\ in \in Inputs /\ IsInput(in) /\ Connection(in) # None
           /\ \/ LoneJob /\ ~Networked(jobs[k])
              \/ Launching /\ Len(jobs) <= NodeCount(in) /\ NodeCount(in) \in 1..MaxJobs
                    /\ jobs[k] = Bought(k) /\ Networked(jobs[k])
           /\ Started(k)
  <1>1. /\ IsSequence(jobs) /\ IsSequence(node) /\ Len(node) = Len(jobs)
        /\ Started(k)
    BY DEF AdmissionInv, Arrays
  <1>2. k \in DOMAIN jobs /\ k \in 1..Len(jobs) /\ Len(jobs) \in Nat /\ DOMAIN node = DOMAIN jobs
    BY <1>1, SequenceShape
  <1>3. phase \in {"submit", "submitted"}
    BY <1>2, NoneIsSequence DEF AdmissionInv, Stages
  <1>4. /\ env \in Environments \ {"no_runner"}
        /\ in \in Inputs /\ IsInput(in) /\ Connection(in) # None
    BY <1>3, AdmissionAssumption DEF AdmissionInv, Stages
  <1>5. CASE LoneJob
    <2> DEFINE job == [flavor |-> in.flavor, config |-> None, spec |-> in]
    <2>1. jobs = <<job>> /\ job.config = None
      BY <1>5 DEF LoneJob
    <2> HIDE DEF job
    <2>2. jobs[k] = job
      BY <1>2, <2>1, OneIsSequence
    <2>3. ~Networked(jobs[k])
      BY <2>1, <2>2 DEF Networked
    <2> QED
      BY <1>1, <1>2, <1>3, <1>4, <1>5, <2>3
  <1>6. CASE ~LoneJob
    <2>1. Launching
      BY <1>3, <1>6 DEF AdmissionInv, Stages
    <2>2. NodeCount(in) \in 1..MaxJobs
      BY <1>4, <2>1, PlanIsSized DEF Launching
    <2>3. Len(jobs) <= NodeCount(in)
      BY <1>2, <1>3, <1>6, <2>2 DEF AdmissionInv, Stages
    <2>4. jobs[k] = Bought(k)
      BY <1>2, <2>1 DEF Launching
    <2>5. Networked(jobs[k])
      BY <1>4, <2>4 DEF Networked, Bought
    <2> QED
      BY <1>1, <1>2, <1>3, <1>4, <2>1, <2>2, <2>3, <2>4, <2>5
  <1> QED
    BY <1>5, <1>6

(* Each property, from the invariant.                                      *)
LEMMA TypesFollow ==
    ASSUME AdmissionInv
    PROVE  AdmissionTypeOK
  <1>1. /\ phase = "package" => GroupsTypeOK
        /\ phase \in {"package", "plan", "submit", "submitted", "refused"}
        /\ phase # "package" => in = None \/ in \in Inputs
        /\ env \in Environments \cup {"unsynced"}
    BY DEF AdmissionInv, Stages
  <1>2. IsSequence(jobs) /\ IsSequence(node) /\ Len(node) = Len(jobs)
    BY DEF AdmissionInv, Arrays
  <1>3. DOMAIN node = DOMAIN jobs /\ Len(jobs) \in Nat /\ DOMAIN jobs = 1..Len(jobs)
    BY <1>2, SequenceShape
  <1>4. Len(jobs) \in 0..MaxJobs
    <2>1. CASE Len(jobs) = 0
      BY <2>1, LaunchPlanAssumption
    <2>2. CASE Len(jobs) # 0
      <3>1. 1 \in DOMAIN node
        BY <1>3, <2>2
      <3>2. CASE LoneJob
        <4>1. Len(jobs) = 1
          BY <3>2, OneIsSequence DEF LoneJob
        <4> QED
          BY <4>1, LaunchPlanAssumption
      <3>3. CASE ~LoneJob
        BY <1>3, <3>1, <3>3, JobFacts, LaunchPlanAssumption
      <3> QED
        BY <3>2, <3>3
    <2> QED
      BY <2>1, <2>2
  <1>5. ASSUME NEW k \in DOMAIN node
        PROVE  node[k].is \in {"pending", "refused", "started"}
    <2>1. Started(k)
      BY <1>5 DEF AdmissionInv, Arrays
    <2> QED
      BY <2>1 DEF Started, Blank, StartOf, Ready
  <1> QED
    BY <1>1, <1>3, <1>4, <1>5 DEF AdmissionTypeOK

LEMMA VerdictStands ==
    ASSUME AdmissionInv
    PROVE  VerdictIsRight
  <1>1. CASE phase = "package"
    BY <1>1, VerdictFollows DEF AdmissionInv, Stages
  <1>2. CASE phase # "package"
    BY <1>2 DEF AdmissionInv, Stages, VerdictIsRight
  <1> QED
    BY <1>1, <1>2

(* A plan that was accepted is one the runner accepts on every node.       *)
LEMMA ConfigAccepted ==
    ASSUME NEW i, IsInput(i), ValidPlan(i), NEW n \in Nat, n < NodeCount(i)
    PROVE  RunnerAccepts(Connection(i), n)
  <1>1. NodeCount(i) \in 1..MaxJobs
    BY PlanIsSized
  <1>2. /\ Connection(i).job_nodes = NodeCount(i)
        /\ Connection(i).node_flavors = NodeFlavors(i)
        /\ Connection(i).node_tags = NodeTags(i)
    BY DEF Connection
  <1>3. Len(NodeFlavors(i)) = NodeCount(i) /\ Len(NodeTags(i)) = NodeCount(i)
    BY ListsMatchPlan
  <1> QED
    BY <1>1, <1>2, <1>3 DEF RunnerAccepts

LEMMA PaidNodesFollow ==
    ASSUME AdmissionInv
    PROVE  PaidNodesStart
  <1> SUFFICES ASSUME NEW k \in DOMAIN node, node[k].is = "refused",
                      in.memory_limit # 0
               PROVE  \/ node[k].why \subseteq {"capacity", "gpus", "cores", "too_many_gpus"}
                      \/ node[k].why \subseteq {"no_uv", "bad_groups", "stale_lock", "dev_left_out"}
    BY DEF PaidNodesStart
  <1>1. PICK m \in Machines : node[k] = StartOf(jobs[k], m)
    BY JobFacts DEF Started, Blank
  <1>2. CASE ~Networked(jobs[k])
    <2>1. LoneJob /\ jobs[k].spec = in
      <3>1. LoneJob /\ k \in 1..Len(jobs)
        BY <1>2, JobFacts
      <3> DEFINE job == [flavor |-> in.flavor, config |-> None, spec |-> in]
      <3>2. jobs = <<job>> /\ job.spec = in
        BY <3>1 DEF LoneJob
      <3> HIDE DEF job
      <3> QED
        BY <3>1, <3>2, OneIsSequence
    <2>2. node[k].why = AloneRefusals(jobs[k], m)
      BY <1>1, <1>2 DEF StartOf
    <2> QED
      BY <2>1, <2>2 DEF AloneRefusals, LoneJob
  <1>3. CASE Networked(jobs[k])
    <2>1. /\ Launching /\ jobs[k] = Bought(k) /\ IsInput(in)
          /\ env \in Environments \ {"no_runner"}
          /\ k \in 1..Len(jobs) /\ Len(jobs) <= NodeCount(in) /\ Len(jobs) \in Nat
          /\ NodeCount(in) \in 1..MaxJobs
      BY <1>3, JobFacts
    <2>2. Complaints(jobs[k], m) = node[k].why
      BY <1>1, <1>3 DEF StartOf, Ready
    <2>3. /\ jobs[k].spec = Command(in) /\ jobs[k].config = Connection(in)
          /\ jobs[k].node = k - 1
      BY <2>1 DEF Bought
    <2>4. RunConfigValid(jobs[k].spec)
      BY <2>1, <2>3 DEF Launching
    <2>5. RunnerAccepts(jobs[k].config, jobs[k].node)
      <3>1. k - 1 \in Nat /\ k - 1 < NodeCount(in)
        BY <2>1
      <3> QED
        BY <2>1, <2>3, <3>1, ConfigAccepted DEF Launching
    <2>6. jobs[k].spec.memory_limit # 0
      <3>1. Command(in).memory_limit = in.memory_limit
        BY <2>1 DEF Command, IsInput
      <3> QED
        BY <2>3, <3>1
    <2>7. Refusals(m, jobs[k].spec.memory_limit, Reserve(jobs[k]))
              \subseteq {"capacity", "gpus", "cores", "too_many_gpus"}
      BY <2>6 DEF Refusals
    <2>8. CASE env = "ready"
      <3>1. Complaints(jobs[k], m) \subseteq {"capacity", "gpus", "cores", "too_many_gpus"}
        BY <2>4, <2>5, <2>7, <2>8 DEF Complaints
      <3> QED
        BY <2>2, <3>1
    <2>9. CASE env # "ready"
      <3>1. Complaints(jobs[k], m) = {env}
        BY <2>9 DEF Complaints
      <3>2. env \in {"no_uv", "bad_groups", "stale_lock", "dev_left_out"}
        BY <2>1, <2>9 DEF Environments
      <3> QED
        BY <2>2, <3>1, <3>2
    <2> QED
      BY <2>8, <2>9
  <1> QED
    BY <1>2, <1>3

(* A node's flavor and tags are those of the group that owns its number.   *)
LEMMA RosterFollows ==
    ASSUME AdmissionInv
    PROVE  RosterIsAligned
  <1>1. ASSUME NEW k \in DOMAIN node, Networked(jobs[k]), node[k].is = "started"
        PROVE  /\ node[k].flavor = jobs[k].flavor
               /\ k = 1 => node[k].tags = {}
               /\ k > 1 /\ Grouped(in) =>
                     /\ node[k].flavor = in.worker_groups[Owner(k - 1)].flavor
                     /\ node[k].tags = in.worker_groups[Owner(k - 1)].tags
    <2>1. /\ Launching /\ jobs[k] = Bought(k) /\ IsInput(in)
          /\ k \in 1..Len(jobs) /\ Len(jobs) <= NodeCount(in) /\ Len(jobs) \in Nat
          /\ NodeCount(in) \in 1..MaxJobs /\ Started(k)
      BY <1>1, JobFacts
    <2>2. PICK m \in Machines : node[k] = StartOf(jobs[k], m)
      BY <1>1, <2>1 DEF Started, Blank
    <2>3. /\ node[k].flavor = jobs[k].config.node_flavors[jobs[k].node + 1]
          /\ node[k].tags = jobs[k].config.node_tags[jobs[k].node + 1]
      BY <1>1, <2>2 DEF StartOf, Ready
    <2>4. /\ jobs[k].config.node_flavors = NodeFlavors(in)
          /\ jobs[k].config.node_tags = NodeTags(in)
          /\ jobs[k].node + 1 = k /\ jobs[k].flavor = NodeFlavors(in)[k]
      BY <2>1 DEF Bought, Connection
    <2>5. node[k].flavor = NodeFlavors(in)[k] /\ node[k].tags = NodeTags(in)[k]
      BY <2>3, <2>4
    <2>6. NodeTags(in)[1] = {}
      BY <2>1, ListsMatchPlan DEF Launching
    <2>7. ASSUME k > 1, Grouped(in)
          PROVE  /\ node[k].flavor = in.worker_groups[Owner(k - 1)].flavor
                 /\ node[k].tags = in.worker_groups[Owner(k - 1)].tags
      <3> DEFINE groups == in.worker_groups
                 own == Owner(k - 1)
                 n == k - 1
      <3>1. k \in 2..NodeCount(in)
        BY <2>1, <2>7
      <3>2. /\ NodeFlavors(in)[k] = Repeated(groups)[n].flavor
            /\ NodeTags(in)[k] = Repeated(groups)[n].tags
        BY <2>1, <2>7, <3>1, ListsMatchPlan DEF Launching
      <3>3. /\ Rosterable(groups) /\ n \in 1..Upto(groups)[Len(groups)] /\ n \in Nat
        BY <2>1, <2>7, <3>1, PlanIsSized DEF Launching
      <3>4. DOMAIN groups = 1..Len(groups)
        BY <3>3, GroupsAreSequence
      <3>5. \E j \in DOMAIN groups : Upto(groups)[j - 1] < n /\ n <= Upto(groups)[j]
        BY <3>3, <3>4, OwnersCover
      <3>6. own = CHOOSE j \in DOMAIN groups : Upto(groups)[j - 1] < n /\ n <= Upto(groups)[j]
        BY DEF Owner
      <3> HIDE DEF own, groups, n
      <3>7. own \in DOMAIN groups /\ Upto(groups)[own - 1] < n /\ n <= Upto(groups)[own]
        BY <3>5, <3>6
      <3>8. Repeated(groups)[n] = groups[own]
        BY <3>3, <3>4, <3>7, RosterFollowsUpto
      <3> QED
        BY <2>5, <3>2, <3>8 DEF own, groups
    <2> QED
      BY <2>4, <2>5, <2>6, <2>7
  <1>2. ASSUME phase = "submitted", NEW k \in DOMAIN jobs, Networked(jobs[k])
        PROVE  jobs[k].config.job_nodes = Len(jobs)
    <2>1. k \in DOMAIN node
      BY SequenceShape DEF AdmissionInv, Arrays
    <2>2. jobs[k] = Bought(k) /\ ~LoneJob
      <3>1. ~LoneJob
        <4>1. LoneJob => Networked(jobs[k]) = FALSE
          <5> DEFINE job == [flavor |-> in.flavor, config |-> None, spec |-> in]
          <5>1. LoneJob => jobs = <<job>>
            BY DEF LoneJob
          <5>2. job.config = None
            OBVIOUS
          <5> HIDE DEF job
          <5> QED
            BY <5>1, <5>2, OneIsSequence DEF Networked
        <4> QED
          BY <1>2, <4>1
      <3> QED
        BY <1>2, <2>1, <3>1, JobFacts
    <2>3. Len(jobs) = NodeCount(in)
      BY <1>2, <2>2 DEF AdmissionInv, Stages
    <2> QED
      BY <2>2, <2>3 DEF Bought, Connection
  <1> QED
    BY <1>1, <1>2 DEF RosterIsAligned

-----------------------------------------------------------------------------
(* What follows from the invariant: the machine's side.                    *)

LEMMA LeastIsMember ==
    ASSUME NEW S \in SUBSET Nat, S # {}
    PROVE  Least(S) \in S /\ \A x \in S : Least(S) <= x
  BY NatHasLeast DEF Least

(* worker_resources reads numbers from every machine.                      *)
LEMMA MachineIsMeasured ==
    ASSUME NEW m, IsMachine(m)
    PROVE  HalfCores(m) \in Nat /\ Memory(m) \in Nat
  <1>1. /\ {m.affinity} \cup m.quotas \in SUBSET Nat
        /\ {m.ram} \cup m.ramLimits \in SUBSET Nat
    BY DEF IsMachine
  <1>2. Least({m.affinity} \cup m.quotas) \in {m.affinity} \cup m.quotas
    BY <1>1, LeastIsMember
  <1>3. Least({m.ram} \cup m.ramLimits) \in {m.ram} \cup m.ramLimits
    BY <1>1, LeastIsMember
  <1> QED
    BY <1>1, <1>2, <1>3 DEF HalfCores, Memory

(* Neither the division nor a smaller limit asked for exceeds four fifths  *)
(* of the memory, over all workers together.                               *)
LEMMA SharesAddUp ==
    ASSUME NEW m, IsMachine(m), NEW limit \in Nat \cup {AutoLimit}, NEW reserve \in Nat,
           NEW count \in Nat, count = WorkerCount(m, reserve), count > 0
    PROVE  10 * count * Share(m, limit, reserve) <= 8 * Memory(m)
  <1> DEFINE ram == Memory(m)
             auto == (8 * ram) \div (10 * count)
             share == Share(m, limit, reserve)
  <1>1. ram \in Nat /\ 8 * ram \in Nat /\ 10 * count \in Nat \ {0}
    BY MachineIsMeasured
  <1>2. auto = AutoShare(Memory(m), WorkerCount(m, reserve))
    BY DEF AutoShare
  <1>3. share = LET least == AutoShare(Memory(m), WorkerCount(m, reserve))
                IN  IF limit = AutoLimit THEN least ELSE Least({least, limit})
    BY DEF Share
  <1>4. auto \in Nat /\ (10 * count) * auto <= 8 * ram
    BY <1>1, QuotientIsBelow
  <1> HIDE DEF auto, share, ram
  <1>5. share = IF limit = AutoLimit THEN auto ELSE Least({auto, limit})
    BY <1>3, <1>2
  <1>6. share \in Nat /\ share <= auto
    <2>1. CASE limit = AutoLimit
      BY <1>4, <1>5, <2>1
    <2>2. CASE limit # AutoLimit
      <3>1. limit \in Nat /\ {auto, limit} \in SUBSET Nat
        BY <1>4, <2>2
      <3>2. Least({auto, limit}) \in {auto, limit} /\ Least({auto, limit}) <= auto
        BY <3>1, LeastIsMember
      <3> QED
        BY <1>5, <2>2, <3>1, <3>2
    <2> QED
      BY <2>1, <2>2
  <1>7. (10 * count) * share <= (10 * count) * auto
    BY <1>1, <1>4, <1>6
  <1>8. 10 * count * share <= 8 * ram
    BY <1>1, <1>4, <1>6, <1>7
  <1> QED
    BY <1>8 DEF share, ram

(* GPUs that could be read are different ones.                             *)
LEMMA GpusAreDistinct ==
    ASSUME NEW m, IsMachine(m), ~GpusUnreadable(m)
    PROVE  /\ GpuCount(m) \in Nat
           /\ \A i, j \in 1..GpuCount(m) : Gpu(m, i) = Gpu(m, j) => i = j
  <1>1. CASE Listed(m)
    <2>1. IsSequence(m.visible) /\ \A k \in DOMAIN m.visible : IsFiniteSet(m.visible[k])
      BY <1>1 DEF IsMachine
    <2>2. GpuCount(m) = Len(m.visible)
      BY <1>1 DEF GpuCount
    <2>3. GpuCount(m) \in Nat /\ DOMAIN m.visible = 1..GpuCount(m)
      BY <2>1, <2>2, SequenceShape
    <2>4. CASE Hidden(m)
      <3>1. DOMAIN m.visible = {}
        BY <2>4, NoneIsSequence DEF Hidden
      <3> QED
        BY <2>3, <3>1
    <2>5. CASE ~Hidden(m)
      <3>1. ~Ambiguous(m)
        BY <1>1, <2>5 DEF GpusUnreadable
      <3>2. ASSUME NEW i \in DOMAIN m.visible
            PROVE  m.visible[i] = {Gpu(m, i)}
        <4>1. IsFiniteSet(m.visible[i]) /\ Cardinality(m.visible[i]) = 1
          BY <2>1, <3>1 DEF Ambiguous
        <4>2. \E g : m.visible[i] = {g}
          BY <4>1, FS_Singleton
        <4>3. Gpu(m, i) = CHOOSE g \in m.visible[i] : TRUE
          BY <1>1 DEF Gpu
        <4> QED
          BY <4>2, <4>3
      <3>3. \A i, j \in DOMAIN m.visible : m.visible[i] = m.visible[j] => i = j
        BY <3>1 DEF Ambiguous
      <3>4. ASSUME NEW i \in DOMAIN m.visible, NEW j \in DOMAIN m.visible,
                   Gpu(m, i) = Gpu(m, j)
            PROVE  i = j
        <4>1. m.visible[i] = m.visible[j]
          BY <3>2, <3>4
        <4> QED
          BY <3>3, <4>1
      <3> QED
        BY <2>3, <3>4
    <2> QED
      BY <2>4, <2>5
  <1>2. CASE ~Listed(m) /\ m.smi
    <2>1. /\ IsSequence(m.gpus)
          /\ \A i, j \in DOMAIN m.gpus : m.gpus[i] = m.gpus[j] => i = j
      BY DEF IsMachine
    <2>2. GpuCount(m) = Len(m.gpus) /\ \A i \in 1..GpuCount(m) : Gpu(m, i) = m.gpus[i]
      BY <1>2 DEF GpuCount, Gpu
    <2>3. GpuCount(m) \in Nat /\ DOMAIN m.gpus = 1..GpuCount(m)
      BY <2>1, <2>2, SequenceShape
    <2> QED
      BY <2>1, <2>2, <2>3
  <1>3. CASE ~Listed(m) /\ ~m.smi
    <2>1. GpuCount(m) = 0
      BY <1>3 DEF GpuCount
    <2> QED
      BY <2>1
  <1> QED
    BY <1>1, <1>2, <1>3

(* The profiles of a machine that is not refused: one per free core, and   *)
(* the first ones hold all the GPUs.                                       *)
LEMMA ProfilesDivide ==
    ASSUME NEW m, IsMachine(m), NEW limit \in Nat \cup {AutoLimit}, NEW reserve \in {0, 1},
           Refusals(m, limit, reserve) = {}
    PROVE  LET profiles == Profiles(m, limit, reserve)
               count == Len(profiles)
               gpus == UNION {profiles[i].gpu : i \in DOMAIN profiles}
           IN  /\ count \in Nat /\ DOMAIN profiles = 1..count
               /\ 2 * (count + reserve) <= HalfCores(m)
               /\ \A i \in DOMAIN profiles : 10 * count * profiles[i].memory_limit <= 8 * Memory(m)
               /\ count > 0 => Cardinality(gpus) = GpuCount(m)
               /\ reserve = 0 => count > 0
  <1> DEFINE profiles == Profiles(m, limit, reserve)
             c == WorkerCount(m, reserve)
             n == GpuCount(m)
             gpus == UNION {profiles[i].gpu : i \in DOMAIN profiles}
             Found == {Gpu(m, i) : i \in 1..n}
             Profile == [memory_limit : {Share(m, limit, reserve)}, gpu : SUBSET Found]
  <1>1. HalfCores(m) \in Nat
    BY MachineIsMeasured
  <1>2. AvailableCores(m) \in Nat /\ 2 * AvailableCores(m) <= HalfCores(m)
    BY <1>1, QuotientIsBelow DEF AvailableCores
  <1>3. /\ AvailableCores(m) >= 1 /\ ~GpusUnreadable(m)
        /\ ~(c > 0 /\ n > c)
    <2>1. \A r \in {"capacity", "gpus", "memory_limit", "cores", "too_many_gpus"} :
              r \notin Refusals(m, limit, reserve)
      OBVIOUS
    <2>2. ~GpusUnreadable(m)
      BY <2>1 DEF Refusals
    <2>3. ~(AvailableCores(m) < 1)
      BY <2>1 DEF Refusals
    <2>4. ~(c > 0 /\ n > c)
      BY <2>1 DEF Refusals
    <2> QED
      BY <1>2, <2>2, <2>3, <2>4
  <1>4. c \in Nat /\ c + reserve = AvailableCores(m) /\ (reserve = 0 => c > 0)
    BY <1>3, <1>2 DEF WorkerCount
  <1>5. n \in Nat /\ \A i, j \in 1..n : Gpu(m, i) = Gpu(m, j) => i = j
    BY <1>3, GpusAreDistinct
  <1>6. /\ profiles = [i \in 1..c |-> profiles[i]] /\ DOMAIN profiles = 1..c
        /\ \A i \in 1..c : /\ profiles[i].memory_limit = Share(m, limit, reserve)
                           /\ profiles[i].gpu = IF i <= n THEN {Gpu(m, i)} ELSE {}
    BY DEF Profiles
  <1>7. Len(profiles) = c
    <2> DEFINE Values == {profiles[i] : i \in 1..c}
    <2>1. profiles \in [1..c -> Values]
      BY <1>6
    <2>2. profiles \in Seq(Values)
      BY <1>4, <2>1, SeqDef
    <2> HIDE DEF Values, profiles
    <2> QED
      BY <1>4, <1>6, <2>2, LenProperties
  <1>8. \A i \in 1..c : 10 * c * profiles[i].memory_limit <= 8 * Memory(m)
    <2>1. c > 0 => 10 * c * Share(m, limit, reserve) <= 8 * Memory(m)
      BY <1>4, SharesAddUp
    <2>2. (1..c) # {} => c > 0
      BY <1>4
    <2> HIDE DEF profiles, c
    <2> QED
      BY <1>6, <2>1, <2>2
  <1>9. ASSUME c > 0
        PROVE  Cardinality(gpus) = n
    <2>1. n <= c
      BY <1>3, <1>4, <1>5, <1>9
    <2>2. gpus = Found
      <3> HIDE DEF profiles, c, n
      <3>1. \A i \in 1..n : i \in 1..c /\ i <= n
        BY <1>4, <1>5, <2>1
      <3>2. \A i \in 1..c : i <= n => i \in 1..n
        BY <1>4, <1>5
      <3>3. ASSUME NEW g \in gpus PROVE g \in Found
        <4>1. PICK i \in 1..c : g \in profiles[i].gpu
          BY <1>6, <3>3
        <4>2. i <= n /\ g = Gpu(m, i)
          BY <1>6, <4>1
        <4> QED
          BY <3>2, <4>2
      <3>4. ASSUME NEW g \in Found PROVE g \in gpus
        <4>1. PICK i \in 1..n : g = Gpu(m, i)
          BY <3>4
        <4>2. i \in DOMAIN profiles /\ g \in profiles[i].gpu
          BY <1>6, <3>1, <4>1
        <4> QED
          BY <4>2
      <3> QED
        BY <3>3, <3>4
    <2>3. Cardinality(Found) = n
      <3> DEFINE list == [i \in 1..n |-> Gpu(m, i)]
                 Indices == 1..n
      <3>1. Found = {Gpu(m, i) : i \in Indices}
        OBVIOUS
      <3> HIDE DEF n
      <3>2. IsFiniteSet(Indices) /\ Cardinality(Indices) = n
        BY <1>5, FS_Interval
      <3>3. list \in Bijection(1..n, Found)
        <4>1. list \in [Indices -> Found]
          BY <3>1
        <4>2. \A i, j \in Indices : list[i] = list[j] => i = j
          BY <1>5
        <4>3. \A g \in Found : \E i \in Indices : list[i] = g
          BY <3>1
        <4> HIDE DEF list, Found
        <4> QED
          BY <4>1, <4>2, <4>3 DEF Bijection, Injection, Surjection, IsInjective, Indices
      <3> HIDE DEF list, Found
      <3>4. ExistsBijection(1..n, Found)
        BY <3>3 DEF ExistsBijection
      <3> HIDE DEF Indices
      <3> QED
        BY <3>2, <3>4, FS_Bijection DEF Indices
    <2> QED
      BY <2>2, <2>3
  <1> HIDE DEF profiles, c, n
  <1> QED
    BY <1>1, <1>2, <1>4, <1>6, <1>7, <1>8, <1>9 DEF profiles, n

(* All shares together, from those of every worker.                        *)
LEMMA SharesFollow ==
    ASSUME AdmissionInv
    PROVE  SharesFitMachine
  <1> SUFFICES ASSUME NEW k \in DOMAIN node, node[k].is = "started"
      PROVE  IF ~Networked(jobs[k])
             THEN node[k].workers >= 1 /\ 2 * (node[k].workers + 1) <= HalfCores(node[k].machine)
             ELSE LET m == node[k].machine
                      profiles == node[k].profiles
                      count == Len(profiles)
                      gpus == UNION {profiles[i].gpu : i \in DOMAIN profiles}
                  IN  HasProfiles(jobs[k]) =>
                          /\ 2 * (count + Reserve(jobs[k])) <= HalfCores(m)
                          /\ \A share \in Planned(k) : 10 * count * share <= 8 * Memory(m)
                          /\ count > 0 => Cardinality(gpus) = GpuCount(m)
                          /\ k > 1 => count > 0
    BY DEF SharesFitMachine
  <1>1. PICK m \in Machines : node[k] = StartOf(jobs[k], m)
    BY JobFacts DEF Started, Blank
  <1>2. IsMachine(m)
    BY AdmissionAssumption
  <1>3. CASE ~Networked(jobs[k])
    <2>1. /\ node[k].machine = m /\ node[k].workers = LocalWorkers(m)
          /\ AloneRefusals(jobs[k], m) = {}
      BY <1>1, <1>3 DEF StartOf
    <2>2. LocalWorkers(m) >= 1
      <3>1. HalfCores(m) \in Nat
        BY <1>2, MachineIsMeasured
      <3>2. AvailableCores(m) \in Nat
        BY <3>1, QuotientIsBelow DEF AvailableCores
      <3>3. ~(LocalWorkers(m) < 1)
        BY <2>1 DEF AloneRefusals
      <3> QED
        BY <3>2, <3>3 DEF LocalWorkers
    <2>3. 2 * (LocalWorkers(m) + 1) <= HalfCores(m)
      <3>1. HalfCores(m) \in Nat
        BY <1>2, MachineIsMeasured
      <3>2. AvailableCores(m) \in Nat /\ 2 * AvailableCores(m) <= HalfCores(m)
        BY <3>1, QuotientIsBelow DEF AvailableCores
      <3> QED
        BY <3>1, <3>2 DEF LocalWorkers
    <2> QED
      BY <1>3, <2>1, <2>2, <2>3
  <1>4. CASE Networked(jobs[k]) /\ HasProfiles(jobs[k])
    <2> DEFINE limit == jobs[k].spec.memory_limit
               reserve == Reserve(jobs[k])
               profiles == Profiles(m, limit, reserve)
               count == Len(profiles)
               gpus == UNION {profiles[i].gpu : i \in DOMAIN profiles}
    <2>1. /\ Launching /\ jobs[k] = Bought(k) /\ IsInput(in)
          /\ k \in 1..Len(jobs) /\ Len(jobs) \in Nat
      BY <1>4, JobFacts
    <2>2. Complaints(jobs[k], m) = {} /\ node[k].machine = m /\ node[k].profiles = profiles
      BY <1>1, <1>4 DEF StartOf, Ready
    <2>3. Refusals(m, limit, reserve) = {}
      <3>1. env = "ready"
        BY <2>2 DEF Complaints
      <3> QED
        BY <1>4, <2>2, <3>1 DEF Complaints
    <2>4. limit \in Nat \cup {AutoLimit}
      BY <2>1 DEF Bought, Command, IsInput
    <2>5. reserve \in {0, 1} /\ (k > 1 => reserve = 0)
      BY <2>1 DEF Reserve, Flag, Bought
    <2> HIDE DEF limit, reserve
    <2>6. /\ 2 * (count + reserve) <= HalfCores(m)
          /\ \A i \in DOMAIN profiles : 10 * count * profiles[i].memory_limit <= 8 * Memory(m)
          /\ count > 0 => Cardinality(gpus) = GpuCount(m)
          /\ reserve = 0 => count > 0
      BY <1>2, <2>3, <2>4, <2>5, ProfilesDivide
    <2> HIDE DEF profiles
    <2>7. \A share \in Planned(k) : 10 * count * share <= 8 * Memory(m)
      BY <2>2, <2>6 DEF Planned
    <2> QED
      BY <1>4, <2>2, <2>5, <2>6, <2>7 DEF reserve
  <1>5. CASE Networked(jobs[k]) /\ ~HasProfiles(jobs[k])
    BY <1>5
  <1> QED
    BY <1>3, <1>4, <1>5

-----------------------------------------------------------------------------
(* A refusal of a plan names a check that load_cluster has made already.   *)
LEMMA YamlStep ==
    ASSUME AdmissionInv, [Next]_vars
    PROVE  [YamlLaunches]_vars
  <1> SUFFICES ASSUME Next, phase = "plan", FromYaml(in), phase' = "refused"
               PROVE  FALSE
    BY DEF YamlLaunches
  <1>1. IsInput(in)
    BY AdmissionAssumption DEF AdmissionInv, Stages
  <1>2. PlanRefused \/ AloneRefused
    BY DEF Next, LauncherNext, ValidatePackage, PackageAccepted, PackageRefused, PlanAccepted,
           Submit, SubmitAlone, NodeNext, NodeRefuses, NodeStarts, AloneRefuses, AloneStarts, Begins
  <1>3. ~Alone(in)
    BY DEF Alone, FromYaml
  <1>4. /\ ~Grouped(in) /\ in.workers \in Int
        /\ in.workers - Flag(in.scheduler_worker) \in 1..(MaxJobs - 1)
        /\ Flag(in.scheduler_worker) \in {0, 1}
        /\ ~in.persistent /\ in.entrypoint
    BY <1>1 DEF FromYaml, Grouped, IsInput, Flag
  <1>5. in.workers >= 1 /\ NodeCount(in) <= MaxJobs
    BY <1>4, LaunchPlanAssumption DEF NodeCount, RemoteCount
  <1>6. ValidPlan(in) /\ RunConfigValid(Command(in))
    BY <1>4, <1>5 DEF ValidPlan, FieldsValid, OnePlacementPolicy, WithinJobLimit,
                      WorkloadFitsMode, RunConfigValid, Command
  <1> QED
    BY <1>2, <1>3, <1>6 DEF PlanRefused, AloneRefused

-----------------------------------------------------------------------------
(* The shape of a launch's state: no more Jobs than MaxJobs are ever paid  *)
(* for, and every one of them has its start.                               *)
THEOREM AdmissionIsWellTyped == Spec => []AdmissionTypeOK
  BY AdmissionInvariance, TypesFollow, PTL

(* PackagePlan's verdict is right also as one phase of a launch, and of    *)
(* the project that this launch packs.                                     *)
THEOREM LaunchVerdictsAreRight == Spec => []VerdictIsRight
  BY AdmissionInvariance, VerdictStands, PTL

(* What LaunchPlan accepts every node's runner accepts, and what           *)
(* PackagePlan accepts lacks hfdask only if --no-dev drops a requested     *)
(* dev: a paid node stops over its machine, or over what uv is the first   *)
(* to find out.                                                            *)
THEOREM NodesStopOnlyOverMachines == Spec => []PaidNodesStart
  BY AdmissionInvariance, PaidNodesFollow, PTL

(* node_flavors, node_tags and the index of the submission loop agree for  *)
(* every list of worker groups.                                            *)
THEOREM RostersAreAligned == Spec => []RosterIsAligned
  BY AdmissionInvariance, RosterFollows, PTL

(* worker_profiles never divides more than the machine has, on any machine.*)
THEOREM SharesFit == Spec => []SharesFitMachine
  BY AdmissionInvariance, SharesFollow, PTL

(* What load_cluster accepts, LaunchPlan accepts.                          *)
THEOREM YamlIsAccepted == Spec => YamlIsNeverRefused
  BY AdmissionInvariance, YamlStep, PTL DEF Spec, YamlIsNeverRefused
=============================================================================
