-------------------------- MODULE DependencyGroups --------------------------
(***************************************************************************)
(* PackagePlan.require_locked_runner_dependency (config.py): the worklist  *)
(* over pyproject's dependency groups, which decides before any Job is     *)
(* paid for whether they will find hfdask in their environment; and what   *)
(* `uv sync --locked --no-dev --group ...` (bootstrap.py) then installs.   *)
(* The second differs from the first: --no-dev leaves out the group named  *)
(* dev also when it is asked for by name.                                  *)
(*                                                                         *)
(* Groups include groups, in any shape, cycles and undeclared names too.   *)
(* `pending` is a list in the code; which group is popped, and whether one *)
(* is in it twice, makes no difference to what is selected, so here it is  *)
(* a set and any member may be next.                                       *)
(***************************************************************************)
EXTENDS FiniteSets

CONSTANTS
    Groups,   \* the names that a project or a configuration can mention
    Dev,      \* the group that uv's --no-dev means: "dev"
    Projects  \* what pyproject.toml can say, each an IsProject

(* declared: the keys of [dependency-groups]; includes: the names each of  *)
(* them mentions as include-group; provides: those with a requirement on   *)
(* hfdask; base: the project is hfdask, or its own dependencies name it.   *)
IsProject(p) ==
    /\ p.declared \subseteq Groups
    /\ p.includes \in [p.declared -> SUBSET Groups]
    /\ p.provides \subseteq p.declared
    /\ p.base \in BOOLEAN

ASSUME GroupsAssumption == \A p \in Projects : IsProject(p)

VARIABLES
    project,    \* the parsed pyproject.toml
    requested,  \* environment.groups
    pending, selected,
    found,      \* some requirement collected so far names hfdask
    verdict     \* "open", or how the validation ended

groupVars == <<project, requested, pending, selected, found, verdict>>

GroupsTypeOK ==
    /\ IsProject(project)
    /\ requested \subseteq Groups
    /\ pending \subseteq Groups
    /\ selected \subseteq project.declared
    /\ found \in BOOLEAN
    /\ verdict \in {"open", "accepted", "undeclared", "missing"}

GroupsInit ==
    /\ project \in Projects
    /\ requested \in SUBSET Groups
    /\ pending = requested
    /\ selected = {}
    /\ found = project.base
    /\ verdict = "open"

-----------------------------------------------------------------------------
(* while pending: group = pending.pop()                                    *)

(* Fault: a group is not recognised when it is popped again.               *)
PopSelectedAgain(g) ==
    /\ verdict = "open" /\ g \in pending \cap selected
    /\ pending' = pending \cup project.includes[g]
    /\ UNCHANGED <<project, requested, selected, found, verdict>>

PopSelected(g) ==
    /\ verdict = "open" /\ g \in pending \cap selected
    /\ pending' = pending \ {g}
    /\ UNCHANGED <<project, requested, selected, found, verdict>>

PopUndeclared(g) ==
    /\ verdict = "open" /\ g \in pending \ project.declared
    /\ pending' = pending \ {g}
    /\ verdict' = "undeclared"
    /\ UNCHANGED <<project, requested, selected, found>>

(* Fault: included groups are looked at one level deep.                    *)
PopGroupOneLevel(g) ==
    /\ verdict = "open" /\ g \in (pending \cap project.declared) \ selected
    /\ selected' = selected \cup {g}
    /\ pending' = (pending \ {g}) \cup (IF g \in requested THEN project.includes[g] ELSE {})
    /\ found' = (found \/ g \in project.provides)
    /\ UNCHANGED <<project, requested, verdict>>

(* A group is popped, and what it includes is pushed.                      *)
PopGroup(g) ==
    /\ verdict = "open" /\ g \in (pending \cap project.declared) \ selected
    /\ selected' = selected \cup {g}
    /\ pending' = (pending \ {g}) \cup project.includes[g]
    /\ found' = (found \/ g \in project.provides)
    /\ UNCHANGED <<project, requested, verdict>>

(* Fault: hfdask may be in any group, requested or not.                    *)
DecideOverAllGroups ==
    /\ verdict = "open" /\ pending = {}
    /\ verdict' = IF found \/ project.provides # {} THEN "accepted" ELSE "missing"
    /\ UNCHANGED <<project, requested, pending, selected, found>>

Decide ==
    /\ verdict = "open" /\ pending = {}
    /\ verdict' = IF found THEN "accepted" ELSE "missing"
    /\ UNCHANGED <<project, requested, pending, selected, found>>

GroupsNext ==
    \/ \E g \in Groups : PopSelected(g) \/ PopUndeclared(g) \/ PopGroup(g)
    \/ Decide

GroupsSpec == GroupsInit /\ [][GroupsNext]_groupVars

-----------------------------------------------------------------------------
(* R and all groups that they include, directly or not.                    *)
Closed(R, S) ==
    /\ R \subseteq S
    /\ \A g \in S \cap project.declared : project.includes[g] \subseteq S

Reach(R) == {g \in Groups : \A S \in SUBSET Groups : Closed(R, S) => g \in S}

(* What the worklist has to look at, and what it looks for there.          *)
Closure == Reach(requested)

RunnerRequired == project.base \/ Closure \cap project.provides # {}

(* What uv does with the project on a node.  It refuses groups that        *)
(* include themselves or include an undeclared one, wherever they are, and *)
(* a requested group named dev is not synced, unless another includes it.  *)
GroupsAreSound ==
    \A g \in project.declared :
        /\ project.includes[g] \subseteq project.declared
        /\ g \notin Reach(project.includes[g])

Synced == Reach(requested \ {Dev})

RunnerSynced == project.base \/ Synced \cap project.provides # {}

DevLeftOut == Dev \in requested \ Synced

(* Accepted means that the environment uv syncs contains hfdask ("the      *)
(* runner must use the same locked environment"), unless --no-dev leaves   *)
(* out a requested dev, and that all groups it takes are declared; and a   *)
(* project is refused for an undeclared group or for lacking hfdask only   *)
(* if what was requested really mentions or lacks it.                      *)
VerdictIsRight ==
    /\ verdict = "accepted" =>
          /\ RunnerSynced \/ DevLeftOut
          /\ Closure \subseteq project.declared
    /\ verdict = "undeclared" => ~(Closure \subseteq project.declared)
    /\ verdict = "missing" => ~RunnerRequired

-----------------------------------------------------------------------------
(* Why it is right: nothing outside the closure is ever looked at, and     *)
(* what has been selected has had its inclusions pushed.                   *)
Frontier == pending \cup selected

WorklistInv ==
    /\ Frontier \subseteq Closure
    /\ verdict # "undeclared" =>
          /\ requested \subseteq Frontier
          /\ \A g \in selected : project.includes[g] \subseteq Frontier
    /\ verdict = "undeclared" => ~(Closure \subseteq project.declared)
    /\ found <=> project.base \/ selected \cap project.provides # {}
    /\ verdict = "accepted" => pending = {} /\ found
    /\ verdict = "missing" => pending = {} /\ ~found
=============================================================================
