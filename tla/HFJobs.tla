------------------------------- MODULE HFJobs -------------------------------
(***************************************************************************)
(* The Hugging Face Jobs service as one cluster of hfdask sees it, and the *)
(* three calls hfdask makes to it: run_job (cluster.py), inspect_job and   *)
(* cancel_job (jobs.py, Job.status and Job.cancel).                        *)
(*                                                                         *)
(* The service is not in the repository.  Its behaviour is the weakest one *)
(* the code relies on: a created Job runs until the service ends it, for   *)
(* whatever reason; a terminal stage is final; an accepted cancellation    *)
(* takes effect later, if the Job has not ended by itself by then.         *)
(*                                                                         *)
(* A Job id is the Job's position in the order of creation, so every call  *)
(* that creates a Job yields a fresh one, whatever its label says.         *)
(***************************************************************************)
EXTENDS Naturals, Sequences

VARIABLES
    stage,   \* stage[id]: the stage inspect_job reports for Job id
    label,   \* label[id]: the "hfdask-node" label the Job was created with
    doomed   \* the ids whose cancellation the service has accepted

hfVars == <<stage, label, doomed>>

(* jobs.py:32 -- the stages after which hfdask takes a Job for released.   *)
TERMINAL == {"COMPLETED", "ERROR", "CANCELED", "DELETED"}

ACTIVE == {"PENDING", "RUNNING"}

Created == DOMAIN stage

Live == {id \in Created : stage[id] \notin TERMINAL}

HFTypeOK ==
    /\ stage \in Seq(ACTIVE \cup TERMINAL)
    /\ label \in Seq(Nat)
    /\ Len(label) = Len(stage)
    /\ doomed \subseteq Created

HFInit == stage = <<>> /\ label = <<>> /\ doomed = {}

-----------------------------------------------------------------------------
(* What the service does by itself.                                        *)

Start(id) ==
    /\ stage[id] = "PENDING"
    /\ stage' = [stage EXCEPT ![id] = "RUNNING"]
    /\ UNCHANGED <<label, doomed>>

(* Success, failure, the lifetime passed as timeout=, another client, ...  *)
End(id, s) ==
    /\ id \in Live
    /\ s = "COMPLETED" => stage[id] = "RUNNING"
    /\ stage' = [stage EXCEPT ![id] = s]
    /\ UNCHANGED <<label, doomed>>

CancelTakesEffect(id) ==
    /\ id \in Live \cap doomed
    /\ stage' = [stage EXCEPT ![id] = "CANCELED"]
    /\ UNCHANGED <<label, doomed>>

HFNext ==
    \E id \in Created :
        \/ Start(id)
        \/ \E s \in TERMINAL : End(id, s)
        \/ CancelTakesEffect(id)

-----------------------------------------------------------------------------
(* What hfdask asks of it.                                                 *)

RunJob(node) ==
    /\ stage' = Append(stage, "PENDING")
    /\ label' = Append(label, node)
    /\ UNCHANGED doomed

(* Job.cancel: the request reaches the service or it does not.  Whether it *)
(* also raised is not modelled: Cluster.cancel swallows the exception and  *)
(* Cluster.close drops the list of failures, so nothing depends on it.     *)
CancelJob(id, reached) ==
    /\ doomed' = IF reached THEN doomed \cup {id} ELSE doomed
    /\ UNCHANGED <<stage, label>>
=============================================================================
