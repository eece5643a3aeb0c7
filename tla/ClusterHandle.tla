---------------------------- MODULE ClusterHandle ----------------------------
(***************************************************************************)
(* The handle of src/hfdask/cluster.py: Cluster.wait, Cluster.close and    *)
(* Cluster.cancel, run by the one thread of a launching or recovering      *)
(* process against the service of HFJobs.                                  *)
(*                                                                         *)
(* close() is called from three places; caller says from which, and pc     *)
(* holds how the call ended: "closed" or "raised" (close), "waited" (wait  *)
(* returned COMPLETED).  What happens next is the calling module's affair. *)
(* time.monotonic() is abstracted to late: whether the deadline of the     *)
(* loop being run has passed.  Sleeping changes nothing in the model.      *)
(***************************************************************************)
EXTENDS HFJobs

VARIABLES
    pc,      \* what the process does next
    jobs,    \* Cluster.jobs: known Job ids in launch order, scheduler first
    caller,  \* who called the method being run: "wait", "handler", "recovery"
    idx,     \* position in jobs of the loop being run (cancel, any(...))
    late,    \* the deadline of the loop being run has passed
    seen     \* Cluster.wait: the terminal stage read from the driver

loopVars == <<caller, idx, late, seen>>
handleVars == <<pc, jobs, loopVars>>

HandleTypeOK ==
    /\ jobs \in Seq(Created)
    /\ caller \in {"wait", "handler", "recovery"}
    /\ idx \in Nat \ {0}
    /\ late \in BOOLEAN
    /\ seen \in TERMINAL

Terminal(id) == stage[id] \in TERMINAL

(* Fault: the first handle, the scheduler's, is not cancelled.             *)
EnterCloseSkipsFirst(c) ==
    /\ pc' = "cancel"
    /\ caller' = c
    /\ idx' = 2
    /\ late' = FALSE

EnterClose(c) ==
    /\ pc' = "cancel"
    /\ caller' = c
    /\ idx' = 1
    /\ late' = FALSE

-----------------------------------------------------------------------------
(* Cluster.close: one cancellation each, then poll until all are terminal. *)

CancelNext ==
    /\ pc = "cancel" /\ idx <= Len(jobs)
    /\ \E reached \in BOOLEAN : CancelJob(jobs[idx], reached)
    /\ idx' = idx + 1
    /\ UNCHANGED <<pc, jobs, caller, late, seen>>

CancelsSent ==
    /\ pc = "cancel" /\ idx > Len(jobs)
    /\ pc' = "poll"
    /\ idx' = 1
    /\ late' = FALSE
    /\ UNCHANGED <<hfVars, jobs, caller, seen>>

PollTerminal ==
    /\ pc = "poll" /\ idx <= Len(jobs)
    /\ Terminal(jobs[idx])
    /\ idx' = idx + 1
    /\ UNCHANGED <<hfVars, pc, jobs, caller, late, seen>>

(* Fault: the deadline ends the loop as if everything had been verified.   *)
PollActiveGivesUp ==
    /\ pc = "poll" /\ idx <= Len(jobs)
    /\ ~Terminal(jobs[idx])
    /\ IF late THEN pc' = "closed" /\ UNCHANGED idx
               ELSE idx' = 1 /\ UNCHANGED pc
    /\ UNCHANGED <<hfVars, jobs, caller, late, seen>>

(* Fault: the deadline is computed anew in every round.                    *)
PollActiveForever ==
    /\ pc = "poll" /\ idx <= Len(jobs)
    /\ ~Terminal(jobs[idx])
    /\ idx' = 1 /\ late' = FALSE
    /\ UNCHANGED <<hfVars, pc, jobs, caller, seen>>

(* any() stops at the first Job that is not terminal; the next round       *)
(* starts again from the first.                                            *)
PollActive ==
    /\ pc = "poll" /\ idx <= Len(jobs)
    /\ ~Terminal(jobs[idx])
    /\ IF late THEN pc' = "raised" /\ UNCHANGED idx
               ELSE idx' = 1 /\ UNCHANGED pc
    /\ UNCHANGED <<hfVars, jobs, caller, late, seen>>

PollFails ==
    /\ pc = "poll" /\ idx <= Len(jobs)
    /\ pc' = "raised"
    /\ UNCHANGED <<hfVars, jobs, loopVars>>

PollDone ==
    /\ pc = "poll" /\ idx > Len(jobs)
    /\ pc' = "closed"
    /\ UNCHANGED <<hfVars, jobs, loopVars>>

-----------------------------------------------------------------------------
(* Cluster.wait: poll the scheduler Job, then close and report its stage.  *)

(* Fault: a completed driver is taken to have released its workers.        *)
WaitTerminalSkipsClose ==
    /\ pc = "wait"
    /\ Terminal(jobs[1])
    /\ seen' = stage[jobs[1]]
    /\ pc' = "closed"
    /\ UNCHANGED <<hfVars, jobs, caller, idx, late>>

WaitTerminal ==
    /\ pc = "wait"
    /\ Terminal(jobs[1])
    /\ seen' = stage[jobs[1]]
    /\ EnterClose("wait")
    /\ UNCHANGED <<hfVars, jobs>>

(* Fault: the deadline is computed anew in every round.                    *)
WaitExpiresNever ==
    /\ pc = "wait" /\ late
    /\ ~Terminal(jobs[1])
    /\ late' = FALSE
    /\ UNCHANGED <<hfVars, pc, jobs, caller, idx, seen>>

WaitExpires ==
    /\ pc = "wait" /\ late
    /\ ~Terminal(jobs[1])
    /\ pc' = "raised"
    /\ UNCHANGED <<hfVars, jobs, loopVars>>

WaitFails ==
    /\ pc = "wait"
    /\ pc' = "raised"
    /\ UNCHANGED <<hfVars, jobs, loopVars>>

WaitVerdict ==
    /\ pc = "closed" /\ caller = "wait"
    /\ pc' = IF seen = "COMPLETED" THEN "waited" ELSE "raised"
    /\ UNCHANGED <<hfVars, jobs, loopVars>>

-----------------------------------------------------------------------------
DeadlinePasses ==
    /\ pc \in {"wait", "poll"} /\ ~late
    /\ late' = TRUE
    /\ UNCHANGED <<hfVars, pc, jobs, caller, idx, seen>>

CloseNext ==
    \/ CancelNext \/ CancelsSent
    \/ PollTerminal \/ PollActive \/ PollDone

WaitNext == WaitTerminal \/ WaitExpires \/ WaitVerdict

(* A status call that raises ends wait and close.  It may happen at any    *)
(* read; nothing makes it happen.                                          *)
CallFails == PollFails \/ WaitFails
=============================================================================
