------------------------------ MODULE Launcher ------------------------------
(***************************************************************************)
(* `hfdask run`: cli.main with submit_cluster and save_manifest, the       *)
(* manifest file it leaves on disk, and the recovery the README describes, *)
(* Cluster.from_manifest(...).close(), by a later process.                 *)
(*                                                                         *)
(* Every paid Job costs money until it is terminal, so the questions are:  *)
(* which Jobs can be running that nothing on disk or on the terminal       *)
(* names, and when does the program claim, by its exit code or by its      *)
(* silence, that capacity was released?                                    *)
(*                                                                         *)
(* The process is one thread.  Besides its own steps it meets: calls that  *)
(* fail, a submission whose answer is lost, the service's own steps, a     *)
(* KeyboardInterrupt between any two steps, and a kill.                    *)
(***************************************************************************)
EXTENDS ClusterHandle, Functions

CONSTANTS
    NodeCount,             \* LaunchPlan.node_count
    MaxInterrupts,         \* bound: KeyboardInterrupts in one run
    HandlersInterruptible  \* may one arrive while an exception is handled?

ASSUME LauncherAssumption ==
    /\ NodeCount \in Nat \ {0}
    /\ MaxInterrupts \in Nat
    /\ HandlersInterruptible \in BOOLEAN

VARIABLES
    manifest,    \* the file at --manifest: what it is and the ids it records
    bound,       \* main's local `cluster` is not None
    error,       \* the exception main handles: "none", "failure", "interrupt"
    isLaunch,    \* it is a LaunchError, whose text asks to inspect labels
    printed,     \* the handles printed because the manifest was not written
    warned,      \* "Cleanup unverified" was printed
    exit,        \* how the process ended, "none" while it has not
    interrupts   \* KeyboardInterrupts so far

mainVars == <<bound, error, isLaunch, printed, warned, exit, interrupts>>
vars == <<hfVars, handleVars, manifest, mainVars>>

-----------------------------------------------------------------------------
(* Control points.  submit_cluster catches what arrives at SubmitPoints;   *)
(* HandlerPoints are inside an except clause of submit_cluster or main,    *)
(* where nothing catches a KeyboardInterrupt.                              *)

SubmitPoints == {"run_job", "append", "save"}
TryPoints == {"load", "open", "prepare", "bind", "wait", "waited"}
HandlerPoints == {"launch_error", "handler", "handler_save"}
ClosePoints == {"cancel", "poll", "closed", "raised"}
OverPoints == {"over", "released", "unverified"}

PC == SubmitPoints \cup TryPoints \cup HandlerPoints \cup ClosePoints \cup OverPoints

InMain == exit = "none"
Handling == pc \in HandlerPoints \/ (pc \in ClosePoints /\ caller = "handler")

Known == Range(jobs)
Recorded == Range(manifest.jobs)

ManifestKinds == {"absent", "other", "blank", "saved"}

MainTypeOK ==
    /\ pc \in PC
    /\ bound \in BOOLEAN
    /\ error \in {"none", "failure", "interrupt"}
    /\ isLaunch \in BOOLEAN
    /\ printed \subseteq Created
    /\ warned \in BOOLEAN
    /\ exit \in {"none", "0", "1", "130", "uncaught", "killed"}
    /\ interrupts \in 0..MaxInterrupts

TypeOK ==
    /\ HFTypeOK
    /\ HandleTypeOK
    /\ manifest \in [kind : ManifestKinds, jobs : Seq(Created)]
    /\ MainTypeOK

Init ==
    /\ HFInit
    /\ pc = "load"
    /\ jobs = <<>> /\ caller = "wait" /\ idx = 1 /\ late = FALSE
    /\ seen = "ERROR"
    /\ \E k \in {"absent", "other"} : manifest = [kind |-> k, jobs |-> <<>>]
    /\ bound = FALSE /\ error = "none" /\ isLaunch = FALSE
    /\ printed = {} /\ warned = FALSE /\ exit = "none" /\ interrupts = 0

-----------------------------------------------------------------------------
(* main up to submit_cluster: any step may fail, with nothing bound.       *)

Raise(e) ==
    /\ pc' = "handler"
    /\ error' = e
    /\ UNCHANGED <<printed, warned, exit, interrupts>>

LoadCluster ==
    /\ pc = "load"
    /\ pc' = "open"
    /\ UNCHANGED <<hfVars, jobs, loopVars, manifest, mainVars>>

(* Fault: open("w").                                                       *)
CreateManifestTruncates == manifest' = [kind |-> "blank", jobs |-> <<>>]

(* manifest.open("x"): an existing file is an error and is left alone.     *)
CreateManifest ==
    /\ manifest.kind = "absent"
    /\ manifest' = [kind |-> "blank", jobs |-> <<>>]

OpenManifest ==
    /\ pc = "open"
    /\ CreateManifest
    /\ pc' = "prepare"
    /\ UNCHANGED <<hfVars, jobs, loopVars, mainVars>>

(* HfApi(), prepare_spec, LaunchPlan, issue_credentials.                   *)
Prepare ==
    /\ pc = "prepare"
    /\ pc' = "run_job"
    /\ UNCHANGED <<hfVars, jobs, loopVars, manifest, mainVars>>

(* A failing write leaves the file open("x") created, unfinished.          *)
SetupFails ==
    /\ pc \in {"load", "open", "prepare"}
    /\ \/ UNCHANGED manifest
       \/ pc = "open" /\ CreateManifest
    /\ Raise("failure")
    /\ UNCHANGED <<hfVars, jobs, loopVars, bound, isLaunch>>

-----------------------------------------------------------------------------
(* submit_cluster's loop: run_job, cluster.jobs.append, on_submitted.      *)

(* except (Exception, KeyboardInterrupt) as error: raise LaunchError       *)
RaiseLaunchError(e) ==
    /\ pc' = "launch_error"
    /\ error' = e
    /\ isLaunch' = TRUE
    /\ UNCHANGED <<bound, printed, warned, exit>>

SubmitJob ==
    /\ pc = "run_job"
    /\ RunJob(Len(jobs))
    /\ pc' = "append"
    /\ UNCHANGED <<jobs, loopVars, manifest, mainVars>>

(* Fault: a failed submission is tried again.                              *)
SubmitFailsRetries ==
    /\ pc = "run_job"
    /\ RunJob(Len(jobs))
    /\ UNCHANGED <<handleVars, manifest, mainVars>>

(* The request is refused, or carried out and its answer lost.             *)
SubmitFails ==
    /\ pc = "run_job"
    /\ RunJob(Len(jobs)) \/ UNCHANGED hfVars
    /\ RaiseLaunchError("failure")
    /\ UNCHANGED <<jobs, loopVars, manifest, interrupts>>

(* Fault: a handle is kept for a Job that was not created.                 *)
AppendHandleOffByOne ==
    /\ pc = "append"
    /\ jobs' = Append(jobs, Len(stage) + 1)
    /\ pc' = "save"
    /\ UNCHANGED <<hfVars, loopVars, manifest, mainVars>>

AppendHandle ==
    /\ pc = "append"
    /\ jobs' = Append(jobs, Len(stage))
    /\ pc' = "save"
    /\ UNCHANGED <<hfVars, loopVars, manifest, mainVars>>

(* save_manifest: the old file or the new one, never a mixture.            *)
ReplaceManifest == manifest' = [kind |-> "saved", jobs |-> jobs]

(* Fault: the manifest is written once, when all Jobs are submitted.       *)
SaveManifestAtEnd ==
    /\ pc = "save"
    /\ IF Len(jobs) < NodeCount THEN UNCHANGED manifest ELSE ReplaceManifest
    /\ pc' = IF Len(jobs) < NodeCount THEN "run_job" ELSE "bind"
    /\ UNCHANGED <<hfVars, jobs, loopVars, mainVars>>

SaveManifest ==
    /\ pc = "save"
    /\ ReplaceManifest
    /\ pc' = IF Len(jobs) < NodeCount THEN "run_job" ELSE "bind"
    /\ UNCHANGED <<hfVars, jobs, loopVars, mainVars>>

SaveFails ==
    /\ pc = "save"
    /\ ReplaceManifest \/ UNCHANGED manifest
    /\ RaiseLaunchError("failure")
    /\ UNCHANGED <<hfVars, jobs, loopVars, interrupts>>

-----------------------------------------------------------------------------
(* Back in main: `cluster` is bound, by the return or from the exception.  *)

BindCluster ==
    /\ pc = "bind"
    /\ bound' = TRUE
    /\ pc' = "wait"
    /\ caller' = "wait"
    /\ late' = FALSE
    /\ UNCHANGED <<hfVars, jobs, idx, seen, manifest, error, isLaunch, printed, warned, exit, interrupts>>

CatchLaunchError ==
    /\ pc = "launch_error"
    /\ bound' = TRUE
    /\ pc' = "handler"
    /\ UNCHANGED <<hfVars, jobs, loopVars, manifest, error, isLaunch, printed, warned, exit, interrupts>>

WaitRaises ==
    /\ pc = "raised" /\ caller = "wait"
    /\ Raise("failure")
    /\ UNCHANGED <<hfVars, jobs, loopVars, manifest, bound, isLaunch>>

Finish(code) ==
    /\ pc' = "over"
    /\ exit' = code
    /\ UNCHANGED <<bound, error, isLaunch, printed, interrupts>>

ReturnZero ==
    /\ pc = "waited"
    /\ Finish("0")
    /\ UNCHANGED <<hfVars, jobs, loopVars, manifest, warned>>

-----------------------------------------------------------------------------
(* main's except clause: save, close, exit code.                           *)

ExitCode == IF error = "interrupt" THEN "130" ELSE "1"

HandleBound ==
    /\ pc = "handler" /\ bound
    /\ pc' = "handler_save"
    /\ UNCHANGED <<hfVars, jobs, loopVars, manifest, mainVars>>

HandleUnbound ==
    /\ pc = "handler" /\ ~bound
    /\ Finish(ExitCode)
    /\ UNCHANGED <<hfVars, jobs, loopVars, manifest, warned>>

HandlerSaves ==
    /\ pc = "handler_save"
    /\ ReplaceManifest
    /\ EnterClose("handler")
    /\ UNCHANGED <<hfVars, jobs, seen, mainVars>>

(* Fault: a failing save is ignored, the handles are not printed.          *)
HandlerSaveFailsSilently ==
    /\ pc = "handler_save"
    /\ UNCHANGED manifest
    /\ EnterClose("handler")
    /\ UNCHANGED <<hfVars, jobs, seen, mainVars>>

(* Fault: a failing save ends the handler before it closes the cluster.    *)
HandlerSaveFailsStops ==
    /\ pc = "handler_save"
    /\ printed' = Known
    /\ pc' = "over"
    /\ exit' = ExitCode
    /\ UNCHANGED <<hfVars, jobs, loopVars, manifest, bound, error, isLaunch, warned, interrupts>>

HandlerSaveFails ==
    /\ pc = "handler_save"
    /\ ReplaceManifest \/ UNCHANGED manifest
    /\ printed' = Known
    /\ EnterClose("handler")
    /\ UNCHANGED <<hfVars, jobs, seen, bound, error, isLaunch, warned, exit, interrupts>>

HandlerCloses ==
    /\ pc \in {"closed", "raised"} /\ caller = "handler"
    /\ warned' = (pc = "raised")
    /\ Finish(ExitCode)
    /\ UNCHANGED <<hfVars, jobs, loopVars, manifest>>

-----------------------------------------------------------------------------
(* KeyboardInterrupt.  What it cuts short may or may not have happened:    *)
(* the request being sent, the file being replaced.                        *)

Interrupted ==
    /\ InMain
    /\ interrupts < MaxInterrupts
    /\ interrupts' = interrupts + 1

InterruptSubmit ==
    /\ Interrupted
    /\ pc \in SubmitPoints
    /\ UNCHANGED hfVars \/ (pc = "run_job" /\ RunJob(Len(jobs)))
    /\ UNCHANGED manifest \/ (pc = "save" /\ ReplaceManifest)
    /\ RaiseLaunchError("interrupt")
    /\ UNCHANGED <<jobs, loopVars>>

InterruptTry ==
    /\ Interrupted
    /\ pc \in TryPoints \/ (pc \in ClosePoints /\ caller = "wait")
    /\ pc' = "handler"
    /\ error' = "interrupt"
    /\ UNCHANGED <<hfVars, jobs, loopVars, manifest, bound, isLaunch, printed, warned, exit>>

(* While submit_cluster builds the LaunchError, before main binds it.      *)
InterruptLaunchError ==
    /\ Interrupted /\ HandlersInterruptible
    /\ pc = "launch_error"
    /\ pc' = "handler"
    /\ error' = "interrupt"
    /\ isLaunch' = FALSE
    /\ UNCHANGED <<hfVars, jobs, loopVars, manifest, bound, printed, warned, exit>>

(* In main's except clause: it leaves main, and the process, with it.      *)
InterruptHandler ==
    /\ Interrupted /\ HandlersInterruptible
    /\ Handling /\ pc # "launch_error"
    /\ UNCHANGED manifest \/ (pc = "handler_save" /\ ReplaceManifest)
    /\ pc' = "over"
    /\ exit' = "uncaught"
    /\ UNCHANGED <<hfVars, jobs, loopVars, bound, error, isLaunch, printed, warned>>

Kill ==
    /\ InMain
    /\ pc' = "over"
    /\ exit' = "killed"
    /\ UNCHANGED <<hfVars, jobs, loopVars, manifest, bound, error, isLaunch, printed, warned, interrupts>>

-----------------------------------------------------------------------------
(* Recovery: a new process reads the manifest and closes what it names.    *)
(* A blank manifest has no "cluster_id" and restores nothing.              *)

Recover ==
    /\ pc \in {"over", "unverified"} /\ exit # "0"
    /\ manifest.kind = "saved"
    /\ jobs' = manifest.jobs
    /\ EnterClose("recovery")
    /\ UNCHANGED <<hfVars, seen, manifest, mainVars>>

RecoveryEnds ==
    /\ pc \in {"closed", "raised"} /\ caller = "recovery"
    /\ pc' = IF pc = "closed" THEN "released" ELSE "unverified"
    /\ UNCHANGED <<hfVars, jobs, loopVars, manifest, mainVars>>

-----------------------------------------------------------------------------
Handle == CloseNext \/ WaitNext \/ CallFails

SetupNext == LoadCluster \/ OpenManifest \/ Prepare \/ SetupFails
SubmitNext == SubmitJob \/ SubmitFails \/ AppendHandle \/ SaveManifest \/ SaveFails
ReturnNext == BindCluster \/ CatchLaunchError \/ WaitRaises \/ ReturnZero
HandlerNext ==
    \/ HandleBound \/ HandleUnbound
    \/ HandlerSaves \/ HandlerSaveFails \/ HandlerCloses

MainNext == SetupNext \/ SubmitNext \/ ReturnNext \/ HandlerNext

InterruptNext ==
    \/ InterruptSubmit \/ InterruptTry
    \/ InterruptLaunchError \/ InterruptHandler

Next ==
    \/ MainNext
    \/ (Handle \/ DeadlinePasses) /\ UNCHANGED <<manifest, mainVars>>
    \/ InterruptNext
    \/ Kill
    \/ Recover \/ RecoveryEnds
    \/ HFNext /\ UNCHANGED <<handleVars, manifest, mainVars>>

Spec == Init /\ [][Next]_vars

(* The thread runs; the clock reaches each deadline.  Nothing is assumed   *)
(* of the service, nor that a call ever succeeds, nor that one ever fails: *)
(* CallFails is in no fairness condition, so a driver or a Job that stays  *)
(* active is left by the deadlines alone, and at each point of MainNext    *)
(* but one a step that succeeds is enabled.  The one is open("x") over an  *)
(* existing file, which fails every time.                                  *)
FairSpec ==
    /\ Spec
    /\ WF_vars(MainNext)
    /\ WF_vars((CloseNext \/ WaitNext) /\ UNCHANGED <<manifest, mainVars>>)
    /\ WF_vars(DeadlinePasses /\ UNCHANGED <<manifest, mainVars>>)
    /\ WF_vars(RecoveryEnds)

CancelReaches(id) ==
    /\ pc = "cancel" /\ caller = "recovery" /\ CancelNext
    /\ jobs[idx] = id /\ id \in doomed'
    /\ UNCHANGED <<manifest, mainVars>>

(* An operator who runs the recovery again until it verifies, against a    *)
(* service that accepts a cancellation retried often enough and acts on    *)
(* what it accepted.                                                       *)
RecoverySpec ==
    /\ FairSpec
    /\ WF_vars(Recover)
    /\ \A id \in 1..NodeCount :
        /\ SF_vars(CancelReaches(id))
        /\ WF_vars(CancelTakesEffect(id) /\ UNCHANGED <<handleVars, manifest, mainVars>>)

-----------------------------------------------------------------------------
(* Safety.                                                                 *)

(* However the process ends, killed between any two steps included, the    *)
(* Jobs it created that the manifest does not name are at most one:        *)
(* submit_cluster saves after every Job and stops at the first failure.    *)
AtMostOneUnrecorded ==
    \A i, j \in Created \ Recorded : i = j

(* Write-ahead: the next paid Job is requested only when the manifest on   *)
(* disk names every Job before it, never after a failure, never by a       *)
(* recovery, and never twice for the same node.                            *)
NewJobRecorded ==
    Created' # Created =>
        /\ Created \subseteq Recorded
        /\ error = "none" /\ InMain
        /\ \A id \in Created : label[id] # label'[Len(label')]

NewJobOnlyWhenRecorded == [][NewJobRecorded]_vars

(* The file never loses a handle, and a file main did not create keeps its *)
(* content: open("x") refuses it and nothing is saved without a cluster.   *)
ManifestGrows ==
    /\ manifest.kind = "other" => UNCHANGED manifest
    /\ Recorded \subseteq Recorded'
    /\ manifest.kind = "saved" => manifest'.kind = "saved"

ManifestOnlyGrows == [][ManifestGrows]_vars

(* Exit code 0: every node's Job was created, all of them have ended, the  *)
(* driver's with COMPLETED, and all are in the manifest.                   *)
ZeroMeansReleased ==
    exit = "0" =>
        /\ Len(stage) = NodeCount
        /\ Live = {}
        /\ stage[1] = "COMPLETED"
        /\ Recorded = Created

(* README: "Failures and interrupts attempt cleanup without hiding an      *)
(* unverified result."  Once main has bound the cluster and has ended, a   *)
(* Job it knows is still running only if "Cleanup unverified" was printed. *)
CleanupNeverHidden ==
    (bound /\ exit \in {"0", "1", "130", "uncaught"} /\ caller # "recovery")
        => (warned \/ Known \cap Live = {})

(* When main has returned, a Job that is still running can be found: its   *)
(* handle is in the manifest or was printed, or hfdask never had one and   *)
(* the LaunchError main printed asks to look for it by the cluster's label.*)
LiveJobsAreTraceable ==
    exit \in {"1", "130"} =>
        \A id \in Live :
            \/ id \in Recorded \cup printed
            \/ id \notin Known /\ isLaunch

(* A recovery that returned has released every Job the manifest names.     *)
ReleasedMeansTerminal ==
    pc = "released" => Recorded \cap Live = {}

-----------------------------------------------------------------------------
(* What makes them inductive.                                              *)

InOrder(s) == \A i \in DOMAIN s : s[i] = i
AllTerminal == \A k \in DOMAIN jobs : Terminal(jobs[k])

(* Where the process can be, and with what, at each control point.         *)
ControlInv ==
    /\ pc \in SubmitPoints \cup TryPoints \cup HandlerPoints => InMain
    /\ pc \in ClosePoints => (InMain <=> caller # "recovery")
    /\ pc \in OverPoints => ~InMain
    /\ pc \in SubmitPoints \cup TryPoints => error = "none"
    /\ InMain => caller # "recovery"
    /\ pc \in {"wait", "waited"} => caller = "wait"
    /\ pc \in ClosePoints /\ caller = "wait" => error = "none"

(* Ids are in node order in both lists; the k-th Job belongs to node k-1.  *)
OrderInv ==
    /\ InOrder(jobs) /\ InOrder(manifest.jobs)
    /\ \A id \in Created : label[id] = id - 1

(* How far the service, the handles and the manifest can be apart.         *)
LaunchInv ==
    /\ Len(stage) <= NodeCount
    /\ Len(jobs) <= Len(stage)
    /\ Len(manifest.jobs) <= Len(jobs)
    /\ Len(stage) <= Len(manifest.jobs) + 1
    /\ pc \in {"load", "open", "prepare"} => Len(stage) = 0
    /\ pc = "run_job" => Len(stage) = Len(manifest.jobs) /\ Len(jobs) < NodeCount
    /\ pc = "append" => Len(stage) = Len(jobs) + 1 /\ Len(jobs) = Len(manifest.jobs)
    /\ pc = "save" => Len(stage) = Len(jobs)
    /\ pc \in {"bind", "wait", "waited"} \/ (pc \in ClosePoints /\ caller = "wait")
          => Len(manifest.jobs) = NodeCount

(* Nothing is saved over a file main did not create.                       *)
FileInv ==
    /\ manifest.kind # "saved" => manifest.jobs = <<>>
    /\ pc \in SubmitPoints \cup {"prepare", "bind", "launch_error"}
          => manifest.kind \in {"blank", "saved"}
    /\ bound => manifest.kind \in {"blank", "saved"}
    /\ pc = "handler_save" => bound

(* What polling has established, and that it stays so.                     *)
CloseInv ==
    /\ pc = "poll" => \A k \in DOMAIN jobs : k < idx => Terminal(jobs[k])
    /\ pc \in {"closed", "waited", "released"} => AllTerminal
    /\ pc \in {"cancel", "poll", "closed", "waited"} /\ caller = "wait" => stage[1] = seen
    /\ pc = "waited" => seen = "COMPLETED"
    /\ caller = "recovery" => jobs = manifest.jobs
    /\ pc = "released" => caller = "recovery"
    /\ exit = "0" => pc = "over" /\ ZeroMeansReleased

IInv == TypeOK /\ ControlInv /\ OrderInv /\ LaunchInv /\ FileInv /\ CloseInv

-----------------------------------------------------------------------------
(* Liveness.                                                               *)

(* main always ends, whatever stages the service reports and for however   *)
(* long: each of its two waits has a deadline, and no call has to fail.    *)
MainEnds == <>(exit # "none")

(* Whatever killed or interrupted main, a manifest on disk is enough to    *)
(* release, in the end, every Job it names.                                *)
RecoveryReleases ==
    (exit \notin {"none", "0"} /\ manifest.kind = "saved")
        ~> (Recorded \cap Live = {})
==============================================================================
