--------------------------- MODULE LauncherProofs ---------------------------
(***************************************************************************)
(* Theorems about Launcher, for every number of nodes and of interrupts.   *)
(* IInv is inductive; the safety properties and the action properties      *)
(* follow from it.                                                         *)
(***************************************************************************)
EXTENDS LauncherRefinement, DataLemmas

-----------------------------------------------------------------------------
(* The service neither creates Jobs by itself nor revives one: a terminal  *)
(* stage is final.                                                         *)
LEMMA ServiceStep ==
    ASSUME HFTypeOK, HFNext
    PROVE  /\ HFTypeOK'
           /\ Len(stage') = Len(stage) /\ Created' = Created
           /\ UNCHANGED <<label, doomed>>
           /\ \A id \in Created : stage[id] \in TERMINAL => stage'[id] = stage[id]
  <1> DEFINE Stages == ACTIVE \cup TERMINAL
  <1>1. PICK id \in Created, s \in Stages :
            /\ stage' = [stage EXCEPT ![id] = s]
            /\ stage[id] \notin TERMINAL
            /\ UNCHANGED <<label, doomed>>
    <2>1. PICK id \in Created : \/ Start(id)
                                \/ \E s \in TERMINAL : End(id, s)
                                \/ CancelTakesEffect(id)
      BY DEF HFNext
    <2>2. CASE Start(id)
      BY <2>2 DEF Start, ACTIVE, TERMINAL
    <2>3. CASE \E s \in TERMINAL : End(id, s)
      BY <2>3 DEF End, Live
    <2>4. CASE CancelTakesEffect(id)
      BY <2>4 DEF CancelTakesEffect, Live, TERMINAL
    <2> QED
      BY <2>1, <2>2, <2>3, <2>4
  <1>2. stage \in Seq(Stages) /\ id \in DOMAIN stage
    BY DEF HFTypeOK, Created
  <1>3. /\ stage' \in Seq(Stages)
        /\ Len(stage') = Len(stage)
        /\ DOMAIN stage' = DOMAIN stage
    BY <1>1, <1>2, SeqUpdate
  <1>4. \A j \in Created : stage[j] \in TERMINAL => stage'[j] = stage[j]
    BY <1>1, <1>2 DEF Created
  <1> QED
    BY <1>1, <1>3, <1>4 DEF HFTypeOK, Created

(* run_job adds one Job after all the others and touches none of them.     *)
LEMMA CreateStep ==
    ASSUME HFTypeOK, NEW n \in Nat, RunJob(n)
    PROVE  /\ HFTypeOK'
           /\ Len(stage') = Len(stage) + 1
           /\ Created' = 1..(Len(stage) + 1)
           /\ Len(label') = Len(stage) + 1
           /\ label'[Len(stage) + 1] = n
           /\ \A id \in Created : stage'[id] = stage[id] /\ label'[id] = label[id]
  <1>1. /\ stage \in Seq(ACTIVE \cup TERMINAL) /\ label \in Seq(Nat)
        /\ Len(label) = Len(stage) /\ doomed \subseteq Created
        /\ "PENDING" \in ACTIVE \cup TERMINAL
        /\ stage' = Append(stage, "PENDING") /\ label' = Append(label, n)
        /\ doomed' = doomed
    BY DEF HFTypeOK, RunJob, ACTIVE
  <1>2. /\ stage' \in Seq(ACTIVE \cup TERMINAL)
        /\ Len(stage') = Len(stage) + 1
        /\ DOMAIN stage' = 1..(Len(stage) + 1)
        /\ \A i \in DOMAIN stage : stage'[i] = stage[i]
    BY <1>1, SeqAppend
  <1>3. /\ label' \in Seq(Nat)
        /\ Len(label') = Len(label) + 1
        /\ label'[Len(label) + 1] = n
        /\ \A i \in DOMAIN label : label'[i] = label[i]
    BY <1>1, SeqAppend
  <1>4. /\ Len(stage) \in Nat /\ DOMAIN stage = 1..Len(stage)
        /\ DOMAIN label = 1..Len(label)
    BY <1>1, SeqDomain
  <1>5. Created \subseteq Created'
    BY <1>2, <1>4 DEF Created
  <1> QED
    BY <1>1, <1>2, <1>3, <1>4, <1>5 DEF HFTypeOK, Created

-----------------------------------------------------------------------------
(* The tuples of variables and the assumption on the constants are visible *)
(* in every proof of this module.                                          *)
USE LauncherAssumption DEF hfVars, loopVars, handleVars, mainVars, vars

(* So are the actions, which the proofs tell apart by the variables they   *)
(* write.  What an action calls is cited where it is needed.               *)
USE DEF Next, MainNext, SetupNext, SubmitNext, ReturnNext, HandlerNext, InterruptNext,
        Handle, CloseNext, WaitNext, CallFails,
        LoadCluster, OpenManifest, Prepare, SetupFails,
        SubmitJob, SubmitFails, AppendHandle, SaveManifest, SaveFails,
        BindCluster, CatchLaunchError, WaitRaises, ReturnZero,
        HandleBound, HandleUnbound, HandlerSaves, HandlerSaveFails, HandlerCloses,
        CancelNext, CancelsSent, PollTerminal, PollActive, PollFails, PollDone,
        WaitTerminal, WaitExpires, WaitFails, WaitVerdict, DeadlinePasses,
        InterruptSubmit, InterruptTry, InterruptLaunchError, InterruptHandler,
        Kill, Recover, RecoveryEnds

HandleStep == Handle /\ UNCHANGED <<manifest, mainVars>>

(* A run starts with no Job, no handle and no cluster.                     *)
LEMMA InitIInv == Init => IInv
  <1> SUFFICES ASSUME Init PROVE IInv
    OBVIOUS
  <1>1. PICK k \in {"absent", "other"} : manifest = [kind |-> k, jobs |-> <<>>]
    BY DEF Init
  <1>2. Len(stage) = 0 /\ DOMAIN stage = {} /\ Len(jobs) = 0 /\ DOMAIN jobs = {}
    BY DEF Init, HFInit
  <1>3. TypeOK
    <2>1. HFTypeOK
      BY DEF Init, HFInit, HFTypeOK
    <2>2. HandleTypeOK
      <3>1. jobs = <<>> /\ caller = "wait" /\ idx = 1 /\ late = FALSE /\ seen = "ERROR"
        BY DEF Init
      <3>2. jobs \in Seq(Created) /\ seen \in TERMINAL /\ idx \in Nat \ {0}
        BY <3>1 DEF TERMINAL
      <3>3. caller \in {"wait", "handler", "recovery"} /\ late \in BOOLEAN
        BY <3>1
      <3> QED
        BY <3>2, <3>3 DEF HandleTypeOK
    <2>3. manifest \in [kind : ManifestKinds, jobs : Seq(Created)]
      BY <1>1 DEF ManifestKinds
    <2>4. MainTypeOK
      <3>1. /\ pc = "load" /\ bound = FALSE /\ error = "none" /\ isLaunch = FALSE
            /\ printed = {} /\ warned = FALSE /\ exit = "none" /\ interrupts = 0
        BY DEF Init
      <3>2. pc \in PC /\ interrupts \in 0..MaxInterrupts
        BY <3>1 DEF PC, TryPoints
      <3> QED
        BY <3>1, <3>2 DEF MainTypeOK
    <2> QED
      BY <2>1, <2>2, <2>3, <2>4 DEF TypeOK
  <1>4. ControlInv
    BY DEF Init, ControlInv, InMain, SubmitPoints, TryPoints, HandlerPoints, ClosePoints, OverPoints
  <1>5. LaunchInv
    BY <1>1, <1>2 DEF Init, LaunchInv, ClosePoints
  <1>8. OrderInv
    BY <1>1, <1>2 DEF Init, OrderInv, InOrder, Created
  <1>6. FileInv
    BY <1>1 DEF Init, FileInv, SubmitPoints
  <1>7. CloseInv
    BY DEF Init, CloseInv
  <1> QED
    BY <1>3, <1>4, <1>5, <1>6, <1>7, <1>8 DEF IInv

-----------------------------------------------------------------------------
(* Type correctness.                                                       *)

(* Every step: the service's part.  Jobs are created, never forgotten.     *)
LEMMA ServiceTyped ==
    ASSUME TypeOK, [Next]_vars
    PROVE  HFTypeOK' /\ Created \subseteq Created'
  <1>0. HFTypeOK /\ Len(jobs) \in Nat
    BY SeqDomain DEF TypeOK, HandleTypeOK
  <1>1. CASE UNCHANGED <<stage, label>> /\ (doomed' = doomed \/ CancelNext)
    <2>1. CASE CancelNext
      BY <1>0, <1>1, <2>1 DEF HFTypeOK, HandleTypeOK, TypeOK, CancelNext, CancelJob, Created
    <2> QED
      BY <1>0, <1>1, <2>1 DEF HFTypeOK, Created
  <1>2. CASE RunJob(Len(jobs))
    BY <1>0, <1>2, CreateStep, SeqDomain DEF HFTypeOK, Created
  <1>3. CASE HFNext
    BY <1>0, <1>3, ServiceStep
  <1>4. \/ UNCHANGED <<stage, label>> /\ (doomed' = doomed \/ CancelNext)
        \/ RunJob(Len(jobs))
        \/ HFNext
    BY DEF CancelJob
  <1> QED
    BY <1>1, <1>2, <1>3, <1>4

(* The handle's loop variables and the list of known Jobs.                 *)
LEMMA HandleTyped ==
    ASSUME IInv, [Next]_vars
    PROVE  HandleTypeOK'
  <1>0. HandleTypeOK /\ HFTypeOK' /\ Created \subseteq Created' /\ TypeOK
    BY ServiceTyped DEF IInv, TypeOK
  <1>1. jobs \in Seq(Created') /\ manifest.jobs \in Seq(Created')
    BY <1>0, SeqWiden DEF HandleTypeOK, TypeOK
  <1>2. CASE AppendHandle
    <2>1. Len(stage) \in Created'
      BY <1>0, <1>2, SeqDomain DEF AppendHandle, IInv, LaunchInv, HFTypeOK, Created, HandleTypeOK
    <2>2. jobs' \in Seq(Created')
      BY <1>1, <1>2, <2>1, SeqAppend DEF AppendHandle
    <2> QED
      BY <1>0, <1>2, <2>2 DEF AppendHandle, HandleTypeOK
  <1>3. jobs' \in Seq(Created') \/ AppendHandle
    BY <1>1
  <1>4. /\ caller' \in {"wait", "handler", "recovery"}
        /\ late' \in BOOLEAN
    BY <1>0 DEF HandleTypeOK, EnterClose
  <1>6. idx' \in {idx, 1, idx + 1}
    BY DEF EnterClose
  <1>5. seen' \in TERMINAL
    BY <1>0 DEF HandleTypeOK, Terminal
  <1> QED
    BY <1>0, <1>2, <1>3, <1>4, <1>5, <1>6 DEF HandleTypeOK

(* The file holds the ids main has, or none, or what it held before.       *)
LEMMA FileTyped ==
    ASSUME TypeOK, [Next]_vars
    PROVE  manifest' \in [kind : ManifestKinds, jobs : Seq(Created')]
  <1>0. Created \subseteq Created'
    BY ServiceTyped
  <1>1. jobs \in Seq(Created') /\ manifest.jobs \in Seq(Created')
    BY <1>0, SeqWiden DEF TypeOK, HandleTypeOK
  <1>2. CASE UNCHANGED manifest
    BY <1>1, <1>2 DEF TypeOK
  <1>3. CASE CreateManifest
    BY <1>3 DEF CreateManifest, ManifestKinds
  <1>4. CASE ReplaceManifest
    BY <1>1, <1>4 DEF ReplaceManifest, ManifestKinds
  <1>5. UNCHANGED manifest \/ CreateManifest \/ ReplaceManifest
    OBVIOUS
  <1> QED
    BY <1>2, <1>3, <1>4, <1>5

(* Main's own variables: each step assigns constants, or handles it knows. *)
LEMMA MainTyped ==
    ASSUME TypeOK, [Next]_vars
    PROVE  MainTypeOK'
  <1>0. Created \subseteq Created' /\ MainTypeOK /\ Known \subseteq Created
    <2>1. \A i \in DOMAIN jobs : jobs[i] \in Created
      BY SeqDomain DEF TypeOK, HandleTypeOK
    <2> QED
      BY <2>1, ServiceTyped DEF TypeOK, Known, Range
  <1>1. pc' \in PC
    <2> USE <1>0 DEF MainTypeOK, PC, SubmitPoints, TryPoints, HandlerPoints, ClosePoints, OverPoints,
           Raise, RaiseLaunchError, Finish, EnterClose
    <2>1. CASE SetupNext \/ SubmitNext
      BY <2>1
    <2>5. CASE ReturnNext
      BY <2>5
    <2>6. CASE HandlerNext
      BY <2>6
    <2>2. CASE Handle
      BY <2>2
    <2>3. CASE InterruptNext \/ Kill \/ Recover \/ RecoveryEnds
      BY <2>3
    <2>4. CASE UNCHANGED pc
      BY <2>4
    <2> QED
      BY <2>1, <2>2, <2>3, <2>4, <2>5, <2>6
  <1>2. printed' \subseteq Created'
    BY <1>0 DEF MainTypeOK, Raise, RaiseLaunchError, Finish
  <1>3. /\ bound' \in BOOLEAN /\ isLaunch' \in BOOLEAN /\ warned' \in BOOLEAN
        /\ error' \in {"none", "failure", "interrupt"}
        /\ exit' \in {"none", "0", "1", "130", "uncaught", "killed"}
    <2> USE <1>0 DEF MainTypeOK, Raise, RaiseLaunchError, Finish, ExitCode
    <2> HIDE DEF Next, vars
    <2>1. CASE SetupNext
      BY <2>1
    <2>5. CASE SubmitNext
      BY <2>5
    <2>6. CASE ReturnNext
      BY <2>6
    <2>2. CASE HandlerNext
      BY <2>2
    <2>3. CASE InterruptNext \/ Kill \/ Recover \/ RecoveryEnds
      BY <2>3
    <2>4. CASE UNCHANGED mainVars
      BY <2>4
    <2> QED
      BY <2>1, <2>2, <2>3, <2>4, <2>5, <2>6 DEF Next, vars
  <1>4. interrupts' \in 0..MaxInterrupts
    BY <1>0 DEF MainTypeOK, Raise, RaiseLaunchError, Finish, Interrupted
  <1> QED
    BY <1>1, <1>2, <1>3, <1>4 DEF MainTypeOK

(* Every step keeps every variable in its type.                            *)
LEMMA TypeStep == IInv /\ [Next]_vars => TypeOK'
  <1> SUFFICES ASSUME IInv, [Next]_vars PROVE TypeOK'
    OBVIOUS
  <1>1. TypeOK
    BY DEF IInv
  <1>2. HFTypeOK'
    BY <1>1, ServiceTyped
  <1>3. manifest' \in [kind : ManifestKinds, jobs : Seq(Created')]
    BY <1>1, FileTyped
  <1>4. MainTypeOK'
    BY <1>1, MainTyped
  <1> QED
    BY <1>2, <1>3, <1>4, HandleTyped DEF TypeOK

-----------------------------------------------------------------------------
(* The parts of the invariant.                                             *)

(* Each step leads from one control point to the next of the code's paths. *)
LEMMA ControlStep == IInv /\ [Next]_vars => ControlInv'
  <1> SUFFICES ASSUME IInv, [Next]_vars PROVE ControlInv'
    OBVIOUS
  <1> USE DEF ControlInv, InMain, SubmitPoints, TryPoints, HandlerPoints, ClosePoints, OverPoints
  <1>0. ControlInv /\ MainTypeOK /\ HandleTypeOK
    BY DEF IInv, TypeOK
  <1>1. CASE SetupNext \/ SubmitNext
    BY <1>0, <1>1 DEF Raise, RaiseLaunchError
  <1>2. CASE ReturnNext
    BY <1>0, <1>2 DEF Raise, Finish
  <1>3. CASE HandlerNext
    BY <1>0, <1>3 DEF Finish, EnterClose, ExitCode
  <1>4. CASE HandleStep
    BY <1>0, <1>4 DEF HandleStep, EnterClose
  <1>5. CASE InterruptNext
    BY <1>0, <1>5 DEF RaiseLaunchError, Interrupted, Handling
  <1>6. CASE Kill \/ Recover \/ RecoveryEnds
    BY <1>0, <1>6 DEF EnterClose
  <1>7. CASE UNCHANGED <<pc, exit, caller, error>>
    BY <1>0, <1>7
  <1> QED
    BY <1>1, <1>2, <1>3, <1>4, <1>5, <1>6, <1>7 DEF HandleStep

(* Only main's own file is saved to, and it is never made blank again.     *)
LEMMA FileStep == IInv /\ [Next]_vars => FileInv'
  <1> SUFFICES ASSUME IInv, [Next]_vars PROVE FileInv'
    OBVIOUS
  <1> USE DEF FileInv, SubmitPoints, TryPoints, HandlerPoints, ClosePoints
  <1>0. FileInv /\ MainTypeOK /\ HandleTypeOK /\ ControlInv
    BY DEF IInv, TypeOK
  <1>1. CASE SetupNext
    BY <1>0, <1>1 DEF Raise, CreateManifest
  <1>2. CASE SubmitNext
    BY <1>0, <1>2 DEF RaiseLaunchError, ReplaceManifest
  <1>3. CASE ReturnNext \/ HandlerNext
    BY <1>0, <1>3 DEF Raise, Finish, EnterClose, ReplaceManifest
  <1>4. CASE HandleStep
    BY <1>0, <1>4 DEF HandleStep, EnterClose
  <1>5. CASE InterruptNext
    BY <1>0, <1>5 DEF RaiseLaunchError, Interrupted, Handling, ReplaceManifest
  <1>6. CASE Kill \/ Recover \/ RecoveryEnds
    BY <1>0, <1>6 DEF EnterClose
  <1>7. CASE UNCHANGED <<pc, manifest, bound>>
    BY <1>0, <1>7
  <1> QED
    BY <1>1, <1>2, <1>3, <1>4, <1>5, <1>6, <1>7 DEF HandleStep

(* The positions of each list run from one to its length.                  *)
LEMMA Lengths ==
    ASSUME TypeOK
    PROVE  /\ Len(stage) \in Nat /\ Created = 1..Len(stage)
           /\ Len(jobs) \in Nat /\ DOMAIN jobs = 1..Len(jobs)
           /\ Len(manifest.jobs) \in Nat /\ DOMAIN manifest.jobs = 1..Len(manifest.jobs)
  <1>1. stage \in Seq(ACTIVE \cup TERMINAL) /\ jobs \in Seq(Created)
        /\ manifest.jobs \in Seq(Created)
    BY DEF TypeOK, HFTypeOK, HandleTypeOK
  <1> QED
    BY <1>1, SeqDomain DEF Created

(* A Job is created at "run_job" only, where the manifest names all of     *)
(* the earlier ones, and the process leaves that point by the same step.   *)
LEMMA LaunchStep == IInv /\ [Next]_vars => LaunchInv'
  <1> SUFFICES ASSUME IInv, [Next]_vars PROVE LaunchInv'
    OBVIOUS
  <1> USE DEF LaunchInv, SubmitPoints, TryPoints, ClosePoints
  <1>0. /\ LaunchInv /\ ControlInv /\ FileInv /\ CloseInv
        /\ TypeOK /\ HFTypeOK
    BY DEF IInv, TypeOK
  <1>1. Len(stage) \in Nat /\ Len(jobs) \in Nat /\ Len(manifest.jobs) \in Nat
    BY <1>0, Lengths
  <1>2. ASSUME pc = "run_job", RunJob(Len(jobs)), UNCHANGED <<jobs, manifest>>,
               pc' \in {"append", "launch_error"}
        PROVE  LaunchInv'
    <2>1. Len(stage') = Len(stage) + 1
      BY <1>0, <1>1, <1>2, CreateStep
    <2> QED
      BY <1>0, <1>1, <1>2, <2>1
  <1>3. CASE AppendHandle
    <2>1. Len(jobs') = Len(jobs) + 1
      <3>1. jobs \in Seq(Nat) /\ jobs' = Append(jobs, Len(stage))
        BY <1>0, <1>3, Lengths, SeqWiden DEF TypeOK, HandleTypeOK
      <3> QED
        BY <1>1, <3>1, SeqAppend
    <2> QED
      BY <1>0, <1>1, <1>3, <2>1
  <1>4. ASSUME ReplaceManifest, UNCHANGED <<hfVars, jobs>>,
               \/ pc = "save" /\ pc' \in {"run_job", "bind", "launch_error"}
               \/ pc = "handler_save" /\ pc' \in {"cancel", "over"},
               pc' = "run_job" => Len(jobs) < NodeCount,
               pc' = "bind" => Len(jobs) >= NodeCount,
               pc' = "cancel" => caller' = "handler"
        PROVE  LaunchInv'
    <2>1. manifest'.jobs = jobs
      BY <1>4 DEF ReplaceManifest
    <2> QED
      BY <1>0, <1>1, <1>4, <2>1
  <1>5. CASE SetupNext
    <2>1. Len(manifest'.jobs) = 0 /\ UNCHANGED <<stage, jobs>>
      BY <1>0, <1>1, <1>5 DEF CreateManifest
    <2> QED
      BY <1>0, <1>1, <1>5, <2>1 DEF Raise
  <1>6. CASE SubmitNext
    <2>1. CASE SubmitJob \/ SubmitFails
      BY <1>0, <1>1, <1>2, <2>1 DEF RaiseLaunchError
    <2>2. CASE SaveManifest \/ SaveFails
      BY <1>0, <1>1, <1>4, <2>2 DEF RaiseLaunchError
    <2> QED
      BY <1>3, <1>6, <2>1, <2>2
  <1>7. CASE ReturnNext
    BY <1>0, <1>1, <1>7 DEF Raise, Finish
  <1>8. CASE HandlerNext
    BY <1>0, <1>1, <1>8, <1>4 DEF Finish, EnterClose
  <1>9. CASE HandleStep
    BY <1>0, <1>1, <1>9 DEF HandleStep, CancelJob, EnterClose
  <1>10. CASE InterruptNext
    BY <1>0, <1>1, <1>10, <1>2, <1>4 DEF RaiseLaunchError, Handling
  <1>11. CASE Kill \/ Recover \/ RecoveryEnds
    <2>1. UNCHANGED <<stage, manifest>> /\ jobs' \in {jobs, manifest.jobs}
      BY <1>11
    <2> QED
      BY <1>0, <1>1, <1>11, <2>1 DEF EnterClose
  <1>12. CASE HFNext /\ UNCHANGED <<handleVars, manifest, mainVars>>
    BY <1>0, <1>1, <1>12, ServiceStep
  <1>13. CASE UNCHANGED <<stage, pc, jobs, caller, manifest>>
    BY <1>0, <1>1, <1>13
  <1> QED
    BY <1>5, <1>6, <1>7, <1>8, <1>9, <1>10, <1>11, <1>12, <1>13 DEF HandleStep

(* Lists only grow at their end, and each Job carries its own node's label.*)
LEMMA OrderStep == IInv /\ [Next]_vars => OrderInv'
  <1> SUFFICES ASSUME IInv, [Next]_vars PROVE OrderInv'
    OBVIOUS
  <1> USE DEF OrderInv, InOrder
  <1>0. OrderInv /\ TypeOK /\ HFTypeOK /\ LaunchInv /\ FileInv
    BY DEF IInv, TypeOK
  <1>1. /\ Len(stage) \in Nat /\ Created = 1..Len(stage)
        /\ Len(jobs) \in Nat /\ DOMAIN jobs = 1..Len(jobs)
    BY <1>0, Lengths
  <1>2. \A id \in Created' : label'[id] = id - 1
    <2>1. CASE pc = "run_job" /\ RunJob(Len(jobs))
      <3>1. /\ Created' = 1..(Len(stage) + 1)
            /\ label'[Len(stage) + 1] = Len(jobs)
            /\ \A id \in Created : label'[id] = label[id]
        BY <1>0, <1>1, <2>1, CreateStep
      <3>2. Len(jobs) = Len(stage)
        BY <1>0, <1>1, <2>1, Lengths DEF LaunchInv
      <3> QED
        BY <1>0, <1>1, <3>1, <3>2
    <2>2. CASE HFNext
      BY <1>0, <2>2, ServiceStep
    <2>3. CASE UNCHANGED <<stage, label>>
      BY <1>0, <2>3 DEF Created
    <2> QED
      BY <2>1, <2>2, <2>3 DEF CancelJob
  <1>3. InOrder(jobs)'
    <2>1. CASE AppendHandle
      <3>1. jobs \in Seq(Nat) /\ Len(stage) \in Nat /\ jobs' = Append(jobs, Len(stage))
        BY <1>0, <1>1, <2>1, SeqWiden DEF TypeOK, HandleTypeOK
      <3>2. /\ DOMAIN jobs' = 1..(Len(jobs) + 1)
            /\ jobs'[Len(jobs) + 1] = Len(stage)
            /\ \A i \in DOMAIN jobs : jobs'[i] = jobs[i]
        <4> HIDE DEF AppendHandle
        <4> QED
          BY <3>1, SeqAppend
      <3> QED
        BY <1>0, <1>1, <2>1, <3>2 DEF LaunchInv
    <2>2. jobs' \in {jobs, manifest.jobs} \/ AppendHandle
      OBVIOUS
    <2> QED
      BY <1>0, <2>1, <2>2
  <1>4. InOrder(manifest.jobs)'
    <2>1. UNCHANGED manifest \/ CreateManifest \/ ReplaceManifest
      OBVIOUS
    <2>2. manifest'.jobs \in {manifest.jobs, <<>>, jobs}
      BY <2>1 DEF CreateManifest, ReplaceManifest
    <2> QED
      BY <1>0, <2>2
  <1> QED
    BY <1>2, <1>3, <1>4

-----------------------------------------------------------------------------
(* What polling establishes lasts: terminal stages are final.              *)

(* A Job that is terminal keeps its stage in every step.                    *)
LEMMA TerminalStays ==
    ASSUME TypeOK, [Next]_vars
    PROVE  \A id \in Created : Terminal(id) => stage'[id] = stage[id]
  <1>0. HFTypeOK /\ Len(jobs) \in Nat
    BY Lengths DEF TypeOK
  <1>1. CASE RunJob(Len(jobs))
    BY <1>0, <1>1, CreateStep
  <1>2. CASE HFNext
    BY <1>0, <1>2, ServiceStep DEF Terminal
  <1>3. CASE UNCHANGED stage
    BY <1>3
  <1> QED
    BY <1>1, <1>2, <1>3 DEF CancelJob

(* close returns only after a round in which every Job was terminal, so    *)
(* they still are; wait's verdict is the driver's own, final, stage.       *)
LEMMA CloseStep == IInv /\ [Next]_vars => CloseInv'
  <1> SUFFICES ASSUME IInv, [Next]_vars PROVE CloseInv'
    OBVIOUS
  <1> USE DEF CloseInv, AllTerminal, SubmitPoints, TryPoints, HandlerPoints, ClosePoints, OverPoints, InMain
  <1>0. /\ CloseInv /\ ControlInv /\ LaunchInv /\ OrderInv
        /\ TypeOK /\ HandleTypeOK /\ MainTypeOK
    BY DEF IInv, TypeOK
  <1>1. /\ Len(stage) \in Nat /\ Created = 1..Len(stage)
        /\ Len(jobs) \in Nat /\ DOMAIN jobs = 1..Len(jobs)
        /\ Len(manifest.jobs) \in Nat /\ DOMAIN manifest.jobs = 1..Len(manifest.jobs)
    BY <1>0, Lengths
  <1>2. /\ \A k \in DOMAIN jobs : jobs[k] \in Created
        /\ \A id \in Created : Terminal(id) => stage'[id] = stage[id]
        /\ \A id \in Created : Terminal(id) => Terminal(id)'
    <2>1. \A k \in DOMAIN jobs : jobs[k] \in Created
      BY <1>0, <1>1 DEF OrderInv, InOrder, LaunchInv
    <2>2. \A id \in Created : Terminal(id) => stage'[id] = stage[id]
      BY <1>0, TerminalStays
    <2> QED
      BY <2>1, <2>2 DEF Terminal
  <1> HIDE DEF Next, vars
  <1>3. CASE SetupNext \/ SubmitNext
    BY <1>0, <1>3 DEF ControlInv, Raise, RaiseLaunchError
  <1>4. CASE BindCluster \/ CatchLaunchError \/ WaitRaises
    BY <1>0, <1>4 DEF ControlInv, Raise
  <1>5. CASE ReturnZero
    <2>1. /\ AllTerminal /\ stage[1] = "COMPLETED"
          /\ Len(stage) = NodeCount /\ Len(jobs) = NodeCount /\ Len(manifest.jobs) = NodeCount
      <3>1. pc = "waited" /\ caller = "wait"
        BY <1>0, <1>5 DEF ControlInv
      <3>2. AllTerminal /\ stage[1] = "COMPLETED"
        BY <1>0, <3>1
      <3>3. /\ Len(manifest.jobs) = NodeCount
            /\ Len(stage) <= NodeCount
            /\ Len(jobs) <= Len(stage) /\ Len(manifest.jobs) <= Len(jobs)
        <4> HIDE DEF CloseInv, ReturnZero
        <4>1. LaunchInv
          BY <1>0
        <4> QED
          BY <4>1, <3>1 DEF LaunchInv
      <3> HIDE LauncherAssumption
      <3>5. Len(stage) \in Nat /\ Len(jobs) \in Nat /\ NodeCount \in Nat
        BY <1>1, LauncherAssumption
      <3>4. Len(stage) = NodeCount /\ Len(jobs) = NodeCount
        BY <3>3, <3>5
      <3> QED
        BY <3>2, <3>3, <3>4
    <2>2. \A id \in Created : Terminal(id) /\ id \in Recorded
      <3>1. \A id \in Created : jobs[id] = id /\ manifest.jobs[id] = id /\ id \in DOMAIN manifest.jobs
        BY <1>0, <1>1, <2>1 DEF OrderInv, InOrder
      <3> QED
        BY <1>1, <2>1, <3>1 DEF Recorded, Range
    <2>3. Recorded \subseteq Created
      BY <1>0, <1>1, <2>1 DEF OrderInv, InOrder, Recorded, Range
    <2>4. UNCHANGED <<stage, manifest, jobs>>
      BY <1>5
    <2>5. ZeroMeansReleased'
      BY <2>1, <2>2, <2>3, <2>4 DEF ZeroMeansReleased, Live, Terminal, Created, Recorded
    <2> QED
      BY <1>0, <1>5, <2>5 DEF ControlInv, Finish
  <1>6. CASE HandlerNext
    BY <1>0, <1>6 DEF ControlInv, Finish, EnterClose, ExitCode
  <1>7. CASE HandleStep
    <2>1. CASE CancelNext \/ CancelsSent
      BY <1>0, <1>1, <1>7, <2>1 DEF HandleStep, CancelJob, ControlInv
    <2>2. CASE PollTerminal
      BY <1>0, <1>1, <1>7, <2>2 DEF HandleStep, ControlInv, Terminal, HandleTypeOK
    <2>3. CASE PollActive
      BY <1>0, <1>7, <2>3 DEF HandleStep, ControlInv, Terminal, HandleTypeOK
    <2>5. CASE PollFails
      BY <1>0, <1>7, <2>5 DEF HandleStep, ControlInv, Terminal
    <2>6. CASE PollDone
      BY <1>0, <1>1, <1>7, <2>6 DEF HandleStep, ControlInv, Terminal, HandleTypeOK
    <2>4. CASE WaitTerminal
      <3>1. jobs[1] = 1
        BY <1>0, <1>1, <2>4, LauncherAssumption DEF ControlInv, OrderInv, InOrder, LaunchInv
      <3> QED
        BY <1>0, <1>7, <2>4, <3>1 DEF HandleStep, ControlInv, EnterClose
    <2>7. CASE WaitExpires \/ WaitFails \/ WaitVerdict
      BY <1>0, <1>7, <2>7 DEF HandleStep, ControlInv, Terminal
    <2> QED
      BY <1>7, <2>1, <2>2, <2>3, <2>4, <2>5, <2>6, <2>7 DEF HandleStep
  <1>8. CASE InterruptNext
    BY <1>0, <1>8 DEF ControlInv, Interrupted, RaiseLaunchError, Handling
  <1>9. CASE Kill
    BY <1>0, <1>9 DEF ControlInv
  <1>10. CASE Recover \/ RecoveryEnds
    BY <1>0, <1>1, <1>10 DEF ControlInv, EnterClose, Terminal
  <1>11. CASE DeadlinePasses /\ UNCHANGED <<manifest, mainVars>>
    BY <1>0, <1>11 DEF Terminal, ZeroMeansReleased, Live, Created, Recorded
  <1>12. CASE HFNext /\ UNCHANGED <<handleVars, manifest, mainVars>>
    <2>1. Created' = Created
      BY <1>0, <1>12, ServiceStep DEF TypeOK
    <2>2. ZeroMeansReleased => ZeroMeansReleased'
      <3> SUFFICES ASSUME exit = "0", ZeroMeansReleased PROVE ZeroMeansReleased'
        BY <1>12 DEF ZeroMeansReleased
      <3>1. Live' = {}
        BY <1>2, <2>1 DEF ZeroMeansReleased, Live, Terminal
      <3>2. Len(stage') = Len(stage)
        BY <1>0, <1>12, ServiceStep DEF TypeOK
      <3>3. stage'[1] = "COMPLETED"
        BY <1>1, <1>2 DEF ZeroMeansReleased, Terminal, TERMINAL
      <3> QED
        BY <1>12, <2>1, <3>1, <3>2, <3>3 DEF ZeroMeansReleased, Recorded
    <2>3. UNCHANGED jobs /\ \A k \in DOMAIN jobs : Terminal(jobs[k]) => Terminal(jobs[k])'
      BY <1>2, <1>12
    <2>4. /\ pc = "poll" => \A k \in DOMAIN jobs : k < idx => Terminal(jobs[k])'
          /\ pc \in {"closed", "waited", "released"} => AllTerminal'
      BY <1>0, <1>12, <2>3
    <2>5. pc \in {"cancel", "poll", "closed", "waited"} /\ caller = "wait" => stage'[1] = seen
      BY <1>0, <1>1, <1>2, <1>12 DEF LaunchInv, HandleTypeOK, Terminal
    <2> QED
      BY <1>0, <1>12, <2>2, <2>4, <2>5
  <1>13. CASE UNCHANGED vars
    BY <1>0, <1>13 DEF vars, Terminal, ZeroMeansReleased, Live, Created, Recorded
  <1> QED
    BY <1>3, <1>4, <1>5, <1>6, <1>7, <1>8, <1>9, <1>10, <1>11, <1>12, <1>13 DEF HandleStep, Next, vars

-----------------------------------------------------------------------------
(* The steps of the action properties, and of main's honesty.              *)

(* The parts together.                                                     *)
LEMMA InductiveStep == IInv /\ [Next]_vars => IInv'
  BY TypeStep, ControlStep, OrderStep, LaunchStep, FileStep, CloseStep DEF IInv

IdsArePositions == Recorded = 1..Len(manifest.jobs) /\ Created = 1..Len(stage)

(* What the manifest names are the first Jobs created, without a gap.      *)
LEMMA RecordedIsPrefix ==
    ASSUME IInv
    PROVE  IdsArePositions
  <1>1. TypeOK /\ OrderInv
    BY DEF IInv
  <1>2. /\ Created = 1..Len(stage)
        /\ DOMAIN manifest.jobs = 1..Len(manifest.jobs)
        /\ \A i \in DOMAIN manifest.jobs : manifest.jobs[i] = i
    BY <1>1, Lengths DEF OrderInv, InOrder
  <1> QED
    BY <1>2 DEF IdsArePositions, Recorded, Range

(* The one step that creates a Job satisfies the write-ahead condition.    *)
LEMMA NewJobStep == IInv /\ [Next]_vars => [NewJobRecorded]_vars
  <1> SUFFICES ASSUME IInv, Next, Created' # Created PROVE NewJobRecorded
    BY DEF NewJobRecorded
  <1>1. TypeOK /\ HFTypeOK /\ OrderInv /\ LaunchInv /\ ControlInv
    BY DEF IInv, TypeOK
  <1>2. pc = "run_job" /\ RunJob(Len(jobs))
    <2>1. ~ UNCHANGED stage
      BY DEF Created
    <2>2. ~ HFNext
      BY <1>1, ServiceStep
    <2> QED
      BY <2>1, <2>2 DEF CancelJob
  <1>3. /\ Len(stage) \in Nat /\ Len(jobs) = Len(stage)
        /\ Len(manifest.jobs) = Len(stage)
    BY <1>1, <1>2, Lengths DEF LaunchInv
  <1>4. Created = 1..Len(stage) /\ Recorded = 1..Len(stage)
    BY <1>3, RecordedIsPrefix DEF IdsArePositions
  <1>5. error = "none" /\ InMain
    BY <1>1, <1>2 DEF ControlInv, SubmitPoints
  <1>6. Len(label') = Len(stage) + 1 /\ label'[Len(stage) + 1] = Len(stage)
    BY <1>1, <1>2, <1>3, CreateStep
  <1>7. \A id \in Created : label[id] # label'[Len(label')]
    BY <1>1, <1>3, <1>4, <1>6 DEF OrderInv
  <1> QED
    BY <1>4, <1>5, <1>7 DEF NewJobRecorded

(* Each step that writes the file writes at least what it held.            *)
LEMMA GrowStep == IInv /\ [Next]_vars => [ManifestGrows]_vars
  <1> SUFFICES ASSUME IInv, Next PROVE ManifestGrows
    OBVIOUS
  <1>1. TypeOK /\ LaunchInv /\ FileInv /\ OrderInv
    BY DEF IInv
  <1>2. CASE UNCHANGED manifest
    BY <1>2 DEF ManifestGrows, Recorded
  <1>3. CASE CreateManifest
    <2>1. manifest.kind = "absent" /\ manifest.jobs = <<>>
      BY <1>1, <1>3 DEF CreateManifest, FileInv
    <2> QED
      BY <2>1 DEF ManifestGrows, Recorded, Range
  <1>4. CASE ReplaceManifest
    <2>1. manifest'.kind = "saved" /\ manifest'.jobs = jobs
      BY <1>4 DEF ReplaceManifest
    <2>2. manifest.kind # "other" \/ UNCHANGED manifest
      BY <1>1 DEF FileInv, SubmitPoints, CreateManifest
    <2>3. \A i \in DOMAIN manifest.jobs : i \in DOMAIN jobs /\ jobs[i] = manifest.jobs[i]
      BY <1>1, Lengths DEF LaunchInv, OrderInv, InOrder
    <2> QED
      BY <2>1, <2>2, <2>3 DEF ManifestGrows, Recorded, Range
  <1> QED
    BY <1>2, <1>3, <1>4

HonestInv == exit # "uncaught" /\ CleanupNeverHidden

(* With interruptions excluded from the handlers, each way main ends has   *)
(* gone through close, or through its warning.                             *)
LEMMA HonestStep ==
    ASSUME ~HandlersInterruptible
    PROVE  IInv /\ HonestInv /\ [Next]_vars => HonestInv'
  <1> SUFFICES ASSUME IInv, HonestInv, [Next]_vars PROVE HonestInv'
    OBVIOUS
  <1> USE DEF HonestInv, CleanupNeverHidden, ControlInv, InMain,
              SubmitPoints, TryPoints, HandlerPoints, ClosePoints, OverPoints
  <1>1. TypeOK /\ HandleTypeOK /\ ControlInv /\ CloseInv /\ LaunchInv /\ OrderInv
    BY DEF IInv, TypeOK
  <1>2. CASE SetupNext \/ SubmitNext \/ BindCluster \/ CatchLaunchError \/ WaitRaises
    BY <1>1, <1>2 DEF Raise, RaiseLaunchError
  <1>3. CASE ReturnZero \/ HandlerCloses
    <2>1. AllTerminal \/ warned'
      BY <1>1, <1>3 DEF CloseInv
    <2>2. Known \cap Live = {} \/ warned'
      BY <2>1 DEF AllTerminal, Known, Range, Live, Terminal
    <2> QED
      BY <1>1, <1>3, <2>2 DEF Finish, ExitCode, Known, Live, Created
  <1>4. CASE HandleBound \/ HandleUnbound \/ HandlerSaves \/ HandlerSaveFails
    BY <1>1, <1>4 DEF Finish, ExitCode, EnterClose
  <1>5. CASE HandleStep \/ (DeadlinePasses /\ UNCHANGED <<manifest, mainVars>>)
    <2>1. exit' = exit /\ bound' = bound /\ warned' = warned
      BY <1>5 DEF HandleStep
    <2>2. exit = "none" \/ caller' = "recovery"
      BY <1>1, <1>5 DEF HandleStep, EnterClose, HandleTypeOK
    <2> QED
      BY <2>1, <2>2
  <1>6. CASE InterruptNext \/ Kill
    BY <1>1, <1>6 DEF Interrupted, RaiseLaunchError
  <1>7. CASE Recover \/ RecoveryEnds
    BY <1>1, <1>7 DEF EnterClose
  <1>8. CASE HFNext /\ UNCHANGED <<handleVars, manifest, mainVars>>
    <2>1. Live' \subseteq Live
      BY <1>1, <1>8, ServiceStep DEF TypeOK, Live, Created
    <2> QED
      BY <1>8, <2>1 DEF Known
  <1>9. CASE UNCHANGED vars
    BY <1>9 DEF Known, Live, Created
  <1> QED
    BY <1>2, <1>3, <1>4, <1>5, <1>6, <1>7, <1>8, <1>9 DEF HandleStep


(* What is known of the Jobs main might leave behind: while an exception   *)
(* is handled, a Job is in the manifest or the exception is a LaunchError, *)
(* main has no cluster only if nothing is missing there, and after the     *)
(* handler's save a Job it knows is in the manifest or was printed.        *)
Traceable(id) == id \in Recorded \cup printed \/ (id \notin Known /\ isLaunch)

TraceInv ==
    /\ exit # "uncaught"
    /\ pc = "launch_error" => isLaunch
    /\ pc \in {"handler", "handler_save"} => Created \subseteq Recorded \/ isLaunch
    /\ pc = "handler" /\ ~bound => Created \subseteq Recorded
    /\ exit \in {"1", "130"} \/ (pc \in ClosePoints /\ caller = "handler")
          => \A id \in Created : Traceable(id)

(* It holds in the beginning and, with interruptions excluded from the     *)
(* handlers, every step preserves it.                                      *)
LEMMA TraceStep ==
    ASSUME ~HandlersInterruptible
    PROVE  IInv /\ TraceInv /\ [Next]_vars => TraceInv'
  <1> SUFFICES ASSUME IInv, TraceInv, [Next]_vars PROVE TraceInv'
    OBVIOUS
  <1>1. /\ TypeOK /\ MainTypeOK /\ HandleTypeOK /\ ControlInv /\ CloseInv /\ LaunchInv /\ OrderInv
        /\ Len(stage) \in Nat /\ Len(jobs) \in Nat /\ Len(manifest.jobs) \in Nat
    BY Lengths DEF IInv, TypeOK
  <1>2. Created = 1..Len(stage) /\ Recorded = 1..Len(manifest.jobs)
    BY RecordedIsPrefix DEF IdsArePositions
  <1>3. Known = 1..Len(jobs)
    BY <1>1, Lengths DEF OrderInv, InOrder, Known, Range
  <1>4. ReplaceManifest => Recorded' = Known
    BY DEF ReplaceManifest, Recorded, Known
  <1>5. UNCHANGED manifest => UNCHANGED Recorded
    BY DEF Recorded
  <1>6. UNCHANGED stage => UNCHANGED Created
    BY DEF Created
  <1>7. UNCHANGED jobs => UNCHANGED Known
    BY DEF Known
  <1> USE DEF TraceInv, ControlInv, InMain, SubmitPoints, TryPoints, HandlerPoints, ClosePoints, OverPoints
  <1> HIDE DEF Next, vars
  <1>8. CASE SetupNext
    <2>1. UNCHANGED stage /\ Len(stage) = 0 /\ Created' = {}
      BY <1>1, <1>2, <1>6, <1>8 DEF LaunchInv
    <2> QED
      BY <1>1, <1>8, <2>1 DEF Raise
  <1>9. CASE SubmitNext
    BY <1>1, <1>9 DEF RaiseLaunchError
  <1>10. CASE ReturnNext
    <2>1. UNCHANGED <<stage, manifest, jobs>>
      BY <1>10
    <2>2. pc \in {"raised", "waited"} /\ caller = "wait" => Created \subseteq Recorded
      BY <1>1, <1>2 DEF LaunchInv
    <2> QED
      BY <1>1, <1>10, <2>1, <2>2, <1>5, <1>6, <1>7 DEF Raise, Finish, Traceable
  <1>11. CASE HandleBound \/ HandleUnbound \/ HandlerCloses
    <2>1. UNCHANGED <<stage, manifest, jobs, printed, isLaunch>>
      BY <1>11 DEF Finish
    <2>2. UNCHANGED <<Created, Recorded, Known>>
      BY <2>1, <1>5, <1>6, <1>7
    <2> QED
      BY <1>1, <1>11, <2>1, <2>2 DEF Finish, ExitCode, Traceable
  <1>12. CASE HandlerSaves \/ HandlerSaveFails
    <2>1. /\ UNCHANGED <<stage, jobs, isLaunch, exit, bound>>
          /\ Known \subseteq Recorded' \cup printed'
          /\ pc' = "cancel" /\ caller' = "handler" /\ exit = "none"
      BY <1>1, <1>4, <1>12 DEF EnterClose
    <2>2. Recorded \subseteq Known
      BY <1>1, <1>2, <1>3 DEF LaunchInv
    <2>3. Created \subseteq Recorded \/ isLaunch
      BY <1>12
    <2>4. \A id \in Created' : Traceable(id)'
      BY <2>1, <2>2, <2>3, <1>6, <1>7 DEF Traceable
    <2> QED
      BY <1>1, <2>1, <2>4
  <1>13. CASE HandleStep \/ (DeadlinePasses /\ UNCHANGED <<manifest, mainVars>>)
    <2>1. UNCHANGED <<stage, manifest, jobs, printed, isLaunch, exit>>
      BY <1>13 DEF HandleStep, CancelJob
    <2>2. /\ pc' \in ClosePoints \cup {"wait", "waited"}
          /\ pc' \in ClosePoints /\ caller' = "handler" => pc \in ClosePoints /\ caller = "handler"
      BY <1>1, <1>13 DEF HandleStep, EnterClose
    <2>3. UNCHANGED <<Created, Recorded, Known>>
      BY <2>1, <1>5, <1>6, <1>7
    <2> QED
      BY <1>1, <2>1, <2>2, <2>3 DEF Traceable
  <1>14. CASE InterruptSubmit
    BY <1>1, <1>14 DEF Interrupted, RaiseLaunchError
  <1>15. CASE InterruptTry
    <2>1. UNCHANGED <<stage, manifest, jobs, exit>> /\ pc' = "handler" /\ exit = "none"
      BY <1>15 DEF Interrupted
    <2>2. Created \subseteq Recorded
      BY <1>1, <1>2, <1>15 DEF LaunchInv
    <2> QED
      BY <1>1, <2>1, <2>2, <1>5, <1>6
  <1>16. CASE Kill
    BY <1>16
  <1>17. CASE Recover
    <2>1. /\ UNCHANGED <<stage, manifest, printed, isLaunch, exit>>
          /\ jobs' = manifest.jobs
          /\ pc' = "cancel" /\ caller' = "recovery"
      BY <1>17 DEF EnterClose
    <2>2. Known' = Recorded
      BY <2>1 DEF Known, Recorded
    <2> QED
      BY <1>1, <2>1, <2>2, <1>5, <1>6 DEF Traceable
  <1>18. CASE RecoveryEnds
    <2>1. UNCHANGED <<stage, manifest, jobs, printed, isLaunch, exit>> /\ pc' \in {"released", "unverified"}
      BY <1>18
    <2> QED
      BY <1>1, <2>1, <1>5, <1>6, <1>7 DEF Traceable
  <1>19. CASE HFNext /\ UNCHANGED <<handleVars, manifest, mainVars>>
    <2>1. UNCHANGED Created
      BY <1>1, <1>19, ServiceStep DEF TypeOK
    <2> QED
      BY <1>1, <1>5, <1>7, <1>19, <2>1 DEF Traceable
  <1>20. CASE UNCHANGED vars
    BY <1>5, <1>6, <1>7, <1>20 DEF vars, Traceable
  <1> QED
    BY <1>8, <1>9, <1>10, <1>11, <1>12, <1>13, <1>14, <1>15, <1>16, <1>17, <1>18, <1>19, <1>20
       DEF Next, HandleStep

-----------------------------------------------------------------------------
(* Launcher implements PaidCapacity.                                       *)

ModeAtPoint ==
    /\ Mode \in {"launching", "stopped", "succeeded", "released"}
    /\ Mode = "launching" <=> error = "none" /\ InMain
    /\ Mode = "succeeded" <=> exit = "0"
    /\ Mode = "released" <=> pc = "released"

(* Where the mode of the contract stands at each control point.            *)
LEMMA ModeIs ==
    ASSUME IInv
    PROVE  ModeAtPoint /\ (pc = "released" => ~InMain /\ exit # "0")
  <1>1. pc = "released" => ~InMain /\ exit # "0"
    BY DEF IInv, ControlInv, OverPoints, CloseInv
  <1> QED
    BY <1>1 DEF ModeAtPoint, Mode, InMain

(* The two facts hold after a step as they do before it.                   *)
LEMMA AtPointsAfter == IInv' => ModeAtPoint' /\ IdsArePositions'
  BY ModeIs, RecordedIsPrefix, PTL

(* A step keeps the mode, or ends a launch for good, or makes a claim.     *)
LEMMA ModeStep ==
    ASSUME IInv, IInv', [Next]_vars
    PROVE  \/ Capacity!MayStop
           \/ ReturnZero
           \/ RecoveryEnds /\ pc = "closed"
  <1> USE DEF Capacity!MayStop, InMain
  <1> HIDE DEF Next, vars
  <1>1. /\ Mode \in {"launching", "stopped", "succeeded", "released"}
        /\ Mode = "launching" <=> error = "none" /\ InMain
        /\ Mode = "succeeded" <=> exit = "0"
        /\ Mode = "released" <=> pc = "released"
    BY ModeIs DEF ModeAtPoint
  <1>2. /\ Mode' \in {"launching", "stopped", "succeeded", "released"}
        /\ Mode' = "launching" <=> error' = "none" /\ InMain'
        /\ Mode' = "succeeded" <=> exit' = "0"
        /\ Mode' = "released" <=> pc' = "released"
    BY AtPointsAfter DEF ModeAtPoint
  <1>3. /\ ControlInv /\ MainTypeOK
        /\ pc = "released" => ~InMain /\ exit # "0"
    BY ModeIs DEF IInv, TypeOK
  <1>4. CASE InMain /\ exit' # "0" /\ (error # "none" => error' # "none") /\ pc' # "released"
    BY <1>1, <1>2, <1>3, <1>4
  <1>5. CASE UNCHANGED <<exit, error>> /\ ~InMain /\ (pc' = "released" <=> pc = "released")
    BY <1>1, <1>2, <1>5
  <1>13. CASE UNCHANGED <<exit, error, pc>>
    BY <1>1, <1>2, <1>13
  <1>6. CASE SetupNext \/ SubmitNext \/ BindCluster \/ CatchLaunchError \/ WaitRaises
    BY <1>3, <1>4, <1>6 DEF ControlInv, Raise, RaiseLaunchError, SubmitPoints, TryPoints, HandlerPoints, ClosePoints
  <1>7. CASE HandlerNext
    BY <1>3, <1>4, <1>7 DEF ControlInv, Finish, ExitCode, EnterClose, HandlerPoints, ClosePoints
  <1>8. CASE HandleStep \/ (DeadlinePasses /\ UNCHANGED <<manifest, mainVars>>)
    <2>1. UNCHANGED <<exit, error>> /\ pc # "released" /\ pc' # "released"
      BY <1>8 DEF HandleStep, EnterClose
    <2> QED
      BY <1>4, <1>5, <2>1
  <1>9. CASE InterruptNext \/ Kill
    BY <1>3, <1>4, <1>9 DEF Interrupted, RaiseLaunchError
  <1>10. CASE Recover
    <2>1. UNCHANGED <<exit, error>> /\ pc # "released" /\ pc' # "released" /\ ~InMain
      BY <1>3, <1>10 DEF EnterClose, ControlInv, OverPoints
    <2> QED
      BY <1>5, <2>1
  <1>11. CASE RecoveryEnds /\ pc = "raised"
    <2>1. UNCHANGED <<exit, error>> /\ pc # "released" /\ pc' # "released" /\ ~InMain
      BY <1>3, <1>11 DEF ControlInv, ClosePoints
    <2> QED
      BY <1>5, <2>1
  <1>12. CASE (HFNext /\ UNCHANGED <<handleVars, manifest, mainVars>>) \/ UNCHANGED vars
    BY <1>12, <1>13 DEF vars
  <1> QED
    BY <1>6, <1>7, <1>8, <1>9, <1>10, <1>11, <1>12 DEF Next, HandleStep

(* A submission creates one Job, when the ledger is complete.              *)
LEMMA CreateRefines ==
    ASSUME IInv, IInv', [Next]_vars, pc = "run_job", RunJob(Len(jobs))
    PROVE  Capacity!Create
  <1>1. /\ TypeOK /\ HFTypeOK /\ LaunchInv /\ ControlInv
        /\ Len(stage) \in Nat /\ Len(manifest.jobs) = Len(stage)
    BY Lengths DEF IInv, TypeOK, LaunchInv
  <1>2. Created = 1..Len(stage) /\ Recorded = Created
    BY <1>1, RecordedIsPrefix DEF IdsArePositions
  <1> DEFINE id == Len(stage) + 1
  <1>3. /\ Len(stage') = id
        /\ Created' = 1..id /\ stage'[id] = "PENDING"
        /\ \A j \in Created : stage'[j] = stage[j]
    <2>1. stage' = Append(stage, "PENDING") /\ stage \in Seq(ACTIVE \cup TERMINAL)
      BY <1>1 DEF RunJob, HFTypeOK
    <2>2. stage'[id] = "PENDING"
      BY <2>1, SeqAppend DEF ACTIVE
    <2> QED
      BY <1>1, <2>2, CreateStep
  <1>4. id \in 1..NodeCount
    BY <1>1, <1>3 DEF IInv, LaunchInv
  <1>5. Created' = Created \cup {id} /\ id \notin Created
    BY <1>1, <1>2, <1>3
  <1>6. Live' = Live \cup {id}
    <2>1. \A j \in Created' : j \in Live' <=> j \in Live \/ j = id
      BY <1>3, <1>5 DEF Live, TERMINAL
    <2> QED
      BY <1>5, <2>1 DEF Live
  <1>7. Mode = "launching"
    BY <1>1, ModeIs DEF ModeAtPoint, ControlInv, SubmitPoints
  <1>8. UNCHANGED manifest
    <2>1. ~ UNCHANGED stage
      BY <1>2, <1>5 DEF Created
    <2> QED
      BY <2>1 DEF CancelJob, CreateManifest, EnterClose
  <1>9. UNCHANGED Recorded
    BY <1>8 DEF Recorded
  <1>10. Capacity!MayStop
    BY ModeStep
  <1> QED
    BY <1>2, <1>4, <1>5, <1>6, <1>7, <1>9, <1>10 DEF Capacity!Create

(* A save adds the one id the manifest lacks, or none.                     *)
LEMMA SaveRefines ==
    ASSUME IInv, IInv', [Next]_vars,
           pc \in {"save", "handler_save"}, ReplaceManifest, UNCHANGED stage
    PROVE  Capacity!Record \/ UNCHANGED <<Created, Live, Recorded>>
  <1>1. /\ LaunchInv /\ ControlInv
        /\ Len(stage) \in Nat /\ Len(jobs) \in Nat /\ Len(manifest.jobs) \in Nat
    BY Lengths DEF IInv
  <1>2. /\ Len(manifest.jobs) <= Len(jobs) /\ Len(jobs) <= Len(manifest.jobs) + 1
        /\ Len(jobs) <= Len(stage)
    BY <1>1 DEF LaunchInv
  <1>3. /\ Created = 1..Len(stage)
        /\ Recorded = 1..Len(manifest.jobs) /\ Recorded' = 1..Len(jobs)
    <2>1. manifest'.jobs = jobs
      BY DEF ReplaceManifest
    <2> QED
      BY <2>1, RecordedIsPrefix, AtPointsAfter DEF IdsArePositions
  <1>4. UNCHANGED <<Created, Live>>
    BY DEF Created, Live
  <1>5. Mode \in {"launching", "stopped"} /\ Capacity!MayStop
    <2>1. InMain /\ pc # "released"
      BY <1>1 DEF ControlInv, SubmitPoints, HandlerPoints
    <2>2. Capacity!MayStop
      BY ModeStep
    <2> QED
      BY <2>1, <2>2, ModeIs DEF ModeAtPoint, InMain
  <1>6. CASE Len(jobs) = Len(manifest.jobs)
    BY <1>3, <1>4, <1>6
  <1>7. CASE Len(jobs) = Len(manifest.jobs) + 1
    <2>1. Len(jobs) \in Created \ Recorded /\ Recorded' = Recorded \cup {Len(jobs)}
      BY <1>1, <1>2, <1>3, <1>7
    <2> QED
      BY <1>4, <1>5, <2>1 DEF Capacity!Record
  <1> QED
    BY <1>1, <1>2, <1>6, <1>7

(* What the service does by itself releases one Job, or none.              *)
LEMMA ServiceRefines ==
    ASSUME IInv, HFNext, UNCHANGED <<handleVars, manifest, mainVars>>
    PROVE  Capacity!Release \/ UNCHANGED Capacity!vars
  <1>1. HFTypeOK
    BY DEF IInv, TypeOK
  <1>2. UNCHANGED <<Created, Recorded, Mode>>
    BY <1>1, ServiceStep DEF Recorded, Mode
  <1>3. PICK id \in Created : \/ Start(id)
                              \/ \E s \in TERMINAL : End(id, s)
                              \/ CancelTakesEffect(id)
    BY DEF HFNext
  <1>4. \A s : stage' = [stage EXCEPT ![id] = s] =>
            \A j \in Created : stage'[j] = IF j = id THEN s ELSE stage[j]
    BY <1>1 DEF HFTypeOK, Created
  <1>5. CASE Start(id)
    <2>1. \A j \in Created : stage'[j] \in TERMINAL <=> stage[j] \in TERMINAL
      BY <1>4, <1>5 DEF Start, TERMINAL
    <2>2. UNCHANGED Live
      BY <1>2, <2>1 DEF Live
    <2> QED
      BY <1>2, <2>2 DEF Capacity!vars
  <1>6. ASSUME NEW s \in TERMINAL, id \in Live, stage' = [stage EXCEPT ![id] = s]
        PROVE  Capacity!Release
    <2>1. \A j \in Created : stage'[j] \notin TERMINAL <=> stage[j] \notin TERMINAL /\ j # id
      BY <1>4, <1>6
    <2>2. Live' = Live \ {id}
      BY <1>2, <2>1 DEF Live
    <2> QED
      BY <1>2, <1>6, <2>2 DEF Capacity!Release
  <1> QED
    BY <1>3, <1>5, <1>6 DEF End, CancelTakesEffect, TERMINAL

(* Every step of the launcher is a step of the contract, or stutters.      *)
LEMMA ContractStep ==
    ASSUME IInv, IInv', [Next]_vars
    PROVE  [Capacity!Next]_(Capacity!vars)
  <1> USE DEF Capacity!Next, Capacity!vars
  <1>1. CASE pc = "run_job" /\ RunJob(Len(jobs))
    BY <1>1, CreateRefines
  <1>2. CASE UNCHANGED <<Created, Live, Recorded>>
    <2>1. CASE Capacity!MayStop
      BY <1>2, <2>1 DEF Capacity!MayStop, Capacity!Stop
    <2>2. CASE ReturnZero
      <3>1. pc = "waited" /\ exit' = "0"
        BY <2>2 DEF Finish
      <3>2. ZeroMeansReleased' /\ Len(stage') = NodeCount /\ Live' = {} /\ Recorded' = Created'
        BY <3>1 DEF IInv, CloseInv, ZeroMeansReleased
      <3>3. Created' = 1..NodeCount
        BY <3>2, AtPointsAfter DEF IdsArePositions
      <3>4. Mode = "launching" /\ Mode' = "succeeded"
        BY <3>1, ModeIs, AtPointsAfter DEF ModeAtPoint, IInv, ControlInv, TryPoints
      <3> QED
        BY <1>2, <3>2, <3>3, <3>4 DEF Capacity!ClaimSuccess
    <2>3. CASE RecoveryEnds /\ pc = "closed"
      <3>1. AllTerminal /\ jobs = manifest.jobs /\ exit \notin {"none", "0"}
        BY <2>3 DEF IInv, CloseInv, ControlInv, ClosePoints, InMain
      <3>2. Recorded \cap Live = {}
        BY <3>1 DEF AllTerminal, Recorded, Range, Live, Terminal
      <3>3. Mode = "stopped" /\ Mode' = "released"
        <4>1. pc' = "released" /\ UNCHANGED exit
          BY <2>3
        <4> QED
          BY <3>1, <4>1, <2>3 DEF Mode
      <3> QED
        BY <1>2, <3>2, <3>3 DEF Capacity!ClaimRelease
    <2> QED
      BY <2>1, <2>2, <2>3, ModeStep
  <1>3. CASE pc \in {"save", "handler_save"} /\ ReplaceManifest /\ UNCHANGED stage
    BY <1>2, <1>3, SaveRefines
  <1>4. CASE HFNext /\ UNCHANGED <<handleVars, manifest, mainVars>>
    BY <1>4, ServiceRefines
  <1>5. CASE UNCHANGED stage /\ (UNCHANGED manifest \/ CreateManifest)
    <2>1. UNCHANGED Recorded
      BY <1>5 DEF CreateManifest, IInv, FileInv, Recorded
    <2> QED
      BY <1>2, <1>5, <2>1 DEF Created, Live
  <1> QED
    BY <1>1, <1>3, <1>4, <1>5 DEF CancelJob, Handling

-----------------------------------------------------------------------------
(* The theorems.                                                           *)

HIDE DEF Next, vars

(* The inductive invariant: it holds first and every step preserves it.    *)
THEOREM Invariance == Spec => []IInv
  BY InitIInv, InductiveStep, PTL DEF Spec

(* hfdask run and a later recovery keep every variable in its type.        *)
THEOREM TypeCorrect == Spec => []TypeOK
  <1>1. IInv => TypeOK
    BY DEF IInv
  <1> QED
    BY <1>1, Invariance, PTL

(* However hfdask run ends, its manifest lacks at most one Job it created. *)
THEOREM AtMostOneIsUnrecorded == Spec => []AtMostOneUnrecorded
  <1>1. IInv => AtMostOneUnrecorded
    <2> SUFFICES ASSUME IInv PROVE AtMostOneUnrecorded
      OBVIOUS
    <2>1. /\ Len(stage) \in Nat /\ Len(manifest.jobs) \in Nat
          /\ Len(stage) <= Len(manifest.jobs) + 1
      BY Lengths DEF IInv, LaunchInv
    <2> QED
      BY <2>1, RecordedIsPrefix DEF IdsArePositions, AtMostOneUnrecorded
  <1> QED
    BY <1>1, Invariance, PTL

(* submit_cluster asks for a Job only when all before it are on disk.      *)
THEOREM WriteAhead == Spec => NewJobOnlyWhenRecorded
  BY NewJobStep, Invariance, PTL DEF Spec, NewJobOnlyWhenRecorded

(* The manifest only ever gains handles; a foreign file is never touched.  *)
THEOREM ManifestNeverLosesHandles == Spec => ManifestOnlyGrows
  BY GrowStep, Invariance, PTL DEF Spec, ManifestOnlyGrows

(* Exit code 0 is only returned when the workload succeeded and every Job  *)
(* of the cluster has ended.                                               *)
THEOREM ZeroIsTrue == Spec => []ZeroMeansReleased
  <1>1. IInv => ZeroMeansReleased
    BY DEF IInv, CloseInv, ZeroMeansReleased
  <1> QED
    BY <1>1, Invariance, PTL

(* A recovery that returns has released all that the manifest names.       *)
THEOREM ReleaseIsTrue == Spec => []ReleasedMeansTerminal
  <1>1. IInv => ReleasedMeansTerminal
    BY DEF IInv, CloseInv, AllTerminal, ReleasedMeansTerminal, Recorded, Range, Live, Terminal
  <1> QED
    BY <1>1, Invariance, PTL

(* Main never hides an unverified cleanup, if no interrupt arrives while   *)
(* it handles an exception.                                                *)
THEOREM CleanupIsNeverHidden ==
    ASSUME ~HandlersInterruptible
    PROVE  Spec => []CleanupNeverHidden
  <1>1. Init => HonestInv
    BY DEF Init, HonestInv, CleanupNeverHidden
  <1>2. HonestInv => CleanupNeverHidden
    BY DEF HonestInv
  <1> QED
    BY <1>1, <1>2, HonestStep, Invariance, PTL DEF Spec

(* When main has returned, a Job that still costs money is named by the    *)
(* manifest or the terminal, or the user was told to look for it, if no    *)
(* interrupt arrives while it handles an exception.                        *)
THEOREM LiveJobsCanBeFound ==
    ASSUME ~HandlersInterruptible
    PROVE  Spec => []LiveJobsAreTraceable
  <1>1. Init => TraceInv
    <2> SUFFICES ASSUME Init PROVE TraceInv
      OBVIOUS
    <2>1. pc = "load" /\ exit = "none"
      BY DEF Init
    <2> QED
      BY <2>1 DEF TraceInv, ClosePoints
  <1>2. TraceInv => LiveJobsAreTraceable
    BY DEF TraceInv, Traceable, LiveJobsAreTraceable, Live
  <1> QED
    BY <1>1, <1>2, TraceStep, Invariance, PTL DEF Spec

(* hfdask run and its recovery keep every promise of the contract: Jobs    *)
(* are created one at a time behind a complete ledger, none after the      *)
(* first trouble, and neither claim, success or release, is ever false.    *)
THEOREM PromisesKept == Spec => KeepsPromises
  <1>1. Init => Capacity!Init
    <2> SUFFICES ASSUME Init PROVE Capacity!Init
      OBVIOUS
    <2>1. /\ pc = "load" /\ exit = "none" /\ error = "none"
          /\ stage = <<>> /\ manifest.jobs = <<>>
      BY DEF Init, HFInit
    <2>2. Created = {} /\ Live = {} /\ Recorded = {} /\ Mode = "launching"
      BY <2>1 DEF Created, Live, Recorded, Range, Mode
    <2> QED
      BY <2>2 DEF Capacity!Init
  <1>2. IInv /\ IInv' /\ [Next]_vars => [Capacity!Next]_(Capacity!vars)
    BY ContractStep
  <1> QED
    BY <1>1, <1>2, Invariance, PTL DEF Spec, KeepsPromises, Capacity!Spec
=============================================================================
