--------------------------- MODULE SourceShipping ---------------------------
(***************************************************************************)
(* How the source of a batch run reaches the nodes: package_project reads  *)
(* the working tree file by file while its owner goes on editing it,       *)
(* prepare_spec stages one archive in a private bucket, and bootstrap.py   *)
(* verifies and extracts that archive in every Job before it becomes the   *)
(* runner.                                                                 *)
(*                                                                         *)
(* A file is a number, in the order `sorted` gives the names; its content  *)
(* is told apart by its size.  A file is edited at any moment; what is a   *)
(* link (or a directory) stays one.                                        *)
(***************************************************************************)
EXTENDS Integers, FiniteSets, FiniteSetsExt

CONSTANTS
    Files,        \* the paths of the project, in their sorted order
    Tracked,      \* the paths in the git index
    Ignored,      \* the paths .gitignore excludes, tracked or not
    Secret,       \* the paths _secret_path never ships
    Required,     \* pyproject.toml, uv.lock and the script
    Trees,        \* the working trees a run may start from
    MaxSize,      \* bound: the largest file
    MaxEdits,     \* bound: edits of the owner while the run packages
    MaxBytes,     \* MAX_SOURCE_BYTES
    MaxFiles,     \* MAX_FILES
    MaxArchive,   \* MAX_ARCHIVE_BYTES
    Nodes         \* the Jobs of the cluster

Absent == -1      \* no such file in the working tree
Link == -2        \* a symbolic link, or no regular file

ASSUME ShippingAssumption ==
    /\ Files \subseteq Nat /\ IsFiniteSet(Files) /\ Tracked \subseteq Files
    /\ MaxSize \in Nat /\ MaxBytes \in Nat /\ MaxFiles \in Nat /\ MaxArchive \in Nat
    /\ Trees \subseteq [Files -> {Link, Absent} \cup 0..MaxSize]

VARIABLES
    tree,      \* the working tree: the size of every file
    edits,     \* edits made since the listing
    step,      \* where the command is
    todo,      \* the listed files still to be read
    size,      \* st_size of the file about to be read
    total,     \* the sizes seen by stat, added up
    files,     \* the content read so far, by name
    zipped,    \* the length of the compressed archive
    bucket,    \* the artifact bucket's visibility
    job,       \* the phase of each node's bootstrap
    payload,   \* what each node read from the mount
    scanned,   \* the members each node has looked at
    root       \* what each node has extracted

command == <<step, todo, size, total, files, zipped, bucket>>
nodeVars == <<job, payload, scanned, root>>
vars == <<tree, edits, command, nodeVars>>

(* Contents: a function from the names read or written so far.             *)
Nothing == [f \in {} |-> 0]
With(contents, f, bytes) ==
    [g \in DOMAIN contents \cup {f} |-> IF g = f THEN bytes ELSE contents[g]]

(* Their sizes added up: the bytes of all files, each counted once.        *)
Bytes(contents) ==
    Cardinality({b \in (DOMAIN contents) \X (1..MaxSize) : b[2] <= contents[b[1]]})

Present == {f \in Files : tree[f] # Absent}

Init ==
    /\ tree \in Trees
    /\ edits = 0
    /\ step = "list"
    /\ todo = {}
    /\ size = 0
    /\ total = 0
    /\ files = Nothing
    /\ zipped = 0
    /\ bucket \in {"none", "private", "public"}
    /\ job = [n \in Nodes |-> "none"]
    /\ payload = [n \in Nodes |-> Nothing]
    /\ scanned = [n \in Nodes |-> {}]
    /\ root = [n \in Nodes |-> Nothing]

(***************************************************************************)
(* The owner of the working tree: writes or removes a regular file.        *)
(***************************************************************************)
Edit ==
    /\ edits < MaxEdits
    /\ step \in {"check", "stat", "read"}
    /\ \E f \in Files, s \in 0..MaxSize \cup {Absent} :
          /\ tree[f] \notin {Link, s}
          /\ tree' = [tree EXCEPT ![f] = s]
    /\ edits' = edits + 1
    /\ UNCHANGED <<command, nodeVars>>

(***************************************************************************)
(* package_project.                                                        *)
(***************************************************************************)
ListProjectTracked ==   \* a plausible bug: git is not asked for the others
    /\ step = "list"
    /\ todo' = Tracked \ Ignored
    /\ step' = "check"
    /\ UNCHANGED <<tree, edits, size, total, files, zipped, bucket, nodeVars>>
ListProject ==
    /\ step = "list"
    /\ todo' = (Tracked \cup Present) \ Ignored
    /\ step' = "check"
    /\ UNCHANGED <<tree, edits, size, total, files, zipped, bucket, nodeVars>>

Refuse ==
    /\ step' = "refused"
    /\ UNCHANGED <<tree, edits, todo, size, total, files, zipped, bucket, nodeVars>>

(* require_safe_project_file: skips secrets and deleted files.             *)
SkipFile ==
    /\ step = "check" /\ todo # {}
    /\ Min(todo) \in Secret \/ tree[Min(todo)] = Absent
    /\ todo' = todo \ {Min(todo)}
    /\ UNCHANGED <<tree, edits, step, size, total, files, zipped, bucket, nodeVars>>

RefuseFile ==
    /\ step = "check" /\ todo # {}
    /\ Min(todo) \notin Secret /\ tree[Min(todo)] = Link
    /\ Refuse

TakeFile ==
    /\ step = "check" /\ todo # {}
    /\ Min(todo) \notin Secret /\ tree[Min(todo)] >= 0
    /\ step' = "stat"
    /\ UNCHANGED <<tree, edits, todo, size, total, files, zipped, bucket, nodeVars>>

WithinBudget(bytes, count) == bytes <= MaxBytes /\ count <= MaxFiles

(* A vanished file is an error of stat; the budget counts the size it saw. *)
StatFile ==
    /\ step = "stat"
    /\ tree[Min(todo)] # Absent
    /\ size' = tree[Min(todo)]
    /\ total' = total + tree[Min(todo)]
    /\ step' = IF WithinBudget(total', Cardinality(DOMAIN files) + 1)
               THEN "read" ELSE "refused"
    /\ UNCHANGED <<tree, edits, todo, files, zipped, bucket, nodeVars>>

(* The content is whatever the file holds now.                             *)
ReadFile ==
    /\ step = "read"
    /\ tree[Min(todo)] # Absent
    /\ files' = With(files, Min(todo), tree[Min(todo)])
    /\ todo' = todo \ {Min(todo)}
    /\ step' = "check"
    /\ UNCHANGED <<tree, edits, size, total, zipped, bucket, nodeVars>>

FileVanished ==
    /\ step \in {"stat", "read"}
    /\ tree[Min(todo)] = Absent
    /\ Refuse

HasInputs == Required \subseteq DOMAIN files

(* The compressor decides the length; PackagePlan may refuse the contents  *)
(* of the required files (RefusePackage).                                  *)
Archive ==
    /\ step = "check" /\ todo = {}
    /\ HasInputs
    /\ \E length \in 0..(MaxArchive + 1) :
          /\ zipped' = length
          /\ step' = IF length > MaxArchive THEN "refused" ELSE "bucket"
    /\ UNCHANGED <<tree, edits, todo, size, total, files, bucket, nodeVars>>

RefusePackage ==
    /\ step = "check" /\ todo = {}
    /\ Refuse

(***************************************************************************)
(* prepare_spec.  create_bucket leaves the visibility of a bucket that     *)
(* exists as it is; the check asks for what the bucket really is.          *)
(***************************************************************************)
CreateBucket ==
    /\ step = "bucket"
    /\ bucket' = IF bucket = "none" THEN "private" ELSE bucket
    /\ step' = "verify"
    /\ UNCHANGED <<tree, edits, todo, size, total, files, zipped, nodeVars>>

VerifyBucketTrusting ==   \* a plausible bug: create_bucket is believed
    /\ step = "verify"
    /\ step' = "upload"
    /\ UNCHANGED <<tree, edits, todo, size, total, files, zipped, bucket, nodeVars>>
VerifyBucket ==
    /\ step = "verify"
    /\ step' = IF bucket = "private" THEN "upload" ELSE "refused"
    /\ UNCHANGED <<tree, edits, todo, size, total, files, zipped, bucket, nodeVars>>

(* Any call to the Hub may fail; nothing is submitted then.                *)
HubFails ==
    /\ step \in {"bucket", "verify", "upload"}
    /\ Refuse

Upload ==
    /\ step = "upload"
    /\ step' = "staged"
    /\ UNCHANGED <<tree, edits, todo, size, total, files, zipped, bucket, nodeVars>>

(* Every Job gets the same bootstrap command, checksum and mount.          *)
Launch(n) ==
    /\ step = "staged"
    /\ job[n] = "none"
    /\ job' = [job EXCEPT ![n] = "booting"]
    /\ UNCHANGED <<tree, edits, command, payload, scanned, root>>

(***************************************************************************)
(* bootstrap.py in one Job.                                                *)
(***************************************************************************)
(* A copy that lost a member, in the bucket or on its way through the      *)
(* mount.                                                                  *)
Damaged == {[f \in DOMAIN files \ {g} |-> files[f]] : g \in DOMAIN files}

ReadPayload(n) ==
    /\ job[n] = "booting"
    /\ \E read \in {files} \cup Damaged :
          payload' = [payload EXCEPT ![n] = read]
    /\ job' = [job EXCEPT ![n] = "verifying"]
    /\ UNCHANGED <<tree, edits, command, scanned, root>>

(* require_verified_payload.                                               *)
VerifyPayloadUnhashed(n) ==   \* a plausible bug: only the length is verified
    /\ job[n] = "verifying"
    /\ job' = [job EXCEPT ![n] = IF zipped > MaxArchive THEN "limits" ELSE "scanning"]
    /\ UNCHANGED <<tree, edits, command, payload, scanned, root>>
VerifyPayload(n) ==
    /\ job[n] = "verifying"
    /\ job' = [job EXCEPT ![n] = CASE zipped > MaxArchive -> "limits"
                                   [] payload[n] # files -> "mismatch"
                                   [] OTHER -> "scanning"]
    /\ UNCHANGED <<tree, edits, command, payload, scanned, root>>

Members(n) == DOMAIN payload[n] \ scanned[n]

(* require_extraction_budget, for one more member.                         *)
ScanMemberTwice(n) ==   \* a plausible bug: the member is counted twice
    LET seen == scanned[n] \cup {Min(Members(n))} IN
    /\ job[n] = "scanning" /\ Members(n) # {}
    /\ scanned' = [scanned EXCEPT ![n] = seen]
    /\ IF WithinBudget(Bytes([f \in seen |-> payload[n][f]]), Cardinality(seen) + 1)
       THEN UNCHANGED job
       ELSE job' = [job EXCEPT ![n] = "limits"]
    /\ UNCHANGED <<tree, edits, command, payload, root>>
ScanMember(n) ==
    LET seen == scanned[n] \cup {Min(Members(n))} IN
    /\ job[n] = "scanning" /\ Members(n) # {}
    /\ scanned' = [scanned EXCEPT ![n] = seen]
    /\ IF WithinBudget(Bytes([f \in seen |-> payload[n][f]]), Cardinality(seen))
       THEN UNCHANGED job
       ELSE job' = [job EXCEPT ![n] = "limits"]
    /\ UNCHANGED <<tree, edits, command, payload, root>>

(* One member is written; the disk may fail at any of them.                *)
ExtractMemberAtOnce(n) ==   \* a plausible bug: members are written as they come
    LET left == DOMAIN payload[n] \ DOMAIN root[n] IN
    /\ job[n] = "scanning" /\ left # {}
    /\ \/ /\ root' = [root EXCEPT ![n] = With(@, Min(left), payload[n][Min(left)])]
          /\ UNCHANGED job
       \/ /\ job' = [job EXCEPT ![n] = "failed"]
          /\ UNCHANGED root
    /\ UNCHANGED <<tree, edits, command, payload, scanned>>
ExtractMember(n) ==
    LET left == DOMAIN payload[n] \ DOMAIN root[n] IN
    /\ job[n] = "scanning" /\ Members(n) = {} /\ left # {}
    /\ \/ /\ root' = [root EXCEPT ![n] = With(@, Min(left), payload[n][Min(left)])]
          /\ UNCHANGED job
       \/ /\ job' = [job EXCEPT ![n] = "failed"]
          /\ UNCHANGED root
    /\ UNCHANGED <<tree, edits, command, payload, scanned>>

(* uv sync --locked, then exec.                                            *)
StartRunner(n) ==
    /\ job[n] = "scanning" /\ Members(n) = {}
    /\ DOMAIN root[n] = DOMAIN payload[n]
    /\ \E end \in {"running", "failed"} : job' = [job EXCEPT ![n] = end]
    /\ UNCHANGED <<tree, edits, command, payload, scanned, root>>

Node(n) ==
    \/ ReadPayload(n) \/ VerifyPayload(n) \/ ScanMember(n)
    \/ ExtractMember(n) \/ StartRunner(n)

Command ==
    \/ ListProject \/ SkipFile \/ RefuseFile \/ TakeFile \/ StatFile \/ ReadFile
    \/ FileVanished \/ Archive \/ RefusePackage
    \/ CreateBucket \/ VerifyBucket \/ HubFails \/ Upload

Next ==
    \/ Edit
    \/ Command
    \/ \E n \in Nodes : Launch(n) \/ Node(n)

Spec == Init /\ [][Next]_vars
-----------------------------------------------------------------------------
(* The shape of the state.                                                 *)
TypeOK ==
    /\ \A f \in Files : tree[f] \in {Link, Absent} \cup 0..MaxSize
    /\ todo \subseteq Files \ Ignored
    /\ total \in Nat /\ size \in 0..MaxSize
    /\ DOMAIN files \subseteq Files
    /\ \A n \in Nodes :
          /\ DOMAIN root[n] \subseteq scanned[n]
          /\ scanned[n] \subseteq DOMAIN payload[n]
          /\ DOMAIN payload[n] \subseteq DOMAIN files

(* Source leaves the machine only whole and only to a private place: once  *)
(* it is uploaded it holds every required input and no ignored or secret   *)
(* file, and the bucket that holds it is private, whoever created it.      *)
StagedIsFit ==
    step = "staged" =>
        /\ Required \subseteq DOMAIN files
        /\ DOMAIN files \cap (Ignored \cup Secret) = {}
        /\ bucket = "private"

(* "Snapshot working-tree files, not HEAD": a tree nobody edits meanwhile  *)
(* is shipped file for file, tracked or not, without the deleted ones.     *)
QuietTreeIsShippedWhole ==
    (step = "staged" /\ edits = 0) =>
        files = [f \in Present \ (Ignored \cup Secret) |-> tree[f]]

(* A runner starts on exactly what was packaged, on every node, however    *)
(* its bootstrap was interrupted and whatever the mount delivered.         *)
RunnersShareTheSource ==
    \A n \in Nodes : job[n] = "running" => root[n] = files

(* The budgets of the packager and of bootstrap agree: a paid node refuses *)
(* source the command accepted only if a file grew after its size was      *)
(* counted.                                                                *)
RefusedOnlyIfGrown ==
    \A n \in Nodes : job[n] = "limits" => Bytes(files) > total

(* "Bound both upload size and extracted working-tree size.": what is      *)
(* staged stays within the limits.                                         *)
StagedWithinLimits ==
    step = "staged" => Bytes(files) <= MaxBytes /\ Cardinality(DOMAIN files) <= MaxFiles
=============================================================================
