---------------------------- MODULE ManifestFile ----------------------------
(***************************************************************************)
(* The file at --manifest by the file system's steps: main creates it with *)
(* a placeholder, then save_manifest writes a temporary file, syncs it and *)
(* renames it over the manifest.  Launcher takes the creation and a save   *)
(* to be one step each that happens or not; this module is why it may.     *)
(*                                                                         *)
(* Unlike a kill, a power loss takes what was not synced: file data, and   *)
(* names, as the directory is synced when the kernel likes.  save_manifest *)
(* syncs the data it renames; main does not sync the placeholder.          *)
(***************************************************************************)
EXTENDS Integers

CONSTANT NodeCount  \* Jobs submitted, and so manifests saved

ASSUME ManifestFileAssumption == NodeCount \in Nat

(* What a reader of the path finds.  Saved(k) is a whole manifest that     *)
(* records k Jobs, Torn a part of one.                                     *)
Absent == [kind |-> "absent", jobs |-> 0]
Unfinished == [kind |-> "unfinished", jobs |-> 0]  \* a part of {}, or nothing
Blank == [kind |-> "blank", jobs |-> 0]            \* {}
Saved(k) == [kind |-> "saved", jobs |-> k]
Torn == [kind |-> "torn", jobs |-> -1]
Content == {Absent, Unfinished, Blank, Torn} \cup {Saved(k) : k \in 0..NodeCount}

VARIABLES
    pc,        \* what main or save_manifest does next; "main": neither is at it
    want,      \* the number of Jobs to save
    entry,     \* what a reader of the manifest's path finds
    durable,   \* what it may find after a power loss
    temp,      \* the temporary file: its content, and whether it is synced
    saved      \* how the last save ended: "none", "returned" or "raised"

vars == <<pc, want, entry, durable, temp, saved>>

NoFile == [data |-> Torn, synced |-> FALSE]

TypeOK ==
    /\ pc \in {"open", "placeholder", "main", "create", "write", "sync", "replace", "ended"}
    /\ want \in 0..NodeCount
    /\ entry \in Content /\ durable \subseteq Content
    /\ temp \in [data : Content, synced : BOOLEAN]
    /\ saved \in {"none", "returned", "raised"}

Init ==
    /\ pc = "open" /\ want = 0 /\ entry = Absent /\ durable = {Absent}
    /\ temp = NoFile /\ saved = "none"

-----------------------------------------------------------------------------
(* main: with manifest.open("x") as output: output.write("{}\n").          *)

OpenManifest ==
    /\ pc = "open" /\ pc' = "placeholder"
    /\ entry' = Unfinished
    /\ durable' = durable \cup {Unfinished}
    /\ UNCHANGED <<want, temp, saved>>

WritePlaceholder ==
    /\ pc = "placeholder" /\ pc' = "main"
    /\ entry' = Blank
    /\ durable' = durable \cup {Blank}
    /\ UNCHANGED <<want, temp, saved>>

(* An error or an interrupt: there is no cluster yet, and main returns.    *)
SetupFails ==
    /\ pc \in {"open", "placeholder"} /\ pc' = "ended"
    /\ UNCHANGED <<want, entry, durable, temp, saved>>

-----------------------------------------------------------------------------
(* Fault: the LaunchError may bring a cluster without handles, which main  *)
(* saves.                                                                  *)
CallEmptied ==
    /\ pc = "main"
    /\ want' \in {0, want, want + 1} /\ want' <= NodeCount
    /\ pc' = "create" /\ saved' = "none"
    /\ UNCHANGED <<entry, durable, temp>>

(* One save after each Job, and one more in main's handler.                *)
Call ==
    /\ pc = "main"
    /\ want' \in {want, want + 1} /\ want' <= NodeCount
    /\ pc' = "create" /\ saved' = "none"
    /\ UNCHANGED <<entry, durable, temp>>

Create ==
    /\ pc = "create" /\ pc' = "write"
    /\ temp' = NoFile
    /\ UNCHANGED <<want, entry, durable, saved>>

(* Fault: the manifest is written before the handle is appended and counts *)
(* the Job to come.                                                        *)
WriteAhead ==
    /\ pc = "write" /\ pc' = "sync"
    /\ temp' = [temp EXCEPT !.data = Saved(want + 1)]
    /\ UNCHANGED <<want, entry, durable, saved>>

(* json.dump, the newline, flush.                                          *)
Write ==
    /\ pc = "write" /\ pc' = "sync"
    /\ temp' = [temp EXCEPT !.data = Saved(want)]
    /\ UNCHANGED <<want, entry, durable, saved>>

(* Fault: no fsync.                                                        *)
SyncForgotten ==
    /\ pc = "sync" /\ pc' = "replace"
    /\ UNCHANGED <<want, entry, durable, temp, saved>>

Sync ==
    /\ pc = "sync" /\ pc' = "replace"
    /\ temp' = [temp EXCEPT !.synced = TRUE]
    /\ UNCHANGED <<want, entry, durable, saved>>

Replace ==
    /\ pc = "replace"
    /\ entry' = temp.data
    /\ durable' = durable \cup {temp.data} \cup (IF temp.synced THEN {} ELSE {Torn})
    /\ pc' = "main" /\ saved' = "returned" /\ temp' = NoFile
    /\ UNCHANGED want

(* Fault: a failing write is not noticed, and what there is replaces the   *)
(* manifest.                                                               *)
FailsUnnoticed ==
    /\ pc \in {"create", "write", "sync", "replace"}
    /\ entry' = temp.data /\ durable' = durable \cup {Torn}
    /\ pc' = "main" /\ saved' = "raised" /\ temp' = NoFile
    /\ UNCHANGED want

(* An error or an interrupt: the temporary file goes, the manifest stays,  *)
(* or has been replaced if the interrupt came after the rename.            *)
Fails ==
    /\ pc \in {"create", "write", "sync", "replace"}
    /\ pc' = "main" /\ saved' = "raised" /\ temp' = NoFile
    /\ UNCHANGED <<want, entry, durable>>

InterruptedAfterReplace ==
    /\ pc = "main" /\ saved = "returned"
    /\ saved' = "raised"
    /\ UNCHANGED <<pc, want, entry, durable, temp>>

-----------------------------------------------------------------------------
Kill ==
    /\ pc # "ended" /\ pc' = "ended"
    /\ UNCHANGED <<want, entry, durable, temp, saved>>

(* The directory's sync does not wait for the placeholder's data.          *)
DirectorySynced ==
    /\ durable' = {entry} \/ (entry = Blank /\ durable' = {Blank, Unfinished})
    /\ UNCHANGED <<pc, want, entry, temp, saved>>

PowerLoss ==
    /\ pc # "ended" /\ pc' = "ended"
    /\ entry' \in durable
    /\ durable' = {entry'}
    /\ UNCHANGED <<want, temp, saved>>

CreateNext == OpenManifest \/ WritePlaceholder \/ SetupFails

SaveNext == Create \/ Write \/ Sync \/ Replace \/ Fails \/ InterruptedAfterReplace

Next == CreateNext \/ Call \/ SaveNext \/ Kill \/ DirectorySynced \/ PowerLoss

Spec == Init /\ [][Next]_vars

-----------------------------------------------------------------------------
(* What a save put at the path is whole for whoever reads it, after a kill *)
(* or a power loss too; and from the creation to the end of the process    *)
(* there is always the placeholder or a saved manifest to read.  (After a  *)
(* power loss there may be no file, or one that is not even the            *)
(* placeholder: neither the directory nor the placeholder is synced.)      *)
NeverTorn ==
    /\ Torn \notin durable \cup {entry}
    /\ pc \notin {"open", "placeholder", "ended"} => entry.kind \in {"blank", "saved"}

(* A power loss can take back saves; it never brings a manifest that       *)
(* records more Jobs than the last one readers saw.                        *)
LossOnlyTakesBack == \A c \in durable : c.jobs <= entry.jobs

(* save_manifest: "Atomic replacement".  Every behaviour is one of the     *)
(* register Launcher takes the file to be: what a crash leaves records     *)
(* some number of Jobs, 0 without a file, and is not torn (-1).            *)
Register == INSTANCE AtomicManifest WITH
    content <- entry.jobs,
    running <- pc \in {"create", "write", "sync", "replace"},
    ended <- pc = "ended"

ActsAtomically == Register!Spec
=============================================================================
