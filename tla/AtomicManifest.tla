--------------------------- MODULE AtomicManifest ---------------------------
(***************************************************************************)
(* A manifest that is saved in one step: what Launcher assumes of the file.*)
(* A save that returns has happened; one that raises has happened or not;  *)
(* a crash leaves the file as it is, or takes back saves.                  *)
(***************************************************************************)
EXTENDS Naturals

VARIABLES
    content,  \* the number of Jobs the manifest records
    want,     \* the number the save in progress, or the last one, records
    running,  \* a save is in progress
    saved,    \* how the last one ended: "none", "returned" or "raised"
    ended     \* the process has

vars == <<content, want, running, saved, ended>>

Init ==
    /\ content = 0 /\ want = 0
    /\ running = FALSE /\ saved = "none" /\ ended = FALSE

Call ==
    /\ ~running /\ ~ended
    /\ want' \in {want, want + 1}
    /\ running' = TRUE /\ saved' = "none"
    /\ UNCHANGED <<content, ended>>

Save ==
    /\ running /\ running' = FALSE
    /\ content' = want /\ saved' = "returned"
    /\ UNCHANGED <<want, ended>>

Fail ==
    /\ ~ended /\ (running \/ saved = "returned")
    /\ running' = FALSE /\ saved' = "raised"
    /\ UNCHANGED <<content, want, ended>>

Crash ==
    /\ ~ended /\ ended' = TRUE
    /\ running' = FALSE
    /\ content' \in 0..content
    /\ UNCHANGED <<want, saved>>

Next == Call \/ Save \/ Fail \/ Crash

Spec == Init /\ [][Next]_vars
=============================================================================
