------------------------- MODULE LauncherRefinement -------------------------
(***************************************************************************)
(* hfdask run, with crashes, interrupts and recovery, keeps the promises   *)
(* of PaidCapacity.  The ledger is what the manifest file names; a launch  *)
(* has stopped once an exception is handled or the process has ended.      *)
(***************************************************************************)
EXTENDS Launcher

Mode ==
    CASE exit = "0" -> "succeeded"
      [] pc = "released" -> "released"
      [] exit # "0" /\ pc # "released" ->
            IF error # "none" \/ exit # "none" THEN "stopped" ELSE "launching"

Capacity == INSTANCE PaidCapacity WITH
    Id <- 1..NodeCount, created <- Created, live <- Live,
    ledger <- Recorded, mode <- Mode

(* Every behaviour of the launcher is one of the contract: see PaidCapacity.*)
KeepsPromises == Capacity!Spec
=============================================================================
