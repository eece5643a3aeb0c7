---------------------------- MODULE PaidCapacity ----------------------------
(***************************************************************************)
(* What a launch promises about money, without control flow: Jobs are      *)
(* created one at a time and only while every earlier one is in the        *)
(* ledger (the manifest), creation ends for good at the first trouble, and *)
(* the two claims a process can make, success and release, are true when   *)
(* they are made.                                                          *)
(***************************************************************************)
EXTENDS Naturals, FiniteSets

CONSTANT Id  \* one Job per node: their ids, should all be created

VARIABLES
    created,  \* the Jobs that exist at the service
    live,     \* those that cost money
    ledger,   \* those the ledger names
    mode      \* "launching", "stopped", "succeeded" or "released"

vars == <<created, live, ledger, mode>>

Init == created = {} /\ live = {} /\ ledger = {} /\ mode = "launching"

MayStop == mode' = mode \/ (mode = "launching" /\ mode' = "stopped")

Create ==
    /\ mode = "launching" /\ created = ledger
    /\ \E id \in Id \ created :
        /\ created' = created \cup {id}
        /\ live' = live \cup {id}
    /\ MayStop
    /\ UNCHANGED ledger

Record ==
    /\ \E id \in created \ ledger : ledger' = ledger \cup {id}
    /\ mode \in {"launching", "stopped"} /\ MayStop
    /\ UNCHANGED <<created, live>>

Release ==
    /\ \E id \in live : live' = live \ {id}
    /\ UNCHANGED <<created, ledger, mode>>

Stop ==
    /\ mode = "launching" /\ mode' = "stopped"
    /\ UNCHANGED <<created, live, ledger>>

ClaimSuccess ==
    /\ mode = "launching" /\ mode' = "succeeded"
    /\ created = Id /\ ledger = Id /\ live = {}
    /\ UNCHANGED <<created, live, ledger>>

ClaimRelease ==
    /\ mode = "stopped" /\ mode' = "released"
    /\ ledger \cap live = {}
    /\ UNCHANGED <<created, live, ledger>>

Next ==
    \/ Create \/ Record \/ Release \/ Stop
    \/ ClaimSuccess \/ ClaimRelease

Spec == Init /\ [][Next]_vars
=============================================================================
