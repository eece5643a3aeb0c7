---------------------------- MODULE MCPersistent ----------------------------
(* Two clients and two clusters, of two and of three Jobs.  The clients    *)
(* name one cluster; or one each; or one of them has the other's           *)
(* credentials.                                                            *)
EXTENDS PersistentClient, TLC

CONSTANTS c1, c2, small, large

MCJobNodes == small :> 2 @@ large :> 3

Given(m, k) == [manifest |-> m, credentials |-> k]

OneCluster == c1 :> Given(small, small) @@ c2 :> Given(small, small)

MCCalls == {
    OneCluster,
    c1 :> Given(small, small) @@ c2 :> Given(large, large),
    c1 :> Given(small, small) @@ c2 :> Given(large, small)}
=============================================================================
