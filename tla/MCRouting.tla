----------------------------- MODULE MCRouting -----------------------------
(* A node with a GPU and a free core (the first profile has the GPU) and a *)
(* node with another GPU, tagged A100 by its worker group; tasks for a GPU *)
(* by its tag alone, for a unit of the A100, for a unit wherever there is  *)
(* one, and one that names its own workers.                                *)
EXTENDS Routing, TLC

MCNannies == {<<1, 0>>, <<1, 1>>, <<2, 0>>}
MCTags == (<<1, 0>> :> {"GPU"}) @@ (<<1, 1>> :> {"CPU"}) @@ (<<2, 0>> :> {"GPU", "A100"})
MCSupply == (<<1, 0>> :> 1) @@ (<<1, 1>> :> 0) @@ (<<2, 0>> :> 1)
MCWanted == <<{"GPU"}, {"GPU", "A100"}, {}, {}>>
MCDemand == <<0, 1, 1, 0>>
=============================================================================
