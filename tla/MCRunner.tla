------------------------------ MODULE MCRunner ------------------------------
(* Worker counts for the runs of Runner.                                   *)
EXTENDS Runner, TLC

(* Machines of different sizes, and a coordinator with and without workers.*)
Mixed == {0 :> own @@ 1 :> 2 @@ 2 :> 1 : own \in 0..1}

(* One Job with scheduler_worker and one core: worker_profiles leaves the  *)
(* core to the scheduler and returns no profile.                           *)
OneCore == {0 :> 0}
=============================================================================
