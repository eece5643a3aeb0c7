---------------------------- MODULE MCAdmission -----------------------------
(* Launch arguments and machines for the run of Admission, with a limit of *)
(* three Jobs: below, at and above it in both ways of counting.            *)
EXTENDS Admission, TLC

(* All graphs over the declared groups, and over undeclared names; hfdask  *)
(* is required by the project, by one group or by none.                    *)
MCProjects ==
    UNION {
        {[declared |-> D, includes |-> f, provides |-> {}, base |-> TRUE]
            : f \in [D -> SUBSET Groups]}
        \cup {[declared |-> D, includes |-> f, provides |-> P, base |-> FALSE]
            : f \in [D -> SUBSET Groups],
              P \in {Q \in SUBSET D : Cardinality(Q) <= 1}}
        : D \in SUBSET Groups}

Group(f, n) == [flavor |-> f, count |-> n, tags |-> {f}]

WorkerGroups ==
    {None, <<>>}
        \cup {<<Group("cpu", n)>> : n \in 0..3}
        \cup {<<Group("cpu", n), Group("gpu", k)>> : n, k \in 1..2}

Arguments ==
    [persistent : BOOLEAN, entrypoint : BOOLEAN, workers : 0..4,
     scheduler_worker : BOOLEAN, flavor : {"basic"},
     scheduler_flavor : {None, "small"}, worker_flavor : {None, "large"},
     worker_groups : WorkerGroups, memory_limit : {AutoLimit, 0, 2}]

(* Homogeneous launches vary in the count and the flavors, grouped ones in *)
(* the groups; the limit of the workers' memory is varied on its own.      *)
MCInputs ==
    {i \in Arguments :
        /\ i.worker_groups # None => i.workers = 2 /\ i.scheduler_flavor = None
        /\ i.memory_limit # AutoLimit => i.workers = 2 /\ ~i.persistent /\ i.worker_flavor = None}

Machine(cpu, quotas, ram, limits, gpus, visible, smi, mig) ==
    [affinity |-> cpu, quotas |-> quotas, ram |-> ram, ramLimits |-> limits,
     gpus |-> gpus, visible |-> visible, smi |-> smi, mig |-> mig]

(* A CPU machine under a quota of three and a half cores and a memory      *)
(* limit; a lone core; half a core; one GPU, none or two of them visible;  *)
(* more GPUs than cores; a token that matches two; a partitioned GPU.      *)
MCMachines ==
    {Machine(8, {7}, 40, {31}, <<>>, Unset, FALSE, FALSE),
     Machine(2, {}, 19, {}, <<>>, Unset, TRUE, FALSE),
     Machine(4, {1}, 19, {}, <<>>, Unset, FALSE, FALSE),
     Machine(6, {}, 25, {}, <<"a">>, Unset, TRUE, FALSE),
     Machine(6, {}, 25, {}, <<"a", "b">>, <<{"b"}, {"a"}>>, TRUE, FALSE),
     Machine(4, {}, 19, {}, <<"a", "b", "c">>, Unset, TRUE, FALSE),
     Machine(4, {}, 19, {}, <<"a", "b">>, <<{"a", "b"}>>, TRUE, FALSE),
     Machine(6, {}, 25, {}, <<"a">>, Unset, TRUE, TRUE)}
=============================================================================
