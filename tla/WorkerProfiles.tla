--------------------------- MODULE WorkerProfiles ---------------------------
(***************************************************************************)
(* hardware.py: what a node finds on its machine and how worker_profiles   *)
(* divides it among one-threaded workers.  A machine is a record of        *)
(*   affinity, quotas   CPUs in half cores: the affinity mask's and the    *)
(*                      cgroups' (a quota can be a fraction of a core)     *)
(*   ram, ramLimits     memory, the machine's and the cgroups'             *)
(*   smi, mig           nvidia-smi is there; a GPU is partitioned          *)
(*   gpus               the GPUs nvidia-smi lists                          *)
(*   visible            the tokens of CUDA_VISIBLE_DEVICES, each as the    *)
(*                      set of GPUs it matches, or Unset                   *)
(* What cannot be read from the files is in these records by assumption.   *)
(***************************************************************************)
EXTENDS Integers, Sequences, FiniteSets

CONSTANTS
    AutoLimit,   \* memory_limit="auto"
    Unset   \* no CUDA_VISIBLE_DEVICES

Least(S) == CHOOSE x \in S : \A y \in S : x <= y

(* detect: the tightest of all limits.                                     *)
HalfCores(m) == Least({m.affinity} \cup m.quotas)
Memory(m) == Least({m.ram} \cup m.ramLimits)

-----------------------------------------------------------------------------
(* gpu_inventory.                                                          *)

(* Devices hidden by an empty list are not looked for.                     *)
Hidden(m) == m.visible = <<>>
Listed(m) == m.visible # Unset

(* Each token must name exactly one GPU, and none of them twice.           *)
Ambiguous(m) ==
    \/ \E i \in DOMAIN m.visible : Cardinality(m.visible[i]) # 1
    \/ \E i, j \in DOMAIN m.visible : i # j /\ m.visible[i] = m.visible[j]

GpusUnreadable(m) ==
    /\ ~Hidden(m)
    /\ \/ Listed(m) /\ ~m.smi
       \/ m.smi /\ m.mig
       \/ Listed(m) /\ Ambiguous(m)

GpuCount(m) ==
    IF Listed(m) THEN Len(m.visible) ELSE IF m.smi THEN Len(m.gpus) ELSE 0

Gpu(m, i) == IF Listed(m) THEN CHOOSE g \in m.visible[i] : TRUE ELSE m.gpus[i]

-----------------------------------------------------------------------------
(* worker_profiles.  reserve is 1 where the scheduler keeps a core.        *)

AvailableCores(m) == HalfCores(m) \div 2
WorkerCount(m, reserve) == AvailableCores(m) - reserve

(* The tests a node fails: any of them raises.  They come in this order.   *)
Refusals(m, limit, reserve) ==
    {r \in {"capacity", "gpus", "memory_limit", "cores", "too_many_gpus"} :
        \/ r = "capacity" /\ (HalfCores(m) <= 0 \/ Memory(m) <= 0)
        \/ r = "gpus" /\ GpusUnreadable(m)
        \/ r = "memory_limit" /\ limit = 0
        \/ r = "cores" /\ AvailableCores(m) < 1
        \/ /\ r = "too_many_gpus"
           /\ WorkerCount(m, reserve) > 0 /\ GpuCount(m) > WorkerCount(m, reserve)}

(* int(ram_bytes * 0.8 / count), in the units of the machine's record.     *)
AutoShare(ram, count) == (8 * ram) \div (10 * count)

(* Fault: each worker is given the whole allowance.                        *)
ShareUndivided(m, limit, reserve) ==
    LET auto == AutoShare(Memory(m), 1)
    IN  IF limit = AutoLimit THEN auto ELSE Least({auto, limit})

Share(m, limit, reserve) ==
    LET auto == AutoShare(Memory(m), WorkerCount(m, reserve))
    IN  IF limit = AutoLimit THEN auto ELSE Least({auto, limit})

(* The first workers get one GPU each.  Nothing to divide, no profiles.    *)
Profiles(m, limit, reserve) ==
    [i \in 1..WorkerCount(m, reserve) |->
        [memory_limit |-> Share(m, limit, reserve),
         gpu |-> IF i <= GpuCount(m) THEN {Gpu(m, i)} ELSE {}]]
=============================================================================
