----------------------------- MODULE MCDeviceAuth -----------------------------
(* Small instances of DeviceAuth for TLC. *)
EXTENDS DeviceAuth, TLC

CONSTANTS f1, f2, k1, k2, k3, t1, t2, u1, u2

(* Tokens and workers are interchangeable: nothing compares them. *)
Symmetry == Permutations(Tokens) \cup Permutations(Workers)

(* Bound: the second code is asked for once the machine has been removed, and   *)
(* spares the last tick.                                                          *)
AgainWhenRemoved ==
    /\ flow[f2].st = "none" /\ flow'[f2].st # "none" => dev[u1] = "revoked"
    /\ now' = MaxNow => flow'[f2].st = "none"
=============================================================================
