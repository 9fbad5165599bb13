------------------------------ MODULE Rendezvous ------------------------------
(***************************************************************************)
(* Highest-random-weight hashing: highest_weight_replica and               *)
(* compute_weight of src/src/membership/ownership.rs.                      *)
(*                                                                         *)
(* A weight is a 64-bit FNV-1a hash of (replica id, EPA key), the same on  *)
(* every replica.  max_by_key over a HashSet takes the last of several     *)
(* maxima in an order that differs between processes, so the election is   *)
(* deterministic only if no two replicas collide on an EPA.  The model     *)
(* assumes that (NoTies); with a tie two replicas could both be elected.   *)
(***************************************************************************)
EXTENDS Naturals

CONSTANTS
    Replica,    \* replica ids (POD_UIDs)
    Epa,        \* EPA keys (namespace/name)
    MaxWeight,  \* u64::MAX
    Weight,     \* compute_weight(replica, epa), as Weight[epa][replica]
    Nobody      \* None

ASSUME WeightAssumption ==
    /\ MaxWeight \in Nat
    /\ Weight \in [Epa -> [Replica -> 0 .. MaxWeight]]

ASSUME NoTies ==
    \A e \in Epa : \A r, s \in Replica : Weight[e][r] = Weight[e][s] => r = s

ASSUME NobodyAssumption == Nobody \notin Replica

\* (Mutant: min_by_key for max_by_key.)
LowestWeight(replicas, e) ==
    IF replicas = {} THEN Nobody
    ELSE CHOOSE r \in replicas : \A s \in replicas : Weight[e][r] <= Weight[e][s]

HighestWeight(replicas, e) ==
    IF replicas = {} THEN Nobody
    ELSE CHOOSE r \in replicas : \A s \in replicas : Weight[e][s] <= Weight[e][r]
=============================================================================
