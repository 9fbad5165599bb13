-------------------------- MODULE MCLeaseMembership --------------------------
(* Instances of LeaseMembership for TLC. *)
EXTENDS LeaseMembership, TLC

\* The safety runs do not distinguish the replicas.
Symmetry == Permutations(Replica)

\* A state every deployment reaches: all replicas up and seen by all, their
\* leases just renewed.  Runs about what happens next start here.
SettledInit ==
    /\ lease = [r \in Replica |-> [draining |-> FALSE, age |-> 0]]
    /\ net = {}
    /\ phase = [r \in Replica |-> "run"]
    /\ active = [r \in Replica |-> Replica]
    /\ draining = [r \in Replica |-> {}]
    /\ localDraining = [r \in Replica |-> FALSE]
    /\ list = [r \in Replica |-> NoList]
    /\ event = [r \in Replica |-> FALSE]
    /\ due = [r \in Replica |-> FALSE]
    /\ timer = [r \in Replica |-> RenewInterval]
    /\ left = [r \in Replica |-> 0]
    /\ starts = 0 /\ crashes = 0 /\ faults = 0

SettledSpec == SettledInit /\ [][PromptNext]_vars /\ WF_vars(Progress)
=============================================================================
