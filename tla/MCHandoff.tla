------------------------------- MODULE MCHandoff ------------------------------
(* Instances of Handoff for TLC. *)
EXTENDS Handoff
CONSTANTS a, b, c, e,
          Initially,   \* who is running, for long, at first
          P            \* the period of e, at first, or None if e is to be created

\* a outweighs b, b outweighs c.
MCWeight == [k \in Epa |-> [r \in Replica |->
    CASE r = a -> 3 [] r = b -> 2 [] OTHER -> 1]]

Winner == HighestWeight(Initially, e)

\* Where ClusterInit leads when Initially joins, e is created with period P and
\* nothing changes for long.
SettledInit ==
    /\ status = [r \in Replica |-> IF r \in Initially THEN "active" ELSE "absent"]
    /\ up = [r \in Replica |-> r \in Initially]
    /\ active = [r \in Live |-> IF r \in Initially THEN Initially ELSE {}]
    /\ draining = [r \in Live |-> {}]
    /\ known = [k \in Epa |-> P]
    /\ epas = [r \in Live |-> [k \in Epa |-> IF r \in Initially THEN P ELSE None]]
    /\ owned = [r \in Live |-> [k \in Epa |->
                   IF r = Winner /\ P # None THEN [elapsed |-> MaxElapsed, period |-> P]
                   ELSE None]]
    /\ window = [r \in Live |-> [k \in Epa |->
                   IF r = Winner /\ P # None THEN MaxElapsed ELSE None]]
    /\ lost = [r \in Live |-> [k \in Epa |-> None]]
    /\ left = [r \in Replica |-> 0] /\ ran = {} /\ behind = [r \in Replica |-> 0]
    /\ calm = MaxCalm /\ deletes = 0 /\ joins = 0 /\ drains = 0 /\ crashes = 0

SettledSpec == SettledInit /\ [][ClusterNext]_allvars
=============================================================================
