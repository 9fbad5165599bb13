---------------------------- MODULE MCEpaOwnership ----------------------------
(* Instances of EpaOwnership for TLC: a decides, b and c are only seen. *)
EXTENDS EpaOwnership
CONSTANTS a, b, c, e, f

\* Each of two EPAs has its own ranking of the replicas.
MCWeight == [k \in Epa |-> [r \in Replica |->
    IF k = e THEN CASE r = a -> 2 [] r = b -> 3 [] OTHER -> 1
             ELSE CASE r = a -> 3 [] r = b -> 1 [] OTHER -> 2]]
=============================================================================
