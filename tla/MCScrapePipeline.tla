--------------------------- MODULE MCScrapePipeline ---------------------------
(* The scrape pipeline for TLC, in two situations that share a run: one EPA   *)
(* and two workers, either of which may hang; and two EPAs that compete for   *)
(* one worker, since the other hangs.                                         *)
EXTENDS ScrapePipeline

CONSTANTS
    First, Second,      \* two EPAs
    Hung,               \* a worker
    Ready,              \* the pods that may be ready at first
    MaxDisturbances     \* bound: faults, changes and removals together

\* Second was never registered.
OneEpa ==
    /\ epas[Second] = None /\ Second \notin scrapes /\ ready[Second] = {}
    /\ ready[First] \in {{}, Ready}
    /\ job = [w \in Worker |-> None]

\* Both are registered, owned and have their pods, and Hung is reading a body that
\* has no end, for an earlier life of First.
TwoEpas ==
    /\ \A e \in Epa : epas[e] # None /\ e \in scrapes /\ ready[e] = Ready
    /\ \E p \in Ready :
          job = [w \in Worker |->
                   IF w = Hung THEN [epa |-> First, pod |-> p, body |-> TRUE, live |-> FALSE]
                               ELSE None]

MCInit == Start /\ (OneEpa \/ TwoEpas)

\* Only First changes: which of the two it is makes no difference.
Unchanged(e) == epas'[e] = epas[e] /\ ready'[e] = ready[e] /\ (e \in scrapes' <=> e \in scrapes)

MCNext ==
    /\ Next
    /\ faults' + changes' + removals' <= MaxDisturbances
    /\ Unchanged(Second)
    /\ epas[Second] # None => job'[Hung] = job[Hung]

MCSpec == MCInit /\ [][MCNext]_vars /\ Fairness
=============================================================================
