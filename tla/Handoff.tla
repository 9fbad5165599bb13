------------------------------- MODULE Handoff --------------------------------
(***************************************************************************)
(* The handoff of EPAs between replicas: every replica runs EpaOwnership   *)
(* on its own view of the leases, and forwards the metric requests it      *)
(* should not serve (src/src/webhook/metrics/handlers.rs).                 *)
(*                                                                         *)
(* The leases are taken as LeaseMembership leaves them: one status per     *)
(* replica, seen by every live replica at most MaxLag ticks late.  Each    *)
(* scheduler processes each EPA once per tick, anywhere within it.         *)
(***************************************************************************)
EXTENDS EpaOwnership

CONSTANTS
    MaxLag,       \* a view is at most this many ticks behind the leases
    DrainTicks,   \* DRAIN_DURATION
    LeaseTicks,   \* how long the lease of a dead process stays valid, at most
    MaxJoins, MaxDrains, MaxCrashes,  \* bounds on membership changes
    Gap,          \* a drain begins at least this long after the last change
    MaxCalm       \* bound: the time since the last change saturates here

ASSUME AllLive == Live = Replica

ASSUME HandoffAssumption ==
    /\ {MaxLag, DrainTicks, LeaseTicks, MaxJoins, MaxDrains, MaxCrashes} \subseteq Nat
    /\ Gap \in Nat /\ MaxCalm \in Nat

VARIABLES
    status,   \* what the lease of each replica says
    up,       \* whose process is running
    left,     \* ticks left: of the drain, or of the lease of a dead process
    known,    \* the EPAs that exist, each with its period, or None
    ran,      \* what the schedulers have processed in this tick
    behind,   \* for how many ticks each replica has not known the latest
    calm,     \* ticks since the membership or the EPAs changed
    joins, drains, crashes

changes   == <<joins, drains, crashes>>
cluster   == <<status, up, left, known, calm, changes>>
clocks    == <<ran, behind>>
ownership == vars
allvars   == <<ownership, cluster, clocks>>

Status == {"absent", "active", "draining"}

\* The types of the cluster's variables; the others have those of TypeOK.
ClusterTypeOK ==
    /\ TypeOK
    /\ status \in [Replica -> Status]
    /\ up \in [Replica -> BOOLEAN]
    /\ left \in [Replica -> Nat]
    /\ known \in [Epa -> Period \cup {None}]
    /\ ran \subseteq Replica \X Epa
    /\ behind \in [Replica -> 0 .. MaxLag]
    /\ calm \in 0 .. MaxCalm
    /\ joins \in 0 .. MaxJoins /\ drains \in 0 .. MaxDrains /\ crashes \in 0 .. MaxCrashes

ClusterInit ==
    /\ Init
    /\ status = [r \in Replica |-> "absent"]
    /\ up = [r \in Replica |-> FALSE]
    /\ left = [r \in Replica |-> 0]
    /\ known = [e \in Epa |-> None]
    /\ ran = {} /\ behind = [r \in Replica |-> 0] /\ calm = 0
    /\ joins = 0 /\ drains = 0 /\ crashes = 0

-----------------------------------------------------------------------------
(* What replicas see. *)

Active   == {r \in Replica : status[r] = "active"}
Draining == {r \in Replica : status[r] = "draining"}

\* r has yet to see the leases as they are, or an EPA that exists.
Stale(r) ==
    \/ active[r] # Active \/ draining[r] # Draining
    \/ \E e \in Epa : epas[r][e] # known[e]

\* update_active_replicas, after a watch event.
See(r) ==
    /\ up[r]
    /\ ViewChange(r, Active, Draining)
    /\ UNCHANGED <<cluster, clocks>>

\* The controller of r reconciles an EPA: every replica upserts it.
Learn(r, e) ==
    /\ up[r] /\ known[e] # None
    /\ Upsert(r, e, known[e])
    /\ UNCHANGED <<cluster, clocks>>

\* One EPA of a tick of the scheduler of r.
Schedule(r, e) ==
    /\ up[r] /\ <<r, e>> \notin ran
    /\ Process(r, e)
    /\ ran' = ran \cup {<<r, e>>}
    /\ UNCHANGED <<cluster, behind>>

-----------------------------------------------------------------------------
(* Changes. *)

Create(e, p) ==
    /\ known[e] = None
    /\ known' = [known EXCEPT ![e] = p]
    /\ calm' = 0
    /\ UNCHANGED <<ownership, clocks, status, up, left, changes>>

\* A process starts, in a new pod or again in its own: it registers, then
\* reads the leases before its other tasks start.
Join(r) ==
    /\ ~up[r] /\ joins < MaxJoins
    /\ joins' = joins + 1
    /\ up' = [up EXCEPT ![r] = TRUE]
    /\ status' = [status EXCEPT ![r] = "active"]
    /\ left' = [left EXCEPT ![r] = 0]
    /\ ViewChange(r, Active \cup {r}, Draining \ {r})
    /\ calm' = 0
    /\ UNCHANGED <<clocks, known, drains, crashes>>

\* SIGTERM: the lease is labelled, the replica keeps running.
Drain(r) ==
    /\ up[r] /\ status[r] = "active" /\ drains < MaxDrains
    /\ calm >= Gap
    /\ drains' = drains + 1
    /\ status' = [status EXCEPT ![r] = "draining"]
    /\ left' = [left EXCEPT ![r] = DrainTicks]
    /\ calm' = 0
    /\ UNCHANGED <<ownership, clocks, up, known, joins, crashes>>

Gone(r) ==
    /\ Die(r)
    /\ up' = [up EXCEPT ![r] = FALSE]
    /\ calm' = 0
    /\ UNCHANGED <<clocks, known, joins, drains>>

\* The drain is over: the lease is deleted and the process exits.
Leave(r) ==
    /\ up[r] /\ status[r] = "draining" /\ left[r] = 0
    /\ status' = [status EXCEPT ![r] = "absent"]
    /\ Gone(r)
    /\ UNCHANGED <<left, crashes>>

\* The process dies; its lease stays until it expires.
Crash(r) ==
    /\ up[r] /\ crashes < MaxCrashes
    /\ crashes' = crashes + 1
    /\ left' = [left EXCEPT ![r] = LeaseTicks]
    /\ Gone(r)
    /\ UNCHANGED status

Expire(r) ==
    /\ ~up[r] /\ status[r] # "absent"
    /\ status' = [status EXCEPT ![r] = "absent"]
    /\ left' = [left EXCEPT ![r] = 0]
    /\ calm' = 0
    /\ UNCHANGED <<ownership, clocks, up, known, changes>>

\* A second passes: not before all schedulers have made their pass, nor over
\* the end of a drain or of a lease, nor with a view too old.
Ending(r) == left[r] = 0 /\ (IF up[r] THEN status[r] = "draining" ELSE status[r] # "absent")

Tick ==
    /\ \A r \in Replica :
          /\ ~Ending(r)
          /\ up[r] => /\ Stale(r) => behind[r] < MaxLag
                      /\ \A e \in Epa : epas[r][e] # None => <<r, e>> \in ran
    /\ Pass
    /\ ran' = {}
    /\ behind' = [r \in Replica |-> IF up[r] /\ Stale(r) THEN behind[r] + 1 ELSE 0]
    /\ left' = [r \in Replica |-> IF left[r] > 0 THEN left[r] - 1 ELSE 0]
    /\ calm' = IF calm < MaxCalm THEN calm + 1 ELSE calm
    /\ UNCHANGED <<status, up, known, changes>>

ClusterNext ==
    \/ \E r \in Replica :
          See(r) \/ Join(r) \/ Drain(r) \/ Leave(r) \/ Crash(r) \/ Expire(r)
    \/ \E r \in Replica, e \in Epa : Learn(r, e) \/ Schedule(r, e)
    \/ \E e \in Epa, p \in Period : Create(e, p)
    \/ Tick

ClusterSpec == ClusterInit /\ [][ClusterNext]_allvars

-----------------------------------------------------------------------------
(* Where a metric request goes. *)

\* Whom get_external_metric of r turns to: itself if it should serve, else the
\* owner, or the draining predecessor if it is the owner.
Target(r, e) ==
    IF ShouldServe(r, e) \/ Owner(r, e) = Nobody THEN r
    ELSE IF Owner(r, e) # r THEN Owner(r, e) ELSE PreviousOwner(r, e)

\* A forward needs the target's lease, for its address, and its process; if it
\* fails, r falls back to its own store.
Hop(r, e) ==
    LET t == Target(r, e) IN IF status[t] # "absent" /\ up[t] THEN t ELSE r

AnsweredBy(r, e) == Hop(Hop(r, e), e)

Asked == {r \in Replica : up[r] /\ active[r] # {}}

-----------------------------------------------------------------------------
(* Properties. *)

\* "Maximum two hops ... Cycles are impossible": whoever is reached after two
\* forwards answers itself, for every EPA that exists.
TwoHops ==
    \A r \in Asked, e \in Epa :
        known[e] # None => Hop(AnsweredBy(r, e), e) = AnsweredBy(r, e)

\* "The HPA continues receiving metrics based on a full evaluation window
\* throughout the transition", whichever replica it asks.
FullAnswer ==
    \A r \in Asked, e \in Epa : known[e] # None =>
        LET s == AnsweredBy(r, e) IN window[s][e] # None /\ window[s][e] >= known[e]

\* Nobody serves part of a window while the replica that owned the EPA before is
\* there to serve all of it: what docs/lease-membership.md says of any new owner
\* ("if a previous owner is still alive [...] the new owner waits"), and what
\* HandoffProofs proves of scaling down.  Of a join it does not hold: the newcomer
\* is its own predecessor (ownership.rs:202).
WaitsForPredecessor ==
    \A r, s \in Replica, e \in Epa :
        /\ known[e] # None /\ up[r] /\ up[s]
        /\ owned[r][e] # None /\ ShouldServe(r, e) /\ owned[r][e].elapsed < known[e]
        => ~(lost[s][e] # None /\ window[s][e] # None /\ window[s][e] >= known[e])

\* Within the lag, the grace period and a tick on each side of a change, just
\* the winner among the active replicas scrapes and serves an EPA: nobody else
\* does even while the lease of a winner that has died is valid.
Settles ==
    \A e \in Epa :
        known[e] # None /\ calm > MaxLag + known[e] + GraceBuffer + 1
        => \A r \in Replica : up[r] =>
              /\ ShouldScrape(r, e) <=> r = HighestWeight(Active, e)
              /\ ShouldServe(r, e) <=> r = HighestWeight(Active, e)

\* Whatever came before, as long after the last change the winner, if it runs,
\* has a full window, and whichever replica is asked turns to it at once.
Recovers ==
    \A e \in Epa, w \in Active :
        /\ w = HighestWeight(Active, e) /\ up[w]
        /\ known[e] # None /\ calm > MaxLag + known[e] + GraceBuffer + 1
        => /\ window[w][e] # None /\ window[w][e] >= known[e]
           /\ \A r \in Asked : Hop(r, e) = w
=============================================================================
