--------------------------- MODULE ControllerSync ---------------------------
(***************************************************************************)
(* How the replicas follow one ExternalPodAutoscaler (EPA): every replica  *)
(* runs the controller of src/src/controller/externalpodautoscaler, and    *)
(* tells its scraper about the EPA through a bounded channel; the one that *)
(* owns the EPA also applies its HorizontalPodAutoscaler (HPA).            *)
(*                                                                         *)
(* A version stands for a uid with a generation: the API server gives a    *)
(* new one to each creation, edit and mark for deletion.  0 is "none".     *)
(***************************************************************************)
EXTENDS Integers, Sequences

CONSTANTS
    Replica,
    QueueSize,    \* capacity of the channel to the scraper (1000)
    MaxVersion,   \* bound: creations, edits and marks for deletion
    MaxFaults,    \* bound: API calls that fail
    MaxCrashes,   \* bound: processes that crash and restart
    MaxMoves      \* bound: changes of who believes to own the EPA

ASSUME SyncAssumption ==
    /\ QueueSize \in Nat \ {0}
    /\ {MaxVersion, MaxFaults, MaxCrashes, MaxMoves} \subseteq Nat

VARIABLES
    \* The API server.
    version,   \* the last version given out
    object,    \* the version of the EPA, or 0
    marked,    \* the EPA has a deletionTimestamp
    born,      \* the version the EPA of the last name was created with
    hpa,       \* the version the HPA was last applied from, or 0
    \* Each replica.
    owner,     \* is_epa_owner, from the replica's own view
    seen,      \* the version the predicate filter let through last
    pending,   \* a reconcile is due
    pc, job,   \* where the running reconcile is, and what it observed
    queue,     \* the channel of EpaUpdates
    active,    \* the entry of active_epas, or 0
    work,      \* the entry the scheduler and the workers still work on, or 0
    windows,   \* the metrics store holds windows of the EPA
    \* Bounds.
    faults, crashes, moves

server  == <<version, object, marked, born>>
control == <<seen, pending, pc, job>>
scraper == <<active, work>>
bounds  == <<faults, crashes, moves>>
vars == <<server, hpa, owner, control, queue, scraper, windows, bounds>>

Version == 1 .. MaxVersion
Seen    == [version : Version, deleting : BOOLEAN]
Nothing == [version |-> 0, deleting |-> FALSE]
Stage   == {"idle", "observed", "applying", "sending", "deleting", "clearing"}

TypeOK ==
    /\ version \in 0 .. MaxVersion /\ object \in 0 .. MaxVersion
    /\ born \in 0 .. MaxVersion /\ hpa \in 0 .. MaxVersion
    /\ marked \in BOOLEAN
    /\ owner \in [Replica -> BOOLEAN]
    /\ seen \in [Replica -> 0 .. MaxVersion]
    /\ pending \in [Replica -> BOOLEAN]
    /\ pc \in [Replica -> Stage]
    /\ job \in [Replica -> Seen \cup {Nothing}]
    /\ queue \in [Replica -> Seq(Seen)]
    /\ \A r \in Replica : Len(queue[r]) <= QueueSize
    /\ active \in [Replica -> 0 .. MaxVersion]
    /\ work \in [Replica -> 0 .. MaxVersion]
    /\ windows \in [Replica -> BOOLEAN]
    /\ faults \in 0 .. MaxFaults /\ crashes \in 0 .. MaxCrashes
    /\ moves \in 0 .. MaxMoves

\* r, and only r, believes to own the EPA.
OnlyOwner(r) == \A q \in Replica : owner[q] <=> q = r

Init ==
    /\ version = 0 /\ object = 0 /\ born = 0 /\ hpa = 0
    /\ marked = FALSE
    /\ owner \in [Replica -> BOOLEAN] /\ \E r \in Replica : OnlyOwner(r)
    /\ seen = [r \in Replica |-> 0] /\ pending = [r \in Replica |-> FALSE]
    /\ pc = [r \in Replica |-> "idle"] /\ job = [r \in Replica |-> Nothing]
    /\ queue = [r \in Replica |-> << >>]
    /\ active = [r \in Replica |-> 0] /\ work = [r \in Replica |-> 0]
    /\ windows = [r \in Replica |-> FALSE]
    /\ faults = 0 /\ crashes = 0 /\ moves = 0

-----------------------------------------------------------------------------
(* Users, the API server and the garbage collector. *)

Replicas == <<owner, control, queue, scraper, windows>>

\* A user writes the EPA: the API server gives it the next version.
Write(deleting) ==
    /\ version < MaxVersion
    /\ version' = version + 1 /\ object' = version + 1
    /\ marked' = deleting
    /\ UNCHANGED <<hpa, Replicas, bounds>>

Create == object = 0 /\ Write(FALSE) /\ born' = version + 1
Edit   == object # 0 /\ Write(marked) /\ UNCHANGED born

\* A deletion of an EPA with a finalizer only marks it.
Mark   == object # 0 /\ ~marked /\ Write(TRUE) /\ UNCHANGED born

\* The EPA goes: at once when it has no finalizer, else when they are removed.
Remove ==
    /\ object # 0
    /\ object' = 0 /\ marked' = FALSE
    /\ UNCHANGED <<version, born, hpa, Replicas, bounds>>

\* The HPA of an EPA that is gone is collected (its ownerReferences).
Collect ==
    /\ hpa # 0 /\ (object = 0 \/ hpa < born)
    /\ hpa' = 0
    /\ UNCHANGED <<server, Replicas, bounds>>

\* Views change: for a while two replicas or none may believe to own the EPA.
Move ==
    /\ moves < MaxMoves /\ moves' = moves + 1
    /\ owner' \in [Replica -> BOOLEAN] \ {owner}
    /\ UNCHANGED <<server, hpa, control, queue, scraper, windows, faults, crashes>>

\* The API server fails a call.
Fault == faults < MaxFaults /\ faults' = faults + 1 /\ UNCHANGED <<crashes, moves>>

-----------------------------------------------------------------------------
(* The controller of a replica: at most one reconcile of an EPA at a time. *)

\* The watch, behind the predicate filter on generations.  The deletion of an
\* EPA comes with the version already seen.
Trigger(r) ==
    /\ object # 0 /\ object # seen[r]
    /\ seen' = [seen EXCEPT ![r] = object]
    /\ pending' = [pending EXCEPT ![r] = TRUE]
    /\ UNCHANGED <<server, hpa, owner, pc, job, queue, scraper, windows, bounds>>

\* epa_exists: the read has not answered 404.
Exists == object # 0

\* The reconcile of r goes on at stage s, or ends with the object forgotten.
GoTo(r, s) ==
    /\ pc' = [pc EXCEPT ![r] = s]
    /\ job' = IF s = "idle" THEN [job EXCEPT ![r] = Nothing] ELSE job

\* observe: a fresh read of the object.  A failed one is tried again later.
Observe(r) ==
    /\ pc[r] = "idle" /\ pending[r]
    /\ \/ /\ pending' = [pending EXCEPT ![r] = FALSE]
          /\ IF Exists
             THEN /\ pc' = [pc EXCEPT ![r] = "observed"]
                  /\ job' = [job EXCEPT ![r] =
                                [version |-> object, deleting |-> marked]]
             ELSE UNCHANGED <<pc, job>>
          /\ UNCHANGED bounds
       \/ Fault /\ UNCHANGED <<pending, pc, job>>
    /\ UNCHANGED <<server, hpa, owner, seen, queue, scraper, windows>>

\* What reconcile does with an object: only the owner of it applies the HPA,
\* and only the owner tells its scraper of a deletion.
AllApply(r, owns) ==           \* mutant: every replica applies the HPA
    IF job[r].deleting THEN IF owns THEN "deleting" ELSE "idle" ELSE "applying"
OwnersOnly(r, owns) ==         \* mutant: other replicas are not told of the EPA
    IF ~owns THEN "idle" ELSE IF job[r].deleting THEN "deleting" ELSE "applying"
ClearsOnly(r, owns) ==         \* mutant: the scraper is not told of a deletion
    IF job[r].deleting THEN IF owns THEN "clearing" ELSE "idle"
    ELSE IF owns THEN "applying" ELSE "sending"
StageOf(r, owns) ==
    IF job[r].deleting THEN IF owns THEN "deleting" ELSE "idle"
    ELSE IF owns THEN "applying" ELSE "sending"

Decide(r) ==
    /\ pc[r] = "observed"
    /\ GoTo(r, StageOf(r, owner[r]))
    /\ UNCHANGED <<server, hpa, owner, seen, pending, queue, scraper, windows, bounds>>

\* error_policy: a failed reconcile is due again, a minute later.
AwaitChange(r) == pending      \* mutant: a failed reconcile waits for an edit
Requeue(r) == [pending EXCEPT ![r] = TRUE]

\* reconcile_hpa: a forced server-side apply.  A failed call may have had its
\* effect; it ends the reconcile, before the scraper is told.  The
\* status condition both outcomes write is read by nothing here.
Apply(r) ==
    /\ pc[r] = "applying"
    /\ \/ /\ hpa' = job[r].version
          /\ GoTo(r, "sending")
          /\ UNCHANGED <<pending, bounds>>
       \/ /\ hpa' \in {hpa, job[r].version}
          /\ GoTo(r, "idle")
          /\ pending' = Requeue(r)
          /\ Fault
    /\ UNCHANGED <<server, owner, seen, queue, scraper, windows>>

\* Sending on the channel.
PushFront(r, update) == <<update>> \o queue[r]   \* mutant: overtakes
Enqueued(r, update) == Append(queue[r], update)

\* scraper_tx.send waits while the channel is full.
Send(r) ==
    /\ pc[r] \in {"sending", "deleting"}
    /\ Len(queue[r]) < QueueSize
    /\ queue' = [queue EXCEPT ![r] = Enqueued(r, job[r])]
    /\ GoTo(r, IF pc[r] = "sending" THEN "idle" ELSE "clearing")
    /\ UNCHANGED <<server, hpa, owner, seen, pending, scraper, windows, bounds>>

\* remove_epa_windows, called as soon as the deletion is in the channel; the
\* result cache, configs and statistics of the EPA go with the windows.
Clear(r) ==
    /\ pc[r] = "clearing"
    /\ windows' = [windows EXCEPT ![r] = FALSE]
    /\ GoTo(r, "idle")
    /\ UNCHANGED <<server, hpa, owner, seen, pending, queue, scraper, bounds>>

Reconcile(r) ==
    Observe(r) \/ Decide(r) \/ Apply(r) \/ Send(r) \/ Clear(r)

-----------------------------------------------------------------------------
(* The scraper of a replica. *)

\* handle_updates.  (The metric configs an upsert also writes are left out:
\* nothing here reads them.)
HandleUpdate(r) ==
    /\ queue[r] # << >>
    /\ active' = [active EXCEPT ![r] =
          IF Head(queue[r]).deleting THEN 0 ELSE Head(queue[r]).version]
    /\ queue' = [queue EXCEPT ![r] = Tail(@)]
    /\ UNCHANGED <<server, hpa, owner, control, work, windows, bounds>>

\* A tick takes a snapshot of active_epas; whether the replica should scrape
\* the EPA is the matter of EpaOwnership.
Tick(r) ==
    /\ active[r] # 0 /\ work[r] = 0
    /\ work' = [work EXCEPT ![r] = active[r]]
    /\ UNCHANGED <<server, hpa, owner, control, queue, active, windows, bounds>>

\* The jobs of the tick push their samples, or fail.
Scrape(r) ==
    /\ work[r] # 0
    /\ work' = [work EXCEPT ![r] = 0]
    /\ \E pushed \in BOOLEAN : windows' = [windows EXCEPT ![r] = @ \/ pushed]
    /\ UNCHANGED <<server, hpa, owner, control, queue, active, bounds>>

\* evict_stale_windows: nothing was pushed for long.
Evict(r) ==
    /\ work[r] = 0 /\ windows[r]
    /\ windows' = [windows EXCEPT ![r] = FALSE]
    /\ UNCHANGED <<server, hpa, owner, control, queue, scraper, bounds>>

\* The process dies and starts again, with nothing.
Crash(r) ==
    /\ crashes < MaxCrashes /\ crashes' = crashes + 1
    /\ seen' = [seen EXCEPT ![r] = 0]
    /\ pending' = [pending EXCEPT ![r] = FALSE]
    /\ GoTo(r, "idle")
    /\ queue' = [queue EXCEPT ![r] = << >>]
    /\ active' = [active EXCEPT ![r] = 0]
    /\ work' = [work EXCEPT ![r] = 0]
    /\ windows' = [windows EXCEPT ![r] = FALSE]
    /\ UNCHANGED <<server, hpa, owner, faults, moves>>

Next ==
    \/ Create \/ Edit \/ Mark \/ Remove \/ Collect \/ Move
    \/ \E r \in Replica :
          \/ Trigger(r) \/ Reconcile(r) \/ HandleUpdate(r)
          \/ Tick(r) \/ Scrape(r) \/ Evict(r) \/ Crash(r)

Spec == Init /\ [][Next]_vars

\* Every task of a running process keeps running, and calls get answers.
FairSpec ==
    /\ Spec
    /\ \A r \in Replica :
          /\ WF_vars(Trigger(r)) /\ WF_vars(Reconcile(r)) /\ WF_vars(HandleUpdate(r))
          /\ WF_vars(Scrape(r)) /\ WF_vars(Evict(r))

-----------------------------------------------------------------------------
(* Properties. *)

\* What a replica knows only gets newer: its registry is not ahead of the
\* channel, the channel is in order and not ahead of the running reconcile.
InOrder ==
    \A r \in Replica :
        /\ \A i \in DOMAIN queue[r] : active[r] <= queue[r][i].version
        /\ \A i, j \in DOMAIN queue[r] :
              i <= j => queue[r][i].version <= queue[r][j].version
        /\ pc[r] # "idle" =>
              /\ active[r] <= job[r].version
              /\ \A i \in DOMAIN queue[r] : queue[r][i].version <= job[r].version

\* While ownership has not moved, an HPA is never applied from an older
\* version of the EPA than it was, however reconciles and edits interleave.
HpaNeverOlder == [][moves = 0 /\ hpa' # 0 => hpa <= hpa']_vars

\* r has seen the latest version, and has nothing left to do about it.
AtRest(r) ==
    /\ object # 0 /\ seen[r] = object
    /\ ~pending[r] /\ pc[r] = "idle" /\ queue[r] = << >>

\* A replica at rest has missed nothing, whatever failed, crashed or was edited
\* meanwhile: the latest version is registered and, by an owner that was one all
\* along, applied; a deletion such an owner has unregistered.
NothingMissed ==
    \A r \in Replica : AtRest(r) =>
        /\ ~marked => active[r] = object
        /\ moves = 0 /\ owner[r] => IF marked THEN active[r] = 0 ELSE hpa = object

\* Every replica, owner or not, ends up with the latest version registered,
\* so that it can take over, through failed calls, a full channel and crashes.
AllRegister ==
    \A r \in Replica, v \in Version :
        (object = v /\ ~marked) ~> (active[r] = v \/ object # v)

\* In a reconcile of the latest version r has yet to read whether it is the owner.
Undecided(r) == seen[r] # object \/ pending[r] \/ pc[r] = "observed"

\* A replica alone in owning an EPA before it reads so in a reconcile of its
\* latest version applies that version, in the end.  One that comes to own it
\* later does not: nothing reconciles when ownership moves.
OwnerApplies ==
    \A r \in Replica, v \in Version :
        (object = v /\ ~marked /\ OnlyOwner(r) /\ Undecided(r))
            ~> (hpa = v \/ object # v \/ ~OnlyOwner(r))

\* An owner that has yet to see an EPA marked for deletion unregisters it, and
\* what the scheduler and the workers still add to its windows goes in the end.
OwnerForgets ==
    \A r \in Replica :
        (marked /\ owner[r] /\ seen[r] # object)
            ~> \/ active[r] = 0 /\ ~windows[r]
               \/ ~marked \/ ~owner[r]
=============================================================================
