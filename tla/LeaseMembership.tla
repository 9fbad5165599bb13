--------------------------- MODULE LeaseMembership ---------------------------
(***************************************************************************)
(* Replica membership over Kubernetes Lease objects:                       *)
(* src/src/membership/manager.rs and the process lifecycle of              *)
(* src/src/main.rs that drives it.                                         *)
(*                                                                         *)
(* Every replica owns one Lease (named after its POD_UID, so a container   *)
(* restarted in the same pod finds its old lease again).  Three tasks of a *)
(* process touch it at the same time: the main task (registration, then    *)
(* mark_draining and delete_lease on shutdown), the renewal loop, and the  *)
(* discovery loop, which rewrites the in-memory view.  A call is a request *)
(* that is first in flight and later served by the API server, or lost; a  *)
(* request whose caller is gone may still be served.                       *)
(*                                                                         *)
(* Time is a common Tick: leases and requests grow older.  One clock for   *)
(* all replicas (no skew between pods) is an assumption of the model.      *)
(***************************************************************************)
EXTENDS Naturals, FiniteSets

CONSTANTS
    Replica,         \* POD_UIDs
    LeaseDuration,   \* leaseDurationSeconds, in ticks (30s)
    RenewInterval,   \* period of the renewal loop, in ticks (10s)
    DrainDuration,   \* DRAIN_DURATION, in ticks (120s by default)
    NoLease,         \* no lease object of that name exists
    NoList,          \* no list response is being processed
    OldAge,          \* bound: ages saturate here
    MaxStarts,       \* bound: process starts, all replicas together
    MaxCrashes,      \* bound: crashes, all replicas together
    MaxFaults,       \* bound: failed API calls and broken watches, all together
    MaxLate          \* bound: requests outliving their caller at one time

ASSUME TimingAssumption ==
    /\ LeaseDuration \in Nat /\ RenewInterval \in Nat \ {0}
    /\ DrainDuration \in Nat
    /\ OldAge \in Nat /\ OldAge >= LeaseDuration

ASSUME BoundAssumption ==
    MaxStarts \in Nat /\ MaxCrashes \in Nat /\ MaxFaults \in Nat /\ MaxLate \in Nat

Age   == 0 .. OldAge
Lease == [draining : BOOLEAN, age : Age]

\* A request in flight.  `by` is the task awaiting it, "none" once that task
\* is gone; `age` is the time since `now` was read for its renewTime.
Request == [from : Replica, by : {"main", "loop", "none"},
            verb : {"POST", "PATCH", "DELETE"}, draining : BOOLEAN, age : Age]

\* Where the main task is: starting up, in its select!, or shutting down.
\* "gone" is a replica whose pod object has been deleted.
Phase == {"down", "register", "discover", "run",
          "mark", "drain", "delete", "gone"}

ASSUME NoLeaseAssumption == NoLease \notin Lease
ASSUME NoListAssumption  == NoList \notin [Replica -> Lease \cup {NoLease}]

VARIABLES
    lease,          \* API server: the lease object of each replica
    net,            \* requests in flight
    phase,          \* main task of each replica
    active,         \* ReplicaSets.active of each replica
    draining,       \* ReplicaSets.draining of each replica
    localDraining,  \* ReplicaSets.local_draining of each replica
    list,           \* list response update_active_replicas is processing
    event,          \* an undelivered "applied" watch event
    due,            \* the renewal interval has a tick to deliver
    timer,          \* ticks until the next one
    left,           \* ticks left of the drain sleep
    starts, crashes, faults

sets   == <<active, draining, localDraining>>
clocks == <<due, timer, left>>
bounds == <<starts, crashes, faults>>
vars   == <<lease, net, phase, sets, list, event, clocks, bounds>>

\* The types of the variables, with every counter under its bound.
TypeOK ==
    /\ lease \in [Replica -> Lease \cup {NoLease}]
    /\ net \subseteq Request
    /\ phase \in [Replica -> Phase]
    /\ active \in [Replica -> SUBSET Replica]
    /\ draining \in [Replica -> SUBSET Replica]
    /\ localDraining \in [Replica -> BOOLEAN]
    /\ list \in [Replica -> [Replica -> Lease \cup {NoLease}] \cup {NoList}]
    /\ event \in [Replica -> BOOLEAN]
    /\ due \in [Replica -> BOOLEAN]
    /\ timer \in [Replica -> 1 .. RenewInterval]
    /\ left \in [Replica -> 0 .. DrainDuration]
    /\ starts \in 0 .. MaxStarts
    /\ crashes \in 0 .. MaxCrashes
    /\ faults \in 0 .. MaxFaults

Init ==
    /\ lease = [r \in Replica |-> NoLease]
    /\ net = {}
    /\ phase = [r \in Replica |-> "down"]
    /\ active = [r \in Replica |-> {}]
    /\ draining = [r \in Replica |-> {}]
    /\ localDraining = [r \in Replica |-> FALSE]
    /\ list = [r \in Replica |-> NoList]
    /\ event = [r \in Replica |-> FALSE]
    /\ due = [r \in Replica |-> FALSE]
    /\ timer = [r \in Replica |-> RenewInterval]
    /\ left = [r \in Replica |-> 0]
    /\ starts = 0 /\ crashes = 0 /\ faults = 0

-----------------------------------------------------------------------------
(* Helpers.                                                                *)

\* The tasks of MembershipManager::run exist.
Looping(r) == phase[r] \in {"run", "mark", "drain"}

Up(r) == phase[r] \notin {"down", "gone"}

(* Mutants: plausible bugs the runs are tested with; no action uses them.   *)
ValidForever(l)         == l # NoLease
ValidEarly(l)           == l # NoLease /\ l.age + 1 < LeaseDuration
ActiveInUnlabelled(table) == {s \in Replica : table[s] # NoLease /\ table[s].age < LeaseDuration}
CallsOfMain(r, tasks)   == {q \in net : q.from = r /\ q.by \in tasks \ {"loop"}}
RenewalUnlabelled(r, task, flag) ==
    [from |-> r, by |-> task, verb |-> "POST", draining |-> flag /\ task = "main", age |-> 0]
KeepSelf(r, all)        == all
AnnounceNothing         == event

\* now < renewTime + leaseDurationSeconds
Valid(l) == l # NoLease /\ l.age < LeaseDuration

ActiveIn(table)   == {s \in Replica : Valid(table[s]) /\ ~table[s].draining}
DrainingIn(table) == {s \in Replica : Valid(table[s]) /\ table[s].draining}

\* register_and_renew up to its first API call: the draining flag is read
\* under the lock, the lock is dropped, the lease is posted.
Renewal(r, task, flag) ==
    [from |-> r, by |-> task, verb |-> "POST", draining |-> flag, age |-> 0]

\* The main task goes on once the call it awaited has been answered.
Answered(q) ==
    IF q.by # "main" THEN phase
    ELSE [phase EXCEPT ![q.from] = CASE @ = "register" -> "discover"
                                     [] @ = "mark"     -> "drain"
                                     [] OTHER          -> "down"]

\* The local override of update_active_replicas.
WithoutSelf(r, all) == IF localDraining[r] THEN all \ {r} ELSE all
WithSelf(r, all)    == IF localDraining[r] THEN all \cup {r} ELSE all

\* A stored lease is an applied event for every discovery loop.
Announce == [s \in Replica |-> event[s] \/ Looping(s)]

\* What a new watch reports at once.
SomeLease == \E s \in Replica : lease[s] # NoLease

CallsOf(r, tasks) == {q \in net : q.from = r /\ q.by \in tasks}

\* Nobody awaits these requests any more: each of them either never reaches
\* the server or is still on its way.  `sent` are requests sent right after.
LeaveAndSend(dropped, sent) ==
    \E late \in SUBSET dropped :
        /\ net' = (net \ dropped) \cup sent \cup {[q EXCEPT !.by = "none"] : q \in late}
        /\ Cardinality({q \in net' : q.by = "none"}) <= MaxLate
Leave(dropped) == LeaveAndSend(dropped, {})

\* The process is gone, and its memory with it.
Exit(r) ==
    /\ phase' = [phase EXCEPT ![r] = "down"]
    /\ active' = [active EXCEPT ![r] = {}]
    /\ draining' = [draining EXCEPT ![r] = {}]
    /\ localDraining' = [localDraining EXCEPT ![r] = FALSE]
    /\ list' = [list EXCEPT ![r] = NoList]
    /\ event' = [event EXCEPT ![r] = FALSE]
    /\ due' = [due EXCEPT ![r] = FALSE]
    /\ left' = [left EXCEPT ![r] = 0]

-----------------------------------------------------------------------------
(* The process: main.rs.                                                   *)

\* main up to the first await of register_and_renew, in a fresh process.
Start(r) ==
    /\ phase[r] = "down" /\ starts < MaxStarts
    /\ phase' = [phase EXCEPT ![r] = "register"]
    /\ net' = net \cup {Renewal(r, "main", localDraining[r])}
    /\ starts' = starts + 1
    /\ UNCHANGED <<lease, sets, list, event, clocks, crashes, faults>>

\* SIGTERM: mark_draining sets the flag under the lock, then renews.
Sigterm(r) ==
    /\ phase[r] = "run"
    /\ phase' = [phase EXCEPT ![r] = "mark"]
    /\ localDraining' = [localDraining EXCEPT ![r] = TRUE]
    /\ net' = net \cup {Renewal(r, "main", TRUE)}
    /\ left' = [left EXCEPT ![r] = DrainDuration]
    /\ UNCHANGED <<lease, active, draining, list, event, due, timer, bounds>>

\* The membership task is aborted and awaited, then delete_lease sets the
\* flag and sends the DELETE.
AbortAndDelete(r) ==
    /\ phase' = [phase EXCEPT ![r] = "delete"]
    /\ localDraining' = [localDraining EXCEPT ![r] = TRUE]
    /\ list' = [list EXCEPT ![r] = NoList]
    /\ event' = [event EXCEPT ![r] = FALSE]
    /\ due' = [due EXCEPT ![r] = FALSE]
    /\ left' = [left EXCEPT ![r] = 0]
    /\ LeaveAndSend(CallsOf(r, {"loop"}),
                    {[from |-> r, by |-> "main", verb |-> "DELETE",
                      draining |-> TRUE, age |-> 0]})
    /\ UNCHANGED <<lease, active, draining, timer, bounds>>

\* The drain sleep is over, or a second SIGTERM or a SIGINT ended it early.
DrainOver(r)    == phase[r] = "drain" /\ left[r] = 0 /\ AbortAndDelete(r)
SecondSignal(r) == phase[r] = "drain" /\ left[r] > 0 /\ AbortAndDelete(r)

\* SIGINT outside a drain: no draining label, no sleep.
Sigint(r) == phase[r] = "run" /\ AbortAndDelete(r)

\* A kill, a signal before the handlers are installed, or a component that
\* exits and ends the select!: the lease is left behind.
Crash(r) ==
    /\ Up(r) /\ crashes < MaxCrashes
    /\ Leave(CallsOf(r, {"main", "loop"}))
    /\ Exit(r)
    /\ crashes' = crashes + 1
    /\ UNCHANGED <<lease, timer, starts, faults>>

\* The pod object is deleted; the owner reference takes the lease with it.
GarbageCollect(r) ==
    /\ ~Up(r) /\ (phase[r] = "down" \/ lease[r] # NoLease)
    /\ phase' = [phase EXCEPT ![r] = "gone"]
    /\ lease' = [lease EXCEPT ![r] = NoLease]
    /\ UNCHANGED <<net, sets, list, event, clocks, bounds>>

-----------------------------------------------------------------------------
(* The renewal loop and the API server's answers to lease writes.          *)

\* interval.tick() fires; missed ticks are skipped, not queued.
RenewTick(r) ==
    /\ Looping(r) /\ due[r] /\ CallsOf(r, {"loop"}) = {}
    /\ due' = [due EXCEPT ![r] = FALSE]
    /\ net' = net \cup {Renewal(r, "loop", localDraining[r])}
    /\ UNCHANGED <<lease, phase, sets, list, event, timer, left, bounds>>

\* The lease is written, and the caller is told.
Stored(q) ==
    /\ lease' = [lease EXCEPT ![q.from] = [draining |-> q.draining, age |-> q.age]]
    /\ event' = Announce
    /\ net' = net \ {q}
    /\ phase' = Answered(q)
    /\ UNCHANGED <<sets, list, clocks, bounds>>

Created(q) == q.verb = "POST" /\ lease[q.from] = NoLease /\ Stored(q)

\* 409: the caller, if there still is one, patches the same lease instead.
Conflict(q) ==
    /\ q.verb = "POST" /\ lease[q.from] # NoLease
    /\ net' = (net \ {q}) \cup
              (IF q.by = "none" THEN {} ELSE {[q EXCEPT !.verb = "PATCH"]})
    /\ UNCHANGED <<lease, phase, sets, list, event, clocks, bounds>>

\* A forced apply replaces the labels, and creates the lease if it is absent.
Applied(q) == q.verb = "PATCH" /\ Stored(q)

\* delete_lease succeeded (or found nothing), and main returns.  The watch
\* drops deletions (applied_objects), so no peer is told.
Deleted(q) ==
    /\ q.verb = "DELETE"
    /\ lease' = [lease EXCEPT ![q.from] = NoLease]
    /\ net' = net \ {q}
    /\ IF q.by = "main"
       THEN Exit(q.from) /\ UNCHANGED <<timer, bounds>>
       ELSE UNCHANGED <<phase, sets, list, event, clocks, bounds>>

Serve(q) == Created(q) \/ Conflict(q) \/ Applied(q) \/ Deleted(q)

\* The call fails, or times out while the server still holds the request.
\* Registration ends the process; the renewal loop and mark_draining log and
\* go on; main exits whether or not the delete worked.
CallFails(q) ==
    /\ q.by # "none" /\ faults < MaxFaults
    /\ Leave({q})
    /\ faults' = faults + 1
    /\ IF q.by = "main" /\ phase[q.from] \in {"register", "delete"}
       THEN Exit(q.from) /\ UNCHANGED <<lease, timer, starts, crashes>>
       ELSE /\ phase' = Answered(q)
            /\ UNCHANGED <<lease, sets, list, event, clocks, starts, crashes>>

\* A request that nobody awaits never arrives.
LateLost(q) ==
    /\ q.by = "none"
    /\ net' = net \ {q}
    /\ UNCHANGED <<lease, phase, sets, list, event, clocks, bounds>>

-----------------------------------------------------------------------------
(* Discovery.                                                              *)

\* update_active_replicas asks for all leases: once during startup, then for
\* every applied event the watch delivers.
ListLeases(r) ==
    /\ list[r] = NoList
    /\ phase[r] = "discover" \/ (Looping(r) /\ event[r])
    /\ list' = [list EXCEPT ![r] = lease]
    /\ event' = [event EXCEPT ![r] = FALSE]
    /\ UNCHANGED <<lease, net, phase, sets, clocks, bounds>>

\* The watch breaks, reconnects with backoff and delivers every existing
\* lease as applied again.
WatchResync(r) ==
    /\ Looping(r) /\ faults < MaxFaults
    /\ faults' = faults + 1
    /\ event' = [event EXCEPT ![r] = @ \/ SomeLease]
    /\ UNCHANGED <<lease, net, phase, sets, list, clocks, starts, crashes>>

\* The rest of update_active_replicas: classify what the list returned, put
\* this replica on the draining side if its flag is set, replace both sets.
\* After the first one, main spawns the tasks of `run`.
UpdateActiveReplicas(r) ==
    /\ list[r] # NoList
    /\ active' = [active EXCEPT ![r] = WithoutSelf(r, ActiveIn(list[r]))]
    /\ draining' = [draining EXCEPT ![r] = WithSelf(r, DrainingIn(list[r]))]
    /\ list' = [list EXCEPT ![r] = NoList]
    /\ IF phase[r] = "discover"
       THEN /\ phase' = [phase EXCEPT ![r] = "run"]
            /\ due' = [due EXCEPT ![r] = TRUE]
            /\ timer' = [timer EXCEPT ![r] = RenewInterval]
            /\ event' = [event EXCEPT ![r] = SomeLease]
       ELSE UNCHANGED <<phase, due, timer, event>>
    /\ UNCHANGED <<lease, net, localDraining, left, bounds>>

\* The list fails: fatal during startup, otherwise the event is used up.
ListFails(r) ==
    /\ list[r] # NoList /\ faults < MaxFaults
    /\ faults' = faults + 1
    /\ IF phase[r] = "discover"
       THEN Exit(r) /\ UNCHANGED <<lease, net, timer, starts, crashes>>
       ELSE /\ list' = [list EXCEPT ![r] = NoList]
            /\ UNCHANGED <<lease, net, phase, sets, event, clocks, starts, crashes>>

-----------------------------------------------------------------------------
(* Time.                                                                   *)

Older(age) == IF age < OldAge THEN age + 1 ELSE age
Aged(l)    == IF l = NoLease THEN l ELSE [l EXCEPT !.age = Older(@)]

Tick ==
    /\ lease' = [r \in Replica |-> Aged(lease[r])]
    /\ net' = {[q EXCEPT !.age = Older(@)] : q \in net}
    /\ list' = [r \in Replica |->
                  IF list[r] = NoList THEN NoList
                  ELSE [s \in Replica |-> Aged(list[r][s])]]
    /\ timer' = [r \in Replica |->
                  IF Looping(r) /\ timer[r] > 1 THEN timer[r] - 1 ELSE RenewInterval]
    /\ due' = [r \in Replica |-> due[r] \/ (Looping(r) /\ timer[r] = 1)]
    /\ left' = [r \in Replica |->
                  IF phase[r] = "drain" /\ left[r] > 0 THEN left[r] - 1 ELSE left[r]]
    /\ UNCHANGED <<phase, sets, event, bounds>>

\* Nothing a live process is waiting for is outstanding.
Quiet ==
    /\ \A q \in net : q.by = "none"
    /\ \A r \in Replica : list[r] = NoList /\ ~event[r] /\ ~due[r]
    /\ \A r \in Replica : phase[r] \notin {"register", "discover", "mark", "delete"}
    /\ \A r \in Replica : phase[r] = "drain" => left[r] > 0

\* Calls, scheduling and watch events take much less than a tick.
PromptTick == Quiet /\ Tick

-----------------------------------------------------------------------------

ReplicaStep(r) ==
    \/ Start(r) \/ Sigterm(r) \/ DrainOver(r) \/ SecondSignal(r) \/ Sigint(r)
    \/ Crash(r) \/ GarbageCollect(r)
    \/ RenewTick(r) \/ ListLeases(r) \/ WatchResync(r)
    \/ UpdateActiveReplicas(r) \/ ListFails(r)

Act ==
    \/ \E r \in Replica : ReplicaStep(r)
    \/ \E q \in net : Serve(q) \/ CallFails(q) \/ LateLost(q)

Next       == Act \/ Tick
PromptNext == Act \/ PromptTick

\* What each task of a process does next: tokio keeps polling all of them.
ServeTo(r, task) == \E q \in CallsOf(r, {task}) : Serve(q)
MainTask(r)      == ServeTo(r, "main") \/ DrainOver(r)
RenewalTask(r)   == ServeTo(r, "loop") \/ RenewTick(r)
DiscoveryTask(r) == ListLeases(r) \/ UpdateActiveReplicas(r)

\* While some task or a pending answer can go on, something does go on: no
\* more than that tokio and the API server do not stop altogether.  Signals,
\* crashes, restarts, garbage collection and faults are never forced.
Progress ==
    \/ \E r \in Replica : MainTask(r) \/ RenewalTask(r) \/ DiscoveryTask(r)
    \/ \E q \in net : LateLost(q)
    \/ PromptTick

Spec       == Init /\ [][Next]_vars
PromptSpec == Init /\ [][PromptNext]_vars /\ WF_vars(Progress)

-----------------------------------------------------------------------------
(* Properties.                                                             *)

ActiveWrites(r) ==
    {q \in net : q.from = r /\ q.verb # "DELETE" /\ ~q.draining}

ListedActive(r) == lease[r] # NoLease /\ ~lease[r].draining

\* The main task awaits at most one call, and only in the phases that make
\* one; local_draining is set exactly from SIGTERM, or the start of
\* delete_lease, to the end of the process.  Strengthens the properties below
\* to an inductive invariant.
Lifecycle ==
    /\ \A r \in Replica : localDraining[r] <=> phase[r] \in {"mark", "drain", "delete"}
    /\ \A q \in net : q.by = "main" =>
          /\ phase[q.from] \in {"register", "mark", "delete"}
          /\ q.verb = "DELETE" <=> phase[q.from] = "delete"
          /\ \A p \in net : p.by = "main" /\ p.from = q.from => p = q

\* A renewal awaited by the renewal loop belongs to a loop that still runs; and
\* if no request outlives its caller, every request has one.
CallersAlive ==
    /\ \A q \in net : q.by = "loop" => Looping(q.from)
    /\ MaxLate = 0 => \A q \in net : q.by # "none"

\* get_all_replicas relies on it (its debug_assert, and the election that
\* would count a replica twice): no reader sees a replica in both sets, even
\* when a list from before the drain is applied after the flag was set.
Disjoint == \A r \in Replica : active[r] \cap draining[r] = {}

\* Once a draining replica has left its own active set it never returns to
\* it, however old the list that update_active_replicas still applies.
SelfStaysOut ==
    [][\A r \in Replica :
          localDraining[r] /\ r \notin active[r] => r \notin active'[r]]_vars

\* Once shutdown has begun (or the process is gone), no lease write that says
\* "active" is in flight and the stored lease does not say so, neither comes
\* back before a new process starts: every later renewal, whichever task
\* sends it, carries the draining label (delete_lease's two comments).
Retired(r) == ActiveWrites(r) = {} /\ ~ListedActive(r)
NoReactivation ==
    [][\A r \in Replica :
          phase[r] \notin {"register", "discover", "run"} /\ Retired(r)
             => Retired(r)' \/ phase'[r] = "register"]_vars

\* A deleted lease comes back only through a renewal that outlived its task,
\* which abort() does not call back (main.rs:203): once none is left on its way,
\* neither the lease nor such a renewal comes back before a new process starts,
\* for main awaits the loop's end before it deletes.  The comment there ("so it
\* cannot re-create the lease after deletion") does not make this exception.
LateWrites(r) == {q \in net : q.from = r /\ q.by = "none" /\ q.verb # "DELETE"}
Buried(r) == lease[r] = NoLease /\ LateWrites(r) = {}
DeletionHolds ==
    [][\A r \in Replica :
          phase[r] \in {"delete", "down", "gone"} /\ Buried(r)
             => Buried(r)' \/ phase'[r] = "register"]_vars

\* A replica that runs and is seen as active stays seen as active: the lease
\* duration outlasts the renewals that may be missed.  Only a list taken before
\* the replica was last started may say otherwise, and then the watch has
\* already announced the new lease.
LiveStaysActive ==
    [][\A r, s \in Replica :
          /\ r \in active[s] /\ phase[s] # "down" /\ phase'[s] # "down"
          /\ phase[r] = "run" /\ phase'[r] = "run"
          => r \in active'[s] \/ event'[s]]_vars

\* A lease that is no longer renewed is out of the view of every running
\* replica one renewal interval after it expired (plus one for every call
\* that failed), although no watch event ever announces an expiry.
DeadForgotten ==
    \A r, s \in Replica :
        /\ Looping(s) /\ lease[r] # NoLease
        /\ lease[r].age > LeaseDuration + (1 + MaxFaults) * RenewInterval
        => r \notin active[s] \cup draining[s]

\* A draining replica has left every peer's active set (so its EPAs have new
\* owners) within one renewal interval of its drain sleep, plus one for every
\* call that failed, although a renewal that read the flag before SIGTERM may
\* still overwrite the label.
PeersSeeDrain ==
    \A r, s \in Replica :
        /\ phase[r] = "drain" /\ Looping(s)
        /\ left[r] + (1 + MaxFaults) * RenewInterval < DrainDuration
        => r \notin active[s]

\* In the end all running replicas see the same membership: exactly the
\* running replicas, and nobody draining.  Deletions and expiries raise no
\* event, so this rests on the peers' own renewals.
Convergence ==
    <>[](\A r \in Replica : phase[r] = "run" =>
            /\ active[r] = {s \in Replica : phase[s] = "run"}
            /\ draining[r] = {})
=============================================================================
