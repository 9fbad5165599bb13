---------------------------- MODULE ScrapePipeline ----------------------------
(***************************************************************************)
(* The scheduler, its bounded job channel and the workers of one replica:  *)
(* src/src/scraper/scheduler.rs, worker.rs and service.rs, with the scrape *)
(* statistics of src/src/store.                                            *)
(*                                                                         *)
(* One task does the ticks: it takes a snapshot of the registry and, EPA   *)
(* by EPA, renews the ownership, looks at the deadline, reports the last   *)
(* round, finds the pods and sends a job for each.  It awaits the API      *)
(* server, the pod cache and the channel in between, and while it does no  *)
(* EPA moves on.  Registry, ownership and pods change at will; what they   *)
(* change to is decided in ControllerSync, EpaOwnership and PodCacheSync.  *)
(* The windows the workers fill are in MetricsServing.                     *)
(***************************************************************************)
EXTENDS Naturals, Sequences, FiniteSets

CONSTANTS
    Epa, Pod, Worker,
    Capacity,       \* slots of the job channel (64 per worker)
    Interval,       \* scrape intervals an EPA may have, in ticks
    None,           \* not registered; not scheduled; nothing to do
    MaxFaults,      \* bound: failed scrapes and API calls, lost answers
    MaxChanges,     \* bound: changes of registry, ownership and pods
    MaxRemovals     \* bound: removals of the data of an EPA

ASSUME CapacityAssumption == Capacity \in Nat \ {0}
ASSUME IntervalAssumption == Interval \subseteq Nat /\ None \notin Interval
ASSUME WorkerAssumption   == IsFiniteSet(Worker)
ASSUME BoundAssumption    == {MaxFaults, MaxChanges, MaxRemovals} \subseteq Nat

VARIABLES
    epas,       \* active_epas: the interval of each registered EPA
    scrapes,    \* what should_scrape_epa answers once refreshed
    ready,      \* the ready pods of the scrape target of each EPA
    phase,      \* where the scheduler is in its tick
    seen,       \* the snapshot of the registry its tick works on
    todo,       \* EPAs of the snapshot it has not come to
    cur,        \* the EPA it processes
    unsent,     \* pods of cur it has yet to send a job for
    next,       \* next_scrape: ticks to go, as of the scheduler's tick, and interval
    since,      \* ticks of its timer since its last tick began; missed ones are skipped
    jobs,       \* the job channel
    job,        \* what each worker is doing
    stats,      \* scrape_stats: the counters of each EPA
    held,       \* counts the scheduler has taken out of them
    heldLive,   \* whether the counters it took them from are still in the store
    status,     \* the last status report of each EPA
    faults, changes, removals

tickVars  == <<phase, seen, todo, cur, unsent>>
countVars == <<stats, held, heldLive, status>>
envVars   == <<epas, scrapes, ready>>
bounds    == <<faults, changes, removals>>
vars      == <<envVars, tickVars, next, since, jobs, job, countVars, bounds>>

Count == [scraped : Nat, errors : Nat]
Zero  == [scraped |-> 0, errors |-> 0]
Plus(m, n) == [scraped |-> m.scraped + n.scraped, errors |-> m.errors + n.errors]

\* A job, and with a worker: `body` tells whether it has the head of the response
\* and reads the body, `live` whether the counters it holds are those in the store.
Job  == [epa : Epa, pod : Pod]
Work == [epa : Epa, pod : Pod, body : BOOLEAN, live : BOOLEAN]

ASSUME NoneAssumption == None \notin Epa /\ None \notin Work /\ None \notin Count

\* No deadline is further away.
Longest == CHOOSE i \in Interval \cup {1} : \A j \in Interval : j <= i

TypeOK ==
    /\ epas \in [Epa -> Interval \cup {None}]
    /\ scrapes \in SUBSET Epa
    /\ ready \in [Epa -> SUBSET Pod]
    /\ phase \in {"sleep", "pass", "patch", "lookup", "send"}
    /\ seen \in [Epa -> Interval \cup {None}]
    /\ todo \in SUBSET Epa
    /\ cur \in Epa \cup {None}
    /\ unsent \in SUBSET Pod
    /\ next \in [Epa -> [left : Nat, interval : Interval] \cup {None}]
    /\ since \in Nat
    /\ jobs \in Seq(Job) /\ Len(jobs) <= Capacity
    /\ job \in [Worker -> Work \cup {None}]
    /\ stats \in [Epa -> Count \cup {None}]
    /\ held \in Count /\ heldLive \in BOOLEAN
    /\ status \in [Epa -> Count]
    /\ faults \in 0 .. MaxFaults /\ changes \in 0 .. MaxChanges /\ removals \in 0 .. MaxRemovals

\* The first updates may come before the first tick; owners and pods are there.
Start ==
    /\ epas \in [Epa -> Interval \cup {None}]
    /\ scrapes \in SUBSET Epa
    /\ ready \in [Epa -> SUBSET Pod]
    /\ phase = "sleep" /\ seen = [e \in Epa |-> None] /\ todo = {}
    /\ cur = None /\ unsent = {}
    /\ next = [e \in Epa |-> None] /\ since = 1
    /\ jobs = <<>>
    /\ stats = [e \in Epa |-> None] /\ held = Zero /\ heldLive = FALSE
    /\ status = [e \in Epa |-> Zero]
    /\ faults = 0 /\ changes = 0 /\ removals = 0

Init == Start /\ job = [w \in Worker |-> None]

-----------------------------------------------------------------------------
(* Mutants: plausible bugs the runs are tested with; no action uses them.  *)
LeavesASlot       == Len(jobs) + 1 < Capacity
RestoreNothing    == stats
DueOnlyOnce(e)    == next[e] # None
NeverForgotten(e) == IF epas[e] = None THEN seen[e] ELSE epas[e]

\* get_scrape_stats: the counters of an EPA, created if there are none.
StatsOf(e) == IF stats[e] = None THEN Zero ELSE stats[e]

Taken(m, n)   == IF n < m THEN m - n ELSE 0
Grown(n, max) == IF n < max THEN n + 1 ELSE n

HasSlot == Len(jobs) < Capacity

-----------------------------------------------------------------------------
(* The scheduler's tick: run and process_epa.                              *)

Listed(e) == epas[e]

\* interval.tick() fires, and the registry is copied.  Deadlines are compared
\* with the instant read here, however long the tick takes.
Wake ==
    /\ phase = "sleep" /\ since > 0
    /\ since' = 0
    /\ seen' = [e \in Epa |-> Listed(e)]
    /\ todo' = {e \in Epa : Listed(e) # None}
    /\ phase' = "pass"
    /\ next' = [e \in Epa |->
                  IF next[e] = None THEN None ELSE [next[e] EXCEPT !.left = Taken(@, since)]]
    /\ UNCHANGED <<envVars, cur, unsent, jobs, job, countVars, bounds>>

Scheduled(e) == next[e] # None /\ next[e].interval = seen[e] /\ next[e].left > 0

\* refresh_ownership, and then nothing to do: not ours, or not yet.
PassOver(e) ==
    /\ phase = "pass" /\ e \in todo
    /\ e \in scrapes => Scheduled(e)
    /\ todo' = todo \ {e}
    /\ UNCHANGED <<envVars, phase, seen, cur, unsent, next, since, jobs, job,
                   countVars, bounds>>

\* refresh_ownership, then snapshot_and_reset: two swaps, each of which
\* commutes with whatever is done to the other counter.
Process(e) ==
    /\ phase = "pass" /\ e \in todo
    /\ e \in scrapes /\ ~Scheduled(e)
    /\ todo' = todo \ {e}
    /\ cur' = e
    /\ held' = StatsOf(e) /\ heldLive' = (StatsOf(e) # Zero)
    /\ stats' = [stats EXCEPT ![e] = Zero]
    /\ phase' = IF StatsOf(e) = Zero THEN "lookup" ELSE "patch"
    /\ UNCHANGED <<envVars, seen, unsent, next, since, jobs, job, status, bounds>>

Patched ==
    /\ phase = "patch"
    /\ status' = [status EXCEPT ![cur] = held]
    /\ held' = Zero /\ heldLive' = FALSE
    /\ phase' = "lookup"
    /\ UNCHANGED <<envVars, seen, todo, cur, unsent, next, since, jobs, job, stats, bounds>>

\* restore: into the counters that were swapped, wherever they are now.
Restored == IF heldLive THEN [stats EXCEPT ![cur] = Plus(@, held)] ELSE stats

\* The patch fails, or was applied and the answer got lost.
PatchFails ==
    /\ phase = "patch" /\ faults < MaxFaults
    /\ faults' = faults + 1
    /\ status' \in {status, [status EXCEPT ![cur] = held]}
    /\ stats' = Restored
    /\ held' = Zero /\ heldLive' = FALSE
    /\ phase' = "lookup"
    /\ UNCHANGED <<envVars, seen, todo, cur, unsent, next, since, jobs, job,
                   changes, removals>>

\* get_pod_selector and get_ready_pods answer; the next deadline is set.
Lookup ==
    /\ phase = "lookup"
    /\ unsent' = ready[cur]
    /\ next' = [next EXCEPT ![cur] = [left |-> seen[cur], interval |-> seen[cur]]]
    /\ IF ready[cur] = {} THEN phase' = "pass" /\ cur' = None
                          ELSE phase' = "send" /\ cur' = cur
    /\ UNCHANGED <<envVars, seen, todo, since, jobs, job, countVars, bounds>>

\* One of them fails: the deadline stays, so the next tick tries again.
LookupFails ==
    /\ phase = "lookup" /\ faults < MaxFaults
    /\ faults' = faults + 1
    /\ phase' = "pass" /\ cur' = None
    /\ UNCHANGED <<envVars, seen, todo, unsent, next, since, jobs, job,
                   countVars, changes, removals>>

\* job_tx.send: waits for a slot.
Send(p) ==
    /\ phase = "send" /\ p \in unsent /\ HasSlot
    /\ jobs' = Append(jobs, [epa |-> cur, pod |-> p])
    /\ unsent' = unsent \ {p}
    /\ IF unsent = {p} THEN phase' = "pass" /\ cur' = None
                       ELSE UNCHANGED <<phase, cur>>
    /\ UNCHANGED <<envVars, seen, todo, next, since, job, countVars, bounds>>

\* next_scrape.retain, with the keys of the snapshot.
EndTick ==
    /\ phase = "pass" /\ todo = {}
    /\ next' = [e \in Epa |-> IF seen[e] = None THEN None ELSE next[e]]
    /\ phase' = "sleep"
    /\ UNCHANGED <<envVars, seen, todo, cur, unsent, since, jobs, job,
                   countVars, bounds>>

-----------------------------------------------------------------------------
(* The workers: run and scrape_pod_static.                                 *)

Take(w) ==
    /\ job[w] = None /\ jobs # <<>>
    /\ LET e == Head(jobs).epa IN
          /\ job' = [job EXCEPT ![w] = [epa |-> e, pod |-> Head(jobs).pod,
                                        body |-> FALSE, live |-> TRUE]]
          /\ stats' = [stats EXCEPT ![e] = StatsOf(e)]
    /\ jobs' = Tail(jobs)
    /\ UNCHANGED <<envVars, tickVars, next, since, held, heldLive, status, bounds>>

\* The head of the response comes, before the timeout.
Responds(w) ==
    /\ job[w] # None /\ ~job[w].body
    /\ job' = [job EXCEPT ![w].body = TRUE]
    /\ UNCHANGED <<envVars, tickVars, next, since, jobs, countVars, bounds>>

\* record_success or record_error, on the counters the worker holds.
Recorded(w, n) ==
    IF job[w].live THEN [stats EXCEPT ![job[w].epa] = Plus(@, n)] ELSE stats

End(w, n) ==
    /\ stats' = Recorded(w, n)
    /\ job' = [job EXCEPT ![w] = None]
    /\ UNCHANGED <<envVars, tickVars, next, since, jobs, held, heldLive, status,
                   changes, removals>>

\* The body is read, in the time it takes: the timeout is over.
Succeeds(w) ==
    /\ job[w] # None /\ job[w].body
    /\ End(w, [Zero EXCEPT !.scraped = 1])
    /\ UNCHANGED faults

\* A timeout, an HTTP error or status, a body that breaks off or does not parse.
Fails(w) ==
    /\ job[w] # None /\ faults < MaxFaults
    /\ End(w, [Zero EXCEPT !.errors = 1])
    /\ faults' = faults + 1

-----------------------------------------------------------------------------
(* What goes on around: registry, ownership, pods, time.                   *)

Change ==
    /\ changes < MaxChanges
    /\ changes' = changes + 1
    /\ UNCHANGED <<tickVars, next, since, jobs, job, countVars, faults, removals>>

\* handle_updates: an upsert or a delete.
Register(e) ==
    /\ epas' \in {[epas EXCEPT ![e] = i] : i \in (Interval \cup {None}) \ {epas[e]}}
    /\ Change /\ UNCHANGED <<scrapes, ready>>

\* remove_epa_windows, called by the reconcile of a deletion: what holds the
\* old counters goes on with them.
RemoveData(e) ==
    /\ stats[e] # None /\ removals < MaxRemovals
    /\ removals' = removals + 1
    /\ stats' = [stats EXCEPT ![e] = None]
    /\ job' = [w \in Worker |->
                 IF job[w] # None /\ job[w].epa = e THEN [job[w] EXCEPT !.live = FALSE]
                                                    ELSE job[w]]
    /\ heldLive' = (heldLive /\ cur # e)
    /\ UNCHANGED <<envVars, tickVars, next, since, jobs, held, status, faults, changes>>

Move(e) ==
    /\ scrapes' = IF e \in scrapes THEN scrapes \ {e} ELSE scrapes \cup {e}
    /\ Change /\ UNCHANGED <<epas, ready>>

PodsChange(e) ==
    /\ ready' \in {[ready EXCEPT ![e] = ps] : ps \in (SUBSET Pod) \ {ready[e]}}
    /\ Change /\ UNCHANGED <<epas, scrapes>>

Tick ==
    /\ since' = Grown(since, Longest)
    /\ UNCHANGED <<envVars, tickVars, next, jobs, job, countVars, bounds>>

-----------------------------------------------------------------------------

Comes(e) == PassOver(e) \/ Process(e)

SchedulerGoesOn ==
    \/ Wake \/ Patched \/ Lookup \/ EndTick
    \/ \E e \in Epa : Comes(e)
    \/ \E p \in Pod : Send(p)

\* A free worker takes a job, and the timeout ends the wait for the head.
WorkerGoesOn(w) == Take(w) \/ Responds(w)

Around == \E e \in Epa : Register(e) \/ RemoveData(e) \/ Move(e) \/ PodsChange(e)

Next ==
    \/ SchedulerGoesOn \/ PatchFails \/ LookupFails
    \/ \E w \in Worker : WorkerGoesOn(w) \/ Succeeds(w) \/ Fails(w)
    \/ Around \/ Tick

Spec == Init /\ [][Next]_vars

\* tokio polls the scheduler and each worker, API calls are answered, and a wait for
\* a response is timed.  Nothing ends the reading of a body but its end.
Fairness ==
    /\ WF_vars(Tick) /\ WF_vars(SchedulerGoesOn)
    /\ \A w \in Worker : WF_vars(WorkerGoesOn(w))

FairSpec == Spec /\ Fairness

-----------------------------------------------------------------------------
(* Properties.                                                             *)

HeldFor(e, live) == IF cur = e /\ heldLive = live THEN held ELSE Zero

Live(e) == {w \in Worker : job[w] # None /\ job[w].epa = e /\ job[w].live}

running    == [e \in Epa |-> Cardinality(Live(e))]
unreported == [e \in Epa |-> Plus(StatsOf(e), HeldFor(e, TRUE))]
stray      == [e \in Epa |-> HeldFor(e, FALSE)]

Report == INSTANCE ScrapeReport WITH
    running <- running, unreported <- unreported, stray <- stray

\* Every outcome of a scrape is counted and reported once, whatever workers do
\* while the counters are taken, reported and put back: the pipeline
\* implements ScrapeReport.
CountedOnce == Report!Spec

\* Some worker comes free again and again: not all of them read for ever.
SomeWorkerServes == \E w \in Worker : []<>(job[w] = None)

\* A worker sets about a job for pod p of e.
Scrapes(e, p) == \E w \in Worker : Take(w) /\ job'[w].epa = e /\ job'[w].pod = p

\* A full channel, slow scrapes and a worker that hangs delay the ownership pass of
\* an EPA, but none is forgotten as long as some worker serves: while it stays
\* registered, the scheduler comes to it again and again.
EveryEpaPasses ==
    SomeWorkerServes =>
        \A e \in Epa : <>[](epas[e] # None) => []<><<Comes(e)>>_vars

\* As long as some worker serves, a pod that stays ready, of an EPA that stays with
\* this replica, is scraped again and again: no other EPA of its ticks, and no
\* worker that hangs, keeps all the workers or the scheduler from it.
PodsScraped ==
    SomeWorkerServes =>
        \A e \in Epa, p \in Pod :
            <>[](epas[e] # None /\ e \in scrapes /\ p \in ready[e])
            => []<><<Scrapes(e, p)>>_vars

\* No worker takes on a job for an EPA that stays unregistered, from some moment on,
\* although a tick may have been at work on an older snapshot and jobs have waited.
DepartedRest ==
    \A e \in Epa :
        <>[](epas[e] = None) => <>[][\A p \in Pod : ~Scrapes(e, p)]_vars
=============================================================================
