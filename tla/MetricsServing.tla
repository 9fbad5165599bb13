---------------------------- MODULE MetricsServing ----------------------------
(***************************************************************************)
(* The metrics store of one replica, and who writes and reads it, for one  *)
(* metric of one EPA this replica owns: src/src/store, the storing half of *)
(* scraper/worker.rs, the storing half of scraper/scheduler.rs, the update *)
(* handler of scraper/service.rs and the local half of                     *)
(* webhook/metrics/handlers.rs.                                            *)
(*                                                                         *)
(* Time passes in ticks, and ages are counted up to where they stop to     *)
(* matter.  The scheduler is assumed to keep up: it goes round once a tick *)
(* (ScrapePipeline shows only that it goes round), and updates and         *)
(* requests are worked off within a tick.  A scrape takes as long as its   *)
(* response body.                                                          *)
(***************************************************************************)
EXTENDS Naturals, Sequences, FiniteSets, Aggregation

CONSTANTS
    Pod,
    Scrape,         \* the scrapes that can be under way at once
    Request,        \* the requests that can be under way at once
    Agg,            \* aggregation types a spec may ask for
    None,
    MaxSamples,     \* max_samples of a new window
    MaxAge,         \* a window whose newest sample is older is evicted (120 s)
    EvictEvery,     \* from one eviction to the next (60 s)
    Ttl,            \* of a cached result (10 s)
    Interval,       \* from one round of scrapes to the next
    MaxJobs,        \* bound: jobs of a pod in the channel
    MaxChanges      \* bound: changes of the EPA and of values, and failed lookups

ASSUME BoundAssumption ==
    {MaxSamples, MaxAge, EvictEvery, Ttl, Interval, MaxJobs, MaxChanges} \subseteq Nat

\* max_samples is at least one by a .max(1); the scheduler ticks once a second,
\* so that a shorter interval is one tick; the other two are not zero.
ASSUME TimingAssumption == 0 \notin {MaxSamples, EvictEvery, Ttl, Interval}

ASSUME AggAssumption == "avg" \in Agg /\ Agg \cap {None, "delete"} = {} /\ None # "delete"

VARIABLES
    kind,       \* the TYPE each pod exposes the metric with
    counter,    \* its value in each pod, and all it ever counted
    epa,        \* active_epas: the aggregation the registered spec asks for
    lag,        \* time since that changed, or a round could not look up its pods
    update,     \* what handle_updates works on
    written,    \* it has written the configuration of an upsert
    removing,   \* the reconcile of a deletion has yet to remove the data
    phase,      \* where the scheduler is in its tick
    seen,       \* the spec in its snapshot
    left,       \* ticks until the next round of scrapes is due
    evictIn,    \* ticks until the next eviction is due
    stale,      \* windows the eviction has found stale
    jobs,       \* jobs in the channel, per pod
    scrape,     \* scrapes that have a response
    window,     \* windows: samples, and the age of the newest
    config,     \* configs
    cache,      \* cache
    request,    \* requests that have computed a result
    changes

specVars  == <<epa, lag, update, written, removing>>
tickVars  == <<phase, seen, left, evictIn, stale>>
vars      == <<kind, counter, specVars, tickVars, jobs, scrape, window, config, cache,
               request, changes>>

\* No age or lag beyond these tells anything.
Oldest    == MaxAge + EvictEvery + 1
OldAnswer == Oldest + Ttl
LongAgo   == Interval + Ttl + 1

Sample == [value : 0 .. MaxChanges, total : 0 .. MaxChanges, overlapped : BOOLEAN]
Window == [samples : Seq(Sample), age : 0 .. Oldest]
\* The configuration it was computed with, and how long the contributor that has
\* been silent the longest has been: the age of its newest sample.
Answer == [agg : Agg, silent : 0 .. OldAnswer]
Cached == [agg : Agg, silent : 0 .. OldAnswer, age : 0 .. Ttl]
Response == [pod : Pod, sample : Sample]

ASSUME NoneAssumption == None \notin Window \cup Answer \cup Cached \cup Response

Listed == {p \in Pod : window[p] # None}

Kind == {"counter", "gauge"}

TypeOK ==
    /\ kind \in [Pod -> Kind]
    /\ counter \in [Pod -> [value : 0 .. MaxChanges, total : 0 .. MaxChanges]]
    /\ epa \in Agg \cup {None} /\ lag \in 0 .. LongAgo
    /\ update \in Agg \cup {None, "delete"} /\ written \in BOOLEAN /\ removing \in BOOLEAN
    /\ phase \in {"begin", "round", "evict", "remove", "done"}
    /\ seen \in Agg \cup {None}
    /\ left \in 0 .. Interval /\ evictIn \in 0 .. EvictEvery
    /\ stale \in SUBSET Pod
    /\ jobs \in [Pod -> 0 .. MaxJobs]
    /\ scrape \in [Scrape -> Response \cup {None}]
    /\ window \in [Pod -> Window \cup {None}]
    /\ \A p \in Listed : Len(window[p].samples) \in 1 .. MaxSamples
    /\ config \in Agg \cup {None}
    /\ cache \in Cached \cup {None}
    /\ request \in [Request -> Answer \cup {None}]
    /\ changes \in 0 .. MaxChanges

\* The EPA is registered.
Init ==
    /\ kind \in [Pod -> Kind]
    /\ counter = [p \in Pod |-> [value |-> 0, total |-> 0]]
    /\ epa = (CHOOSE a \in Agg : TRUE) /\ lag = LongAgo
    /\ update = None /\ written = FALSE /\ removing = FALSE
    /\ phase = "begin" /\ seen = None /\ left = 0 /\ evictIn = EvictEvery /\ stale = {}
    /\ jobs = [p \in Pod |-> 0] /\ scrape = [s \in Scrape |-> None]
    /\ window = [p \in Pod |-> None]
    /\ config = epa /\ cache = None /\ request = [r \in Request |-> None]
    /\ changes = 0

Earlier(n)    == IF n = 0 THEN 0 ELSE n - 1
Older(n, max) == IF n < max THEN n + 1 ELSE max

Values(w) == [i \in 1 .. Len(w.samples) |-> w.samples[i].value]

\* get_metric_config: the default is avg.
ConfiguredAgg == IF config = None THEN "avg" ELSE config

-----------------------------------------------------------------------------
(* Mutants: plausible bugs the runs are tested with; no action uses them.  *)
KeptTooLong(samples) == IF Len(samples) > MaxSamples THEN Tail(samples) ELSE samples
StaleTooLate(p)      == window[p].age > MaxAge + EvictEvery
ExpiryIgnored(c)     == TRUE

\* MetricWindow::push: the oldest sample goes when the window is full.
Room(samples) == IF Len(samples) >= MaxSamples THEN Tail(samples) ELSE samples

\* CachedAggregation::is_valid.
IsValid(c) == c.age < Ttl

Without(pods) == [p \in Pod |-> IF p \in pods THEN None ELSE window[p]]

-----------------------------------------------------------------------------
(* The registry: reconcile sends updates, handle_updates works them off.   *)

Change ==
    /\ changes < MaxChanges
    /\ changes' = changes + 1
    /\ UNCHANGED <<tickVars, jobs, scrape, window, config, cache, request>>

\* One update at a time: a longer queue is worked off in the same order.
Reconcile(u) ==
    /\ update = None /\ ~removing /\ u # epa
    /\ update' = u /\ written' = FALSE /\ removing' = (u = "delete")
    /\ Change /\ UNCHANGED <<counter, epa, lag>>

\* remove_epa_windows, in the reconcile that has sent the deletion.
RemoveData ==
    /\ removing
    /\ removing' = FALSE
    /\ window' = Without(Pod) /\ cache' = None /\ config' = None
    /\ UNCHANGED <<counter, epa, lag, update, written, tickVars, jobs, scrape, request,
                   changes>>

\* An upsert: the configuration first, then the registry.
WriteConfig ==
    /\ update \in Agg /\ ~written
    /\ written' = TRUE
    /\ config' = update
    /\ UNCHANGED <<counter, epa, lag, update, removing, tickVars, jobs, scrape, window,
                   cache, request, changes>>

Register ==
    /\ update \in Agg => written
    /\ update # None
    /\ epa' = IF update = "delete" THEN None ELSE update
    /\ lag' = IF epa' = epa THEN lag ELSE 0
    /\ update' = None /\ written' = FALSE
    /\ UNCHANGED <<counter, removing, tickVars, jobs, scrape, window, config, cache,
                   request, changes>>

-----------------------------------------------------------------------------
(* The scheduler.                                                          *)

ThenEvict == IF evictIn = 0 THEN "evict" ELSE "done"

Begin ==
    /\ phase = "begin"
    /\ IF epa # None /\ left = 0 THEN seen' = epa /\ phase' = "round"
                               ELSE seen' = None /\ phase' = ThenEvict
    /\ left' = IF epa = None THEN 0 ELSE left
    /\ UNCHANGED <<counter, specVars, evictIn, stale, jobs, scrape, window, config,
                   cache, request, changes>>

\* The ready pods have been found: retain_pod_windows, set_metric_config from
\* the snapshot, and a job for each.
Round ==
    /\ phase = "round"
    /\ left' = Interval
    /\ config' = seen
    /\ \E ready \in SUBSET Pod :
          /\ window' = Without(Pod \ ready)
          /\ jobs' = [p \in Pod |-> IF p \in ready THEN Older(jobs[p], MaxJobs) ELSE jobs[p]]
    /\ phase' = ThenEvict
    /\ seen' = None
    /\ UNCHANGED <<counter, specVars, evictIn, stale, scrape, cache, request, changes>>

\* get_pod_selector or get_ready_pods fails: the deadline stays as it was, so
\* that the next tick tries again, and no configuration is written.
LookupFails ==
    /\ phase = "round" /\ changes < MaxChanges
    /\ changes' = changes + 1
    /\ phase' = ThenEvict
    /\ seen' = None
    /\ lag' = 0
    /\ UNCHANGED <<counter, epa, update, written, removing, left, evictIn, stale, jobs,
                   scrape, window, config, cache, request>>

IsStale(p) == window[p].age > MaxAge

\* evict_stale_windows reads all windows, and then removes by key.
FindStale ==
    /\ phase = "evict"
    /\ stale' = {p \in Listed : IsStale(p)}
    /\ phase' = "remove"
    /\ UNCHANGED <<counter, specVars, seen, left, evictIn, jobs, scrape, window, config,
                   cache, request, changes>>

RemoveStale ==
    /\ phase = "remove"
    /\ window' = Without(stale)
    /\ stale' = {} /\ evictIn' = EvictEvery /\ phase' = "done"
    /\ UNCHANGED <<counter, specVars, seen, left, jobs, scrape, config, cache, request,
                   changes>>

-----------------------------------------------------------------------------
(* The workers, from the moment the pod has rendered its response.         *)

\* It may take any time to arrive, and another one may overtake it.
Respond(s, p) ==
    /\ scrape[s] = None /\ jobs[p] > 0
    /\ jobs' = [jobs EXCEPT ![p] = @ - 1]
    /\ LET others == {t \in Scrape : scrape[t] # None /\ scrape[t].pod = p} IN
       scrape' = [t \in Scrape |->
            CASE t = s ->
                    [pod |-> p, sample |-> [value      |-> counter[p].value,
                                            total      |-> counter[p].total,
                                            overlapped |-> others # {}]]
              [] t \in others -> [scrape[t] EXCEPT !.sample.overlapped = TRUE]
              [] OTHER -> scrape[t]]
    /\ UNCHANGED <<counter, specVars, tickVars, window, config, cache, request, changes>>

\* push_sample finds or makes the window, and writes to it.
Push(s) ==
    /\ scrape[s] # None
    /\ scrape' = [scrape EXCEPT ![s] = None]
    /\ LET p    == scrape[s].pod
           kept == IF window[p] = None THEN <<>> ELSE Room(window[p].samples)
       IN  window' = [window EXCEPT ![p] =
                         [samples |-> Append(kept, scrape[s].sample), age |-> 0]]
    /\ UNCHANGED <<counter, specVars, tickVars, jobs, config, cache, request, changes>>

\* The response cannot be read or lacks the metric; or the window leaves the
\* map after push_sample has found it, and the sample is written to an orphan.
Fail(s) ==
    /\ scrape[s] # None
    /\ scrape' = [scrape EXCEPT ![s] = None]
    /\ UNCHANGED <<counter, specVars, tickVars, jobs, window, config, cache, request,
                   changes>>

NoResponse(p) ==
    /\ jobs[p] > 0
    /\ jobs' = [jobs EXCEPT ![p] = @ - 1]
    /\ UNCHANGED <<counter, specVars, tickVars, scrape, window, config, cache, request,
                   changes>>

-----------------------------------------------------------------------------
(* The requests.  One that finds a valid cache entry answers with it, one  *)
(* that finds no contributor is refused; neither changes anything.         *)

\* The pods aggregate_metric has a value for.
Contributors == {p \in Listed : kind[p] = "counter" => HasRate(Values(window[p]))}

\* get_windows, get_metric_config, aggregate_metric.
Compute(r) ==
    /\ request[r] = None
    /\ cache # None => ~IsValid(cache)
    /\ Contributors # {}
    /\ \E p \in Contributors :
          /\ \A q \in Contributors : window[q].age <= window[p].age
          /\ request' = [request EXCEPT ![r] =
                           [agg |-> ConfiguredAgg, silent |-> window[p].age]]
    /\ UNCHANGED <<counter, specVars, tickVars, jobs, scrape, window, config, cache,
                   changes>>

\* cache_result, and the answer.
Finish(r) ==
    /\ request[r] # None
    /\ cache' = [agg |-> request[r].agg, silent |-> request[r].silent, age |-> 0]
    /\ request' = [request EXCEPT ![r] = None]
    /\ UNCHANGED <<counter, specVars, tickVars, jobs, scrape, window, config, changes>>

\* cleanup_expired_cache.
CleanUp ==
    /\ cache # None /\ ~IsValid(cache)
    /\ cache' = None
    /\ UNCHANGED <<counter, specVars, tickVars, jobs, scrape, window, config, request,
                   changes>>

-----------------------------------------------------------------------------
(* Pods and time.                                                          *)

\* A counter counts, a gauge rises.
Count(p) ==
    /\ counter' = [counter EXCEPT ![p].value = @ + 1, ![p].total = @ + 1]
    /\ Change /\ UNCHANGED specVars

\* A pod restarts its counter, a gauge falls.
Restart(p) ==
    /\ counter[p].value > 0
    /\ counter' = [counter EXCEPT ![p].value = 0]
    /\ Change /\ UNCHANGED specVars

Tick ==
    /\ phase = "done" /\ phase' = "begin"
    /\ update = None /\ ~removing /\ \A r \in Request : request[r] = None
    /\ left' = Earlier(left) /\ evictIn' = Earlier(evictIn)
    /\ lag' = Older(lag, LongAgo)
    /\ window' = [p \in Pod |->
          IF window[p] = None THEN None ELSE [window[p] EXCEPT !.age = Older(@, Oldest)]]
    /\ cache' = IF cache = None THEN None
                ELSE [cache EXCEPT !.age = Older(@, Ttl), !.silent = Older(@, OldAnswer)]
    /\ UNCHANGED <<counter, epa, update, written, removing, seen, stale, jobs, scrape,
                   config, request, changes>>

-----------------------------------------------------------------------------

Step ==
    \/ \E u \in Agg \cup {"delete"} : Reconcile(u)
    \/ RemoveData \/ WriteConfig \/ Register
    \/ Begin \/ Round \/ LookupFails \/ FindStale \/ RemoveStale
    \/ \E s \in Scrape, p \in Pod : Respond(s, p)
    \/ \E s \in Scrape : Push(s) \/ Fail(s)
    \/ \E p \in Pod : NoResponse(p) \/ Count(p) \/ Restart(p)
    \/ \E r \in Request : Compute(r) \/ Finish(r)
    \/ CleanUp \/ Tick

Next == Step /\ UNCHANGED kind

Spec == Init /\ [][Next]_vars

-----------------------------------------------------------------------------
(* Properties.                                                             *)

\* What a request may be answered now: a cached result, or one just computed.
Answers ==
    {request[r] : r \in {x \in Request : request[x] # None}}
    \cup (IF cache # None /\ IsValid(cache) THEN {cache} ELSE {})

\* A pod that has fallen silent - it is gone, or its scrapes fail - drops out of the
\* answers in the time that eviction and the cache allow, even when the
\* EPA is deleted while a request computes.  How far back the window of a pod that
\* answers reaches is another matter: all of its samples are used.
SilentPodsDropOut ==
    \A a \in Answers : a.silent < MaxAge + EvictEvery + Ttl

\* A change of the aggregation reaches the answers within a round and the life of a
\* cached result, although a scheduler still working on the old spec may write its
\* configuration over the new one.  While lookups fail no round puts that right:
\* the time is counted from the last that failed.  It matters for gauges.
AnswersFollowSpec ==
    \A a \in Answers :
        \/ a.agg = epa \/ epa = None \/ update = "delete"
        \/ written /\ a.agg = update
        \/ lag < Interval + Ttl

\* The rate of a counter never shows more than it counted, restarts, evictions and
\* lost samples notwithstanding, unless two scrapes of the pod overlapped.
RateIsTrue ==
    \A p \in {q \in Listed : kind[q] = "counter"}, elapsed \in {0, Interval} :
        LET s    == window[p].samples
            rate == Rate(Values(window[p]), elapsed)
        IN  (HasRate(s) /\ \A i \in 1 .. Len(s) : ~s[i].overlapped) =>
            rate[1] * elapsed <= (Last(s).total - Head(s).total) * rate[2]

\* Each aggregation type gives what its name says of a gauge's window as it was
\* last written, and of what it becomes with one more sample, if it has the room.
AggregatesAreRight ==
    \A p \in {q \in Listed : kind[q] = "gauge" /\ window[q].age = 0}, type \in AggregationType :
        LET s == Values(window[p]) IN
        \A values \in {s, Append(s, counter[p].value)} :
            IsAggregate(AggregateSamples(values, type), values, type)
=============================================================================
