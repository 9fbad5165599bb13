# A formal model of the external-pod-autoscaler

TLA+ modules that model how the replicas of the external-pod-autoscaler find
each other, divide the ExternalPodAutoscalers (EPAs) among themselves, hand them
over and follow their edits; configurations that check the modules with TLC on
small instances; and theorems about them, proved with TLAPS for every value of
the constants. Paths below are those of the repository under `src/`.

## 1. The system

Several replicas of one process run in a cluster. Each follows all EPAs, takes
part in an election by rendezvous hashing, scrapes the pods of the EPAs it wins,
keeps the samples in memory only, and answers requests for external metrics,
its own or by forwarding them. Nothing but Kubernetes objects is shared: one
`Lease` per replica, the EPAs, and one HPA per EPA.

| Component | State | Operations | Hard behaviour | What makes it correct |
|---|---|---|---|---|
| **Membership** `membership/manager.rs` | the lease in the API server; `active_replicas`, `draining_replicas`, `local_draining` | register and renew (create, on 409 apply), watch and re-list, mark draining, delete | two tasks write the same lease; calls fail or outlive their caller; only applied events announce a change; crash and restart in the same pod | views are disjoint; a draining replica stays out; who is gone is forgotten, who lives stays; a deleted lease stays deleted but for a request still on its way; views converge |
| **Process lifecycle** `main.rs` | phase of the main task, the drain timer | start-up order, SIGTERM, SIGINT, second signal, abort, delete, exit | signals at any point; a component task that ends first | the drain sequence is followed; nothing announces the replica as active after it began |
| **EPA ownership** `membership/ownership.rs` | the maps `owned` (`since`, period) and `lost` (`lost_at`, period) | election, `refresh_ownership`, `should_scrape_epa`, `should_serve_epa` | lose, win, lose within one grace period; periods that change; deletion and re-creation | an EPA is never in both maps; a loser keeps it for period plus `GRACE_BUFFER`; an owner serves a full window |
| **Metric requests** `webhook/metrics/handlers.rs` | result cache | name parsing, cache lookup, serve or forward (owner, else predecessor) | views and clocks of two replicas differ while a request travels; the spec changes or the EPA goes while one computes | at most two hops; a replica with a full window answers; silent pods drop out of the answers, which follow the spec |
| **Scheduler** `scraper/scheduler.rs` | `next_scrape`, `last_eviction` | tick: snapshot of the registry, ownership, deadline, status report, pods, configs, jobs; eviction | blocks on the job channel; failing status patches and lookups; a snapshot that ages | every EPA has its turn; every pod is scraped; outcomes are reported once |
| **Scraper service** `scraper/service.rs` | `active_epas`, bounded update channel | handle `Upsert` and `Delete` | order of updates, full channel | every replica has the latest version registered |
| **Worker pool** `scraper/worker.rs`, `parser.rs` | none | scrape one pod, select series, push the sample, count | two workers on one pod; body read outside the timeout | counts that add up; selectors mean what Kubernetes means by them |
| **Pod cache** `scraper/pod_cache.rs` | reflector per namespace, `Notify` | start once, wait until ready, select pods | a lost wake-up, a failed start, a stream that ends | one reflector per namespace, whose store is kept up to date; no waiter hangs; a failed start is retried |
| **Metrics store** `store/*.rs` | windows, result cache, configs, scrape statistics | push, read, cache, evict, remove, snapshot and restore | concurrent tasks on one key, eviction against push | a reader never sees expired data; counts are not lost |
| **Aggregation** `webhook/metrics/aggregation.rs` | none | avg, max, min, median, last of a gauge; rate of a counter; sum over pods | counters that restart, samples in the wrong order | each type gives what its name says; a rate never shows more than was counted |
| **Controller** `controller/externalpodautoscaler/*.rs` | watch cache, requeue timers | reconcile: observe, own?, apply the HPA, update the scraper, remove data | ownership read before the API call, deletion without finalizer, retry | versions reach the scraper in order; the owner's HPA follows the EPA |
| **Admission** `webhook/admission/handlers.rs` | none | defaulting (mutate), validation | called again at each update; three parsers of one duration; a target copied once | what is admitted works, but for four known exceptions, and scrapes what it scales; a second pass changes nothing |
| **Servers** `webhook/server.rs`, `health/server.rs` | readiness flags | TLS, routing | none: monotone flags | - |
| **CRD and bootstrap** `apis/`, `controller/run.rs` | none | install CRD and APIService | none: one idempotent call each | - |

How they interact: the leases feed the views; the views decide ownership at each
scheduler tick and at each request; the controller feeds the registry through a
channel; the registry feeds the scheduler, the scheduler the workers, the workers
the store, the store the requests. `main.rs` starts and stops all of them.

`PROJECT.json` lists the components with their status and every hazard with its
line; the properties below are aimed at the hazards.

## 2. The modules

| Module | Models | Uses | Checked as | Proofs |
|---|---|---|---|---|
| `LeaseMembership` | membership and the main task's drain | - | `MCLeaseMembership` | `LeaseMembershipProofs` |
| `Rendezvous` | the election, as an operator | - | - | `EpaOwnershipProofs` |
| `EpaOwnership` | the two maps of each replica, under any views | `Rendezvous` | `MCEpaOwnership` | `EpaOwnershipProofs` |
| `Handoff` | replicas that run `EpaOwnership` on lagging views, and forward requests | `EpaOwnership` | `MCHandoff` | `HandoffProofs` |
| `ControllerSync` | the reconciles of one EPA on every replica, HPA, update channel, registry | - | `MCControllerSync` | `ControllerSyncProofs` |
| `PodCacheSync` | the start and the end of the reflector of a namespace, and who waits for it | - | `PodCacheSync` | `PodCacheSyncProofs` |
| `ScrapeReport` | what the status of an EPA promises about its scrapes | - | in `ScrapePipeline` | - |
| `ScrapePipeline` | scheduler, job channel, workers and scrape statistics of one replica | `ScrapeReport` | `MCScrapePipeline` | `ScrapePipelineProofs` |
| `Aggregation` | samples to one number, as operators, with a reference definition | - | in `MetricsServing` | - |
| `MetricsServing` | the metrics store, its writers and its readers, for one metric | `Aggregation` | `MCMetricsServing` | `MetricsServingProofs` |
| `Selectors` | label selectors as three pieces of code read them | - | in `Admission` | - |
| `Admission` | from the manifest through both webhooks to HPA and scrape target | `Selectors` | `MCAdmission` | `AdmissionProofs` |

Two abstract specifications are implemented. `EpaOwnership` is what one replica
promises under arbitrary views and restarts; `Handoff` is the detailed one, built
from its actions, and `HandoffImplementsOwnership` shows that it implements it, so that
what is proved of one replica holds in the cluster. `ScrapeReport` says that every outcome of a scrape is reported
once; `ScrapePipeline` implements it under the refinement mapping `Report`, by TLC
(`CountedOnce`) and TLAPS (`PipelineImplementsReport`).

What one module leaves open another decides: `ScrapePipeline` changes registry,
ownership and pods at will, which `ControllerSync`, `EpaOwnership` and
`PodCacheSync` govern; `MetricsServing` takes the rounds of scrapes from
`ScrapePipeline` and the updates from `ControllerSync`.

### LeaseMembership

`lease[r]` is the Lease object (age, label, or none); `net` holds the requests in
flight, each with the task that sent it (`main`, `loop`, or a late one whose
caller is gone); `phase[r]` is where the main task stands; `active`, `draining`
and `localDraining` are the fields of `MembershipManager`; `list` is the answer a
discovery loop has yet to apply, `event` that its watch has something, `due` and
`timer` the renewal interval, `left` what is left of the drain.

A renewal is split where the code awaits: it reads `local_draining` when it is
sent (`Renewal`), and takes effect when the API server handles it (`Created`,
`Conflict`, `Applied`). `update_active_replicas` is split the same way: the list
(`ListLeases`) and what is made of it (`UpdateActiveReplicas`, which applies the
local override). `CallFails`, `ListFails`, `LateLost` and `WatchResync` are the
failures; `Crash`, `Start` and `GarbageCollect` the life of a pod.

Simplifications: one clock for all replicas; the lease duration is the constant
every lease is written with; watch events coalesce, since each only triggers a
fresh list; a server-side apply of the only field manager is a replacement.

### Rendezvous and EpaOwnership

`Weight[e][r]` stands for the 64-bit hash of an EPA and a replica. The assumption
`NoTies` excludes equal weights: the hash decides, and a tie of two hashes is not
modelled. `HighestWeight` is the winner among a set.

`owned[r][e]` and `lost[r][e]` are the maps, with elapsed ticks instead of
instants; `epas[r][e]` is the registered period; `window[r][e]` is for how long
the store has been fed, supposing that scrapes succeed. `Process` is one EPA of
one tick (`refresh_ownership`, then scrape); the views change arbitrarily
(`ViewChange`), so what is proved here holds whatever membership does.

### Handoff

One `status` per replica stands for its lease; `See` brings a view up to date,
at most `MaxLag` ticks late; `Learn` is the controller's upsert; `Schedule`
processes each EPA once per tick and replica, anywhere in the tick; `Join`,
`Drain`, `Leave`, `Crash` and `Expire` are the membership changes and `Tick` the
time. `Target` and `AnsweredBy` follow a request from any replica through its
hops, in one state; a target that answers 503 and makes the sender fall back is
not modelled.

### ControllerSync

A `version` stands for a uid with a generation. `Trigger` is the watch behind
the generation predicate: the deletion of an object carries a version already
seen and triggers nothing. `Observe`, `Decide`, `Apply`, `Send` and `Clear` are
the stretches of `reconcile` between its awaits; kube-runtime runs one reconcile
of an object at a time. `owner[r]` is the answer of `is_epa_owner`, changed at
will by `Move` so that two replicas or none may believe to own the EPA.
`HandleUpdate`, `Tick`, `Scrape` and `Evict` are the scraper's side. Left out:
the fields of the HPA, the `Ready` condition, the metric configs, and a request
that is applied after the process that sent it has died.

### PodCacheSync

`store` is the published reflector store (by the number of its task), `starting`
the membership of the namespace in the set of that name, `at[c]` the await a
caller of `get_ready_pods` stands at, `mine[c]` the task it has spawned, `task[i]`
and `synced` the reflector tasks. Every access to the shared map, set or `Notify`
is a step: `Call`, `FoundPublished`, `FoundStarting`, `Spawn` are the look before
and under the mutex; `Look`, `Listen`, `GiveUp` the waiter's loop, where a
notification between `Look` and `Listen` is missed; `Ready`, `Publish`, `SyncLate`,
`SyncFailed`, `Abort`, `Clear`, `Notify` the starter; `StreamEnds`, `Evict`,
`ClearFlag`, `Announce` the last arm of the reflector task, which can be aborted
only at its await.

Simplifications: one namespace, so a wake-up for another namespace is not there
(it only makes a waiter look again); the 30 s deadlines are not timed; the mutex is
a step, since nothing is awaited while it is held. Today one task, the scheduler,
calls `get_ready_pods` (`scheduler.rs:204`); the code is written for several, and
so is the module.

### ScrapePipeline and ScrapeReport

`epas`, `scrapes` and `ready` are the environment: registry, ownership, ready pods.
`phase`, `seen`, `todo`, `cur`, `unsent` say where the scheduler is in its tick;
`next` is `next_scrape`, in ticks as of the scheduler's tick (`tick_now`), `since`
the time since that. `jobs` is the channel, `job[w]` a worker's scrape, with `body`
once it has the head of the response and reads the body. `stats[e]`
are the counters in the store; `held` what `snapshot_and_reset` has taken;
`live` and `heldLive` tell whether somebody holds the counters that are in the
store or those of before a `remove_epa_windows`.

`Wake` copies the registry, `PassOver` and `Process` are `refresh_ownership` with
the deadline test, `Patched` and `PatchFails` the status report and `restore`,
`Lookup` and `LookupFails` selector and pods, `Send` one job, `EndTick` the
`retain`. `Take`, `Responds`, `Succeeds` and `Fails` are a worker: the timeout of the
code ends the wait for `Responds` (or it is `Fails`), but nothing ends that for
`Succeeds`. A failed scrape and a failed call are faults.

In `ScrapeReport` the scrapes of an EPA are numbers: running, unreported, reported.
A report may take any part of what is unreported, since a worker may count between
the two swaps and the patch; a report whose answer is lost leaves it unreported, the
one way to count twice; a removal drops what it finds.

### MetricsServing and Aggregation

One metric of one EPA that this replica owns. `kind[p]` is the type pod `p` exposes it
with, `counter[p]` the value it shows, with all it ever counted; `epa` is the registered aggregation; `update` and
`written` where `handle_updates` is in its message; `removing` that a deletion has
sent its message and has yet to remove the data; `phase`, `seen`, `left`, `evictIn`,
`stale` the scheduler; `jobs` and `scrape` jobs and responses under way; `window`,
`config`, `cache` the store; `request[r]` a result computed and not yet cached.

`Reconcile`, `RemoveData`, `WriteConfig`, `Register` are the registry side; `Begin`,
`Round` (retain, configure, dispatch) or `LookupFails` (which leaves deadline and
configuration as they were), `FindStale`, `RemoveStale` a tick of the scheduler; `Respond`, `Push`, `Fail`, `NoResponse` the workers, in any order, so that
a late body overtakes or is overtaken; `Compute`, `Finish`, `CleanUp` the requests
and the cache. Requests answered from the cache or refused change nothing and are
no action: `Answers` is what may be answered in a state.

Only counters need two samples, and the aggregation type matters only for gauges
(`Contributors`). An answer is kept as the configuration it was computed with and
`silent`, how long the contributor that has been silent the longest has been: the age
of its newest sample. How far its window reaches back is not in the answer.

Assumed: the scheduler goes round once a tick, updates and requests are worked off
within a tick; lookups may fail (`changes` bounds how often). The lookup of the windows and the reads of
their samples are one step. A sample pushed to a window that has just left the map
is lost: `Fail`. Elapsed times of a window are not tracked: `RateIsTrue` holds for
a span of none and for one of an interval. Values are integers; f64 and its rounding
to i64 are left out.

`Aggregation` holds `aggregate_samples` and `calculate_rate` as operators, and
`IsAggregate`, which says what an average, a maximum, a median is without sorting or
folding: the median lies in the middle of the values that have at most half of the
others on either side. TLC compares the two on every window it reaches, and
`Aggregates` proves them equal for any number of values.

### Admission and Selectors

`stored` is the object the API server holds, `applied` the manifest kubectl last
applied, `workload` the selector of the target; `named` and `moved` record what an
author did to the targets. A field is `Absent`, `Empty`, or has a value; a duration
is a sign, a number and a unit. `Put` is a create or an update and `Apply` a
`kubectl apply` with its three-way merge; both go through `Mutated` (the defaults of
the types, then `apply_defaults`) and `IsValid` (`validate_epa_spec`). A review that
is refused changes nothing and is no step. `HpaOf`, `TargetOf`, `MaxSamples`,
`Parses` are what controller, scheduler and worker do with the stored object.

`Selectors` holds what `build_label_selector_string` with `pod_matches_selector`,
and `matches_label_selector`, take a selector for, and `Selects`, what Kubernetes
means by it.

Both webhooks are registered for CREATE and UPDATE with failure policy Fail
(`charts/external-pod-autoscaler/templates/webhooks.yaml`), so nothing gets past
them. Not modelled: blanks around a duration, the behavior of the HPA, and the
override `metrics[].evaluationPeriod`, which no code reads.

## 3. What the runs check

All liveness properties are under the fairness named in section 5.

| Run | Instance | Properties |
|---|---|---|
| `lease_shutdown` | one replica, two starts, one crash, one failed call, one late request at a time | `SelfStaysOut`: once out of its own view, a draining replica does not come back by an older list; `NoReactivation`: once shutdown has begun and neither the lease nor a request says "active", nothing does until a new process registers; `DeletionHolds`: once a lease is deleted and no renewal that outlived its task is on its way, neither comes back until a process starts |
| `lease_timing` | two replicas, lease 3, renewal 1, drain 4, one crash, one failed call | `DeadForgotten`: a dead replica leaves the views in bounded time although its expiry raises no event; `PeersSeeDrain`; `LiveStaysActive`: a missed renewal costs nobody membership |
| `lease_convergence` | two replicas, one departure of any kind and a return | `Convergence`: in the end every running replica sees exactly the running replicas |
| `ownership` | one live replica of two, two EPAs, arbitrary views, periods and restarts, one deletion | `WonOrLost`; `WindowAsOldAsOwnership`: without a deletion, an owner has been fed for as long as it has owned; `GraceHonoured`: a loser keeps scraping for the period it lost it with plus the buffer, whatever happens in between |
| `handoff_drain` | three replicas drained one after the other, lag 2, after a long calm: the hypotheses of the theorems `ScaleDown*` | `FullAnswer`: whichever replica is asked, a replica with a full window answers; `TwoHops` |
| `handoff_settles` | a join, a drain, a crash and a creation in any order | `Settles`: a bounded time after the last change just the winner scrapes and serves, even while a dead replica that would win still holds a valid lease; `Recovers`: and if it runs, it has a full window and every replica that is asked turns to it at once |
| `sync_order` | two replicas, two versions, channel of two, a failed call, a crash, a move of ownership | `InOrder`: registry, channel and running reconcile are in the order of versions; `NothingMissed`: a replica that has seen the latest version and has no reconcile, requeue or update under way has it registered and, as the owner all along, applied; `HpaNeverOlder`: the HPA does not go back while ownership has not moved |
| `sync_follows` | one replica, three versions, channel of one, a failed call, a crash, two moves | `AllRegister`: the latest version gets registered, owner or not; `OwnerApplies`: and applied by a replica that alone owns the EPA before a reconcile of that version has asked, and keeps it; `OwnerForgets`: an owner that finds the EPA marked for deletion unregisters it, and its windows go in the end |
| `pod_cache` | two callers, six reflector numbers, a start that is too slow, a stream that ends | `FewReflectors`: one task watches the namespace, and after `n` ended streams at most `n(n+1)` more; `StoreIsLive`: while no stream has ended, what callers read is filled, kept up to date, and has no rival; `CallReturns`: nobody waits for ever, although a wake-up can be missed; `ReadyInTheEnd`: a failed start is tried again |
| `scrape` | one EPA with two workers, either of which may hang; and two EPAs that compete for one worker while the other hangs; one slot, a failure, a change or a removal | `CountedOnce`: implements `ScrapeReport`; `DepartedRest`: an unregistered EPA is taken up no more in the end; and as long as some worker comes free again and again (`SomeWorkerServes`): `EveryEpaPasses`: the ownership pass of each EPA comes again and again, although the scheduler blocks on the channel; `PodsScraped`: so does each pod's turn |
| `serving` | one pod with a counter or a gauge, two scrapes (of a gauge one) and a request under way, window of two samples, two changes or failed lookups | `TypeOK`; `SilentPodsDropOut`: a pod that has not been scraped for 120 s + 60 s + 10 s is in no answer, whatever is deleted, evicted or overtaken; `AnswersFollowSpec`: a new aggregation reaches the answers within an interval and the life of a cached result, counted from the change or the last lookup that failed; `RateIsTrue`: a rate shows no more than was counted, unless scrapes of the pod overlapped; `AggregatesAreRight`: a gauge's window is aggregated to what `IsAggregate` says |
| `admission` | over a hundred manifests, three requests, eight kinds of requirements | `WorksButForFour`: of what is let in, exactly the objects with a plus sign, an overflowing duration or an interval past the last instant cannot be scraped, and exactly those with a target of `NaN` or `inf` cannot be scaled; `ResubmittedUnchanged`; `ScrapesWhatItScales`; `WindowSpansPeriod`: `max_samples` covers the period; `SelectsTheSame`: usable selectors select what Kubernetes would |

### Observed, without a run of its own

Disagreements between the code and what its documentation says, and behaviours
the properties above have to allow for. They were seen with TLC, by changing the
named constant or by stating the stronger property, or read in the code.

- *Ownership outlives deletion.* Deleting an EPA removes its windows but not its
  entry of `owned`, and `refresh_ownership` keeps an old `since`
  (`ownership.rs:134`): an EPA deleted (with a finalizer) and created again is
  served at once from an empty window, while docs/lease-membership.md has
  `should_serve_epa` wait for a full evaluation window. `WindowAsOldAsOwnership`
  excepts this case.
- *Newcomers serve at once.* The previous owner is looked for among active and
  draining replicas together (`ownership.rs:202`), so a replica that joins and wins
  against an active one finds itself and serves immediately from an almost empty
  window; docs/lease-membership.md has it wait for the evaluation period. The
  theorem `ScaleDownWaits` is about scaling down; where a replica
  joins that wins, TLC refutes `WaitsForPredecessor`, and no run checks it.
- *Forwarding in a circle.* The same lookup may name a draining replica that does
  not serve the EPA (one created during the drain): owner and draining replica
  forward to each other until the client times out, although the comment at
  `handlers.rs:92-99` says that cycles are impossible. The instance of `TwoHops`
  creates no EPA during a drain.
- *Deletion without a finalizer.* The controller sends `Delete` only when it finds
  a `deletionTimestamp` (`reconcile.rs:101`). It sets no finalizer, so an ordinary
  deletion removes the object at once and the entry of `active_epas` stays until
  the process ends, although the comment at `service.rs:15-16` says that the
  scraper is notified of deletions.
- *A reflector that ends.* It evicts the store by namespace and after an await
  clears the flag (`pod_cache.rs:133-134`): it may evict the store of a reflector
  started since, and clear the flag of the start that follows. And a stream that
  ends between the initial sync and the publication (`pod_cache.rs:147-152`) leaves
  a store that nobody updates. kube's watcher retries for ever, so the arm is not
  expected to run; `StoreIsLive` and `ReadyInTheEnd` assume that it does not. With
  `MaxEnds = 2`, three callers and eight numbers, TLC refutes a bound of two more
  reflectors per ended stream: an ended stream clears the flag of a start, so that a
  second caller holds it, and the eviction of a later end lets each of them spawn.
- *A body without end.* The timeout of a scrape covers the response head only
  (`worker.rs:159-181`), while README.md:87 calls `timeout` the "per-pod scrape
  timeout": a body that never ends holds its worker for ever, and all workers held
  so stop every scrape and every ownership pass. `EveryEpaPasses` and `PodsScraped`
  therefore suppose that some worker comes free (`SomeWorkerServes`); otherwise TLC refutes both.
- *Overlapping scrapes.* When the scrapes of a pod overlap, their samples may be
  stored in the wrong order, which reads as a restart of the counter and shows an
  increase that was not there: the exception in `RateIsTrue`.
- *Windows of one sample.* A period not longer than the interval gives
  `max_samples` 1, and a counter never has the two samples a rate needs. An
  interval in ms counts as at least one second.
- *Windows count samples.* README.md:91 calls the evaluation period a sliding
  window; a window keeps `max_samples` samples of any age, and all of them go into
  the answer: when scrapes fail in between, it reaches further back than the period.
  `SilentPodsDropOut` bounds the age of the newest sample only.
- *A configuration while lookups fail.* The scheduler may write the configuration of
  its snapshot over that of a newer spec, which the next round puts right; as long as
  lookups fail (`scheduler.rs:203-204`) there is none, and requests are answered with
  the old aggregation. `AnswersFollowSpec` counts from the last failure.
- *Durations that pass.* `validate_duration` takes `+5s` and hours that overflow:
  humantime refuses them at every tick, so the EPA is never scraped. An interval
  near the limit parses and `now + interval` (`scheduler.rs:223`) panics in the
  scheduler task. `0s` is accepted. It cuts off the last byte of the text, which
  panics inside a multi-byte character. A long period over a short interval makes
  `max_samples` large, which `window.rs:21` allocates at once: memory is not modelled.
- *Target values.* `parse::<f64>` accepts `NaN` and `inf`, which the HPA refuses, and
  refuses `500m`, which the comment at `admission/handlers.rs:263` calls a valid
  quantity. Signs, overflow, far intervals and these targets are the four exceptions of
  `WorksButForFour`, which says that there is no fifth.
- *Copied targets.* mutate copies `scaleTargetRef` into `scrapeTargetRef` before the
  API version is filled in, and once. A `kubectl apply` that edits the scale target
  only then scales one workload and scrapes the other: the exception in
  `ScrapesWhatItScales`.
- *Selectors without values.* `In` and `NotIn` without values require nothing in
  `matches_label_selector`.

- *Late renewals.* `register_and_renew` reads `local_draining` before its calls;
  a renewal of the loop applied after `mark_draining`'s own takes the label away
  until the next renewal (`manager.rs:131`; the comment at 367-368 promises the
  label). A renewal whose task was aborted may still be on its way and create the
  lease again after `delete_lease`, although docs/lease-membership.md:270 and the
  comment at `main.rs:203-204` say that it cannot: `DeletionHolds` begins when no such
  renewal is left.
- *Restarts seen late.* With `MaxStarts = 3`, a replica that has restarted and joined
  again may be dropped by a rebuild that still works on an older list; a watch
  event that repairs this is then pending, which `LiveStaysActive` allows for.
- *Two failed renewals.* With `MaxFaults = 2`, `LiveStaysActive` fails: a lease of
  30 s expires at the instant the third renewal is due.
- *The grace buffer.* For a single drain `FullAnswer` holds exactly when the
  buffer is at least the view lag plus one tick, and the drain at least the
  period plus lag plus one tick. `ScaleDownKeepsWindows` proves these margins
  sufficient; with any of them one tick smaller, or drains that follow each other
  at `DrainTicks`, TLC violates `FullAnswer`. Nothing in the code compares
  `DRAIN_DURATION` with an evaluation period. The comment at `ownership.rs:124-126` bounds the
  lag by the renewal interval (10 s); the buffer is 5 s.
- *Overlapping drains.* If a second drain starts while the first replica still
  drains but is past its grace, the heaviest of all is not the real predecessor,
  and `FullAnswer` fails: the same cause as the forwarding in a circle.
- *The HPA after a move.* Ownership is read before the HPA is applied, and no
  reconcile follows a change of ownership. An owner of before may apply an older
  version last, and an EPA whose owner dies before applying it has no HPA until
  the EPA changes or a controller restarts. `HpaNeverOlder` and `OwnerApplies` say
  what does hold.
- *Ownership and deletion.* A replica that is not the owner when it sees the mark
  for deletion never unregisters the EPA, even if it becomes the owner next.
- *Shutdown of the controller.* It has its own signal handler
  (`controller.rs:66`); when its task ends before the main task handles SIGTERM,
  `select!` may take that branch and skip the drain. To the other replicas and to
  the lease this is the action `Crash`, which `DeadForgotten` and `Convergence`
  include.

## 4. Bounds

Every bound is a named constant. Times are in ticks: in `lease_timing` a tick is
the renewal interval (10 s), so that the lease of 3, the interval of 1 and a
drain longer than the lease have the ratios of the code; in `Handoff` a tick is
the scheduler's. Two replicas are all that a lease protocol without messages
between replicas can tell apart; `Handoff` uses three so that the loser, the
winner and a bystander or a second drain occur; the weights are fixed, and since
any replica may join, drain or crash, every relative order of those involved
occurs. Counters of starts, crashes, faults, joins, drains,
deletions, versions and moves are large enough for each event to happen once in
the middle of every other. `Older`, `Later` and `MaxCalm` saturate clocks above
every value that a guard compares them with. Deadlock is checked everywhere but
in `ControllerSync`, which has no clock: without an EPA nothing is due there, and
it rests; and in `Admission`, where an author stops after `MaxEdits` requests.

In `PodCacheSync` two callers are starter and waiter, and either may be both in
turn; six numbers are enough for a task to be always free to start (`Spawn` needs
one). In `ScrapePipeline` one slot makes the channel full with the second job, and one free
worker has to serve all; `MCScrapePipeline` shares the run between two situations, since
two EPAs, two pods and two free workers at once are out of TLC's reach with liveness:
one EPA with two workers, and two EPAs with one worker beside one that reads for ever.
In the second only one EPA, `First`, changes (the two are alike), and
`MaxDisturbances` allows one failure, change or removal altogether. The proof of
`CountedOnce` covers any number of everything. In `MetricsServing` a window of two samples
is the shortest with a rate and `MaxAge`, `EvictEvery`, `Ttl` and `Interval` of one
tick make every age occur with every other; gauges are scraped one at a time
(`MCSpec`), since only rates tell in which order samples were stored; `Oldest`, `OldAnswer` and `LongAgo`
saturate. In `Admission` the manifests differ from a plain one in one or two fields,
which are those a guard looks at together; `MaxU64` is scaled down so that hours
overflow it; three requests are a create, an edit and a second edit of what the first
one left; the proofs hold for all manifests, widths and histories.

Assumptions on constants are named, and TLC evaluates them on every run.
`TimingAssumption` in `MetricsServing` says that a window holds a sample and that
the eviction period, the cache's life and the interval are not zero (`.max(1)`, two
constants, and a scheduler that ticks once a second); `AggAssumption` and
`NoneAssumption` keep markers apart from data. `SelectorAssumption` in `Admission` says that
operators are the four of the CRD and values finite. What only some
theorems need stands in their `ASSUME` and not with the constants: `MaxLate = 0` (for
the bounds in time), a lease longer than the renewals that may fail, `DrainMargins`.

Each property of each passing run has a mutant in `PROJECT.json`: a plausible bug
in the code (a dropped override, a missing requeue, a grace period without its
buffer, an election that is not told of the drain...) under which TLC finds that
property violated with the same constants.

## 5. Fairness

- `LeaseMembership`: `WF_vars(Progress)` in `PromptSpec` and `SettledSpec`, where
  `Progress` is any step of a running task, an answer of the API server, or a
  tick, and in these specifications a tick waits for the work that is due. tokio polls every task
  that is ready, and calls get answers or errors. No fairness for users, signals,
  crashes and failures.
- `Handoff`: none is needed: `Settles` and `FullAnswer` are invariants, because a
  tick waits for each scheduler to have run and for no view to lag more than
  `MaxLag`. That is the assumption: schedulers tick in time.
- `PodCacheSync`: weak fairness of each caller and each reflector task. tokio polls
  them, a deadline passes, the API server answers a list in the end, and the
  scheduler asks again at each tick. None for starts that take too long
  (`SyncLate`) or streams that end.
- `ScrapePipeline`: weak fairness of time, of the scheduler's steps taken together,
  and of a worker's taking a job and getting the head of the response, which the
  timeout sees to. None for the end of a body: any worker may read for ever, and the
  properties suppose at most that not all of them do. API calls are answered (kube's
  client has timeouts). Failures are finitely many.
- `MetricsServing` and `Admission`: safety only.
- `ControllerSync`: weak fairness of each replica's watch, reconcile, update
  handler, jobs and eviction, which are tasks of their own. Failed calls are
  finitely many; a crashed process is restarted by the kubelet at once.

## 6. What is proved

The proofs hold for every number of replicas and EPAs and for every value of the
bounds, under the named assumptions on constants in the modules. Each invariant
follows the same argument: the initial states satisfy the inductive invariant,
one lemma or step per action shows that it is kept, and a temporal step combines
them.

- `LeaseMembershipProofs`: `TypeCorrect`; `LifecycleHolds` (the main task has at
  most one call in flight, only in the phases that make one; the flag is set
  exactly during shutdown), which strengthens `SelfStaysOutHolds` and
  `ShutdownNeverReactivates`; `ViewsDisjoint`; `DeletionIsFinal`, from the further
  invariant that every request in flight that is not late has a caller that is alive
  (`CallersAlive`), so that a buried lease has no writer, for any `MaxLate`. Under `PromptSpec` (time waits for work that is due) and
  `MaxLate = 0`, also the bounds in time: `DeadAreForgotten`, `DrainIsSeen`, and
  `LiveStayActive` if `(1 + MaxFaults) * RenewInterval < LeaseDuration`. Their
  invariant `Lags` bounds, in terms of the failures so far, the age of a running
  replica's own lease (`OwnLease`), of a list under way (`ListFresh`) and of a
  view (`ViewFresh`), and says since when lists, labels and views must know
  of a drain.
- `EpaOwnershipProofs`: of the election, `JoinDisruptsLittle` and
  `LeaveDisruptsLittle` (a change of
  membership only moves EPAs to the newcomer, or away from the one that leaves)
  and `PredecessorDrains` (the previous owner is the owner or a draining replica,
  which is why a newcomer may serve at once). They rest on the existence of a
  heaviest replica, by well-founded induction over the weights. Of the maps,
  `OwnershipTypes`, `OwnedXorLost`, `GraceIsHonoured`,
  `OwnersHaveTheWindow` (without deletions the store has been fed at least as long
  as the EPA has been owned: the fact on which serving after a period rests).
- `HandoffProofs`: `ClusterTypes`, `HandoffImplementsOwnership` (each action of
  the cluster is one of `EpaOwnership` or leaves its variables alone), and `ClusterKeepsPromises`, which carries the properties of
  `EpaOwnership` over to the cluster. `OwnershipSettles` holds whatever changed,
  and for any number of replicas; its invariant `Settling` says that a view without the
  last change lags as long as that is ago (`UpToDate`), that an EPA has one period
  everywhere (`PeriodsAgree`), that a replica whose scheduler has run since the
  views caught up agrees with the election (`Decided`), and that what it won or lost
  is as old as that decision, until the duration that counts is over (`Timed`,
  `Dropped`). `RequestsRecover` adds what that means for a request, from `Settling` and,
  through the refinement, `OwnersHaveTheWindow`: a bounded time after any change the
  winner has a full window and each replica forwards to it. `ScaleDownKeepsWindows`,
  `ScaleDownTakesTwoHops` and `ScaleDownWaits` prove the three promises of the
  handoff for scaling down: from any state that has been calm for long
  (`LongCalm`), as long as replicas only drain (`DrainsOnly`), and with durations
  that leave the margins of section 3 (`DrainMargins`). The invariant `Orderly`
  adds to `Settling` that the only lease of a departing replica is that of the
  current drain, how old each view can be, and who holds each EPA's window in each
  stage of the drain (`Entries`, `AllHeld`).
- `ControllerSyncProofs`: `TypeCorrect`; `VersionsInOrder`, with the strengthening
  `Behind` (the object has the last version given out and nothing a replica holds
  is ahead of it, so that a fresh read is never behind the channel);
  `HpaGoesForward`, with `OneApplies` (while ownership has not moved, only one
  replica applies, and what it holds is not older than what was applied);
  `MissesNothing`, whose invariant `Underway` says that of the latest version a replica
  has seen everything that is still to be done is in its running reconcile, its
  requeue or its channel, whose last entry will be the registration.
- `PodCacheSyncProofs`: `TypeCorrect`; `FlagIsCleared` (a namespace in `starting`
  has a caller that will take it out); `StoreStaysLive`, from the invariant that
  while no stream has ended a start is the only one, and its task runs;
  `ReflectorsBounded`, a counting argument: `Spending` weighs the tasks that run,
  the starts that may spawn one and the callers that may clear the flag
  against the ends so far, with cardinalities of finite sets.
- `ScrapePipelineProofs`: `TypeCorrect`; `PipelineImplementsReport`, that every step
  of the pipeline is a step of `ScrapeReport` or a stutter. The inductive invariant
  says that counters somebody holds as live are in the store, and that the scheduler
  holds counts only while it reports them.
- `AdmissionProofs`: what is stored has passed both webhooks and is complete
  (`Passed`), and follows its scale target unless an author broke the tie
  (`Followed`). From it `TypeCorrect`, `AdmissionIsIdempotent`, `TargetsAgree`,
  `OnlyFourFail` and `WindowFits`.
  `SelectorsAgree`: the query string that is built for pods with its parser, and
  the matcher for series, both select what Kubernetes does, for any labels.
- `MetricsServingProofs`: `TypeCorrect`; `SilentDropOut`, from bounds on the ages of
  windows, of the newest samples behind requests under way and behind cached results
  (`Ages`); `FollowsSpec`, from which configurations and results an aggregation that has been
  replaced may still be in, in each phase of the round (`Updates`, `Configured`,
  `Following`); `TrueRate`, that what a fold over the samples adds up is at most
  what was counted between the first and the last of them (`SamplesFollow`). The
  library's induction on naturals takes an operator as parameter; stated for the set
  of lengths for which the claim holds, well-founded induction needs none, so that
  what the fold computes can be proved for windows of every length. In the same way
  `Aggregates` shows what `aggregate_samples` returns: the folds of maximum and minimum
  bound all values and are one of them (`Extremes`), an ascending order of the samples
  exists (`Sorts`, by induction on their number), and of an ascending order the middle
  halves the values, by the cardinalities of what lies before and after it (`Counts`,
  `Halfway`, `Middle`). `RightAggregates` applies this to every window.

Type correctness is thus proved for every component. The bounds in time depend on
specifications in which a tick waits for work that is due (section 5).

Only model-checked: the liveness properties `Convergence`, `AllRegister`,
`OwnerApplies`, `OwnerForgets`, `CallReturns`, `ReadyInTheEnd`, `EveryEpaPasses`,
`PodsScraped`, `DepartedRest` (fairness is out of the prover's reach). Every invariant
and every action property a run checks is a theorem. `RequestsRecover` covers every
change, but only some time after it: at once, the handoff theorems say nothing of
`FullAnswer` and `TwoHops` during joins, crashes and overlapping
drains, where the properties do not hold (section 3). That nobody serves part of a
window through a scale-down (`ScaleDownWaits`), that views are disjoint, and
type correctness but for `MetricsServing`, are theorems no run repeats.

## 7. Not modelled, and what could follow

Not modelled: the servers (TLS, routing, readiness flags), the installation of CRD
and APIService, and the text parser: I/O set-up and pure parsing without
interleavings. Of modelled components: taking the external metric's name apart and
the fallback of a forwarded request that is answered 503 (`handlers.rs`); the status
condition and the scaling behavior of the HPA (`reconcile.rs`); the sum over several
series of one metric and the warning logged once about it (`worker.rs`, `ops.rs`);
telemetry and logging everywhere. The size of a window, fixed when it is created
(`ops.rs:39`), is a constant of `MetricsServing`.

What could follow:

1. Theorems: what holds of the three promises of the handoff right after a join or a
   crash, before `RequestsRecover` applies.
2. Windows of several sizes in `MetricsServing`, for the hazard above.
3. The names of external metrics as a function on segments: two EPAs never share one.
