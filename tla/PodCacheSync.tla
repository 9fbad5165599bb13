----------------------------- MODULE PodCacheSync -----------------------------
(***************************************************************************)
(* How the reflector of one namespace is started once and shared:          *)
(* PodCache::ensure_namespace and get_ready_pods of                        *)
(* src/src/scraper/pod_cache.rs.                                           *)
(*                                                                         *)
(* Three kinds of task meet in it: a caller that starts the reflector, the *)
(* callers that wait for it, and the reflector's own task, which evicts    *)
(* its store should its stream end.  A task runs on between two awaits     *)
(* while others run on other threads, so every access to the shared map,   *)
(* flag or Notify is a step of its own.                                    *)
(*                                                                         *)
(* Deadlines (30s) are not timed: they may pass at any time.               *)
(***************************************************************************)
EXTENDS Naturals, FiniteSets

CONSTANTS
    Caller,         \* tasks that call get_ready_pods for the namespace
    Reflector,      \* numbers that tell reflector tasks apart
    None,           \* no store; no reflector
    MaxTimeouts,    \* bound: initial syncs that take longer than the deadline
    MaxEnds         \* bound: streams that end

ASSUME ReflectorAssumption == Reflector \subseteq Nat /\ None \notin Reflector
ASSUME BoundAssumption == MaxTimeouts \in Nat /\ MaxEnds \in Nat

VARIABLES
    store,      \* the published reflector store, by its reflector
    starting,   \* the namespace is in the `starting` set
    at,         \* where each caller is in its call
    mine,       \* the reflector a caller has spawned and waits for
    task,       \* the state of each reflector task
    synced,     \* reflectors whose initial list is in their store
    timeouts, ends

vars == <<store, starting, at, mine, task, synced, timeouts, ends>>

\* "wait" is the head of the waiter's loop, "listen" its look at the map done
\* and notified() about to be called, "asleep" a Notified that exists.
Place == {"idle", "lock", "wait", "listen", "asleep",
          "sync", "publish", "abort", "clear", "notify", "read"}

\* The caller that put the namespace in `starting`, until it returns.
Starting(c) == at[c] \in {"sync", "publish", "abort", "clear", "notify"}

\* "run" until the stream ends, then the three steps of the task's last arm.
Stage == {"gone", "run", "ended", "evicted", "cleared"}

TypeOK ==
    /\ store \in Reflector \cup {None}
    /\ starting \in BOOLEAN
    /\ at \in [Caller -> Place]
    /\ mine \in [Caller -> Reflector \cup {None}]
    /\ task \in [Reflector -> Stage]
    /\ synced \in SUBSET Reflector
    /\ \A c \in Caller : mine[c] # None <=> Starting(c)
    /\ timeouts \in 0 .. MaxTimeouts
    /\ ends \in 0 .. MaxEnds

Init ==
    /\ store = None /\ starting = FALSE
    /\ at = [c \in Caller |-> "idle"]
    /\ mine = [c \in Caller |-> None]
    /\ task = [i \in Reflector |-> "gone"]
    /\ synced = {}
    /\ timeouts = 0 /\ ends = 0

-----------------------------------------------------------------------------
(* Mutants: plausible bugs the runs are tested with; no action uses them.  *)
NeverLate(c)   == FALSE
FlagIgnored    == starting
AbortNothing   == {}

\* notify_waiters: every Notified that exists is woken; who has not created
\* one yet is not.
Woken == [c \in Caller |-> IF at[c] = "asleep" THEN "wait" ELSE at[c]]

Flagged   == TRUE    \* starting.insert(namespace)
Unflagged == FALSE   \* starting.remove(namespace)

\* Where the reflector's task can be aborted: in the stream, or at the mutex.
Abortable == {"run", "evicted"}

\* A new task gets a number that nothing refers to any more.
Free     == {i \in Reflector : task[i] = "gone" /\ i # store /\ \A c \in Caller : i # mine[c]}
NextFree == CHOOSE i \in Free : TRUE

Goto(c, place) == at' = [at EXCEPT ![c] = place]

-----------------------------------------------------------------------------
(* A call: ensure_namespace, then the look at the store.                   *)

\* The fast path, or on to the mutex.
Call(c) ==
    /\ at[c] = "idle"
    /\ Goto(c, IF store # None THEN "read" ELSE "lock")
    /\ UNCHANGED <<store, starting, mine, task, synced, timeouts, ends>>

\* Under the mutex: published meanwhile, or being started by another, or ours.
FoundPublished(c) ==
    /\ at[c] = "lock" /\ store # None
    /\ Goto(c, "read")
    /\ UNCHANGED <<store, starting, mine, task, synced, timeouts, ends>>

FoundStarting(c) ==
    /\ at[c] = "lock" /\ store = None /\ starting
    /\ Goto(c, "wait")
    /\ UNCHANGED <<store, starting, mine, task, synced, timeouts, ends>>

Spawn(c) ==
    /\ at[c] = "lock" /\ store = None /\ ~starting
    /\ starting' = Flagged
    /\ Free # {}
    /\ task' = [task EXCEPT ![NextFree] = "run"]
    /\ mine' = [mine EXCEPT ![c] = NextFree]
    /\ synced' = synced \ {NextFree}
    /\ Goto(c, "sync")
    /\ UNCHANGED <<store, timeouts, ends>>

\* One round of the waiter's loop, up to the Notified and its await.
Look(c) ==
    /\ at[c] = "wait"
    /\ Goto(c, IF store # None THEN "read" ELSE "listen")
    /\ UNCHANGED <<store, starting, mine, task, synced, timeouts, ends>>

Listen(c) ==
    /\ at[c] = "listen"
    /\ Goto(c, "asleep")
    /\ UNCHANGED <<store, starting, mine, task, synced, timeouts, ends>>

\* The waiter's deadline passes.
Late(c) == at[c] = "asleep"
GiveUp(c) ==
    /\ Late(c)
    /\ Goto(c, "read")
    /\ UNCHANGED <<store, starting, mine, task, synced, timeouts, ends>>

\* The initial list is in.  That the task may have ended since is not looked
\* at: wait_until_ready remembers.
Ready(c) ==
    /\ at[c] = "sync" /\ mine[c] \in synced
    /\ Goto(c, "publish")
    /\ UNCHANGED <<store, starting, mine, task, synced, timeouts, ends>>

Publish(c) ==
    /\ at[c] = "publish"
    /\ store' = mine[c]
    /\ Goto(c, "clear")
    /\ UNCHANGED <<starting, mine, task, synced, timeouts, ends>>

\* The initial list takes too long, or the task dropped the writer before it.
SyncLate(c) ==
    /\ at[c] = "sync" /\ timeouts < MaxTimeouts
    /\ timeouts' = timeouts + 1
    /\ Goto(c, "abort")
    /\ UNCHANGED <<store, starting, mine, task, synced, ends>>

WriterDropped(c) == mine[c] \notin synced /\ task[mine[c]] # "run"
SyncFailed(c) ==
    /\ at[c] = "sync" /\ WriterDropped(c)
    /\ Goto(c, "abort")
    /\ UNCHANGED <<store, starting, mine, task, synced, timeouts, ends>>

\* task_handle.abort().
Abort(c) ==
    /\ at[c] = "abort"
    /\ task' = [task EXCEPT ![mine[c]] = IF @ \in Abortable THEN "gone" ELSE @]
    /\ Goto(c, "clear")
    /\ UNCHANGED <<store, starting, mine, synced, timeouts, ends>>

Clear(c) ==
    /\ at[c] = "clear"
    /\ starting' = Unflagged
    /\ Goto(c, "notify")
    /\ UNCHANGED <<store, mine, task, synced, timeouts, ends>>

Notify(c) ==
    /\ at[c] = "notify"
    /\ at' = [Woken EXCEPT ![c] = "read"]
    /\ mine' = [mine EXCEPT ![c] = None]
    /\ UNCHANGED <<store, starting, task, synced, timeouts, ends>>

\* stores.get: the pods, or the error that the next scrape will retry.
Read(c) ==
    /\ at[c] = "read"
    /\ Goto(c, "idle")
    /\ UNCHANGED <<store, starting, mine, task, synced, timeouts, ends>>

-----------------------------------------------------------------------------
(* The reflector's task.                                                   *)

Sync(i) ==
    /\ task[i] = "run" /\ i \notin synced
    /\ synced' = synced \cup {i}
    /\ UNCHANGED <<store, starting, at, mine, task, timeouts, ends>>

\* The watcher retries for ever; this is the stream that ends nevertheless.
StreamEnds(i) ==
    /\ task[i] = "run" /\ ends < MaxEnds
    /\ ends' = ends + 1
    /\ task' = [task EXCEPT ![i] = "ended"]
    /\ UNCHANGED <<store, starting, at, mine, synced, timeouts>>

Evict(i) ==
    /\ task[i] = "ended"
    /\ store' = None
    /\ task' = [task EXCEPT ![i] = "evicted"]
    /\ UNCHANGED <<starting, at, mine, synced, timeouts, ends>>

ClearFlag(i) ==
    /\ task[i] = "evicted"
    /\ starting' = FALSE
    /\ task' = [task EXCEPT ![i] = "cleared"]
    /\ UNCHANGED <<store, at, mine, synced, timeouts, ends>>

Announce(i) ==
    /\ task[i] = "cleared"
    /\ at' = Woken
    /\ task' = [task EXCEPT ![i] = "gone"]
    /\ UNCHANGED <<store, starting, mine, synced, timeouts, ends>>

-----------------------------------------------------------------------------

CallerGoesOn(c) ==
    \/ FoundPublished(c) \/ FoundStarting(c) \/ Spawn(c)
    \/ Look(c) \/ Listen(c) \/ GiveUp(c)
    \/ Ready(c) \/ Publish(c) \/ SyncFailed(c) \/ Abort(c)
    \/ Clear(c) \/ Notify(c) \/ Read(c)

TaskGoesOn(i) == Sync(i) \/ Evict(i) \/ ClearFlag(i) \/ Announce(i)

Next ==
    \/ \E c \in Caller : Call(c) \/ CallerGoesOn(c) \/ SyncLate(c)
    \/ \E i \in Reflector : TaskGoesOn(i) \/ StreamEnds(i)

Spec == Init /\ [][Next]_vars

\* tokio polls every task that is ready, a deadline passes, the API server
\* answers the list in the end, and the scheduler asks again at each tick.
FairSpec ==
    /\ Spec
    /\ \A c \in Caller : WF_vars(Call(c)) /\ WF_vars(CallerGoesOn(c))
    /\ \A i \in Reflector : WF_vars(TaskGoesOn(i))

-----------------------------------------------------------------------------
(* Properties.                                                             *)

Running == {i \in Reflector : task[i] = "run"}

\* A namespace in `starting` has somebody who will take it out again: the
\* caller that put it there, however its start goes.  Else no caller would
\* ever try again.
FlagHasStarter == starting => \E c \in Caller : Starting(c) /\ at[c] # "notify"

\* The set is there "to prevent duplicate reflectors": at most one task
\* watches the namespace, and more only after streams have ended.  The task of
\* such a stream may evict the store of a successor and clear the flag of the
\* start that follows; each eviction lets every start that has yet to clear
\* the flag be repeated, so the excess may grow with the square of the ends.
FewReflectors == Cardinality(Running) <= 1 + ends * (ends + 1)

\* While no stream has ended: a store that callers read is filled and is kept
\* up to date by a task that runs, and nobody starts a second one.
StoreIsLive ==
    ends = 0 /\ store # None =>
        /\ store \in synced /\ task[store] = "run"
        /\ \A i \in Running : i = store

\* Every call comes back, even one that looked before the last notification
\* and listened after it: the wake-up it missed is made up for by the deadline.
CallReturns == \A c \in Caller : at[c] # "idle" ~> at[c] = "idle"

\* If no stream ends, the namespace has its store in the end, although the
\* first attempts to start a reflector were too slow.
ReadyInTheEnd == [](ends = 0) => <>[](store # None)
=============================================================================
