-------------------------- MODULE PodCacheSyncProofs --------------------------
(* For any number of callers and reflectors: types, a flag that somebody      *)
(* clears, while no stream has ended one reflector at most and a store that   *)
(* is kept up to date, and a bound on the reflectors once streams have ended. *)
EXTENDS PodCacheSync, FiniteSetTheorems, TLAPS

\* The number chosen is free.
LEMMA FreeNumber ==
    ASSUME Free # {}
    PROVE  NextFree \in Free
BY DEF NextFree

-----------------------------------------------------------------------------
(* The inductive invariant.                                                *)

\* Between taking the flag and clearing it.
HasFlag(c) == at[c] \in {"sync", "publish", "abort", "clear"}

\* With a reflector of its own that is not published.
Owns(c) == at[c] \in {"sync", "publish", "abort"}

OneStarter == \A c, d \in Caller : HasFlag(c) /\ HasFlag(d) => c = d
FlagIsHeld == \A c \in Caller : HasFlag(c) => starting
TasksRun   == \A i \in Reflector : task[i] \in {"gone", "run"}
OwnIsLive  ==
    \A c \in Caller : Owns(c) =>
        /\ store = None /\ task[mine[c]] = "run"
        /\ at[c] = "publish" => mine[c] \in synced
NoOrphan   ==
    \A i \in Running : i = store \/ \E c \in Caller : Owns(c) /\ mine[c] = i
Published  == store # None => store \in synced /\ task[store] = "run"

\* While no stream has ended.
Orderly == OneStarter /\ FlagIsHeld /\ TasksRun /\ OwnIsLive /\ NoOrphan /\ Published

IInv == TypeOK /\ FlagHasStarter /\ (ends = 0 => Orderly)

\* Init establishes the invariant.
LEMMA InitEstablishes == Init => IInv
<1> SUFFICES ASSUME Init PROVE IInv
  OBVIOUS
<1>1. 0 \in 0 .. MaxTimeouts /\ 0 \in 0 .. MaxEnds
  BY BoundAssumption
<1>2. TypeOK
  BY <1>1 DEF Init, TypeOK, Starting, Place, Stage
<1>3. FlagHasStarter
  BY DEF Init, FlagHasStarter
<1>4. Orderly
  BY DEF Init, Orderly, OneStarter, FlagIsHeld, TasksRun, OwnIsLive, NoOrphan, Published,
         HasFlag, Owns, Running
<1> QED BY <1>2, <1>3, <1>4 DEF IInv

-----------------------------------------------------------------------------
(* Types.                                                                  *)

\* Every step keeps the types.
LEMMA StepTypes ==
    ASSUME TypeOK, [Next]_vars
    PROVE  TypeOK'
<1> USE ReflectorAssumption, BoundAssumption DEF TypeOK, Place, Starting, Goto
<1>1. ASSUME NEW c \in Caller,
             Call(c) \/ FoundPublished(c) \/ FoundStarting(c) \/ Look(c) \/ Listen(c)
             \/ GiveUp(c) \/ Read(c)
      PROVE  TypeOK'
  <2>1. CASE Call(c) \/ FoundPublished(c) \/ FoundStarting(c)
    BY <2>1 DEF Call, FoundPublished, FoundStarting
  <2>2. CASE Look(c) \/ Listen(c)
    BY <2>2 DEF Look, Listen
  <2>3. CASE GiveUp(c)
    BY <2>3 DEF GiveUp, Late
  <2>4. CASE Read(c)
    BY <2>4 DEF Read
  <2> QED BY <1>1, <2>1, <2>2, <2>3, <2>4
<1>2. ASSUME NEW c \in Caller, Spawn(c) PROVE TypeOK'
  <2>1. NextFree \in Reflector
    BY <1>2, FreeNumber DEF Spawn, Free
  <2> QED BY <1>2, <2>1 DEF Spawn, Stage, Flagged
<1>3. ASSUME NEW c \in Caller, Ready(c) \/ SyncFailed(c) \/ SyncLate(c) PROVE TypeOK'
  <2>1. timeouts' \in 0 .. MaxTimeouts
    BY <1>3 DEF Ready, SyncFailed, SyncLate
  <2>2. at' \in [Caller -> Place] /\ \A d \in Caller : Starting(d)' <=> Starting(d)
    BY <1>3 DEF Ready, SyncFailed, SyncLate
  <2>3. UNCHANGED <<store, starting, mine, task, synced, ends>>
    BY <1>3 DEF Ready, SyncFailed, SyncLate
  <2> QED BY <2>1, <2>2, <2>3
<1>4. ASSUME NEW c \in Caller, Publish(c) \/ Abort(c) \/ Clear(c) PROVE TypeOK'
  BY <1>4 DEF Publish, Abort, Clear, Unflagged, Stage, Abortable
<1>5. ASSUME NEW c \in Caller, Notify(c) PROVE TypeOK'
  BY <1>5 DEF Notify, Woken
<1>6. ASSUME NEW i \in Reflector, Sync(i) \/ StreamEnds(i) \/ Evict(i) \/ ClearFlag(i)
      PROVE  TypeOK'
  <2>1. ends' \in 0 .. MaxEnds
    BY <1>6 DEF Sync, StreamEnds, Evict, ClearFlag
  <2>2. /\ task' \in [Reflector -> Stage] /\ synced' \in SUBSET Reflector
        /\ store' \in Reflector \cup {None} /\ starting' \in BOOLEAN
    BY <1>6 DEF Sync, StreamEnds, Evict, ClearFlag, Stage
  <2>3. UNCHANGED <<at, mine, timeouts>>
    BY <1>6 DEF Sync, StreamEnds, Evict, ClearFlag
  <2> QED BY <2>1, <2>2, <2>3
<1>7. ASSUME NEW i \in Reflector, Announce(i) PROVE TypeOK'
  BY <1>7 DEF Announce, Woken, Stage
<1>8. CASE UNCHANGED vars
  BY <1>8 DEF vars
<1> QED BY <1>1, <1>2, <1>3, <1>4, <1>5, <1>6, <1>7, <1>8
        DEF Next, CallerGoesOn, TaskGoesOn

-----------------------------------------------------------------------------
(* The flag.                                                               *)

\* Every step keeps a starter for the flag.
LEMMA StepKeepsStarter ==
    ASSUME TypeOK, FlagHasStarter, [Next]_vars
    PROVE  FlagHasStarter'
<1> USE DEF TypeOK, FlagHasStarter, Starting, Goto
<1>1. ASSUME NEW c \in Caller,
             Call(c) \/ FoundPublished(c) \/ FoundStarting(c) \/ Look(c) \/ Listen(c)
             \/ GiveUp(c) \/ Read(c)
      PROVE  FlagHasStarter'
  BY <1>1 DEF Call, FoundPublished, FoundStarting, Look, Listen, GiveUp, Late, Read
<1>2. ASSUME NEW c \in Caller, Spawn(c) PROVE FlagHasStarter'
  BY <1>2 DEF Spawn
<1>3. ASSUME NEW c \in Caller,
             Ready(c) \/ SyncFailed(c) \/ SyncLate(c) \/ Publish(c) \/ Abort(c)
      PROVE  FlagHasStarter'
  BY <1>3 DEF Ready, SyncFailed, SyncLate, Publish, Abort
<1>4. ASSUME NEW c \in Caller, Clear(c) PROVE FlagHasStarter'
  BY <1>4 DEF Clear, Unflagged
<1>5. ASSUME NEW c \in Caller, Notify(c) PROVE FlagHasStarter'
  BY <1>5 DEF Notify, Woken
<1>6. ASSUME NEW i \in Reflector,
             Sync(i) \/ StreamEnds(i) \/ Evict(i) \/ ClearFlag(i) \/ Announce(i)
      PROVE  FlagHasStarter'
  BY <1>6 DEF Sync, StreamEnds, Evict, ClearFlag, Announce, Woken
<1>7. CASE UNCHANGED vars
  BY <1>7 DEF vars
<1> QED BY <1>1, <1>2, <1>3, <1>4, <1>5, <1>6, <1>7
        DEF Next, CallerGoesOn, TaskGoesOn

-----------------------------------------------------------------------------
(* While no stream has ended.                                              *)

\* While no stream ends, every step keeps one start at a time.
LEMMA StepKeepsOrder ==
    ASSUME TypeOK, FlagHasStarter, ends = 0 => Orderly, [Next]_vars, ends' = 0
    PROVE  Orderly'
<1>0. Orderly /\ ends = 0
  BY BoundAssumption
     DEF Next, CallerGoesOn, TaskGoesOn, TypeOK, vars, Call, FoundPublished, FoundStarting,
         Spawn, Look, Listen, GiveUp, Ready, Publish, SyncFailed, SyncLate, Abort, Clear,
         Notify, Read, Sync, StreamEnds, Evict, ClearFlag, Announce
<1> USE <1>0, ReflectorAssumption
        DEF TypeOK, Orderly, OneStarter, FlagIsHeld, TasksRun, OwnIsLive, NoOrphan,
            Published, HasFlag, Owns, Running, Starting, Goto
\* What neither takes a flag nor has one.
<1>1. ASSUME NEW c \in Caller,
             Call(c) \/ FoundPublished(c) \/ FoundStarting(c) \/ Look(c) \/ Listen(c)
             \/ GiveUp(c) \/ Read(c)
      PROVE  Orderly'
  BY <1>1 DEF Call, FoundPublished, FoundStarting, Look, Listen, GiveUp, Late, Read
<1>2. ASSUME NEW c \in Caller, Spawn(c) PROVE Orderly'
  <2>1. NextFree \in Reflector /\ NextFree # store
    BY <1>2, FreeNumber DEF Spawn, Free
  <2>2. store = None /\ ~starting /\ \A d \in Caller : ~HasFlag(d)
    BY <1>2 DEF Spawn
  <2>3. Running = {}
    <3>1. ASSUME NEW i \in Running PROVE FALSE
      <4>1. i = store \/ \E d \in Caller : Owns(d)
        BY <3>1
      <4> QED BY <2>2, <3>1, <4>1
    <3> QED BY <3>1
  <2>4. \A d \in Caller : HasFlag(d)' => d = c
    BY <1>2, <2>2 DEF Spawn
  <2>5. OneStarter' /\ FlagIsHeld'
    BY <1>2, <2>4 DEF Spawn, Flagged
  <2>6. TasksRun' /\ Published'
    BY <1>2, <2>1, <2>2 DEF Spawn
  <2>7. OwnIsLive' /\ NoOrphan'
    BY <1>2, <2>1, <2>2, <2>3, <2>4 DEF Spawn
  <2> QED BY <2>5, <2>6, <2>7
<1>3. ASSUME NEW c \in Caller, Ready(c) \/ SyncLate(c) PROVE Orderly'
  BY <1>3 DEF Ready, SyncLate
<1>4. ASSUME NEW c \in Caller, SyncFailed(c) PROVE Orderly'
  BY <1>4 DEF SyncFailed, WriterDropped
<1>5. ASSUME NEW c \in Caller, Publish(c) PROVE Orderly'
  <2>1. mine[c] \in Reflector /\ mine[c] \in synced /\ task[mine[c]] = "run"
    BY <1>5 DEF Publish
  <2>2. \A d \in Caller : ~Owns(d)'
    BY <1>5 DEF Publish
  <2>3. OneStarter' /\ FlagIsHeld' /\ TasksRun' /\ Published'
    BY <1>5, <2>1 DEF Publish
  <2>4. NoOrphan'
    BY <1>5, <2>1 DEF Publish
  <2> QED BY <2>2, <2>3, <2>4
<1>6. ASSUME NEW c \in Caller, Abort(c) PROVE Orderly'
  <2>0. store = None /\ mine[c] \in Reflector /\ task[mine[c]] \in Abortable
    BY <1>6 DEF Abort, Abortable
  <2>1. store = None /\ mine[c] \in Reflector /\ task' = [task EXCEPT ![mine[c]] = "gone"]
    BY <1>6, <2>0 DEF Abort
  <2>2. \A d \in Caller : ~Owns(d)'
    BY <1>6 DEF Abort
  <2>3. OneStarter' /\ FlagIsHeld' /\ TasksRun' /\ Published'
    BY <1>6, <2>1 DEF Abort
  <2>4. NoOrphan'
    BY <1>6, <2>1 DEF Abort
  <2> QED BY <2>2, <2>3, <2>4
<1>7. ASSUME NEW c \in Caller, Clear(c) PROVE Orderly'
  BY <1>7 DEF Clear
<1>8. ASSUME NEW c \in Caller, Notify(c) PROVE Orderly'
  <2>1. \A d \in Caller : HasFlag(d)' <=> HasFlag(d)
    BY <1>8 DEF Notify, Woken
  <2>2. \A d \in Caller : /\ Owns(d)' <=> Owns(d)
                          /\ Owns(d) => mine'[d] = mine[d]
                          /\ Owns(d) => at'[d] = at[d]
    BY <1>8 DEF Notify, Woken
  <2> QED BY <1>8, <2>1, <2>2 DEF Notify
<1>9. ASSUME NEW i \in Reflector, Sync(i) PROVE Orderly'
  BY <1>9 DEF Sync
<1>10. ASSUME NEW i \in Reflector,
              StreamEnds(i) \/ Evict(i) \/ ClearFlag(i) \/ Announce(i)
       PROVE  FALSE
  BY <1>10, BoundAssumption DEF StreamEnds, Evict, ClearFlag, Announce
<1>11. CASE UNCHANGED vars
  BY <1>11 DEF vars
<1> QED BY <1>1, <1>2, <1>3, <1>4, <1>5, <1>6, <1>7, <1>8, <1>9, <1>10, <1>11
        DEF Next, CallerGoesOn, TaskGoesOn

-----------------------------------------------------------------------------

\* The invariant holds for any callers and reflectors.
THEOREM Invariance == Spec => []IInv
<1>1. IInv /\ [Next]_vars => IInv'
  BY StepTypes, StepKeepsStarter, StepKeepsOrder DEF IInv
<1> QED BY InitEstablishes, <1>1, PTL DEF Spec

\* Type correctness of the shared map, the flag, the callers and the tasks.
THEOREM TypeCorrect == Spec => []TypeOK
BY Invariance, PTL DEF IInv

\* A namespace that is marked as starting always has a caller on its way to
\* clear the mark, however late, failed or ended its reflector is: no caller
\* waits for a start that nobody makes.
THEOREM FlagIsCleared == Spec => []FlagHasStarter
BY Invariance, PTL DEF IInv

\* As long as no watch stream has ended, a published store has all it listed,
\* is kept up to date by a running task, and no second task watches the
\* namespace, for any number of concurrent callers and of aborted attempts.
THEOREM StoreStaysLive == Spec => []StoreIsLive
<1>1. IInv => StoreIsLive
  BY DEF IInv, TypeOK, Orderly, OwnIsLive, NoOrphan, Published, Running, StoreIsLive
<1> QED BY Invariance, <1>1, PTL

-----------------------------------------------------------------------------
(* How many reflectors run.                                                *)

Holders == {c \in Caller : HasFlag(c)}
Ended   == {i \in Reflector : task[i] = "ended"}
Evicted == {i \in Reflector : task[i] = "evicted"}

\* The callers that will clear the flag and leave no reflector of their own.
Waiting == {c \in Caller : at[c] = "clear" \/ (Owns(c) /\ task[mine[c]] # "run")}

Idle == IF starting THEN 0 ELSE 1

\* What can be spawned before the next eviction and the next cleared flag.
Spawnable == IF store = None THEN Idle + Cardinality(Waiting) ELSE 0

OneEach == \A c, d \in Caller : mine[c] = mine[d] /\ mine[c] # None => c = d
Counted ==
    /\ IsFiniteSet(Running) /\ IsFiniteSet(Ended) /\ IsFiniteSet(Evicted)
    /\ IsFiniteSet(Holders)

\* Only the task of an ended stream, clearing the flag, lets two callers hold
\* it at a time.
FlagBudget ==
    Cardinality(Holders) + Idle + Cardinality(Ended) + Cardinality(Evicted) <= 1 + ends

\* Such a task may yet evict, which frees as many starts as there are holders,
\* and clear the flag, which frees one.
SpawnBudget ==
    Cardinality(Running) + Spawnable + Cardinality(Ended) * (ends + 1) + Cardinality(Evicted)
        <= 1 + ends * (ends + 1)

Spending == OneEach /\ Counted /\ FlagBudget /\ SpawnBudget

\* The numbers the budgets add up.
LEMMA Numbers ==
    ASSUME TypeOK, Counted
    PROVE  /\ Cardinality(Running) \in Nat /\ Cardinality(Ended) \in Nat
           /\ Cardinality(Evicted) \in Nat /\ Cardinality(Holders) \in Nat
           /\ Cardinality(Waiting) \in Nat /\ IsFiniteSet(Waiting)
           /\ Cardinality(Waiting) <= Cardinality(Holders)
           /\ Idle \in 0 .. 1 /\ ends \in Nat
<1>1. Waiting \subseteq Holders
  BY DEF Waiting, Holders, HasFlag, Owns
<1>2. /\ IsFiniteSet(Waiting) /\ Cardinality(Waiting) <= Cardinality(Holders)
  BY <1>1, FS_Subset DEF Counted
<1>3. Idle \in 0 .. 1 /\ ends \in Nat
  BY BoundAssumption DEF Idle, TypeOK
<1> QED BY <1>2, <1>3, FS_CardinalityType DEF Counted

\* A step that changes none of the sets, and neither the store nor the flag.
LEMMA NothingSpent ==
    ASSUME Counted, FlagBudget, SpawnBudget, UNCHANGED <<store, starting, ends>>,
           Running' = Running, Ended' = Ended, Evicted' = Evicted,
           Holders' = Holders, Waiting' = Waiting
    PROVE  Counted' /\ FlagBudget' /\ SpawnBudget'
BY DEF Counted, FlagBudget, SpawnBudget, Spawnable, Idle

\* Steps of a caller that neither take, hand on nor clear the flag.
LEMMA CallerSpendsNothing ==
    ASSUME TypeOK, Spending, NEW c \in Caller,
           \/ Call(c) \/ FoundPublished(c) \/ FoundStarting(c) \/ Look(c) \/ Listen(c)
           \/ GiveUp(c) \/ Read(c) \/ Ready(c) \/ SyncFailed(c) \/ SyncLate(c) \/ Notify(c)
    PROVE  Spending'
<1>1. UNCHANGED <<store, starting, task, ends>> /\ \A d \in Caller : mine'[d] \in {mine[d], None}
  BY DEF TypeOK, Call, FoundPublished, FoundStarting, Look, Listen, GiveUp, Read, Ready,
         SyncFailed, SyncLate, Notify
<1>2. \A d \in Caller : /\ HasFlag(d)' <=> HasFlag(d)
                        /\ Owns(d)' <=> Owns(d)
                        /\ at'[d] = "clear" <=> at[d] = "clear"
                        /\ Owns(d) => mine'[d] = mine[d]
  <2>1. CASE Notify(c)
    BY <2>1 DEF TypeOK, Notify, Woken, HasFlag, Owns
  <2>2. CASE Ready(c) \/ SyncFailed(c) \/ SyncLate(c)
    BY <2>2 DEF TypeOK, Ready, SyncFailed, SyncLate, HasFlag, Owns, Goto
  <2>3. CASE Call(c) \/ FoundPublished(c) \/ FoundStarting(c) \/ Look(c) \/ Listen(c)
             \/ GiveUp(c) \/ Read(c)
    BY <2>3 DEF TypeOK, Call, FoundPublished, FoundStarting, Look, Listen, GiveUp, Late, Read,
                HasFlag, Owns, Goto
  <2> QED BY <2>1, <2>2, <2>3
<1>3. OneEach'
  BY <1>1 DEF OneEach, Spending
<1>4. Holders' = Holders /\ Waiting' = Waiting
  BY <1>1, <1>2 DEF Holders, Waiting
<1>5. Running' = Running /\ Ended' = Ended /\ Evicted' = Evicted
  BY <1>1 DEF Running, Ended, Evicted
<1> QED BY <1>1, <1>3, <1>4, <1>5, NothingSpent DEF Spending

\* A start uses up what may be spawned.
LEMMA SpawnSpends ==
    ASSUME TypeOK, Spending, NEW c \in Caller, Spawn(c)
    PROVE  Spending'
<1>1. PICK i \in Free : /\ task' = [task EXCEPT ![i] = "run"]
                        /\ mine' = [mine EXCEPT ![c] = i]
  BY FreeNumber DEF Spawn
<1>2. i \in Reflector /\ task[i] = "gone" /\ \A d \in Caller : mine[d] # i
  BY <1>1 DEF Free
<1>3. /\ at[c] = "lock" /\ store = None /\ starting = FALSE /\ starting' = TRUE
      /\ at' = [at EXCEPT ![c] = "sync"] /\ UNCHANGED <<store, ends>>
  BY DEF Spawn, Flagged, Goto, TypeOK
<1>4. OneEach'
  BY <1>1, <1>2 DEF OneEach, Spending, TypeOK
<1>5. Running' = Running \cup {i} /\ i \notin Running /\ Ended' = Ended /\ Evicted' = Evicted
  BY <1>1, <1>2 DEF Running, Ended, Evicted, TypeOK
<1>6. Holders' = Holders \cup {c} /\ c \notin Holders
  BY <1>3 DEF Holders, HasFlag, TypeOK
<1>7. Waiting' = Waiting
  BY <1>1, <1>2, <1>3 DEF Waiting, Owns, TypeOK
<1>8. /\ IsFiniteSet(Running') /\ Cardinality(Running') = Cardinality(Running) + 1
      /\ IsFiniteSet(Holders') /\ Cardinality(Holders') = Cardinality(Holders) + 1
  BY <1>5, <1>6, FS_AddElement DEF Spending, Counted
<1>9. Counted'
  BY <1>5, <1>8 DEF Spending, Counted
<1>10. FlagBudget' /\ SpawnBudget'
  BY <1>3, <1>5, <1>7, <1>8, Numbers
     DEF Spending, FlagBudget, SpawnBudget, Spawnable, Idle
<1> QED BY <1>4, <1>9, <1>10 DEF Spending

\* A caller publishes its reflector, dead or alive: nothing can be spawned
\* until the next eviction.
LEMMA PublishSpends ==
    ASSUME TypeOK, Spending, NEW c \in Caller, Publish(c)
    PROVE  Spending'
<1>1. /\ at[c] = "publish" /\ at' = [at EXCEPT ![c] = "clear"] /\ store' \in Reflector
      /\ UNCHANGED <<starting, mine, task, ends>>
  BY DEF Publish, Goto, TypeOK, Starting
<1>2. /\ Running' = Running /\ Ended' = Ended /\ Evicted' = Evicted /\ OneEach'
  BY <1>1 DEF Running, Ended, Evicted, OneEach, Spending
<1>3. Holders' = Holders
  BY <1>1 DEF Holders, HasFlag, TypeOK
<1>4. Spawnable' = 0 /\ Idle' = Idle
  BY <1>1, ReflectorAssumption DEF Spawnable, Idle
<1>5. Spawnable \in Nat
  BY Numbers DEF Spending, Spawnable
<1> QED BY <1>1, <1>2, <1>3, <1>4, <1>5, Numbers
        DEF Spending, Counted, FlagBudget, SpawnBudget

\* An aborted reflector can be spawned again once the flag is clear; aborting
\* one whose stream has ended spares it the flag.
LEMMA AbortSpends ==
    ASSUME TypeOK, Spending, NEW c \in Caller, Abort(c)
    PROVE  Spending'
<1>1. /\ at[c] = "abort" /\ at' = [at EXCEPT ![c] = "clear"]
      /\ UNCHANGED <<store, starting, mine, ends>>
  BY DEF Abort, Goto
<1>2. PICK i \in Reflector : i = mine[c]
  BY <1>1 DEF TypeOK, Starting
<1>3. task' = [task EXCEPT ![i] = IF @ \in {"run", "evicted"} THEN "gone" ELSE @]
  BY <1>2 DEF Abort, Abortable
<1>4. Holders' = Holders /\ OneEach'
  BY <1>1 DEF Holders, HasFlag, OneEach, Spending, TypeOK
<1>5. i # None /\ \A d \in Caller : d # c => mine[d] # i
  BY <1>2, ReflectorAssumption DEF OneEach, Spending
<1>6. Waiting' = Waiting \cup {c}
  BY <1>1, <1>2, <1>3, <1>5 DEF Waiting, Owns, TypeOK, Starting
<1>7. Ended' = Ended
  BY <1>3 DEF Ended, TypeOK
<1>8. CASE task[i] = "run"
  <2>1. Running' = Running \ {i} /\ i \in Running /\ Evicted' = Evicted
    BY <1>3, <1>8 DEF Running, Evicted, TypeOK
  <2>2. c \notin Waiting
    BY <1>1, <1>2, <1>8 DEF Waiting, Owns
  <2>3. /\ IsFiniteSet(Running') /\ Cardinality(Running') = Cardinality(Running) - 1
        /\ Cardinality(Waiting') = Cardinality(Waiting) + 1
    BY <1>6, <2>1, <2>2, Numbers, FS_AddElement, FS_RemoveElement DEF Spending, Counted
  <2> QED BY <1>1, <1>4, <1>7, <2>1, <2>3, Numbers
          DEF Spending, Counted, FlagBudget, SpawnBudget, Spawnable, Idle
<1>9. ASSUME task[i] # "run" PROVE Waiting' = Waiting /\ Running' = Running
  BY <1>1, <1>2, <1>3, <1>6, <1>9 DEF Waiting, Owns, Running, TypeOK
<1>10. CASE task[i] = "evicted"
  <2>1. Evicted' = Evicted \ {i} /\ i \in Evicted
    BY <1>3, <1>10 DEF Evicted, TypeOK
  <2>2. IsFiniteSet(Evicted') /\ Cardinality(Evicted') = Cardinality(Evicted) - 1
    BY <2>1, FS_RemoveElement DEF Spending, Counted
  <2> QED BY <1>1, <1>4, <1>7, <1>9, <1>10, <2>2, Numbers
          DEF Spending, Counted, FlagBudget, SpawnBudget, Spawnable, Idle
<1>11. CASE task[i] \notin {"run", "evicted"}
  <2>1. Evicted' = Evicted
    BY <1>3, <1>11 DEF Evicted, TypeOK
  <2> QED BY <1>1, <1>4, <1>7, <1>9, <1>11, <2>1, NothingSpent DEF Spending
<1> QED BY <1>8, <1>10, <1>11

\* Clearing the flag is what the waiting caller was counted for.
LEMMA ClearSpends ==
    ASSUME TypeOK, Spending, NEW c \in Caller, Clear(c)
    PROVE  Spending'
<1>1. /\ at[c] = "clear" /\ at' = [at EXCEPT ![c] = "notify"] /\ starting' = FALSE
      /\ UNCHANGED <<store, mine, task, ends>>
  BY DEF Clear, Goto, Unflagged
<1>2. /\ Running' = Running /\ Ended' = Ended /\ Evicted' = Evicted /\ OneEach'
  BY <1>1 DEF Running, Ended, Evicted, OneEach, Spending
<1>3. Holders' = Holders \ {c} /\ c \in Holders
  BY <1>1 DEF Holders, HasFlag, TypeOK
<1>4. Waiting' = Waiting \ {c} /\ c \in Waiting
  BY <1>1 DEF Waiting, Owns, TypeOK
<1>5. /\ IsFiniteSet(Holders') /\ Cardinality(Holders') = Cardinality(Holders) - 1
      /\ Cardinality(Waiting') = Cardinality(Waiting) - 1
  BY <1>3, <1>4, Numbers, FS_RemoveElement DEF Spending, Counted
<1> QED BY <1>1, <1>2, <1>5, Numbers
        DEF Spending, Counted, FlagBudget, SpawnBudget, Spawnable, Idle

\* The end of a stream pays for an eviction and a cleared flag to come.
LEMMA EndPays ==
    ASSUME TypeOK, FlagHasStarter, Spending, NEW i \in Reflector, StreamEnds(i)
    PROVE  Spending'
<1>1. /\ task[i] = "run" /\ task' = [task EXCEPT ![i] = "ended"] /\ ends' = ends + 1
      /\ UNCHANGED <<store, starting, at, mine>>
  BY DEF StreamEnds
<1>2. Running' = Running \ {i} /\ i \in Running
  BY <1>1 DEF Running, TypeOK
<1>3. Ended' = Ended \cup {i} /\ i \notin Ended /\ Evicted' = Evicted
  BY <1>1 DEF Ended, Evicted, TypeOK
<1>4. Holders' = Holders /\ OneEach'
  BY <1>1 DEF Holders, HasFlag, OneEach, Spending
<1>5. /\ IsFiniteSet(Running') /\ Cardinality(Running') = Cardinality(Running) - 1
      /\ IsFiniteSet(Ended') /\ Cardinality(Ended') = Cardinality(Ended) + 1
  BY <1>2, <1>3, FS_AddElement, FS_RemoveElement DEF Spending, Counted
<1>6. Cardinality(Waiting') \in Nat /\ Cardinality(Waiting') <= Cardinality(Waiting) + 1
  <2>1. ASSUME NEW c \in Caller, mine[c] = i
        PROVE  Waiting' = Waiting \/ Waiting' = Waiting \cup {c}
    <3>1. \A d \in Caller : d # c => mine[d] # i
      BY <2>1, ReflectorAssumption DEF OneEach, Spending
    <3>2. \A d \in Caller : d # c => (d \in Waiting' <=> d \in Waiting)
      BY <1>1, <3>1 DEF Waiting, Owns, TypeOK, Starting
    <3>3. c \in Waiting => c \in Waiting'
      BY <1>1, <2>1 DEF Waiting, Owns, TypeOK
    <3>4. Waiting \subseteq Caller /\ Waiting' \subseteq Caller
      BY DEF Waiting
    <3> QED BY <3>2, <3>3, <3>4
  <2>2. CASE \A c \in Caller : mine[c] # i
    <3>1. Waiting' = Waiting
      BY <1>1, <2>2 DEF Waiting, Owns, TypeOK, Starting
    <3> QED BY <3>1, Numbers DEF Spending
  <2>3. IsFiniteSet(Waiting) /\ Cardinality(Waiting) \in Nat
    BY Numbers DEF Spending
  <2>4. ASSUME NEW c \in Caller, Waiting' = Waiting \cup {c}
        PROVE  Cardinality(Waiting') \in Nat /\ Cardinality(Waiting') <= Cardinality(Waiting) + 1
    <3>1. Cardinality(Waiting \cup {c}) \in {Cardinality(Waiting), Cardinality(Waiting) + 1}
      BY <2>3, FS_AddElement
    <3> QED BY <2>3, <2>4, <3>1
  <2>5. CASE \E c \in Caller : mine[c] = i
    <3>1. PICK c \in Caller : mine[c] = i
      BY <2>5
    <3> QED BY <2>1, <2>3, <2>4, <3>1
  <2> QED BY <2>2, <2>5
<1>7. Cardinality(Ended) <= ends
  <2>1. starting => Cardinality(Holders) >= 1
    <3>1. starting => Holders # {}
      BY DEF FlagHasStarter, Holders, HasFlag, Starting
    <3> QED BY <3>1, Numbers, FS_EmptySet DEF Spending, Counted
  <2>2. Cardinality(Holders) + Idle >= 1
    BY <2>1, Numbers DEF Spending, Idle
  <2> QED BY <2>2, Numbers DEF Spending, FlagBudget
<1>8. Spawnable' \in Nat /\ Spawnable \in Nat /\ Spawnable' <= Spawnable + 1
  <2>1. Idle' = Idle /\ Idle \in 0 .. 1 /\ Cardinality(Waiting) \in Nat
    BY <1>1, Numbers DEF Spending, Idle
  <2>2. CASE store = None
    BY <1>1, <1>6, <2>1, <2>2 DEF Spawnable
  <2>3. CASE store # None
    BY <1>1, <2>3 DEF Spawnable
  <2> QED BY <2>2, <2>3
<1>9. (ends + 1) * (ends + 1 + 1) = ends * (ends + 1) + 2 * ends + 2
  BY Numbers DEF Spending
<1>10. (Cardinality(Ended) + 1) * (ends + 1 + 1)
         = Cardinality(Ended) * (ends + 1) + Cardinality(Ended) + ends + 2
  BY Numbers DEF Spending
<1>11. FlagBudget'
  BY <1>1, <1>3, <1>4, <1>5, Numbers DEF Spending, FlagBudget, Idle
<1>12. SpawnBudget'
  <2> DEFINE x == Cardinality(Ended) * (ends + 1)
             y == ends * (ends + 1)
  <2>1. x \in Nat /\ y \in Nat
    BY Numbers DEF Spending
  <2>2. Cardinality(Running) + Spawnable + x + Cardinality(Evicted) <= 1 + y
    BY DEF Spending, SpawnBudget
  <2>3. Cardinality(Running') + Spawnable' + (x + Cardinality(Ended) + ends + 2)
            + Cardinality(Evicted) <= 1 + (y + 2 * ends + 2)
    <3> HIDE DEF x, y
    <3> QED BY <1>5, <1>7, <1>8, <2>1, <2>2, Numbers DEF Spending
  <2> QED BY <1>1, <1>3, <1>5, <1>9, <1>10, <2>3 DEF SpawnBudget
<1> QED BY <1>3, <1>4, <1>5, <1>11, <1>12 DEF Spending, Counted

\* An eviction lets the waiting starts be repeated, of which there are no more
\* than streams have ended.
LEMMA EvictSpends ==
    ASSUME TypeOK, Spending, NEW i \in Reflector, Evict(i)
    PROVE  Spending'
<1>1. /\ task[i] = "ended" /\ task' = [task EXCEPT ![i] = "evicted"] /\ store' = None
      /\ UNCHANGED <<starting, at, mine, ends>>
  BY DEF Evict
<1>2. /\ Running' = Running
      /\ Ended' = Ended \ {i} /\ i \in Ended
      /\ Evicted' = Evicted \cup {i} /\ i \notin Evicted
  BY <1>1 DEF Running, Ended, Evicted, TypeOK
<1>3. Holders' = Holders /\ OneEach'
  BY <1>1 DEF Holders, HasFlag, OneEach, Spending
<1>4. Waiting' = Waiting
  BY <1>1 DEF Waiting, Owns, TypeOK, Starting
<1>5. /\ IsFiniteSet(Ended') /\ Cardinality(Ended') = Cardinality(Ended) - 1
      /\ IsFiniteSet(Evicted') /\ Cardinality(Evicted') = Cardinality(Evicted) + 1
  BY <1>2, FS_AddElement, FS_RemoveElement DEF Spending, Counted
<1>6. Idle' = Idle /\ Spawnable' = Idle + Cardinality(Waiting)
  BY <1>1, <1>4 DEF Idle, Spawnable
<1>7. FlagBudget'
  BY <1>1, <1>3, <1>5, <1>6, Numbers DEF Spending, FlagBudget
<1>8. Cardinality(Ended) >= 1 /\ Spawnable' <= ends /\ Spawnable >= 0
  <2>1. Cardinality(Ended) >= 1
    BY <1>2, Numbers, FS_EmptySet DEF Spending, Counted
  <2> QED BY <1>6, <2>1, Numbers DEF Spending, FlagBudget, Spawnable
<1>9. SpawnBudget'
  <2> DEFINE x == Cardinality(Ended) * (ends + 1)
             y == ends * (ends + 1)
  <2>1. x \in Nat /\ y \in Nat
    BY Numbers DEF Spending
  <2>2. Cardinality(Running) + Spawnable + x + Cardinality(Evicted) <= 1 + y
    BY DEF Spending, SpawnBudget
  <2>3. Cardinality(Running) + Spawnable' + (x - (ends + 1)) + (Cardinality(Evicted) + 1) <= 1 + y
    <3>1. Spawnable \in Nat /\ Spawnable' \in Nat
      BY <1>6, Numbers DEF Spending, Spawnable
    <3> HIDE DEF x, y
    <3> QED BY <1>8, <2>1, <2>2, <3>1, Numbers DEF Spending
  <2>4. (Cardinality(Ended) - 1) * (ends + 1) = x - (ends + 1)
    BY Numbers DEF Spending
  <2> QED BY <1>1, <1>2, <1>5, <2>3, <2>4 DEF SpawnBudget
<1> QED BY <1>2, <1>3, <1>5, <1>7, <1>9 DEF Spending, Counted

\* The flag cleared on behalf of another start is paid for as well.
LEMMA ClearFlagSpends ==
    ASSUME TypeOK, Spending, NEW i \in Reflector, ClearFlag(i)
    PROVE  Spending'
<1>1. /\ task[i] = "evicted" /\ task' = [task EXCEPT ![i] = "cleared"] /\ starting' = FALSE
      /\ UNCHANGED <<store, at, mine, ends>>
  BY DEF ClearFlag
<1>2. /\ Running' = Running /\ Ended' = Ended
      /\ Evicted' = Evicted \ {i} /\ i \in Evicted
  BY <1>1 DEF Running, Ended, Evicted, TypeOK
<1>3. Holders' = Holders /\ OneEach'
  BY <1>1 DEF Holders, HasFlag, OneEach, Spending
<1>4. Waiting' = Waiting
  BY <1>1 DEF Waiting, Owns, TypeOK, Starting
<1>5. IsFiniteSet(Evicted') /\ Cardinality(Evicted') = Cardinality(Evicted) - 1
  BY <1>2, FS_RemoveElement DEF Spending, Counted
<1> QED BY <1>1, <1>2, <1>3, <1>4, <1>5, Numbers
        DEF Spending, Counted, FlagBudget, SpawnBudget, Spawnable, Idle

\* Every step stays within the budgets.
LEMMA StepSpends ==
    ASSUME TypeOK, FlagHasStarter, Spending, [Next]_vars
    PROVE  Spending'
<1>1. ASSUME NEW i \in Reflector, Sync(i) \/ Announce(i) PROVE Spending'
  <2>1. /\ UNCHANGED <<store, starting, mine, ends>>
        /\ \A c \in Caller : (HasFlag(c)' <=> HasFlag(c)) /\ (Owns(c)' <=> Owns(c))
                             /\ (at'[c] = "clear" <=> at[c] = "clear")
    BY <1>1 DEF Sync, Announce, Woken, HasFlag, Owns, TypeOK
  <2>2. \A k \in Reflector : task'[k] = task[k] \/ (task[k] = "cleared" /\ task'[k] = "gone")
    BY <1>1 DEF Sync, Announce, TypeOK
  <2>3. Running' = Running /\ Ended' = Ended /\ Evicted' = Evicted
    BY <2>2 DEF Running, Ended, Evicted
  <2>4. Holders' = Holders /\ Waiting' = Waiting /\ OneEach'
    BY <2>1, <2>2 DEF Holders, Waiting, Owns, OneEach, Spending, TypeOK, Starting
  <2> QED BY <2>1, <2>3, <2>4, NothingSpent DEF Spending
<1>2. CASE UNCHANGED vars
  BY <1>2 DEF vars, Spending, OneEach, Counted, FlagBudget, SpawnBudget, Spawnable, Idle,
              Running, Ended, Evicted, Holders, Waiting, HasFlag, Owns
<1> QED
  BY <1>1, <1>2, CallerSpendsNothing, SpawnSpends, PublishSpends, AbortSpends, ClearSpends,
     EndPays, EvictSpends, ClearFlagSpends DEF Next, CallerGoesOn, TaskGoesOn

\* Even when streams end, and their tasks evict the stores and clear the flags
\* of others, the reflectors of a namespace stay bounded by the number of ends:
\* for any number of callers, however they are interleaved.
THEOREM ReflectorsBounded == Spec => []FewReflectors
<1>1. Init => Spending
  <2> SUFFICES ASSUME Init PROVE Spending
    OBVIOUS
  <2>1. Running = {} /\ Ended = {} /\ Evicted = {} /\ Holders = {} /\ Waiting = {}
    BY DEF Init, Running, Ended, Evicted, Holders, Waiting, HasFlag, Owns
  <2>2. starting = FALSE /\ store = None /\ ends = 0 /\ OneEach
    BY DEF Init, OneEach
  <2> QED BY <2>1, <2>2, FS_EmptySet
          DEF Spending, Counted, FlagBudget, SpawnBudget, Spawnable, Idle
<1>2. TypeOK /\ Spending => FewReflectors
  <2> SUFFICES ASSUME TypeOK, Spending PROVE FewReflectors
    OBVIOUS
  <2>1. Cardinality(Ended) * (ends + 1) \in Nat /\ Spawnable \in Nat
    BY Numbers DEF Spending, Spawnable
  <2>2. ends * (ends + 1) \in Nat
    BY Numbers DEF Spending
  <2> QED BY <2>1, <2>2, Numbers DEF Spending, SpawnBudget, FewReflectors
<1>3. TypeOK /\ FlagHasStarter /\ Spending /\ [Next]_vars => Spending'
  BY StepSpends
<1> QED BY <1>1, <1>2, <1>3, TypeCorrect, FlagIsCleared, PTL DEF Spec
=============================================================================
