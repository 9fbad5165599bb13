------------------------- MODULE ScrapePipelineProofs -------------------------
(* For any number of EPAs, pods and workers, any capacity and any intervals:  *)
(* types, and that the pipeline implements ScrapeReport.                      *)
EXTENDS ScrapePipeline, FiniteSetTheorems, TLAPS

(* The inductive invariant: types, and what the scheduler's phase tells.   *)

Busy == phase \in {"patch", "lookup", "send"}

\* The EPA it processes is one of the snapshot.
InSnapshot ==
    /\ Busy => cur \in Epa /\ seen[cur] # None
    /\ \A e \in todo : seen[e] # None

\* It has counts in hand only while it reports them.
HeldToReport == phase # "patch" => held = Zero /\ ~heldLive

\* Counters that somebody holds and that are live are in the store.
LiveInStore ==
    /\ heldLive => stats[cur] # None
    /\ \A w \in Worker : job[w] # None /\ job[w].live => stats[job[w].epa] # None

IInv == TypeOK /\ InSnapshot /\ HeldToReport /\ LiveInStore

\* No outcomes are a count.
LEMMA ZeroIsCount == Zero \in Count
BY DEF Zero, Count

\* Counts add up to a count.
LEMMA PlusIsCount ==
    ASSUME NEW m \in Count, NEW n \in Count
    PROVE  Plus(m, n) \in Count
BY DEF Plus, Count

\* Adding nothing changes nothing.
LEMMA PlusZero ==
    ASSUME NEW m \in Count
    PROVE  Plus(m, Zero) = m
BY DEF Plus, Zero, Count

\* So are the counters of an EPA, there or not.
LEMMA StatsOfIsCount ==
    ASSUME TypeOK, NEW e \in Epa
    PROVE  StatsOf(e) \in Count
BY ZeroIsCount DEF TypeOK, StatsOf

\* Init establishes the invariant.
LEMMA InitEstablishes == Init => IInv
<1> SUFFICES ASSUME Init PROVE IInv
  OBVIOUS
<1>1. 0 \in 0 .. MaxFaults /\ 0 \in 0 .. MaxChanges /\ 0 \in 0 .. MaxRemovals
  BY BoundAssumption
<1>2. <<>> \in Seq(Job) /\ Len(<<>>) <= Capacity
  BY CapacityAssumption
<1>3. TypeOK
  BY <1>1, <1>2, ZeroIsCount DEF Init, Start, TypeOK
<1> QED BY <1>3 DEF Init, Start, IInv, InSnapshot, HeldToReport, LiveInStore, Busy

-----------------------------------------------------------------------------
(* The scheduler.                                                          *)

\* The scheduler's steps keep it.
LEMMA SchedulerKeeps ==
    ASSUME IInv, SchedulerGoesOn \/ PatchFails \/ LookupFails
    PROVE  IInv'
<1> USE DEF IInv, InSnapshot, HeldToReport, Busy, envVars, bounds, countVars
<1>0. MaxFaults \in Nat /\ Interval \subseteq Nat /\ None \notin Epa /\ None \notin Count
  BY BoundAssumption, IntervalAssumption, NoneAssumption
<1>1. CASE Wake
  <2>1. seen' \in [Epa -> Interval \cup {None}] /\ todo' \in SUBSET Epa
    BY <1>1 DEF Wake, Listed, TypeOK
  <2>2. next' \in [Epa -> [left : Nat, interval : Interval] \cup {None}]
    <3>1. ASSUME NEW e \in Epa, next[e] # None
          PROVE  [next[e] EXCEPT !.left = Taken(@, since)] \in [left : Nat, interval : Interval]
      BY <3>1 DEF Taken, TypeOK
    <3> QED BY <1>1, <3>1 DEF Wake
  <2>3. TypeOK'
    BY <1>1, <2>1, <2>2 DEF Wake, TypeOK
  <2>4. InSnapshot' /\ HeldToReport'
    BY <1>1 DEF Wake, Listed, TypeOK
  <2>5. LiveInStore'
    BY <1>1 DEF Wake, LiveInStore
  <2> QED BY <2>3, <2>4, <2>5
<1>2. ASSUME NEW e \in Epa, PassOver(e) PROVE IInv'
  BY <1>2 DEF PassOver, TypeOK, LiveInStore
<1>3. ASSUME NEW e \in Epa, Process(e) PROVE IInv'
  <2>1. stats' \in [Epa -> Count \cup {None}] /\ held' \in Count /\ heldLive' \in BOOLEAN
    BY <1>3, ZeroIsCount, StatsOfIsCount DEF Process, TypeOK
  <2>2. TypeOK'
    BY <1>3, <2>1 DEF Process, TypeOK
  <2>3. InSnapshot' /\ HeldToReport'
    BY <1>3 DEF Process, TypeOK
  <2>4. LiveInStore'
    BY <1>0, <1>3, ZeroIsCount DEF Process, TypeOK, LiveInStore, Work
  <2> QED BY <2>2, <2>3, <2>4
<1>4. CASE Patched
  BY <1>4, ZeroIsCount DEF Patched, TypeOK, LiveInStore
<1>5. CASE PatchFails
  <2>1. stats' \in [Epa -> Count \cup {None}]
        /\ \A e \in Epa : stats[e] # None => stats'[e] # None
    <3>1. CASE heldLive
      <4>1. cur \in Epa /\ stats[cur] \in Count /\ stats' = [stats EXCEPT ![cur] = Plus(@, held)]
        BY <1>5, <3>1 DEF PatchFails, Restored, TypeOK, LiveInStore
      <4>2. Plus(stats[cur], held) \in Count
        BY <4>1, PlusIsCount DEF TypeOK
      <4> QED BY <1>0, <4>1, <4>2 DEF TypeOK
    <3>2. CASE ~heldLive
      BY <1>5, <3>2 DEF PatchFails, Restored, TypeOK
    <3> QED BY <3>1, <3>2
  <2>2. status' \in [Epa -> Count] /\ faults' \in 0 .. MaxFaults
    BY <1>0, <1>5 DEF PatchFails, TypeOK
  <2>3. TypeOK'
    BY <1>5, <2>1, <2>2, ZeroIsCount DEF PatchFails, TypeOK
  <2>4. LiveInStore'
    BY <1>5, <2>1 DEF PatchFails, LiveInStore, TypeOK, Work
  <2> QED BY <1>5, <2>3, <2>4 DEF PatchFails
<1>6. CASE Lookup
  <2>1. cur \in Epa /\ seen[cur] \in Interval
    BY <1>6 DEF Lookup, TypeOK
  <2>2. next' \in [Epa -> [left : Nat, interval : Interval] \cup {None}]
    BY <1>0, <1>6, <2>1 DEF Lookup, TypeOK
  <2> QED BY <1>6, <2>1, <2>2 DEF Lookup, TypeOK, LiveInStore
<1>7. CASE LookupFails
  <2>1. faults' \in 0 .. MaxFaults
    BY <1>0, <1>7 DEF LookupFails, TypeOK
  <2> QED BY <1>7, <2>1 DEF LookupFails, TypeOK, LiveInStore
<1>8. ASSUME NEW p \in Pod, Send(p) PROVE IInv'
  <2>1. [epa |-> cur, pod |-> p] \in Job
    BY <1>8 DEF Send, Job
  <2>2. jobs' \in Seq(Job) /\ Len(jobs') <= Capacity
    BY <1>8, <2>1, CapacityAssumption DEF Send, HasSlot, TypeOK
  <2>3. TypeOK'
    BY <1>8, <2>2 DEF Send, TypeOK
  <2> QED BY <1>8, <2>3 DEF Send, LiveInStore
<1>9. CASE EndTick
  <2>1. next' \in [Epa -> [left : Nat, interval : Interval] \cup {None}]
    BY <1>9 DEF EndTick, TypeOK
  <2> QED BY <1>9, <2>1 DEF EndTick, TypeOK, LiveInStore
<1> QED BY <1>1, <1>2, <1>3, <1>4, <1>5, <1>6, <1>7, <1>8, <1>9
        DEF SchedulerGoesOn, Comes

-----------------------------------------------------------------------------
(* The workers.                                                            *)

\* The workers' steps keep it.
LEMMA WorkerKeeps ==
    ASSUME IInv, NEW w \in Worker, WorkerGoesOn(w) \/ Succeeds(w) \/ Fails(w)
    PROVE  IInv'
<1> USE DEF IInv, envVars, tickVars, bounds
<1>0. None \notin Count /\ None \notin Work /\ MaxFaults \in Nat
  BY NoneAssumption, BoundAssumption
<1>1. CASE Take(w)
  <2> DEFINE e == Head(jobs).epa
  <2>1. Head(jobs) \in Job /\ Tail(jobs) \in Seq(Job) /\ Len(Tail(jobs)) <= Capacity
    BY <1>1, CapacityAssumption DEF Take, TypeOK
  <2>2. /\ e \in Epa
        /\ [epa |-> e, pod |-> Head(jobs).pod, body |-> FALSE, live |-> TRUE] \in Work
    BY <2>1 DEF Job, Work
  <2>3. stats' = [stats EXCEPT ![e] = StatsOf(e)] /\ StatsOf(e) \in Count
    BY <1>1, <2>2, StatsOfIsCount DEF Take
  <2>4. TypeOK'
    BY <1>1, <2>1, <2>2, <2>3 DEF Take, TypeOK
  <2>5. InSnapshot' /\ HeldToReport'
    BY <1>1 DEF Take, InSnapshot, HeldToReport, Busy
  <2>6. \A d \in Epa : stats[d] # None \/ d = e => stats'[d] # None
    BY <1>0, <2>3 DEF TypeOK
  <2>7. LiveInStore'
    <3>1. heldLive' => stats'[cur'] # None
      BY <1>1, <2>6 DEF Take, LiveInStore, HeldToReport, InSnapshot, Busy
    <3>2. ASSUME NEW v \in Worker, job'[v] # None, job'[v].live
          PROVE  stats'[job'[v].epa] # None
      <4>1. CASE v = w
        <5>1. job'[v].epa = e
          BY <1>1, <4>1 DEF Take, TypeOK
        <5> QED BY <2>2, <2>6, <5>1
      <4>2. CASE v # w
        <5>1. job'[v] = job[v]
          BY <1>1, <4>2 DEF Take, TypeOK
        <5>2. job[v] \in Work /\ stats[job[v].epa] # None
          BY <3>2, <5>1 DEF TypeOK, LiveInStore
        <5> QED BY <2>6, <5>1, <5>2 DEF Work
      <4> QED BY <4>1, <4>2
    <3> QED BY <3>1, <3>2 DEF LiveInStore
  <2> QED BY <2>4, <2>5, <2>7
<1>2. ASSUME NEW n \in Count, job[w] # None, End(w, n), faults' \in 0 .. MaxFaults
      PROVE  IInv'
  <2>1. job[w] \in Work /\ job[w].epa \in Epa
    BY <1>2 DEF TypeOK, Work
  <2>2. /\ stats' \in [Epa -> Count \cup {None}]
        /\ \A d \in Epa : stats[d] # None => stats'[d] # None
    <3>1. CASE job[w].live
      <4>1. stats[job[w].epa] \in Count
            /\ stats' = [stats EXCEPT ![job[w].epa] = Plus(@, n)]
        BY <1>2, <2>1, <3>1 DEF End, Recorded, TypeOK, LiveInStore
      <4>2. Plus(stats[job[w].epa], n) \in Count
        BY <4>1, PlusIsCount
      <4> QED BY <1>0, <2>1, <4>1, <4>2 DEF TypeOK
    <3>2. CASE ~job[w].live
      BY <1>2, <3>2 DEF End, Recorded, TypeOK
    <3> QED BY <3>1, <3>2
  <2>3. job' = [job EXCEPT ![w] = None]
    BY <1>2 DEF End
  <2>4. TypeOK'
    BY <1>2, <2>2, <2>3 DEF End, TypeOK
  <2>5. InSnapshot' /\ HeldToReport'
    BY <1>2 DEF End, InSnapshot, HeldToReport, Busy
  <2>6. LiveInStore'
    <3>1. heldLive' => stats'[cur'] # None
      BY <1>2, <2>2 DEF End, LiveInStore, HeldToReport, InSnapshot, Busy
    <3>2. ASSUME NEW v \in Worker, job'[v] # None, job'[v].live
          PROVE  stats'[job'[v].epa] # None
      <4>1. job'[v] = job[v] /\ job[v] \in Work
        BY <2>3, <3>2 DEF TypeOK
      <4> QED BY <2>2, <3>2, <4>1 DEF LiveInStore, Work
    <3> QED BY <3>1, <3>2 DEF LiveInStore
  <2> QED BY <2>4, <2>5, <2>6
<1>3. CASE Succeeds(w)
  <2>1. [Zero EXCEPT !.scraped = 1] \in Count
    BY DEF Zero, Count
  <2> QED BY <1>2, <1>3, <2>1 DEF Succeeds, TypeOK
<1>4. CASE Fails(w)
  <2>1. [Zero EXCEPT !.errors = 1] \in Count
    BY DEF Zero, Count
  <2>2. faults' \in 0 .. MaxFaults
    BY <1>0, <1>4 DEF Fails, TypeOK
  <2> QED BY <1>2, <1>4, <2>1, <2>2 DEF Fails
<1>5. CASE Responds(w)
  <2>1. [job[w] EXCEPT !.body = TRUE] \in Work
    BY <1>5 DEF Responds, TypeOK, Work
  <2>2. TypeOK'
    <3>1. job' = [job EXCEPT ![w].body = TRUE] /\ job' \in [Worker -> Work \cup {None}]
      BY <1>5, <2>1 DEF Responds, TypeOK
    <3> QED BY <1>5, <3>1 DEF Responds, TypeOK, countVars
  <2>3. InSnapshot' /\ HeldToReport'
    BY <1>5 DEF Responds, InSnapshot, HeldToReport, Busy, countVars
  <2>4. ASSUME NEW v \in Worker, job'[v] # None, job'[v].live
        PROVE  job[v] # None /\ job[v].live /\ job'[v].epa = job[v].epa
    BY <1>5, <2>4 DEF Responds, TypeOK, Work
  <2>5. LiveInStore'
    BY <1>5, <2>4 DEF Responds, LiveInStore, countVars
  <2> QED BY <2>2, <2>3, <2>5
<1> QED BY <1>1, <1>3, <1>4, <1>5 DEF WorkerGoesOn

-----------------------------------------------------------------------------
(* What goes on around.                                                    *)

\* Changes around the pipeline, and time, keep it.
LEMMA AroundKeeps ==
    ASSUME IInv, NEW e \in Epa,
           Register(e) \/ RemoveData(e) \/ Move(e) \/ PodsChange(e)
    PROVE  IInv'
<1> USE DEF IInv, tickVars, countVars, envVars
<1>0. {MaxFaults, MaxChanges, MaxRemovals} \subseteq Nat /\ None \notin Work
  BY BoundAssumption, NoneAssumption
<1>1. CASE Change
  <2>1. changes' \in 0 .. MaxChanges
    BY <1>0, <1>1 DEF Change, TypeOK
  <2>2. UNCHANGED <<tickVars, next, since, jobs, job, countVars, faults, removals>>
    BY <1>1 DEF Change
  <2>3. /\ epas' \in [Epa -> Interval \cup {None}] /\ scrapes' \in SUBSET Epa
        /\ ready' \in [Epa -> SUBSET Pod]
    <3>1. CASE Register(e)
      BY <3>1 DEF Register, TypeOK
    <3>2. CASE Move(e)
      BY <3>2 DEF Move, TypeOK
    <3>3. CASE PodsChange(e)
      BY <3>3 DEF PodsChange, TypeOK
    <3>4. CASE RemoveData(e)
      BY <3>4 DEF RemoveData, TypeOK
    <3> QED BY <3>1, <3>2, <3>3, <3>4
  <2> QED BY <2>1, <2>2, <2>3 DEF TypeOK, InSnapshot, HeldToReport, LiveInStore, Busy
<1>2. CASE RemoveData(e)
  <2>1. removals' \in 0 .. MaxRemovals
    BY <1>0, <1>2 DEF RemoveData, TypeOK
  <2>2. job' \in [Worker -> Work \cup {None}]
    <3>1. ASSUME NEW w \in Worker, job[w] # None
          PROVE  [job[w] EXCEPT !.live = FALSE] \in Work
      BY <3>1 DEF TypeOK, Work
    <3> QED BY <1>2, <3>1 DEF RemoveData, TypeOK
  <2>3. TypeOK'
    BY <1>2, <2>1, <2>2 DEF RemoveData, TypeOK
  <2>4. InSnapshot' /\ HeldToReport'
    BY <1>2 DEF RemoveData, InSnapshot, HeldToReport, Busy
  <2>5. heldLive' => stats'[cur'] # None
    BY <1>2 DEF RemoveData, LiveInStore, HeldToReport, InSnapshot, Busy, TypeOK
  <2>6. ASSUME NEW w \in Worker, job'[w] # None, job'[w].live
        PROVE  stats'[job'[w].epa] # None
    <3>1. job[w] \in Work
      BY <1>2, <2>6 DEF RemoveData, TypeOK
    <3>2. job'[w] = job[w] /\ job[w].epa # e
      BY <1>0, <1>2, <2>6, <3>1 DEF RemoveData, TypeOK, Work
    <3> QED BY <1>0, <1>2, <2>6, <3>1, <3>2 DEF RemoveData, LiveInStore, TypeOK, Work
  <2> QED BY <2>3, <2>4, <2>5, <2>6 DEF LiveInStore
<1> QED BY <1>1, <1>2 DEF Register, Move, PodsChange

\* Every step keeps it.
LEMMA StepKeeps ==
    ASSUME IInv, [Next]_vars
    PROVE  IInv'
<1>1. CASE Tick
  <2>1. since' \in Nat
    BY <1>1 DEF Tick, Grown, IInv, TypeOK
  <2> QED BY <1>1, <2>1
          DEF Tick, IInv, TypeOK, InSnapshot, HeldToReport, LiveInStore, Busy,
              envVars, tickVars, countVars, bounds
<1>2. CASE UNCHANGED vars
  BY <1>2 DEF vars, IInv, TypeOK, InSnapshot, HeldToReport, LiveInStore, Busy,
              envVars, tickVars, countVars, bounds
<1> QED BY <1>1, <1>2, SchedulerKeeps, WorkerKeeps, AroundKeeps DEF Next, Around

\* The invariant holds for any EPAs, pods, workers and capacity.
THEOREM Invariance == Spec => []IInv
BY InitEstablishes, StepKeeps, PTL DEF Spec

\* Type correctness of the scheduler, the channel, the workers and the counters;
\* the channel never holds more than its capacity.
THEOREM TypeCorrect == Spec => []TypeOK
BY Invariance, PTL DEF IInv

-----------------------------------------------------------------------------
(* The refinement.                                                         *)

\* Nothing is taken out of the counters outside a report.
LEMMA NoneInHand ==
    ASSUME held = Zero, NEW e, NEW live
    PROVE  HeldFor(e, live) = Zero
BY DEF HeldFor

\* What the scheduler holds for an EPA is a count.
LEMMA HeldIsCount ==
    ASSUME TypeOK, NEW e, NEW live
    PROVE  HeldFor(e, live) \in Count
BY ZeroIsCount DEF HeldFor, TypeOK

\* Only finitely many scrapes run.
LEMMA LiveIsFinite ==
    ASSUME NEW e
    PROVE  IsFiniteSet(Live(e)) /\ Cardinality(Live(e)) \in Nat
<1>1. Live(e) \subseteq Worker
  BY DEF Live
<1> QED BY <1>1, WorkerAssumption, FS_Subset, FS_CardinalityType

\* Init implements Init of ScrapeReport.
LEMMA InitImplements == Init => Report!Init
<1> SUFFICES ASSUME Init PROVE Report!Init
  OBVIOUS
<1>1. ASSUME NEW e \in Epa
      PROVE  Cardinality(Live(e)) = 0 /\ Plus(StatsOf(e), HeldFor(e, TRUE)) = Zero
             /\ HeldFor(e, FALSE) = Zero
  <2>1. Live(e) = {}
    BY DEF Init, Live
  <2>2. StatsOf(e) = Zero /\ HeldFor(e, TRUE) = Zero /\ HeldFor(e, FALSE) = Zero
    BY NoneInHand DEF Init, Start, StatsOf
  <2>3. Plus(Zero, Zero) = Zero
    BY PlusZero, ZeroIsCount
  <2> QED BY <2>1, <2>2, <2>3, FS_EmptySet
<1>2. /\ running = [e \in Epa |-> 0] /\ unreported = [e \in Epa |-> Zero]
      /\ stray = [e \in Epa |-> Zero]
  BY <1>1 DEF running, unreported, stray
<1> QED BY <1>2 DEF Init, Start, Report!Init, Report!Zero, Zero

\* Nothing that is reported moves: the counters and jobs stay, and so does what
\* is held, or there is nothing held.
LEMMA Stutters ==
    ASSUME UNCHANGED <<job, stats, status, removals>>,
           \/ held = Zero /\ held' = Zero
           \/ UNCHANGED <<cur, held, heldLive>>
    PROVE  UNCHANGED <<running, unreported, stray, status, removals>>
<1>1. \A e \in Epa, live \in BOOLEAN : HeldFor(e, live)' = HeldFor(e, live)
  BY DEF HeldFor
<1>2. \A e \in Epa : Live(e)' = Live(e) /\ StatsOf(e)' = StatsOf(e)
  BY DEF Live, StatsOf
<1> QED BY <1>1, <1>2 DEF running, unreported, stray

\* The scheduler's report, its failure, and the steps between.
LEMMA SchedulerImplements ==
    ASSUME IInv, SchedulerGoesOn \/ PatchFails \/ LookupFails
    PROVE  Report!Next \/ UNCHANGED Report!vars
<1> USE DEF IInv, HeldToReport, envVars, bounds, countVars
<1> DEFINE Still == UNCHANGED <<running, unreported, stray, status, removals>>
<1>1. ASSUME UNCHANGED <<job, stats, status, removals>>, held = Zero, held' = Zero
      PROVE  Still
  BY <1>1, Stutters
<1>2. ASSUME NEW e \in Epa, Process(e) PROVE Still
  <2>1. held = Zero /\ UNCHANGED <<job, status, removals>>
    BY <1>2 DEF Process
  <2>2. StatsOf(e) \in Count /\ Plus(StatsOf(e), Zero) = StatsOf(e)
    BY StatsOfIsCount, PlusZero
  <2>3. ASSUME NEW d \in Epa
        PROVE  /\ Plus(StatsOf(d), HeldFor(d, TRUE))' = Plus(StatsOf(d), HeldFor(d, TRUE))
               /\ HeldFor(d, FALSE)' = HeldFor(d, FALSE)
    <3>1. HeldFor(d, TRUE) = Zero /\ HeldFor(d, FALSE) = Zero
      BY <2>1, NoneInHand
    <3>2. CASE d = e
      <4>1. StatsOf(e)' = Zero
        BY <1>2 DEF Process, StatsOf, TypeOK
      <4>2. HeldFor(e, TRUE)' = StatsOf(e) /\ HeldFor(e, FALSE)' = Zero
        BY <1>2 DEF Process, HeldFor
      <4>3. Plus(Zero, StatsOf(e)) = Plus(StatsOf(e), Zero)
        BY <2>2, ZeroIsCount DEF Plus, Count
      <4> QED BY <2>2, <3>1, <3>2, <4>1, <4>2, <4>3 DEF Plus
    <3>3. CASE d # e
      <4>1. StatsOf(d)' = StatsOf(d)
        BY <1>2, <3>3 DEF Process, StatsOf, TypeOK
      <4>2. HeldFor(d, TRUE)' = Zero /\ HeldFor(d, FALSE)' = Zero
        BY <1>2, <3>3 DEF Process, HeldFor
      <4> QED BY <3>1, <4>1, <4>2 DEF Plus
    <3> QED BY <3>2, <3>3
  <2>4. running' = running
    BY <2>1 DEF running, Live
  <2> QED BY <2>1, <2>3, <2>4 DEF unreported, stray
\* What is in hand is written to the status: the counts of the store, or those
\* of data that is gone.
<1>3. ASSUME phase = "patch", UNCHANGED <<job, removals, cur>>, held' = Zero, ~heldLive',
             status' \in {status, [status EXCEPT ![cur] = held]},
             \/ stats' = stats /\ status' = [status EXCEPT ![cur] = held]
             \/ stats' = Restored
      PROVE  Report!Next \/ Still
  <2>1. cur \in Epa /\ held \in Count /\ StatsOf(cur) \in Count
    BY <1>3, StatsOfIsCount DEF InSnapshot, Busy, TypeOK
  <2>2. running' = running
    BY <1>3 DEF running, Live
  <2>3. \A d \in Epa, live \in BOOLEAN : HeldFor(d, live)' = Zero
    BY <1>3 DEF HeldFor
  <2>4. \A d \in Epa \ {cur}, live \in BOOLEAN : HeldFor(d, live) = Zero
    BY DEF HeldFor
  <2>5. CASE ~heldLive
    <3>1. stats' = stats /\ \A d \in Epa : StatsOf(d)' = StatsOf(d)
      BY <1>3, <2>5 DEF Restored, StatsOf
    <3>2. HeldFor(cur, FALSE) = held /\ \A d \in Epa : HeldFor(d, TRUE) = Zero
      BY <2>5 DEF HeldFor
    <3>3. unreported' = unreported
      BY <2>3, <3>1, <3>2 DEF unreported, Plus
    <3>4. stray' = [stray EXCEPT ![cur] = Zero] /\ stray[cur] = held
      BY <2>1, <2>3, <2>4, <3>2 DEF stray
    <3>5. Report!Settle(cur)
      BY <1>3, <2>2, <3>3, <3>4 DEF Report!Settle, Report!Zero, Zero
    <3> QED BY <2>1, <3>5 DEF Report!Next
  <2>6. CASE heldLive
    <3>1. \A d \in Epa : HeldFor(d, FALSE) = Zero
      BY <2>6 DEF HeldFor
    <3>2. stray' = stray
      BY <2>3, <3>1 DEF stray
    <3>3. unreported[cur] = Plus(StatsOf(cur), held)
      BY <2>1, <2>6 DEF unreported, HeldFor
    <3>4. held \in Report!PartsOf(unreported[cur])
      BY <2>1, <3>3 DEF Report!PartsOf, Plus, Count
    <3>5. CASE stats' = stats /\ status' = [status EXCEPT ![cur] = held]
      <4>1. \A d \in Epa : StatsOf(d)' = StatsOf(d)
        BY <3>5 DEF StatsOf
      <4>2. Plus(StatsOf(cur), Zero) = Report!Minus(unreported[cur], held)
        BY <2>1, <3>3 DEF Report!Minus, Plus, Zero, Count
      <4>3. unreported' = [unreported EXCEPT ![cur] = Report!Minus(@, held)]
        <5>1. \A d \in Epa : unreported'[d] = Plus(StatsOf(d), Zero)
          BY <2>3, <4>1 DEF unreported, Plus
        <5>2. \A d \in Epa \ {cur} : unreported[d] = Plus(StatsOf(d), Zero)
          BY <2>4 DEF unreported, Plus
        <5> QED BY <2>1, <4>2, <5>1, <5>2 DEF unreported
      <4>4. Report!Report(cur)
        BY <1>3, <2>2, <3>2, <3>4, <3>5, <4>3 DEF Report!Report
      <4> QED BY <2>1, <4>4 DEF Report!Next
    <3>6. CASE stats' = Restored
      <4>1. stats[cur] \in Count /\ stats' = [stats EXCEPT ![cur] = Plus(@, held)]
        BY <2>1, <2>6, <3>6 DEF Restored, LiveInStore, TypeOK
      <4>2. Plus(stats[cur], held) \in Count /\ Plus(stats[cur], held) # None
        BY <2>1, <4>1, PlusIsCount, NoneAssumption
      <4>3. StatsOf(cur)' = Plus(StatsOf(cur), held)
        <5>1. stats[cur] # None /\ StatsOf(cur) = stats[cur]
          BY <4>1, NoneAssumption DEF StatsOf
        <5>2. stats'[cur] = Plus(stats[cur], held)
          BY <2>1, <4>1 DEF TypeOK
        <5>3. cur' = cur
          BY <1>3
        <5> QED BY <4>2, <5>1, <5>2, <5>3 DEF StatsOf
      <4>4. \A d \in Epa \ {cur} : StatsOf(d)' = StatsOf(d)
        BY <4>1 DEF StatsOf, TypeOK
      <4>5. unreported' = unreported
        <5>1. Plus(StatsOf(cur)', Zero) = unreported[cur]
          BY <2>1, <3>3, <4>2, <4>3, PlusZero, PlusIsCount
        <5>2. \A d \in Epa : unreported'[d] = Plus(StatsOf(d)', Zero)
          BY <2>3 DEF unreported, Plus
        <5>3. \A d \in Epa \ {cur} : unreported[d] = Plus(StatsOf(d), Zero)
          BY <2>4 DEF unreported, Plus
        <5>4. ASSUME NEW d \in Epa PROVE unreported'[d] = unreported[d]
          <6>1. CASE d = cur
            BY <1>3, <5>1, <5>2, <6>1
          <6>2. CASE d # cur
            BY <4>4, <5>2, <5>3, <6>2
          <6> QED BY <6>1, <6>2
        <5> QED BY <5>4 DEF unreported
      <4>6. CASE status' = status
        BY <1>3, <2>2, <3>2, <4>5, <4>6
      <4>7. CASE status' = [status EXCEPT ![cur] = held]
        <5>1. Report!ReportUnanswered(cur)
          BY <1>3, <2>2, <3>2, <3>4, <4>5, <4>7 DEF Report!ReportUnanswered
        <5> QED BY <2>1, <5>1 DEF Report!Next
      <4> QED BY <1>3, <4>6, <4>7
    <3> QED BY <1>3, <3>5, <3>6
  <2> QED BY <2>5, <2>6
<1>4. CASE Wake \/ Lookup \/ LookupFails \/ EndTick \/ \E p \in Pod : Send(p)
  <2>1. UNCHANGED <<job, stats, status, removals, held>> /\ phase # "patch"
    BY <1>4 DEF Wake, Lookup, LookupFails, EndTick, Send
  <2> QED BY <1>1, <2>1 DEF Report!vars
<1>5. ASSUME NEW e \in Epa, PassOver(e) PROVE Still
  BY <1>1, <1>5 DEF PassOver
<1>6. CASE Patched
  BY <1>3, <1>6 DEF Patched, Report!vars
<1>7. CASE PatchFails
  BY <1>3, <1>7 DEF PatchFails, Report!vars
<1> QED BY <1>2, <1>4, <1>5, <1>6, <1>7 DEF SchedulerGoesOn, Comes, Report!vars

\* The order of counting and putting back does not matter.
LEMMA PlusSwaps ==
    ASSUME NEW m \in Count, NEW n \in Count, NEW k \in Count
    PROVE  Plus(Plus(m, n), k) = Report!Plus(Plus(m, k), n)
BY DEF Plus, Report!Plus, Count

\* A scrape begins, or ends and is counted if its counters are live.
LEMMA WorkerImplements ==
    ASSUME IInv, NEW w \in Worker, WorkerGoesOn(w) \/ Succeeds(w) \/ Fails(w)
    PROVE  Report!Next \/ UNCHANGED Report!vars
<1> USE DEF IInv, envVars, tickVars, bounds
<1>0. None \notin Count /\ None \notin Work
  BY NoneAssumption
<1>1. CASE Take(w)
  <2>a. Head(jobs) \in Job
    BY <1>1 DEF Take, TypeOK
  <2>b. PICK e \in Epa, q \in Pod : Head(jobs).epa = e /\ Head(jobs).pod = q
    BY <2>a DEF Job
  <2> DEFINE work == [epa |-> e, pod |-> q, body |-> FALSE, live |-> TRUE]
  <2>1. work \in Work
    BY DEF Work
  <2>2. job' = [job EXCEPT ![w] = work] /\ job[w] = None
    BY <1>1, <2>b DEF Take
  <2>3. Live(e)' = Live(e) \cup {w} /\ w \notin Live(e)
    BY <1>0, <2>1, <2>2 DEF Live, TypeOK
  <2>4. \A d \in Epa \ {e} : Live(d)' = Live(d)
    BY <2>2 DEF Live, TypeOK
  <2>5. Cardinality(Live(e)') = Cardinality(Live(e)) + 1
    BY <2>3, LiveIsFinite, FS_AddElement
  <2>6. running' = [running EXCEPT ![e] = @ + 1]
    BY <2>1, <2>4, <2>5 DEF running
  <2>7. \A d \in Epa, live \in BOOLEAN : HeldFor(d, live)' = HeldFor(d, live)
    BY <1>1 DEF Take, HeldFor
  <2>8. ASSUME NEW d \in Epa PROVE StatsOf(d)' = StatsOf(d)
    <3>1. stats' = [stats EXCEPT ![e] = StatsOf(e)] /\ StatsOf(e) \in Count
      BY <1>1, <2>b, StatsOfIsCount DEF Take
    <3>2. CASE d = e
      <4>1. stats'[d] = StatsOf(d) /\ StatsOf(d) # None
        BY <1>0, <3>1, <3>2 DEF TypeOK
      <4> QED BY <4>1 DEF StatsOf
    <3>3. CASE d # e
      BY <3>1, <3>3 DEF StatsOf, TypeOK
    <3> QED BY <3>2, <3>3
  <2>9. unreported' = unreported /\ stray' = stray
    BY <2>7, <2>8 DEF unreported, stray
  <2>10. Report!Begin(e)
    BY <1>1, <2>6, <2>9 DEF Take, Report!Begin
  <2> QED BY <2>10 DEF Report!Next
<1>2. ASSUME NEW n \in Report!One, n \in Count, job[w] # None, End(w, n)
      PROVE  Report!Next \/ UNCHANGED Report!vars
  <2>a. job[w] \in Work
    BY <1>2 DEF TypeOK
  <2>1. PICK e \in Epa : job[w].epa = e
    BY <2>a DEF Work
  <2>2. job' = [job EXCEPT ![w] = None] /\ UNCHANGED <<cur, held, heldLive, status, removals>>
    BY <1>2 DEF End
  <2>3. \A d \in Epa, live \in BOOLEAN : HeldFor(d, live)' = HeldFor(d, live)
    BY <2>2 DEF HeldFor
  <2>4. \A d \in Epa \ {e} : Live(d)' = Live(d)
    BY <2>1, <2>2 DEF Live, TypeOK
  <2>5. stray' = stray
    BY <2>3 DEF stray
  <2>6. CASE job[w].live
    <3>1. Live(e)' = Live(e) \ {w} /\ w \in Live(e)
      BY <1>2, <2>1, <2>2, <2>6 DEF Live, TypeOK
    <3>2. Cardinality(Live(e)') = Cardinality(Live(e)) - 1
      BY <3>1, LiveIsFinite, FS_RemoveElement
    <3>3. running[e] > 0
      <4>1. Cardinality(Live(e)) # 0 /\ Cardinality(Live(e)) \in Nat
        BY <3>1, LiveIsFinite, FS_EmptySet
      <4> QED BY <2>1, <4>1 DEF running
    <3>4. running' = [running EXCEPT ![e] = @ - 1]
      BY <2>1, <2>4, <3>2 DEF running
    <3>5. stats[e] \in Count /\ stats' = [stats EXCEPT ![e] = Plus(@, n)]
      BY <1>2, <2>1, <2>6 DEF End, Recorded, LiveInStore, TypeOK
    <3>6. Plus(stats[e], n) # None /\ stats[e] # None
      BY <1>0, <1>2, <3>5, PlusIsCount
    <3>7. StatsOf(e)' = Plus(StatsOf(e), n)
      <4>1. stats'[e] = Plus(stats[e], n) /\ StatsOf(e) = stats[e]
        BY <2>1, <3>5, <3>6 DEF TypeOK, StatsOf
      <4> QED BY <3>6, <4>1 DEF StatsOf
    <3>8. \A d \in Epa \ {e} : StatsOf(d)' = StatsOf(d)
      BY <3>5 DEF StatsOf, TypeOK
    <3>9. Plus(Plus(StatsOf(e), n), HeldFor(e, TRUE))
          = Report!Plus(Plus(StatsOf(e), HeldFor(e, TRUE)), n)
      <4>1. StatsOf(e) \in Count /\ HeldFor(e, TRUE) \in Count /\ n \in Count
        BY <1>2, StatsOfIsCount, HeldIsCount
      <4> QED BY <4>1, PlusSwaps
    <3>10. unreported' = [unreported EXCEPT ![e] = Report!Plus(@, n)]
      <4>1. unreported'[e] = Report!Plus(unreported[e], n)
        BY <2>1, <2>3, <3>7, <3>9 DEF unreported
      <4>2. \A d \in Epa \ {e} : unreported'[d] = unreported[d]
        BY <2>3, <3>8 DEF unreported
      <4> QED BY <2>1, <4>1, <4>2 DEF unreported
    <3>11. Report!End(e)
      BY <1>2, <2>2, <2>5, <3>3, <3>4, <3>10 DEF Report!End
    <3> QED BY <2>1, <3>11 DEF Report!Next
  <2>7. CASE ~job[w].live
    <3>1. stats' = stats
      BY <1>2, <2>7 DEF End, Recorded
    <3>2. Live(e)' = Live(e)
      BY <2>2, <2>7 DEF Live, TypeOK
    <3>3. running' = running
      BY <2>4, <3>2 DEF running
    <3>4. unreported' = unreported
      BY <2>3, <3>1 DEF unreported, StatsOf
    <3> QED BY <2>2, <2>5, <3>3, <3>4 DEF Report!vars
  <2> QED BY <2>6, <2>7
<1>3. ASSUME NEW k \in {"scraped", "errors"}
      PROVE  [Zero EXCEPT ![k] = 1] \in Count
  BY DEF Zero, Count
<1>4. CASE Succeeds(w)
  <2>1. [Zero EXCEPT !.scraped = 1] \in Report!One /\ [Zero EXCEPT !.scraped = 1] \in Count
    BY DEF Report!One, Report!Zero, Zero, Count
  <2> QED BY <1>2, <1>4, <2>1 DEF Succeeds
<1>5. CASE Fails(w)
  <2>1. [Zero EXCEPT !.errors = 1] \in Report!One /\ [Zero EXCEPT !.errors = 1] \in Count
    BY DEF Report!One, Report!Zero, Zero, Count
  <2> QED BY <1>2, <1>5, <2>1 DEF Fails
<1>6. CASE Responds(w)
  <2>1. UNCHANGED <<cur, held, heldLive, stats, status, removals>>
    BY <1>6 DEF Responds, countVars
  <2>2. \A d \in Epa : Live(d)' = Live(d)
    <3>1. job[w] \in Work /\ job' = [job EXCEPT ![w].body = TRUE]
      BY <1>6 DEF Responds, TypeOK
    <3>2. job'[w] # None /\ job'[w].epa = job[w].epa /\ job'[w].live = job[w].live
      <4>1. [job[w] EXCEPT !.body = TRUE] \in Work
        BY <3>1 DEF Work
      <4> QED BY <1>0, <3>1, <4>1 DEF TypeOK, Work
    <3>3. \A v \in Worker \ {w} : job'[v] = job[v]
      BY <3>1 DEF TypeOK
    <3> QED BY <1>6, <3>2, <3>3 DEF Responds, Live
  <2>3. \A d \in Epa, live \in BOOLEAN : HeldFor(d, live)' = HeldFor(d, live)
    BY <2>1 DEF HeldFor
  <2> QED BY <2>1, <2>2, <2>3 DEF running, unreported, stray, StatsOf, Report!vars
<1> QED BY <1>1, <1>4, <1>5, <1>6 DEF WorkerGoesOn

\* The data of an EPA is removed: what was counted goes, what is held may still
\* be reported.
LEMMA RemoveImplements ==
    ASSUME IInv, NEW e \in Epa, RemoveData(e)
    PROVE  Report!Remove(e)
<1> USE DEF IInv, RemoveData, envVars, tickVars
<1>1. ASSUME NEW d \in Epa
      PROVE  Live(d)' = IF d = e THEN {} ELSE Live(d)
  BY NoneAssumption DEF Live, TypeOK, Work
<1>2. running' = [running EXCEPT ![e] = 0]
  BY <1>1, FS_EmptySet DEF running
<1>3. StatsOf(e)' = Zero /\ \A d \in Epa \ {e} : StatsOf(d)' = StatsOf(d)
  BY DEF StatsOf, TypeOK
<1>4. \A d \in Epa \ {e}, live \in BOOLEAN : HeldFor(d, live)' = HeldFor(d, live)
  BY DEF HeldFor, TypeOK
<1>5. HeldFor(e, TRUE)' = Zero
  BY DEF HeldFor
<1>6. unreported' = [unreported EXCEPT ![e] = Report!Zero]
  <2>1. Plus(Zero, Zero) = Report!Zero
    BY PlusZero, ZeroIsCount DEF Zero, Report!Zero
  <2>2. unreported'[e] = Report!Zero
    BY <1>3, <1>5, <2>1 DEF unreported
  <2>3. \A d \in Epa \ {e} : unreported'[d] = unreported[d]
    BY <1>3, <1>4 DEF unreported
  <2> QED BY <2>2, <2>3 DEF unreported
<1>7. HeldFor(e, FALSE)' \in Report!PartsOf(Report!Plus(unreported[e], stray[e]))
  <2>1. HeldFor(e, FALSE)' = IF cur = e THEN held ELSE Zero
    BY DEF HeldFor
  <2>2. /\ unreported[e] = Plus(StatsOf(e), HeldFor(e, TRUE))
        /\ stray[e] = HeldFor(e, FALSE)
    BY DEF unreported, stray
  <2>3. StatsOf(e) \in Count /\ held \in Count
    BY StatsOfIsCount DEF TypeOK
  <2>4. CASE cur = e /\ heldLive
    BY <2>1, <2>2, <2>3, <2>4, ZeroIsCount
       DEF HeldFor, Report!PartsOf, Report!Plus, Plus, Zero, Count
  <2>5. CASE cur = e /\ ~heldLive
    BY <2>1, <2>2, <2>3, <2>5, ZeroIsCount
       DEF HeldFor, Report!PartsOf, Report!Plus, Plus, Zero, Count
  <2>6. CASE cur # e
    BY <2>1, <2>2, <2>3, <2>6, ZeroIsCount
       DEF HeldFor, Report!PartsOf, Report!Plus, Plus, Zero, Count
  <2> QED BY <2>4, <2>5, <2>6 DEF TypeOK
<1>8. stray' = [stray EXCEPT ![e] = HeldFor(e, FALSE)']
  BY <1>4 DEF stray
<1> QED BY <1>2, <1>6, <1>7, <1>8 DEF Report!Remove

\* Every step is a step of ScrapeReport or a stutter.
LEMMA StepImplements ==
    ASSUME IInv, [Next]_vars
    PROVE  [Report!Next]_(Report!vars)
<1>1. ASSUME UNCHANGED <<job, stats, status, removals, cur, held, heldLive>>
      PROVE  UNCHANGED Report!vars
  BY <1>1, Stutters DEF Report!vars
<1>2. ASSUME NEW e \in Epa, Register(e) \/ Move(e) \/ PodsChange(e)
      PROVE  UNCHANGED Report!vars
  BY <1>1, <1>2 DEF Register, Move, PodsChange, Change, tickVars, countVars
<1>3. CASE Tick
  BY <1>1, <1>3 DEF Tick, tickVars, countVars, bounds
<1>4. CASE UNCHANGED vars
  BY <1>1, <1>4 DEF vars, tickVars, countVars, bounds
<1>5. ASSUME NEW e \in Epa, RemoveData(e) PROVE Report!Next
  BY <1>5, RemoveImplements DEF Report!Next
<1> QED BY <1>2, <1>3, <1>4, <1>5, SchedulerImplements, WorkerImplements DEF Next, Around

\* Whatever the interleaving of workers, reports, failed reports and removals:
\* every scrape outcome is counted once and reported once, twice only when the
\* answer to its report was lost, and lost only with the data of its EPA.
THEOREM PipelineImplementsReport == Spec => CountedOnce
BY InitImplements, Invariance, StepImplements, PTL DEF Spec, CountedOnce, Report!Spec
=============================================================================
