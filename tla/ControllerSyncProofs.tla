------------------------ MODULE ControllerSyncProofs ------------------------
(***************************************************************************)
(* Theorems about ControllerSync, for every number of replicas and every   *)
(* bound: types, the order in which versions travel, and the HPA of an EPA *)
(* whose owner does not change.                                            *)
(***************************************************************************)
EXTENDS ControllerSync, SequenceTheorems, TLAPS

-----------------------------------------------------------------------------
(* Types. *)

\* A channel with room takes one more version.
LEMMA EnqueuedType ==
  ASSUME TypeOK, NEW r \in Replica, Len(queue[r]) < QueueSize, job[r] \in Seen
  PROVE  Enqueued(r, job[r]) \in Seq(Seen) /\ Len(Enqueued(r, job[r])) <= QueueSize
  BY SyncAssumption DEF TypeOK, Enqueued

\* Taking a version from a channel leaves a channel.
LEMMA TailType ==
  ASSUME TypeOK, NEW r \in Replica, queue[r] # << >>
  PROVE  /\ Tail(queue[r]) \in Seq(Seen) /\ Len(Tail(queue[r])) <= QueueSize
         /\ Head(queue[r]) \in Seen
  BY SMTT(30), SyncAssumption DEF TypeOK

\* A running reconcile holds an object.
HasJob == \A r \in Replica : pc[r] # "idle" => job[r] \in Seen

\* A reconcile moves between stages, with an object or nothing.
LEMMA GoToType ==
  ASSUME TypeOK, NEW r \in Replica, NEW s \in Stage, GoTo(r, s)
  PROVE  pc' \in [Replica -> Stage] /\ job' \in [Replica -> Seen \cup {Nothing}]
  BY DEF TypeOK, GoTo

\* A reconcile that goes on keeps its object, and one that ends forgets it.
LEMMA GoToHasJob ==
  ASSUME TypeOK, HasJob, NEW r \in Replica, NEW s, GoTo(r, s),
         s # "idle" => pc[r] # "idle"
  PROVE  HasJob'
<1> SUFFICES ASSUME NEW q \in Replica, pc'[q] # "idle" PROVE job'[q] \in Seen
  BY DEF HasJob
<1>1. pc[q] # "idle" /\ job'[q] = job[q]
  BY DEF GoTo, TypeOK
<1> QED BY <1>1 DEF HasJob

\* Type correctness, with the fact that only idle reconciles hold no object.
THEOREM TypeCorrect == Spec => [](TypeOK /\ HasJob)
<1>1. Init => TypeOK /\ HasJob
  <2> SUFFICES ASSUME Init PROVE TypeOK /\ HasJob
    OBVIOUS
  <2>1. 0 \in 0 .. MaxVersion /\ 0 \in 0 .. MaxFaults /\ 0 \in 0 .. MaxCrashes
        /\ 0 \in 0 .. MaxMoves
    BY SyncAssumption
  <2>2. job \in [Replica -> Seen \cup {Nothing}] /\ pc \in [Replica -> Stage]
    BY DEF Init, Stage
  <2>3. queue \in [Replica -> Seq(Seen)] /\ \A r \in Replica : Len(queue[r]) <= QueueSize
    BY SyncAssumption DEF Init
  <2> QED BY <2>1, <2>2, <2>3 DEF Init, TypeOK, HasJob
<1>2. TypeOK /\ HasJob /\ [Next]_vars => TypeOK' /\ HasJob'
  <2> SUFFICES ASSUME TypeOK, HasJob, [Next]_vars PROVE TypeOK' /\ HasJob'
    OBVIOUS
  <2>0. version < MaxVersion => version + 1 \in 0 .. MaxVersion
    BY SyncAssumption DEF TypeOK
  <2>zero. 0 \in 0 .. MaxVersion
    BY SyncAssumption
  <2>1a. CASE Create \/ Edit \/ Mark
    BY <2>0, <2>1a DEF Create, Edit, Mark, Write, TypeOK, HasJob, Replicas,
       control, scraper, bounds
  <2>1b. CASE Remove \/ Collect
    <3>1. object' \in 0 .. MaxVersion /\ hpa' \in 0 .. MaxVersion /\ marked' \in BOOLEAN
      BY <2>1b, <2>zero DEF Remove, Collect, TypeOK, server
    <3>2. UNCHANGED <<version, born, Replicas, bounds>>
      BY <2>1b DEF Remove, Collect, server
    <3> QED BY <3>1, <3>2 DEF TypeOK, HasJob, Replicas, control, scraper, bounds
  <2>1c. CASE Move
    <3>1. moves' \in 0 .. MaxMoves
      BY <2>1c, SyncAssumption DEF Move, TypeOK
    <3> QED BY <2>1c, <3>1 DEF Move, TypeOK, HasJob, control, server, scraper
  <2>2. ASSUME NEW r \in Replica, Trigger(r) PROVE TypeOK' /\ HasJob'
    BY <2>2 DEF Trigger, TypeOK, HasJob, server, scraper, bounds
  <2>3. ASSUME NEW r \in Replica, Observe(r) PROVE TypeOK' /\ HasJob'
    <3>1. [version |-> object, deleting |-> marked] \in Seen \/ ~Exists
      BY DEF TypeOK, Exists, Seen, Version
    <3>2. /\ pc' \in [Replica -> Stage]
          /\ job' \in [Replica -> Seen \cup {Nothing}]
          /\ \A q \in Replica : pc'[q] # "idle" => job'[q] \in Seen
      <4>0. /\ pc \in [Replica -> Stage]
            /\ job \in [Replica -> Seen \cup {Nothing}]
            /\ \A q \in Replica : pc[q] # "idle" => job[q] \in Seen
        BY DEF TypeOK, HasJob
      <4>1. CASE UNCHANGED <<pc, job>>
        BY <4>0, <4>1
      <4>2. CASE ~UNCHANGED <<pc, job>>
        <5> DEFINE o == [version |-> object, deleting |-> marked]
        <5>1. /\ o \in Seen
              /\ pc' = [pc EXCEPT ![r] = "observed"]
              /\ job' = [job EXCEPT ![r] = o]
          BY <2>3, <3>1, <4>2 DEF Observe
        <5>2. "observed" \in Stage
          BY DEF Stage
        <5> HIDE DEF o
        <5> QED BY <4>0, <5>1, <5>2
      <4> QED BY <4>1, <4>2
    <3>3. pending' \in [Replica -> BOOLEAN]
      BY <2>3 DEF Observe, TypeOK
    <3>4. faults' \in 0 .. MaxFaults /\ UNCHANGED <<crashes, moves>>
      <4>1. Fault \/ UNCHANGED bounds
        BY <2>3 DEF Observe
      <4>2. faults \in 0 .. MaxFaults
        BY DEF TypeOK
      <4>3. CASE Fault
        BY <4>2, <4>3, SyncAssumption DEF Fault
      <4>4. CASE UNCHANGED bounds
        BY <4>2, <4>4 DEF bounds
      <4> QED BY <4>1, <4>3, <4>4
    <3>5. UNCHANGED <<server, hpa, owner, seen, queue, scraper, windows>>
      BY <2>3 DEF Observe
    <3> QED BY <3>2, <3>3, <3>4, <3>5 DEF TypeOK, HasJob, server, scraper
  <2>4. ASSUME NEW r \in Replica, Decide(r) PROVE TypeOK' /\ HasJob'
    <3>1. StageOf(r, owner[r]) \in Stage
      BY DEF StageOf, Stage
    <3>2. pc' \in [Replica -> Stage] /\ job' \in [Replica -> Seen \cup {Nothing}]
      BY <2>4, <3>1, GoToType DEF Decide
    <3>3. HasJob'
      BY <2>4, GoToHasJob DEF Decide
    <3>4. UNCHANGED <<server, hpa, owner, seen, pending, queue, scraper, windows, bounds>>
      BY <2>4 DEF Decide
    <3> QED BY <3>2, <3>3, <3>4 DEF TypeOK, server, scraper, bounds
  <2>5. ASSUME NEW r \in Replica, Apply(r) PROVE TypeOK' /\ HasJob'
    <3>1. job[r].version \in 0 .. MaxVersion
      BY <2>5, SyncAssumption DEF Apply, HasJob, Seen, Version
    <3>2. pc' \in [Replica -> Stage] /\ job' \in [Replica -> Seen \cup {Nothing}]
      BY <2>5, GoToType DEF Apply, Stage
    <3>3. pending' \in [Replica -> BOOLEAN]
      BY <2>5 DEF Apply, Requeue, TypeOK
    <3>4. hpa' \in 0 .. MaxVersion
      BY <2>5, <3>1 DEF Apply, TypeOK
    <3>5. faults' \in 0 .. MaxFaults /\ UNCHANGED <<crashes, moves>>
      BY SMTT(30), <2>5, SyncAssumption DEF Apply, Fault, TypeOK, bounds
    <3>6. HasJob'
      BY <2>5, GoToHasJob DEF Apply
    <3>7. UNCHANGED <<server, owner, seen, queue, scraper, windows>>
      BY <2>5 DEF Apply
    <3> QED BY <3>2, <3>3, <3>4, <3>5, <3>6, <3>7 DEF TypeOK, server, scraper
  <2>6. ASSUME NEW r \in Replica, Send(r) PROVE TypeOK' /\ HasJob'
    <3>1. job[r] \in Seen
      BY <2>6 DEF Send, HasJob
    <3>2. pc' \in [Replica -> Stage] /\ job' \in [Replica -> Seen \cup {Nothing}]
      BY <2>6, GoToType DEF Send, Stage
    <3>3. /\ queue' \in [Replica -> Seq(Seen)]
          /\ \A q \in Replica : Len(queue'[q]) <= QueueSize
      BY <2>6, <3>1, EnqueuedType DEF Send, TypeOK
    <3>4. HasJob'
      BY <2>6, GoToHasJob DEF Send
    <3>5. UNCHANGED <<server, hpa, owner, seen, pending, scraper, windows, bounds>>
      BY <2>6 DEF Send
    <3> QED BY <3>2, <3>3, <3>4, <3>5 DEF TypeOK, server, scraper, bounds
  <2>7. ASSUME NEW r \in Replica, Clear(r) PROVE TypeOK' /\ HasJob'
    <3>1. pc' \in [Replica -> Stage] /\ job' \in [Replica -> Seen \cup {Nothing}]
      BY <2>7, GoToType DEF Clear, Stage
    <3> QED BY <2>7, <3>1 DEF Clear, GoTo, TypeOK, HasJob, server, scraper, bounds
  <2>8. ASSUME NEW r \in Replica, HandleUpdate(r) PROVE TypeOK' /\ HasJob'
    <3>1. /\ queue' \in [Replica -> Seq(Seen)]
          /\ \A q \in Replica : Len(queue'[q]) <= QueueSize
      BY <2>8, TailType DEF HandleUpdate, TypeOK
    <3>2. active' \in [Replica -> 0 .. MaxVersion]
      <4>1. Head(queue[r]).version \in 0 .. MaxVersion
        BY <2>8, TailType, SyncAssumption DEF HandleUpdate, Seen, Version
      <4> QED BY <2>8, <2>zero, <4>1 DEF HandleUpdate, TypeOK
    <3> QED BY <2>8, <3>1, <3>2 DEF HandleUpdate, TypeOK, HasJob, server, control,
               bounds
  <2>9. ASSUME NEW r \in Replica, Tick(r) \/ Scrape(r) \/ Evict(r)
        PROVE  TypeOK' /\ HasJob'
    <3>1. work' \in [Replica -> 0 .. MaxVersion]
      <4>1. CASE Tick(r)
        BY <4>1 DEF Tick, TypeOK
      <4>2. CASE Scrape(r)
        BY <4>2, <2>zero DEF Scrape, TypeOK
      <4>3. CASE Evict(r)
        BY <4>3 DEF Evict, TypeOK, scraper
      <4> QED BY <2>9, <4>1, <4>2, <4>3
    <3>2. windows' \in [Replica -> BOOLEAN] /\ active' = active
      BY <2>9 DEF Tick, Scrape, Evict, TypeOK, scraper
    <3>3. UNCHANGED <<server, hpa, owner, control, queue, bounds>>
      BY <2>9 DEF Tick, Scrape, Evict
    <3>4. HasJob'
      BY <3>3 DEF HasJob, control
    <3> QED BY <3>1, <3>2, <3>3, <3>4 DEF TypeOK, server, control, bounds
  <2>10. ASSUME NEW r \in Replica, Crash(r) PROVE TypeOK' /\ HasJob'
    <3>1. pc' \in [Replica -> Stage] /\ job' \in [Replica -> Seen \cup {Nothing}]
      BY <2>10, GoToType DEF Crash, Stage
    <3>2. /\ queue' \in [Replica -> Seq(Seen)]
          /\ \A q \in Replica : Len(queue'[q]) <= QueueSize
      <4>1. queue' = [queue EXCEPT ![r] = << >>]
        BY <2>10 DEF Crash
      <4>2. << >> \in Seq(Seen) /\ Len(<< >>) <= QueueSize
        BY SyncAssumption
      <4>3. /\ queue \in [Replica -> Seq(Seen)]
            /\ \A q \in Replica : Len(queue[q]) <= QueueSize
        BY DEF TypeOK
      <4> QED BY <4>1, <4>2, <4>3
    <3>3. crashes' \in 0 .. MaxCrashes
      BY <2>10, SyncAssumption DEF Crash, TypeOK
    <3>4. /\ active' \in [Replica -> 0 .. MaxVersion]
          /\ work' \in [Replica -> 0 .. MaxVersion]
          /\ seen' \in [Replica -> 0 .. MaxVersion]
      <4>1. /\ active' = [active EXCEPT ![r] = 0] /\ work' = [work EXCEPT ![r] = 0]
            /\ seen' = [seen EXCEPT ![r] = 0]
        BY <2>10 DEF Crash
      <4>2. /\ active \in [Replica -> 0 .. MaxVersion] /\ work \in [Replica -> 0 .. MaxVersion]
            /\ seen \in [Replica -> 0 .. MaxVersion]
        BY DEF TypeOK
      <4> QED BY <2>zero, <4>1, <4>2
    <3>5. HasJob'
      BY <2>10, GoToHasJob DEF Crash
    <3>6. pending' \in [Replica -> BOOLEAN] /\ windows' \in [Replica -> BOOLEAN]
      BY <2>10 DEF Crash, TypeOK
    <3>7. UNCHANGED <<server, hpa, owner, faults, moves>>
      BY <2>10 DEF Crash
    <3> QED BY <3>1, <3>2, <3>3, <3>4, <3>5, <3>6, <3>7 DEF TypeOK, server
  <2>11. CASE UNCHANGED vars
    BY <2>11 DEF vars, TypeOK, HasJob, server, control, scraper, bounds
  <2> QED
    BY <2>1a, <2>1b, <2>1c, <2>2, <2>3, <2>4, <2>5, <2>6, <2>7, <2>8, <2>9, <2>10, <2>11 DEF Next, Reconcile
<1> QED BY <1>1, <1>2, PTL DEF Spec

-----------------------------------------------------------------------------
(* Order. *)

Typed == TypeOK /\ HasJob

\* The object, when it exists, has the last version given out, and nothing a
\* replica holds is ahead of that.  This is what makes InOrder inductive: a
\* fresh read cannot be behind anything.
Behind ==
    /\ object \in {0, version}
    /\ hpa <= version
    /\ \A r \in Replica :
          /\ active[r] <= version /\ job[r].version <= version
          /\ \A i \in DOMAIN queue[r] : queue[r][i].version <= version

\* Versions are numbers wherever they are held.
LEMMA Numbers ==
  ASSUME Typed
  PROVE  /\ version \in Nat /\ object \in Nat /\ hpa \in Nat /\ moves \in Nat
         /\ \A r \in Replica :
               /\ active[r] \in Nat /\ job[r].version \in Nat
               /\ queue[r] \in Seq(Seen)
               /\ \A i \in DOMAIN queue[r] :
                     /\ i \in Nat /\ 1 <= i /\ i <= Len(queue[r])
                     /\ queue[r][i].version \in Nat
<1>1. version \in Nat /\ object \in Nat /\ hpa \in Nat /\ moves \in Nat
  BY SyncAssumption DEF Typed, TypeOK
<1>2. ASSUME NEW r \in Replica PROVE active[r] \in Nat /\ queue[r] \in Seq(Seen)
  BY SyncAssumption DEF Typed, TypeOK
<1>3. ASSUME NEW r \in Replica PROVE job[r].version \in Nat
  <2>1. job[r] \in Seen \/ job[r] = Nothing
    BY DEF Typed, TypeOK
  <2>2. \A seen_ \in Seen : seen_.version \in Nat
    BY SyncAssumption DEF Seen, Version
  <2>3. Nothing.version = 0
    BY DEF Nothing
  <2> QED BY <2>1, <2>2, <2>3
<1>4. ASSUME NEW r \in Replica, NEW i \in DOMAIN queue[r]
      PROVE  i \in Nat /\ 1 <= i /\ i <= Len(queue[r]) /\ queue[r][i].version \in Nat
  <2>1. i \in Nat /\ 1 <= i /\ i <= Len(queue[r]) /\ queue[r][i] \in Seen
    BY <1>2
  <2> QED BY <2>1, SyncAssumption DEF Seen, Version
<1> QED BY <1>1, <1>2, <1>3, <1>4

\* What GoTo may do to the running reconcile.
LEMMA GoToKeeps ==
  ASSUME TypeOK, NEW r \in Replica, NEW s, GoTo(r, s), NEW q \in Replica, pc'[q] # "idle"
  PROVE  job'[q] = job[q] /\ (q # r => pc'[q] = pc[q])
  BY DEF GoTo, TypeOK

\* Only r's channel, registry and reconcile change, and stay in order.
OrderOf(r) ==
    /\ \A i \in DOMAIN queue[r] : active[r] <= queue[r][i].version
    /\ \A i, j \in DOMAIN queue[r] :
          i <= j => queue[r][i].version <= queue[r][j].version
    /\ pc[r] # "idle" =>
          /\ active[r] <= job[r].version
          /\ \A i \in DOMAIN queue[r] : queue[r][i].version <= job[r].version

\* The order of each replica apart.
LEMMA OrderEverywhere == InOrder <=> \A r \in Replica : OrderOf(r)
  BY DEF InOrder, OrderOf

\* A reconcile goes on, or starts with a fresh read.
LEMMA ReconcileOrder ==
  ASSUME Typed, Behind, InOrder, NEW r \in Replica,
         Observe(r) \/ Decide(r) \/ Apply(r) \/ Clear(r)
  PROVE  Behind' /\ InOrder'
<1>1. UNCHANGED <<server, queue, active>>
  BY DEF Observe, Decide, Apply, Clear, scraper, server
<1>2. \A q \in Replica :
        pc'[q] # "idle" => \/ job'[q] = job[q] /\ pc[q] # "idle"
                          \/ job'[q].version = version
  <2>1. CASE Observe(r)
    <3>1. \/ UNCHANGED <<pc, job>>
          \/ job' = [job EXCEPT ![r] = [version |-> object, deleting |-> marked]]
             /\ pc' = [pc EXCEPT ![r] = "observed"] /\ object # 0
      BY <2>1 DEF Observe, Exists
    <3>2. object # 0 => object = version
      BY DEF Behind
    <3> QED BY SMTT(30), <3>1, <3>2 DEF Typed, TypeOK
  <2>2. CASE Decide(r) \/ Apply(r) \/ Clear(r)
    BY <2>2, GoToKeeps DEF Decide, Apply, Clear, Typed
  <2> QED BY <2>1, <2>2
<1>3. \A q \in Replica : job'[q].version <= version
  <2>1. CASE Observe(r)
    <3>1. job' = job \/ job' = [job EXCEPT ![r] = [version |-> object, deleting |-> marked]]
      BY <2>1 DEF Observe
    <3>2. \A q \in Replica :
            job'[q] = job[q] \/ job'[q] = [version |-> object, deleting |-> marked]
      BY <3>1 DEF Typed, TypeOK
    <3>3. [version |-> object, deleting |-> marked].version <= version
      BY Numbers DEF Behind
    <3> QED BY <3>2, <3>3 DEF Behind
  <2>2. CASE Decide(r) \/ Apply(r) \/ Clear(r)
    <3>1. job' = job \/ job' = [job EXCEPT ![r] = Nothing]
      BY <2>2 DEF Decide, Apply, Clear, GoTo
    <3>2. Nothing.version <= version
      BY Numbers DEF Nothing
    <3> QED BY <3>1, <3>2 DEF Behind, Typed, TypeOK
  <2> QED BY <2>1, <2>2
<1>4. hpa' <= version
  BY DEF Observe, Decide, Apply, Clear, Behind
<1>5. Behind'
  BY <1>1, <1>3, <1>4 DEF Behind, server
<1>6. ASSUME NEW q \in Replica PROVE OrderOf(q)'
  BY <1>1, <1>2, OrderEverywhere DEF OrderOf, Behind, Typed, TypeOK, server
<1> QED BY <1>5, <1>6, OrderEverywhere DEF InOrder, OrderOf

\* A sent version is not older than those before it in the channel.
LEMMA SendOrder ==
  ASSUME Typed, Behind, InOrder, NEW r \in Replica, Send(r)
  PROVE  Behind' /\ InOrder'
<1>1. job[r] \in Seen /\ queue[r] \in Seq(Seen) /\ pc[r] # "idle"
  BY DEF Send, Typed, TypeOK, HasJob
<1>2. queue' = [queue EXCEPT ![r] = Append(queue[r], job[r])]
  BY DEF Send, Enqueued
<1>3. UNCHANGED <<server, hpa, active>>
  BY DEF Send, scraper
<1>4. \A i \in DOMAIN queue'[r] :
        IF i \in DOMAIN queue[r] THEN queue'[r][i] = queue[r][i]
        ELSE i = Len(queue[r]) + 1 /\ queue'[r][i] = job[r]
  BY <1>1, <1>2 DEF Typed, TypeOK
<1>5. \A q \in Replica \ {r} : queue'[q] = queue[q]
  BY <1>2 DEF Typed, TypeOK
<1>6. \A q \in Replica : job'[q].version <= version
  BY DEF Send, GoTo, Behind, Typed, TypeOK, Nothing
<1>7. Behind'
  BY <1>1, <1>3, <1>4, <1>5, <1>6 DEF Behind, server
<1>8. ASSUME NEW q \in Replica, pc'[q] # "idle" PROVE job'[q] = job[q] /\ pc[q] # "idle"
  BY <1>1, <1>8, GoToKeeps DEF Send, Typed
<1>9. OrderOf(r)'
  <2>1. OrderOf(r)
    BY OrderEverywhere
  <2>2. active[r] \in Nat /\ job[r].version \in Nat
        /\ \A i \in DOMAIN queue[r] : i \in Nat /\ i < Len(queue[r]) + 1
                                        /\ queue[r][i].version \in Nat
    BY Numbers
  <2> QED BY SMTT(30), <1>1, <1>3, <1>4, <1>8, <2>1, <2>2 DEF OrderOf
<1>10. ASSUME NEW q \in Replica, q # r PROVE OrderOf(q)'
  BY <1>3, <1>5, <1>8, <1>10, OrderEverywhere DEF OrderOf
<1> QED BY <1>7, <1>9, <1>10, OrderEverywhere DEF InOrder, OrderOf

\* The scraper takes the oldest version of its channel.
LEMMA HandleOrder ==
  ASSUME Typed, Behind, InOrder, NEW r \in Replica, HandleUpdate(r)
  PROVE  Behind' /\ InOrder'
<1>1. queue[r] \in Seq(Seen) /\ queue[r] # << >>
  BY DEF HandleUpdate, Typed, TypeOK
<1>2. queue' = [queue EXCEPT ![r] = Tail(queue[r])]
  BY DEF HandleUpdate
<1>3. UNCHANGED <<server, hpa, pc, job>>
  BY DEF HandleUpdate, control
<1>4. \A q \in Replica \ {r} : queue'[q] = queue[q] /\ active'[q] = active[q]
  BY <1>2 DEF HandleUpdate, Typed, TypeOK
<1>5. \A i \in DOMAIN queue'[r] :
        i \in Nat /\ i + 1 \in DOMAIN queue[r] /\ queue'[r][i] = queue[r][i + 1]
  <2>1. queue'[r] = Tail(queue[r])
    BY <1>2 DEF Typed, TypeOK
  <2> QED BY <1>1, <2>1
<1>6. 1 \in DOMAIN queue[r] /\ (active'[r] = 0 \/ active'[r] = queue[r][1].version)
  BY <1>1 DEF HandleUpdate, Typed, TypeOK
<1>7. \A i \in DOMAIN queue[r] : i \in Nat /\ 1 <= i /\ queue[r][i].version \in Nat
  BY Numbers
<1>8. Behind'
  <2>1. \A q \in Replica : active'[q] <= version
    BY <1>4, <1>6, Numbers DEF Behind
  <2>2. \A q \in Replica : \A i \in DOMAIN queue'[q] : queue'[q][i].version <= version
    BY <1>4, <1>5 DEF Behind
  <2> QED BY <1>3, <2>1, <2>2 DEF Behind, server
<1>9. OrderOf(r)'
  <2>1. OrderOf(r) /\ (pc[r] # "idle" => job[r].version \in Nat)
    BY OrderEverywhere DEF Typed, HasJob, Seen, Version
  <2> QED BY <1>3, <1>5, <1>6, <1>7, <2>1 DEF OrderOf
<1>10. ASSUME NEW q \in Replica, q # r PROVE OrderOf(q)'
  BY <1>3, <1>4, <1>10, OrderEverywhere DEF OrderOf
<1> QED BY <1>8, <1>9, <1>10, OrderEverywhere DEF InOrder, OrderOf

\* A crash empties the channel and the registry of the replica.
LEMMA CrashOrder ==
  ASSUME Typed, Behind, InOrder, NEW r \in Replica, Crash(r)
  PROVE  Behind' /\ InOrder'
<1>1. queue'[r] = << >> /\ active'[r] = 0 /\ pc'[r] = "idle" /\ job'[r] = Nothing
  BY DEF Crash, GoTo, Typed, TypeOK
<1>2. \A q \in Replica \ {r} : /\ queue'[q] = queue[q] /\ active'[q] = active[q]
                               /\ pc'[q] = pc[q] /\ job'[q] = job[q]
  BY DEF Crash, GoTo, Typed, TypeOK
<1>3. UNCHANGED <<server, hpa>>
  BY DEF Crash
<1>4. Behind'
  <2>1. Nothing.version <= version /\ 0 <= version
    BY Numbers DEF Nothing
  <2> QED BY <1>1, <1>2, <1>3, <2>1 DEF Behind, server
<1> QED BY <1>1, <1>2, <1>4 DEF InOrder

\* Every step keeps the order, and nothing newer than the object.
LEMMA OrderStep == Typed /\ Behind /\ InOrder /\ [Next]_vars => Behind' /\ InOrder'
<1> SUFFICES ASSUME Typed, Behind, InOrder, [Next]_vars PROVE Behind' /\ InOrder'
  OBVIOUS
<1>1. CASE Create \/ Edit \/ Mark
  <2>1. version' = version + 1 /\ object' = version'
        /\ UNCHANGED <<hpa, active, pc, job, queue>>
    BY <1>1 DEF Create, Edit, Mark, Write, Replicas, control, scraper
  <2>2. /\ version \in Nat /\ hpa \in Nat
        /\ \A r \in Replica : active[r] \in Nat /\ job[r].version \in Nat
        /\ \A r \in Replica : \A i \in DOMAIN queue[r] : queue[r][i].version \in Nat
    BY Numbers
  <2>3. Behind'
    BY <2>1, <2>2 DEF Behind
  <2> QED BY <2>1, <2>3 DEF InOrder
<1>2. CASE Remove \/ Collect \/ Move
  <2>1. /\ UNCHANGED <<version, active, pc, job, queue>>
        /\ object' \in {0, object} /\ hpa' \in {0, hpa}
    BY <1>2 DEF Remove, Collect, Move, Replicas, control, scraper, server
  <2>2. version \in Nat
    BY DEF Typed, TypeOK
  <2> QED BY <2>1, <2>2 DEF Behind, InOrder
<1>3. ASSUME NEW r \in Replica, Trigger(r) \/ Tick(r) \/ Scrape(r) \/ Evict(r)
      PROVE  Behind' /\ InOrder'
  BY <1>3 DEF Trigger, Tick, Scrape, Evict, server, control, scraper, Behind, InOrder
<1>4. CASE UNCHANGED vars
  BY <1>4 DEF vars, server, control, scraper, Behind, InOrder
<1> QED
  BY <1>1, <1>2, <1>3, <1>4, ReconcileOrder, SendOrder, HandleOrder, CrashOrder
     DEF Next, Reconcile

\* Versions reach the registry of every replica in order: reconcile reads the
\* object afresh, one reconcile runs at a time, and the channel is a queue.
THEOREM VersionsInOrder == Spec => []InOrder
<1>1. Init => Behind /\ InOrder
  BY DEF Init, Behind, InOrder, Nothing
<1> QED BY <1>1, TypeCorrect, OrderStep, PTL DEF Spec, Typed

-----------------------------------------------------------------------------
(* The HPA of an EPA whose owner has not changed. *)

\* One replica owns the EPA, only it applies the HPA, and what it is about to
\* apply is not older than what was applied before.
OneApplies ==
    moves = 0 =>
        /\ \E o \in Replica : OnlyOwner(o)
        /\ \A r \in Replica :
              /\ pc[r] = "applying" => owner[r]
              /\ owner[r] /\ pc[r] \in {"observed", "applying"} => hpa <= job[r].version

\* While ownership does not move, only the owner ever gets to apply.
LEMMA OneAppliesStep ==
  Typed /\ Behind /\ OneApplies /\ [Next]_vars => OneApplies'
<1> SUFFICES ASSUME Typed, Behind, OneApplies, [Next]_vars, moves' = 0
             PROVE  /\ \E o \in Replica : OnlyOwner(o)'
                    /\ \A r \in Replica :
                          /\ pc'[r] = "applying" => owner'[r]
                          /\ owner'[r] /\ pc'[r] \in {"observed", "applying"}
                                => hpa' <= job'[r].version
  BY DEF OneApplies
<1>1. moves = 0 /\ owner' = owner
  BY Numbers DEF Next, Create, Edit, Mark, Write, Remove, Collect, Move, Trigger, Reconcile,
     Observe, Fault, Decide, Apply, Send, Clear, HandleUpdate, Tick, Scrape, Evict, Crash,
     Replicas, bounds, vars
<1>2. \E o \in Replica : OnlyOwner(o)'
  BY <1>1 DEF OneApplies, OnlyOwner
<1>3. CASE Create \/ Edit \/ Mark \/ Remove \/ UNCHANGED vars
  BY <1>1, <1>2, <1>3 DEF Create, Edit, Mark, Write, Remove, Replicas, control, vars, OneApplies
<1>4. CASE Collect
  BY <1>1, <1>2, <1>4, Numbers DEF Collect, Replicas, control, OneApplies
<1>5. ASSUME NEW r \in Replica,
             Trigger(r) \/ HandleUpdate(r) \/ Tick(r) \/ Scrape(r) \/ Evict(r)
      PROVE  UNCHANGED <<hpa, pc, job>>
  BY <1>5 DEF Trigger, HandleUpdate, Tick, Scrape, Evict, control
<1>6. ASSUME NEW r \in Replica, Decide(r) \/ Send(r) \/ Clear(r) \/ Crash(r), NEW q \in Replica
      PROVE  /\ pc'[q] = "applying" => owner'[q]
             /\ owner'[q] /\ pc'[q] \in {"observed", "applying"} => hpa' <= job'[q].version
  <2>1. hpa' = hpa
    BY <1>6 DEF Decide, Send, Clear, Crash
  <2>2. pc'[q] # "idle" => job'[q] = job[q] /\ (q # r => pc'[q] = pc[q])
    BY <1>6, GoToKeeps DEF Decide, Send, Clear, Crash, Typed
  <2>3. pc'[r] \in {"observed", "applying"} => Decide(r)
    BY <1>6 DEF Send, Clear, Crash, GoTo, Typed, TypeOK
  <2>4. Decide(r) => pc[r] = "observed" /\ (pc'[r] = "applying" => owner[r])
                     /\ pc'[r] # "observed"
    BY DEF Decide, GoTo, StageOf, Typed, TypeOK
  <2> QED BY <1>1, <2>1, <2>2, <2>3, <2>4 DEF OneApplies
<1>7. ASSUME NEW r \in Replica, Observe(r), NEW q \in Replica
      PROVE  /\ pc'[q] = "applying" => owner'[q]
             /\ owner'[q] /\ pc'[q] \in {"observed", "applying"} => hpa' <= job'[q].version
  <2>1. hpa' = hpa
    BY <1>7 DEF Observe
  <2>2. \/ pc'[q] = pc[q] /\ job'[q] = job[q]
        \/ pc'[q] = "observed" /\ job'[q].version = object /\ object # 0
    BY <1>7 DEF Observe, Exists, Typed, TypeOK
  <2> QED BY <1>1, <2>1, <2>2 DEF OneApplies, Behind
<1>8. ASSUME NEW r \in Replica, Apply(r), NEW q \in Replica
      PROVE  /\ pc'[q] = "applying" => owner'[q]
             /\ owner'[q] /\ pc'[q] \in {"observed", "applying"} => hpa' <= job'[q].version
  <2>1. OnlyOwner(r) /\ pc[r] = "applying"
    BY <1>1, <1>8 DEF Apply, OneApplies, OnlyOwner
  <2>2. pc'[r] \in {"sending", "idle"} /\ (q # r => pc'[q] = pc[q])
    BY <1>8 DEF Apply, GoTo, Typed, TypeOK
  <2> QED BY <1>1, <2>1, <2>2 DEF OneApplies, OnlyOwner
<1>9. CASE Move
  BY <1>1, <1>9, Numbers DEF Move
<1> QED
  BY <1>1, <1>2, <1>3, <1>4, <1>5, <1>6, <1>7, <1>8, <1>9 DEF Next, Reconcile, OneApplies

\* While ownership has not moved, the HPA only ever follows the EPA forward.
THEOREM HpaGoesForward == Spec => HpaNeverOlder
<1>1. Init => Behind /\ InOrder /\ OneApplies
  BY DEF Init, Behind, InOrder, Nothing, OneApplies
<1>2. Typed /\ Behind /\ OneApplies /\ [Next]_vars
        => [moves = 0 /\ hpa' # 0 => hpa <= hpa']_vars
  <2> SUFFICES ASSUME Typed, Behind, OneApplies, Next, moves = 0, hpa' # 0
               PROVE  hpa <= hpa'
    BY DEF vars
  <2>1. ASSUME NEW r \in Replica, Apply(r) PROVE hpa <= hpa'
    <3>1. hpa <= job[r].version
      BY <2>1 DEF Apply, OneApplies
    <3> QED BY <2>1, <3>1, Numbers DEF Apply
  <2>2. (\A r \in Replica : ~Apply(r)) => hpa' = hpa
    BY DEF Next, Create, Edit, Mark, Write, Remove, Collect, Move, Trigger, Reconcile, Observe,
       Decide, Send, Clear, HandleUpdate, Tick, Scrape, Evict, Crash
  <2> QED BY <2>1, <2>2, Numbers
<1> QED
  BY <1>1, <1>2, TypeCorrect, OrderStep, OneAppliesStep, PTL DEF Spec, Typed, HpaNeverOlder

-----------------------------------------------------------------------------
(* Nothing is missed. *)

\* Versions seen and born are not ahead of the last given out.
Given == born <= version /\ \A r \in Replica : seen[r] <= version

Current == [version |-> object, deleting |-> marked]

\* The registry of r agrees with the EPA as it is, once the channel is empty.
Registered(r) ==
    IF queue[r] = << >> THEN active[r] = IF marked THEN 0 ELSE object
    ELSE queue[r][Len(queue[r])] = Current

\* Once the latest version is seen and no reconcile is due, one that runs works on
\* that version, and what is not done yet is still ahead of it.
Underway(r) ==
    object # 0 /\ seen[r] = object /\ ~pending[r] =>
        /\ pc[r] # "idle" => job[r] = Current
        /\ ~marked \/ (moves = 0 /\ owner[r]) =>
              pc[r] \in {"observed", "applying", "sending", "deleting"} \/ Registered(r)
        /\ ~marked /\ moves = 0 /\ owner[r] =>
              pc[r] \in {"observed", "applying"} \/ hpa = object

AllUnderway == \A r \in Replica : Underway(r)

UnderwayInv == Typed /\ Behind /\ OneApplies /\ Given /\ AllUnderway

\* Every step gives out versions before they are seen.
LEMMA GivenStep == Typed /\ Behind /\ Given /\ [Next]_vars => Given'
<1> SUFFICES ASSUME Typed, Behind, Given, [Next]_vars PROVE Given'
  OBVIOUS
<1>1. version \in Nat /\ born \in Nat /\ \A r \in Replica : seen[r] \in Nat
  BY SyncAssumption DEF Typed, TypeOK
<1>2. CASE Create \/ Edit \/ Mark
  BY <1>1, <1>2 DEF Create, Edit, Mark, Write, Replicas, control, Given
<1>3. CASE Remove \/ Collect \/ Move \/ UNCHANGED vars
  BY <1>3 DEF Remove, Collect, Move, Replicas, control, server, vars, Given
<1>4. ASSUME NEW r \in Replica, Trigger(r) \/ Crash(r) PROVE Given'
  <2>1. version' = version /\ born' = born
        /\ \A q \in Replica : seen'[q] \in {seen[q], object, 0}
    BY <1>4 DEF Trigger, Crash, server, Typed, TypeOK
  <2> QED BY <1>1, <2>1 DEF Given, Behind
<1>5. ASSUME NEW r \in Replica,
             Reconcile(r) \/ HandleUpdate(r) \/ Tick(r) \/ Scrape(r) \/ Evict(r)
      PROVE  Given'
  BY <1>5 DEF Reconcile, Observe, Decide, Apply, Send, Clear, HandleUpdate, Tick, Scrape,
     Evict, server, control, Given
<1> QED BY <1>2, <1>3, <1>4, <1>5 DEF Next

\* What r knows of the EPA, and has yet to do.
Known(r) == <<object, marked, seen[r], pending[r], pc[r], job[r], queue[r], active[r]>>

\* A step that leaves that as it is, does not make r the owner, and keeps the HPA if
\* r's is the latest version.
LEMMA UnderwayStays ==
  ASSUME NEW r \in Replica, Underway(r), UNCHANGED Known(r),
         moves' = 0 /\ owner'[r] =>
            moves = 0 /\ owner[r] /\ (object # 0 /\ hpa = object => hpa' = hpa)
  PROVE  Underway(r)'
<1>1. /\ object' = object /\ marked' = marked /\ seen'[r] = seen[r] /\ pending'[r] = pending[r]
      /\ pc'[r] = pc[r] /\ job'[r] = job[r] /\ queue'[r] = queue[r] /\ active'[r] = active[r]
  BY DEF Known
<1>2. Registered(r)' = Registered(r) /\ Current' = Current
  BY <1>1 DEF Registered, Current
<1> QED BY <1>1, <1>2 DEF Underway

\* What happens to one replica is nothing to the others.
LEMMA OthersKnow ==
  ASSUME Typed, NEW r \in Replica, NEW q \in Replica \ {r},
         \/ Trigger(r) \/ Reconcile(r) \/ HandleUpdate(r)
         \/ Tick(r) \/ Scrape(r) \/ Evict(r) \/ Crash(r)
  PROVE  UNCHANGED Known(q) /\ UNCHANGED <<object, marked, owner, moves>>
<1>1. CASE Trigger(r)
  BY <1>1 DEF Trigger, Known, Typed, TypeOK, server, bounds, scraper
<1>2. CASE Observe(r)
  BY <1>2 DEF Observe, Fault, Known, Typed, TypeOK, server, bounds, scraper
<1>3. CASE Decide(r)
  BY <1>3 DEF Decide, GoTo, Known, Typed, TypeOK, server, bounds, scraper
<1>4. CASE Apply(r)
  BY <1>4 DEF Apply, GoTo, Requeue, Fault, Known, Typed, TypeOK, server, bounds, scraper
<1>5. CASE Send(r)
  BY <1>5 DEF Send, GoTo, Known, Typed, TypeOK, server, bounds, scraper
<1>6. CASE Clear(r)
  BY <1>6 DEF Clear, GoTo, Known, Typed, TypeOK, server, bounds, scraper
<1>7. CASE HandleUpdate(r)
  BY <1>7 DEF HandleUpdate, Known, Typed, TypeOK, server, bounds, control
<1>8. CASE Tick(r) \/ Scrape(r) \/ Evict(r)
  BY <1>8 DEF Tick, Scrape, Evict, Known, server, bounds, control, scraper
<1>9. CASE Crash(r)
  BY <1>9 DEF Crash, GoTo, Known, Typed, TypeOK, server
<1> QED BY <1>1, <1>2, <1>3, <1>4, <1>5, <1>6, <1>7, <1>8, <1>9 DEF Reconcile

\* A reconcile reads the latest version, decides by it, and tells the scraper.
LEMMA ReconcileUnderway ==
  ASSUME UnderwayInv, NEW r \in Replica, Reconcile(r)
  PROVE  Underway(r)'
<1> SUFFICES ASSUME object' # 0, seen'[r] = object', ~pending'[r]
             PROVE  /\ pc'[r] # "idle" => job'[r] = Current'
                    /\ ~marked' \/ (moves' = 0 /\ owner'[r]) =>
                          \/ pc'[r] \in {"observed", "applying", "sending", "deleting"}
                          \/ Registered(r)'
                    /\ ~marked' /\ moves' = 0 /\ owner'[r] =>
                          pc'[r] \in {"observed", "applying"} \/ hpa' = object'
  BY DEF Underway
<1> USE DEF UnderwayInv, AllUnderway
<1>1. UNCHANGED <<object, marked, owner, seen>> /\ Current' = Current
  BY DEF Reconcile, Observe, Decide, Apply, Send, Clear, server, Current
<1>2. CASE Observe(r)
  <2>1. pending[r] /\ pc'[r] = "observed" /\ job'[r] = Current
    BY <1>1, <1>2 DEF Observe, Exists, Typed, TypeOK, Current
  <2> QED BY <1>1, <2>1
<1>3. CASE Decide(r) \/ Apply(r) \/ Send(r) \/ Clear(r)
  <2>1. ~pending[r] /\ pc[r] # "idle"
    BY <1>3 DEF Decide, Apply, Send, Clear, Requeue, Typed, TypeOK
  <2>2. /\ job[r] = Current
        /\ ~marked \/ (moves = 0 /\ owner[r]) =>
              pc[r] \in {"observed", "applying", "sending", "deleting"} \/ Registered(r)
        /\ ~marked /\ moves = 0 /\ owner[r] =>
              pc[r] \in {"observed", "applying"} \/ hpa = object
    BY <1>1, <2>1 DEF Underway
  <2>3. moves' = moves
    BY <1>3 DEF Decide, Apply, Send, Clear, Fault, bounds
  <2>4. pc'[r] # "idle" => job'[r] = Current'
    BY <1>1, <1>3, <2>2 DEF Decide, Apply, Send, Clear, GoTo, Typed, TypeOK
  <2>5. CASE Decide(r)
    <3>1. pc'[r] = StageOf(r, owner[r]) /\ hpa' = hpa
      BY <2>5 DEF Decide, GoTo, Typed, TypeOK
    <3>2. job[r].deleting = marked
      BY <2>2 DEF Current
    <3> QED BY <1>1, <2>2, <2>3, <2>4, <3>1, <3>2 DEF StageOf
  <2>6. CASE Apply(r)
    <3>1. pc'[r] = "sending" /\ hpa' = job[r].version
      BY <2>6 DEF Apply, GoTo, Requeue, Typed, TypeOK
    <3>2. job[r].version = object
      BY <2>2 DEF Current
    <3> QED BY <1>1, <2>4, <3>1, <3>2
  <2>7. CASE Send(r)
    <3>1. queue'[r] = Append(queue[r], job[r]) /\ queue[r] \in Seq(Seen) /\ job[r] \in Seen
      BY <2>7 DEF Send, Enqueued, Typed, TypeOK, HasJob
    <3>2. queue'[r] # << >> /\ queue'[r][Len(queue'[r])] = job[r]
      BY <3>1
    <3>3. Registered(r)'
      BY <1>1, <2>2, <3>2 DEF Registered
    <3>4. pc[r] \in {"sending", "deleting"} /\ hpa' = hpa
      BY <2>7 DEF Send
    <3> QED BY <1>1, <2>2, <2>3, <2>4, <3>3, <3>4
  <2>8. CASE Clear(r)
    <3>1. pc[r] = "clearing" /\ hpa' = hpa /\ UNCHANGED <<queue, active>>
      BY <2>8 DEF Clear, scraper
    <3>2. Registered(r)' = Registered(r)
      BY <1>1, <3>1 DEF Registered
    <3> QED BY <1>1, <2>2, <2>3, <2>4, <3>1, <3>2
  <2> QED BY <1>3, <2>5, <2>6, <2>7, <2>8
<1> QED BY <1>2, <1>3 DEF Reconcile

\* The last update of a channel stays the last, until it is taken.
LEMMA LastStays ==
  ASSUME NEW S, NEW s \in Seq(S), s # << >>
  PROVE  IF Len(s) = 1 THEN Tail(s) = << >> /\ Head(s) = s[Len(s)]
         ELSE Tail(s) # << >> /\ Tail(s)[Len(Tail(s))] = s[Len(s)]
<1>1. /\ Len(s) \in Nat \ {0} /\ Tail(s) \in Seq(S) /\ Len(Tail(s)) = Len(s) - 1
      /\ \A i \in 1 .. Len(Tail(s)) : Tail(s)[i] = s[i + 1]
  BY HeadTailProperties, EmptySeq
<1>2. CASE Len(s) = 1
  <2>1. Len(Tail(s)) = 0 /\ Head(s) = s[1]
    BY <1>1, <1>2
  <2>2. Tail(s) = << >>
    BY <1>1, <2>1, EmptySeq
  <2> QED BY <1>2, <2>1, <2>2
<1>3. CASE Len(s) # 1
  <2>1. Len(s) - 1 \in 1 .. Len(Tail(s)) /\ (Len(s) - 1) + 1 = Len(s)
    BY <1>1, <1>3
  <2>2. Tail(s)[Len(s) - 1] = s[Len(s)]
    BY <1>1, <2>1
  <2>3. Len(Tail(s)) # 0
    BY <1>1, <1>3
  <2>4. Tail(s) # << >>
    BY <2>3, EmptySeq
  <2> QED BY <1>1, <1>3, <2>2, <2>4
<1> QED BY <1>2, <1>3

\* Taking an update from the channel does not change what the last one leads to.
LEMMA HandleUnderway ==
  ASSUME UnderwayInv, NEW r \in Replica, HandleUpdate(r)
  PROVE  Underway(r)'
<1>1. UNCHANGED <<object, marked, owner, moves, hpa, seen, pending, pc, job>>
  BY DEF HandleUpdate, server, control, bounds
<1>2. queue[r] \in Seq(Seen) /\ queue[r] # << >> /\ queue'[r] = Tail(queue[r])
      /\ active'[r] = IF Head(queue[r]).deleting THEN 0 ELSE Head(queue[r]).version
  BY DEF UnderwayInv, HandleUpdate, Typed, TypeOK
<1>3. ASSUME Registered(r) PROVE Registered(r)'
  <2>1. queue[r][Len(queue[r])] = Current
    BY <1>2, <1>3 DEF Registered
  <2>2. CASE Len(queue[r]) = 1
    <3>1. queue'[r] = << >> /\ Head(queue[r]) = Current
      BY <1>2, <2>1, <2>2, LastStays
    <3>2. active'[r] = IF marked THEN 0 ELSE object
      BY <1>2, <3>1 DEF Current
    <3> QED BY <1>1, <3>1, <3>2 DEF Registered
  <2>3. CASE Len(queue[r]) # 1
    <3>1. queue'[r] # << >> /\ queue'[r][Len(queue'[r])] = queue[r][Len(queue[r])]
      BY <1>2, <2>3, LastStays
    <3> QED BY <1>1, <2>1, <3>1 DEF Registered, Current
  <2> QED BY <2>2, <2>3
<1>4. Current' = Current
  BY <1>1 DEF Current
<1> QED BY <1>1, <1>3, <1>4 DEF UnderwayInv, AllUnderway, Underway

\* Every step keeps what is underway.
LEMMA UnderwayStep == UnderwayInv /\ [Next]_vars => AllUnderway'
<1> SUFFICES ASSUME UnderwayInv, [Next]_vars, NEW q \in Replica PROVE Underway(q)'
  BY DEF AllUnderway
<1> USE DEF UnderwayInv, AllUnderway
<1>1. version \in Nat /\ born \in Nat /\ hpa \in Nat /\ seen[q] \in Nat
  BY SyncAssumption DEF Typed, TypeOK
<1>2. CASE Create \/ Edit \/ Mark
  <2>1. object' = version + 1 /\ seen' = seen
    BY <1>2 DEF Create, Edit, Mark, Write, Replicas, control
  <2> QED BY <1>1, <2>1 DEF Given, Underway
<1>3. CASE Remove
  BY <1>3 DEF Remove, Underway
<1>4. CASE Collect
  <2>1. UNCHANGED Known(q) /\ UNCHANGED <<owner, moves>>
    BY <1>4 DEF Collect, Known, Replicas, server, control, scraper, bounds
  <2>2. object # 0 => hpa # object
    BY <1>1, <1>4 DEF Collect, Given, Behind
  <2> QED BY <2>1, <2>2, UnderwayStays
<1>5. CASE Move
  <2>1. UNCHANGED Known(q) /\ moves' # 0
    BY <1>5, Numbers DEF Move, Known, server, control, scraper
  <2> QED BY <2>1, UnderwayStays
<1>6. ASSUME NEW r \in Replica,
             \/ Trigger(r) \/ Reconcile(r) \/ HandleUpdate(r)
             \/ Tick(r) \/ Scrape(r) \/ Evict(r) \/ Crash(r)
      PROVE  Underway(q)'
  <2>1. CASE q # r
    <3>1. UNCHANGED Known(q) /\ UNCHANGED <<object, marked, owner, moves>>
      BY <1>6, <2>1, OthersKnow
    <3>2. moves = 0 /\ owner[q] => hpa' = hpa
      <4>1. moves = 0 /\ Apply(r) => ~owner[q]
        BY <2>1 DEF OneApplies, OnlyOwner, Apply
      <4>2. ~Apply(r) => hpa' = hpa
        BY <1>6 DEF Trigger, Reconcile, Observe, Decide, Send, Clear, HandleUpdate, Tick,
           Scrape, Evict, Crash
      <4> QED BY <4>1, <4>2
    <3> QED BY <3>1, <3>2, UnderwayStays
  <2>2. CASE q = r
    <3>1. CASE Trigger(r)
      BY <2>2, <3>1 DEF Trigger, Underway, Typed, TypeOK
    <3>2. CASE Tick(r) \/ Scrape(r) \/ Evict(r)
      <4>1. UNCHANGED Known(q) /\ UNCHANGED <<hpa, owner, moves>>
        BY <3>2 DEF Tick, Scrape, Evict, Known, server, bounds, control, scraper
      <4> QED BY <4>1, UnderwayStays
    <3>3. CASE Crash(r)
      BY <2>2, <3>3 DEF Crash, Underway, Typed, TypeOK, server
    <3> QED BY <1>6, <2>2, <3>1, <3>2, <3>3, ReconcileUnderway, HandleUnderway
  <2> QED BY <2>1, <2>2
<1>7. CASE UNCHANGED vars
  <2>1. UNCHANGED Known(q) /\ UNCHANGED <<hpa, owner, moves>>
    BY <1>7 DEF vars, Known, server, bounds, control, scraper
  <2> QED BY <2>1, UnderwayStays
<1> QED BY <1>2, <1>3, <1>4, <1>5, <1>6, <1>7 DEF Next

\* A replica with nothing left to do has missed nothing, whichever calls failed,
\* processes crashed and edits came meanwhile: a change is due until a fresh read has
\* met it, a failed call makes it due again, and the channel ends with what was read.
THEOREM MissesNothing == Spec => []NothingMissed
<1>1. Init => Behind /\ OneApplies /\ InOrder
  BY DEF Init, Behind, InOrder, Nothing, OneApplies
<1>2. UnderwayInv => NothingMissed
  <2> SUFFICES ASSUME UnderwayInv, NEW r \in Replica, AtRest(r)
               PROVE  /\ ~marked => active[r] = object
                      /\ moves = 0 /\ owner[r] =>
                            IF marked THEN active[r] = 0 ELSE hpa = object
    BY DEF NothingMissed
  <2> QED BY DEF UnderwayInv, AllUnderway, AtRest, Underway, Registered
<1>3. Init => Given /\ AllUnderway
  BY DEF Init, Given, AllUnderway, Underway
<1> QED
  BY <1>1, <1>2, <1>3, TypeCorrect, OrderStep, OneAppliesStep, GivenStep, UnderwayStep, PTL
     DEF Spec, Typed, UnderwayInv
=============================================================================
