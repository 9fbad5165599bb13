------------------------ MODULE LeaseMembershipProofs ------------------------
(***************************************************************************)
(* What LeaseMembership guarantees for every set of replicas and every     *)
(* choice of the timing constants and bounds.                              *)
(***************************************************************************)
EXTENDS LeaseMembership, FiniteSetTheorems, TLAPS

-----------------------------------------------------------------------------
(* Type correctness.                                                       *)

\* Ages grow up to the cap.
LEMMA OlderType == ASSUME NEW age \in Age PROVE Older(age) \in Age
  BY TimingAssumption DEF Age, Older

\* An older lease is a lease.
LEMMA AgedType ==
  ASSUME NEW l \in Lease \cup {NoLease} PROVE Aged(l) \in Lease \cup {NoLease}
  BY OlderType, NoLeaseAssumption DEF Aged, Lease

\* Requests stay requests when their caller leaves or they grow older.
LEMMA RequestType ==
  ASSUME NEW q \in Request
  PROVE  /\ [q EXCEPT !.by = "none"] \in Request
         /\ [q EXCEPT !.verb = "PATCH"] \in Request
         /\ [q EXCEPT !.age = Older(@)] \in Request
  BY OlderType DEF Request

\* A renewal is a request.
LEMMA RenewalType ==
  ASSUME NEW r \in Replica, NEW task \in {"main", "loop"}, NEW flag \in BOOLEAN
  PROVE  Renewal(r, task, flag) \in Request
  BY TimingAssumption DEF Renewal, Request, Age

\* Requests that are left alone, or sent, are requests.
LEMMA LeaveType ==
  ASSUME net \subseteq Request, NEW dropped \in SUBSET net, NEW sent \in SUBSET Request,
         LeaveAndSend(dropped, sent)
  PROVE  net' \subseteq Request
  BY RequestType DEF LeaveAndSend

\* A process that ends leaves nothing of itself but the lease.
LEMMA ExitType ==
  ASSUME TypeOK, NEW r \in Replica, Exit(r)
  PROVE  /\ phase' \in [Replica -> Phase]
         /\ active' \in [Replica -> SUBSET Replica]
         /\ draining' \in [Replica -> SUBSET Replica]
         /\ localDraining' \in [Replica -> BOOLEAN]
         /\ list' \in [Replica -> [Replica -> Lease \cup {NoLease}] \cup {NoList}]
         /\ event' \in [Replica -> BOOLEAN]
         /\ due' \in [Replica -> BOOLEAN]
         /\ left' \in [Replica -> 0 .. DrainDuration]
  BY TimingAssumption DEF TypeOK, Exit, Phase

\* An answer moves the main task to another phase.
LEMMA AnsweredType ==
  ASSUME TypeOK, NEW q \in net PROVE Answered(q) \in [Replica -> Phase]
  BY DEF TypeOK, Answered, Phase, Request

\* Every step keeps the types.
LEMMA TypeStep == TypeOK /\ [Next]_vars => TypeOK'
<1> SUFFICES ASSUME TypeOK, [Next]_vars PROVE TypeOK'
  OBVIOUS
<1>1. ASSUME NEW r \in Replica, Start(r) PROVE TypeOK'
  <2>1. Renewal(r, "main", localDraining[r]) \in Request
    BY RenewalType DEF TypeOK
  <2>2. net' \subseteq Request
    BY <1>1, <2>1 DEF Start, TypeOK
  <2>3. phase' \in [Replica -> Phase] /\ starts' \in 0 .. MaxStarts
    BY <1>1, BoundAssumption DEF Start, TypeOK, Phase
  <2> QED BY <1>1, <2>2, <2>3 DEF Start, TypeOK, sets, clocks
<1>2. ASSUME NEW r \in Replica, Sigterm(r) PROVE TypeOK'
  <2>1. Renewal(r, "main", TRUE) \in Request
    BY RenewalType
  <2>2. net' \subseteq Request
    BY <1>2, <2>1 DEF Sigterm, TypeOK
  <2>3. phase' \in [Replica -> Phase] /\ left' \in [Replica -> 0 .. DrainDuration]
    BY <1>2, TimingAssumption DEF Sigterm, TypeOK, Phase
  <2> QED BY <1>2, <2>2, <2>3 DEF Sigterm, TypeOK, bounds
<1>3. ASSUME NEW r \in Replica, AbortAndDelete(r) PROVE TypeOK'
  <2>1. net' \subseteq Request
    <3> DEFINE delete == [from |-> r, by |-> "main", verb |-> "DELETE",
                          draining |-> TRUE, age |-> 0]
    <3>1. delete \in Request
      BY TimingAssumption DEF Request, Age
    <3>2. CallsOf(r, {"loop"}) \in SUBSET net
      BY DEF CallsOf
    <3>3. LeaveAndSend(CallsOf(r, {"loop"}), {delete})
      BY <1>3 DEF AbortAndDelete
    <3> HIDE DEF delete
    <3> QED BY <3>1, <3>2, <3>3, LeaveType DEF TypeOK
  <2> QED BY <1>3, <2>1, TimingAssumption DEF AbortAndDelete, TypeOK, Phase, bounds
<1>4. ASSUME NEW r \in Replica, Crash(r) PROVE TypeOK'
  <2>1. net' \subseteq Request
    BY <1>4, LeaveType DEF Crash, Leave, CallsOf, TypeOK
  <2> QED BY <1>4, <2>1, ExitType, BoundAssumption DEF Crash, TypeOK
<1>5. ASSUME NEW r \in Replica, GarbageCollect(r) PROVE TypeOK'
  BY <1>5 DEF GarbageCollect, TypeOK, Phase, sets, clocks, bounds
<1>6. ASSUME NEW r \in Replica, RenewTick(r) PROVE TypeOK'
  <2>1. Renewal(r, "loop", localDraining[r]) \in Request
    BY RenewalType DEF TypeOK
  <2> QED BY <1>6, <2>1 DEF RenewTick, TypeOK, sets, bounds
<1>7. ASSUME NEW q \in net, Stored(q) PROVE TypeOK'
  <2>1. [draining |-> q.draining, age |-> q.age] \in Lease
    BY DEF TypeOK, Request, Lease
  <2> QED BY <1>7, <2>1, AnsweredType
          DEF Stored, Announce, Looping, TypeOK, sets, clocks, bounds
<1>8. ASSUME NEW q \in net, Conflict(q) PROVE TypeOK'
  BY <1>8, RequestType DEF Conflict, TypeOK, sets, clocks, bounds
<1>9. ASSUME NEW q \in net, Deleted(q) PROVE TypeOK'
  <2>1. q.from \in Replica
    BY DEF TypeOK, Request
  <2>2. CASE q.by = "main"
    BY <1>9, <2>1, <2>2, ExitType DEF Deleted, TypeOK, bounds
  <2>3. CASE q.by # "main"
    BY <1>9, <2>3 DEF Deleted, TypeOK, sets, clocks, bounds
  <2> QED BY <2>2, <2>3
<1>10. ASSUME NEW q \in net, CallFails(q) PROVE TypeOK'
  <2>1. net' \subseteq Request
    BY <1>10, LeaveType DEF CallFails, Leave, TypeOK
  <2>2. q.from \in Replica
    BY DEF TypeOK, Request
  <2>3. faults' \in 0 .. MaxFaults
    BY <1>10, BoundAssumption DEF CallFails, TypeOK
  <2>4. CASE q.by = "main" /\ phase[q.from] \in {"register", "delete"}
    BY <1>10, <2>1, <2>2, <2>3, <2>4, ExitType DEF CallFails, TypeOK
  <2>5. CASE ~(q.by = "main" /\ phase[q.from] \in {"register", "delete"})
    BY <1>10, <2>1, <2>3, <2>5, AnsweredType DEF CallFails, TypeOK, sets, clocks
  <2> QED BY <2>4, <2>5
<1>11. ASSUME NEW q \in net, LateLost(q) PROVE TypeOK'
  BY <1>11 DEF LateLost, TypeOK, sets, clocks, bounds
<1>12. ASSUME NEW r \in Replica, ListLeases(r) PROVE TypeOK'
  BY <1>12 DEF ListLeases, TypeOK, sets, clocks, bounds
<1>13. ASSUME NEW r \in Replica, WatchResync(r) PROVE TypeOK'
  <2>1. SomeLease \in BOOLEAN
    BY DEF SomeLease
  <2> QED BY <1>13, <2>1, BoundAssumption DEF WatchResync, TypeOK, sets, clocks
<1>14. ASSUME NEW r \in Replica, UpdateActiveReplicas(r) PROVE TypeOK'
  <2>1. /\ WithoutSelf(r, ActiveIn(list[r])) \subseteq Replica
        /\ WithSelf(r, DrainingIn(list[r])) \subseteq Replica
    BY DEF ActiveIn, DrainingIn, WithoutSelf, WithSelf
  <2>2. active' \in [Replica -> SUBSET Replica] /\ draining' \in [Replica -> SUBSET Replica]
    BY <1>14, <2>1 DEF UpdateActiveReplicas, TypeOK
  <2>4. list' \in [Replica -> [Replica -> Lease \cup {NoLease}] \cup {NoList}]
    BY <1>14 DEF UpdateActiveReplicas, TypeOK
  <2>3. /\ phase' \in [Replica -> Phase] /\ due' \in [Replica -> BOOLEAN]
        /\ timer' \in [Replica -> 1 .. RenewInterval] /\ event' \in [Replica -> BOOLEAN]
    <3>1. SomeLease \in BOOLEAN
      BY DEF SomeLease
    <3>2. CASE phase[r] = "discover"
      <4>1. /\ phase' = [phase EXCEPT ![r] = "run"] /\ due' = [due EXCEPT ![r] = TRUE]
            /\ timer' = [timer EXCEPT ![r] = RenewInterval]
            /\ event' = [event EXCEPT ![r] = SomeLease]
        BY <1>14, <3>2 DEF UpdateActiveReplicas
      <4>2. event' \in [Replica -> BOOLEAN]
        BY <3>1, <4>1 DEF TypeOK
      <4> QED BY <4>1, <4>2, TimingAssumption DEF TypeOK, Phase
    <3>3. CASE phase[r] # "discover"
      BY <1>14, <3>3 DEF UpdateActiveReplicas, TypeOK
    <3> QED BY <3>2, <3>3
  <2>5. UNCHANGED <<lease, net, localDraining, left, bounds>>
    BY <1>14 DEF UpdateActiveReplicas
  <2> QED BY <2>2, <2>3, <2>4, <2>5 DEF TypeOK, bounds
<1>15. ASSUME NEW r \in Replica, ListFails(r) PROVE TypeOK'
  <2>1. faults' \in 0 .. MaxFaults
    BY <1>15, BoundAssumption DEF ListFails, TypeOK
  <2>2. CASE phase[r] = "discover"
    BY <1>15, <2>1, <2>2, ExitType DEF ListFails, TypeOK
  <2>3. CASE phase[r] # "discover"
    BY <1>15, <2>1, <2>3 DEF ListFails, TypeOK, sets, clocks
  <2> QED BY <2>2, <2>3
<1>16. CASE Tick
  <2>1. lease' \in [Replica -> Lease \cup {NoLease}]
    BY <1>16, AgedType DEF Tick, TypeOK
  <2>2. net' \subseteq Request
    BY <1>16, RequestType DEF Tick, TypeOK
  <2>3. list' \in [Replica -> [Replica -> Lease \cup {NoLease}] \cup {NoList}]
    <3>1. ASSUME NEW r \in Replica, list[r] # NoList
          PROVE  [s \in Replica |-> Aged(list[r][s])] \in [Replica -> Lease \cup {NoLease}]
      BY <3>1, AgedType DEF TypeOK
    <3> QED BY <1>16, <3>1 DEF Tick, TypeOK
  <2>4. timer' \in [Replica -> 1 .. RenewInterval] /\ left' \in [Replica -> 0 .. DrainDuration]
    BY <1>16, TimingAssumption DEF Tick, TypeOK
  <2>5. due' \in [Replica -> BOOLEAN]
    BY <1>16 DEF Tick, TypeOK, Looping
  <2> QED BY <1>16, <2>1, <2>2, <2>3, <2>4, <2>5 DEF Tick, TypeOK, sets, bounds
<1>17. CASE UNCHANGED vars
  BY <1>17 DEF TypeOK, vars, sets, clocks, bounds
<1> QED BY <1>1, <1>2, <1>3, <1>4, <1>5, <1>6, <1>7, <1>8, <1>9, <1>10, <1>11,
           <1>12, <1>13, <1>14, <1>15, <1>16, <1>17
        DEF Next, Act, ReplicaStep, DrainOver, SecondSignal, Sigint, Serve, Created, Applied

\* Type correctness of the membership protocol: every variable keeps its type,
\* for any number of replicas and any durations.
THEOREM TypeCorrect == Spec => []TypeOK
<1>1. Init => TypeOK
  BY TimingAssumption, BoundAssumption DEF Init, TypeOK, Phase
<1> QED BY <1>1, TypeStep, PTL DEF Spec

-----------------------------------------------------------------------------
(* Shutdown.  NoReactivation rests on one fact about states, Lifecycle:    *)
(* while the main task shuts down, the flag that every new renewal reads   *)
(* is set.  Lifecycle needs to know in turn that an answer moves the main  *)
(* task only out of the phase in which it made the call.                   *)

\* What is in flight after callers have left.
LEMMA LeaveNet ==
  ASSUME net \subseteq Request, NEW dropped \in SUBSET net, NEW sent,
         LeaveAndSend(dropped, sent), NEW q \in net'
  PROVE  \/ q \in net \ dropped
         \/ q \in sent
         \/ /\ q.by = "none"
            /\ \E p \in net : /\ p.from = q.from /\ p.verb = q.verb
                             /\ p.draining = q.draining
  BY DEF LeaveAndSend, Request

\* A call that leaves the net does not come back with a caller.
LEMMA LeaveCalled ==
  ASSUME net \subseteq Request, NEW dropped \in SUBSET net, NEW sent \in SUBSET Request,
         LeaveAndSend(dropped, sent)
  PROVE  \A q \in net' : q.by # "none" => q \in net \ dropped \/ q \in sent
  BY DEF LeaveAndSend, Request

\* Every step keeps the main task in line with its calls and its flag.
LEMMA LifecycleStep == TypeOK /\ Lifecycle /\ [Next]_vars => Lifecycle'
<1> SUFFICES ASSUME TypeOK, Lifecycle, [Next]_vars PROVE Lifecycle'
  OBVIOUS
<1>0. /\ net \subseteq Request /\ phase \in [Replica -> Phase]
      /\ localDraining \in [Replica -> BOOLEAN]
  BY DEF TypeOK
<1>1. ASSUME NEW r \in Replica, Start(r) PROVE Lifecycle'
  BY <1>1 DEF Start, Renewal, Lifecycle, TypeOK, Request, sets
<1>2. ASSUME NEW r \in Replica, Sigterm(r) PROVE Lifecycle'
  <2>1. ASSUME NEW q \in net, q.by = "main" PROVE q.from # r
    BY <1>2, <2>1 DEF Sigterm, Lifecycle
  <2>2. net' = net \cup {Renewal(r, "main", TRUE)}
    BY <1>2 DEF Sigterm
  <2>3. /\ phase' = [phase EXCEPT ![r] = "mark"]
        /\ localDraining' = [localDraining EXCEPT ![r] = TRUE]
    BY <1>2 DEF Sigterm
  <2>4. \A q \in net' : q.by = "main" => q = Renewal(r, "main", TRUE) \/ q \in net
    BY <2>2
  <2>5. ASSUME NEW q \in net', q.by = "main" PROVE
          /\ phase'[q.from] \in {"register", "mark", "delete"}
          /\ q.verb = "DELETE" <=> phase'[q.from] = "delete"
          /\ \A p \in net' : p.by = "main" /\ p.from = q.from => p = q
    <3> DEFINE mark == Renewal(r, "main", TRUE)
    <3>1. mark.by = "main" /\ mark.from = r /\ mark.verb = "POST"
      BY DEF Renewal
    <3> HIDE DEF mark
    <3>2. \A p \in net' : p.by = "main" => p = mark \/ p \in net
      BY <2>4 DEF mark
    <3> QED BY <1>0, <2>1, <2>3, <2>5, <3>1, <3>2 DEF Lifecycle, Request
  <2> QED BY <1>0, <2>3, <2>5 DEF Lifecycle
<1>3. ASSUME NEW r \in Replica, phase[r] \in {"run", "drain"}, AbortAndDelete(r)
      PROVE  Lifecycle'
  <2> DEFINE delete == [from |-> r, by |-> "main", verb |-> "DELETE",
                        draining |-> TRUE, age |-> 0]
  <2>1. ASSUME NEW q \in net', q.by = "main"
        PROVE  q = delete \/ (q \in net /\ q.from # r)
    <3>1. CallsOf(r, {"loop"}) \in SUBSET net
      BY DEF CallsOf
    <3>2. q \in net \/ q = delete
      <4> DEFINE dropped == CallsOf(r, {"loop"})
                 sent    == {delete}
      <4>1. LeaveAndSend(dropped, sent)
        BY <1>3 DEF AbortAndDelete
      <4>2. dropped \in SUBSET net /\ sent \in SUBSET Request
        BY <3>1, TimingAssumption DEF Request, Age
      <4>3. q \in net \ dropped \/ q \in sent
        <5> HIDE DEF dropped, sent
        <5> QED BY <2>1, <4>1, <4>2, <1>0, LeaveCalled
      <4> QED BY <4>3
    <3>3. q \in net => q.from # r
      BY <1>3, <2>1 DEF Lifecycle
    <3> QED BY <3>2, <3>3
  <2>2. /\ phase' = [phase EXCEPT ![r] = "delete"]
        /\ localDraining' = [localDraining EXCEPT ![r] = TRUE]
    BY <1>3 DEF AbortAndDelete
  <2>3. ASSUME NEW q \in net', q.by = "main" PROVE
          /\ phase'[q.from] \in {"register", "mark", "delete"}
          /\ q.verb = "DELETE" <=> phase'[q.from] = "delete"
          /\ \A p \in net' : p.by = "main" /\ p.from = q.from => p = q
    <3> HIDE DEF delete
    <3>1. delete.by = "main" /\ delete.from = r /\ delete.verb = "DELETE"
      BY DEF delete
    <3> QED BY <1>0, <2>1, <2>2, <2>3, <3>1 DEF Lifecycle, Request
  <2> QED BY <1>0, <2>2, <2>3 DEF Lifecycle
<1>4. ASSUME NEW r \in Replica, Crash(r) PROVE Lifecycle'
  <2>1. ASSUME NEW q \in net', q.by = "main" PROVE q \in net /\ q.from # r
    <3>1. CallsOf(r, {"main", "loop"}) \in SUBSET net
      BY DEF CallsOf
    <3>2. q \in net \ CallsOf(r, {"main", "loop"})
      <4> DEFINE dropped == CallsOf(r, {"main", "loop"})
      <4>1. LeaveAndSend(dropped, {})
        BY <1>4 DEF Crash, Leave
      <4>2. dropped \in SUBSET net /\ {} \in SUBSET Request
        BY <3>1
      <4>3. q \in net \ dropped
        <5> HIDE DEF dropped
        <5> QED BY <2>1, <4>1, <4>2, <1>0, LeaveCalled
      <4> QED BY <4>3
    <3> QED BY <2>1, <3>2 DEF CallsOf
  <2> QED BY <1>4, <2>1 DEF Crash, Exit, Lifecycle, TypeOK, Request
<1>5. ASSUME NEW r \in Replica, GarbageCollect(r) PROVE Lifecycle'
  BY <1>5 DEF GarbageCollect, Up, Lifecycle, TypeOK, Request, sets
<1>6. ASSUME NEW r \in Replica, RenewTick(r) PROVE Lifecycle'
  BY <1>6 DEF RenewTick, Renewal, Lifecycle, TypeOK, Request, sets
<1>7. ASSUME NEW q \in net, q.verb # "DELETE", Stored(q) PROVE Lifecycle'
  BY <1>7 DEF Stored, Answered, Lifecycle, TypeOK, Request, sets
<1>8. ASSUME NEW q \in net, Conflict(q) PROVE Lifecycle'
  BY <1>8 DEF Conflict, Lifecycle, TypeOK, Request, sets
<1>9. ASSUME NEW q \in net, Deleted(q) PROVE Lifecycle'
  BY <1>9 DEF Deleted, Exit, Lifecycle, TypeOK, Request, sets
<1>10. ASSUME NEW q \in net, CallFails(q) PROVE Lifecycle'
  <2>1. ASSUME NEW p \in net', p.by = "main" PROVE p \in net /\ p # q
    <3>1. LeaveAndSend({q}, {})
      BY <1>10 DEF CallFails, Leave
    <3> QED BY <2>1, <3>1, <1>0, LeaveCalled
  <2>2. q.from \in Replica
    BY DEF TypeOK, Request
  <2>3. CASE q.by = "main" /\ phase[q.from] \in {"register", "delete"}
    BY <1>10, <2>1, <2>2, <2>3 DEF CallFails, Exit, Lifecycle, TypeOK, Request
  <2>4. CASE ~(q.by = "main" /\ phase[q.from] \in {"register", "delete"})
    BY <1>10, <2>1, <2>2, <2>4 DEF CallFails, Answered, Lifecycle, TypeOK, Request, sets
  <2> QED BY <2>3, <2>4
<1>11. ASSUME NEW q \in net, LateLost(q) PROVE Lifecycle'
  BY <1>11 DEF LateLost, Lifecycle, sets
<1>12. ASSUME NEW r \in Replica, ListLeases(r) PROVE Lifecycle'
  BY <1>12 DEF ListLeases, Lifecycle, sets
<1>13. ASSUME NEW r \in Replica, WatchResync(r) PROVE Lifecycle'
  BY <1>13 DEF WatchResync, Lifecycle, sets
<1>14. ASSUME NEW r \in Replica, UpdateActiveReplicas(r) PROVE Lifecycle'
  BY <1>14 DEF UpdateActiveReplicas, Lifecycle, TypeOK, Request
<1>15. ASSUME NEW r \in Replica, ListFails(r) PROVE Lifecycle'
  BY <1>15 DEF ListFails, Exit, Lifecycle, TypeOK, Request, sets
<1>16. CASE Tick
  BY SMTT(30), <1>16 DEF Tick, Lifecycle, TypeOK, Request, sets
<1>17. CASE UNCHANGED vars
  BY <1>17 DEF Lifecycle, vars, sets
<1> QED BY <1>1, <1>2, <1>3, <1>4, <1>5, <1>6, <1>7, <1>8, <1>9, <1>10, <1>11,
           <1>12, <1>13, <1>14, <1>15, <1>16, <1>17, SMTT(30)
        DEF Next, Act, ReplicaStep, DrainOver, SecondSignal, Sigint, Serve, Created, Applied

\* The main task's phase, its calls and the draining flag agree.
THEOREM LifecycleHolds == Spec => []Lifecycle
<1>1. Init => Lifecycle
  BY DEF Init, Lifecycle
<1> QED BY <1>1, LifecycleStep, TypeCorrect, PTL DEF Spec

-----------------------------------------------------------------------------
(* The two views.                                                          *)

\* Every step keeps active and draining apart.
LEMMA DisjointStep == Disjoint /\ TypeOK /\ [Next]_vars => Disjoint'
<1> SUFFICES ASSUME Disjoint, TypeOK, [Next]_vars PROVE Disjoint'
  OBVIOUS
<1>1. ASSUME NEW r \in Replica, UpdateActiveReplicas(r) PROVE Disjoint'
  <2>1. ActiveIn(list[r]) \cap DrainingIn(list[r]) = {}
    BY DEF ActiveIn, DrainingIn
  <2> QED BY <1>1, <2>1 DEF UpdateActiveReplicas, WithoutSelf, WithSelf, Disjoint, TypeOK
<1>2. ASSUME NEW r \in Replica, Exit(r) PROVE Disjoint'
  BY <1>2 DEF Exit, Disjoint, TypeOK
<1>3. CASE UNCHANGED <<active, draining>>
  BY <1>3 DEF Disjoint
<1>4. \/ \E r \in Replica : UpdateActiveReplicas(r) \/ Exit(r)
      \/ UNCHANGED <<active, draining>>
  <2>1. \A q \in net : q.from \in Replica
    BY DEF TypeOK, Request
  <2> QED BY <2>1, ZenonT(30) DEF Next, Act, ReplicaStep, Start, Sigterm, DrainOver, SecondSignal,
          Sigint, AbortAndDelete, Crash, GarbageCollect, RenewTick, ListLeases,
          WatchResync, ListFails, Serve, Created, Applied, Stored, Conflict,
          Deleted, CallFails, LateLost, Tick, vars, sets
<1> QED BY <1>1, <1>2, <1>3, <1>4

\* No reader of the two sets ever finds a replica in both: get_all_replicas'
\* debug_assert never fires, whatever lists arrive late.
THEOREM ViewsDisjoint == Spec => []Disjoint
<1>1. Init => Disjoint
  BY DEF Init, Disjoint
<1> QED BY <1>1, DisjointStep, TypeCorrect, PTL DEF Spec

\* A draining replica that has left its own active set stays out of it.
THEOREM SelfStaysOutHolds == Spec => SelfStaysOut
<1> DEFINE A == \A r \in Replica :
                  localDraining[r] /\ r \notin active[r] => r \notin active'[r]
<1>1. TypeOK /\ [Next]_vars => [A]_vars
  <2> SUFFICES ASSUME TypeOK, Next PROVE A
    BY DEF vars, sets
  <2>1. ASSUME NEW r \in Replica, UpdateActiveReplicas(r) PROVE A
    BY <2>1 DEF UpdateActiveReplicas, WithoutSelf, TypeOK
  <2>2. ASSUME NEW r \in Replica, Exit(r) PROVE A
    BY <2>2 DEF Exit, TypeOK
  <2>3. CASE active' = active
    BY <2>3
  <2>4. (\E r \in Replica : UpdateActiveReplicas(r) \/ Exit(r)) \/ active' = active
    <3>1. \A q \in net : q.from \in Replica
      BY DEF TypeOK, Request
    <3> QED BY <3>1 DEF Next, Act, ReplicaStep, Start, Sigterm, DrainOver, SecondSignal,
          Sigint, AbortAndDelete, Crash, GarbageCollect, RenewTick, ListLeases,
          WatchResync, ListFails, Serve, Created, Applied, Stored, Conflict,
          Deleted, CallFails, LateLost, Tick, sets
  <2> QED BY <2>1, <2>2, <2>3, <2>4
<1> QED BY <1>1, TypeCorrect, PTL DEF Spec, SelfStaysOut

-----------------------------------------------------------------------------
(* No way back for a lease.                                                *)

\* Callers leaving adds no write that says "active".
LEMMA LeaveKeepsRetired ==
  ASSUME net \subseteq Request, NEW dropped \in SUBSET net, NEW sent,
         LeaveAndSend(dropped, sent), \A q \in sent : q.verb = "DELETE",
         NEW r \in Replica, ActiveWrites(r) = {}
  PROVE  ActiveWrites(r)' = {}
  BY LeaveNet DEF ActiveWrites

\* A replica that has retired stays so until a process registers again.
LEMMA RetiredStep ==
  ASSUME TypeOK, Lifecycle, Next, NEW r \in Replica,
         phase[r] \notin {"register", "discover", "run"}, Retired(r)
  PROVE  Retired(r)' \/ phase'[r] = "register"
<1>0. net \subseteq Request /\ \A q \in net : q.from \in Replica
  BY DEF TypeOK, Request
<1>1. ASSUME NEW s \in Replica, Start(s) PROVE Retired(r)' \/ phase'[r] = "register"
  BY <1>0, <1>1 DEF Start, Renewal, Retired, ActiveWrites, ListedActive, TypeOK
<1>2. ASSUME NEW s \in Replica, Sigterm(s) PROVE Retired(r)'
  BY <1>0, <1>2 DEF Sigterm, Renewal, Retired, ActiveWrites, ListedActive
<1>3. ASSUME NEW s \in Replica, AbortAndDelete(s) PROVE Retired(r)'
  <2> DEFINE sent == {[from |-> s, by |-> "main", verb |-> "DELETE",
                       draining |-> TRUE, age |-> 0]}
             dropped == CallsOf(s, {"loop"})
  <2>1. LeaveAndSend(dropped, sent) /\ lease' = lease
    BY <1>3 DEF AbortAndDelete
  <2>2. dropped \in SUBSET net /\ \A q \in sent : q.verb = "DELETE"
    BY DEF CallsOf
  <2>3. ActiveWrites(r)' = {}
    <3> HIDE DEF sent, dropped
    <3> QED BY <1>0, <2>1, <2>2, LeaveKeepsRetired DEF Retired
  <2> QED BY <2>1, <2>3 DEF Retired, ListedActive
<1>4. ASSUME NEW s \in Replica, Crash(s) PROVE Retired(r)'
  <2> DEFINE dropped == CallsOf(s, {"main", "loop"})
  <2>1. LeaveAndSend(dropped, {}) /\ lease' = lease /\ dropped \in SUBSET net
    BY <1>4 DEF Crash, Leave, CallsOf
  <2>2. ActiveWrites(r)' = {}
    <3> HIDE DEF dropped
    <3> QED BY <1>0, <2>1, LeaveKeepsRetired DEF Retired
  <2> QED BY <2>1, <2>2 DEF Retired, ListedActive
<1>5. ASSUME NEW s \in Replica, GarbageCollect(s) PROVE Retired(r)'
  BY <1>5 DEF GarbageCollect, Retired, ActiveWrites, ListedActive, TypeOK
<1>6. ASSUME NEW s \in Replica, RenewTick(s) PROVE Retired(r)'
  BY <1>0, <1>6 DEF RenewTick, Renewal, Looping, Lifecycle, Retired, ActiveWrites, ListedActive
<1>7. ASSUME NEW q \in net, q.verb # "DELETE", Stored(q) PROVE Retired(r)'
  BY <1>0, <1>7 DEF Stored, Retired, ActiveWrites, ListedActive, TypeOK
<1>8. ASSUME NEW q \in net, Conflict(q) PROVE Retired(r)'
  BY <1>0, <1>8 DEF Conflict, Retired, ActiveWrites, ListedActive, Request
<1>9. ASSUME NEW q \in net, Deleted(q) PROVE Retired(r)'
  BY <1>0, <1>9 DEF Deleted, Retired, ActiveWrites, ListedActive, TypeOK
<1>10. ASSUME NEW q \in net, CallFails(q) PROVE Retired(r)'
  <2>1. LeaveAndSend({q}, {}) /\ lease' = lease
    BY <1>10 DEF CallFails, Leave
  <2>2. ActiveWrites(r)' = {}
    BY <1>0, <2>1, LeaveKeepsRetired DEF Retired
  <2> QED BY <2>1, <2>2 DEF Retired, ListedActive
<1>11. ASSUME NEW q \in net, LateLost(q) PROVE Retired(r)'
  BY <1>11 DEF LateLost, Retired, ActiveWrites, ListedActive
<1>12. ASSUME lease' = lease, net' = net PROVE Retired(r)'
  BY <1>12 DEF Retired, ActiveWrites, ListedActive
<1>13. CASE Tick
  <2>1. ActiveWrites(r)' = {}
    BY <1>0, <1>13 DEF Tick, Retired, ActiveWrites, Request
  <2>2. ~ListedActive(r)'
    <3>1. lease[r] \in Lease \cup {NoLease} /\ lease'[r] = Aged(lease[r])
      BY <1>13 DEF Tick, TypeOK
    <3> QED BY <3>1 DEF Aged, Retired, ListedActive, Lease
  <2> QED BY <2>1, <2>2 DEF Retired
<1> QED BY <1>1, <1>2, <1>3, <1>4, <1>5, <1>6, <1>7, <1>8, <1>9, <1>10, <1>11, <1>12, <1>13
        DEF Next, Act, ReplicaStep, DrainOver, SecondSignal, Sigint, Serve, Created, Applied,
            ListLeases, WatchResync, UpdateActiveReplicas, ListFails

\* Shutdown is irreversible for the stored label: from SIGTERM (or the end of
\* the process) on, once neither the lease nor a write in flight says
\* "active", neither does again until a new process registers.
THEOREM ShutdownNeverReactivates == Spec => NoReactivation
<1> DEFINE A == \A r \in Replica :
                  phase[r] \notin {"register", "discover", "run"} /\ Retired(r)
                     => Retired(r)' \/ phase'[r] = "register"
<1>1. TypeOK /\ Lifecycle /\ [Next]_vars => [A]_vars
  BY RetiredStep
<1> QED BY <1>1, TypeCorrect, LifecycleHolds, PTL DEF Spec, NoReactivation

-----------------------------------------------------------------------------
(* Aborting and awaiting the membership task before the DELETE ends its    *)
(* renewals: every request in flight that is not late has a living caller  *)
(* (CallersAlive), and a process that has sent its DELETE, or is gone, has *)
(* no caller that writes the lease.  The bound on late requests is a       *)
(* cardinality, hence the finiteness of net.                               *)

\* Dropping and sending finitely many requests leaves finitely many.
LEMMA LeaveFinite ==
  ASSUME NEW dropped \in SUBSET net, NEW sent, IsFiniteSet(net), IsFiniteSet(sent),
         LeaveAndSend(dropped, sent)
  PROVE  IsFiniteSet(net')
<1>1. PICK late \in SUBSET dropped :
        net' = (net \ dropped) \cup sent \cup {[q EXCEPT !.by = "none"] : q \in late}
  BY DEF LeaveAndSend
<1>2. IsFiniteSet(late) /\ IsFiniteSet(net \ dropped)
  BY FS_Subset
<1>3. IsFiniteSet({[q EXCEPT !.by = "none"] : q \in late})
  <2> DEFINE f == [q \in late |-> [q EXCEPT !.by = "none"]]
  <2>1. f \in Surjection(late, {[q EXCEPT !.by = "none"] : q \in late})
    BY DEF Surjection
  <2> QED BY <1>2, <2>1, FS_Surjection
<1> QED BY <1>1, <1>2, <1>3, FS_Union

\* Every step leaves finitely many requests in the net.
LEMMA FiniteStep == IsFiniteSet(net) /\ [Next]_vars => IsFiniteSet(net')
<1> SUFFICES ASSUME IsFiniteSet(net), [Next]_vars PROVE IsFiniteSet(net')
  OBVIOUS
<1>1. ASSUME NEW q, net' = net \cup {q} PROVE IsFiniteSet(net')
  BY <1>1, FS_AddElement
<1>2. ASSUME NEW q, net' = net \ {q} PROVE IsFiniteSet(net')
  BY <1>2, FS_Subset
<1>3. ASSUME NEW p, NEW q, net' = (net \ {p}) \cup {q} PROVE IsFiniteSet(net')
  BY <1>3, FS_Subset, FS_AddElement
<1>4. ASSUME NEW r \in Replica, AbortAndDelete(r) PROVE IsFiniteSet(net')
  <2> DEFINE delete == [from |-> r, by |-> "main", verb |-> "DELETE",
                        draining |-> TRUE, age |-> 0]
             dropped == CallsOf(r, {"loop"})
  <2>1. LeaveAndSend(dropped, {delete}) /\ dropped \in SUBSET net
    BY <1>4 DEF AbortAndDelete, CallsOf
  <2>2. IsFiniteSet({delete})
    BY FS_Singleton
  <2> HIDE DEF delete, dropped
  <2> QED BY <2>1, <2>2, LeaveFinite
<1>5. ASSUME NEW r \in Replica, Crash(r) PROVE IsFiniteSet(net')
  <2> DEFINE dropped == CallsOf(r, {"main", "loop"})
  <2>1. LeaveAndSend(dropped, {}) /\ dropped \in SUBSET net
    BY <1>5 DEF Crash, Leave, CallsOf
  <2> HIDE DEF dropped
  <2> QED BY <2>1, LeaveFinite, FS_EmptySet
<1>6. ASSUME NEW q \in net, CallFails(q) PROVE IsFiniteSet(net')
  <2>1. LeaveAndSend({q}, {})
    BY <1>6 DEF CallFails, Leave
  <2> QED BY <2>1, LeaveFinite, FS_EmptySet
<1>7. ASSUME NEW q \in net, Conflict(q) PROVE IsFiniteSet(net')
  <2>1. net' = net \ {q} \/ net' = (net \ {q}) \cup {[q EXCEPT !.verb = "PATCH"]}
    BY <1>7 DEF Conflict
  <2> QED BY <2>1, <1>2, <1>3
<1>8. CASE Tick
  <2> DEFINE f == [q \in net |-> [q EXCEPT !.age = Older(@)]]
  <2>1. f \in Surjection(net, net')
    BY <1>8 DEF Tick, Surjection
  <2> QED BY <2>1, FS_Surjection
<1>9. CASE net' = net
  BY <1>9
<1> QED BY <1>1, <1>2, <1>4, <1>5, <1>6, <1>7, <1>8, <1>9
        DEF Next, Act, ReplicaStep, Start, Sigterm, DrainOver, SecondSignal, Sigint,
            GarbageCollect, RenewTick, ListLeases, WatchResync, UpdateActiveReplicas,
            ListFails, Serve, Created, Applied, Stored, Deleted, LateLost, vars

\* A bound of zero leaves no late request.
LEMMA LeaveNoLate ==
  ASSUME MaxLate = 0, IsFiniteSet(net'), NEW dropped, NEW sent, LeaveAndSend(dropped, sent)
  PROVE  \A q \in net' : q.by # "none"
<1> DEFINE late == {q \in net' : q.by = "none"}
<1>1. IsFiniteSet(late)
  BY FS_Subset
<1>2. Cardinality(late) <= 0
  BY DEF LeaveAndSend
<1>3. Cardinality(late) \in Nat
  BY <1>1, FS_CardinalityType
<1>4. late = {}
  BY <1>1, <1>2, <1>3, FS_EmptySet
<1> QED BY <1>4

\* Every step keeps a caller to each request that has one.
LEMMA CallersStep ==
  TypeOK /\ Lifecycle /\ CallersAlive /\ IsFiniteSet(net') /\ [Next]_vars => CallersAlive'
<1> SUFFICES ASSUME TypeOK, Lifecycle, CallersAlive, IsFiniteSet(net'), [Next]_vars
             PROVE  CallersAlive'
  OBVIOUS
<1>0. /\ net \subseteq Request /\ phase \in [Replica -> Phase]
      /\ \A q \in net : q.from \in Replica
  BY DEF TypeOK, Request
<1>1. ASSUME NEW r \in Replica, NEW dropped \in SUBSET net, NEW sent,
             LeaveAndSend(dropped, sent), CallsOf(r, {"loop"}) \subseteq dropped,
             \A q \in sent : q.by = "main",
             \A s \in Replica \ {r} : phase'[s] = phase[s]
      PROVE  CallersAlive'
  <2>1. \A q \in net' : q.by = "loop" => q \in net /\ q.from # r
    BY <1>0, <1>1, LeaveNet DEF CallsOf
  <2>2. MaxLate = 0 => \A q \in net' : q.by # "none"
    BY <1>1, LeaveNoLate
  <2> QED BY <1>0, <1>1, <2>1, <2>2 DEF CallersAlive, Looping
<1>2. ASSUME NEW r \in Replica, Start(r) PROVE CallersAlive'
  BY <1>0, <1>2 DEF Start, Renewal, CallersAlive, Looping
<1>3. ASSUME NEW r \in Replica, Sigterm(r) PROVE CallersAlive'
  BY <1>0, <1>3 DEF Sigterm, Renewal, CallersAlive, Looping
<1>4. ASSUME NEW r \in Replica, AbortAndDelete(r) PROVE CallersAlive'
  <2> DEFINE dropped == CallsOf(r, {"loop"})
             sent == {[from |-> r, by |-> "main", verb |-> "DELETE",
                       draining |-> TRUE, age |-> 0]}
  <2>1. LeaveAndSend(dropped, sent) /\ dropped \in SUBSET net
    BY <1>4 DEF AbortAndDelete, CallsOf
  <2>2. \A q \in sent : q.by = "main"
    OBVIOUS
  <2>3. \A s \in Replica \ {r} : phase'[s] = phase[s]
    BY <1>0, <1>4 DEF AbortAndDelete
  <2> HIDE DEF sent
  <2> QED BY <1>1, <2>1, <2>2, <2>3
<1>5. ASSUME NEW r \in Replica, Crash(r) PROVE CallersAlive'
  <2> DEFINE dropped == CallsOf(r, {"main", "loop"})
  <2>1. LeaveAndSend(dropped, {}) /\ dropped \in SUBSET net /\ CallsOf(r, {"loop"}) \subseteq dropped
    BY <1>5 DEF Crash, Leave, CallsOf
  <2>2. \A s \in Replica \ {r} : phase'[s] = phase[s]
    BY <1>0, <1>5 DEF Crash, Exit
  <2> HIDE DEF dropped
  <2> QED BY <1>1, <2>1, <2>2
<1>6. ASSUME NEW r \in Replica, GarbageCollect(r) PROVE CallersAlive'
  BY <1>0, <1>6 DEF GarbageCollect, Up, CallersAlive, Looping
<1>7. ASSUME NEW r \in Replica, RenewTick(r) PROVE CallersAlive'
  BY <1>0, <1>7 DEF RenewTick, Renewal, CallersAlive, Looping
<1>8. ASSUME NEW q \in net, q.verb # "DELETE", Stored(q) PROVE CallersAlive'
  BY <1>0, <1>8 DEF Stored, Answered, Lifecycle, CallersAlive, Looping
<1>9. ASSUME NEW q \in net, Conflict(q) PROVE CallersAlive'
  BY <1>0, <1>9 DEF Conflict, CallersAlive, Looping, Request
<1>10. ASSUME NEW q \in net, Deleted(q) PROVE CallersAlive'
  BY <1>0, <1>10 DEF Deleted, Exit, Lifecycle, CallersAlive, Looping
<1>11. ASSUME NEW q \in net, CallFails(q) PROVE CallersAlive'
  <2>1. LeaveAndSend({q}, {})
    BY <1>11 DEF CallFails, Leave
  <2>2. \A p \in net' : p.by = "loop" => p \in net /\ p # q
    <3>1. {q} \in SUBSET net /\ {} \in SUBSET Request
      OBVIOUS
    <3>2. \A p \in net' : p.by # "none" => p \in net \ {q} \/ p \in {}
      BY <1>0, <2>1, <3>1, LeaveCalled
    <3> QED BY <3>2
  <2>3. MaxLate = 0 => \A p \in net' : p.by # "none"
    BY <2>1, LeaveNoLate
  <2>4. \A p \in net : p.by = "loop" => Looping(p.from)'
    BY <1>0, <1>11 DEF CallFails, Answered, Exit, Lifecycle, CallersAlive, Looping
  <2> QED BY <2>2, <2>3, <2>4 DEF CallersAlive
<1>12. ASSUME NEW q \in net, LateLost(q) PROVE CallersAlive'
  BY <1>12 DEF LateLost, CallersAlive, Looping
<1>13. ASSUME NEW r \in Replica, UpdateActiveReplicas(r) PROVE CallersAlive'
  BY <1>0, <1>13 DEF UpdateActiveReplicas, CallersAlive, Looping
<1>14. ASSUME NEW r \in Replica, ListFails(r) PROVE CallersAlive'
  BY <1>0, <1>14 DEF ListFails, Exit, CallersAlive, Looping
<1>15. CASE UNCHANGED <<net, phase>>
  BY <1>15 DEF CallersAlive, Looping
<1>16. CASE Tick
  BY <1>0, <1>16 DEF Tick, CallersAlive, Looping, Request
<1> QED BY <1>2, <1>3, <1>4, <1>5, <1>6, <1>7, <1>8, <1>9, <1>10, <1>11, <1>12,
           <1>13, <1>14, <1>15, <1>16
        DEF Next, Act, ReplicaStep, DrainOver, SecondSignal, Sigint, Serve, Created, Applied,
            ListLeases, WatchResync, vars

\* A replica that is buried stays so until a process registers again.
LEMMA BuriedStep ==
  ASSUME TypeOK, Lifecycle, CallersAlive, Next, NEW r \in Replica,
         phase[r] \in {"delete", "down", "gone"}, Buried(r)
  PROVE  Buried(r)' \/ phase'[r] = "register"
<1>0. /\ net \subseteq Request /\ \A q \in net : q.from \in Replica
      /\ phase \in [Replica -> Phase]
  BY DEF TypeOK, Request
<1> DEFINE Writes == {q \in net : q.from = r /\ q.verb # "DELETE"}
\* Late or not, nothing of r that is in flight writes its lease.
<1>1. Writes = {}
  BY <1>0 DEF Lifecycle, CallersAlive, Looping, Buried, LateWrites, Request
<1>2. Writes' = {} /\ lease'[r] = NoLease => Buried(r)'
  BY DEF Buried, LateWrites
<1>3. lease[r] = NoLease
  BY DEF Buried
<1>4. ASSUME NEW dropped \in SUBSET net, NEW sent, LeaveAndSend(dropped, sent),
             \A q \in sent : q.verb = "DELETE"
      PROVE  Writes' = {}
  BY <1>0, <1>1, <1>4, LeaveNet
<1>5. ASSUME NEW s \in Replica, Start(s) PROVE Buried(r)' \/ phase'[r] = "register"
  BY <1>0, <1>1, <1>2, <1>3, <1>5 DEF Start, Renewal
<1>6. ASSUME NEW s \in Replica, Sigterm(s) PROVE Buried(r)'
  BY <1>0, <1>1, <1>2, <1>3, <1>6 DEF Sigterm, Renewal
<1>7. ASSUME NEW s \in Replica, AbortAndDelete(s) PROVE Buried(r)'
  <2> DEFINE sent == {[from |-> s, by |-> "main", verb |-> "DELETE",
                       draining |-> TRUE, age |-> 0]}
             dropped == CallsOf(s, {"loop"})
  <2>1. LeaveAndSend(dropped, sent) /\ lease' = lease
    BY <1>7 DEF AbortAndDelete
  <2>2. dropped \in SUBSET net /\ \A q \in sent : q.verb = "DELETE"
    BY DEF CallsOf
  <2> HIDE DEF sent, dropped
  <2>3. Writes' = {}
    BY <1>4, <2>1, <2>2
  <2> QED BY <1>2, <1>3, <2>1, <2>3
<1>8. ASSUME NEW s \in Replica, Crash(s) PROVE Buried(r)'
  <2> DEFINE dropped == CallsOf(s, {"main", "loop"})
  <2>1. LeaveAndSend(dropped, {}) /\ lease' = lease /\ dropped \in SUBSET net
    BY <1>8 DEF Crash, Leave, CallsOf
  <2> HIDE DEF dropped
  <2>2. Writes' = {}
    BY <1>4, <2>1
  <2> QED BY <1>2, <1>3, <2>1, <2>2
<1>9. ASSUME NEW s \in Replica, GarbageCollect(s) PROVE Buried(r)'
  BY <1>1, <1>2, <1>3, <1>9 DEF GarbageCollect, TypeOK
<1>10. ASSUME NEW s \in Replica, RenewTick(s) PROVE Buried(r)'
  BY <1>0, <1>1, <1>2, <1>3, <1>10 DEF RenewTick, Renewal, Looping
<1>11. ASSUME NEW q \in net, q.verb # "DELETE", Stored(q) PROVE Buried(r)'
  BY <1>0, <1>1, <1>2, <1>3, <1>11 DEF Stored, TypeOK
<1>12. ASSUME NEW q \in net, Conflict(q) PROVE Buried(r)'
  BY <1>0, <1>1, <1>2, <1>3, <1>12 DEF Conflict, Request
<1>13. ASSUME NEW q \in net, Deleted(q) PROVE Buried(r)'
  BY <1>0, <1>1, <1>2, <1>3, <1>13 DEF Deleted, TypeOK
<1>14. ASSUME NEW q \in net, CallFails(q) PROVE Buried(r)'
  <2>1. LeaveAndSend({q}, {}) /\ lease' = lease
    BY <1>14 DEF CallFails, Leave
  <2>2. Writes' = {}
    BY <1>4, <2>1
  <2> QED BY <1>2, <1>3, <2>1, <2>2
<1>15. ASSUME NEW q \in net, LateLost(q) PROVE Buried(r)'
  BY <1>1, <1>2, <1>3, <1>15 DEF LateLost
<1>16. ASSUME lease' = lease, net' = net PROVE Buried(r)'
  BY <1>1, <1>2, <1>3, <1>16
<1>17. CASE Tick
  <2>1. lease'[r] = NoLease
    BY <1>3, <1>17 DEF Tick, Aged
  <2>2. Writes' = {}
    BY <1>0, <1>1, <1>17 DEF Tick, Request
  <2> QED BY <1>2, <2>1, <2>2
<1> QED BY <1>5, <1>6, <1>7, <1>8, <1>9, <1>10, <1>11, <1>12, <1>13, <1>14, <1>15, <1>16, <1>17
        DEF Next, Act, ReplicaStep, DrainOver, SecondSignal, Sigint, Serve, Created, Applied,
            ListLeases, WatchResync, UpdateActiveReplicas, ListFails

\* However many requests outlive their callers: once no late renewal is on its
\* way, a deleted lease stays deleted until a process registers.
THEOREM DeletionIsFinal == Spec => DeletionHolds
<1> DEFINE A == \A r \in Replica :
                  phase[r] \in {"delete", "down", "gone"} /\ Buried(r)
                     => Buried(r)' \/ phase'[r] = "register"
           Alive == CallersAlive /\ IsFiniteSet(net)
<1>1. Init => Alive
  BY FS_EmptySet DEF Init, CallersAlive
<1>2. TypeOK /\ Lifecycle /\ Alive /\ [Next]_vars => Alive'
  BY CallersStep, FiniteStep
<1>3. TypeOK /\ Lifecycle /\ Alive /\ [Next]_vars => [A]_vars
  BY BuriedStep
<1> QED BY <1>1, <1>2, <1>3, TypeCorrect, LifecycleHolds, PTL DEF Spec, DeletionHolds

-----------------------------------------------------------------------------
(* Prompt processes.  When calls, scheduling and watch events take much    *)
(* less than a tick, and no request outlives its caller, how far a lease   *)
(* or a view lags can be read off the timer of the renewal loop that will  *)
(* refresh it: each fault costs one more interval.                         *)

Allowance == (faults + 1) * RenewInterval

\* The renewal of this interval has not been answered yet.
Due(s) == due[s] \/ \E q \in net : q.from = s /\ q.by = "loop"

\* n is within its allowance over base: at the latest when the timer of s runs
\* out something is due, and it is done before the next tick.
Within(n, base, s, pending) ==
    \/ n + timer[s] <= base + Allowance
    \/ pending /\ timer[s] = RenewInterval /\ n <= base + Allowance

Present(r) == phase[r] \in {"discover", "run", "mark", "drain"}

\* Every request was sent in this tick, and its caller awaits it.
NetIsFresh ==
    \A q \in net : q.by # "none" /\ q.age = 0 /\ (q.by = "loop" => q.verb # "DELETE")

OwnLease ==
    \A r \in Replica :
        /\ Present(r) => lease[r] # NoLease
        /\ phase[r] = "discover" => lease[r].age = 0
        /\ Looping(r) => Within(lease[r].age, 0, r, Due(r))

Names(table, r) == table[r] # NoLease /\ table[r].age < LeaseDuration

ListFresh ==
    \A r, s \in Replica :
        list[s] # NoList /\ Names(list[s], r) /\ lease[r] # NoLease
        => lease[r].age < LeaseDuration

ViewFresh ==
    \A r, s \in Replica :
        Looping(s) /\ lease[r] # NoLease /\ r # s /\ r \in active[s] \cup draining[s]
        => Within(lease[r].age, LeaseDuration, s, Due(s) \/ event[s] \/ list[s] # NoList)

\* A list that no event has overtaken is up to date about whoever runs.
ListCurrent ==
    \A r, s \in Replica :
        /\ Looping(s) /\ list[s] # NoList /\ ~event[s]
        /\ phase[r] \in {"discover", "run"}
        => list[s][r] = lease[r]

Unlabelled ==
    \A r \in Replica :
        /\ phase[r] \in {"discover", "run"} => ~lease[r].draining
        /\ phase[r] \in {"register", "discover", "run"} => \A q \in net : q.from = r => ~q.draining

\* A tick has passed since the drain began: renewals that read the flag before
\* are done.
Late(r) == phase[r] = "drain" /\ left[r] < DrainDuration

ListsActive(s, r) == list[s] # NoList /\ list[s][r] # NoLease /\ ~list[s][r].draining

Labelled ==
    \A r \in Replica :
        /\ phase[r] = "mark" => left[r] = DrainDuration
        /\ Late(r) => \A q \in net : q.from = r => q.draining
        /\ Late(r) /\ ~lease[r].draining => Within(DrainDuration, left[r], r, Due(r))

InTime(r) == DrainDuration <= left[r] + Allowance

DrainSeen ==
    \A r, s \in Replica : Late(r) /\ lease[r].draining =>
        /\ ListsActive(s, r) => InTime(r)
        /\ Looping(s) /\ (r \in active[s] \/ ListsActive(s, r)) =>
              \/ InTime(r) /\ (event[s] \/ (list[s] # NoList /\ ~ListsActive(s, r)))
              \/ Within(DrainDuration, left[r], s, Due(s))

Lags == OwnLease /\ ListFresh /\ ViewFresh /\ ListCurrent /\ Unlabelled /\ Labelled /\ DrainSeen

\* The invariants of the sections above, without late requests.
Called == TypeOK /\ Lifecycle /\ NetIsFresh /\ \A q \in net : q.by = "loop" => Looping(q.from)

\* A fault adds an interval.
LEMMA AllowanceGrows ==
    ASSUME TypeOK
    PROVE  /\ Allowance \in Nat /\ RenewInterval \in Nat /\ Allowance >= RenewInterval
           /\ faults' = faults => Allowance' = Allowance
           /\ faults' = faults + 1 => Allowance' = Allowance + RenewInterval
<1>1. faults \in Nat /\ RenewInterval \in Nat
  BY BoundAssumption, TimingAssumption DEF TypeOK
<1>2. (faults + 1) * RenewInterval = faults * RenewInterval + RenewInterval
  BY <1>1
<1>3. (faults + 1 + 1) * RenewInterval = (faults + 1) * RenewInterval + RenewInterval
  BY <1>1
<1>4. faults * RenewInterval \in Nat
  BY <1>1
<1> QED BY <1>1, <1>2, <1>3, <1>4 DEF Allowance

\* The numbers that are compared.
LEMMA LagTypes ==
    ASSUME TypeOK
    PROVE  /\ \A r \in Replica : /\ timer[r] \in Nat /\ timer[r] >= 1 /\ timer[r] <= RenewInterval
                                 /\ left[r] \in Nat /\ left[r] <= DrainDuration
                                 /\ lease[r] # NoLease => lease[r] \in Lease
           /\ \A l \in Lease : l.age \in Nat /\ l.draining \in BOOLEAN
           /\ LeaseDuration \in Nat /\ DrainDuration \in Nat
BY TimingAssumption DEF TypeOK, Lease, Age

\* A process that goes down, or starts to delete its lease, takes part in
\* nothing that the invariants speak of, and leaves the others as they were.
Departed(r) ==
    /\ phase'[r] \notin {"register", "discover", "run", "mark", "drain"}
    /\ lease'[r] \in {lease[r], NoLease} /\ list'[r] \in {list[r], NoList}
    /\ UNCHANGED timer
    /\ \A s \in Replica \ {r} :
          /\ phase'[s] = phase[s] /\ lease'[s] = lease[s] /\ list'[s] = list[s]
          /\ active'[s] = active[s] /\ draining'[s] = draining[s]
          /\ event'[s] = event[s] /\ due'[s] = due[s] /\ left'[s] = left[s]
          /\ \A q \in net \cup net' : q.from = s => (q \in net' <=> q \in net)
    /\ faults' \in {faults, faults + 1}

\* A process that ends takes its obligations with it.
LEMMA DepartKeeps ==
    ASSUME Called, Lags, TypeOK', NEW r \in Replica, Departed(r)
    PROVE  Lags'
<1>1. /\ \A s \in Replica : Looping(s)' => s # r /\ Looping(s)
      /\ \A s \in Replica : Present(s)' => s # r /\ Present(s)
      /\ \A s \in Replica : Late(s)' => s # r /\ Late(s)
      /\ \A s \in Replica : s # r => (Due(s)' <=> Due(s))
  BY DEF Looping, Present, Late, Due, Departed
<1>2. Allowance' >= Allowance /\ Allowance \in Nat /\ Allowance' \in Nat
  BY AllowanceGrows DEF Called, Departed
<1>3. TypeOK
  BY DEF Called
<1>5. OwnLease'
  <2> SUFFICES ASSUME NEW s \in Replica
               PROVE  /\ Present(s)' => lease'[s] # NoLease
                      /\ phase'[s] = "discover" => lease'[s].age = 0
                      /\ Looping(s)' => Within(lease[s].age, 0, s, Due(s))'
    BY DEF OwnLease
  <2>1. CASE s = r
    BY <1>1, <2>1 DEF Departed
  <2>2. CASE s # r
    <3>1. lease'[s] = lease[s] /\ phase'[s] = phase[s] /\ timer'[s] = timer[s]
      BY <2>2 DEF Departed
    <3>2. Looping(s) => lease[s] \in Lease /\ Within(lease[s].age, 0, s, Due(s))
      BY <1>3, LagTypes DEF Lags, OwnLease, Looping, Present
    <3> QED BY <1>1, <1>2, <1>3, <2>2, <3>1, <3>2, LagTypes DEF Lags, OwnLease, Within
  <2> QED BY <2>1, <2>2
<1>6. ListFresh'
  <2> SUFFICES ASSUME NEW k \in Replica, NEW s \in Replica,
                      list'[s] # NoList, Names(list[s], k)', lease'[k] # NoLease
               PROVE  lease'[k].age < LeaseDuration
    BY DEF ListFresh
  <2>1. list'[s] = list[s] /\ lease'[k] = lease[k]
    BY DEF Departed
  <2> QED BY <2>1 DEF Lags, ListFresh, Names
<1>7. ViewFresh'
  <2> SUFFICES ASSUME NEW k \in Replica, NEW s \in Replica, Looping(s)', lease'[k] # NoLease,
                      k # s, k \in active'[s] \cup draining'[s]
               PROVE  Within(lease[k].age, LeaseDuration, s, Due(s) \/ event[s] \/ list[s] # NoList)'
    BY DEF ViewFresh
  <2>1. s # r /\ Looping(s) /\ lease'[k] = lease[k] /\ k \in active[s] \cup draining[s]
    BY <1>1 DEF Departed
  <2>2. list'[s] = list[s] /\ event'[s] = event[s] /\ timer'[s] = timer[s]
    BY <2>1 DEF Departed
  <2>3. Within(lease[k].age, LeaseDuration, s, Due(s) \/ event[s] \/ list[s] # NoList)
    BY <2>1 DEF Lags, ViewFresh
  <2> QED BY <1>1, <1>2, <1>3, <2>1, <2>2, <2>3, LagTypes DEF Within
<1>8. ListCurrent'
  <2> SUFFICES ASSUME NEW k \in Replica, NEW s \in Replica, Looping(s)', list'[s] # NoList,
                      ~event'[s], phase'[k] \in {"discover", "run"}
               PROVE  list'[s][k] = lease'[k]
    BY DEF ListCurrent
  <2>1. s # r /\ k # r
    BY <1>1 DEF Departed
  <2> QED BY <1>1, <2>1 DEF Departed, Lags, ListCurrent
<1>9. Unlabelled'
  BY <1>1 DEF Lags, Unlabelled, Departed
<1>10. Labelled'
  <2> SUFFICES ASSUME NEW s \in Replica
               PROVE  /\ phase'[s] = "mark" => left'[s] = DrainDuration
                      /\ Late(s)' => \A q \in net' : q.from = s => q.draining
                      /\ Late(s)' /\ ~lease'[s].draining => Within(DrainDuration, left[s], s, Due(s))'
    BY DEF Labelled
  <2>1. CASE s = r
    BY <1>1, <2>1 DEF Departed
  <2>2. CASE s # r
    <3>1. /\ lease'[s] = lease[s] /\ phase'[s] = phase[s] /\ timer'[s] = timer[s]
          /\ left'[s] = left[s]
          /\ (Late(s)' => Late(s))
      BY <1>1, <2>2 DEF Departed
    <3>2. Within(DrainDuration, left[s], s, Due(s)) => Within(DrainDuration, left[s], s, Due(s))'
      BY <1>1, <1>2, <1>3, <2>2, <3>1, LagTypes DEF Within
    <3>3. Late(s)' => \A q \in net' : q.from = s => q.draining
      BY <2>2, <3>1 DEF Departed, Lags, Labelled
    <3> QED BY <3>1, <3>2, <3>3 DEF Lags, Labelled
  <2> QED BY <2>1, <2>2
<1>11. DrainSeen'
  <2> SUFFICES ASSUME NEW k \in Replica, NEW s \in Replica, Late(k)', lease'[k].draining
               PROVE  /\ ListsActive(s, k)' => InTime(k)'
                      /\ Looping(s)' /\ (k \in active'[s] \/ ListsActive(s, k)') =>
                            \/ InTime(k)' /\ (event'[s] \/ (list'[s] # NoList /\ ~ListsActive(s, k)'))
                            \/ Within(DrainDuration, left[k], s, Due(s))'
    BY DEF DrainSeen
  <2>1. k # r /\ Late(k) /\ lease[k].draining /\ left'[k] = left[k]
    BY <1>1 DEF Departed
  <2>2. InTime(k) => InTime(k)'
    BY <1>2, <1>3, <2>1, LagTypes DEF InTime
  <2>3. CASE s = r
    <3>1. ListsActive(s, k)' => ListsActive(s, k)
      BY <2>3 DEF ListsActive, Departed
    <3> QED BY <1>1, <2>1, <2>2, <2>3, <3>1 DEF Lags, DrainSeen
  <2>4. CASE s # r
    <3>1. /\ list'[s] = list[s] /\ active'[s] = active[s] /\ event'[s] = event[s]
          /\ phase'[s] = phase[s] /\ timer'[s] = timer[s]
      BY <2>4 DEF Departed
    <3>2. ListsActive(s, k)' <=> ListsActive(s, k)
      BY <3>1 DEF ListsActive
    <3>3. Within(DrainDuration, left[k], s, Due(s)) => Within(DrainDuration, left[k], s, Due(s))'
      BY <1>1, <1>2, <1>3, <2>1, <2>4, <3>1, LagTypes DEF Within
    <3> QED BY <1>1, <2>1, <2>2, <3>1, <3>2, <3>3 DEF Lags, DrainSeen
  <2> QED BY <2>3, <2>4
<1> QED BY <1>5, <1>6, <1>7, <1>8, <1>9, <1>10, <1>11 DEF Lags

\* A step that leaves the leases and the views alone: what was pending still
\* is, or a fault has added to the allowance.
Steady ==
    /\ UNCHANGED <<lease, timer, active, draining>>
    /\ faults' \in {faults, faults + 1}
    /\ \A s \in Replica :
          /\ list'[s] = list[s] \/ (list'[s] = NoList /\ faults' = faults + 1)
          /\ event[s] => event'[s]
          /\ phase'[s] \in {"discover", "run"} => phase'[s] = phase[s]
          /\ Looping(s)' => Looping(s)
          /\ Late(s)' => Late(s) /\ left'[s] = left[s]
          /\ phase'[s] = "mark" => left'[s] = DrainDuration
          /\ phase'[s] \in {"register", "discover", "run"}
                => \A q \in net' : q.from = s => ~q.draining
          /\ Late(s)' => \A q \in net' : q.from = s => q.draining
          /\ Looping(s)' /\ Due(s) => Due(s)' \/ faults' = faults + 1

\* A step that moves no clock and sets nothing back keeps the lags.
LEMMA SteadyKeeps ==
    ASSUME Called, Lags, TypeOK', Steady
    PROVE  Lags'
<1>1. /\ Allowance \in Nat /\ Allowance' \in Nat /\ RenewInterval \in Nat
      /\ faults' = faults => Allowance' = Allowance
      /\ faults' = faults + 1 => Allowance' = Allowance + RenewInterval
  BY AllowanceGrows DEF Called, Steady
<1>2. TypeOK /\ faults' \in {faults, faults + 1} /\ faults # faults + 1
  BY BoundAssumption DEF Called, Steady, TypeOK
<1>3. ASSUME NEW s \in Replica, NEW n \in Nat, NEW base \in Nat
      PROVE  /\ n + timer[s] <= base + Allowance => n + timer'[s] <= base + Allowance'
             /\ timer[s] = RenewInterval /\ n <= base + Allowance =>
                   /\ timer'[s] = RenewInterval /\ n <= base + Allowance'
                   /\ faults' = faults + 1 => n + timer'[s] <= base + Allowance'
  <2>1. timer'[s] = timer[s] /\ timer[s] \in Nat /\ timer[s] <= RenewInterval
    BY <1>2, LagTypes DEF Steady
  <2>2. CASE faults' = faults
    <3>1. Allowance' = Allowance /\ faults' # faults + 1
      BY <1>1, <1>2, <2>2
    <3> QED BY <1>1, <2>1, <3>1
  <2>3. CASE faults' = faults + 1
    <3>1. Allowance' = Allowance + RenewInterval
      BY <1>1, <2>3
    <3>2. n <= base + Allowance => n + timer[s] <= base + (Allowance + RenewInterval)
      BY <1>1, <2>1
    <3> QED BY <1>1, <2>1, <3>1, <3>2
  <2> QED BY <1>2, <2>2, <2>3
<1>4. \A s \in Replica : Present(s)' => Present(s)
  BY DEF Present, Looping, Steady
<1>5. OwnLease'
  <2> SUFFICES ASSUME NEW s \in Replica
               PROVE  /\ Present(s)' => lease'[s] # NoLease
                      /\ phase'[s] = "discover" => lease'[s].age = 0
                      /\ Looping(s)' => Within(lease[s].age, 0, s, Due(s))'
    BY DEF OwnLease
  <2>1. ASSUME Looping(s)' PROVE Within(lease[s].age, 0, s, Due(s))'
    <3>1. lease[s] # NoLease /\ Within(lease[s].age, 0, s, Due(s)) /\ lease'[s] = lease[s]
      BY <2>1 DEF Steady, Lags, OwnLease, Looping, Present
    <3>2. lease[s].age \in Nat
      BY <1>2, <3>1, LagTypes
    <3>3. Due(s) => Due(s)' \/ faults' = faults + 1
      BY <2>1 DEF Steady
    <3> QED BY <1>3, <3>1, <3>2, <3>3 DEF Within, Due
  <2> QED BY <1>4, <2>1 DEF Steady, Lags, OwnLease
<1>6. ListFresh'
  BY DEF Steady, Lags, ListFresh, Names
<1>7. ViewFresh'
  <2> SUFFICES ASSUME NEW k \in Replica, NEW s \in Replica, Looping(s)', lease'[k] # NoLease,
                      k # s, k \in active'[s] \cup draining'[s]
               PROVE  Within(lease[k].age, LeaseDuration, s, Due(s) \/ event[s] \/ list[s] # NoList)'
    BY DEF ViewFresh
  <2>1. Looping(s) /\ lease'[k] = lease[k] /\ k \in active[s] \cup draining[s]
    BY DEF Steady
  <2>2. Within(lease[k].age, LeaseDuration, s, Due(s) \/ event[s] \/ list[s] # NoList)
    BY <2>1 DEF Lags, ViewFresh
  <2>3. lease[k].age \in Nat /\ LeaseDuration \in Nat
    BY <1>2, <2>1, LagTypes
  <2>4. Due(s) \/ event[s] \/ list[s] # NoList
          => (Due(s)' \/ event'[s] \/ list'[s] # NoList) \/ faults' = faults + 1
    BY DEF Steady
  <2> QED BY <1>3, <2>1, <2>2, <2>3, <2>4 DEF Within
<1>8. ListCurrent'
  BY DEF Steady, Lags, ListCurrent
<1>9. Unlabelled'
  BY DEF Steady, Lags, Unlabelled
<1>10. Labelled'
  <2> SUFFICES ASSUME NEW s \in Replica
               PROVE  /\ phase'[s] = "mark" => left'[s] = DrainDuration
                      /\ Late(s)' => \A q \in net' : q.from = s => q.draining
                      /\ Late(s)' /\ ~lease'[s].draining => Within(DrainDuration, left[s], s, Due(s))'
    BY DEF Labelled
  <2>1. ASSUME Late(s)', ~lease'[s].draining PROVE Within(DrainDuration, left[s], s, Due(s))'
    <3>1. Within(DrainDuration, left[s], s, Due(s)) /\ left'[s] = left[s]
      BY <2>1 DEF Steady, Lags, Labelled
    <3>2. DrainDuration \in Nat /\ left[s] \in Nat
      BY <1>2, LagTypes
    <3>3. Due(s) => Due(s)' \/ faults' = faults + 1
      BY <2>1 DEF Steady, Late, Looping
    <3> QED BY <1>3, <3>1, <3>2, <3>3 DEF Within, Due
  <2> QED BY <2>1 DEF Steady
<1>11. DrainSeen'
  <2> SUFFICES ASSUME NEW k \in Replica, NEW s \in Replica, Late(k)', lease'[k].draining
               PROVE  /\ ListsActive(s, k)' => InTime(k)'
                      /\ Looping(s)' /\ (k \in active'[s] \/ ListsActive(s, k)') =>
                            \/ InTime(k)' /\ (event'[s] \/ (list'[s] # NoList /\ ~ListsActive(s, k)'))
                            \/ Within(DrainDuration, left[k], s, Due(s))'
    BY DEF DrainSeen
  <2>1. Late(k) /\ lease[k].draining /\ left'[k] = left[k]
    BY DEF Steady
  <2>2. left[k] \in Nat /\ DrainDuration \in Nat /\ timer[s] \in Nat /\ timer[s] <= RenewInterval
    BY <1>2, LagTypes
  <2>3. InTime(k) => InTime(k)'
    BY <1>1, <1>2, <2>1, <2>2 DEF InTime
  <2>4. ListsActive(s, k)' => ListsActive(s, k)
    BY DEF ListsActive, Steady
  <2>5. CASE list'[s] = list[s]
    <3>1. ListsActive(s, k)' <=> ListsActive(s, k)
      BY <2>5 DEF ListsActive
    <3>2. ASSUME Looping(s)', Within(DrainDuration, left[k], s, Due(s))
          PROVE  Within(DrainDuration, left[k], s, Due(s))'
      <4>1. Due(s) => Due(s)' \/ faults' = faults + 1
        BY <3>2 DEF Steady
      <4> QED BY <1>3, <2>1, <2>2, <3>2, <4>1 DEF Within, Due
    <3> QED BY <2>1, <2>3, <2>5, <3>1, <3>2 DEF Steady, Lags, DrainSeen
  <2>6. CASE faults' = faults + 1
    <3>1. InTime(k) => Within(DrainDuration, left[k], s, Due(s))'
      BY <1>1, <2>1, <2>2, <2>6 DEF InTime, Within, Steady
    <3>2. Within(DrainDuration, left[k], s, Due(s)) => InTime(k)
      BY <1>1, <2>2 DEF InTime, Within
    <3> QED BY <2>1, <2>3, <2>4, <3>1, <3>2 DEF Steady, Lags, DrainSeen
  <2> QED BY <2>5, <2>6 DEF Steady
<1> QED BY <1>5, <1>6, <1>7, <1>8, <1>9, <1>10, <1>11 DEF Lags

\* A stored lease is new, and every discovery loop is told.
LEMMA StoredKeeps ==
    ASSUME Called, Lags, TypeOK', NEW q \in net, q.verb # "DELETE", Stored(q)
    PROVE  Lags'
<1> DEFINE k == q.from
<1>1. TypeOK /\ k \in Replica /\ q.age = 0 /\ q.draining \in BOOLEAN
  BY DEF Called, NetIsFresh, TypeOK, Request
<1>a. \/ q.by = "main" /\ phase[k] \in {"register", "mark"}
      \/ q.by = "loop" /\ Looping(k)
  <2>1. q.by \in {"main", "loop"}
    BY DEF Called, NetIsFresh, TypeOK, Request
  <2>2. q.by = "main" => phase[k] \in {"register", "mark"}
    BY DEF Called, Lifecycle
  <2>3. q.by = "loop" => Looping(k)
    BY DEF Called
  <2> QED BY <2>1, <2>2, <2>3
<1>2. /\ lease'[k] = [draining |-> q.draining, age |-> 0]
      /\ \A s \in Replica \ {k} : lease'[s] = lease[s] /\ phase'[s] = phase[s]
      /\ q.by = "loop" => phase'[k] = phase[k]
      /\ q.by = "main" => phase'[k] = IF phase[k] = "register" THEN "discover" ELSE "drain"
  <2>1. lease' = [lease EXCEPT ![k] = [draining |-> q.draining, age |-> 0]]
    BY <1>1 DEF Stored
  <2>2. /\ q.by = "loop" => phase' = phase
        /\ q.by = "main" => phase' = [phase EXCEPT ![k] = CASE @ = "register" -> "discover"
                                                             [] @ = "mark"     -> "drain"
                                                             [] OTHER          -> "down"]
    BY DEF Stored, Answered
  <2> HIDE DEF k
  <2> QED BY <1>1, <1>a, <2>1, <2>2 DEF TypeOK
<1>3. /\ UNCHANGED <<active, draining, list, due, timer, left, faults>> /\ net' \subseteq net
      /\ \A s \in Replica : Looping(s) => event'[s]
  BY DEF Stored, Announce, sets, clocks, bounds
<1>4. /\ lease'[k] # NoLease /\ lease'[k].age = 0 /\ lease'[k].draining = q.draining
  BY <1>1, <1>2, <1>3, NoLeaseAssumption, TimingAssumption DEF Lease, Age
<1>5. \A s \in Replica : /\ Looping(s)' => Looping(s)
                         /\ s # k => (Due(s)' <=> Due(s))
                         /\ Late(s)' => Late(s)
  <2>1. \A s \in Replica : s # k => (Due(s)' <=> Due(s))
    BY DEF Stored, Due, clocks
  <2>2. \A s \in Replica : Looping(s)' => Looping(s)
    BY <1>1, <1>a, <1>2 DEF Looping
  <2>3. ASSUME NEW s \in Replica, Late(s)' PROVE Late(s)
    <3>1. phase[s] = "mark" => left[s] = DrainDuration
      BY DEF Lags, Labelled
    <3>2. phase'[s] = "drain" => phase[s] \in {"mark", "drain"}
      BY <1>1, <1>a, <1>2
    <3>3. left'[s] = left[s] /\ DrainDuration \in Nat
      BY <1>3, TimingAssumption
    <3> QED BY <2>3, <3>1, <3>2, <3>3 DEF Late
  <2> QED BY <2>1, <2>2, <2>3
<1>6. /\ Allowance' = Allowance /\ Allowance \in Nat /\ RenewInterval \in Nat
      /\ Allowance >= RenewInterval
  BY <1>1, <1>3, AllowanceGrows
<1>7. \A s \in Replica : Looping(s)' => event'[s]
  BY <1>1, <1>a, <1>2, <1>3 DEF Looping
<1> HIDE DEF k
<1>8. OwnLease'
  <2> SUFFICES ASSUME NEW s \in Replica
               PROVE  /\ Present(s)' => lease'[s] # NoLease
                      /\ phase'[s] = "discover" => lease'[s].age = 0
                      /\ Looping(s)' => Within(lease[s].age, 0, s, Due(s))'
    BY DEF OwnLease
  <2>1. CASE s = k
    BY <1>1, <1>3, <1>4, <1>6, <2>1, LagTypes DEF Within
  <2>2. CASE s # k
    BY <1>2, <1>3, <1>5, <1>6, <2>2 DEF Lags, OwnLease, Within, Present, Looping
  <2> QED BY <2>1, <2>2
<1>9. ListFresh'
  <2> SUFFICES ASSUME NEW r \in Replica, NEW s \in Replica, list[s] # NoList, Names(list[s], r),
                      lease'[r] # NoLease
               PROVE  lease'[r].age < LeaseDuration
    BY <1>3 DEF ListFresh, Names
  <2>1. list[s][r] \in Lease
    BY <1>1 DEF Names, TypeOK
  <2>2. 0 < LeaseDuration
    BY <1>1, <2>1, LagTypes DEF Names
  <2> QED BY <1>2, <1>4, <2>2 DEF Lags, ListFresh
<1>10. ViewFresh'
  <2> SUFFICES ASSUME NEW r \in Replica, NEW s \in Replica, Looping(s)', lease'[r] # NoLease,
                      r # s, r \in active'[s] \cup draining'[s]
               PROVE  Within(lease[r].age, LeaseDuration, s, Due(s) \/ event[s] \/ list[s] # NoList)'
    BY DEF ViewFresh
  <2>1. CASE r = k
    BY <1>1, <1>3, <1>4, <1>6, <2>1, LagTypes DEF Within
  <2>2. CASE r # k
    <3>1. Looping(s) /\ lease'[r] = lease[r] /\ r \in active[s] \cup draining[s]
      BY <1>2, <1>3, <1>5, <2>2
    <3>2. Within(lease[r].age, LeaseDuration, s, Due(s) \/ event[s] \/ list[s] # NoList)
      BY <3>1 DEF Lags, ViewFresh
    <3> QED BY <1>3, <1>6, <1>7, <3>1, <3>2 DEF Within
  <2> QED BY <2>1, <2>2
<1>11. ListCurrent'
  BY <1>7 DEF ListCurrent
<1>12. Unlabelled'
  BY <1>1, <1>a, <1>2, <1>3, <1>4 DEF Lags, Unlabelled, Looping, k
<1>13. Labelled'
  <2> SUFFICES ASSUME NEW s \in Replica
               PROVE  /\ phase'[s] = "mark" => left'[s] = DrainDuration
                      /\ Late(s)' => \A p \in net' : p.from = s => p.draining
                      /\ Late(s)' /\ ~lease'[s].draining => Within(DrainDuration, left[s], s, Due(s))'
    BY DEF Labelled
  <2>1. phase'[s] = "mark" => phase[s] = "mark"
    BY <1>1, <1>a, <1>2
  <2>2. Late(s)' => \A p \in net' : p.from = s => p.draining
    BY <1>3, <1>5 DEF Lags, Labelled
  <2>3. ASSUME Late(s)', ~lease'[s].draining PROVE Within(DrainDuration, left[s], s, Due(s))'
    <3>1. s # k
      BY <1>4, <1>5, <2>3 DEF Lags, Labelled, k
    <3> QED BY <1>2, <1>3, <1>5, <1>6, <2>3, <3>1 DEF Lags, Labelled, Within
  <2> QED BY <1>3, <2>1, <2>2, <2>3 DEF Lags, Labelled
<1>14. DrainSeen'
  <2> SUFFICES ASSUME NEW r \in Replica, NEW s \in Replica, Late(r)', lease'[r].draining
               PROVE  /\ ListsActive(s, r)' => InTime(r)'
                      /\ Looping(s)' /\ (r \in active'[s] \/ ListsActive(s, r)') =>
                            \/ InTime(r)' /\ (event'[s] \/ (list'[s] # NoList /\ ~ListsActive(s, r)'))
                            \/ Within(DrainDuration, left[r], s, Due(s))'
    BY DEF DrainSeen
  <2>1. Late(r) /\ (InTime(r)' <=> InTime(r)) /\ (ListsActive(s, r)' <=> ListsActive(s, r))
    BY <1>3, <1>5, <1>6 DEF InTime, ListsActive
  <2>2. \A t \in Replica, p \in BOOLEAN : Within(DrainDuration, left[r], t, p) => InTime(r)
    BY <1>1, <1>6, LagTypes DEF Within, InTime
  <2>3. CASE ~lease[r].draining
    <3>1. InTime(r)
      BY <1>1, <1>6, <2>1, <2>3, LagTypes DEF Within, InTime, Lags, Labelled
    <3> QED BY <1>7, <2>1, <3>1
  <2>4. CASE lease[r].draining
    <3>1. Looping(s) /\ (r \in active[s] \/ ListsActive(s, r)) => InTime(r)
      BY <1>1, <1>6, <2>1, <2>4, LagTypes DEF Within, InTime, Lags, DrainSeen
    <3>2. ListsActive(s, r) => InTime(r)
      BY <2>1, <2>4 DEF Lags, DrainSeen
    <3> QED BY <1>3, <1>5, <1>7, <2>1, <3>1, <3>2
  <2> QED BY <2>3, <2>4
<1> QED BY <1>8, <1>9, <1>10, <1>11, <1>12, <1>13, <1>14 DEF Lags

\* A list shows the leases as they are.
LEMMA ListLeasesKeeps ==
    ASSUME Called, Lags, TypeOK', NEW t \in Replica, ListLeases(t)
    PROVE  Lags'
<1>1. /\ TypeOK /\ UNCHANGED <<lease, net, phase, active, draining, localDraining, due, timer, left, faults>>
      /\ list[t] = NoList /\ list'[t] = lease /\ lease # NoList
      /\ phase[t] = "discover" \/ (Looping(t) /\ event[t])
      /\ \A s \in Replica \ {t} : list'[s] = list[s] /\ event'[s] = event[s]
  BY NoListAssumption DEF Called, ListLeases, sets, clocks, bounds, TypeOK
<1>2. /\ Allowance' = Allowance
      /\ \A s \in Replica : (Looping(s)' <=> Looping(s)) /\ (Due(s)' <=> Due(s)) /\ (Late(s)' <=> Late(s))
      /\ \A s \in Replica : Present(s)' <=> Present(s)
  BY <1>1, AllowanceGrows DEF Looping, Due, Late, Present
<1>3. OwnLease'
  BY <1>1, <1>2 DEF Lags, OwnLease, Within
<1>4. ListFresh'
  BY <1>1 DEF Lags, ListFresh, Names
<1>5. ViewFresh'
  BY <1>1, <1>2 DEF Lags, ViewFresh, Within
<1>6. ListCurrent'
  BY <1>1, <1>2 DEF Lags, ListCurrent
<1>7. Unlabelled' /\ Labelled'
  BY <1>1, <1>2 DEF Lags, Unlabelled, Labelled, Within
<1>8. DrainSeen'
  <2> SUFFICES ASSUME NEW r \in Replica, NEW s \in Replica, Late(r)', lease'[r].draining
               PROVE  /\ ListsActive(s, r)' => InTime(r)'
                      /\ Looping(s)' /\ (r \in active'[s] \/ ListsActive(s, r)') =>
                            \/ InTime(r)' /\ (event'[s] \/ (list'[s] # NoList /\ ~ListsActive(s, r)'))
                            \/ Within(DrainDuration, left[r], s, Due(s))'
    BY DEF DrainSeen
  <2>1. Late(r) /\ lease[r].draining /\ (InTime(r)' <=> InTime(r))
    BY <1>1, <1>2 DEF InTime
  <2>2. Within(DrainDuration, left[r], s, Due(s))' <=> Within(DrainDuration, left[r], s, Due(s))
    BY <1>1, <1>2 DEF Within
  <2>3. CASE s = t
    <3>1. ~ListsActive(s, r)' /\ list'[s] # NoList
      BY <1>1, <2>1, <2>3 DEF ListsActive
    <3>2. ~ListsActive(s, r) /\ list[s] = NoList
      BY <1>1, <2>3 DEF ListsActive
    <3> QED BY <1>1, <1>2, <2>1, <2>2, <3>1, <3>2 DEF Lags, DrainSeen
  <2>4. CASE s # t
    <3>1. ListsActive(s, r)' <=> ListsActive(s, r)
      BY <1>1, <2>4 DEF ListsActive
    <3> QED BY <1>1, <1>2, <2>1, <2>2, <2>4, <3>1 DEF Lags, DrainSeen
  <2> QED BY <2>3, <2>4
<1> QED BY <1>3, <1>4, <1>5, <1>6, <1>7, <1>8 DEF Lags

\* What a view is replaced with comes from a list of this tick.
LEMMA UpdateKeeps ==
    ASSUME Called, Lags, TypeOK', NEW t \in Replica, UpdateActiveReplicas(t)
    PROVE  Lags'
<1>1. /\ TypeOK /\ UNCHANGED <<lease, net, localDraining, left, faults>>
      /\ list[t] # NoList /\ list'[t] = NoList
      /\ \A s \in Replica \ {t} :
            /\ list'[s] = list[s] /\ event'[s] = event[s] /\ phase'[s] = phase[s]
            /\ active'[s] = active[s] /\ draining'[s] = draining[s]
            /\ due'[s] = due[s] /\ timer'[s] = timer[s]
  BY DEF Called, UpdateActiveReplicas, bounds, TypeOK
<1>2. /\ \A k \in active'[t] : k \in Replica /\ ListsActive(t, k)
      /\ \A k \in active'[t] \cup draining'[t] : k = t \/ Names(list[t], k)
  <2>1. /\ active'[t] \subseteq ActiveIn(list[t])
        /\ draining'[t] \subseteq DrainingIn(list[t]) \cup {t}
    BY <1>1 DEF UpdateActiveReplicas, TypeOK, WithoutSelf, WithSelf
  <2> QED BY <1>1, <2>1 DEF ActiveIn, DrainingIn, Valid, ListsActive, Names
<1>3. \/ /\ phase[t] = "discover" /\ phase'[t] = "run" /\ timer'[t] = RenewInterval
         /\ due'[t] = TRUE /\ event'[t] = SomeLease
      \/ /\ phase[t] # "discover" /\ phase'[t] = phase[t] /\ timer'[t] = timer[t]
         /\ due'[t] = due[t] /\ event'[t] = event[t]
  BY <1>1 DEF UpdateActiveReplicas, TypeOK
<1>4. /\ Allowance' = Allowance /\ Allowance \in Nat /\ RenewInterval \in Nat
      /\ Allowance >= RenewInterval
  BY <1>1, AllowanceGrows
<1>5. /\ \A s \in Replica : (Late(s)' <=> Late(s)) /\ (Present(s)' <=> Present(s))
      /\ \A s \in Replica : s # t => (Looping(s)' <=> Looping(s)) /\ (Due(s)' <=> Due(s))
      /\ phase[t] # "discover" => (Looping(t)' <=> Looping(t)) /\ (Due(t)' <=> Due(t))
  BY <1>1, <1>3 DEF Late, Present, Looping, Due
<1>6. OwnLease'
  <2> SUFFICES ASSUME NEW s \in Replica
               PROVE  /\ Present(s)' => lease'[s] # NoLease
                      /\ phase'[s] = "discover" => lease'[s].age = 0
                      /\ Looping(s)' => Within(lease[s].age, 0, s, Due(s))'
    BY DEF OwnLease
  <2>1. CASE s = t /\ phase[t] = "discover"
    BY <1>1, <1>3, <1>4, <1>5, <2>1 DEF Lags, OwnLease, Within
  <2>2. CASE s # t \/ phase[t] # "discover"
    BY <1>1, <1>3, <1>4, <1>5, <2>2 DEF Lags, OwnLease, Within
  <2> QED BY <2>1, <2>2
<1>7. ListFresh'
  BY <1>1 DEF Lags, ListFresh, Names
<1>8. ViewFresh'
  <2> SUFFICES ASSUME NEW k \in Replica, NEW s \in Replica, Looping(s)', lease'[k] # NoLease,
                      k # s, k \in active'[s] \cup draining'[s]
               PROVE  Within(lease[k].age, LeaseDuration, s, Due(s) \/ event[s] \/ list[s] # NoList)'
    BY DEF ViewFresh
  <2>1. CASE s = t
    <3>1. lease[k].age < LeaseDuration
      BY <1>1, <1>2, <2>1 DEF Lags, ListFresh
    <3>2. timer'[s] \in Nat /\ timer'[s] <= RenewInterval
      BY TimingAssumption DEF TypeOK
    <3>3. lease[k].age \in Nat /\ LeaseDuration \in Nat
      BY <1>1, LagTypes
    <3> QED BY <1>1, <1>4, <3>1, <3>2, <3>3 DEF Within
  <2>2. CASE s # t
    BY <1>1, <1>4, <1>5, <2>2 DEF Lags, ViewFresh, Within
  <2> QED BY <2>1, <2>2
<1>9. ListCurrent'
  <2>1. \A k \in Replica : phase'[k] \in {"discover", "run"} => phase[k] \in {"discover", "run"}
    BY <1>1, <1>3
  <2> QED BY <1>1, <1>5, <2>1 DEF Lags, ListCurrent
<1>10. Unlabelled' /\ Labelled'
  <2>1. \A k \in Replica : /\ phase'[k] \in {"discover", "run"} => phase[k] \in {"discover", "run"}
                           /\ phase'[k] = "register" => phase[k] = "register"
                           /\ phase'[k] = "mark" => phase[k] = "mark"
    BY <1>1, <1>3
  <2>2. Unlabelled'
    BY <1>1, <2>1 DEF Lags, Unlabelled
  <2>3. \A k \in Replica : Late(k) => timer'[k] = timer[k] /\ (Due(k)' <=> Due(k))
    BY <1>1, <1>3, <1>5 DEF Late
  <2> QED BY <1>1, <1>4, <1>5, <2>1, <2>2, <2>3 DEF Lags, Labelled, Within
<1>11. DrainSeen'
  <2> SUFFICES ASSUME NEW r \in Replica, NEW s \in Replica, Late(r)', lease'[r].draining
               PROVE  /\ ListsActive(s, r)' => InTime(r)'
                      /\ Looping(s)' /\ (r \in active'[s] \/ ListsActive(s, r)') =>
                            \/ InTime(r)' /\ (event'[s] \/ (list'[s] # NoList /\ ~ListsActive(s, r)'))
                            \/ Within(DrainDuration, left[r], s, Due(s))'
    BY DEF DrainSeen
  <2>1. Late(r) /\ lease[r].draining /\ (InTime(r)' <=> InTime(r))
    BY <1>1, <1>4, <1>5 DEF InTime
  <2>2. CASE s = t
    <3>1. ~ListsActive(s, r)' /\ list'[s] = NoList
      BY <1>1, <2>2 DEF ListsActive
    <3>2. r \in active'[s] => ListsActive(s, r)
      BY <1>2, <2>2
    <3>3. ListsActive(s, r) => InTime(r)
      BY <2>1 DEF Lags, DrainSeen
    <3>4. CASE phase[t] = "discover"
      <4>1. lease[r] # NoLease
        BY <2>1 DEF Late, Present, Lags, OwnLease
      <4>2. event'[s]
        BY <1>3, <2>2, <3>4, <4>1 DEF SomeLease
      <4> QED BY <2>1, <3>1, <3>2, <3>3, <4>2
    <3>5. CASE phase[t] # "discover"
      <4>1. Within(DrainDuration, left[r], s, Due(s))' <=> Within(DrainDuration, left[r], s, Due(s))
        BY <1>1, <1>3, <1>4, <1>5, <2>2, <3>5 DEF Within
      <4>2. event'[s] = event[s] /\ (Looping(s)' <=> Looping(s))
        BY <1>3, <1>5, <2>2, <3>5
      <4> QED BY <2>1, <3>1, <3>2, <3>3, <4>1, <4>2 DEF Lags, DrainSeen
    <3> QED BY <3>4, <3>5
  <2>3. CASE s # t
    <3>1. ListsActive(s, r)' <=> ListsActive(s, r)
      BY <1>1, <2>3 DEF ListsActive
    <3>2. Within(DrainDuration, left[r], s, Due(s))' <=> Within(DrainDuration, left[r], s, Due(s))
      BY <1>1, <1>4, <1>5, <2>3 DEF Within
    <3> QED BY <1>1, <1>5, <2>1, <2>3, <3>1, <3>2 DEF Lags, DrainSeen
  <2> QED BY <2>2, <2>3
<1> QED BY <1>6, <1>7, <1>8, <1>9, <1>10, <1>11 DEF Lags

\* A tick takes one off the timer of a renewal loop, or finds it run out and
\* makes a renewal due.
LEMMA TimerRuns ==
    ASSUME TypeOK, Tick, NEW s \in Replica, Looping(s),
           NEW n \in Nat, NEW base \in Nat, n + timer[s] <= base + Allowance,
           NEW m \in Nat, NEW limit \in Nat, m + base <= n + limit + 1
    PROVE  \/ m + timer'[s] <= limit + Allowance
           \/ due'[s] /\ timer'[s] = RenewInterval /\ m <= limit + Allowance
<1>1. Allowance \in Nat /\ timer[s] \in Nat /\ timer[s] >= 1
  BY AllowanceGrows, LagTypes
<1>2. m + timer[s] <= limit + Allowance + 1
  BY <1>1
<1>3. CASE timer[s] > 1
  BY <1>1, <1>2, <1>3 DEF Tick
<1>4. CASE timer[s] = 1
  <2>1. /\ due' = [r \in Replica |-> due[r] \/ (Looping(r) /\ timer[r] = 1)]
        /\ timer' = [r \in Replica |->
                       IF Looping(r) /\ timer[r] > 1 THEN timer[r] - 1 ELSE RenewInterval]
    BY DEF Tick
  <2>2. due'[s] = (due[s] \/ (Looping(s) /\ timer[s] = 1))
    BY <2>1, Zenon
  <2>3. timer'[s] = RenewInterval
    BY <1>4, <2>1
  <2>4. m <= limit + Allowance
    BY <1>1, <1>2, <1>4
  <2> QED BY <1>4, <2>2, <2>3, <2>4
<1> QED BY <1>1, <1>3, <1>4

\* Time passes only when nothing is outstanding.
LEMMA TickKeeps ==
    ASSUME Called, Lags, TypeOK', PromptTick
    PROVE  Lags'
<1>1. /\ TypeOK /\ Tick /\ net = {} /\ net' = {}
      /\ UNCHANGED <<phase, active, draining, localDraining, event, faults>>
      /\ \A s \in Replica : /\ list[s] = NoList /\ list'[s] = NoList
                            /\ ~event[s] /\ ~due[s] /\ ~Due(s)
                            /\ phase[s] \notin {"register", "discover", "mark", "delete"}
                            /\ phase[s] = "drain" => left[s] > 0
  BY DEF Called, NetIsFresh, PromptTick, Quiet, Tick, Due, sets, bounds
<1>2. /\ Allowance' = Allowance /\ Allowance \in Nat /\ RenewInterval \in Nat
      /\ Allowance >= RenewInterval
      /\ \A s \in Replica : (Looping(s)' <=> Looping(s)) /\ (due'[s] => Due(s)')
  BY <1>1, AllowanceGrows DEF Looping, Due
<1>3. \A s \in Replica :
        /\ lease'[s] = NoLease <=> lease[s] = NoLease
        /\ lease[s] # NoLease => /\ lease'[s].draining = lease[s].draining
                                 /\ lease[s].age \in Nat /\ lease'[s].age \in Nat
                                 /\ lease'[s].age <= lease[s].age + 1
  <2> SUFFICES ASSUME NEW s \in Replica
               PROVE  /\ lease'[s] = NoLease <=> lease[s] = NoLease
                      /\ lease[s] # NoLease => /\ lease'[s].draining = lease[s].draining
                                               /\ lease[s].age \in Nat /\ lease'[s].age \in Nat
                                               /\ lease'[s].age <= lease[s].age + 1
    OBVIOUS
  <2>1. lease'[s] = Aged(lease[s])
    BY <1>1 DEF Tick
  <2>2. CASE lease[s] = NoLease
    BY <2>1, <2>2 DEF Aged
  <2>3. CASE lease[s] # NoLease
    <3>1. lease[s] \in Lease /\ lease[s].age \in Nat
      BY <1>1, <2>3, LagTypes
    <3>2. lease'[s] = [lease[s] EXCEPT !.age = Older(lease[s].age)]
      BY <2>1, <2>3 DEF Aged
    <3>3. lease'[s].age = Older(lease[s].age) /\ lease'[s].draining = lease[s].draining
      BY <3>1, <3>2 DEF Lease
    <3>4. Older(lease[s].age) \in Nat /\ Older(lease[s].age) <= lease[s].age + 1
      BY <3>1 DEF Older
    <3>5. lease'[s] # NoLease
      BY <3>1, <3>2, OlderType, NoLeaseAssumption DEF Lease
    <3> QED BY <2>3, <3>1, <3>3, <3>4, <3>5
  <2> QED BY <2>2, <2>3
<1>4. \A r \in Replica : Late(r)' =>
        /\ phase[r] = "drain" /\ left[r] \in Nat /\ left[r] > 0
        /\ left'[r] = left[r] - 1 /\ left'[r] \in Nat
        /\ Late(r) \/ left[r] = DrainDuration
  <2> SUFFICES ASSUME NEW r \in Replica, Late(r)'
               PROVE  /\ phase[r] = "drain" /\ left[r] \in Nat /\ left[r] > 0
                      /\ left'[r] = left[r] - 1 /\ left'[r] \in Nat
                      /\ Late(r) \/ left[r] = DrainDuration
    OBVIOUS
  <2>1. phase[r] = "drain" /\ left[r] \in Nat /\ left[r] > 0 /\ left[r] <= DrainDuration
        /\ DrainDuration \in Nat
    BY <1>1, LagTypes DEF Late
  <2>2. left'[r] = left[r] - 1
    BY <1>1, <2>1 DEF Tick
  <2> QED BY <2>1, <2>2 DEF Late
<1>5. ASSUME NEW r \in Replica, Late(r)', NEW s \in Replica, Looping(s),
             Late(r) => DrainDuration + timer[s] <= left[r] + Allowance
      PROVE  Within(DrainDuration, left[r], s, Due(s))'
  <2>1. /\ DrainDuration \in Nat /\ left[r] \in Nat /\ left'[r] \in Nat /\ left'[r] = left[r] - 1
        /\ timer[s] \in Nat /\ timer[s] <= RenewInterval
    BY <1>1, <1>4, <1>5, LagTypes
  <2>2. DrainDuration + timer[s] <= left[r] + Allowance
    BY <1>2, <1>4, <1>5, <2>1
  <2>3. DrainDuration + left[r] <= DrainDuration + left'[r] + 1
    BY <2>1
  <2>4. \/ DrainDuration + timer'[s] <= left'[r] + Allowance
        \/ due'[s] /\ timer'[s] = RenewInterval /\ DrainDuration <= left'[r] + Allowance
    BY <1>1, <1>5, <2>1, <2>2, <2>3, TimerRuns
  <2> QED BY <1>2, <2>4 DEF Within
<1>6. OwnLease'
  <2> SUFFICES ASSUME NEW s \in Replica
               PROVE  /\ Present(s)' => lease'[s] # NoLease
                      /\ phase'[s] = "discover" => lease'[s].age = 0
                      /\ Looping(s)' => Within(lease[s].age, 0, s, Due(s))'
    BY DEF OwnLease
  <2>1. ASSUME Looping(s) PROVE Within(lease[s].age, 0, s, Due(s))'
    <3>1. lease[s] # NoLease /\ lease[s].age + timer[s] <= 0 + Allowance
      BY <1>1, <2>1 DEF Lags, OwnLease, Within, Looping, Present
    <3>2. /\ lease[s].age \in Nat /\ lease'[s].age \in Nat
          /\ lease'[s].age + 0 <= lease[s].age + 0 + 1
      BY <1>3, <3>1
    <3>3. \/ lease'[s].age + timer'[s] <= 0 + Allowance
          \/ due'[s] /\ timer'[s] = RenewInterval /\ lease'[s].age <= 0 + Allowance
      BY <1>1, <2>1, <3>1, <3>2, TimerRuns
    <3> QED BY <1>2, <3>3 DEF Within
  <2>2. Present(s)' => lease'[s] # NoLease
    BY <1>1, <1>3 DEF Lags, OwnLease, Present
  <2> QED BY <1>1, <1>2, <2>1, <2>2
<1>7. ListFresh' /\ ListCurrent'
  BY <1>1 DEF ListFresh, ListCurrent
<1>8. ViewFresh'
  <2> SUFFICES ASSUME NEW r \in Replica, NEW s \in Replica, Looping(s)', lease'[r] # NoLease,
                      r # s, r \in active'[s] \cup draining'[s]
               PROVE  Within(lease[r].age, LeaseDuration, s, Due(s) \/ event[s] \/ list[s] # NoList)'
    BY DEF ViewFresh
  <2>1. Looping(s) /\ lease[r] # NoLease /\ lease[r].age + timer[s] <= LeaseDuration + Allowance
    BY <1>1, <1>2, <1>3 DEF Lags, ViewFresh, Within
  <2>2. /\ lease[r].age \in Nat /\ lease'[r].age \in Nat /\ LeaseDuration \in Nat
        /\ lease'[r].age + LeaseDuration <= lease[r].age + LeaseDuration + 1
    BY <1>1, <1>3, <2>1, LagTypes
  <2>3. \/ lease'[r].age + timer'[s] <= LeaseDuration + Allowance
        \/ due'[s] /\ timer'[s] = RenewInterval /\ lease'[r].age <= LeaseDuration + Allowance
    BY <1>1, <2>1, <2>2, TimerRuns
  <2> QED BY <1>2, <2>3 DEF Within
<1>9. Unlabelled'
  BY <1>1, <1>3 DEF Lags, Unlabelled, OwnLease, Present
<1>10. Labelled'
  <2> SUFFICES ASSUME NEW s \in Replica
               PROVE  /\ phase'[s] = "mark" => left'[s] = DrainDuration
                      /\ Late(s)' => \A q \in net' : q.from = s => q.draining
                      /\ Late(s)' /\ ~lease'[s].draining => Within(DrainDuration, left[s], s, Due(s))'
    BY DEF Labelled
  <2>1. ASSUME Late(s)', ~lease'[s].draining PROVE Within(DrainDuration, left[s], s, Due(s))'
    <3>1. Looping(s) /\ ~lease[s].draining
      BY <1>3, <1>4, <2>1 DEF Lags, OwnLease, Looping, Present
    <3>2. Late(s) => DrainDuration + timer[s] <= left[s] + Allowance
      BY <1>1, <3>1 DEF Lags, Labelled, Within
    <3> QED BY <1>5, <2>1, <3>1, <3>2
  <2> QED BY <1>1, <2>1
<1>11. DrainSeen'
  <2> SUFFICES ASSUME NEW r \in Replica, NEW s \in Replica, Late(r)', lease'[r].draining,
                      Looping(s)', r \in active'[s]
               PROVE  Within(DrainDuration, left[r], s, Due(s))'
    BY <1>1 DEF DrainSeen, ListsActive
  <2>1. Looping(s) /\ r \in active[s] /\ lease[r].draining
    BY <1>1, <1>2, <1>3, <1>4 DEF Lags, OwnLease, Present
  <2>2. Late(r) => DrainDuration + timer[s] <= left[r] + Allowance
    BY <1>1, <2>1 DEF Lags, DrainSeen, Within
  <2> QED BY <1>5, <2>1, <2>2
<1> QED BY <1>6, <1>7, <1>8, <1>9, <1>10, <1>11 DEF Lags

\* Callers that leave take their requests along and send what they sent.
LEMMA LeaveOthers ==
    ASSUME net \subseteq Request, NEW r \in Replica, NEW dropped \in SUBSET net, NEW sent,
           LeaveAndSend(dropped, sent),
           \A q \in dropped \cup sent : q.from = r
    PROVE  \A s \in Replica \ {r} : \A q \in net \cup net' :
              q.from = s => (q \in net' <=> q \in net)
<1>1. PICK late \in SUBSET dropped :
        net' = (net \ dropped) \cup sent \cup {[q EXCEPT !.by = "none"] : q \in late}
  BY DEF LeaveAndSend
<1>2. \A q \in {[p EXCEPT !.by = "none"] : p \in late} : q.from = r
  BY DEF Request
<1> QED BY <1>1, <1>2

\* Every other step either takes a process away or leaves things as they are.
LEMMA LagsStep ==
    ASSUME Called, Lags, TypeOK', [PromptNext]_vars
    PROVE  Lags'
<1>0. /\ TypeOK /\ Lifecycle /\ NetIsFresh /\ net \subseteq Request
      /\ \A q \in net : /\ q.from \in Replica /\ q.by \in {"main", "loop"}
                        /\ q.by = "loop" => Looping(q.from) /\ q.verb # "DELETE"
                        /\ q.by = "main" => /\ phase[q.from] \in {"register", "mark", "delete"}
                                            /\ q.verb = "DELETE" <=> phase[q.from] = "delete"
  BY DEF Called, NetIsFresh, Lifecycle, TypeOK, Request
<1>1. ASSUME NEW r \in Replica, Start(r) PROVE Lags'
  <2>1. /\ UNCHANGED <<lease, timer, active, draining, list, event, due, left, faults>>
        /\ net' = net \cup {Renewal(r, "main", FALSE)}
        /\ phase[r] = "down" /\ phase'[r] = "register"
        /\ \A s \in Replica \ {r} : phase'[s] = phase[s]
    <3>1. localDraining[r] = FALSE
      BY <1>0, <1>1 DEF Start, Lifecycle, TypeOK
    <3> QED BY <1>0, <1>1, <3>1 DEF Start, TypeOK, sets, clocks
  <2>2. \A q \in net : q.from # r
    BY <1>0, <2>1 DEF Looping
  <2>3. \A q \in net' : q \in net \/ (q.from = r /\ q.draining = FALSE)
    BY <2>1 DEF Renewal
  <2>4. \A s \in Replica : Looping(s)' => Looping(s) /\ s # r
    BY <2>1 DEF Looping
  <2>5. \A s \in Replica : Late(s)' => Late(s) /\ s # r
    BY <2>1 DEF Late
  <2>6. Steady
    BY <2>1, <2>2, <2>3, <2>4, <2>5 DEF Steady, Due, Lags, Unlabelled, Labelled
  <2> QED BY <2>6, SteadyKeeps
<1>2. ASSUME NEW r \in Replica, Sigterm(r) PROVE Lags'
  <2>1. /\ UNCHANGED <<lease, timer, active, draining, list, event, due, faults>>
        /\ net' = net \cup {Renewal(r, "main", TRUE)}
        /\ phase[r] = "run" /\ phase'[r] = "mark" /\ left'[r] = DrainDuration
        /\ \A s \in Replica \ {r} : phase'[s] = phase[s] /\ left'[s] = left[s]
    BY <1>0, <1>2 DEF Sigterm, TypeOK, bounds
  <2>2. \A q \in net' : q \in net \/ q.from = r
    BY <2>1 DEF Renewal
  <2>3. \A s \in Replica : Looping(s)' => Looping(s)
    BY <2>1 DEF Looping
  <2>4. \A s \in Replica : Late(s)' => Late(s) /\ s # r
    BY <2>1 DEF Late
  <2>5. Steady
    BY <2>1, <2>2, <2>3, <2>4 DEF Steady, Due, Lags, Unlabelled, Labelled
  <2> QED BY <2>5, SteadyKeeps
<1>3. ASSUME NEW r \in Replica, AbortAndDelete(r) PROVE Lags'
  <2> DEFINE dropped == CallsOf(r, {"loop"})
             sent == {[from |-> r, by |-> "main", verb |-> "DELETE",
                       draining |-> TRUE, age |-> 0]}
  <2>1. /\ LeaveAndSend(dropped, sent) /\ dropped \in SUBSET net
        /\ \A q \in dropped \cup sent : q.from = r
    BY <1>3 DEF AbortAndDelete, CallsOf
  <2>2. \A s \in Replica \ {r} : \A q \in net \cup net' : q.from = s => (q \in net' <=> q \in net)
    <3> HIDE DEF dropped, sent
    <3> QED BY <1>0, <2>1, LeaveOthers
  <2>3. Departed(r)
    BY <1>0, <1>3, <2>2 DEF AbortAndDelete, Departed, TypeOK, bounds
  <2> QED BY <2>3, DepartKeeps
<1>4. ASSUME NEW r \in Replica, Crash(r) PROVE Lags'
  <2> DEFINE dropped == CallsOf(r, {"main", "loop"})
  <2>1. /\ LeaveAndSend(dropped, {}) /\ dropped \in SUBSET net
        /\ \A q \in dropped \cup {} : q.from = r
    BY <1>4 DEF Crash, Leave, CallsOf
  <2>2. \A s \in Replica \ {r} : \A q \in net \cup net' : q.from = s => (q \in net' <=> q \in net)
    <3> HIDE DEF dropped
    <3> QED BY <1>0, <2>1, LeaveOthers
  <2>3. Departed(r)
    BY <1>0, <1>4, <2>2 DEF Crash, Exit, Departed, TypeOK
  <2> QED BY <2>3, DepartKeeps
<1>5. ASSUME NEW r \in Replica, GarbageCollect(r) PROVE Lags'
  <2>1. Departed(r)
    BY <1>0, <1>5 DEF GarbageCollect, Departed, TypeOK, sets, clocks, bounds
  <2> QED BY <2>1, DepartKeeps
<1>6. ASSUME NEW r \in Replica, RenewTick(r) PROVE Lags'
  <2>1. /\ UNCHANGED <<lease, timer, active, draining, list, event, phase, left, faults>>
        /\ net' = net \cup {Renewal(r, "loop", localDraining[r])}
        /\ \A s \in Replica \ {r} : due'[s] = due[s]
    BY <1>0, <1>6 DEF RenewTick, TypeOK, sets, bounds
  <2>2. \A q \in net' : q \in net \/ (q.from = r /\ q.draining = localDraining[r])
    BY <2>1 DEF Renewal
  <2>3. \E q \in net' : q.from = r /\ q.by = "loop"
    <3> DEFINE renewal == Renewal(r, "loop", localDraining[r])
    <3>1. renewal.from = r /\ renewal.by = "loop"
      BY DEF Renewal
    <3>2. renewal \in net'
      BY <2>1
    <3> HIDE DEF renewal
    <3> QED BY <3>1, <3>2
  <2>4. \A s \in Replica : /\ Due(s) => Due(s)'
                           /\ Looping(s)' <=> Looping(s)
                           /\ Late(s)' <=> Late(s)
    BY <2>1, <2>3 DEF Due, Looping, Late
  <2>5. \A s \in Replica : /\ phase[s] \in {"register", "discover", "run"} => localDraining[s] = FALSE
                           /\ Late(s) => localDraining[s] = TRUE
    BY <1>0 DEF Lifecycle, Late, TypeOK
  <2>6. Steady
    BY <2>1, <2>2, <2>4, <2>5 DEF Steady, Lags, Unlabelled, Labelled
  <2> QED BY <2>6, SteadyKeeps
<1>7. ASSUME NEW q \in net, Conflict(q) PROVE Lags'
  <2>1. /\ UNCHANGED <<lease, timer, active, draining, list, event, phase, due, left, faults>>
        /\ net' = (net \ {q}) \cup {[q EXCEPT !.verb = "PATCH"]}
    BY <1>0, <1>7 DEF Conflict, sets, clocks, bounds
  <2> DEFINE patch == [q EXCEPT !.verb = "PATCH"]
  <2>2. patch.from = q.from /\ patch.by = q.by /\ patch.draining = q.draining
    BY <1>0 DEF Request
  <2>3. \A p \in net' : \E o \in net : o.from = p.from /\ o.draining = p.draining
    BY <2>1, <2>2
  <2>4. \A o \in net : \E p \in net' : p.from = o.from /\ p.by = o.by
    BY <2>1, <2>2
  <2>5. \A s \in Replica : /\ Due(s) => Due(s)'
                           /\ Looping(s)' <=> Looping(s)
                           /\ Late(s)' <=> Late(s)
    BY <2>1, <2>4 DEF Due, Looping, Late
  <2>6. Steady
    <3> HIDE DEF patch
    <3> QED BY <2>1, <2>3, <2>5 DEF Steady, Lags, Unlabelled, Labelled
  <2> QED BY <2>6, SteadyKeeps
<1>8. ASSUME NEW q \in net, Deleted(q) PROVE Lags'
  <2>1. q.by = "main" /\ q.from \in Replica /\ q.verb = "DELETE"
    BY <1>0, <1>8 DEF Deleted
  <2>2. Departed(q.from)
    BY <1>0, <1>8, <2>1 DEF Deleted, Exit, Departed, TypeOK, bounds
  <2> QED BY <2>1, <2>2, DepartKeeps
<1>9. ASSUME NEW q \in net, CallFails(q) PROVE Lags'
  <2>1. LeaveAndSend({q}, {}) /\ faults' = faults + 1 /\ q.from \in Replica
    BY <1>0, <1>9 DEF CallFails, Leave
  <2>2. CASE q.by = "main" /\ phase[q.from] \in {"register", "delete"}
    <3>1. \A s \in Replica \ {q.from} : \A p \in net \cup net' :
            p.from = s => (p \in net' <=> p \in net)
      BY <1>0, <2>1, LeaveOthers
    <3>2. Departed(q.from)
      BY <1>0, <1>9, <2>1, <2>2, <3>1 DEF CallFails, Exit, Departed, TypeOK
    <3> QED BY <2>1, <3>2, DepartKeeps
  <2>3. CASE ~(q.by = "main" /\ phase[q.from] \in {"register", "delete"})
    <3>1. /\ UNCHANGED <<lease, timer, active, draining, list, event, due, left>>
          /\ phase' = Answered(q)
      BY <1>9, <2>3 DEF CallFails, sets, clocks
    <3>2. \A s \in Replica : phase'[s] = phase[s] \/ (phase[s] = "mark" /\ phase'[s] = "drain")
      BY <1>0, <2>3, <3>1 DEF Answered, TypeOK
    <3>3. \A p \in net' : \E o \in net : o.from = p.from /\ o.draining = p.draining
      <4>1. {q} \in SUBSET net
        OBVIOUS
      <4> QED BY <1>0, <2>1, <4>1, LeaveNet
    <3>4. \A s \in Replica : /\ Looping(s)' <=> Looping(s)
                             /\ Late(s)' => Late(s)
                             /\ phase[s] = "mark" => left[s] = DrainDuration
      BY <3>1, <3>2, <1>0, LagTypes DEF Looping, Late, Lags, Labelled
    <3>5. Steady
      BY <2>1, <3>1, <3>2, <3>3, <3>4 DEF Steady, Lags, Unlabelled, Labelled
    <3> QED BY <3>5, SteadyKeeps
  <2> QED BY <2>2, <2>3
<1>10. ASSUME NEW r \in Replica, WatchResync(r) PROVE Lags'
  <2>1. /\ UNCHANGED <<lease, net, timer, active, draining, list, phase, due, left>>
        /\ faults' = faults + 1 /\ \A s \in Replica : event[s] => event'[s]
    BY <1>0, <1>10 DEF WatchResync, TypeOK, sets, clocks
  <2>2. Steady
    BY <2>1 DEF Steady, Due, Looping, Late, Lags, Unlabelled, Labelled
  <2> QED BY <2>2, SteadyKeeps
<1>11. ASSUME NEW r \in Replica, ListFails(r) PROVE Lags'
  <2>1. CASE phase[r] = "discover"
    <3>1. Departed(r)
      BY <1>0, <1>11, <2>1 DEF ListFails, Exit, Departed, TypeOK
    <3> QED BY <3>1, DepartKeeps
  <2>2. CASE phase[r] # "discover"
    <3>1. /\ UNCHANGED <<lease, net, timer, active, draining, event, phase, due, left>>
          /\ faults' = faults + 1
          /\ \A s \in Replica : list'[s] = list[s] \/ list'[s] = NoList
      BY <1>0, <1>11, <2>2 DEF ListFails, TypeOK, sets, clocks
    <3>2. Steady
      BY <3>1 DEF Steady, Due, Looping, Late, Lags, Unlabelled, Labelled
    <3> QED BY <3>2, SteadyKeeps
  <2> QED BY <2>1, <2>2
<1>12. CASE UNCHANGED vars
  <2>1. Steady
    BY <1>12 DEF Steady, Due, Looping, Late, Lags, Unlabelled, Labelled, vars, sets, clocks, bounds
  <2> QED BY <2>1, SteadyKeeps
<1>13. ASSUME NEW q \in net, q.verb # "DELETE", Stored(q) PROVE Lags'
  BY <1>13, StoredKeeps
<1>14. ASSUME NEW q \in net, LateLost(q) PROVE Lags'
  BY <1>0, <1>14 DEF LateLost
<1> QED
  BY <1>1, <1>2, <1>3, <1>4, <1>5, <1>6, <1>7, <1>8, <1>9, <1>10, <1>11, <1>12, <1>13, <1>14,
     ListLeasesKeeps, UpdateKeeps, TickKeeps, SMTT(30)
  DEF PromptNext, Act, ReplicaStep, DrainOver, SecondSignal, Sigint, Serve, Created, Applied

\* What is in flight is as old as the current tick.
LEMMA FreshStep ==
    ASSUME MaxLate = 0, Called, CallersAlive', [PromptNext]_vars
    PROVE  NetIsFresh'
<1>0. /\ TypeOK /\ NetIsFresh /\ net \subseteq Request
      /\ \A q \in net' : q.by # "none"
      /\ \A q \in net : q.age = 0 /\ (q.by = "loop" => q.verb # "DELETE")
  BY DEF Called, NetIsFresh, TypeOK, CallersAlive
<1> SUFFICES ASSUME NEW q \in net', q \notin net
             PROVE  q.age = 0 /\ (q.by = "loop" => q.verb # "DELETE")
  BY <1>0 DEF NetIsFresh
<1>1. ASSUME NEW r \in Replica, NEW task, NEW flag, net' = net \cup {Renewal(r, task, flag)}
      PROVE  q.age = 0 /\ (q.by = "loop" => q.verb # "DELETE")
  BY <1>1 DEF Renewal
<1>2. ASSUME NEW dropped \in SUBSET net, NEW sent \in SUBSET Request, LeaveAndSend(dropped, sent),
             \A p \in sent : p.age = 0 /\ p.by = "main"
      PROVE  q.age = 0 /\ (q.by = "loop" => q.verb # "DELETE")
  BY <1>0, <1>2, LeaveCalled
<1>3. ASSUME NEW r \in Replica, AbortAndDelete(r)
      PROVE  q.age = 0 /\ (q.by = "loop" => q.verb # "DELETE")
  <2> DEFINE dropped == CallsOf(r, {"loop"})
             sent == {[from |-> r, by |-> "main", verb |-> "DELETE",
                       draining |-> TRUE, age |-> 0]}
  <2>1. LeaveAndSend(dropped, sent) /\ dropped \in SUBSET net
    BY <1>3 DEF AbortAndDelete, CallsOf
  <2>2. sent \in SUBSET Request /\ \A p \in sent : p.age = 0 /\ p.by = "main"
    BY TimingAssumption DEF Request, Age
  <2> HIDE DEF dropped, sent
  <2> QED BY <1>2, <2>1, <2>2
<1>4. ASSUME NEW r \in Replica, Crash(r)
      PROVE  q.age = 0 /\ (q.by = "loop" => q.verb # "DELETE")
  <2> DEFINE dropped == CallsOf(r, {"main", "loop"})
  <2>1. LeaveAndSend(dropped, {}) /\ dropped \in SUBSET net
    BY <1>4 DEF Crash, Leave, CallsOf
  <2> HIDE DEF dropped
  <2> QED BY <1>2, <2>1
<1>5. ASSUME NEW p \in net, CallFails(p)
      PROVE  q.age = 0 /\ (q.by = "loop" => q.verb # "DELETE")
  <2>1. LeaveAndSend({p}, {}) /\ {p} \in SUBSET net
    BY <1>5 DEF CallFails, Leave
  <2> QED BY <1>2, <2>1
<1>6. ASSUME NEW p \in net, Conflict(p)
      PROVE  q.age = 0 /\ (q.by = "loop" => q.verb # "DELETE")
  <2>1. q = [p EXCEPT !.verb = "PATCH"] /\ p \in Request
    BY <1>0, <1>6 DEF Conflict
  <2> QED BY <1>0, <2>1 DEF Request
<1>7. CASE PromptTick
  BY <1>0, <1>7 DEF PromptTick, Quiet, Tick, NetIsFresh
<1>8. CASE net' \subseteq net
  BY <1>8
<1> QED BY ZenonT(30), <1>1, <1>3, <1>4, <1>5, <1>6, <1>7, <1>8
        DEF PromptNext, Act, ReplicaStep, Start, Sigterm, DrainOver, SecondSignal, Sigint,
            GarbageCollect, RenewTick, ListLeases, WatchResync, UpdateActiveReplicas,
            ListFails, Serve, Created, Applied, Stored, Deleted, LateLost, vars

\* Only discovery, before its loop or in it, has a list to process.
Listing == \A s \in Replica : list[s] # NoList => Present(s)

\* A process that leaves the phases of discovery drops its list.
LEMMA ListingStep ==
    ASSUME TypeOK, Lifecycle, Listing, [PromptNext]_vars
    PROVE  Listing'
<1>0. phase \in [Replica -> Phase] /\ \A q \in net : q.from \in Replica
  BY DEF TypeOK, Request
<1> SUFFICES ASSUME NEW s \in Replica, list'[s] # NoList, ~Present(s)'
             PROVE  FALSE
  BY DEF Listing
<1>1. ASSUME list[s] # NoList PROVE Present(s)
  BY <1>1 DEF Listing
<1>2. ASSUME NEW r \in Replica, Exit(r), list' = [list EXCEPT ![r] = NoList] PROVE FALSE
  BY <1>0, <1>1, <1>2 DEF Exit, Present, TypeOK
<1>3. ASSUME NEW r \in Replica, AbortAndDelete(r) PROVE FALSE
  BY <1>0, <1>1, <1>3 DEF AbortAndDelete, Present, TypeOK
<1>4. ASSUME NEW q \in net, phase' = Answered(q), list' = list,
             q.by = "main" => phase[q.from] # "delete"
      PROVE  FALSE
  <2>1. q.by = "main" => phase[q.from] \in {"register", "mark"}
    BY <1>4 DEF Lifecycle
  <2> QED BY <1>0, <1>1, <1>4, <2>1 DEF Answered, Present
<1>5. ASSUME NEW q \in net, q.verb # "DELETE", Stored(q) PROVE FALSE
  <2>1. q.by = "main" => phase[q.from] # "delete"
    BY <1>5 DEF Lifecycle
  <2> QED BY <1>4, <1>5, <2>1 DEF Stored
<1>6. ASSUME NEW q \in net, Deleted(q) PROVE FALSE
  BY <1>0, <1>1, <1>2, <1>6 DEF Deleted, Exit, Present
<1>7. ASSUME NEW q \in net, CallFails(q) PROVE FALSE
  BY <1>0, <1>2, <1>4, <1>7 DEF CallFails, Exit
<1>8. ASSUME NEW r \in Replica,
             Start(r) \/ Sigterm(r) \/ GarbageCollect(r) \/ UpdateActiveReplicas(r) \/ ListLeases(r)
      PROVE  FALSE
  <2>1. CASE Start(r) \/ Sigterm(r) \/ GarbageCollect(r)
    <3>1. /\ list' = list
          /\ phase[r] \in {"down", "run", "gone"}
          /\ phase[r] = "run" => phase'[r] = "mark"
          /\ \A t \in Replica \ {r} : phase'[t] = phase[t]
      BY <1>0, <2>1 DEF Start, Sigterm, GarbageCollect, Up, Phase, sets
    <3> QED BY <1>1, <3>1 DEF Present
  <2>2. CASE UpdateActiveReplicas(r)
    <3>1. /\ list'[s] # NoList => list'[s] = list[s]
          /\ phase'[s] = phase[s] \/ phase'[s] = "run"
      BY <1>0, <2>2 DEF UpdateActiveReplicas, TypeOK
    <3> QED BY <1>1, <3>1 DEF Present
  <2>3. CASE ListLeases(r)
    <3>1. phase' = phase /\ (s # r => list'[s] = list[s]) /\ Present(r)
      BY <2>3 DEF ListLeases, Present, Looping, TypeOK
    <3> QED BY <1>1, <3>1 DEF Present
  <2> QED BY <1>8, <2>1, <2>2, <2>3
<1>9. ASSUME NEW r \in Replica, Crash(r) \/ ListFails(r) PROVE FALSE
  BY <1>0, <1>1, <1>2, <1>9 DEF Crash, ListFails, Exit, Present, TypeOK
<1>10. CASE phase' = phase /\ (list' = list \/ PromptTick)
  BY <1>1, <1>10 DEF Present, PromptTick, Tick
<1> QED BY <1>3, <1>5, <1>6, <1>7, <1>8, <1>9, <1>10
        DEF PromptNext, Act, ReplicaStep, DrainOver, SecondSignal, Sigint, RenewTick, WatchResync,
            Serve, Created, Conflict, Applied, LateLost, PromptTick, Tick, vars

\* The invariant of prompt processes.
PromptInv == Called /\ Lags /\ Listing /\ CallersAlive /\ IsFiniteSet(net)

\* At first nobody runs, so nobody lags.
LEMMA PromptInit == Init => PromptInv
<1> SUFFICES ASSUME Init PROVE PromptInv
  OBVIOUS
<1>1. TypeOK
  BY TimingAssumption, BoundAssumption DEF Init, TypeOK, Phase
<1>2. \A s \in Replica : phase[s] = "down" /\ list[s] = NoList
  BY DEF Init
<1>3. net = {}
  BY DEF Init
<1>4. Lifecycle /\ NetIsFresh /\ CallersAlive /\ Listing
  BY <1>2, <1>3 DEF Init, Lifecycle, NetIsFresh, CallersAlive, Listing
<1>5. Lags
  BY <1>2, <1>3 DEF Lags, OwnLease, ListFresh, ViewFresh, ListCurrent, Unlabelled, Labelled,
                    DrainSeen, Present, Looping, Late
<1> QED BY <1>1, <1>3, <1>4, <1>5, FS_EmptySet DEF PromptInv, Called

\* Every step of prompt processes keeps the invariant.
LEMMA PromptStep ==
    ASSUME MaxLate = 0
    PROVE  PromptInv /\ [PromptNext]_vars => PromptInv'
<1> SUFFICES ASSUME PromptInv, [PromptNext]_vars PROVE PromptInv'
  OBVIOUS
<1>1. [Next]_vars
  BY DEF PromptNext, PromptTick, Next
<1>2. TypeOK /\ Lifecycle /\ IsFiniteSet(net)
  BY DEF PromptInv, Called
<1>3. TypeOK' /\ Lifecycle' /\ IsFiniteSet(net')
  BY <1>1, <1>2, TypeStep, LifecycleStep, FiniteStep
<1>4. CallersAlive'
  BY <1>1, <1>2, <1>3, CallersStep DEF PromptInv
<1>5. Called'
  <2>1. NetIsFresh'
    BY <1>4, FreshStep DEF PromptInv
  <2> QED BY <1>3, <1>4, <2>1 DEF Called, CallersAlive
<1>6. Lags'
  BY <1>3, LagsStep DEF PromptInv
<1>7. Listing'
  BY <1>2, ListingStep DEF PromptInv
<1> QED BY <1>3, <1>4, <1>5, <1>6, <1>7 DEF PromptInv

\* Prompt processes never lag by more than the invariant allows.
LEMMA PromptInvariant ==
    ASSUME MaxLate = 0
    PROVE  Init /\ [][PromptNext]_vars => []PromptInv
BY PromptInit, PromptStep, PTL

\* What the faults so far allow is at most what all of them allow.
LEMMA AllowanceBound ==
    ASSUME TypeOK
    PROVE  /\ Allowance \in Nat
           /\ (1 + MaxFaults) * RenewInterval \in Nat
           /\ Allowance <= (1 + MaxFaults) * RenewInterval
<1>1. faults \in Nat /\ MaxFaults \in Nat /\ faults <= MaxFaults /\ RenewInterval \in Nat
  BY BoundAssumption, TimingAssumption DEF TypeOK
<1>2. PICK d \in Nat : MaxFaults = faults + d
  <2>1. MaxFaults - faults \in Nat /\ MaxFaults = faults + (MaxFaults - faults)
    BY <1>1
  <2> QED BY <2>1
<1>3. (1 + (faults + d)) * RenewInterval = (faults + 1) * RenewInterval + d * RenewInterval
  BY <1>1, <1>2
<1>4. (faults + 1) * RenewInterval \in Nat /\ d * RenewInterval \in Nat
  BY <1>1, <1>2
<1> QED BY <1>2, <1>3, <1>4 DEF Allowance

\* No replica stays in a view for more than a renewal interval after its lease
\* expired, plus one for every call that failed, although no event tells of an
\* expiry: the viewer's own renewal does, and a list of that tick finds the
\* lease expired.
THEOREM DeadAreForgotten == ASSUME MaxLate = 0 PROVE PromptSpec => []DeadForgotten
<1>1. PromptInv => DeadForgotten
  <2> SUFFICES ASSUME PromptInv, NEW r \in Replica, NEW s \in Replica, Looping(s), lease[r] # NoLease,
                      lease[r].age > LeaseDuration + (1 + MaxFaults) * RenewInterval,
                      r \in active[s] \cup draining[s]
               PROVE  FALSE
    BY DEF DeadForgotten
  <2>1. TypeOK /\ Lags
    BY DEF PromptInv, Called
  <2>2. /\ lease[r].age \in Nat /\ timer[s] \in Nat /\ LeaseDuration \in Nat
        /\ Allowance \in Nat /\ Allowance <= (1 + MaxFaults) * RenewInterval
        /\ (1 + MaxFaults) * RenewInterval \in Nat
    BY <2>1, LagTypes, AllowanceBound
  <2>3. \E base \in {0, LeaseDuration} :
          \/ lease[r].age + timer[s] <= base + Allowance
          \/ lease[r].age <= base + Allowance
    BY <2>1 DEF Lags, OwnLease, ViewFresh, Within
  <2> QED BY <2>2, <2>3
<1> QED BY <1>1, PromptInvariant, PTL DEF PromptSpec

\* The owners of a draining replica's EPAs move in time: one renewal interval
\* into its drain sleep (plus one for every call that failed) no running
\* replica counts it as active, whatever renewal or list was under way.
THEOREM DrainIsSeen == ASSUME MaxLate = 0 PROVE PromptSpec => []PeersSeeDrain
<1>1. PromptInv => PeersSeeDrain
  <2> SUFFICES ASSUME PromptInv, NEW r \in Replica, NEW s \in Replica, phase[r] = "drain",
                      Looping(s), left[r] + (1 + MaxFaults) * RenewInterval < DrainDuration,
                      r \in active[s]
               PROVE  FALSE
    BY DEF PeersSeeDrain
  <2>1. TypeOK /\ Lags
    BY DEF PromptInv, Called
  <2>2. /\ left[r] \in Nat /\ timer[r] \in Nat /\ timer[s] \in Nat /\ DrainDuration \in Nat
        /\ Allowance \in Nat /\ Allowance <= (1 + MaxFaults) * RenewInterval
        /\ (1 + MaxFaults) * RenewInterval \in Nat
    BY <2>1, LagTypes, AllowanceBound
  <2>3. Late(r) /\ ~(DrainDuration <= left[r] + Allowance)
    BY <2>2 DEF Late
  <2>4. CASE lease[r].draining
    BY <2>1, <2>2, <2>3, <2>4 DEF Lags, DrainSeen, InTime, Within
  <2>5. CASE ~lease[r].draining
    BY <2>1, <2>2, <2>3, <2>5 DEF Lags, Labelled, Within
  <2> QED BY <2>4, <2>5
<1> QED BY <1>1, PromptInvariant, PTL DEF PromptSpec

\* A running replica is not dropped from a view as long as the lease duration
\* outlasts the renewals that may be missed: only a list from before its
\* restart leaves it out, and the event that corrects it has been delivered.
THEOREM LiveStayActive ==
    ASSUME MaxLate = 0, (1 + MaxFaults) * RenewInterval < LeaseDuration
    PROVE  PromptSpec => LiveStaysActive
<1> DEFINE A == \A r, s \in Replica :
                  /\ r \in active[s] /\ phase[s] # "down" /\ phase'[s] # "down"
                  /\ phase[r] = "run" /\ phase'[r] = "run"
                  => r \in active'[s] \/ event'[s]
<1>1. PromptInv /\ [PromptNext]_vars => [A]_vars
  <2> SUFFICES ASSUME PromptInv, PromptNext, NEW r \in Replica, NEW s \in Replica,
                      r \in active[s], phase'[s] # "down", phase[r] = "run"
               PROVE  r \in active'[s] \/ event'[s]
    OBVIOUS
  <2>1. TypeOK /\ Lifecycle /\ Lags /\ Listing /\ net \subseteq Request
    BY DEF PromptInv, Called, TypeOK
  <2>2. CASE UpdateActiveReplicas(s)
    <3>1. list[s] # NoList /\ Present(s)
      BY <2>1, <2>2 DEF UpdateActiveReplicas, Listing
    <3>2. lease[r] # NoLease /\ ~lease[r].draining /\ lease[r].age < LeaseDuration
      <4>1. /\ lease[r] # NoLease /\ ~lease[r].draining
            /\ Within(lease[r].age, 0, r, Due(r))
        BY <2>1 DEF Lags, OwnLease, Unlabelled, Present, Looping
      <4>2. /\ lease[r].age \in Nat /\ timer[r] \in Nat /\ LeaseDuration \in Nat
            /\ Allowance \in Nat /\ Allowance <= (1 + MaxFaults) * RenewInterval
            /\ (1 + MaxFaults) * RenewInterval \in Nat
        BY <2>1, <4>1, LagTypes, AllowanceBound
      <4> QED BY <4>1, <4>2 DEF Within
    <3>3. CASE phase[s] = "discover"
      BY <2>1, <2>2, <3>2, <3>3 DEF UpdateActiveReplicas, SomeLease, TypeOK
    <3>4. CASE phase[s] # "discover"
      <4>1. Looping(s) /\ event' = event
        BY <2>2, <3>1, <3>4 DEF UpdateActiveReplicas, Present, Looping
      <4>2. ~event[s] => list[s][r] = lease[r]
        BY <2>1, <3>1, <4>1 DEF Lags, ListCurrent
      <4>3. ~event[s] => r \in ActiveIn(list[s])
        BY <3>2, <4>2 DEF ActiveIn, Valid
      <4>4. r = s => localDraining[s] = FALSE
        BY <2>1 DEF Lifecycle, TypeOK
      <4>5. active'[s] = WithoutSelf(s, ActiveIn(list[s]))
        BY <2>1, <2>2 DEF UpdateActiveReplicas, TypeOK
      <4> QED BY <4>1, <4>3, <4>4, <4>5 DEF WithoutSelf
    <3> QED BY <3>3, <3>4
  <2>3. ASSUME NEW t \in Replica, t # s, UpdateActiveReplicas(t) PROVE r \in active'[s]
    BY <2>1, <2>3 DEF UpdateActiveReplicas, TypeOK
  <2>4. ASSUME NEW t \in Replica, Exit(t) PROVE r \in active'[s]
    BY <2>1, <2>4 DEF Exit, TypeOK
  <2>5. CASE active' = active
    BY <2>5
  <2>6. (\E t \in Replica : UpdateActiveReplicas(t) \/ Exit(t)) \/ active' = active
    <3>1. \A q \in net : q.from \in Replica
      BY <2>1 DEF Request
    <3> QED BY <3>1 DEF PromptNext, Act, ReplicaStep, Start, Sigterm, DrainOver, SecondSignal,
          Sigint, AbortAndDelete, Crash, GarbageCollect, RenewTick, ListLeases,
          WatchResync, ListFails, Serve, Created, Applied, Stored, Conflict,
          Deleted, CallFails, LateLost, PromptTick, Tick, sets
  <2> QED BY <2>2, <2>3, <2>4, <2>5, <2>6
<1> QED BY <1>1, PromptInvariant, PTL DEF PromptSpec, LiveStaysActive

=============================================================================
