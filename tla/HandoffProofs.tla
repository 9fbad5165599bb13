----------------------------- MODULE HandoffProofs -----------------------------
(* The replicas of Handoff implement EpaOwnership, so that what is proved     *)
(* there of one replica holds of all of them together.                        *)
EXTENDS Handoff, EpaOwnershipProofs

\* What a replica is shown are sets of replicas.
LEMMA ViewsArePartitions == Active \in SUBSET Replica /\ Draining \in SUBSET Replica
BY DEF Active, Draining

\* Each action is an action of EpaOwnership or leaves its variables alone.
LEMMA StepImplements ==
    ASSUME ClusterTypeOK, [ClusterNext]_allvars
    PROVE  [Next]_vars
<1>1. ASSUME NEW r \in Replica, See(r) PROVE Next
  <2>1. ViewChange(r, Active, Draining)
    BY <1>1 DEF See
  <2> QED BY <2>1, ViewsArePartitions, AllLive DEF Next
<1>2. ASSUME NEW r \in Replica, Join(r) PROVE Next
  <2>1. ViewChange(r, Active \cup {r}, Draining \ {r})
    BY <1>2 DEF Join
  <2>2. Active \cup {r} \in SUBSET Replica /\ Draining \ {r} \in SUBSET Replica
    BY ViewsArePartitions
  <2> QED BY <2>1, <2>2, AllLive DEF Next
<1>3. ASSUME NEW r \in Replica, NEW e \in Epa, Learn(r, e) PROVE Next
  <2>1. known[e] \in Period /\ Upsert(r, e, known[e])
    BY <1>3 DEF Learn, ClusterTypeOK
  <2> QED BY <2>1, AllLive DEF Next
<1>4. ASSUME NEW r \in Replica, NEW e \in Epa, Schedule(r, e) PROVE Next
  BY <1>4, AllLive DEF Schedule, Next
<1>5. ASSUME NEW r \in Replica, Leave(r) \/ Crash(r) PROVE Next
  BY <1>5, AllLive DEF Leave, Crash, Gone, Next
<1>6. CASE Tick
  BY <1>6 DEF Tick, Next
<1>7. ASSUME NEW r \in Replica, Drain(r) \/ Expire(r) PROVE UNCHANGED vars
  BY <1>7 DEF Drain, Expire, ownership
<1>8. ASSUME NEW e \in Epa, NEW p \in Period, Create(e, p) PROVE UNCHANGED vars
  BY <1>8 DEF Create, ownership
<1>9. CASE UNCHANGED allvars
  BY <1>9 DEF allvars, ownership
<1> QED BY <1>1, <1>2, <1>3, <1>4, <1>5, <1>6, <1>7, <1>8, <1>9 DEF ClusterNext
-----------------------------------------------------------------------------
(* ClusterTypeOK. *)

ChangesTypeOK ==
    joins \in 0 .. MaxJoins /\ drains \in 0 .. MaxDrains /\ crashes \in 0 .. MaxCrashes

\* What the other replicas and the orchestrator do to the leases.
LEMMA ChangeTypes ==
    ASSUME ClusterTypeOK, NEW r \in Replica,
           Join(r) \/ Drain(r) \/ Leave(r) \/ Crash(r) \/ Expire(r)
    PROVE  /\ status' \in [Replica -> Status] /\ up' \in [Replica -> BOOLEAN]
           /\ left' \in [Replica -> Nat] /\ known' = known /\ ran' = ran /\ behind' = behind
           /\ calm' = 0 /\ ChangesTypeOK'
<1>0. /\ status \in [Replica -> Status] /\ up \in [Replica -> BOOLEAN]
      /\ left \in [Replica -> Nat] /\ ChangesTypeOK
      /\ MaxJoins \in Nat /\ MaxDrains \in Nat /\ MaxCrashes \in Nat
      /\ DrainTicks \in Nat /\ LeaseTicks \in Nat
  BY HandoffAssumption DEF ClusterTypeOK, ChangesTypeOK
<1>1. CASE Join(r)
  BY <1>0, <1>1 DEF Join, clocks, Status, ChangesTypeOK
<1>2. CASE Drain(r)
  BY <1>0, <1>2 DEF Drain, clocks, Status, ChangesTypeOK
<1>3. CASE Leave(r)
  BY <1>0, <1>3 DEF Leave, Gone, clocks, Status, ChangesTypeOK
<1>4. CASE Crash(r)
  BY <1>0, <1>4 DEF Crash, Gone, clocks, Status, ChangesTypeOK
<1>5. CASE Expire(r)
  BY <1>0, <1>5 DEF Expire, clocks, changes, Status, ChangesTypeOK
<1> QED BY <1>1, <1>2, <1>3, <1>4, <1>5

\* What a tick does to the cluster's variables; no view gets too old.
LEMMA TickTypes ==
    ASSUME ClusterTypeOK, Tick
    PROVE  /\ left' \in [Replica -> Nat] /\ behind' \in [Replica -> 0 .. MaxLag]
           /\ calm' \in 0 .. MaxCalm /\ ran' = {} /\ UNCHANGED <<status, up, known, changes>>
<1>1. left' \in [Replica -> Nat]
  BY DEF ClusterTypeOK, Tick
<1>2. calm' \in 0 .. MaxCalm
  BY HandoffAssumption DEF ClusterTypeOK, Tick
<1>3. behind' \in [Replica -> 0 .. MaxLag]
  <2>1. MaxLag \in Nat /\ behind \in [Replica -> 0 .. MaxLag]
    BY HandoffAssumption DEF ClusterTypeOK
  <2>2. ASSUME NEW r \in Replica
        PROVE  (IF up[r] /\ Stale(r) THEN behind[r] + 1 ELSE 0) \in 0 .. MaxLag
    <3>1. CASE up[r] /\ Stale(r)
      <4>1. behind[r] < MaxLag
        BY <3>1 DEF Tick
      <4> QED BY <2>1, <3>1, <4>1
    <3>2. CASE ~(up[r] /\ Stale(r))
      BY <2>1, <3>2
    <3> QED BY <3>1, <3>2
  <2> QED BY <2>2 DEF Tick
<1> QED BY <1>1, <1>2, <1>3 DEF Tick

\* Every step of the cluster keeps the types.
LEMMA ClusterStepTypes ==
    ASSUME ClusterTypeOK, [ClusterNext]_allvars
    PROVE  ClusterTypeOK'
<1>0. TypeOK'
  <2>1. TypeOK
    BY DEF ClusterTypeOK
  <2> QED BY <2>1, StepImplements, StepTypes
<1>1. ASSUME NEW r \in Replica, Join(r) \/ Drain(r) \/ Leave(r) \/ Crash(r) \/ Expire(r)
      PROVE  ClusterTypeOK'
  <2>1. calm' \in 0 .. MaxCalm
    BY <1>1, ChangeTypes, HandoffAssumption
  <2>2. known' \in [Epa -> Period \cup {None}] /\ ran' \subseteq Replica \X Epa
        /\ behind' \in [Replica -> 0 .. MaxLag]
    BY <1>1, ChangeTypes DEF ClusterTypeOK
  <2>3. /\ status' \in [Replica -> Status] /\ up' \in [Replica -> BOOLEAN]
        /\ left' \in [Replica -> Nat] /\ ChangesTypeOK'
    BY <1>1, ChangeTypes
  <2> QED BY <1>0, <2>1, <2>2, <2>3 DEF ClusterTypeOK, ChangesTypeOK
<1>2. ASSUME NEW r \in Replica, NEW e \in Epa, Schedule(r, e) PROVE ClusterTypeOK'
  <2>1. ran' \subseteq Replica \X Epa
    BY <1>2 DEF Schedule, ClusterTypeOK
  <2> QED BY <1>0, <1>2, <2>1 DEF Schedule, cluster, changes, ClusterTypeOK
<1>3. ASSUME NEW r \in Replica, See(r) PROVE ClusterTypeOK'
  BY <1>0, <1>3 DEF See, cluster, clocks, changes, ClusterTypeOK
<1>4. ASSUME NEW r \in Replica, NEW e \in Epa, Learn(r, e) PROVE ClusterTypeOK'
  BY <1>0, <1>4 DEF Learn, cluster, clocks, changes, ClusterTypeOK
<1>5. ASSUME NEW e \in Epa, NEW p \in Period, Create(e, p) PROVE ClusterTypeOK'
  <2>1. calm' \in 0 .. MaxCalm /\ known' \in [Epa -> Period \cup {None}]
    BY <1>5, HandoffAssumption DEF Create, ClusterTypeOK
  <2> QED BY <1>0, <1>5, <2>1 DEF Create, clocks, changes, ClusterTypeOK
<1>6. CASE Tick
  BY <1>0, <1>6, TickTypes DEF changes, ClusterTypeOK
<1>7. CASE UNCHANGED allvars
  BY <1>0, <1>7 DEF allvars, cluster, clocks, changes, ClusterTypeOK
<1> QED BY <1>1, <1>2, <1>3, <1>4, <1>5, <1>6, <1>7 DEF ClusterNext

\* At first nobody runs.
LEMMA ClusterInitTypes == ClusterInit => ClusterTypeOK
<1> SUFFICES ASSUME ClusterInit PROVE ClusterTypeOK
  OBVIOUS
<1>1. TypeOK
  BY InitTypes DEF ClusterInit
<1>2. {MaxLag, MaxJoins, MaxDrains, MaxCrashes, MaxCalm} \subseteq Nat
  BY HandoffAssumption
<1> QED BY <1>1, <1>2 DEF ClusterInit, ClusterTypeOK, Status

\* The cluster's variables keep their types; no live replica is ever further
\* behind the leases than MaxLag.
THEOREM ClusterTypes == ClusterSpec => []ClusterTypeOK
BY ClusterInitTypes, ClusterStepTypes, PTL DEF ClusterSpec

-----------------------------------------------------------------------------
(* Refinement. *)

\* Several replicas that share the leases, with lag, crashes and restarts,
\* implement the specification of replicas under arbitrary views.
THEOREM HandoffImplementsOwnership == ClusterSpec => Spec
<1>1. ClusterInit => Init
  BY DEF ClusterInit
<1>2. ClusterTypeOK /\ [ClusterNext]_allvars => [Next]_vars
  BY StepImplements
<1> QED BY <1>1, <1>2, ClusterInitTypes, ClusterStepTypes, PTL DEF ClusterSpec, Spec

\* So the promises of ownership hold of the cluster: no replica ever has an EPA
\* both won and lost, and every replica honours the grace period.
THEOREM ClusterKeepsPromises == ClusterSpec => []WonOrLost /\ GraceHonoured
BY HandoffImplementsOwnership, OwnedXorLost, GraceIsHonoured, PTL

-----------------------------------------------------------------------------
(* Settles. *)

\* A replica that has yet to see the last change lags as long as that is ago.
UpToDate == \A r \in Replica : up[r] /\ Stale(r) => calm <= behind[r]

\* An EPA has one period everywhere.
PeriodsAgree ==
    \A r \in Replica, e \in Epa :
        /\ epas[r][e] # None => epas[r][e] = known[e]
        /\ owned[r][e] # None => owned[r][e].period = known[e]
        /\ lost[r][e] # None => lost[r][e].period = known[e]

\* r has processed e when, or since, the last change was n ticks ago.
Processed(r, e, n) ==
    up[r] /\ known[e] # None /\ (calm > n \/ (calm = n /\ <<r, e>> \in ran))

\* By then it has owned or not owned what it does, by the leases as they are.
Decided ==
    \A r \in Replica, e \in Epa :
        Processed(r, e, MaxLag + 1) => (owned[r][e] # None <=> r = HighestWeight(Active, e))

\* So a win or a loss is as old as that decision, or as old as matters.
Timed ==
    \A r \in Replica, e \in Epa : known[e] # None /\ up[r] =>
        /\ owned[r][e] # None => \/ owned[r][e].elapsed + MaxLag + 1 >= calm
                                 \/ owned[r][e].elapsed >= known[e]
        /\ lost[r][e] # None => \/ lost[r][e].elapsed + MaxLag + 1 >= calm
                                \/ lost[r][e].elapsed >= known[e] + GraceBuffer

\* And a loss is dropped when the grace is over.
Dropped ==
    \A r \in Replica, e \in Epa :
        Processed(r, e, MaxLag + 1 + known[e] + GraceBuffer) => lost[r][e] = None

Settling == ClusterTypeOK /\ UpToDate /\ PeriodsAgree /\ Decided /\ Timed /\ Dropped

\* What the numbers and the entries are.
LEMMA SettlingTypes ==
    ASSUME ClusterTypeOK
    PROVE  /\ calm \in Nat /\ MaxLag \in Nat /\ GraceBuffer \in Nat
           /\ \A r \in Replica : behind[r] \in Nat /\ r \in Live
           /\ \A e \in Epa : known[e] \in Period \cup {None}
           /\ \A e \in Epa : known[e] # None => known[e] \in Nat
           /\ \A r \in Replica, e \in Epa : owned[r][e] \in MaybeEntry /\ lost[r][e] \in MaybeEntry
           /\ \A r \in Replica, e \in Epa :
                 /\ owned[r][e] # None => owned[r][e] \in Entry
                 /\ lost[r][e] # None => lost[r][e] \in Entry
<1>1. MaxLag \in Nat /\ GraceBuffer \in Nat /\ Period \subseteq Nat /\ MaxCalm \in Nat
  BY HandoffAssumption, PeriodAssumption
<1>2. calm \in Nat /\ \A r \in Replica : behind[r] \in Nat
  BY <1>1 DEF ClusterTypeOK
<1>3. \A r \in Replica, e \in Epa : owned[r][e] \in MaybeEntry /\ lost[r][e] \in MaybeEntry
  BY AllLive DEF ClusterTypeOK, TypeOK, PerEpa, MaybeEntry
<1>4. \A e \in Epa : known[e] \in Period \cup {None}
  BY DEF ClusterTypeOK
<1> QED BY <1>1, <1>2, <1>3, <1>4, AllLive DEF MaybeEntry

\* When the last change is longer ago than any lag, a running replica's view is right.
LEMMA RightView ==
    ASSUME ClusterTypeOK, UpToDate, NEW r \in Replica, up[r], calm > MaxLag
    PROVE  active[r] = Active /\ \A e \in Epa : epas[r][e] = known[e]
<1>1. behind[r] \in 0 .. MaxLag
  BY DEF ClusterTypeOK
<1>2. ~Stale(r)
  BY <1>1, SettlingTypes DEF UpToDate
<1> QED BY <1>2 DEF Stale

\* Then it knows whether it is the owner.
LEMMA RightOwner ==
    ASSUME ClusterTypeOK, UpToDate, NEW r \in Replica, NEW e \in Epa, up[r], calm > MaxLag
    PROVE  IsOwner(r, e) <=> r = HighestWeight(Active, e)
BY RightView DEF IsOwner, Owner

\* A change starts everything again.
LEMMA ChangeSettles ==
    ASSUME ClusterTypeOK, ClusterTypeOK', calm' = 0, behind' = behind
    PROVE  UpToDate' /\ Decided' /\ Timed' /\ Dropped'
<1>1. UpToDate'
  BY SettlingTypes DEF UpToDate
<1>2. MaxLag \in Nat /\ GraceBuffer \in Nat /\ \A e \in Epa : known'[e] # None => known'[e] \in Nat
  BY SettlingTypes, PeriodAssumption DEF ClusterTypeOK
<1>3. Decided' /\ Dropped'
  BY <1>2 DEF Decided, Dropped, Processed
<1>4. ASSUME NEW r \in Replica, NEW e \in Epa
      PROVE  /\ owned'[r][e] # None => owned'[r][e].elapsed \in Nat
             /\ lost'[r][e] # None => lost'[r][e].elapsed \in Nat
  BY AllLive, EntryNumbers DEF ClusterTypeOK, TypeOK, PerEpa
<1>5. Timed'
  BY <1>2, <1>4 DEF Timed
<1> QED BY <1>1, <1>3, <1>5

\* What an owner and a loser have after a pass over an EPA.
LEMMA ScheduledAt ==
    ASSUME ClusterTypeOK, PeriodsAgree, NEW r \in Replica, NEW e \in Epa, Schedule(r, e)
    PROVE  /\ known[e] # None /\ epas[r][e] = known[e]
           /\ UNCHANGED <<active, draining, epas, status, up, known, calm, behind>>
           /\ ran' = ran \cup {<<r, e>>}
           /\ owned'[r][e] = IF IsOwner(r, e) THEN Won(owned[r][e], known[e]) ELSE None
           /\ lost'[r][e] = IF Kept(Loss(r, e, known[e])) THEN Loss(r, e, known[e]) ELSE None
           /\ \A s \in Replica, k \in Epa : s # r \/ k # e =>
                 owned'[s][k] = owned[s][k] /\ lost'[s][k] \in {lost[s][k], None}
<1>1. TypeOK /\ r \in Live /\ epas[r][e] # None /\ epas[r][e] = known[e] /\ known[e] \in Period
  BY SettlingTypes DEF Schedule, Process, PeriodsAgree, ClusterTypeOK
<1>2. Refresh(r, e, known[e])
  BY <1>1 DEF Schedule, Process
<1>3. UNCHANGED <<active, draining, epas, status, up, known, calm, behind>>
      /\ ran' = ran \cup {<<r, e>>}
  BY DEF Schedule, Process, views, cluster
<1>4. ASSUME NEW s \in Replica, NEW k \in Epa, s # r \/ k # e
      PROVE  owned'[s][k] = owned[s][k] /\ lost'[s][k] \in {lost[s][k], None}
  <2>1. CASE s # r
    BY <1>1, <1>2, <2>1, RefreshedAt, AllLive
  <2>2. CASE s = r /\ k # e
    BY <1>1, <1>2, <2>2, RefreshedAt
  <2> QED BY <1>4, <2>1, <2>2
<1>5. /\ owned'[r][e] = IF IsOwner(r, e) THEN Won(owned[r][e], known[e]) ELSE None
      /\ lost'[r][e] = IF Kept(Loss(r, e, known[e])) THEN Loss(r, e, known[e]) ELSE None
  BY <1>1, <1>2, RefreshedAt
<1> QED BY <1>1, <1>3, <1>4, <1>5

\* Losing and winning keep the period, and begin at zero.
LEMMA ScheduledEntries ==
    ASSUME Settling, NEW r \in Replica, NEW e \in Epa, Schedule(r, e)
    PROVE  /\ owned'[r][e] # None =>
                /\ IsOwner(r, e) /\ owned'[r][e].period = known[e]
                /\ \/ owned[r][e] # None /\ owned'[r][e].elapsed = owned[r][e].elapsed
                   \/ owned[r][e] = None /\ owned'[r][e].elapsed = 0
           /\ lost'[r][e] # None =>
                /\ ~IsOwner(r, e) /\ Kept(lost'[r][e]) /\ lost'[r][e].period = known[e]
                /\ \/ lost'[r][e] = lost[r][e]
                   \/ owned[r][e] # None /\ lost'[r][e].elapsed = 0
           /\ IsOwner(r, e) => owned'[r][e] # None
<1>1. ClusterTypeOK /\ PeriodsAgree
  BY DEF Settling
<1>2. known[e] \in Period
  BY <1>1, ScheduledAt, SettlingTypes
<1>3. owned[r][e] \in MaybeEntry /\ lost[r][e] \in MaybeEntry
  BY <1>1, SettlingTypes
<1>4. CASE IsOwner(r, e)
  <2>1. owned'[r][e] = Won(owned[r][e], known[e]) /\ owned'[r][e] \in Entry
    BY <1>1, <1>2, <1>3, <1>4, ScheduledAt, WonType
  <2>2. lost'[r][e] = None
    BY <1>1, <1>4, ScheduledAt DEF Loss
  <2>3. owned'[r][e] # None
    BY <2>1, NoneAssumption
  <2>4. CASE owned[r][e] = None
    BY <1>4, <2>1, <2>2, <2>3, <2>4 DEF Won
  <2>5. CASE owned[r][e] # None
    <3>1. owned[r][e] \in Entry
      BY <1>3, <2>5 DEF MaybeEntry
    <3>2. owned'[r][e].period = known[e]
      BY <2>1, <2>5, <3>1 DEF Won, Entry
    <3>3. owned'[r][e].elapsed = owned[r][e].elapsed
      BY <1>2, <2>1, <3>1, WonElapsed
    <3> QED BY <1>4, <2>2, <2>3, <2>5, <3>2, <3>3
  <2> QED BY <2>4, <2>5
<1>5. CASE ~IsOwner(r, e)
  <2>1. owned'[r][e] = None
    BY <1>1, <1>5, ScheduledAt
  <2>2. ASSUME lost'[r][e] # None
        PROVE  /\ Kept(lost'[r][e]) /\ lost'[r][e].period = known[e]
               /\ \/ lost'[r][e] = lost[r][e]
                  \/ owned[r][e] # None /\ lost'[r][e].elapsed = 0
    <3>1. lost'[r][e] = Loss(r, e, known[e]) /\ Kept(lost'[r][e])
      BY <1>1, <2>2, ScheduledAt
    <3>2. CASE owned[r][e] # None /\ lost[r][e] = None
      <4>1. lost'[r][e] = [elapsed |-> 0, period |-> known[e]]
        BY <1>5, <3>1, <3>2 DEF Loss
      <4> QED BY <3>1, <3>2, <4>1
    <3>3. CASE ~(owned[r][e] # None /\ lost[r][e] = None)
      <4>1. lost'[r][e] = lost[r][e]
        BY <1>5, <3>1, <3>3 DEF Loss
      <4> QED BY <1>1, <2>2, <3>1, <4>1 DEF PeriodsAgree
    <3> QED BY <3>2, <3>3
  <2> QED BY <1>5, <2>1, <2>2
<1> QED BY <1>4, <1>5

\* A pass over an EPA decides it, if the view is right, and after that changes
\* no decision.
LEMMA ScheduleSettles ==
    ASSUME Settling, NEW r \in Replica, NEW e \in Epa, Schedule(r, e)
    PROVE  UpToDate' /\ PeriodsAgree' /\ Decided' /\ Timed' /\ Dropped'
<1>1. ClusterTypeOK /\ UpToDate /\ PeriodsAgree /\ Decided /\ Timed /\ Dropped
  BY DEF Settling
<1>2. /\ known[e] # None /\ up[r]
      /\ UNCHANGED <<active, draining, epas, status, up, known, calm, behind>>
      /\ ran' = ran \cup {<<r, e>>}
  BY <1>1, ScheduledAt DEF Schedule
<1>3. \A s \in Replica, k \in Epa : s # r \/ k # e =>
         owned'[s][k] = owned[s][k] /\ lost'[s][k] \in {lost[s][k], None}
  BY <1>1, ScheduledAt
<1>4. /\ calm \in Nat /\ MaxLag \in Nat /\ GraceBuffer \in Nat /\ known[e] \in Nat
  BY <1>1, <1>2, SettlingTypes
<1>5. UpToDate'
  BY <1>1, <1>2 DEF UpToDate, Stale, Active, Draining
<1>6. PeriodsAgree'
  BY <1>1, <1>2, <1>3, ScheduledEntries DEF PeriodsAgree
<1>7. \A s \in Replica, k \in Epa, n \in Nat :
         (s # r \/ k # e) => (Processed(s, k, n)' <=> Processed(s, k, n))
  BY <1>2 DEF Processed
<1>8. calm > MaxLag + 1 => (owned[r][e] # None <=> IsOwner(r, e))
  <2> SUFFICES ASSUME calm > MaxLag + 1 PROVE owned[r][e] # None <=> IsOwner(r, e)
    OBVIOUS
  <2>1. Processed(r, e, MaxLag + 1) /\ calm > MaxLag
    BY <1>2, <1>4 DEF Processed
  <2> QED BY <1>1, <1>2, <2>1, RightOwner DEF Decided
<1>9. Decided'
  <2> SUFFICES ASSUME NEW s \in Replica, NEW k \in Epa, Processed(s, k, MaxLag + 1)'
               PROVE  owned'[s][k] # None <=> s = HighestWeight(Active, k)
    BY <1>2 DEF Decided, Active
  <2>1. CASE s # r \/ k # e
    BY <1>1, <1>3, <1>4, <1>7, <2>1 DEF Decided
  <2>2. CASE s = r /\ k = e
    <3>1. calm > MaxLag
      BY <1>2, <1>4 DEF Processed
    <3> QED BY <1>1, <1>2, <2>2, <3>1, RightOwner, ScheduledEntries
  <2> QED BY <2>1, <2>2
<1>10. Timed'
  <2> SUFFICES ASSUME NEW s \in Replica, NEW k \in Epa, known[k] # None, up[s]
               PROVE  /\ owned'[s][k] # None => \/ owned'[s][k].elapsed + MaxLag + 1 >= calm
                                                \/ owned'[s][k].elapsed >= known[k]
                      /\ lost'[s][k] # None => \/ lost'[s][k].elapsed + MaxLag + 1 >= calm
                                               \/ lost'[s][k].elapsed >= known[k] + GraceBuffer
    BY <1>2 DEF Timed
  <2>1. CASE s # r \/ k # e
    BY <1>1, <1>3, <2>1 DEF Timed
  <2>2. CASE s = r /\ k = e
    <3>1. owned'[r][e] # None => \/ owned'[r][e].elapsed + MaxLag + 1 >= calm
                                 \/ owned'[r][e].elapsed >= known[e]
      <4>1. CASE owned[r][e] # None
        BY <1>1, <1>2, <4>1, ScheduledEntries DEF Timed
      <4>2. CASE owned[r][e] = None
        BY <1>4, <1>8, <4>2, ScheduledEntries
      <4> QED BY <4>1, <4>2
    <3>2. lost'[r][e] # None => \/ lost'[r][e].elapsed + MaxLag + 1 >= calm
                                \/ lost'[r][e].elapsed >= known[e] + GraceBuffer
      <4> SUFFICES ASSUME lost'[r][e] # None
                   PROVE  \/ lost'[r][e].elapsed + MaxLag + 1 >= calm
                          \/ lost'[r][e].elapsed >= known[e] + GraceBuffer
        OBVIOUS
      <4>1. CASE lost'[r][e] = lost[r][e]
        BY <1>1, <1>2, <4>1 DEF Timed
      <4>2. CASE owned[r][e] # None /\ lost'[r][e].elapsed = 0
        <5>1. ~IsOwner(r, e)
          BY ScheduledEntries
        <5> QED BY <1>4, <1>8, <4>2, <5>1
      <4> QED BY <4>1, <4>2, ScheduledEntries
    <3> QED BY <2>2, <3>1, <3>2
  <2> QED BY <2>1, <2>2
<1>11. Dropped'
  <2> SUFFICES ASSUME NEW s \in Replica, NEW k \in Epa,
                      Processed(s, k, MaxLag + 1 + known[k] + GraceBuffer)'
               PROVE  lost'[s][k] = None
    BY <1>2 DEF Dropped
  <2>1. CASE s # r \/ k # e
    <3>1. Processed(s, k, MaxLag + 1 + known[k] + GraceBuffer)
      BY <1>2, <2>1 DEF Processed
    <3>2. lost[s][k] = None
      BY <1>1, <3>1 DEF Dropped
    <3> QED BY <1>3, <2>1, <3>2
  <2>2. CASE s = r /\ k = e
    <3> SUFFICES ASSUME lost'[r][e] # None PROVE FALSE
      BY <2>2
    <3>1. calm >= MaxLag + 1 + known[e] + GraceBuffer
      BY <1>2, <1>4, <2>2 DEF Processed
    <3>2. Kept(lost'[r][e]) /\ lost'[r][e].period = known[e] /\ ~IsOwner(r, e)
      BY ScheduledEntries
    <3>3. lost'[r][e].elapsed < known[e] + GraceBuffer
      BY <3>2 DEF Kept
    <3>4. CASE lost'[r][e] = lost[r][e]
      <4>1. lost[r][e] \in Entry
        BY <1>1, <3>4, SettlingTypes
      <4>2. lost[r][e].elapsed \in Nat
        BY <4>1, EntryNumbers
      <4>3. \/ lost[r][e].elapsed + MaxLag + 1 >= calm
            \/ lost[r][e].elapsed >= known[e] + GraceBuffer
        BY <1>1, <1>2, <3>4 DEF Timed
      <4> QED BY <1>4, <3>1, <3>3, <3>4, <4>2, <4>3
    <3>5. CASE owned[r][e] # None /\ lost'[r][e].elapsed = 0
      <4>1. ~(calm > MaxLag + 1)
        BY <1>8, <3>2, <3>5
      <4> QED BY <1>4, <3>1, <3>3, <3>5, <4>1
    <3> QED BY <3>4, <3>5, ScheduledEntries
  <2> QED BY <2>1, <2>2
<1> QED BY <1>5, <1>6, <1>9, <1>10, <1>11

\* A tick waits until the schedulers have processed what they know, and ages
\* what they have.
LEMMA TickSettles ==
    ASSUME Settling, Tick
    PROVE  UpToDate' /\ PeriodsAgree' /\ Decided' /\ Timed' /\ Dropped'
<1>1. ClusterTypeOK /\ TypeOK /\ UpToDate /\ PeriodsAgree /\ Decided /\ Timed /\ Dropped
  BY DEF Settling, ClusterTypeOK
<1>2. UNCHANGED <<active, draining, epas, status, up, known>> /\ Pass
  BY DEF Tick, Pass, views
<1>3. /\ calm \in Nat /\ MaxLag \in Nat /\ GraceBuffer \in Nat
      /\ calm' \in Nat /\ calm' <= calm + 1 /\ ran' = {}
  BY <1>1, SettlingTypes, HandoffAssumption DEF Tick
<1>4. UpToDate'
  <2> SUFFICES ASSUME NEW r \in Replica, up[r], Stale(r) PROVE calm' <= behind'[r]
    BY <1>2 DEF UpToDate, Stale, Active, Draining
  <2>1. behind'[r] = behind[r] + 1
    BY DEF Tick
  <2>2. calm <= behind[r] /\ behind[r] \in Nat
    BY <1>1, SettlingTypes DEF UpToDate
  <2> QED BY <1>3, <2>1, <2>2
<1>5. ASSUME NEW r \in Replica, NEW e \in Epa
      PROVE  /\ owned'[r][e] = Older(owned[r][e]) /\ lost'[r][e] = Older(lost[r][e])
             /\ owned'[r][e] = None <=> owned[r][e] = None
             /\ lost'[r][e] = None <=> lost[r][e] = None
             /\ owned[r][e] # None => /\ owned'[r][e].elapsed = Later(owned[r][e].elapsed)
                                      /\ owned'[r][e].period = owned[r][e].period
             /\ lost[r][e] # None => /\ lost'[r][e].elapsed = Later(lost[r][e].elapsed)
                                     /\ lost'[r][e].period = lost[r][e].period
  <2>1. owned'[r][e] = Older(owned[r][e]) /\ lost'[r][e] = Older(lost[r][e])
    BY <1>1, <1>2, PassedAt, AllLive
  <2>2. owned[r][e] \in MaybeEntry /\ lost[r][e] \in MaybeEntry
    BY <1>1, SettlingTypes
  <2> QED BY <2>1, <2>2, OlderType
<1>6. PeriodsAgree'
  BY <1>1, <1>2, <1>5 DEF PeriodsAgree
<1>7. ASSUME NEW r \in Replica, NEW e \in Epa, NEW n \in Nat, n > MaxLag, Processed(r, e, n)'
      PROVE  Processed(r, e, n)
  <2>1. up[r] /\ known[e] # None /\ calm' > n
    BY <1>2, <1>3, <1>7 DEF Processed
  <2>2. calm >= n /\ calm > MaxLag
    BY <1>3, <1>7, <2>1
  <2>3. epas[r][e] # None
    BY <1>1, <2>1, <2>2, RightView
  <2>4. <<r, e>> \in ran
    BY <2>1, <2>3 DEF Tick
  <2> QED BY <1>3, <2>1, <2>2, <2>4 DEF Processed
<1>8. Decided'
  <2> SUFFICES ASSUME NEW r \in Replica, NEW e \in Epa, Processed(r, e, MaxLag + 1)'
               PROVE  owned'[r][e] # None <=> r = HighestWeight(Active, e)
    BY <1>2 DEF Decided, Active
  <2>1. MaxLag + 1 \in Nat /\ MaxLag + 1 > MaxLag
    BY <1>3
  <2>2. Processed(r, e, MaxLag + 1)
    BY <1>7, <2>1
  <2> QED BY <1>1, <1>5, <2>2 DEF Decided
<1>9. Dropped'
  <2> SUFFICES ASSUME NEW r \in Replica, NEW e \in Epa,
                      Processed(r, e, MaxLag + 1 + known[e] + GraceBuffer)'
               PROVE  lost'[r][e] = None
    BY <1>2 DEF Dropped
  <2> DEFINE n == MaxLag + 1 + known[e] + GraceBuffer
  <2>1. known[e] \in Nat
    BY <1>1, <1>2, SettlingTypes DEF Processed
  <2>2. n \in Nat /\ n > MaxLag /\ n' = n
    BY <1>2, <1>3, <2>1
  <2> HIDE DEF n
  <2>3. Processed(r, e, n)
    <3>1. PICK m \in Nat : m = n
      BY <2>2
    <3>2. Processed(r, e, m)'
      BY <2>2, <3>1 DEF Processed, n
    <3>3. Processed(r, e, m)
      BY <1>7, <2>2, <3>1, <3>2
    <3> QED BY <3>1, <3>3
  <2> QED BY <1>1, <1>5, <2>3 DEF Dropped, n
<1>10. ASSUME NEW m \in Nat, NEW elapsed \in Elapsed, m <= MaxElapsed,
              elapsed + MaxLag + 1 >= calm \/ elapsed >= m
       PROVE  Later(elapsed) + MaxLag + 1 >= calm' \/ Later(elapsed) >= m
  <2>1. elapsed \in Nat /\ MaxElapsed \in Nat
    BY PeriodAssumption DEF Elapsed
  <2>2. CASE elapsed < MaxElapsed
    <3>1. Later(elapsed) = elapsed + 1
      BY <2>2 DEF Later
    <3> QED BY <1>3, <1>10, <2>1, <3>1
  <2>3. CASE ~(elapsed < MaxElapsed)
    <3>1. Later(elapsed) = elapsed
      BY <2>3 DEF Later
    <3> QED BY <1>10, <2>1, <2>3, <3>1
  <2> QED BY <2>2, <2>3
<1>11. Timed'
  <2> SUFFICES ASSUME NEW r \in Replica, NEW e \in Epa, known[e] # None, up[r]
               PROVE  /\ owned'[r][e] # None => \/ owned'[r][e].elapsed + MaxLag + 1 >= calm'
                                                \/ owned'[r][e].elapsed >= known[e]
                      /\ lost'[r][e] # None => \/ lost'[r][e].elapsed + MaxLag + 1 >= calm'
                                               \/ lost'[r][e].elapsed >= known[e] + GraceBuffer
    BY <1>2 DEF Timed
  <2>1. /\ known[e] \in Nat /\ known[e] + GraceBuffer \in Nat
        /\ known[e] <= MaxElapsed /\ known[e] + GraceBuffer <= MaxElapsed
    BY <1>1, SettlingTypes, PeriodAssumption
  <2>2. ASSUME owned'[r][e] # None
        PROVE  \/ owned'[r][e].elapsed + MaxLag + 1 >= calm'
               \/ owned'[r][e].elapsed >= known[e]
    <3>1. owned[r][e] # None /\ owned'[r][e].elapsed = Later(owned[r][e].elapsed)
      BY <1>5, <2>2
    <3>2. owned[r][e].elapsed \in Elapsed
      BY <1>1, <3>1, SettlingTypes DEF Entry
    <3>3. owned[r][e].elapsed + MaxLag + 1 >= calm \/ owned[r][e].elapsed >= known[e]
      BY <1>1, <3>1 DEF Timed
    <3> QED BY <1>10, <2>1, <3>1, <3>2, <3>3
  <2>3. ASSUME lost'[r][e] # None
        PROVE  \/ lost'[r][e].elapsed + MaxLag + 1 >= calm'
               \/ lost'[r][e].elapsed >= known[e] + GraceBuffer
    <3>1. lost[r][e] # None /\ lost'[r][e].elapsed = Later(lost[r][e].elapsed)
      BY <1>5, <2>3
    <3>2. lost[r][e].elapsed \in Elapsed
      BY <1>1, <3>1, SettlingTypes DEF Entry
    <3>3. lost[r][e].elapsed + MaxLag + 1 >= calm \/ lost[r][e].elapsed >= known[e] + GraceBuffer
      BY <1>1, <3>1 DEF Timed
    <3> QED BY <1>10, <2>1, <3>1, <3>2, <3>3
  <2> QED BY <2>2, <2>3
<1> QED BY <1>4, <1>6, <1>8, <1>9, <1>11

\* Settling is inductive.
LEMMA SettlingStep ==
    ASSUME Settling, [ClusterNext]_allvars
    PROVE  Settling'
<1>1. ClusterTypeOK /\ UpToDate /\ PeriodsAgree /\ Decided /\ Timed /\ Dropped
  BY DEF Settling
<1>2. ClusterTypeOK'
  BY <1>1, ClusterStepTypes
<1>3. TypeOK
  BY <1>1 DEF ClusterTypeOK
<1>4. ASSUME NEW r \in Replica, Join(r) \/ Drain(r) \/ Leave(r) \/ Crash(r) \/ Expire(r)
      PROVE  Settling'
  <2>1. calm' = 0 /\ behind' = behind /\ known' = known
    BY <1>1, <1>4, ChangeTypes
  <2>2. \A s \in Replica, e \in Epa :
           /\ epas'[s][e] \in {epas[s][e], None}
           /\ owned'[s][e] \in {owned[s][e], None}
           /\ lost'[s][e] \in {lost[s][e], None}
    <3>1. CASE Join(r) \/ Drain(r) \/ Expire(r)
      BY <3>1 DEF Join, ViewChange, Drain, Expire, ownership, vars
    <3>2. CASE Leave(r) \/ Crash(r)
      <4>1. Die(r)
        BY <3>2 DEF Leave, Crash, Gone
      <4>2. /\ epas'[r] = [k \in Epa |-> None]
            /\ owned'[r] = [k \in Epa |-> None]
            /\ lost'[r] = [k \in Epa |-> None]
        BY <1>3, <4>1, AllLive DEF Die, TypeOK, PerEpa
      <4>3. \A s \in Replica : s # r => /\ epas'[s] = epas[s]
                                       /\ owned'[s] = owned[s]
                                       /\ lost'[s] = lost[s]
        BY <1>3, <4>1, AllLive DEF Die, TypeOK, PerEpa
      <4> QED BY <4>2, <4>3
    <3> QED BY <1>4, <3>1, <3>2
  <2>3. PeriodsAgree'
    BY <1>1, <2>1, <2>2 DEF PeriodsAgree
  <2> QED BY <1>1, <1>2, <2>1, <2>3, ChangeSettles DEF Settling
<1>5. ASSUME NEW e \in Epa, NEW p \in Period, Create(e, p) PROVE Settling'
  <2>1. calm' = 0 /\ behind' = behind /\ UNCHANGED <<epas, owned, lost>>
        /\ known[e] = None /\ \A k \in Epa : k # e => known'[k] = known[k]
    BY <1>1, <1>5 DEF Create, clocks, ownership, vars, ClusterTypeOK
  <2>2. \A r \in Replica : epas[r][e] = None /\ owned[r][e] = None /\ lost[r][e] = None
    <3>1. \A entry \in Entry : entry.period # None
      BY NoneAssumption DEF Entry
    <3> QED BY <1>1, <2>1, <3>1, SettlingTypes DEF PeriodsAgree
  <2>3. PeriodsAgree'
    BY <1>1, <2>1, <2>2 DEF PeriodsAgree
  <2> QED BY <1>1, <1>2, <2>1, <2>3, ChangeSettles DEF Settling
<1>6. ASSUME NEW r \in Replica, See(r) PROVE Settling'
  <2>1. /\ UNCHANGED <<epas, owned, lost, status, up, known, calm, ran, behind>>
        /\ active' = [active EXCEPT ![r] = Active] /\ draining' = [draining EXCEPT ![r] = Draining]
    BY <1>6 DEF See, ViewChange, cluster, clocks
  <2>2. \A s \in Replica : Stale(s)' => Stale(s)
    BY <1>3, <2>1, AllLive DEF Stale, TypeOK, Active, Draining
  <2> QED
    BY <1>1, <1>2, <2>1, <2>2
       DEF Settling, UpToDate, PeriodsAgree, Decided, Timed, Dropped, Processed, Active
<1>7. ASSUME NEW r \in Replica, NEW e \in Epa, Learn(r, e) PROVE Settling'
  <2>1. /\ UNCHANGED <<active, draining, owned, lost, status, up, known, calm, ran, behind>>
        /\ epas' = [epas EXCEPT ![r][e] = known[e]]
    BY <1>7 DEF Learn, Upsert, views, cluster, clocks
  <2>2. \A s \in Replica, k \in Epa : epas'[s][k] \in {epas[s][k], known[k]}
    BY <1>3, <2>1, AllLive DEF TypeOK, PerEpa
  <2>3. \A s \in Replica : Stale(s)' => Stale(s)
    BY <2>1, <2>2 DEF Stale, Active, Draining
  <2> QED
    BY <1>1, <1>2, <2>1, <2>2, <2>3
       DEF Settling, UpToDate, PeriodsAgree, Decided, Timed, Dropped, Processed, Active
<1>8. ASSUME NEW r \in Replica, NEW e \in Epa, Schedule(r, e) PROVE Settling'
  BY <1>2, <1>8, ScheduleSettles DEF Settling
<1>9. CASE Tick
  BY <1>2, <1>9, TickSettles DEF Settling
<1>10. CASE UNCHANGED allvars
  BY <1>1, <1>2, <1>10
     DEF allvars, ownership, vars, views, cluster, clocks, Settling, UpToDate, Stale, PeriodsAgree,
         Decided, Timed, Dropped, Processed, Active, Draining
<1> QED BY <1>4, <1>5, <1>6, <1>7, <1>8, <1>9, <1>10 DEF ClusterNext

\* Nothing has joined yet, at first.
LEMMA InitSettles == ClusterInit => Settling
<1> SUFFICES ASSUME ClusterInit PROVE Settling
  OBVIOUS
<1>1. ClusterTypeOK /\ calm = 0 /\ \A r \in Replica : ~up[r]
  BY ClusterInitTypes DEF ClusterInit
<1>2. PeriodsAgree
  BY AllLive DEF ClusterInit, Init, PeriodsAgree
<1> QED BY <1>1, <1>2 DEF Settling, UpToDate, Decided, Timed, Dropped, Processed

\* Settling is an invariant.
LEMMA AlwaysSettling == ClusterSpec => []Settling
BY InitSettles, SettlingStep, PTL DEF ClusterSpec

\* Within the lag, the period, the grace buffer and a tick on each side of the
\* last change, the winner among the active replicas scrapes and serves an EPA
\* and nobody else does: for any number of replicas and EPAs, any weights, lags,
\* periods and buffers, and whatever joined, drained, crashed or was created.
THEOREM OwnershipSettles == ClusterSpec => []Settles
<1>1. Settling => Settles
  <2> SUFFICES ASSUME Settling, NEW e \in Epa, NEW r \in Replica, up[r], known[e] # None,
                      calm > MaxLag + known[e] + GraceBuffer + 1
               PROVE  /\ ShouldScrape(r, e) <=> r = HighestWeight(Active, e)
                      /\ ShouldServe(r, e) <=> r = HighestWeight(Active, e)
    BY DEF Settles
  <2>1. ClusterTypeOK /\ Decided /\ Timed /\ Dropped
    BY DEF Settling
  <2>2. /\ calm \in Nat /\ MaxLag \in Nat /\ GraceBuffer \in Nat /\ known[e] \in Nat
    BY <2>1, SettlingTypes
  <2>3. owned[r][e] # None <=> r = HighestWeight(Active, e)
    <3>1. Processed(r, e, MaxLag + 1)
      BY <2>2 DEF Processed
    <3> QED BY <2>1, <3>1 DEF Decided
  <2>4. lost[r][e] = None
    <3>1. Processed(r, e, MaxLag + 1 + known[e] + GraceBuffer)
      BY <2>2 DEF Processed
    <3> QED BY <2>1, <3>1 DEF Dropped
  <2>5. owned[r][e] # None => owned[r][e].elapsed >= owned[r][e].period
    <3> SUFFICES ASSUME owned[r][e] # None PROVE owned[r][e].elapsed >= known[e]
      BY DEF Settling, PeriodsAgree
    <3>1. owned[r][e].elapsed \in Nat
      BY <2>1, SettlingTypes, EntryNumbers
    <3>2. owned[r][e].elapsed + MaxLag + 1 >= calm \/ owned[r][e].elapsed >= known[e]
      BY <2>1 DEF Timed
    <3> QED BY <2>2, <3>1, <3>2
  <2> QED BY <2>3, <2>4, <2>5 DEF ShouldScrape, ShouldServe
<1> QED BY <1>1, AlwaysSettling, PTL

\* No EPA is ever deleted here.
LEMMA NoDeletes == ClusterSpec => [](deletes = 0)
<1>1. ClusterInit => deletes = 0
  BY DEF ClusterInit, Init
<1>2. deletes = 0 /\ [ClusterNext]_allvars => (deletes = 0)'
  BY DEF ClusterNext, See, Join, ViewChange, Drain, Expire, Leave, Crash, Gone, Die, Learn, Upsert,
         Schedule, Process, Create, Tick, Pass, allvars, ownership, vars
<1> QED BY <1>1, <1>2, PTL DEF ClusterSpec

\* So a bounded time after the last change, be it a join, a crash, one of several
\* drains at once or the creation of an EPA, requests are answered again: each
\* replica that is asked turns to the winner, which has a full window; for any
\* number of replicas and EPAs, any weights, lags, periods and buffers.
THEOREM RequestsRecover == ClusterSpec => []Recovers
<1>1. ASSUME Settling, Settles, WindowAsOldAsOwnership, deletes = 0
      PROVE  Recovers
  <2> SUFFICES ASSUME NEW e \in Epa, NEW w \in Active, w = HighestWeight(Active, e), up[w],
                      known[e] # None, calm > MaxLag + known[e] + GraceBuffer + 1
               PROVE  /\ window[w][e] # None /\ window[w][e] >= known[e]
                      /\ \A r \in Asked : Hop(r, e) = w
    BY DEF Recovers
  <2>1. ClusterTypeOK /\ UpToDate /\ Decided /\ Timed
    BY <1>1 DEF Settling
  <2>2. calm \in Nat /\ MaxLag \in Nat /\ GraceBuffer \in Nat /\ known[e] \in Nat
    BY <2>1, SettlingTypes
  <2>3. w \in Replica /\ w \in Live /\ w # Nobody /\ status[w] # "absent"
    BY AllLive, NobodyAssumption DEF Active
  <2>4. calm > MaxLag
    BY <2>2
  <2>5. ShouldServe(w, e) /\ \A r \in Replica : up[r] /\ r # w => ~ShouldServe(r, e)
    BY <1>1, <2>3 DEF Settles
  <2>6. window[w][e] # None /\ window[w][e] >= known[e]
    <3>1. Processed(w, e, MaxLag + 1)
      BY <2>2 DEF Processed
    <3>2. owned[w][e] # None
      BY <2>1, <2>3, <3>1 DEF Decided
    <3>3. owned[w][e].elapsed \in Nat
      BY <2>1, <2>3, <3>2, SettlingTypes, EntryNumbers
    <3>4. owned[w][e].elapsed + MaxLag + 1 >= calm \/ owned[w][e].elapsed >= known[e]
      BY <2>1, <2>3, <3>2 DEF Timed
    <3>5. owned[w][e].elapsed >= known[e]
      BY <2>2, <3>3, <3>4
    <3>6. window[w][e] # None /\ window[w][e] >= owned[w][e].elapsed
      BY <1>1, <2>3, <3>2 DEF WindowAsOldAsOwnership
    <3>7. window[w][e] \in Nat
      BY <2>1, <2>3, <3>6, PeriodAssumption DEF ClusterTypeOK, TypeOK, PerEpa, Elapsed
    <3> QED BY <2>2, <3>3, <3>5, <3>6, <3>7
  <2>7. ASSUME NEW r \in Asked PROVE Hop(r, e) = w
    <3>1. r \in Replica /\ up[r]
      BY DEF Asked
    <3>2. Owner(r, e) = w
      BY <2>1, <2>4, <3>1, RightView DEF Owner
    <3>3. Target(r, e) = w
      BY <2>3, <2>5, <3>1, <3>2 DEF Target
    <3> QED BY <2>3, <3>3 DEF Hop
  <2> QED BY <2>6, <2>7
<1> QED BY <1>1, AlwaysSettling, OwnershipSettles, NoDeletes, HandoffImplementsOwnership,
           OwnersHaveTheWindow, PTL

-----------------------------------------------------------------------------
(* Scaling down: one orderly drain after the other.                           *)

\* Nothing has changed for so long that every replica has settled.
LongCalm ==
    /\ calm > MaxLag
    /\ \A r \in Replica : status[r] = IF up[r] THEN "active" ELSE "absent"
    /\ \A e \in Epa : known[e] # None /\ calm > MaxLag + known[e] + GraceBuffer + 1

\* From now on replicas only drain and leave: nobody joins or crashes, and no
\* EPA is created.
DrainsOnly == UNCHANGED <<known, joins, crashes>>

\* What the constants have to satisfy (none can be dropped): the grace buffer
\* outlasts the lag of the views, a drain an evaluation period and that lag,
\* and drains do not overlap.
DrainMargins ==
    /\ MaxLag < GraceBuffer
    /\ MaxLag < DrainTicks /\ DrainTicks < Gap /\ Gap <= MaxCalm
    /\ \A p \in Period : p > 0 /\ p + MaxLag < DrainTicks

\* Who won and who wins an EPA, around the drain that is going on.
Before(e) == HighestWeight(Active \cup Draining, e)
After(e)  == HighestWeight(Active, e)

Complete(r, e) == owned[r][e] # None /\ owned[r][e].elapsed >= known[e]
Full(r, e)     == window[r][e] # None /\ window[r][e] >= known[e]

\* At most one replica drains, and the time of its drain is that since the last
\* change; no dead process holds a lease.
Leases ==
    /\ \A r \in Replica : up[r] <=> status[r] # "absent"
    /\ \A r \in Draining, s \in Draining : r = s
    /\ \A r \in Draining : calm + left[r] = DrainTicks

\* A replica sees the drain that is going on, or nothing of it yet.
Views ==
    \A r \in Replica : up[r] =>
        \/ active[r] = Active /\ (Draining = {} \/ draining[r] = Draining)
        \/ active[r] = Active \cup Draining /\ draining[r] = {}

AllKnown == \A e \in Epa : known[e] # None /\ \A r \in Replica : up[r] => epas[r][e] = known[e]

\* r owns e as the old winner, or as the new one that knows of the drain.
Owns(r, e) ==
    /\ r = Before(e) \/ (r = After(e) /\ active[r] = Active)
    /\ window[r][e] # None /\ window[r][e] >= owned[r][e].elapsed

\* r has lost e to the drain, which it knows of, with a full window.
Lost(r, e) ==
    /\ r = Before(e) /\ r \in Draining /\ active[r] = Active
    /\ Full(r, e) /\ lost[r][e].elapsed <= calm

Entries ==
    \A r \in Replica, e \in Epa : up[r] =>
        /\ owned[r][e] # None => Owns(r, e)
        /\ lost[r][e] # None => Lost(r, e)

\* The old winner has all of the EPA's window until it knows that it drains; it
\* then keeps it until the new winner has one.
Held(e) ==
    /\ Before(e) \in Active => Complete(Before(e), e)
    /\ Before(e) \in Draining =>
          /\ owned[Before(e)][e] # None => Complete(Before(e), e)
          /\ owned[Before(e)][e] = None => active[Before(e)] = Active
          /\ owned[Before(e)][e] = None /\ lost[Before(e)][e] = None /\ Active # {}
             => Complete(After(e), e)

AllHeld == \A e \in Epa : Held(e)

Orderly == Settling /\ Leases /\ Views /\ AllKnown /\ Entries /\ AllHeld

\* The numbers of an orderly state.
LEMMA OrderlyTypes ==
    ASSUME DrainMargins, Orderly
    PROVE  /\ ClusterTypeOK /\ TypeOK /\ UpToDate /\ PeriodsAgree /\ Decided /\ Timed
           /\ {calm, MaxLag, GraceBuffer, DrainTicks, Gap, MaxCalm} \subseteq Nat
           /\ \A e \in Epa : /\ known[e] \in Period /\ known[e] \in Nat /\ known[e] > 0
                             /\ known[e] + MaxLag < DrainTicks
           /\ \A r \in Replica : r \in Live /\ left[r] \in Nat /\ status[r] \in Status
           /\ \A r \in Replica, e \in Epa :
                 /\ owned[r][e] # None => owned[r][e] \in Entry /\ owned[r][e].elapsed \in Elapsed
                                          /\ owned[r][e].elapsed \in Nat
                 /\ lost[r][e] # None => lost[r][e] \in Entry /\ lost[r][e].elapsed \in Elapsed
                                         /\ lost[r][e].elapsed \in Nat
                 /\ window[r][e] # None => window[r][e] \in Elapsed /\ window[r][e] \in Nat
<1>1. ClusterTypeOK /\ TypeOK /\ UpToDate /\ PeriodsAgree /\ Decided /\ Timed /\ AllKnown
  BY DEF Orderly, Settling, ClusterTypeOK
<1>2. {calm, MaxLag, GraceBuffer, DrainTicks, Gap, MaxCalm} \subseteq Nat
  BY <1>1, SettlingTypes, HandoffAssumption
<1>3. ASSUME NEW e \in Epa
      PROVE  /\ known[e] \in Period /\ known[e] \in Nat /\ known[e] > 0
             /\ known[e] + MaxLag < DrainTicks
  <2>1. known[e] \in Period /\ known[e] \in Nat
    BY <1>1, SettlingTypes DEF AllKnown
  <2> QED BY <2>1 DEF DrainMargins
<1>4. ASSUME NEW r \in Replica PROVE r \in Live /\ left[r] \in Nat /\ status[r] \in Status
  BY <1>1, SettlingTypes DEF ClusterTypeOK
<1>5. ASSUME NEW r \in Replica, NEW e \in Epa
      PROVE  /\ owned[r][e] # None => owned[r][e] \in Entry /\ owned[r][e].elapsed \in Elapsed
                                      /\ owned[r][e].elapsed \in Nat
             /\ lost[r][e] # None => lost[r][e] \in Entry /\ lost[r][e].elapsed \in Elapsed
                                     /\ lost[r][e].elapsed \in Nat
  <2>1. /\ owned[r][e] # None => owned[r][e] \in Entry
        /\ lost[r][e] # None => lost[r][e] \in Entry
    BY <1>1, SettlingTypes
  <2>2. \A entry \in Entry : entry.elapsed \in Elapsed /\ entry.elapsed \in Nat
    BY EntryNumbers DEF Entry
  <2> QED BY <2>1, <2>2
<1>6. ASSUME NEW r \in Replica, NEW e \in Epa, window[r][e] # None
      PROVE  window[r][e] \in Elapsed /\ window[r][e] \in Nat
  <2>1. window[r][e] \in Elapsed
    BY <1>1, <1>6, AllLive DEF TypeOK, PerEpa
  <2> QED BY <2>1, PeriodAssumption DEF Elapsed
<1> QED BY <1>1, <1>2, <1>3, <1>4, <1>5, <1>6

\* The old and the new winner of an EPA: the same unless the old one drains.
LEMMA Winners ==
    ASSUME NEW e \in Epa
    PROVE  /\ Active \cap Draining = {} /\ Nobody \notin Active \cup Draining
           /\ Active # {} => After(e) \in Active
           /\ Active = {} => After(e) = Nobody
           /\ Active \cup Draining # {} => Before(e) \in Active \cup Draining
           /\ Active \cup Draining = {} => Before(e) = Nobody
           /\ Before(e) \in Active => After(e) = Before(e)
           /\ Draining = {} => Before(e) = After(e)
<1>1. Active \in SUBSET Replica /\ Draining \in SUBSET Replica
  BY ViewsArePartitions
<1>2. Active \cap Draining = {} /\ Nobody \notin Active \cup Draining
  BY NobodyAssumption DEF Active, Draining
<1>3. Active # {} => After(e) \in Active
  BY <1>1, ElectedIsHeaviest DEF After
<1>4. Active \cup Draining # {} => Before(e) \in Active \cup Draining
  <2>1. Active \cup Draining \in SUBSET Replica
    BY <1>1
  <2> QED BY <2>1, ElectedIsHeaviest DEF Before
<1>5. (Active = {} => After(e) = Nobody) /\ (Active \cup Draining = {} => Before(e) = Nobody)
  BY DEF After, Before, HighestWeight
<1>6. Before(e) \in Active => After(e) = Before(e)
  <2> SUFFICES ASSUME Before(e) \in Active PROVE After(e) = Before(e)
    OBVIOUS
  <2>1. Before(e) \in Draining \cup {After(e)}
    BY <1>1, PredecessorDrains DEF Before, After
  <2> QED BY <1>2, <2>1
<1>7. Draining = {} => Before(e) = After(e)
  <2>1. Draining = {} => Active \cup Draining = Active
    OBVIOUS
  <2> QED BY <2>1 DEF Before, After
<1> QED BY <1>2, <1>3, <1>4, <1>5, <1>6, <1>7

\* The leases that do not change give the same winners.
LEMMA SameLeases ==
    ASSUME status' = status
    PROVE  /\ Active' = Active /\ Draining' = Draining
           /\ \A e \in Epa : Before(e)' = Before(e) /\ After(e)' = After(e)
BY DEF Active, Draining, Before, After

\* Whom a running replica takes for the owner and the predecessor.
LEMMA SeenOwners ==
    ASSUME DrainMargins, Orderly, NEW r \in Replica, NEW e \in Epa, up[r]
    PROVE  /\ r \in Active \cup Draining
           /\ active[r] = Active => Owner(r, e) = After(e)
           /\ active[r] # Active => Owner(r, e) = Before(e) /\ Draining # {}
           /\ active[r] = Active /\ Draining # {} => PreviousOwner(r, e) = Before(e)
<1>1. r \in Active \cup Draining
  <2>1. status[r] \in {"active", "draining"}
    BY OrderlyTypes DEF Orderly, Leases, Status
  <2> QED BY <2>1 DEF Active, Draining
<1>2. \/ active[r] = Active /\ (Draining = {} \/ draining[r] = Draining)
      \/ active[r] = Active \cup Draining /\ draining[r] = {}
  BY DEF Orderly, Views
<1>3. active[r] = Active => Owner(r, e) = After(e)
  BY DEF Owner, After
<1>4. active[r] # Active => Owner(r, e) = Before(e) /\ Draining # {}
  BY <1>2 DEF Owner, Before
<1>5. ASSUME active[r] = Active, Draining # {} PROVE PreviousOwner(r, e) = Before(e)
  <2>1. Active # Active \cup Draining
    BY <1>5, Winners
  <2>2. draining[r] = Draining
    BY <1>2, <1>5, <2>1
  <2> QED BY <1>5, <2>2 DEF PreviousOwner, Before
<1> QED BY <1>1, <1>3, <1>4, <1>5

\* Once a period and the lag have passed, the new winner has all of the window.
LEMMA SuccessorReady ==
    ASSUME DrainMargins, Orderly, NEW e \in Epa, Active # {},
           calm >= known[e] + MaxLag + 1
    PROVE  Complete(After(e), e)
<1> DEFINE n == After(e)
<1>1. n \in Replica /\ up[n]
  <2>1. n \in Active
    BY Winners
  <2> QED BY <2>1 DEF Active, Orderly, Leases
<1>2. /\ calm \in Nat /\ MaxLag \in Nat /\ known[e] \in Nat /\ known[e] > 0
      /\ known[e] # None /\ Decided /\ Timed
  BY OrderlyTypes DEF Orderly, AllKnown
<1>3. Processed(n, e, MaxLag + 1)
  <2> HIDE DEF n
  <2> QED BY <1>1, <1>2 DEF Processed
<1>4. owned[n][e] # None
  BY <1>1, <1>2, <1>3 DEF Decided, After
<1>5. owned[n][e].elapsed \in Nat
  BY <1>1, <1>4, OrderlyTypes
<1>6. owned[n][e].elapsed + MaxLag + 1 >= calm \/ owned[n][e].elapsed >= known[e]
  <2> HIDE DEF n
  <2> QED BY <1>1, <1>2, <1>4 DEF Timed
<1> HIDE DEF n
<1>7. Complete(n, e)
  BY <1>2, <1>4, <1>5, <1>6 DEF Complete
<1> QED BY <1>7 DEF n

\* A drain begins in calm: every view is right, and the winner has all of the
\* window, which nobody else has lost.
LEMMA DrainIsOrderly ==
    ASSUME DrainMargins, Orderly, NEW r \in Replica, Drain(r)
    PROVE  Leases' /\ Views' /\ AllKnown' /\ Entries' /\ AllHeld'
<1>1. /\ up[r] /\ status[r] = "active" /\ calm >= Gap /\ calm' = 0
      /\ status' = [status EXCEPT ![r] = "draining"]
      /\ left' = [left EXCEPT ![r] = DrainTicks]
      /\ UNCHANGED <<active, draining, epas, owned, lost, window, up, known>>
  BY DEF Drain, ownership, vars, views
<1>2. /\ ClusterTypeOK /\ {calm, MaxLag, DrainTicks, Gap} \subseteq Nat
      /\ MaxLag < DrainTicks /\ DrainTicks < Gap
      /\ Leases /\ Views /\ AllKnown /\ Entries /\ AllHeld /\ UpToDate
  BY OrderlyTypes DEF Orderly, DrainMargins
<1>3. Draining = {}
  <2> SUFFICES ASSUME NEW s \in Draining PROVE FALSE
    OBVIOUS
  <2>1. calm + left[s] = DrainTicks
    BY <1>2 DEF Leases
  <2>2. left[s] \in Nat
    BY OrderlyTypes DEF Draining
  <2> QED BY <1>1, <1>2, <2>1, <2>2
<1>4. /\ Active' = Active \ {r} /\ Draining' = {r} /\ r \in Active
      /\ \A s \in Replica : s # r => status'[s] = status[s] /\ left'[s] = left[s]
      /\ status'[r] = "draining" /\ left'[r] = DrainTicks
  BY <1>1, <1>2, <1>3 DEF ClusterTypeOK, Active, Draining
<1>5. Active' \cup Draining' = Active
  BY <1>4
<1>6. \A e \in Epa : Before(e)' = Before(e) /\ Before(e) = After(e) /\ Before(e) \in Active
  BY <1>3, <1>4, <1>5, Winners DEF Before, After
<1>7. \A s \in Replica : up[s] => active[s] = Active /\ draining[s] = {}
  <2> SUFFICES ASSUME NEW s \in Replica, up[s] PROVE active[s] = Active /\ draining[s] = {}
    OBVIOUS
  <2>1. behind[s] \in 0 .. MaxLag
    BY <1>2 DEF ClusterTypeOK
  <2>2. ~Stale(s)
    BY <1>1, <1>2, <2>1 DEF UpToDate
  <2> QED BY <1>3, <2>2 DEF Stale
<1>8. Leases'
  <2>1. \A s \in Replica : up'[s] <=> status'[s] # "absent"
    BY <1>1, <1>2, <1>4 DEF Leases
  <2>2. \A s \in Draining' : calm' + left'[s] = DrainTicks
    BY <1>1, <1>2, <1>4
  <2>3. \A s \in Draining', t \in Draining' : s = t
    BY <1>4
  <2> QED BY <2>1, <2>2, <2>3 DEF Leases
<1>9. Views'
  BY <1>1, <1>5, <1>7 DEF Views
<1>10. AllKnown'
  BY <1>1, <1>2 DEF AllKnown
<1>11. Entries'
  <2> SUFFICES ASSUME NEW s \in Replica, NEW e \in Epa, up[s]
               PROVE  (owned[s][e] # None => Owns(s, e)') /\ lost[s][e] = None
    BY <1>1 DEF Entries
  <2>1. lost[s][e] = None
    BY <1>2, <1>3 DEF Entries, Lost
  <2>2. owned[s][e] # None => Owns(s, e)'
    BY <1>1, <1>2, <1>6 DEF Entries, Owns
  <2> QED BY <2>1, <2>2
<1>12. AllHeld'
  <2> SUFFICES ASSUME NEW e \in Epa PROVE Held(e)'
    BY DEF AllHeld
  <2>1. Complete(Before(e), e)
    BY <1>2, <1>6 DEF AllHeld, Held
  <2>2. Complete(Before(e), e)' /\ owned'[Before(e)'][e] # None
    BY <1>1, <1>6, <2>1 DEF Complete
  <2> QED BY <2>2 DEF Held
<1> QED BY <1>8, <1>9, <1>10, <1>11, <1>12

\* A replica leaves at the end of its drain: the new winner has all of the
\* window by then.
LEMMA LeaveIsOrderly ==
    ASSUME DrainMargins, Orderly, NEW r \in Replica, Leave(r)
    PROVE  Leases' /\ Views' /\ AllKnown' /\ Entries' /\ AllHeld'
<1>1. /\ up[r] /\ status[r] = "draining" /\ left[r] = 0 /\ calm' = 0
      /\ status' = [status EXCEPT ![r] = "absent"]
      /\ up' = [up EXCEPT ![r] = FALSE]
      /\ UNCHANGED <<left, known>> /\ Die(r)
  BY DEF Leave, Gone
<1>2. /\ ClusterTypeOK /\ TypeOK /\ {calm, MaxLag, DrainTicks} \subseteq Nat
      /\ MaxLag < DrainTicks
      /\ Leases /\ Views /\ AllKnown /\ Entries /\ AllHeld /\ UpToDate
  BY OrderlyTypes DEF Orderly, DrainMargins
<1>3. Draining = {r} /\ r \notin Active
  BY <1>1, <1>2 DEF Leases, Draining, Active
<1>4. calm = DrainTicks
  BY <1>1, <1>2, <1>3 DEF Leases
<1>5. /\ Active' = Active /\ Draining' = {}
      /\ \A s \in Replica : s # r => status'[s] = status[s] /\ up'[s] = up[s]
      /\ status'[r] = "absent" /\ ~up'[r]
  BY <1>1, <1>2, <1>3 DEF ClusterTypeOK, Active, Draining
<1>6. \A e \in Epa : After(e)' = After(e) /\ Before(e)' = After(e)
  <2>1. Active' \cup Draining' = Active
    BY <1>5
  <2> QED BY <1>5, <2>1 DEF Before, After
<1>7. \A s \in Replica : s # r =>
         /\ active'[s] = active[s] /\ draining'[s] = draining[s] /\ epas'[s] = epas[s]
         /\ owned'[s] = owned[s] /\ lost'[s] = lost[s] /\ window'[s] = window[s]
  BY <1>1, <1>2, AllLive DEF Die, TypeOK, PerEpa
<1>8. \A s \in Replica : up[s] => active[s] = Active
  BY <1>2, <1>4, RightView
<1>9. Leases'
  BY <1>1, <1>2, <1>5 DEF Leases
<1>10. Views'
  BY <1>5, <1>7, <1>8 DEF Views
<1>11. AllKnown'
  BY <1>1, <1>2, <1>5, <1>7 DEF AllKnown
<1>12. Entries'
  <2> SUFFICES ASSUME NEW s \in Replica, NEW e \in Epa, up[s], s # r
               PROVE  (owned'[s][e] # None => Owns(s, e)') /\ lost'[s][e] = None
    BY <1>5 DEF Entries
  <2>1. lost'[s][e] = None
    BY <1>2, <1>3, <1>7 DEF Entries, Lost
  <2>2. ASSUME owned[s][e] # None PROVE Owns(s, e)'
    <3>1. Owns(s, e)
      BY <1>2, <2>2 DEF Entries
    <3>2. s \in Active
      BY <1>3, SeenOwners
    <3>3. s = After(e)
      BY <3>1, <3>2, Winners DEF Owns
    <3> QED BY <1>6, <1>7, <3>1, <3>3 DEF Owns
  <2> QED BY <1>7, <2>1, <2>2
<1>13. AllHeld'
  <2> SUFFICES ASSUME NEW e \in Epa PROVE Held(e)'
    BY DEF AllHeld
  <2>1. Before(e)' \notin Draining' /\ Before(e)' = After(e)
    BY <1>5, <1>6
  <2>2. ASSUME Active # {} PROVE Complete(After(e), e)'
    <3>1. After(e) \in Active
      BY <2>2, Winners
    <3>2. calm >= known[e] + MaxLag + 1
      BY <1>2, <1>4, OrderlyTypes
    <3>3. Complete(After(e), e)
      BY <2>2, <3>2, SuccessorReady
    <3>4. After(e) \in Replica /\ After(e) # r
      BY <1>3, <3>1 DEF Active
    <3> QED BY <1>1, <1>6, <1>7, <3>3, <3>4 DEF Complete
  <2>3. Before(e)' \in Active' => Active # {}
    BY <1>5
  <2> QED BY <1>6, <2>1, <2>2, <2>3 DEF Held, Complete
<1> QED BY <1>9, <1>10, <1>11, <1>12, <1>13

\* A replica that sees the leases only comes to know of the drain.
LEMMA SeeIsOrderly ==
    ASSUME DrainMargins, Orderly, NEW r \in Replica, See(r)
    PROVE  Leases' /\ Views' /\ AllKnown' /\ Entries' /\ AllHeld'
<1>1. /\ UNCHANGED <<epas, owned, lost, window, status, up, left, known, calm>>
      /\ active' = [active EXCEPT ![r] = Active] /\ draining' = [draining EXCEPT ![r] = Draining]
  BY DEF See, ViewChange, cluster
<1>2. TypeOK /\ Leases /\ Views /\ AllKnown /\ Entries /\ AllHeld
  BY OrderlyTypes DEF Orderly
<1>3. /\ Active' = Active /\ Draining' = Draining
      /\ \A e \in Epa : Before(e)' = Before(e) /\ After(e)' = After(e)
  BY <1>1, SameLeases
<1>4. /\ active'[r] = Active /\ draining'[r] = Draining
      /\ \A s \in Replica : s # r => active'[s] = active[s] /\ draining'[s] = draining[s]
  BY <1>1, <1>2, AllLive DEF TypeOK
<1>5. Leases'
  BY <1>1, <1>2, <1>3 DEF Leases
<1>6. Views'
  BY <1>1, <1>2, <1>3, <1>4 DEF Views
<1>7. AllKnown'
  BY <1>1, <1>2 DEF AllKnown
<1>8. Entries'
  <2> SUFFICES ASSUME NEW s \in Replica, NEW e \in Epa, up[s]
               PROVE  /\ owned[s][e] # None => Owns(s, e)'
                      /\ lost[s][e] # None => Lost(s, e)'
    BY <1>1 DEF Entries
  <2>1. active[s] = Active => active'[s] = Active'
    BY <1>3, <1>4
  <2>2. owned[s][e] # None => Owns(s, e)'
    BY <1>1, <1>2, <1>3, <2>1 DEF Entries, Owns
  <2>3. lost[s][e] # None => Lost(s, e)'
    BY <1>1, <1>2, <1>3, <2>1 DEF Entries, Lost, Full
  <2> QED BY <2>2, <2>3
<1>9. AllHeld'
  <2> SUFFICES ASSUME NEW e \in Epa PROVE Held(e)'
    BY DEF AllHeld
  <2>1. Held(e)
    BY <1>2 DEF AllHeld
  <2>2. \A s : Complete(s, e)' = Complete(s, e)
    BY <1>1 DEF Complete
  <2>3. Before(e) \in Draining => (active[Before(e)] = Active => active'[Before(e)] = Active)
    BY <1>4 DEF Draining
  <2> QED BY <1>1, <1>3, <2>1, <2>2, <2>3 DEF Held
<1> QED BY <1>5, <1>6, <1>7, <1>8, <1>9

\* A tick ages what there is; a drain that is over ends before it.
LEMMA TickIsOrderly ==
    ASSUME DrainMargins, Orderly, Tick
    PROVE  Leases' /\ Views' /\ AllKnown' /\ Entries' /\ AllHeld'
<1>1. /\ UNCHANGED <<active, draining, epas, status, up, known>> /\ Pass
      /\ left' = [r \in Replica |-> IF left[r] > 0 THEN left[r] - 1 ELSE 0]
      /\ calm' = IF calm < MaxCalm THEN calm + 1 ELSE calm
      /\ \A r \in Replica : ~Ending(r)
  BY DEF Tick, Pass, views
<1>2. /\ TypeOK /\ Leases /\ Views /\ AllKnown /\ Entries /\ AllHeld
      /\ {calm, DrainTicks, Gap, MaxCalm} \subseteq Nat /\ DrainTicks < Gap /\ Gap <= MaxCalm
  BY OrderlyTypes DEF Orderly, DrainMargins
<1>3. /\ Active' = Active /\ Draining' = Draining
      /\ \A e \in Epa : Before(e)' = Before(e) /\ After(e)' = After(e)
  BY <1>1, SameLeases
<1>4. ASSUME NEW r \in Draining PROVE calm' = calm + 1 /\ calm' + left'[r] = DrainTicks
  <2>1. r \in Replica /\ status[r] = "draining" /\ left[r] \in Nat
    BY OrderlyTypes DEF Draining
  <2>2. left[r] # 0
    BY <1>1, <1>2, <2>1 DEF Ending, Leases
  <2>3. left'[r] = left[r] - 1
    BY <1>1, <2>1, <2>2
  <2>4. calm + left[r] = DrainTicks
    BY <1>2 DEF Leases
  <2> QED BY <1>1, <1>2, <2>1, <2>2, <2>3, <2>4
<1>5. Leases'
  BY <1>1, <1>2, <1>3, <1>4 DEF Leases
<1>6. Views'
  BY <1>1, <1>2, <1>3 DEF Views
<1>7. AllKnown'
  BY <1>1, <1>2 DEF AllKnown
<1>8. ASSUME NEW r \in Replica, NEW e \in Epa
      PROVE  /\ owned'[r][e] = None <=> owned[r][e] = None
             /\ lost'[r][e] = None <=> lost[r][e] = None
             /\ owned[r][e] # None => owned'[r][e].elapsed = Later(owned[r][e].elapsed)
             /\ lost[r][e] # None => lost'[r][e].elapsed = Later(lost[r][e].elapsed)
             /\ window'[r][e] = IF window[r][e] = None THEN None ELSE Later(window[r][e])
  <2>1. owned'[r][e] = Older(owned[r][e]) /\ lost'[r][e] = Older(lost[r][e])
    BY <1>1, <1>2, PassedAt, AllLive
  <2>2. owned[r][e] \in MaybeEntry /\ lost[r][e] \in MaybeEntry
    BY OrderlyTypes, SettlingTypes
  <2>3. window'[r][e] = IF window[r][e] = None THEN None ELSE Later(window[r][e])
    BY <1>1, AllLive DEF Pass
  <2> QED BY <2>1, <2>2, <2>3, OlderType
<1>9. ASSUME NEW n \in Elapsed
      PROVE  /\ n \in Nat /\ Later(n) \in Nat /\ Later(n) \in Elapsed
             /\ n <= Later(n) /\ Later(n) <= n + 1 /\ Later(n) # None
  BY PeriodAssumption, NoneAssumption DEF Later, Elapsed
<1>10. ASSUME NEW r \in Replica, NEW e \in Epa, Complete(r, e) PROVE Complete(r, e)'
  <2>1. /\ owned[r][e].elapsed \in Elapsed /\ owned[r][e] # None
        /\ owned[r][e].elapsed >= known[e] /\ known[e] \in Nat
    BY <1>10, OrderlyTypes DEF Complete
  <2> QED BY <1>1, <1>8, <1>9, <2>1 DEF Complete
<1>11. ASSUME NEW r \in Replica, NEW e \in Epa, Full(r, e) PROVE Full(r, e)'
  <2>1. /\ window[r][e] \in Elapsed /\ window[r][e] # None
        /\ window[r][e] >= known[e] /\ known[e] \in Nat
    BY <1>11, OrderlyTypes DEF Full
  <2> QED BY <1>1, <1>8, <1>9, <2>1 DEF Full
<1>12. Entries'
  <2> SUFFICES ASSUME NEW r \in Replica, NEW e \in Epa, up[r]
               PROVE  /\ owned'[r][e] # None => Owns(r, e)'
                      /\ lost'[r][e] # None => Lost(r, e)'
    BY <1>1 DEF Entries
  <2>1. ASSUME owned[r][e] # None PROVE Owns(r, e)'
    <3>1. Owns(r, e)
      BY <1>2, <2>1 DEF Entries
    <3>2. owned[r][e].elapsed \in Elapsed /\ window[r][e] \in Elapsed
      BY <2>1, <3>1, OrderlyTypes DEF Owns
    <3>3. Later(owned[r][e].elapsed) <= Later(window[r][e])
      BY <1>9, <3>1, <3>2, LaterMonotone DEF Owns
    <3>4. window'[r][e] # None /\ window'[r][e] >= owned'[r][e].elapsed
      BY <1>8, <1>9, <2>1, <3>1, <3>2, <3>3 DEF Owns
    <3> QED BY <1>1, <1>3, <3>1, <3>4 DEF Owns
  <2>2. ASSUME lost[r][e] # None PROVE Lost(r, e)'
    <3>1. Lost(r, e)
      BY <1>2, <2>2 DEF Entries
    <3>2. lost'[r][e].elapsed <= calm'
      BY <1>2, <1>4, <1>8, <1>9, <2>2, <3>1, OrderlyTypes DEF Lost
    <3> QED BY <1>1, <1>3, <1>11, <3>1, <3>2 DEF Lost
  <2> QED BY <1>8, <2>1, <2>2
<1>13. AllHeld'
  <2> SUFFICES ASSUME NEW e \in Epa PROVE Held(e)'
    BY DEF AllHeld
  <2>1. Held(e)
    BY <1>2 DEF AllHeld
  <2>2. /\ Before(e) \in Active \cup Draining => Before(e) \in Replica
        /\ Active # {} => After(e) \in Replica
    BY Winners DEF Active, Draining
  <2> QED BY <1>1, <1>3, <1>8, <1>10, <2>1, <2>2 DEF Held
<1> QED BY <1>5, <1>6, <1>7, <1>12, <1>13

\* What a pass leaves in the store, and which losses it drops.
LEMMA ScheduledStore ==
    ASSUME ClusterTypeOK, PeriodsAgree, NEW r \in Replica, NEW e \in Epa, Schedule(r, e)
    PROVE  /\ window'[r][e] = IF owned'[r][e] = None /\ lost'[r][e] = None THEN None
                              ELSE IF window[r][e] = None THEN 0 ELSE window[r][e]
           /\ \A s \in Replica, k \in Epa : s # r \/ k # e =>
                 /\ window'[s][k] = window[s][k]
                 /\ lost[s][k] # None /\ lost'[s][k] = None => s = r /\ ~Kept(lost[s][k])
<1>1. TypeOK /\ r \in Live /\ epas[r][e] \in Period /\ Process(r, e)
  BY SettlingTypes DEF Schedule, Process, PeriodsAgree, ClusterTypeOK
<1>2. Refresh(r, e, epas[r][e])
  BY <1>1 DEF Process
<1>3. window' = [window EXCEPT ![r][e] =
                   IF ~ShouldScrape(r, e)' THEN None ELSE IF @ = None THEN 0 ELSE @]
  BY <1>1 DEF Process
<1>4. window'[r][e] = IF ~ShouldScrape(r, e)' THEN None
                      ELSE IF window[r][e] = None THEN 0 ELSE window[r][e]
  BY <1>1, <1>3 DEF TypeOK, PerEpa
<1>5. ASSUME NEW s \in Replica, NEW k \in Epa, s # r \/ k # e
      PROVE  window'[s][k] = window[s][k]
  BY <1>1, <1>3, <1>5, AllLive DEF TypeOK, PerEpa
<1>6. ASSUME NEW s \in Replica, NEW k \in Epa, s # r \/ k # e,
             lost[s][k] # None, lost'[s][k] = None
      PROVE  s = r /\ ~Kept(lost[s][k])
  <2>1. s = r
    BY <1>1, <1>2, <1>6, RefreshedAt, AllLive
  <2>2. k # e
    BY <1>6, <2>1
  <2>3. lost'[r][k] = IF Kept(lost[r][k]) THEN lost[r][k] ELSE None
    BY <1>1, <1>2, <2>2, RefreshedAt
  <2> QED BY <1>6, <2>1, <2>3
<1> QED BY <1>4, <1>5, <1>6 DEF ShouldScrape

\* When a loss may be dropped, the new winner has all of the window.
LEMMA OverWhenReady ==
    ASSUME DrainMargins, Orderly, NEW r \in Replica, NEW e \in Epa, up[r],
           lost[r][e] # None, ~Kept(lost[r][e]), Active # {}
    PROVE  Complete(After(e), e)
<1>1. lost[r][e] \in Entry /\ lost[r][e].period = known[e] /\ lost[r][e].elapsed \in Nat
  BY OrderlyTypes DEF PeriodsAgree
<1>2. lost[r][e].elapsed >= known[e] + GraceBuffer
  BY <1>1, EntryNumbers
<1>3. lost[r][e].elapsed <= calm
  BY DEF Orderly, Entries, Lost
<1>4. known[e] \in Nat /\ {MaxLag, GraceBuffer, calm} \subseteq Nat /\ MaxLag < GraceBuffer
  BY OrderlyTypes DEF DrainMargins
<1>5. calm >= known[e] + MaxLag + 1
  BY <1>1, <1>2, <1>3, <1>4
<1> QED BY <1>5, SuccessorReady

\* Who wins in a pass is the old winner, as long as it does not know that it
\* drains, or the new one that knows.
LEMMA PassWinner ==
    ASSUME DrainMargins, Orderly, NEW r \in Replica, NEW e \in Epa, up[r], IsOwner(r, e)
    PROVE  /\ r = Before(e) \/ (r = After(e) /\ active[r] = Active)
           /\ r \in Draining => active[r] # Active
<1>1. Owner(r, e) = r
  BY DEF IsOwner
<1>2. r \in Draining => active[r] # Active
  <2> SUFFICES ASSUME r \in Draining, active[r] = Active PROVE FALSE
    OBVIOUS
  <2>1. r = After(e)
    BY <1>1, SeenOwners
  <2> QED BY <2>1, Winners
<1> QED BY <1>1, <1>2, SeenOwners

\* Who loses in a pass is the old winner that has learnt that it drains.
LEMMA PassLoser ==
    ASSUME DrainMargins, Orderly, NEW r \in Replica, NEW e \in Epa, up[r], ~IsOwner(r, e),
           owned[r][e] # None
    PROVE  r = Before(e) /\ r \in Draining /\ active[r] = Active /\ Full(r, e) /\ r # After(e)
<1>1. Owner(r, e) # r
  BY DEF IsOwner
<1>2. Owns(r, e)
  BY DEF Orderly, Entries
<1>3. ~(r = After(e) /\ active[r] = Active)
  BY <1>1, SeenOwners
<1>4. r = Before(e)
  BY <1>2, <1>3 DEF Owns
<1>5. r \in Draining
  <2>1. r \in Active => Owner(r, e) = r
    BY <1>4, SeenOwners, Winners
  <2> QED BY <1>1, <2>1, SeenOwners
<1>6. active[r] = Active
  BY <1>1, <1>4, SeenOwners
<1>7. r # After(e)
  BY <1>5, Winners
<1>8. Full(r, e)
  <2>1. Complete(r, e)
    BY <1>4, <1>5 DEF Orderly, AllHeld, Held
  <2>2. window[r][e] # None /\ window[r][e] >= owned[r][e].elapsed
    BY <1>2 DEF Owns
  <2>3. window[r][e] \in Nat /\ owned[r][e].elapsed \in Nat /\ known[e] \in Nat
    BY <2>2, OrderlyTypes
  <2> QED BY <2>1, <2>2, <2>3 DEF Complete, Full
<1> QED BY <1>4, <1>5, <1>6, <1>7, <1>8

\* A pass over an EPA hands it on only when that is safe.
LEMMA ScheduleIsOrderly ==
    ASSUME DrainMargins, Orderly, NEW r \in Replica, NEW e \in Epa, Schedule(r, e)
    PROVE  Leases' /\ Views' /\ AllKnown' /\ Entries' /\ AllHeld'
<1>1. /\ ClusterTypeOK /\ PeriodsAgree /\ Settling
      /\ Leases /\ Views /\ AllKnown /\ Entries /\ AllHeld
  BY OrderlyTypes DEF Orderly
<1>2. /\ up[r] /\ UNCHANGED <<active, draining, epas, status, up, left, known, calm>>
  BY <1>1, ScheduledAt DEF Schedule, cluster
<1>3. /\ Active' = Active /\ Draining' = Draining
      /\ \A k \in Epa : Before(k)' = Before(k) /\ After(k)' = After(k)
  BY <1>2, SameLeases
<1>4. \A s \in Replica, k \in Epa : s # r \/ k # e =>
         /\ owned'[s][k] = owned[s][k] /\ lost'[s][k] \in {lost[s][k], None}
         /\ window'[s][k] = window[s][k]
         /\ lost[s][k] # None /\ lost'[s][k] = None => s = r /\ ~Kept(lost[s][k])
  BY <1>1, ScheduledAt, ScheduledStore
<1>5. Leases' /\ Views' /\ AllKnown'
  BY <1>1, <1>2, <1>3 DEF Leases, Views, AllKnown
<1>6. /\ owned'[r][e] # None =>
           /\ IsOwner(r, e)
           /\ \/ owned[r][e] # None /\ owned'[r][e].elapsed = owned[r][e].elapsed
              \/ owned[r][e] = None /\ owned'[r][e].elapsed = 0
      /\ lost'[r][e] # None =>
           /\ ~IsOwner(r, e)
           /\ \/ lost'[r][e] = lost[r][e]
              \/ owned[r][e] # None /\ lost'[r][e].elapsed = 0
      /\ IsOwner(r, e) => owned'[r][e] # None
  BY <1>1, ScheduledEntries
<1>7. /\ window'[r][e] = IF owned'[r][e] = None /\ lost'[r][e] = None THEN None
                         ELSE IF window[r][e] = None THEN 0 ELSE window[r][e]
  BY <1>1, ScheduledStore
<1>8. ASSUME ~IsOwner(r, e), owned[r][e] # None, lost[r][e] = None
      PROVE  lost'[r][e] # None
  <2>1. known[e] \in Period /\ known[e] > 0 /\ {known[e], GraceBuffer} \subseteq Nat
    BY OrderlyTypes
  <2>2. Loss(r, e, known[e]) = [elapsed |-> 0, period |-> known[e]]
    BY <1>8 DEF Loss
  <2>3. Loss(r, e, known[e]) # None
    BY <2>1, <2>2, NewEntry, EntryNumbers
  <2>4. Kept(Loss(r, e, known[e]))
    BY <2>1, <2>2, <2>3 DEF Kept
  <2> QED BY <1>1, <2>3, <2>4, ScheduledAt
<1>9. ASSUME ~IsOwner(r, e), lost[r][e] # None, lost'[r][e] = None
      PROVE  ~Kept(lost[r][e])
  <2>1. Loss(r, e, known[e]) = lost[r][e]
    BY <1>9 DEF Loss
  <2> QED BY <1>1, <1>9, <2>1, ScheduledAt
<1>10. Entries'
  <2> SUFFICES ASSUME NEW s \in Replica, NEW k \in Epa, up[s]
               PROVE  /\ owned'[s][k] # None => Owns(s, k)'
                      /\ lost'[s][k] # None => Lost(s, k)'
    BY <1>2 DEF Entries
  <2>1. CASE s # r \/ k # e
    <3>1. owned'[s][k] # None => Owns(s, k)'
      BY <1>1, <1>2, <1>3, <1>4, <2>1 DEF Entries, Owns
    <3>2. lost'[s][k] # None => Lost(s, k)'
      BY <1>1, <1>2, <1>3, <1>4, <2>1 DEF Entries, Lost, Full
    <3> QED BY <3>1, <3>2
  <2>2. CASE s = r /\ k = e
    <3>1. ASSUME owned'[r][e] # None PROVE Owns(r, e)'
      <4>1. (r = Before(e) \/ (r = After(e) /\ active[r] = Active))'
        BY <1>2, <1>3, <1>6, <3>1, PassWinner
      <4>2. (window[r][e] # None /\ window[r][e] >= owned[r][e].elapsed)'
        <5>1. CASE owned[r][e] # None
          <6>1. window[r][e] # None /\ window[r][e] >= owned[r][e].elapsed
            BY <1>1, <1>2, <5>1 DEF Entries, Owns
          <6> QED BY <1>6, <1>7, <3>1, <5>1, <6>1
        <5>2. CASE owned[r][e] = None
          <6>1. owned'[r][e].elapsed = 0
            BY <1>6, <3>1, <5>2
          <6>2. 0 # None
            BY NoneAssumption
          <6>3. window[r][e] # None => window[r][e] >= 0
            BY OrderlyTypes
          <6> QED BY <1>7, <3>1, <6>1, <6>2, <6>3
        <5> QED BY <5>1, <5>2
      <4> QED BY <4>1, <4>2 DEF Owns
    <3>2. ASSUME lost'[r][e] # None PROVE Lost(r, e)'
      <4>1. /\ r = Before(e) /\ r \in Draining /\ active[r] = Active /\ Full(r, e)
            /\ lost'[r][e].elapsed <= calm
        <5>1. CASE lost[r][e] # None /\ lost'[r][e] = lost[r][e]
          BY <1>1, <1>2, <5>1 DEF Entries, Lost
        <5>2. CASE owned[r][e] # None /\ lost'[r][e].elapsed = 0
          BY <1>2, <1>6, <3>2, <5>2, PassLoser, OrderlyTypes
        <5> QED BY <1>6, <3>2, <5>1, <5>2
      <4>2. Full(r, e)'
        BY <1>2, <1>7, <3>2, <4>1 DEF Full
      <4> QED BY <1>2, <1>3, <4>1, <4>2 DEF Lost
    <3> QED BY <2>2, <3>1, <3>2
  <2> QED BY <2>1, <2>2
<1>11. ASSUME NEW s \in Replica, NEW k \in Epa, Complete(s, k), owned'[s][k] # None
       PROVE  Complete(s, k)'
  <2>1. owned[s][k] # None /\ owned[s][k].elapsed >= known[k]
    BY <1>11 DEF Complete
  <2>2. owned'[s][k].elapsed = owned[s][k].elapsed
    BY <1>4, <1>6, <1>11, <2>1
  <2> QED BY <1>2, <1>11, <2>1, <2>2 DEF Complete
<1>12. ASSUME NEW k \in Epa, Active # {}, Complete(After(k), k) PROVE Complete(After(k), k)'
  <2>1. After(k) \in Active /\ After(k) \in Replica
    BY <1>12, Winners DEF Active
  <2>2. ASSUME After(k) = r, k = e, owned'[r][e] = None PROVE FALSE
    <3>1. ~IsOwner(r, e) /\ owned[r][e] # None
      BY <1>6, <1>12, <2>2 DEF Complete
    <3> QED BY <1>2, <2>2, <3>1, PassLoser
  <2>3. owned'[After(k)][k] # None
    BY <1>4, <1>12, <2>1, <2>2 DEF Complete
  <2>4. Complete(After(k), k) /\ After(k) \in Replica /\ owned'[After(k)][k] # None
    BY <1>12, <2>1, <2>3
  <2> DEFINE n == After(k)
  <2>5. n' = n
    BY <1>3
  <2> HIDE DEF n
  <2>6. PICK m \in Replica : m = n
    BY <2>4 DEF n
  <2>7. Complete(m, k)'
    BY <1>11, <2>4, <2>6 DEF n
  <2>8. Complete(n, k)'
    BY <2>5, <2>6, <2>7 DEF Complete
  <2> QED BY <2>8 DEF n
<1>13. AllHeld'
  <2> SUFFICES ASSUME NEW k \in Epa PROVE Held(k)'
    BY DEF AllHeld
  <2>1. Held(k)
    BY <1>1 DEF AllHeld
  <2> DEFINE w == Before(k)
  <2>2. w' = w /\ (w \in Active \cup Draining => w \in Replica /\ up[w])
    <3>1. w' = w
      BY <1>3
    <3>2. w \in Active \cup Draining => w \in Replica
      BY DEF Active, Draining
    <3>3. w \in Active \cup Draining => up[w]
      BY <1>1, <3>2 DEF Leases, Active, Draining
    <3> QED BY <3>1, <3>2, <3>3
  <2>3. ASSUME w \in Active PROVE Complete(w, k)'
    <3>1. Complete(After(k), k) /\ After(k) = w /\ Active # {}
      BY <2>1, <2>3, Winners DEF Held
    <3>2. Complete(After(k), k)'
      BY <1>12, <3>1
    <3> QED BY <1>3, <3>1, <3>2 DEF Complete
  <2>4. ASSUME w \in Draining, owned'[w][k] # None PROVE Complete(w, k)'
    <3>1. w \in Replica /\ up[w]
      BY <2>2, <2>4
    <3>2. owned[w][k] # None
      <4> SUFFICES ASSUME owned[w][k] = None PROVE FALSE
        OBVIOUS
      <4>1. active[w] = Active
        BY <2>1, <2>4 DEF Held
      <4>2. w = r /\ k = e
        BY <1>4, <2>4, <3>1
      <4>3. IsOwner(r, e)
        BY <1>6, <2>4, <4>2
      <4>4. r \in Draining /\ active[r] = Active
        BY <2>4, <4>1, <4>2
      <4> HIDE DEF w
      <4> QED BY <1>2, <4>3, <4>4, PassWinner
    <3>3. Complete(w, k)
      BY <2>1, <2>4, <3>2 DEF Held
    <3>4. PICK m \in Replica : m = w
      BY <3>1
    <3>5. Complete(m, k)'
      BY <1>11, <2>4, <3>3, <3>4
    <3> QED BY <2>2, <3>4, <3>5 DEF Complete
  <2>5. ASSUME w \in Draining, owned'[w][k] = None PROVE active'[w] = Active
    <3>1. w \in Replica /\ up[w]
      BY <2>2, <2>5
    <3>2. CASE owned[w][k] = None
      BY <1>2, <2>1, <2>5, <3>2 DEF Held
    <3>3. CASE owned[w][k] # None
      <4>1. w = r /\ k = e
        BY <1>4, <2>5, <3>1, <3>3
      <4>2. ~IsOwner(r, e) /\ owned[r][e] # None
        BY <1>6, <2>5, <3>3, <4>1
      <4> HIDE DEF w
      <4>3. active[r] = Active
        BY <1>2, <4>2, PassLoser
      <4> QED BY <1>2, <4>1, <4>3
    <3> QED BY <3>2, <3>3
  <2>6. ASSUME w \in Draining, owned'[w][k] = None, lost'[w][k] = None, Active # {}
        PROVE  Complete(After(k), k)'
    <3>1. w \in Replica /\ up[w]
      BY <2>2, <2>6
    <3> SUFFICES Complete(After(k), k)
      BY <1>12, <2>6
    <3>2. CASE owned[w][k] = None /\ lost[w][k] = None
      BY <2>1, <2>6, <3>2 DEF Held
    <3>3. CASE lost[w][k] # None
      <4>1. ~Kept(lost[w][k])
        <5>1. CASE w # r \/ k # e
          BY <1>4, <2>6, <3>1, <3>3, <5>1
        <5>2. CASE w = r /\ k = e
          BY <1>6, <1>9, <2>6, <3>3, <5>2
        <5> QED BY <5>1, <5>2
      <4>2. PICK m \in Replica : m = w
        BY <3>1
      <4> HIDE DEF w
      <4> QED BY <2>6, <3>1, <3>3, <4>1, <4>2, OverWhenReady
    <3>4. CASE owned[w][k] # None /\ lost[w][k] = None
      <4>1. w = r /\ k = e
        BY <1>4, <2>6, <3>1, <3>4
      <4> QED BY <1>6, <1>8, <2>6, <3>4, <4>1
    <3> QED BY <3>2, <3>3, <3>4
  <2> HIDE DEF w
  <2>7. /\ w \in Active => Complete(w, k)'
        /\ w \in Draining =>
              /\ owned'[w][k] # None => Complete(w, k)'
              /\ owned'[w][k] = None => active'[w] = Active
              /\ owned'[w][k] = None /\ lost'[w][k] = None /\ Active # {}
                 => Complete(After(k), k)'
    BY <2>3, <2>4, <2>5, <2>6
  <2> QED BY <1>3, <2>2, <2>7 DEF Held, w
<1> QED BY <1>5, <1>10, <1>13

\* The entries of the schedulers, the views and the leases are all it is about.
LEMMA UnchangedIsOrderly ==
    ASSUME Orderly,
           UNCHANGED <<active, draining, epas, owned, lost, window, status, up, left, known, calm>>
    PROVE  Leases' /\ Views' /\ AllKnown' /\ Entries' /\ AllHeld'
<1>1. Leases /\ Views /\ AllKnown /\ Entries /\ AllHeld
  BY DEF Orderly
<1>2. /\ Active' = Active /\ Draining' = Draining
      /\ \A e \in Epa : Before(e)' = Before(e) /\ After(e)' = After(e)
  BY SameLeases
<1>3. Leases' /\ Views' /\ AllKnown'
  BY <1>1, <1>2 DEF Leases, Views, AllKnown
<1>4. Entries'
  BY <1>1, <1>2 DEF Entries, Owns, Lost, Full
<1>5. AllHeld'
  <2>1. ASSUME NEW e \in Epa PROVE Held(e)'
    <3>1. Held(e)
      BY <1>1 DEF AllHeld
    <3> QED BY <1>2, <3>1 DEF Held, Complete
  <2> QED BY <2>1 DEF AllHeld
<1> QED BY <1>3, <1>4, <1>5

\* Drains, one after the other, are orderly.
LEMMA OrderlyStep ==
    ASSUME DrainMargins, Orderly, [ClusterNext]_allvars, [DrainsOnly]_allvars
    PROVE  Orderly'
<1>1. /\ ClusterTypeOK /\ Settling /\ Leases /\ Views /\ AllKnown /\ Entries /\ AllHeld
      /\ Settling'
  BY OrderlyTypes, SettlingStep DEF Orderly
<1> SUFFICES Leases' /\ Views' /\ AllKnown' /\ Entries' /\ AllHeld'
  BY <1>1 DEF Orderly
<1>2. UNCHANGED <<known, joins, crashes>>
  BY DEF DrainsOnly, allvars, cluster, changes
<1>3. ASSUME NEW r \in Replica, Join(r) \/ Crash(r) PROVE FALSE
  <2>1. joins \in Nat /\ crashes \in Nat
    BY <1>1, HandoffAssumption DEF ClusterTypeOK
  <2> QED BY <1>2, <1>3, <2>1 DEF Join, Crash
<1>4. ASSUME NEW r \in Replica, Expire(r) PROVE FALSE
  BY <1>1, <1>4 DEF Expire, Leases
<1>5. ASSUME NEW e \in Epa, NEW p \in Period, Create(e, p) PROVE FALSE
  BY <1>1, <1>5 DEF Create, AllKnown
<1>6. ASSUME NEW r \in Replica, NEW e \in Epa, Learn(r, e)
      PROVE  Leases' /\ Views' /\ AllKnown' /\ Entries' /\ AllHeld'
  <2>1. epas' = [epas EXCEPT ![r][e] = known[e]] /\ epas[r][e] = known[e]
    BY <1>1, <1>6 DEF Learn, Upsert, AllKnown
  <2>2. epas' = epas
    BY <1>1, <2>1, AllLive DEF ClusterTypeOK, TypeOK, PerEpa
  <2>3. UNCHANGED <<active, draining, owned, lost, window, status, up, left, known, calm>>
    BY <1>6 DEF Learn, Upsert, views, cluster
  <2> QED BY <2>2, <2>3, UnchangedIsOrderly
<1>7. CASE UNCHANGED allvars
  <2>1. UNCHANGED <<active, draining, epas, owned, lost, window, status, up, left, known, calm>>
    BY <1>7 DEF allvars, ownership, vars, views, cluster
  <2> QED BY <2>1, UnchangedIsOrderly
<1> QED
  BY <1>3, <1>4, <1>5, <1>6, <1>7, DrainIsOrderly, LeaveIsOrderly, SeeIsOrderly,
     TickIsOrderly, ScheduleIsOrderly DEF ClusterNext

\* What has settled is orderly.
LEMMA CalmIsOrderly ==
    ASSUME DrainMargins, Settling, WindowAsOldAsOwnership, deletes = 0, LongCalm
    PROVE  Orderly
<1>1. /\ ClusterTypeOK /\ UpToDate /\ Decided /\ Timed /\ Dropped
      /\ calm > MaxLag /\ {calm, MaxLag, GraceBuffer} \subseteq Nat
  BY SettlingTypes DEF Settling, LongCalm
<1>2. Draining = {}
  BY DEF LongCalm, Draining
<1>3. Leases
  BY <1>2 DEF LongCalm, Leases
<1>4. \A r \in Replica : up[r] => active[r] = Active /\ \A e \in Epa : epas[r][e] = known[e]
  BY <1>1, RightView
<1>5. Views /\ AllKnown
  BY <1>2, <1>4 DEF Views, AllKnown, LongCalm
<1>6. \A e \in Epa : Before(e) = After(e)
  BY <1>2, Winners
<1>7. ASSUME NEW e \in Epa
      PROVE  /\ known[e] # None /\ known[e] \in Nat
             /\ calm > MaxLag + known[e] + GraceBuffer + 1
             /\ \A r \in Replica : up[r] => /\ owned[r][e] # None <=> r = After(e)
                                            /\ lost[r][e] = None
  <2>1. /\ known[e] # None /\ known[e] \in Nat
        /\ calm > MaxLag + known[e] + GraceBuffer + 1
    BY <1>1, SettlingTypes DEF LongCalm
  <2>2. ASSUME NEW r \in Replica, up[r]
        PROVE  (owned[r][e] # None <=> r = After(e)) /\ lost[r][e] = None
    <3>1. Processed(r, e, MaxLag + 1)
      BY <1>1, <2>1, <2>2 DEF Processed
    <3>2. Processed(r, e, MaxLag + 1 + known[e] + GraceBuffer)
      BY <1>1, <2>1, <2>2 DEF Processed
    <3>3. owned[r][e] # None <=> r = After(e)
      BY <1>1, <3>1 DEF Decided, After
    <3>4. lost[r][e] = None
      BY <1>1, <3>2 DEF Dropped
    <3> QED BY <3>3, <3>4
  <2> QED BY <2>1, <2>2
<1>8. Entries
  <2> SUFFICES ASSUME NEW r \in Replica, NEW e \in Epa, up[r]
               PROVE  (owned[r][e] # None => Owns(r, e)) /\ lost[r][e] = None
    BY DEF Entries
  <2>1. owned[r][e] # None => window[r][e] # None /\ window[r][e] >= owned[r][e].elapsed
    BY AllLive DEF WindowAsOldAsOwnership
  <2> QED BY <1>4, <1>6, <1>7, <2>1 DEF Owns
<1>9. AllHeld
  <2> SUFFICES ASSUME NEW e \in Epa, Before(e) \in Active PROVE Complete(Before(e), e)
    BY <1>2 DEF AllHeld, Held
  <2>1. PICK r \in Replica : r = Before(e) /\ up[r]
    BY <1>3 DEF Leases, Active
  <2>2. owned[r][e] # None
    BY <1>6, <1>7, <2>1
  <2>3. owned[r][e].elapsed \in Nat
    BY <1>1, <2>2, SettlingTypes, EntryNumbers
  <2>4. owned[r][e].elapsed + MaxLag + 1 >= calm \/ owned[r][e].elapsed >= known[e]
    BY <1>1, <1>7, <2>1, <2>2 DEF Timed
  <2>5. owned[r][e].elapsed >= known[e]
    BY <1>1, <1>7, <2>3, <2>4
  <2> QED BY <2>1, <2>2, <2>5 DEF Complete
<1> QED BY <1>3, <1>5, <1>8, <1>9 DEF Orderly

\* Who serves has an entry: of a win that is complete, or of a win before which
\* nobody else had the EPA, or of a loss.
LEMMA Serving ==
    ASSUME DrainMargins, Orderly, NEW r \in Replica, NEW e \in Epa, up[r]
    PROVE  /\ Complete(r, e) => ShouldServe(r, e) /\ Full(r, e)
           /\ lost[r][e] # None /\ owned[r][e] = None => ShouldServe(r, e) /\ Full(r, e)
           /\ owned[r][e] = None /\ lost[r][e] = None => ~ShouldServe(r, e)
           /\ owned[r][e] # None /\ ShouldServe(r, e)
              => Complete(r, e) \/ PreviousOwner(r, e) \in {r, Nobody}
           /\ owned[r][e] # None => r = Before(e) \/ (r = After(e) /\ active[r] = Active)
           /\ lost[r][e] # None => r = Before(e) /\ r \in Draining
<1>1. /\ owned[r][e] # None => owned[r][e].period = known[e]
      /\ owned[r][e] # None => Owns(r, e)
      /\ lost[r][e] # None => Lost(r, e)
  BY OrderlyTypes DEF PeriodsAgree, Orderly, Entries
<1>2. Complete(r, e) => ShouldServe(r, e)
  BY <1>1 DEF Complete, ShouldServe
<1>3. ASSUME Complete(r, e) PROVE Full(r, e)
  <2>1. owned[r][e] # None /\ owned[r][e].elapsed >= known[e]
    BY <1>3 DEF Complete
  <2>2. window[r][e] # None /\ window[r][e] >= owned[r][e].elapsed
    BY <1>1, <2>1 DEF Owns
  <2>3. {owned[r][e].elapsed, known[e], window[r][e]} \subseteq Nat
    BY <2>1, <2>2, OrderlyTypes
  <2> QED BY <2>1, <2>2, <2>3 DEF Full
<1>4. owned[r][e] = None => (ShouldServe(r, e) <=> lost[r][e] # None)
  BY DEF ShouldServe
<1>5. owned[r][e] # None /\ ShouldServe(r, e)
      => Complete(r, e) \/ PreviousOwner(r, e) \in {r, Nobody}
  BY <1>1 DEF ShouldServe, Complete
<1> QED BY <1>1, <1>2, <1>3, <1>4, <1>5 DEF Owns, Lost

\* r answers what it is asked for, with a full window.
Answers(r, e) == up[r] /\ Full(r, e) /\ Hop(r, e) = r

\* A running replica is an address to forward to.
LEMMA HopsTo ==
    ASSUME DrainMargins, Orderly, NEW r \in Replica, NEW e \in Epa, NEW t \in Replica,
           up[t], Target(r, e) = t
    PROVE  Hop(r, e) = t
<1>1. status[t] # "absent"
  BY DEF Orderly, Leases
<1> QED BY <1>1 DEF Hop

\* While the old winner is active everybody turns to it.
LEMMA AskedInCalm ==
    ASSUME DrainMargins, Orderly, NEW r \in Replica, NEW e \in Epa, up[r],
           Before(e) \in Active
    PROVE  Answers(Before(e), e) /\ Hop(r, e) = Before(e)
<1>1. PICK w \in Replica : w = Before(e) /\ up[w] /\ w \in Active
  BY DEF Active, Orderly, Leases
<1>2. ShouldServe(w, e) /\ Full(w, e)
  BY <1>1, Serving DEF Orderly, AllHeld, Held
<1>3. Hop(w, e) = w
  BY <1>1, <1>2, HopsTo DEF Target
<1>4. CASE r = w
  BY <1>1, <1>2, <1>3, <1>4 DEF Answers
<1>5. CASE r # w
  <2>1. After(e) = w /\ w \notin Draining /\ w # Nobody
    BY <1>1, Winners
  <2>2. owned[r][e] = None /\ lost[r][e] = None
    BY <1>1, <1>5, <2>1, Serving
  <2>3. ~ShouldServe(r, e)
    BY <2>2, Serving
  <2>4. Owner(r, e) = w
    BY <1>1, <2>1, SeenOwners
  <2>5. Target(r, e) = w
    BY <1>5, <2>1, <2>3, <2>4 DEF Target
  <2> QED BY <1>1, <1>2, <1>3, <2>5, HopsTo DEF Answers
<1> QED BY <1>4, <1>5

\* When the last active replica drains it answers alone.
LEMMA AskedAtTheEnd ==
    ASSUME DrainMargins, Orderly, NEW r \in Replica, NEW e \in Epa, up[r],
           Before(e) \in Draining, Active = {}, active[r] # {}
    PROVE  r = Before(e) /\ Answers(r, e)
<1>1. r = Before(e)
  <2>1. r \in Draining
    BY SeenOwners
  <2> QED BY <2>1 DEF Orderly, Leases
<1>2. owned[r][e] # None
  BY <1>1 DEF Orderly, AllHeld, Held
<1>3. Complete(r, e)
  BY <1>1, <1>2 DEF Orderly, AllHeld, Held
<1>4. ShouldServe(r, e) /\ Full(r, e)
  BY <1>3, Serving
<1>5. Hop(r, e) = r
  BY <1>4, HopsTo DEF Target
<1> QED BY <1>1, <1>4, <1>5 DEF Answers

\* While the old winner drains everybody turns to it or to the new one, and each
\* of the two answers or turns to the other, which does.
LEMMA AskedInHandoff ==
    ASSUME DrainMargins, Orderly, NEW r \in Replica, NEW e \in Epa, up[r],
           Before(e) \in Draining, Active # {}
    PROVE  /\ Hop(r, e) \in {Before(e), After(e)}
           /\ \/ Answers(Before(e), e) /\ (Answers(After(e), e) \/ Hop(After(e), e) = Before(e))
              \/ Answers(After(e), e) /\ Hop(Before(e), e) = After(e)
<1>1. PICK w \in Replica : w = Before(e) /\ up[w] /\ w \in Draining
  BY DEF Draining, Orderly, Leases
<1>2. After(e) \in Active
  BY Winners
<1>3. PICK n \in Replica : n = After(e) /\ up[n] /\ n \in Active
  BY <1>2 DEF Active, Orderly, Leases
<1>4. w # n /\ n \notin Draining /\ w # Nobody /\ n # Nobody /\ Draining # {}
  BY <1>1, <1>3, Winners
<1>5. ASSUME NEW s \in Replica, up[s], ~ShouldServe(s, e), s # n
      PROVE  Hop(s, e) \in {w, n} /\ (active[s] = Active => Hop(s, e) = n)
  <2>1. Owner(s, e) \in {w, n} /\ (active[s] = Active => Owner(s, e) = n)
    BY <1>1, <1>3, <1>5, SeenOwners
  <2>2. CASE Owner(s, e) # s
    <3>1. Target(s, e) = Owner(s, e)
      BY <1>4, <1>5, <2>1, <2>2 DEF Target
    <3> QED BY <1>1, <1>3, <2>1, <3>1, HopsTo
  <2>3. CASE Owner(s, e) = s
    <3>1. s = w /\ active[s] # Active
      BY <1>4, <1>5, <2>1, <2>3
    <3>2. owned[w][e] = None => active[w] = Active
      BY <1>1 DEF Orderly, AllHeld, Held
    <3>3. Complete(w, e)
      BY <1>1, <3>1, <3>2 DEF Orderly, AllHeld, Held
    <3> QED BY <1>1, <1>5, <3>1, <3>3, Serving
  <2> QED BY <2>2, <2>3
<1>6. ASSUME NEW s \in Replica, up[s], ShouldServe(s, e) PROVE Hop(s, e) = s
  BY <1>6, HopsTo DEF Target
<1>7. Answers(n, e) \/ Hop(n, e) = w
  <2>1. lost[n][e] = None
    BY <1>1, <1>3, <1>4, Serving
  <2>2. CASE ShouldServe(n, e)
    <3>1. owned[n][e] # None
      BY <1>3, <2>1, <2>2, Serving
    <3>2. active[n] = Active
      BY <1>1, <1>3, <1>4, <3>1, Serving
    <3>3. PreviousOwner(n, e) = w
      BY <1>1, <1>3, <1>4, <3>2, SeenOwners
    <3>4. Complete(n, e)
      BY <1>3, <1>4, <2>2, <3>1, <3>3, Serving
    <3>5. Full(n, e)
      BY <1>3, <3>4, Serving
    <3> QED BY <1>3, <1>6, <2>2, <3>5 DEF Answers
  <2>3. CASE ~ShouldServe(n, e)
    <3>1. CASE active[n] = Active
      <4>1. Owner(n, e) = n /\ PreviousOwner(n, e) = w
        BY <1>1, <1>3, <1>4, <3>1, SeenOwners
      <4>2. Target(n, e) = w
        BY <1>4, <2>3, <4>1 DEF Target
      <4> QED BY <1>1, <4>2, HopsTo
    <3>2. CASE active[n] # Active
      <4>1. Owner(n, e) = w
        BY <1>1, <1>3, <3>2, SeenOwners
      <4>2. Target(n, e) = w
        BY <1>4, <2>3, <4>1 DEF Target
      <4> QED BY <1>1, <4>2, HopsTo
    <3> QED BY <3>1, <3>2
  <2> QED BY <2>2, <2>3
<1>8. Hop(r, e) \in {w, n}
  <2>1. CASE r = n
    BY <1>7, <2>1 DEF Answers
  <2>2. CASE r = w
    <3>1. CASE ShouldServe(r, e)
      BY <1>6, <2>2, <3>1
    <3> QED BY <1>4, <1>5, <2>2, <3>1
  <2>3. CASE r # n /\ r # w
    <3>1. owned[r][e] = None /\ lost[r][e] = None
      BY <1>1, <1>3, <2>3, Serving
    <3>2. ~ShouldServe(r, e)
      BY <3>1, Serving
    <3> QED BY <1>5, <2>3, <3>2
  <2> QED BY <2>1, <2>2, <2>3
<1>9. Answers(w, e) \/ (Answers(n, e) /\ Hop(w, e) = n)
  <2>1. CASE owned[w][e] # None \/ lost[w][e] # None
    <3>1. Complete(w, e) \/ (owned[w][e] = None /\ lost[w][e] # None)
      BY <1>1, <2>1 DEF Orderly, AllHeld, Held
    <3>2. ShouldServe(w, e) /\ Full(w, e)
      BY <1>1, <3>1, Serving
    <3> QED BY <1>1, <1>6, <3>2 DEF Answers
  <2>2. CASE owned[w][e] = None /\ lost[w][e] = None
    <3>1. ~ShouldServe(w, e) /\ active[w] = Active /\ Complete(n, e)
      BY <1>1, <1>3, <2>2, Serving DEF Orderly, AllHeld, Held
    <3>2. Hop(w, e) = n
      BY <1>1, <1>4, <1>5, <3>1
    <3>3. ShouldServe(n, e) /\ Full(n, e)
      BY <1>3, <3>1, Serving
    <3> QED BY <1>3, <1>6, <3>2, <3>3 DEF Answers
  <2> QED BY <2>1, <2>2
<1> QED BY <1>1, <1>3, <1>7, <1>8, <1>9

\* Whoever is asked, after two forwards at most a replica with a full window
\* answers.
LEMMA AskedAndAnswered ==
    ASSUME DrainMargins, Orderly, NEW r \in Asked, NEW e \in Epa
    PROVE  Answers(AnsweredBy(r, e), e)
<1>1. r \in Replica /\ up[r] /\ active[r] # {} /\ r \in Active \cup Draining
  BY SeenOwners DEF Asked
<1>2. CASE Before(e) \in Active
  <2>1. Answers(Before(e), e) /\ Hop(r, e) = Before(e)
    BY <1>1, <1>2, AskedInCalm
  <2> QED BY <2>1 DEF AnsweredBy, Answers
<1>3. CASE Before(e) \in Draining /\ Active = {}
  <2>1. Answers(r, e)
    BY <1>1, <1>3, AskedAtTheEnd
  <2> QED BY <2>1 DEF AnsweredBy, Answers
<1>4. CASE Before(e) \in Draining /\ Active # {}
  <2>1. /\ Hop(r, e) \in {Before(e), After(e)}
        /\ \/ Answers(Before(e), e) /\ (Answers(After(e), e) \/ Hop(After(e), e) = Before(e))
           \/ Answers(After(e), e) /\ Hop(Before(e), e) = After(e)
    BY <1>1, <1>4, AskedInHandoff
  <2> QED BY <2>1 DEF AnsweredBy, Answers
<1> QED BY <1>1, <1>2, <1>3, <1>4, Winners

\* What the three properties say of an orderly state.
LEMMA OrderlyAnswers ==
    ASSUME DrainMargins, Orderly
    PROVE  FullAnswer /\ TwoHops /\ WaitsForPredecessor
<1>1. FullAnswer
  BY AskedAndAnswered DEF FullAnswer, Answers, Full
<1>2. TwoHops
  BY AskedAndAnswered DEF TwoHops, Answers
<1>3. WaitsForPredecessor
  <2> SUFFICES ASSUME NEW r \in Replica, NEW s \in Replica, NEW e \in Epa,
                      up[r], up[s], owned[r][e] # None, ShouldServe(r, e),
                      owned[r][e].elapsed < known[e], lost[s][e] # None
               PROVE  FALSE
    BY DEF WaitsForPredecessor
  <2>1. s = Before(e) /\ s \in Draining
    BY Serving
  <2>2. ~Complete(r, e)
    <3>1. owned[r][e].elapsed \in Nat /\ known[e] \in Nat
      BY OrderlyTypes
    <3> QED BY <3>1 DEF Complete
  <2>3. PreviousOwner(r, e) \in {r, Nobody}
    BY <2>2, Serving
  <2>4. r # s
    BY <2>1, <2>2 DEF Orderly, AllHeld, Held
  <2>5. active[r] = Active
    BY <2>1, <2>4, Serving
  <2>6. PreviousOwner(r, e) = s
    BY <2>1, <2>5, SeenOwners
  <2> QED BY <2>1, <2>3, <2>4, <2>6, Winners
<1> QED BY <1>1, <1>2, <1>3

\* From calm on, as long as replicas only drain, states are orderly.
LEMMA DrainsStayOrderly ==
    ASSUME DrainMargins
    PROVE  ClusterSpec => [](LongCalm /\ [][DrainsOnly]_allvars => []Orderly)
<1>1. Settling /\ WindowAsOldAsOwnership /\ deletes = 0 /\ LongCalm => Orderly
  BY CalmIsOrderly
<1>2. Orderly /\ [ClusterNext]_allvars /\ [DrainsOnly]_allvars => Orderly'
  BY OrderlyStep
<1> QED BY <1>1, <1>2, AlwaysSettling, NoDeletes, HandoffImplementsOwnership,
           OwnersHaveTheWindow, PTL DEF ClusterSpec

\* "The HPA continues receiving metrics based on a full evaluation window
\* throughout the transition": once a cluster has settled, and for as long as it
\* only scales down, one drain after the other, a request to any replica is
\* answered from a full window; for any number of replicas and EPAs, any
\* weights, lags, periods and durations within DrainMargins.
THEOREM ScaleDownKeepsWindows ==
    ASSUME DrainMargins
    PROVE  ClusterSpec => [](LongCalm /\ [][DrainsOnly]_allvars => []FullAnswer)
<1>1. Orderly => FullAnswer
  BY OrderlyAnswers
<1> QED BY <1>1, DrainsStayOrderly, PTL

\* "Maximum two hops", through such a scale-down.
THEOREM ScaleDownTakesTwoHops ==
    ASSUME DrainMargins
    PROVE  ClusterSpec => [](LongCalm /\ [][DrainsOnly]_allvars => []TwoHops)
<1>1. Orderly => TwoHops
  BY OrderlyAnswers
<1> QED BY <1>1, DrainsStayOrderly, PTL

\* Through such a scale-down a new owner waits for its predecessor.  No run checks
\* this: where a replica joins that wins, it is false.
THEOREM ScaleDownWaits ==
    ASSUME DrainMargins
    PROVE  ClusterSpec => [](LongCalm /\ [][DrainsOnly]_allvars => []WaitsForPredecessor)
<1>1. Orderly => WaitsForPredecessor
  BY OrderlyAnswers
<1> QED BY <1>1, DrainsStayOrderly, PTL
=============================================================================
