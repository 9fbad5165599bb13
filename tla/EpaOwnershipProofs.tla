-------------------------- MODULE EpaOwnershipProofs --------------------------
(* What every replica may rely on about the election, and what holds of the  *)
(* ownership of a replica under any sequence of views, scheduler passes and  *)
(* updates, whatever the periods and the grace buffer.                       *)
EXTENDS EpaOwnership, WellFoundedInduction, TLAPS

-----------------------------------------------------------------------------
(* The election. *)

\* Weights are natural numbers up to u64::MAX.
LEMMA WeightType ==
    ASSUME NEW r \in Replica, NEW e \in Epa
    PROVE  Weight[e][r] \in Nat /\ Weight[e][r] <= MaxWeight
BY WeightAssumption

\* A non-empty set of naturals has a least element.
LEMMA LeastNatural ==
    ASSUME NEW T \in SUBSET Nat, T # {}
    PROVE  \E n \in T : \A m \in T : n <= m
<1> DEFINE R == OpToRel(<, Nat)
<1>1. IsWellFoundedOn(R, Nat)
  BY NatLessThanWellFounded
<1>2. \A x, y \in Nat : y < x => <<y, x>> \in R
  BY DEF OpToRel
<1> HIDE DEF R
<1>3. PICK n \in T : \A m \in T : <<m, n>> \notin R
  BY <1>1, WFMin
<1>4. ASSUME NEW m \in T PROVE n <= m
  <2>1. n \in Nat /\ m \in Nat
    OBVIOUS
  <2>2. ~(m < n)
    BY <1>2, <1>3, <2>1
  <2> QED BY <2>1, <2>2
<1> QED BY <1>4

\* A non-empty set of replicas has a heaviest one.
LEMMA HeaviestExists ==
    ASSUME NEW S \in SUBSET Replica, S # {}, NEW e \in Epa
    PROVE  \E r \in S : \A s \in S : Weight[e][s] <= Weight[e][r]
<1> DEFINE W(r)   == Weight[e][r]
           Slacks == {MaxWeight - W(r) : r \in S}
<1>1. \A r \in S : W(r) \in Nat /\ W(r) <= MaxWeight
  BY WeightType
<1>2. MaxWeight \in Nat
  BY WeightAssumption
<1> HIDE DEF W
<1>3. Slacks \in SUBSET Nat /\ Slacks # {}
  BY <1>1, <1>2
<1>4. PICK n \in Slacks : \A m \in Slacks : n <= m
  <2> HIDE DEF Slacks
  <2> QED BY <1>3, LeastNatural
<1>5. PICK r \in S : n = MaxWeight - W(r)
  BY <1>4
<1>6. ASSUME NEW s \in S PROVE W(s) <= W(r)
  <2>1. MaxWeight - W(r) <= MaxWeight - W(s)
    BY <1>4, <1>5
  <2> QED BY <1>1, <1>2, <2>1
<1> QED BY <1>6 DEF W

\* The elected replica is one of those that stand, and a heaviest one.
LEMMA ElectedIsHeaviest ==
    ASSUME NEW S \in SUBSET Replica, S # {}, NEW e \in Epa
    PROVE  /\ HighestWeight(S, e) \in S
           /\ \A s \in S : Weight[e][s] <= Weight[e][HighestWeight(S, e)]
BY HeaviestExists DEF HighestWeight

\* Whoever is heaviest is elected: no two replicas tie.
LEMMA HeaviestIsElected ==
    ASSUME NEW S \in SUBSET Replica, NEW e \in Epa, NEW r \in S,
           \A s \in S : Weight[e][s] <= Weight[e][r]
    PROVE  HighestWeight(S, e) = r
<1> DEFINE h == HighestWeight(S, e)
<1>1. h \in S /\ Weight[e][r] <= Weight[e][h]
  BY ElectedIsHeaviest
<1>2. Weight[e][h] <= Weight[e][r]
  BY <1>1
<1>3. Weight[e][h] \in Nat /\ Weight[e][r] \in Nat
  BY <1>1, WeightType
<1> HIDE DEF h
<1>4. Weight[e][h] = Weight[e][r]
  BY <1>1, <1>2, <1>3
<1>5. h = r
  BY <1>1, <1>4, NoTies
<1> QED BY <1>5 DEF h

\* "When a replica joins, only the EPAs assigned to it are redistributed": the
\* election over a larger set gives the old winner or the newcomer.
THEOREM JoinDisruptsLittle ==
    ASSUME NEW S \in SUBSET Replica, NEW e \in Epa, NEW r \in Replica
    PROVE  HighestWeight(S \cup {r}, e) \in {HighestWeight(S, e), r}
<1> DEFINE h == HighestWeight(S \cup {r}, e)
<1>1. h \in S \cup {r} /\ \A s \in S \cup {r} : Weight[e][s] <= Weight[e][h]
  BY ElectedIsHeaviest
<1>2. CASE h = r
  BY <1>2
<1>3. CASE h # r
  <2>1. h \in S /\ \A s \in S : Weight[e][s] <= Weight[e][h]
    BY <1>1, <1>3
  <2>2. HighestWeight(S, e) = h
    <3> HIDE DEF h
    <3> QED BY <2>1, HeaviestIsElected
  <2> QED BY <2>2
<1> QED BY <1>2, <1>3

\* "When a replica leaves, only the EPAs assigned to it are redistributed": the
\* election without a replica that was not elected gives the same winner.
THEOREM LeaveDisruptsLittle ==
    ASSUME NEW S \in SUBSET Replica, NEW e \in Epa, NEW r \in Replica,
           S # {}, HighestWeight(S, e) # r
    PROVE  HighestWeight(S \ {r}, e) = HighestWeight(S, e)
<1> DEFINE h == HighestWeight(S, e)
<1>1. h \in S /\ \A s \in S : Weight[e][s] <= Weight[e][h]
  BY ElectedIsHeaviest
<1>2. h \in S \ {r} /\ \A s \in S \ {r} : Weight[e][s] <= Weight[e][h]
  BY <1>1
<1> HIDE DEF h
<1>3. HighestWeight(S \ {r}, e) = h
  BY <1>2, HeaviestIsElected
<1> QED BY <1>3 DEF h

\* get_previous_epa_owner: over the active and the draining replicas the
\* election gives the owner among the active ones or a draining replica, so an
\* owner that does not serve yet never forwards to another active replica.
THEOREM PredecessorDrains ==
    ASSUME NEW A \in SUBSET Replica, NEW D \in SUBSET Replica, NEW e \in Epa, A # {}
    PROVE  HighestWeight(A \cup D, e) \in D \cup {HighestWeight(A, e)}
<1> DEFINE h == HighestWeight(A \cup D, e)
<1>1. h \in A \cup D /\ \A s \in A \cup D : Weight[e][s] <= Weight[e][h]
  BY ElectedIsHeaviest
<1>2. CASE h \in D
  BY <1>2
<1>3. CASE h \notin D
  <2>1. h \in A /\ \A s \in A : Weight[e][s] <= Weight[e][h]
    BY <1>1, <1>3
  <2>2. HighestWeight(A, e) = h
    <3> HIDE DEF h
    <3> QED BY <2>1, HeaviestIsElected
  <2> QED BY <2>2
<1> QED BY <1>2, <1>3

-----------------------------------------------------------------------------

MaybeEntry == Entry \cup {None}

-----------------------------------------------------------------------------
(* The entries of the maps. *)

\* An entry begins at zero.
LEMMA NewEntry ==
    ASSUME NEW p \in Period
    PROVE  [elapsed |-> 0, period |-> p] \in Entry
BY PeriodAssumption DEF Entry, Elapsed

\* A win is an entry.
LEMMA WonType ==
    ASSUME NEW entry \in MaybeEntry, NEW p \in Period
    PROVE  Won(entry, p) \in Entry
BY NewEntry DEF MaybeEntry, Won, Entry

\* Winning again keeps the instant of the first win.
LEMMA WonElapsed ==
    ASSUME NEW entry \in Entry, NEW p \in Period
    PROVE  Won(entry, p).elapsed = entry.elapsed
BY NoneAssumption DEF Won, Entry

\* Time goes forward, up to the cap.
LEMMA LaterType ==
    ASSUME NEW n \in Elapsed
    PROVE  Later(n) \in Elapsed /\ n <= Later(n)
BY PeriodAssumption DEF Later, Elapsed

\* What is older stays older, or both reach the cap.
LEMMA LaterMonotone ==
    ASSUME NEW m \in Elapsed, NEW n \in Elapsed, m <= n
    PROVE  Later(m) <= Later(n)
BY PeriodAssumption DEF Later, Elapsed

\* Ageing keeps an entry an entry, and its period.
LEMMA OlderType ==
    ASSUME NEW entry \in MaybeEntry
    PROVE  /\ Older(entry) \in MaybeEntry
           /\ Older(entry) = None <=> entry = None
           /\ entry # None => /\ Older(entry).elapsed = Later(entry.elapsed)
                              /\ Older(entry).period = entry.period
<1>1. CASE entry = None
  BY <1>1 DEF Older, MaybeEntry
<1>2. CASE entry # None
  <2>1. entry \in Entry
    BY <1>2 DEF MaybeEntry
  <2>2. Older(entry) = [entry EXCEPT !.elapsed = Later(entry.elapsed)]
    BY <1>2 DEF Older
  <2>3. Later(entry.elapsed) \in Elapsed
    BY <2>1, LaterType DEF Entry
  <2>4. Older(entry) \in Entry
    BY <2>1, <2>2, <2>3 DEF Entry
  <2>5. Older(entry).elapsed = Later(entry.elapsed) /\ Older(entry).period = entry.period
    BY <2>1, <2>2 DEF Entry
  <2> QED BY <1>2, <2>4, <2>5, NoneAssumption DEF MaybeEntry
<1> QED BY <1>1, <1>2

\* A loss is an entry, or there is none.
LEMMA LossType ==
    ASSUME TypeOK, NEW r \in Live, NEW e \in Epa, NEW p \in Period
    PROVE  Loss(r, e, p) \in MaybeEntry
<1>1. lost[r][e] \in MaybeEntry
  BY DEF TypeOK, PerEpa, MaybeEntry
<1> QED BY <1>1, NewEntry DEF Loss, MaybeEntry

-----------------------------------------------------------------------------
(* The two maps after a refresh. *)

\* `owned` and `lost` at one EPA after refresh_ownership of another or of it.
LEMMA RefreshedAt ==
    ASSUME TypeOK, NEW r \in Live, NEW e \in Epa, NEW p \in Period, Refresh(r, e, p)
    PROVE  /\ owned' \in PerEpa(MaybeEntry) /\ lost' \in PerEpa(MaybeEntry)
           /\ owned'[r][e] = IF IsOwner(r, e) THEN Won(owned[r][e], p) ELSE None
           /\ lost'[r][e] = IF Kept(Loss(r, e, p)) THEN Loss(r, e, p) ELSE None
           /\ \A k \in Epa : k # e =>
                 /\ owned'[r][k] = owned[r][k]
                 /\ lost'[r][k] = IF Kept(lost[r][k]) THEN lost[r][k] ELSE None
           /\ \A s \in Live : s # r => owned'[s] = owned[s] /\ lost'[s] = lost[s]
<1> DEFINE losses == [lost[r] EXCEPT ![e] = Loss(r, e, p)]
           owns   == IF IsOwner(r, e) THEN Won(owned[r][e], p) ELSE None
           kept   == [k \in Epa |-> IF Kept(losses[k]) THEN losses[k] ELSE None]
<1>1. owned \in PerEpa(MaybeEntry) /\ lost \in PerEpa(MaybeEntry)
  BY DEF TypeOK, MaybeEntry
<1>2. owns \in MaybeEntry
  <2>1. owned[r][e] \in MaybeEntry
    BY <1>1 DEF PerEpa
  <2> QED BY <2>1, WonType DEF MaybeEntry
<1>3. owned' = [owned EXCEPT ![r][e] = owns]
  BY DEF Refresh
<1>4. lost' = [lost EXCEPT ![r] = kept]
  BY DEF Refresh
<1>5. Loss(r, e, p) \in MaybeEntry
  BY LossType
<1> HIDE DEF owns
<1>6. losses \in [Epa -> MaybeEntry]
  BY <1>1, <1>5 DEF PerEpa
<1>7. losses[e] = Loss(r, e, p) /\ \A k \in Epa : k # e => losses[k] = lost[r][k]
  BY <1>1 DEF PerEpa
<1> HIDE DEF losses
<1>8. kept \in [Epa -> MaybeEntry]
  BY <1>6 DEF MaybeEntry
<1>9. owned' \in PerEpa(MaybeEntry) /\ lost' \in PerEpa(MaybeEntry)
  BY <1>1, <1>2, <1>3, <1>4, <1>8 DEF PerEpa
<1>10. owned'[r][e] = owns
  BY <1>1, <1>3 DEF PerEpa
<1>11. lost'[r] = kept
  BY <1>1, <1>4 DEF PerEpa
<1>12. lost'[r][e] = IF Kept(Loss(r, e, p)) THEN Loss(r, e, p) ELSE None
  BY <1>7, <1>11
<1>13. ASSUME NEW k \in Epa, k # e
       PROVE  /\ owned'[r][k] = owned[r][k]
              /\ lost'[r][k] = IF Kept(lost[r][k]) THEN lost[r][k] ELSE None
  <2>1. owned'[r][k] = owned[r][k]
    BY <1>1, <1>3, <1>13 DEF PerEpa
  <2> QED BY <1>7, <1>11, <1>13, <2>1
<1>14. \A s \in Live : s # r => owned'[s] = owned[s] /\ lost'[s] = lost[s]
  BY <1>1, <1>3, <1>4 DEF PerEpa
<1> QED BY <1>9, <1>10, <1>12, <1>13, <1>14 DEF owns

\* A pass of time at one EPA.
LEMMA PassedAt ==
    ASSUME TypeOK, Pass
    PROVE  /\ owned' \in PerEpa(MaybeEntry) /\ lost' \in PerEpa(MaybeEntry)
           /\ \A r \in Live, e \in Epa : /\ owned'[r][e] = Older(owned[r][e])
                                         /\ lost'[r][e] = Older(lost[r][e])
<1>1. \A r \in Live, e \in Epa : owned[r][e] \in MaybeEntry /\ lost[r][e] \in MaybeEntry
  BY DEF TypeOK, PerEpa, MaybeEntry
<1>2. \A r \in Live, e \in Epa :
         Older(owned[r][e]) \in MaybeEntry /\ Older(lost[r][e]) \in MaybeEntry
  BY <1>1, OlderType
<1> QED BY <1>2 DEF Pass, PerEpa

-----------------------------------------------------------------------------
(* TypeOK. *)

\* At first there are no entries at all.
LEMMA InitTypes == Init => TypeOK
BY LiveAssumption DEF Init, TypeOK, PerEpa

\* A pass over an EPA keeps the types.
LEMMA ProcessTypes ==
    ASSUME TypeOK, NEW r \in Live, NEW e \in Epa, Process(r, e)
    PROVE  TypeOK'
<1>1. epas[r][e] \in Period
  BY DEF Process, TypeOK, PerEpa
<1>2. Refresh(r, e, epas[r][e])
  BY DEF Process
<1>3. owned' \in PerEpa(MaybeEntry) /\ lost' \in PerEpa(MaybeEntry)
  BY <1>1, <1>2, RefreshedAt
<1>4. window' \in PerEpa(Elapsed \cup {None})
  <2> DEFINE fed == IF ~ShouldScrape(r, e)' THEN None
                    ELSE IF window[r][e] = None THEN 0 ELSE window[r][e]
  <2>1. window \in PerEpa(Elapsed \cup {None})
    BY DEF TypeOK
  <2>2. window[r][e] \in Elapsed \cup {None} /\ 0 \in Elapsed
    BY <2>1, PeriodAssumption DEF PerEpa, Elapsed
  <2>3. fed \in Elapsed \cup {None}
    BY <2>2
  <2>4. window' = [window EXCEPT ![r][e] = fed]
    BY DEF Process
  <2> HIDE DEF fed
  <2> QED BY <2>1, <2>3, <2>4 DEF PerEpa
<1> QED BY <1>3, <1>4 DEF Process, views, TypeOK, MaybeEntry

\* Time keeps the types.
LEMMA PassTypes ==
    ASSUME TypeOK, Pass
    PROVE  TypeOK'
<1>1. owned' \in PerEpa(MaybeEntry) /\ lost' \in PerEpa(MaybeEntry)
  BY PassedAt
<1>2. window' \in PerEpa(Elapsed \cup {None})
  <2>1. ASSUME NEW r \in Live, NEW e \in Epa
        PROVE  (IF window[r][e] = None THEN None ELSE Later(window[r][e])) \in Elapsed \cup {None}
    BY LaterType DEF TypeOK, PerEpa
  <2> QED BY <2>1 DEF Pass, PerEpa
<1> QED BY <1>1, <1>2 DEF Pass, views, TypeOK, MaybeEntry

\* The end of a process keeps the types.
LEMMA DieTypes ==
    ASSUME TypeOK, NEW r \in Live, Die(r)
    PROVE  TypeOK'
<1>1. active' \in [Live -> SUBSET Replica] /\ draining' \in [Live -> SUBSET Replica]
  BY DEF Die, TypeOK
<1>2. epas' \in PerEpa(Period \cup {None})
  BY DEF Die, TypeOK, PerEpa
<1>3. owned' \in PerEpa(Entry \cup {None}) /\ lost' \in PerEpa(Entry \cup {None})
  BY DEF Die, TypeOK, PerEpa
<1>4. window' \in PerEpa(Elapsed \cup {None})
  BY DEF Die, TypeOK, PerEpa
<1> QED BY <1>1, <1>2, <1>3, <1>4 DEF Die, TypeOK

\* Every step keeps the types.
LEMMA StepTypes ==
    ASSUME TypeOK, [Next]_vars
    PROVE  TypeOK'
<1>1. ASSUME NEW r \in Live, NEW e \in Epa, Process(r, e) PROVE TypeOK'
  BY <1>1, ProcessTypes
<1>2. ASSUME NEW r \in Live, NEW e \in Epa, Delete(r, e) PROVE TypeOK'
  <2>1. epas' \in PerEpa(Period \cup {None}) /\ window' \in PerEpa(Elapsed \cup {None})
    BY <1>2 DEF Delete, TypeOK, PerEpa
  <2> QED BY <1>2, <2>1, LiveAssumption DEF Delete, views, TypeOK
<1>3. ASSUME NEW r \in Live, NEW e \in Epa, NEW p \in Period, Upsert(r, e, p) PROVE TypeOK'
  <2>1. epas' \in PerEpa(Period \cup {None})
    BY <1>3 DEF Upsert, TypeOK, PerEpa
  <2> QED BY <1>3, <2>1 DEF Upsert, views, TypeOK
<1>4. ASSUME NEW r \in Live, NEW a \in SUBSET Replica, NEW d \in SUBSET Replica,
             ViewChange(r, a, d)
      PROVE  TypeOK'
  BY <1>4 DEF ViewChange, TypeOK
<1>5. ASSUME NEW r \in Live, Die(r) PROVE TypeOK'
  BY <1>5, DieTypes
<1>6. CASE Pass
  BY <1>6, PassTypes
<1>7. CASE UNCHANGED vars
  BY <1>7 DEF vars, views, TypeOK
<1> QED BY <1>1, <1>2, <1>3, <1>4, <1>5, <1>6, <1>7 DEF Next

\* Every map has the type it is declared with, and no elapsed time exceeds the
\* cap of the model.
THEOREM OwnershipTypes == Spec => []TypeOK
<1> QED BY InitTypes, StepTypes, PTL DEF Spec

-----------------------------------------------------------------------------
(* WonOrLost. *)

\* A refresh leaves an EPA either won or lost: of the EPA refreshed because of
\* the branches of refresh_ownership, of the others because losses only go.
LEMMA RefreshSeparates ==
    ASSUME TypeOK, WonOrLost, NEW r \in Live, NEW e \in Epa, NEW p \in Period, Refresh(r, e, p)
    PROVE  WonOrLost'
<1> SUFFICES ASSUME NEW s \in Live, NEW k \in Epa
             PROVE  owned'[s][k] = None \/ lost'[s][k] = None
  BY DEF WonOrLost
<1>1. CASE s # r
  BY <1>1, RefreshedAt DEF WonOrLost
<1>2. CASE s = r /\ k # e
  BY <1>2, RefreshedAt DEF WonOrLost
<1>3. CASE s = r /\ k = e /\ IsOwner(r, e)
  <2>1. Loss(r, e, p) = None
    BY <1>3 DEF Loss
  <2> QED BY <1>3, <2>1, RefreshedAt
<1>4. CASE s = r /\ k = e /\ ~IsOwner(r, e)
  BY <1>4, RefreshedAt
<1> QED BY <1>1, <1>2, <1>3, <1>4

\* No step leaves an EPA both won and lost.
LEMMA StepSeparates ==
    ASSUME TypeOK, WonOrLost, [Next]_vars
    PROVE  WonOrLost'
<1>1. ASSUME NEW r \in Live, NEW e \in Epa, Process(r, e) PROVE WonOrLost'
  <2>1. epas[r][e] \in Period /\ Refresh(r, e, epas[r][e])
    BY <1>1 DEF Process, TypeOK, PerEpa
  <2> QED BY <2>1, RefreshSeparates
<1>2. CASE Pass
  <2>1. \A r \in Live, e \in Epa : Older(None) = None
    BY DEF Older
  <2> QED BY <1>2, <2>1, PassedAt DEF WonOrLost
<1>3. ASSUME NEW r \in Live, Die(r) PROVE WonOrLost'
  <2>1. owned'[r] = [e \in Epa |-> None] /\ \A s \in Live : s # r => owned'[s] = owned[s]
    BY <1>3 DEF Die, TypeOK, PerEpa
  <2>2. \A s \in Live : s # r => lost'[s] = lost[s]
    BY <1>3 DEF Die, TypeOK, PerEpa
  <2> QED BY <2>1, <2>2 DEF WonOrLost
<1>4. ASSUME UNCHANGED <<owned, lost>> PROVE WonOrLost'
  BY <1>4 DEF WonOrLost
<1> QED BY <1>1, <1>2, <1>3, <1>4 DEF Next, Delete, Upsert, ViewChange, vars

\* No EPA is in both maps of a replica, whatever the views do.
THEOREM OwnedXorLost == Spec => []WonOrLost
<1>1. Init => WonOrLost
  BY DEF Init, WonOrLost
<1> QED BY <1>1, InitTypes, StepTypes, StepSeparates, PTL DEF Spec

-----------------------------------------------------------------------------
(* GraceHonoured. *)

\* What may happen to a loss of r in one step.
Honoured(r, e) ==
    \/ lost'[r][e] # None /\ lost'[r][e].elapsed >= lost[r][e].elapsed
                          /\ lost'[r][e].period = lost[r][e].period
    \/ owned'[r][e] # None
    \/ Die(r)
    \/ lost[r][e].elapsed >= lost[r][e].period + GraceBuffer

\* The numbers of an entry, and what it means that it is dropped.
LEMMA EntryNumbers ==
    ASSUME NEW entry \in Entry
    PROVE  /\ entry # None
           /\ entry.elapsed \in Nat /\ entry.period \in Nat
           /\ ~Kept(entry) => entry.elapsed >= entry.period + GraceBuffer
<1>1. entry # None
  BY NoneAssumption
<1>2. Elapsed \subseteq Nat /\ Period \subseteq Nat /\ GraceBuffer \in Nat
  BY PeriodAssumption DEF Elapsed
<1>3. entry.elapsed \in Nat /\ entry.period \in Nat
  BY <1>2 DEF Entry
<1> QED BY <1>1, <1>2, <1>3 DEF Kept

\* A loss that is still kept stays as it is; one that is not has expired.
LEMMA KeptOrExpired ==
    ASSUME NEW r \in Live, NEW e \in Epa, lost[r][e] \in Entry,
           lost'[r][e] = IF Kept(lost[r][e]) THEN lost[r][e] ELSE None
    PROVE  Honoured(r, e)
<1>1. CASE Kept(lost[r][e])
  <2>1. lost'[r][e] = lost[r][e]
    BY <1>1
  <2> QED BY <2>1, EntryNumbers DEF Honoured
<1>2. CASE ~Kept(lost[r][e])
  BY <1>2, EntryNumbers DEF Honoured
<1> QED BY <1>1, <1>2

\* A refresh does to a loss only what it may.
LEMMA RefreshHonours ==
    ASSUME TypeOK, WonOrLost, NEW r \in Live, NEW e \in Epa, NEW p \in Period,
           Refresh(r, e, p), NEW s \in Live, NEW k \in Epa, lost[s][k] # None
    PROVE  Honoured(s, k)
<1>0. lost[s][k] \in Entry
  BY DEF TypeOK, PerEpa
<1>1. CASE s # r
  <2>1. lost'[s][k] = lost[s][k]
    BY <1>1, RefreshedAt
  <2> QED BY <1>0, <2>1, EntryNumbers DEF Honoured
<1>2. CASE s = r /\ k # e
  BY <1>0, <1>2, RefreshedAt, KeptOrExpired
<1>3. CASE s = r /\ k = e /\ IsOwner(r, e)
  <2>1. owned[r][e] \in MaybeEntry
    BY DEF TypeOK, PerEpa, MaybeEntry
  <2>2. owned'[r][e] \in Entry
    BY <1>3, <2>1, RefreshedAt, WonType
  <2> QED BY <1>3, <2>2, NoneAssumption DEF Honoured
<1>4. CASE s = r /\ k = e /\ ~IsOwner(r, e)
  <2>1. owned[r][e] = None
    BY <1>4 DEF WonOrLost
  <2>2. Loss(r, e, p) = lost[r][e]
    BY <1>4, <2>1 DEF Loss
  <2>3. lost'[r][e] = IF Kept(lost[r][e]) THEN lost[r][e] ELSE None
    BY <2>2, RefreshedAt
  <2> QED BY <1>0, <1>4, <2>3, KeptOrExpired
<1> QED BY <1>1, <1>2, <1>3, <1>4

\* Every step does to a loss only what it may.
LEMMA StepHonours ==
    ASSUME TypeOK, WonOrLost, Next, NEW r \in Live, NEW e \in Epa, lost[r][e] # None
    PROVE  Honoured(r, e)
<1>0. lost[r][e] \in Entry
  BY DEF TypeOK, PerEpa
<1>1. ASSUME NEW s \in Live, NEW k \in Epa, Process(s, k) PROVE Honoured(r, e)
  <2>1. epas[s][k] \in Period /\ Refresh(s, k, epas[s][k])
    BY <1>1 DEF Process, TypeOK, PerEpa
  <2> QED BY <2>1, RefreshHonours
<1>2. CASE Pass
  <2>1. lost'[r][e] = Older(lost[r][e])
    BY <1>2, PassedAt
  <2>2. /\ lost'[r][e] # None
        /\ lost'[r][e].elapsed = Later(lost[r][e].elapsed)
        /\ lost'[r][e].period = lost[r][e].period
    BY <1>0, <2>1, OlderType, EntryNumbers DEF MaybeEntry
  <2>3. lost[r][e].elapsed \in Elapsed
    BY <1>0 DEF Entry
  <2>4. Later(lost[r][e].elapsed) >= lost[r][e].elapsed
    BY <2>3, LaterType, PeriodAssumption DEF Elapsed
  <2> QED BY <2>2, <2>4 DEF Honoured
<1>3. ASSUME NEW s \in Live, Die(s) PROVE Honoured(r, e)
  <2>1. CASE s = r
    BY <1>3, <2>1 DEF Honoured
  <2>2. CASE s # r
    <3>1. lost'[r][e] = lost[r][e]
      BY <1>3, <2>2 DEF Die, TypeOK, PerEpa
    <3> QED BY <1>0, <3>1, EntryNumbers DEF Honoured
  <2> QED BY <2>1, <2>2
<1>4. ASSUME UNCHANGED lost PROVE Honoured(r, e)
  BY <1>0, <1>4, EntryNumbers DEF Honoured
<1> QED BY <1>1, <1>2, <1>3, <1>4 DEF Next, Delete, Upsert, ViewChange

\* The promise of GRACE_BUFFER, for every grace buffer and every period: a
\* replica that lost an EPA keeps it for the period known at the loss plus the
\* buffer, unless it wins the EPA back or its process ends.
THEOREM GraceIsHonoured == Spec => GraceHonoured
<1>1. TypeOK /\ WonOrLost /\ [Next]_vars =>
        [\A r \in Live, e \in Epa : lost[r][e] # None => Honoured(r, e)]_vars
  BY StepHonours
<1>2. Init => TypeOK /\ WonOrLost
  BY InitTypes DEF Init, WonOrLost
<1>3. TypeOK /\ WonOrLost /\ [Next]_vars => (TypeOK /\ WonOrLost)'
  BY StepTypes, StepSeparates
<1>4. Spec => [][\A r \in Live, e \in Epa : lost[r][e] # None => Honoured(r, e)]_vars
  BY <1>1, <1>2, <1>3, PTL DEF Spec
<1> QED BY <1>4 DEF GraceHonoured, Honoured

-----------------------------------------------------------------------------
(* WindowAsOldAsOwnership. *)

\* A pass over an EPA begins a window when it begins an ownership.
LEMMA ProcessKeepsWindow ==
    ASSUME TypeOK, WindowAsOldAsOwnership, NEW r \in Live, NEW e \in Epa, Process(r, e)
    PROVE  WindowAsOldAsOwnership'
<1>1. epas[r][e] \in Period /\ Refresh(r, e, epas[r][e])
  BY DEF Process, TypeOK, PerEpa
<1>2. window \in PerEpa(Elapsed \cup {None})
  BY DEF TypeOK
<1> SUFFICES ASSUME deletes = 0, NEW s \in Live, NEW k \in Epa, owned'[s][k] # None
             PROVE  window'[s][k] # None /\ window'[s][k] >= owned'[s][k].elapsed
  BY DEF WindowAsOldAsOwnership, Process
<1>3. CASE s # r \/ k # e
  <2>1. owned'[s][k] = owned[s][k]
    BY <1>1, <1>3, RefreshedAt
  <2>2. window'[s][k] = window[s][k]
    BY <1>2, <1>3 DEF Process, PerEpa
  <2> QED BY <2>1, <2>2 DEF WindowAsOldAsOwnership
<1>4. CASE s = r /\ k = e
  <2>1. owned'[r][e] = Won(owned[r][e], epas[r][e])
    BY <1>1, <1>4, RefreshedAt
  <2>2. ShouldScrape(r, e)'
    BY <1>4 DEF ShouldScrape
  <2>3. window'[r][e] = IF window[r][e] = None THEN 0 ELSE window[r][e]
    BY <1>2, <2>2 DEF Process, PerEpa
  <2>4. window[r][e] \in Elapsed \cup {None} /\ owned[r][e] \in MaybeEntry
    BY DEF TypeOK, PerEpa, MaybeEntry
  <2>5. window'[r][e] # None /\ window'[r][e] \in Nat
    BY <2>3, <2>4, NoneAssumption, PeriodAssumption DEF Elapsed
  <2>6. CASE owned[r][e] = None
    <3>1. owned'[r][e].elapsed = 0
      BY <2>1, <2>6 DEF Won
    <3> QED BY <1>4, <2>5, <3>1
  <2>7. CASE owned[r][e] # None
    <3>1. owned'[r][e].elapsed = owned[r][e].elapsed
      BY <1>1, <2>1, <2>4, <2>7, WonElapsed DEF MaybeEntry
    <3> QED BY <1>4, <2>3, <2>5, <2>7, <3>1 DEF WindowAsOldAsOwnership
  <2> QED BY <2>6, <2>7
<1> QED BY <1>3, <1>4

\* Windows and ownerships grow older together.
LEMMA PassKeepsWindow ==
    ASSUME TypeOK, WindowAsOldAsOwnership, Pass
    PROVE  WindowAsOldAsOwnership'
<1> SUFFICES ASSUME deletes = 0, NEW r \in Live, NEW e \in Epa, owned'[r][e] # None
             PROVE  window'[r][e] # None /\ window'[r][e] >= owned'[r][e].elapsed
  BY DEF WindowAsOldAsOwnership, Pass
<1>1. owned'[r][e] = Older(owned[r][e])
  BY PassedAt
<1>2. owned[r][e] \in MaybeEntry /\ window[r][e] \in Elapsed \cup {None}
  BY DEF TypeOK, PerEpa, MaybeEntry
<1>3. owned[r][e] # None /\ owned'[r][e].elapsed = Later(owned[r][e].elapsed)
  BY <1>1, <1>2, OlderType
<1>4. owned[r][e].elapsed \in Elapsed
  BY <1>2, <1>3 DEF MaybeEntry, Entry
<1>5. window[r][e] # None /\ window[r][e] >= owned[r][e].elapsed
  BY <1>3 DEF WindowAsOldAsOwnership
<1>6. window[r][e] \in Elapsed
  BY <1>2, <1>5
<1>7. window'[r][e] = Later(window[r][e])
  BY <1>5 DEF Pass
<1>8. Later(owned[r][e].elapsed) <= Later(window[r][e])
  <2>1. owned[r][e].elapsed <= window[r][e]
    BY <1>4, <1>5, <1>6 DEF Elapsed
  <2> QED BY <1>4, <1>6, <2>1, LaterMonotone
<1>9. Later(window[r][e]) \in Nat /\ Later(owned[r][e].elapsed) \in Nat
  BY <1>4, <1>6, LaterType, PeriodAssumption DEF Elapsed
<1> QED BY <1>3, <1>7, <1>8, <1>9, NoneAssumption

\* Every step keeps windows as old as ownerships.
LEMMA StepKeepsWindow ==
    ASSUME TypeOK, WindowAsOldAsOwnership, [Next]_vars
    PROVE  WindowAsOldAsOwnership'
<1>1. ASSUME NEW r \in Live, NEW e \in Epa, Process(r, e) PROVE WindowAsOldAsOwnership'
  BY <1>1, ProcessKeepsWindow
<1>2. CASE Pass
  BY <1>2, PassKeepsWindow
<1>3. ASSUME NEW r \in Live, Die(r) PROVE WindowAsOldAsOwnership'
  <2>1. owned'[r] = [e \in Epa |-> None]
    BY <1>3 DEF Die, TypeOK, PerEpa
  <2>2. \A s \in Live : s # r => owned'[s] = owned[s] /\ window'[s] = window[s]
    BY <1>3 DEF Die, TypeOK, PerEpa
  <2>3. deletes' = deletes
    BY <1>3 DEF Die
  <2> QED BY <2>1, <2>2, <2>3 DEF WindowAsOldAsOwnership
<1>4. ASSUME NEW r \in Live, NEW e \in Epa, Delete(r, e) PROVE WindowAsOldAsOwnership'
  <2>1. deletes' # 0
    BY <1>4, LiveAssumption DEF Delete, TypeOK
  <2> QED BY <2>1 DEF WindowAsOldAsOwnership
<1>5. ASSUME UNCHANGED <<owned, window, deletes>> PROVE WindowAsOldAsOwnership'
  BY <1>5 DEF WindowAsOldAsOwnership
<1> QED BY <1>1, <1>2, <1>3, <1>4, <1>5 DEF Next, Upsert, ViewChange, vars

\* As long as no EPA has been deleted, whoever has been the owner for the evaluation
\* period has data of the whole period: the reason why serving then is safe.
THEOREM OwnersHaveTheWindow == Spec => []WindowAsOldAsOwnership
<1>1. Init => WindowAsOldAsOwnership
  BY DEF Init, WindowAsOldAsOwnership
<1>2. TypeOK /\ WindowAsOldAsOwnership /\ [Next]_vars => WindowAsOldAsOwnership'
  BY StepKeepsWindow
<1> QED BY <1>1, <1>2, InitTypes, StepTypes, PTL DEF Spec
=============================================================================
