----------------------------- MODULE EpaOwnership -----------------------------
(***************************************************************************)
(* Who scrapes and who serves an EPA: src/src/membership/ownership.rs, as  *)
(* driven by the scheduler (process_epa in src/src/scraper/scheduler.rs)   *)
(* and by the controller's updates to the set of active EPAs.              *)
(*                                                                         *)
(* Each replica decides alone, from its own view of the membership; here a *)
(* view may change to anything that LeaseMembership allows (two disjoint   *)
(* sets), at any time.  Handoff ties the views of several replicas         *)
(* together.  Times are elapsed ticks (1s) since the recorded instant.     *)
(***************************************************************************)
EXTENDS Rendezvous

CONSTANTS
    Live,         \* the replicas whose processes are modelled; others are only seen
    Period,       \* evaluation periods EPAs are configured with, in ticks
    GraceBuffer,  \* GRACE_BUFFER, in ticks
    None,         \* no entry in a map
    MaxElapsed,   \* bound: elapsed times saturate here
    MaxDeletes    \* bound: EPA deletions

ASSUME LiveAssumption == Live \subseteq Replica /\ MaxDeletes \in Nat

ASSUME PeriodAssumption ==
    /\ Period \subseteq Nat /\ GraceBuffer \in Nat /\ MaxElapsed \in Nat
    /\ \A p \in Period : p + GraceBuffer <= MaxElapsed

Elapsed == 0 .. MaxElapsed

\* OwnershipState and LostOwnership: time since the instant, and the period.
Entry == [elapsed : Elapsed, period : Period]

ASSUME NoneAssumption == None \notin Entry /\ None \notin Period /\ None \notin Nat

VARIABLES
    active, draining,  \* each replica's view (MembershipManager)
    epas,              \* active_epas of each replica: the EPA's period, or None
    owned, lost,       \* TransitionState of each replica
    window,            \* how long the metrics store has been fed, or None
    deletes            \* EPA deletions so far

views == <<active, draining>>
vars  == <<views, epas, owned, lost, window, deletes>>

PerEpa(S) == [Live -> [Epa -> S]]

\* The types, with every elapsed time under its cap.
TypeOK ==
    /\ active \in [Live -> SUBSET Replica]
    /\ draining \in [Live -> SUBSET Replica]
    /\ epas \in PerEpa(Period \cup {None})
    /\ owned \in PerEpa(Entry \cup {None})
    /\ lost \in PerEpa(Entry \cup {None})
    /\ window \in PerEpa(Elapsed \cup {None})
    /\ deletes \in 0 .. MaxDeletes

Init ==
    /\ active = [r \in Live |-> {}] /\ draining = [r \in Live |-> {}]
    /\ epas = [r \in Live |-> [e \in Epa |-> None]]
    /\ owned = epas /\ lost = epas /\ window = epas /\ deletes = 0

-----------------------------------------------------------------------------

Owner(r, e)         == HighestWeight(active[r], e)
PreviousOwner(r, e) == HighestWeight(active[r] \cup draining[r], e)

IsOwner(r, e) == Owner(r, e) = r

\* (Mutant: losers refuse at once.)
LosersRefuse(r, e) ==
    owned[r][e] # None /\ (owned[r][e].elapsed >= owned[r][e].period \/ PreviousOwner(r, e) = r)

\* An owner serves once it has been one for the evaluation period, and before
\* that unless somebody else wins when draining replicas are counted in.
ShouldServe(r, e) ==
    IF owned[r][e] = None THEN lost[r][e] # None
    ELSE \/ owned[r][e].elapsed >= owned[r][e].period
         \/ PreviousOwner(r, e) \in {r, Nobody}

(* Mutants: no grace buffer, a loss never dropped, a loss remembered through
   a win, and scraping only what is served. *)
KeptWithoutGrace(entry) == entry # None /\ entry.elapsed < entry.period
KeptForever(entry)      == entry # None
Remembered(r, e, p) ==
    IF owned[r][e] # None /\ ~IsOwner(r, e) THEN [elapsed |-> 0, period |-> p] ELSE lost[r][e]
ScrapesWhatItServes(r, e) == ShouldServe(r, e)

ShouldScrape(r, e) == owned[r][e] # None \/ lost[r][e] # None

\* What `lost.retain` keeps.
Kept(entry) == entry # None /\ entry.elapsed < entry.period + GraceBuffer

\* The entry of a winner: the instant of winning stays, the period follows.
Won(entry, p) ==
    IF entry = None THEN [elapsed |-> 0, period |-> p] ELSE [entry EXCEPT !.period = p]

\* The loss after this refresh: forgotten on a win; recorded, with the period
\* frozen, when what was owned is lost; the first loss stays otherwise.
Loss(r, e, p) ==
    IF IsOwner(r, e) THEN None
    ELSE IF owned[r][e] # None /\ lost[r][e] = None
         THEN [elapsed |-> 0, period |-> p] ELSE lost[r][e]

\* refresh_ownership.  Expired losses of all EPAs are dropped at the end.
Refresh(r, e, p) ==
    LET losses == [lost[r] EXCEPT ![e] = Loss(r, e, p)]
    IN /\ owned' = [owned EXCEPT ![r][e] = IF IsOwner(r, e) THEN Won(@, p) ELSE None]
       /\ lost' = [lost EXCEPT ![r] =
                     [k \in Epa |-> IF Kept(losses[k]) THEN losses[k] ELSE None]]

\* process_epa for one EPA: refresh, then scrape if it should.  The store is
\* fed from the first such pass on; once passes end, it holds no window that
\* is still being filled.
Process(r, e) ==
    /\ epas[r][e] # None
    /\ Refresh(r, e, epas[r][e])
    /\ UNCHANGED <<views, epas, deletes>>
    /\ window' = [window EXCEPT ![r][e] =
                    IF ~ShouldScrape(r, e)' THEN None ELSE IF @ = None THEN 0 ELSE @]

\* EpaUpdate::Upsert and ::Delete, from the controller of this replica, which
\* sends the latter only as the owner and removes the windows with it.  The
\* ownership maps are not told.  (The queue between the two is left out here.)
Upsert(r, e, p) ==
    /\ epas' = [epas EXCEPT ![r][e] = p]
    /\ UNCHANGED <<views, owned, lost, window, deletes>>

Delete(r, e) ==
    /\ deletes < MaxDeletes /\ IsOwner(r, e)
    /\ deletes' = deletes + 1
    /\ epas' = [epas EXCEPT ![r][e] = None]
    /\ window' = [window EXCEPT ![r][e] = None]
    /\ UNCHANGED <<views, owned, lost>>

\* update_active_replicas installs a new view.
ViewChange(r, a, d) ==
    /\ a \cap d = {}
    /\ active' = [active EXCEPT ![r] = a]
    /\ draining' = [draining EXCEPT ![r] = d]
    /\ UNCHANGED <<epas, owned, lost, window, deletes>>

\* The process ends: all this is memory.  It may start again (same POD_UID).
Die(r) ==
    /\ active' = [active EXCEPT ![r] = {}] /\ draining' = [draining EXCEPT ![r] = {}]
    /\ epas' = [epas EXCEPT ![r] = [e \in Epa |-> None]]
    /\ owned' = [owned EXCEPT ![r] = [e \in Epa |-> None]]
    /\ lost' = [lost EXCEPT ![r] = [e \in Epa |-> None]]
    /\ window' = [window EXCEPT ![r] = [e \in Epa |-> None]]
    /\ UNCHANGED deletes

Later(n)      == IF n < MaxElapsed THEN n + 1 ELSE n
Older(entry)  == IF entry = None THEN None ELSE [entry EXCEPT !.elapsed = Later(@)]

Pass ==
    /\ owned' = [r \in Live |-> [e \in Epa |-> Older(owned[r][e])]]
    /\ lost' = [r \in Live |-> [e \in Epa |-> Older(lost[r][e])]]
    /\ window' = [r \in Live |-> [e \in Epa |->
                    IF window[r][e] = None THEN None ELSE Later(window[r][e])]]
    /\ UNCHANGED <<views, epas, deletes>>

Next ==
    \/ \E r \in Live, e \in Epa :
          Process(r, e) \/ Delete(r, e) \/ \E p \in Period : Upsert(r, e, p)
    \/ \E r \in Live, a, d \in SUBSET Replica : ViewChange(r, a, d)
    \/ \E r \in Live : Die(r)
    \/ Pass

Spec == Init /\ [][Next]_vars

-----------------------------------------------------------------------------

\* One EPA is never both won and lost: a re-win erases the loss, a loss the
\* win, whatever order views, passes and updates come in.
WonOrLost == \A r \in Live, e \in Epa : owned[r][e] = None \/ lost[r][e] = None

\* A loser keeps scraping and serving for its evaluation period plus the grace
\* buffer, counted from the loss: the entry goes only when that has elapsed,
\* when the EPA is won back or with the process, and its clock and period are
\* never reset.
GraceHonoured ==
    [][\A r \in Live, e \in Epa : lost[r][e] # None =>
          \/ lost'[r][e] # None /\ lost'[r][e].elapsed >= lost[r][e].elapsed
                                /\ lost'[r][e].period = lost[r][e].period
          \/ owned'[r][e] # None
          \/ Die(r)
          \/ lost[r][e].elapsed >= lost[r][e].period + GraceBuffer]_vars

\* "Returns true after collecting a full evaluation window of data": as long as
\* no EPA has been deleted, the window is at least as old as the ownership, even
\* across wins, losses and restarts.  A deletion empties the window and leaves
\* the entry of `owned`, so an EPA that is created again is served without one.
WindowAsOldAsOwnership ==
    deletes = 0 => \A r \in Live, e \in Epa :
        owned[r][e] # None => window[r][e] # None /\ window[r][e] >= owned[r][e].elapsed
=============================================================================
