------------------------- MODULE MetricsServingProofs -------------------------
(* For any number of pods, scrapes and requests, and any ages: types, how    *)
(* long a silent pod stays in the answers, how soon they follow the spec, and *)
(* what rates and aggregates may show.                                       *)
EXTENDS MetricsServing, WellFoundedInduction, FiniteSetTheorems, TLAPS

-----------------------------------------------------------------------------
(* Types.                                                                  *)

\* A counter shows no more than it ever counted, and that is bounded.
Counted ==
    \A p \in Pod : counter[p].value <= counter[p].total /\ counter[p].total <= changes

\* The bounds are natural numbers, and some of them positive.
LEMMA Bounds ==
    /\ MaxSamples \in Nat \ {0} /\ EvictEvery \in Nat \ {0} /\ Ttl \in Nat \ {0}
    /\ Interval \in Nat \ {0} /\ MaxAge \in Nat /\ MaxJobs \in Nat /\ MaxChanges \in Nat
BY BoundAssumption, TimingAssumption

\* So are the ages at which clocks stop.
LEMMA Ends ==
    Oldest \in Nat /\ OldAnswer \in Nat /\ LongAgo \in Nat /\ Oldest <= OldAnswer
BY Bounds DEF Oldest, OldAnswer, LongAgo

\* Clocks go forward to their end, and countdowns to zero.
LEMMA ClockTypes ==
    ASSUME NEW max \in Nat, NEW n \in 0 .. max
    PROVE  Older(n, max) \in 0 .. max /\ Earlier(n) \in 0 .. max
BY DEF Older, Earlier

\* A window that has room for one more sample, or makes it.
LEMMA RoomType ==
    ASSUME NEW s \in Seq(Sample), Len(s) \in 1 .. MaxSamples, NEW x \in Sample
    PROVE  /\ Append(Room(s), x) \in Seq(Sample)
           /\ Len(Append(Room(s), x)) \in 1 .. MaxSamples
BY Bounds DEF Room

\* Removing windows leaves the others as they are.
LEMMA WithoutType ==
    ASSUME TypeOK, NEW pods, window' = Without(pods)
    PROVE  /\ window' \in [Pod -> Window \cup {None}]
           /\ Listed' \subseteq Listed
           /\ \A p \in Listed' : p \notin pods /\ window'[p] = window[p]
           /\ \A p \in Listed' : Len(window'[p].samples) \in 1 .. MaxSamples
<1>1. \A p \in Pod : window'[p] = IF p \in pods THEN None ELSE window[p]
  BY DEF Without
<1>2. \A p \in Listed' : p \in Listed /\ p \notin pods /\ window'[p] = window[p]
  BY <1>1 DEF Listed
<1>3. window' \in [Pod -> Window \cup {None}]
  BY DEF Without, TypeOK
<1> QED BY <1>2, <1>3 DEF TypeOK

\* A tick ages every window and keeps its samples.
LEMMA Aging ==
    ASSUME TypeOK, Tick
    PROVE  /\ window' \in [Pod -> Window \cup {None}]
           /\ Listed' = Listed
           /\ \A p \in Listed : /\ window'[p].samples = window[p].samples
                                /\ window'[p].age = Older(window[p].age, Oldest)
           /\ \A p \in Listed' : Len(window'[p].samples) \in 1 .. MaxSamples
<1>1. \A p \in Pod : window'[p] = IF window[p] = None THEN None
                                  ELSE [window[p] EXCEPT !.age = Older(@, Oldest)]
  BY DEF Tick
<1>2. ASSUME NEW p \in Listed
      PROVE  /\ window'[p] \in Window /\ window'[p].samples = window[p].samples
             /\ window'[p].age = Older(window[p].age, Oldest)
  <2>1. p \in Pod /\ window[p] \in Window /\ window[p].age \in 0 .. Oldest
    BY DEF Listed, TypeOK, Window
  <2>2. Older(window[p].age, Oldest) \in 0 .. Oldest
    BY <2>1, Ends, ClockTypes
  <2>3. window'[p] = [window[p] EXCEPT !.age = Older(@, Oldest)]
    BY <1>1, <2>1, NoneAssumption
  <2> QED BY <2>1, <2>2, <2>3 DEF Window
<1>3. window' \in [Pod -> Window \cup {None}]
  BY <1>1, <1>2 DEF Tick, Listed
<1>4. Listed' = Listed
  BY <1>1, <1>2, NoneAssumption DEF Listed
<1> QED BY <1>2, <1>3, <1>4 DEF TypeOK

-----------------------------------------------------------------------------

\* Init establishes the types.
LEMMA InitTypes == Init => TypeOK /\ Counted
<1> SUFFICES ASSUME Init PROVE TypeOK /\ Counted
  OBVIOUS
<1>1. epa \in Agg
  BY AggAssumption DEF Init
<1>2. Listed = {}
  BY DEF Init, Listed
<1>3. /\ counter \in [Pod -> [value : 0 .. MaxChanges, total : 0 .. MaxChanges]] /\ Counted
      /\ jobs \in [Pod -> 0 .. MaxJobs] /\ changes \in 0 .. MaxChanges
  BY Bounds DEF Init, Counted
<1>4. lag \in 0 .. LongAgo /\ left \in 0 .. Interval /\ evictIn \in 0 .. EvictEvery
  BY Bounds, Ends DEF Init
<1> QED BY <1>1, <1>2, <1>3, <1>4 DEF Init, TypeOK

\* What the registry's writers keep.
LEMMA RegistryTypes ==
    ASSUME TypeOK, Counted, UNCHANGED kind,
           \/ \E u \in Agg \cup {"delete"} : Reconcile(u)
           \/ RemoveData \/ WriteConfig \/ Register
    PROVE  TypeOK' /\ Counted'
<1>1. ASSUME NEW u \in Agg \cup {"delete"}, Reconcile(u) PROVE TypeOK' /\ Counted'
  <2>1. changes' = changes + 1 /\ changes' \in 0 .. MaxChanges
    BY <1>1, Bounds DEF Reconcile, Change, TypeOK
  <2>2. update' \in Agg \cup {None, "delete"} /\ written' \in BOOLEAN /\ removing' \in BOOLEAN
    BY <1>1 DEF Reconcile
  <2>3. UNCHANGED <<counter, epa, lag, tickVars, jobs, scrape, window, config, cache, request>>
    BY <1>1 DEF Reconcile, Change
  <2>4. Counted'
    BY <2>1, <2>3 DEF Counted, TypeOK
  <2> QED BY <2>1, <2>2, <2>3, <2>4 DEF TypeOK, Listed, tickVars
<1>2. CASE RemoveData
  <2>1. window' = Without(Pod)
    BY <1>2 DEF RemoveData
  <2> QED BY <1>2, <2>1, WithoutType DEF RemoveData, TypeOK, Counted, tickVars
<1>3. CASE WriteConfig
  BY <1>3 DEF WriteConfig, TypeOK, Counted, tickVars, Listed
<1>4. CASE Register
  <2>1. epa' \in Agg \cup {None} /\ lag' \in 0 .. LongAgo
    BY <1>4, Ends DEF Register, TypeOK
  <2>2. update' = None /\ written' = FALSE
        /\ UNCHANGED <<counter, removing, tickVars, jobs, scrape, window, config, cache,
                       request, changes>>
    BY <1>4 DEF Register
  <2> QED BY <2>1, <2>2 DEF TypeOK, Counted, tickVars, Listed
<1> QED BY <1>1, <1>2, <1>3, <1>4

\* What the scheduler keeps.
LEMMA SchedulerTypes ==
    ASSUME TypeOK, Counted, UNCHANGED kind, Begin \/ Round \/ LookupFails \/ FindStale \/ RemoveStale
    PROVE  TypeOK' /\ Counted'
<1>1. CASE Begin
  <2>1. seen' \in Agg \cup {None} /\ left' \in 0 .. Interval
        /\ phase' \in {"begin", "round", "evict", "remove", "done"}
    BY <1>1, Bounds DEF Begin, ThenEvict, TypeOK
  <2>2. UNCHANGED <<counter, specVars, evictIn, stale, jobs, scrape, window, config, cache,
                    request, changes>>
    BY <1>1 DEF Begin
  <2> QED BY <2>1, <2>2 DEF TypeOK, Counted, Listed, specVars
<1>2. CASE Round
  <2>1. PICK ready \in SUBSET Pod :
          /\ window' = Without(Pod \ ready)
          /\ jobs' = [p \in Pod |-> IF p \in ready THEN Older(jobs[p], MaxJobs) ELSE jobs[p]]
    BY <1>2 DEF Round
  <2>2. window' \in [Pod -> Window \cup {None}]
        /\ \A p \in Listed' : Len(window'[p].samples) \in 1 .. MaxSamples
    BY <2>1, WithoutType
  <2>3. jobs' \in [Pod -> 0 .. MaxJobs]
    BY <2>1, Bounds, ClockTypes DEF TypeOK
  <2>4. /\ left' \in 0 .. Interval /\ config' \in Agg \cup {None} /\ seen' \in Agg \cup {None}
        /\ phase' \in {"begin", "round", "evict", "remove", "done"}
        /\ UNCHANGED <<counter, specVars, evictIn, stale, scrape, cache, request, changes>>
    BY <1>2, Bounds DEF Round, ThenEvict, TypeOK
  <2> QED BY <2>2, <2>3, <2>4 DEF TypeOK, Counted, specVars
<1>3. CASE FindStale
  BY <1>3 DEF FindStale, TypeOK, Counted, Listed, specVars
<1>4. CASE RemoveStale
  <2>1. window' = Without(stale)
    BY <1>4 DEF RemoveStale
  <2> QED BY <1>4, <2>1, WithoutType, Bounds DEF RemoveStale, TypeOK, Counted, specVars
<1>5. CASE LookupFails
  <2>1. changes' = changes + 1 /\ changes' \in 0 .. MaxChanges /\ lag' \in 0 .. LongAgo
    BY <1>5, Bounds, Ends DEF LookupFails, TypeOK
  <2>2. seen' \in Agg \cup {None} /\ phase' \in {"begin", "round", "evict", "remove", "done"}
        /\ UNCHANGED <<counter, epa, update, written, removing, left, evictIn, stale, jobs,
                       scrape, window, config, cache, request>>
    BY <1>5 DEF LookupFails, ThenEvict
  <2>3. Counted'
    BY <2>1, <2>2 DEF Counted, TypeOK
  <2> QED BY <2>1, <2>2, <2>3 DEF TypeOK, Listed
<1> QED BY <1>1, <1>2, <1>3, <1>4, <1>5

\* What a response becomes that another one overlaps.
LEMMA Overlapping ==
    ASSUME NEW x \in Response
    PROVE  LET y == [x EXCEPT !.sample.overlapped = TRUE] IN
           /\ y \in Response
           /\ y = [pod |-> x.pod, sample |-> [value |-> x.sample.value,
                      total |-> x.sample.total, overlapped |-> TRUE]]
<1> DEFINE z == x.sample
<1>1. x = [pod |-> x.pod, sample |-> z] /\ z \in Sample /\ x.pod \in Pod
  BY DEF Response
<1>2. \A y \in Sample :
        /\ [y EXCEPT !.overlapped = TRUE] \in Sample
        /\ [y EXCEPT !.overlapped = TRUE]
              = [value |-> y.value, total |-> y.total, overlapped |-> TRUE]
  <2> SUFFICES ASSUME NEW y \in Sample, NEW w, w = [y EXCEPT !.overlapped = TRUE]
               PROVE  /\ w \in Sample
                      /\ w = [value |-> y.value, total |-> y.total, overlapped |-> TRUE]
    OBVIOUS
  <2>1. w \in Sample /\ w.value = y.value /\ w.total = y.total /\ w.overlapped = TRUE
    BY DEF Sample
  <2> QED BY <2>1 DEF Sample
<1> DEFINE late == [z EXCEPT !.overlapped = TRUE]
<1>3. [x EXCEPT !.sample.overlapped = TRUE] = [x EXCEPT !.sample = late]
  OBVIOUS
<1>4. [x EXCEPT !.sample = late] = [pod |-> x.pod, sample |-> late]
  <2> HIDE DEF late, z
  <2> QED BY <1>1
<1> QED BY <1>1, <1>2, <1>3, <1>4 DEF Response

\* A response joins those of the same pod that are under way, and all overlap.
LEMMA Responding ==
    ASSUME TypeOK, NEW s \in Scrape, NEW p \in Pod, Respond(s, p)
    PROVE  LET others == {t \in Scrape : scrape[t] # None /\ scrape[t].pod = p} IN
           /\ scrape' \in [Scrape -> Response \cup {None}]
           /\ scrape'[s] = [pod |-> p, sample |-> [value |-> counter[p].value,
                               total |-> counter[p].total, overlapped |-> others # {}]]
           /\ \A t \in others : scrape'[t] = [pod |-> p, sample |->
                                   [value |-> scrape[t].sample.value,
                                    total |-> scrape[t].sample.total, overlapped |-> TRUE]]
           /\ \A t \in {s} \cup others : scrape'[t] # None
           /\ \A t \in Scrape \ ({s} \cup others) : scrape'[t] = scrape[t]
           /\ s \notin others
<1> DEFINE others == {t \in Scrape : scrape[t] # None /\ scrape[t].pod = p}
           answer == [pod |-> p, sample |-> [value |-> counter[p].value,
                         total |-> counter[p].total, overlapped |-> others # {}]]
<1>1. scrape' = [t \in Scrape |->
            CASE t = s -> answer
              [] t \in others -> [scrape[t] EXCEPT !.sample.overlapped = TRUE]
              [] OTHER -> scrape[t]]
  BY DEF Respond
<1>2. s \notin others
  BY DEF Respond
<1>3. answer \in Response
  BY DEF Response, Sample, TypeOK
<1> DEFINE late(t) == [scrape[t] EXCEPT !.sample.overlapped = TRUE]
<1>4. ASSUME NEW t \in others
      PROVE  /\ t \in Scrape /\ late(t) \in Response
             /\ late(t) = [pod |-> p, sample |-> [value |-> scrape[t].sample.value,
                              total |-> scrape[t].sample.total, overlapped |-> TRUE]]
  <2>1. t \in Scrape /\ scrape[t] \in Response /\ scrape[t].pod = p
    BY DEF TypeOK
  <2> QED BY <2>1, Overlapping
<1> HIDE DEF others, answer, late
<1>5. /\ scrape'[s] = answer
      /\ \A t \in others : t \in Scrape => scrape'[t] = late(t)
      /\ \A t \in Scrape \ ({s} \cup others) : scrape'[t] = scrape[t]
  BY <1>1, <1>2 DEF late
<1>6. scrape' \in [Scrape -> Response \cup {None}]
  <2>1. \A t \in Scrape : scrape'[t] \in Response \cup {None}
    BY <1>2, <1>3, <1>4, <1>5 DEF TypeOK
  <2> QED BY <1>1, <2>1
<1>7. scrape'[s] # None /\ \A t \in others : scrape'[t] # None
  BY <1>3, <1>4, <1>5, NoneAssumption
<1> QED BY <1>2, <1>4, <1>5, <1>6, <1>7 DEF others, answer

\* A push leaves a window with its sample last.
LEMMA Pushing ==
    ASSUME TypeOK, NEW s \in Scrape, Push(s)
    PROVE  LET p    == scrape[s].pod
               kept == IF window[p] = None THEN <<>> ELSE Room(window[p].samples)
           IN  /\ p \in Pod /\ scrape[s] \in Response
               /\ window' \in [Pod -> Window \cup {None}]
               /\ window'[p] = [samples |-> Append(kept, scrape[s].sample), age |-> 0]
               /\ \A q \in Pod \ {p} : window'[q] = window[q]
               /\ Listed' = Listed \cup {p}
               /\ kept \in Seq(Sample) /\ Len(kept) + 1 \in 1 .. MaxSamples
               /\ Len(window'[p].samples) = Len(kept) + 1 /\ window'[p].age = 0
<1> DEFINE p    == scrape[s].pod
           kept == IF window[p] = None THEN <<>> ELSE Room(window[p].samples)
           new  == [samples |-> Append(kept, scrape[s].sample), age |-> 0]
<1>1. p \in Pod /\ scrape[s] \in Response /\ scrape[s].sample \in Sample
  BY DEF Push, TypeOK, Response
<1>2. window' = [window EXCEPT ![p] = new]
  BY DEF Push
<1>3. kept \in Seq(Sample) /\ Len(kept) + 1 \in 1 .. MaxSamples
  <2>1. CASE window[p] = None
    BY <2>1, Bounds
  <2>2. CASE window[p] # None
    <3>1. window[p].samples \in Seq(Sample) /\ Len(window[p].samples) \in 1 .. MaxSamples
      BY <2>2, <1>1 DEF TypeOK, Listed, Window
    <3> QED BY <2>2, <3>1, Bounds DEF Room
  <2> QED BY <2>1, <2>2
<1> HIDE DEF p, kept
<1>4. new \in Window
  BY <1>1, <1>3, Ends DEF Window
<1>5. new # None
  BY <1>4, NoneAssumption
<1>6. Len(new.samples) = Len(kept) + 1 /\ new.age = 0
  BY <1>1, <1>3
<1> QED BY <1>1, <1>2, <1>3, <1>4, <1>5, <1>6 DEF TypeOK, Listed, p, kept

\* What the workers keep.
LEMMA WorkerTypes ==
    ASSUME TypeOK, Counted, UNCHANGED kind,
           \/ \E s \in Scrape, p \in Pod : Respond(s, p)
           \/ \E s \in Scrape : Push(s) \/ Fail(s)
           \/ \E p \in Pod : NoResponse(p)
    PROVE  TypeOK' /\ Counted'
<1>1. ASSUME NEW s \in Scrape, NEW p \in Pod, Respond(s, p) PROVE TypeOK' /\ Counted'
  <2>1. scrape' \in [Scrape -> Response \cup {None}]
    BY <1>1, Responding
  <2>2. jobs' \in [Pod -> 0 .. MaxJobs]
        /\ UNCHANGED <<counter, specVars, tickVars, window, config, cache, request, changes>>
    BY SMTT(30), <1>1, Bounds DEF Respond, TypeOK
  <2> QED BY SMTT(30), <2>1, <2>2 DEF TypeOK, Counted, Listed, specVars, tickVars
<1>2. ASSUME NEW s \in Scrape, Push(s) PROVE TypeOK' /\ Counted'
  <2>1. window' \in [Pod -> Window \cup {None}]
    BY <1>2, Pushing
  <2>2. \A p \in Listed' : Len(window'[p].samples) \in 1 .. MaxSamples
    <3> SUFFICES ASSUME NEW p \in Listed' PROVE Len(window'[p].samples) \in 1 .. MaxSamples
      OBVIOUS
    <3>1. CASE p = scrape[s].pod
      BY <3>1, <1>2, Pushing
    <3>2. CASE p # scrape[s].pod
      BY <3>2, <1>2, Pushing DEF TypeOK, Listed
    <3> QED BY <3>1, <3>2
  <2>3. scrape' \in [Scrape -> Response \cup {None}]
        /\ UNCHANGED <<counter, specVars, tickVars, jobs, config, cache, request, changes>>
    BY <1>2 DEF Push, TypeOK
  <2> QED BY <2>1, <2>2, <2>3 DEF TypeOK, Counted, specVars, tickVars
<1>3. ASSUME NEW s \in Scrape, Fail(s) PROVE TypeOK' /\ Counted'
  BY <1>3 DEF Fail, TypeOK, Counted, Listed, specVars, tickVars
<1>4. ASSUME NEW p \in Pod, NoResponse(p) PROVE TypeOK' /\ Counted'
  <2>1. jobs' \in [Pod -> 0 .. MaxJobs]
        /\ UNCHANGED <<counter, specVars, tickVars, scrape, window, config, cache, request,
                       changes>>
    BY <1>4, Bounds DEF NoResponse, TypeOK
  <2> QED BY SMTT(30), <2>1 DEF TypeOK, Counted, Listed, specVars, tickVars
<1> QED BY <1>1, <1>2, <1>3, <1>4

\* What the requests keep.
LEMMA RequestTypes ==
    ASSUME TypeOK, Counted, UNCHANGED kind,
           \/ \E r \in Request : Compute(r) \/ Finish(r)
           \/ CleanUp
    PROVE  TypeOK' /\ Counted'
<1>1. ASSUME NEW r \in Request, Compute(r) PROVE TypeOK' /\ Counted'
  <2>1. PICK p \in Contributors :
          request' = [request EXCEPT ![r] = [agg |-> ConfiguredAgg, silent |-> window[p].age]]
    BY <1>1 DEF Compute
  <2>2. window[p].age \in 0 .. OldAnswer
    BY Ends DEF Contributors, Listed, Window, TypeOK
  <2>3. ConfiguredAgg \in Agg
    BY AggAssumption DEF ConfiguredAgg, TypeOK
  <2>4. request' \in [Request -> Answer \cup {None}]
    BY <2>1, <2>2, <2>3 DEF Answer, TypeOK
  <2> QED BY <1>1, <2>4 DEF Compute, TypeOK, Counted, Listed, specVars, tickVars
<1>2. ASSUME NEW r \in Request, Finish(r) PROVE TypeOK' /\ Counted'
  <2>1. cache' \in Cached
    BY <1>2, Bounds DEF Finish, TypeOK, Answer, Cached
  <2>2. request' \in [Request -> Answer \cup {None}]
        /\ UNCHANGED <<counter, specVars, tickVars, jobs, scrape, window, config, changes>>
    BY <1>2 DEF Finish, TypeOK
  <2> QED BY <2>1, <2>2 DEF TypeOK, Counted, Listed, specVars, tickVars
<1>3. CASE CleanUp
  BY <1>3 DEF CleanUp, TypeOK, Counted, Listed, specVars, tickVars
<1> QED BY <1>1, <1>2, <1>3

\* What pods and time keep.
LEMMA OutsideTypes ==
    ASSUME TypeOK, Counted, UNCHANGED kind,
           \/ \E p \in Pod : Count(p) \/ Restart(p)
           \/ Tick
    PROVE  TypeOK' /\ Counted'
<1>1. ASSUME NEW p \in Pod, Count(p) \/ Restart(p) PROVE TypeOK' /\ Counted'
  <2>1. changes' = changes + 1 /\ changes' \in 0 .. MaxChanges
    BY SMTT(30), <1>1, Bounds DEF Count, Restart, Change, TypeOK
  <2>2. counter' \in [Pod -> [value : 0 .. MaxChanges, total : 0 .. MaxChanges]] /\ Counted'
    <3>1. counter[p] \in [value : 0 .. MaxChanges, total : 0 .. MaxChanges]
          /\ counter[p].value <= counter[p].total /\ counter[p].total <= changes
      BY DEF TypeOK, Counted
    <3>2. /\ counter' = [counter EXCEPT ![p] = counter'[p]]
          /\ counter'[p] \in [value : 0 .. MaxChanges, total : 0 .. MaxChanges]
          /\ counter'[p].value <= counter'[p].total /\ counter'[p].total <= changes'
      <4>1. CASE Count(p)
        <5>1. counter'[p] = [value |-> counter[p].value + 1, total |-> counter[p].total + 1]
              /\ counter' = [counter EXCEPT ![p] = counter'[p]]
          BY <4>1, <3>1 DEF Count, TypeOK
        <5> QED BY <5>1, <3>1, <2>1, Bounds DEF TypeOK
      <4>2. CASE Restart(p)
        <5>1. counter'[p] = [value |-> 0, total |-> counter[p].total]
              /\ counter' = [counter EXCEPT ![p] = counter'[p]]
          BY <4>2, <3>1 DEF Restart, TypeOK
        <5> QED BY <5>1, <3>1, <2>1, Bounds DEF TypeOK
      <4> QED BY <1>1, <4>1, <4>2
    <3>3. \A q \in Pod \ {p} : counter'[q] = counter[q]
      BY <3>2 DEF TypeOK
    <3>4. counter' \in [Pod -> [value : 0 .. MaxChanges, total : 0 .. MaxChanges]]
      BY <3>2 DEF TypeOK
    <3>5. ASSUME NEW q \in Pod
          PROVE  counter'[q].value <= counter'[q].total /\ counter'[q].total <= changes'
      <4>1. CASE q = p
        BY <4>1, <3>2
      <4>2. CASE q # p
        BY <4>2, <3>3, <2>1 DEF TypeOK, Counted
      <4> QED BY <4>1, <4>2
    <3> QED BY <3>4, <3>5 DEF Counted
  <2>3. UNCHANGED <<specVars, tickVars, jobs, scrape, window, config, cache, request>>
    BY <1>1 DEF Count, Restart, Change
  <2> QED BY <2>1, <2>2, <2>3 DEF TypeOK, Listed, specVars, tickVars
<1>2. CASE Tick
  <2>1. left' \in 0 .. Interval /\ evictIn' \in 0 .. EvictEvery /\ lag' \in 0 .. LongAgo
    BY <1>2, Bounds, Ends, ClockTypes DEF Tick, TypeOK
  <2>2. /\ window' \in [Pod -> Window \cup {None}]
        /\ \A p \in Listed' : Len(window'[p].samples) \in 1 .. MaxSamples
    BY <1>2, Aging
  <2>3. cache' \in Cached \cup {None}
    <3>1. CASE cache = None
      BY <1>2, <3>1 DEF Tick
    <3>2. CASE cache # None
      <4>1. cache' = [cache EXCEPT !.age = Older(@, Ttl), !.silent = Older(@, OldAnswer)]
        BY <1>2, <3>2 DEF Tick
      <4>2. cache \in Cached
        BY <3>2 DEF TypeOK
      <4>3. Older(cache.age, Ttl) \in 0 .. Ttl /\ Older(cache.silent, OldAnswer) \in 0 .. OldAnswer
        BY <4>2, Bounds, Ends, ClockTypes DEF Cached
      <4> QED BY <4>1, <4>2, <4>3 DEF Cached
    <3> QED BY <3>1, <3>2
  <2>4. phase' = "begin" /\ UNCHANGED <<counter, epa, update, written, removing, seen, stale,
                                       jobs, scrape, config, request, changes>>
    BY <1>2 DEF Tick
  <2> QED BY <2>1, <2>2, <2>3, <2>4 DEF TypeOK, Counted
<1> QED BY <1>1, <1>2

\* Every step keeps the types.
LEMMA StepTypes == TypeOK /\ Counted /\ [Next]_vars => TypeOK' /\ Counted'
<1>1. ASSUME TypeOK, Counted, UNCHANGED vars PROVE TypeOK' /\ Counted'
  BY <1>1 DEF vars, specVars, tickVars, TypeOK, Counted, Listed
<1> QED
  BY <1>1, RegistryTypes, SchedulerTypes, WorkerTypes, RequestTypes, OutsideTypes DEF Next, Step

\* Types: windows never outgrow max_samples, and are never empty.
THEOREM TypeCorrect == Spec => []TypeOK
<1> QED BY InitTypes, StepTypes, PTL DEF Spec

-----------------------------------------------------------------------------
(* How old an answer can be.                                               *)

\* A window is stale for no longer than the next eviction is away, an eviction
\* under way has found all that are, and an answer ages with its cache entry.
Ages ==
    /\ \A p \in Listed : window[p].age <= MaxAge + (EvictEvery - evictIn)
    /\ phase = "done" => evictIn > 0
    /\ phase = "remove" => \A p \in Listed \ stale : window[p].age <= MaxAge
    /\ \A r \in Request : request[r] # None => request[r].silent <= MaxAge + EvictEvery
    /\ cache # None /\ IsValid(cache) => cache.silent <= MaxAge + EvictEvery + cache.age

\* What is removed takes nothing with it that keeps the others young.
LEMMA FewerAges ==
    ASSUME TypeOK, Ages, NEW pods, window' = Without(pods),
           UNCHANGED <<evictIn, stale, request, cache>>,
           phase' = phase \/ (phase' = "evict") \/ (phase' = "done" /\ evictIn > 0)
    PROVE  Ages'
BY WithoutType DEF Ages, IsValid

\* The eviction and the clock work together.
LEMMA SchedulerAges ==
    ASSUME TypeOK, Ages, Begin \/ Round \/ LookupFails \/ FindStale \/ RemoveStale
    PROVE  Ages'
<1>1. ThenEvict = "evict" \/ (ThenEvict = "done" /\ evictIn > 0)
  BY Bounds DEF ThenEvict, TypeOK
<1>2. CASE Begin
  BY <1>1, <1>2 DEF Begin, Ages, Listed, IsValid
<1>3. CASE Round
  <2>1. PICK ready \in SUBSET Pod : window' = Without(Pod \ ready)
    BY <1>3 DEF Round
  <2> QED BY <1>1, <1>3, <2>1, FewerAges DEF Round
<1>4. CASE FindStale
  <2>1. \A p \in Listed' \ stale' : window'[p].age <= MaxAge
    BY <1>4, Bounds DEF FindStale, Listed, IsStale, TypeOK, Window
  <2> QED BY <1>4, <2>1 DEF FindStale, Ages, Listed, IsValid
<1>5. CASE RemoveStale
  <2>1. window' = Without(stale)
    BY <1>5 DEF RemoveStale
  <2>2. \A p \in Listed' : window'[p].age <= MaxAge
    BY <1>5, <2>1, WithoutType DEF RemoveStale, Ages
  <2>3. evictIn' = EvictEvery /\ phase' = "done" /\ UNCHANGED <<request, cache>>
    BY <1>5 DEF RemoveStale
  <2> QED BY <2>2, <2>3, Bounds DEF Ages, IsValid
<1>6. CASE LookupFails
  BY <1>1, <1>6 DEF LookupFails, Ages, Listed, IsValid
<1> QED BY <1>2, <1>3, <1>4, <1>5, <1>6

\* A new sample makes its window the youngest there can be.
LEMMA PushAges ==
    ASSUME TypeOK, Ages, NEW s \in Scrape, Push(s)
    PROVE  Ages'
<1>1. UNCHANGED <<phase, evictIn, stale, request, cache>>
  BY DEF Push, tickVars
<1>2. ASSUME NEW p \in Listed'
      PROVE  (p \in Listed /\ window'[p] = window[p]) \/ window'[p].age = 0
  <2>1. p \in Pod
    BY DEF Listed
  <2>2. CASE p = scrape[s].pod
    BY <2>2, Pushing
  <2>3. CASE p # scrape[s].pod
    BY <2>1, <2>3, Pushing
  <2> QED BY <2>2, <2>3
<1>3. \A p \in Listed' : window'[p].age <= MaxAge + (EvictEvery - evictIn)
  <2>1. evictIn \in 0 .. EvictEvery /\ EvictEvery \in Nat /\ MaxAge \in Nat
    BY Bounds DEF TypeOK
  <2>2. 0 <= MaxAge + (EvictEvery - evictIn)
    BY <2>1
  <2>3. \A p \in Listed : window[p].age <= MaxAge + (EvictEvery - evictIn)
    BY DEF Ages
  <2> QED BY <1>2, <2>2, <2>3
<1>4. phase = "remove" => \A p \in Listed' \ stale : window'[p].age <= MaxAge
  BY <1>2, Bounds DEF Ages
<1> QED BY <1>1, <1>3, <1>4 DEF Ages, IsValid

\* Requests take the age of a window, and the cache that of a request.
LEMMA RequestAges ==
    ASSUME TypeOK, Ages, NEW r \in Request, Compute(r) \/ Finish(r)
    PROVE  Ages'
<1>1. UNCHANGED <<window, phase, evictIn, stale>>
  BY DEF Compute, Finish, tickVars
<1>2. CASE Compute(r)
  <2>1. PICK p \in Contributors :
          request' = [request EXCEPT ![r] = [agg |-> ConfiguredAgg, silent |-> window[p].age]]
    BY <1>2 DEF Compute
  <2>2. window[p].age <= MaxAge + EvictEvery
    BY SMTT(30), Bounds DEF Contributors, Ages, Listed, TypeOK, Window
  <2>3. \A x \in Request : request'[x] # None => request'[x].silent <= MaxAge + EvictEvery
    BY <2>1, <2>2 DEF Ages, TypeOK
  <2> QED BY <1>1, <1>2, <2>3 DEF Compute, Ages, Listed, IsValid
<1>3. CASE Finish(r)
  <2>1. cache'.silent = request[r].silent /\ cache'.age = 0 /\ request[r] # None
    BY <1>3 DEF Finish
  <2>2. cache'.silent <= MaxAge + EvictEvery + cache'.age
    BY <2>1, Bounds DEF Ages, TypeOK, Answer
  <2>3. \A x \in Request : request'[x] # None => request'[x] = request[x]
    BY <1>3 DEF Finish, TypeOK
  <2> QED BY <1>1, <2>2, <2>3 DEF Ages, Listed, IsValid
<1> QED BY <1>2, <1>3

\* A tick ages windows and the cache, and brings the eviction nearer.
LEMMA TickAges ==
    ASSUME TypeOK, Ages, Tick
    PROVE  Ages'
<1>1. phase' = "begin" /\ UNCHANGED <<stale, request>> /\ evictIn > 0
      /\ evictIn' = evictIn - 1
  BY Bounds DEF Tick, Ages, Earlier, TypeOK
<1>2. ASSUME NEW p \in Listed'
      PROVE  window'[p].age <= MaxAge + (EvictEvery - evictIn')
  <2>1. p \in Listed /\ window'[p].age = Older(window[p].age, Oldest)
    BY Aging
  <2>2. window[p].age \in 0 .. Oldest
    BY <2>1 DEF TypeOK, Listed, Window
  <2>3. window'[p].age <= window[p].age + 1
    BY <2>1, <2>2, Ends DEF Older
  <2>4. window[p].age <= MaxAge + (EvictEvery - evictIn)
    BY <2>1 DEF Ages
  <2>5. window'[p].age \in Nat
    BY <2>1, <2>2, Ends, ClockTypes
  <2> QED BY SMTT(30), <1>1, <2>2, <2>3, <2>4, <2>5, Bounds DEF TypeOK
<1>3. cache' # None /\ IsValid(cache') => cache'.silent <= MaxAge + EvictEvery + cache'.age
  <2> SUFFICES ASSUME cache # None, IsValid(cache')
               PROVE  cache'.silent <= MaxAge + EvictEvery + cache'.age
    BY DEF Tick
  <2>1. cache \in Cached /\ cache' = [cache EXCEPT !.age = Older(@, Ttl),
                                                   !.silent = Older(@, OldAnswer)]
    BY DEF Tick, TypeOK
  <2>2. cache.age \in 0 .. Ttl /\ cache.silent \in 0 .. OldAnswer
        /\ cache'.age = Older(cache.age, Ttl) /\ cache'.silent = Older(cache.silent, OldAnswer)
    BY <2>1 DEF Cached
  <2>3. cache'.age < Ttl
    BY DEF IsValid
  <2>4. cache.age < Ttl /\ cache'.age = cache.age + 1
    BY <2>2, <2>3, Bounds DEF Older
  <2>5. cache.silent <= MaxAge + EvictEvery + cache.age
    BY <2>4 DEF Ages, IsValid
  <2>6. cache'.silent <= cache.silent + 1 /\ cache'.silent \in Nat
    BY <2>2, Ends DEF Older
  <2> QED BY <2>2, <2>4, <2>5, <2>6, Bounds
<1> QED BY <1>1, <1>2, <1>3 DEF Ages

\* Ages is inductive.
LEMMA AgesStep == TypeOK /\ Ages /\ [Next]_vars => Ages'
<1> SUFFICES ASSUME TypeOK, Ages, [Next]_vars PROVE Ages'
  OBVIOUS
<1>1. CASE UNCHANGED vars
  BY <1>1 DEF vars, tickVars, Ages, Listed, IsValid
<1>2. ASSUME NEW u \in Agg \cup {"delete"}, Reconcile(u) PROVE Ages'
  BY <1>2 DEF Reconcile, Change, tickVars, Ages, Listed, IsValid
<1>3. CASE RemoveData
  <2>1. Listed' = {}
    BY <1>3, WithoutType DEF RemoveData, Listed
  <2> QED BY <1>3, <2>1 DEF RemoveData, Ages, tickVars
<1>4. CASE WriteConfig \/ Register
  BY <1>4 DEF WriteConfig, Register, tickVars, Ages, Listed, IsValid
<1>5. ASSUME NEW s \in Scrape, NEW p \in Pod, Respond(s, p) PROVE Ages'
  BY <1>5 DEF Respond, tickVars, Ages, Listed, IsValid
<1>6. ASSUME NEW s \in Scrape, Fail(s) PROVE Ages'
  BY <1>6 DEF Fail, tickVars, Ages, Listed, IsValid
<1>7. ASSUME NEW p \in Pod, NoResponse(p) \/ Count(p) \/ Restart(p) PROVE Ages'
  BY <1>7 DEF NoResponse, Count, Restart, Change, tickVars, Ages, Listed, IsValid
<1>8. CASE CleanUp
  BY <1>8 DEF CleanUp, tickVars, Ages, Listed, IsValid
<1> QED
  BY <1>1, <1>2, <1>3, <1>4, <1>5, <1>6, <1>7, <1>8,
     SchedulerAges, PushAges, RequestAges, TickAges DEF Next, Step

\* Every pod that contributes to an answer, cached or just computed, has given a
\* sample within the eviction's age, its period and the life of a cache entry
\* together: for every number of pods, of scrapes and of requests, counters and
\* gauges, and every choice of the four times.
THEOREM SilentDropOut == Spec => []SilentPodsDropOut
<1>1. Init => Ages
  BY Bounds DEF Init, Ages, Listed
<1>2. TypeOK /\ Ages => SilentPodsDropOut
  <2> SUFFICES ASSUME TypeOK, Ages, NEW a \in Answers
               PROVE  a.silent < MaxAge + EvictEvery + Ttl
    BY DEF SilentPodsDropOut
  <2>1. CASE \E r \in Request : request[r] # None /\ a = request[r]
    BY <2>1, Bounds DEF Ages, TypeOK, Answer
  <2>2. CASE cache # None /\ IsValid(cache) /\ a = cache
    BY <2>2, Bounds DEF Ages, IsValid, TypeOK, Cached
  <2> QED BY <2>1, <2>2 DEF Answers
<1> QED BY <1>1, <1>2, AgesStep, TypeCorrect, PTL DEF Spec

-----------------------------------------------------------------------------
(* How soon answers follow the spec.                                       *)

\* What AnswersFollowSpec says of an answer that needs no time.
Told(agg) ==
    agg = epa \/ epa = None \/ update = "delete" \/ (written /\ agg = update)

\* Reconcile sends no update that changes nothing, and a deletion removes the
\* data while it is worked off or when the EPA has gone.
Updates ==
    /\ written => update \in Agg
    /\ removing => update = "delete" \/ (update = None /\ epa = None)
    /\ update # None => update # epa

\* The scheduler has been round and the next one is already due.
RoundDue == phase \in {"evict", "remove", "done"} /\ left = 0

\* An old configuration lasts no longer than to the next round, and the round
\* in which the old spec is written over the new one is that of the change.  A
\* round that is due and has not been made could not look up its pods.
Configured ==
    /\ ~Told(ConfiguredAgg) => lag + left <= Interval
    /\ phase = "round" => seen \in Agg /\ (Told(seen) \/ lag = 0)
    /\ phase \in {"begin", "round"} \/ RoundDue => (written => config = update)
    /\ RoundDue => Told(ConfiguredAgg) \/ lag = 0

\* Neither does a request, and a cached result for its own life beyond it.
Following ==
    /\ \A r \in Request :
          request[r] # None /\ ~Told(request[r].agg) => lag <= Interval
    /\ cache # None /\ IsValid(cache) /\ ~Told(cache.agg) => lag <= Interval + cache.age

FollowInv == TypeOK /\ Updates /\ Configured /\ Following

\* A step that leaves the registry alone tells neither more nor less.
LEMMA ToldStays ==
    ASSUME UNCHANGED <<epa, update, written>>
    PROVE  \A agg : Told(agg)' <=> Told(agg)
BY DEF Told

\* Nothing changes for the answers while their own and the registry's state stay.
LEMMA FollowStays ==
    ASSUME FollowInv, UNCHANGED <<specVars, phase, seen, left, config, cache, request>>
    PROVE  Updates' /\ Configured' /\ Following'
BY DEF FollowInv, Updates, Configured, Following, Told, RoundDue, ConfiguredAgg, IsValid, specVars

\* An update that starts or is written down takes back nothing that was told.
LEMMA UpdateFollows ==
    ASSUME FollowInv,
           \/ \E u \in Agg \cup {"delete"} : Reconcile(u)
           \/ RemoveData \/ WriteConfig
    PROVE  Updates' /\ Configured' /\ Following'
<1>1. ASSUME NEW u \in Agg \cup {"delete"}, Reconcile(u)
      PROVE  Updates' /\ Configured' /\ Following'
  <2>1. ~written /\ update = None /\ update' = u /\ ~written' /\ u # epa
        /\ removing' = (u = "delete")
        /\ UNCHANGED <<epa, lag, phase, seen, left, config, cache, request>>
    BY <1>1, AggAssumption DEF Reconcile, Change, tickVars, FollowInv, Updates
  <2>2. \A agg : Told(agg) => Told(agg)'
    BY <2>1, AggAssumption DEF Told
  <2>3. Updates'
    BY <2>1 DEF Updates
  <2>4. Configured'
    BY <2>1, <2>2 DEF FollowInv, Configured, ConfiguredAgg, RoundDue
  <2>5. Following'
    BY <2>1, <2>2 DEF FollowInv, Following, IsValid
  <2> QED BY <2>3, <2>4, <2>5
<1>2. CASE RemoveData
  <2>1. \A agg : Told(agg)'
    BY <1>2 DEF RemoveData, FollowInv, Updates, Told
  <2>2. ~written
    BY <1>2, AggAssumption DEF RemoveData, FollowInv, Updates
  <2>3. UNCHANGED <<epa, lag, update, written, phase, seen, left, request>> /\ ~removing'
    BY <1>2 DEF RemoveData, tickVars
  <2> QED BY <2>1, <2>2, <2>3 DEF FollowInv, Updates, Configured, Following, RoundDue
<1>3. CASE WriteConfig
  <2>1. /\ update \in Agg /\ ~written /\ written' /\ config' = update
        /\ UNCHANGED <<epa, lag, update, removing, phase, seen, left, cache, request>>
    BY <1>3 DEF WriteConfig, tickVars
  <2>2. \A agg : Told(agg) => Told(agg)'
    BY <2>1, AggAssumption DEF Told
  <2>3. Told(ConfiguredAgg)'
    BY <2>1, AggAssumption DEF Told, ConfiguredAgg
  <2>4. Updates' /\ Configured'
    BY <2>1, <2>2, <2>3 DEF FollowInv, Updates, Configured, RoundDue
  <2>5. Following'
    BY <2>1, <2>2 DEF FollowInv, Following, IsValid
  <2> QED BY <2>4, <2>5
<1> QED BY <1>1, <1>2, <1>3

\* A registration takes back what was told, and starts the time it may take.
LEMMA RegisterFollows ==
    ASSUME FollowInv, Register
    PROVE  Updates' /\ Configured' /\ Following'
<1>1. /\ update # None /\ (update \in Agg => written)
      /\ epa' = IF update = "delete" THEN None ELSE update
      /\ lag' = IF epa' = epa THEN lag ELSE 0
      /\ update' = None /\ written' = FALSE
      /\ UNCHANGED <<removing, phase, seen, left, config, cache, request>>
  BY DEF Register, tickVars
<1>2. CASE update = "delete"
  <2>1. epa' = None /\ \A agg : Told(agg)'
    BY <1>1, <1>2 DEF Told
  <2> QED BY <1>1, <2>1 DEF FollowInv, Updates, Configured, Following, RoundDue
<1>3. CASE update # "delete"
  <2>1. update \in Agg /\ written /\ epa' = update /\ lag' = 0
    BY <1>1, <1>3 DEF FollowInv, Updates, TypeOK
  <2>2. Updates'
    BY <1>1, <1>3 DEF FollowInv, Updates
  <2>3. RoundDue' => Told(ConfiguredAgg)'
    BY <1>1, <2>1, AggAssumption DEF FollowInv, Configured, RoundDue, Told, ConfiguredAgg
  <2>4. Configured'
    BY <1>1, <2>1, <2>3, Bounds DEF FollowInv, Configured, RoundDue, TypeOK
  <2>5. Following'
    BY <1>1, <2>1, Bounds DEF FollowInv, Following, TypeOK, Cached
  <2> QED BY <2>2, <2>4, <2>5
<1> QED BY <1>2, <1>3

\* A round writes the configuration of the spec its tick began with.
LEMMA SchedulerFollows ==
    ASSUME FollowInv, Begin \/ Round \/ FindStale \/ RemoveStale
    PROVE  Updates' /\ Configured' /\ Following'
<1>1. UNCHANGED <<specVars, cache, request>>
  BY DEF Begin, Round, FindStale, RemoveStale
<1>2. Updates'
  BY <1>1 DEF specVars, FollowInv, Updates
<1>3. Following'
  BY <1>1, ToldStays DEF specVars, FollowInv, Following, IsValid
<1>4. ThenEvict \in {"evict", "done"}
  BY DEF ThenEvict
<1>5. CASE Begin
  <2>1. phase = "begin" /\ config' = config /\ left' = IF epa = None THEN 0 ELSE left
    BY <1>5 DEF Begin
  <2>2. ~Told(ConfiguredAgg)' => lag + left' <= Interval
    BY <1>1, <2>1, ToldStays DEF specVars, FollowInv, Configured, ConfiguredAgg, Told
  <2>3. CASE epa # None /\ left = 0
    <3>1. phase' = "round" /\ seen' = epa /\ epa \in Agg
      BY <1>5, <2>3 DEF Begin, FollowInv, TypeOK
    <3>2. written => config' = update
      BY <2>1 DEF FollowInv, Configured
    <3> QED BY <1>1, <1>2, <1>3, <2>2, <3>1, <3>2 DEF specVars, Configured, RoundDue, Told
  <2>4. CASE ~(epa # None /\ left = 0)
    <3>1. phase' \in {"evict", "done"}
      BY <1>4, <1>5, <2>4 DEF Begin
    <3>2. RoundDue' => (written => config = update)
      BY <2>1 DEF FollowInv, Configured
    <3>3. RoundDue' => epa = None
      BY <2>1, <2>4 DEF RoundDue
    <3> QED BY <1>1, <1>2, <1>3, <2>1, <2>2, <3>1, <3>2, <3>3 DEF specVars, Configured, Told, RoundDue
  <2> QED BY <2>3, <2>4
<1>6. CASE Round
  <2>1. phase = "round" /\ left' = Interval /\ config' = seen /\ phase' \in {"evict", "done"}
    BY <1>4, <1>6 DEF Round
  <2>2. seen \in Agg /\ (Told(seen) \/ lag = 0)
    BY <2>1 DEF FollowInv, Configured
  <2>3. ConfiguredAgg' = seen
    BY <2>1, <2>2, AggAssumption DEF ConfiguredAgg
  <2>4. ~RoundDue'
    BY <2>1, Bounds DEF RoundDue
  <2>5. Configured'
    BY <1>1, <2>1, <2>2, <2>3, <2>4, ToldStays, Bounds DEF specVars, Configured
  <2> QED BY <1>2, <1>3, <2>5
<1>7. CASE FindStale \/ RemoveStale
  <2>1. UNCHANGED <<left, config, epa, lag, update, written>>
        /\ phase \in {"evict", "remove"} /\ phase' \in {"remove", "done"}
    BY <1>7 DEF FindStale, RemoveStale, specVars
  <2>2. Configured'
    BY <2>1, ToldStays DEF FollowInv, Configured, RoundDue, ConfiguredAgg
  <2> QED BY <1>2, <1>3, <2>2
<1> QED BY <1>5, <1>6, <1>7

\* A round that could not look up its pods leaves the configuration and the
\* deadline, and the time starts again.
LEMMA LookupFollows ==
    ASSUME FollowInv, LookupFails
    PROVE  Updates' /\ Configured' /\ Following'
<1>1. /\ phase = "round" /\ phase' \in {"evict", "done"} /\ lag' = 0
      /\ UNCHANGED <<epa, update, written, removing, left, config, cache, request>>
  BY DEF LookupFails, ThenEvict
<1>2. Updates'
  BY <1>1 DEF FollowInv, Updates
<1>3. Configured'
  BY <1>1, Bounds DEF FollowInv, Configured, RoundDue, TypeOK
<1>4. Following'
  BY <1>1, Bounds DEF FollowInv, Following, TypeOK, Cached
<1> QED BY <1>2, <1>3, <1>4

\* An answer has the configuration's aggregation, and the cache an answer's.
LEMMA RequestFollows ==
    ASSUME FollowInv, NEW r \in Request, Compute(r) \/ Finish(r)
    PROVE  Updates' /\ Configured' /\ Following'
<1>1. UNCHANGED <<epa, lag, update, written, removing, phase, seen, left, config>>
  BY DEF Compute, Finish, specVars, tickVars
<1>2. Updates' /\ Configured'
  BY <1>1 DEF FollowInv, Updates, Configured, RoundDue, ConfiguredAgg, Told
<1>3. CASE Compute(r)
  <2>1. PICK p \in Contributors :
          request' = [request EXCEPT ![r] = [agg |-> ConfiguredAgg, silent |-> window[p].age]]
    BY <1>3 DEF Compute
  <2>2. cache' = cache
    BY <1>3 DEF Compute
  <2>3. ~Told(ConfiguredAgg) => lag <= Interval
    BY Bounds, Ends DEF FollowInv, Configured, TypeOK
  <2>4. \A x \in Request : request'[x] # None /\ ~Told(request'[x].agg) => lag <= Interval
    BY <2>1, <2>3 DEF FollowInv, Following, TypeOK
  <2> QED BY <1>1, <1>2, <2>2, <2>4, ToldStays DEF FollowInv, Following, IsValid
<1>4. CASE Finish(r)
  <2>1. /\ request[r] # None /\ cache'.agg = request[r].agg /\ cache'.age = 0
        /\ request' = [request EXCEPT ![r] = None]
    BY <1>4 DEF Finish
  <2>2. ~Told(cache'.agg) => lag <= Interval + cache'.age
    BY <2>1, Bounds, Ends DEF FollowInv, Following, TypeOK
  <2>3. \A x \in Request : request'[x] # None /\ ~Told(request'[x].agg) => lag <= Interval
    BY <2>1 DEF FollowInv, Following, TypeOK
  <2> QED BY <1>1, <1>2, <2>2, <2>3, ToldStays DEF Following
<1> QED BY <1>3, <1>4

\* A tick ages the change no faster than it brings the round nearer, and
\* than it ages the cache.
LEMMA TickFollows ==
    ASSUME FollowInv, Tick
    PROVE  Updates' /\ Configured' /\ Following'
<1>1. /\ phase = "done" /\ phase' = "begin" /\ update = None
      /\ left' = Earlier(left) /\ lag' = Older(lag, LongAgo)
      /\ UNCHANGED <<epa, update, written, removing, seen, config, request>>
      /\ \A r \in Request : request[r] = None
  BY DEF Tick
<1>2. lag \in 0 .. LongAgo /\ left \in 0 .. Interval
  BY DEF FollowInv, TypeOK
<1>3. lag' <= lag + 1 /\ lag' \in Nat
  BY <1>1, <1>2, Ends DEF Older
<1>4. ~written
  BY <1>1, AggAssumption DEF FollowInv, Updates
<1>5. ~Told(ConfiguredAgg) => lag' + left' <= Interval
  <2>1. CASE left = 0
    BY <1>1, <1>2, <1>3, <2>1, Bounds DEF FollowInv, Configured, RoundDue, Earlier
  <2>2. CASE left # 0
    BY <1>1, <1>2, <1>3, <2>2, Bounds DEF FollowInv, Configured, Earlier
  <2> QED BY <2>1, <2>2
<1>6. Updates' /\ Configured'
  BY <1>1, <1>4, <1>5, ToldStays DEF FollowInv, Updates, Configured, RoundDue, ConfiguredAgg
<1>7. cache' # None /\ IsValid(cache') /\ ~Told(cache'.agg) => lag' <= Interval + cache'.age
  <2> SUFFICES ASSUME cache # None, IsValid(cache'), ~Told(cache'.agg)
               PROVE  lag' <= Interval + cache'.age
    BY DEF Tick
  <2>1. cache \in Cached /\ cache' = [cache EXCEPT !.age = Older(@, Ttl),
                                                   !.silent = Older(@, OldAnswer)]
    BY DEF Tick, FollowInv, TypeOK
  <2>2. cache.age \in 0 .. Ttl /\ cache'.age = Older(cache.age, Ttl) /\ cache'.agg = cache.agg
    BY <2>1 DEF Cached
  <2>3. cache.age < Ttl /\ cache'.age = cache.age + 1
    BY <2>2, Bounds DEF Older, IsValid
  <2>4. lag <= Interval + cache.age
    BY <2>2, <2>3 DEF FollowInv, Following, IsValid
  <2> QED BY <1>2, <1>3, <2>2, <2>3, <2>4, Bounds
<1>8. Following'
  BY <1>1, <1>7, ToldStays DEF Following
<1> QED BY <1>6, <1>8

\* FollowInv is inductive.
LEMMA FollowStep == FollowInv /\ [Next]_vars => Updates' /\ Configured' /\ Following'
<1> SUFFICES ASSUME FollowInv, [Next]_vars PROVE Updates' /\ Configured' /\ Following'
  OBVIOUS
<1>1. CASE UNCHANGED vars
  BY <1>1, FollowStays DEF vars, tickVars
<1>2. ASSUME NEW s \in Scrape, NEW p \in Pod, Respond(s, p)
      PROVE  Updates' /\ Configured' /\ Following'
  BY <1>2, FollowStays DEF Respond, tickVars
<1>3. ASSUME NEW s \in Scrape, Push(s) \/ Fail(s)
      PROVE  Updates' /\ Configured' /\ Following'
  BY <1>3, FollowStays DEF Push, Fail, tickVars
<1>4. ASSUME NEW p \in Pod, NoResponse(p) \/ Count(p) \/ Restart(p)
      PROVE  Updates' /\ Configured' /\ Following'
  BY <1>4, FollowStays DEF NoResponse, Count, Restart, Change, tickVars
<1>5. CASE CleanUp
  BY <1>5 DEF CleanUp, tickVars, specVars, FollowInv, Updates, Configured, Following,
              RoundDue, ConfiguredAgg, Told
<1> QED
  BY <1>1, <1>2, <1>3, <1>4, <1>5, UpdateFollows, RegisterFollows, SchedulerFollows,
     LookupFollows, RequestFollows, TickFollows DEF Next, Step

\* An answer has the aggregation the registered spec asks for, or is given
\* within a round and the life of a cached result after the change, or after the
\* last round that could not look up its pods: however many requests are under
\* way, however often lookups fail, and wherever the scheduler was.
THEOREM FollowsSpec == Spec => []AnswersFollowSpec
<1>1. Init => Updates /\ Configured /\ Following
  <2> SUFFICES ASSUME Init PROVE Updates /\ Configured /\ Following
    OBVIOUS
  <2>1. epa \in Agg /\ config = epa
    BY AggAssumption DEF Init
  <2>2. Told(ConfiguredAgg)
    BY <2>1, AggAssumption DEF Told, ConfiguredAgg
  <2> QED BY <2>2 DEF Init, Updates, Configured, Following, RoundDue
<1>2. FollowInv => AnswersFollowSpec
  <2> SUFFICES ASSUME FollowInv, NEW a \in Answers
               PROVE  Told(a.agg) \/ lag < Interval + Ttl
    BY DEF AnswersFollowSpec, Told
  <2>1. CASE \E r \in Request : request[r] # None /\ a = request[r]
    BY <2>1, Bounds, Ends DEF FollowInv, Following, TypeOK
  <2>2. CASE cache # None /\ IsValid(cache) /\ a = cache
    BY <2>2, Bounds, Ends DEF FollowInv, Following, IsValid, TypeOK, Cached
  <2> QED BY <2>1, <2>2 DEF Answers
<1> QED BY <1>1, <1>2, FollowStep, TypeCorrect, PTL DEF Spec, FollowInv

-----------------------------------------------------------------------------
(* What folds give: the sum of values, and the greatest and the least.     *)

\* Induction over the natural numbers, said of a set.
LEMMA Induction ==
    ASSUME NEW S \in SUBSET Nat, 0 \in S, \A n \in S : n + 1 \in S
    PROVE  S = Nat
<1> DEFINE R == OpToRel(<, Nat)
           T == Nat \ S
<1>1. IsWellFoundedOn(R, Nat)
  BY NatLessThanWellFounded
<1>2. \A x, y \in Nat : y < x => <<y, x>> \in R
  BY DEF OpToRel
<1> HIDE DEF R
<1> SUFFICES ASSUME T # {} PROVE FALSE
  OBVIOUS
<1>3. PICK n \in T : \A m \in T : <<m, n>> \notin R
  BY <1>1, WFMin
<1>4. n - 1 \in Nat /\ n - 1 < n
  OBVIOUS
<1>5. n - 1 \in S
  BY <1>2, <1>3, <1>4
<1> QED BY <1>3, <1>5, <1>4

\* The operators sequences of values are folded with.
Joined(joiner, a, b) ==
    IF joiner = "sum" THEN a + b ELSE IF joiner = "max" THEN Larger(a, b) ELSE Smaller(a, b)

\* f joins the elements of t, in the order in which a fold of a sequence takes them.
Joins(joiner, base, f, t, k) ==
    f = [s \in SUBSET (1 .. k) |->
           IF s = {} THEN base ELSE Joined(joiner, f[s \ {Max(s)}], t[Max(s)])]

\* The fold takes the last element of a prefix first.
LEMMA MaxIs ==
    ASSUME NEW k \in Nat, NEW s \in SUBSET (1 .. k + 1), k + 1 \in s
    PROVE  Max(s) = k + 1
<1>1. k + 1 \in s /\ \A y \in s : k + 1 >= y
  OBVIOUS
<1>2. Max(s) \in s /\ \A y \in s : Max(s) >= y
  BY <1>1 DEF Max
<1>3. \A m \in s : m >= k + 1 /\ k + 1 >= m => m = k + 1
  OBVIOUS
<1> QED BY <1>1, <1>2, <1>3

\* The function a fold is defined by exists.
LEMMA JoinsExists ==
    ASSUME NEW n \in Nat, NEW t, NEW joiner, NEW base
    PROVE  \E f : Joins(joiner, base, f, t, n)
<1> DEFINE S == {k \in Nat : \E f : Joins(joiner, base, f, t, k)}
<1>1. 0 \in S
  <2> DEFINE f == [s \in SUBSET (1 .. 0) |-> base]
  <2>1. Joins(joiner, base, f, t, 0)
    BY DEF Joins
  <2> QED BY <2>1
<1>2. ASSUME NEW k \in S PROVE k + 1 \in S
  <2>1. k \in Nat
    OBVIOUS
  <2>2. PICK f : Joins(joiner, base, f, t, k)
    OBVIOUS
  <2> DEFINE g == [s \in SUBSET (1 .. k + 1) |->
                     IF k + 1 \in s THEN Joined(joiner, f[s \ {k + 1}], t[k + 1])
                     ELSE f[s]]
  <2>3. ASSUME NEW s \in SUBSET (1 .. k + 1)
        PROVE  g[s] = IF s = {} THEN base ELSE Joined(joiner, g[s \ {Max(s)}], t[Max(s)])
    <3>1. CASE k + 1 \in s
      <4>1. Max(s) = k + 1
        BY <2>1, <3>1, MaxIs
      <4>2. s \ {k + 1} \in SUBSET (1 .. k + 1) /\ k + 1 \notin s \ {k + 1}
        OBVIOUS
      <4>3. g[s \ {k + 1}] = f[s \ {k + 1}]
        BY <4>2
      <4> QED BY <3>1, <4>1, <4>3
    <3>2. CASE k + 1 \notin s
      <4>1. s \in SUBSET (1 .. k)
        BY <2>1, <3>2
      <4>2. f[s] = IF s = {} THEN base ELSE Joined(joiner, f[s \ {Max(s)}], t[Max(s)])
        BY <2>2, <4>1 DEF Joins
      <4>3. g[s \ {Max(s)}] = f[s \ {Max(s)}]
        BY <3>2
      <4> QED BY <3>2, <4>2, <4>3
    <3> QED BY <3>1, <3>2
  <2> HIDE DEF g
  <2>4. DOMAIN g = SUBSET (1 .. k + 1) /\ g = [s \in SUBSET (1 .. k + 1) |-> g[s]]
    BY DEF g
  <2>5. Joins(joiner, base, g, t, k + 1)
    BY <2>3, <2>4 DEF Joins
  <2> QED BY <2>1, <2>5
<1>3. S = Nat
  <2> HIDE DEF S
  <2>1. S \in SUBSET Nat
    BY DEF S
  <2> QED BY <1>1, <1>2, <2>1, Induction
<1> QED BY <1>3

\* A fold is what it gives for the whole sequence.
LEMMA FoldJoins ==
    ASSUME NEW n \in Nat, NEW t, DOMAIN t = 1 .. n
    PROVE  /\ \E f : Joins("sum", 0, f, t, n) /\ Total(t) = f[1 .. n]
           /\ \E f : Joins("max", t[1], f, t, n) /\ Greatest(t) = f[1 .. n]
           /\ \E f : Joins("min", t[1], f, t, n) /\ Least(t) = f[1 .. n]
<1>1. \E f : Joins("sum", 0, f, t, n) /\ Total(t) = f[1 .. n]
  <2> DEFINE f == CHOOSE f : Joins("sum", 0, f, t, n)
  <2>1. Joins("sum", 0, f, t, n)
    BY JoinsExists
  <2>2. Total(t) = f[1 .. n]
    BY DEF Total, FoldLeft, MapThenFoldSet, Joins, Joined
  <2> QED BY <2>1, <2>2
<1>2. \E f : Joins("max", t[1], f, t, n) /\ Greatest(t) = f[1 .. n]
  <2> DEFINE f == CHOOSE f : Joins("max", t[1], f, t, n)
  <2>1. Joins("max", t[1], f, t, n)
    BY JoinsExists
  <2>2. Greatest(t) = f[1 .. n]
    BY DEF Greatest, FoldLeft, MapThenFoldSet, Joins, Joined
  <2> QED BY <2>1, <2>2
<1>3. \E f : Joins("min", t[1], f, t, n) /\ Least(t) = f[1 .. n]
  <2> DEFINE f == CHOOSE f : Joins("min", t[1], f, t, n)
  <2>1. Joins("min", t[1], f, t, n)
    BY JoinsExists
  <2>2. Least(t) = f[1 .. n]
    BY DEF Least, FoldLeft, MapThenFoldSet, Joins, Joined
  <2> QED BY <2>1, <2>2
<1> QED BY <1>1, <1>2, <1>3

\* The prefix one longer, and what the fold makes of it.
LEMMA Prefix ==
    ASSUME NEW n \in Nat, NEW k \in Nat, k + 1 <= n
    PROVE  /\ 1 .. k + 1 \in SUBSET (1 .. n) /\ 1 .. k + 1 # {}
           /\ Max(1 .. k + 1) = k + 1
           /\ (1 .. k + 1) \ {k + 1} = 1 .. k
<1>1. \A i \in 1 .. k + 1 : i \in 1 .. n /\ (i = k + 1 \/ i \in 1 .. k)
  OBVIOUS
<1>2. k + 1 \in 1 .. k + 1 /\ k + 1 \notin 1 .. k /\ \A i \in 1 .. k : i \in 1 .. k + 1
  OBVIOUS
<1>3. Max(1 .. k + 1) = k + 1
  BY <1>2, MaxIs
<1> QED BY <1>1, <1>2, <1>3

\* A sum is no more than the way u goes, if no summand is more than u's step.
LEMMA TotalBound ==
    ASSUME NEW n \in Nat, NEW t, DOMAIN t = 1 .. n, \A i \in 1 .. n : t[i] \in Nat,
           NEW u \in [1 .. n + 1 -> Int],
           \A i \in 1 .. n : t[i] + u[i] <= u[i + 1]
    PROVE  Total(t) \in Nat /\ Total(t) + u[1] <= u[n + 1]
<1>1. PICK f : Joins("sum", 0, f, t, n) /\ Total(t) = f[1 .. n]
  BY FoldJoins
<1> DEFINE Bounded(k) == f[1 .. k] \in Nat /\ f[1 .. k] + u[1] <= u[k + 1]
<1>2. Bounded(0)
  <2>1. 1 .. 0 = {} /\ {} \in SUBSET (1 .. n)
    OBVIOUS
  <2>2. f[1 .. 0] = 0
    BY <1>1, <2>1 DEF Joins
  <2>3. u[1] \in Int
    OBVIOUS
  <2> QED BY <2>2, <2>3
<1>3. ASSUME NEW k \in Nat, k + 1 <= n, Bounded(k) PROVE Bounded(k + 1)
  <2>1. f[1 .. k + 1] = f[1 .. k] + t[k + 1]
    <3>1. \A s \in SUBSET (1 .. n) : s # {} => f[s] = f[s \ {Max(s)}] + t[Max(s)]
      BY <1>1 DEF Joins, Joined
    <3>2. PICK s : s = 1 .. k + 1
      OBVIOUS
    <3>3. s \in SUBSET (1 .. n) /\ s # {} /\ Max(s) = k + 1 /\ s \ {k + 1} = 1 .. k
      BY <1>3, <3>2, Prefix, Zenon
    <3>4. f[s] = f[s \ {Max(s)}] + t[Max(s)]
      BY <3>1, <3>3
    <3> QED BY <3>2, <3>3, <3>4, Zenon
  <2>2. k + 1 \in 1 .. n /\ 1 \in 1 .. n + 1 /\ k + 1 \in 1 .. n + 1
        /\ (k + 1) + 1 \in 1 .. n + 1
    BY <1>3
  <2>3. /\ t[k + 1] \in Nat /\ t[k + 1] + u[k + 1] <= u[(k + 1) + 1]
        /\ u[1] \in Int /\ u[k + 1] \in Int /\ u[(k + 1) + 1] \in Int
    BY <2>2
  <2>4. f[1 .. k] \in Nat /\ f[1 .. k] + u[1] <= u[k + 1]
    BY <1>3
  <2>5. f[1 .. k + 1] \in Nat
    <3>1. PICK a \in Nat, b \in Nat : a = f[1 .. k] /\ b = t[k + 1]
      BY <2>3, <2>4
    <3>2. a + b \in Nat
      OBVIOUS
    <3> HIDE DEF Bounded
    <3> QED BY <2>1, <3>1, <3>2, Zenon
  <2>6. f[1 .. k + 1] + u[1] <= u[(k + 1) + 1]
    BY SMTT(30), <2>1, <2>3, <2>4
  <2> QED BY <2>5, <2>6
<1> HIDE DEF Bounded
<1> DEFINE S == {k \in Nat : k <= n => Bounded(k)}
<1>4. S \in SUBSET Nat /\ 0 \in S /\ \A k \in S : k + 1 \in S
  BY <1>2, <1>3
<1>5. n \in S
  BY <1>4, Induction
<1>6. Bounded(n)
  BY <1>5
<1> QED BY <1>1, <1>6 DEF Bounded

-----------------------------------------------------------------------------
(* What a rate shows.                                                      *)

\* What a pair of samples adds to an increase, the counter counted between them.
Follows(x, y) == Gain(x.value, y.value) + x.total <= y.total

\* The scrapes of a pod that have a response.
InFlight(p) == {s \in Scrape : scrape[s] # None /\ scrape[s].pod = p}

\* The counter follows what was read of it, and scrapes under way know of each other.
FlightFollows(p) ==
    \A s \in InFlight(p) :
        /\ Follows(scrape[s].sample, counter[p])
        /\ \A t \in InFlight(p) \ {s} : scrape[s].sample.overlapped

\* The counter follows each sample, and one that did not overlap, under way or
\* written, follows the one before it.
WindowFollows(p) ==
    LET w == window[p].samples IN
    /\ \A i \in 1 .. Len(w) : Follows(w[i], counter[p])
    /\ \A s \in InFlight(p) :
          ~scrape[s].sample.overlapped => Follows(w[Len(w)], scrape[s].sample)
    /\ \A i \in 1 .. Len(w) - 1 : ~w[i + 1].overlapped => Follows(w[i], w[i + 1])

SamplesFollow ==
    /\ \A p \in Pod : FlightFollows(p)
    /\ \A p \in Listed : WindowFollows(p)

\* A counter that counts or starts again follows what it followed.
LEMMA FollowsOn ==
    ASSUME NEW x \in Sample, NEW p \in Pod, TypeOK, Follows(x, counter[p]),
           Count(p) \/ Restart(p)
    PROVE  Follows(x, counter'[p])
<1>1. /\ x.value \in Nat /\ x.total \in Nat
      /\ counter[p].value \in Nat /\ counter[p].total \in Nat
  BY Bounds DEF TypeOK, Sample
<1>2. CASE Count(p)
  <2>1. counter'[p].value = counter[p].value + 1 /\ counter'[p].total = counter[p].total + 1
    BY <1>2 DEF Count, TypeOK
  <2> QED BY <1>1, <2>1 DEF Follows, Gain
<1>3. CASE Restart(p)
  <2>1. counter'[p].value = 0 /\ counter'[p].total = counter[p].total
    BY <1>3 DEF Restart, TypeOK
  <2> QED BY <1>1, <2>1 DEF Follows, Gain
<1> QED BY <1>2, <1>3

\* The samples in windows and under way are samples.
LEMMA SampleTypes ==
    ASSUME TypeOK
    PROVE  /\ \A s \in Scrape : scrape[s] # None => scrape[s] \in Response
           /\ \A p \in Pod : \A s \in InFlight(p) : scrape[s].sample \in Sample
           /\ \A p \in Listed : /\ p \in Pod
                                /\ window[p].samples \in Seq(Sample)
                                /\ Len(window[p].samples) \in Nat \ {0}
<1>1. \A s \in Scrape : scrape[s] # None => scrape[s] \in Response
  BY DEF TypeOK
<1>2. \A p \in Listed : window[p] \in Window /\ p \in Pod
  BY DEF TypeOK, Listed
<1>3. \A p \in Listed : Len(window[p].samples) \in 1 .. MaxSamples
  BY DEF TypeOK
<1> QED BY <1>1, <1>2, <1>3, Bounds DEF InFlight, Response, Window

\* While the counters and the scrapes stay, windows may go.
LEMMA FewerFollow ==
    ASSUME SamplesFollow, UNCHANGED <<counter, scrape>>,
           \A p \in Listed' : p \in Listed /\ window'[p].samples = window[p].samples
    PROVE  SamplesFollow'
<1>1. \A p \in Pod : FlightFollows(p)'
  BY DEF SamplesFollow, FlightFollows, InFlight
<1>2. ASSUME NEW p \in Listed' PROVE WindowFollows(p)'
  <2>1. WindowFollows(p) /\ window'[p].samples = window[p].samples
    BY <1>2 DEF SamplesFollow
  <2> QED BY <2>1 DEF WindowFollows, InFlight
<1> QED BY <1>1, <1>2 DEF SamplesFollow

\* What pods do.
LEMMA CounterFollows ==
    ASSUME TypeOK, SamplesFollow, NEW c \in Pod, Count(c) \/ Restart(c)
    PROVE  SamplesFollow'
<1>1. UNCHANGED <<scrape, window>> /\ \A p \in Pod \ {c} : counter'[p] = counter[p]
  BY DEF Count, Restart, Change, TypeOK
<1>2. ASSUME NEW p \in Pod, NEW x \in Sample, Follows(x, counter[p])
      PROVE  Follows(x, counter'[p])
  BY <1>1, <1>2, FollowsOn
<1>3. ASSUME NEW p \in Pod PROVE FlightFollows(p)'
  <2>1. FlightFollows(p)
    BY DEF SamplesFollow
  <2> QED BY <1>1, <1>2, <2>1, SampleTypes DEF FlightFollows, InFlight
<1>4. ASSUME NEW p \in Listed PROVE WindowFollows(p)'
  <2>1. WindowFollows(p)
    BY DEF SamplesFollow
  <2>2. \A i \in 1 .. Len(window[p].samples) : window[p].samples[i] \in Sample
    BY SampleTypes
  <2> QED BY <1>1, <1>2, <2>1, <2>2, SampleTypes DEF WindowFollows, InFlight
<1> QED BY <1>1, <1>3, <1>4 DEF SamplesFollow, Listed

\* A response shows the counter as it is.
LEMMA RespondFollows ==
    ASSUME TypeOK, SamplesFollow, NEW s \in Scrape, NEW c \in Pod, Respond(s, c)
    PROVE  SamplesFollow'
<1> DEFINE others == InFlight(c)
<1>1. UNCHANGED <<counter, window>>
  BY DEF Respond
<1>2. /\ scrape'[s] = [pod |-> c, sample |-> [value |-> counter[c].value,
                         total |-> counter[c].total, overlapped |-> others # {}]]
      /\ \A t \in others : scrape'[t] = [pod |-> c, sample |->
                              [value |-> scrape[t].sample.value,
                               total |-> scrape[t].sample.total, overlapped |-> TRUE]]
      /\ \A t \in {s} \cup others : scrape'[t] # None
      /\ \A t \in Scrape \ ({s} \cup others) : scrape'[t] = scrape[t]
      /\ s \notin others
  BY Responding DEF InFlight
<1>3. scrape'[s] # None
  BY <1>2
<1>4. ASSUME NEW t \in others
      PROVE  /\ scrape'[t] # None /\ scrape'[t].pod = c
             /\ scrape'[t].sample.overlapped
             /\ scrape'[t].sample.value = scrape[t].sample.value
             /\ scrape'[t].sample.total = scrape[t].sample.total
  <2>1. scrape'[t] # None
    BY <1>2
  <2>2. scrape'[t] = [pod |-> c, sample |->
                         [value |-> scrape[t].sample.value,
                          total |-> scrape[t].sample.total, overlapped |-> TRUE]]
    BY <1>2
  <2> QED BY <2>1, <2>2
<1>5. scrape'[s].pod = c /\ scrape'[s].sample.value = counter[c].value
      /\ scrape'[s].sample.total = counter[c].total
      /\ scrape'[s].sample.overlapped = (others # {})
  BY <1>2
<1>6. InFlight(c)' = others \cup {s}
  BY <1>2, <1>3, <1>4, <1>5 DEF InFlight
<1>7. ASSUME NEW p \in Pod \ {c}
      PROVE  InFlight(p)' = InFlight(p) /\ \A t \in InFlight(p) : scrape'[t] = scrape[t]
  <2>1. ASSUME NEW t \in Scrape, t \notin {s} \cup others
        PROVE  scrape'[t] = scrape[t]
    BY <1>2, <2>1
  <2>2. \A t \in InFlight(p) : t \in Scrape /\ t \notin others /\ t # s
    BY DEF InFlight, Respond
  <2>3. \A t \in InFlight(p)' : t \in Scrape /\ t \notin others /\ t # s
    BY <1>4, <1>5 DEF InFlight
  <2> QED BY <2>1, <2>2, <2>3 DEF InFlight
<1>8. counter[c].value \in Nat /\ counter[c].total \in Nat
  BY Bounds DEF TypeOK
<1>9. ASSUME NEW p \in Pod PROVE FlightFollows(p)'
  <2>1. FlightFollows(p)
    BY DEF SamplesFollow
  <2>2. CASE p # c
    <3>1. InFlight(p)' = InFlight(p) /\ \A t \in InFlight(p) : scrape'[t] = scrape[t]
      BY <1>7, <2>2
    <3> QED BY <1>1, <2>1, <3>1 DEF FlightFollows
  <2>3. CASE p = c
    <3>1. Follows(scrape'[s].sample, counter[c])
      BY <1>5, <1>8 DEF Follows, Gain
    <3>2. \A t \in others : Follows(scrape'[t].sample, counter[c])
      BY <1>4, <2>1, <2>3 DEF Follows, FlightFollows
    <3>3. ASSUME NEW t \in others \cup {s}, NEW u \in (others \cup {s}) \ {t}
          PROVE  scrape'[t].sample.overlapped
      BY <1>4, <1>5
    <3> QED BY <1>1, <1>6, <2>3, <3>1, <3>2, <3>3 DEF FlightFollows
  <2> QED BY <2>2, <2>3
<1>10. ASSUME NEW p \in Listed PROVE WindowFollows(p)'
  <2>1. WindowFollows(p) /\ p \in Pod /\ Len(window[p].samples) \in Nat \ {0}
    BY SampleTypes DEF SamplesFollow
  <2>2. CASE p # c
    <3>1. InFlight(p)' = InFlight(p) /\ \A t \in InFlight(p) : scrape'[t] = scrape[t]
      BY <1>7, <2>1, <2>2
    <3> QED BY <1>1, <2>1, <3>1 DEF WindowFollows
  <2>3. CASE p = c
    <3> DEFINE w == window[p].samples
    <3>1. Follows(w[Len(w)], counter[c])
      BY <2>1, <2>3 DEF WindowFollows
    <3>2. Follows(w[Len(w)], scrape'[s].sample)
      BY <1>5, <3>1 DEF Follows
    <3>3. \A t \in InFlight(c)' :
            ~scrape'[t].sample.overlapped => Follows(w[Len(w)], scrape'[t].sample)
      BY <1>4, <1>6, <3>2
    <3> QED BY <1>1, <2>1, <2>3, <3>3 DEF WindowFollows
  <2> QED BY <2>2, <2>3
<1> QED BY <1>1, <1>9, <1>10 DEF SamplesFollow, Listed

\* A push appends what follows, to a window that may have lost its oldest.
LEMMA PushFollows ==
    ASSUME TypeOK, SamplesFollow, NEW s \in Scrape, Push(s)
    PROVE  SamplesFollow'
<1> DEFINE c    == scrape[s].pod
           x    == scrape[s].sample
           kept == IF window[c] = None THEN <<>> ELSE Room(window[c].samples)
           m    == Len(kept)
           new  == Append(kept, x)
<1>1. /\ c \in Pod /\ x \in Sample /\ s \in InFlight(c) /\ kept \in Seq(Sample) /\ m \in Nat
      /\ window'[c].samples = new
      /\ \A q \in Pod \ {c} : window'[q] = window[q]
      /\ Listed' = Listed \cup {c}
  <2>1. c \in Pod /\ x \in Sample /\ s \in InFlight(c)
    BY Pushing DEF Push, InFlight, Response
  <2>2. /\ window'[c] = [samples |-> new, age |-> 0] /\ kept \in Seq(Sample)
        /\ \A q \in Pod \ {c} : window'[q] = window[q]
        /\ Listed' = Listed \cup {c}
    BY Pushing
  <2> HIDE DEF new, kept
  <2> QED BY <2>1, <2>2
<1>2. counter' = counter /\ scrape' = [scrape EXCEPT ![s] = None]
  BY DEF Push
<1>3. \A p \in Pod : /\ InFlight(p)' = InFlight(p) \ {s}
                     /\ \A t \in InFlight(p)' : scrape'[t] = scrape[t]
  BY <1>2 DEF InFlight, TypeOK
<1>4. ASSUME NEW p \in Pod PROVE FlightFollows(p)'
  BY <1>2, <1>3 DEF SamplesFollow, FlightFollows
<1>5. ASSUME NEW i \in 1 .. m
      PROVE  /\ Follows(kept[i], counter[c])
             /\ i < m /\ ~kept[i + 1].overlapped => Follows(kept[i], kept[i + 1])
             /\ i = m /\ ~x.overlapped => Follows(kept[i], x)
  <2> DEFINE w == window[c].samples
  <2>1. window[c] # None
    <3> SUFFICES ASSUME window[c] = None PROVE FALSE
      OBVIOUS
    <3>1. m = 0
      <4>1. kept = << >>
        OBVIOUS
      <4> HIDE DEF kept
      <4> QED BY <4>1
    <3> HIDE DEF m
    <3>2. i \in 1 .. 0
      BY <3>1
    <3> QED BY <3>2
  <2>2. /\ w \in Seq(Sample) /\ Len(w) \in Nat \ {0} /\ WindowFollows(c)
    BY <1>1, <2>1, SampleTypes DEF Listed, SamplesFollow
  <2>3. \/ kept = w
        \/ kept = Tail(w)
    BY <2>1 DEF Room
  <2>4. PICK j \in 1 .. Len(w) :
          /\ kept[i] = w[j]
          /\ i < m => j < Len(w) /\ kept[i + 1] = w[j + 1]
          /\ i = m => j = Len(w)
    <3>1. CASE kept = w
      BY <3>1
    <3>2. CASE kept = Tail(w)
      <4> HIDE DEF kept, w
      <4>1. m = Len(w) - 1 /\ \A k \in 1 .. m : kept[k] = w[k + 1]
        BY <2>2, <3>2
      <4>2. i + 1 \in 1 .. Len(w) /\ (i < m => i + 1 \in 1 .. m)
        BY <2>2, <4>1
      <4> QED BY <2>2, <4>1, <4>2
    <3> QED BY <2>3, <3>1, <3>2
  <2> HIDE DEF kept, x, w
  <2>5. Follows(w[j], counter[c])
    BY <2>2 DEF WindowFollows, w
  <2>6. j < Len(w) /\ ~w[j + 1].overlapped => Follows(w[j], w[j + 1])
    BY <2>2 DEF WindowFollows, w
  <2>7. ~x.overlapped => Follows(w[Len(w)], x)
    BY <1>1, <2>2 DEF WindowFollows, w, x
  <2> QED BY <2>4, <2>5, <2>6, <2>7
<1>6. Follows(x, counter[c])
  BY <1>1 DEF SamplesFollow, FlightFollows
<1>7. ASSUME NEW p \in Listed' PROVE WindowFollows(p)'
  <2>1. CASE p = c
    <3> HIDE DEF kept, x, c
    <3>1. /\ Len(new) = m + 1 /\ new[m + 1] = x
          /\ \A i \in 1 .. m : new[i] = kept[i]
      BY <1>1
    <3>2. \A i \in 1 .. Len(new) : Follows(new[i], counter[c])
      <4> SUFFICES ASSUME NEW i \in 1 .. m + 1 PROVE Follows(new[i], counter[c])
        BY <3>1
      <4>1. i = m + 1 \/ i \in 1 .. m
        BY <1>1
      <4> QED BY <1>5, <1>6, <3>1, <4>1
    <3>3. \A i \in 1 .. Len(new) - 1 : ~new[i + 1].overlapped => Follows(new[i], new[i + 1])
      <4>3. Len(new) - 1 = m
        BY <1>1, <3>1
      <4> HIDE DEF new, m
      <4> SUFFICES ASSUME NEW i \in 1 .. m, ~new[i + 1].overlapped
                   PROVE  Follows(new[i], new[i + 1])
        BY <4>3
      <4>1. CASE i = m
        <5>1. new[i] = kept[i] /\ new[i + 1] = x
          BY <3>1, <4>1
        <5> QED BY <1>5, <4>1, <5>1
      <4>2. CASE i < m
        <5>1. i + 1 \in 1 .. m
          BY <1>1, <4>2
        <5> QED BY <1>5, <3>1, <4>2, <5>1
      <4> QED BY <1>1, <4>1, <4>2
    <3>4. \A t \in InFlight(p)' : scrape'[t].sample.overlapped
      <4>1. p \in Pod /\ s \in InFlight(p)
        BY <1>1, <2>1
      <4>2. \A t \in InFlight(p) \ {s} : scrape[t].sample.overlapped
        BY <4>1 DEF SamplesFollow, FlightFollows
      <4> QED BY <1>3, <4>1, <4>2
    <3>5. window'[p].samples = new /\ counter'[p] = counter[c]
      BY <1>1, <1>2, <2>1
    <3> HIDE DEF new, m
    <3> QED BY <3>2, <3>3, <3>4, <3>5 DEF WindowFollows
  <2>2. CASE p # c
    <3>1. p \in Listed /\ p \in Pod /\ window'[p] = window[p]
      BY <1>1, <2>2 DEF Listed
    <3>2. WindowFollows(p)
      BY <3>1 DEF SamplesFollow
    <3> QED BY <1>2, <1>3, <3>1, <3>2 DEF WindowFollows
  <2> QED BY <2>1, <2>2
<1> QED BY <1>4, <1>7 DEF SamplesFollow

\* SamplesFollow is inductive.
LEMMA SamplesFollowStep == TypeOK /\ SamplesFollow /\ [Next]_vars => SamplesFollow'
<1> SUFFICES ASSUME TypeOK, SamplesFollow, [Next]_vars PROVE SamplesFollow'
  OBVIOUS
<1>1. ASSUME UNCHANGED <<counter, scrape, window>> PROVE SamplesFollow'
  BY <1>1, FewerFollow DEF Listed
<1>2. ASSUME NEW pods, window' = Without(pods), UNCHANGED <<counter, scrape>>
      PROVE  SamplesFollow'
  <2>1. \A p \in Listed' : p \in Listed /\ window'[p] = window[p]
    BY <1>2, WithoutType
  <2> QED BY <1>2, <2>1, FewerFollow
<1>3. CASE \/ UNCHANGED vars
           \/ \E u \in Agg \cup {"delete"} : Reconcile(u)
           \/ WriteConfig \/ Register \/ Begin \/ LookupFails \/ FindStale
           \/ \E p \in Pod : NoResponse(p)
           \/ \E r \in Request : Compute(r) \/ Finish(r)
           \/ CleanUp
  <2>1. UNCHANGED <<counter, scrape, window>>
    BY <1>3 DEF vars, Reconcile, Change, WriteConfig, Register, Begin, LookupFails, FindStale,
                NoResponse, Compute, Finish, CleanUp
  <2> QED BY <1>1, <2>1
<1>4. CASE RemoveData \/ Round \/ RemoveStale
  <2>1. UNCHANGED <<counter, scrape>> /\ \E pods : window' = Without(pods)
    BY <1>4 DEF RemoveData, Round, RemoveStale
  <2> QED BY <1>2, <2>1
<1>5. ASSUME NEW s \in Scrape, Fail(s) PROVE SamplesFollow'
  <2>1. UNCHANGED <<counter, window>> /\ scrape' = [scrape EXCEPT ![s] = None]
    BY <1>5 DEF Fail
  <2>2. \A p \in Pod : /\ InFlight(p)' = InFlight(p) \ {s}
                       /\ \A t \in InFlight(p)' : scrape'[t] = scrape[t]
    BY <2>1 DEF InFlight, TypeOK
  <2>3. \A p \in Pod : FlightFollows(p)'
    BY <2>1, <2>2 DEF SamplesFollow, FlightFollows
  <2>4. \A p \in Listed : p \in Pod /\ WindowFollows(p)'
    BY <2>1, <2>2 DEF SamplesFollow, WindowFollows, Listed
  <2> QED BY <2>1, <2>3, <2>4 DEF SamplesFollow, Listed
<1>6. CASE Tick
  <2>1. \A p \in Listed' : p \in Listed /\ window'[p].samples = window[p].samples
    BY <1>6, Aging
  <2> QED BY <1>6, <2>1, FewerFollow DEF Tick
<1> QED
  BY <1>3, <1>4, <1>5, <1>6, RespondFollows, PushFollows, CounterFollows DEF Next, Step

\* An increase is no more than what was counted from the first sample to the last.
LEMMA IncreaseIsTrue ==
    ASSUME TypeOK, SamplesFollow, NEW p \in Listed, HasRate(window[p].samples),
           \A i \in 1 .. Len(window[p].samples) : ~window[p].samples[i].overlapped
    PROVE  LET s == window[p].samples IN
           /\ Increase(Values(window[p])) \in Nat
           /\ Increase(Values(window[p])) <= Last(s).total - Head(s).total
           /\ 0 <= Last(s).total - Head(s).total
<1> DEFINE s == window[p].samples
           v == Values(window[p])
           n == Len(s) - 1
           t == [i \in 1 .. Len(v) - 1 |-> Gain(v[i], v[i + 1])]
           u == [i \in 1 .. Len(s) |-> s[i].total]
<1>1. s \in Seq(Sample) /\ Len(s) \in Nat /\ Len(s) >= 2 /\ WindowFollows(p)
  BY SampleTypes DEF SamplesFollow, HasRate
<1>2. \A i \in 1 .. Len(s) : s[i].value \in Nat /\ s[i].total \in Nat
  <2>1. \A i \in 1 .. Len(s) : s[i] \in Sample
    BY <1>1
  <2> QED BY <2>1, Bounds DEF Sample
<1>3. n \in Nat /\ n + 1 = Len(s)
  BY <1>1
<1>4. v = [i \in 1 .. Len(s) |-> s[i].value] /\ Len(v) = Len(s)
  BY <1>1 DEF Values
<1>5. DOMAIN t = 1 .. n /\ \A i \in 1 .. n : t[i] = Gain(s[i].value, s[i + 1].value)
  <2> HIDE DEF v, s
  <2> QED BY <1>3, <1>4
<1>6. u \in [1 .. n + 1 -> Int] /\ \A i \in 1 .. n + 1 : u[i] = s[i].total
  <2> HIDE DEF s
  <2> QED BY <1>2, <1>3
<1>7. ASSUME NEW i \in 1 .. n
      PROVE  t[i] \in Nat /\ t[i] + u[i] <= u[i + 1]
  <2>1. i \in 1 .. Len(s) - 1 /\ i \in 1 .. Len(s) /\ i + 1 \in 1 .. Len(s)
    BY <1>1
  <2>2. Follows(s[i], s[i + 1])
    BY <1>1, <2>1 DEF WindowFollows
  <2> HIDE DEF s, t, u
  <2> QED BY <1>2, <1>3, <1>5, <1>6, <2>1, <2>2 DEF Follows, Gain
<1>8. Last(s) = s[n + 1] /\ Head(s) = s[1]
  BY <1>1 DEF Last
<1>9. Increase(v) = Total(t)
  BY DEF Increase
<1> HIDE DEF s, v, n, t, u
<1>10. Total(t) \in Nat /\ Total(t) + u[1] <= u[n + 1]
  BY <1>3, <1>5, <1>6, <1>7, TotalBound
<1>11. 1 \in 1 .. n + 1 /\ n + 1 \in 1 .. n + 1
  BY <1>3
<1>12. s[1].total \in Nat /\ s[n + 1].total \in Nat
       /\ u[1] = s[1].total /\ u[n + 1] = s[n + 1].total
  BY <1>2, <1>3, <1>6, <1>11
<1>13. /\ Increase(v) \in Nat
       /\ Increase(v) <= s[n + 1].total - s[1].total
       /\ 0 <= s[n + 1].total - s[1].total
  BY <1>9, <1>10, <1>12
<1> QED BY <1>8, <1>13 DEF s, v

\* The rate of a counter never shows more than it counted between the samples it is
\* drawn from, restarts, evictions and lost samples notwithstanding, unless two
\* scrapes of the pod overlapped: for windows of any length.
THEOREM TrueRate == Spec => []RateIsTrue
<1>1. Init => SamplesFollow
  BY DEF Init, SamplesFollow, FlightFollows, InFlight, Listed
<1>2. TypeOK /\ SamplesFollow => RateIsTrue
  <2> SUFFICES ASSUME TypeOK, SamplesFollow, NEW p \in Listed, NEW elapsed \in {0, Interval},
                      HasRate(window[p].samples),
                      \A i \in 1 .. Len(window[p].samples) : ~window[p].samples[i].overlapped
               PROVE  LET s    == window[p].samples
                          rate == Rate(Values(window[p]), elapsed)
                      IN  rate[1] * elapsed <= (Last(s).total - Head(s).total) * rate[2]
    BY DEF RateIsTrue
  <2> DEFINE s    == window[p].samples
             gain == Last(s).total - Head(s).total
             inc  == Increase(Values(window[p]))
             rate == Rate(Values(window[p]), elapsed)
  <2>1. inc \in Nat /\ inc <= gain /\ 0 <= gain
    BY IncreaseIsTrue
  <2>2. gain \in Int
    <3>1. /\ s \in Seq(Sample) /\ Len(s) \in Nat \ {0}
      BY SampleTypes
    <3>2. Last(s) = s[Len(s)] /\ Head(s) = s[1]
      BY <3>1 DEF Last
    <3>3. s[Len(s)] \in Sample /\ s[1] \in Sample
      BY <3>1
    <3> QED BY <3>2, <3>3, Bounds DEF Sample
  <2>3. elapsed \in Nat /\ MaxRate \in Nat
    BY Bounds DEF MaxRate
  <2>4. rate = IF elapsed = 0 THEN <<0, 1>>
               ELSE IF inc > MaxRate * elapsed THEN <<MaxRate, 1>> ELSE <<inc, elapsed>>
    BY DEF Rate, Whole
  <2> HIDE DEF gain, inc, rate, MaxRate
  <2>5. CASE elapsed = 0
    BY <2>1, <2>2, <2>4, <2>5 DEF gain, rate
  <2>6. CASE elapsed # 0 /\ inc > MaxRate * elapsed
    <3>1. rate[1] = MaxRate /\ rate[2] = 1
      BY <2>4, <2>6
    <3>2. MaxRate * elapsed \in Nat
      BY <2>3
    <3>3. MaxRate * elapsed <= gain * 1
      BY <2>1, <2>2, <2>6, <3>2
    <3> QED BY <3>1, <3>3 DEF gain, rate
  <2>7. CASE elapsed # 0 /\ ~(inc > MaxRate * elapsed)
    <3>1. rate[1] = inc /\ rate[2] = elapsed
      BY <2>4, <2>7
    <3>2. inc * elapsed <= gain * elapsed
      BY <2>1, <2>2, <2>3
    <3> QED BY <3>1, <3>2 DEF gain, rate
  <2> QED BY <2>5, <2>6, <2>7
<1> QED BY <1>1, <1>2, SamplesFollowStep, TypeCorrect, PTL DEF Spec

-----------------------------------------------------------------------------
(* What an aggregate is, of any number of values.                          *)

\* Folding with the larger, or the smaller, of two values gives one that is at an end.
LEMMA Extreme ==
    ASSUME NEW n \in Nat \ {0}, NEW s \in [1 .. n -> Int], NEW joiner \in {"max", "min"},
           NEW f, Joins(joiner, s[1], f, s, n)
    PROVE  /\ \E i \in 1 .. n : f[1 .. n] = s[i]
           /\ \A i \in 1 .. n : IF joiner = "max" THEN s[i] <= f[1 .. n] ELSE f[1 .. n] <= s[i]
<1> DEFINE AtEnd(k) ==
             /\ \E i \in 1 .. n : f[1 .. k] = s[i]
             /\ \A i \in 1 .. k : IF joiner = "max" THEN s[i] <= f[1 .. k]
                                  ELSE f[1 .. k] <= s[i]
<1>1. AtEnd(0)
  <2>1. 1 .. 0 = {} /\ {} \in SUBSET (1 .. n) /\ 1 \in 1 .. n
    OBVIOUS
  <2>2. f[1 .. 0] = s[1]
    BY <2>1 DEF Joins
  <2> QED BY <2>1, <2>2
<1>2. ASSUME NEW k \in Nat, k + 1 <= n, AtEnd(k) PROVE AtEnd(k + 1)
  <2> DEFINE a == f[1 .. k]
             b == s[k + 1]
             c == f[1 .. k + 1]
  <2>1. c = Joined(joiner, a, b)
    <3>1. \A x \in SUBSET (1 .. n) : x # {} => f[x] = Joined(joiner, f[x \ {Max(x)}], s[Max(x)])
      BY DEF Joins
    <3>2. PICK x : x = 1 .. k + 1
      OBVIOUS
    <3>3. x \in SUBSET (1 .. n) /\ x # {} /\ Max(x) = k + 1 /\ x \ {k + 1} = 1 .. k
      BY <1>2, <3>2, Prefix, Zenon
    <3>4. f[x] = Joined(joiner, f[x \ {Max(x)}], s[Max(x)])
      BY <3>1, <3>3
    <3> QED BY <3>2, <3>3, <3>4, Zenon
  <2>2. k + 1 \in 1 .. n /\ b \in Int
    BY <1>2
  <2>3. PICK i \in 1 .. n : a = s[i]
    BY <1>2
  <2>4. a \in Int
    BY <2>3
  <2>5. \A j \in 1 .. k : s[j] \in Int /\ IF joiner = "max" THEN s[j] <= a ELSE a <= s[j]
    BY <1>2
  <2> HIDE DEF a, b, c, AtEnd
  <2>6. (c = a \/ c = b) /\ IF joiner = "max" THEN a <= c /\ b <= c ELSE c <= a /\ c <= b
    BY <2>1, <2>2, <2>4 DEF Joined, Larger, Smaller
  <2>7. \E j \in 1 .. n : c = s[j]
    BY <2>2, <2>3, <2>6 DEF b
  <2>8. ASSUME NEW j \in 1 .. k + 1 PROVE IF joiner = "max" THEN s[j] <= c ELSE c <= s[j]
    <3>1. CASE j = k + 1
      BY <2>6, <3>1 DEF b
    <3>2. CASE j # k + 1
      <4>1. j \in 1 .. k
        BY <3>2
      <4>2. c \in Int
        BY <2>2, <2>4, <2>6
      <4> QED BY <2>4, <2>5, <2>6, <4>1, <4>2
    <3> QED BY <3>1, <3>2
  <2> QED BY <2>7, <2>8 DEF c, AtEnd
<1> HIDE DEF AtEnd
<1> DEFINE S == {k \in Nat : k <= n => AtEnd(k)}
<1>3. S \in SUBSET Nat /\ 0 \in S /\ \A k \in S : k + 1 \in S
  BY <1>1, <1>2
<1>4. n \in S
  BY <1>3, Induction
<1>5. AtEnd(n)
  BY <1>4
<1> QED BY <1>5 DEF AtEnd

\* The greatest of some values, and the least.
LEMMA Extremes ==
    ASSUME NEW n \in Nat \ {0}, NEW s \in [1 .. n -> Int]
    PROVE  /\ \E i \in 1 .. n : Greatest(s) = s[i]
           /\ \A i \in 1 .. n : s[i] <= Greatest(s)
           /\ \E i \in 1 .. n : Least(s) = s[i]
           /\ \A i \in 1 .. n : Least(s) <= s[i]
<1>1. PICK f : Joins("max", s[1], f, s, n) /\ Greatest(s) = f[1 .. n]
  BY FoldJoins
<1>2. PICK g : Joins("min", s[1], g, s, n) /\ Least(s) = g[1 .. n]
  BY FoldJoins
<1>3. /\ \E i \in 1 .. n : f[1 .. n] = s[i]
      /\ \A i \in 1 .. n : IF "max" = "max" THEN s[i] <= f[1 .. n] ELSE f[1 .. n] <= s[i]
  BY <1>1, Extreme
<1>4. /\ \E i \in 1 .. n : g[1 .. n] = s[i]
      /\ \A i \in 1 .. n : IF "min" = "max" THEN s[i] <= g[1 .. n] ELSE g[1 .. n] <= s[i]
  BY <1>2, Extreme
<1> QED BY <1>1, <1>2, <1>3, <1>4

\* Values can be put in order: a greatest one last, and the others in order.
LEMMA Ascends ==
    ASSUME NEW n \in Nat, NEW s \in [1 .. n -> Int]
    PROVE  \E p \in [1 .. n -> 1 .. n] : Ascending(p, s)
<1> DEFINE Orders(k) == \A t \in [1 .. k -> Int] :
                          \E p \in [1 .. k -> 1 .. k] : Ascending(p, t)
           S == {k \in Nat : Orders(k)}
<1>1. Orders(0)
  <2> SUFFICES ASSUME NEW t \in [1 .. 0 -> Int]
               PROVE  \E p \in [1 .. 0 -> 1 .. 0] : Ascending(p, t)
    OBVIOUS
  <2> DEFINE p == [i \in 1 .. 0 |-> i]
  <2>1. p \in [1 .. 0 -> 1 .. 0] /\ Ascending(p, t)
    BY DEF Ascending, IsInjective
  <2> QED BY <2>1
<1>2. ASSUME NEW k \in Nat, Orders(k) PROVE Orders(k + 1)
  <2> SUFFICES ASSUME NEW t \in [1 .. k + 1 -> Int]
               PROVE  \E p \in [1 .. k + 1 -> 1 .. k + 1] : Ascending(p, t)
    OBVIOUS
  <2>1. k + 1 \in Nat \ {0}
    OBVIOUS
  <2>2. PICK m \in 1 .. k + 1 : \A i \in 1 .. k + 1 : t[i] <= t[m]
    <3>1. PICK m \in 1 .. k + 1 : Greatest(t) = t[m]
      BY <2>1, Extremes
    <3>2. \A i \in 1 .. k + 1 : t[i] <= Greatest(t)
      BY <2>1, Extremes
    <3> QED BY <3>1, <3>2
  <2> DEFINE u == [i \in 1 .. k |-> IF i = m THEN k + 1 ELSE i]
             w == [i \in 1 .. k |-> t[u[i]]]
  <2>3. /\ u \in [1 .. k -> 1 .. k + 1]
        /\ \A i \in 1 .. k : u[i] # m
        /\ \A i, j \in 1 .. k : u[i] = u[j] => i = j
    BY <2>1
  <2>4. w \in [1 .. k -> Int]
    BY <2>3
  <2>5. PICK q \in [1 .. k -> 1 .. k] : Ascending(q, w)
    BY <1>2, <2>4
  <2> DEFINE p == [i \in 1 .. k + 1 |-> IF i = k + 1 THEN m ELSE u[q[i]]]
  <2>6. \A i \in 1 .. k + 1 : i = k + 1 \/ i \in 1 .. k
    BY <2>1
  <2>7. \A i \in 1 .. k : q[i] \in 1 .. k /\ i \in 1 .. k + 1 /\ i # k + 1
    BY <2>1
  <2>8. k + 1 \in 1 .. k + 1 /\ p[k + 1] = m
    BY <2>1
  <2>9. \A i \in 1 .. k : p[i] = u[q[i]] /\ w[q[i]] = t[p[i]]
    BY <2>7
  <2> HIDE DEF u, w, p
  <2>10. p \in [1 .. k + 1 -> 1 .. k + 1]
    BY <2>3, <2>6, <2>7 DEF p
  <2>11. ASSUME NEW i \in 1 .. k + 1, NEW j \in 1 .. k + 1, p[i] = p[j] PROVE i = j
    <3>1. CASE i \in 1 .. k /\ j \in 1 .. k
      <4>1. u[q[i]] = u[q[j]] /\ q[i] \in 1 .. k /\ q[j] \in 1 .. k
        BY <2>7, <2>9, <2>11, <3>1
      <4>2. q[i] = q[j]
        BY <2>3, <4>1
      <4> QED BY <2>5, <3>1, <4>2 DEF Ascending, IsInjective
    <3>2. CASE i = k + 1 /\ j \in 1 .. k
      <4>1. p[i] = m /\ p[j] = u[q[j]] /\ q[j] \in 1 .. k
        BY <2>7, <2>8, <2>9, <3>2
      <4> QED BY <2>3, <2>11, <4>1
    <3>3. CASE j = k + 1 /\ i \in 1 .. k
      <4>1. p[j] = m /\ p[i] = u[q[i]] /\ q[i] \in 1 .. k
        BY <2>7, <2>8, <2>9, <3>3
      <4> QED BY <2>3, <2>11, <4>1
    <3> QED BY <2>6, <3>1, <3>2, <3>3
  <2>12. ASSUME NEW i \in 1 .. k + 1, NEW j \in 1 .. k + 1, i <= j PROVE t[p[i]] <= t[p[j]]
    <3>1. CASE j = k + 1
      BY <2>2, <2>8, <2>10, <3>1
    <3>2. CASE j \in 1 .. k
      <4>1. i \in 1 .. k
        BY <2>1, <2>12, <3>2
      <4>2. w[q[i]] <= w[q[j]]
        BY <2>4, <2>5, <2>12, <3>2, <4>1 DEF Ascending
      <4> QED BY <2>9, <3>2, <4>1, <4>2
    <3> QED BY <2>6, <3>1, <3>2
  <2>13. Ascending(p, t)
    BY <2>10, <2>11, <2>12 DEF Ascending, IsInjective
  <2> QED BY <2>10, <2>13
<1> HIDE DEF Orders
<1>3. S \in SUBSET Nat /\ 0 \in S /\ \A k \in S : k + 1 \in S
  BY <1>1, <1>2
<1>4. n \in S
  BY <1>3, Induction
<1>5. Orders(n)
  BY <1>4
<1> QED BY <1>5 DEF Orders

\* Sorting rearranges, and the result ascends.
LEMMA Sorts ==
    ASSUME NEW n \in Nat, NEW s \in [1 .. n -> Int]
    PROVE  \E p \in [1 .. n -> 1 .. n] :
             /\ Sorted(s) = [i \in 1 .. n |-> s[p[i]]]
             /\ IsInjective(p)
             /\ \A i, j \in 1 .. n : i <= j => s[p[i]] <= s[p[j]]
<1> DEFINE p == CHOOSE p \in [DOMAIN s -> DOMAIN s] : Ascending(p, s)
<1>1. DOMAIN s = 1 .. n
  OBVIOUS
<1>2. p \in [1 .. n -> 1 .. n] /\ Ascending(p, s)
  BY <1>1, Ascends
<1>3. Sorted(s) = [i \in 1 .. n |-> s[p[i]]]
  BY <1>1 DEF Sorted
<1> HIDE DEF p
<1> QED BY <1>1, <1>2, <1>3 DEF Ascending

\* The places p puts those from a to b.
Moved(p, a, b) == {p[i] : i \in a .. b}

\* A rearrangement reaches every place, and as many as it starts from.
LEMMA Places ==
    ASSUME NEW n \in Nat, NEW p \in [1 .. n -> 1 .. n], IsInjective(p)
    PROVE  /\ \A k \in 1 .. n : \E i \in 1 .. n : p[i] = k
           /\ \A a \in 1 .. n + 1, b \in 0 .. n : a <= b + 1 =>
                 IsFiniteSet(Moved(p, a, b)) /\ Cardinality(Moved(p, a, b)) = b - a + 1
<1>1. IsFiniteSet(1 .. n)
  BY FS_Interval
<1>2. p \in Injection(1 .. n, 1 .. n)
  BY DEF Injection
<1>3. p \in Surjection(1 .. n, 1 .. n)
  BY <1>1, <1>2, FS_Injection
<1>4. \A k \in 1 .. n : \E i \in 1 .. n : p[i] = k
  BY <1>3 DEF Surjection
<1>5. ASSUME NEW a \in 1 .. n + 1, NEW b \in 0 .. n, a <= b + 1
      PROVE  IsFiniteSet(Moved(p, a, b)) /\ Cardinality(Moved(p, a, b)) = b - a + 1
  <2> DEFINE g == [i \in a .. b |-> p[i]]
             T == Moved(p, a, b)
  <2>1. a .. b \subseteq 1 .. n
    OBVIOUS
  <2>2. g \in [a .. b -> T] /\ \A i, j \in a .. b : g[i] = g[j] => i = j
    BY <2>1 DEF Moved, IsInjective
  <2>3. \A k \in T : \E i \in a .. b : g[i] = k
    BY DEF Moved
  <2> HIDE DEF g, T
  <2>4. g \in Bijection(a .. b, T)
    BY <2>2, <2>3 DEF Bijection, Injection, Surjection, IsInjective
  <2>5. ExistsBijection(a .. b, T)
    BY <2>4 DEF ExistsBijection
  <2>6. IsFiniteSet(a .. b) /\ Cardinality(a .. b) = b - a + 1
    <3>1. IsFiniteSet(a .. b) /\ Cardinality(a .. b) = IF a > b THEN 0 ELSE b - a + 1
      BY FS_Interval
    <3> QED BY <1>5, <3>1
  <2> QED BY <2>5, <2>6, FS_Bijection DEF T
<1> QED BY <1>4, <1>5

\* How many values lie on either side of one, told from its place in the order.
LEMMA Counts ==
    ASSUME NEW n \in Nat, NEW s \in [1 .. n -> Int], Len(s) = n, NEW p \in [1 .. n -> 1 .. n],
           IsInjective(p), \A i, j \in 1 .. n : i <= j => s[p[i]] <= s[p[j]],
           NEW j \in 1 .. n, NEW x \in Int
    PROVE  /\ Cardinality(Under(s, x)) \in Nat /\ Cardinality(Over(s, x)) \in Nat
           /\ x <= s[p[j]] => Cardinality(Under(s, x)) <= j - 1
           /\ x >= s[p[j]] => Cardinality(Over(s, x)) <= n - j
           /\ x < s[p[j]] => Cardinality(Over(s, x)) >= n - j + 1
           /\ x > s[p[j]] => Cardinality(Under(s, x)) >= j
<1> DEFINE under == Under(s, x)
           over  == Over(s, x)
           T(a, b) == Moved(p, a, b)
<1>1. IsFiniteSet(1 .. n) /\ under \in SUBSET (1 .. n) /\ over \in SUBSET (1 .. n)
  BY FS_Interval DEF Under, Over
<1>2. IsFiniteSet(under) /\ IsFiniteSet(over)
  BY <1>1, FS_Subset
<1>3. Cardinality(under) \in Nat /\ Cardinality(over) \in Nat
  BY <1>2, FS_CardinalityType
<1>4. \A k \in 1 .. n : \E i \in 1 .. n : p[i] = k
  BY Places
<1>5. \A i \in 1 .. n : p[i] \in 1 .. n /\ s[p[i]] \in Int
  OBVIOUS
<1>6. ASSUME NEW a \in 1 .. n + 1, NEW b \in 0 .. n, a <= b + 1
      PROVE  IsFiniteSet(T(a, b)) /\ Cardinality(T(a, b)) = b - a + 1
  BY <1>6, Places
<1>7. ASSUME x <= s[p[j]] PROVE Cardinality(under) <= j - 1
  <2>1. under \subseteq T(1, j - 1)
    <3> SUFFICES ASSUME NEW k \in under PROVE k \in T(1, j - 1)
      OBVIOUS
    <3>1. k \in 1 .. n /\ s[k] < x
      BY DEF Under
    <3>2. PICK i \in 1 .. n : p[i] = k
      BY <1>4, <3>1
    <3>3. ~(j <= i)
      BY <1>5, <1>7, <3>1, <3>2
    <3>4. i \in 1 .. j - 1
      BY <3>3
    <3> QED BY <3>2, <3>4 DEF Moved
  <2>2. IsFiniteSet(T(1, j - 1)) /\ Cardinality(T(1, j - 1)) = j - 1
    <3>1. 1 \in 1 .. n + 1 /\ j - 1 \in 0 .. n /\ 1 <= (j - 1) + 1 /\ (j - 1) - 1 + 1 = j - 1
      OBVIOUS
    <3> QED BY <1>6, <3>1
  <2>3. Cardinality(under) <= Cardinality(T(1, j - 1))
    BY <2>1, <2>2, FS_Subset
  <2> QED BY <2>2, <2>3
<1>8. ASSUME x >= s[p[j]] PROVE Cardinality(over) <= n - j
  <2>1. over \subseteq T(j + 1, n)
    <3> SUFFICES ASSUME NEW k \in over PROVE k \in T(j + 1, n)
      OBVIOUS
    <3>1. k \in 1 .. n /\ s[k] > x
      BY DEF Over
    <3>2. PICK i \in 1 .. n : p[i] = k
      BY <1>4, <3>1
    <3>3. ~(i <= j)
      BY <1>5, <1>8, <3>1, <3>2
    <3>4. i \in j + 1 .. n
      BY <3>3
    <3> QED BY <3>2, <3>4 DEF Moved
  <2>2. IsFiniteSet(T(j + 1, n)) /\ Cardinality(T(j + 1, n)) = n - j
    <3>1. j + 1 \in 1 .. n + 1 /\ n \in 0 .. n /\ j + 1 <= n + 1 /\ n - (j + 1) + 1 = n - j
      OBVIOUS
    <3> QED BY <1>6, <3>1
  <2>3. Cardinality(over) <= Cardinality(T(j + 1, n))
    BY <2>1, <2>2, FS_Subset
  <2> QED BY <2>2, <2>3
<1>9. ASSUME x < s[p[j]] PROVE Cardinality(over) >= n - j + 1
  <2>1. T(j, n) \subseteq over
    <3> SUFFICES ASSUME NEW i \in j .. n PROVE p[i] \in over
      BY DEF Moved
    <3>1. i \in 1 .. n /\ j <= i
      OBVIOUS
    <3>2. s[p[j]] <= s[p[i]]
      BY <3>1
    <3>3. s[p[i]] > x
      BY <1>5, <1>9, <3>1, <3>2
    <3> QED BY <1>5, <3>1, <3>3 DEF Over
  <2>2. Cardinality(T(j, n)) = n - j + 1
    <3>1. j \in 1 .. n + 1 /\ n \in 0 .. n /\ j <= n + 1
      OBVIOUS
    <3> QED BY <1>6, <3>1
  <2>3. Cardinality(T(j, n)) <= Cardinality(over)
    BY <1>2, <2>1, FS_Subset
  <2> QED BY <1>3, <2>2, <2>3
<1>10. ASSUME x > s[p[j]] PROVE Cardinality(under) >= j
  <2>1. T(1, j) \subseteq under
    <3> SUFFICES ASSUME NEW i \in 1 .. j PROVE p[i] \in under
      BY DEF Moved
    <3>1. i \in 1 .. n /\ i <= j
      OBVIOUS
    <3>2. s[p[i]] <= s[p[j]]
      BY <3>1
    <3>3. s[p[i]] < x
      BY <1>5, <1>10, <3>1, <3>2
    <3> QED BY <1>5, <3>1, <3>3 DEF Under
  <2>2. Cardinality(T(1, j)) = j
    <3>1. 1 \in 1 .. n + 1 /\ j \in 0 .. n /\ 1 <= j + 1 /\ j - 1 + 1 = j
      OBVIOUS
    <3> QED BY <1>6, <3>1
  <2>3. Cardinality(T(1, j)) <= Cardinality(under)
    BY <1>2, <2>1, FS_Subset
  <2> QED BY <1>3, <2>2, <2>3
<1> QED BY <1>3, <1>7, <1>8, <1>9, <1>10

\* The two places in the middle leave no more than half on a side.
LEMMA Halfway ==
    ASSUME NEW n \in Nat \ {0}, NEW a, a = (n + 1) \div 2, NEW b, b = n \div 2 + 1
    PROVE  /\ a \in 1 .. n /\ b \in 1 .. n
           /\ \A c \in Nat : /\ c <= a - 1 \/ c <= n - a \/ c <= b - 1 \/ c <= n - b => 2 * c <= n
                             /\ c >= n - a + 1 \/ c >= b => 2 * c > n
OBVIOUS

\* The values in the middle of the order are the least and the greatest that halve
\* the values.
LEMMA Middle ==
    ASSUME NEW n \in Nat \ {0}, NEW s \in [1 .. n -> Int], Len(s) = n
    PROVE  LET v      == Sorted(s)
               lo     == v[(n + 1) \div 2]
               hi     == v[n \div 2 + 1]
               middle == {s[i] : i \in {j \in 1 .. Len(s) : Halves(s, s[j])}}
           IN  lo \in middle /\ hi \in middle /\ middle \subseteq lo .. hi
<1> DEFINE a == (n + 1) \div 2
           b == n \div 2 + 1
<1>1. PICK p \in [1 .. n -> 1 .. n] :
        /\ Sorted(s) = [i \in 1 .. n |-> s[p[i]]]
        /\ IsInjective(p)
        /\ \A i, j \in 1 .. n : i <= j => s[p[i]] <= s[p[j]]
  BY Sorts
<1>2. /\ a \in 1 .. n /\ b \in 1 .. n
      /\ \A c \in Nat : /\ c <= a - 1 \/ c <= n - a \/ c <= b - 1 \/ c <= n - b => 2 * c <= n
                        /\ c >= n - a + 1 \/ c >= b => 2 * c > n
  BY Halfway
<1> HIDE DEF a, b
<1> DEFINE lo == s[p[a]]
           hi == s[p[b]]
<1>3. Sorted(s)[a] = lo /\ Sorted(s)[b] = hi
  BY <1>1, <1>2
<1>4. p[a] \in 1 .. n /\ p[b] \in 1 .. n /\ lo \in Int /\ hi \in Int
  BY <1>2
<1>5. \A j \in 1 .. n, x \in Int :
        /\ Cardinality(Under(s, x)) \in Nat /\ Cardinality(Over(s, x)) \in Nat
        /\ x <= s[p[j]] => Cardinality(Under(s, x)) <= j - 1
        /\ x >= s[p[j]] => Cardinality(Over(s, x)) <= n - j
        /\ x < s[p[j]] => Cardinality(Over(s, x)) >= n - j + 1
        /\ x > s[p[j]] => Cardinality(Under(s, x)) >= j
  BY <1>1, Counts
<1> HIDE DEF lo, hi
<1>6. Halves(s, lo)
  <2>1. Cardinality(Under(s, lo)) \in Nat /\ Cardinality(Over(s, lo)) \in Nat
    BY <1>2, <1>4, <1>5
  <2>2. lo <= lo /\ lo >= lo
    BY <1>4
  <2>3. Cardinality(Under(s, lo)) <= a - 1 /\ Cardinality(Over(s, lo)) <= n - a
    BY <1>2, <1>4, <1>5, <2>2 DEF lo
  <2>4. 2 * Cardinality(Under(s, lo)) <= n /\ 2 * Cardinality(Over(s, lo)) <= n
    BY <1>2, <2>1, <2>3
  <2> QED BY <2>4 DEF Halves
<1>7. Halves(s, hi)
  <2>1. Cardinality(Under(s, hi)) \in Nat /\ Cardinality(Over(s, hi)) \in Nat
    BY <1>2, <1>4, <1>5
  <2>2. hi <= hi /\ hi >= hi
    BY <1>4
  <2>3. Cardinality(Under(s, hi)) <= b - 1 /\ Cardinality(Over(s, hi)) <= n - b
    BY <1>2, <1>4, <1>5, <2>2 DEF hi
  <2>4. 2 * Cardinality(Under(s, hi)) <= n /\ 2 * Cardinality(Over(s, hi)) <= n
    BY <1>2, <2>1, <2>3
  <2> QED BY <2>4 DEF Halves
<1>8. ASSUME NEW x \in Int, Halves(s, x) PROVE x \in lo .. hi
  <2> DEFINE under == Cardinality(Under(s, x))
             over  == Cardinality(Over(s, x))
  <2>1. under \in Nat /\ over \in Nat
    BY <1>2, <1>5
  <2>2. 2 * under <= n /\ 2 * over <= n
    BY <1>8 DEF Halves
  <2>3. (x < lo => over >= n - a + 1) /\ (x > hi => under >= b)
    BY <1>2, <1>5 DEF lo, hi
  <2> HIDE DEF under, over
  <2>4. (over >= n - a + 1 => 2 * over > n) /\ (under >= b => 2 * under > n)
    BY <1>2, <2>1
  <2>5. ~(2 * over > n) /\ ~(2 * under > n)
    BY <2>1, <2>2
  <2>6. ~(x < lo) /\ ~(x > hi)
    BY <2>3, <2>4, <2>5
  <2> QED BY <1>4, <2>6
<1> DEFINE middle == {s[i] : i \in {j \in 1 .. Len(s) : Halves(s, s[j])}}
<1>9. lo \in middle /\ hi \in middle
  BY <1>4, <1>6, <1>7 DEF lo, hi
<1>10. middle \subseteq lo .. hi
  BY <1>8
<1> QED BY <1>3, <1>9, <1>10 DEF a, b

\* Each aggregation type gives what its name says, of any number of any values.
THEOREM Aggregates ==
    ASSUME NEW s \in Seq(Int), s # <<>>, NEW type \in AggregationType
    PROVE  IsAggregate(AggregateSamples(s, type), s, type)
<1> DEFINE n == Len(s)
           q == AggregateSamples(s, type)
<1>1. n \in Nat \ {0} /\ s \in [1 .. n -> Int]
  OBVIOUS
<1>2. CASE type = "avg"
  <2>1. q = <<Total(s), Len(s)>>
    BY <1>2 DEF AggregateSamples
  <2>2. q[1] = Total(s) /\ q[2] = Len(s)
    BY <2>1
  <2>3. q[1] * Len(s) = Total(s) * q[2]
    BY <2>2, Zenon
  <2> QED BY <1>2, <2>3 DEF IsAggregate
<1>3. CASE type = "max"
  <2>1. q = <<Greatest(s), 1>>
    BY <1>3 DEF AggregateSamples, Whole
  <2>2. PICK i \in 1 .. n : Greatest(s) = s[i]
    BY <1>1, Extremes
  <2>3. \A j \in 1 .. n : s[j] <= s[i] /\ s[j] \in Int
    BY <1>1, <2>2, Extremes
  <2>4. q = <<s[i], 1>>
    BY <2>1, <2>2
  <2>5. \A j \in 1 .. n : Above(q, s[j])
    BY <1>1, <2>3, <2>4 DEF Above
  <2> QED BY <1>3, <2>4, <2>5 DEF IsAggregate, Whole
<1>4. CASE type = "min"
  <2>1. q = <<Least(s), 1>>
    BY <1>4 DEF AggregateSamples, Whole
  <2>2. PICK i \in 1 .. n : Least(s) = s[i]
    BY <1>1, Extremes
  <2>3. \A j \in 1 .. n : s[i] <= s[j] /\ s[j] \in Int
    BY <1>1, <2>2, Extremes
  <2>4. q = <<s[i], 1>>
    BY <2>1, <2>2
  <2>5. \A j \in 1 .. n : Below(q, s[j])
    BY <1>1, <2>3, <2>4 DEF Below
  <2> QED BY <1>4, <2>4, <2>5 DEF IsAggregate, Whole
<1>5. CASE type = "median"
  <2> DEFINE v      == Sorted(s)
             lo     == v[(n + 1) \div 2]
             hi     == v[n \div 2 + 1]
             middle == {s[i] : i \in {j \in 1 .. Len(s) : Halves(s, s[j])}}
  <2>1. lo \in middle /\ hi \in middle /\ middle \subseteq lo .. hi
    BY <1>1, Middle
  <2>2. lo \in Int /\ hi \in Int
    BY <1>1, <2>1
  <2>3. Len(v) = n
    <3>1. DOMAIN v = 1 .. n
      BY <1>1 DEF Sorted
    <3> QED BY <1>1, <3>1 DEF Sorted
  <2>4. q = Median(s)
    BY <1>5 DEF AggregateSamples
  <2>5. 2 * q[1] = (lo + hi) * q[2]
    <3>1. CASE n % 2 = 0
      <4>1. (n + 1) \div 2 = n \div 2
        BY <1>1, <3>1
      <4>2. q = <<lo + hi, 2>>
        BY <2>3, <2>4, <3>1, <4>1 DEF Median
      <4> HIDE DEF lo, hi, q
      <4> QED BY <2>2, <4>2
    <3>2. CASE n % 2 # 0
      <4>1. (n + 1) \div 2 = n \div 2 + 1
        BY <1>1, <3>2
      <4>2. q = <<hi, 1>> /\ lo = hi
        BY <2>3, <2>4, <3>2, <4>1 DEF Median, Whole
      <4> HIDE DEF lo, hi, q
      <4> QED BY <2>2, <4>2
    <3> QED BY <3>1, <3>2
  <2> HIDE DEF lo, hi, q, n
  <2>6. \E least, greatest \in middle :
           middle \subseteq least .. greatest /\ 2 * q[1] = (least + greatest) * q[2]
    BY <2>1, <2>5
  <2> QED BY <1>5, <2>6 DEF IsAggregate, q
<1>6. CASE type = "last"
  BY <1>6 DEF IsAggregate, AggregateSamples, Last
<1> QED BY <1>2, <1>3, <1>4, <1>5, <1>6 DEF AggregationType

\* Each aggregation type gives what its name says, of the values of any gauge's
\* window and of what it becomes with one more sample.
THEOREM RightAggregates == Spec => []AggregatesAreRight
<1>1. TypeOK => AggregatesAreRight
  <2> SUFFICES ASSUME TypeOK, NEW p \in Listed, NEW type \in AggregationType, NEW values,
                      LET s == Values(window[p]) IN
                      values \in {s, Append(s, counter[p].value)}
               PROVE  IsAggregate(AggregateSamples(values, type), values, type)
    BY DEF AggregatesAreRight
  <2> DEFINE w == window[p].samples
             s == Values(window[p])
  <2>1. p \in Pod /\ w \in Seq(Sample) /\ Len(w) \in Nat \ {0} /\ counter[p].value \in Int
    BY SampleTypes, Bounds DEF Listed, TypeOK
  <2>2. s = [i \in 1 .. Len(w) |-> w[i].value]
    BY <2>1 DEF Values
  <2>3. \A i \in 1 .. Len(w) : w[i].value \in Int
    <3>1. \A i \in 1 .. Len(w) : w[i] \in Sample
      BY <2>1
    <3> QED BY <3>1, Bounds DEF Sample
  <2> HIDE DEF w, s
  <2>4. s \in Seq(Int) /\ s # <<>>
    BY <2>1, <2>2, <2>3
  <2>5. values = s \/ values = Append(s, counter[p].value)
    BY Zenon DEF s
  <2>6. values \in Seq(Int) /\ values # <<>>
    <3>1. ASSUME NEW v \in Int PROVE Append(s, v) \in Seq(Int) /\ Append(s, v) # <<>>
      <4>1. Append(s, v) \in Seq(Int) /\ Len(Append(s, v)) = Len(s) + 1 /\ Len(s) \in Nat
        BY <2>4
      <4> QED BY <4>1
    <3> QED BY <2>1, <2>4, <2>5, <3>1
  <2> QED BY <2>6, Aggregates
<1> QED BY <1>1, TypeCorrect, PTL
=============================================================================
