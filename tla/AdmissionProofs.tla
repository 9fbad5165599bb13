---------------------------- MODULE AdmissionProofs ----------------------------
(* For any manifests, any widths and any history of edits: what the webhooks  *)
(* have admitted is complete, a fixed point of the webhooks, and works.       *)
EXTENDS Admission, FiniteSetTheorems, TLAPS

\* No field has a value that means there is none.
LEMMA GapsAreNoValues ==
    /\ Absent # Empty
    /\ Absent \notin Int /\ Absent \notin Text /\ Absent \notin Duration
    /\ Absent \notin Ref({}) /\ Absent \notin Ref({Absent}) /\ Absent \notin Complete
    /\ Empty \notin Name /\ Empty \notin Duration
BY GapAssumption DEF Text

\* The defaults are durations.
LEMMA TimesAreDurations ==
    ASSUME NEW n \in Nat
    PROVE  Seconds(n) \in Duration
BY DEF Seconds, Duration, PerUnit

-----------------------------------------------------------------------------
(* What mutate makes of an object.                                         *)

\* Filling in the API version completes a reference and keeps what it points to.
LEMMA ApiFilledIsRef ==
    ASSUME NEW gap \in {Absent, Empty}, NEW ref \in Ref({Absent}),
           gap = Absent \/ ref \in Ref({})
    PROVE  /\ ApiFilled(ref, gap) \in Ref({}) /\ ApiFilled(ref, gap).api # gap
           /\ SameTarget(ApiFilled(ref, gap), ref)
           /\ ref.api # gap => ApiFilled(ref, gap) = ref
BY GapsAreNoValues, NameAssumption DEF ApiFilled, Filled, Ref, SameTarget, AppsV1, Text

\* Objects as the types read them: only the scrape target may be missing.
Readable ==
    [min : Int, max : Int, scale : Ref({}), scrapeRef : Ref({}) \cup {Absent},
     metrics : SUBSET [name : Text, target : Text, selector : {Absent} \cup MetricSelector],
     port : Int, path : Text, scheme : Text,
     interval : Duration \cup {Empty}, timeout : Duration \cup {Empty},
     period : Duration \cup {Empty}]

\* Complete objects are readable ones with a scrape target.
LEMMA ReadableAndComplete ==
    /\ Complete \subseteq Readable
    /\ \A m \in Readable : m.scrapeRef # Absent => m \in Complete
    /\ Complete \subseteq Object({Absent})
BY GapsAreNoValues DEF Complete, Readable, Object, Ref

\* Defaults complete an object, and leave its targets alone.
LEMMA DefaultsAreReadable ==
    ASSUME NEW m \in Object({Absent}), NEW gap \in {Absent, Empty},
           gap = Absent \/ m \in Readable,
           NEW zero \in Int \cup {Absent}, zero = Absent \/ m \in Readable,
           NEW ref \in Ref({}) \cup {Absent}
    PROVE  /\ WithDefaults(m, gap, zero, ref) \in Readable
           /\ WithDefaults(m, gap, zero, ref).scrapeRef = ref
           /\ SameTarget(WithDefaults(m, gap, zero, ref).scale, m.scale)
           /\ WithDefaults(m, gap, zero, ref).scale.api # gap
<1>1. Seconds(15) \in Duration /\ Seconds(1) \in Duration /\ Seconds(60) \in Duration
  BY TimesAreDurations
<1> DEFINE d == WithDefaults(m, gap, zero, ref)
<1>2. d.min \in Int /\ d.max \in Int /\ d.port \in Int
  BY DEF WithDefaults, Filled, Object, Readable, DefaultPort
<1>3. /\ m.path \in Text \cup {gap} /\ m.scheme \in Text \cup {gap}
      /\ m.interval \in Duration \cup {Empty} \cup {gap}
      /\ m.timeout \in Duration \cup {Empty} \cup {gap}
      /\ m.period \in Duration \cup {Empty} \cup {gap}
  BY DEF Object, Readable
<1>4. d.path \in Text /\ d.scheme \in Text
  BY <1>3, NameAssumption DEF WithDefaults, Filled, Text
<1>5. /\ d.interval \in Duration \cup {Empty} /\ d.timeout \in Duration \cup {Empty}
      /\ d.period \in Duration \cup {Empty}
  BY <1>1, <1>3 DEF WithDefaults, Filled
<1>6. m.scale \in Ref({Absent}) /\ (gap = Absent \/ m.scale \in Ref({}))
  BY DEF Object, Readable
<1>7. d.scale \in Ref({}) /\ d.scale.api # gap /\ SameTarget(d.scale, m.scale)
  BY <1>6, ApiFilledIsRef DEF WithDefaults
<1>8. d.metrics \in SUBSET [name : Text, target : Text, selector : {Absent} \cup MetricSelector]
  BY DEF WithDefaults, Object
<1>9. d.scrapeRef = ref
  BY DEF WithDefaults
<1>10. d = [min |-> d.min, max |-> d.max, scale |-> d.scale, scrapeRef |-> d.scrapeRef,
            metrics |-> d.metrics, port |-> d.port, path |-> d.path, scheme |-> d.scheme,
            interval |-> d.interval, timeout |-> d.timeout, period |-> d.period]
  BY DEF WithDefaults
<1> HIDE DEF d
<1>11. d \in Readable
  BY <1>2, <1>4, <1>5, <1>7, <1>8, <1>9, <1>10 DEF Readable
<1> QED BY <1>7, <1>9, <1>11 DEF d

\* The API server, the types and mutate make a complete object of any manifest,
\* and leave kinds and names of targets alone.
LEMMA MutatedIsComplete ==
    ASSUME NEW m \in Object({Absent})
    PROVE  /\ Mutated(m) \in Complete /\ Mutated(m).scale.api # Empty
           /\ SameTarget(Mutated(m).scale, m.scale)
           /\ SameTarget(Mutated(m).scrapeRef,
                         IF m.scrapeRef = Absent THEN m.scale ELSE m.scrapeRef)
<1> DEFINE ref == IF m.scrapeRef = Absent THEN Absent ELSE ApiFilled(m.scrapeRef, Absent)
           d == Decoded(m)
<1>1. /\ ref \in Ref({}) \cup {Absent}
      /\ ref = Absent <=> m.scrapeRef = Absent
      /\ ref # Absent => SameTarget(ref, m.scrapeRef)
  <2>1. CASE m.scrapeRef = Absent
    BY <2>1
  <2>2. CASE m.scrapeRef # Absent
    <3>1. m.scrapeRef \in Ref({Absent})
      BY <2>2 DEF Object
    <3>2. ref \in Ref({}) /\ SameTarget(ref, m.scrapeRef)
      BY <2>2, <3>1, ApiFilledIsRef
    <3> QED BY <2>2, <3>2, GapsAreNoValues
  <2> QED BY <2>1, <2>2
<1>2. d \in Readable /\ d.scrapeRef = ref /\ SameTarget(d.scale, m.scale)
  <2> HIDE DEF ref
  <2>1. d = WithDefaults(m, Absent, Absent, ref)
    BY DEF Decoded, ref
  <2>2. /\ WithDefaults(m, Absent, Absent, ref) \in Readable
        /\ WithDefaults(m, Absent, Absent, ref).scrapeRef = ref
        /\ SameTarget(WithDefaults(m, Absent, Absent, ref).scale, m.scale)
    <3> ref \in Ref({}) \cup {Absent} /\ Absent \in {Absent, Empty}
        /\ Absent \in Int \cup {Absent}
      BY <1>1
    <3> QED BY DefaultsAreReadable
  <2> HIDE DEF d
  <2> QED BY <2>1, <2>2
<1> HIDE DEF ref, d
<1>3. ScrapeRefOf(d) \in Ref({})
  BY <1>1, <1>2 DEF ScrapeRefOf, Readable
<1>4. d \in Object({Absent})
  BY <1>2 DEF Readable, Object, Ref
<1>5. /\ Defaulted(d) \in Readable /\ Defaulted(d).scrapeRef = ScrapeRefOf(d)
      /\ SameTarget(Defaulted(d).scale, d.scale) /\ Defaulted(d).scale.api # Empty
  <2> DEFINE full == WithDefaults(d, Empty, 0, ScrapeRefOf(d))
  <2>1. /\ full \in Readable /\ full.scrapeRef = ScrapeRefOf(d)
        /\ SameTarget(full.scale, d.scale) /\ full.scale.api # Empty
    <3>1. ScrapeRefOf(d) \in Ref({}) \cup {Absent} /\ Empty \in {Absent, Empty}
      BY <1>3
    <3>2. 0 \in Int \cup {Absent}
      OBVIOUS
    <3>3. d \in Readable /\ d \in Object({Absent})
      BY <1>2, <1>4
    <3> QED BY <3>1, <3>2, <3>3, DefaultsAreReadable, ZenonT(30)
  <2>2. Defaulted(d) = full
    BY DEF Defaulted
  <2> HIDE DEF full
  <2> QED BY <2>1, <2>2
<1>6. Defaulted(d) \in Complete
  BY <1>3, <1>5, GapsAreNoValues, ReadableAndComplete
<1> QED BY <1>1, <1>2, <1>5, <1>6 DEF ScrapeRefOf, SameTarget, Mutated, d

\* An object that is complete and valid is read and defaulted to itself.
LEMMA CompleteStays ==
    ASSUME NEW m \in Complete, IsValid(m), m.scale.api # Empty
    PROVE  Mutated(m) = m
<1>1. /\ m.min # Absent /\ m.port # Absent /\ m.path # Absent /\ m.scheme # Absent
      /\ m.interval # Absent /\ m.timeout # Absent /\ m.period # Absent
      /\ m.scrapeRef # Absent
      /\ m.scale \in Ref({}) /\ m.scrapeRef \in Ref({})
      /\ m.scale.api # Absent /\ m.scrapeRef.api # Absent
  BY GapsAreNoValues DEF Complete, Object, Ref
<1>2. /\ m.min # 0 /\ m.port # 0 /\ m.path # Empty /\ m.scheme # Empty
      /\ m.interval # Empty /\ m.timeout # Empty /\ m.period # Empty
  <2>1. /\ ReplicasInOrder(m) /\ m.port \in 1 .. MaxPort
        /\ m.scheme \in {"http", "https"} /\ IsSafePath(m.path)
        /\ IsValidDuration(m.interval) /\ IsValidDuration(m.timeout)
        /\ IsValidDuration(m.period)
    BY DEF IsValid
  <2>2. m.min \in Int /\ m.port \in Int
    BY DEF Complete, Object
  <2>3. m.min # 0 /\ m.port # 0
    <3>1. m.port # 0
      <4>1. m.port \in 1 .. MaxPort
        BY <2>1
      <4>2. MaxPort \in Nat /\ 0 \notin 1 .. MaxPort
        BY DEF MaxPort
      <4> QED BY <4>1, <4>2
    <3>2. m.min # 0
      BY <2>1, <2>2 DEF ReplicasInOrder
    <3> QED BY <3>1, <3>2
  <2>4. m.path \in Name /\ m.scheme \in Name
    BY <2>1, NameAssumption DEF IsSafePath
  <2>5. m.interval # Empty /\ m.timeout # Empty /\ m.period # Empty
    BY <2>1 DEF IsValidDuration
  <2> QED BY <2>3, <2>4, <2>5, GapsAreNoValues
<1>3. m = [min |-> m.min, max |-> m.max, scale |-> m.scale, scrapeRef |-> m.scrapeRef,
           metrics |-> m.metrics, port |-> m.port, path |-> m.path, scheme |-> m.scheme,
           interval |-> m.interval, timeout |-> m.timeout, period |-> m.period]
  BY DEF Complete, Object
<1>4. m.scale \in Ref({Absent}) /\ m.scrapeRef \in Ref({Absent})
  BY <1>1 DEF Ref
<1>5. /\ ApiFilled(m.scale, Absent) = m.scale /\ ApiFilled(m.scrapeRef, Absent) = m.scrapeRef
      /\ ApiFilled(m.scale, Empty) = m.scale
  BY <1>1, <1>4, ApiFilledIsRef
<1>6. Decoded(m) = m
  BY <1>1, <1>3, <1>5 DEF Decoded, WithDefaults, Filled
<1>7. Defaulted(m) = m
  BY <1>1, <1>2, <1>3, <1>5 DEF Defaulted, WithDefaults, Filled, ScrapeRefOf
<1> QED BY <1>6, <1>7 DEF Mutated

-----------------------------------------------------------------------------
(* kubectl apply.                                                          *)

\* What apply makes of the two targets.
LEMMA MergedFields ==
    ASSUME NEW m \in Object({Absent}), stored \in Complete
    PROVE  /\ Merged(m) \in Object({Absent})
           /\ Merged(m).scale = m.scale
           /\ m.scrapeRef # Absent => Merged(m).scrapeRef = m.scrapeRef
           /\ m.scrapeRef = Absent => Merged(m).scrapeRef \in {Absent, stored.scrapeRef}
<1>1. Merged(m) \in Object({Absent})
  BY GapsAreNoValues DEF Merged, Complete, Object, Ref
<1>2. m.scale # Absent /\ {"scale", "scrapeRef"} \subseteq DOMAIN m
  BY GapsAreNoValues DEF Object
<1>3. Merged(m).scale = m.scale
  BY <1>2 DEF Merged
<1>4. /\ m.scrapeRef # Absent => Merged(m).scrapeRef = m.scrapeRef
      /\ m.scrapeRef = Absent => Merged(m).scrapeRef \in {Absent, stored.scrapeRef}
  BY <1>2 DEF Merged
<1> QED BY <1>1, <1>3, <1>4

-----------------------------------------------------------------------------
(* The invariant: what is stored has passed both webhooks, and follows the  *)
(* scale target unless an author broke the tie.                            *)

Followed == (stored # Absent /\ ~named /\ ~moved) => SameTarget(stored.scrapeRef, stored.scale)

Passed == stored # Absent => IsValid(stored) /\ stored.scale.api # Empty

IInv == TypeOK /\ Passed /\ Followed

\* What the webhooks store is complete, valid, and names the targets of the request.
LEMMA AdmitStores ==
    ASSUME NEW m \in Object({Absent}), Admit(m)
    PROVE  /\ stored' \in Complete /\ IsValid(stored') /\ stored'.scale.api # Empty
           /\ stored' # Absent
           /\ SameTarget(stored'.scale, m.scale)
           /\ SameTarget(stored'.scrapeRef,
                         IF m.scrapeRef = Absent THEN m.scale ELSE m.scrapeRef)
<1>1. stored' = Mutated(m) /\ IsValid(Mutated(m))
  BY DEF Admit
<1> QED BY <1>1, MutatedIsComplete, GapsAreNoValues

\* A create or an update.
LEMMA PutKeeps ==
    ASSUME IInv, NEW m \in Manifest, Put(m)
    PROVE  IInv'
<1>1. m \in Object({Absent}) /\ Admit(m)
  BY ManifestAssumption DEF Put
<1>2. edits' \in 0 .. MaxEdits
  BY WidthAssumption DEF Put, Edit, IInv, TypeOK
<1>3. TypeOK'
  BY <1>1, <1>2, AdmitStores DEF Put, IInv, TypeOK
<1>4. Passed'
  BY <1>1, AdmitStores DEF Passed
<1>5. Followed'
  BY <1>1, AdmitStores DEF Put, Followed, SameTarget
<1> QED BY <1>3, <1>4, <1>5 DEF IInv

\* A kubectl apply, with or without an object.
LEMMA ApplyKeeps ==
    ASSUME IInv, NEW m \in Manifest, Apply(m)
    PROVE  IInv'
<1>1. m \in Object({Absent})
  BY ManifestAssumption
<1>2. edits' \in 0 .. MaxEdits
  BY WidthAssumption DEF Apply, Edit, IInv, TypeOK
<1>3. applied' \in Manifest /\ workload' \in Selector
  BY DEF Apply, IInv, TypeOK
<1>4. CASE stored = Absent
  <2>1. Admit(m) /\ named' = (m.scrapeRef # Absent) /\ moved' = FALSE
    BY <1>4 DEF Apply
  <2>2. TypeOK'
    BY <1>1, <1>2, <1>3, <2>1, AdmitStores DEF TypeOK
  <2>3. Passed'
    BY <1>1, <2>1, AdmitStores DEF Passed
  <2>4. Followed'
    BY <1>1, <2>1, AdmitStores DEF Followed, SameTarget
  <2> QED BY <2>2, <2>3, <2>4 DEF IInv
<1>5. CASE stored # Absent
  <2> DEFINE all == Merged(m)
  <2>1. stored \in Complete
    BY <1>5 DEF IInv, TypeOK
  <2>2. /\ all \in Object({Absent}) /\ all.scale = m.scale
        /\ m.scrapeRef # Absent => all.scrapeRef = m.scrapeRef
        /\ m.scrapeRef = Absent => all.scrapeRef \in {Absent, stored.scrapeRef}
    BY <1>1, <2>1, MergedFields
  <2>3. /\ Admit(all)
        /\ named' = IF all.scrapeRef = Absent THEN FALSE ELSE named \/ m.scrapeRef # Absent
        /\ moved' = (all.scrapeRef # Absent /\ (moved \/ ~SameTarget(m.scale, stored.scale)))
    BY <1>5 DEF Apply
  <2> HIDE DEF all
  <2>4. named' \in BOOLEAN /\ moved' \in BOOLEAN
    BY <2>3 DEF IInv, TypeOK
  <2>5. TypeOK'
    BY <1>2, <1>3, <2>2, <2>3, <2>4, AdmitStores DEF TypeOK
  <2>6. Passed'
    BY <2>2, <2>3, AdmitStores DEF Passed
  <2>7. Followed'
    <3> SUFFICES ASSUME ~named', ~moved'
                 PROVE  SameTarget(stored'.scrapeRef, stored'.scale)
      BY DEF Followed
    <3>1. /\ SameTarget(stored'.scale, m.scale)
          /\ SameTarget(stored'.scrapeRef,
                        IF all.scrapeRef = Absent THEN m.scale ELSE all.scrapeRef)
      BY <2>2, <2>3, AdmitStores
    <3>2. CASE all.scrapeRef = Absent
      BY <3>1, <3>2 DEF SameTarget
    <3>3. CASE all.scrapeRef # Absent
      <4>1. ~named /\ ~moved /\ m.scrapeRef = Absent /\ SameTarget(m.scale, stored.scale)
        BY <2>3, <3>3
      <4>2. all.scrapeRef = stored.scrapeRef
        BY <2>2, <3>3, <4>1
      <4>3. SameTarget(stored.scrapeRef, stored.scale)
        BY <1>5, <4>1 DEF IInv, Followed
      <4> QED BY <3>1, <3>3, <4>1, <4>2, <4>3 DEF SameTarget
    <3> QED BY <3>2, <3>3
  <2> QED BY <2>5, <2>6, <2>7 DEF IInv
<1> QED BY <1>4, <1>5

\* Nothing is stored.
LEMMA InitEstablishes ==
    Init => IInv
<1> SUFFICES ASSUME Init PROVE IInv
  OBVIOUS
<1>1. edits \in 0 .. MaxEdits
  BY WidthAssumption DEF Init
<1>2. TypeOK
  BY <1>1 DEF Init, TypeOK
<1>3. Passed /\ Followed
  BY DEF Init, Passed, Followed
<1> QED BY <1>2, <1>3 DEF IInv

\* A deletion.
LEMMA RemoveKeeps ==
    ASSUME IInv, Remove
    PROVE  IInv'
<1>1. edits' \in 0 .. MaxEdits
  BY WidthAssumption DEF Remove, Edit, IInv, TypeOK
<1> QED BY <1>1 DEF Remove, IInv, TypeOK, Passed, Followed

\* A new selector of the workload.
LEMMA RedeployKeeps ==
    ASSUME IInv, NEW sel \in Selector, Redeploy(sel)
    PROVE  IInv'
<1>1. edits' \in 0 .. MaxEdits
  BY WidthAssumption DEF Redeploy, Edit, IInv, TypeOK
<1>2. TypeOK'
  BY <1>1 DEF Redeploy, IInv, TypeOK
<1>3. Passed' /\ Followed'
  BY DEF Redeploy, IInv, Passed, Followed
<1> QED BY <1>2, <1>3 DEF IInv

\* IInv is inductive.
LEMMA StepKeeps ==
    IInv /\ [Next]_vars => IInv'
<1> SUFFICES ASSUME IInv, [Next]_vars PROVE IInv'
  OBVIOUS
<1>1. CASE \E m \in Manifest : Put(m) \/ Apply(m)
  BY <1>1, PutKeeps, ApplyKeeps
<1>2. CASE Remove
  BY <1>2, RemoveKeeps
<1>3. CASE \E sel \in Selector : Redeploy(sel)
  BY <1>3, RedeployKeeps
<1>4. CASE UNCHANGED vars
  BY <1>4 DEF vars, IInv, TypeOK, Passed, Followed
<1> QED BY <1>1, <1>2, <1>3, <1>4 DEF Next

\* Whatever the author does, what is stored has passed both webhooks.
THEOREM Invariance == Spec => []IInv
<1>1. Init => IInv
  BY InitEstablishes
<1>2. IInv /\ [Next]_vars => IInv'
  BY StepKeeps
<1> QED BY <1>1, <1>2, PTL DEF Spec

\* Type correctness: the object that is stored is complete.
THEOREM TypeCorrect == Spec => []TypeOK
<1>1. IInv => TypeOK
  BY DEF IInv
<1> QED BY <1>1, Invariance, PTL

\* The webhooks are idempotent: an object read and written back unchanged is
\* admitted unchanged (handlers.rs, apply_defaults and validate_epa_spec).
THEOREM AdmissionIsIdempotent == Spec => []ResubmittedUnchanged
<1>1. IInv => ResubmittedUnchanged
  <2> SUFFICES ASSUME IInv, stored # Absent
               PROVE  IsValid(Mutated(stored)) /\ Mutated(stored) = stored
    BY DEF ResubmittedUnchanged
  <2>1. stored \in Complete /\ IsValid(stored) /\ stored.scale.api # Empty
    BY DEF IInv, TypeOK, Passed
  <2>2. Mutated(stored) = stored
    BY <2>1, CompleteStays
  <2> QED BY <2>1, <2>2
<1> QED BY <1>1, Invariance, PTL

\* The pods scraped are those scaled, unless an author named others or an apply
\* moved the target under the reference that mutate had copied.
THEOREM TargetsAgree == Spec => []ScrapesWhatItScales
<1>1. IInv => ScrapesWhatItScales
  <2> SUFFICES ASSUME IInv, stored # Absent, ~named, ~moved
               PROVE  SameTarget(TargetOf(stored), HpaOf(stored).target)
    BY DEF ScrapesWhatItScales
  <2>1. stored \in Complete /\ SameTarget(stored.scrapeRef, stored.scale)
    BY DEF IInv, TypeOK, Followed
  <2>2. stored.scrapeRef # Absent
    BY <2>1, GapsAreNoValues DEF Complete, Object
  <2> QED BY <2>1, <2>2 DEF TargetOf, HpaOf
<1> QED BY <1>1, Invariance, PTL

-----------------------------------------------------------------------------
(* What is admitted works.                                                 *)

\* What validate_epa_spec has looked at, of a stored object.
LEMMA ValidParts ==
    ASSUME NEW m, IsValid(m)
    PROVE  /\ m.min >= 1 /\ m.max >= m.min
           /\ m.scale.name # Empty /\ m.scale.kind # Empty
           /\ m.metrics # {} /\ \A x \in m.metrics : IsNumber(x.target)
           /\ m.path \in Name /\ m.scheme \in Name
           /\ \A d \in DurationsOf(m) : IsValidDuration(d)
<1>1. m.min >= 1 /\ m.max >= m.min
  BY DEF IsValid, ReplicasInOrder
<1>2. /\ m.scale.name # Empty /\ m.scale.kind # Empty
      /\ m.metrics # {} /\ \A x \in m.metrics : IsNumber(x.target)
      /\ \A d \in DurationsOf(m) : IsValidDuration(d)
  BY DEF IsValid, DurationsOf
<1>3. IsSafePath(m.path) /\ m.scheme \in {"http", "https"}
  BY DEF IsValid
<1>4. m.path \in Name /\ m.scheme \in Name
  BY <1>3, NameAssumption DEF IsSafePath
<1> QED BY <1>1, <1>2, <1>4

\* A valid duration is one the parser takes, unless it has a sign or overflows.
LEMMA ValidParses ==
    ASSUME NEW d \in Duration \cup {Empty}, IsValidDuration(d)
    PROVE  /\ Parses(d) <=> d.sign # "plus" /\ InSeconds(d) <= MaxU64
           /\ InSeconds(d) \in Int
<1>1. d \in Duration /\ d # Empty /\ IsU64(d.number)
  BY DEF IsValidDuration
<1>2. d.number \in Nat /\ d.sign \in {"none", "plus"}
  BY <1>1 DEF Duration, IsU64
<1>3. InSeconds(d) \in Int
  <2>1. PerUnit[d.unit] \in Int /\ d.number \div 1000 \in Int
    BY <1>1, <1>2 DEF Duration, PerUnit
  <2> QED BY <1>2, <2>1 DEF InSeconds
<1>4. d.sign = "none" <=> d.sign # "plus"
  BY <1>2
<1> QED BY <1>1, <1>3, <1>4 DEF Parses

\* What a stored object needs to be scraped beyond what is checked.
LEMMA WorksForScraper ==
    ASSUME NEW m \in Complete, IsValid(m)
    PROVE  CanBeScraped(m) <=>
              /\ \A d \in DurationsOf(m) : d.sign # "plus" /\ InSeconds(d) <= MaxU64
              /\ InSeconds(m.interval) <= MaxInstant
<1>1. /\ m.path \in Name /\ m.scheme \in Name
      /\ \A d \in DurationsOf(m) : IsValidDuration(d)
  BY ValidParts
<1>2. {m.path, m.scheme} \cap {Absent, Empty} = {}
  BY <1>1, GapsAreNoValues DEF Text
<1>3. ASSUME NEW d \in DurationsOf(m)
      PROVE  Parses(d) <=> d.sign # "plus" /\ InSeconds(d) <= MaxU64
  <2>1. d \in Duration \cup {Empty}
    BY DEF DurationsOf, Complete, Object
  <2> QED BY <1>1, <2>1, ValidParses
<1> QED BY <1>2, <1>3 DEF CanBeScraped, HasDeadline

\* What a stored object needs to make an HPA the API server takes, beyond what is
\* checked: a target value is a number, and NaN is no quantity.
LEMMA WorksForHpa ==
    ASSUME NEW m \in Complete, IsValid(m), m.scale.api # Empty
    PROVE  CanBeScaled(m) <=> \A x \in m.metrics : x.target # "nan"
<1>1. /\ m.min >= 1 /\ m.max >= m.min
      /\ m.scale.name # Empty /\ m.scale.kind # Empty
      /\ m.metrics # {} /\ \A x \in m.metrics : IsNumber(x.target)
  BY ValidParts
<1>2. m.scale \in Ref({}) /\ m.min \in Int /\ m.max \in Int
  BY DEF Complete, Object
<1>3. HpaOf(m).min >= 1 /\ HpaOf(m).min <= HpaOf(m).max
  BY <1>1, <1>2 DEF HpaOf
<1>4. {HpaOf(m).target.api, HpaOf(m).target.kind, HpaOf(m).target.name}
      \cap {Absent, Empty} = {}
  BY <1>1, <1>2, GapsAreNoValues DEF HpaOf, Ref
<1>5. \A x \in m.metrics : x \in [name : Text, target : Text, selector : {Absent} \cup MetricSelector]
  BY DEF Complete, Object
<1>6. HpaOf(m).metrics = {[x EXCEPT !.name = <<"external", @>>] : x \in m.metrics}
  BY DEF HpaOf
<1>7. HpaOf(m).metrics # {}
  BY <1>1, <1>6
<1>8. ASSUME NEW x \in m.metrics
      PROVE  IsQuantity([x EXCEPT !.name = <<"external", @>>].target) <=> x.target # "nan"
  <2>1. [x EXCEPT !.name = <<"external", @>>].target = x.target
    BY <1>5
  <2>2. x.target \in {"decimal", "nan"}
    BY <1>1 DEF IsNumber
  <2>3. IsQuantity(x.target) <=> x.target # "nan"
    BY <2>2 DEF IsQuantity
  <2> QED BY <2>1, <2>3
<1>9. (\A x \in HpaOf(m).metrics : IsQuantity(x.target)) <=> \A x \in m.metrics : x.target # "nan"
  BY <1>6, <1>8
<1> QED BY <1>3, <1>4, <1>7, <1>9 DEF CanBeScaled

\* For any widths: what the webhooks let in is scraped unless it has a duration
\* with a sign or that overflows or an interval past the last Instant, and makes
\* an HPA unless it has a target that is no quantity; and these fail
\* (validate_epa_spec against scheduler.rs, build_hpa_spec).
THEOREM OnlyFourFail == Spec => []WorksButForFour
<1>1. IInv => WorksButForFour
  <2> SUFFICES ASSUME IInv, stored # Absent
               PROVE  /\ CanBeScraped(stored) <=>
                            /\ \A d \in DurationsOf(stored) :
                                  d.sign # "plus" /\ InSeconds(d) <= MaxU64
                            /\ InSeconds(stored.interval) <= MaxInstant
                      /\ CanBeScaled(stored) <=> \A x \in stored.metrics : x.target # "nan"
    BY DEF WorksButForFour
  <2>1. stored \in Complete /\ IsValid(stored) /\ stored.scale.api # Empty
    BY DEF IInv, TypeOK, Passed
  <2> QED BY <2>1, WorksForScraper, WorksForHpa
<1> QED BY <1>1, Invariance, PTL

\* div_ceil rounds up, by less than one.
LEMMA DivCeilSpans ==
    ASSUME NEW p \in Nat, NEW i \in Nat \ {0}
    PROVE  /\ DivCeil(p, i) \in Nat /\ DivCeil(p, i) * i >= p
           /\ DivCeil(p, i) >= 1 => (DivCeil(p, i) - 1) * i < p
<1> DEFINE q == (p + i - 1) \div i
<1>1. q \in Int /\ q >= 0 /\ q * i <= p + i - 1 /\ p + i - 1 < (q + 1) * i
  OBVIOUS
<1>2. (q + 1) * i = q * i + i /\ (q - 1) * i = q * i - i
  BY <1>1
<1> HIDE DEF q
<1>3. DivCeil(p, i) = q
  BY DEF DivCeil, q
<1> QED BY <1>1, <1>2, <1>3

\* Whole units of a valid duration are whole seconds.
LEMMA SecondsAreNat ==
    ASSUME NEW d \in Duration, IsValidDuration(d), d.unit # "ms"
    PROVE  InSeconds(d) \in Nat
<1>1. d.number \in Nat /\ d.unit \in {"s", "m", "h"}
  BY DEF Duration, IsValidDuration, IsU64
<1>2. PerUnit[d.unit] \in Nat
  BY <1>1 DEF PerUnit
<1>3. InSeconds(d) = d.number * PerUnit[d.unit]
  BY <1>1 DEF InSeconds
<1> QED BY <1>1, <1>2, <1>3

\* For any period and interval in whole seconds, a window has room for the
\* period and for less than one more interval (scheduler.rs, max_samples).
THEOREM WindowFits == Spec => []WindowSpansPeriod
<1>1. IInv => WindowSpansPeriod
  <2> SUFFICES ASSUME IInv, stored # Absent,
                      {stored.interval.unit, stored.period.unit} \subseteq {"s", "m", "h"}
               PROVE  LET interval == AtLeastOne(InSeconds(stored.interval))
                          period   == InSeconds(stored.period)
                      IN  /\ MaxSamples(stored) * interval >= period
                          /\ MaxSamples(stored) > 1 => (MaxSamples(stored) - 1) * interval < period
    BY DEF WindowSpansPeriod
  <2> DEFINE i == AtLeastOne(InSeconds(stored.interval))
             p == InSeconds(stored.period)
  <2>1. stored \in Complete /\ IsValid(stored)
    BY DEF IInv, TypeOK, Passed
  <2>2. IsValidDuration(stored.interval) /\ IsValidDuration(stored.period)
    BY <2>1, ValidParts DEF DurationsOf
  <2>3. stored.interval \in Duration /\ stored.period \in Duration
    BY <2>1, <2>2 DEF Complete, Object, IsValidDuration
  <2>4. InSeconds(stored.interval) \in Nat /\ p \in Nat
    BY <2>2, <2>3, SecondsAreNat
  <2>5. i \in Nat \ {0}
    BY <2>4 DEF AtLeastOne
  <2>6. MaxSamples(stored) = AtLeastOne(DivCeil(p, i))
    BY DEF MaxSamples
  <2> HIDE DEF i, p
  <2>7. /\ DivCeil(p, i) \in Nat /\ DivCeil(p, i) * i >= p
        /\ DivCeil(p, i) >= 1 => (DivCeil(p, i) - 1) * i < p
    BY <2>4, <2>5, DivCeilSpans
  <2>8. CASE DivCeil(p, i) < 1
    <3>1. MaxSamples(stored) = 1 /\ p = 0
      <4>1. DivCeil(p, i) = 0
        BY <2>7, <2>8
      <4> QED BY <2>4, <2>5, <2>6, <2>7, <4>1 DEF AtLeastOne
    <3> QED BY <2>5, <3>1 DEF i, p
  <2>9. CASE DivCeil(p, i) >= 1
    <3>1. MaxSamples(stored) = DivCeil(p, i)
      BY <2>6, <2>7, <2>9 DEF AtLeastOne
    <3> QED BY <2>7, <2>9, <3>1 DEF i, p
  <2> QED BY <2>7, <2>8, <2>9
<1> QED BY <1>1, Invariance, PTL

-----------------------------------------------------------------------------
(* Selectors. *)

\* A set of labels has one value of a key, or none.
LEMMA ValueIsLabel ==
    ASSUME NEW labels, NEW k
    PROVE  ValueOf(labels, k) = IF k \in DOMAIN labels THEN {labels[k]} ELSE {}
BY DEF ValueOf, Pairs

\* The pods with the pairs of a workload's selector string are those it selects.
LEMMA PodsAgree ==
    ASSUME NEW sel \in Selector, NEW labels, IsUsable(sel)
    PROVE  PodMatches(labels, SelectorPairs(sel)) <=> Selects(sel, labels)
<1> DEFINE Labelled(k, v) == k \in DOMAIN labels /\ labels[k] = v
<1>1. \A k, v : <<k, v>> \in Pairs(labels) <=> Labelled(k, v)
  BY DEF Pairs
<1>2. \A k, v : ValueOf(labels, k) = {v} <=> Labelled(k, v)
  BY ValueIsLabel
<1> HIDE DEF Labelled
<1>3. ASSUME NEW e \in sel.matchExpressions
      PROVE  e.operator = "In" /\ \E v : e.values = {v}
  <2>1. e.operator = "In" /\ e.values # NoValues /\ Cardinality(e.values) = 1
    BY <1>3 DEF IsUsable, IsEquality
  <2>2. IsFiniteSet(e.values)
    BY <1>3, <2>1, SelectorAssumption
  <2> QED BY <2>1, <2>2, FS_Singleton
<1>4. PodMatches(labels, SelectorPairs(sel)) <=>
         /\ \A k \in DOMAIN sel.matchLabels : Labelled(k, sel.matchLabels[k])
         /\ \A e \in sel.matchExpressions : \A v \in e.values : Labelled(e.key, v)
  <2>1. PodMatches(labels, SelectorPairs(sel)) <=>
           \A x \in SelectorPairs(sel) : x \in Pairs(labels)
    BY DEF PodMatches
  <2>2. \A x : x \in SelectorPairs(sel) <=>
           \/ \E k \in DOMAIN sel.matchLabels : x = <<k, sel.matchLabels[k]>>
           \/ \E e \in sel.matchExpressions : \E v \in e.values : x = <<e.key, v>>
    BY DEF SelectorPairs, Pairs
  <2> DEFINE Key(k)    == <<k, sel.matchLabels[k]>> \in Pairs(labels)
             Value(e, v) == <<e.key, v>> \in Pairs(labels)
             Keys        == \A k \in DOMAIN sel.matchLabels : Key(k)
             Values      == \A e \in sel.matchExpressions : \A v \in e.values : Value(e, v)
  <2>3. ASSUME PodMatches(labels, SelectorPairs(sel)) PROVE Keys /\ Values
    <3>1. \A x \in SelectorPairs(sel) : x \in Pairs(labels)
      BY <2>1, <2>3
    <3>2. ASSUME NEW k \in DOMAIN sel.matchLabels PROVE Key(k)
      <4>1. <<k, sel.matchLabels[k]>> \in SelectorPairs(sel)
        BY <2>2, <3>2
      <4> QED BY <3>1, <4>1
    <3>3. ASSUME NEW e \in sel.matchExpressions, NEW v \in e.values PROVE Value(e, v)
      <4>1. <<e.key, v>> \in SelectorPairs(sel)
        BY <2>2, <3>3
      <4> QED BY <3>1, <4>1
    <3> QED BY <3>2, <3>3
  <2>4. ASSUME Keys, Values, NEW x \in SelectorPairs(sel) PROVE x \in Pairs(labels)
    <3>1. CASE \E k \in DOMAIN sel.matchLabels : x = <<k, sel.matchLabels[k]>>
      BY <2>4, <3>1
    <3>2. CASE \E e \in sel.matchExpressions : \E v \in e.values : x = <<e.key, v>>
      BY <2>4, <3>2
    <3> QED BY <2>2, <2>4, <3>1, <3>2
  <2>5. PodMatches(labels, SelectorPairs(sel)) <=> Keys /\ Values
    BY <2>1, <2>3, <2>4
  <2> QED BY <1>1, <2>5
<1>5. ASSUME NEW e \in sel.matchExpressions
      PROVE  (\A v \in e.values : Labelled(e.key, v)) <=>
                ValueOf(labels, e.key) # {} /\ ValueOf(labels, e.key) \subseteq e.values
  <2>1. PICK w : e.values = {w}
    BY <1>3, <1>5
  <2>2. (\A v \in e.values : Labelled(e.key, v)) <=> ValueOf(labels, e.key) = {w}
    BY <1>2, <2>1
  <2>3. ValueOf(labels, e.key) = {w} <=>
           ValueOf(labels, e.key) # {} /\ ValueOf(labels, e.key) \subseteq {w}
    BY ValueIsLabel
  <2> QED BY <2>1, <2>2, <2>3
<1>6. Selects(sel, labels) <=>
         /\ \A k \in DOMAIN sel.matchLabels : Labelled(k, sel.matchLabels[k])
         /\ \A e \in sel.matchExpressions :
               ValueOf(labels, e.key) # {} /\ ValueOf(labels, e.key) \subseteq e.values
  BY <1>2, <1>3 DEF Selects
<1> QED BY <1>4, <1>5, <1>6

\* The series that match a metric's selector are those it selects.
LEMMA SeriesAgree ==
    ASSUME NEW sel \in MetricSelector, NEW labels, IsWellFormed(sel)
    PROVE  MatchesLabelSelector(labels, sel) <=> Selects(sel, labels)
<1> DEFINE Requirement(e) ==
      LET v == ValueOf(labels, e.key) IN
      CASE e.operator = "In"           -> v # {} /\ v \subseteq e.values
        [] e.operator = "NotIn"        -> v \cap e.values = {}
        [] e.operator = "Exists"       -> v # {}
        [] e.operator = "DoesNotExist" -> v = {}
<1>1. ASSUME NEW e \in sel.matchExpressions
      PROVE  Meets(labels, e) <=> Requirement(e)
  <2>1. e.operator \in {"In", "NotIn"} => e.values # NoValues
    BY <1>1 DEF IsWellFormed
  <2>2. ValueOf(labels, e.key) = IF e.key \in DOMAIN labels THEN {labels[e.key]} ELSE {}
    BY ValueIsLabel
  <2>3. CASE e.operator = "In"
    BY <2>1, <2>2, <2>3 DEF Meets
  <2>4. CASE e.operator = "NotIn"
    BY <2>1, <2>2, <2>4 DEF Meets
  <2>5. CASE e.operator = "Exists"
    BY <2>2, <2>5 DEF Meets
  <2>6. CASE e.operator = "DoesNotExist"
    BY <2>2, <2>6 DEF Meets
  <2> QED BY <1>1, <2>3, <2>4, <2>5, <2>6, SelectorAssumption
<1>2. Pairs(sel.matchLabels) \subseteq Pairs(labels) <=>
         \A k \in DOMAIN sel.matchLabels : ValueOf(labels, k) = {sel.matchLabels[k]}
  <2>1. \A k, v : <<k, v>> \in Pairs(labels) <=> ValueOf(labels, k) = {v}
    BY ValueIsLabel DEF Pairs
  <2>2. \A x : x \in Pairs(sel.matchLabels) <=>
           \E k \in DOMAIN sel.matchLabels : x = <<k, sel.matchLabels[k]>>
    BY DEF Pairs
  <2>3. Pairs(sel.matchLabels) \subseteq Pairs(labels) <=>
           \A k \in DOMAIN sel.matchLabels : <<k, sel.matchLabels[k]>> \in Pairs(labels)
    BY <2>2, Zenon
  <2> QED BY <2>1, <2>3, Zenon
<1>3. Selects(sel, labels) <=>
         /\ \A k \in DOMAIN sel.matchLabels : ValueOf(labels, k) = {sel.matchLabels[k]}
         /\ \A e \in sel.matchExpressions : Requirement(e)
  BY DEF Selects
<1> HIDE DEF Requirement
<1> QED BY <1>1, <1>2, <1>3 DEF MatchesLabelSelector

\* Both ways in which the scraper reads selectors mean what Kubernetes means by
\* them, for any selectors and labels: a workload's that it takes at all, and an
\* admitted metric's that has the values it needs.
THEOREM SelectorsAgree == Spec => []SelectsTheSame
<1>1. TypeOK => SelectsTheSame
  <2> SUFFICES ASSUME TypeOK, NEW labels \in Labels PROVE
           /\ IsUsable(workload) =>
                 (PodMatches(labels, SelectorPairs(workload)) <=> Selects(workload, labels))
           /\ stored # Absent =>
                 \A x \in {y \in stored.metrics : y.selector # Absent} :
                     IsWellFormed(x.selector) =>
                         (MatchesLabelSelector(labels, x.selector) <=> Selects(x.selector, labels))
    BY DEF SelectsTheSame
  <2>1. workload \in Selector
    BY DEF TypeOK
  <2>2. ASSUME stored # Absent, NEW x \in stored.metrics, x.selector # Absent
        PROVE  x.selector \in MetricSelector
    BY <2>2 DEF TypeOK, Complete, Object
  <2> QED BY <2>1, <2>2, PodsAgree, SeriesAgree
<1> QED BY <1>1, TypeCorrect, PTL
=============================================================================
