------------------------------- MODULE Admission -------------------------------
(***************************************************************************)
(* From the manifest of an author to what the controller and the scraper   *)
(* do with it: the two admission webhooks                                  *)
(* (src/src/webhook/admission/handlers.rs), the defaults of the CRD types  *)
(* (src/src/apis/ctx.sh/v1beta1/externalpodautoscaler.rs), the HPA that    *)
(* reconcile.rs builds, and the durations, windows, targets and selectors  *)
(* of scheduler.rs and worker.rs.                                          *)
(*                                                                         *)
(* The API server calls mutate and then validate on every create and       *)
(* update, and fails the request when a webhook fails.  A field of a       *)
(* manifest is Absent or Empty (there, and the empty string), or has a     *)
(* value.  Texts are taken apart as far as the code looks into them.       *)
(***************************************************************************)
EXTENDS Integers, Selectors

CONSTANTS
    Absent, Empty,
    Name,           \* texts that are not empty: names, kinds, paths, numbers
    NotANumber,     \* what a duration may have in front of its unit
    Manifest,       \* the manifests an author may submit
    Selector,       \* the selectors a workload may have for its pods
    MetricSelector, \* the selectors a metric may have for its series
    Labels,         \* labels of pods and of series
    MaxU64,         \* 2^64 - 1
    MaxInstant,     \* the seconds an Instant can be moved ahead
    MaxEdits        \* bound: requests of the author

ASSUME WidthAssumption == {MaxU64, MaxInstant, MaxEdits} \subseteq Nat /\ MaxInstant <= MaxU64

\* Operators are those of the CRD; the API server has dropped others.
ASSUME SelectorAssumption ==
    /\ Absent \notin MetricSelector
    /\ \A sel \in Selector \cup MetricSelector : \A e \in sel.matchExpressions :
          /\ e.operator \in {"In", "NotIn", "Exists", "DoesNotExist"}
          /\ e.values # NoValues => IsFiniteSet(e.values)

VARIABLES
    stored,     \* the object the API server has, or Absent
    applied,    \* the manifest of the last kubectl apply, or Absent
    named,      \* an author has named a scrape target
    moved,      \* an apply has changed the target to scale
    workload,   \* the selector of the target's pods
    edits

vars == <<stored, applied, named, moved, workload, edits>>

-----------------------------------------------------------------------------
(* Durations: a sign, a number and a unit.                                 *)

PerUnit == [ms |-> 0, s |-> 1, m |-> 60, h |-> 3600, d |-> 86400]

Duration == [sign : {"none", "plus"}, number : Nat \cup {NotANumber}, unit : DOMAIN PerUnit]
Seconds(n) == [sign |-> "none", number |-> n, unit |-> "s"]

Text == {Empty} \cup Name
Ref(optional) == [api : Text \cup optional, kind : Text, name : Text]

\* Objects whose optional fields may have the values of `optional`.
Object(optional) ==
    [min : Int \cup optional, max : Int,
     scale : Ref(optional), scrapeRef : Ref(optional) \cup optional,
     metrics : SUBSET [name : Text, target : Text, selector : {Absent} \cup MetricSelector],
     port : Int \cup optional,
     path : Text \cup optional, scheme : Text \cup optional,
     interval : Duration \cup {Empty} \cup optional,
     timeout : Duration \cup {Empty} \cup optional,
     period : Duration \cup {Empty} \cup optional]

Complete == Object({})

AppsV1 == "apps/v1"
DefaultPort == 8080
MaxPort == 65535

ASSUME NameAssumption == {AppsV1, "/metrics", "/other", "http", "https"} \subseteq Name
ASSUME GapAssumption ==
    /\ Absent # Empty
    /\ \A gap \in {Absent, Empty} :
          gap \notin Int /\ gap \notin Name /\ gap \notin Duration
          /\ gap \notin Ref({}) /\ gap \notin Complete
    /\ Absent \notin Ref({Absent})
ASSUME ManifestAssumption == Manifest \subseteq Object({Absent})

IsU64(n) == n # NotANumber /\ n <= MaxU64

(* Mutants: plausible bugs the runs are tested with; nothing else uses them. *)
CopiedName(m)        == IF m.scrapeRef = Absent THEN [m.scale EXCEPT !.kind = "Deployment"]
                        ELSE m.scrapeRef
CopiedAgain(m)       == IF m.scrapeRef = Absent \/ m.scrapeRef.api = Empty THEN m.scale
                        ELSE m.scrapeRef
MaxUnchecked(m)      == m.min >= 1
WholeIntervals(p, i) == p \div i

\* validate_duration.  u64 has room for a plus sign.
IsValidDuration(d) ==
    d # Empty /\ IsU64(d.number) /\ d.unit \in {"ms", "s", "m", "h"}

\* Whole seconds, as Duration::as_secs gives them.
InSeconds(d) == IF d.unit = "ms" THEN d.number \div 1000 ELSE d.number * PerUnit[d.unit]

\* humantime::parse_duration (external): no sign, and no overflow.
Parses(d) ==
    /\ d # Empty /\ d.sign = "none" /\ IsU64(d.number)
    /\ InSeconds(d) <= MaxU64

-----------------------------------------------------------------------------
(* What the API server, the types and mutate make of a manifest.           *)

Filled(value, gap, default) == IF value = gap THEN default ELSE value

ApiFilled(ref, gap) == [ref EXCEPT !.api = Filled(@, gap, AppsV1)]

\* The types and mutate have the same defaults, for fields that are `gap` and
\* numbers that are `zero`.
WithDefaults(m, gap, zero, ref) ==
    [min |-> Filled(m.min, zero, 1), max |-> m.max,
     scale |-> ApiFilled(m.scale, gap), scrapeRef |-> ref,
     metrics |-> m.metrics,
     port |-> Filled(m.port, zero, DefaultPort),
     path |-> Filled(m.path, gap, "/metrics"), scheme |-> Filled(m.scheme, gap, "http"),
     interval |-> Filled(m.interval, gap, Seconds(15)),
     timeout |-> Filled(m.timeout, gap, Seconds(1)),
     period |-> Filled(m.period, gap, Seconds(60))]

\* #[serde(default)].
Decoded(m) ==
    WithDefaults(m, Absent, Absent,
        IF m.scrapeRef = Absent THEN Absent ELSE ApiFilled(m.scrapeRef, Absent))

\* The scrape target is the scale target, if there is none.
ScrapeRefOf(m) == IF m.scrapeRef = Absent THEN m.scale ELSE m.scrapeRef

\* apply_defaults: the scrape target is copied before the API version is filled in.
Defaulted(m) == WithDefaults(m, Empty, 0, ScrapeRefOf(m))

Mutated(m) == Defaulted(Decoded(m))

ReplicasInOrder(m) == m.min >= 1 /\ m.max >= m.min

\* What parse::<f64> takes for a number, and what the HPA takes for a quantity.
IsNumber(target)   == target \in {"decimal", "nan"}
IsQuantity(target) == target \in {"decimal", "suffixed"}

\* validate_scrape_path: absolute, short, no "..", no "//" and no NUL.
IsSafePath(path) == path \in {"/metrics", "/other"}

\* validate_epa_spec.
IsValid(m) ==
    /\ ReplicasInOrder(m)
    /\ m.scale.name # Empty /\ m.scale.kind # Empty
    /\ m.metrics # {}
    /\ \A x \in m.metrics : x.name # Empty /\ IsNumber(x.target)
    /\ m.port \in 1 .. MaxPort
    /\ m.scheme \in {"http", "https"}
    /\ IsSafePath(m.path)
    /\ \A d \in {m.interval, m.timeout, m.period} : IsValidDuration(d)

-----------------------------------------------------------------------------
(* What authors do.                                                        *)

Init ==
    /\ stored = Absent /\ applied = Absent
    /\ named = FALSE /\ moved = FALSE
    /\ workload \in Selector
    /\ edits = 0

Edit == edits < MaxEdits /\ edits' = edits + 1

SameTarget(ref, other) == ref.kind = other.kind /\ ref.name = other.name

Admit(m) ==
    /\ IsValid(Mutated(m))
    /\ stored' = Mutated(m)

\* A create, or an update with the object the author has at hand.
Put(m) ==
    /\ Edit /\ Admit(m)
    /\ named' = (m.scrapeRef # Absent) /\ moved' = FALSE
    /\ applied' = Absent
    /\ UNCHANGED workload

\* What the last apply had and this one has not is taken away; what the
\* webhook filled in stays.  References are replaced as a whole: only their API
\* version could stay.
Merged(m) ==
    LET gone(f) == applied # Absent /\ applied[f] # Absent IN
    [f \in DOMAIN m |->
        IF m[f] # Absent THEN m[f] ELSE IF gone(f) THEN Absent ELSE stored[f]]

\* kubectl apply.
Apply(m) ==
    /\ Edit
    /\ IF stored = Absent
       THEN Admit(m) /\ named' = (m.scrapeRef # Absent) /\ moved' = FALSE
       ELSE /\ Admit(Merged(m))
            /\ named' = IF Merged(m).scrapeRef = Absent THEN FALSE
                        ELSE named \/ m.scrapeRef # Absent
            /\ moved' = (Merged(m).scrapeRef # Absent
                         /\ (moved \/ ~SameTarget(m.scale, stored.scale)))
    /\ applied' = m
    /\ UNCHANGED workload

Remove ==
    /\ Edit /\ stored # Absent
    /\ stored' = Absent /\ applied' = Absent /\ named' = FALSE /\ moved' = FALSE
    /\ UNCHANGED workload

Redeploy(sel) ==
    /\ Edit /\ sel # workload
    /\ workload' = sel
    /\ UNCHANGED <<stored, applied, named, moved>>

Next ==
    \/ \E m \in Manifest : Put(m) \/ Apply(m)
    \/ Remove
    \/ \E sel \in Selector : Redeploy(sel)

Spec == Init /\ [][Next]_vars

-----------------------------------------------------------------------------
(* What the controller and the scraper do with the stored object.          *)

\* build_hpa_spec.
HpaOf(m) ==
    [min |-> m.min, max |-> m.max, target |-> m.scale,
     metrics |-> {[x EXCEPT !.name = <<"external", @>>] : x \in m.metrics}]

\* process_epa and get_pod_selector: the workload whose pods are scraped.
TargetOf(m) == IF m.scrapeRef = Absent THEN m.scale ELSE m.scrapeRef

DivCeil(p, i) == (p + i - 1) \div i

AtLeastOne(n) == IF n < 1 THEN 1 ELSE n

\* max_samples: one a second at most.
MaxSamples(m) ==
    AtLeastOne(DivCeil(InSeconds(m.period), AtLeastOne(InSeconds(m.interval))))

\* The next deadline must be an Instant.
HasDeadline(m) == InSeconds(m.interval) <= MaxInstant

-----------------------------------------------------------------------------
(* Properties.                                                             *)

TypeOK ==
    /\ stored \in Complete \cup {Absent}
    /\ applied \in Manifest \cup {Absent}
    /\ named \in BOOLEAN /\ moved \in BOOLEAN
    /\ workload \in Selector
    /\ edits \in 0 .. MaxEdits

DurationsOf(m) == {m.interval, m.timeout, m.period}

CanBeScraped(m) ==
    /\ \A d \in DurationsOf(m) : Parses(d)
    /\ HasDeadline(m)
    /\ {m.path, m.scheme} \cap {Absent, Empty} = {}

\* The API server takes the HPA.
CanBeScaled(m) ==
    LET hpa == HpaOf(m) IN
    /\ hpa.min >= 1 /\ hpa.min <= hpa.max
    /\ {hpa.target.api, hpa.target.kind, hpa.target.name} \cap {Absent, Empty} = {}
    /\ hpa.metrics # {} /\ \A x \in hpa.metrics : IsQuantity(x.target)

\* Five pieces of code read what an author wrote: the validator, the parser of
\* durations, the sum of a duration and an Instant, the scrape and the HPA.
\* The validator lets in what the others fail on, and exactly this: to be scraped,
\* an object must have no duration with a plus sign, none whose minutes or hours
\* overflow u64, and no interval that leads past the last Instant; to be scaled, no
\* target that is "nan" or "inf", although handlers.rs:263 means to check for a
\* quantity.  Whatever the author did, every other object that is stored works.
WorksButForFour ==
    stored # Absent =>
        /\ CanBeScraped(stored) <=>
              /\ \A d \in DurationsOf(stored) : d.sign # "plus" /\ InSeconds(d) <= MaxU64
              /\ InSeconds(stored.interval) <= MaxInstant
        /\ CanBeScaled(stored) <=> \A x \in stored.metrics : x.target # "nan"

\* An object read and written back unchanged is admitted unchanged, whatever
\* history of edits it has.
ResubmittedUnchanged == stored # Absent => IsValid(Mutated(stored)) /\ Mutated(stored) = stored

\* The pods that are scraped are those that are scaled, as long as no author
\* named others and no apply moved the scale target under a copied reference.
ScrapesWhatItScales ==
    (stored # Absent /\ ~named /\ ~moved) => SameTarget(TargetOf(stored), HpaOf(stored).target)

\* A window has room for the samples of its period and for less than one more
\* interval, if both are whole seconds.
WindowSpansPeriod ==
    (stored # Absent /\ {stored.interval.unit, stored.period.unit} \subseteq {"s", "m", "h"}) =>
        LET interval == AtLeastOne(InSeconds(stored.interval))
            period   == InSeconds(stored.period)
        IN  /\ MaxSamples(stored) * interval >= period
            /\ MaxSamples(stored) > 1 => (MaxSamples(stored) - 1) * interval < period

\* A workload's selector that the scraper takes finds exactly the pods of the
\* workload, and the selector of an admitted metric finds the series it means,
\* if it has the values it needs.
SelectsTheSame ==
    \A labels \in Labels :
        /\ IsUsable(workload) =>
              (PodMatches(labels, SelectorPairs(workload)) <=> Selects(workload, labels))
        /\ stored # Absent =>
              \A x \in {y \in stored.metrics : y.selector # Absent} :
                  IsWellFormed(x.selector) =>
                      (MatchesLabelSelector(labels, x.selector) <=> Selects(x.selector, labels))
=============================================================================
