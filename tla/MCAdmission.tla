------------------------------ MODULE MCAdmission ------------------------------
(***************************************************************************)
(* The instance of Admission that TLC checks: a plain manifest and those   *)
(* that differ from it in one or two fields.  u64 and Instant are scaled   *)
(* down, so that hours overflow the one and seconds the other.             *)
(***************************************************************************)
EXTENDS Admission

To(api, kind, name)   == [api |-> api, kind |-> kind, name |-> name]
Time(sign, n, unit)   == [sign |-> sign, number |-> n, unit |-> unit]
Metric(name, target)  == [name |-> name, target |-> target, selector |-> Absent]

Names == {"apps/v1", "v1", "StatefulSet", "Deployment", "a", "b", "m", "n", "/metrics",
          "/other", "relative", "http", "https", "ftp", "decimal", "nan", "suffixed"}

Plain ==
    [min |-> Absent, max |-> 3, scale |-> To(Absent, "StatefulSet", "a"), scrapeRef |-> Absent,
     metrics |-> {Metric("m", "decimal")}, port |-> Absent, path |-> Absent,
     scheme |-> Absent, interval |-> Absent, timeout |-> Absent, period |-> Absent]

Odd == {Empty, Time("plus", 5, "s"), Time("none", NotANumber, "s"), Time("none", 3000, "h"),
        Seconds(3000), Time("none", 1, "d")}
Times == {Seconds(0), Seconds(7), Time("none", 2, "m"), Time("none", 1500, "ms")}

Keys == {"k", "l"}
Vals == {"x", "y"}

LabelSets == UNION {[ks -> Vals] : ks \in SUBSET Keys}

Requirement(op, values) == [key |-> "k", operator |-> op, values |-> values]
Requirements ==
    {Requirement(op, values) : op \in {"In", "NotIn"}, values \in (SUBSET Vals) \cup {NoValues}}
    \cup {Requirement(op, NoValues) : op \in {"Exists", "DoesNotExist"}}

NoLabels == [k \in {} |-> "x"]
Sel(labels, expressions) == [matchLabels |-> labels, matchExpressions |-> expressions]

MetricSelectors ==
    {Sel(labels, {e}) : labels \in {NoLabels, [k \in {"l"} |-> "x"]}, e \in Requirements}

PodSelectors ==
    {Sel(NoLabels, {}), Sel([k \in Keys |-> "x"], {}),
     Sel(NoLabels, {Requirement("In", {"x"})}), Sel(NoLabels, {Requirement("In", Vals)}),
     Sel([k \in {"l"} |-> "y"], {Requirement("In", {"x"})}),
     Sel([k \in {"k"} |-> "y"], {Requirement("In", {"x"})})}

Manifests ==
    {Plain}
    \cup {[Plain EXCEPT !.min = n] : n \in {-1, 0, 3, 5}}
    \cup {[Plain EXCEPT !.scale = r] :
             r \in {To(Absent, "StatefulSet", "b"), To(Empty, "Deployment", "a"),
                    To(Absent, Empty, "a"), To("v1", "Deployment", Empty)}}
    \cup {[Plain EXCEPT !.scrapeRef = To(Absent, "Deployment", "b"), !.scale.name = n] :
             n \in {"a", "b"}}
    \cup {[Plain EXCEPT !.metrics = s] :
             s \in {{}} \cup {{Metric("m", "decimal"), Metric(n, t)} :
                               n \in {"n", Empty}, t \in {"nan", "suffixed", Empty}}}
    \cup {[Plain EXCEPT !.metrics = {[name |-> "m", target |-> "decimal", selector |-> s]}] :
             s \in MetricSelectors}
    \cup {[Plain EXCEPT !.port = n, !.path = p] : n \in {0, 70000}, p \in {Empty, "relative", "/other"}}
    \cup {[Plain EXCEPT !.scheme = s] : s \in {Empty, "https", "ftp"}}
    \cup {[Plain EXCEPT !.interval = i, !.period = p] : i \in Times, p \in Times}
    \cup {[Plain EXCEPT !.interval = d] : d \in Odd}
    \cup {[Plain EXCEPT !.period = d] : d \in Odd}
    \cup {[Plain EXCEPT !.timeout = d] : d \in Odd \cup Times}
=============================================================================
