------------------------------- MODULE Selectors -------------------------------
(***************************************************************************)
(* Label selectors, three times: of a workload's pods (get_pod_selector,   *)
(* build_label_selector_string in src/src/scraper/worker.rs and the        *)
(* matching in pod_cache.rs), of the series of a metric                    *)
(* (matches_label_selector in worker.rs), and what Kubernetes means by one.*)
(*                                                                         *)
(* Labels are a function from keys to values.  A selector has matchLabels, *)
(* a function too, and matchExpressions, a set; the values of an           *)
(* expression are a set, or NoValues when the field is left out.           *)
(***************************************************************************)
EXTENDS FiniteSets

CONSTANTS NoValues

Pairs(labels) == {<<k, labels[k]>> : k \in DOMAIN labels}

\* Only `In` with one value can be written as an equality.
IsEquality(e) == e.operator = "In" /\ e.values # NoValues /\ Cardinality(e.values) = 1

\* The pairs of the selector string, key=value each.  A label has neither
\* commas nor equality signs, so they are the pairs parse_label_selector reads.
SelectorPairs(sel) ==
    Pairs(sel.matchLabels)
    \cup UNION {{<<e.key, v>> : v \in e.values} : e \in sel.matchExpressions}

\* What build_label_selector_string makes a string of.
IsUsable(sel) ==
    /\ \A e \in sel.matchExpressions : IsEquality(e)
    /\ SelectorPairs(sel) # {}

\* pod_matches_selector.
PodMatches(labels, pairs) == pairs \subseteq Pairs(labels)

(* Mutants: plausible bugs the runs are tested with; nothing else uses them. *)
AbsentMatches(labels, e) ==
    CASE e.operator = "In"           -> e.values = NoValues \/ e.key \notin DOMAIN labels
                                        \/ labels[e.key] \in e.values
      [] e.operator = "NotIn"        -> \/ e.values = NoValues \/ e.key \notin DOMAIN labels
                                        \/ labels[e.key] \notin e.values
      [] e.operator = "Exists"       -> e.key \in DOMAIN labels
      [] e.operator = "DoesNotExist" -> e.key \notin DOMAIN labels

\* One requirement of matches_label_selector.  Without values, In and NotIn
\* require nothing.
Meets(labels, e) ==
    CASE e.operator = "In"           -> \/ e.values = NoValues
                                        \/ e.key \in DOMAIN labels /\ labels[e.key] \in e.values
      [] e.operator = "NotIn"        -> \/ e.values = NoValues \/ e.key \notin DOMAIN labels
                                        \/ labels[e.key] \notin e.values
      [] e.operator = "Exists"       -> e.key \in DOMAIN labels
      [] e.operator = "DoesNotExist" -> e.key \notin DOMAIN labels

MatchesLabelSelector(labels, sel) ==
    /\ Pairs(sel.matchLabels) \subseteq Pairs(labels)
    /\ \A e \in sel.matchExpressions : Meets(labels, e)

-----------------------------------------------------------------------------
(* What Kubernetes means: each requirement admits some values of its key,  *)
(* or its absence.                                                         *)

ValueOf(labels, k) == {v \in {labels[x] : x \in DOMAIN labels} : <<k, v>> \in Pairs(labels)}

Selects(sel, labels) ==
    /\ \A k \in DOMAIN sel.matchLabels : ValueOf(labels, k) = {sel.matchLabels[k]}
    /\ \A e \in sel.matchExpressions :
          LET v == ValueOf(labels, e.key) IN
          CASE e.operator = "In"           -> v # {} /\ v \subseteq e.values
            [] e.operator = "NotIn"        -> v \cap e.values = {}
            [] e.operator = "Exists"       -> v # {}
            [] e.operator = "DoesNotExist" -> v = {}

\* Values are required for In and NotIn.
IsWellFormed(sel) ==
    \A e \in sel.matchExpressions : e.operator \in {"In", "NotIn"} => e.values # NoValues
=============================================================================
