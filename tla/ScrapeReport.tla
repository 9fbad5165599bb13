----------------------------- MODULE ScrapeReport -----------------------------
(***************************************************************************)
(* What the status of an EPA promises about its scrapes: the abstract      *)
(* specification that ScrapePipeline implements.                           *)
(*                                                                         *)
(* Every scrape that ends is a success or an error.  It is reported in     *)
(* status.scrapedReplicas or status.scrapeErrors (src/src/apis/ctx.sh/     *)
(* v1beta1/externalpodautoscaler.rs) of one round: not in none, and in two *)
(* only if the answer to the first report was lost.  Only what was counted *)
(* before the data of the EPA was removed may go unreported.               *)
(***************************************************************************)
EXTENDS Naturals

CONSTANTS Epa

VARIABLES
    running,      \* scrapes begun and not ended, per EPA
    unreported,   \* outcomes in no report yet, per EPA and kind
    stray,        \* outcomes of removed data, about to be reported or dropped
    status,       \* the last report, per EPA
    removals      \* how often data of an EPA was removed

vars == <<running, unreported, stray, status, removals>>

Count == [scraped : Nat, errors : Nat]
Zero  == [scraped |-> 0, errors |-> 0]
One   == {[Zero EXCEPT !.scraped = 1], [Zero EXCEPT !.errors = 1]}

Plus(m, n)  == [scraped |-> m.scraped + n.scraped, errors |-> m.errors + n.errors]
Minus(m, n) == [scraped |-> m.scraped - n.scraped, errors |-> m.errors - n.errors]
PartsOf(n)  == [scraped : 0 .. n.scraped, errors : 0 .. n.errors]

Init ==
    /\ running = [e \in Epa |-> 0]
    /\ unreported = [e \in Epa |-> Zero]
    /\ stray = [e \in Epa |-> Zero]
    /\ status = [e \in Epa |-> Zero]
    /\ removals = 0

Begin(e) ==
    /\ running' = [running EXCEPT ![e] = @ + 1]
    /\ UNCHANGED <<unreported, stray, status, removals>>

End(e) ==
    /\ running[e] > 0
    /\ running' = [running EXCEPT ![e] = @ - 1]
    /\ \E n \in One : unreported' = [unreported EXCEPT ![e] = Plus(@, n)]
    /\ UNCHANGED <<stray, status, removals>>

Report(e) ==
    /\ \E n \in PartsOf(unreported[e]) :
          /\ status' = [status EXCEPT ![e] = n]
          /\ unreported' = [unreported EXCEPT ![e] = Minus(@, n)]
    /\ UNCHANGED <<running, stray, removals>>

\* The status is written, and nobody learns that it was.
ReportUnanswered(e) ==
    /\ \E n \in PartsOf(unreported[e]) : status' = [status EXCEPT ![e] = n]
    /\ UNCHANGED <<running, unreported, stray, removals>>

Remove(e) ==
    /\ removals' = removals + 1
    /\ running' = [running EXCEPT ![e] = 0]
    /\ unreported' = [unreported EXCEPT ![e] = Zero]
    /\ \E n \in PartsOf(Plus(unreported[e], stray[e])) : stray' = [stray EXCEPT ![e] = n]
    /\ UNCHANGED status

Settle(e) ==
    /\ stray' = [stray EXCEPT ![e] = Zero]
    /\ status' \in {status, [status EXCEPT ![e] = stray[e]]}
    /\ UNCHANGED <<running, unreported, removals>>

Next ==
    \E e \in Epa :
        Begin(e) \/ End(e) \/ Report(e) \/ ReportUnanswered(e) \/ Remove(e) \/ Settle(e)

Spec == Init /\ [][Next]_vars
=============================================================================
