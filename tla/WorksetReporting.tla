-------------------------- MODULE WorksetReporting --------------------------
(***************************************************************************)
(* What a worker promises a coordinator about the items it admits: every   *)
(* admitted item that was not suppressed at submission is reported at most *)
(* once, as executed or as unstarted, and the summary of a workset is sent *)
(* only when each of its items is accounted for.  Only a session that has  *)
(* lost its integrity, or stops, may abandon an item.  WorkerWorksets      *)
(* implements this specification.                                          *)
(***************************************************************************)
CONSTANTS Worksets, Ordinals

VARIABLES
    admitted,     \* the worksets accepted so far
    suppressed,   \* items the submission's cancellation sidecar left out
    report,       \* [item -> "none", "executed" or "unstarted"]
    summarised,   \* worksets whose terminal summary was sent
    abandoned,    \* items that will never be reported
    sound         \* whether the session is neither tainted nor stopping

reportingVars == <<admitted, suppressed, report, summarised, abandoned>>

Items == Worksets \X Ordinals
ItemsOf(ws) == {ws} \X Ordinals
Accounted(ws) ==
    \A item \in ItemsOf(ws) : item \in suppressed \cup abandoned \/ report[item] # "none"

Init ==
    /\ admitted = {}
    /\ suppressed = {}
    /\ report = [item \in Items |-> "none"]
    /\ summarised = {}
    /\ abandoned = {}

Admit(ws) ==
    /\ ws \notin admitted
    /\ admitted' = admitted \cup {ws}
    /\ \E S \in SUBSET ItemsOf(ws) : suppressed' = suppressed \cup S
    /\ UNCHANGED <<report, summarised, abandoned>>

(* Some admitted items are reported and some worksets summarised: one      *)
(* handler of the worker may close a whole workset.                        *)
Report ==
    /\ report' \in [Items -> {"none", "executed", "unstarted"}]
    /\ \A item \in Items :
         \/ report'[item] = report[item]
         \/ report[item] = "none" /\ item[1] \in admitted /\ item \notin suppressed \cup abandoned
    /\ abandoned' \in SUBSET {item \in Items : item[1] \in admitted /\ report'[item] = "none"}
    /\ abandoned \subseteq abandoned'
    /\ sound' => abandoned' = abandoned
    /\ summarised' \in SUBSET admitted
    /\ summarised \subseteq summarised'
    /\ \A ws \in summarised' \ summarised : Accounted(ws)'
    /\ UNCHANGED <<admitted, suppressed>>

Next == (\E ws \in Worksets : Admit(ws)) \/ Report

Spec == Init /\ [][Next]_reportingVars
=============================================================================
