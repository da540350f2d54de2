---------------------------- MODULE QueryBudget ----------------------------
(***************************************************************************)
(* One invocation's budget (internal/policy/budget.go, preflight.go): what *)
(* a charge does and when it is refused.  A state of the budget is a       *)
(* record with one number per dimension; each method is one critical       *)
(* section of b.mu, so the modules that charge take it as one step.        *)
(***************************************************************************)
EXTENDS Integers

Dimensions == {"ha_requests", "history_points", "entities", "bytes"}

Unspent == [d \in Dimensions |-> 0]

(* Mutant: what is left decides, not what is asked for.                    *)
Fits_AnyLeft(used, limits, d, n) == n >= 0 /\ used[d] < limits[d]

(* checkLocked: a charge is applied whole or not at all.                   *)
Fits(used, limits, d, n) == n >= 0 /\ used[d] + n <= limits[d]

Charged(used, d, n) == [used EXCEPT ![d] = @ + n]

(* Preflight: whether what is left affords what a query is estimated to    *)
(* cost.  It charges nothing.                                              *)
Affords(used, limits, estimate) ==
    \A d \in {"entities", "bytes", "history_points"} : used[d] + estimate[d] <= limits[d]

(* A charge never takes a dimension past its limit, and a refused one      *)
(* leaves no trace.                                                        *)
Within(used, limits) == \A d \in Dimensions : used[d] <= limits[d]
=============================================================================
