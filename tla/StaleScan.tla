----------------------------- MODULE StaleScan -----------------------------
(***************************************************************************)
(* find_stale_entities (internal/mcp/find_tools.go): a scan over all       *)
(* candidate entities that costs one recorder read each, spread over as    *)
(* many calls as the budget of one call demands.  A client begins without  *)
(* a cursor and hands each next cursor back; a call that fails is repeated *)
(* with the cursor it had.  Entities come and go meanwhile.                *)
(*                                                                         *)
(* An entity is its place in the order of ids.                             *)
(* times, stayed and done are what the client knows and what it is owed;   *)
(* discarded is the charge for which answered reads were last thrown away. *)
(***************************************************************************)
EXTENDS QueryBudget, Page

CONSTANTS
    Entities,       \* ids that match the filter of the request
    Private,        \* those the privacy profile withholds outright
    Requested,      \* the limits a client asks for
    Limits,         \* the budget of one call
    Estimate,       \* what Preflight expects one entity's history to cost
    HistorySizes,   \* how many points one entity's history may have
    RegistryCosts,  \* what the two registries cost: none if they are cached
    PageBytes,      \* the size of an answer
    MaxChanges,     \* bound: changes of the registry
    MaxFailures     \* bound: calls that end with an error

ASSUME EntityAssumption == Entities \subseteq Nat \ {0} /\ Private \subseteq Entities
ASSUME LimitAssumption == Requested \subseteq Int
ASSUME BudgetAssumption ==
    /\ Limits \in [Dimensions -> Nat] /\ Estimate \in [Dimensions -> Nat]
    /\ HistorySizes \subseteq Nat /\ PageBytes \subseteq Nat /\ RegistryCosts \subseteq Nat
ASSUME BoundAssumption == MaxChanges \in Nat /\ MaxFailures \in Nat

(* The registries leave at least one read to each call, and the budget one *)
(* history of the expected size (the limits of a normal read are 20        *)
(* requests, 13000 points and 512 KB; a week of history is estimated at    *)
(* 1057 points and 39 KB).                                                 *)
ASSUME FirstReadAssumption ==
    /\ \A c \in RegistryCosts : c < Limits["ha_requests"]
    /\ Affords(Unspent, Limits, Estimate) /\ Estimate["entities"] = 1

VARIABLES
    registry,   \* the entities there are now
    stayed,     \* those that have been there since the client began
    cursor,     \* the client's cursor
    times,      \* how often each entity was covered by a page the client got
    done,       \* the client has had a page without a cursor
    pc,         \* "idle" or "scan": a call is under way
    candidates, \* the call's own copy of the registry
    lastKey,    \* the last entity it has touched
    touched,    \* those it has examined or excluded
    scanned,    \* their number
    limit,      \* the resolved limit
    used,       \* its budget
    discarded,  \* the refused charge that threw answered reads away
    changes, failures

clientVars == <<registry, stayed, cursor, times, done>>
callVars == <<pc, candidates, lastKey, touched, scanned, limit, used>>
vars == <<clientVars, callVars, discarded, changes, failures>>

NoCharge == [dimension |-> "none", amount |-> 0]
Charge(d, n) == [dimension |-> d, amount |-> n]

TypeOK ==
    /\ registry \subseteq Entities /\ stayed \subseteq registry
    /\ cursor \in Entities \cup {NoCursor} /\ times \in [Entities -> Nat] /\ done \in BOOLEAN
    /\ pc \in {"idle", "scan"} /\ candidates \subseteq Entities
    /\ lastKey \in Entities \cup {NoCursor} /\ touched \subseteq Entities
    /\ scanned \in 0 .. MaxLimit /\ limit \in 0 .. MaxLimit /\ used \in [Dimensions -> Nat]
    /\ discarded \in [dimension : {"none"} \cup Dimensions, amount : Nat] /\ changes \in 0 .. MaxChanges /\ failures \in 0 .. MaxFailures

Init ==
    /\ registry \in SUBSET Entities /\ stayed = registry
    /\ cursor = NoCursor /\ times = [e \in Entities |-> 0] /\ done = FALSE
    /\ pc = "idle" /\ candidates = {} /\ lastKey = 0 /\ touched = {}
    /\ scanned = 0 /\ limit = 0 /\ used = Unspent
    /\ discarded = NoCharge /\ changes = 0 /\ failures = 0

(* The registry of Home Assistant changes.                                 *)
Change ==
    /\ changes < MaxChanges /\ ~done
    /\ registry' \in SUBSET Entities
    /\ stayed' = stayed \cap registry'
    /\ changes' = changes + 1
    /\ UNCHANGED <<cursor, times, done, callVars, discarded, failures>>

-----------------------------------------------------------------------------
(* One call.                                                               *)

(* Mutant: resuming at the cursor's entity, not after it.                  *)
Unexamined_Inclusive == {e \in candidates : e >= lastKey}

(* The candidates still ahead, and the first of them.                      *)
Unexamined == {e \in candidates : e > lastKey}

IsNext(e) == e \in Unexamined /\ \A f \in Unexamined : e <= f

(* The scan stops before a read it cannot pay for.                         *)
(* Mutant: only the number of requests is looked at.                       *)
CanRead_NoPreflight == used["ha_requests"] < Limits["ha_requests"]

CanRead ==
    /\ used["ha_requests"] < Limits["ha_requests"]
    /\ Affords(used, Limits, Estimate)

(* The registries are read, the candidates filtered, sorted and searched.  *)
Begin ==
    /\ pc = "idle" /\ ~done
    /\ \E requested \in Requested : limit' = ResolveLimit(requested)
    /\ \E cost \in RegistryCosts : used' = Charged(Unspent, "ha_requests", cost)
    /\ pc' = "scan" /\ candidates' = registry /\ lastKey' = cursor
    /\ touched' = {} /\ scanned' = 0
    /\ UNCHANGED <<clientVars, discarded, changes, failures>>

(* Mutant: an excluded entity does not move the cursor.                    *)
KeyAfterExcluded_Kept(e) == lastKey

KeyAfterExcluded(e) == e

(* A private entity under the deny profile is counted and passed over      *)
(* without a read.                                                         *)
Exclude ==
    /\ pc = "scan" /\ scanned < limit
    /\ \E e \in Private :
          /\ IsNext(e)
          /\ touched' = touched \cup {e} /\ scanned' = scanned + 1
          /\ lastKey' = KeyAfterExcluded(e)
    /\ UNCHANGED <<clientVars, pc, candidates, limit, used, discarded, changes, failures>>

(* The history read charges one request on its way out; its points and the *)
(* entity are charged when it has come back.                               *)
AfterRequest == Charged(used, "ha_requests", 1)

Read(e) ==
    /\ pc = "scan" /\ scanned < limit
    /\ IsNext(e) /\ e \notin Private
    /\ CanRead

(* The history came and was affordable: the entity is judged.              *)
Examine ==
    /\ \E e \in Entities, n \in HistorySizes :
          LET paid == Charged(AfterRequest, "history_points", n) IN
          /\ Read(e)
          /\ Fits(used, Limits, "ha_requests", 1)
          /\ Fits(used, Limits, "history_points", n) /\ Fits(used, Limits, "entities", 1)
          /\ used' = Charged(paid, "entities", 1)
          /\ touched' = touched \cup {e} /\ scanned' = scanned + 1 /\ lastKey' = e
    /\ UNCHANGED <<clientVars, pc, candidates, limit, discarded, changes, failures>>

(* The call ends with an error: nothing it did reaches the client, who     *)
(* keeps its cursor.                                                       *)
Abort ==
    /\ failures < MaxFailures
    /\ failures' = failures + 1
    /\ pc' = "idle"
    /\ UNCHANGED <<clientVars, candidates, lastKey, touched, scanned, limit, used, changes>>

(* The history came, and a charge for it is refused.                       *)
Overrun ==
    /\ \E e \in Entities, n \in HistorySizes :
          /\ Read(e)
          /\ Fits(used, Limits, "ha_requests", 1)
          /\ \/ /\ ~Fits(used, Limits, "history_points", n)
                /\ discarded' = Charge("history_points", n)
             \/ /\ Fits(used, Limits, "history_points", n)
                /\ ~Fits(used, Limits, "entities", 1)
                /\ discarded' = Charge("entities", 1)
    /\ Abort

(* Home Assistant refuses or fails: a registry or a history.               *)
Fail ==
    /\ pc = "scan"
    /\ UNCHANGED discarded
    /\ Abort

(* The loop is over: the candidates, the limit or the budget.              *)
LoopEnds ==
    \/ Unexamined = {}
    \/ scanned = limit
    \/ ~CanRead /\ \E e \in candidates \ Private : IsNext(e)

(* Mutant: a full page is taken for the last one.                          *)
Truncated_ByBudgetOnly == Unexamined # {} /\ scanned < limit

Truncated == Unexamined # {}

(* EncodeCursor of no key is no cursor, which a client takes for the end.  *)
NextCursor == IF Truncated THEN lastKey ELSE NoCursor

Deliver ==
    /\ pc = "scan" /\ LoopEnds
    /\ \E b \in PageBytes : Fits(used, Limits, "bytes", b)
    /\ times' = [e \in Entities |-> IF e \in touched THEN times[e] + 1 ELSE times[e]]
    /\ done' = (NextCursor = NoCursor)
    /\ cursor' = IF NextCursor = NoCursor THEN cursor ELSE NextCursor
    /\ pc' = "idle"
    /\ UNCHANGED <<registry, stayed, candidates, lastKey, touched, scanned, limit, used>>
    /\ UNCHANGED <<discarded, changes, failures>>

(* The answer itself does not fit.                                         *)
TooBig ==
    /\ pc = "scan" /\ LoopEnds
    /\ \E b \in PageBytes :
          /\ ~Fits(used, Limits, "bytes", b)
          /\ discarded' = IF touched \subseteq Private THEN discarded ELSE Charge("bytes", b)
    /\ Abort

Call == Begin \/ Exclude \/ Examine \/ Deliver

Next == Call \/ Overrun \/ TooBig \/ Fail \/ Change

Spec == Init /\ [][Next]_vars

(* The client asks until it is done, and Home Assistant answers; errors    *)
(* need not happen, and happen only so often.                              *)
FairSpec == Spec /\ WF_vars(Call)

-----------------------------------------------------------------------------
(* Properties.                                                             *)

(* "NextCursor resumes ... at the last entity actually touched, so a       *)
(* second call neither skips nor re-examines one" (phase 04, P4-05):       *)
(* StaleScan implements the promise of CursorScan.                         *)
Promise == INSTANCE CursorScan WITH Keys <- Entities, list <- registry

ImplementsCursorScan == Promise!Spec

(* The scan's two promises by name: nothing that stayed is skipped at the  *)
(* end, and nothing is covered twice.                                      *)
ScanComplete == Promise!Complete
ExaminedOnce == Promise!NothingTwice

(* No call spends more than its budget.                                    *)
WithinBudget == Within(used, Limits)

(* "A request that would exceed the budget is never issued and never       *)
(* discarded after being paid for" (phase 04, P4-05).                      *)
NothingPaidIsDiscarded == discarded = NoCharge

(* What does hold: reads are thrown away only for a history longer than    *)
(* Preflight expected, or for an answer larger than the whole budget, and  *)
(* never for what the checks before each read could have foreseen.         *)
OnlySurprisesDiscard ==
    \/ NothingPaidIsDiscarded
    \/ discarded.dimension = "history_points" /\ discarded.amount > Estimate["history_points"]
    \/ discarded.dimension = "bytes" /\ discarded.amount > Limits["bytes"]

(* A call keeps to its budget, and throws reads away for nothing that it   *)
(* could have foreseen (findStaleEntities, Preflight, the charges).        *)
SpendsWisely == WithinBudget /\ OnlySurprisesDiscard

(* A client that keeps handing its cursor back comes to the end, whatever  *)
(* page sizes it asks for, if calls fail only so often.                    *)
ScanEnds == <>done
=============================================================================
