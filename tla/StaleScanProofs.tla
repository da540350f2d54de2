-------------------------- MODULE StaleScanProofs --------------------------
(***************************************************************************)
(* Theorems about StaleScan for any set of entities, any page sizes, any   *)
(* budget that affords one read, and any histories.                        *)
(***************************************************************************)
EXTENDS StaleScan, TLAPS

USE DEF NoCursor

-----------------------------------------------------------------------------
(* Charges.                                                                *)

LEMMA Resolved == ASSUME NEW r \in Int PROVE ResolveLimit(r) \in 1 .. MaxLimit
  BY PageLimitAssumption DEF ResolveLimit

LEMMA ChargedType ==
    ASSUME NEW u \in [Dimensions -> Nat], NEW d \in Dimensions, NEW n \in Nat
    PROVE  /\ Charged(u, d, n) \in [Dimensions -> Nat]
           /\ Charged(u, d, n)[d] = u[d] + n
           /\ \A f \in Dimensions : f # d => Charged(u, d, n)[f] = u[f]
  BY DEF Charged

LEMMA UnspentType == Unspent \in [Dimensions -> Nat] /\ \A d \in Dimensions : Unspent[d] = 0
  BY DEF Unspent

-----------------------------------------------------------------------------
(* Type correctness.                                                       *)

(* A call that fails leaves everything but its failure behind.             *)
LEMMA AbortType ==
    ASSUME TypeOK, Abort, discarded' \in [dimension : {"none"} \cup Dimensions, amount : Nat]
    PROVE  TypeOK'
  BY BoundAssumption DEF TypeOK, Abort, clientVars

LEMMA ChargeType ==
    ASSUME NEW d \in {"none"} \cup Dimensions, NEW n \in Nat
    PROVE  /\ Charge(d, n) \in [dimension : {"none"} \cup Dimensions, amount : Nat]
           /\ NoCharge \in [dimension : {"none"} \cup Dimensions, amount : Nat]
  BY DEF Charge, NoCharge

LEMMA InitType == Init => TypeOK
  <1> SUFFICES ASSUME Init PROVE TypeOK
    OBVIOUS
  <1>1. 0 \in 0 .. MaxLimit /\ 0 \in 0 .. MaxChanges /\ 0 \in 0 .. MaxFailures
    BY BoundAssumption, PageLimitAssumption
  <1>2. times \in [Entities -> Nat] /\ registry \subseteq Entities
    BY DEF Init
  <1>3. "none" \in {"none"} \cup Dimensions /\ 0 \in Nat
    OBVIOUS
  <1>4. discarded \in [dimension : {"none"} \cup Dimensions, amount : Nat]
    BY <1>3, ChargeType DEF Init
  <1> QED BY UnspentType, <1>1, <1>2, <1>4 DEF Init, TypeOK

LEMMA NextType == TypeOK /\ [Next]_vars => TypeOK'
  <1> SUFFICES ASSUME TypeOK, [Next]_vars PROVE TypeOK'
    OBVIOUS
  <1> USE DEF TypeOK
  <1>0. /\ Entities \subseteq Nat /\ Private \subseteq Entities /\ MaxLimit \in Nat
        /\ MaxChanges \in Nat /\ MaxFailures \in Nat
        /\ {"ha_requests", "history_points", "entities", "bytes"} = Dimensions
    BY EntityAssumption, PageLimitAssumption, BoundAssumption DEF Dimensions
  <1>1. CASE Begin
    <2>1. limit' \in 0 .. MaxLimit
      BY <1>1, Resolved, LimitAssumption, PageLimitAssumption DEF Begin
    <2>2. used' \in [Dimensions -> Nat]
      <3>1. PICK cost \in RegistryCosts : used' = Charged(Unspent, "ha_requests", cost)
        BY <1>1 DEF Begin
      <3> QED BY <1>0, <3>1, UnspentType, ChargedType, BudgetAssumption
    <2> QED BY <1>1, <1>0, <2>1, <2>2 DEF Begin, clientVars
  <1>2. CASE Exclude
    BY <1>2, <1>0 DEF Exclude, IsNext, Unexamined, KeyAfterExcluded, clientVars
  <1>3. CASE Examine
    <2>1. PICK e \in Entities, n \in HistorySizes :
              /\ Read(e)
              /\ used' = Charged(Charged(AfterRequest, "history_points", n), "entities", 1)
              /\ touched' = touched \cup {e} /\ scanned' = scanned + 1 /\ lastKey' = e
      BY <1>3 DEF Examine
    <2>2. used' \in [Dimensions -> Nat]
      <3>1. AfterRequest \in [Dimensions -> Nat]
        BY <1>0, ChargedType DEF AfterRequest
      <3>2. Charged(AfterRequest, "history_points", n) \in [Dimensions -> Nat]
        BY <1>0, <3>1, ChargedType, BudgetAssumption
      <3> QED BY <1>0, <2>1, <3>2, ChargedType
    <2> QED BY <1>3, <1>0, <2>1, <2>2 DEF Examine, Read, clientVars
  <1>4. CASE Overrun
    <2>1. PICK n \in HistorySizes :
              discarded' = Charge("history_points", n) \/ discarded' = Charge("entities", 1)
      BY <1>4 DEF Overrun
    <2>2. n \in Nat /\ {"history_points", "entities"} \subseteq {"none"} \cup Dimensions
      BY BudgetAssumption DEF Dimensions
    <2>3. discarded' \in [dimension : {"none"} \cup Dimensions, amount : Nat]
      <3>1. CASE discarded' = Charge("history_points", n)
        BY <2>2, <3>1, ChargeType
      <3>2. CASE discarded' = Charge("entities", 1)
        BY <2>2, <3>2, ChargeType
      <3> QED BY <2>1, <3>1, <3>2
    <2> QED BY <1>4, <2>3, AbortType DEF Overrun
  <1>5. CASE Deliver
    BY <1>5, <1>0 DEF Deliver, NextCursor, Truncated
  <1>6. CASE TooBig
    <2>1. PICK b \in PageBytes : discarded' = discarded \/ discarded' = Charge("bytes", b)
      BY <1>6 DEF TooBig
    <2>2. b \in Nat /\ "bytes" \in {"none"} \cup Dimensions
      BY BudgetAssumption DEF Dimensions
    <2>3. discarded' \in [dimension : {"none"} \cup Dimensions, amount : Nat]
      BY <2>1, <2>2, ChargeType
    <2> QED BY <1>6, <2>3, AbortType DEF TooBig
  <1>7. CASE Fail
    BY <1>7, <1>0 DEF Fail, Abort, clientVars
  <1>8. CASE Change
    BY <1>8, <1>0 DEF Change, callVars
  <1>9. CASE UNCHANGED vars
    BY <1>9 DEF vars, clientVars, callVars
  <1> QED BY <1>1, <1>2, <1>3, <1>4, <1>5, <1>6, <1>7, <1>8, <1>9 DEF Next, Call

(* The client, the call and its budget always have their types; a page     *)
(* never covers more entities than the largest limit.                      *)
THEOREM TypeCorrect == Spec => []TypeOK
  BY InitType, NextType, PTL DEF Spec

-----------------------------------------------------------------------------
(* The budget.                                                             *)

(* A call that has not touched anything can still afford its first read.   *)
Budgeted ==
    /\ WithinBudget
    /\ used["bytes"] = 0
    /\ pc = "scan" /\ scanned = 0 => CanRead

LEMMA InitBudget == Init => Budgeted
  BY UnspentType, BudgetAssumption DEF Init, Budgeted, WithinBudget, Within, Dimensions

LEMMA NextBudget == TypeOK /\ Budgeted /\ [Next]_vars => Budgeted'
  <1> SUFFICES ASSUME TypeOK, Budgeted, [Next]_vars PROVE Budgeted'
    OBVIOUS
  <1>0. /\ {"ha_requests", "history_points", "entities", "bytes"} = Dimensions
        /\ used \in [Dimensions -> Nat] /\ Limits \in [Dimensions -> Nat]
        /\ Estimate \in [Dimensions -> Nat] /\ scanned \in Nat
        /\ \A d \in Dimensions : used[d] <= Limits[d]
    BY BudgetAssumption DEF Dimensions, TypeOK, Budgeted, WithinBudget, Within
  <1>1. CASE Begin
    <2>1. PICK cost \in RegistryCosts : used' = Charged(Unspent, "ha_requests", cost)
      BY <1>1 DEF Begin
    <2>2. cost \in Nat /\ cost < Limits["ha_requests"]
      BY BudgetAssumption, FirstReadAssumption
    <2>3. /\ used'["ha_requests"] = cost /\ used'["history_points"] = 0
          /\ used'["entities"] = 0 /\ used'["bytes"] = 0
      BY <2>1, <2>2 DEF Charged, Unspent, Dimensions
    <2>4. \A d \in Dimensions : used'[d] <= Limits[d]
      BY <1>0, <2>2, <2>3 DEF Dimensions
    <2>5. /\ Estimate["entities"] <= Limits["entities"] /\ Estimate["bytes"] <= Limits["bytes"]
          /\ Estimate["history_points"] <= Limits["history_points"]
      BY <1>0, UnspentType, FirstReadAssumption DEF Affords
    <2>6. CanRead'
      BY <1>0, <2>2, <2>3, <2>5 DEF CanRead, Affords
    <2> QED BY <2>3, <2>4, <2>6 DEF Budgeted, WithinBudget, Within
  <1>2. CASE Examine
    <2>1. PICK e \in Entities, n \in HistorySizes :
              /\ Fits(used, Limits, "ha_requests", 1)
              /\ Fits(used, Limits, "history_points", n) /\ Fits(used, Limits, "entities", 1)
              /\ used' = Charged(Charged(AfterRequest, "history_points", n), "entities", 1)
              /\ scanned' = scanned + 1
      BY <1>2 DEF Examine
    <2>2. n \in Nat
      BY BudgetAssumption
    <2>3. /\ AfterRequest \in [Dimensions -> Nat]
          /\ AfterRequest["ha_requests"] = used["ha_requests"] + 1
          /\ AfterRequest["history_points"] = used["history_points"]
          /\ AfterRequest["entities"] = used["entities"] /\ AfterRequest["bytes"] = used["bytes"]
      BY <1>0 DEF AfterRequest, Charged, Dimensions
    <2> DEFINE paid == Charged(AfterRequest, "history_points", n)
    <2>4. /\ paid \in [Dimensions -> Nat]
          /\ paid["history_points"] = used["history_points"] + n
          /\ paid["ha_requests"] = used["ha_requests"] + 1
          /\ paid["entities"] = used["entities"] /\ paid["bytes"] = used["bytes"]
      BY <2>2, <2>3 DEF Charged, Dimensions
    <2> HIDE DEF paid
    <2>5. /\ used'["entities"] = used["entities"] + 1 /\ used'["bytes"] = used["bytes"]
          /\ used'["history_points"] = used["history_points"] + n
          /\ used'["ha_requests"] = used["ha_requests"] + 1
      <3>1. used' = Charged(paid, "entities", 1)
        BY <2>1 DEF paid
      <3> QED BY <2>4, <3>1 DEF Charged, Dimensions
    <2>6. \A d \in Dimensions : used'[d] <= Limits[d]
      BY <1>0, <2>1, <2>5 DEF Dimensions, Fits
    <2>7. scanned' # 0 /\ used'["bytes"] = 0
      BY <1>0, <2>1, <2>5 DEF Budgeted
    <2> QED BY <2>6, <2>7 DEF Budgeted, WithinBudget, Within
  <1>3. CASE Exclude
    <2>1. used' = used /\ scanned' # 0
      BY <1>0, <1>3 DEF Exclude
    <2> QED BY <2>1 DEF Budgeted, WithinBudget, Within
  <1>4. CASE Overrun \/ Deliver \/ TooBig \/ Fail
    <2>1. used' = used /\ pc' = "idle"
      BY <1>4 DEF Overrun, Deliver, TooBig, Fail, Abort
    <2> QED BY <2>1 DEF Budgeted, WithinBudget, Within
  <1>5. CASE Change \/ UNCHANGED vars
    BY <1>5 DEF Change, vars, callVars, Budgeted, WithinBudget, Within, CanRead, Affords
  <1> QED BY <1>1, <1>2, <1>3, <1>4, <1>5 DEF Next, Call

(* No call spends more than its budget on any dimension.                   *)
THEOREM SpendsWithinBudget == Spec => []WithinBudget
  <1>1. Budgeted => WithinBudget
    BY DEF Budgeted
  <1> QED BY InitType, NextType, InitBudget, NextBudget, <1>1, PTL DEF Spec

(* No answered read is thrown away but for a history longer than Preflight *)
(* expected, or for an answer larger than the whole budget: what was       *)
(* expected is compared with what is left before each read.                *)
THEOREM OnlySurprises == Spec => []OnlySurprisesDiscard
  <1>1. Init => OnlySurprisesDiscard
    BY DEF Init, OnlySurprisesDiscard, NothingPaidIsDiscarded
  <1>2. TypeOK /\ Budgeted /\ OnlySurprisesDiscard /\ [Next]_vars => OnlySurprisesDiscard'
    <2> SUFFICES ASSUME TypeOK, Budgeted, OnlySurprisesDiscard, [Next]_vars
                 PROVE  OnlySurprisesDiscard'
      OBVIOUS
    <2>0. /\ {"ha_requests", "history_points", "entities", "bytes"} = Dimensions
          /\ used \in [Dimensions -> Nat] /\ Limits \in [Dimensions -> Nat]
          /\ Estimate \in [Dimensions -> Nat]
      BY BudgetAssumption DEF Dimensions, TypeOK
    <2>1. CASE Overrun
      <3>1. PICK n \in HistorySizes :
                /\ CanRead
                /\ \/ /\ ~Fits(used, Limits, "history_points", n)
                      /\ discarded' = Charge("history_points", n)
                   \/ ~Fits(used, Limits, "entities", 1)
        BY <2>1 DEF Overrun, Read
      <3>2. n \in Nat /\ Estimate["entities"] = 1
        BY BudgetAssumption, FirstReadAssumption
      <3>3. /\ used["entities"] + Estimate["entities"] <= Limits["entities"]
            /\ used["history_points"] + Estimate["history_points"] <= Limits["history_points"]
        BY <3>1 DEF CanRead, Affords
      <3>4. Fits(used, Limits, "entities", 1)
        BY <2>0, <3>2, <3>3 DEF Fits
      <3>5. n > Estimate["history_points"]
        BY <2>0, <3>1, <3>2, <3>3, <3>4 DEF Fits
      <3> QED BY <3>1, <3>4, <3>5 DEF OnlySurprisesDiscard, Charge
    <2>2. CASE TooBig
      <3>1. PICK b \in PageBytes :
                /\ ~Fits(used, Limits, "bytes", b)
                /\ discarded' = discarded \/ discarded' = Charge("bytes", b)
        BY <2>2 DEF TooBig
      <3>2. b \in Nat /\ used["bytes"] = 0
        BY BudgetAssumption DEF Budgeted
      <3>3. b > Limits["bytes"]
        BY <2>0, <3>1, <3>2 DEF Fits
      <3> QED BY <3>1, <3>3 DEF OnlySurprisesDiscard, NothingPaidIsDiscarded, Charge
    <2>3. CASE Begin \/ Exclude \/ Examine \/ Deliver \/ Fail \/ Change \/ UNCHANGED vars
      <3>1. discarded' = discarded
        BY <2>3 DEF Begin, Exclude, Examine, Deliver, Fail, Change, vars
      <3> QED BY <3>1 DEF OnlySurprisesDiscard, NothingPaidIsDiscarded
    <2> QED BY <2>1, <2>2, <2>3 DEF Next, Call
  <1> QED BY InitType, NextType, InitBudget, NextBudget, <1>1, <1>2, PTL DEF Spec

-----------------------------------------------------------------------------
(* The scan implements CursorScan.                                         *)

(* What a call under way knows: it has touched what lies between the       *)
(* client's cursor and its own last key, and missed nothing that stayed.   *)
Covered ==
    pc = "scan" =>
        /\ ~done /\ limit > 0
        /\ stayed \subseteq candidates
        /\ \A k \in touched : cursor < k /\ k <= lastKey
        /\ \A k \in stayed : cursor < k /\ k <= lastKey => k \in touched
        /\ scanned = 0 => lastKey = cursor
        /\ scanned # 0 => cursor < lastKey

LEMMA InitCovered == Init => Covered
  BY DEF Init, Covered

(* Going on to the next candidate keeps a call's knowledge true.           *)
LEMMA StepCovered ==
    ASSUME TypeOK, Covered, pc = "scan", NEW e \in Entities, IsNext(e),
           touched' = touched \cup {e}, scanned' = scanned + 1, lastKey' = e,
           UNCHANGED <<clientVars, candidates, limit>>
    PROVE  Covered'
  <1>0. Entities \subseteq Int /\ lastKey \in Int /\ cursor \in Int /\ scanned \in Nat
    BY EntityAssumption DEF TypeOK
  <1>1. e \in candidates /\ lastKey < e /\ \A f \in candidates : f > lastKey => e <= f
    BY <1>0 DEF IsNext, Unexamined
  <1>2. /\ cursor' = cursor /\ stayed' = stayed /\ done' = done
        /\ candidates' = candidates /\ limit' = limit
    BY DEF clientVars
  <1>3. cursor <= lastKey
    BY <1>0 DEF Covered
  <1>4. \A k \in touched' : cursor < k /\ k <= e
    <2> SUFFICES ASSUME NEW k \in touched \cup {e} PROVE cursor < k /\ k <= e
      OBVIOUS
    <2>1. CASE k = e
      BY <2>1, <1>0, <1>1, <1>3
    <2>2. CASE k \in touched
      <3>1. k \in Int
        BY <2>2, <1>0 DEF TypeOK
      <3> QED BY <2>2, <3>1, <1>0, <1>1 DEF Covered
    <2> QED BY <2>1, <2>2
  <1>5. \A k \in stayed : cursor < k /\ k <= e => k \in touched'
    <2> SUFFICES ASSUME NEW k \in stayed, cursor < k, k <= e PROVE k \in touched \cup {e}
      OBVIOUS
    <2>1. k \in candidates /\ k \in Int
      BY <1>0 DEF Covered, TypeOK
    <2>2. CASE k <= lastKey
      BY <2>2 DEF Covered
    <2>3. CASE k > lastKey
      BY <2>1, <2>3, <1>0, <1>1
    <2> QED BY <2>1, <2>2, <2>3, <1>0
  <1>6. scanned' # 0 /\ cursor < e
    BY <1>0, <1>1, <1>3
  <1> QED BY <1>2, <1>4, <1>5, <1>6 DEF Covered

LEMMA NextCovered == TypeOK /\ Covered /\ [Next]_vars => Covered'
  <1> SUFFICES ASSUME TypeOK, Covered, [Next]_vars PROVE Covered'
    OBVIOUS
  <1>1. CASE Begin
    <2>1. limit' > 0
      <3>1. PICK r \in Requested : limit' = ResolveLimit(r)
        BY <1>1 DEF Begin
      <3>2. ResolveLimit(r) \in 1 .. MaxLimit
        BY LimitAssumption, Resolved
      <3> QED BY <3>1, <3>2, PageLimitAssumption
    <2>2. /\ ~done' /\ cursor' = cursor /\ lastKey' = cursor /\ touched' = {} /\ scanned' = 0
          /\ stayed' = stayed /\ candidates' = registry
      BY <1>1 DEF Begin, clientVars
    <2>3. \A k \in stayed : ~(cursor < k /\ k <= cursor)
      <3>1. cursor \in Int /\ \A k \in stayed : k \in Int
        BY EntityAssumption DEF TypeOK
      <3> QED BY <3>1
    <2> QED BY <2>1, <2>2, <2>3 DEF Covered, TypeOK
  <1>2. CASE Exclude
    <2>1. PICK e \in Private :
              IsNext(e) /\ touched' = touched \cup {e} /\ scanned' = scanned + 1 /\ lastKey' = e
      BY <1>2 DEF Exclude, KeyAfterExcluded
    <2> QED BY <1>2, <2>1, EntityAssumption, StepCovered DEF Exclude
  <1>3. CASE Examine
    <2>1. PICK e \in Entities :
              Read(e) /\ touched' = touched \cup {e} /\ scanned' = scanned + 1 /\ lastKey' = e
      BY <1>3 DEF Examine
    <2> QED BY <1>3, <2>1, StepCovered DEF Examine, Read
  <1>4. CASE Overrun \/ Deliver \/ TooBig \/ Fail
    <2>1. pc' = "idle"
      BY <1>4 DEF Overrun, Deliver, TooBig, Fail, Abort
    <2> QED BY <2>1 DEF Covered
  <1>5. CASE Change
    BY <1>5 DEF Change, callVars, Covered
  <1>6. CASE UNCHANGED vars
    BY <1>6 DEF vars, clientVars, callVars, Covered
  <1> QED BY <1>1, <1>2, <1>3, <1>4, <1>5, <1>6 DEF Next, Call

(* An answer is a page of the promise: the last one if it has no cursor,   *)
(* and otherwise one that has moved on, because a call always affords its  *)
(* first read.                                                             *)
LEMMA DeliverIsPage ==
    ASSUME TypeOK, Budgeted, Covered, Deliver
    PROVE  Promise!Next
  <1>0. /\ Entities \subseteq Int /\ 0 \notin Entities /\ lastKey \in Entities \cup {0}
        /\ cursor \in Entities \cup {0} /\ scanned \in Nat /\ touched \in SUBSET Entities
        /\ stayed \subseteq Entities
    BY EntityAssumption DEF TypeOK
  <1>1. /\ ~done /\ limit > 0 /\ stayed \subseteq candidates
        /\ \A k \in touched : cursor < k /\ k <= lastKey
        /\ \A k \in stayed : cursor < k /\ k <= lastKey => k \in touched
        /\ scanned # 0 => cursor < lastKey
    BY DEF Deliver, Covered
  <1>2. Promise!Give(touched)
    BY DEF Deliver, Promise!Give
  <1>3. CASE Unexamined = {}
    <2>1. done' = TRUE /\ cursor' = cursor /\ registry' = registry /\ stayed' = stayed
      BY <1>3 DEF Deliver, NextCursor, Truncated
    <2>2. \A k \in stayed : cursor < k => k \in touched
      <3> SUFFICES ASSUME NEW k \in stayed, cursor < k PROVE k \in touched
        OBVIOUS
      <3>1. k \in candidates /\ ~(k > lastKey)
        BY <1>1, <1>3 DEF Unexamined
      <3> QED BY <3>1, <1>0, <1>1
    <2>3. Promise!Last
      BY <1>0, <1>1, <1>2, <2>1, <2>2 DEF Promise!Last
    <2> QED BY <2>3 DEF Promise!Next
  <1>4. CASE Unexamined # {}
    <2>1. scanned # 0
      <3> SUFFICES ASSUME scanned = 0 PROVE FALSE
        OBVIOUS
      <3>1. CanRead
        BY DEF Budgeted, Deliver
      <3>2. scanned # limit
        BY <1>1
      <3> QED BY <1>4, <3>1, <3>2 DEF Deliver, LoopEnds
    <2>2. cursor < lastKey /\ lastKey \in Entities
      <3>1. cursor < lastKey /\ cursor >= 0
        BY <2>1, <1>0, <1>1, EntityAssumption
      <3> QED BY <3>1, <1>0
    <2>3. /\ done' = FALSE /\ done' = done /\ cursor' = lastKey
          /\ registry' = registry /\ stayed' = stayed
      <3>1. NextCursor = lastKey /\ NextCursor # NoCursor
        BY <1>0, <1>4, <2>2 DEF NextCursor, Truncated
      <3>2. /\ done' = (NextCursor = NoCursor) /\ registry' = registry /\ stayed' = stayed
            /\ cursor' = IF NextCursor = NoCursor THEN cursor ELSE NextCursor
        BY DEF Deliver
      <3>3. done' = FALSE
        BY <3>1, <3>2
      <3>4. done = FALSE
        BY <1>1 DEF TypeOK
      <3> QED BY <3>1, <3>2, <3>3, <3>4
    <2>4. Promise!More
      BY <1>0, <1>1, <1>2, <2>2, <2>3 DEF Promise!More
    <2> QED BY <2>4 DEF Promise!Next
  <1> QED BY <1>3, <1>4

LEMMA InitPromise == Init => Promise!Init
  BY DEF Init, Promise!Init

LEMMA NextPromise ==
    TypeOK /\ Budgeted /\ Covered /\ [Next]_vars => [Promise!Next]_Promise!vars
  <1> SUFFICES ASSUME TypeOK, Budgeted, Covered, [Next]_vars
               PROVE  Promise!Next \/ UNCHANGED Promise!vars
    OBVIOUS
  <1>1. CASE Deliver
    BY <1>1, DeliverIsPage
  <1>2. CASE Change
    BY <1>2 DEF Change, Promise!Next, Promise!Change
  <1>3. CASE Begin \/ Exclude \/ Examine \/ Overrun \/ TooBig \/ Fail \/ UNCHANGED vars
    BY <1>3 DEF Begin, Exclude, Examine, Overrun, TooBig, Fail, Abort, vars, clientVars, Promise!vars
  <1> QED BY <1>1, <1>2, <1>3 DEF Next, Call

(* The scan implements the promise of CursorScan, whatever it costs, how-  *)
(* ever often it is refused or fails, and however the registry changes.    *)
THEOREM ScanKeepsThePromise == Spec => ImplementsCursorScan
  BY InitType, NextType, InitBudget, NextBudget, InitCovered, NextCovered,
     InitPromise, NextPromise, PTL DEF Spec, ImplementsCursorScan, Promise!Spec

-----------------------------------------------------------------------------
(* Why a walk that keeps the promise skips nothing and gives nothing twice *)
(* (Divided, in CursorScan).                                               *)

LEMMA InitFaithful ==
    ASSUME Promise!KeysFollowZero PROVE Promise!Init => Promise!Faithful
  <1> SUFFICES ASSUME Promise!Init PROVE Promise!Faithful
    OBVIOUS
  <1>1. /\ registry \subseteq Entities /\ stayed = registry /\ cursor = 0 /\ ~done /\ done \in BOOLEAN
        /\ times \in [Entities -> Nat] /\ \A k \in Entities : times[k] = 0
    BY DEF Promise!Init
  <1>2. \A k \in Entities : k \in Nat /\ ~(k <= 0)
    BY DEF Promise!KeysFollowZero
  <1>3. Promise!Divided
    BY <1>1, <1>2 DEF Promise!Divided
  <1> QED BY <1>1, <1>3 DEF Promise!Faithful, Promise!TypeOK, Promise!Complete, Promise!NothingTwice

(* What a page does to the number of times a record was given.             *)
LEMMA Given ==
    ASSUME Promise!KeysFollowZero, Promise!Faithful, ~done, NEW page \in SUBSET Entities, Promise!Give(page), \A k \in page : cursor < k
    PROVE  /\ times' \in [Entities -> Nat] /\ \A k \in Entities : times'[k] <= 1
           /\ \A k \in Entities : k \in page => times'[k] = 1
           /\ \A k \in Entities : k \notin page => times'[k] = times[k]
  <1>1. /\ times \in [Entities -> Nat] /\ \A k \in Entities : times[k] <= 1
        /\ \A k \in Entities : k > cursor => times[k] = 0
        /\ cursor \in Int /\ Entities \subseteq Int
    BY DEF Promise!KeysFollowZero, Promise!Faithful, Promise!TypeOK, Promise!Divided, Promise!NothingTwice
  <1>2. \A k \in page : times[k] = 0
    BY <1>1
  <1> QED BY <1>1, <1>2 DEF Promise!Give

LEMMA NextFaithful ==
    ASSUME Promise!KeysFollowZero PROVE Promise!Faithful /\ [Promise!Next]_Promise!vars => Promise!Faithful'
  <1> SUFFICES ASSUME Promise!Faithful, [Promise!Next]_Promise!vars PROVE Promise!Faithful'
    OBVIOUS
  <1>0. /\ registry \subseteq Entities /\ stayed \subseteq registry /\ cursor \in Entities \cup {0}
        /\ times \in [Entities -> Nat] /\ done \in BOOLEAN /\ Entities \subseteq Int
    BY DEF Promise!KeysFollowZero, Promise!Faithful, Promise!TypeOK
  <1>1. CASE Promise!Change
    BY <1>0, <1>1 DEF Promise!Change, Promise!Faithful, Promise!TypeOK, Promise!Divided, Promise!Complete, Promise!NothingTwice
  <1>2. CASE Promise!More
    <2>1. PICK end \in Entities, page \in SUBSET Entities :
              /\ cursor < end
              /\ \A k \in page : cursor < k /\ k <= end
              /\ \A k \in stayed : cursor < k /\ k <= end => k \in page
              /\ Promise!Give(page) /\ cursor' = end
      BY <1>2 DEF Promise!More
    <2>2. ~done /\ registry' = registry /\ stayed' = stayed /\ done' = done
      BY <1>2 DEF Promise!More
    <2>3. /\ times' \in [Entities -> Nat] /\ \A k \in Entities : times'[k] <= 1
          /\ \A k \in Entities : k \in page => times'[k] = 1
          /\ \A k \in Entities : k \notin page => times'[k] = times[k]
      BY <2>1, <2>2, Given
    <2>4. \A k \in stayed : k <= cursor => times[k] > 0
      BY <2>2 DEF Promise!Faithful, Promise!Divided
    <2>5. \A k \in stayed' : k <= cursor' => times'[k] > 0
      <3> SUFFICES ASSUME NEW k \in stayed, k <= end PROVE times'[k] > 0
        BY <2>1, <2>2
      <3>0. k \in Entities /\ k \in Int /\ cursor \in Int
        BY <1>0 DEF Promise!KeysFollowZero
      <3>1. CASE cursor < k
        BY <3>0, <3>1, <2>1, <2>3
      <3>2. CASE k <= cursor
        BY <3>0, <3>2, <2>3, <2>4
      <3> QED BY <3>0, <3>1, <3>2
    <2>6. \A k \in Entities : k > cursor' => times'[k] = 0
      <3> SUFFICES ASSUME NEW k \in Entities, k > end PROVE times'[k] = 0
        BY <2>1
      <3>1. k \notin page /\ k > cursor
        BY <1>0, <2>1
      <3> QED BY <3>1, <2>2, <2>3 DEF Promise!Faithful, Promise!Divided
    <2> QED BY <1>0, <2>1, <2>2, <2>3, <2>5, <2>6 DEF Promise!Faithful, Promise!TypeOK, Promise!Divided, Promise!Complete, Promise!NothingTwice
  <1>3. CASE Promise!Last
    <2>1. PICK page \in SUBSET Entities :
              /\ \A k \in page : cursor < k
              /\ \A k \in stayed : cursor < k => k \in page
              /\ Promise!Give(page)
      BY <1>3 DEF Promise!Last
    <2>2. /\ ~done /\ registry' = registry /\ stayed' = stayed /\ cursor' = cursor /\ done' = TRUE
      BY <1>3 DEF Promise!Last
    <2>3. /\ times' \in [Entities -> Nat] /\ \A k \in Entities : times'[k] <= 1
          /\ \A k \in Entities : k \in page => times'[k] = 1
          /\ \A k \in Entities : k \notin page => times'[k] = times[k]
      BY <2>1, <2>2, Given
    <2>4. \A k \in stayed : k <= cursor => times[k] > 0
      BY <2>2 DEF Promise!Faithful, Promise!Divided
    <2>5. \A k \in stayed : times'[k] > 0
      <3> SUFFICES ASSUME NEW k \in stayed PROVE times'[k] > 0
        OBVIOUS
      <3>0. k \in Entities /\ k \in Int /\ cursor \in Int
        BY <1>0 DEF Promise!KeysFollowZero
      <3>1. CASE cursor < k
        BY <3>0, <3>1, <2>1, <2>3
      <3>2. CASE k <= cursor
        BY <3>0, <3>2, <2>3, <2>4
      <3> QED BY <3>0, <3>1, <3>2
    <2> QED BY <1>0, <2>2, <2>3, <2>5 DEF Promise!Faithful, Promise!TypeOK, Promise!Divided, Promise!Complete, Promise!NothingTwice
  <1>4. CASE UNCHANGED Promise!vars
    BY <1>4 DEF Promise!vars, Promise!Faithful, Promise!TypeOK, Promise!Divided, Promise!Complete, Promise!NothingTwice
  <1> QED BY <1>1, <1>2, <1>3, <1>4 DEF Promise!Next

(* Hence the scan skips nothing that stayed and covers nothing twice.      *)
THEOREM ScanIsFaithful == Spec => [](ScanComplete /\ ExaminedOnce)
  <1>0. Promise!KeysFollowZero
    BY EntityAssumption DEF Promise!KeysFollowZero
  <1>1. Init => Promise!Faithful
    BY <1>0, InitPromise, InitFaithful
  <1>2. TypeOK /\ Budgeted /\ Covered /\ Promise!Faithful /\ [Next]_vars => Promise!Faithful'
    BY <1>0, NextPromise, NextFaithful
  <1>3. Promise!Faithful => ScanComplete /\ ExaminedOnce
    BY DEF Promise!Faithful, ScanComplete, ExaminedOnce
  <1> QED BY InitType, NextType, InitBudget, NextBudget, InitCovered, NextCovered,
             <1>1, <1>2, <1>3, PTL DEF Spec

(* No call overspends, and an answered read is thrown away only for what   *)
(* Preflight could not foresee: for any budget, estimate and histories.    *)
THEOREM ScanSpendsWisely == Spec => []SpendsWisely
  <1>1. WithinBudget /\ OnlySurprisesDiscard => SpendsWisely
    BY DEF SpendsWisely
  <1> QED BY SpendsWithinBudget, OnlySurprises, <1>1, PTL
=============================================================================
