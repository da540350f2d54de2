------------------------- MODULE CachedValueProofs -------------------------
(***************************************************************************)
(* Theorems about CachedValue for every set of callers, every TTL and      *)
(* every length of the clock.                                              *)
(***************************************************************************)
EXTENDS CachedValue, TLAPS

USE DEF Observed, StampOf

-----------------------------------------------------------------------------
(* Type correctness.                                                       *)

LEMMA OutcomeTypes ==
    /\ Unfinished \in Outcome
    /\ \A k \in ErrorKind : Error(k) \in Outcome
    /\ \A v, t, b \in 0 .. MaxTime : Ok(v, t, b) \in Outcome
  BY TimeAssumption DEF Unfinished, Error, Ok, Outcome, NoError, Never

LEMMA NewGetType == NewGet \in GetType
  BY OutcomeTypes, TimeAssumption DEF NewGet, GetType

LEMMA CalledType == TypeOK => Called \in GetType
  BY NewGetType DEF Called, TypeOK, NewGet, GetType

(* Ending a Get keeps the types, whatever it ends with.                    *)
LEMMA ReturnType ==
    ASSUME TypeOK, NEW c \in Caller, NEW g \in GetType, NEW r \in Outcome,
           Return(c, g, r)
    PROVE  get' \in [Caller -> GetType] /\ newest' \in 0 .. MaxTime
  <1>1. [g EXCEPT !.pc = "idle", !.result = r, !.woken = FALSE, !.read = Unfinished]
          \in GetType
    BY OutcomeTypes DEF GetType
  <1>2. get' \in [Caller -> GetType]
    BY <1>1 DEF Return, TypeOK
  <1>3. newest' \in 0 .. MaxTime
    BY DEF Return, TypeOK, Outcome
  <1> QED BY <1>2, <1>3

LEMMA InitType == Init => TypeOK
  <1> SUFFICES ASSUME Init PROVE TypeOK
    OBVIOUS
  <1>1. get \in [Caller -> GetType]
    BY NewGetType DEF Init
  <1>2. now \in Time /\ value \in 0 .. MaxTime /\ observedAt \in 0 .. MaxTime
        /\ storedAt \in 0 .. MaxTime /\ newest \in 0 .. MaxTime
    BY TimeAssumption DEF Init, Never, Time
  <1> QED BY <1>1, <1>2 DEF Init, TypeOK

LEMMA NextType == TypeOK /\ [Next]_vars => TypeOK'
  <1> SUFFICES ASSUME TypeOK, [Next]_vars PROVE TypeOK'
    OBVIOUS
  <1>1. CASE Tick
    BY <1>1, TimeAssumption DEF Tick, TypeOK, Time, cache
  <1>2. CASE UNCHANGED vars
    BY <1>2 DEF vars, cache, TypeOK
  <1>3. ASSUME NEW c \in Caller, Step(c) PROVE TypeOK'
    <2> USE <1>3
    <2>0. get[c] \in GetType /\ Called \in GetType
      BY CalledType DEF TypeOK
    <2>1. CASE Hit(c)
      <3>1. Cached \in Outcome
        BY OutcomeTypes DEF Cached, TypeOK
      <3>2. [Called EXCEPT !.role = "hit"] \in GetType
        BY <2>0 DEF GetType
      <3>3. get' \in [Caller -> GetType] /\ newest' \in 0 .. MaxTime
        BY <2>1, <3>1, <3>2, ReturnType DEF Hit
      <3> QED BY <2>1, <3>3 DEF Hit, TypeOK, cache
    <2>2. CASE Join(c)
      <3>1. [Called EXCEPT !.pc = "wait", !.role = "waiter"] \in GetType
        BY <2>0 DEF GetType
      <3> QED BY <2>2, <3>1 DEF Join, TypeOK, cache
    <2>3. CASE Lead(c)
      <3>1. [Called EXCEPT !.pc = "fetch", !.role = "leader"] \in GetType
        BY <2>0 DEF GetType
      <3> QED BY <2>3, <3>1 DEF Lead, TypeOK
    <2>4. CASE Fetch(c)
      <3>1. PICK r \in {Ok(now, Never, Never), Error("failed"), Error("deadline")} :
              get' = [get EXCEPT ![c].read = r, ![c].pc = "fetched"]
        BY <2>4 DEF Fetch
      <3>2. r \in Outcome
        BY <3>1, OutcomeTypes, TimeAssumption DEF TypeOK, Time, Never, ErrorKind
      <3>3. [get[c] EXCEPT !.read = r, !.pc = "fetched"] \in GetType
        BY <2>0, <3>2 DEF GetType
      <3>4. get' = [get EXCEPT ![c] = [get[c] EXCEPT !.read = r, !.pc = "fetched"]]
        BY <3>1 DEF TypeOK
      <3> QED BY <2>4, <3>3, <3>4 DEF Fetch, TypeOK, cache
    <2>5. CASE Panic(c)
      <3>1. Error("panic") \in Outcome
        BY OutcomeTypes DEF ErrorKind
      <3>2. get' \in [Caller -> GetType] /\ newest' \in 0 .. MaxTime
        BY <2>0, <2>5, <3>1, ReturnType DEF Panic
      <3> QED BY <2>5, <3>2 DEF Panic, TypeOK, cache
    <2>6. CASE Commit(c)
      <3> DEFINE r == get[c].read
                 o == IF r.kind = "ok" THEN Ok(r.value, now, now) ELSE r
                 told == [d \in Caller |-> IF get[d].pc # "wait" THEN get[d]
                            ELSE [get[d] EXCEPT !.woken = @ \/ Wakes(d),
                                                !.heard = @ \cup {o}]]
      <3>1. r \in Outcome /\ now \in 0 .. MaxTime /\ r.value \in 0 .. MaxTime
        BY <2>0 DEF GetType, Outcome, TypeOK, Time
      <3>2. o \in Outcome
        BY <3>1, OutcomeTypes
      <3>3. told \in [Caller -> GetType]
        <4>1. ASSUME NEW d \in Caller PROVE told[d] \in GetType
          <5>1. get[d] \in GetType
            BY DEF TypeOK
          <5>2. get[d].woken \in BOOLEAN /\ Wakes(d) \in BOOLEAN
            BY <5>1 DEF GetType, Wakes
          <5>3. (get[d].woken \/ Wakes(d)) \in BOOLEAN
            BY <5>2
          <5>4. get[d].heard \cup {o} \in SUBSET Outcome
            BY <5>1, <3>2 DEF GetType
          <5>5. [get[d] EXCEPT !.woken = @ \/ Wakes(d), !.heard = @ \cup {o}] \in GetType
            BY <5>1, <5>3, <5>4 DEF GetType
          <5> QED BY <5>1, <5>5
        <4> QED BY <4>1
      <3>4. get' = [told EXCEPT ![c].pc = "stamp", ![c].read = o]
        BY <2>6 DEF Commit
      <3>5. [told[c] EXCEPT !.pc = "stamp", !.read = o] \in GetType
        <4> HIDE DEF told, o
        <4>1. told[c] \in GetType
          BY <3>3
        <4> QED BY <3>2, <4>1 DEF GetType
      <3>6. get' \in [Caller -> GetType]
        <4> HIDE DEF told, o
        <4> QED BY <3>3, <3>4, <3>5
      <3>7. fetchErr' \in {NoError} \cup ErrorKind
        BY <2>6, <3>1 DEF Commit, NextFetchErr, Outcome, NoError
      <3>8. value' \in 0 .. MaxTime /\ observedAt' \in 0 .. MaxTime /\ storedAt' \in 0 .. MaxTime
        BY <2>6, <3>1 DEF Commit, TypeOK
      <3>9. /\ fetching' \in BOOLEAN /\ newest' \in 0 .. MaxTime /\ now' \in Time
            /\ panicked' \in BOOLEAN
        BY <2>6 DEF Commit, StillFetching, TypeOK
      <3> QED BY <3>6, <3>7, <3>8, <3>9 DEF TypeOK
    <2>7. CASE Stamp(c)
      <3> DEFINE r == IF get[c].read.kind = "ok" THEN [get[c].read EXCEPT !.at = observedAt]
                                                 ELSE get[c].read
      <3>1. r \in Outcome
        BY <2>0 DEF GetType, Outcome, TypeOK
      <3>2. Return(c, get[c], r)
        BY <2>7 DEF Stamp
      <3>3. get' \in [Caller -> GetType] /\ newest' \in 0 .. MaxTime
        BY <2>0, <3>1, <3>2, ReturnType
      <3> QED BY <2>7, <3>3 DEF Stamp, TypeOK, cache
    <2>8. CASE Reread(c)
      <3> DEFINE r == IF fetchErr = NoError THEN Cached ELSE Error(fetchErr)
      <3>1. r \in Outcome
        BY OutcomeTypes DEF Cached, TypeOK
      <3>2. get' \in [Caller -> GetType] /\ newest' \in 0 .. MaxTime
        BY <2>0, <2>8, <3>1, ReturnType DEF Reread
      <3> QED BY <2>8, <3>2 DEF Reread, TypeOK, cache
    <2>9. CASE GiveUp(c)
      <3>1. Error("deadline") \in Outcome
        BY OutcomeTypes DEF ErrorKind
      <3>2. get' \in [Caller -> GetType] /\ newest' \in 0 .. MaxTime
        BY <2>0, <2>9, <3>1, ReturnType DEF GiveUp
      <3> QED BY <2>9, <3>2 DEF GiveUp, TypeOK, cache
    <2>10. CASE Expire(c)
      <3>1. [get[c] EXCEPT !.expired = TRUE] \in GetType
        BY <2>0 DEF GetType
      <3>2. get' = [get EXCEPT ![c] = [get[c] EXCEPT !.expired = TRUE]]
        BY <2>10 DEF Expire, TypeOK
      <3> QED BY <2>10, <3>1, <3>2 DEF Expire, TypeOK, cache
    <2> QED BY <2>1, <2>2, <2>3, <2>4, <2>5, <2>6, <2>7, <2>8, <2>9, <2>10 DEF Step
  <1> QED BY <1>1, <1>2, <1>3 DEF Next

(* The cache's state always has its type.                                  *)
THEOREM TypeCorrect == Spec => []TypeOK
  BY InitType, NextType, PTL DEF Spec

-----------------------------------------------------------------------------
(* Single flight.                                                          *)

(* The strengthening: a leader holds the flag.  Lead needs the flag to be  *)
(* down, and only the leader's own Commit takes it down.                   *)
LeaderHoldsFlag == \A c \in Caller : Leading(c) => fetching
LeaderAlone == LeaderHoldsFlag /\ SingleFlight

(* What every step but Lead, Fetch and Commit does to the leaders: none is *)
(* added.                                                                  *)
LEMMA NoNewLeader ==
    ASSUME TypeOK, LeaderAlone, fetching' = fetching,
           \A c \in Caller : get'[c].pc \in {"fetch", "fetched"} => Leading(c)
    PROVE  LeaderAlone'
  BY DEF LeaderAlone, LeaderHoldsFlag, SingleFlight, Leading

LEMMA ReturnPc ==
    ASSUME TypeOK, NEW c \in Caller, NEW g \in GetType, NEW r, Return(c, g, r)
    PROVE  /\ get'[c] = [g EXCEPT !.pc = "idle", !.result = r, !.woken = FALSE,
                                   !.read = Unfinished]
           /\ \A d \in Caller \ {c} : get'[d] = get[d]
           /\ get'[c].pc = "idle" /\ get'[c].result = r
           /\ get'[c].floor = g.floor /\ get'[c].role = g.role
           /\ get'[c].expired = g.expired /\ get'[c].heard = g.heard
  <1>1. get'[c] = [g EXCEPT !.pc = "idle", !.result = r, !.woken = FALSE, !.read = Unfinished]
    BY DEF Return, TypeOK
  <1>2. \A d \in Caller \ {c} : get'[d] = get[d]
    BY DEF Return, TypeOK
  <1> QED BY <1>1, <1>2 DEF GetType

(* What Commit does to every Get.                                          *)
LEMMA CommitGets ==
    ASSUME TypeOK, NEW c \in Caller, Commit(c)
    PROVE  LET r == get[c].read
               o == IF r.kind = "ok" THEN Ok(r.value, now, now) ELSE r
           IN  /\ get'[c] = [get[c] EXCEPT !.pc = "stamp", !.read = o]
               /\ \A d \in Caller \ {c} :
                    IF get[d].pc # "wait" THEN get'[d] = get[d]
                    ELSE get'[d] = [get[d] EXCEPT !.woken = @ \/ Wakes(d),
                                                  !.heard = @ \cup {o}]
  <1> DEFINE r == get[c].read
             o == IF r.kind = "ok" THEN Ok(r.value, now, now) ELSE r
             told == [d \in Caller |-> IF get[d].pc # "wait" THEN get[d]
                        ELSE [get[d] EXCEPT !.woken = @ \/ Wakes(d),
                                            !.heard = @ \cup {o}]]
  <1>1. get' = [told EXCEPT ![c].pc = "stamp", ![c].read = o] /\ get[c].pc = "fetched"
    BY DEF Commit
  <1>2. \A d \in Caller \ {c} : get'[d] = told[d]
    BY <1>1
  <1>3. get'[c] = [get[c] EXCEPT !.pc = "stamp", !.read = o]
    BY <1>1
  <1> QED BY <1>2, <1>3

LEMMA NextLeaderAlone == TypeOK /\ LeaderAlone /\ [Next]_vars => LeaderAlone'
  <1> SUFFICES ASSUME TypeOK, LeaderAlone, [Next]_vars PROVE LeaderAlone'
    OBVIOUS
  <1>1. CASE Tick \/ UNCHANGED vars
    BY <1>1, NoNewLeader DEF Tick, vars, cache, Leading
  <1>2. ASSUME NEW c \in Caller, Step(c) PROVE LeaderAlone'
    <2> USE <1>2
    <2>0. get[c] \in GetType /\ Called \in GetType /\ [Called EXCEPT !.role = "hit"] \in GetType
      BY CalledType DEF TypeOK, GetType
    <2>1. CASE Hit(c)
      <3>1. Return(c, [Called EXCEPT !.role = "hit"], Cached) /\ fetching' = fetching
        BY <2>1 DEF Hit, cache
      <3> QED BY <2>0, <3>1, ReturnPc, NoNewLeader DEF Leading
    <2>2. CASE Join(c)
      <3>1. fetching' = fetching
        BY <2>2 DEF Join, cache
      <3>2. \A d \in Caller : get'[d].pc \in {"fetch", "fetched"} => Leading(d)
        BY <2>2, <2>0 DEF Join, TypeOK, GetType, Leading
      <3> QED BY <3>1, <3>2, NoNewLeader
    <2>3. CASE Lead(c)
      <3>1. \A d \in Caller : ~Leading(d)
        BY <2>3 DEF Lead, Refilling, LeaderAlone, LeaderHoldsFlag
      <3>2. \A d \in Caller : get'[d].pc \in {"fetch", "fetched"} => d = c
        BY <2>3, <2>0, <3>1 DEF Lead, TypeOK, Leading
      <3>3. fetching'
        BY <2>3 DEF Lead
      <3> QED BY <3>2, <3>3 DEF LeaderAlone, LeaderHoldsFlag, SingleFlight, Leading
    <2>4. CASE Fetch(c)
      <3>1. fetching' = fetching /\ Leading(c)
        BY <2>4 DEF Fetch, cache, Leading
      <3>2. \A d \in Caller : d # c => get'[d] = get[d]
        BY <2>4 DEF Fetch, TypeOK
      <3> QED BY <3>1, <3>2, NoNewLeader DEF Leading
    <2>5. CASE Panic(c)
      <3>1. Return(c, get[c], Error("panic")) /\ fetching' = fetching
        BY <2>5 DEF Panic, cache
      <3> QED BY <2>0, <3>1, ReturnPc, NoNewLeader DEF Leading
    <2>6. CASE Commit(c)
      <3>1. Leading(c)
        BY <2>6 DEF Commit, Leading
      <3>2. \A d \in Caller : d # c => ~Leading(d)
        BY <3>1 DEF LeaderAlone, SingleFlight
      <3>3. \A d \in Caller : d # c => get'[d].pc = get[d].pc
        <4> SUFFICES ASSUME NEW d \in Caller, d # c PROVE get'[d].pc = get[d].pc
          OBVIOUS
        <4>1. get[d] \in GetType
          BY DEF TypeOK
        <4>2. \/ get'[d] = get[d]
              \/ \E w, h : get'[d] = [get[d] EXCEPT !.woken = w, !.heard = h]
          BY <2>6 DEF Commit
        <4> QED BY <4>1, <4>2 DEF GetType
      <3>4. get'[c].pc = "stamp"
        BY <2>6, <2>0 DEF Commit, TypeOK, GetType
      <3>5. \A d \in Caller : get'[d].pc \notin {"fetch", "fetched"}
        BY <3>2, <3>3, <3>4 DEF Leading
      <3> QED BY <3>5 DEF LeaderAlone, LeaderHoldsFlag, SingleFlight, Leading
    <2>7. CASE Stamp(c)
      <3> DEFINE r == IF get[c].read.kind = "ok" THEN [get[c].read EXCEPT !.at = observedAt]
                                                 ELSE get[c].read
      <3>1. Return(c, get[c], r) /\ fetching' = fetching
        BY <2>7 DEF Stamp, cache
      <3> QED BY <2>0, <3>1, ReturnPc, NoNewLeader DEF Leading
    <2>8. CASE Reread(c)
      <3> DEFINE r == IF fetchErr = NoError THEN Cached ELSE Error(fetchErr)
      <3>1. Return(c, get[c], r) /\ fetching' = fetching
        BY <2>8 DEF Reread, cache
      <3> QED BY <2>0, <3>1, ReturnPc, NoNewLeader DEF Leading
    <2>9. CASE GiveUp(c)
      <3>1. Return(c, get[c], Error("deadline")) /\ fetching' = fetching
        BY <2>9 DEF GiveUp, cache
      <3> QED BY <2>0, <3>1, ReturnPc, NoNewLeader DEF Leading
    <2>10. CASE Expire(c)
      <3>1. fetching' = fetching
        BY <2>10 DEF Expire, cache
      <3>2. \A d \in Caller : get'[d].pc = get[d].pc
        BY <2>10, <2>0 DEF Expire, TypeOK, GetType
      <3> QED BY <3>1, <3>2, NoNewLeader DEF Leading
    <2> QED BY <2>1, <2>2, <2>3, <2>4, <2>5, <2>6, <2>7, <2>8, <2>9, <2>10 DEF Step
  <1> QED BY <1>1, <1>2 DEF Next

LEMMA InitLeaderAlone == Init => LeaderAlone
  BY DEF Init, LeaderAlone, LeaderHoldsFlag, SingleFlight, Leading, NewGet

(* At most one fetch is under way, for any number of callers.              *)
THEOREM OneFetchAtATime == Spec => []SingleFlight
  <1>1. Spec => [](TypeOK /\ LeaderAlone)
    BY InitType, NextType, InitLeaderAlone, NextLeaderAlone, PTL DEF Spec
  <1>2. TypeOK /\ LeaderAlone => SingleFlight
    BY DEF LeaderAlone
  <1> QED BY <1>1, <1>2, PTL

-----------------------------------------------------------------------------
(* The in-flight marker.                                                   *)

(* The flag outlives its leader only where a fetch panicked.               *)
FlagIsLed == fetching => panicked \/ \E c \in Caller : Leading(c)

(* What a step that leaves the flag alone must not do: take its leader     *)
(* away.                                                                   *)
LEMMA LeaderStays ==
    ASSUME FlagIsLed, fetching' = fetching, panicked => panicked',
           \A d \in Caller : Leading(d) => get'[d].pc \in {"fetch", "fetched"}
    PROVE  FlagIsLed'
  BY DEF FlagIsLed, Leading

(* The return of a Get that does not lead.                                 *)
LEMMA ReturnLeavesLeader ==
    ASSUME TypeOK, FlagIsLed, fetching' = fetching, panicked' = panicked,
           NEW c \in Caller, NEW g \in GetType, NEW r, Return(c, g, r), ~Leading(c)
    PROVE  FlagIsLed'
  <1>1. \A d \in Caller \ {c} : get'[d] = get[d]
    BY ReturnPc
  <1> QED BY <1>1, LeaderStays DEF Leading

LEMMA NextFlagIsLed == TypeOK /\ FlagIsLed /\ [Next]_vars => FlagIsLed'
  <1> SUFFICES ASSUME TypeOK, FlagIsLed, [Next]_vars PROVE FlagIsLed'
    OBVIOUS
  <1>1. CASE Tick \/ UNCHANGED vars
    BY <1>1, LeaderStays DEF Tick, vars, cache, Leading
  <1>2. ASSUME NEW c \in Caller, Step(c) PROVE FlagIsLed'
    <2> USE <1>2
    <2>0. get[c] \in GetType /\ Called \in GetType /\ [Called EXCEPT !.role = "hit"] \in GetType
      BY CalledType DEF TypeOK, GetType
    <2>1. CASE Hit(c)
      BY <2>0, <2>1, ReturnLeavesLeader DEF Hit, cache, Leading
    <2>2. CASE Join(c)
      <3>1. \A d \in Caller \ {c} : get'[d] = get[d]
        BY <2>2 DEF Join, TypeOK
      <3> QED BY <2>2, <3>1, LeaderStays DEF Join, cache, Leading
    <2>3. CASE Lead(c)
      <3>1. get'[c] = [Called EXCEPT !.pc = "fetch", !.role = "leader"]
        BY <2>3 DEF Lead, TypeOK
      <3>2. get'[c].pc = "fetch"
        BY <3>1, <2>0 DEF GetType
      <3> QED BY <3>2 DEF FlagIsLed, Leading
    <2>4. CASE Fetch(c)
      <3>1. \A d \in Caller \ {c} : get'[d] = get[d]
        BY <2>4 DEF Fetch, TypeOK
      <3>2. get'[c].pc = "fetched"
        BY <2>4, <2>0 DEF Fetch, TypeOK, GetType
      <3> QED BY <2>4, <3>1, <3>2, LeaderStays DEF Fetch, cache, Leading
    <2>5. CASE Panic(c)
      BY <2>5 DEF Panic, FlagIsLed
    <2>6. CASE Commit(c)
      BY <2>6 DEF Commit, StillFetching, FlagIsLed
    <2>7. CASE Stamp(c)
      BY <2>0, <2>7, ReturnLeavesLeader DEF Stamp, cache, Leading
    <2>8. CASE Reread(c)
      BY <2>0, <2>8, ReturnLeavesLeader DEF Reread, cache, Leading
    <2>9. CASE GiveUp(c)
      BY <2>0, <2>9, ReturnLeavesLeader DEF GiveUp, cache, Leading
    <2>10. CASE Expire(c)
      <3>1. \A d \in Caller : get'[d].pc = get[d].pc
        BY <2>10, <2>0 DEF Expire, TypeOK, GetType
      <3> QED BY <2>10, <3>1, LeaderStays DEF Expire, cache, Leading
    <2> QED BY <2>1, <2>2, <2>3, <2>4, <2>5, <2>6, <2>7, <2>8, <2>9, <2>10 DEF Step
  <1> QED BY <1>1, <1>2 DEF Next

(* One fetch at a time, and the in-flight marker stands exactly while it   *)
(* runs, except after one that panicked: for any number of callers.        *)
THEOREM TheFlagIsRight == Spec => []OneFetch
  <1>1. Init => FlagIsLed
    BY DEF Init, FlagIsLed
  <1>2. LeaderAlone /\ FlagIsLed => OneFetch
    BY DEF LeaderAlone, LeaderHoldsFlag, FlagIsLed, OneFetch, FetchingMeansLeader
  <1> QED BY InitType, NextType, InitLeaderAlone, NextLeaderAlone, NextFlagIsLed, <1>1, <1>2, PTL
          DEF Spec

-----------------------------------------------------------------------------
(* Reads never go back in time.                                            *)

(* The strengthening: the cached value is no newer than the clock and no   *)
(* older than anything returned; what the leader has read is newer still   *)
(* until it stores it, because nobody else can store in between            *)
(* (LeaderAlone), and old enough afterwards.                               *)
Reads(c) ==
    /\ get[c].floor <= newest
    /\ get[c].pc = "fetched" /\ get[c].read.kind = "ok" =>
         value <= get[c].read.value /\ get[c].read.value <= now
    /\ get[c].pc = "stamp" /\ get[c].read.kind = "ok" =>
         get[c].floor <= get[c].read.value /\ get[c].read.value <= value
    /\ get[c].pc = "idle" /\ get[c].result.kind = "ok" =>
         get[c].floor <= get[c].result.value

Monotone == newest <= value /\ value <= now /\ \A c \in Caller : Reads(c)

(* A step that stores nothing disturbs no other Get.                       *)
LEMMA ReadsStable ==
    ASSUME TypeOK, TypeOK', Monotone, value' = value, now <= now', newest <= newest',
           NEW c \in Caller, get'[c] = get[c]
    PROVE  Reads(c)'
  <1>1. get[c] \in GetType
    BY DEF TypeOK
  <1> QED BY <1>1 DEF Monotone, Reads, TypeOK, GetType, Outcome, Time

(* Ending a Get with an outcome no older than its floor and no newer than  *)
(* the cached value.                                                       *)
LEMMA ReturnReads ==
    ASSUME TypeOK, TypeOK', Monotone, value' = value, now' = now,
           NEW c \in Caller, NEW g \in GetType, NEW r \in Outcome, Return(c, g, r),
           g.floor <= newest, r.kind = "ok" => g.floor <= r.value /\ r.value <= value
    PROVE  Monotone'
  <1>0. /\ get'[c].pc = "idle" /\ get'[c].result = r /\ get'[c].floor = g.floor
        /\ \A d \in Caller \ {c} : get'[d] = get[d]
    <2>1. get'[c] = [g EXCEPT !.pc = "idle", !.result = r, !.woken = FALSE,
                              !.read = Unfinished]
      BY DEF Return, TypeOK
    <2>2. \A d \in Caller \ {c} : get'[d] = get[d]
      BY DEF Return, TypeOK
    <2> QED BY <2>1, <2>2 DEF GetType
  <1>1. newest' \in 0 .. MaxTime /\ newest <= newest' /\ newest' <= value
    BY DEF Return, TypeOK, Outcome, Monotone
  <1>2. Reads(c)'
    <2>1. get'[c].pc = "idle" /\ get'[c].result = r /\ get'[c].floor = g.floor
      BY <1>0
    <2>2. g.floor \in 0 .. MaxTime
      BY DEF GetType
    <2> QED BY <1>1, <2>1, <2>2 DEF Reads, TypeOK, Outcome
  <1>3. ASSUME NEW d \in Caller \ {c} PROVE Reads(d)'
    <2>1. get'[d] = get[d]
      BY <1>0
    <2>2. now <= now'
      BY DEF TypeOK, Time
    <2> QED BY <1>1, <2>1, <2>2, ReadsStable
  <1> QED BY <1>1, <1>2, <1>3 DEF Monotone, TypeOK

LEMMA NextMonotone ==
    TypeOK /\ TypeOK' /\ LeaderAlone /\ Monotone /\ [Next]_vars => Monotone'
  <1> SUFFICES ASSUME TypeOK, TypeOK', LeaderAlone, Monotone, [Next]_vars PROVE Monotone'
    OBVIOUS
  <1>1. CASE Tick
    <2>1. now <= now' /\ value' = value /\ newest' = newest /\ get' = get
      BY <1>1 DEF Tick, cache, TypeOK, Time
    <2>2. \A c \in Caller : Reads(c)'
      BY <2>1, ReadsStable DEF TypeOK
    <2> QED BY <2>1, <2>2 DEF Monotone, TypeOK, Time
  <1>2. CASE UNCHANGED vars
    BY <1>2 DEF vars, cache, Monotone, Reads
  <1>3. ASSUME NEW c \in Caller, Step(c) PROVE Monotone'
    <2> USE <1>3
    <2>0. get[c] \in GetType /\ Called \in GetType /\ Called.floor = newest
      BY CalledType DEF TypeOK, Called, NewGet
    <2>r. get[c].floor <= newest /\ Reads(c)
      BY DEF Monotone, Reads
    <2>1. CASE Hit(c)
      <3> DEFINE g == [Called EXCEPT !.role = "hit"]
      <3>1. Return(c, g, Cached) /\ value' = value /\ now' = now
        BY <2>1 DEF Hit, cache
      <3>2. g \in GetType /\ g.floor = newest
        BY <2>0 DEF GetType
      <3>3. Cached \in Outcome /\ Cached.value = value
        BY OutcomeTypes DEF Cached, Ok, TypeOK
      <3>4. newest <= newest /\ newest <= value /\ value <= value
        BY DEF Monotone, TypeOK
      <3> HIDE DEF g
      <3> QED BY <3>1, <3>2, <3>3, <3>4, ReturnReads
    <2>2. CASE Join(c) \/ Lead(c)
      <3>1. value' = value /\ now' = now /\ newest' = newest
        BY <2>2 DEF Join, Lead, cache
      <3>2. \A d \in Caller \ {c} : get'[d] = get[d]
        BY <2>2 DEF Join, Lead, TypeOK
      <3>3. get'[c].pc \in {"wait", "fetch"} /\ get'[c].floor = newest
        <4>1. get'[c] = [Called EXCEPT !.pc = "wait", !.role = "waiter"]
              \/ get'[c] = [Called EXCEPT !.pc = "fetch", !.role = "leader"]
          BY <2>2 DEF Join, Lead, TypeOK
        <4> QED BY <4>1, <2>0 DEF GetType
      <3>4. Reads(c)'
        BY <3>1, <3>3 DEF Reads, TypeOK
      <3>5. \A d \in Caller \ {c} : Reads(d)'
        BY <3>1, <3>2, ReadsStable DEF TypeOK, Time
      <3> QED BY <3>1, <3>4, <3>5 DEF Monotone
    <2>3. CASE Fetch(c)
      <3>1. PICK r \in {Ok(now, Never, Never), Error("failed"), Error("deadline")} :
              get' = [get EXCEPT ![c].read = r, ![c].pc = "fetched"]
        BY <2>3 DEF Fetch
      <3>2. value' = value /\ now' = now /\ newest' = newest
        BY <2>3 DEF Fetch, cache
      <3>3. \A d \in Caller \ {c} : get'[d] = get[d]
        BY <3>1 DEF TypeOK
      <3>4. get'[c].pc = "fetched" /\ get'[c].read = r /\ get'[c].floor = get[c].floor
        BY <3>1, <2>0 DEF TypeOK, GetType
      <3>5. r.kind = "ok" => r.value = now
        BY <3>1 DEF Ok, Error
      <3>6. Reads(c)'
        BY <3>2, <3>4, <3>5, <2>r DEF Reads, Monotone, TypeOK, Time
      <3>7. \A d \in Caller \ {c} : Reads(d)'
        BY <3>2, <3>3, ReadsStable DEF TypeOK, Time
      <3> QED BY <3>2, <3>6, <3>7 DEF Monotone
    <2>4. CASE Panic(c)
      <3>1. Error("panic") \in Outcome /\ Error("panic").kind # "ok"
        BY OutcomeTypes DEF ErrorKind, Error
      <3>2. Return(c, get[c], Error("panic")) /\ value' = value /\ now' = now
        BY <2>4 DEF Panic, cache
      <3> QED BY <2>0, <2>r, <3>1, <3>2, ReturnReads
    <2>5. CASE Commit(c)
      <3> DEFINE r == get[c].read
      <3>1. /\ now' = now /\ newest' = newest
            /\ value' = IF r.kind = "ok" THEN r.value ELSE value
        BY <2>5 DEF Commit
      <3>2. value <= value' /\ value' <= now /\ get[c].pc = "fetched"
        <4>1. get[c].pc = "fetched"
          BY <2>5 DEF Commit
        <4>2. r.kind = "ok" => value <= r.value /\ r.value <= now
          BY <4>1, <2>r DEF Reads
        <4>3. value <= value /\ value <= now
          BY DEF Monotone, TypeOK
        <4> QED BY <3>1, <4>1, <4>2, <4>3
      <3>3. /\ get'[c].pc = "stamp" /\ get'[c].floor = get[c].floor
            /\ get'[c].read.kind = r.kind
            /\ r.kind = "ok" => get'[c].read.value = r.value
        <4> DEFINE o == IF r.kind = "ok" THEN Ok(r.value, now, now) ELSE r
        <4>1. get'[c] = [get[c] EXCEPT !.pc = "stamp", !.read = o]
          BY <2>5, CommitGets
        <4>2. o.kind = r.kind /\ (r.kind = "ok" => o.value = r.value)
          BY DEF Ok
        <4> HIDE DEF o, r
        <4> QED BY <4>1, <4>2, <2>0 DEF GetType
      <3>4. Reads(c)'
        <4>1. get[c].floor <= newest /\ newest <= value /\ get[c].floor \in Nat
              /\ newest \in Nat /\ value \in Nat /\ r.value \in Nat
          BY <2>r, <2>0 DEF Monotone, TypeOK, GetType, Outcome
        <4>2. r.kind = "ok" => value <= r.value /\ value' = r.value
          BY <3>1, <3>2, <2>r DEF Reads
        <4>3. r.kind = "ok" => get[c].floor <= r.value /\ r.value <= value'
          BY <4>1, <4>2
        <4> HIDE DEF r
        <4> QED BY <3>1, <3>3, <4>1, <4>3 DEF Reads
      <3>5. ASSUME NEW d \in Caller \ {c} PROVE Reads(d)'
        <4>1. /\ get'[d].pc = get[d].pc /\ get'[d].floor = get[d].floor
              /\ get'[d].read = get[d].read /\ get'[d].result = get[d].result
          <5> DEFINE o == IF r.kind = "ok" THEN Ok(r.value, now, now) ELSE r
          <5>1. IF get[d].pc # "wait" THEN get'[d] = get[d]
                ELSE get'[d] = [get[d] EXCEPT !.woken = @ \/ Wakes(d), !.heard = @ \cup {o}]
            BY <2>5, CommitGets
          <5>2. get[d] \in GetType
            BY DEF TypeOK
          <5> HIDE DEF o
          <5> QED BY <5>1, <5>2 DEF GetType
        <4>2. get[d].pc # "fetched"
          BY <2>5 DEF Commit, LeaderAlone, SingleFlight, Leading
        <4>3. Reads(d) /\ get[d] \in GetType
          BY DEF Monotone, TypeOK
        <4> QED BY <3>1, <3>2, <4>1, <4>2, <4>3 DEF Reads, TypeOK, GetType, Outcome
      <3>6. newest' <= value'
        BY <3>1, <3>2 DEF Monotone, TypeOK
      <3> QED BY <3>1, <3>2, <3>4, <3>5, <3>6 DEF Monotone
    <2>6. CASE Stamp(c)
      <3> DEFINE r == IF get[c].read.kind = "ok" THEN [get[c].read EXCEPT !.at = observedAt]
                                                 ELSE get[c].read
      <3>1. r \in Outcome /\ r.kind = get[c].read.kind /\ r.value = get[c].read.value
        BY <2>0 DEF GetType, Outcome, TypeOK
      <3>2. Return(c, get[c], r) /\ value' = value /\ now' = now
        BY <2>6 DEF Stamp, cache
      <3>3. r.kind = "ok" => get[c].floor <= r.value /\ r.value <= value
        BY <2>6, <2>r, <3>1 DEF Stamp, Reads
      <3> HIDE DEF r
      <3> QED BY <2>0, <2>r, <3>1, <3>2, <3>3, ReturnReads
    <2>7. CASE Reread(c)
      <3> DEFINE r == IF fetchErr = NoError THEN Cached ELSE Error(fetchErr)
      <3>1. r \in Outcome
        BY OutcomeTypes DEF Cached, TypeOK
      <3>2. r.kind = "ok" => r.value = value
        BY DEF Cached, Ok, Error, TypeOK, ErrorKind
      <3>3. Return(c, get[c], r) /\ value' = value /\ now' = now
        BY <2>7 DEF Reread, cache
      <3>4. get[c].floor <= value
        BY <2>r, <2>0 DEF Monotone, TypeOK, GetType
      <3>5. value <= value
        BY DEF TypeOK
      <3> HIDE DEF r
      <3> QED BY <2>0, <2>r, <3>1, <3>2, <3>3, <3>4, <3>5, ReturnReads
    <2>8. CASE GiveUp(c)
      <3>1. Error("deadline") \in Outcome /\ Error("deadline").kind # "ok"
        BY OutcomeTypes DEF ErrorKind, Error
      <3>2. Return(c, get[c], Error("deadline")) /\ value' = value /\ now' = now
        BY <2>8 DEF GiveUp, cache
      <3> QED BY <2>0, <2>r, <3>1, <3>2, ReturnReads
    <2>9. CASE Expire(c)
      <3>1. value' = value /\ now' = now /\ newest' = newest
        BY <2>9 DEF Expire, cache
      <3>2. \A d \in Caller \ {c} : get'[d] = get[d]
        BY <2>9 DEF Expire, TypeOK
      <3>3. get'[c].pc \in {"wait", "fetch"} /\ get'[c].floor = get[c].floor
        BY <2>9, <2>0 DEF Expire, TypeOK, GetType
      <3>4. Reads(c)'
        BY <2>r, <3>1, <3>3 DEF Reads
      <3>5. \A d \in Caller \ {c} : Reads(d)'
        BY <3>1, <3>2, ReadsStable DEF TypeOK, Time
      <3> QED BY <3>1, <3>4, <3>5 DEF Monotone
    <2> QED BY <2>1, <2>2, <2>3, <2>4, <2>5, <2>6, <2>7, <2>8, <2>9 DEF Step
  <1> QED BY <1>1, <1>2, <1>3 DEF Next

LEMMA InitMonotone == Init => Monotone
  BY DEF Init, Monotone, Reads, NewGet, Unfinished, Error, NoError, Never

(* A Get that starts after another returned a value never returns an older *)
(* one.                                                                    *)
THEOREM ReadsAreMonotone == Spec => []MonotonicReads
  <1>1. Spec => [](TypeOK /\ LeaderAlone /\ Monotone)
    BY InitType, NextType, InitLeaderAlone, NextLeaderAlone, InitMonotone, NextMonotone, PTL
       DEF Spec
  <1>2. TypeOK /\ Monotone => MonotonicReads
    BY DEF Monotone, Reads, MonotonicReads, Finished, TypeOK, GetType, Outcome
  <1> QED BY <1>1, <1>2, PTL

-----------------------------------------------------------------------------
(* Reads are honest.                                                       *)

(* What a waiter finds when it looks again.                                *)
Told == IF fetchErr = NoError THEN Cached ELSE Error(fetchErr)

(* The strengthening: the cache's stamp is the time its value was stored;  *)
(* a waiter that has been woken has heard of what it will find, however    *)
(* many refills ended since.                                               *)
Tells(c) ==
    /\ get[c].pc \in {"fetch", "fetched", "stamp"} => get[c].role = "leader"
    /\ get[c].pc = "wait" => get[c].role = "waiter"
    /\ get[c].pc = "wait" /\ get[c].woken => Told \in get[c].heard
    /\ get[c].pc = "fetched" /\ get[c].read.kind # "ok" =>
         get[c].read.kind # NoError /\ get[c].read = Error(get[c].read.kind)
    /\ get[c].pc = "idle" /\ get[c].role # "leader" /\ get[c].result.kind = "ok" =>
         get[c].result.at = get[c].result.stored
    /\ get[c].pc = "idle" /\ get[c].role = "waiter" =>
         \/ get[c].result \in get[c].heard
         \/ get[c].expired /\ get[c].result = Error("deadline")

Honest == observedAt = storedAt /\ \A c \in Caller : Tells(c)

LEMMA TellsStable ==
    ASSUME Honest, cache' = cache, NEW c \in Caller, get'[c] = get[c]
    PROVE  Tells(c)'
  <1>1. value' = value /\ observedAt' = observedAt /\ storedAt' = storedAt /\ fetchErr' = fetchErr
    BY DEF cache
  <1>2. Told' = Told
    BY <1>1 DEF Told, Cached
  <1> QED BY <1>2 DEF Honest, Tells

LEMMA ReturnTells ==
    ASSUME TypeOK, Honest, cache' = cache, NEW c \in Caller, NEW g \in GetType,
           NEW r, Return(c, g, r),
           g.role # "leader" /\ r.kind = "ok" => r.at = r.stored,
           g.role = "waiter" => r \in g.heard \/ (g.expired /\ r = Error("deadline"))
    PROVE  Honest'
  <1>1. Tells(c)'
    <2>1. /\ get'[c].pc = "idle" /\ get'[c].result = r /\ get'[c].role = g.role
          /\ get'[c].heard = g.heard /\ get'[c].expired = g.expired
      <3>1. get'[c] = [g EXCEPT !.pc = "idle", !.result = r, !.woken = FALSE,
                                !.read = Unfinished]
        BY DEF Return, TypeOK
      <3> QED BY <3>1 DEF GetType
    <2> QED BY <2>1 DEF Tells
  <1>2. ASSUME NEW d \in Caller \ {c} PROVE Tells(d)'
    <2>1. get'[d] = get[d]
      BY DEF Return, TypeOK
    <2> QED BY <2>1, TellsStable
  <1>3. observedAt' = storedAt'
    BY DEF cache, Honest
  <1> QED BY <1>1, <1>2, <1>3 DEF Honest

(* A step of one caller that neither ends its Get nor touches the cache.   *)
LEMMA MoveTells ==
    ASSUME Honest, observedAt' = observedAt, storedAt' = storedAt, value' = value,
           fetchErr' = fetchErr, NEW c \in Caller, Tells(c)',
           \A d \in Caller \ {c} : get'[d] = get[d]
    PROVE  Honest'
  <1>1. Told' = Told
    BY DEF Told, Cached
  <1>2. ASSUME NEW d \in Caller \ {c} PROVE Tells(d)'
    BY <1>1 DEF Honest, Tells
  <1> QED BY <1>2 DEF Honest

LEMMA CommitTells ==
    ASSUME TypeOK, Honest, NEW c \in Caller, Commit(c)
    PROVE  Honest'
  <1> DEFINE r == get[c].read
             o == IF r.kind = "ok" THEN Ok(r.value, now, now) ELSE r
  <1>0. get[c].pc = "fetched" /\ get[c] \in GetType /\ Tells(c)
    BY DEF Commit, TypeOK, Honest
  <1>1. observedAt' = storedAt'
    BY DEF Commit, Honest
  <1>2. Told' = o
    <2>1. CASE r.kind = "ok"
      <3>1. fetchErr' = NoError /\ value' = r.value /\ observedAt' = now /\ storedAt' = now
        BY <2>1 DEF Commit, NextFetchErr
      <3> QED BY <2>1, <3>1 DEF Told, Cached
    <2>2. CASE r.kind # "ok"
      <3>1. fetchErr' = r.kind /\ r.kind # NoError /\ r = Error(r.kind)
        BY <2>2, <1>0 DEF Commit, NextFetchErr, Tells
      <3> QED BY <2>2, <3>1 DEF Told
    <2> QED BY <2>1, <2>2
  <1>3. /\ get'[c] = [get[c] EXCEPT !.pc = "stamp", !.read = o]
        /\ \A d \in Caller \ {c} :
             IF get[d].pc # "wait" THEN get'[d] = get[d]
             ELSE get'[d] = [get[d] EXCEPT !.woken = @ \/ Wakes(d), !.heard = @ \cup {o}]
    BY CommitGets
  <1> HIDE DEF r, o
  <1>4. Tells(c)'
    BY <1>0, <1>3 DEF Tells, GetType
  <1>5. ASSUME NEW d \in Caller \ {c} PROVE Tells(d)'
    <2>0. get[d] \in GetType /\ Tells(d)
      BY DEF TypeOK, Honest
    <2>1. CASE get[d].pc # "wait"
      BY <2>0, <2>1, <1>3 DEF Tells
    <2>2. CASE get[d].pc = "wait"
      <3> DEFINE w == get[d].woken \/ Wakes(d)
                 k == get[d].heard \cup {o}
      <3>0. get'[d] = [get[d] EXCEPT !.woken = w, !.heard = k]
        BY <2>0, <2>2, <1>3 DEF GetType
      <3>k. o \in k
        OBVIOUS
      <3> HIDE DEF w, k
      <3>1. /\ get'[d].pc = "wait" /\ get'[d].role = get[d].role
            /\ o \in get'[d].heard
        BY <2>0, <2>2, <3>0, <3>k DEF GetType
      <3> QED BY <2>0, <2>2, <3>1, <1>2 DEF Tells
    <2> QED BY <2>1, <2>2
  <1> QED BY <1>1, <1>4, <1>5 DEF Honest

LEMMA NextHonest == TypeOK /\ Honest /\ [Next]_vars => Honest'
  <1> SUFFICES ASSUME TypeOK, Honest, [Next]_vars PROVE Honest'
    OBVIOUS
  <1>1. CASE Tick \/ UNCHANGED vars
    <2>1. cache' = cache /\ get' = get
      BY <1>1 DEF Tick, vars
    <2>2. observedAt' = storedAt'
      BY <2>1 DEF cache, Honest
    <2> QED BY <2>1, <2>2, TellsStable DEF Honest
  <1>2. ASSUME NEW c \in Caller, Step(c) PROVE Honest'
    <2> USE <1>2
    <2>0. get[c] \in GetType /\ Called \in GetType /\ Tells(c)
      BY CalledType DEF TypeOK, Honest
    <2>1. CASE Hit(c)
      <3> DEFINE g == [Called EXCEPT !.role = "hit"]
      <3>1. g \in GetType /\ g.role = "hit"
        BY <2>0 DEF GetType
      <3>2. Cached.at = Cached.stored
        BY DEF Cached, Ok, Honest
      <3>3. Return(c, g, Cached) /\ cache' = cache
        BY <2>1 DEF Hit
      <3> HIDE DEF g
      <3> QED BY <3>1, <3>2, <3>3, ReturnTells
    <2>2. CASE Join(c)
      <3>1. get'[c] = [Called EXCEPT !.pc = "wait", !.role = "waiter"]
            /\ \A d \in Caller \ {c} : get'[d] = get[d]
        BY <2>2 DEF Join, TypeOK
      <3>2. get'[c].pc = "wait" /\ get'[c].role = "waiter" /\ ~get'[c].woken
        BY <3>1, <2>0 DEF GetType, Called, NewGet
      <3>3. Tells(c)'
        BY <3>2 DEF Tells
      <3> QED BY <2>2, <3>1, <3>3, MoveTells DEF Join, cache
    <2>3. CASE Lead(c)
      <3>1. get'[c] = [Called EXCEPT !.pc = "fetch", !.role = "leader"]
            /\ \A d \in Caller \ {c} : get'[d] = get[d]
        BY <2>3 DEF Lead, TypeOK
      <3>2. get'[c].pc = "fetch" /\ get'[c].role = "leader"
        BY <3>1, <2>0 DEF GetType
      <3>3. Tells(c)'
        BY <3>2 DEF Tells
      <3> QED BY <2>3, <3>1, <3>3, MoveTells DEF Lead
    <2>4. CASE Fetch(c)
      <3>1. PICK r \in {Ok(now, Never, Never), Error("failed"), Error("deadline")} :
              get' = [get EXCEPT ![c].read = r, ![c].pc = "fetched"]
        BY <2>4 DEF Fetch
      <3>2. /\ get'[c].pc = "fetched" /\ get'[c].read = r /\ get'[c].role = get[c].role
            /\ \A d \in Caller \ {c} : get'[d] = get[d]
        BY <3>1, <2>0 DEF TypeOK, GetType
      <3>3. get[c].pc = "fetch" /\ cache' = cache
        BY <2>4 DEF Fetch
      <3>4. r.kind # "ok" => r.kind # NoError /\ r = Error(r.kind)
        BY <3>1 DEF Ok, Error, NoError
      <3>5. Tells(c)'
        BY <2>0, <3>2, <3>3, <3>4 DEF Tells
      <3> QED BY <3>2, <3>3, <3>5, MoveTells DEF cache
    <2>5. CASE Panic(c)
      <3>1. Return(c, get[c], Error("panic")) /\ cache' = cache /\ get[c].role = "leader"
        BY <2>5, <2>0 DEF Panic, Tells
      <3> QED BY <2>0, <3>1, ReturnTells
    <2>6. CASE Commit(c)
      BY <2>6, CommitTells
    <2>7. CASE Stamp(c)
      <3> DEFINE r == IF get[c].read.kind = "ok" THEN [get[c].read EXCEPT !.at = observedAt]
                                                 ELSE get[c].read
      <3>1. Return(c, get[c], r) /\ cache' = cache /\ get[c].role = "leader"
        BY <2>7, <2>0 DEF Stamp, Tells
      <3> HIDE DEF r
      <3> QED BY <2>0, <3>1, ReturnTells
    <2>8. CASE Reread(c)
      <3>1. /\ Return(c, get[c], Told) /\ cache' = cache
            /\ get[c].pc = "wait" /\ get[c].woken
        BY <2>8 DEF Reread, Told
      <3>2. Told \in get[c].heard
        BY <2>0, <3>1 DEF Tells
      <3>3. Told.kind = "ok" => Told.at = Told.stored
        BY DEF Told, Cached, Ok, Error, Honest
      <3> QED BY <2>0, <3>1, <3>2, <3>3, ReturnTells
    <2>9. CASE GiveUp(c)
      <3>1. /\ Return(c, get[c], Error("deadline")) /\ cache' = cache /\ get[c].expired
        BY <2>9 DEF GiveUp
      <3>2. Error("deadline").kind # "ok"
        BY DEF Error
      <3> QED BY <2>0, <3>1, <3>2, ReturnTells
    <2>10. CASE Expire(c)
      <3>1. get'[c] = [get[c] EXCEPT !.expired = TRUE] /\ cache' = cache
            /\ \A d \in Caller \ {c} : get'[d] = get[d]
        BY <2>10 DEF Expire, TypeOK
      <3>2. /\ get'[c].pc = get[c].pc /\ get'[c].role = get[c].role /\ get[c].pc # "idle"
            /\ get'[c].woken = get[c].woken /\ get'[c].heard = get[c].heard
            /\ get'[c].read = get[c].read
        BY <3>1, <2>0, <2>10 DEF GetType, Expire
      <3>3. Told' = Told
        BY <3>1 DEF cache, Told, Cached
      <3>4. Tells(c)'
        BY <2>0, <3>2, <3>3 DEF Tells
      <3> QED BY <3>1, <3>4, MoveTells DEF cache
    <2> QED BY <2>1, <2>2, <2>3, <2>4, <2>5, <2>6, <2>7, <2>8, <2>9, <2>10 DEF Step
  <1> QED BY <1>1, <1>2 DEF Next

LEMMA InitHonest == Init => Honest
  BY DEF Init, Honest, Tells, NewGet, Unfinished, Error, NoError

-----------------------------------------------------------------------------
(* The leader's stamp.                                                     *)

(* The strengthening: who leads found the value a TTL old, so that the     *)
(* time in the cache can only jump by a TTL under a leader that has stored *)
(* its own and not yet returned.                                           *)
Apart(at, stored) == at = stored \/ at >= stored + TTL

Timely(c) ==
    /\ Leading(c) => observedAt = Never \/ observedAt + TTL <= now
    /\ get[c].pc = "stamp" /\ get[c].read.kind = "ok" =>
         observedAt # Never /\ Apart(observedAt, get[c].read.stored)
    /\ get[c].pc = "idle" /\ get[c].result.kind = "ok" => Apart(get[c].result.at, get[c].result.stored)

AllTimely == \A c \in Caller : Timely(c)

LEMMA TimelyStable ==
    ASSUME TypeOK, TypeOK', observedAt' = observedAt, now <= now',
           NEW c \in Caller, Timely(c), get'[c] = get[c]
    PROVE  Timely(c)'
  <1>1. now \in Int /\ now' \in Int /\ observedAt \in Int /\ TTL \in Int
    BY TimeAssumption DEF TypeOK, Time
  <1>2. observedAt + TTL <= now => observedAt + TTL <= now'
    BY <1>1
  <1> QED BY <1>2 DEF Timely, Leading, Apart

LEMMA ReturnTimely ==
    ASSUME TypeOK, TypeOK', AllTimely, observedAt' = observedAt, now' = now,
           NEW c \in Caller, NEW g \in GetType, NEW r, Return(c, g, r),
           r.kind = "ok" => Apart(r.at, r.stored)
    PROVE  AllTimely'
  <1>1. get'[c].pc = "idle" /\ get'[c].result = r
    <2>1. get'[c] = [g EXCEPT !.pc = "idle", !.result = r, !.woken = FALSE, !.read = Unfinished]
      BY DEF Return, TypeOK
    <2> QED BY <2>1 DEF GetType
  <1>o. \A d \in Caller \ {c} : get'[d] = get[d]
    BY DEF Return, TypeOK
  <1>2. Timely(c)'
    BY <1>1 DEF Timely, Leading, Apart
  <1>3. ASSUME NEW d \in Caller \ {c} PROVE Timely(d)'
    <2>1. now <= now'
      BY DEF TypeOK, Time
    <2> QED BY <1>o, <2>1, TimelyStable DEF AllTimely
  <1> QED BY <1>2, <1>3 DEF AllTimely

(* A step that moves one Get and leaves the time alone.                    *)
LEMMA MoveTimely ==
    ASSUME TypeOK, TypeOK', AllTimely, observedAt' = observedAt, now' = now, NEW c \in Caller,
           \A d \in Caller \ {c} : get'[d] = get[d], Timely(c)'
    PROVE  AllTimely'
  <1>1. now <= now'
    BY DEF TypeOK, Time
  <1>2. ASSUME NEW d \in Caller \ {c} PROVE Timely(d)'
    BY <1>1, TimelyStable DEF AllTimely
  <1> QED BY <1>2 DEF AllTimely

LEMMA CommitTimely ==
    ASSUME TypeOK, TypeOK', LeaderAlone, AllTimely, NEW c \in Caller, Commit(c)
    PROVE  AllTimely'
  <1> DEFINE r == get[c].read
             o == IF r.kind = "ok" THEN Ok(r.value, now, now) ELSE r
  <1>1. /\ get[c].pc = "fetched" /\ now' = now /\ now \in Nat /\ now > 0
        /\ observedAt \in Nat /\ observedAt' \in Nat /\ TTL \in Nat /\ TTL > 0
    <2>1. get[c].pc = "fetched" /\ now' = now
      BY DEF Commit
    <2>2. now \in Nat /\ now > 0 /\ observedAt \in Nat /\ observedAt' \in Nat
      BY TimeAssumption DEF TypeOK, Time
    <2> QED BY <2>1, <2>2, TimeAssumption
  <1>2. get[c] \in GetType /\ r \in Outcome
    BY DEF TypeOK, GetType
  <1>3. get'[c] = [get[c] EXCEPT !.pc = "stamp", !.read = o]
    BY CommitGets
  <1>4. get'[c].pc = "stamp" /\ get'[c].read = o
    BY <1>2, <1>3 DEF GetType
  <1>5. r.kind = "ok" => observedAt' = now /\ o.stored = now
    BY DEF Commit, Ok
  <1>6. Timely(c)'
    <2>1. o.kind = "ok" => r.kind = "ok"
      OBVIOUS
    <2> HIDE DEF o, r
    <2> QED BY <1>1, <1>4, <1>5, <2>1 DEF Timely, Leading, Apart, Never
  <1>7. observedAt' = observedAt \/ (observedAt' = now /\ (observedAt = Never \/ observedAt + TTL <= now))
    <2>1. Leading(c) /\ Timely(c)
      BY <1>1 DEF Leading, AllTimely
    <2> QED BY <2>1 DEF Timely, Commit
  <1>8. ASSUME NEW d \in Caller \ {c} PROVE Timely(d)'
    <2>1. get[d] \in GetType /\ Timely(d)
      BY DEF TypeOK, AllTimely
    <2>2. ~Leading(d)
      BY <1>1 DEF LeaderAlone, SingleFlight, Leading
    <2>3. CASE get[d].pc # "wait"
      <3>1. get'[d] = get[d]
        BY <2>3, CommitGets
      <3>2. get[d].read.stored \in Nat
        BY <2>1 DEF GetType, Outcome
      <3>3. (observedAt # Never /\ Apart(observedAt, get[d].read.stored)) =>
              (observedAt' # Never /\ Apart(observedAt', get[d].read.stored))
        BY <1>1, <1>7, <3>2 DEF Apart, Never
      <3> QED BY <2>1, <2>2, <3>1, <3>3 DEF Timely, Leading, Apart
    <2>4. CASE get[d].pc = "wait"
      <3>1. get'[d] = [get[d] EXCEPT !.woken = @ \/ Wakes(d), !.heard = @ \cup {o}]
        BY <2>4, CommitGets
      <3>2. get'[d].pc = "wait"
        <4> HIDE DEF o
        <4> QED BY <2>1, <2>4, <3>1 DEF GetType
      <3> QED BY <3>2 DEF Timely, Leading
    <2> QED BY <2>3, <2>4
  <1> QED BY <1>6, <1>8 DEF AllTimely

LEMMA NextTimely ==
    TypeOK /\ TypeOK' /\ LeaderAlone /\ Honest /\ AllTimely /\ [Next]_vars => AllTimely'
  <1> SUFFICES ASSUME TypeOK, TypeOK', LeaderAlone, Honest, AllTimely, [Next]_vars PROVE AllTimely'
    OBVIOUS
  <1>1. CASE Tick \/ UNCHANGED vars
    <2>1. now <= now' /\ observedAt' = observedAt /\ get' = get
      BY <1>1 DEF Tick, vars, cache, TypeOK, Time
    <2> QED BY <2>1, TimelyStable DEF AllTimely
  <1>2. ASSUME NEW c \in Caller, Step(c) PROVE AllTimely'
    <2> USE <1>2
    <2>0. /\ get[c] \in GetType /\ Called \in GetType /\ [Called EXCEPT !.role = "hit"] \in GetType
          /\ Timely(c)
      BY CalledType DEF TypeOK, GetType, AllTimely
    <2>1. CASE Hit(c)
      <3>1. Return(c, [Called EXCEPT !.role = "hit"], Cached) /\ observedAt' = observedAt /\ now' = now
        BY <2>1 DEF Hit, cache
      <3>2. Apart(Cached.at, Cached.stored)
        BY DEF Cached, Ok, Honest, Apart
      <3> QED BY <2>0, <3>1, <3>2, ReturnTimely
    <2>2. CASE Join(c)
      <3>1. get'[c] = [Called EXCEPT !.pc = "wait", !.role = "waiter"] /\ \A d \in Caller \ {c} : get'[d] = get[d]
        BY <2>2 DEF Join, TypeOK
      <3>2. get'[c].pc = "wait"
        BY <2>0, <3>1 DEF GetType
      <3>3. Timely(c)'
        BY <3>2 DEF Timely, Leading
      <3> QED BY <2>2, <3>1, <3>3, MoveTimely DEF Join, cache
    <2>3. CASE Lead(c)
      <3>1. get'[c] = [Called EXCEPT !.pc = "fetch", !.role = "leader"] /\ \A d \in Caller \ {c} : get'[d] = get[d]
        BY <2>3 DEF Lead, TypeOK
      <3>2. get'[c].pc = "fetch"
        BY <2>0, <3>1 DEF GetType
      <3>3. observedAt' = observedAt /\ now' = now /\ (observedAt = Never \/ observedAt + TTL <= now)
        BY <2>3, TimeAssumption DEF Lead, Fresh, TypeOK, Time
      <3>4. Timely(c)'
        BY <3>2, <3>3 DEF Timely, Leading
      <3> QED BY <3>1, <3>3, <3>4, MoveTimely
    <2>4. CASE Fetch(c)
      <3>1. /\ get'[c].pc = "fetched" /\ \A d \in Caller \ {c} : get'[d] = get[d]
            /\ get[c].pc = "fetch" /\ observedAt' = observedAt /\ now' = now
        BY <2>0, <2>4 DEF Fetch, TypeOK, GetType, cache
      <3>2. Timely(c)'
        BY <2>0, <3>1 DEF Timely, Leading
      <3> QED BY <3>1, <3>2, MoveTimely
    <2>5. CASE Panic(c)
      <3>1. Return(c, get[c], Error("panic")) /\ observedAt' = observedAt /\ now' = now
        BY <2>5 DEF Panic, cache
      <3>2. Error("panic").kind # "ok"
        BY DEF Error
      <3> QED BY <2>0, <3>1, <3>2, ReturnTimely
    <2>6. CASE Commit(c)
      BY <2>6, CommitTimely
    <2>7. CASE Stamp(c)
      <3> DEFINE r == IF get[c].read.kind = "ok" THEN [get[c].read EXCEPT !.at = observedAt]
                                                 ELSE get[c].read
      <3>1. Return(c, get[c], r) /\ observedAt' = observedAt /\ now' = now /\ get[c].pc = "stamp"
        BY <2>7 DEF Stamp, cache
      <3>2. get[c].read \in Outcome
        BY <2>0 DEF GetType
      <3>3. r.kind = "ok" => r.at = observedAt /\ r.stored = get[c].read.stored /\ get[c].read.kind = "ok"
        BY <3>2 DEF Outcome
      <3>4. r.kind = "ok" => Apart(r.at, r.stored)
        BY <2>0, <3>1, <3>3 DEF Timely
      <3> HIDE DEF r
      <3> QED BY <2>0, <3>1, <3>4, ReturnTimely
    <2>8. CASE Reread(c)
      <3>1. Return(c, get[c], Told) /\ observedAt' = observedAt /\ now' = now
        BY <2>8 DEF Reread, Told, cache
      <3>2. Told.kind = "ok" => Apart(Told.at, Told.stored)
        BY DEF Told, Cached, Ok, Error, Honest, Apart
      <3> QED BY <2>0, <3>1, <3>2, ReturnTimely
    <2>9. CASE GiveUp(c)
      <3>1. Return(c, get[c], Error("deadline")) /\ observedAt' = observedAt /\ now' = now
        BY <2>9 DEF GiveUp, cache
      <3>2. Error("deadline").kind # "ok"
        BY DEF Error
      <3> QED BY <2>0, <3>1, <3>2, ReturnTimely
    <2>10. CASE Expire(c)
      <3>1. get'[c] = [get[c] EXCEPT !.expired = TRUE] /\ \A d \in Caller \ {c} : get'[d] = get[d]
        BY <2>10 DEF Expire, TypeOK
      <3>2. observedAt' = observedAt /\ now' = now /\ get'[c].pc = get[c].pc /\ get'[c].read = get[c].read
            /\ get[c].pc # "idle"
        BY <2>0, <2>10, <3>1 DEF Expire, cache, GetType
      <3>3. Timely(c)'
        BY <2>0, <3>2 DEF Timely, Leading, Apart
      <3> QED BY <3>1, <3>2, <3>3, MoveTimely
    <2> QED BY <2>1, <2>2, <2>3, <2>4, <2>5, <2>6, <2>7, <2>8, <2>9, <2>10 DEF Step
  <1> QED BY <1>1, <1>2 DEF Next

LEMMA InitTimely == Init => AllTimely
  <1> SUFFICES ASSUME Init, NEW c \in Caller PROVE Timely(c)
    BY DEF AllTimely
  <1>1. get[c].pc = "idle" /\ get[c].result.kind # "ok"
    BY DEF Init, NewGet, Unfinished, Error, NoError
  <1> QED BY <1>1 DEF Timely, Leading

(* A hit or a waiter is given a value with the time it was fetched, a      *)
(* leader that time or one a TTL later, no Get goes back in time, and a    *)
(* waiter hears a fetch that ended while it waited: for any callers, TTL   *)
(* and clock.                                                              *)
THEOREM GetIsHonest == Spec => []ReadsAreHonest
  <1>1. Spec => []Honest
    BY InitType, NextType, InitHonest, NextHonest, PTL DEF Spec
  <1>2. Spec => []AllTimely
    BY InitType, NextType, InitLeaderAlone, NextLeaderAlone, InitHonest, NextHonest, InitTimely, NextTimely, PTL
       DEF Spec
  <1>3. Honest /\ AllTimely /\ MonotonicReads => ReadsAreHonest
    BY DEF Honest, Tells, AllTimely, Timely, Apart, ReadsAreHonest, HonestStamp, LeaderStamp,
           WaitersHearTheFetch, Finished
  <1> QED BY <1>1, <1>2, <1>3, ReadsAreMonotone, PTL
=============================================================================
