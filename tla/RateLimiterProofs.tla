------------------------- MODULE RateLimiterProofs -------------------------
(***************************************************************************)
(* Theorems about RateLimiter for every burst, every interval and every    *)
(* resolution of the clock.                                                *)
(***************************************************************************)
EXTENDS RateLimiter, TLAPS

-----------------------------------------------------------------------------
(* The arithmetic of whole intervals.                                      *)

LEMMA Quotient ==
    ASSUME NEW a \in Nat, NEW b \in Nat \ {0}
    PROVE  a \div b \in Nat /\ b * (a \div b) <= a /\ a < b * (a \div b) + b
  OBVIOUS

LEMMA WholeIntervals ==
    ASSUME NEW b \in Nat \ {0}, NEW x \in Int, NEW y \in Int, NEW a \in Int,
           b * x <= a, a < b * y + b
    PROVE  x <= y
  <1>1. ASSUME x >= y + 1 PROVE FALSE
    <2>1. b * x >= b * (y + 1)
      BY <1>1
    <2>2. b * (y + 1) = b * y + b
      OBVIOUS
    <2>3. b * x \in Int /\ b * y \in Int
      OBVIOUS
    <2> QED BY <2>1, <2>2, <2>3
  <1> QED BY <1>1

LEMMA LessThanOne ==
    ASSUME NEW a \in Nat, NEW b \in Nat \ {0}, a < b
    PROVE  a \div b = 0
  <1>1. a \div b \in Nat /\ b * (a \div b) <= a /\ a < b * 0 + b
    BY Quotient
  <1>2. a \div b <= 0
    BY <1>1, WholeIntervals
  <1> QED BY <1>1, <1>2

LEMMA OneMore ==
    ASSUME NEW a \in Nat, NEW b \in Nat \ {0}
    PROVE  \E d \in {0, 1} : (a + 1) \div b = a \div b + d
  <1> DEFINE q == a \div b
             r == (a + 1) \div b
  <1>1. q \in Nat /\ b * q <= a /\ a < b * q + b
    BY Quotient
  <1>2. r \in Nat /\ b * r <= a + 1 /\ a + 1 < b * r + b
    BY a + 1 \in Nat, Quotient
  <1> HIDE DEF q, r
  <1>3. b * (q + 1) = b * q + b /\ b * q \in Nat /\ b * r \in Nat
    BY <1>1, <1>2
  <1>4. q <= r
    <2>1. a < b * r + b
      BY <1>2, <1>3
    <2> QED BY <1>1, <1>2, <2>1, WholeIntervals
  <1>5. r <= q + 1
    <2>1. a + 1 < b * (q + 1) + b
      BY <1>1, <1>3
    <2> QED BY <1>1, <1>2, <2>1, WholeIntervals
  <1>6. r = q + 0 \/ r = q + 1
    BY <1>1, <1>2, <1>4, <1>5
  <1> QED BY <1>6 DEF q, r

-----------------------------------------------------------------------------
(* Type correctness: no instant lies in the future.                        *)

Ordered == last <= now /\ window.since <= now

TypeInv == TypeOK /\ Ordered

(* The instant the tokens are accounted for is at most one interval past.  *)
LEMMA Accounted ==
    ASSUME TypeInv
    PROVE  /\ Interval \in Nat /\ Interval > 0 /\ Burst \in Nat /\ Burst > 0
           /\ now \in Nat /\ tokens \in Nat /\ window.since \in Nat /\ window.served \in Nat
           /\ Counted \in Nat /\ Refilled \in Nat /\ Advanced = Counted + Interval * Refilled
           /\ Counted <= Advanced /\ Advanced <= now /\ now < Advanced + Interval
           /\ Available \in 0 .. Burst
  <1>1. /\ Interval \in Nat \ {0} /\ Burst \in Nat \ {0} /\ MaxTime \in Nat
        /\ now \in Nat /\ tokens \in 0 .. Burst
        /\ window.since \in Nat /\ window.served \in Nat
    BY BurstAssumption, IntervalAssumption, TimeAssumption DEF TypeInv, TypeOK
  <1>2. Counted \in Nat /\ Counted <= now
    BY <1>1, TimeAssumption DEF Counted, TypeInv, TypeOK, Ordered, Unset
  <1>3. now - Counted \in Nat
    BY <1>1, <1>2
  <1>4. /\ Refilled \in Nat /\ Interval * Refilled <= now - Counted
        /\ now - Counted < Interval * Refilled + Interval
    BY <1>1, <1>3, Quotient DEF Refilled
  <1>5. Interval * Refilled \in Nat /\ Refilled * Interval = Interval * Refilled
    BY <1>1, <1>4
  <1>6. Advanced = Counted + Interval * Refilled
    BY <1>5 DEF Advanced
  <1>7. Available \in 0 .. Burst
    BY <1>1, <1>4 DEF Available
  <1> QED BY <1>1, <1>2, <1>4, <1>5, <1>6, <1>7

LEMMA InitType == Init => TypeInv
  BY BurstAssumption, TimeAssumption
     DEF Init, TypeInv, TypeOK, Ordered, Watch, NoRefusal, Unset

LEMMA NextType == TypeInv /\ [Next]_vars => TypeInv'
  <1> SUFFICES ASSUME TypeInv, [Next]_vars PROVE TypeInv'
    OBVIOUS
  <1>0. /\ now \in 0 .. MaxTime /\ MaxTime \in Nat /\ Burst \in Nat /\ Interval \in Nat
        /\ Advanced \in 0 .. MaxTime /\ Advanced <= now /\ Available \in 0 .. Burst
    <2>1. /\ Advanced \in Nat /\ Advanced <= now /\ Available \in 0 .. Burst
          /\ Burst \in Nat /\ Interval \in Nat
      <3>1. Counted \in Nat /\ Advanced \in Int
        BY Accounted DEF Advanced
      <3> QED BY <3>1, Accounted
    <2>2. now \in 0 .. MaxTime /\ MaxTime \in Nat
      BY TimeAssumption DEF TypeInv, TypeOK
    <2> QED BY <2>1, <2>2
  <1>t. /\ tokens \in 0 .. Burst /\ last \in {Unset} \cup 0 .. MaxTime /\ last <= now
        /\ window \in [since : 0 .. MaxTime, served : Nat, afterRefusal : BOOLEAN]
        /\ window.since <= now /\ refusal \in [at : Int, retry : Int]
    BY DEF TypeInv, TypeOK, Ordered
  <1> SUFFICES TypeOK' /\ Ordered'
    BY DEF TypeInv
  <1>1. CASE Allow
    <2>1. RetryAt \in Int
      BY <1>0 DEF RetryAt
    <2>2. CASE Admit
      BY <1>0, <1>t, <2>2 DEF Admit, TypeOK, Ordered, NoRefusal, Unset
    <2>3. CASE Refuse
      <3>1. /\ tokens' = Available /\ last' = Advanced /\ now' = now
            /\ refusal' = [at |-> now, retry |-> RetryAt]
            /\ window' = window \/ window' = [since |-> now, served |-> 0, afterRefusal |-> TRUE]
        BY <2>3 DEF Refuse, Watch
      <3>2. refusal' \in [at : Int, retry : Int]
        BY <1>0, <2>1, <3>1
      <3>3. /\ window' \in [since : 0 .. MaxTime, served : Nat, afterRefusal : BOOLEAN]
            /\ window'.since <= now
        <4>1. CASE window' = window
          BY <1>t, <4>1
        <4>2. CASE window' = [since |-> now, served |-> 0, afterRefusal |-> TRUE]
          BY <1>0, <4>2
        <4> QED BY <3>1, <4>1, <4>2
      <3> QED BY <1>0, <1>t, <3>1, <3>2, <3>3 DEF TypeOK, Ordered
    <2> QED BY <1>1, <2>2, <2>3 DEF Allow
  <1>2. CASE Observe
    BY <1>0, <1>t, <1>2 DEF Observe, Watch, TypeOK, Ordered
  <1>3. CASE Tick
    BY <1>0, <1>t, <1>3 DEF Tick, limiterVars, TypeOK, Ordered, Unset
  <1>4. CASE UNCHANGED vars
    BY <1>t, <1>0, <1>4 DEF vars, limiterVars, TypeOK, Ordered
  <1> QED BY <1>1, <1>2, <1>3, <1>4 DEF Next

(* The limiter's state always has its type: never more tokens than the     *)
(* burst, never fewer than none.                                           *)
THEOREM TypeCorrect == Spec => []TypeOK
  <1>1. TypeInv => TypeOK
    BY DEF TypeInv
  <1> QED BY InitType, NextType, <1>1, PTL DEF Spec

-----------------------------------------------------------------------------
(* What a step does to the tokens that are available and to the instant    *)
(* they are accounted for.                                                 *)

LEMMA AllowEffect ==
    ASSUME TypeInv, TypeInv', Allow
    PROVE  /\ Advanced' = Advanced /\ now' = now /\ last' # Unset
           /\ Admit  => Available' = Available - 1
           /\ Refuse => Available' = 0 /\ Available = 0
  <1>0. /\ Advanced \in Nat /\ Interval \in Nat \ {0} /\ now \in Nat /\ Burst \in Nat
        /\ Advanced <= now /\ now < Advanced + Interval /\ Available \in 0 .. Burst
    <2>1. Counted \in Nat /\ Advanced \in Int
      BY Accounted DEF Advanced
    <2> QED BY <2>1, Accounted
  <1>1. last' = Advanced /\ now' = now /\ last' # Unset
    <2>1. last' = Advanced /\ now' = now
      BY DEF Allow, Admit, Refuse
    <2> QED BY <1>0, <2>1 DEF Unset
  <1>2. Counted' = Advanced
    BY <1>1 DEF Counted
  <1>3. Refilled' = 0
    <2>1. Refilled' = (now - Advanced) \div Interval
      BY <1>1 DEF Refilled, Counted
    <2>2. now - Advanced \in Nat /\ now - Advanced < Interval
      BY <1>0
    <2> QED BY <1>0, <2>1, <2>2, LessThanOne
  <1>4. Advanced' = Advanced
    <2>1. Advanced' = Advanced + 0 * Interval
      BY <1>2, <1>3 DEF Advanced
    <2> QED BY <1>0, <2>1
  <1>5. Available' = tokens'
    <2>1. PICK t \in 0 .. Burst : tokens' = t
      BY DEF TypeInv, TypeOK
    <2>2. Available' = IF t + 0 < Burst THEN t + 0 ELSE Burst
      BY <1>3, <2>1 DEF Available
    <2>3. (IF t + 0 < Burst THEN t + 0 ELSE Burst) = t
      BY <1>0
    <2> QED BY <2>1, <2>2, <2>3
  <1> QED BY <1>0, <1>1, <1>4, <1>5 DEF Admit, Refuse

LEMMA TickEffect ==
    ASSUME TypeInv, TypeInv', Tick, last # Unset
    PROVE  \E d \in {0, 1} :
              /\ Advanced' = Advanced + Interval * d
              /\ Available' = IF Available + d < Burst THEN Available + d ELSE Burst
  <1>0. /\ Counted \in Nat /\ now \in Nat /\ Counted <= now /\ Refilled \in Nat
        /\ Interval \in Nat \ {0} /\ Burst \in Nat /\ tokens \in Nat
    <2>1. Counted \in Nat /\ Advanced \in Int
      BY Accounted DEF Advanced
    <2> QED BY <2>1, Accounted
  <1>1. /\ Counted' = Counted /\ now' = now + 1 /\ tokens' = tokens
        /\ Counted = last /\ last' = last
    BY DEF Tick, limiterVars, Counted
  <1>2. PICK d \in {0, 1} : (now - Counted + 1) \div Interval = Refilled + d
    <2>1. now - Counted \in Nat
      BY <1>0
    <2> QED BY <1>0, <2>1, OneMore DEF Refilled
  <1>3. Refilled' = Refilled + d
    <2>1. Refilled' = (now + 1 - Counted) \div Interval
      <3>1. Refilled' = (now' - last') \div Interval
        BY <1>1 DEF Refilled, Counted
      <3> QED BY <1>0, <1>1, <3>1
    <2>2. now + 1 - Counted = now - Counted + 1
      BY <1>0
    <2> QED BY <1>2, <2>1, <2>2
  <1>4. Advanced' = Advanced + Interval * d
    <2>1. Advanced' = Counted + (Refilled + d) * Interval
      BY <1>1, <1>3 DEF Advanced
    <2>2. Counted + (Refilled + d) * Interval = Counted + Refilled * Interval + Interval * d
      BY <1>0
    <2> QED BY <2>1, <2>2 DEF Advanced
  <1>5. Available' = IF Available + d < Burst THEN Available + d ELSE Burst
    <2>1. Available' = IF tokens + (Refilled + d) < Burst THEN tokens + (Refilled + d) ELSE Burst
      BY <1>1, <1>3 DEF Available
    <2> QED BY <1>0, <2>1 DEF Available
  <1> QED BY <1>4, <1>5

-----------------------------------------------------------------------------
(* The rate.  The arrivals served since the window began and the tokens    *)
(* available now exceed the burst by at most one for each interval begun.  *)
(* The invariant counts to the instant the tokens are accounted for, not   *)
(* to now: a served arrival trades one token for one count and moves       *)
(* neither instant, and time moves that instant by the interval that earns *)
(* the token.                                                              *)

Rate(served, available, counted, since) ==
    Interval * (served + available - Burst) <= counted - since + Interval - 1

RateInv == Rate(window.served, Available, Advanced, window.since)

(* A token that falls due, banked or not, keeps the rate.                  *)
LEMMA RateRefilled ==
    ASSUME NEW served \in Nat, NEW v \in Nat, NEW a \in Nat, NEW since \in Nat, NEW d \in {0, 1},
           Rate(served, v, a, since)
    PROVE  Rate(served, IF v + d < Burst THEN v + d ELSE Burst, a + Interval * d, since)
  <1> DEFINE w == IF v + d < Burst THEN v + d ELSE Burst
  <1>1. Interval \in Nat \ {0} /\ Burst \in Nat /\ d \in Nat
    BY IntervalAssumption, BurstAssumption
  <1>2. w \in Nat /\ w <= v + d
    BY <1>1
  <1> HIDE DEF w
  <1>3. Interval * (served + w - Burst) <= Interval * (served + v + d - Burst)
    BY <1>1, <1>2
  <1>4. Interval * (served + v + d - Burst) = Interval * (served + v - Burst) + Interval * d
    BY <1>1
  <1>5. /\ Interval * (served + w - Burst) \in Int /\ Interval * (served + v - Burst) \in Int
        /\ Interval * d \in Int
    BY <1>1, <1>2
  <1>6. Rate(served, w, a + Interval * d, since)
    BY <1>1, <1>3, <1>4, <1>5 DEF Rate
  <1> QED BY <1>6 DEF w

(* A window that begins now has served nothing.                            *)
LEMMA RateFresh ==
    ASSUME NEW v \in 0 .. Burst, NEW a \in Nat, NEW since \in Nat, a <= since, since < a + Interval
    PROVE  Rate(0, v, a, since)
  <1>1. Interval \in Nat \ {0} /\ Burst \in Nat
    BY IntervalAssumption, BurstAssumption
  <1>2. Interval * (0 + v - Burst) <= Interval * 0
    BY <1>1
  <1>3. Interval * (0 + v - Burst) \in Int /\ Interval * 0 = 0
    BY <1>1
  <1> QED BY <1>1, <1>2, <1>3 DEF Rate

-----------------------------------------------------------------------------
(* The credit.  Since a refusal, served arrivals and available tokens      *)
(* together are worth the time that has passed, unless the bucket filled.  *)

Credit(served, available, counted, since) ==
    served + available >= Burst \/ Interval * (served + available) >= counted - since

CreditInv ==
    window.afterRefusal =>
        last # Unset /\ Credit(window.served, Available, Advanced, window.since)

(* A token that falls due keeps the credit, or the bucket is full.         *)
LEMMA CreditRefilled ==
    ASSUME NEW served \in Nat, NEW v \in Nat, NEW a \in Nat, NEW since \in Nat, NEW d \in {0, 1},
           Credit(served, v, a, since)
    PROVE  Credit(served, IF v + d < Burst THEN v + d ELSE Burst, a + Interval * d, since)
  <1>1. Interval \in Nat \ {0} /\ Burst \in Nat /\ d \in Nat
    BY IntervalAssumption, BurstAssumption
  <1>2. CASE v + d < Burst
    <2>1. Interval * (served + (v + d)) = Interval * (served + v) + Interval * d
      BY <1>1
    <2>2. Interval * (served + v) \in Int /\ Interval * d \in Int
      BY <1>1
    <2> QED BY <1>1, <1>2, <2>1, <2>2 DEF Credit
  <1>3. CASE ~(v + d < Burst)
    BY <1>1, <1>3 DEF Credit
  <1> QED BY <1>2, <1>3

-----------------------------------------------------------------------------
(* The retry.  While a refusal stands the bucket is empty, and the token   *)
(* it was promised falls due one interval after the instant accounted for. *)

RetryInv ==
    refusal # NoRefusal =>
        /\ tokens = 0 /\ last \in Nat
        /\ refusal.retry = last + Interval /\ refusal.retry - refusal.at \in 1 .. Interval

Inv == TypeInv /\ RateInv /\ CreditInv /\ RetryInv

LEMMA InitInv == Init => Inv
  <1> SUFFICES ASSUME Init PROVE Inv
    OBVIOUS
  <1>1. TypeInv
    BY InitType
  <1>2. /\ Available \in 0 .. Burst /\ Advanced \in Nat /\ Advanced <= now
        /\ now < Advanced + Interval /\ now = 0
    <2>1. Counted \in Nat /\ Advanced \in Int
      BY <1>1, Accounted DEF Advanced
    <2> QED BY <1>1, <2>1, Accounted DEF Init
  <1>3. RateInv
    BY <1>2, RateFresh DEF RateInv, Init, Watch
  <1> QED BY <1>1, <1>3 DEF Init, Inv, CreditInv, RetryInv, Watch

-----------------------------------------------------------------------------
(* Each step keeps the invariant.                                          *)

(* The values the arithmetic is about, by name.                            *)
LEMMA Values ==
    ASSUME TypeInv
    PROVE  \E s \in Nat, v \in 0 .. Burst, a \in Nat, n \in Nat, t \in Nat :
              /\ window.served = s /\ Available = v /\ Advanced = a /\ window.since = n
              /\ now = t /\ a <= t /\ t < a + Interval
  <1>1. Counted \in Nat /\ Advanced \in Int
    BY Accounted DEF Advanced
  <1>2. /\ window.served \in Nat /\ Available \in 0 .. Burst /\ Advanced \in Nat
        /\ window.since \in Nat /\ now \in Nat /\ Advanced <= now /\ now < Advanced + Interval
    BY <1>1, Accounted
  <1> QED BY <1>2

LEMMA AdmitKeeps ==
    ASSUME Inv, TypeInv', Admit
    PROVE  RateInv' /\ CreditInv' /\ RetryInv'
  <1>1. PICK s \in Nat, v \in 0 .. Burst, a \in Nat, n \in Nat, t \in Nat :
              /\ window.served = s /\ Available = v /\ Advanced = a /\ window.since = n
    BY Values DEF Inv
  <1>2. Interval \in Nat /\ Burst \in Nat
    BY IntervalAssumption, BurstAssumption
  <1>3. /\ window'.served = s + 1 /\ window'.since = n
        /\ window'.afterRefusal = window.afterRefusal
    BY <1>1 DEF Admit, Inv, TypeInv, TypeOK
  <1>4. Available' = v - 1 /\ Advanced' = a /\ last' # Unset
    BY <1>1, AllowEffect DEF Inv, Allow
  <1>5. s + 1 + (v - 1) = s + v
    BY <1>2
  <1>6. RateInv'
    <2>1. Rate(s, v, a, n)
      BY <1>1 DEF Inv, RateInv
    <2>2. Rate(s + 1, v - 1, a, n)
      BY <2>1, <1>2, <1>5 DEF Rate
    <2> QED BY <2>2, <1>3, <1>4 DEF RateInv
  <1>7. CreditInv'
    <2>1. Credit(s, v, a, n) => Credit(s + 1, v - 1, a, n)
      BY <1>5 DEF Credit
    <2> QED BY <2>1, <1>1, <1>3, <1>4 DEF Inv, CreditInv
  <1>8. RetryInv'
    BY DEF Admit, RetryInv, NoRefusal
  <1> QED BY <1>6, <1>7, <1>8

LEMMA RefuseKeeps ==
    ASSUME Inv, TypeInv', Refuse
    PROVE  RateInv' /\ CreditInv' /\ RetryInv'
  <1>1. PICK s \in Nat, v \in 0 .. Burst, a \in Nat, n \in Nat, t \in Nat :
              /\ window.served = s /\ Available = v /\ Advanced = a /\ window.since = n
              /\ now = t /\ a <= t /\ t < a + Interval
    BY Values DEF Inv
  <1>2. Interval \in Nat \ {0} /\ Burst \in Nat
    BY IntervalAssumption, BurstAssumption
  <1>3. Available' = 0 /\ v = 0 /\ Advanced' = a /\ last' # Unset
    BY <1>1, AllowEffect DEF Inv, Allow
  <1>4. \/ window' = window
        \/ window' = [since |-> t, served |-> 0, afterRefusal |-> TRUE]
    BY <1>1 DEF Refuse, Watch
  <1>5. RateInv'
    <2>1. Rate(s, 0, a, n)
      BY <1>1, <1>3 DEF Inv, RateInv
    <2>2. Rate(0, 0, a, t)
      BY <1>1, <1>2, RateFresh
    <2>3. CASE window' = window
      BY <2>1, <2>3, <1>1, <1>3 DEF RateInv
    <2>4. CASE window' = [since |-> t, served |-> 0, afterRefusal |-> TRUE]
      BY <2>2, <2>4, <1>3 DEF RateInv
    <2> QED BY <1>4, <2>3, <2>4
  <1>6. CreditInv'
    <2>1. CASE window' = window
      BY <2>1, <1>1, <1>3 DEF Inv, CreditInv
    <2>2. CASE window' = [since |-> t, served |-> 0, afterRefusal |-> TRUE]
      <3>1. Credit(0, 0, a, t)
        BY <1>1, <1>2 DEF Credit
      <3> QED BY <3>1, <2>2, <1>3 DEF CreditInv
    <2> QED BY <1>4, <2>1, <2>2
  <1>7. RetryInv'
    <2>1. tokens' = 0 /\ last' = a /\ refusal' = [at |-> t, retry |-> a + Interval]
      BY <1>1, <1>3 DEF Refuse, RetryAt
    <2> QED BY <2>1, <1>1, <1>2 DEF RetryInv
  <1> QED BY <1>5, <1>6, <1>7

LEMMA ObserveKeeps ==
    ASSUME Inv, TypeInv', Observe
    PROVE  RateInv' /\ CreditInv' /\ RetryInv'
  <1>1. PICK s \in Nat, v \in 0 .. Burst, a \in Nat, n \in Nat, t \in Nat :
              /\ window.served = s /\ Available = v /\ Advanced = a /\ window.since = n
              /\ now = t /\ a <= t /\ t < a + Interval
    BY Values DEF Inv
  <1>2. /\ Available' = Available /\ Advanced' = Advanced
        /\ window' = [since |-> t, served |-> 0, afterRefusal |-> FALSE]
    BY <1>1 DEF Observe, Watch, Available, Advanced, Refilled, Counted
  <1>3. Rate(0, v, a, t)
    BY <1>1, RateFresh
  <1>4. RateInv'
    BY <1>1, <1>2, <1>3 DEF RateInv
  <1>5. CreditInv'
    BY <1>2 DEF CreditInv
  <1>6. RetryInv'
    BY DEF Observe, Inv, RetryInv
  <1> QED BY <1>4, <1>5, <1>6

LEMMA TickKeeps ==
    ASSUME Inv, TypeInv', Tick
    PROVE  RateInv' /\ CreditInv' /\ RetryInv'
  <1>1. PICK s \in Nat, v \in 0 .. Burst, a \in Nat, n \in Nat, t \in Nat :
              /\ window.served = s /\ Available = v /\ Advanced = a /\ window.since = n
              /\ now = t /\ a <= t /\ t < a + Interval
    BY Values DEF Inv
  <1>2. window' = window /\ last' = last /\ tokens' = tokens /\ now' = t + 1
    BY <1>1 DEF Tick, limiterVars
  <1>3. RetryInv'
    BY DEF Tick, limiterVars, Inv, RetryInv
  <1>4. Interval \in Nat \ {0} /\ Burst \in Nat
    BY IntervalAssumption, BurstAssumption
  <1>5. Rate(s, v, a, n)
    BY <1>1 DEF Inv, RateInv
  <1>6. CASE last = Unset
    <2>1. /\ Counted = t /\ Counted' = t + 1
      BY <1>1, <1>2, <1>6 DEF Counted
    <2>2. Refilled = 0 /\ Refilled' = 0
      <3>1. Refilled = (t - t) \div Interval /\ Refilled' = (t + 1 - (t + 1)) \div Interval
        BY <2>1, <1>1, <1>2 DEF Refilled
      <3>2. t - t = 0 /\ t + 1 - (t + 1) = 0 /\ 0 \div Interval = 0
        BY <1>1, <1>4, LessThanOne
      <3> QED BY <3>1, <3>2
    <2>3. Available' = Available
      BY <2>2, <1>2 DEF Available
    <2>4. Advanced = t /\ Advanced' = t + 1
      <3>1. Advanced = t + 0 * Interval /\ Advanced' = t + 1 + 0 * Interval
        BY <2>1, <2>2 DEF Advanced
      <3> QED BY <3>1, <1>4
    <2>5. Rate(s, v, a + 1, n)
      <3>1. Interval * (s + v - Burst) \in Int
        BY <1>4
      <3> QED BY <3>1, <1>5, <1>4 DEF Rate
    <2>6. RateInv'
      BY <2>3, <2>4, <2>5, <1>1, <1>2 DEF RateInv
    <2>7. CreditInv'
      BY <1>2, <1>6 DEF Inv, CreditInv
    <2> QED BY <2>6, <2>7, <1>3
  <1>7. CASE last # Unset
    <2>1. PICK d \in {0, 1} :
              /\ Advanced' = Advanced + Interval * d
              /\ Available' = IF Available + d < Burst THEN Available + d ELSE Burst
      BY <1>7, TickEffect DEF Inv
    <2>0. v \in Nat
      BY <1>4
    <2>2. Advanced' = a + Interval * d /\ Available' = IF v + d < Burst THEN v + d ELSE Burst
      BY <2>1, <1>1
    <2>3. RateInv'
      <3>1. Rate(s, IF v + d < Burst THEN v + d ELSE Burst, a + Interval * d, n)
        BY <2>0, <1>5, RateRefilled
      <3> QED BY <3>1, <2>2, <1>1, <1>2 DEF RateInv
    <2>4. CreditInv'
      <3>1. Credit(s, v, a, n) =>
                Credit(s, IF v + d < Burst THEN v + d ELSE Burst, a + Interval * d, n)
        BY <2>0, CreditRefilled
      <3> QED BY <3>1, <2>2, <1>1, <1>2 DEF Inv, CreditInv
    <2> QED BY <2>3, <2>4, <1>3
  <1> QED BY <1>6, <1>7

LEMMA NextInv == Inv /\ [Next]_vars => Inv'
  <1> SUFFICES ASSUME Inv, [Next]_vars PROVE Inv'
    OBVIOUS
  <1>1. TypeInv'
    BY NextType DEF Inv
  <1>2. CASE Admit
    BY <1>1, <1>2, AdmitKeeps DEF Inv
  <1>3. CASE Refuse
    BY <1>1, <1>3, RefuseKeeps DEF Inv
  <1>4. CASE Observe
    BY <1>1, <1>4, ObserveKeeps DEF Inv
  <1>5. CASE Tick
    BY <1>1, <1>5, TickKeeps DEF Inv
  <1>6. CASE UNCHANGED vars
    <2>1. /\ Available' = Available /\ Advanced' = Advanced /\ window' = window
          /\ last' = last /\ tokens' = tokens /\ refusal' = refusal
      BY <1>6 DEF vars, limiterVars, Available, Advanced, Refilled, Counted
    <2> QED BY <1>1, <2>1 DEF Inv, RateInv, CreditInv, RetryInv
  <1> QED BY <1>2, <1>3, <1>4, <1>5, <1>6 DEF Next, Allow

LEMMA Invariance == Spec => []Inv
  BY InitInv, NextInv, PTL DEF Spec

-----------------------------------------------------------------------------
(* The theorems.                                                           *)

(* However arrivals are spaced, whatever the burst and the interval, no    *)
(* window of time serves more than the burst and one arrival for each      *)
(* interval begun in it.                                                   *)
THEOREM RateIsBounded == Spec => []RateBounded
  <1>1. Inv => RateBounded
    <2> SUFFICES ASSUME Inv PROVE RateBounded
      OBVIOUS
    <2>1. PICK s \in Nat, v \in 0 .. Burst, a \in Nat, n \in Nat, t \in Nat :
              /\ window.served = s /\ Available = v /\ Advanced = a /\ window.since = n
              /\ now = t /\ a <= t /\ t < a + Interval
      BY Values DEF Inv
    <2>2. Interval \in Nat \ {0} /\ Burst \in Nat /\ n <= t
      BY <2>1, IntervalAssumption, BurstAssumption DEF Inv, TypeInv, Ordered
    <2> DEFINE e == t - n + Interval - 1
               q == e \div Interval
    <2>3. e \in Nat
      BY <2>2
    <2>4. q \in Nat /\ e < Interval * q + Interval
      BY <2>2, <2>3, Quotient
    <2>5. Interval * (s - Burst) <= e
      <3>1. Interval * (s + v - Burst) <= a - n + Interval - 1
        BY <2>1 DEF Inv, RateInv, Rate
      <3>2. Interval * (s - Burst) <= Interval * (s + v - Burst)
        BY <2>2
      <3>3. Interval * (s - Burst) \in Int /\ Interval * (s + v - Burst) \in Int
        BY <2>2
      <3> QED BY <3>1, <3>2, <3>3, <2>1, <2>2
    <2> HIDE DEF q, e
    <2>6. s - Burst <= q
      BY <2>2, <2>3, <2>4, <2>5, WholeIntervals
    <2>7. s <= Burst + q
      BY <2>2, <2>4, <2>6
    <2> QED BY <2>1, <2>7 DEF RateBounded, q, e
  <1> QED BY Invariance, <1>1, PTL

(* The retry time a refused client is given is exact, and never more than  *)
(* one interval.                                                           *)
THEOREM RetryAfterHolds == Spec => []RetryAfterIsExact
  <1>1. Inv => RetryAfterIsExact
    <2> SUFFICES ASSUME Inv, refusal # NoRefusal
                 PROVE  /\ Available > 0 <=> now >= refusal.retry
                        /\ refusal.retry - refusal.at \in 1 .. Interval
      BY DEF RetryAfterIsExact
    <2>1. /\ tokens = 0 /\ last \in Nat
          /\ refusal.retry = last + Interval /\ refusal.retry - refusal.at \in 1 .. Interval
      BY DEF Inv, RetryInv
    <2>2. Interval \in Nat \ {0} /\ Burst \in Nat \ {0} /\ now \in Nat /\ last <= now
      BY IntervalAssumption, BurstAssumption DEF Inv, TypeInv, TypeOK, Ordered
    <2>3. Refilled = (now - last) \div Interval
      BY <2>1 DEF Refilled, Counted, Unset
    <2>4. PICK r \in Nat : Refilled = r /\ Interval * r <= now - last /\ now - last < Interval * r + Interval
      <3>1. now - last \in Nat
        BY <2>1, <2>2
      <3> QED BY <3>1, <2>2, <2>3, Quotient
    <2>5. Available > 0 <=> r > 0
      BY <2>1, <2>2, <2>4 DEF Available
    <2>6. r > 0 <=> now - last >= Interval
      <3>1. CASE r = 0
        BY <3>1, <2>1, <2>2, <2>4
      <3>2. CASE r > 0
        <4>1. Interval * r >= Interval * 1
          BY <3>2, <2>2, <2>4
        <4>2. Interval * r \in Int /\ Interval * 1 = Interval
          BY <2>2, <2>4
        <4> QED BY <3>2, <4>1, <4>2, <2>1, <2>2, <2>4
      <3> QED BY <3>1, <3>2, <2>4
    <2>7. now - last >= Interval <=> now >= refusal.retry
      BY <2>1, <2>2
    <2> QED BY <2>1, <2>5, <2>6, <2>7
  <1> QED BY Invariance, <1>1, PTL

(* No elapsed time is lost: between two refusals every whole interval is   *)
(* served, up to the burst.                                                *)
THEOREM CreditIsKept == Spec => []NoCreditLost
  <1>1. Inv => NoCreditLost
    <2> SUFFICES ASSUME Inv, window.afterRefusal, refusal.at = now
                 PROVE  \/ window.served >= (now - window.since) \div Interval
                        \/ window.served >= Burst
      BY DEF NoCreditLost
    <2>1. PICK s \in Nat, v \in 0 .. Burst, a \in Nat, n \in Nat, t \in Nat :
              /\ window.served = s /\ Available = v /\ Advanced = a /\ window.since = n
              /\ now = t /\ a <= t /\ t < a + Interval
      BY Values DEF Inv
    <2>2. Interval \in Nat \ {0} /\ Burst \in Nat \ {0} /\ n <= t /\ last <= t
      BY <2>1, IntervalAssumption, BurstAssumption DEF Inv, TypeInv, Ordered
    <2>3. refusal # NoRefusal
      BY <2>1 DEF NoRefusal, Unset
    <2>4. v = 0
      <3>1. /\ tokens = 0 /\ last \in Nat
            /\ refusal.retry = last + Interval /\ refusal.retry - t \in 1 .. Interval
        BY <2>1, <2>3 DEF Inv, RetryInv
      <3>2. t - last \in Nat /\ t - last < Interval
        BY <3>1, <2>2
      <3>3. Refilled = 0
        BY <3>1, <3>2, <2>1, <2>2, LessThanOne DEF Refilled, Counted, Unset
      <3> QED BY <3>1, <3>3, <2>1, <2>2 DEF Available
    <2>5. s >= Burst \/ Interval * s >= a - n
      BY <2>1, <2>2, <2>4 DEF Inv, CreditInv, Credit
    <2>6. CASE Interval * s >= a - n
      <3>1. t - n \in Nat /\ Interval * s \in Int
        BY <2>2
      <3>2. PICK q \in Nat : /\ (t - n) \div Interval = q /\ Interval * q <= t - n
        BY <3>1, <2>2, Quotient
      <3>3. t - n < Interval * s + Interval
        BY <3>1, <2>1, <2>2, <2>6
      <3>4. q <= s
        BY <3>1, <3>2, <3>3, <2>2, WholeIntervals
      <3> QED BY <3>2, <3>4, <2>1
    <2> QED BY <2>5, <2>6, <2>1
  <1> QED BY Invariance, <1>1, PTL

(* What a refused client is told is exact, and between two refusals no     *)
(* credit is lost: for any burst and interval.                             *)
THEOREM RefusalsTreatFairly == Spec => []RefusalsAreFair
  <1>1. RetryAfterIsExact /\ NoCreditLost => RefusalsAreFair
    BY DEF RefusalsAreFair
  <1> QED BY RetryAfterHolds, CreditIsKept, <1>1, PTL
=============================================================================
