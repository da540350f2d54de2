--------------------------- MODULE AnalysisProofs ---------------------------
(***************************************************************************)
(* Theorems about the analyses Diagnosis makes of the histories it reads,  *)
(* for any history, however long, and any window: the outages it measures, *)
(* the cadence it shows and the clusters it finds are those their          *)
(* definitions name instant by instant and window by window.  The analyses *)
(* are folds over sequences that are put in order first; what they compute *)
(* is told by what holds after each place.  The lemmas at the end say, of  *)
(* any inputs, what the three explanations cite as evidence, how sure each *)
(* conclusion may be, and what leaves one unresolved; DiagnosisProofs      *)
(* shows from them that the blame a call puts is earned.                   *)
(***************************************************************************)
EXTENDS Diagnosis, FiniteSetTheorems, SequenceTheorems, TLAPS

-----------------------------------------------------------------------------
(* Orders, and the sequences that line a set up in one.                    *)

(* A sequence of the members of S in the order R.                          *)
IsLine(s, S, R) ==
    /\ s \in Seq(S) /\ Len(s) = Cardinality(S)
    /\ \A x \in S : \E i \in 1 .. Len(s) : s[i] = x
    /\ \A i, j \in 1 .. Len(s) : i < j => <<s[i], s[j]>> \in R

IsTotal(R, S) ==
    /\ \A x \in S : <<x, x>> \notin R
    /\ \A x, y, z \in S : <<x, y>> \in R /\ <<y, z>> \in R => <<x, z>> \in R
    /\ \A x, y \in S : x = y \/ <<x, y>> \in R \/ <<y, x>> \in R

Below(x, S, R) == {y \in S : <<y, x>> \in R}

(* In a strict total order of n members each has a rank of its own below   *)
(* n, so that every rank below n is that of one.                           *)
LEMMA Ranking ==
    ASSUME NEW S, IsFiniteSet(S), NEW R, IsTotal(R, S),
           NEW V, NEW s \in [1 .. Cardinality(S) -> V],
           \A i \in 1 .. Cardinality(S) :
                (\E x \in S : Cardinality(Below(x, S, R)) = i - 1)
                    => s[i] \in S /\ Cardinality(Below(s[i], S, R)) = i - 1
    PROVE  IsLine(s, S, R)
  <1> DEFINE n == Cardinality(S)
             r == [x \in S |-> Cardinality(Below(x, S, R)) + 1]
  <1>1. n \in Nat
    BY FS_CardinalityType
  <1>2. ASSUME NEW x \in S
        PROVE  /\ IsFiniteSet(Below(x, S, R)) /\ Cardinality(Below(x, S, R)) \in Nat
               /\ Cardinality(Below(x, S, R)) < n
    <2>1. Below(x, S, R) \subseteq S /\ x \notin Below(x, S, R)
      BY DEF Below, IsTotal
    <2> QED BY <2>1, FS_Subset, FS_CardinalityType
  <1>3. ASSUME NEW x \in S, NEW y \in S, <<x, y>> \in R
        PROVE  Cardinality(Below(x, S, R)) < Cardinality(Below(y, S, R))
    <2>1. Below(x, S, R) \subseteq Below(y, S, R) /\ x \in Below(y, S, R) /\ x \notin Below(x, S, R)
      BY <1>3 DEF Below, IsTotal
    <2>2. IsFiniteSet(Below(y, S, R)) /\ IsFiniteSet(Below(x, S, R))
      BY <1>2
    <2>3. Cardinality(Below(x, S, R)) <= Cardinality(Below(y, S, R))
      BY <2>1, <2>2, FS_Subset
    <2>4. Cardinality(Below(x, S, R)) # Cardinality(Below(y, S, R))
      BY <2>1, <2>2, FS_Subset
    <2> QED BY <1>2, <2>3, <2>4
  <1>11. ASSUME NEW x \in S, NEW y \in S, Cardinality(Below(x, S, R)) = Cardinality(Below(y, S, R))
         PROVE  x = y
    <2>1. <<x, y>> \notin R /\ <<y, x>> \notin R
      <3>1. Cardinality(Below(x, S, R)) \in Int /\ Cardinality(Below(y, S, R)) \in Int
        BY <1>2
      <3>2. ~(Cardinality(Below(x, S, R)) < Cardinality(Below(y, S, R)))
        BY <1>11, <3>1
      <3>3. ~(Cardinality(Below(y, S, R)) < Cardinality(Below(x, S, R)))
        BY <1>11, <3>1
      <3> QED BY <1>3, <3>2, <3>3
    <2> QED BY <2>1 DEF IsTotal
  <1>4. r \in Injection(S, 1 .. n)
    <2>1. r \in [S -> 1 .. n]
      <3> SUFFICES ASSUME NEW x \in S PROVE Cardinality(Below(x, S, R)) + 1 \in 1 .. n
        OBVIOUS
      <3> HIDE DEF n
      <3> QED BY <1>1, <1>2
    <2>2. ASSUME NEW x \in S, NEW y \in S, r[x] = r[y] PROVE x = y
      <3>1. Cardinality(Below(x, S, R)) = Cardinality(Below(y, S, R))
        BY <1>2, <2>2
      <3> QED BY <1>11, <3>1
    <2> HIDE DEF r, n
    <2> QED BY <2>1, <2>2 DEF Injection, IsInjective
  <1>5. IsFiniteSet(1 .. n) /\ Cardinality(1 .. n) = n
    <2>1. 1 \in Int /\ n \in Int
      BY <1>1
    <2>2. Cardinality(1 .. n) = IF 1 > n THEN 0 ELSE n - 1 + 1
      BY <2>1, FS_Interval
    <2> QED BY <1>1, <2>1, <2>2, FS_Interval
  <1>6. r \in Surjection(S, 1 .. n)
    BY <1>4, <1>5, FS_Injection
  <1>7. ASSUME NEW i \in 1 .. n
        PROVE  s[i] \in S /\ Cardinality(Below(s[i], S, R)) = i - 1
    <2>1. PICK x \in S : r[x] = i
      BY <1>6 DEF Surjection
    <2>2. Cardinality(Below(x, S, R)) = i - 1
      <3>1. r[x] = Cardinality(Below(x, S, R)) + 1 /\ i \in Int
        BY <1>1
      <3> HIDE DEF r
      <3> QED BY <1>2, <2>1, <3>1
    <2> QED BY <2>2
  <1>8. s \in Seq(S) /\ Len(s) = n
    <2> HIDE DEF n
    <2>1. s \in [1 .. n -> S]
      BY <1>7 DEF n
    <2> QED BY <1>1, <2>1
  <1>9. ASSUME NEW x \in S PROVE \E i \in 1 .. n : s[i] = x
    <2>1. r[x] \in 1 .. n /\ r[x] = Cardinality(Below(x, S, R)) + 1
      BY <1>4 DEF Injection
    <2> HIDE DEF r, n
    <2>2. s[r[x]] \in S /\ Cardinality(Below(s[r[x]], S, R)) = r[x] - 1
      BY <1>7, <2>1
    <2>3. Cardinality(Below(s[r[x]], S, R)) = Cardinality(Below(x, S, R))
      BY <1>2, <2>1, <2>2
    <2>4. s[r[x]] = x
      BY <1>11, <2>2, <2>3
    <2> QED BY <2>1, <2>4
  <1>10. ASSUME NEW i \in 1 .. n, NEW j \in 1 .. n, i < j PROVE <<s[i], s[j]>> \in R
    <2> HIDE DEF n
    <2>0. i \in Int /\ j \in Int
      BY <1>1
    <2>1. s[i] \in S /\ s[j] \in S /\ s[i] # s[j]
      BY <1>7, <1>10, <2>0
    <2>2. <<s[j], s[i]>> \notin R
      <3>1. <<s[j], s[i]>> \in R => Cardinality(Below(s[j], S, R)) < Cardinality(Below(s[i], S, R))
        BY <1>3, <2>1
      <3>2. Cardinality(Below(s[i], S, R)) = i - 1 /\ Cardinality(Below(s[j], S, R)) = j - 1
        BY <1>7
      <3>3. ~(j - 1 < i - 1)
        BY <1>10, <2>0
      <3> QED BY <3>1, <3>2, <3>3
    <2> QED BY <2>1, <2>2 DEF IsTotal
  <1> HIDE DEF n
  <1> QED BY <1>8, <1>9, <1>10 DEF IsLine, n

LEMMA DownFirstIsLine ==
    ASSUME NEW ids, IsFiniteSet(ids), ids \subseteq Int, NEW down
    PROVE  IsLine(DownFirst(ids, down), ids,
                  {p \in ids \X ids : IF (p[1] \in down) # (p[2] \in down) THEN p[1] \in down ELSE p[1] < p[2]})
  <1> DEFINE R == {p \in ids \X ids : IF (p[1] \in down) # (p[2] \in down) THEN p[1] \in down ELSE p[1] < p[2]}
             lt(y, x) == IF (y \in down) # (x \in down) THEN y \in down ELSE y < x
             s == DownFirst(ids, down)
  <1>1. \A x, y \in ids : <<y, x>> \in R <=> lt(y, x)
    OBVIOUS
  <1>2. \A x \in ids : {y \in ids : lt(y, x)} = Below(x, ids, R)
    <2> HIDE DEF R, lt
    <2> QED BY <1>1 DEF Below
  <1>3. IsTotal(R, ids)
    <2> SUFFICES /\ \A x \in ids : ~lt(x, x)
                 /\ \A x, y, z \in ids : lt(x, y) /\ lt(y, z) => lt(x, z)
                 /\ \A x, y \in ids : x = y \/ lt(x, y) \/ lt(y, x)
      <3> HIDE DEF R, lt
      <3> QED BY <1>1 DEF IsTotal
    <2> QED OBVIOUS
  <1>4. s = [i \in 1 .. Cardinality(ids) |-> CHOOSE x \in ids : Cardinality({y \in ids : lt(y, x)}) = i - 1]
    BY DEF DownFirst, Sorted
  <1> HIDE DEF s, lt, R
  <1>5. s \in [1 .. Cardinality(ids) -> {s[i] : i \in 1 .. Cardinality(ids)}]
    BY <1>4
  <1>6. ASSUME NEW i \in 1 .. Cardinality(ids), NEW x \in ids, Cardinality(Below(x, ids, R)) = i - 1
        PROVE  s[i] \in ids /\ Cardinality(Below(s[i], ids, R)) = i - 1
    <2>1. Cardinality({y \in ids : lt(y, x)}) = i - 1
      BY <1>2, <1>6
    <2>2. s[i] = CHOOSE z \in ids : Cardinality({y \in ids : lt(y, z)}) = i - 1
      BY <1>4
    <2>3. s[i] \in ids /\ Cardinality({y \in ids : lt(y, s[i])}) = i - 1
      BY <2>1, <2>2
    <2> QED BY <1>2, <2>3
  <1>7. IsLine(s, ids, R)
    BY <1>3, <1>5, <1>6, Ranking
  <1> QED BY <1>7 DEF s, R

LEMMA AscendingIsLine ==
    ASSUME NEW ids, IsFiniteSet(ids), ids \subseteq Int
    PROVE  IsLine(Ascending(ids), ids, {p \in ids \X ids : p[1] < p[2]})
  <1> DEFINE R == {p \in ids \X ids : p[1] < p[2]}
             s == Ascending(ids)
  <1>1. \A x, y \in ids : <<y, x>> \in R <=> y < x
    OBVIOUS
  <1> HIDE DEF R
  <1>2. \A x \in ids : {y \in ids : y < x} = Below(x, ids, R)
    BY <1>1 DEF Below
  <1>3. IsTotal(R, ids)
    BY <1>1 DEF IsTotal
  <1>4. s = [i \in 1 .. Cardinality(ids) |-> CHOOSE x \in ids : Cardinality({y \in ids : y < x}) = i - 1]
    BY DEF Ascending, Sorted
  <1> HIDE DEF s
  <1>5. s \in [1 .. Cardinality(ids) -> {s[i] : i \in 1 .. Cardinality(ids)}]
    BY <1>4
  <1>6. ASSUME NEW i \in 1 .. Cardinality(ids), NEW x \in ids, Cardinality(Below(x, ids, R)) = i - 1
        PROVE  s[i] \in ids /\ Cardinality(Below(s[i], ids, R)) = i - 1
    <2>1. Cardinality({y \in ids : y < x}) = i - 1
      BY <1>2, <1>6
    <2>2. s[i] = CHOOSE z \in ids : Cardinality({y \in ids : y < z}) = i - 1
      BY <1>4
    <2>3. s[i] \in ids /\ Cardinality({y \in ids : y < s[i]}) = i - 1
      BY <2>1, <2>2
    <2> QED BY <1>2, <2>3
  <1>7. IsLine(s, ids, R)
    BY <1>3, <1>5, <1>6, Ranking
  <1> QED BY <1>7 DEF s, R

LEMMA PlacesAreKept ==
    ASSUME NEW seq, NEW n \in Nat, NEW places \in SUBSET (1 .. n)
    PROVE  /\ AtPlaces(seq, places) \in Seq({seq[i] : i \in places})
           /\ Len(AtPlaces(seq, places)) = Cardinality(places)
           /\ Cardinality(places) \in 0 .. n
           /\ \A i \in places : \E k \in 1 .. Cardinality(places) : AtPlaces(seq, places)[k] = seq[i]
  <1> DEFINE R == {p \in places \X places : p[1] < p[2]}
             s == Ascending(places)
             m == Cardinality(places)
  <1>1. IsFiniteSet(1 .. n) /\ Cardinality(1 .. n) = n
    <2>1. 1 \in Int /\ n \in Int
      OBVIOUS
    <2>2. Cardinality(1 .. n) = IF 1 > n THEN 0 ELSE n - 1 + 1
      BY <2>1, FS_Interval
    <2> QED BY <2>1, <2>2, FS_Interval
  <1>2. IsFiniteSet(places) /\ m \in 0 .. n
    <2>1. IsFiniteSet(places) /\ m <= n
      BY <1>1, FS_Subset
    <2>2. m \in Nat
      BY <2>1, FS_CardinalityType
    <2> QED BY <2>1, <2>2
  <1>3. IsLine(s, places, R)
    <2>1. places \subseteq Int
      OBVIOUS
    <2> QED BY <1>2, <2>1, AscendingIsLine
  <1> HIDE DEF R, s, m
  <1>4. s \in Seq(places) /\ Len(s) = m /\ \A x \in places : \E i \in 1 .. m : s[i] = x
    BY <1>3 DEF IsLine, m
  <1>5. AtPlaces(seq, places) = [k \in DOMAIN s |-> seq[s[k]]]
    BY DEF AtPlaces, s
  <1>6. DOMAIN s = 1 .. m /\ \A k \in 1 .. m : s[k] \in places
    BY <1>4
  <1>7. AtPlaces(seq, places) = [k \in 1 .. m |-> seq[s[k]]]
    BY <1>5, <1>6
  <1>8. AtPlaces(seq, places) \in Seq({seq[i] : i \in places}) /\ Len(AtPlaces(seq, places)) = m
    <2>1. m \in Nat
      BY <1>2
    <2>2. AtPlaces(seq, places) \in [1 .. m -> {seq[i] : i \in places}]
      BY <1>6, <1>7
    <2> QED BY <2>1, <2>2
  <1> QED BY <1>2, <1>4, <1>7, <1>8 DEF m

-----------------------------------------------------------------------------
(* Induction over the naturals, from the least of a set of them.           *)

LEMMA Least ==
    ASSUME NEW T \in SUBSET Nat, T # {}
    PROVE  \E n \in T : \A m \in T : n <= m
  <1> DEFINE R == OpToRel(<, Nat)
  <1>1. IsWellFoundedOn(R, Nat)
    BY NatLessThanWellFounded
  <1>2. \A m, n \in Nat : m < n => <<m, n>> \in R
    BY DEF OpToRel
  <1> HIDE DEF R
  <1>3. PICK n \in T : \A m \in T : <<m, n>> \notin R
    BY <1>1, WFMin
  <1>4. ASSUME NEW m \in T PROVE n <= m
    <2>1. m \in Nat /\ n \in Nat /\ ~(m < n)
      BY <1>2, <1>3
    <2> QED BY <2>1
  <1> QED BY <1>4

LEMMA Induction ==
    ASSUME NEW T, 0 \in T, \A n \in Nat : n \in T => n + 1 \in T
    PROVE  \A n \in Nat : n \in T
  <1> SUFFICES ASSUME Nat \ T # {} PROVE FALSE
    OBVIOUS
  <1>1. PICK n \in Nat \ T : \A m \in Nat \ T : n <= m
    BY Least
  <1>2. n # 0 /\ n - 1 \in Nat /\ n - 1 \in T
    BY <1>1
  <1> QED BY <1>1, <1>2

-----------------------------------------------------------------------------
(* Folds.                                                                  *)

(* What a fold over 1 .. n is: the recursive function of FoldLeft.         *)
IsFold(g, n, base, step) ==
    g = [t \in SUBSET (1 .. n) |-> IF t = {} THEN base ELSE step[<<Max(t), g[t \ {Max(t)}]>>]]

LEMMA MaxLast ==
    ASSUME NEW n \in Nat, NEW t \in SUBSET (1 .. n), t # {}
    PROVE  Max(t) \in t /\ \A i \in t : i <= Max(t)
  <1> DEFINE T == {m \in 0 .. n : \A i \in t : i <= m}
  <1>1. n \in T /\ T \in SUBSET Nat
    OBVIOUS
  <1>2. PICK m \in T : \A k \in T : m <= k
    <2> HIDE DEF T
    <2> QED BY <1>1, Least
  <1>3. m \in t
    <2> SUFFICES ASSUME m \notin t PROVE FALSE
      OBVIOUS
    <2>1. \A i \in t : i \in Int /\ i <= m - 1
      OBVIOUS
    <2>2. m - 1 \in T
      <3>1. PICK i \in t : i \in 1 .. n
        OBVIOUS
      <3>2. m \in 0 .. n /\ i <= m - 1 /\ i \in Int
        BY <2>1
      <3>3. m - 1 \in 0 .. n
        BY <3>1, <3>2
      <3> QED BY <2>1, <3>3
    <2>3. m \in Int /\ m <= m - 1
      <3>1. m \in Int
        OBVIOUS
      <3> HIDE DEF T
      <3> QED BY <1>2, <2>2, <3>1
    <2> QED BY <2>3
  <1>4. \E x \in t : \A y \in t : x >= y
    BY <1>3
  <1> QED BY <1>4 DEF Max

LEMMA FoldExists ==
    ASSUME NEW n \in Nat, NEW A, NEW base \in A, NEW step \in [(1 .. n) \X A -> A]
    PROVE  \E g \in [SUBSET (1 .. n) -> A] : IsFold(g, n, base, step)
  <1> DEFINE Step(g, t) == IF t = {} THEN base ELSE step[<<Max(t), g[t \ {Max(t)}]>>]
             Upto(g, m) == g = [t \in SUBSET (1 .. m) |-> Step(g, t)]
             Reached(m) == \E g \in [SUBSET (1 .. m) -> A] : Upto(g, m)
             T == {m \in Nat : m <= n => Reached(m)}
  <1>1. 0 \in T
    <2> DEFINE g == [t \in SUBSET (1 .. 0) |-> base]
    <2>1. \A t \in SUBSET (1 .. 0) : Step(g, t) = base
      OBVIOUS
    <2> HIDE DEF Step
    <2>2. g \in [SUBSET (1 .. 0) -> A] /\ Upto(g, 0)
      BY <2>1
    <2> HIDE DEF g, Upto
    <2> QED BY <2>2
  <1>2. ASSUME NEW m \in Nat, m \in T PROVE m + 1 \in T
    <2> SUFFICES ASSUME m + 1 <= n PROVE Reached(m + 1)
      <3> HIDE DEF Reached
      <3> QED OBVIOUS
    <2>1. PICK g \in [SUBSET (1 .. m) -> A] : Upto(g, m)
      <3>1. m <= n
        OBVIOUS
      <3>2. Reached(m)
        <4> HIDE DEF Reached
        <4> QED BY <1>2, <3>1
      <3> HIDE DEF Upto
      <3> QED BY <3>2
    <2> DEFINE h == [t \in SUBSET (1 .. m + 1) |-> IF m + 1 \in t THEN step[<<m + 1, g[t \ {m + 1}]>>] ELSE g[t]]
    <2>2. ASSUME NEW t \in SUBSET (1 .. m + 1)
          PROVE  /\ m + 1 \in t => Max(t) = m + 1 /\ t \ {m + 1} \in SUBSET (1 .. m)
                 /\ m + 1 \notin t => t \in SUBSET (1 .. m)
                 /\ t # {} => Max(t) \in t
      <3>1. \A i \in t : i \in 1 .. m \/ i = m + 1
        OBVIOUS
      <3>2. t # {} => Max(t) \in t /\ \A i \in t : i <= Max(t)
        <4>1. m + 1 \in Nat
          OBVIOUS
        <4> QED BY <4>1, MaxLast
      <3>3. m + 1 \in t => Max(t) = m + 1
        <4> HIDE DEF T, h
        <4>1. ASSUME m + 1 \in t PROVE Max(t) \in 1 .. m + 1 /\ m + 1 <= Max(t)
          BY <3>2, <4>1
        <4> QED BY <4>1
      <3> QED BY <3>1, <3>2, <3>3
    <2>3. h \in [SUBSET (1 .. m + 1) -> A]
      <3> SUFFICES ASSUME NEW t \in SUBSET (1 .. m + 1)
                   PROVE  (IF m + 1 \in t THEN step[<<m + 1, g[t \ {m + 1}]>>] ELSE g[t]) \in A
        OBVIOUS
      <3>1. m + 1 \in 1 .. n
        OBVIOUS
      <3> QED BY <2>2, <3>1
    <2>4. \A t \in SUBSET (1 .. m) : h[t] = g[t] /\ g[t] = Step(g, t)
      <3> TAKE t \in SUBSET (1 .. m)
      <3>1. t \in SUBSET (1 .. m + 1) /\ m + 1 \notin t
        OBVIOUS
      <3>2. g[t] = Step(g, t)
        <4> HIDE DEF Step
        <4> QED BY <2>1
      <3> QED BY <3>1, <3>2
    <2>5. ASSUME NEW t \in SUBSET (1 .. m + 1) PROVE h[t] = Step(h, t)
      <3>1. CASE m + 1 \in t
        <4>1. h[t] = step[<<m + 1, g[t \ {m + 1}]>>]
          BY <3>1
        <4>2. g[t \ {m + 1}] = h[t \ {m + 1}]
          <5> HIDE DEF h
          <5> QED BY <2>2, <2>4, <3>1
        <4> HIDE DEF h
        <4> QED BY <2>2, <3>1, <4>1, <4>2
      <3>2. CASE m + 1 \notin t
        <4>1. t \in SUBSET (1 .. m)
          BY <2>2, <3>2
        <4>2. h[t] = Step(g, t)
          <5> HIDE DEF h, Step
          <5> QED BY <2>4, <4>1
        <4>3. t # {} => t \ {Max(t)} \in SUBSET (1 .. m)
          BY <4>1
        <4>4. t # {} => h[t \ {Max(t)}] = g[t \ {Max(t)}]
          <5> HIDE DEF h, Step
          <5> QED BY <2>4, <4>3
        <4> HIDE DEF h
        <4> QED BY <4>2, <4>4
      <3> QED BY <3>1, <3>2
    <2>6. Upto(h, m + 1)
      <3>1. h = [t \in SUBSET (1 .. m + 1) |-> h[t]]
        OBVIOUS
      <3> HIDE DEF h, Step
      <3> QED BY <2>5, <3>1
    <2> HIDE DEF h, Upto
    <2> QED BY <2>3, <2>6
  <1>3. n \in T
    <2> HIDE DEF T
    <2> QED BY <1>1, <1>2, Induction
  <1>4. PICK g \in [SUBSET (1 .. n) -> A] : Upto(g, n)
    <2>1. Reached(n)
      <3>1. n <= n
        OBVIOUS
      <3> HIDE DEF Reached
      <3> QED BY <1>3, <3>1
    <2> HIDE DEF Upto
    <2> QED BY <2>1
  <1> HIDE DEF T
  <1> QED BY <1>4 DEF Upto, IsFold

(* Where such a function is, its value stays in A, and one more place takes one more step *)
Climbs(g, n, A, base, step) ==
    /\ g[{}] = base
    /\ \A t \in SUBSET (1 .. n) :
            t # {} /\ g[t \ {Max(t)}] \in A => g[t] = step[<<Max(t), g[t \ {Max(t)}]>>]

Climbed(g, n, A, step) ==
    \A m \in 0 .. n : g[1 .. m] \in A /\ (m > 0 => g[1 .. m] = step[<<m, g[1 .. (m - 1)]>>])

LEMMA FoldSteps ==
    ASSUME NEW n \in Nat, NEW A, NEW base \in A, NEW step \in [(1 .. n) \X A -> A],
           NEW g, Climbs(g, n, A, base, step)
    PROVE  Climbed(g, n, A, step)
  <1> DEFINE P(m) == g[1 .. m] \in A /\ (m > 0 => g[1 .. m] = step[<<m, g[1 .. (m - 1)]>>])
             T == {m \in Nat : m <= n => P(m)}
  <1>1. 0 \in T
    <2>1. 1 .. 0 = {}
      OBVIOUS
    <2> QED BY <2>1 DEF Climbs
  <1>2. ASSUME NEW m \in Nat, m \in T PROVE m + 1 \in T
    <2> SUFFICES ASSUME m + 1 <= n PROVE P(m + 1)
      <3> HIDE DEF P
      <3> QED OBVIOUS
    <2>1. g[1 .. m] \in A
      <3>1. m <= n
        OBVIOUS
      <3>2. P(m)
        <4> HIDE DEF P
        <4> QED BY <1>2, <3>1
      <3> QED BY <3>2
    <2> DEFINE t == 1 .. (m + 1)
    <2>2. t \in SUBSET (1 .. n) /\ t # {} /\ m + 1 \in 1 .. n
      OBVIOUS
    <2>3. Max(t) = m + 1
      <3>1. Max(t) \in t /\ \A i \in t : i <= Max(t)
        BY <2>2, MaxLast
      <3> QED BY <3>1
    <2>4. t \ {Max(t)} = 1 .. m
      BY <2>3
    <2>5. g[t] = step[<<m + 1, g[1 .. m]>>]
      <3> HIDE DEF t
      <3> QED BY <2>1, <2>2, <2>3, <2>4 DEF Climbs
    <2>6. step[<<m + 1, g[1 .. m]>>] \in A
      BY <2>1, <2>2
    <2>7. (m + 1) - 1 = m
      OBVIOUS
    <2> QED BY <2>5, <2>6, <2>7
  <1>3. \A m \in Nat : m \in T
    <2> HIDE DEF T
    <2> QED BY <1>1, <1>2, Induction
  <1> QED BY <1>3 DEF Climbed

(* What FoldLeft computes, told by the place it has come to.               *)
InStep(g, h, n) ==
    /\ g[{}] = h[{}]
    /\ \A m \in 1 .. n : g[1 .. (m - 1)] = h[1 .. (m - 1)] => g[1 .. m] = h[1 .. m]

LEMMA FoldsAgree ==
    ASSUME NEW n \in Nat, NEW g, NEW h, InStep(g, h, n)
    PROVE  g[1 .. n] = h[1 .. n]
  <1> DEFINE T == {m \in Nat : m <= n => g[1 .. m] = h[1 .. m]}
  <1>1. 0 \in T
    <2>1. 1 .. 0 = {}
      OBVIOUS
    <2> QED BY <2>1 DEF InStep
  <1>2. ASSUME NEW m \in Nat, m \in T PROVE m + 1 \in T
    <2>1. (m + 1) - 1 = m /\ (m + 1 <= n => m + 1 \in 1 .. n)
      OBVIOUS
    <2> QED BY <1>2, <2>1 DEF InStep
  <1>3. n \in T
    <2> HIDE DEF T
    <2> QED BY <1>1, <1>2, Induction
  <1> QED BY <1>3

Sums(g, s) ==
    /\ g[{}] = 0 /\ Total(s) = g[1 .. Len(s)]
    /\ \A m \in 0 .. Len(s) : g[1 .. m] \in Nat /\ (m > 0 => g[1 .. m] = g[1 .. (m - 1)] + s[m])

LEMMA TotalIsFold ==
    ASSUME NEW s \in Seq(Nat)
    PROVE  \E g : Sums(g, s)
  <1> DEFINE n == Len(s)
             F(g) == [t \in SUBSET (1 .. n) |-> IF t = {} THEN 0 ELSE g[t \ {Max(t)}] + s[Max(t)]]
             total == CHOOSE g : g = F(g)
             step == [p \in (1 .. n) \X Nat |-> p[2] + s[p[1]]]
  <1>0. n \in Nat /\ DOMAIN s = 1 .. n /\ \A i \in 1 .. n : s[i] \in Nat
    OBVIOUS
  <1> HIDE DEF n
  <1>1. step \in [(1 .. n) \X Nat -> Nat]
    BY <1>0
  <1>2. \A i \in 1 .. n : \A a \in Nat : step[<<i, a>>] = a + s[i]
    OBVIOUS
  <1> HIDE DEF step
  <1>3. PICK g \in [SUBSET (1 .. n) -> Nat] : IsFold(g, n, 0, step)
    BY <1>0, <1>1, FoldExists
  <1>4. \A t \in SUBSET (1 .. n) : t # {} => Max(t) \in 1 .. n /\ t \ {Max(t)} \in SUBSET (1 .. n)
    BY <1>0, MaxLast
  <1>5. \A t \in SUBSET (1 .. n) : g[t] = IF t = {} THEN 0 ELSE step[<<Max(t), g[t \ {Max(t)}]>>]
    BY <1>3 DEF IsFold
  <1>6. \A t \in SUBSET (1 .. n) : g[t] = F(g)[t]
    BY <1>2, <1>4, <1>5
  <1>7. g = F(g)
    BY <1>6
  <1>8. total = F(total)
    BY <1>7
  <1>9. Total(s) = total[DOMAIN s]
    BY <1>0 DEF Total, FoldLeft, MapThenFoldSet
  <1>10. PICK h : h = F(h) /\ Total(s) = h[1 .. n]
    <2> HIDE DEF total, F
    <2> QED BY <1>0, <1>8, <1>9
  <1>11. \A t \in SUBSET (1 .. n) : h[t] = IF t = {} THEN 0 ELSE h[t \ {Max(t)}] + s[Max(t)]
    BY <1>10
  <1> HIDE DEF total, F
  <1>12. h[{}] = 0 /\ 0 \in Nat
    BY <1>11
  <1>13. Climbs(h, n, Nat, 0, step)
    BY <1>2, <1>4, <1>11, <1>12 DEF Climbs
  <1>14. \A m \in 0 .. n : h[1 .. m] \in Nat /\ (m > 0 => h[1 .. m] = step[<<m, h[1 .. (m - 1)]>>])
    <2>1. Climbed(h, n, Nat, step)
      BY <1>0, <1>1, <1>12, <1>13, FoldSteps
    <2> QED BY <2>1 DEF Climbed
  <1>15. ASSUME NEW m \in 0 .. n
         PROVE  h[1 .. m] \in Nat /\ (m > 0 => h[1 .. m] = h[1 .. (m - 1)] + s[m])
    <2>1. h[1 .. m] \in Nat /\ (m > 0 => h[1 .. m] = step[<<m, h[1 .. (m - 1)]>>])
      BY <1>14
    <2>2. ASSUME m > 0 PROVE h[1 .. m] = h[1 .. (m - 1)] + s[m]
      <3>1. m - 1 \in 0 .. n /\ m \in 1 .. n
        BY <1>0, <2>2
      <3>2. h[1 .. (m - 1)] \in Nat
        BY <1>14, <3>1
      <3> QED BY <1>2, <2>1, <2>2, <3>1, <3>2
    <2> QED BY <2>1, <2>2
  <1>16. h[{}] = 0 /\ Total(s) = h[1 .. n]
    BY <1>10, <1>12
  <1> QED BY <1>15, <1>16 DEF n, Sums

LEMMA TotalGrows ==
    ASSUME NEW s \in Seq(Nat), NEW c \in Nat
    PROVE  Total(s) \in Nat /\ Total(Append(s, c)) = Total(s) + c
  <1> DEFINE n == Len(s)
             u == Append(s, c)
  <1>1. n \in Nat /\ u \in Seq(Nat) /\ Len(u) = n + 1 /\ u[n + 1] = c /\ \A i \in 1 .. n : u[i] = s[i]
    OBVIOUS
  <1>2. PICK g : Sums(g, s)
    BY TotalIsFold
  <1> HIDE DEF u
  <1>3. PICK h : Sums(h, u)
    BY <1>1, TotalIsFold
  <1>9. /\ g[{}] = 0 /\ Total(s) = g[1 .. n] /\ h[{}] = 0 /\ Total(u) = h[1 .. n + 1]
    BY <1>1, <1>2, <1>3 DEF Sums
  <1>10. \A m \in 0 .. n : g[1 .. m] \in Nat /\ (m > 0 => g[1 .. m] = g[1 .. (m - 1)] + s[m])
    BY <1>2 DEF Sums
  <1>11. \A m \in 0 .. n + 1 : h[1 .. m] \in Nat /\ (m > 0 => h[1 .. m] = h[1 .. (m - 1)] + u[m])
    BY <1>1, <1>3 DEF Sums
  <1> HIDE DEF n
  <1>4. ASSUME NEW m \in 1 .. n, g[1 .. (m - 1)] = h[1 .. (m - 1)]
        PROVE  g[1 .. m] = h[1 .. m]
    <2>1. m \in 0 .. n /\ m \in 0 .. n + 1 /\ m > 0
      BY <1>1
    <2>2. g[1 .. m] = g[1 .. (m - 1)] + s[m] /\ h[1 .. m] = h[1 .. (m - 1)] + u[m]
      BY <1>10, <1>11, <2>1
    <2> QED BY <1>1, <1>4, <2>2
  <1>5. g[1 .. n] = h[1 .. n]
    <2>1. InStep(g, h, n)
      BY <1>4, <1>9 DEF InStep
    <2> QED BY <1>1, <2>1, FoldsAgree
  <1>6. n + 1 \in 0 .. n + 1 /\ n + 1 > 0 /\ (n + 1) - 1 = n /\ n \in 0 .. n
    BY <1>1
  <1>7. h[1 .. n + 1] = h[1 .. n] + u[n + 1]
    BY <1>11, <1>6
  <1>8. g[1 .. n] \in Nat
    BY <1>10, <1>6
  <1> QED BY <1>1, <1>5, <1>7, <1>8, <1>9 DEF u

LEMMA MembersAreFinite ==
    ASSUME NEW V, NEW s \in Seq(V)
    PROVE  IsFiniteSet(ToSet(s)) /\ ToSet(s) \subseteq V
  <1> DEFINE f == [i \in 1 .. Len(s) |-> s[i]]
  <1>1. IsFiniteSet(1 .. Len(s))
    <2>1. 1 \in Int /\ Len(s) \in Int
      OBVIOUS
    <2> QED BY <2>1, FS_Interval
  <1>2. DOMAIN s = 1 .. Len(s) /\ \A i \in 1 .. Len(s) : s[i] \in V
    OBVIOUS
  <1>3. f \in Surjection(1 .. Len(s), ToSet(s))
    BY <1>2 DEF Surjection, ToSet
  <1> HIDE DEF f
  <1> QED BY <1>1, <1>2, <1>3, FS_Surjection DEF ToSet

LEMMA ImageIsFinite ==
    ASSUME NEW S, IsFiniteSet(S), NEW f
    PROVE  IsFiniteSet({f[x] : x \in S})
  <1> DEFINE g == [x \in S |-> f[x]]
  <1>1. g \in Surjection(S, {f[x] : x \in S})
    BY DEF Surjection
  <1> HIDE DEF g
  <1> QED BY <1>1, FS_Surjection

-----------------------------------------------------------------------------
(* The points of a history up to the end of the window, in the order of    *)
(* their instants (pointsUpToEnd).                                         *)

(* The points of a history that the analyses look at: those of its places  *)
(* in the order of their instants.                                         *)
Sooner(points, i, j) ==
    points[i].at < points[j].at \/ (points[i].at = points[j].at /\ i < j)
Earlier(points, S) == {p \in S \X S : Sooner(points, p[1], p[2])}

LEMMA EarlierIs ==
    ASSUME NEW points, NEW S, NEW i \in S, NEW j \in S
    PROVE  <<i, j>> \in Earlier(points, S) <=> Sooner(points, i, j)
  BY DEF Earlier

LEMMA ByTimeIsLine ==
    ASSUME NEW points \in Seq(Point)
    PROVE  \E q : /\ IsLine(q, DOMAIN points, Earlier(points, DOMAIN points))
                  /\ ByTime(points) = [n \in DOMAIN q |-> points[q[n]]]
  <1> DEFINE S == DOMAIN points
             R == Earlier(points, S)
             lt(i, j) == \/ points[i].at < points[j].at
                         \/ points[i].at = points[j].at /\ i < j
             q == [i \in 1 .. Cardinality(S) |-> CHOOSE x \in S : Cardinality({y \in S : lt(y, x)}) = i - 1]
  <1>1. ByTime(points) = [n \in DOMAIN q |-> points[q[n]]]
    BY DEF ByTime, Lined, Sorted
  <1>2. S = 1 .. Len(points) /\ \A i \in S : i \in Int /\ points[i].at \in Int
    <2>1. S = 1 .. Len(points) /\ \A i \in S : points[i] \in Point
      OBVIOUS
    <2> QED BY <2>1 DEF Point
  <1>3. IsFiniteSet(S)
    <2>1. 1 \in Int /\ Len(points) \in Int
      OBVIOUS
    <2> QED BY <1>2, <2>1, FS_Interval
  <1> HIDE DEF S
  <1>4. \A x, y \in S : <<y, x>> \in R <=> lt(y, x)
    BY EarlierIs DEF Sooner
  <1> HIDE DEF R
  <1>5. \A x \in S : {y \in S : lt(y, x)} = Below(x, S, R)
    <2> HIDE DEF lt
    <2> QED BY <1>4 DEF Below
  <1>6. IsTotal(R, S)
    <2> SUFFICES /\ \A x \in S : ~lt(x, x)
                 /\ \A x, y, z \in S : lt(x, y) /\ lt(y, z) => lt(x, z)
                 /\ \A x, y \in S : x = y \/ lt(x, y) \/ lt(y, x)
      <3> HIDE DEF lt
      <3> QED BY <1>4 DEF IsTotal
    <2> QED BY <1>2
  <1> HIDE DEF lt
  <1>7. q \in [1 .. Cardinality(S) -> {q[i] : i \in 1 .. Cardinality(S)}]
    OBVIOUS
  <1>8. ASSUME NEW i \in 1 .. Cardinality(S), NEW x \in S, Cardinality(Below(x, S, R)) = i - 1
        PROVE  q[i] \in S /\ Cardinality(Below(q[i], S, R)) = i - 1
    <2>1. Cardinality({y \in S : lt(y, x)}) = i - 1
      BY <1>5, <1>8
    <2>2. q[i] = CHOOSE z \in S : Cardinality({y \in S : lt(y, z)}) = i - 1
      OBVIOUS
    <2> HIDE DEF q
    <2>3. q[i] \in S /\ Cardinality({y \in S : lt(y, q[i])}) = i - 1
      BY <2>1, <2>2
    <2> QED BY <1>5, <2>3
  <1> HIDE DEF q
  <1>9. IsLine(q, S, R)
    BY <1>3, <1>6, <1>7, <1>8, Ranking
  <1> QED BY <1>1, <1>9 DEF R, S

(* Those up to the window's end.                                           *)
Recent(points) == {i \in DOMAIN points : points[i].at <= To}
Lists(u, q, points) ==
    /\ Len(q) \in Nat /\ u \in Seq(Point) /\ Len(u) = Len(q)
    /\ \A k \in 1 .. Len(q) : q[k] \in Recent(points) /\ u[k] = points[q[k]]
    /\ \A i \in Recent(points) : \E k \in 1 .. Len(q) : q[k] = i
    /\ \A j, k \in 1 .. Len(q) : j < k => Sooner(points, q[j], q[k])

LEMMA UpToEndIs ==
    ASSUME NEW points \in Seq(Point)
    PROVE  \E q : Lists(UpToEnd(points), q, points)
  <1>1. PICK o : /\ IsLine(o, DOMAIN points, Earlier(points, DOMAIN points))
                 /\ ByTime(points) = [n \in DOMAIN o |-> points[o[n]]]
    BY ByTimeIsLine
  <1> DEFINE n == Len(o)
             R == Earlier(points, DOMAIN points)
             places == {i \in 1 .. n : points[o[i]].at <= To}
             a == Ascending(places)
             q == [k \in DOMAIN a |-> o[a[k]]]
  <1>2. n \in Nat /\ DOMAIN o = 1 .. n /\ o \in [1 .. n -> DOMAIN points]
    BY <1>1 DEF IsLine
  <1>3. UpToEnd(points) = [k \in DOMAIN a |-> points[q[k]]]
    <2> DEFINE b == ByTime(points)
    <2>1. DOMAIN b = 1 .. n /\ \A i \in 1 .. n : b[i] = points[o[i]]
      BY <1>1, <1>2
    <2> HIDE DEF b
    <2>2. {i \in DOMAIN b : b[i].at <= To} = places
      BY <2>1
    <2>3. UpToEnd(points) = AtPlaces(b, {i \in DOMAIN b : b[i].at <= To})
      BY DEF UpToEnd, Kept, b
    <2>4. UpToEnd(points) = [k \in DOMAIN a |-> b[a[k]]]
      <3> HIDE DEF places
      <3> QED BY <2>2, <2>3 DEF AtPlaces
    <2>5. ASSUME NEW k \in DOMAIN a PROVE a[k] \in 1 .. n
      <3>1. a \in Seq(places)
        <4>1. IsFiniteSet(1 .. n)
          BY <1>2, FS_Interval
        <4>2. places \subseteq Int /\ IsFiniteSet(places)
          BY <4>1, FS_Subset
        <4> HIDE DEF places
        <4> QED BY <4>2, AscendingIsLine DEF IsLine
      <3> HIDE DEF a
      <3>2. a[k] \in places
        BY <3>1
      <3> QED BY <3>2
    <2> HIDE DEF a, places
    <2> QED BY <2>1, <2>4, <2>5
  <1>4. IsLine(a, places, {p \in places \X places : p[1] < p[2]})
    <2>1. IsFiniteSet(1 .. n)
      BY <1>2, FS_Interval
    <2>2. places \subseteq Int /\ IsFiniteSet(places)
      BY <2>1, FS_Subset
    <2> HIDE DEF places
    <2> QED BY <2>2, AscendingIsLine
  <1> HIDE DEF a
  <1>5. /\ a \in Seq(places) /\ \A x \in places : \E i \in 1 .. Len(a) : a[i] = x
        /\ \A i, j \in 1 .. Len(a) : i < j => a[i] < a[j]
    <2> HIDE DEF places
    <2>1. \A i, j \in 1 .. Len(a) : i < j => <<a[i], a[j]>> \in {p \in places \X places : p[1] < p[2]}
      BY <1>4 DEF IsLine
    <2> QED BY <1>4, <2>1 DEF IsLine
  <1>6. Len(a) \in Nat /\ DOMAIN a = 1 .. Len(a) /\ \A k \in 1 .. Len(a) : a[k] \in places
    BY <1>5
  <1>7. Len(q) = Len(a) /\ DOMAIN q = 1 .. Len(a) /\ \A k \in 1 .. Len(a) : q[k] = o[a[k]]
    BY <1>6
  <1> HIDE DEF q
  <1>8. \A k \in 1 .. Len(a) : q[k] \in Recent(points) /\ points[q[k]] \in Point
    <2> TAKE k \in 1 .. Len(a)
    <2>1. a[k] \in 1 .. n /\ points[o[a[k]]].at <= To
      BY <1>6
    <2> QED BY <1>2, <1>7, <2>1 DEF Recent
  <1>9. \A i \in Recent(points) : \E k \in 1 .. Len(a) : q[k] = i
    <2> TAKE i \in Recent(points)
    <2>1. PICK m \in 1 .. n : o[m] = i
      BY <1>1 DEF IsLine, Recent
    <2>2. m \in places
      BY <2>1 DEF Recent
    <2> QED BY <1>5, <1>7, <2>1, <2>2
  <1>10. \A j, k \in 1 .. Len(a) : j < k => Sooner(points, q[j], q[k])
    <2> TAKE j, k \in 1 .. Len(a)
    <2> HAVE j < k
    <2>1. a[j] < a[k] /\ a[j] \in 1 .. n /\ a[k] \in 1 .. n
      BY <1>5, <1>6
    <2>2. <<o[a[j]], o[a[k]]>> \in R
      BY <1>1, <2>1 DEF IsLine
    <2>3. o[a[j]] \in DOMAIN points /\ o[a[k]] \in DOMAIN points
      BY <1>2, <2>1
    <2> QED BY <1>7, <2>2, <2>3, EarlierIs
  <1>11. UpToEnd(points) \in Seq(Point) /\ Len(UpToEnd(points)) = Len(a)
         /\ \A k \in 1 .. Len(a) : UpToEnd(points)[k] = points[q[k]]
    <2> DEFINE u == UpToEnd(points)
    <2>1. u = [k \in 1 .. Len(a) |-> points[q[k]]]
      BY <1>3, <1>6
    <2> HIDE DEF u
    <2>2. u \in [1 .. Len(a) -> Point]
      BY <1>8, <2>1
    <2> QED BY <1>6, <2>1, <2>2 DEF u
  <1> QED BY <1>6, <1>7, <1>8, <1>9, <1>10, <1>11 DEF Lists

-----------------------------------------------------------------------------
(* What a fold over the places of a sequence computes, step by step.       *)

LEMMA Climbing ==
    ASSUME NEW n \in Nat, NEW T, 0 \in T, \A m \in 1 .. n : m - 1 \in T => m \in T
    PROVE  \A m \in 0 .. n : m \in T
  <1> DEFINE U == {m \in Nat : m <= n => m \in T}
  <1>1. 0 \in U
    OBVIOUS
  <1>2. ASSUME NEW m \in Nat, m \in U PROVE m + 1 \in U
    <2>1. (m + 1) - 1 = m /\ (m + 1 <= n => m + 1 \in 1 .. n)
      OBVIOUS
    <2> QED BY <1>2, <2>1
  <1>3. \A m \in Nat : m \in U
    <2> HIDE DEF U
    <2> QED BY <1>1, <1>2, Induction
  <1> QED BY <1>3

(* A fold, told by what it has come to after each of its steps.            *)
Walks(f, n, A, base, step) ==
    /\ f[0] = base /\ \A m \in 0 .. n : f[m] \in A
    /\ \A m \in 1 .. n : f[m] = step[<<m, f[m - 1]>>]
HasWalk(g, n, A, base, step) == \E f : Walks(f, n, A, base, step) /\ f[n] = g[1 .. n]

LEMMA FoldIsWalk ==
    ASSUME NEW n \in Nat, NEW A, NEW base \in A, NEW step \in [(1 .. n) \X A -> A],
           NEW g, Climbs(g, n, A, base, step)
    PROVE  HasWalk(g, n, A, base, step)
  <1> DEFINE f == [m \in 0 .. n |-> g[1 .. m]]
  <1>1. Climbed(g, n, A, step)
    BY FoldSteps
  <1>2. \A m \in 0 .. n : f[m] = g[1 .. m] /\ f[m] \in A
    BY <1>1 DEF Climbed
  <1>3. f[0] = base /\ f[n] = g[1 .. n]
    <2>1. 1 .. 0 = {} /\ 0 \in 0 .. n /\ n \in 0 .. n
      OBVIOUS
    <2> QED BY <2>1 DEF Climbs
  <1>4. \A m \in 1 .. n : f[m] = step[<<m, f[m - 1]>>]
    <2> TAKE m \in 1 .. n
    <2>1. m \in 0 .. n /\ m > 0 /\ m - 1 \in 0 .. n
      OBVIOUS
    <2> QED BY <1>1, <2>1 DEF Climbed
  <1> HIDE DEF f
  <1> QED BY <1>2, <1>3, <1>4 DEF Walks, HasWalk

(* The greatest of some numbers.                                           *)
LEMMA MaxIs ==
    ASSUME NEW S, NEW x \in S, \A y \in S : x >= y
    PROVE  Max(S) \in S /\ \A y \in S : Max(S) >= y
  BY DEF Max

LEMMA MaxOfTwo ==
    ASSUME NEW a \in Int, NEW b \in Int
    PROVE  Max({a, b}) = IF a >= b THEN a ELSE b
  <1>1. CASE a >= b
    <2>1. Max({a, b}) \in {a, b} /\ \A y \in {a, b} : Max({a, b}) >= y
      BY <1>1, MaxIs
    <2> QED BY <1>1, <2>1
  <1>2. CASE ~(a >= b)
    <2>1. Max({a, b}) \in {a, b} /\ \A y \in {a, b} : Max({a, b}) >= y
      BY <1>2, MaxIs
    <2> QED BY <1>2, <2>1
  <1> QED BY <1>1, <1>2

(* The states held, step by step over the points.                          *)
Segment == [start : Int, state : STRING]
Holds(f, u) ==
    /\ f[0] = <<>> /\ \A m \in 0 .. Len(u) : f[m] \in Seq(Segment)
    /\ \A m \in 1 .. Len(u) : f[m] = Hold(IF u[m].at <= From THEN <<>> ELSE f[m - 1], u[m])

LEMMA StartIs ==
    ASSUME NEW t \in Int
    PROVE  Max({t, From}) \in Int
  <1>1. From \in Int
    BY DEF From
  <1>2. Max({t, From}) = IF t >= From THEN t ELSE From
    BY <1>1, MaxOfTwo
  <1> QED BY <1>1, <1>2

LEMMA SegmentsAreHeld ==
    ASSUME NEW points \in Seq(Point), NEW u \in Seq(Point), u = UpToEnd(points)
    PROVE  \E f : Holds(f, u) /\ f[Len(u)] = SegmentsIn(points)
  <1> DEFINE n == Len(u)
             A == Seq(Segment)
             op(i, segs) == Hold(IF u[i].at <= From THEN <<>> ELSE segs, u[i])
             F(g) == [t \in SUBSET (1 .. n) |-> IF t = {} THEN <<>> ELSE op(Max(t), g[t \ {Max(t)}])]
             total == CHOOSE g : g = F(g)
             step == [p \in (1 .. n) \X A |-> op(p[1], p[2])]
  <1>0. n \in Nat /\ DOMAIN u = 1 .. n /\ \A i \in 1 .. n : u[i] \in Point
    OBVIOUS
  <1>2. SegmentsIn(points) = total[1 .. n]
    BY <1>0 DEF SegmentsIn, FoldLeft, MapThenFoldSet
  <1> HIDE DEF n
  <1>3. ASSUME NEW i \in 1 .. n, NEW segs \in A PROVE op(i, segs) \in A
    <2>1. Max({u[i].at, From}) \in Int
      <3>1. u[i].at \in Int
        BY <1>0 DEF Point
      <3> QED BY ONLY <3>1, StartIs
    <2>2. [start |-> Max({u[i].at, From}), state |-> u[i].state] \in Segment
      BY <1>0, <2>1 DEF Point, Segment
    <2> DEFINE new == [start |-> Max({u[i].at, From}), state |-> u[i].state]
               prior == IF u[i].at <= From THEN <<>> ELSE segs
    <2>3. prior \in A
      OBVIOUS
    <2>4. op(i, segs) = IF prior # <<>> /\ Last(prior).state = u[i].state THEN prior ELSE Append(prior, new)
      BY DEF Hold
    <2> HIDE DEF new, prior, op
    <2>5. Append(prior, new) \in A
      BY <2>2, <2>3 DEF new
    <2> QED BY <2>3, <2>4, <2>5
  <1> HIDE DEF op
  <1>4. step \in [(1 .. n) \X A -> A]
    BY <1>3
  <1>5. \A i \in 1 .. n : \A a \in A : step[<<i, a>>] = op(i, a)
    OBVIOUS
  <1>6. <<>> \in A
    OBVIOUS
  <1> HIDE DEF step, A, op
  <1>7. PICK g \in [SUBSET (1 .. n) -> A] : IsFold(g, n, <<>>, step)
    BY <1>0, <1>4, <1>6, FoldExists
  <1>8. \A t \in SUBSET (1 .. n) : t # {} => Max(t) \in 1 .. n /\ t \ {Max(t)} \in SUBSET (1 .. n)
    BY <1>0, MaxLast
  <1>9. \A t \in SUBSET (1 .. n) : g[t] = IF t = {} THEN <<>> ELSE step[<<Max(t), g[t \ {Max(t)}]>>]
    BY <1>7 DEF IsFold
  <1>10. \A t \in SUBSET (1 .. n) : g[t] = F(g)[t]
    BY <1>5, <1>8, <1>9
  <1>11. g = F(g)
    BY <1>10
  <1>12. PICK h : h = F(h) /\ SegmentsIn(points) = h[1 .. n]
    <2>1. total = F(total)
      BY <1>11
    <2> HIDE DEF total, F
    <2> QED BY <1>2, <2>1
  <1>13. \A t \in SUBSET (1 .. n) : h[t] = IF t = {} THEN <<>> ELSE op(Max(t), h[t \ {Max(t)}])
    BY <1>12
  <1> HIDE DEF F, total
  <1>14. Climbs(h, n, A, <<>>, step)
    BY <1>5, <1>8, <1>13 DEF Climbs
  <1>15. PICK f : Walks(f, n, A, <<>>, step) /\ f[n] = h[1 .. n]
    <2>1. HasWalk(h, n, A, <<>>, step)
      BY <1>0, <1>4, <1>6, <1>14, FoldIsWalk
    <2> QED BY <2>1 DEF HasWalk
  <1>16. \A m \in 1 .. n : f[m] = op(m, f[m - 1])
    <2> TAKE m \in 1 .. n
    <2>1. m - 1 \in 0 .. n
      BY <1>0
    <2> QED BY <1>5, <1>15, <2>1 DEF Walks
  <1> QED BY <1>12, <1>15, <1>16 DEF Walks, Holds, n, A, op

-----------------------------------------------------------------------------
(* The segments of a history (segments).                                   *)

Rising(u) ==
    /\ u \in Seq(Point) /\ \A i \in 1 .. Len(u) : u[i].at <= To
    /\ \A i, j \in 1 .. Len(u) : i < j => u[i].at <= u[j].at

(* The segment that goes on at t.                                          *)
Holding(segs, i, t) ==
    segs[i].start <= t /\ (i < Len(segs) => segs[i + 1].start > t)

(* The last of the first k points at or before t.                          *)
LastBy(u, k, j, t) == u[j].at <= t /\ (j < k => u[j + 1].at > t)

(* What the segments are after k points: they rise from the window's       *)
(* start, each from a point, and at each instant the one that goes on has  *)
(* the state of the last point.                                            *)
Placed(segs, u, k) ==
    /\ segs \in Seq(Segment) /\ (segs = <<>>) = (k = 0)
    /\ \A i \in 1 .. Len(segs) :
            From <= segs[i].start /\ segs[i].start <= To /\ (i > 1 => segs[i].start > From)
    /\ \A i, j \in 1 .. Len(segs) : i < j => segs[i].start <= segs[j].start
    /\ k > 0 => /\ segs[Len(segs)].state = u[k].state
                /\ segs[Len(segs)].start <= u[k].at \/ segs[Len(segs)].start = From
Sourced(segs, u, k) ==
    \A i \in 1 .. Len(segs) : \E j \in 1 .. k :
        /\ segs[i].state = u[j].state
        /\ segs[i].start = u[j].at \/ (u[j].at <= From /\ segs[i].start = From)
Followed(segs, u, k) ==
    \A t \in Int : t >= From =>
        /\ \A j \in 1 .. k : LastBy(u, k, j, t)
                => \E i \in 1 .. Len(segs) : Holding(segs, i, t) /\ segs[i].state = u[j].state
        /\ (\A j \in 1 .. k : u[j].at > t) => \A i \in 1 .. Len(segs) : segs[i].start > t
Seen(segs, u, k) ==
    \A j \in 1 .. k : u[j].at > From
        => \E i \in 1 .. Len(segs) : /\ segs[i].state = u[j].state /\ segs[i].start <= u[j].at
                                     /\ i < Len(segs) => segs[i + 1].start >= u[j].at
Segmented(segs, u, k) ==
    Placed(segs, u, k) /\ Sourced(segs, u, k) /\ Followed(segs, u, k) /\ Seen(segs, u, k)

LEMMA PointsAre ==
    ASSUME NEW u \in Seq(Point)
    PROVE  /\ Len(u) \in Nat /\ DOMAIN u = 1 .. Len(u)
           /\ \A i \in 1 .. Len(u) : u[i] \in Point /\ u[i].at \in Int /\ u[i].state \in STRING
  <1>1. Len(u) \in Nat /\ DOMAIN u = 1 .. Len(u) /\ \A i \in 1 .. Len(u) : u[i] \in Point
    OBVIOUS
  <1> QED BY <1>1 DEF Point

LEMMA SegmentsAre ==
    ASSUME NEW s \in Seq(Segment)
    PROVE  /\ Len(s) \in Nat /\ DOMAIN s = 1 .. Len(s) /\ (s = <<>>) = (Len(s) = 0)
           /\ \A i \in 1 .. Len(s) : s[i] \in Segment /\ s[i].start \in Int /\ s[i].state \in STRING
  <1>1. Len(s) \in Nat /\ DOMAIN s = 1 .. Len(s) /\ (s = <<>>) = (Len(s) = 0)
        /\ \A i \in 1 .. Len(s) : s[i] \in Segment
    OBVIOUS
  <1> QED BY <1>1 DEF Segment

(* A state that was held at the window's start.                            *)
LEMMA CarriedSegments ==
    ASSUME NEW u, Rising(u), NEW k \in 1 .. Len(u), u[k].at <= From
    PROVE  Segmented(Hold(<<>>, u[k]), u, k)
  <1> DEFINE s == Hold(<<>>, u[k])
  <1>1. Len(u) \in Nat /\ \A i \in 1 .. Len(u) : u[i].at \in Int /\ u[i].state \in STRING
    BY PointsAre DEF Rising
  <1>2. s = <<[start |-> From, state |-> u[k].state]>>
    <2>1. Max({u[k].at, From}) = From
      BY <1>1, MaxOfTwo DEF From
    <2> QED BY <2>1 DEF Hold
  <1> HIDE DEF s
  <1>3. s \in Seq(Segment) /\ Len(s) = 1 /\ s # <<>> /\ s[1].start = From /\ s[1].state = u[k].state
    <2>1. [start |-> From, state |-> u[k].state] \in Segment
      BY <1>1 DEF Segment, From
    <2> QED BY <1>2, <2>1
  <1>4. \A j \in 1 .. k : u[j].at <= From
    BY <1>1 DEF Rising, From
  <1>5. From \in Int /\ To \in Int /\ From <= To
    BY WindowAssumption DEF From
  <1>6. Placed(s, u, k)
    BY <1>1, <1>3, <1>5 DEF Placed
  <1>7. Sourced(s, u, k)
    BY <1>1, <1>3 DEF Sourced
  <1>8. Followed(s, u, k)
    <2> SUFFICES ASSUME NEW t \in Int, t >= From
                 PROVE  /\ \A j \in 1 .. k : LastBy(u, k, j, t)
                                => \E i \in 1 .. Len(s) : Holding(s, i, t) /\ s[i].state = u[j].state
                        /\ ~(\A j \in 1 .. k : u[j].at > t)
      BY DEF Followed
    <2>1. \A j \in 1 .. k : u[j].at <= t
      BY <1>1, <1>4, <1>5
    <2>2. ASSUME NEW j \in 1 .. k, LastBy(u, k, j, t) PROVE j = k
      <3>1. j < k => j + 1 \in 1 .. k /\ u[j + 1].at \in Int
        BY <1>1
      <3> QED BY <1>1, <2>1, <2>2, <3>1 DEF LastBy
    <2>3. Holding(s, 1, t) /\ s[1].state = u[k].state
      BY <1>3 DEF Holding
    <2>4. k \in 1 .. k /\ u[k].at \in Int
      BY <1>1
    <2> QED BY <1>3, <2>1, <2>2, <2>3, <2>4
  <1>9. Seen(s, u, k)
    BY <1>1, <1>4, <1>5 DEF Seen
  <1> QED BY <1>6, <1>7, <1>8, <1>9 DEF Segmented, s

LEMMA HeldSegments ==
    ASSUME NEW u, Rising(u), NEW k \in 1 .. Len(u), u[k].at > From,
           NEW segs, Segmented(segs, u, k - 1)
    PROVE  Segmented(Hold(segs, u[k]), u, k)
  <1>1. Len(u) \in Nat /\ \A i \in 1 .. Len(u) : u[i].at \in Int /\ u[i].state \in STRING
    BY PointsAre DEF Rising
  <1>2. /\ From \in Int /\ To \in Int /\ k \in Nat /\ u[k].at \in Int /\ u[k].at <= To
        /\ \A j \in 1 .. k - 1 : j \in 1 .. Len(u) /\ u[j].at \in Int /\ u[j].at <= u[k].at
    BY <1>1, WindowAssumption DEF From, Rising
  <1> DEFINE n == Len(segs)
             p == u[k]
  <1>3. /\ segs \in Seq(Segment) /\ n \in Nat /\ (n = 0) = (k - 1 = 0)
        /\ \A i \in 1 .. n : segs[i].start \in Int /\ segs[i].state \in STRING
    <2>1. segs \in Seq(Segment) /\ (segs = <<>>) = (k - 1 = 0)
      BY DEF Segmented, Placed
    <2> QED BY <2>1, SegmentsAre
  <1>4. /\ \A i \in 1 .. n : From <= segs[i].start /\ segs[i].start <= To /\ (i > 1 => segs[i].start > From)
        /\ \A i, j \in 1 .. n : i < j => segs[i].start <= segs[j].start
        /\ k > 1 => segs[n].state = u[k - 1].state /\ (segs[n].start <= u[k - 1].at \/ segs[n].start = From)
    BY <1>2 DEF Segmented, Placed
  <1>5. \A i \in 1 .. n : segs[i].start <= p.at
    <2> TAKE i \in 1 .. n
    <2>1. n \in 1 .. n /\ k > 1 /\ k - 1 \in 1 .. k - 1
      BY <1>2, <1>3
    <2>2. segs[n].start <= p.at
      <3> HIDE DEF n
      <3> QED BY <1>2, <1>3, <1>4, <2>1
    <2>3. i < n => segs[i].start <= segs[n].start
      BY <1>4, <2>1
    <2> QED BY <1>2, <1>3, <2>1, <2>2, <2>3
  <1>6. CASE segs # <<>> /\ Last(segs).state = p.state
    <2>1. Hold(segs, p) = segs /\ n # 0 /\ segs[n].state = p.state /\ k > 1
      BY <1>2, <1>3, <1>6 DEF Hold, Last
    <2> HIDE DEF n
    <2>2. Placed(segs, u, k)
      <3>1. n \in 1 .. n
        BY <1>3, <2>1
      <3> QED BY <1>2, <1>3, <1>4, <1>5, <2>1, <3>1 DEF Placed, n
    <2>3. Sourced(segs, u, k)
      <3>1. \A j \in 1 .. k - 1 : j \in 1 .. k
        BY <1>2
      <3> QED BY <3>1 DEF Segmented, Sourced
    <2>4. Followed(segs, u, k)
      <3> SUFFICES ASSUME NEW t \in Int, t >= From
                   PROVE  /\ \A j \in 1 .. k : LastBy(u, k, j, t)
                                => \E i \in 1 .. n : Holding(segs, i, t) /\ segs[i].state = u[j].state
                          /\ (\A j \in 1 .. k : u[j].at > t) => \A i \in 1 .. n : segs[i].start > t
        BY DEF Followed, n
      <3>1. ASSUME NEW j \in 1 .. k, LastBy(u, k, j, t)
            PROVE  \E i \in 1 .. n : Holding(segs, i, t) /\ segs[i].state = u[j].state
        <4>1. CASE j = k
          <5>1. Holding(segs, n, t) /\ segs[n].state = u[j].state /\ n \in 1 .. n
            BY <1>2, <1>3, <1>5, <2>1, <3>1, <4>1 DEF Holding, LastBy, n
          <5> QED BY <5>1
        <4>2. CASE j # k
          <5>1. j \in 1 .. k - 1 /\ LastBy(u, k - 1, j, t)
            BY <1>2, <3>1, <4>2 DEF LastBy
          <5> QED BY <5>1 DEF Segmented, Followed, n
        <4> QED BY <4>1, <4>2
      <3>2. ASSUME \A j \in 1 .. k : u[j].at > t PROVE \A i \in 1 .. n : segs[i].start > t
        <4>1. \A j \in 1 .. k - 1 : u[j].at > t
          BY <1>2, <3>2
        <4> QED BY <4>1 DEF Segmented, Followed, n
      <3> QED BY <3>1, <3>2
    <2>5. Seen(segs, u, k)
      <3> SUFFICES ASSUME NEW j \in 1 .. k, u[j].at > From
                   PROVE  \E i \in 1 .. n : /\ segs[i].state = u[j].state /\ segs[i].start <= u[j].at
                                            /\ i < n => segs[i + 1].start >= u[j].at
        BY DEF Seen, n
      <3>1. CASE j = k
        <4>1. n \in 1 .. n
          BY <1>3, <2>1
        <4> QED BY <1>5, <2>1, <3>1, <4>1
      <3>2. CASE j # k
        <4>1. j \in 1 .. k - 1
          BY <1>2, <3>2
        <4> QED BY <4>1 DEF Segmented, Seen, n
      <3> QED BY <3>1, <3>2
    <2> QED BY <2>1, <2>2, <2>3, <2>4, <2>5 DEF Segmented
  <1>7. CASE ~(segs # <<>> /\ Last(segs).state = p.state)
    <2> DEFINE s == Append(segs, [start |-> p.at, state |-> p.state])
    <2>1. Hold(segs, p) = s
      <3>1. Max({p.at, From}) = p.at
        BY <1>2, MaxOfTwo
      <3> QED BY <1>7, <3>1 DEF Hold
    <2>2. /\ s \in Seq(Segment) /\ s # <<>> /\ Len(s) = n + 1
          /\ s[n + 1].start = p.at /\ s[n + 1].state = p.state /\ \A i \in 1 .. n : s[i] = segs[i]
      <3>1. [start |-> p.at, state |-> p.state] \in Segment
        BY <1>1, <1>2 DEF Segment
      <3> HIDE DEF p
      <3> QED BY <1>3, <3>1
    <2> HIDE DEF s, n
    <2>3. \A i \in 1 .. n + 1 : i \in 1 .. n \/ i = n + 1
      BY <1>3
    <2>4. n + 1 \in 1 .. n + 1 /\ \A i \in 1 .. n : i \in 1 .. n + 1 /\ i < n + 1
      BY <1>3
    <2>5. Placed(s, u, k)
      <3>1. \A i \in 1 .. n + 1 : From <= s[i].start /\ s[i].start <= To /\ (i > 1 => s[i].start > From)
        BY <1>2, <1>4, <2>2, <2>3
      <3>2. \A i, j \in 1 .. n + 1 : i < j => s[i].start <= s[j].start
        <4> SUFFICES ASSUME NEW i \in 1 .. n + 1, NEW j \in 1 .. n + 1, i < j
                     PROVE  s[i].start <= s[j].start
          OBVIOUS
        <4>1. i \in 1 .. n /\ s[i] = segs[i]
          BY <1>3, <2>2
        <4>2. CASE j = n + 1
          BY <1>5, <2>2, <4>1, <4>2
        <4>3. CASE j # n + 1
          BY <1>4, <2>2, <2>3, <4>1, <4>3
        <4> QED BY <4>2, <4>3
      <3> QED BY <1>2, <2>2, <3>1, <3>2 DEF Placed
    <2>6. Sourced(s, u, k)
      <3> SUFFICES ASSUME NEW i \in 1 .. n + 1
                   PROVE  \E j \in 1 .. k : /\ s[i].state = u[j].state
                                            /\ s[i].start = u[j].at \/ (u[j].at <= From /\ s[i].start = From)
        BY <2>2 DEF Sourced
      <3>1. CASE i = n + 1
        <4>1. k \in 1 .. k
          BY <1>2
        <4> QED BY <2>2, <3>1, <4>1
      <3>2. CASE i # n + 1
        <4>1. i \in 1 .. n /\ s[i] = segs[i] /\ \A j \in 1 .. k - 1 : j \in 1 .. k
          BY <1>2, <2>2, <2>3, <3>2
        <4> QED BY <4>1 DEF Segmented, Sourced, n
      <3> QED BY <3>1, <3>2
    <2>7. ASSUME NEW i \in 1 .. n, NEW t \in Int, t < p.at, Holding(segs, i, t) PROVE Holding(s, i, t)
      <3>1. i < n => i + 1 \in 1 .. n
        BY <1>3
      <3> QED BY <1>3, <2>2, <2>3, <2>7, <3>1 DEF Holding, n
    <2>8. Followed(s, u, k)
      <3> SUFFICES ASSUME NEW t \in Int, t >= From
                   PROVE  /\ \A j \in 1 .. k : LastBy(u, k, j, t)
                                => \E i \in 1 .. n + 1 : Holding(s, i, t) /\ s[i].state = u[j].state
                          /\ (\A j \in 1 .. k : u[j].at > t) => \A i \in 1 .. n + 1 : s[i].start > t
        BY <2>2 DEF Followed
      <3>1. ASSUME NEW j \in 1 .. k, LastBy(u, k, j, t)
            PROVE  \E i \in 1 .. n + 1 : Holding(s, i, t) /\ s[i].state = u[j].state
        <4>1. CASE j = k
          <5>1. Holding(s, n + 1, t) /\ s[n + 1].state = u[j].state
            BY <1>3, <2>2, <3>1, <4>1 DEF Holding, LastBy
          <5> QED BY <2>4, <5>1
        <4>2. CASE j # k
          <5>1. j \in 1 .. k - 1 /\ LastBy(u, k - 1, j, t) /\ j + 1 \in 1 .. Len(u) /\ u[j + 1].at \in Int /\ u[j + 1].at > t
            BY <1>1, <1>2, <3>1, <4>2 DEF LastBy
          <5>2. t < p.at
            <6>1. j + 1 = k \/ j + 1 \in 1 .. k - 1
              BY <1>2, <5>1
            <6> QED BY <1>2, <5>1, <6>1
          <5>3. PICK i \in 1 .. n : Holding(segs, i, t) /\ segs[i].state = u[j].state
            BY <5>1 DEF Segmented, Followed, n
          <5> QED BY <2>2, <2>4, <2>7, <5>2, <5>3
        <4> QED BY <4>1, <4>2
      <3>2. ASSUME \A j \in 1 .. k : u[j].at > t PROVE \A i \in 1 .. n + 1 : s[i].start > t
        <4>1. \A j \in 1 .. k - 1 : u[j].at > t
          BY <1>2, <3>2
        <4>2. \A i \in 1 .. n : segs[i].start > t
          BY <4>1 DEF Segmented, Followed, n
        <4>3. p.at > t
          <5>1. k \in 1 .. k
            BY <1>2
          <5> QED BY <3>2, <5>1
        <4> QED BY <2>2, <2>3, <4>2, <4>3
      <3> QED BY <3>1, <3>2
    <2>9. Seen(s, u, k)
      <3> SUFFICES ASSUME NEW j \in 1 .. k, u[j].at > From
                   PROVE  \E i \in 1 .. n + 1 : /\ s[i].state = u[j].state /\ s[i].start <= u[j].at
                                                /\ i < n + 1 => s[i + 1].start >= u[j].at
        BY <2>2 DEF Seen
      <3>1. CASE j = k
        BY <1>2, <1>3, <2>2, <2>4, <3>1
      <3>2. CASE j # k
        <4>1. j \in 1 .. k - 1
          BY <1>2, <3>2
        <4>2. PICK i \in 1 .. n : /\ segs[i].state = u[j].state /\ segs[i].start <= u[j].at
                                  /\ i < n => segs[i + 1].start >= u[j].at
          BY <4>1 DEF Segmented, Seen, n
        <4>3. s[i + 1].start >= u[j].at
          <5>1. CASE i < n
            <6>1. i + 1 \in 1 .. n
              BY <1>3, <5>1
            <6> QED BY <2>2, <4>2, <5>1, <6>1
          <5>2. CASE ~(i < n)
            <6>1. i + 1 = n + 1
              BY <1>3, <5>2
            <6> QED BY <1>2, <2>2, <4>1, <6>1
          <5> QED BY <5>1, <5>2
        <4> QED BY <2>2, <2>4, <4>2, <4>3
      <3> QED BY <3>1, <3>2
    <2> QED BY <2>1, <2>5, <2>6, <2>8, <2>9 DEF Segmented
  <1> QED BY <1>6, <1>7

-----------------------------------------------------------------------------
(* What the segments tell of each instant of the window.                   *)

(* What the segments of a history say of each instant of the window.       *)
Tells(segs, points) ==
    /\ segs \in Seq(Segment)
    /\ \A i \in 1 .. Len(segs) :
            From <= segs[i].start /\ segs[i].start <= To /\ (i > 1 => segs[i].start > From)
    /\ \A i, j \in 1 .. Len(segs) : i < j => segs[i].start <= segs[j].start
TellsHeld(segs, points) ==
    \A t \in From .. To :
        /\ Recorded(points, t) => \E i \in 1 .. Len(segs) : Holding(segs, i, t) /\ segs[i].state = HeldAt(points, t)
        /\ ~Recorded(points, t) => \A i \in 1 .. Len(segs) : segs[i].start > t
TellsPoints(segs, points) ==
    /\ \A i \in 1 .. Len(segs) : \E j \in DOMAIN points :
            /\ segs[i].state = points[j].state
            /\ segs[i].start = points[j].at \/ (points[j].at <= From /\ segs[i].start = From)
    /\ \A j \in DOMAIN points : From < points[j].at /\ points[j].at <= To
            => \E i \in 1 .. Len(segs) : /\ segs[i].state = points[j].state /\ segs[i].start <= points[j].at
                                         /\ i < Len(segs) => segs[i + 1].start >= points[j].at

LEMMA ListsRise ==
    ASSUME NEW points \in Seq(Point), NEW q, NEW u, Lists(u, q, points)
    PROVE  Rising(u)
  <1>1. /\ Len(u) = Len(q) /\ u \in Seq(Point)
        /\ \A k \in 1 .. Len(u) : u[k] = points[q[k]] /\ q[k] \in Recent(points)
    BY DEF Lists
  <1>2. \A k \in 1 .. Len(u) : u[k].at <= To
    BY <1>1 DEF Recent
  <1>3. \A i, j \in 1 .. Len(u) : i < j => u[i].at <= u[j].at
    <2> TAKE i, j \in 1 .. Len(u)
    <2> HAVE i < j
    <2>1. Sooner(points, q[i], q[j]) /\ u[i].at \in Int /\ u[j].at \in Int
      BY <1>1, PointsAre DEF Lists
    <2> QED BY <1>1, <2>1 DEF Sooner
  <1> QED BY <1>1, <1>2, <1>3 DEF Rising

LEMMA LastOne ==
    ASSUME NEW points \in Seq(Point), NEW q, NEW u, Lists(u, q, points),
           NEW t \in Int, t <= To, Recorded(points, t)
    PROVE  \E j \in 1 .. Len(u) : LastBy(u, Len(u), j, t) /\ u[j].state = HeldAt(points, t)
  <1> DEFINE n == Len(u)
             T == {m \in 1 .. n : u[m].at <= t}
             before == {i \in DOMAIN points : points[i].at <= t}
             last == {i \in before : \A m \in before : \/ points[m].at < points[i].at
                                                       \/ points[m].at = points[i].at /\ m <= i}
  <1>1. /\ n = Len(q) /\ n \in Nat /\ \A k \in 1 .. n : u[k] = points[q[k]] /\ q[k] \in Recent(points)
        /\ \A k \in 1 .. n : u[k].at \in Int /\ q[k] \in DOMAIN points
    BY PointsAre DEF Lists, Recent
  <1>2. \A i \in before : \E m \in T : q[m] = i
    <2> TAKE i \in before
    <2>1. i \in Recent(points)
      <3>1. points[i].at \in Int /\ To \in Int
        BY PointsAre, WindowAssumption
      <3> QED BY <3>1 DEF Recent
    <2>2. PICK m \in 1 .. n : q[m] = i
      BY <1>1, <2>1 DEF Lists
    <2> QED BY <1>1, <2>2
  <1>3. T \in SUBSET (1 .. n) /\ T # {} /\ before # {}
    BY <1>2 DEF Recorded
  <1>4. PICK j \in T : \A m \in T : m <= j
    <2> HIDE DEF n, T, before
    <2> QED BY <1>1, <1>3, MaxLast
  <1>5. j < n => u[j + 1].at > t
    <2> SUFFICES ASSUME j < n PROVE u[j + 1].at > t
      OBVIOUS
    <2>1. j + 1 \in 1 .. n /\ ~(j + 1 <= j) /\ u[j + 1].at \in Int
      BY <1>1
    <2>2. j + 1 \notin T
      BY <1>4, <2>1
    <2> QED BY <2>1, <2>2
  <1>6. \A m \in T : m = j \/ Sooner(points, q[m], q[j])
    <2> TAKE m \in T
    <2>1. m \in 1 .. n /\ j \in 1 .. n /\ m <= j
      BY <1>4
    <2>2. m < j => Sooner(points, q[m], q[j])
      BY <1>1, <2>1 DEF Lists
    <2> QED BY <2>1, <2>2
  <1>7. \A i \in DOMAIN points : i \in Int /\ points[i].at \in Int
    BY PointsAre
  <1>8. q[j] \in last
    <2>1. q[j] \in before
      BY <1>1
    <2>2. ASSUME NEW i \in before
          PROVE  points[i].at < points[q[j]].at \/ (points[i].at = points[q[j]].at /\ i <= q[j])
      <3>1. i = q[j] \/ Sooner(points, i, q[j])
        BY <1>2, <1>6
      <3> QED BY <1>1, <1>7, <3>1 DEF Sooner
    <2> HIDE DEF before
    <2> QED BY <2>1, <2>2
  <1>9. \A i \in last : i = q[j]
    <2> TAKE i \in last
    <2>1. /\ i \in before /\ q[j] \in before
          /\ points[q[j]].at < points[i].at \/ (points[q[j]].at = points[i].at /\ q[j] <= i)
          /\ points[i].at < points[q[j]].at \/ (points[i].at = points[q[j]].at /\ i <= q[j])
      <3> HIDE DEF before
      <3> QED BY <1>8
    <2>2. points[i].at \in Int /\ points[q[j]].at \in Int /\ i \in Int /\ q[j] \in Int
      BY <1>7, <2>1
    <2> QED BY <2>1, <2>2
  <1>10. HeldAt(points, t) = points[q[j]].state
    <2>1. HeldAt(points, t) = points[CHOOSE i \in last : TRUE].state
      BY <1>3 DEF HeldAt
    <2> HIDE DEF last
    <2>2. (CHOOSE i \in last : TRUE) = q[j]
      BY <1>8, <1>9
    <2> QED BY <2>1, <2>2
  <1> QED BY <1>1, <1>5, <1>10 DEF LastBy

LEMMA SegmentsTell ==
    ASSUME NEW points \in Seq(Point)
    PROVE  /\ Tells(SegmentsIn(points), points) /\ TellsHeld(SegmentsIn(points), points)
           /\ TellsPoints(SegmentsIn(points), points)
  <1>1. PICK q : Lists(UpToEnd(points), q, points)
    BY UpToEndIs
  <1> DEFINE u == UpToEnd(points)
             segs == SegmentsIn(points)
             n == Len(u)
  <1>2. Rising(u) /\ u \in Seq(Point) /\ n \in Nat /\ n = Len(q)
    <2> HIDE DEF u
    <2>1. Lists(u, q, points)
      BY <1>1 DEF u
    <2>2. Rising(u)
      BY <2>1, ListsRise
    <2> QED BY <2>1, <2>2 DEF Lists
  <1>3. PICK f : Holds(f, u) /\ f[n] = segs
    BY <1>2, SegmentsAreHeld
  <1> HIDE DEF u, segs
  <1>4. Segmented(segs, u, n)
    <2> DEFINE T == {k \in 0 .. n : Segmented(f[k], u, k)}
    <2>1. 0 \in T
      <3> DEFINE e == f[0]
      <3>1. e = <<>> /\ e \in Seq(Segment) /\ Len(e) = 0 /\ \A i \in 1 .. 0 : FALSE
        BY <1>3 DEF Holds
      <3> HIDE DEF e
      <3>2. Placed(e, u, 0)
        BY <3>1 DEF Placed
      <3>3. Sourced(e, u, 0) /\ Followed(e, u, 0) /\ Seen(e, u, 0)
        BY <3>1 DEF Sourced, Followed, Seen
      <3> QED BY <1>2, <3>2, <3>3 DEF Segmented, e
    <2>2. ASSUME NEW k \in 1 .. n, k - 1 \in T PROVE k \in T
      <3>1. f[k] = Hold(IF u[k].at <= From THEN <<>> ELSE f[k - 1], u[k]) /\ u[k].at \in Int
        BY <1>2, <1>3, PointsAre DEF Holds
      <3>2. Segmented(f[k - 1], u, k - 1)
        BY <2>2
      <3>3. Segmented(f[k], u, k)
        <4>1. CASE u[k].at <= From
          BY <1>2, <3>1, <4>1, CarriedSegments
        <4>2. CASE ~(u[k].at <= From)
          <5>1. u[k].at > From
            BY <3>1, <4>2 DEF From
          <5> QED BY <1>2, <3>1, <3>2, <4>2, <5>1, HeldSegments
        <4> QED BY <4>1, <4>2
      <3> QED BY <3>3
    <2> HIDE DEF T
    <2>3. \A k \in 0 .. n : k \in T
      BY <1>2, <2>1, <2>2, Climbing
    <2> QED BY <1>2, <1>3, <2>3 DEF T
  <1>5. Tells(segs, points)
    BY <1>4 DEF Segmented, Placed, Tells
  <1>6. \A k \in 1 .. n : u[k] = points[q[k]] /\ q[k] \in DOMAIN points /\ u[k].at \in Int
    BY <1>1, <1>2, PointsAre DEF Lists, Recent, u
  <1>7. \A i \in DOMAIN points : points[i].at <= To => \E k \in 1 .. n : q[k] = i
    BY <1>1, <1>2 DEF Lists, Recent
  <1>8. TellsHeld(segs, points)
    <2> SUFFICES ASSUME NEW t \in From .. To
                 PROVE  /\ Recorded(points, t)
                            => \E i \in 1 .. Len(segs) : Holding(segs, i, t) /\ segs[i].state = HeldAt(points, t)
                        /\ ~Recorded(points, t) => \A i \in 1 .. Len(segs) : segs[i].start > t
      BY DEF TellsHeld
    <2>1. t \in Int /\ t >= From /\ t <= To
      BY WindowAssumption DEF From
    <2>2. ASSUME Recorded(points, t)
          PROVE  \E i \in 1 .. Len(segs) : Holding(segs, i, t) /\ segs[i].state = HeldAt(points, t)
      <3>1. PICK j \in 1 .. n : LastBy(u, n, j, t) /\ u[j].state = HeldAt(points, t)
        BY <1>1, <2>1, <2>2, LastOne DEF u
      <3> QED BY <1>4, <2>1, <3>1 DEF Segmented, Followed
    <2>3. ASSUME ~Recorded(points, t) PROVE \A i \in 1 .. Len(segs) : segs[i].start > t
      <3>1. \A j \in 1 .. n : u[j].at > t
        BY <1>6, <2>1, <2>3 DEF Recorded
      <3> QED BY <1>4, <2>1, <3>1 DEF Segmented, Followed
    <2> QED BY <2>2, <2>3
  <1>9. TellsPoints(segs, points)
    <2>1. ASSUME NEW i \in 1 .. Len(segs)
          PROVE  \E j \in DOMAIN points :
                    /\ segs[i].state = points[j].state
                    /\ segs[i].start = points[j].at \/ (points[j].at <= From /\ segs[i].start = From)
      <3>1. PICK k \in 1 .. n : /\ segs[i].state = u[k].state
                                /\ segs[i].start = u[k].at \/ (u[k].at <= From /\ segs[i].start = From)
        BY <1>4 DEF Segmented, Sourced
      <3> QED BY <1>6, <3>1
    <2>2. ASSUME NEW j \in DOMAIN points, From < points[j].at, points[j].at <= To
          PROVE  \E i \in 1 .. Len(segs) : /\ segs[i].state = points[j].state /\ segs[i].start <= points[j].at
                                           /\ i < Len(segs) => segs[i + 1].start >= points[j].at
      <3>1. PICK k \in 1 .. n : q[k] = j
        BY <1>7, <2>2
      <3>2. u[k] = points[j] /\ u[k].at > From
        BY <1>6, <2>2, <3>1 DEF From
      <3> QED BY <1>4, <3>2 DEF Segmented, Seen
    <2> QED BY <2>1, <2>2 DEF TellsPoints
  <1> QED BY <1>5, <1>8, <1>9 DEF segs

-----------------------------------------------------------------------------
(* The outages of a history (outagesOf), out of its segments.              *)

Outage == [from : Int, to : Int, truncated : BOOLEAN, open : BOOLEAN]
Extends(f, segs) ==
    /\ f[0] = <<>> /\ \A m \in 0 .. Len(segs) : f[m] \in Seq(Outage)
    /\ \A m \in 1 .. Len(segs) : f[m] = Extend(segs, f[m - 1], m)

LEMMA EndsAre ==
    ASSUME NEW segs \in Seq(Segment), NEW i \in 1 .. Len(segs)
    PROVE  SegmentEnd(segs, i) \in Int
  <1>1. Len(segs) \in Nat /\ \A j \in 1 .. Len(segs) : segs[j].start \in Int
    BY SegmentsAre
  <1>2. To \in Int
    BY WindowAssumption
  <1>3. i < Len(segs) => i + 1 \in 1 .. Len(segs)
    BY <1>1
  <1> QED BY <1>1, <1>2, <1>3 DEF SegmentEnd

LEMMA OutagesAreExtended ==
    ASSUME NEW segs \in Seq(Segment)
    PROVE  \E f : Extends(f, segs) /\ f[Len(segs)] = OutagesOf(segs)
  <1> DEFINE n == Len(segs)
             A == Seq(Outage)
             op(i, outages) == Extend(segs, outages, i)
             step == [p \in (1 .. n) \X A |-> op(p[1], p[2])]
             places == [i \in DOMAIN segs |-> i]
             H(g) == [t \in SUBSET (1 .. n) |-> IF t = {} THEN <<>> ELSE op(places[Max(t)], g[t \ {Max(t)}])]
  <1>0. n \in Nat /\ DOMAIN segs = 1 .. n /\ \A i \in 1 .. n : segs[i].start \in Int
    BY SegmentsAre
  <1>1. \A t \in SUBSET (1 .. n) : t # {} => Max(t) \in 1 .. n /\ t \ {Max(t)} \in SUBSET (1 .. n)
    BY <1>0, MaxLast
  <1>2. OutagesOf(segs) = (CHOOSE g : g = H(g))[1 .. n]
    <2>1. DOMAIN places = 1 .. n
      BY <1>0
    <2> HIDE DEF n, places
    <2> QED BY <2>1 DEF OutagesOf, FoldLeftDomain, FoldLeft, MapThenFoldSet, places
  <1>3. ASSUME NEW i \in 1 .. n, NEW outages \in A PROVE op(i, outages) \in A
    <2> DEFINE seg == segs[i]
               till == SegmentEnd(segs, i)
    <2>1. seg.start \in Int /\ till \in Int
      BY <1>0, EndsAre
    <2> HIDE DEF seg, till, n
    <2>2. [from |-> seg.start, to |-> till, truncated |-> i = 1, open |-> till = To] \in Outage
      BY <2>1 DEF Outage
    <2>3. CASE outages # <<>>
      <3>1. outages[Len(outages)] \in Outage /\ Len(outages) \in 1 .. Len(outages)
        BY <2>3
      <3>2. [outages[Len(outages)] EXCEPT !.to = till, !.open = (till = To)] \in Outage
        BY <2>1, <3>1 DEF Outage
      <3>3. [outages EXCEPT ![Len(outages)] = [@ EXCEPT !.to = till, !.open = (till = To)]] \in A
        BY <3>1, <3>2
      <3> QED BY <2>2, <3>3 DEF Extend, ExtendOutage, seg, till
    <2>4. CASE outages = <<>>
      BY <2>2, <2>4 DEF Extend, ExtendOutage, seg, till
    <2> QED BY <2>3, <2>4
  <1> HIDE DEF n, op
  <1>4. step \in [(1 .. n) \X A -> A]
    BY <1>3
  <1>5. \A i \in 1 .. n : \A a \in A : step[<<i, a>>] = op(i, a)
    OBVIOUS
  <1>6. <<>> \in A
    OBVIOUS
  <1> HIDE DEF step, A
  <1>7. PICK g \in [SUBSET (1 .. n) -> A] : IsFold(g, n, <<>>, step)
    BY <1>0, <1>4, <1>6, FoldExists
  <1>8. \A i \in 1 .. n : places[i] = i
    BY <1>0
  <1>9. \A t \in SUBSET (1 .. n) : g[t] = IF t = {} THEN <<>> ELSE step[<<Max(t), g[t \ {Max(t)}]>>]
    BY <1>7 DEF IsFold
  <1> HIDE DEF places
  <1>10. \A t \in SUBSET (1 .. n) : g[t] = H(g)[t]
    <2> TAKE t \in SUBSET (1 .. n)
    <2>2. CASE t # {}
      <3>1. Max(t) \in 1 .. n /\ g[t \ {Max(t)}] \in A
        BY <1>1, <2>2
      <3>2. step[<<Max(t), g[t \ {Max(t)}]>>] = op(places[Max(t)], g[t \ {Max(t)}])
        BY <1>5, <1>8, <3>1
      <3> QED BY <1>9, <2>2, <3>2
    <2> QED BY <1>9, <2>2
  <1>11. g = H(g)
    BY <1>10
  <1>12. PICK h : h = H(h) /\ OutagesOf(segs) = h[1 .. n]
    BY <1>2, <1>11
  <1>13. \A t \in SUBSET (1 .. n) : h[t] = IF t = {} THEN <<>> ELSE op(Max(t), h[t \ {Max(t)}])
    BY <1>1, <1>8, <1>12
  <1> HIDE DEF H
  <1>14. Climbs(h, n, A, <<>>, step)
    BY <1>1, <1>5, <1>13 DEF Climbs
  <1>15. PICK f : Walks(f, n, A, <<>>, step) /\ f[n] = h[1 .. n]
    <2>1. HasWalk(h, n, A, <<>>, step)
      BY <1>0, <1>4, <1>6, <1>14, FoldIsWalk
    <2> QED BY <2>1 DEF HasWalk
  <1>16. \A m \in 1 .. n : f[m] = op(m, f[m - 1])
    <2> TAKE m \in 1 .. n
    <2>1. m - 1 \in 0 .. n
      BY <1>0
    <2> QED BY <1>5, <1>15, <2>1 DEF Walks
  <1> QED BY <1>12, <1>15, <1>16 DEF Extends, Walks, n, A, op

(* The first m segments' times of no usable value, in outages apart from   *)
(* one another.                                                            *)
Apart(outs, segs, m) ==
    /\ outs \in Seq(Outage)
    /\ \A i \in 1 .. Len(outs) :
            /\ From <= outs[i].from /\ outs[i].from <= outs[i].to /\ outs[i].to <= To
            /\ m > 0 /\ outs[i].to <= SegmentEnd(segs, m)
    /\ \A i, j \in 1 .. Len(outs) : i < j => outs[i].to < outs[j].from
Includes(outs, segs, m) ==
    \A k \in 1 .. m : segs[k].state \in Down
        => \E i \in 1 .. Len(outs) : outs[i].from <= segs[k].start /\ SegmentEnd(segs, k) <= outs[i].to
Filled(outs, segs, m) ==
    \A i \in 1 .. Len(outs) :
        /\ \E k \in 1 .. m : segs[k].state \in Down /\ segs[k].start = outs[i].from
        /\ \A t \in Int : outs[i].from <= t /\ t < outs[i].to
                => \E k \in 1 .. m : segs[k].state \in Down /\ segs[k].start <= t /\ t < SegmentEnd(segs, k)
Outed(outs, segs, m) == Apart(outs, segs, m) /\ Includes(outs, segs, m) /\ Filled(outs, segs, m)

LEMMA OutagesAre ==
    ASSUME NEW s \in Seq(Outage)
    PROVE  /\ Len(s) \in Nat /\ DOMAIN s = 1 .. Len(s) /\ (s = <<>>) = (Len(s) = 0)
           /\ \A i \in 1 .. Len(s) : s[i] \in Outage /\ s[i].from \in Int /\ s[i].to \in Int
  <1>1. Len(s) \in Nat /\ DOMAIN s = 1 .. Len(s) /\ (s = <<>>) = (Len(s) = 0)
        /\ \A i \in 1 .. Len(s) : s[i] \in Outage
    OBVIOUS
  <1> QED BY <1>1 DEF Outage

(* A segment ends where the next one starts, or with the window.           *)
LEMMA EndsFollow ==
    ASSUME NEW segs, NEW points, Tells(segs, points), NEW m \in 1 .. Len(segs)
    PROVE  /\ SegmentEnd(segs, m) \in Int /\ segs[m].start \in Int /\ From <= segs[m].start
           /\ segs[m].start <= SegmentEnd(segs, m) /\ SegmentEnd(segs, m) <= To
           /\ \A k \in 1 .. m - 1 : k \in 1 .. Len(segs) /\ SegmentEnd(segs, k) <= segs[m].start
  <1>1. Len(segs) \in Nat /\ (\A j \in 1 .. Len(segs) : segs[j].start \in Int) /\ segs \in Seq(Segment)
    BY SegmentsAre DEF Tells
  <1>2. From \in Int /\ To \in Int
    BY WindowAssumption DEF From
  <1>3. SegmentEnd(segs, m) \in Int /\ segs[m].start \in Int /\ From <= segs[m].start
    BY <1>1, EndsAre DEF Tells
  <1>4. segs[m].start <= SegmentEnd(segs, m) /\ SegmentEnd(segs, m) <= To
    <2>1. CASE m < Len(segs)
      <3>1. m + 1 \in 1 .. Len(segs) /\ m < m + 1
        BY <1>1, <2>1
      <3> QED BY <2>1, <3>1 DEF Tells, SegmentEnd
    <2>2. CASE ~(m < Len(segs))
      BY <1>2, <2>2 DEF Tells, SegmentEnd
    <2> QED BY <2>1, <2>2
  <1>5. ASSUME NEW k \in 1 .. m - 1 PROVE k \in 1 .. Len(segs) /\ SegmentEnd(segs, k) <= segs[m].start
    <2>1. k \in 1 .. Len(segs) /\ k < Len(segs) /\ k + 1 \in 1 .. Len(segs) /\ (k + 1 = m \/ k + 1 < m)
      BY <1>1
    <2>2. SegmentEnd(segs, k) = segs[k + 1].start
      BY <2>1 DEF SegmentEnd
    <2> QED BY <1>1, <2>1, <2>2 DEF Tells
  <1> QED BY <1>3, <1>4, <1>5

LEMMA ExtendsOuted ==
    ASSUME NEW segs, NEW points, Tells(segs, points), NEW m \in 1 .. Len(segs),
           NEW outs, Outed(outs, segs, m - 1)
    PROVE  Outed(Extend(segs, outs, m), segs, m)
  <1> DEFINE n == Len(outs)
             a == segs[m].start
             b == SegmentEnd(segs, m)
             Until(k) == SegmentEnd(segs, k)
  <1>1. /\ m \in Nat /\ From \in Int /\ To \in Int
        /\ a \in Int /\ b \in Int /\ From <= a /\ a <= b /\ b <= To
        /\ \A k \in 1 .. m - 1 : k \in 1 .. m /\ Until(k) <= a /\ Until(k) \in Int
        /\ \A k \in 1 .. m : k \in 1 .. m - 1 \/ k = m
    <2>1. segs \in Seq(Segment) /\ m \in Nat
      BY SegmentsAre DEF Tells
    <2>2. \A k \in 1 .. m - 1 : k \in 1 .. Len(segs) /\ Until(k) <= a /\ Until(k) \in Int
      BY <2>1, EndsFollow, EndsAre
    <2> QED BY <2>1, <2>2, EndsFollow, WindowAssumption DEF From
  <1>2. /\ outs \in Seq(Outage) /\ n \in Nat /\ (outs = <<>>) = (n = 0)
        /\ \A i \in 1 .. n : outs[i] \in Outage /\ outs[i].from \in Int /\ outs[i].to \in Int
    BY OutagesAre DEF Outed, Apart
  <1>3. /\ \A i \in 1 .. n : From <= outs[i].from /\ outs[i].from <= outs[i].to /\ outs[i].to <= To /\ outs[i].to <= a
        /\ \A i, j \in 1 .. n : i < j => outs[i].to < outs[j].from
    <2>1. ASSUME NEW i \in 1 .. n PROVE outs[i].to <= a
      <3>1. m - 1 > 0 /\ outs[i].to <= Until(m - 1)
        BY DEF Outed, Apart
      <3>2. m - 1 \in 1 .. m - 1
        BY <1>1, <3>1
      <3> QED BY <1>1, <1>2, <3>1, <3>2
    <2> QED BY <2>1 DEF Outed, Apart
  <1> HIDE DEF n, a, b, Until
  <1>10. ASSUME NEW s, Apart(s, segs, m),
                \A i \in 1 .. n : \E j \in 1 .. Len(s) : s[j].from = outs[i].from /\ outs[i].to <= s[j].to,
                segs[m].state \in Down => \E i \in 1 .. Len(s) : s[i].from <= a /\ b <= s[i].to
         PROVE  Includes(s, segs, m)
    <2> SUFFICES ASSUME NEW k \in 1 .. m, segs[k].state \in Down
                 PROVE  \E i \in 1 .. Len(s) : s[i].from <= segs[k].start /\ Until(k) <= s[i].to
      BY DEF Includes, Until
    <2>1. CASE k = m
      BY <1>10, <2>1 DEF a, b, Until
    <2>2. CASE k # m
      <3>1. k \in 1 .. m - 1
        BY <1>1, <2>2
      <3>2. PICK i \in 1 .. n : outs[i].from <= segs[k].start /\ Until(k) <= outs[i].to
        BY <3>1 DEF Outed, Includes, Until, n
      <3>3. PICK j \in 1 .. Len(s) : s[j].from = outs[i].from /\ outs[i].to <= s[j].to
        BY <1>10
      <3>4. Until(k) \in Int /\ outs[i].to \in Int /\ s[j].to \in Int
        BY <1>1, <1>2, <1>10, <3>1, OutagesAre DEF Apart
      <3> QED BY <3>2, <3>3, <3>4
    <2> QED BY <2>1, <2>2
  <1>11. ASSUME NEW s, Apart(s, segs, m),
                \A j \in 1 .. Len(s) : \/ \E i \in 1 .. n : s[j].from = outs[i].from /\ s[j].to = outs[i].to
                                       \/ \E i \in 1 .. n : /\ s[j].from = outs[i].from /\ s[j].to = b
                                                            /\ outs[i].to = a /\ segs[m].state \in Down
                                       \/ s[j].from = a /\ s[j].to = b /\ segs[m].state \in Down
         PROVE  Filled(s, segs, m)
    <2> SUFFICES ASSUME NEW j \in 1 .. Len(s)
                 PROVE  /\ \E k \in 1 .. m : segs[k].state \in Down /\ segs[k].start = s[j].from
                        /\ \A t \in Int : s[j].from <= t /\ t < s[j].to
                            => \E k \in 1 .. m : segs[k].state \in Down /\ segs[k].start <= t /\ t < Until(k)
      BY DEF Filled, Until
    <2>1. m \in 1 .. m
      BY <1>1
    <2>2. ASSUME NEW i \in 1 .. n
          PROVE  /\ \E k \in 1 .. m : segs[k].state \in Down /\ segs[k].start = outs[i].from
                 /\ \A t \in Int : outs[i].from <= t /\ t < outs[i].to
                        => \E k \in 1 .. m : segs[k].state \in Down /\ segs[k].start <= t /\ t < Until(k)
      <3>1. /\ \E k \in 1 .. m - 1 : segs[k].state \in Down /\ segs[k].start = outs[i].from
            /\ \A t \in Int : outs[i].from <= t /\ t < outs[i].to
                   => \E k \in 1 .. m - 1 : segs[k].state \in Down /\ segs[k].start <= t /\ t < Until(k)
        BY DEF Outed, Filled, n, Until
      <3> QED BY <1>1, <3>1
    <2>3. CASE \E i \in 1 .. n : s[j].from = outs[i].from /\ s[j].to = outs[i].to
      BY <2>2, <2>3
    <2>4. CASE \E i \in 1 .. n : s[j].from = outs[i].from /\ s[j].to = b /\ outs[i].to = a /\ segs[m].state \in Down
      <3>1. PICK i \in 1 .. n : s[j].from = outs[i].from /\ s[j].to = b /\ outs[i].to = a /\ segs[m].state \in Down
        BY <2>4
      <3>2. ASSUME NEW t \in Int, s[j].from <= t, t < s[j].to
            PROVE  \E k \in 1 .. m : segs[k].state \in Down /\ segs[k].start <= t /\ t < Until(k)
        <4>1. CASE t < a
          BY <2>2, <3>1, <3>2, <4>1
        <4>2. CASE ~(t < a)
          <5>1. segs[m].state \in Down /\ segs[m].start <= t /\ t < Until(m)
            BY <1>1, <3>1, <3>2, <4>2 DEF a, b, Until
          <5> QED BY <2>1, <5>1
        <4> QED BY <4>1, <4>2
      <3> QED BY <2>2, <3>1, <3>2
    <2>5. CASE s[j].from = a /\ s[j].to = b /\ segs[m].state \in Down
      BY <2>1, <2>5 DEF a, b, Until
    <2> QED BY <1>11, <2>3, <2>4, <2>5
  <1>4. CASE segs[m].state \notin Down
    <2>1. Extend(segs, outs, m) = outs
      BY <1>4 DEF Extend
    <2>2. Apart(outs, segs, m)
      BY <1>1, <1>2, <1>3 DEF Apart, n, a, b
    <2>3. Includes(outs, segs, m)
      <3>1. \A i \in 1 .. n : \E j \in 1 .. n : outs[j].from = outs[i].from /\ outs[i].to <= outs[j].to
        BY <1>2
      <3> QED BY <1>4, <1>10, <2>2, <3>1 DEF n
    <2>4. Filled(outs, segs, m)
      BY <1>11, <2>2 DEF n
    <2> QED BY <2>1, <2>2, <2>3, <2>4 DEF Outed
  <1>5. CASE segs[m].state \in Down /\ outs # <<>> /\ Last(outs).to = segs[m].start
    <2> DEFINE o == [outs[n] EXCEPT !.to = b, !.open = (b = To)]
               s == [outs EXCEPT ![n] = o]
    <2>1. Extend(segs, outs, m) = s
      <3>1. Extend(segs, outs, m) = [outs EXCEPT ![Len(outs)] = [@ EXCEPT !.to = b, !.open = (b = To)]]
        BY <1>5 DEF Extend, ExtendOutage, b
      <3> QED BY <3>1 DEF n
    <2>2. n \in 1 .. n /\ outs[n].to = a
      BY <1>2, <1>5 DEF Last, n, a
    <2>3. o \in Outage /\ o.from = outs[n].from /\ o.to = b
      BY <1>1, <1>2, <2>2 DEF Outage
    <2> HIDE DEF o
    <2>4. s \in Seq(Outage) /\ Len(s) = n /\ s[n] = o /\ \A i \in 1 .. n : i # n => s[i] = outs[i]
      BY <1>2, <2>2, <2>3 DEF n
    <2> HIDE DEF s
    <2>5. Apart(s, segs, m)
      <3>1. \A i \in 1 .. n : /\ From <= s[i].from /\ s[i].from <= s[i].to /\ s[i].to <= To
                              /\ m > 0 /\ s[i].to <= b
        <4> TAKE i \in 1 .. n
        <4>1. CASE i = n
          BY <1>1, <1>2, <1>3, <2>2, <2>3, <2>4, <4>1
        <4>2. CASE i # n
          <5>1. s[i] = outs[i] /\ i \in 1 .. n /\ m > 0
            BY <1>1, <2>4, <4>2
          <5>2. outs[i].to <= b
            BY <1>1, <1>2, <1>3
          <5> QED BY <1>3, <5>1, <5>2
        <4> QED BY <4>1, <4>2
      <3>2. \A i, j \in 1 .. n : i < j => s[i].to < s[j].from
        <4> SUFFICES ASSUME NEW i \in 1 .. n, NEW j \in 1 .. n, i < j PROVE s[i].to < s[j].from
          OBVIOUS
        <4>1. s[i] = outs[i] /\ s[j].from = outs[j].from
          BY <1>2, <2>3, <2>4
        <4> QED BY <1>3, <4>1
      <3> QED BY <2>4, <3>1, <3>2 DEF Apart, b
    <2>6. \A i \in 1 .. n : \E j \in 1 .. n : s[j].from = outs[i].from /\ outs[i].to <= s[j].to
      <3> TAKE i \in 1 .. n
      <3>1. CASE i = n
        BY <1>1, <2>2, <2>3, <2>4, <3>1
      <3>2. CASE i # n
        BY <1>2, <2>4, <3>2
      <3> QED BY <3>1, <3>2
    <2>7. s[n].from <= a /\ b <= s[n].to
      BY <1>1, <1>2, <1>3, <2>2, <2>3, <2>4
    <2>8. Includes(s, segs, m)
      BY <1>10, <2>2, <2>4, <2>5, <2>6, <2>7
    <2>9. Filled(s, segs, m)
      <3>1. \A j \in 1 .. n : \/ \E i \in 1 .. n : s[j].from = outs[i].from /\ s[j].to = outs[i].to
                              \/ \E i \in 1 .. n : /\ s[j].from = outs[i].from /\ s[j].to = b
                                                   /\ outs[i].to = a /\ segs[m].state \in Down
        BY <1>5, <2>2, <2>3, <2>4
      <3> QED BY <1>11, <2>4, <2>5, <3>1
    <2> QED BY <2>1, <2>5, <2>8, <2>9 DEF Outed
  <1>6. CASE segs[m].state \in Down /\ ~(outs # <<>> /\ Last(outs).to = segs[m].start)
    <2> DEFINE o == [from |-> a, to |-> b, truncated |-> m = 1, open |-> b = To]
               s == Append(outs, o)
    <2>1. Extend(segs, outs, m) = s
      BY <1>6 DEF Extend, ExtendOutage, a, b
    <2>2. o \in Outage /\ o.from = a /\ o.to = b
      BY <1>1 DEF Outage
    <2> HIDE DEF o
    <2>3. s \in Seq(Outage) /\ Len(s) = n + 1 /\ s[n + 1] = o /\ \A i \in 1 .. n : s[i] = outs[i]
      BY <1>2, <2>2 DEF n
    <2> HIDE DEF s
    <2>4. /\ n + 1 \in 1 .. n + 1 /\ \A i \in 1 .. n + 1 : i \in 1 .. n \/ i = n + 1
          /\ \A i \in 1 .. n : i \in 1 .. n + 1
      BY <1>2
    <2>5. \A i \in 1 .. n : outs[i].to < a
      <3> TAKE i \in 1 .. n
      <3>1. n \in 1 .. n /\ outs[n].to # a
        BY <1>2, <1>6 DEF Last, n, a
      <3>2. outs[n].to < a
        BY <1>1, <1>2, <1>3, <3>1
      <3>3. i = n \/ (i < n /\ outs[i].to < outs[n].from)
        BY <1>2, <1>3, <3>1
      <3> QED BY <1>1, <1>2, <1>3, <3>1, <3>2, <3>3
    <2>6. Apart(s, segs, m)
      <3>1. \A i \in 1 .. n + 1 : /\ From <= s[i].from /\ s[i].from <= s[i].to /\ s[i].to <= To
                                  /\ m > 0 /\ s[i].to <= b
        <4> TAKE i \in 1 .. n + 1
        <4>1. CASE i = n + 1
          BY <1>1, <2>2, <2>3, <4>1
        <4>2. CASE i # n + 1
          <5>1. i \in 1 .. n
            BY <2>4, <4>2
          <5>2. s[i] = outs[i] /\ m > 0
            BY <1>1, <2>3, <5>1
          <5>3. outs[i].to <= b
            BY <1>1, <1>2, <1>3, <5>1
          <5> QED BY <1>3, <5>1, <5>2, <5>3
        <4> QED BY <4>1, <4>2
      <3>2. \A i, j \in 1 .. n + 1 : i < j => s[i].to < s[j].from
        <4> SUFFICES ASSUME NEW i \in 1 .. n + 1, NEW j \in 1 .. n + 1, i < j PROVE s[i].to < s[j].from
          OBVIOUS
        <4>1. i \in 1 .. n /\ s[i] = outs[i]
          BY <1>2, <2>3, SMTT(20)
        <4>2. CASE j = n + 1
          <5>1. s[j].from = a /\ outs[i].to < a
            BY <2>2, <2>3, <2>5, <4>1, <4>2
          <5> QED BY <4>1, <5>1
        <4>3. CASE j # n + 1
          BY <1>3, <2>3, <2>4, <4>1, <4>3
        <4> QED BY <4>2, <4>3
      <3>3. Len(s) = n + 1
        BY <2>3
      <3> HIDE DEF s
      <3>4. \A i \in 1 .. Len(s) : /\ From <= s[i].from /\ s[i].from <= s[i].to /\ s[i].to <= To
                                   /\ m > 0 /\ s[i].to <= SegmentEnd(segs, m)
        BY <3>1, <3>3 DEF b
      <3>5. \A i, j \in 1 .. Len(s) : i < j => s[i].to < s[j].from
        BY <3>2, <3>3
      <3> QED BY <2>3, <3>4, <3>5, Zenon DEF Apart
    <2>7. \A i \in 1 .. n : \E j \in 1 .. n + 1 : s[j].from = outs[i].from /\ outs[i].to <= s[j].to
      <3> TAKE i \in 1 .. n
      <3>1. s[i] = outs[i] /\ i \in 1 .. n + 1 /\ outs[i].to <= outs[i].to
        BY <1>2, <2>3, <2>4
      <3> QED BY <3>1
    <2>8. s[n + 1].from <= a /\ b <= s[n + 1].to
      BY <1>1, <2>2, <2>3
    <2>9. Includes(s, segs, m)
      BY <1>10, <2>3, <2>4, <2>6, <2>7, <2>8
    <2>10. Filled(s, segs, m)
      <3>1. \A j \in 1 .. n + 1 : \/ \E i \in 1 .. n : s[j].from = outs[i].from /\ s[j].to = outs[i].to
                                  \/ s[j].from = a /\ s[j].to = b /\ segs[m].state \in Down
        BY <1>6, <2>2, <2>3, <2>4
      <3> QED BY <1>11, <2>3, <2>6, <3>1
    <2> QED BY <2>1, <2>6, <2>9, <2>10 DEF Outed
  <1> QED BY <1>4, <1>5, <1>6

LEMMA OutagesAreOuted ==
    ASSUME NEW segs, NEW points, Tells(segs, points)
    PROVE  Outed(OutagesOf(segs), segs, Len(segs))
  <1> DEFINE n == Len(segs)
  <1>1. segs \in Seq(Segment) /\ n \in Nat
    BY SegmentsAre DEF Tells
  <1>2. PICK f : Extends(f, segs) /\ f[n] = OutagesOf(segs)
    BY <1>1, OutagesAreExtended
  <1> DEFINE T == {k \in 0 .. n : Outed(f[k], segs, k)}
  <1>3. 0 \in T
    <2> DEFINE e == f[0]
    <2>1. e = <<>> /\ e \in Seq(Outage) /\ Len(e) = 0 /\ \A i \in 1 .. 0 : FALSE
      BY <1>1, <1>2 DEF Extends
    <2> HIDE DEF e
    <2>2. Apart(e, segs, 0) /\ Includes(e, segs, 0) /\ Filled(e, segs, 0)
      BY <2>1 DEF Apart, Includes, Filled
    <2> QED BY <1>1, <2>2 DEF Outed, e
  <1>4. ASSUME NEW k \in 1 .. n, k - 1 \in T PROVE k \in T
    <2>1. Outed(f[k - 1], segs, k - 1) /\ f[k] = Extend(segs, f[k - 1], k)
      BY <1>2, <1>4 DEF Extends
    <2> QED BY <1>1, <2>1, ExtendsOuted
  <1> HIDE DEF T
  <1>5. \A k \in 0 .. n : k \in T
    BY <1>1, <1>3, <1>4, Climbing
  <1> QED BY <1>1, <1>2, <1>5 DEF T

-----------------------------------------------------------------------------
(* What the outages tell of each instant of the window.                    *)

(* Outages, as what they say of the instants of the window.                *)
Lies(outs) ==
    /\ outs \in Seq(Outage)
    /\ \A i \in 1 .. Len(outs) : From <= outs[i].from /\ outs[i].from <= outs[i].to /\ outs[i].to <= To
    /\ \A i, j \in 1 .. Len(outs) : i < j => outs[i].to < outs[j].from
Covers(outs, t) == \E i \in 1 .. Len(outs) : outs[i].from <= t /\ t < outs[i].to
Meets(outs, t) == \E i \in 1 .. Len(outs) : outs[i].from <= t /\ t <= outs[i].to

(* What the recorder shows at t or just before it.                         *)
DownAt(points, t) ==
    \/ HeldAt(points, t) \in Down
    \/ /\ t > From
       /\ \/ HeldAt(points, t - 1) \in Down
          \/ \E i \in DOMAIN points : points[i].at = t /\ points[i].state \in Down

LEMMA InstantsAre ==
    /\ From \in Int /\ To \in Int /\ From < To /\ From = 0
    /\ \A t \in From .. To : t \in Int /\ From <= t /\ t <= To
    /\ \A t \in Seconds : t \in From .. To /\ t \in Int /\ From <= t /\ t < To
    /\ \A t \in Int : From <= t /\ t < To => t \in Seconds
    /\ \A t \in Int : From <= t /\ t <= To => t \in From .. To
  BY WindowAssumption DEF From, Seconds

(* The segment that goes on at an instant is one.                          *)
LEMMA OneHolds ==
    ASSUME NEW points, NEW segs, Tells(segs, points), NEW t \in Int,
           NEW i \in 1 .. Len(segs), NEW j \in 1 .. Len(segs), Holding(segs, i, t), Holding(segs, j, t)
    PROVE  ~(i < j)
  <1> SUFFICES ASSUME i < j PROVE FALSE
    OBVIOUS
  <1>1. Len(segs) \in Nat /\ \A m \in 1 .. Len(segs) : segs[m].start \in Int
    BY SegmentsAre DEF Tells
  <1>2. i + 1 \in 1 .. Len(segs) /\ (i + 1 = j \/ i + 1 < j)
    BY <1>1
  <1>3. segs[i + 1].start <= segs[j].start
    BY <1>1, <1>2 DEF Tells
  <1>4. segs[i + 1].start > t /\ segs[j].start <= t
    BY <1>1 DEF Holding
  <1> QED BY <1>1, <1>2, <1>3, <1>4

LEMMA HeldIs ==
    ASSUME NEW points, NEW segs, Tells(segs, points), TellsHeld(segs, points), NEW t \in From .. To
    PROVE  /\ HeldAt(points, t) \in Down => \E i \in 1 .. Len(segs) : Holding(segs, i, t) /\ segs[i].state = HeldAt(points, t)
           /\ \A i \in 1 .. Len(segs) : Holding(segs, i, t) => HeldAt(points, t) = segs[i].state
  <1>1. Len(segs) \in Nat /\ \A m \in 1 .. Len(segs) : segs[m].start \in Int
    BY SegmentsAre DEF Tells
  <1>2. t \in Int
    BY InstantsAre
  <1>3. ASSUME HeldAt(points, t) \in Down PROVE Recorded(points, t)
    <2> SUFFICES ASSUME ~Recorded(points, t) PROVE FALSE
      OBVIOUS
    <2>1. {i \in DOMAIN points : points[i].at <= t} = {}
      BY DEF Recorded
    <2>2. HeldAt(points, t) = "none"
      BY <2>1 DEF HeldAt
    <2> QED BY <1>3, <2>2 DEF Down
  <1>4. ASSUME NEW i \in 1 .. Len(segs), Holding(segs, i, t) PROVE HeldAt(points, t) = segs[i].state
    <2>1. ~(segs[i].start > t)
      BY <1>1, <1>2, <1>4 DEF Holding
    <2>2. Recorded(points, t)
      BY <2>1 DEF TellsHeld
    <2>3. PICK j \in 1 .. Len(segs) : Holding(segs, j, t) /\ segs[j].state = HeldAt(points, t)
      BY <2>2 DEF TellsHeld
    <2>4. ~(i < j) /\ ~(j < i)
      BY <1>2, <1>4, <2>3, OneHolds
    <2>5. i = j
      BY <1>1, <2>4
    <2> QED BY <2>3, <2>5
  <1> QED BY <1>3, <1>4 DEF TellsHeld

LEMMA OutagesShown ==
    ASSUME NEW points, NEW segs, Tells(segs, points), TellsHeld(segs, points), TellsPoints(segs, points),
           NEW outs, Outed(outs, segs, Len(segs))
    PROVE  /\ Lies(outs)
           /\ \A t \in Seconds : HeldAt(points, t) \in Down <=> Covers(outs, t)
           /\ \A t \in From .. To : DownAt(points, t) <=> Meets(outs, t)
  <1> DEFINE n == Len(segs)
             k == Len(outs)
             Until(i) == SegmentEnd(segs, i)
  <1>1. n \in Nat /\ \A i \in 1 .. n : segs[i].start \in Int /\ From <= segs[i].start /\ segs[i].start <= To
    BY SegmentsAre DEF Tells
  <1>2. \A i \in 1 .. n : Until(i) \in Int /\ segs[i].start <= Until(i) /\ Until(i) <= To
    BY EndsFollow
  <1>3. \A i \in 1 .. n : \/ i < n /\ Until(i) = segs[i + 1].start
                          \/ i = n /\ Until(i) = To
    BY <1>1 DEF SegmentEnd
  <1>4. k \in Nat /\ \A i \in 1 .. k : outs[i].from \in Int /\ outs[i].to \in Int
    BY OutagesAre DEF Outed, Apart
  <1>5. Lies(outs)
    BY DEF Outed, Apart, Lies
  <1>6. \A i \in 1 .. n : segs[i].state \in Down
            => \E j \in 1 .. k : outs[j].from <= segs[i].start /\ Until(i) <= outs[j].to
    BY DEF Outed, Includes
  <1>7. \A i \in 1 .. k :
            /\ \E j \in 1 .. n : segs[j].state \in Down /\ segs[j].start = outs[i].from
            /\ \A t \in Int : outs[i].from <= t /\ t < outs[i].to
                => \E j \in 1 .. n : segs[j].state \in Down /\ segs[j].start <= t /\ t < Until(j)
    BY DEF Outed, Filled
  <1>8. \A i \in 1 .. k : From <= outs[i].from /\ outs[i].from <= outs[i].to /\ outs[i].to <= To
    BY <1>5 DEF Lies
  <1>9. ASSUME NEW t \in Int, NEW i \in 1 .. n, t < To \/ i < n
        PROVE  Holding(segs, i, t) <=> segs[i].start <= t /\ t < Until(i)
    <2>1. i < n => segs[i + 1].start \in Int
      BY <1>1
    <2>2. To \in Int
      BY InstantsAre
    <2> QED BY <1>1, <1>3, <1>9, <2>1, <2>2 DEF Holding
  <1> HIDE DEF n, k, Until
  <1>10. ASSUME NEW t \in Seconds PROVE HeldAt(points, t) \in Down <=> Covers(outs, t)
    <2>1. t \in From .. To /\ t \in Int /\ t < To
      BY InstantsAre
    <2>2. ASSUME HeldAt(points, t) \in Down PROVE Covers(outs, t)
      <3>1. PICK i \in 1 .. n : Holding(segs, i, t) /\ segs[i].state \in Down
        BY <2>1, <2>2, HeldIs DEF n
      <3>2. segs[i].start <= t /\ t < Until(i)
        BY <1>9, <2>1, <3>1
      <3>3. PICK j \in 1 .. k : outs[j].from <= segs[i].start /\ Until(i) <= outs[j].to
        BY <1>6, <3>1
      <3>4. outs[j].from <= t /\ t < outs[j].to
        BY <1>1, <1>2, <1>4, <2>1, <3>2, <3>3
      <3> QED BY <3>4 DEF Covers, k
    <2>3. ASSUME Covers(outs, t) PROVE HeldAt(points, t) \in Down
      <3>1. PICK i \in 1 .. k : outs[i].from <= t /\ t < outs[i].to
        BY <2>3 DEF Covers, k
      <3>2. PICK j \in 1 .. n : segs[j].state \in Down /\ segs[j].start <= t /\ t < Until(j)
        BY <1>7, <2>1, <3>1
      <3>3. Holding(segs, j, t)
        BY <1>9, <2>1, <3>2
      <3> QED BY <2>1, <3>2, <3>3, HeldIs DEF n
    <2> QED BY <2>2, <2>3
  <1>11. ASSUME NEW t \in From .. To, DownAt(points, t) PROVE Meets(outs, t)
    <2>1. t \in Int /\ From <= t /\ t <= To
      BY InstantsAre
    <2>2. CASE \E i \in 1 .. n : segs[i].state \in Down /\ segs[i].start <= t /\ t <= Until(i)
      <3>1. PICK i \in 1 .. n : segs[i].state \in Down /\ segs[i].start <= t /\ t <= Until(i)
        BY <2>2
      <3>2. PICK j \in 1 .. k : outs[j].from <= segs[i].start /\ Until(i) <= outs[j].to
        BY <1>6, <3>1
      <3>3. outs[j].from <= t /\ t <= outs[j].to
        BY <1>1, <1>2, <1>4, <2>1, <3>1, <3>2
      <3> QED BY <3>3 DEF Meets, k
    <2>3. CASE HeldAt(points, t) \in Down
      <3>1. PICK i \in 1 .. n : Holding(segs, i, t) /\ segs[i].state \in Down
        BY <2>3, HeldIs DEF n
      <3>2. segs[i].start <= t /\ t <= Until(i)
        <4>1. i < n => segs[i + 1].start \in Int
          BY <1>1
        <4> QED BY <1>1, <1>3, <2>1, <3>1, <4>1 DEF Holding, n
      <3> QED BY <2>2, <3>1, <3>2
    <2>4. CASE t > From /\ HeldAt(points, t - 1) \in Down
      <3>1. t - 1 \in Seconds /\ t - 1 \in Int
        BY <2>1, <2>4, InstantsAre
      <3>2. PICK i \in 1 .. k : outs[i].from <= t - 1 /\ t - 1 < outs[i].to
        BY <1>10, <2>4, <3>1 DEF Covers, k
      <3>3. outs[i].from <= t /\ t <= outs[i].to
        BY <1>4, <2>1, <3>2
      <3> QED BY <3>3 DEF Meets, k
    <2>5. CASE t > From /\ \E i \in DOMAIN points : points[i].at = t /\ points[i].state \in Down
      <3>1. PICK j \in DOMAIN points : points[j].at = t /\ points[j].state \in Down
        BY <2>5
      <3>2. From < points[j].at /\ points[j].at <= To
        BY <2>1, <2>5, <3>1, InstantsAre
      <3>3. PICK i \in 1 .. n : /\ segs[i].state = points[j].state /\ segs[i].start <= points[j].at
                                /\ i < n => segs[i + 1].start >= points[j].at
        BY <3>2 DEF TellsPoints, n
      <3>4. t <= Until(i)
        <4>1. i < n => segs[i + 1].start \in Int
          BY <1>1
        <4> QED BY <1>1, <1>3, <2>1, <3>1, <3>3, <4>1
      <3> QED BY <2>2, <3>1, <3>3, <3>4
    <2> QED BY <1>11, <2>3, <2>4, <2>5 DEF DownAt
  <1>12. ASSUME NEW t \in From .. To, Meets(outs, t) PROVE DownAt(points, t)
    <2>1. t \in Int /\ From <= t /\ t <= To /\ From \in Int /\ To \in Int /\ From < To
      BY InstantsAre
    <2>2. PICK i \in 1 .. k : outs[i].from <= t /\ t <= outs[i].to
      BY <1>12 DEF Meets, k
    <2>3. CASE t < outs[i].to
      <3>1. Covers(outs, t)
        BY <2>2, <2>3 DEF Covers, k
      <3>2. t \in Seconds
        <4>1. t < To
          BY <1>4, <1>8, <2>1, <2>3
        <4> QED BY <2>1, <4>1, InstantsAre
      <3> QED BY <1>10, <3>1, <3>2 DEF DownAt
    <2>4. CASE t = outs[i].to /\ outs[i].from < t
      <3>1. From < t
        BY <1>4, <1>8, <2>1, <2>4
      <3>2. t - 1 \in Seconds /\ outs[i].from <= t - 1 /\ t - 1 < outs[i].to
        <4>1. t - 1 \in Int /\ From <= t - 1 /\ t - 1 < To
          BY <2>1, <3>1
        <4>2. t - 1 \in Seconds
          BY <4>1, InstantsAre
        <4> QED BY <1>4, <2>1, <2>4, <4>2
      <3>3. HeldAt(points, t - 1) \in Down
        BY <1>10, <3>2 DEF Covers, k
      <3> QED BY <2>1, <3>1, <3>3 DEF DownAt
    <2>5. CASE t = outs[i].to /\ outs[i].from = t
      <3>1. PICK j \in 1 .. n : segs[j].state \in Down /\ segs[j].start = t
        BY <1>7, <2>5
      <3>2. CASE t = From
        <4>1. From < Until(j)
          <5>1. CASE j < n
            <6>1. j + 1 \in 1 .. n /\ j + 1 > 1
              BY <1>1, <5>1
            <6>2. segs[j + 1].start > From
              BY <6>1 DEF Tells, n
            <6> QED BY <1>1, <1>3, <2>1, <5>1, <6>1, <6>2
          <5>2. CASE ~(j < n)
            BY <1>3, <2>1, <5>2
          <5> QED BY <5>1, <5>2
        <4>2. Holding(segs, j, t)
          BY <1>1, <1>9, <2>1, <3>1, <3>2, <4>1
        <4> QED BY <3>1, <4>2, HeldIs DEF DownAt, n
      <3>3. CASE t # From
        <4>1. PICK p \in DOMAIN points :
                /\ segs[j].state = points[p].state
                /\ segs[j].start = points[p].at \/ (points[p].at <= From /\ segs[j].start = From)
          BY DEF TellsPoints, n
        <4>2. points[p].at = t /\ points[p].state \in Down /\ t > From
          BY <2>1, <3>1, <3>3, <4>1
        <4> QED BY <4>2 DEF DownAt
      <3> QED BY <3>2, <3>3
    <2>6. t < outs[i].to \/ (t = outs[i].to /\ outs[i].from < t) \/ (t = outs[i].to /\ outs[i].from = t)
      BY <1>4, <1>8, <2>1, <2>2
    <2> QED BY <2>3, <2>4, <2>5, <2>6
  <1> QED BY <1>5, <1>10, <1>11, <1>12

(* The outages a report lists, and whether there is one.                   *)
LEMMA ReportShows ==
    ASSUME NEW points \in Seq(Point)
    PROVE  /\ Lies(Availability(points).outages)
           /\ \A t \in Seconds : HeldAt(points, t) \in Down <=> Covers(Availability(points).outages, t)
           /\ \A t \in From .. To : DownAt(points, t) <=> Meets(Availability(points).outages, t)
  <1> DEFINE segs == SegmentsIn(points)
  <1>1. Tells(segs, points) /\ TellsHeld(segs, points) /\ TellsPoints(segs, points)
    BY SegmentsTell
  <1>2. Availability(points).outages = OutagesOf(segs)
    BY DEF Availability, ReportOn, Report
  <1> HIDE DEF segs
  <1>3. Outed(OutagesOf(segs), segs, Len(segs))
    BY <1>1, OutagesAreOuted
  <1> QED BY <1>1, <1>2, <1>3, OutagesShown

(* What is covered is what follows the first point, from the window's      *)
(* start on.                                                               *)
LEMMA CoveredIs ==
    ASSUME NEW points \in Seq(Point)
    PROVE  \/ /\ Availability(points).covered = 0 /\ Availability(points).computable = FALSE
              /\ \A t \in Seconds : ~Recorded(points, t)
           \/ \E s \in Seconds :
                /\ Availability(points).covered = To - s /\ Availability(points).computable = TRUE
                /\ \A t \in Seconds : Recorded(points, t) <=> s <= t
  <1> DEFINE segs == SegmentsIn(points)
             a == Availability(points)
  <1>1. Tells(segs, points) /\ TellsHeld(segs, points)
    BY SegmentsTell
  <1>2. /\ a.covered = IF segs = <<>> THEN 0 ELSE To - Head(segs).start
        /\ a.computable = (a.covered > 0)
    BY DEF Availability, ReportOn, Report
  <1>9. a.covered > 0 => a.computable = TRUE
    <2> SUFFICES ASSUME a.covered > 0 PROVE a.computable = TRUE
      OBVIOUS
    <2>1. (a.covered > 0) = TRUE
      OBVIOUS
    <2> HIDE DEF a
    <2> QED BY <1>2, <2>1, Zenon
  <1>10. ~(a.covered > 0) => a.computable = FALSE
    <2> SUFFICES ASSUME ~(a.covered > 0) PROVE a.computable = FALSE
      OBVIOUS
    <2>1. (a.covered > 0) = FALSE
      OBVIOUS
    <2> HIDE DEF a
    <2> QED BY <1>2, <2>1, Zenon
  <1> HIDE DEF segs, a
  <1>3. /\ segs \in Seq(Segment) /\ Len(segs) \in Nat /\ (segs = <<>>) = (Len(segs) = 0)
        /\ \A i \in 1 .. Len(segs) : segs[i].start \in Int
    BY <1>1, SegmentsAre DEF Tells
  <1>4. CASE segs = <<>>
    <2>1. \A t \in Seconds : ~Recorded(points, t)
      <3> TAKE t \in Seconds
      <3>1. t \in From .. To
        BY InstantsAre
      <3>2. \A i \in 1 .. Len(segs) : FALSE
        BY <1>3, <1>4
      <3> QED BY <1>1, <3>1, <3>2 DEF TellsHeld
    <2>2. a.covered = 0 /\ a.computable = FALSE
      BY <1>2, <1>4, <1>10
    <2> QED BY <2>1, <2>2 DEF a
  <1>5. CASE segs # <<>>
    <2> DEFINE s == segs[1].start
    <2>1. 1 \in 1 .. Len(segs) /\ Head(segs).start = s /\ s \in Int /\ From <= s /\ s <= To
      <3>1. 1 \in 1 .. Len(segs) /\ Head(segs) = segs[1]
        BY <1>3, <1>5
      <3> QED BY <1>1, <1>3, <3>1 DEF Tells
    <2>2. \A i \in 1 .. Len(segs) : s <= segs[i].start
      <3> TAKE i \in 1 .. Len(segs)
      <3>1. i = 1 \/ 1 < i
        BY <1>3
      <3> QED BY <1>1, <1>3, <2>1, <3>1 DEF Tells
    <2>3. \A t \in Seconds : Recorded(points, t) <=> s <= t
      <3> TAKE t \in Seconds
      <3>1. t \in From .. To /\ t \in Int
        BY InstantsAre
      <3>2. ASSUME Recorded(points, t) PROVE s <= t
        <4>1. PICK i \in 1 .. Len(segs) : Holding(segs, i, t)
          BY <1>1, <3>1, <3>2 DEF TellsHeld
        <4>2. segs[i].start <= t /\ segs[i].start \in Int
          BY <1>3, <4>1 DEF Holding
        <4> QED BY <2>1, <2>2, <3>1, <4>2
      <3>3. ASSUME s <= t PROVE Recorded(points, t)
        <4>1. ~(segs[1].start > t)
          BY <2>1, <3>1, <3>3
        <4> QED BY <1>1, <2>1, <3>1, <4>1 DEF TellsHeld
      <3> QED BY <3>2, <3>3
    <2> HIDE DEF s
    <2>4. a.covered = To - s
      BY <1>2, <1>5, <2>1
    <2>5. CASE s < To
      <3>1. s \in Seconds
        BY <2>1, <2>5, InstantsAre
      <3>2. a.computable = TRUE
        BY <1>9, <2>1, <2>4, <2>5, InstantsAre
      <3> QED BY <2>3, <2>4, <3>1, <3>2 DEF a
    <2>6. CASE ~(s < To)
      <3>1. s = To /\ a.covered = 0 /\ a.computable = FALSE
        BY <1>10, <2>1, <2>4, <2>6, InstantsAre
      <3>2. \A t \in Seconds : ~(s <= t)
        BY <3>1, InstantsAre
      <3> QED BY <2>3, <3>1, <3>2 DEF a
    <2> QED BY <2>5, <2>6
  <1> QED BY <1>4, <1>5

-----------------------------------------------------------------------------
(* The instants of a history and the intervals between them (Cadence).     *)

(* A finite set of numbers in ascending order.                             *)
LEMMA AscendingIs ==
    ASSUME NEW S, IsFiniteSet(S), S \subseteq Int
    PROVE  /\ Ascending(S) \in Seq(S) /\ Len(Ascending(S)) = Cardinality(S) /\ Len(Ascending(S)) \in Nat
           /\ \A x \in S : \E i \in 1 .. Len(Ascending(S)) : Ascending(S)[i] = x
           /\ \A i, j \in 1 .. Len(Ascending(S)) : i < j => Ascending(S)[i] < Ascending(S)[j]
           /\ \A i \in 1 .. Len(Ascending(S)) : Ascending(S)[i] \in S
  <1> DEFINE s == Ascending(S)
  <1>1. IsLine(s, S, {p \in S \X S : p[1] < p[2]})
    BY AscendingIsLine
  <1> HIDE DEF s
  <1>2. s \in Seq(S) /\ Len(s) = Cardinality(S) /\ \A x \in S : \E i \in 1 .. Len(s) : s[i] = x
    BY <1>1 DEF IsLine
  <1>3. \A i \in 1 .. Len(s) : s[i] \in S
    BY <1>2
  <1>4. \A i, j \in 1 .. Len(s) : i < j => s[i] < s[j]
    <2> TAKE i, j \in 1 .. Len(s)
    <2> HAVE i < j
    <2>1. <<s[i], s[j]>> \in {p \in S \X S : p[1] < p[2]}
      BY <1>1 DEF IsLine
    <2> QED BY <2>1
  <1>5. Len(s) \in Nat
    BY <1>2
  <1> QED BY <1>2, <1>3, <1>4, <1>5 DEF s

(* Numbers in ascending order, equal ones each for itself.                 *)
Shorter(nums, i, j) == nums[i] < nums[j] \/ (nums[i] = nums[j] /\ i < j)
ShorterOf(nums, S) == {p \in S \X S : Shorter(nums, p[1], p[2])}

LEMMA ShorterIs ==
    ASSUME NEW nums, NEW S, NEW i \in S, NEW j \in S
    PROVE  <<i, j>> \in ShorterOf(nums, S) <=> Shorter(nums, i, j)
  BY DEF ShorterOf

(* The intervals between some instants: one for each two that follow one   *)
(* another, none missing, in ascending order.                              *)
Gaps(stamps) == [i \in 1 .. (Len(stamps) - 1) |-> stamps[i + 1] - stamps[i]]

LEMMA IntervalsAreLine ==
    ASSUME NEW stamps, Len(stamps) \in Nat, \A i \in DOMAIN Gaps(stamps) : Gaps(stamps)[i] \in Int
    PROVE  \E q : /\ IsLine(q, DOMAIN Gaps(stamps), ShorterOf(Gaps(stamps), DOMAIN Gaps(stamps)))
                  /\ IntervalsBetween(stamps) = [n \in DOMAIN q |-> Gaps(stamps)[q[n]]]
  <1> DEFINE gaps == Gaps(stamps)
             S == DOMAIN gaps
             R == ShorterOf(gaps, S)
             lt(i, j) == gaps[i] < gaps[j] \/ (gaps[i] = gaps[j] /\ i < j)
             q == [i \in 1 .. Cardinality(S) |-> CHOOSE x \in S : Cardinality({y \in S : lt(y, x)}) = i - 1]
  <1>1. IntervalsBetween(stamps) = [n \in DOMAIN q |-> gaps[q[n]]]
    BY DEF IntervalsBetween, Lined, Sorted, Gaps
  <1>2. S = 1 .. (Len(stamps) - 1) /\ \A i \in S : i \in Int
    BY DEF Gaps
  <1>3. IsFiniteSet(S)
    <2>1. 1 \in Int /\ Len(stamps) - 1 \in Int
      OBVIOUS
    <2> QED BY <1>2, <2>1, FS_Interval
  <1>4. \A i \in S : gaps[i] \in Int
    OBVIOUS
  <1> HIDE DEF gaps
  <1>5. \A x, y \in S : <<y, x>> \in R <=> lt(y, x)
    <2> HIDE DEF S
    <2> QED BY ShorterIs DEF Shorter
  <1>6. IsTotal(R, S)
    <2> SUFFICES /\ \A x \in S : ~lt(x, x)
                 /\ \A x, y, z \in S : lt(x, y) /\ lt(y, z) => lt(x, z)
                 /\ \A x, y \in S : x = y \/ lt(x, y) \/ lt(y, x)
      <3> HIDE DEF S, R, lt
      <3> QED BY <1>5 DEF IsTotal
    <2> HIDE DEF S
    <2>1. \A x \in S : ~lt(x, x)
      BY ONLY <1>2, <1>4, SMT DEF lt
    <2>2. \A x, y, z \in S : lt(x, y) /\ lt(y, z) => lt(x, z)
      BY ONLY <1>2, <1>4, SMT DEF lt
    <2>3. \A x, y \in S : x = y \/ lt(x, y) \/ lt(y, x)
      BY ONLY <1>2, <1>4, SMT DEF lt
    <2> QED BY <2>1, <2>2, <2>3
  <1> HIDE DEF S, R, lt
  <1>7. \A x \in S : {y \in S : lt(y, x)} = Below(x, S, R)
    BY <1>5 DEF Below
  <1>8. q \in [1 .. Cardinality(S) -> {q[i] : i \in 1 .. Cardinality(S)}]
    OBVIOUS
  <1>9. ASSUME NEW i \in 1 .. Cardinality(S), NEW x \in S, Cardinality(Below(x, S, R)) = i - 1
        PROVE  q[i] \in S /\ Cardinality(Below(q[i], S, R)) = i - 1
    <2>1. Cardinality({y \in S : lt(y, x)}) = i - 1
      BY <1>7, <1>9
    <2>2. q[i] = CHOOSE z \in S : Cardinality({y \in S : lt(y, z)}) = i - 1
      OBVIOUS
    <2> HIDE DEF q
    <2>3. q[i] \in S /\ Cardinality({y \in S : lt(y, q[i])}) = i - 1
      BY <2>1, <2>2
    <2> QED BY <1>7, <2>3
  <1> HIDE DEF q
  <1>10. IsLine(q, S, R)
    BY <1>3, <1>6, <1>8, <1>9, Ranking
  <1> QED BY <1>1, <1>10 DEF S, gaps, R

(* The intervals of strictly ascending instants.                           *)
Paced(intervals, stamps) ==
    /\ intervals \in Seq(Nat \ {0})
    /\ Len(intervals) = IF stamps = <<>> THEN 0 ELSE Len(stamps) - 1
    /\ \A i, j \in 1 .. Len(intervals) : i < j => intervals[i] <= intervals[j]
Ascends(stamps) ==
    stamps \in Seq(Int) /\ \A i, j \in 1 .. Len(stamps) : i < j => stamps[i] < stamps[j]

LEMMA IntervalsArePaced ==
    ASSUME NEW stamps, Ascends(stamps)
    PROVE  Paced(IntervalsBetween(stamps), stamps)
  <1> DEFINE gaps == Gaps(stamps)
             S == DOMAIN gaps
             iv == IntervalsBetween(stamps)
             m == Len(stamps) - 1
  <1>1. Len(stamps) \in Nat /\ DOMAIN stamps = 1 .. Len(stamps) /\ \A i \in 1 .. Len(stamps) : stamps[i] \in Int
    BY DEF Ascends
  <1>2. S = 1 .. m /\ m \in Int
    BY <1>1 DEF Gaps
  <1>3. \A i \in 1 .. m : gaps[i] \in Int /\ gaps[i] > 0
    <2> TAKE i \in 1 .. m
    <2>1. i \in 1 .. Len(stamps) /\ i + 1 \in 1 .. Len(stamps) /\ i < i + 1
      BY <1>1
    <2>2. stamps[i] < stamps[i + 1]
      BY <2>1 DEF Ascends
    <2>3. gaps[i] = stamps[i + 1] - stamps[i]
      BY DEF Gaps
    <2> QED BY <1>1, <2>1, <2>2, <2>3
  <1> HIDE DEF gaps
  <1>4. PICK q : IsLine(q, S, ShorterOf(gaps, S)) /\ iv = [n \in DOMAIN q |-> gaps[q[n]]]
    <2>1. \A i \in DOMAIN gaps : gaps[i] \in Int
      BY <1>2, <1>3
    <2> HIDE DEF iv
    <2> QED BY <1>1, <2>1, IntervalsAreLine DEF gaps, iv
  <1> HIDE DEF S, iv, m
  <1>5. q \in Seq(S) /\ Len(q) = Cardinality(S) /\ \A i, j \in 1 .. Len(q) : i < j => <<q[i], q[j]>> \in ShorterOf(gaps, S)
    BY <1>4 DEF IsLine
  <1>6. Len(q) \in Nat /\ DOMAIN q = 1 .. Len(q) /\ \A i \in 1 .. Len(q) : q[i] \in S
    BY <1>5
  <1>7. \A i \in 1 .. Len(q) : gaps[q[i]] \in Nat \ {0}
    BY <1>2, <1>3, <1>6
  <1>8. iv \in Seq(Nat \ {0}) /\ Len(iv) = Len(q) /\ \A i \in 1 .. Len(q) : iv[i] = gaps[q[i]]
    <2>1. iv \in [1 .. Len(q) -> Nat \ {0}]
      BY <1>4, <1>6, <1>7
    <2> QED BY <1>4, <1>6, <2>1
  <1>9. Len(q) = IF stamps = <<>> THEN 0 ELSE Len(stamps) - 1
    <2>1. 1 \in Int /\ m \in Int
      BY <1>2
    <2>2. Cardinality(S) = IF 1 > m THEN 0 ELSE m - 1 + 1
      BY <1>2, <2>1, FS_Interval
    <2>3. stamps = <<>> <=> Len(stamps) = 0
      BY DEF Ascends
    <2>4. CASE stamps = <<>>
      <3>1. 1 > m
        BY <1>1, <2>3, <2>4 DEF m
      <3> QED BY <1>5, <2>2, <2>4, <3>1
    <2>5. CASE stamps # <<>>
      <3>1. m >= 0 /\ m \in Int
        BY <1>1, <2>3, <2>5 DEF m
      <3>2. Len(q) = m
        BY <1>5, <2>2, <3>1
      <3> QED BY <2>5, <3>2 DEF m
    <2> QED BY <2>4, <2>5
  <1>10. ASSUME NEW i \in 1 .. Len(q), NEW j \in 1 .. Len(q), i < j PROVE iv[i] <= iv[j]
    <2>1. Shorter(gaps, q[i], q[j])
      BY <1>5, <1>6, <1>10, ShorterIs
    <2>2. gaps[q[i]] \in Int /\ gaps[q[j]] \in Int
      BY <1>7
    <2> QED BY <1>8, <2>1, <2>2 DEF Shorter
  <1> QED BY <1>8, <1>9, <1>10 DEF Paced, iv

-----------------------------------------------------------------------------
(* The instants of a history.                                              *)
Stamps(points) == {points[i].at : i \in Recent(points)}

LEMMA StampsAre ==
    ASSUME NEW points \in Seq(Point)
    PROVE  /\ {p.at : p \in ToSet(UpToEnd(points))} = Stamps(points)
           /\ IsFiniteSet(Stamps(points)) /\ Stamps(points) \subseteq Int
           /\ \A t \in Stamps(points) : t <= To
  <1>1. PICK q : Lists(UpToEnd(points), q, points)
    BY UpToEndIs
  <1> DEFINE u == UpToEnd(points)
  <1>2. /\ u \in Seq(Point) /\ Len(u) = Len(q) /\ DOMAIN u = 1 .. Len(q)
        /\ \A k \in 1 .. Len(q) : u[k] = points[q[k]] /\ q[k] \in Recent(points)
        /\ \A i \in Recent(points) : \E k \in 1 .. Len(q) : q[k] = i
    BY <1>1 DEF Lists
  <1> HIDE DEF u
  <1>3. ToSet(u) = {u[k] : k \in 1 .. Len(q)}
    BY <1>2 DEF ToSet
  <1>4. {p.at : p \in ToSet(u)} = Stamps(points)
    <2>1. ASSUME NEW k \in 1 .. Len(q) PROVE u[k].at \in Stamps(points)
      BY <1>2 DEF Stamps
    <2>2. ASSUME NEW i \in Recent(points) PROVE \E k \in 1 .. Len(q) : u[k].at = points[i].at
      BY <1>2
    <2> QED BY <1>3, <2>1, <2>2 DEF Stamps
  <1>5. IsFiniteSet(Stamps(points))
    <2>1. 1 \in Int /\ Len(points) \in Int /\ DOMAIN points = 1 .. Len(points)
      OBVIOUS
    <2>2. IsFiniteSet(DOMAIN points)
      BY <2>1, FS_Interval
    <2>3. IsFiniteSet(Recent(points))
      BY <2>2, FS_Subset DEF Recent
    <2> DEFINE f == [i \in Recent(points) |-> points[i].at]
    <2>4. {f[i] : i \in Recent(points)} = Stamps(points)
      BY DEF Stamps
    <2> HIDE DEF f
    <2>5. IsFiniteSet({f[i] : i \in Recent(points)})
      BY <2>3, ImageIsFinite
    <2> QED BY <2>4, <2>5
  <1>6. Stamps(points) \subseteq Int /\ \A t \in Stamps(points) : t <= To
    BY PointsAre DEF Stamps, Recent
  <1> QED BY <1>4, <1>5, <1>6 DEF u

(* They are the last of a finite set of numbers and those before it in the *)
(* window, in their order.                                                 *)
LEMMA GreatestOf ==
    ASSUME NEW S, IsFiniteSet(S), S \subseteq Int, S # {}
    PROVE  \E m \in S : \A x \in S : x <= m
  <1> DEFINE s == Ascending(S)
  <1>1. /\ \A x \in S : \E i \in 1 .. Len(s) : s[i] = x
        /\ \A i, j \in 1 .. Len(s) : i < j => s[i] < s[j]
        /\ \A i \in 1 .. Len(s) : s[i] \in S
        /\ Len(s) \in Nat
    BY AscendingIs
  <1> HIDE DEF s
  <1>2. Len(s) \in 1 .. Len(s)
    <2>1. PICK x \in S : TRUE
      OBVIOUS
    <2>2. PICK i \in 1 .. Len(s) : s[i] = x
      BY <1>1, <2>1
    <2> QED BY <1>1, <2>2
  <1>3. ASSUME NEW x \in S PROVE x <= s[Len(s)]
    <2>1. PICK i \in 1 .. Len(s) : s[i] = x
      BY <1>1
    <2>2. i = Len(s) \/ i < Len(s)
      BY <1>1
    <2>3. x \in Int /\ s[Len(s)] \in Int
      BY <1>1, <1>2
    <2> QED BY <1>1, <1>2, <2>1, <2>2, <2>3
  <1> QED BY <1>1, <1>2, <1>3

Timed(stamps, points) ==
    /\ Ascends(stamps)
    /\ \A i \in 1 .. Len(stamps) : stamps[i] <= To /\ (i > 1 => stamps[i] > From)
    /\ stamps = <<>> => \A t \in Stamps(points) : FALSE
    /\ stamps # <<>> => \A t \in Stamps(points) : t <= stamps[Len(stamps)]

LEMMA InstantsAreTimed ==
    ASSUME NEW points \in Seq(Point)
    PROVE  Timed(Instants(points), points)
  <1> DEFINE S == Stamps(points)
             C == FromCarried(S)
             s == Ascending(C)
  <1>1. Instants(points) = s
    BY StampsAre DEF Instants
  <1>2. IsFiniteSet(S) /\ S \subseteq Int /\ \A t \in S : t <= To
    BY StampsAre
  <1>3. C \subseteq S /\ \A t \in S : t \in C <=> t > From \/ \A u \in S : u <= t \/ u > From
    BY DEF FromCarried
  <1>4. IsFiniteSet(C) /\ C \subseteq Int
    BY <1>2, <1>3, FS_Subset
  <1> HIDE DEF C, S
  <1>5. /\ s \in Seq(C) /\ Len(s) \in Nat
        /\ \A x \in C : \E i \in 1 .. Len(s) : s[i] = x
        /\ \A i, j \in 1 .. Len(s) : i < j => s[i] < s[j]
        /\ \A i \in 1 .. Len(s) : s[i] \in C
    BY <1>4, AscendingIs
  <1> HIDE DEF s
  <1>6. s \in Seq(Int)
    <2>1. \A i \in 1 .. Len(s) : s[i] \in Int
      BY <1>4, <1>5
    <2>2. DOMAIN s = 1 .. Len(s) /\ s = [i \in 1 .. Len(s) |-> s[i]]
      BY <1>5
    <2>3. s \in [1 .. Len(s) -> Int]
      BY <2>1, <2>2
    <2> QED BY <1>5, <2>3
  <1>7. ASSUME NEW i \in 1 .. Len(s) PROVE s[i] <= To /\ (i > 1 => s[i] > From)
    <2>1. s[i] \in S /\ s[i] \in C
      BY <1>3, <1>5
    <2>2. ASSUME i > 1 PROVE s[i] > From
      <3>1. 1 \in 1 .. Len(s) /\ s[1] < s[i]
        BY <1>5, <2>2
      <3>2. s[1] \in S /\ s[1] \in C /\ s[1] \in Int /\ s[i] \in Int /\ From \in Int
        BY <1>2, <1>3, <1>5, <3>1, InstantsAre
      <3>3. s[1] > From \/ s[i] <= s[1] \/ s[i] > From
        BY <1>3, <2>1, <3>2
      <3> QED BY <3>1, <3>2, <3>3
    <2> QED BY <1>2, <2>1, <2>2
  <1>8. ASSUME NEW t \in S PROVE s # <<>> /\ t <= s[Len(s)]
    <2>1. PICK m \in S : \A x \in S : x <= m
      BY <1>2, GreatestOf
    <2>2. m \in C
      BY <1>3, <2>1
    <2>3. PICK i \in 1 .. Len(s) : s[i] = m
      BY <1>5, <2>2
    <2>4. Len(s) \in 1 .. Len(s) /\ (i = Len(s) \/ i < Len(s)) /\ s # <<>>
      BY <1>5
    <2>5. m <= s[Len(s)]
      <3>1. m \in Int /\ s[Len(s)] \in Int
        BY <1>2, <1>4, <1>5, <2>1, <2>4
      <3>2. CASE i = Len(s)
        BY <2>3, <3>1, <3>2
      <3>3. CASE i < Len(s)
        <4>1. s[i] < s[Len(s)]
          BY <1>5, <2>4, <3>3
        <4> QED BY <2>3, <3>1, <4>1
      <3> QED BY <2>4, <3>2, <3>3
    <2>6. t \in Int /\ m \in Int /\ s[Len(s)] \in Int /\ t <= m
      BY <1>2, <1>4, <1>5, <2>1, <2>4
    <2> QED BY <2>4, <2>5, <2>6
  <1>9. Ascends(s)
    BY <1>5, <1>6 DEF Ascends
  <1> QED BY <1>1, <1>7, <1>8, <1>9 DEF Timed, S

-----------------------------------------------------------------------------
(* What a cadence is: ranks in an ordered sequence of intervals.           *)

LEMMA MinOfTwo ==
    ASSUME NEW a \in Int, NEW b \in Int
    PROVE  Min({a, b}) = IF a <= b THEN a ELSE b
  <1>1. \E x \in {a, b} : \A y \in {a, b} : x <= y
    <2>1. CASE a <= b
      BY <2>1
    <2>2. CASE ~(a <= b)
      BY <2>2
    <2> QED BY <2>1, <2>2
  <1>2. Min({a, b}) \in {a, b} /\ \A y \in {a, b} : Min({a, b}) <= y
    BY <1>1 DEF Min
  <1> QED BY <1>2

(* Counting some of the first n numbers.                                   *)
LEMMA CountIs ==
    ASSUME NEW n \in Nat, NEW r \in 0 .. n, NEW T \in SUBSET (1 .. n)
    PROVE  /\ Cardinality(T) \in Nat
           /\ 1 .. r \subseteq T => Cardinality(T) >= r
           /\ T \subseteq 1 .. r => Cardinality(T) <= r
  <1>1. IsFiniteSet(1 .. n) /\ IsFiniteSet(1 .. r) /\ Cardinality(1 .. r) = r
    <2>1. 1 \in Int /\ n \in Int /\ r \in Int /\ r >= 0
      OBVIOUS
    <2>2. Cardinality(1 .. r) = IF 1 > r THEN 0 ELSE r - 1 + 1
      BY <2>1, FS_Interval
    <2>3. Cardinality(1 .. r) = r
      <3>1. CASE r = 0
        BY <2>2, <3>1
      <3>2. CASE r # 0
        BY <2>1, <2>2, <3>2
      <3> QED BY <3>1, <3>2
    <2> QED BY <2>1, <2>3, FS_Interval
  <1>2. IsFiniteSet(T) /\ Cardinality(T) \in Nat
    BY <1>1, FS_Subset, FS_CardinalityType
  <1>3. ASSUME 1 .. r \subseteq T PROVE Cardinality(T) >= r
    <2> DEFINE S == 1 .. r
    <2>1. IsFiniteSet(S) /\ Cardinality(S) = r /\ S \subseteq T
      BY <1>1, <1>3
    <2> HIDE DEF S
    <2>2. Cardinality(S) <= Cardinality(T)
      BY <1>2, <2>1, FS_Subset
    <2> QED BY <1>2, <2>1, <2>2
  <1>4. ASSUME T \subseteq 1 .. r PROVE Cardinality(T) <= r
    <2> DEFINE S == 1 .. r
    <2>1. IsFiniteSet(S) /\ Cardinality(S) = r /\ T \subseteq S
      BY <1>1, <1>4
    <2> HIDE DEF S
    <2>2. Cardinality(T) <= Cardinality(S)
      BY <2>1, FS_Subset
    <2> QED BY <2>1, <2>2
  <1> QED BY <1>2, <1>3, <1>4

(* The interval of a rank.                                                 *)
Ranks(r, n, p) == 100 * r >= p * n /\ 100 * (r - 1) < p * n

LEMMA RankIs ==
    ASSUME NEW iv, NEW n, n = Len(iv), n \in Nat \ {0}, NEW p \in {50, 95}
    PROVE  \E r \in 1 .. n : NearestRank(iv, p) = iv[r] /\ Ranks(r, n, p)
  <1> DEFINE r == (p * n + 99) \div 100
  <1>1. r \in 1 .. n /\ Ranks(r, n, p)
    <2>1. CASE p = 50
      BY <2>1 DEF Ranks
    <2>2. CASE p = 95
      BY <2>2 DEF Ranks
    <2> QED BY <2>1, <2>2
  <1>2. NearestRank(iv, p) = iv[Min({Max({r, 1}), n})]
    BY DEF NearestRank
  <1> HIDE DEF r
  <1>3. Max({r, 1}) = r
    BY <1>1, MaxOfTwo
  <1>4. Min({r, n}) = r
    BY <1>1, MinOfTwo
  <1> QED BY <1>1, <1>2, <1>3, <1>4

LEMMA PacedIs ==
    ASSUME NEW iv, NEW stamps, Paced(iv, stamps)
    PROVE  /\ Len(iv) \in Nat /\ (iv = <<>> <=> Len(iv) = 0) /\ DOMAIN iv = 1 .. Len(iv)
           /\ Len(iv) = (IF stamps = <<>> THEN 0 ELSE Len(stamps) - 1)
           /\ \A i \in 1 .. Len(iv) : iv[i] \in Nat
  <1> DEFINE V == Nat \ {0}
  <1>1. iv \in Seq(V)
    BY DEF Paced
  <1>4. Len(iv) = (IF stamps = <<>> THEN 0 ELSE Len(stamps) - 1)
    BY DEF Paced
  <1>2. \A v \in V : v \in Nat
    OBVIOUS
  <1> HIDE DEF V
  <1>3. Len(iv) \in Nat /\ (iv = <<>> <=> Len(iv) = 0) /\ DOMAIN iv = 1 .. Len(iv) /\ \A i \in 1 .. Len(iv) : iv[i] \in V
    BY ONLY <1>1
  <1> QED BY <1>2, <1>3, <1>4

(* How many of some ascending intervals are up to one of them, or below    *)
(* it.                                                                     *)
UpTo(iv, v) == {i \in DOMAIN iv : iv[i] <= v}
Under(iv, v) == {i \in DOMAIN iv : iv[i] < v}

LEMMA RanksCount ==
    ASSUME NEW iv, NEW stamps, Paced(iv, stamps), NEW r \in 1 .. Len(iv)
    PROVE  /\ Cardinality(UpTo(iv, iv[r])) \in Nat /\ Cardinality(UpTo(iv, iv[r])) >= r
           /\ Cardinality(Under(iv, iv[r])) \in Nat /\ Cardinality(Under(iv, iv[r])) <= r - 1
           /\ \A j \in DOMAIN iv : iv[j] > iv[r] => Cardinality(Under(iv, iv[j])) >= r
           /\ \A j \in DOMAIN iv : Cardinality(Under(iv, iv[j])) \in Nat
  <1> DEFINE n == Len(iv)
             upTo == UpTo(iv, iv[r])
             below(v) == Under(iv, v)
  <1>1. /\ n \in Nat /\ DOMAIN iv = 1 .. n /\ r \in Nat /\ r \in 0 .. n /\ r - 1 \in 0 .. n
        /\ \A i \in 1 .. n : iv[i] \in Int
        /\ \A i, j \in 1 .. n : i < j => iv[i] <= iv[j]
    BY DEF Paced
  <1>2. 1 .. r \subseteq upTo /\ upTo \in SUBSET (1 .. n)
    <2>1. ASSUME NEW i \in 1 .. r PROVE i \in upTo
      <3>1. i \in 1 .. n /\ (i = r \/ i < r)
        BY <1>1
      <3> QED BY <1>1, <3>1 DEF UpTo
    <2> QED BY <1>1, <2>1 DEF UpTo
  <1>3. below(iv[r]) \subseteq 1 .. (r - 1) /\ below(iv[r]) \in SUBSET (1 .. n)
    <2>1. ASSUME NEW i \in below(iv[r]) PROVE i \in 1 .. (r - 1)
      <3>1. i \in 1 .. n /\ iv[i] < iv[r]
        BY <1>1 DEF Under
      <3>2. ~(r <= i)
        <4>1. r < i => iv[r] <= iv[i]
          BY <1>1, <3>1
        <4> QED BY <1>1, <3>1, <4>1
      <3> QED BY <1>1, <3>1, <3>2
    <2> QED BY <1>1, <2>1 DEF Under
  <1>4. ASSUME NEW j \in DOMAIN iv
        PROVE  below(iv[j]) \in SUBSET (1 .. n) /\ (iv[j] > iv[r] => 1 .. r \subseteq below(iv[j]))
    <2>1. ASSUME iv[j] > iv[r], NEW i \in 1 .. r PROVE i \in below(iv[j])
      <3>1. i \in 1 .. n /\ iv[i] <= iv[r]
        <4>1. i \in 1 .. n /\ (i = r \/ i < r)
          BY <1>1
        <4> QED BY <1>1, <4>1
      <3> QED BY <1>1, <2>1, <3>1 DEF Under
    <2> QED BY <1>1, <2>1 DEF Under
  <1> HIDE DEF upTo, below, n
  <1>5. Cardinality(upTo) \in Nat /\ Cardinality(upTo) >= r
    BY <1>1, <1>2, CountIs
  <1>6. Cardinality(below(iv[r])) \in Nat /\ Cardinality(below(iv[r])) <= r - 1
    BY <1>1, <1>3, CountIs
  <1>7. ASSUME NEW j \in DOMAIN iv
        PROVE  Cardinality(below(iv[j])) \in Nat /\ (iv[j] > iv[r] => Cardinality(below(iv[j])) >= r)
    BY <1>1, <1>4, CountIs
  <1> QED BY <1>5, <1>6, <1>7 DEF upTo, below

LEMMA Multiplied ==
    ASSUME NEW k \in Nat, NEW a \in Int, NEW b \in Int, a <= b
    PROVE  k * a <= k * b /\ k * a \in Int /\ k * b \in Int /\ (0 <= a => 0 <= k * a)
  OBVIOUS

(* The cadence of a history, from its instants and what lies between them. *)
LEMMA CadenceIs ==
    ASSUME NEW points \in Seq(Point)
    PROVE  LET c == Cadence(points)
               stamps == Instants(points)
               iv == IntervalsBetween(stamps)
           IN  /\ Timed(stamps, points) /\ Paced(iv, stamps)
               /\ c.intervals = Len(iv) /\ c.intervals \in Nat /\ c.threshold \in Nat
               /\ c.threshold = IF iv = <<>> THEN 0 ELSE StaleFactor * NearestRank(iv, 95)
               /\ c.lastUpdate = IF stamps = <<>> THEN From ELSE stamps[Len(stamps)]
               /\ c.lastUpdate \in Int
               /\ c.stale => iv # <<>> /\ stamps # <<>> /\ From < c.lastUpdate /\ c.lastUpdate <= To
                             /\ To - c.lastUpdate > c.threshold
  <1> DEFINE stamps == Instants(points)
             iv == IntervalsBetween(stamps)
             c == Cadence(points)
  <1>1. Timed(stamps, points)
    BY InstantsAreTimed
  <1>2. Paced(iv, stamps)
    <2> HIDE DEF stamps
    <2> QED BY <1>1, IntervalsArePaced DEF Timed
  <1>3. c = Pace(stamps, iv, Availability(points).changes)
    BY DEF Cadence, PaceOf
  <1> HIDE DEF stamps, iv, c
  <1>4. /\ c.intervals = Len(iv)
        /\ c.threshold = IF iv # <<>> THEN StaleFactor * NearestRank(iv, 95) ELSE 0
        /\ c.stale = (iv # <<>> /\ (IF stamps = <<>> THEN 0 ELSE To - Last(stamps)) > c.threshold)
        /\ c.lastUpdate = IF stamps = <<>> THEN From ELSE Last(stamps)
    BY <1>3 DEF Pace
  <1>5. /\ Len(iv) \in Nat /\ (iv = <<>> <=> Len(iv) = 0)
        /\ Len(iv) = (IF stamps = <<>> THEN 0 ELSE Len(stamps) - 1)
        /\ \A i \in 1 .. Len(iv) : iv[i] \in Nat
    BY <1>2, PacedIs
  <1>6. /\ Len(stamps) \in Nat /\ (stamps = <<>> <=> Len(stamps) = 0)
        /\ \A i \in 1 .. Len(stamps) : stamps[i] \in Int /\ stamps[i] <= To /\ (i > 1 => stamps[i] > From)
    BY <1>1 DEF Timed, Ascends
  <1>7. c.threshold \in Nat
    <2>1. CASE iv # <<>>
      <3>1. Len(iv) \in Nat \ {0}
        BY <1>5, <2>1
      <3>2. PICK r \in 1 .. Len(iv) : NearestRank(iv, 95) = iv[r]
        <4> DEFINE n == Len(iv)
        <4>1. n = Len(iv) /\ n \in Nat \ {0} /\ 95 \in {50, 95}
          BY <3>1
        <4> HIDE DEF n
        <4>2. \E r \in 1 .. n : NearestRank(iv, 95) = iv[r] /\ Ranks(r, n, 95)
          BY ONLY <4>1, RankIs, ZenonT(30)
        <4> QED BY <4>1, <4>2
      <3>3. StaleFactor \in Nat /\ iv[r] \in Nat
        BY <1>5, StaleFactorAssumption
      <3> DEFINE v == iv[r]
      <3>4. c.threshold = StaleFactor * v
        BY <1>4, <2>1, <3>2
      <3> HIDE DEF v
      <3>5. v \in Nat
        BY <3>3 DEF v
      <3> QED BY <3>3, <3>4, <3>5
    <2>2. CASE iv = <<>>
      BY <1>4, <2>2
    <2> QED BY <2>1, <2>2
  <1>8. c.lastUpdate = IF stamps = <<>> THEN From ELSE stamps[Len(stamps)]
    BY <1>4 DEF Last
  <1>9. c.lastUpdate \in Int
    <2>1. CASE stamps # <<>>
      <3>1. Len(stamps) \in 1 .. Len(stamps)
        BY <1>6, <2>1
      <3> QED BY <1>6, <1>8, <2>1, <3>1
    <2>2. CASE stamps = <<>>
      BY <1>8, <2>2, InstantsAre
    <2> QED BY <2>1, <2>2
  <1>10. ASSUME c.stale
         PROVE  /\ iv # <<>> /\ stamps # <<>> /\ From < c.lastUpdate /\ c.lastUpdate <= To
                /\ To - c.lastUpdate > c.threshold
    <2>1. iv # <<>> /\ (IF stamps = <<>> THEN 0 ELSE To - Last(stamps)) > c.threshold
      BY <1>4, <1>10, Zenon
    <2>2. stamps # <<>>
      BY <1>5, <2>1
    <2>3. Len(stamps) > 1 /\ Len(stamps) \in 1 .. Len(stamps)
      BY <1>5, <1>6, <2>1, <2>2
    <2>4. From < c.lastUpdate /\ c.lastUpdate <= To
      BY <1>6, <1>8, <2>2, <2>3, InstantsAre
    <2>5. To - c.lastUpdate > c.threshold
      BY <1>8, <2>1, <2>2 DEF Last
    <2> QED BY <2>1, <2>2, <2>4, <2>5
  <1> HIDE DEF c
  <1> QED BY <1>1, <1>2, <1>4, <1>5, <1>7, <1>8, <1>9, <1>10 DEF c, iv, stamps

(* The cadence of any points, in any order, is one the entity showed       *)
(* (ComputeCadence): its percentiles are among its intervals and of the    *)
(* rank asked for, and what it calls stale has been silent for the whole   *)
(* stale span.                                                             *)
THEOREM CadenceIsShown ==
    ASSUME NEW points \in Seq(Point)
    PROVE  CadenceShown(points)
  <1> DEFINE stamps == Instants(points)
             iv == IntervalsBetween(stamps)
             c == Cadence(points)
             upTo(v) == Cardinality(UpTo(iv, v))
             below(v) == Cardinality(Under(iv, v))
  <1>1. /\ Timed(stamps, points) /\ Paced(iv, stamps)
        /\ c.intervals = Len(iv) /\ c.threshold \in Nat
        /\ c.threshold = IF iv = <<>> THEN 0 ELSE StaleFactor * NearestRank(iv, 95)
        /\ c.lastUpdate = IF stamps = <<>> THEN From ELSE stamps[Len(stamps)]
        /\ c.lastUpdate \in Int
        /\ c.stale => iv # <<>> /\ stamps # <<>> /\ From < c.lastUpdate /\ c.lastUpdate <= To
                      /\ To - c.lastUpdate > c.threshold
    BY CadenceIs
  <1> HIDE DEF stamps, iv, c, upTo, below
  <1>2. /\ Len(iv) \in Nat /\ (iv = <<>> <=> Len(iv) = 0) /\ DOMAIN iv = 1 .. Len(iv)
        /\ \A i \in 1 .. Len(iv) : iv[i] \in Nat
    BY <1>1, PacedIs
  <1>3. ASSUME iv # <<>>, NEW p \in {50, 95}
        PROVE  \E r \in 1 .. Len(iv) :
                /\ NearestRank(iv, p) = iv[r]
                /\ 100 * upTo(iv[r]) >= p * c.intervals /\ 100 * below(iv[r]) < p * c.intervals
                /\ \A i \in DOMAIN iv : 100 * below(iv[i]) < p * c.intervals => iv[i] <= iv[r]
    <2>1. Len(iv) \in Nat \ {0}
      BY <1>2, <1>3
    <2>2. PICK r \in 1 .. Len(iv) : NearestRank(iv, p) = iv[r] /\ Ranks(r, Len(iv), p)
      <3> DEFINE n == Len(iv)
      <3>1. n = Len(iv) /\ n \in Nat \ {0} /\ p \in {50, 95}
        BY <2>1
      <3> HIDE DEF n
      <3>2. \E r \in 1 .. n : NearestRank(iv, p) = iv[r] /\ Ranks(r, n, p)
        <4>1. 50 \in {50, 95} /\ 95 \in {50, 95}
          OBVIOUS
        <4>2. CASE p = 50
          BY ONLY <3>1, <4>1, <4>2, RankIs, ZenonT(30)
        <4>3. CASE p = 95
          BY ONLY <3>1, <4>1, <4>3, RankIs, ZenonT(30)
        <4> QED BY <3>1, <4>2, <4>3
      <3> QED BY <3>1, <3>2
    <2>3. /\ upTo(iv[r]) \in Nat /\ upTo(iv[r]) >= r
          /\ below(iv[r]) \in Nat /\ below(iv[r]) <= r - 1
          /\ \A j \in DOMAIN iv : below(iv[j]) \in Nat /\ (iv[j] > iv[r] => below(iv[j]) >= r)
      <3> USE DEF upTo, below
      <3>1. upTo(iv[r]) \in Nat /\ upTo(iv[r]) >= r
        BY <1>1, RanksCount
      <3>2. below(iv[r]) \in Nat /\ below(iv[r]) <= r - 1
        BY <1>1, RanksCount
      <3>3. \A j \in DOMAIN iv : iv[j] > iv[r] => below(iv[j]) >= r
        BY <1>1, RanksCount
      <3>4. \A j \in DOMAIN iv : below(iv[j]) \in Nat
        BY <1>1, RanksCount
      <3> QED BY <3>1, <3>2, <3>3, <3>4
    <2> DEFINE bound == p * Len(iv)
    <2>4. bound \in Int /\ r \in Int /\ 100 * r >= bound /\ 100 * (r - 1) < bound
      BY <2>1, <2>2 DEF Ranks
    <2> HIDE DEF bound
    <2>5. 100 * upTo(iv[r]) >= bound /\ 100 * below(iv[r]) < bound
      BY <2>3, <2>4
    <2>6. ASSUME NEW i \in DOMAIN iv, 100 * below(iv[i]) < bound PROVE iv[i] <= iv[r]
      <3>1. below(iv[i]) \in Nat /\ (iv[i] > iv[r] => below(iv[i]) >= r)
        BY <2>3
      <3>2. ~(below(iv[i]) >= r)
        BY <2>4, <2>6, <3>1
      <3>3. iv[i] \in Int /\ iv[r] \in Int
        BY <1>2
      <3> QED BY <3>1, <3>2, <3>3
    <2> QED BY <1>1, <2>2, <2>5, <2>6 DEF bound
  <1>4. ASSUME c.stale
        PROVE  /\ StaleSpan(c).from \in From .. (To - 1)
               /\ \A i \in DOMAIN points : points[i].at \notin c.lastUpdate + 1 .. To
               /\ \A i \in DOMAIN iv :
                    100 * below(iv[i]) < 95 * c.intervals => StaleSpan(c).from - c.lastUpdate >= StaleFactor * iv[i]
    <2>1. iv # <<>> /\ stamps # <<>> /\ From < c.lastUpdate /\ c.lastUpdate <= To /\ To - c.lastUpdate > c.threshold
      BY <1>1, <1>4
    <2>2. StaleSpan(c).from = c.lastUpdate + c.threshold
      BY DEF StaleSpan
    <2>3. StaleSpan(c).from \in From .. (To - 1)
      BY <1>1, <2>1, <2>2, InstantsAre
    <2>4. ASSUME NEW i \in DOMAIN points PROVE points[i].at \notin c.lastUpdate + 1 .. To
      <3> SUFFICES ASSUME points[i].at \in c.lastUpdate + 1 .. To PROVE FALSE
        OBVIOUS
      <3>1. points[i].at \in Int /\ points[i].at <= To /\ points[i].at > c.lastUpdate
        BY <1>1, PointsAre, InstantsAre
      <3>2. points[i].at \in Stamps(points)
        BY <3>1 DEF Stamps, Recent
      <3>3. points[i].at <= stamps[Len(stamps)]
        BY <1>1, <2>1, <3>2 DEF Timed
      <3> QED BY <1>1, <2>1, <3>1, <3>3
    <2>5. ASSUME NEW i \in DOMAIN iv, 100 * below(iv[i]) < 95 * c.intervals
          PROVE  StaleSpan(c).from - c.lastUpdate >= StaleFactor * iv[i]
      <3>1. PICK r \in 1 .. Len(iv) : /\ NearestRank(iv, 95) = iv[r]
                                      /\ \A j \in DOMAIN iv : 100 * below(iv[j]) < 95 * c.intervals => iv[j] <= iv[r]
        BY <1>3, <2>1
      <3>2. iv[i] <= iv[r] /\ iv[i] \in Int /\ iv[r] \in Int /\ StaleFactor \in Nat
        BY <1>2, <2>5, <3>1, StaleFactorAssumption
      <3>3. c.threshold = StaleFactor * iv[r]
        BY <1>1, <2>1, <3>1
      <3>4. StaleFactor * iv[i] <= StaleFactor * iv[r] /\ StaleFactor * iv[i] \in Int
        BY <3>2, Multiplied
      <3>5. StaleSpan(c).from - c.lastUpdate = c.threshold
        BY <1>1, <2>2
      <3> QED BY <1>1, <3>3, <3>4, <3>5
    <2> QED BY <2>3, <2>4, <2>5
  <1>5. Shows(points, c, iv)
    <2>1. iv # <<>> => \A percent \in {50, 95} :
            \E v \in {NearestRank(iv, percent)} :
                100 * upTo(v) >= percent * c.intervals /\ 100 * below(v) < percent * c.intervals
      BY <1>3
    <2> QED BY <1>4, <2>1 DEF Shows, upTo, below, UpTo, Under
  <1> QED BY <1>5 DEF CadenceShown, c, iv, stamps

-----------------------------------------------------------------------------
(* How long a history was down: the seconds its outages cover.             *)

LEMMA IntervalHas ==
    ASSUME NEW a \in Int, NEW b \in Int, a <= b
    PROVE  IsFiniteSet(a .. (b - 1)) /\ Cardinality(a .. (b - 1)) = b - a
  <1>1. b - 1 \in Int
    OBVIOUS
  <1>2. Cardinality(a .. (b - 1)) = IF a > b - 1 THEN 0 ELSE (b - 1) - a + 1
    BY <1>1, FS_Interval
  <1>3. IsFiniteSet(a .. (b - 1))
    BY <1>1, FS_Interval
  <1>4. CASE a > b - 1
    BY <1>2, <1>3, <1>4
  <1>5. CASE ~(a > b - 1)
    BY <1>2, <1>3, <1>5
  <1> QED BY <1>4, <1>5

(* Stretches of time, each from lo to before hi, none reaching into        *)
(* another, and what they fill.                                            *)
Stretches(lo, hi, S) ==
    /\ IsFiniteSet(S) /\ \A i \in S : lo[i] \in Int /\ hi[i] \in Int /\ lo[i] <= hi[i]
    /\ \A i, j \in S : i # j => hi[i] <= lo[j] \/ hi[j] <= lo[i]
Stretch(lo, hi, i) == lo[i] .. (hi[i] - 1)
Fill(lo, hi, s) == UNION {Stretch(lo, hi, i) : i \in s}

(* Their lengths, added up in any order.                                   *)
IsSum(h, lo, hi, S) ==
    h = [s \in SUBSET S |->
            IF s = {} THEN 0 ELSE (hi[CHOOSE x \in s : TRUE] - lo[CHOOSE x \in s : TRUE])
                                    + h[s \ {CHOOSE x \in s : TRUE}]]

LEMMA FillGrows ==
    ASSUME NEW lo, NEW hi, NEW S, Stretches(lo, hi, S), NEW s \in SUBSET S, NEW i \in s, IsFiniteSet(Fill(lo, hi, s \ {i}))
    PROVE  /\ IsFiniteSet(Fill(lo, hi, s))
           /\ Cardinality(Fill(lo, hi, s)) = (hi[i] - lo[i]) + Cardinality(Fill(lo, hi, s \ {i}))
  <1> DEFINE A == Stretch(lo, hi, i)
             B == Fill(lo, hi, s \ {i})
  <1>1. Fill(lo, hi, s) = A \cup B
    BY DEF Fill
  <1>2. IsFiniteSet(A) /\ Cardinality(A) = hi[i] - lo[i]
    <2>1. lo[i] \in Int /\ hi[i] \in Int /\ lo[i] <= hi[i]
      BY DEF Stretches
    <2> QED BY <2>1, IntervalHas DEF Stretch
  <1>3. A \cap B = {}
    <2> SUFFICES ASSUME NEW t \in A, t \in B PROVE FALSE
      OBVIOUS
    <2>1. PICK j \in s \ {i} : t \in Stretch(lo, hi, j)
      BY DEF Fill
    <2>2. /\ i \in S /\ j \in S /\ i # j
          /\ lo[i] \in Int /\ hi[i] \in Int /\ lo[j] \in Int /\ hi[j] \in Int
          /\ hi[i] <= lo[j] \/ hi[j] <= lo[i]
      BY <2>1 DEF Stretches
    <2>3. t \in Int /\ lo[i] <= t /\ t < hi[i] /\ lo[j] <= t /\ t < hi[j]
      BY <2>1, <2>2 DEF Stretch
    <2> QED BY <2>2, <2>3
  <1> HIDE DEF A, B
  <1>4. IsFiniteSet(A \cup B) /\ Cardinality(A \cup B) = Cardinality(A) + Cardinality(B) - Cardinality(A \cap B)
    BY <1>2, FS_Union DEF B
  <1>5. Cardinality(A \cap B) = 0 /\ Cardinality(A) \in Int /\ Cardinality(B) \in Int
    <2>1. IsFiniteSet(B)
      BY DEF B
    <2>2. Cardinality(A) \in Nat /\ Cardinality(B) \in Nat
      BY <1>2, <2>1, FS_CardinalityType
    <2>3. Cardinality(A \cap B) = 0
      BY <1>3, FS_EmptySet
    <2> QED BY <2>2, <2>3
  <1>6. Cardinality(A \cup B) = Cardinality(A) + Cardinality(B)
    BY <1>4, <1>5
  <1> QED BY <1>1, <1>2, <1>4, <1>6 DEF B

LEMMA FillsAreFinite ==
    ASSUME NEW lo, NEW hi, NEW S, Stretches(lo, hi, S), NEW s \in SUBSET S
    PROVE  IsFiniteSet(Fill(lo, hi, s)) /\ Cardinality(Fill(lo, hi, s)) \in Nat
  <1> DEFINE f == [i \in s |-> Stretch(lo, hi, i)]
  <1>1. IsFiniteSet(s)
    BY FS_Subset DEF Stretches
  <1>2. \A T \in {f[i] : i \in s} : IsFiniteSet(T)
    <2>1. \A i \in s : lo[i] \in Int /\ hi[i] \in Int /\ lo[i] <= hi[i]
      BY DEF Stretches
    <2>2. \A i \in s : IsFiniteSet(Stretch(lo, hi, i))
      BY <2>1, IntervalHas DEF Stretch
    <2> QED BY <2>2
  <1>3. Fill(lo, hi, s) = UNION {f[i] : i \in s}
    BY DEF Fill
  <1> HIDE DEF f
  <1> DEFINE all == {f[i] : i \in s}
  <1>4. IsFiniteSet(all)
    BY <1>1, ImageIsFinite
  <1> HIDE DEF all
  <1>5. IsFiniteSet(UNION all)
    BY <1>2, <1>4, FS_UNION DEF all
  <1> QED BY <1>3, <1>5, FS_CardinalityType DEF all

LEMMA SumExists ==
    ASSUME NEW lo, NEW hi, NEW S, Stretches(lo, hi, S)
    PROVE  IsSum([s \in SUBSET S |-> Cardinality(Fill(lo, hi, s))], lo, hi, S)
  <1> DEFINE h == [s \in SUBSET S |-> Cardinality(Fill(lo, hi, s))]
             H(s) == IF s = {} THEN 0 ELSE (hi[CHOOSE x \in s : TRUE] - lo[CHOOSE x \in s : TRUE])
                                             + h[s \ {CHOOSE x \in s : TRUE}]
  <1>1. ASSUME NEW s \in SUBSET S PROVE h[s] = H(s)
    <2>1. CASE s = {}
      <3>1. Fill(lo, hi, s) = {}
        BY <2>1 DEF Fill
      <3> QED BY <2>1, <3>1, FS_EmptySet
    <2>2. CASE s # {}
      <3> DEFINE i == CHOOSE x \in s : TRUE
      <3>1. i \in s /\ s \ {i} \in SUBSET S
        BY <2>2
      <3> HIDE DEF i
      <3>2. IsFiniteSet(Fill(lo, hi, s \ {i}))
        BY <3>1, FillsAreFinite
      <3>3. Cardinality(Fill(lo, hi, s)) = (hi[i] - lo[i]) + Cardinality(Fill(lo, hi, s \ {i}))
        BY <3>1, <3>2, FillGrows
      <3>4. h[s] = (hi[i] - lo[i]) + h[s \ {i}]
        BY <3>1, <3>3
      <3> HIDE DEF h
      <3> QED BY <2>2, <3>4 DEF i
    <2> QED BY <2>1, <2>2
  <1>2. h = [s \in SUBSET S |-> H(s)]
    <2> HIDE DEF H
    <2> QED BY <1>1
  <1> HIDE DEF h
  <1>3. IsSum(h, lo, hi, S)
    BY <1>2 DEF IsSum
  <1> QED BY <1>3 DEF h

LEMMA SumIs ==
    ASSUME NEW lo, NEW hi, NEW S, Stretches(lo, hi, S), NEW h, IsSum(h, lo, hi, S)
    PROVE  h[S] = Cardinality(Fill(lo, hi, S))
  <1> DEFINE T == {k \in Nat : \A s \in SUBSET S : Cardinality(s) = k => h[s] = Cardinality(Fill(lo, hi, s))}
  <1>1. \A s \in SUBSET S : h[s] = IF s = {} THEN 0
            ELSE (hi[CHOOSE x \in s : TRUE] - lo[CHOOSE x \in s : TRUE]) + h[s \ {CHOOSE x \in s : TRUE}]
    BY DEF IsSum
  <1>2. \A s \in SUBSET S : IsFiniteSet(s) /\ Cardinality(s) \in Nat /\ (Cardinality(s) = 0 <=> s = {})
    <2> TAKE s \in SUBSET S
    <2>1. IsFiniteSet(s)
      BY FS_Subset DEF Stretches
    <2> QED BY <2>1, FS_CardinalityType, FS_EmptySet
  <1>3. 0 \in T
    <2> SUFFICES ASSUME NEW s \in SUBSET S, s = {} PROVE h[s] = Cardinality(Fill(lo, hi, s))
      BY <1>2
    <2>1. Fill(lo, hi, s) = {}
      BY DEF Fill
    <2> QED BY <1>1, <2>1, FS_EmptySet
  <1>4. ASSUME NEW k \in Nat, k \in T PROVE k + 1 \in T
    <2> SUFFICES ASSUME NEW s \in SUBSET S, Cardinality(s) = k + 1
                 PROVE  h[s] = Cardinality(Fill(lo, hi, s))
      OBVIOUS
    <2> DEFINE i == CHOOSE x \in s : TRUE
    <2>1. s # {}
      <3>1. Cardinality(s) # 0
        OBVIOUS
      <3> QED BY <1>2, <3>1
    <2>2. i \in s /\ s \ {i} \in SUBSET S
      BY <2>1
    <2>3. h[s] = (hi[i] - lo[i]) + h[s \ {i}]
      BY <1>1, <2>1
    <2> HIDE DEF i
    <2>4. Cardinality(s \ {i}) = k
      <3>1. Cardinality(s \ {i}) = Cardinality(s) - 1
        BY <1>2, <2>2, FS_RemoveElement
      <3> QED BY <3>1
    <2>5. h[s \ {i}] = Cardinality(Fill(lo, hi, s \ {i}))
      BY <1>4, <2>2, <2>4
    <2>6. IsFiniteSet(Fill(lo, hi, s \ {i}))
      BY <2>2, FillsAreFinite
    <2>7. Cardinality(Fill(lo, hi, s)) = (hi[i] - lo[i]) + Cardinality(Fill(lo, hi, s \ {i}))
      BY <2>2, <2>6, FillGrows
    <2> QED BY <2>3, <2>5, <2>7
  <1>5. \A k \in Nat : k \in T
    <2> HIDE DEF T
    <2> QED BY <1>3, <1>4, Induction
  <1>6. S \in SUBSET S /\ Cardinality(S) \in T
    BY <1>2, <1>5
  <1> QED BY <1>6

(* The time down is the time in outages, the time unknown that of the      *)
(* segments of that state.                                                 *)
LEMMA DownIsSum ==
    ASSUME NEW segs, NEW outages, Lies(outages)
    PROVE  Report(segs, outages).unavailable = Cardinality({t \in Seconds : Covers(outages, t)})
  <1> DEFINE S == DOMAIN outages
             lo == [i \in S |-> outages[i].from]
             hi == [i \in S |-> outages[i].to]
             F(h) == [s \in SUBSET S |->
                        IF s = {} THEN 0 ELSE (outages[CHOOSE x \in s : TRUE].to - outages[CHOOSE x \in s : TRUE].from)
                                                + h[s \ {CHOOSE x \in s : TRUE}]]
             total == CHOOSE h : h = F(h)
  <1>1. Report(segs, outages).unavailable = total[S]
    BY DEF Report, MapThenSumSet, MapThenFoldSet, Span
  <1>2. \A h : IsSum(h, lo, hi, S) <=> h = F(h)
    <2> TAKE h
    <2>1. \A s \in SUBSET S : s # {} => LET i == CHOOSE x \in s : TRUE IN lo[i] = outages[i].from /\ hi[i] = outages[i].to
      OBVIOUS
    <2> HIDE DEF lo, hi, S
    <2> QED BY <2>1 DEF IsSum
  <1>3. /\ outages \in Seq(Outage) /\ Len(outages) \in Nat /\ S = 1 .. Len(outages)
        /\ \A i \in S : outages[i].from \in Int /\ outages[i].to \in Int
        /\ \A i \in S : From <= outages[i].from /\ outages[i].from <= outages[i].to /\ outages[i].to <= To
        /\ \A i, j \in S : i < j => outages[i].to < outages[j].from
    BY OutagesAre DEF Lies
  <1>4. \A i \in S : lo[i] = outages[i].from /\ hi[i] = outages[i].to
    OBVIOUS
  <1> HIDE DEF S, lo, hi, F
  <1>5. Stretches(lo, hi, S)
    <2>1. IsFiniteSet(S)
      <3>1. 1 \in Int /\ Len(outages) \in Int
        BY <1>3
      <3> QED BY <1>3, <3>1, FS_Interval
    <2>2. \A i \in S : lo[i] \in Int /\ hi[i] \in Int /\ lo[i] <= hi[i]
      BY <1>3, <1>4
    <2>3. ASSUME NEW i \in S, NEW j \in S, i # j PROVE hi[i] <= lo[j] \/ hi[j] <= lo[i]
      <3>1. i < j \/ j < i
        BY <1>3, <2>3
      <3>2. CASE i < j
        BY <1>3, <1>4, <2>2, <3>2
      <3>3. CASE j < i
        BY <1>3, <1>4, <2>2, <3>3
      <3> QED BY <3>1, <3>2, <3>3
    <2> QED BY <2>1, <2>2, <2>3 DEF Stretches
  <1>6. total[S] = Cardinality(Fill(lo, hi, S))
    <2> DEFINE g == [s \in SUBSET S |-> Cardinality(Fill(lo, hi, s))]
    <2>1. g = F(g)
      BY <1>2, <1>5, SumExists
    <2> HIDE DEF g
    <2>2. total = F(total)
      BY <2>1
    <2> HIDE DEF total
    <2>3. IsSum(total, lo, hi, S)
      BY <1>2, <2>2
    <2> QED BY <1>5, <2>3, SumIs
  <1>7. Fill(lo, hi, S) = {t \in Seconds : Covers(outages, t)}
    <2>1. ASSUME NEW i \in S, NEW t \in Stretch(lo, hi, i) PROVE t \in Seconds /\ Covers(outages, t)
      <3>1. outages[i].from \in Int /\ outages[i].to \in Int /\ From <= outages[i].from /\ outages[i].to <= To
        BY <1>3
      <3>2. t \in Int /\ outages[i].from <= t /\ t < outages[i].to
        BY <1>4, <3>1 DEF Stretch
      <3>3. From <= t /\ t < To
        BY <3>1, <3>2, InstantsAre
      <3> QED BY <1>3, <3>2, <3>3, InstantsAre DEF Covers
    <2>2. ASSUME NEW t \in Seconds, Covers(outages, t) PROVE \E i \in S : t \in Stretch(lo, hi, i)
      <3>1. PICK i \in S : outages[i].from <= t /\ t < outages[i].to
        BY <1>3, <2>2 DEF Covers
      <3>2. t \in Int /\ outages[i].from \in Int /\ outages[i].to \in Int
        BY <1>3, InstantsAre
      <3>3. t \in Stretch(lo, hi, i)
        BY <1>4, <3>1, <3>2 DEF Stretch
      <3> QED BY <3>3
    <2> QED BY <2>1, <2>2 DEF Fill
  <1> HIDE DEF total
  <1> QED BY <1>1, <1>6, <1>7 DEF S

-----------------------------------------------------------------------------
(* How long a history was unknown, and its longest outage.                 *)

LEMMA UnknownIsSum ==
    ASSUME NEW points, NEW segs, NEW outages, Tells(segs, points), TellsHeld(segs, points)
    PROVE  Report(segs, outages).unknown
                = Cardinality({t \in Seconds : HeldAt(points, t) = "unknown"})
  <1> DEFINE S == {i \in DOMAIN segs : segs[i].state = "unknown"}
             lo == [i \in S |-> segs[i].start]
             hi == [i \in S |-> SegmentEnd(segs, i)]
             F(h) == [s \in SUBSET S |->
                        IF s = {} THEN 0 ELSE (SegmentEnd(segs, CHOOSE x \in s : TRUE) - segs[CHOOSE x \in s : TRUE].start)
                                                + h[s \ {CHOOSE x \in s : TRUE}]]
             total == CHOOSE h : h = F(h)
  <1>1. Report(segs, outages).unknown = total[S]
    BY DEF Report, MapThenSumSet, MapThenFoldSet
  <1>2. \A h : IsSum(h, lo, hi, S) <=> h = F(h)
    <2> TAKE h
    <2>1. \A s \in SUBSET S : s # {} => LET i == CHOOSE x \in s : TRUE IN lo[i] = segs[i].start /\ hi[i] = SegmentEnd(segs, i)
      OBVIOUS
    <2> HIDE DEF lo, hi, S
    <2> QED BY <2>1 DEF IsSum
  <1>3. /\ Len(segs) \in Nat /\ DOMAIN segs = 1 .. Len(segs)
        /\ \A i \in 1 .. Len(segs) : segs[i].start \in Int
    BY SegmentsAre DEF Tells
  <1>4. \A i \in S : /\ i \in 1 .. Len(segs) /\ segs[i].state = "unknown"
                     /\ lo[i] = segs[i].start /\ hi[i] = SegmentEnd(segs, i)
                     /\ lo[i] \in Int /\ hi[i] \in Int /\ From <= lo[i] /\ lo[i] <= hi[i] /\ hi[i] <= To
    <2> TAKE i \in S
    <2>1. i \in 1 .. Len(segs) /\ segs[i].state = "unknown" /\ lo[i] = segs[i].start /\ hi[i] = SegmentEnd(segs, i)
      BY <1>3
    <2> HIDE DEF lo, hi, S
    <2> QED BY <2>1, EndsFollow
  <1>5. S \subseteq 1 .. Len(segs) /\ \A i \in 1 .. Len(segs) : i \in S <=> segs[i].state = "unknown"
    BY <1>3
  <1> HIDE DEF S, lo, hi, F
  <1>6. Stretches(lo, hi, S)
    <2>1. IsFiniteSet(S)
      <3>1. 1 \in Int /\ Len(segs) \in Int
        BY <1>3
      <3>2. IsFiniteSet(1 .. Len(segs))
        BY <3>1, FS_Interval
      <3> QED BY <1>5, <3>2, FS_Subset
    <2>2. ASSUME NEW i \in S, NEW j \in S, i < j PROVE hi[i] <= lo[j]
      <3>1. i \in 1 .. j - 1 /\ j \in 1 .. Len(segs)
        BY <1>3, <1>4, <2>2
      <3>2. SegmentEnd(segs, i) <= segs[j].start
        BY <3>1, EndsFollow
      <3> QED BY <1>4, <3>2
    <2>3. ASSUME NEW i \in S, NEW j \in S, i # j PROVE hi[i] <= lo[j] \/ hi[j] <= lo[i]
      <3>1. i < j \/ j < i
        BY <1>3, <1>4, <2>3
      <3> QED BY <2>2, <3>1
    <2> QED BY <1>4, <2>1, <2>3 DEF Stretches
  <1>7. total[S] = Cardinality(Fill(lo, hi, S))
    <2> DEFINE g == [s \in SUBSET S |-> Cardinality(Fill(lo, hi, s))]
    <2>1. g = F(g)
      BY <1>2, <1>6, SumExists
    <2> HIDE DEF g
    <2>2. total = F(total)
      BY <2>1
    <2> HIDE DEF total
    <2>3. IsSum(total, lo, hi, S)
      BY <1>2, <2>2
    <2> QED BY <1>6, <2>3, SumIs
  <1>8. ASSUME NEW i \in 1 .. Len(segs), NEW t \in Seconds
        PROVE  Holding(segs, i, t) <=> segs[i].start <= t /\ t < SegmentEnd(segs, i)
    <2>1. t \in Int /\ t < To /\ To \in Int
      BY InstantsAre
    <2>2. CASE i < Len(segs)
      <3>1. i + 1 \in 1 .. Len(segs)
        BY <1>3, <2>2
      <3> QED BY <1>3, <2>1, <2>2, <3>1 DEF Holding, SegmentEnd
    <2>3. CASE ~(i < Len(segs))
      BY <1>3, <2>1, <2>3 DEF Holding, SegmentEnd
    <2> QED BY <2>2, <2>3
  <1>9. Fill(lo, hi, S) = {t \in Seconds : HeldAt(points, t) = "unknown"}
    <2>1. ASSUME NEW i \in S, NEW t \in Stretch(lo, hi, i)
          PROVE  t \in Seconds /\ HeldAt(points, t) = "unknown"
      <3>1. t \in Int /\ lo[i] <= t /\ t < hi[i] /\ From <= t /\ t < To
        BY <1>4, InstantsAre DEF Stretch
      <3>2. t \in Seconds /\ t \in From .. To
        BY <3>1, InstantsAre
      <3>3. Holding(segs, i, t)
        BY <1>4, <1>8, <3>1, <3>2
      <3> QED BY <1>4, <3>2, <3>3, HeldIs
    <2>2. ASSUME NEW t \in Seconds, HeldAt(points, t) = "unknown" PROVE \E i \in S : t \in Stretch(lo, hi, i)
      <3>1. t \in From .. To /\ t \in Int /\ HeldAt(points, t) \in Down
        BY <2>2, InstantsAre DEF Down
      <3>2. PICK i \in 1 .. Len(segs) : Holding(segs, i, t) /\ segs[i].state = "unknown"
        BY <2>2, <3>1, HeldIs
      <3>3. i \in S /\ segs[i].start <= t /\ t < SegmentEnd(segs, i)
        BY <1>5, <1>8, <3>2
      <3>4. t \in Stretch(lo, hi, i)
        BY <1>4, <3>1, <3>3 DEF Stretch
      <3> QED BY <3>3, <3>4
    <2> QED BY <2>1, <2>2 DEF Fill
  <1> HIDE DEF total
  <1> QED BY <1>1, <1>7, <1>9 DEF S

(* An outage of some length is one uninterrupted stretch of the time down. *)
LEMMA StretchIs ==
    ASSUME NEW outs, Lies(outs), NEW down, down = {t \in Seconds : Covers(outs, t)}
    PROVE  /\ \A i \in 1 .. Len(outs) : outs[i].from < outs[i].to =>
                /\ outs[i].from \in {t \in down : t - 1 \notin down}
                /\ Cardinality({u \in down : u >= outs[i].from /\ outs[i].from .. u \subseteq down}) = outs[i].to - outs[i].from
           /\ \A t \in {t \in down : t - 1 \notin down} :
                \E i \in 1 .. Len(outs) : outs[i].from < outs[i].to /\ outs[i].from = t
  <1>1. /\ Len(outs) \in Nat
        /\ \A i \in 1 .. Len(outs) : outs[i].from \in Int /\ outs[i].to \in Int
        /\ \A i \in 1 .. Len(outs) : From <= outs[i].from /\ outs[i].from <= outs[i].to /\ outs[i].to <= To
        /\ \A i, j \in 1 .. Len(outs) : i < j => outs[i].to < outs[j].from
    BY OutagesAre DEF Lies
  <1>2. \A t \in down : t \in Int /\ \E j \in 1 .. Len(outs) : outs[j].from <= t /\ t < outs[j].to
    BY InstantsAre DEF Covers
  <1>3. \A t \in Int : (\E j \in 1 .. Len(outs) : outs[j].from <= t /\ t < outs[j].to) => t \in down
    <2> SUFFICES ASSUME NEW t \in Int, NEW j \in 1 .. Len(outs), outs[j].from <= t, t < outs[j].to PROVE t \in down
      OBVIOUS
    <2>1. From <= t /\ t < To
      BY <1>1, InstantsAre
    <2> QED BY <2>1, InstantsAre DEF Covers
  <1>4. ASSUME NEW i \in 1 .. Len(outs), outs[i].from < outs[i].to
        PROVE  outs[i].from \in down /\ outs[i].from - 1 \notin down /\ outs[i].to \notin down
    <2>1. outs[i].from \in down
      BY <1>1, <1>3, <1>4
    <2>2. ASSUME NEW t \in down, t = outs[i].from - 1 \/ t = outs[i].to PROVE FALSE
      <3>1. PICK j \in 1 .. Len(outs) : outs[j].from <= t /\ t < outs[j].to
        BY <1>2
      <3>2. i = j \/ i < j \/ j < i
        BY <1>1
      <3>3. i < j => outs[i].to < outs[j].from
        BY <1>1
      <3>4. j < i => outs[j].to < outs[i].from
        BY <1>1
      <3> QED BY <1>1, <1>4, <2>2, <3>1, <3>2, <3>3, <3>4
    <2> QED BY <2>1, <2>2
  <1>5. ASSUME NEW i \in 1 .. Len(outs), outs[i].from < outs[i].to
        PROVE  Cardinality({u \in down : u >= outs[i].from /\ outs[i].from .. u \subseteq down}) = outs[i].to - outs[i].from
    <2> DEFINE a == outs[i].from
               b == outs[i].to
    <2>1. a \in Int /\ b \in Int /\ a < b
      BY <1>1, <1>5
    <2>2. ASSUME NEW u \in down, u >= a, a .. u \subseteq down PROVE u \in a .. (b - 1)
      <3>1. u \in Int /\ b \notin down
        BY <1>2, <1>4, <1>5
      <3>2. ~(b <= u)
        <4>1. b <= u => b \in a .. u
          BY <2>1, <3>1
        <4> QED BY <2>2, <3>1, <4>1
      <3> QED BY <2>1, <2>2, <3>1, <3>2
    <2>3. ASSUME NEW u \in a .. (b - 1) PROVE u \in down /\ u >= a /\ a .. u \subseteq down
      <3>1. u \in Int /\ a <= u /\ u < b
        BY <2>1
      <3>2. ASSUME NEW t \in a .. u PROVE t \in down
        <4>1. t \in Int /\ a <= t /\ t < b
          BY <2>1, <3>1
        <4> QED BY <1>3, <4>1
      <3>3. u \in a .. u
        BY <2>1, <3>1
      <3> QED BY <3>1, <3>2, <3>3
    <2>4. {u \in down : u >= a /\ a .. u \subseteq down} = a .. (b - 1)
      <3> HIDE DEF a, b
      <3> QED BY <2>2, <2>3
    <2>5. Cardinality(a .. (b - 1)) = b - a
      BY <2>1, IntervalHas
    <2> QED BY <2>4, <2>5
  <1>6. ASSUME NEW t \in down, t - 1 \notin down
        PROVE  \E i \in 1 .. Len(outs) : outs[i].from < outs[i].to /\ outs[i].from = t
    <2>1. PICK i \in 1 .. Len(outs) : outs[i].from <= t /\ t < outs[i].to
      BY <1>2
    <2>2. t \in Int
      BY <1>2
    <2>3. ~(outs[i].from < t)
      <3> SUFFICES ASSUME outs[i].from < t PROVE FALSE
        OBVIOUS
      <3>1. t - 1 \in Int /\ outs[i].from <= t - 1 /\ t - 1 < outs[i].to
        BY <1>1, <2>1, <2>2
      <3> QED BY <1>3, <1>6, <3>1
    <2> QED BY <1>1, <2>1, <2>2, <2>3
  <1> QED BY <1>4, <1>5, <1>6

(* The report on any points, in any order (ComputeAvailability): covered,  *)
(* unavailable, unknown, outages and the longest are those of the states   *)
(* held second by second.                                                  *)
THEOREM OutagesAreMeasured ==
    ASSUME NEW points \in Seq(Point)
    PROVE  OutagesMeasured(points)
  <1> DEFINE segs == SegmentsIn(points)
             outs == OutagesOf(segs)
             a == Availability(points)
             down == {t \in Seconds : HeldAt(points, t) \in Down}
             starts == {t \in down : t - 1 \notin down}
             stretch(t) == Cardinality({u \in down : u >= t /\ t .. u \subseteq down})
  <1>1. Tells(segs, points) /\ TellsHeld(segs, points)
    BY SegmentsTell
  <1>2. /\ a.outages = outs
        /\ a = Report(segs, outs)
        /\ a.longest = Max({0} \cup {Span(outs[i]) : i \in DOMAIN outs})
    BY DEF Availability, ReportOn, Report
  <1> HIDE DEF segs
  <1> HIDE DEF outs, a
  <1>3. Lies(outs) /\ \A t \in Seconds : HeldAt(points, t) \in Down <=> Covers(outs, t)
    BY <1>2, ReportShows DEF a
  <1>4. down = {t \in Seconds : Covers(outs, t)}
    BY <1>3
  <1>5. a.unavailable = Cardinality(down)
    BY <1>2, <1>3, <1>4, DownIsSum
  <1>6. a.unknown = Cardinality({t \in down : HeldAt(points, t) = "unknown"})
    <2>1. {t \in down : HeldAt(points, t) = "unknown"} = {t \in Seconds : HeldAt(points, t) = "unknown"}
      BY DEF Down
    <2> QED BY <1>1, <1>2, <2>1, UnknownIsSum
  <1>7. a.covered = Cardinality({t \in Seconds : Recorded(points, t)})
    <2>1. CASE a.covered = 0 /\ \A t \in Seconds : ~Recorded(points, t)
      <3>1. {t \in Seconds : Recorded(points, t)} = {}
        BY <2>1
      <3> QED BY <2>1, <3>1, FS_EmptySet
    <2>2. CASE \E s \in Seconds : a.covered = To - s /\ \A t \in Seconds : Recorded(points, t) <=> s <= t
      <3>1. PICK s \in Seconds : a.covered = To - s /\ \A t \in Seconds : Recorded(points, t) <=> s <= t
        BY <2>2
      <3>2. {t \in Seconds : Recorded(points, t)} = s .. (To - 1)
        BY <3>1, InstantsAre DEF Seconds
      <3>3. Cardinality(s .. (To - 1)) = To - s
        BY InstantsAre, IntervalHas
      <3> QED BY <3>1, <3>2, <3>3
    <2> QED BY <2>1, <2>2, CoveredIs DEF a
  <1>8. /\ Len(outs) \in Nat /\ DOMAIN outs = 1 .. Len(outs)
        /\ \A i \in 1 .. Len(outs) : outs[i].from \in Int /\ outs[i].to \in Int /\ outs[i].from <= outs[i].to
    BY <1>3, OutagesAre DEF Lies
  <1>9. /\ \A i \in 1 .. Len(outs) : outs[i].from < outs[i].to =>
                outs[i].from \in starts /\ stretch(outs[i].from) = outs[i].to - outs[i].from
        /\ \A t \in starts : \E i \in 1 .. Len(outs) : outs[i].from < outs[i].to /\ outs[i].from = t
    BY <1>3, <1>4, StretchIs
  <1> HIDE DEF starts, stretch, down
  <1>10. a.longest = Max({0} \cup {stretch(t) : t \in starts})
    <2>1. {0} \cup {Span(outs[i]) : i \in DOMAIN outs} = {0} \cup {stretch(t) : t \in starts}
      <3>1. ASSUME NEW i \in DOMAIN outs PROVE Span(outs[i]) \in {0} \cup {stretch(t) : t \in starts}
        <4>1. Span(outs[i]) = outs[i].to - outs[i].from
          BY DEF Span
        <4>2. CASE outs[i].from < outs[i].to
          BY <1>8, <1>9, <4>1, <4>2
        <4>3. CASE ~(outs[i].from < outs[i].to)
          <5>1. Span(outs[i]) = 0
            BY <1>8, <4>1, <4>3
          <5> QED BY <5>1
        <4> QED BY <4>2, <4>3
      <3>2. ASSUME NEW t \in starts PROVE \E i \in DOMAIN outs : stretch(t) = Span(outs[i])
        <4>1. PICK i \in 1 .. Len(outs) : outs[i].from < outs[i].to /\ outs[i].from = t
          BY <1>9
        <4>2. Span(outs[i]) = outs[i].to - outs[i].from
          BY DEF Span
        <4> QED BY <1>8, <1>9, <4>1, <4>2
      <3> QED BY <3>1, <3>2
    <2> QED BY <1>2, <2>1
  <1>11. {<<o.from, o.to>> : o \in {o \in ToSet(a.outages) : o.from < o.to}} = {<<t, t + stretch(t)>> : t \in starts}
    <2>1. ToSet(a.outages) = {outs[i] : i \in 1 .. Len(outs)}
      BY <1>2, <1>8 DEF ToSet
    <2>2. ASSUME NEW i \in 1 .. Len(outs), outs[i].from < outs[i].to
          PROVE  outs[i].from \in starts /\ outs[i].to = outs[i].from + stretch(outs[i].from)
      BY <1>8, <1>9, <2>2
    <2>3. ASSUME NEW t \in starts
          PROVE  \E i \in 1 .. Len(outs) : outs[i].from < outs[i].to /\ outs[i].from = t /\ outs[i].to = t + stretch(t)
      BY <1>9, <2>2
    <2>4. ASSUME NEW o \in {o \in ToSet(a.outages) : o.from < o.to}
          PROVE  \E t \in starts : <<o.from, o.to>> = <<t, t + stretch(t)>>
      BY <2>1, <2>2
    <2>5. ASSUME NEW t \in starts
          PROVE  \E o \in {o \in ToSet(a.outages) : o.from < o.to} : <<o.from, o.to>> = <<t, t + stretch(t)>>
      BY <2>1, <2>3
    <2> QED BY <2>4, <2>5
  <1> QED BY <1>5, <1>6, <1>7, <1>10, <1>11 DEF OutagesMeasured, Reports, a, down, starts, stretch

-----------------------------------------------------------------------------
(* A history is read the same in whatever order it is given.               *)

(* Points of rising instants are told by which they are.                   *)
Rises(u) == \A j, k \in 1 .. Len(u) : j < k => u[j].at < u[k].at
Among(u, v) == \A k \in 1 .. Len(u) : \E j \in 1 .. Len(v) : u[k] = v[j]

LEMMA RisesOnce ==
    ASSUME NEW u \in Seq(Point), NEW v \in Seq(Point), Rises(u), Rises(v), Among(u, v), Among(v, u)
    PROVE  u = v
  <1>1. /\ Len(u) \in Nat /\ Len(v) \in Nat
        /\ \A k \in 1 .. Len(u) : u[k].at \in Int
        /\ \A k \in 1 .. Len(v) : v[k].at \in Int
    <2>1. /\ Len(u) \in Nat /\ Len(v) \in Nat
          /\ \A k \in 1 .. Len(u) : u[k] \in Point
          /\ \A k \in 1 .. Len(v) : v[k] \in Point
      OBVIOUS
    <2> QED BY <2>1 DEF Point
  <1> DEFINE T == {m \in Nat : m <= Len(u) /\ m <= Len(v) => \A k \in 1 .. m : u[k] = v[k]}
  <1>2. 0 \in T
    OBVIOUS
  <1>3. ASSUME NEW m \in Nat, m \in T PROVE m + 1 \in T
    <2> SUFFICES ASSUME m + 1 <= Len(u), m + 1 <= Len(v) PROVE u[m + 1] = v[m + 1]
      <3> SUFFICES ASSUME m + 1 <= Len(u), m + 1 <= Len(v) PROVE \A k \in 1 .. m + 1 : u[k] = v[k]
        OBVIOUS
      <3>1. u[m + 1] = v[m + 1]
        OBVIOUS
      <3>2. \A k \in 1 .. m : u[k] = v[k]
        BY <1>1, <1>3
      <3> QED BY <3>1, <3>2
    <2>1. m + 1 \in 1 .. Len(u) /\ m + 1 \in 1 .. Len(v) /\ \A k \in 1 .. m : u[k] = v[k]
      BY <1>1, <1>3
    <2> HIDE DEF T
    <2>2. PICK j \in 1 .. Len(v) : u[m + 1] = v[j]
      BY <2>1 DEF Among
    <2>3. PICK i \in 1 .. Len(u) : v[m + 1] = u[i]
      BY <2>1 DEF Among
    <2>4. j >= m + 1
      <3> SUFFICES ASSUME j < m + 1 PROVE FALSE
        BY <1>1
      <3>1. j \in 1 .. m /\ j \in 1 .. Len(u) /\ u[j] = u[m + 1]
        BY <1>1, <2>1, <2>2
      <3>2. u[j].at < u[m + 1].at
        BY <2>1, <3>1 DEF Rises
      <3> QED BY <1>1, <2>1, <3>1, <3>2
    <2>5. i >= m + 1
      <3> SUFFICES ASSUME i < m + 1 PROVE FALSE
        BY <1>1
      <3>1. i \in 1 .. m /\ i \in 1 .. Len(v) /\ v[i] = v[m + 1]
        BY <1>1, <2>1, <2>3
      <3>2. v[i].at < v[m + 1].at
        BY <2>1, <3>1 DEF Rises
      <3> QED BY <1>1, <2>1, <3>1, <3>2
    <2>6. j = m + 1 \/ v[m + 1].at < v[j].at
      BY <1>1, <2>1, <2>4 DEF Rises
    <2>7. i = m + 1 \/ u[m + 1].at < u[i].at
      BY <1>1, <2>1, <2>5 DEF Rises
    <2>8. CASE j = m + 1
      BY <2>2, <2>8
    <2>9. CASE i = m + 1
      BY <2>3, <2>9
    <2>10. CASE v[m + 1].at < v[j].at /\ u[m + 1].at < u[i].at
      BY <1>1, <2>1, <2>2, <2>3, <2>10
    <2> QED BY <2>6, <2>7, <2>8, <2>9, <2>10
  <1>4. \A m \in Nat : m \in T
    <2> HIDE DEF T
    <2> QED BY <1>2, <1>3, Induction
  <1>5. ~(Len(u) < Len(v))
    <2> SUFFICES ASSUME Len(u) < Len(v) PROVE FALSE
      OBVIOUS
    <2>1. Len(u) + 1 \in 1 .. Len(v) /\ \A k \in 1 .. Len(u) : u[k] = v[k]
      BY <1>1, <1>4
    <2>2. PICK j \in 1 .. Len(u) : v[Len(u) + 1] = u[j]
      BY <2>1 DEF Among
    <2>3. j \in 1 .. Len(v) /\ j < Len(u) + 1 /\ v[j] = v[Len(u) + 1]
      BY <1>1, <2>1, <2>2
    <2>4. v[j].at < v[Len(u) + 1].at
      BY <2>1, <2>3 DEF Rises
    <2> QED BY <1>1, <2>1, <2>3, <2>4
  <1>6. ~(Len(v) < Len(u))
    <2> SUFFICES ASSUME Len(v) < Len(u) PROVE FALSE
      OBVIOUS
    <2>1. Len(v) + 1 \in 1 .. Len(u) /\ \A k \in 1 .. Len(v) : u[k] = v[k]
      BY <1>1, <1>4
    <2>2. PICK j \in 1 .. Len(v) : u[Len(v) + 1] = v[j]
      BY <2>1 DEF Among
    <2>3. j \in 1 .. Len(u) /\ j < Len(v) + 1 /\ u[j] = u[Len(v) + 1]
      BY <1>1, <2>1, <2>2
    <2>4. u[j].at < u[Len(v) + 1].at
      BY <2>1, <2>3 DEF Rises
    <2> QED BY <1>1, <2>1, <2>3, <2>4
  <1>7. Len(u) = Len(v) /\ \A k \in 1 .. Len(u) : u[k] = v[k]
    BY <1>1, <1>4, <1>5, <1>6
  <1> HIDE DEF T
  <1> QED BY <1>7

(* The points up to the window's end rise, when no two are of one instant. *)
LEMMA UpToEndRises ==
    ASSUME NEW points \in Seq(Point), NEW u, NEW q, Lists(u, q, points),
           \A i, j \in DOMAIN points : points[i].at = points[j].at => i = j
    PROVE  Rises(u) /\ u \in Seq(Point)
  <1>1. ASSUME NEW j \in 1 .. Len(q), NEW k \in 1 .. Len(q), j < k PROVE u[j].at < u[k].at
    <2>1. /\ q[j] \in DOMAIN points /\ q[k] \in DOMAIN points
          /\ u[j] = points[q[j]] /\ u[k] = points[q[k]] /\ Sooner(points, q[j], q[k])
      BY <1>1 DEF Lists, Recent
    <2>2. q[j] \in Int /\ q[k] \in Int
      BY <2>1
    <2> QED BY <2>1, <2>2 DEF Sooner
  <1> QED BY <1>1 DEF Lists, Rises

LEMMA UpToEndAmong ==
    ASSUME NEW points \in Seq(Point), NEW others \in Seq(Point), Among(points, others),
           NEW u, NEW q, Lists(u, q, points), NEW v, NEW p, Lists(v, p, others)
    PROVE  Among(u, v)
  <1>1. ASSUME NEW k \in 1 .. Len(q) PROVE \E j \in 1 .. Len(p) : u[k] = v[j]
    <2>1. q[k] \in DOMAIN points /\ points[q[k]].at <= To /\ u[k] = points[q[k]]
      BY DEF Lists, Recent
    <2>2. PICK i \in 1 .. Len(others) : points[q[k]] = others[i]
      BY <2>1 DEF Among
    <2>3. i \in Recent(others)
      BY <2>1, <2>2 DEF Recent
    <2>4. PICK j \in 1 .. Len(p) : p[j] = i
      BY <2>3 DEF Lists
    <2>5. v[j] = others[p[j]]
      BY DEF Lists
    <2> QED BY <2>1, <2>2, <2>4, <2>5
  <1> QED BY <1>1 DEF Lists, Among

(* Of points of different instants, the order they come in is nothing to   *)
(* the analyses.                                                           *)
THEOREM OrderIsNothing ==
    ASSUME NEW points \in Seq(Point)
    PROVE  OrderDoesNotMatter(points)
  <1> DEFINE others == Reverse(points)
  <1> SUFFICES ASSUME IsInjective([i \in DOMAIN points |-> points[i].at])
               PROVE  /\ Availability(others) = Availability(points)
                      /\ Cadence(others) = Cadence(points)
    BY DEF OrderDoesNotMatter
  <1>1. \A i, j \in DOMAIN points : points[i].at = points[j].at => i = j
    <2> DEFINE f == [i \in DOMAIN points |-> points[i].at]
    <2>1. \A a, b \in DOMAIN f : f[a] = f[b] => a = b
      <3> HIDE DEF f
      <3> QED BY DEF IsInjective, f
    <2>2. DOMAIN f = DOMAIN points /\ \A i \in DOMAIN points : f[i] = points[i].at
      OBVIOUS
    <2> HIDE DEF f
    <2> QED BY <2>1, <2>2
  <1>2. /\ others \in Seq(Point) /\ Len(others) = Len(points) /\ DOMAIN others = 1 .. Len(points)
        /\ \A i \in 1 .. Len(points) : /\ (Len(points) - i) + 1 \in 1 .. Len(points)
                                       /\ others[i] = points[(Len(points) - i) + 1]
    <2>1. Len(points) \in Nat /\ \A i \in 1 .. Len(points) : (Len(points) - i) + 1 \in 1 .. Len(points)
      OBVIOUS
    <2>2. others = [i \in 1 .. Len(points) |-> points[(Len(points) - i) + 1]]
      BY DEF Reverse
    <2> HIDE DEF others
    <2>3. others \in [1 .. Len(points) -> Point]
      BY <2>1, <2>2
    <2> QED BY <2>1, <2>2, <2>3
  <1> HIDE DEF others
  <1>3. \A i, j \in DOMAIN others : others[i].at = others[j].at => i = j
    <2> TAKE i, j \in DOMAIN others
    <2> HAVE others[i].at = others[j].at
    <2> DEFINE a == (Len(points) - i) + 1
               b == (Len(points) - j) + 1
    <2>1. i \in 1 .. Len(points) /\ j \in 1 .. Len(points) /\ Len(points) \in Int /\ i \in Int /\ j \in Int
      BY <1>2
    <2>2. a \in DOMAIN points /\ b \in DOMAIN points /\ others[i] = points[a] /\ others[j] = points[b]
      <3>1. DOMAIN points = 1 .. Len(points)
        OBVIOUS
      <3>2. a \in 1 .. Len(points) /\ b \in 1 .. Len(points) /\ others[i] = points[a] /\ others[j] = points[b]
        BY <1>2, <2>1
      <3> HIDE DEF a, b
      <3> QED BY <3>1, <3>2
    <2>3. a = b
      <3> HIDE DEF a, b
      <3> QED BY <1>1, <2>2
    <2> QED BY <2>1, <2>3
  <1>4. Among(others, points)
    BY <1>2 DEF Among
  <1>5. Among(points, others)
    <2>1. ASSUME NEW k \in 1 .. Len(points) PROVE \E j \in 1 .. Len(others) : points[k] = others[j]
      <3>1. (Len(points) - k) + 1 \in 1 .. Len(points) /\ Len(points) - ((Len(points) - k) + 1) + 1 = k
        BY <1>2
      <3> QED BY <1>2, <3>1
    <2> QED BY <2>1 DEF Among
  <1>6. PICK q : Lists(UpToEnd(points), q, points)
    BY UpToEndIs
  <1>7. PICK p : Lists(UpToEnd(others), p, others)
    BY <1>2, UpToEndIs
  <1>8. UpToEnd(others) = UpToEnd(points)
    <2>1. Rises(UpToEnd(points)) /\ UpToEnd(points) \in Seq(Point)
      BY <1>1, <1>6, UpToEndRises
    <2>2. Rises(UpToEnd(others)) /\ UpToEnd(others) \in Seq(Point)
      BY <1>2, <1>3, <1>7, UpToEndRises
    <2>3. Among(UpToEnd(points), UpToEnd(others)) /\ Among(UpToEnd(others), UpToEnd(points))
      BY <1>2, <1>4, <1>5, <1>6, <1>7, UpToEndAmong
    <2> QED BY <2>1, <2>2, <2>3, RisesOnce
  <1>9. Availability(others) = Availability(points)
    BY <1>8 DEF Availability, SegmentsIn
  <1>10. Cadence(others) = Cadence(points)
    BY <1>8, <1>9 DEF Cadence, Instants
  <1> QED BY <1>9, <1>10

-----------------------------------------------------------------------------
(* The windows of failure of several entities, and their sweep             *)
(* (sweepClusters).                                                        *)

(* The windows of failure, in the order they are swept.                    *)
Window == [entity : Int, from : Int, to : Int]
WindowOrder(windows) == {p \in windows \X windows : CompareWindows(p[1], p[2])}
Measured(inputs) == \A i \in inputs : i.entity.id \in Int /\ i.points \in Seq(Point)

LEMMA WindowsAre ==
    ASSUME NEW inputs, IsFiniteSet(inputs), Measured(inputs)
    PROVE  /\ IsFiniteSet(Windows(inputs)) /\ Windows(inputs) \subseteq Window
           /\ \A w \in Windows(inputs) : w.from <= w.to /\ \E i \in inputs : i.entity.id = w.entity
  <1> DEFINE Of(i) == {[entity |-> i.entity.id, from |-> o.from, to |-> o.to] :
                          o \in {o \in ToSet(Availability(i.points).outages) : ~Throughout(o)}}
  <1>1. ASSUME NEW i \in inputs
        PROVE  /\ IsFiniteSet(Of(i)) /\ Of(i) \subseteq Window
               /\ \A w \in Of(i) : w.from <= w.to /\ w.entity = i.entity.id
    <2> DEFINE outs == Availability(i.points).outages
               S == {o \in ToSet(outs) : ~Throughout(o)}
               f == [o \in S |-> [entity |-> i.entity.id, from |-> o.from, to |-> o.to]]
    <2>1. i.entity.id \in Int /\ i.points \in Seq(Point)
      BY DEF Measured
    <2>2. Lies(outs)
      BY <2>1, ReportShows
    <2> HIDE DEF outs
    <2>3. /\ outs \in Seq(Outage)
          /\ \A n \in 1 .. Len(outs) : outs[n].from \in Int /\ outs[n].to \in Int /\ outs[n].from <= outs[n].to
      BY <2>2, OutagesAre DEF Lies
    <2>4. IsFiniteSet(ToSet(outs)) /\ ToSet(outs) = {outs[n] : n \in 1 .. Len(outs)}
      <3>1. DOMAIN outs = 1 .. Len(outs)
        BY <2>3
      <3> QED BY <2>3, <3>1, MembersAreFinite DEF ToSet
    <2>5. IsFiniteSet(S) /\ \A o \in S : o.from \in Int /\ o.to \in Int /\ o.from <= o.to
      <3>1. IsFiniteSet(S)
        BY <2>4, FS_Subset
      <3> QED BY <2>3, <2>4, <3>1
    <2>6. Of(i) = {f[o] : o \in S}
      BY DEF outs
    <2>7. \A o \in S : f[o] \in Window /\ f[o].from <= f[o].to /\ f[o].entity = i.entity.id
      <3> TAKE o \in S
      <3>1. f[o] = [entity |-> i.entity.id, from |-> o.from, to |-> o.to] /\ o.from \in Int /\ o.to \in Int /\ o.from <= o.to
        BY <2>5
      <3> HIDE DEF f, S
      <3> QED BY <2>1, <3>1 DEF Window
    <2> HIDE DEF S, f, Of
    <2>8. IsFiniteSet({f[o] : o \in S})
      BY <2>5, ImageIsFinite
    <2> QED BY <2>6, <2>7, <2>8
  <1> DEFINE g == [i \in inputs |-> Of(i)]
  <1>2. Windows(inputs) = UNION {g[i] : i \in inputs}
    BY DEF Windows
  <1>3. \A i \in inputs : g[i] = Of(i)
    OBVIOUS
  <1> DEFINE all == {g[i] : i \in inputs}
  <1>4. IsFiniteSet(all)
    <2> HIDE DEF g
    <2> QED BY ImageIsFinite
  <1>5. \A T \in all : \E i \in inputs : T = Of(i)
    <2> HIDE DEF g, Of
    <2> QED BY <1>3
  <1> HIDE DEF g, all, Of
  <1>6. IsFiniteSet(UNION all)
    BY <1>1, <1>4, <1>5, FS_UNION
  <1>7. Windows(inputs) = UNION all
    BY <1>2 DEF all
  <1>8. ASSUME NEW w \in Windows(inputs) PROVE \E i \in inputs : w \in Of(i)
    BY <1>5, <1>7
  <1> QED BY <1>1, <1>6, <1>7, <1>8

LEMMA WindowFieldsAre ==
    ASSUME NEW w \in Window
    PROVE  w.entity \in Int /\ w.from \in Int /\ w.to \in Int
  BY DEF Window

LEMMA SweptIsLine ==
    ASSUME NEW windows, IsFiniteSet(windows), windows \subseteq Window
    PROVE  IsLine(Sorted(windows, CompareWindows), windows, WindowOrder(windows))
  <1> DEFINE R == WindowOrder(windows)
             s == Sorted(windows, CompareWindows)
  <1>1. \A x, y \in windows : <<y, x>> \in R <=> CompareWindows(y, x)
    BY DEF WindowOrder
  <1> HIDE DEF R
  <1>2. \A x \in windows : {y \in windows : CompareWindows(y, x)} = Below(x, windows, R)
    BY <1>1 DEF Below
  <1>3. IsTotal(R, windows)
    <2> SUFFICES /\ \A x \in windows : ~CompareWindows(x, x)
                 /\ \A x, y, z \in windows : CompareWindows(x, y) /\ CompareWindows(y, z) => CompareWindows(x, z)
                 /\ \A x, y \in windows : x = y \/ CompareWindows(x, y) \/ CompareWindows(y, x)
      BY <1>1 DEF IsTotal
    <2>1. \A x \in windows : x.entity \in Int /\ x.from \in Int /\ x.to \in Int
      BY WindowFieldsAre
    <2>2. \A x, y \in windows : x.entity = y.entity /\ x.from = y.from /\ x.to = y.to => x = y
      BY DEF Window
    <2> QED BY <2>1, <2>2 DEF CompareWindows
  <1>4. s = [i \in 1 .. Cardinality(windows) |-> CHOOSE x \in windows : Cardinality({y \in windows : CompareWindows(y, x)}) = i - 1]
    BY DEF Sorted
  <1> HIDE DEF s
  <1>5. s \in [1 .. Cardinality(windows) -> {s[i] : i \in 1 .. Cardinality(windows)}]
    BY <1>4
  <1>6. ASSUME NEW i \in 1 .. Cardinality(windows), NEW x \in windows, Cardinality(Below(x, windows, R)) = i - 1
        PROVE  s[i] \in windows /\ Cardinality(Below(s[i], windows, R)) = i - 1
    <2>1. Cardinality({y \in windows : CompareWindows(y, x)}) = i - 1
      BY <1>2, <1>6
    <2>2. s[i] = CHOOSE z \in windows : Cardinality({y \in windows : CompareWindows(y, z)}) = i - 1
      BY <1>4
    <2>3. s[i] \in windows /\ Cardinality({y \in windows : CompareWindows(y, s[i])}) = i - 1
      BY <2>1, <2>2
    <2> QED BY <1>2, <2>3
  <1>7. IsLine(s, windows, R)
    BY <1>3, <1>5, <1>6, Ranking
  <1> QED BY <1>7 DEF s, R

(* The sweep, step by step over the windows in their order.                *)
Placing(groups, w) ==
    IF groups # <<>> /\ Joins(Last(groups), w)
    THEN [groups EXCEPT ![Len(groups)] = Append(@, w)]
    ELSE Append(groups, <<w>>)
Sweeps(f, s, windows) ==
    /\ f[0] = <<>> /\ \A m \in 0 .. Len(s) : f[m] \in Seq(Seq(windows))
    /\ \A m \in 1 .. Len(s) : f[m] = Placing(f[m - 1], s[m])

LEMMA PlacingIsSeq ==
    ASSUME NEW V, NEW w \in V, NEW groups \in Seq(Seq(V))
    PROVE  Placing(groups, w) \in Seq(Seq(V))
  <1> DEFINE W == Seq(V)
  <1>1. <<w>> \in W
    OBVIOUS
  <1>2. CASE groups # <<>>
    <2>1. groups[Len(groups)] \in W /\ Len(groups) \in 1 .. Len(groups)
      <3> HIDE DEF W
      <3> QED BY <1>2 DEF W
    <2>2. Append(groups[Len(groups)], w) \in W
      BY <2>1
    <2> HIDE DEF W
    <2>3. [groups EXCEPT ![Len(groups)] = Append(@, w)] \in Seq(W) /\ Append(groups, <<w>>) \in Seq(W)
      BY <1>1, <2>1, <2>2 DEF W
    <2> QED BY <2>3 DEF Placing, W
  <1>3. CASE groups = <<>>
    <2> HIDE DEF W
    <2>1. Append(groups, <<w>>) \in Seq(W)
      BY <1>1 DEF W
    <2> QED BY <1>3, <2>1 DEF W, Placing
  <1> QED BY <1>2, <1>3

LEMMA SweepIsWalk ==
    ASSUME NEW windows, IsFiniteSet(windows), NEW s \in Seq(windows), s = Sorted(windows, CompareWindows)
    PROVE  \E f : Sweeps(f, s, windows) /\ f[Len(s)] = SweepClusters(windows)
  <1> DEFINE n == Len(s)
             A == Seq(Seq(windows))
             op(i, groups) == Placing(groups, s[i])
             F(g) == [t \in SUBSET (1 .. n) |-> IF t = {} THEN <<>> ELSE op(Max(t), g[t \ {Max(t)}])]
             total == CHOOSE g : g = F(g)
             step == [p \in (1 .. n) \X A |-> op(p[1], p[2])]
  <1>0. n \in Nat /\ DOMAIN s = 1 .. n /\ \A i \in 1 .. n : s[i] \in windows
    OBVIOUS
  <1>2. SweepClusters(windows) = total[1 .. n]
    BY <1>0 DEF SweepClusters, FoldLeft, MapThenFoldSet, Placing
  <1> HIDE DEF n
  <1>3. ASSUME NEW i \in 1 .. n, NEW groups \in A PROVE op(i, groups) \in A
    BY <1>0, PlacingIsSeq
  <1> HIDE DEF op
  <1>4. step \in [(1 .. n) \X A -> A]
    BY <1>3
  <1>5. \A i \in 1 .. n : \A a \in A : step[<<i, a>>] = op(i, a)
    OBVIOUS
  <1>6. <<>> \in A
    OBVIOUS
  <1> HIDE DEF step, A, op
  <1>7. PICK g \in [SUBSET (1 .. n) -> A] : IsFold(g, n, <<>>, step)
    BY <1>0, <1>4, <1>6, FoldExists
  <1>8. \A t \in SUBSET (1 .. n) : t # {} => Max(t) \in 1 .. n /\ t \ {Max(t)} \in SUBSET (1 .. n)
    BY <1>0, MaxLast
  <1>9. \A t \in SUBSET (1 .. n) : g[t] = IF t = {} THEN <<>> ELSE step[<<Max(t), g[t \ {Max(t)}]>>]
    BY <1>7 DEF IsFold
  <1>10. \A t \in SUBSET (1 .. n) : g[t] = F(g)[t]
    BY <1>5, <1>8, <1>9
  <1>11. g = F(g)
    BY <1>10
  <1>12. PICK h : h = F(h) /\ SweepClusters(windows) = h[1 .. n]
    <2>1. total = F(total)
      BY <1>11
    <2> HIDE DEF total, F
    <2> QED BY <1>2, <2>1
  <1>13. \A t \in SUBSET (1 .. n) : h[t] = IF t = {} THEN <<>> ELSE op(Max(t), h[t \ {Max(t)}])
    BY <1>12
  <1> HIDE DEF F, total
  <1>14. Climbs(h, n, A, <<>>, step)
    BY <1>5, <1>8, <1>13 DEF Climbs
  <1>15. PICK f : Walks(f, n, A, <<>>, step) /\ f[n] = h[1 .. n]
    <2>1. HasWalk(h, n, A, <<>>, step)
      BY <1>0, <1>4, <1>6, <1>14, FoldIsWalk
    <2> QED BY <2>1 DEF HasWalk
  <1>16. \A m \in 1 .. n : f[m] = op(m, f[m - 1])
    <2> TAKE m \in 1 .. n
    <2>1. m - 1 \in 0 .. n
      BY <1>0
    <2> QED BY <1>5, <1>15, <2>1 DEF Walks
  <1> QED BY <1>12, <1>15, <1>16 DEF Walks, Sweeps, n, A, op

-----------------------------------------------------------------------------
(* What the sweep keeps to with each window it takes.                      *)

(* The groups made of the first m windows: they hold those and no other,   *)
(* any two are further apart than the tolerance, each starts with its      *)
(* earliest and every other is near one before it.                         *)
Near(u, v) == u.from <= v.to + Tolerance /\ v.from <= u.to + Tolerance
Filed(groups, c) == \A i \in 1 .. c : Len(groups[i]) \in Nat \ {0}
Held(groups, c, s, m) ==
    /\ \A i \in 1 .. c : \A n \in 1 .. Len(groups[i]) : \E k \in 1 .. m : groups[i][n] = s[k]
    /\ \A k \in 1 .. m : \E i \in 1 .. c : \E n \in 1 .. Len(groups[i]) : groups[i][n] = s[k]
Distant(groups, c) ==
    \A i, j \in 1 .. c : i < j =>
        \A n \in 1 .. Len(groups[i]), p \in 1 .. Len(groups[j]) :
            groups[i][n].to + Tolerance < groups[j][p].from
Linked(groups, c) ==
    \A i \in 1 .. c : \A n \in 1 .. Len(groups[i]) :
        /\ groups[i][1].from <= groups[i][n].from
        /\ n > 1 => \E k \in 1 .. (n - 1) : Near(groups[i][k], groups[i][n])
Grouped(groups, c, s, m) ==
    Filed(groups, c) /\ Held(groups, c, s, m) /\ Distant(groups, c) /\ Linked(groups, c)

(* The windows as the sweep meets them.                                    *)
Swept(s) ==
    /\ s \in Seq(Window)
    /\ \A k \in 1 .. Len(s) : s[k].from \in Int /\ s[k].to \in Int /\ s[k].from <= s[k].to
    /\ \A j, k \in 1 .. Len(s) : j <= k => s[j].from <= s[k].from

LEMMA ReachIs ==
    ASSUME NEW group \in Seq(Window), Len(group) >= 1
    PROVE  /\ \A n \in 1 .. Len(group) : group[n].to <= Max({v.to : v \in ToSet(group)})
           /\ \E n \in 1 .. Len(group) : group[n].to = Max({v.to : v \in ToSet(group)})
           /\ Max({v.to : v \in ToSet(group)}) \in Int
  <1> DEFINE tos == {v.to : v \in ToSet(group)}
  <1>1. DOMAIN group = 1 .. Len(group) /\ Len(group) \in Nat
        /\ \A n \in 1 .. Len(group) : group[n] \in Window
    OBVIOUS
  <1>2. tos = {group[n].to : n \in 1 .. Len(group)}
    BY <1>1 DEF ToSet
  <1>3. \A n \in 1 .. Len(group) : group[n].to \in Int
    BY <1>1, WindowFieldsAre
  <1>4. tos \subseteq Int /\ tos # {} /\ IsFiniteSet(tos)
    <2>1. IsFiniteSet(1 .. Len(group))
      <3>1. 1 \in Int /\ Len(group) \in Int
        BY <1>1
      <3> QED BY <3>1, FS_Interval
    <2>2. IsFiniteSet(tos)
      <3> DEFINE f == [n \in 1 .. Len(group) |-> group[n].to]
      <3>1. tos = {f[n] : n \in 1 .. Len(group)}
        BY <1>2
      <3> HIDE DEF f, tos
      <3> QED BY <2>1, <3>1, ImageIsFinite
    <2>3. 1 \in 1 .. Len(group)
      BY <1>1
    <2> HIDE DEF tos
    <2> QED BY <1>2, <1>3, <2>2, <2>3
  <1> HIDE DEF tos
  <1>5. Max(tos) \in tos /\ \A x \in tos : Max(tos) >= x
    <2>1. PICK x \in tos : \A y \in tos : y <= x
      BY <1>4, GreatestOf
    <2>2. \A y \in tos : x >= y
      BY <1>4, <2>1
    <2> QED BY <2>2, MaxIs
  <1>6. \A n \in 1 .. Len(group) : group[n].to \in tos
    BY <1>2
  <1>7. \A n \in 1 .. Len(group) : group[n].to <= Max(tos)
    <2> TAKE n \in 1 .. Len(group)
    <2>1. Max(tos) >= group[n].to /\ Max(tos) \in Int /\ group[n].to \in Int
      BY <1>3, <1>4, <1>5, <1>6
    <2> QED BY <2>1
  <1> QED BY <1>2, <1>4, <1>5, <1>7 DEF tos

(* A window that begins a group of its own.                                *)
LEMMA BeginsGroup ==
    ASSUME NEW s, Swept(s), NEW m \in 1 .. Len(s), NEW old, NEW c \in Nat, Grouped(old, c, s, m - 1),
           NEW new, \A i \in 1 .. c : new[i] = old[i], Len(new[c + 1]) = 1, new[c + 1][1] = s[m],
           \A i \in 1 .. c : \A n \in 1 .. Len(old[i]) : old[i][n].to + Tolerance < s[m].from
    PROVE  Grouped(new, c + 1, s, m)
  <1>1. Len(new[c + 1]) = 1 /\ new[c + 1][1] = s[m] /\ \A i \in 1 .. c : new[i] = old[i]
    OBVIOUS
  <1>2. m \in Nat /\ s[m].from \in Int /\ Len(s) \in Nat
    <2>1. Len(s) \in Nat
      BY DEF Swept
    <2> QED BY <2>1 DEF Swept
  <1>3. \A i \in 1 .. c + 1 : i \in 1 .. c \/ i = c + 1
    BY <1>1
  <1>4. Filed(new, c + 1)
    BY <1>1, <1>3 DEF Grouped, Filed
  <1>5. Held(new, c + 1, s, m)
    <2>1. ASSUME NEW i \in 1 .. c + 1, NEW n \in 1 .. Len(new[i]) PROVE \E k \in 1 .. m : new[i][n] = s[k]
      <3>1. CASE i \in 1 .. c
        <4>1. PICK k \in 1 .. m - 1 : old[i][n] = s[k]
          BY <1>1, <3>1 DEF Grouped, Held
        <4>2. k \in 1 .. m
          BY <1>2
        <4> QED BY <1>1, <3>1, <4>1, <4>2
      <3>2. CASE i = c + 1
        <4>0. Len(new[i]) = 1 /\ new[i][1] = s[m]
          BY <1>1, <3>2
        <4>1. n = 1 /\ m \in 1 .. m
          BY <1>2, <4>0
        <4> QED BY <4>0, <4>1
      <3> QED BY <1>3, <3>1, <3>2
    <2>2. ASSUME NEW k \in 1 .. m PROVE \E i \in 1 .. c + 1 : \E n \in 1 .. Len(new[i]) : new[i][n] = s[k]
      <3>1. CASE k \in 1 .. m - 1
        <4>1. PICK i \in 1 .. c : \E n \in 1 .. Len(old[i]) : old[i][n] = s[k]
          BY <3>1 DEF Grouped, Held
        <4>2. i \in 1 .. c + 1
          BY <1>1
        <4> QED BY <1>1, <4>1, <4>2
      <3>2. CASE k = m
        <4>1. c + 1 \in 1 .. c + 1 /\ 1 \in 1 .. Len(new[c + 1])
          BY <1>1
        <4> QED BY <1>1, <3>2, <4>1
      <3>3. k \in 1 .. m - 1 \/ k = m
        BY <1>2
      <3> QED BY <3>1, <3>2, <3>3
    <2> QED BY <1>1, <2>1, <2>2 DEF Held
  <1>6. Distant(new, c + 1)
    <2> SUFFICES ASSUME NEW i \in 1 .. c + 1, NEW j \in 1 .. c + 1, i < j,
                        NEW n \in 1 .. Len(new[i]), NEW p \in 1 .. Len(new[j])
                 PROVE  new[i][n].to + Tolerance < new[j][p].from
      BY <1>1 DEF Distant
    <2>1. i \in 1 .. c
      BY <1>1
    <2>2. CASE j \in 1 .. c
      BY <1>1, <2>1, <2>2 DEF Grouped, Distant
    <2>3. CASE j = c + 1
      <3>0. Len(new[j]) = 1 /\ new[j][1] = s[m]
        BY <1>1, <2>3
      <3>1. p = 1 /\ new[j][p] = s[m]
        BY <3>0
      <3> QED BY <1>1, <2>1, <3>1
    <2> QED BY <1>3, <2>2, <2>3
  <1>7. Linked(new, c + 1)
    <2> SUFFICES ASSUME NEW i \in 1 .. c + 1, NEW n \in 1 .. Len(new[i])
                 PROVE  /\ new[i][1].from <= new[i][n].from
                        /\ n > 1 => \E k \in 1 .. (n - 1) : Near(new[i][k], new[i][n])
      BY <1>1 DEF Linked
    <2>1. CASE i \in 1 .. c
      BY <1>1, <2>1 DEF Grouped, Linked
    <2>2. CASE i = c + 1
      <3>0. Len(new[i]) = 1 /\ new[i][1] = s[m]
        BY <1>1, <2>2
      <3>1. n = 1 /\ new[i][1] = s[m]
        BY <3>0
      <3> QED BY <1>2, <3>1
    <2> QED BY <1>3, <2>1, <2>2
  <1> QED BY <1>4, <1>5, <1>6, <1>7 DEF Grouped

(* A window that joins the last group.                                     *)
Widens(new, old, c, w) ==
    /\ \A i \in 1 .. c : i # c => new[i] = old[i]
    /\ Len(old[c]) \in Nat /\ Len(new[c]) = Len(old[c]) + 1 /\ new[c][Len(old[c]) + 1] = w
    /\ \A n \in 1 .. Len(old[c]) : new[c][n] = old[c][n]

LEMMA JoinsGroup ==
    ASSUME NEW s, Swept(s), NEW m \in 1 .. Len(s), NEW old, NEW c \in Nat \ {0}, Grouped(old, c, s, m - 1),
           NEW new, Widens(new, old, c, s[m]),
           NEW r \in 1 .. Len(old[c]), s[m].from <= old[c][r].to + Tolerance
    PROVE  Grouped(new, c, s, m)
  <1> DEFINE last == old[c]
             more == new[c]
             z == Len(last)
  <1>1. c \in 1 .. c /\ new[c] = more /\ last = old[c] /\ \A i \in 1 .. c : i # c => new[i] = old[i]
    BY DEF Widens
  <1>2. /\ m \in Nat /\ s[m] \in Window /\ s[m].from \in Int /\ s[m].to \in Int /\ s[m].from <= s[m].to
        /\ Len(s) \in Nat
    <2>1. Len(s) \in Nat /\ s[m] \in Window
      BY DEF Swept
    <2> QED BY <2>1 DEF Swept
  <1>3. /\ z \in Nat /\ Len(more) = z + 1 /\ more[z + 1] = s[m] /\ \A n \in 1 .. z : more[n] = last[n]
        /\ Len(last) = z /\ r \in 1 .. z /\ s[m].from <= last[r].to + Tolerance
    BY DEF Widens
  <1> HIDE DEF last, more, z
  <1>4. z >= 1 /\ 1 \in 1 .. z
    BY <1>1, <1>3 DEF Grouped, Filed
  <1>5. \A n \in 1 .. z + 1 : n \in 1 .. z \/ n = z + 1
    BY <1>3
  <1>6. \A n \in 1 .. z : /\ last[n].from \in Int /\ last[n].to \in Int
                          /\ \E k \in 1 .. (m - 1) : last[n] = s[k]
    <2> TAKE n \in 1 .. z
    <2>1. \E k \in 1 .. (m - 1) : last[n] = s[k]
      BY <1>1, <1>3 DEF Grouped, Held
    <2>2. PICK k \in 1 .. (m - 1) : last[n] = s[k]
      BY <2>1
    <2>3. k \in 1 .. Len(s)
      BY <1>2
    <2> QED BY <2>1, <2>2, <2>3 DEF Swept
  <1>7. \A k \in 1 .. (m - 1) : k \in 1 .. Len(s) /\ s[k].from <= s[m].from
    <2> TAKE k \in 1 .. (m - 1)
    <2>1. k \in 1 .. Len(s) /\ k <= m
      BY <1>2
    <2> QED BY <2>1 DEF Swept
  <1>8. Filed(new, c)
    BY <1>1, <1>3 DEF Grouped, Filed
  <1>9. Held(new, c, s, m)
    <2>1. ASSUME NEW i \in 1 .. c, NEW n \in 1 .. Len(new[i]) PROVE \E k \in 1 .. m : new[i][n] = s[k]
      <3>1. CASE i # c
        <4>0. new[i] = old[i]
          BY <1>1, <3>1
        <4>1. PICK k \in 1 .. m - 1 : old[i][n] = s[k]
          BY <4>0 DEF Grouped, Held
        <4>2. k \in 1 .. m
          BY <1>2
        <4> QED BY <4>0, <4>1, <4>2
      <3>2. CASE i = c /\ n \in 1 .. z
        <4>1. PICK k \in 1 .. m - 1 : last[n] = s[k]
          BY <1>6, <3>2
        <4>2. k \in 1 .. m
          BY <1>2
        <4> QED BY <1>1, <1>3, <3>2, <4>1, <4>2
      <3>3. CASE i = c /\ n = z + 1
        <4>1. m \in 1 .. m
          BY <1>2
        <4> QED BY <1>1, <1>3, <3>3, <4>1
      <3> QED BY <1>1, <1>3, <1>5, <3>1, <3>2, <3>3
    <2>2. ASSUME NEW k \in 1 .. m PROVE \E i \in 1 .. c : \E n \in 1 .. Len(new[i]) : new[i][n] = s[k]
      <3>1. CASE k \in 1 .. m - 1
        <4>1. PICK i \in 1 .. c : \E n \in 1 .. Len(old[i]) : old[i][n] = s[k]
          BY <3>1 DEF Grouped, Held
        <4>2. PICK n \in 1 .. Len(old[i]) : old[i][n] = s[k]
          BY <4>1
        <4>3. CASE i # c
          BY <1>1, <4>2, <4>3
        <4>4. CASE i = c
          <5>1. n \in 1 .. z /\ n \in 1 .. z + 1 /\ last[n] = s[k]
            BY <1>1, <1>3, <4>2, <4>4
          <5>2. new[c] = more /\ n \in 1 .. Len(more) /\ more[n] = s[k]
            BY <1>1, <1>3, <5>1
          <5>3. n \in 1 .. Len(new[c]) /\ new[c][n] = s[k]
            BY <5>2
          <5> QED BY <1>1, <5>3
        <4> QED BY <4>3, <4>4
      <3>2. CASE k = m
        <4>1. z + 1 \in 1 .. z + 1
          BY <1>3
        <4> QED BY <1>1, <1>3, <3>2, <4>1
      <3>3. k \in 1 .. m - 1 \/ k = m
        BY <1>2
      <3> QED BY <3>1, <3>2, <3>3
    <2> QED BY <1>1, <2>1, <2>2 DEF Held
  <1>10. Distant(new, c)
    <2> SUFFICES ASSUME NEW i \in 1 .. c, NEW j \in 1 .. c, i < j,
                        NEW n \in 1 .. Len(new[i]), NEW p \in 1 .. Len(new[j])
                 PROVE  new[i][n].to + Tolerance < new[j][p].from
      BY <1>1 DEF Distant
    <2>1. i # c /\ new[i] = old[i]
      BY <1>1
    <2>2. CASE j # c
      BY <1>1, <2>1, <2>2 DEF Grouped, Distant
    <2>3. CASE j = c /\ p \in 1 .. z
      BY <1>1, <1>3, <2>1, <2>3 DEF Grouped, Distant
    <2>4. CASE j = c /\ p = z + 1
      <3>1. new[j][p] = s[m]
        BY <1>1, <1>3, <2>4
      <3>2. old[i][n].to + Tolerance < last[1].from
        BY <1>1, <1>4, <2>1, <2>4 DEF Grouped, Distant
      <3>3. last[1].from \in Int /\ last[1].from <= s[m].from
        BY <1>4, <1>6, <1>7
      <3>4. old[i][n].to \in Int
        <4>0. n \in 1 .. Len(old[i])
          BY <2>1
        <4>1. PICK k \in 1 .. m - 1 : old[i][n] = s[k]
          BY <4>0 DEF Grouped, Held
        <4> QED BY <1>7, <4>1 DEF Swept
      <3>5. Tolerance \in Int
        BY ToleranceAssumption
      <3>6. new[i][n] = old[i][n]
        BY <2>1
      <3> DEFINE x == old[i][n].to
                 y == last[1].from
                 w == s[m].from
      <3>7. x \in Int /\ y \in Int /\ w \in Int /\ x + Tolerance < y /\ y <= w
        BY <1>2, <3>2, <3>3, <3>4
      <3>8. x + Tolerance < w
        <4> HIDE DEF x, y, w
        <4> QED BY <3>5, <3>7
      <3> QED BY <3>1, <3>6, <3>8
    <2>5. j # c \/ (j = c /\ p \in 1 .. z) \/ (j = c /\ p = z + 1)
      BY <1>1, <1>3, <1>5
    <2> QED BY <2>2, <2>3, <2>4, <2>5
  <1>11. Linked(new, c)
    <2> SUFFICES ASSUME NEW i \in 1 .. c, NEW n \in 1 .. Len(new[i])
                 PROVE  /\ new[i][1].from <= new[i][n].from
                        /\ n > 1 => \E k \in 1 .. (n - 1) : Near(new[i][k], new[i][n])
      BY <1>1 DEF Linked
    <2>1. CASE i # c
      BY <1>1, <2>1 DEF Grouped, Linked
    <2>2. CASE i = c /\ n \in 1 .. z
      <3>1. /\ last[1].from <= last[n].from
            /\ n > 1 => \E k \in 1 .. (n - 1) : Near(last[k], last[n])
        BY <1>1, <1>3, <2>2 DEF Grouped, Linked
      <3>2. \A k \in 1 .. (n - 1) : k \in 1 .. z
        BY <1>3, <2>2
      <3> QED BY <1>1, <1>3, <1>4, <2>2, <3>1, <3>2
    <2>3. CASE i = c /\ n = z + 1
      <3>1. new[i][1] = last[1] /\ new[i][n] = s[m] /\ new[i][r] = last[r] /\ r \in 1 .. (n - 1)
        BY <1>1, <1>3, <1>4, <2>3
      <3>2. last[1].from <= s[m].from
        BY <1>4, <1>6, <1>7
      <3>3. Near(last[r], s[m])
        <4> DEFINE x == last[r].from
                   y == last[r].to
                   v == s[m].from
                   w == s[m].to
        <4>1. x \in Int /\ x <= v /\ Tolerance \in Nat
          BY <1>3, <1>6, <1>7, ToleranceAssumption
        <4>2. v \in Int /\ w \in Int /\ v <= w
          BY <1>2
        <4>3. v <= y + Tolerance
          BY <1>3
        <4>4. x <= w + Tolerance
          <5> HIDE DEF x, v, w
          <5> QED BY <4>1, <4>2
        <4> QED BY <4>3, <4>4 DEF Near
      <3> QED BY <3>1, <3>2, <3>3
    <2>4. i # c \/ (i = c /\ n \in 1 .. z) \/ (i = c /\ n = z + 1)
      BY <1>1, <1>3, <1>5
    <2> QED BY <2>1, <2>2, <2>3, <2>4
  <1> QED BY <1>8, <1>9, <1>10, <1>11 DEF Grouped

-----------------------------------------------------------------------------
(* The whole sweep.                                                        *)

LEMMA Behind ==
    ASSUME NEW x \in Int, NEW y \in Int, NEW z \in Int, NEW t \in Int, x <= y, y + t < z
    PROVE  x + t < z
  OBVIOUS

LEMMA Beyond ==
    ASSUME NEW x \in Int, NEW y \in Int, NEW z \in Int, NEW t \in Int, x + t < y, y <= z
    PROVE  x + t < z
  OBVIOUS

LEMMA GroupsGrow ==
    ASSUME NEW s, Swept(s), NEW V, V \subseteq Window, NEW m \in 1 .. Len(s), s[m] \in V,
           NEW old \in Seq(Seq(V)), Grouped(old, Len(old), s, m - 1),
           NEW new, new = Placing(old, s[m])
    PROVE  Grouped(new, Len(new), s, m)
  <1> DEFINE c == Len(old)
             one == <<s[m]>>
             W == Seq(V)
  <1>1. c \in Nat /\ (old # <<>> <=> c \in Nat \ {0})
    OBVIOUS
  <1>2. /\ Len(s) \in Nat /\ m \in Int /\ s[m].from \in Int /\ Tolerance \in Int
        /\ \A k \in 1 .. Len(s) : s[k].from \in Int /\ s[k].to \in Int
    <2>1. Len(s) \in Nat
      BY DEF Swept
    <2> QED BY <2>1, ToleranceAssumption DEF Swept
  <1>3. \A i \in 1 .. c : old[i] \in W
    <2> HIDE DEF W
    <2>1. old \in Seq(W)
      BY DEF W
    <2> QED BY <2>1
  <1>4. ASSUME NEW i \in 1 .. c, NEW n \in 1 .. Len(old[i])
        PROVE  old[i][n].to \in Int /\ old[i][n].from \in Int
    <2>1. PICK k \in 1 .. m - 1 : old[i][n] = s[k]
      BY DEF Grouped, Held
    <2>2. k \in 1 .. Len(s)
      BY <1>2
    <2> QED BY <1>2, <2>1, <2>2
  <1>5. CASE old # <<>> /\ Joins(old[c], s[m])
    <2> DEFINE last == old[c]
               z == Len(last)
               more == Append(last, s[m])
    <2>1. c \in Nat \ {0} /\ c \in 1 .. c
      BY <1>1, <1>5
    <2>2. last \in Seq(V) /\ z \in Nat \ {0}
      <3>1. Len(old[c]) \in Nat \ {0}
        BY <2>1 DEF Grouped, Filed
      <3> QED BY <1>3, <2>1, <3>1
    <2>3. new = [old EXCEPT ![c] = more]
      BY <1>5 DEF Placing, Last
    <2>4. Len(new) = c /\ new[c] = more /\ \A i \in 1 .. c : i # c => new[i] = old[i]
      <3>1. old \in Seq(W) /\ DOMAIN old = 1 .. c
        OBVIOUS
      <3> HIDE DEF more, W, c
      <3>2. DOMAIN new = 1 .. c /\ new[c] = more /\ \A i \in 1 .. c : i # c => new[i] = old[i]
        BY <2>1, <2>3, <3>1
      <3>3. Len(new) = c
        BY <2>3, <3>1 DEF c
      <3> QED BY <3>2, <3>3
    <2>5. Len(more) = z + 1 /\ more[z + 1] = s[m] /\ \A n \in 1 .. z : more[n] = last[n]
      BY <2>2
    <2>6. PICK r \in 1 .. z : s[m].from <= last[r].to + Tolerance
      <3>1. s[m].from <= Max({v.to : v \in ToSet(last)}) + Tolerance
        BY <1>5 DEF Joins
      <3>2. last \in Seq(Window) /\ z >= 1
        BY <2>2
      <3> HIDE DEF last
      <3>3. \E n \in 1 .. Len(last) : last[n].to = Max({v.to : v \in ToSet(last)})
        BY <3>2, ReachIs
      <3> QED BY <3>1, <3>3
    <2> HIDE DEF more, z, last, c
    <2>7. Grouped(new, c, s, m)
      <3>1. Widens(new, old, c, s[m]) /\ r \in 1 .. Len(old[c]) /\ s[m].from <= old[c][r].to + Tolerance
        <4>1. last = old[c] /\ Len(last) = z /\ z \in Nat
          BY <2>2 DEF last, z
        <4> QED BY <2>4, <2>5, <2>6, <4>1 DEF Widens
      <3>2. Grouped(old, c, s, m - 1)
        BY DEF c
      <3> QED BY <2>1, <3>1, <3>2, JoinsGroup
    <2> QED BY <2>4, <2>7
  <1>6. CASE ~(old # <<>> /\ Joins(old[c], s[m]))
    <2>1. new = Append(old, one)
      BY <1>6 DEF Placing, Last
    <2>2. Len(new) = c + 1 /\ new[c + 1] = one /\ \A i \in 1 .. c : new[i] = old[i]
      <3>1. old \in Seq(W)
        OBVIOUS
      <3> HIDE DEF one, W
      <3> QED BY <2>1, <3>1
    <2>3. Len(new[c + 1]) = 1 /\ new[c + 1][1] = s[m]
      <3>1. Len(one) = 1 /\ one[1] = s[m]
        OBVIOUS
      <3> HIDE DEF one
      <3> QED BY <2>2, <3>1
    <2>4. ASSUME NEW i \in 1 .. c, NEW n \in 1 .. Len(old[i]) PROVE old[i][n].to + Tolerance < s[m].from
      <3>1. c \in Nat \ {0} /\ c \in 1 .. c /\ ~Joins(old[c], s[m])
        BY <1>1, <1>6
      <3>2. ASSUME NEW p \in 1 .. Len(old[c]) PROVE old[c][p].to + Tolerance < s[m].from
        <4> DEFINE last == old[c]
                   top == Max({v.to : v \in ToSet(last)})
        <4>1. ~(s[m].from <= top + Tolerance)
          BY <3>1 DEF Joins
        <4>2. last \in Seq(Window) /\ Len(last) >= 1
          <5>1. Len(old[c]) \in Nat \ {0}
            BY <3>1 DEF Grouped, Filed
          <5>2. old[c] \in Seq(V)
            BY <1>3, <3>1
          <5> QED BY <5>1, <5>2
        <4> HIDE DEF last
        <4>3. last[p].to <= top /\ top \in Int
          BY <4>2, ReachIs DEF last
        <4>4. last[p].to \in Int
          BY <1>4, <3>1 DEF last
        <4> HIDE DEF top
        <4>5. s[m].from \in Int /\ Tolerance \in Int
          BY <1>2
        <4>6. last[p].to + Tolerance < s[m].from
          <5> HIDE DEF last
          <5>1. top + Tolerance < s[m].from
            BY <4>1, <4>3, <4>5
          <5> QED BY ONLY <4>3, <4>4, <4>5, <5>1, Behind
        <4> QED BY <4>6 DEF last
      <3>3. CASE i = c
        BY <3>2, <3>3
      <3>4. CASE i # c
        <4>1. Len(old[c]) \in Nat \ {0}
          BY <3>1 DEF Grouped, Filed
        <4>2. i < c /\ 1 \in 1 .. Len(old[c])
          BY <3>1, <3>4, <4>1
        <4>3. old[i][n].to + Tolerance < old[c][1].from
          BY <3>1, <4>2 DEF Grouped, Distant
        <4>4. PICK k \in 1 .. m - 1 : old[c][1] = s[k]
          BY <3>1, <4>2 DEF Grouped, Held
        <4>5. k \in 1 .. Len(s) /\ k <= m
          BY <1>2
        <4>6. old[c][1].from <= s[m].from
          BY <4>4, <4>5 DEF Swept
        <4>7. old[i][n].to \in Int /\ old[c][1].from \in Int
          BY <1>4, <3>1, <4>2
        <4> QED BY <1>2, <4>3, <4>6, <4>7, Beyond
      <3> QED BY <3>3, <3>4
    <2> HIDE DEF c
    <2>5. Grouped(new, c + 1, s, m)
      <3>1. Grouped(old, c, s, m - 1) /\ c \in Nat
        BY <1>1 DEF c
      <3>2. \A i \in 1 .. c : \A n \in 1 .. Len(old[i]) : old[i][n].to + Tolerance < s[m].from
        BY <2>4
      <3> QED BY <2>2, <2>3, <3>1, <3>2, BeginsGroup
    <2> QED BY <2>2, <2>5
  <1> QED BY <1>5, <1>6

(* What the pass over the windows makes of them.                           *)
Sorts(groups, windows) ==
    /\ groups \in Seq(Seq(windows)) /\ Filed(groups, Len(groups))
    /\ Distant(groups, Len(groups)) /\ Linked(groups, Len(groups))
    /\ \A w \in windows : \E i \in 1 .. Len(groups) : w \in ToSet(groups[i])

LEMMA SweepSorts ==
    ASSUME NEW windows, IsFiniteSet(windows), windows \subseteq Window, \A w \in windows : w.from <= w.to
    PROVE  Sorts(SweepClusters(windows), windows)
  <1> DEFINE s == Sorted(windows, CompareWindows)
             n == Len(s)
  <1>1. IsLine(s, windows, WindowOrder(windows))
    BY SweptIsLine
  <1> HIDE DEF s
  <1>2. /\ s \in Seq(windows) /\ n \in Nat
        /\ \A k \in 1 .. n : s[k] \in windows /\ s[k] \in Window
        /\ \A w \in windows : \E k \in 1 .. n : s[k] = w
    <2>1. s \in Seq(windows)
      BY <1>1 DEF IsLine
    <2>2. n \in Nat /\ \A k \in 1 .. n : s[k] \in windows
      BY <2>1
    <2> QED BY <1>1, <2>1, <2>2 DEF IsLine
  <1>3. \A k \in 1 .. n : s[k].from \in Int /\ s[k].to \in Int /\ s[k].from <= s[k].to
    BY <1>2, WindowFieldsAre
  <1>4. Swept(s)
    <2>1. ASSUME NEW j \in 1 .. n, NEW k \in 1 .. n, j <= k PROVE s[j].from <= s[k].from
      <3>1. CASE j = k
        BY <1>3, <3>1
      <3>2. CASE j # k
        <4>1. j < k
          BY <2>1, <3>2
        <4>2. <<s[j], s[k]>> \in WindowOrder(windows)
          BY <1>1, <4>1 DEF IsLine
        <4>3. CompareWindows(s[j], s[k])
          BY <4>2 DEF WindowOrder
        <4> QED BY <1>3, <4>3 DEF CompareWindows
      <3> QED BY <3>1, <3>2
    <2>2. s \in Seq(Window)
      BY <1>2
    <2> QED BY <1>3, <2>1, <2>2 DEF Swept
  <1>5. PICK f : Sweeps(f, s, windows) /\ f[n] = SweepClusters(windows)
    BY <1>2, SweepIsWalk DEF s
  <1> HIDE DEF n
  <1> DEFINE T == {m \in 0 .. n : Grouped(f[m], Len(f[m]), s, m)}
  <1>6. \A m \in 0 .. n : m \in T
    <2>1. 0 \in T
      <3>1. f[0] = <<>> /\ Len(f[0]) = 0 /\ 0 \in 0 .. n
        BY <1>2, <1>5 DEF Sweeps
      <3>2. Grouped(f[0], 0, s, 0)
        BY DEF Grouped, Filed, Held, Distant, Linked
      <3> QED BY <3>1, <3>2
    <2>2. \A m \in 1 .. n : m - 1 \in T => m \in T
      <3> TAKE m \in 1 .. n
      <3> HAVE m - 1 \in T
      <3>1. m - 1 \in 0 .. n /\ m \in 0 .. n
        BY <1>2
      <3>2. f[m - 1] \in Seq(Seq(windows)) /\ f[m] = Placing(f[m - 1], s[m])
        BY <1>5, <3>1 DEF Sweeps, n
      <3>3. Grouped(f[m - 1], Len(f[m - 1]), s, m - 1)
        OBVIOUS
      <3>4. Grouped(f[m], Len(f[m]), s, m)
        BY <1>2, <1>4, <3>2, <3>3, GroupsGrow DEF n
      <3> QED BY <3>1, <3>4
    <2> HIDE DEF T
    <2> QED BY <1>2, <2>1, <2>2, Climbing
  <1> DEFINE groups == SweepClusters(windows)
  <1>7. groups \in Seq(Seq(windows)) /\ Grouped(groups, Len(groups), s, n)
    <2>1. n \in 0 .. n
      BY <1>2
    <2>2. f[n] \in Seq(Seq(windows))
      BY <1>5, <2>1 DEF Sweeps, n
    <2> QED BY <1>5, <1>6, <2>1, <2>2
  <1> HIDE DEF groups, T
  <1>8. ASSUME NEW w \in windows PROVE \E i \in 1 .. Len(groups) : w \in ToSet(groups[i])
    <2>1. PICK k \in 1 .. n : s[k] = w
      BY <1>2
    <2>2. PICK i \in 1 .. Len(groups) : \E p \in 1 .. Len(groups[i]) : groups[i][p] = s[k]
      BY <1>7 DEF Grouped, Held
    <2>3. PICK p \in 1 .. Len(groups[i]) : groups[i][p] = w
      BY <2>1, <2>2
    <2>4. groups[i] \in Seq(windows)
      <3> DEFINE W == Seq(windows)
      <3>1. groups \in Seq(W)
        BY <1>7
      <3> HIDE DEF W
      <3>2. groups[i] \in W
        BY <3>1
      <3> QED BY <3>2 DEF W
    <2>5. p \in DOMAIN groups[i]
      BY <2>4
    <2> QED BY <2>3, <2>5 DEF ToSet
  <1> QED BY <1>7, <1>8 DEF Sorts, Grouped, groups

-----------------------------------------------------------------------------
(* What reaches a window by steps no wider than the tolerance is its group.*)

(* What a window reaches, by steps no wider than the tolerance.            *)
Spreads(reached, windows) == reached \cup {v \in windows : \E u \in reached : Near(u, v)}
Spreading(f, w, windows) ==
    /\ f[0] = {w}
    /\ \A m \in 1 .. Cardinality(windows) : f[m] = Spreads(f[m - 1], windows)
ClosedIn(X, windows) == \A u \in X, v \in windows : Near(u, v) => v \in X

LEMMA ComponentIsWalk ==
    ASSUME NEW windows, IsFiniteSet(windows), NEW w \in windows
    PROVE  \E f : Spreading(f, w, windows) /\ f[Cardinality(windows)] = Component(w, windows)
  <1> DEFINE n == Cardinality(windows)
             A == SUBSET windows
             s == [i \in 1 .. n |-> i]
             op(i, reached) == Spreads(reached, windows)
             F(g) == [t \in SUBSET (1 .. n) |-> IF t = {} THEN {w} ELSE op(s[Max(t)], g[t \ {Max(t)}])]
             total == CHOOSE g : g = F(g)
             step == [p \in (1 .. n) \X A |-> Spreads(p[2], windows)]
  <1>0. n \in Nat
    BY FS_CardinalityType
  <1>1. DOMAIN s = 1 .. n
    OBVIOUS
  <1>2. Component(w, windows) = total[1 .. n]
    <2> HIDE DEF n
    <2> QED BY <1>1 DEF Component, FoldLeft, MapThenFoldSet, Spreads, Near, n
  <1> HIDE DEF n, s
  <1>3. \A a \in A : Spreads(a, windows) \in A
    BY DEF Spreads
  <1>4. step \in [(1 .. n) \X A -> A]
    BY <1>3
  <1>5. \A i \in 1 .. n : \A a \in A : step[<<i, a>>] = Spreads(a, windows)
    OBVIOUS
  <1>6. {w} \in A
    OBVIOUS
  <1> HIDE DEF step, A
  <1>7. PICK g \in [SUBSET (1 .. n) -> A] : IsFold(g, n, {w}, step)
    BY <1>0, <1>4, <1>6, FoldExists
  <1>8. \A t \in SUBSET (1 .. n) : t # {} => Max(t) \in 1 .. n /\ t \ {Max(t)} \in SUBSET (1 .. n)
    BY <1>0, MaxLast
  <1>9. \A t \in SUBSET (1 .. n) : g[t] = IF t = {} THEN {w} ELSE step[<<Max(t), g[t \ {Max(t)}]>>]
    BY <1>7 DEF IsFold
  <1>10. \A t \in SUBSET (1 .. n) : g[t] = F(g)[t]
    BY <1>5, <1>8, <1>9
  <1>11. g = F(g)
    BY <1>10
  <1>12. PICK h : h = F(h) /\ Component(w, windows) = h[1 .. n]
    <2>1. total = F(total)
      BY <1>11
    <2> HIDE DEF total, F
    <2> QED BY <1>2, <2>1
  <1>13. \A t \in SUBSET (1 .. n) : h[t] = IF t = {} THEN {w} ELSE Spreads(h[t \ {Max(t)}], windows)
    BY <1>12
  <1> HIDE DEF F, total
  <1>14. Climbs(h, n, A, {w}, step)
    BY <1>5, <1>8, <1>13 DEF Climbs
  <1>15. PICK f : Walks(f, n, A, {w}, step) /\ f[n] = h[1 .. n]
    <2>1. HasWalk(h, n, A, {w}, step)
      BY <1>0, <1>4, <1>6, <1>14, FoldIsWalk
    <2> QED BY <2>1 DEF HasWalk
  <1>16. \A m \in 1 .. n : f[m] = Spreads(f[m - 1], windows)
    <2> TAKE m \in 1 .. n
    <2>1. m - 1 \in 0 .. n
      BY <1>0
    <2> QED BY <1>5, <1>15, <2>1 DEF Walks
  <1> QED BY <1>12, <1>15, <1>16 DEF Walks, Spreading, n

(* The reach is in the windows, closed, and in every closed set with the   *)
(* window: as many steps as there are windows are enough to close it.      *)
LEMMA ComponentIs ==
    ASSUME NEW windows, IsFiniteSet(windows), NEW w \in windows
    PROVE  /\ Component(w, windows) \subseteq windows /\ w \in Component(w, windows)
           /\ ClosedIn(Component(w, windows), windows)
           /\ \A X : w \in X /\ ClosedIn(X, windows) => Component(w, windows) \subseteq X
  <1> DEFINE n == Cardinality(windows)
  <1>1. n \in Nat
    BY FS_CardinalityType
  <1>2. PICK f : Spreading(f, w, windows) /\ f[n] = Component(w, windows)
    BY ComponentIsWalk
  <1>3. f[0] = {w} /\ \A m \in 1 .. n : f[m] = Spreads(f[m - 1], windows)
    BY <1>2 DEF Spreading
  <1>4. n \in 0 .. n
    BY <1>1
  <1>5. \A m \in 0 .. n : f[m] \subseteq windows /\ w \in f[m]
    <2> DEFINE T == {m \in 0 .. n : f[m] \subseteq windows /\ w \in f[m]}
    <2>1. 0 \in T
      BY <1>1, <1>3
    <2>2. \A m \in 1 .. n : m - 1 \in T => m \in T
      BY <1>1, <1>3 DEF Spreads
    <2>3. \A m \in 0 .. n : m \in T
      <3> HIDE DEF T, n
      <3> QED BY <1>1, <2>1, <2>2, Climbing
    <2> QED BY <2>3
  <1>6. ASSUME NEW m \in 0 .. n
        PROVE  ClosedIn(f[m], windows) \/ Cardinality(f[m]) >= m + 1
    <2> DEFINE T == {k \in 0 .. n : ClosedIn(f[k], windows) \/ Cardinality(f[k]) >= k + 1}
    <2>1. 0 \in T
      <3>1. Cardinality(f[0]) = 1 /\ 0 \in 0 .. n
        <4>1. Cardinality({w}) = 1
          BY FS_Singleton
        <4> HIDE DEF n
        <4> QED BY <1>1, <1>3, <4>1
      <3> QED BY <3>1
    <2>2. ASSUME NEW k \in 1 .. n, k - 1 \in T PROVE k \in T
      <3> DEFINE old == f[k - 1]
                 new == f[k]
      <3>1. k - 1 \in 0 .. n /\ k \in 0 .. n /\ k \in Int
        BY <1>1
      <3>2. new = Spreads(old, windows) /\ old \subseteq windows /\ new \subseteq windows
        BY <1>3, <1>5, <3>1
      <3>3. CASE ClosedIn(old, windows)
        <4>1. new = old
          <5> HIDE DEF new, old
          <5> QED BY <3>2, <3>3 DEF Spreads, ClosedIn
        <4> QED BY <3>1, <3>3, <4>1
      <3>4. CASE ~ClosedIn(old, windows)
        <4>1. Cardinality(old) >= k
          BY <2>2, <3>1, <3>4
        <4>2. PICK u \in old, v \in windows : Near(u, v) /\ v \notin old
          BY <3>4 DEF ClosedIn
        <4>3. old \subseteq new /\ v \in new /\ v \notin old
          <5> HIDE DEF new, old
          <5> QED BY <3>2, <4>2 DEF Spreads
        <4>4. IsFiniteSet(new) /\ IsFiniteSet(old)
          BY <3>2, FS_Subset
        <4>5. Cardinality(old) <= Cardinality(new) /\ Cardinality(old) # Cardinality(new)
              /\ Cardinality(old) \in Nat /\ Cardinality(new) \in Nat
          <5> HIDE DEF new, old
          <5> QED BY <4>3, <4>4, FS_Subset, FS_CardinalityType
        <4>6. Cardinality(new) >= k + 1
          <5> HIDE DEF new, old
          <5> QED BY <3>1, <4>1, <4>5
        <4> QED BY <3>1, <4>6
      <3> QED BY <3>3, <3>4
    <2>3. \A k \in 0 .. n : k \in T
      <3> HIDE DEF T, n
      <3> QED BY <1>1, <2>1, <2>2, Climbing
    <2> QED BY <2>3
  <1>7. ClosedIn(f[n], windows)
    <2>1. Cardinality(f[n]) <= n /\ Cardinality(f[n]) \in Nat
      BY <1>4, <1>5, FS_Subset, FS_CardinalityType
    <2> HIDE DEF n
    <2> QED BY <1>1, <1>4, <1>6, <2>1
  <1>8. ASSUME NEW X, w \in X, ClosedIn(X, windows) PROVE f[n] \subseteq X
    <2> DEFINE T == {m \in 0 .. n : f[m] \subseteq X}
    <2>1. 0 \in T
      BY <1>1, <1>3, <1>8
    <2>2. \A m \in 1 .. n : m - 1 \in T => m \in T
      BY <1>1, <1>3, <1>8 DEF Spreads, ClosedIn
    <2>3. \A m \in 0 .. n : m \in T
      <3> HIDE DEF T, n
      <3> QED BY <1>1, <2>1, <2>2, Climbing
    <2> QED BY <1>4, <2>3
  <1> QED BY <1>2, <1>4, <1>5, <1>7, <1>8

Fills(g, V) ==
    /\ g \in Seq(V) /\ Len(g) \in Nat \ {0}
    /\ ToSet(g) \subseteq V /\ IsFiniteSet(ToSet(g))
    /\ \A n \in 1 .. Len(g) : g[n] \in ToSet(g)
    /\ \A w \in ToSet(g) : \E n \in 1 .. Len(g) : g[n] = w

LEMMA GroupsAre ==
    ASSUME NEW windows, NEW groups, Sorts(groups, windows), NEW i \in 1 .. Len(groups)
    PROVE  Fills(groups[i], windows)
  <1> DEFINE W == Seq(windows)
             g == groups[i]
  <1>1. g \in Seq(windows)
    <2>1. groups \in Seq(W)
      BY DEF Sorts
    <2> HIDE DEF W
    <2>2. g \in W
      BY <2>1
    <2> QED BY <2>2 DEF W
  <1>2. Len(g) \in Nat \ {0}
    BY DEF Sorts, Filed
  <1> HIDE DEF g
  <1>3. IsFiniteSet(ToSet(g)) /\ ToSet(g) \subseteq windows
    BY <1>1, MembersAreFinite
  <1>4. DOMAIN g = 1 .. Len(g)
    BY <1>1
  <1>5. Fills(g, windows)
    BY <1>1, <1>2, <1>3, <1>4 DEF ToSet, Fills
  <1> QED BY <1>5 DEF g

(* Each group is all that any of its windows reaches.                      *)
LEMMA GroupIsComponent ==
    ASSUME NEW windows, IsFiniteSet(windows), windows \subseteq Window, \A w \in windows : w.from <= w.to,
           NEW groups, Sorts(groups, windows), NEW i \in 1 .. Len(groups), NEW w \in ToSet(groups[i])
    PROVE  Component(w, windows) = ToSet(groups[i])
  <1> DEFINE g == groups[i]
             G == ToSet(g)
             C == Component(w, windows)
  <1>1. /\ g \in Seq(windows) /\ Len(g) \in Nat \ {0} /\ G \subseteq windows
        /\ (\A n \in 1 .. Len(g) : g[n] \in G) /\ \A u \in G : \E n \in 1 .. Len(g) : g[n] = u
        /\ Len(groups) \in Nat
    <2>1. Len(groups) \in Nat
      BY DEF Sorts
    <2>2. Fills(g, windows)
      BY GroupsAre
    <2> HIDE DEF g
    <2> QED BY <2>1, <2>2 DEF Fills
  <1>2. /\ C \subseteq windows /\ w \in C /\ ClosedIn(C, windows)
        /\ \A X : w \in X /\ ClosedIn(X, windows) => C \subseteq X
    BY <1>1, ComponentIs
  <1>3. \A v \in windows : v.from \in Int /\ v.to \in Int /\ v.from <= v.to
    BY WindowFieldsAre
  <1>4. Tolerance \in Nat
    BY ToleranceAssumption
  <1> HIDE DEF C
  <1>5. ClosedIn(G, windows)
    <2> SUFFICES ASSUME NEW u \in G, NEW v \in windows, Near(u, v) PROVE v \in G
      BY DEF ClosedIn
    <2>1. PICK n \in 1 .. Len(g) : u = g[n]
      BY <1>1
    <2>2. PICK j \in 1 .. Len(groups) : v \in ToSet(groups[j])
      BY DEF Sorts
    <2>3. PICK p \in 1 .. Len(groups[j]) : v = groups[j][p]
      <3>1. Fills(groups[j], windows)
        BY GroupsAre
      <3> QED BY <2>2, <3>1 DEF Fills
    <2>4. u \in windows
      BY <1>1
    <2>5. ~(i < j)
      <3> SUFFICES ASSUME i < j PROVE FALSE
        OBVIOUS
      <3>1. u.to + Tolerance < v.from
        BY <2>1, <2>3 DEF Sorts, Distant
      <3>2. v.from <= u.to + Tolerance
        BY DEF Near
      <3> QED BY <1>3, <1>4, <2>4, <3>1, <3>2
    <2>6. ~(j < i)
      <3> SUFFICES ASSUME j < i PROVE FALSE
        OBVIOUS
      <3>1. v.to + Tolerance < u.from
        BY <2>1, <2>3 DEF Sorts, Distant
      <3>2. u.from <= v.to + Tolerance
        BY DEF Near
      <3> QED BY <1>3, <1>4, <2>4, <3>1, <3>2
    <2>7. i = j
      BY <1>1, <2>5, <2>6
    <2> QED BY <2>2, <2>7
  <1>6. C \subseteq G
    BY <1>2, <1>5
  <1>7. \A n \in 1 .. Len(g) : n > 1 => \E k \in 1 .. (n - 1) : Near(g[k], g[n])
    BY DEF Sorts, Linked
  <1>8. ASSUME NEW u, NEW v, Near(u, v) PROVE Near(v, u)
    BY <1>8 DEF Near
  <1> DEFINE In == {n \in 1 .. Len(g) : g[n] \in C}
             Out == {n \in 1 .. Len(g) : g[n] \notin C}
  <1>9. \A n \in 1 .. Len(g) : g[n] \in windows /\ n \in Nat
    BY <1>1
  <1>10. 1 \in In
    <2>1. In \in SUBSET Nat /\ In # {}
      <3>1. PICK n \in 1 .. Len(g) : w = g[n]
        BY <1>1
      <3> QED BY <1>2, <1>9, <3>1
    <2>2. PICK n \in In : \A m \in In : n <= m
      <3> HIDE DEF In
      <3> QED BY <2>1, Least
    <2>3. ~(n > 1)
      <3> SUFFICES ASSUME n > 1 PROVE FALSE
        OBVIOUS
      <3>1. PICK k \in 1 .. (n - 1) : Near(g[k], g[n])
        BY <1>7
      <3>2. k \in 1 .. Len(g) /\ k < n /\ Near(g[n], g[k])
        BY <1>1, <1>8, <1>9, <3>1
      <3>3. g[k] \in C
        BY <1>2, <1>9, <3>2 DEF ClosedIn
      <3> QED BY <1>9, <2>2, <3>2, <3>3
    <2>4. n = 1
      BY <1>1, <2>3
    <2> QED BY <2>4
  <1>11. Out = {}
    <2> SUFFICES ASSUME Out # {} PROVE FALSE
      OBVIOUS
    <2>1. Out \in SUBSET Nat
      BY <1>9
    <2>2. PICK n \in Out : \A m \in Out : n <= m
      <3> HIDE DEF Out
      <3> QED BY <2>1, Least
    <2>3. n > 1
      BY <1>1, <1>10
    <2>4. PICK k \in 1 .. (n - 1) : Near(g[k], g[n])
      BY <1>7, <2>3
    <2>5. k \in 1 .. Len(g) /\ k < n
      BY <1>1, <1>9, <2>4
    <2>6. g[k] \in C
      BY <1>9, <2>2, <2>5
    <2>7. g[n] \in C
      BY <1>2, <1>9, <2>4, <2>6 DEF ClosedIn
    <2> QED BY <2>7
  <1>12. G \subseteq C
    BY <1>1, <1>11
  <1> QED BY <1>6, <1>12 DEF C

-----------------------------------------------------------------------------
(* The clusters are the connected components of the windows.               *)

(* What is told of a set of windows.                                       *)
Summary(g) == <<Min({w.from : w \in g}), Max({w.to : w \in g}), {w.entity : w \in g}>>
Several(g) == Cardinality({w.entity : w \in g}) > 1

Owned(windows, inputs) == \A w \in windows : \E e \in inputs : e.entity.id = w.entity
Leads(g) == \A n \in 1 .. Len(g) : g[1].from <= g[n].from

LEMMA ClusterTells ==
    ASSUME NEW inputs, NEW windows, windows \subseteq Window, Owned(windows, inputs),
           NEW g, Fills(g, windows), Leads(g),
           NEW n, NEW devices, NEW c, c = BuildCluster(n, g, inputs, devices)
    PROVE  <<c.from, c.to, c.members>> = Summary(ToSet(g))
  <1> DEFINE G == ToSet(g)
  <1>1. /\ g \in Seq(windows) /\ Len(g) \in Nat \ {0} /\ G \subseteq windows
        /\ (\A k \in 1 .. Len(g) : g[k] \in G) /\ \A w \in G : \E k \in 1 .. Len(g) : g[k] = w
    BY DEF Fills
  <1>2. c.from = Head(g).from /\ c.to = Max({w.to : w \in G})
        /\ c.members = {e.id : e \in {m.entity : m \in {x \in inputs : x.entity.id \in {w.entity : w \in G}}}}
    BY DEF BuildCluster
  <1> HIDE DEF G
  <1>3. \A w \in G : w.from \in Int
    BY <1>1, WindowFieldsAre
  <1>4. Min({w.from : w \in G}) = Head(g).from
    <2> DEFINE S == {w.from : w \in G}
               x == Head(g).from
    <2>1. Head(g) = g[1] /\ 1 \in 1 .. Len(g)
      BY <1>1
    <2>2. x \in S
      BY <1>1, <2>1
    <2>3. \A y \in S : y \in Int /\ x <= y
      BY <1>1, <1>3, <2>1 DEF Leads
    <2>4. x \in Int
      BY <2>2, <2>3
    <2> HIDE DEF S, x
    <2>5. Min(S) \in S /\ \A y \in S : Min(S) <= y
      BY <2>2, <2>3 DEF Min
    <2>6. Min(S) \in Int /\ Min(S) <= x /\ x <= Min(S)
      BY <2>2, <2>3, <2>5
    <2>7. Min(S) = x
      BY <2>4, <2>6
    <2> QED BY <2>7 DEF S, x
  <1>5. {e.id : e \in {m.entity : m \in {x \in inputs : x.entity.id \in {w.entity : w \in G}}}} = {w.entity : w \in G}
    <2>1. \A w \in G : \E x \in inputs : x.entity.id = w.entity
      BY <1>1 DEF Owned
    <2> QED BY <2>1
  <1> QED BY <1>2, <1>4, <1>5 DEF Summary, G

(* The one pass over the sorted windows (sweepClusters, buildCluster)      *)
(* yields exactly the groups of two entities or more whose failures reach  *)
(* one another by steps within the tolerance.                              *)
THEOREM ClustersAre ==
    ASSUME NEW inputs, IsFiniteSet(inputs), Measured(inputs), NEW devices,
           NEW windows, windows = Windows(inputs)
    PROVE  AreComponents(ToSet(ClusterOutages(inputs, devices)), windows)
  <1> DEFINE groups == SweepClusters(windows)
             places == {n \in DOMAIN groups : Clustered(groups[n])}
             picked == AtPlaces(groups, places)
             clusters == ClusterOutages(inputs, devices)
             sets == {g \in {Component(w, windows) : w \in windows} : Several(g)}
  <1>1. /\ IsFiniteSet(windows) /\ windows \subseteq Window
        /\ \A w \in windows : w.from <= w.to /\ \E e \in inputs : e.entity.id = w.entity
    BY WindowsAre
  <1>2. clusters = [n \in DOMAIN picked |-> BuildCluster(n, picked[n], inputs, devices)]
    BY DEF ClusterOutages, BuildClusters
  <1> HIDE DEF clusters, groups
  <1>3. Sorts(groups, windows)
    BY <1>1, SweepSorts DEF groups
  <1>4. Len(groups) \in Nat /\ DOMAIN groups = 1 .. Len(groups) /\ places \in SUBSET (1 .. Len(groups))
    <2>1. Len(groups) \in Nat /\ DOMAIN groups = 1 .. Len(groups)
      BY <1>3 DEF Sorts
    <2> QED BY <2>1
  <1>5. ASSUME NEW i \in 1 .. Len(groups)
        PROVE  /\ Fills(groups[i], windows) /\ \A n \in 1 .. Len(groups[i]) : groups[i][1].from <= groups[i][n].from
               /\ i \in places <=> Several(ToSet(groups[i]))
               /\ \E w \in windows : w \in ToSet(groups[i])
               /\ \A w \in ToSet(groups[i]) : Component(w, windows) = ToSet(groups[i])
    <2>1. Fills(groups[i], windows)
      BY <1>3, GroupsAre
    <2>2. \A n \in 1 .. Len(groups[i]) : groups[i][1].from <= groups[i][n].from
      BY <1>3 DEF Sorts, Linked
    <2>3. i \in places <=> Several(ToSet(groups[i]))
      <3> DEFINE E == {w.entity : w \in ToSet(groups[i])}
                 f == [w \in ToSet(groups[i]) |-> w.entity]
      <3>1. E = {f[w] : w \in ToSet(groups[i])}
        OBVIOUS
      <3> HIDE DEF f
      <3>2. IsFiniteSet(ToSet(groups[i]))
        BY <2>1 DEF Fills
      <3>3. IsFiniteSet({f[w] : w \in ToSet(groups[i])})
        BY <3>2, ImageIsFinite
      <3>4. IsFiniteSet(E)
        BY <3>1, <3>3
      <3>5. Cardinality(E) \in Nat
        BY <3>4, FS_CardinalityType
      <3>6. Clustered(groups[i]) <=> Cardinality(E) >= 2
        BY DEF Clustered
      <3>7. Several(ToSet(groups[i])) <=> Cardinality(E) > 1
        BY DEF Several
      <3> HIDE DEF E
      <3>8. Clustered(groups[i]) <=> Several(ToSet(groups[i]))
        BY <3>5, <3>6, <3>7
      <3> QED BY <1>4, <3>8
    <2>4. \E w \in windows : w \in ToSet(groups[i])
      <3>1. 1 \in 1 .. Len(groups[i])
        BY <2>1 DEF Fills
      <3> QED BY <2>1, <3>1 DEF Fills
    <2>5. \A w \in ToSet(groups[i]) : Component(w, windows) = ToSet(groups[i])
      BY <1>1, <1>3, GroupIsComponent
    <2> QED BY <2>1, <2>2, <2>3, <2>4, <2>5
  <1> HIDE DEF places
  <1>6. /\ picked \in Seq({groups[i] : i \in places}) /\ Len(picked) \in Nat /\ DOMAIN picked = 1 .. Len(picked)
        /\ \A i \in places : \E k \in 1 .. Len(picked) : picked[k] = groups[i]
    <2>1. /\ picked \in Seq({groups[i] : i \in places}) /\ Len(picked) = Cardinality(places)
          /\ \A i \in places : \E k \in 1 .. Cardinality(places) : picked[k] = groups[i]
      BY <1>4, PlacesAreKept
    <2> HIDE DEF picked
    <2> QED BY <2>1
  <1> HIDE DEF picked
  <1>7. \A k \in 1 .. Len(picked) : \E i \in places : picked[k] = groups[i]
    BY <1>6
  <1>8. /\ ToSet(clusters) = {clusters[k] : k \in 1 .. Len(picked)}
        /\ \A k \in 1 .. Len(picked) : clusters[k] = BuildCluster(k, picked[k], inputs, devices)
    BY <1>2, <1>6 DEF ToSet
  <1>9. ASSUME NEW k \in 1 .. Len(picked), NEW i \in places, picked[k] = groups[i]
        PROVE  /\ <<clusters[k].from, clusters[k].to, clusters[k].members>> = Summary(ToSet(groups[i]))
               /\ ToSet(groups[i]) \in sets
    <2>1. i \in 1 .. Len(groups)
      BY <1>4
    <2>2. clusters[k] = BuildCluster(k, groups[i], inputs, devices)
      BY <1>8, <1>9
    <2>3. <<clusters[k].from, clusters[k].to, clusters[k].members>> = Summary(ToSet(groups[i]))
      <3>1. Fills(groups[i], windows) /\ Leads(groups[i])
        BY <1>5, <2>1 DEF Leads
      <3>2. Owned(windows, inputs)
        BY <1>1 DEF Owned
      <3> QED BY <1>1, <2>2, <3>1, <3>2, ClusterTells
    <2>4. PICK w \in windows : w \in ToSet(groups[i])
      BY <1>5, <2>1
    <2>5. Component(w, windows) = ToSet(groups[i]) /\ Several(ToSet(groups[i]))
      BY <1>5, <2>1, <2>4
    <2> QED BY <2>3, <2>4, <2>5
  <1>10. ASSUME NEW g \in sets PROVE \E i \in places : g = ToSet(groups[i])
    <2>1. PICK w \in windows : g = Component(w, windows)
      OBVIOUS
    <2>2. PICK i \in 1 .. Len(groups) : w \in ToSet(groups[i])
      BY <1>3 DEF Sorts
    <2>3. g = ToSet(groups[i])
      BY <1>5, <2>1, <2>2
    <2>4. Several(g)
      OBVIOUS
    <2> QED BY <1>5, <2>2, <2>3, <2>4
  <1>11. {<<c.from, c.to, c.members>> : c \in ToSet(clusters)} = {Summary(g) : g \in sets}
    <2> HIDE DEF sets
    <2>1. ASSUME NEW c \in ToSet(clusters) PROVE \E g \in sets : <<c.from, c.to, c.members>> = Summary(g)
      <3>1. PICK k \in 1 .. Len(picked) : c = clusters[k]
        BY <1>8
      <3>2. PICK i \in places : picked[k] = groups[i]
        BY <1>7
      <3> QED BY <1>9, <3>1, <3>2
    <2>2. ASSUME NEW g \in sets PROVE \E c \in ToSet(clusters) : <<c.from, c.to, c.members>> = Summary(g)
      <3>1. PICK i \in places : g = ToSet(groups[i])
        BY <1>10
      <3>2. PICK k \in 1 .. Len(picked) : picked[k] = groups[i]
        BY <1>6
      <3>3. clusters[k] \in ToSet(clusters)
        BY <1>8
      <3> QED BY <1>9, <3>1, <3>2, <3>3
    <2> QED BY <2>1, <2>2
  <1> QED BY <1>11 DEF AreComponents, Summary, Several, clusters

-----------------------------------------------------------------------------
(* Lists, one after the other.                                             *)

(* What is there when a condition holds.                                   *)
LEMMA WhenIsSeq ==
    ASSUME NEW W, NEW x \in W, NEW holds
    PROVE  When(holds, x) \in Seq(W) /\ (holds => ToSet(When(holds, x)) = {x})
  BY DEF When, ToSet

(* Two lists in one.                                                       *)
LEMMA Joined ==
    ASSUME NEW W, NEW s \in Seq(W), NEW t \in Seq(W)
    PROVE  s \o t \in Seq(W) /\ ToSet(s \o t) = ToSet(s) \cup ToSet(t)
  <1>1. s \o t \in Seq(W) /\ Len(s \o t) = Len(s) + Len(t)
    OBVIOUS
  <1>2. \A i \in 1 .. Len(s) : (s \o t)[i] = s[i]
    OBVIOUS
  <1>3. \A i \in 1 .. Len(t) : (s \o t)[Len(s) + i] = t[i]
    OBVIOUS
  <1>4. \A i \in 1 .. (Len(s) + Len(t)) : i \in 1 .. Len(s) \/ (i - Len(s) \in 1 .. Len(t) /\ i = Len(s) + (i - Len(s)))
    OBVIOUS
  <1>5. \A i \in 1 .. Len(t) : Len(s) + i \in 1 .. (Len(s) + Len(t))
    OBVIOUS
  <1>6. \A i \in 1 .. Len(s) : i \in 1 .. (Len(s) + Len(t))
    OBVIOUS
  <1>7. DOMAIN s = 1 .. Len(s) /\ DOMAIN t = 1 .. Len(t) /\ DOMAIN (s \o t) = 1 .. (Len(s) + Len(t))
    BY <1>1
  <1> DEFINE u == s \o t
             n == Len(s) + Len(t)
  <1> HIDE DEF u, n
  <1>8. ToSet(u) \subseteq ToSet(s) \cup ToSet(t)
    BY <1>2, <1>3, <1>4, <1>7 DEF u, n, ToSet
  <1>9. ToSet(s) \subseteq ToSet(u)
    BY <1>2, <1>6, <1>7 DEF u, n, ToSet
  <1>10. ToSet(t) \subseteq ToSet(u)
    BY <1>3, <1>5, <1>7 DEF u, n, ToSet
  <1> QED BY <1>1, <1>8, <1>9, <1>10 DEF u

LEMMA SeqWidens ==
    ASSUME NEW V, NEW W, V \subseteq W, NEW s, s \in Seq(V)
    PROVE  s \in Seq(W)
  OBVIOUS

(* A sequence of sequences, one after the other.                           *)
LEMMA FlattenExists ==
    ASSUME NEW V, NEW seqs \in Seq(Seq(V)), Len(seqs) # 0
    PROVE  \E f : f = [i \in 1 .. Len(seqs) |-> IF i = 1 THEN seqs[i] ELSE f[i - 1] \o seqs[i]]
  <1> DEFINE n == Len(seqs)
             A == Seq(V)
             step == [p \in (1 .. n) \X A |-> p[2] \o seqs[p[1]]]
  <1>1. n \in Nat \ {0} /\ \A i \in 1 .. n : seqs[i] \in A
    <2>1. seqs \in Seq(A)
      OBVIOUS
    <2> HIDE DEF A
    <2> QED BY <2>1
  <1>2. \A i \in 1 .. n : \A a \in A : a \o seqs[i] \in A
    BY <1>1
  <1>3. step \in [(1 .. n) \X A -> A]
    <2> HIDE DEF A, n
    <2> QED BY <1>2
  <1>4. \A i \in 1 .. n : \A a \in A : step[<<i, a>>] = a \o seqs[i]
    <2> HIDE DEF A, n
    <2> QED OBVIOUS
  <1>5. <<>> \in A
    OBVIOUS
  <1> HIDE DEF step, A, n
  <1>6. PICK g \in [SUBSET (1 .. n) -> A] : IsFold(g, n, <<>>, step)
    BY <1>1, <1>3, <1>5, FoldExists
  <1>7. Climbs(g, n, A, <<>>, step)
    <2>1. \A t \in SUBSET (1 .. n) : g[t] = IF t = {} THEN <<>> ELSE step[<<Max(t), g[t \ {Max(t)}]>>]
      BY <1>6 DEF IsFold
    <2> QED BY <2>1 DEF Climbs
  <1>8. PICK h : Walks(h, n, A, <<>>, step)
    <2>1. HasWalk(g, n, A, <<>>, step)
      BY <1>1, <1>3, <1>5, <1>7, FoldIsWalk
    <2> QED BY <2>1 DEF HasWalk
  <1>9. ASSUME NEW m \in 1 .. n PROVE h[m] = h[m - 1] \o seqs[m] /\ h[m - 1] \in A
    <2>1. m - 1 \in 0 .. n
      BY <1>1
    <2> QED BY <1>4, <1>8, <2>1 DEF Walks
  <1>10. h[0] = <<>>
    BY <1>8 DEF Walks
  <1>11. 1 \in 1 .. n => h[1] = seqs[1]
    <2> SUFFICES ASSUME 1 \in 1 .. n PROVE h[1] = seqs[1]
      OBVIOUS
    <2>0. 1 - 1 = 0
      OBVIOUS
    <2>1. h[1] = <<>> \o seqs[1]
      BY <1>9, <1>10, <2>0
    <2>2. seqs[1] \in Seq(V)
      BY <1>1 DEF A
    <2> QED BY <2>1, <2>2
  <1> DEFINE f == [i \in 1 .. n |-> h[i]]
  <1>12. \A i \in 1 .. n : f[i] = IF i = 1 THEN seqs[i] ELSE f[i - 1] \o seqs[i]
    <2> TAKE i \in 1 .. n
    <2>1. CASE i = 1
      BY <1>11, <2>1
    <2>2. CASE i # 1
      <3>1. i - 1 \in 1 .. n
        BY <1>1, <2>2
      <3> QED BY <1>9, <2>2, <3>1
    <2> QED BY <2>1, <2>2
  <1>13. f = [i \in 1 .. n |-> IF i = 1 THEN seqs[i] ELSE f[i - 1] \o seqs[i]]
    <2>1. f = [i \in 1 .. n |-> f[i]]
      OBVIOUS
    <2> HIDE DEF f
    <2> QED BY <1>12, <2>1
  <1> HIDE DEF f
  <1> QED BY <1>13 DEF n

(* Its members are those of its sequences.                                 *)
LEMMA FlattenIs ==
    ASSUME NEW V, NEW seqs \in Seq(Seq(V))
    PROVE  /\ FlattenSeq(seqs) \in Seq(V)
           /\ ToSet(FlattenSeq(seqs)) = UNION {ToSet(seqs[i]) : i \in 1 .. Len(seqs)}
  <1> DEFINE n == Len(seqs)
             A == Seq(V)
  <1>1. n \in Nat /\ \A i \in 1 .. n : seqs[i] \in A
    <2>1. seqs \in Seq(A)
      OBVIOUS
    <2> HIDE DEF A
    <2> QED BY <2>1
  <1>2. CASE n = 0
    <2>1. seqs = <<>>
      BY <1>2
    <2>2. FlattenSeq(seqs) = <<>>
      BY <2>1, <1>2 DEF FlattenSeq
    <2>3. ToSet(<<>>) = {} /\ <<>> \in Seq(V)
      BY DEF ToSet
    <2>4. {ToSet(seqs[i]) : i \in 1 .. n} = {}
      BY <1>2
    <2> HIDE DEF n
    <2> QED BY <2>2, <2>3, <2>4 DEF n
  <1>3. CASE n # 0
    <2> DEFINE F(f) == [i \in 1 .. n |-> IF i = 1 THEN seqs[i] ELSE f[i - 1] \o seqs[i]]
               flat == CHOOSE f : f = F(f)
    <2>1. FlattenSeq(seqs) = flat[n]
      BY <1>3 DEF FlattenSeq
    <2>2. \E f : f = F(f)
      BY <1>3, FlattenExists
    <2> HIDE DEF n
    <2>3. PICK h : h = F(h) /\ FlattenSeq(seqs) = h[n]
      <3>1. flat = F(flat)
        <4> HIDE DEF F
        <4> QED BY <2>2
      <3> HIDE DEF flat
      <3> QED BY <2>1, <3>1
    <2>4. \A i \in 1 .. n : h[i] = IF i = 1 THEN seqs[i] ELSE h[i - 1] \o seqs[i]
      BY <2>3
    <2> HIDE DEF F, flat, A
    <2> DEFINE T == {m \in 0 .. n : m > 0 => /\ h[m] \in A
                                            /\ ToSet(h[m]) = UNION {ToSet(seqs[i]) : i \in 1 .. m}}
    <2>5. 0 \in T
      BY <1>1
    <2>6. ASSUME NEW m \in 1 .. n, m - 1 \in T PROVE m \in T
      <3>1. CASE m = 1
        <4>1. h[1] = seqs[1] /\ 1 .. 1 = {1} /\ seqs[1] \in A
          BY <1>1, <2>4, <3>1
        <4> QED BY <1>1, <3>1, <4>1
      <3>2. CASE m # 1
        <4>1. m - 1 \in 1 .. n /\ m - 1 > 0 /\ m > 0 /\ m \in 0 .. n
          BY <1>1, <3>2
        <4>2. h[m] = h[m - 1] \o seqs[m]
          BY <2>4, <3>2
        <4>3. h[m - 1] \in A /\ ToSet(h[m - 1]) = UNION {ToSet(seqs[i]) : i \in 1 .. m - 1}
          BY <2>6, <4>1
        <4>4. h[m] \in A /\ ToSet(h[m]) = ToSet(h[m - 1]) \cup ToSet(seqs[m])
          <5>1. h[m - 1] \in Seq(V) /\ seqs[m] \in Seq(V)
            BY <1>1, <4>3 DEF A
          <5> DEFINE a == h[m - 1]  b == seqs[m]
          <5>2. a \o b \in Seq(V) /\ ToSet(a \o b) = ToSet(a) \cup ToSet(b)
            <6>1. a \in Seq(V) /\ b \in Seq(V)
              BY <5>1
            <6> HIDE DEF a, b
            <6> QED BY <6>1, Joined
          <5> QED BY <4>2, <5>2 DEF A
        <4>5. 1 .. m = (1 .. m - 1) \cup {m}
          BY <1>1
        <4> QED BY <4>1, <4>3, <4>4, <4>5
      <3> QED BY <3>1, <3>2
    <2> HIDE DEF T
    <2>7. \A m \in 0 .. n : m \in T
      BY <1>1, <2>5, <2>6, Climbing
    <2>8. n \in 0 .. n /\ n > 0
      BY <1>1, <1>3
    <2> QED BY <2>3, <2>7, <2>8 DEF T, A, n
  <1> QED BY <1>2, <1>3

-----------------------------------------------------------------------------
(* Hypotheses: their order, their legs and their confidence                *)
(* (entity_health.go, confidence.go).                                      *)

(* The order of the hypotheses.                                            *)
Outranks(hyps, i, j) ==
    IF hyps[i].confidence # hyps[j].confidence THEN hyps[i].confidence > hyps[j].confidence
    ELSE IF Len(hyps[i].cites) # Len(hyps[j].cites) THEN Len(hyps[i].cites) > Len(hyps[j].cites)
    ELSE i < j
Outranking(hyps, S) == {p \in S \X S : Outranks(hyps, p[1], p[2])}

LEMMA OutrankingIs ==
    ASSUME NEW hyps, NEW S, NEW i \in S, NEW j \in S
    PROVE  <<i, j>> \in Outranking(hyps, S) <=> Outranks(hyps, i, j)
  BY DEF Outranking

(* Ranking drops nothing and adds nothing.                                 *)
LEMMA RankedIs ==
    ASSUME NEW V, NEW hyps \in Seq(V), \A h \in V : h.confidence \in Int /\ Len(h.cites) \in Int
    PROVE  Ranked(hyps) \in Seq(V) /\ ToSet(Ranked(hyps)) = ToSet(hyps)
  <1> DEFINE S == DOMAIN hyps
             R == Outranking(hyps, S)
             lt(i, j) == Outranks(hyps, i, j)
             q == [i \in 1 .. Cardinality(S) |-> CHOOSE x \in S : Cardinality({y \in S : lt(y, x)}) = i - 1]
  <1>1. Ranked(hyps) = [n \in DOMAIN q |-> hyps[q[n]]]
    BY DEF Ranked, Lined, Sorted, Outranks
  <1>2. /\ S = 1 .. Len(hyps) /\ Len(hyps) \in Nat /\ \A i \in S : i \in Int
        /\ \A i \in S : hyps[i] \in V
    OBVIOUS
  <1>3. IsFiniteSet(S)
    <2>1. 1 \in Int /\ Len(hyps) \in Int
      OBVIOUS
    <2> QED BY <1>2, <2>1, FS_Interval
  <1>4. \A i \in S : hyps[i].confidence \in Int /\ Len(hyps[i].cites) \in Int
    BY <1>2
  <1>5. \A x, y \in S : <<y, x>> \in R <=> lt(y, x)
    <2> HIDE DEF S
    <2> QED BY OutrankingIs
  <1>6. IsTotal(R, S)
    <2> SUFFICES /\ \A x \in S : ~lt(x, x)
                 /\ \A x, y, z \in S : lt(x, y) /\ lt(y, z) => lt(x, z)
                 /\ \A x, y \in S : x = y \/ lt(x, y) \/ lt(y, x)
      <3> HIDE DEF S, R, lt
      <3> QED BY <1>5 DEF IsTotal
    <2> DEFINE c(i) == hyps[i].confidence
               l(i) == Len(hyps[i].cites)
    <2>1. \A i \in S : c(i) \in Int /\ l(i) \in Int /\ i \in Int
      BY <1>2, <1>4
    <2>2. \A i, j : lt(i, j) <=> IF c(i) # c(j) THEN c(i) > c(j) ELSE IF l(i) # l(j) THEN l(i) > l(j) ELSE i < j
      BY DEF Outranks
    <2> HIDE DEF S, c, l, lt
    <2> QED BY <2>1, <2>2
  <1> HIDE DEF S, R, lt
  <1>7. \A x \in S : {y \in S : lt(y, x)} = Below(x, S, R)
    BY <1>5 DEF Below
  <1>8. q \in [1 .. Cardinality(S) -> {q[i] : i \in 1 .. Cardinality(S)}]
    OBVIOUS
  <1>9. ASSUME NEW i \in 1 .. Cardinality(S), NEW x \in S, Cardinality(Below(x, S, R)) = i - 1
        PROVE  q[i] \in S /\ Cardinality(Below(q[i], S, R)) = i - 1
    <2>1. Cardinality({y \in S : lt(y, x)}) = i - 1
      BY <1>7, <1>9
    <2>2. q[i] = CHOOSE z \in S : Cardinality({y \in S : lt(y, z)}) = i - 1
      OBVIOUS
    <2> HIDE DEF q
    <2>3. q[i] \in S /\ Cardinality({y \in S : lt(y, q[i])}) = i - 1
      BY <2>1, <2>2
    <2> QED BY <1>7, <2>3
  <1> HIDE DEF q
  <1>10. IsLine(q, S, R)
    BY <1>3, <1>6, <1>8, <1>9, Ranking
  <1>11. /\ q \in Seq(S) /\ DOMAIN q = 1 .. Len(q) /\ Len(q) \in Nat /\ \A n \in 1 .. Len(q) : q[n] \in S
         /\ \A x \in S : \E n \in 1 .. Len(q) : q[n] = x
    BY <1>10 DEF IsLine
  <1> DEFINE r == [n \in DOMAIN q |-> hyps[q[n]]]
  <1>12. r \in [1 .. Len(q) -> V] /\ DOMAIN r = 1 .. Len(q) /\ \A n \in 1 .. Len(q) : r[n] = hyps[q[n]]
    BY <1>2, <1>11
  <1>13. r \in Seq(V)
    BY <1>11, <1>12
  <1> HIDE DEF r
  <1>14. ToSet(r) = ToSet(hyps)
    BY <1>11, <1>12 DEF ToSet, S
  <1> QED BY <1>1, <1>13, <1>14 DEF r

(* How sure one leg lets a hypothesis be.                                  *)
LEMMA EvidenceRankIs ==
    ASSUME NEW ev
    PROVE  /\ EvidenceRank(ev) \in {0, 1, 2}
           /\ EvidenceRank(ev) = 2
                => ev.sample >= HighSample /\ AtLeast(ev.coverage, 9, 10) /\ ~ev.degraded
           /\ EvidenceRank(ev) = 1
                => \/ ev.sample >= HighSample /\ AtLeast(ev.coverage, 9, 10)
                   \/ ev.sample >= MediumSample /\ AtLeast(ev.coverage, 1, 2) /\ ~ev.degraded
  <1> DEFINE high == ev.sample >= HighSample /\ AtLeast(ev.coverage, 9, 10)
             some == ev.sample >= MediumSample /\ AtLeast(ev.coverage, 1, 2)
             rank == IF high THEN 2 ELSE IF some THEN 1 ELSE 0
  <1>1. EvidenceRank(ev) = IF ev.degraded THEN Max({rank - 1, 0}) ELSE rank
    BY DEF EvidenceRank
  <1> HIDE DEF high, some
  <1>2. rank \in {0, 1, 2} /\ (rank = 2 => high) /\ (rank = 1 => some)
    OBVIOUS
  <1> HIDE DEF rank
  <1>3. Max({rank - 1, 0}) = IF rank - 1 >= 0 THEN rank - 1 ELSE 0
    <2>1. rank - 1 \in Int /\ 0 \in Int
      BY <1>2
    <2> QED BY <2>1, MaxOfTwo
  <1>4. CASE ev.degraded
    BY <1>1, <1>2, <1>3, <1>4 DEF high, some
  <1>5. CASE ~ev.degraded
    BY <1>1, <1>2, <1>5 DEF high, some
  <1> QED BY <1>4, <1>5

(* A hypothesis is as strong as its weakest leg.                           *)
LEMMA ConfidenceIs ==
    ASSUME NEW cited
    PROVE  /\ ConfidenceFor(cited) \in {0, 1, 2}
           /\ \A ev \in cited : ConfidenceFor(cited) <= EvidenceRank(ev)
  <1> DEFINE S == {2} \cup {EvidenceRank(ev) : ev \in cited}
  <1>1. S \subseteq {0, 1, 2} /\ 2 \in S /\ \A ev \in cited : EvidenceRank(ev) \in S
    BY EvidenceRankIs
  <1>2. ConfidenceFor(cited) = IF cited = {} THEN 0 ELSE Min(S)
    BY DEF ConfidenceFor
  <1> HIDE DEF S
  <1>3. \E x \in S : \A y \in S : x <= y
    <2>1. CASE 0 \in S
      BY <1>1, <2>1
    <2>2. CASE 0 \notin S /\ 1 \in S
      BY <1>1, <2>2
    <2>3. CASE 0 \notin S /\ 1 \notin S
      BY <1>1, <2>3
    <2> QED BY <2>1, <2>2, <2>3
  <1>4. Min(S) \in S /\ \A y \in S : Min(S) <= y
    BY <1>3 DEF Min
  <1>5. CASE cited = {}
    BY <1>2, <1>5
  <1>6. CASE cited # {}
    BY <1>1, <1>2, <1>4, <1>6
  <1> QED BY <1>5, <1>6

(* The citations of a claim, and the hypothesis they make.                 *)
CitesOf(evidence, claim) == AtPlaces(claim.ids, {i \in DOMAIN claim.ids : claim.ids[i] \in Ids(evidence)})
LegsOf(evidence, cites) == {ById(evidence, id) : id \in ToSet(cites)}
Made(evidence, claim) ==
    [ statement  |-> claim.statement,
      cites      |-> CitesOf(evidence, claim),
      confidence |-> ConfidenceFor(LegsOf(evidence, CitesOf(evidence, claim))) ]
MadeOf(evidence, claims) ==
    {Made(evidence, claims[i]) : i \in {i \in 1 .. Len(claims) : CitesOf(evidence, claims[i]) # <<>>}}
Claimed(statements, ids) == [statement : statements, ids : Seq(ids)]

(* A claim cites what of its ids was observed.                             *)
LEMMA CitesAre ==
    ASSUME NEW evidence, NEW claim, NEW I, claim.ids \in Seq(I)
    PROVE  /\ CitesOf(evidence, claim) \in Seq(I)
           /\ ToSet(CitesOf(evidence, claim)) = ToSet(claim.ids) \cap Ids(evidence)
           /\ CitesOf(evidence, claim) # <<>> <=> \E id \in ToSet(claim.ids) : id \in Ids(evidence)
           /\ Len(CitesOf(evidence, claim)) \in Int
  <1> DEFINE ids == claim.ids
             n == Len(ids)
             places == {i \in DOMAIN ids : ids[i] \in Ids(evidence)}
             s == AtPlaces(ids, places)
  <1>1. n \in Nat /\ DOMAIN ids = 1 .. n /\ \A i \in 1 .. n : ids[i] \in I
    OBVIOUS
  <1>2. places \in SUBSET (1 .. n) /\ \A i \in 1 .. n : i \in places <=> ids[i] \in Ids(evidence)
    BY <1>1
  <1>3. ToSet(ids) = {ids[i] : i \in 1 .. n}
    BY <1>1 DEF ToSet
  <1>4. CitesOf(evidence, claim) = s
    BY DEF CitesOf
  <1> HIDE DEF ids, n, places
  <1>5. /\ s \in Seq({ids[i] : i \in places}) /\ Len(s) = Cardinality(places) /\ Cardinality(places) \in 0 .. n
        /\ \A i \in places : \E k \in 1 .. Cardinality(places) : s[k] = ids[i]
    BY <1>1, <1>2, PlacesAreKept
  <1> HIDE DEF s
  <1>6. Len(s) \in Nat /\ DOMAIN s = 1 .. Len(s) /\ \A k \in 1 .. Len(s) : s[k] \in {ids[i] : i \in places}
    BY <1>5
  <1>7. \A k \in 1 .. Len(s) : s[k] \in I
    BY <1>1, <1>2, <1>6
  <1>8. s \in Seq(I)
    <2>1. s = [k \in 1 .. Len(s) |-> s[k]]
      BY <1>5, <1>6
    <2> QED BY <1>6, <1>7, <2>1
  <1>9. ToSet(s) = ToSet(ids) \cap Ids(evidence)
    <2>1. ToSet(s) = {s[k] : k \in 1 .. Len(s)}
      BY <1>6 DEF ToSet
    <2>2. \A k \in 1 .. Len(s) : \E i \in places : s[k] = ids[i]
      BY <1>6
    <2>3. \A k \in 1 .. Len(s) : s[k] \in ToSet(ids) /\ s[k] \in Ids(evidence)
      BY <1>2, <1>3, <2>2
    <2>4. ASSUME NEW id \in ToSet(ids), id \in Ids(evidence) PROVE \E k \in 1 .. Len(s) : s[k] = id
      <3>1. PICK i \in 1 .. n : id = ids[i]
        BY <1>3
      <3>2. i \in places
        BY <1>2, <2>4, <3>1
      <3> QED BY <1>5, <3>1, <3>2
    <2> QED BY <2>1, <2>3, <2>4
  <1>10. s # <<>> <=> \E id \in ToSet(ids) : id \in Ids(evidence)
    <2>1. s # <<>> <=> \E k \in 1 .. Len(s) : TRUE
      BY <1>6, <1>8
    <2>2. ToSet(s) = {s[k] : k \in 1 .. Len(s)}
      BY <1>6 DEF ToSet
    <2> QED BY <1>9, <2>1, <2>2
  <1> QED BY <1>4, <1>6, <1>8, <1>9, <1>10 DEF ids

LEMMA CiteIs ==
    ASSUME NEW evidence, NEW claim
    PROVE  Cite(evidence, claim) = IF CitesOf(evidence, claim) # <<>> THEN <<Made(evidence, claim)>> ELSE <<>>
  BY DEF Cite, When, Kept, CitesOf, Made, LegsOf

(* The hypotheses are those whose claims cite something observed.          *)
LEMMA HypothesesAre ==
    ASSUME NEW evidence, NEW T, NEW I, NEW claims \in Seq(Claimed(T, I))
    PROVE  /\ ToSet(Hypotheses(evidence, claims)) = MadeOf(evidence, claims)
           /\ \E V : Hypotheses(evidence, claims) \in Seq(V)
  <1> DEFINE n == Len(claims)
             V == {Made(evidence, claims[i]) : i \in 1 .. n}
             seqs == [i \in DOMAIN claims |-> Cite(evidence, claims[i])]
  <1>1. n \in Nat /\ DOMAIN claims = 1 .. n /\ \A i \in 1 .. n : claims[i] \in Claimed(T, I)
    <2> DEFINE C == Claimed(T, I)
    <2> HIDE DEF C
    <2>1. claims \in Seq(C)
      BY DEF C
    <2>2. n \in Nat /\ DOMAIN claims = 1 .. n /\ \A i \in 1 .. n : claims[i] \in C
      BY <2>1
    <2> QED BY <2>2 DEF C
  <1>2. \A i \in 1 .. n : claims[i].ids \in Seq(I)
    BY <1>1 DEF Claimed
  <1>3. \A h \in V : h.confidence \in Int /\ Len(h.cites) \in Int
    <2> SUFFICES ASSUME NEW i \in 1 .. n
                 PROVE  Made(evidence, claims[i]).confidence \in Int /\ Len(Made(evidence, claims[i]).cites) \in Int
      OBVIOUS
    <2>1. /\ Made(evidence, claims[i]).cites = CitesOf(evidence, claims[i])
          /\ Made(evidence, claims[i]).confidence = ConfidenceFor(LegsOf(evidence, CitesOf(evidence, claims[i])))
      BY DEF Made
    <2>2. Len(CitesOf(evidence, claims[i])) \in Int
      BY <1>2, CitesAre
    <2> QED BY <2>1, <2>2, ConfidenceIs
  <1>4. ASSUME NEW i \in 1 .. n
        PROVE  /\ seqs[i] \in Seq(V)
               /\ ToSet(seqs[i]) = IF CitesOf(evidence, claims[i]) # <<>> THEN {Made(evidence, claims[i])} ELSE {}
    <2> DEFINE x == Made(evidence, claims[i])
               holds == CitesOf(evidence, claims[i]) # <<>>
    <2>1. seqs[i] = IF holds THEN <<x>> ELSE <<>>
      BY <1>1, CiteIs
    <2>2. x \in V
      OBVIOUS
    <2> HIDE DEF V, seqs, x, holds
    <2>3. <<x>> \in Seq(V) /\ ToSet(<<x>>) = {x} /\ <<>> \in Seq(V) /\ ToSet(<<>>) = {}
      BY <2>2 DEF ToSet
    <2>4. seqs[i] \in Seq(V) /\ ToSet(seqs[i]) = IF holds THEN {x} ELSE {}
      BY <2>1, <2>3
    <2> QED BY <2>4 DEF x, holds
  <1>5. DOMAIN seqs = 1 .. n
    BY <1>1
  <1>6. Hypotheses(evidence, claims) = Ranked(FlattenSeq(seqs))
    BY DEF Hypotheses
  <1> HIDE DEF V, n
  <1>7. seqs \in Seq(Seq(V)) /\ Len(seqs) = n
    <2>1. seqs = [i \in 1 .. n |-> seqs[i]]
      BY <1>5
    <2> HIDE DEF seqs
    <2>2. \A i \in 1 .. n : seqs[i] \in Seq(V)
      BY <1>4
    <2> QED BY <1>1, <2>1, <2>2
  <1> HIDE DEF seqs
  <1> DEFINE flat == FlattenSeq(seqs)
  <1>8. flat \in Seq(V) /\ ToSet(flat) = UNION {ToSet(seqs[i]) : i \in 1 .. n}
    BY <1>7, FlattenIs
  <1> HIDE DEF flat
  <1>9. Ranked(flat) \in Seq(V) /\ ToSet(Ranked(flat)) = ToSet(flat)
    BY <1>3, <1>8, RankedIs
  <1>10. UNION {ToSet(seqs[i]) : i \in 1 .. n} = MadeOf(evidence, claims)
    <2>1. MadeOf(evidence, claims)
            = {Made(evidence, claims[i]) : i \in {i \in 1 .. n : CitesOf(evidence, claims[i]) # <<>>}}
      BY DEF MadeOf, n
    <2>2. ASSUME NEW i \in 1 .. n, NEW h
          PROVE  h \in ToSet(seqs[i]) <=> CitesOf(evidence, claims[i]) # <<>> /\ h = Made(evidence, claims[i])
      <3> DEFINE members == ToSet(seqs[i])
                 x == Made(evidence, claims[i])
                 holds == CitesOf(evidence, claims[i]) # <<>>
      <3>1. members = IF holds THEN {x} ELSE {}
        BY <1>4
      <3> HIDE DEF members, x, holds
      <3>2. h \in members <=> holds /\ h = x
        BY <3>1
      <3> QED BY <3>2 DEF members, x, holds
    <2> DEFINE L == UNION {ToSet(seqs[i]) : i \in 1 .. n}
               R == {Made(evidence, claims[i]) : i \in {i \in 1 .. n : CitesOf(evidence, claims[i]) # <<>>}}
    <2>3. \A h : h \in L <=> \E i \in 1 .. n : h \in ToSet(seqs[i])
      OBVIOUS
    <2>4. \A h : h \in R <=> \E i \in 1 .. n : CitesOf(evidence, claims[i]) # <<>> /\ h = Made(evidence, claims[i])
      OBVIOUS
    <2>5. L = R
      <3> HIDE DEF L, R
      <3> QED BY <2>2, <2>3, <2>4
    <2> QED BY <2>1, <2>5
  <1> QED BY <1>6, <1>8, <1>9, <1>10 DEF flat

(* Evidence of which each id is told from every other, and weighed.        *)
Weighted(ev) == ev.sample \in Int /\ ev.coverage[1] \in Int /\ ev.coverage[2] \in Nat
Marked(observed, ids) ==
    \A e \in observed : e.id \in ids => Weighted(e) /\ \A f \in observed : f.id = e.id => f = e

(* What ConfidenceEarned asks of a hypothesis.                             *)
LegsIn(h, observed) == {ev \in observed : ev.id \in ToSet(h.cites)}
Earned(h, observed) ==
    /\ ToSet(h.cites) = {ev.id : ev \in LegsIn(h, observed)} /\ h.cites # <<>>
    /\ h.confidence = 2 => \A ev \in LegsIn(h, observed) : AsSure(ev, HighSample, 9, 10) /\ ~ev.degraded
    /\ h.confidence = 1 => \A ev \in LegsIn(h, observed) :
            AsSure(ev, IF ev.degraded THEN HighSample ELSE MediumSample, 1, 2)

(* The evidence of an id is one of the list that has that id.              *)
LEMMA ByIdIs ==
    ASSUME NEW E, NEW evidence \in Seq(E), NEW id \in Ids(evidence)
    PROVE  ById(evidence, id) \in ToSet(evidence) /\ ById(evidence, id).id = id
  <1> DEFINE S == {i \in DOMAIN evidence : evidence[i].id = id}
  <1>1. S \in SUBSET Nat /\ S # {}
    BY DEF Ids
  <1>2. \E x \in S : \A y \in S : x <= y
    <2> HIDE DEF S
    <2> QED BY <1>1, Least
  <1>3. Min(S) \in S
    <2> HIDE DEF S
    <2> QED BY <1>2 DEF Min
  <1> QED BY <1>3 DEF ById, ToSet

LEMMA HalfIsLess ==
    ASSUME NEW a \in Int, NEW b \in Nat, a * 10 >= 9 * b
    PROVE  a * 2 >= 1 * b
  <1>1. a * 10 >= 5 * b
    OBVIOUS
  <1> QED BY <1>1

(* What a rank takes is what its confidence asks of a leg.                 *)
LEMMA SureIs ==
    ASSUME NEW ev, Weighted(ev)
    PROVE  /\ EvidenceRank(ev) = 2 => AsSure(ev, HighSample, 9, 10) /\ ~ev.degraded
           /\ EvidenceRank(ev) \in {1, 2}
                => AsSure(ev, IF ev.degraded THEN HighSample ELSE MediumSample, 1, 2)
  <1> DEFINE a == ev.coverage[1]
             b == ev.coverage[2]
  <1>1. a \in Int /\ b \in Nat /\ ev.sample \in Int
    BY DEF Weighted
  <1>2. MediumSample \in Int /\ HighSample \in Int /\ MediumSample < HighSample
    BY SampleAssumption
  <1>3. /\ AtLeast(ev.coverage, 9, 10) <=> a * 10 >= 9 * b
        /\ AtLeast(ev.coverage, 1, 2) <=> a * 2 >= 1 * b
    BY DEF AtLeast
  <1> HIDE DEF a, b
  <1>4. AtLeast(ev.coverage, 9, 10) => AtLeast(ev.coverage, 1, 2)
    BY <1>1, <1>3, HalfIsLess
  <1>5. ev.sample >= HighSample => ev.sample >= MediumSample
    BY <1>1, <1>2
  <1>6. EvidenceRank(ev) = 2 => AsSure(ev, HighSample, 9, 10) /\ ~ev.degraded
    BY EvidenceRankIs DEF AsSure
  <1>7. ASSUME EvidenceRank(ev) \in {1, 2}
        PROVE  AsSure(ev, IF ev.degraded THEN HighSample ELSE MediumSample, 1, 2)
    <2>1. CASE ev.degraded
      BY <1>4, <1>7, <2>1, EvidenceRankIs DEF AsSure
    <2>2. CASE ~ev.degraded
      BY <1>4, <1>5, <1>7, <2>2, EvidenceRankIs DEF AsSure
    <2> QED BY <2>1, <2>2
  <1> QED BY <1>6, <1>7

(* Every hypothesis is as sure as each of its legs lets it be.             *)
LEMMA HypothesesAreEarned ==
    ASSUME NEW E, NEW evidence \in Seq(E), NEW T, NEW I, NEW claims \in Seq(Claimed(T, I)),
           Marked(ToSet(evidence), I)
    PROVE  \A h \in ToSet(Hypotheses(evidence, claims)) : Earned(h, ToSet(evidence))
  <1> SUFFICES ASSUME NEW i \in 1 .. Len(claims), CitesOf(evidence, claims[i]) # <<>>
               PROVE  Earned(Made(evidence, claims[i]), ToSet(evidence))
    BY HypothesesAre DEF MadeOf
  <1> DEFINE cites == CitesOf(evidence, claims[i])
             h == Made(evidence, claims[i])
             observed == ToSet(evidence)
  <1>1. claims[i] \in Claimed(T, I)
    <2> DEFINE C == Claimed(T, I)
    <2>1. claims \in Seq(C)
      OBVIOUS
    <2> HIDE DEF C
    <2>2. claims[i] \in C
      BY <2>1
    <2> QED BY <2>2 DEF C
  <1>2. claims[i].ids \in Seq(I)
    BY <1>1 DEF Claimed
  <1>3. ToSet(cites) \subseteq Ids(evidence) /\ ToSet(cites) \subseteq I
    <2>1. ToSet(cites) = ToSet(claims[i].ids) \cap Ids(evidence)
      BY <1>2, CitesAre
    <2>2. ToSet(claims[i].ids) \subseteq I
      BY <1>2, MembersAreFinite
    <2> QED BY <2>1, <2>2
  <1>4. h.cites = cites /\ h.confidence = ConfidenceFor(LegsOf(evidence, cites))
    BY DEF Made
  <1>5. \A e \in observed : e.id \in Ids(evidence)
    BY DEF Ids, ToSet
  <1>6. \A id \in ToSet(cites) : ById(evidence, id) \in observed /\ ById(evidence, id).id = id
    BY <1>3, ByIdIs
  <1> HIDE DEF cites, h, observed
  <1>7. LegsIn(h, observed) = LegsOf(evidence, cites)
    <2>1. ASSUME NEW e \in LegsIn(h, observed) PROVE e \in LegsOf(evidence, cites)
      <3>1. e \in observed /\ e.id \in ToSet(cites)
        BY <1>4 DEF LegsIn
      <3>2. e = ById(evidence, e.id)
        BY <1>3, <1>6, <3>1 DEF Marked, observed
      <3> QED BY <3>1, <3>2 DEF LegsOf
    <2>2. ASSUME NEW e \in LegsOf(evidence, cites) PROVE e \in LegsIn(h, observed)
      <3>1. PICK id \in ToSet(cites) : e = ById(evidence, id)
        BY DEF LegsOf
      <3> QED BY <1>4, <1>6, <3>1 DEF LegsIn
    <2> QED BY <2>1, <2>2
  <1>8. \A ev \in LegsIn(h, observed) : Weighted(ev)
    BY <1>3, <1>4 DEF LegsIn, Marked, observed
  <1>9. ToSet(h.cites) = {ev.id : ev \in LegsIn(h, observed)}
    <2>1. \A id \in ToSet(cites) : \E ev \in LegsIn(h, observed) : ev.id = id
      BY <1>4, <1>6 DEF LegsIn
    <2>2. \A ev \in LegsIn(h, observed) : ev.id \in ToSet(cites)
      BY <1>4 DEF LegsIn
    <2> QED BY <1>4, <2>1, <2>2
  <1>10. h.cites # <<>>
    BY <1>4 DEF cites
  <1>11. \A ev \in LegsIn(h, observed) : EvidenceRank(ev) \in {0, 1, 2} /\ h.confidence <= EvidenceRank(ev)
    BY <1>4, <1>7, ConfidenceIs, EvidenceRankIs
  <1>12. h.confidence \in {0, 1, 2}
    BY <1>4, ConfidenceIs
  <1>13. h.confidence = 2 => \A ev \in LegsIn(h, observed) : AsSure(ev, HighSample, 9, 10) /\ ~ev.degraded
    <2> SUFFICES ASSUME h.confidence = 2, NEW ev \in LegsIn(h, observed)
                 PROVE  AsSure(ev, HighSample, 9, 10) /\ ~ev.degraded
      OBVIOUS
    <2>1. EvidenceRank(ev) = 2
      BY <1>11
    <2> QED BY <1>8, <2>1, SureIs
  <1>14. h.confidence = 1 => \A ev \in LegsIn(h, observed) :
            AsSure(ev, IF ev.degraded THEN HighSample ELSE MediumSample, 1, 2)
    <2> SUFFICES ASSUME h.confidence = 1, NEW ev \in LegsIn(h, observed)
                 PROVE  AsSure(ev, IF ev.degraded THEN HighSample ELSE MediumSample, 1, 2)
      OBVIOUS
    <2>1. EvidenceRank(ev) \in {1, 2}
      BY <1>11
    <2> QED BY <1>8, <2>1, SureIs
  <1> QED BY <1>9, <1>10, <1>13, <1>14 DEF Earned, h, observed

-----------------------------------------------------------------------------
(* Evidence by its kinds and ids, and what is claimed of an entity         *)
(* (entity_health.go).                                                     *)

(* The kinds of evidence that a hypothesis may cite, and what it may say.  *)
Kinds == {"availability", "cadence", "integration_state", "repairs", "inventory", "throughout",
          "cluster", "restart", "supervisor", "runs", "dependency", "dependencies"}
Citable == Kinds \X Nat

(* A list of evidence of some kinds, told apart by their ids and weighed.  *)
Evidenced(s, kinds) ==
    /\ s \in Seq(ToSet(s))
    /\ Marked(ToSet(s), Citable)
    /\ \A e \in ToSet(s) : e.id[1] \in kinds

LEMMA SeqOfItsOwn ==
    ASSUME NEW E, NEW s \in Seq(E)
    PROVE  s \in Seq(ToSet(s))
  <1>1. Len(s) \in Nat /\ DOMAIN s = 1 .. Len(s) /\ s = [i \in 1 .. Len(s) |-> s[i]]
    OBVIOUS
  <1>2. \A i \in 1 .. Len(s) : s[i] \in ToSet(s)
    BY <1>1 DEF ToSet
  <1> DEFINE V == ToSet(s)
  <1> HIDE DEF V
  <1> QED BY <1>1, <1>2 DEF V

(* Lists of different kinds, one after the other, are told apart.          *)
LEMMA EvidenceJoins ==
    ASSUME NEW s, NEW t, NEW K, NEW L, Evidenced(s, K), Evidenced(t, L), \A k \in K : k \notin L
    PROVE  Evidenced(s \o t, K \cup L)
  <1> DEFINE V == ToSet(s) \cup ToSet(t)
             u == s \o t
  <1>1. s \in Seq(V) /\ t \in Seq(V)
    BY SeqWidens DEF Evidenced
  <1>2. u \in Seq(V) /\ ToSet(u) = V
    BY <1>1, Joined
  <1>3. Marked(V, Citable)
    BY DEF Marked, Evidenced
  <1>4. \A e \in V : e.id[1] \in K \cup L
    BY DEF Evidenced
  <1> HIDE DEF u, V
  <1>5. u \in Seq(ToSet(u))
    BY <1>2
  <1> QED BY <1>2, <1>3, <1>4, <1>5 DEF Evidenced, u

LEMMA EvidenceWhen ==
    ASSUME NEW holds, NEW ev, holds => Weighted(ev), NEW kind, ev.id[1] = kind
    PROVE  Evidenced(When(holds, ev), {kind})
  <1> DEFINE s == When(holds, ev)
  <1>1. s \in Seq({ev}) /\ ToSet(s) = IF holds THEN {ev} ELSE {}
    <2>1. CASE holds
      <3>1. s = <<ev>>
        BY <2>1 DEF When
      <3>2. Len(<<ev>>) = 1 /\ <<ev>>[1] = ev /\ <<ev>> \in Seq({ev}) /\ DOMAIN <<ev>> = 1 .. 1
        OBVIOUS
      <3>3. ToSet(<<ev>>) = {ev}
        BY <3>2 DEF ToSet
      <3> HIDE DEF s
      <3> QED BY <2>1, <3>1, <3>2, <3>3
    <2>2. CASE ~holds
      <3>1. s = <<>>
        BY <2>2 DEF When
      <3>2. <<>> \in Seq({ev}) /\ DOMAIN <<>> = {}
        OBVIOUS
      <3> QED BY <2>2, <3>1, <3>2 DEF ToSet
    <2> QED BY <2>1, <2>2
  <1> HIDE DEF s
  <1>2. s \in Seq(ToSet(s))
    BY <1>1, SeqOfItsOwn
  <1> QED BY <1>1, <1>2 DEF Evidenced, Marked, s

LEMMA NoEvidence == ASSUME NEW K PROVE Evidenced(<<>>, K)
  <1>1. ToSet(<<>>) = {} /\ <<>> \in Seq({})
    BY DEF ToSet
  <1> QED BY <1>1 DEF Evidenced, Marked

(* One of each number.                                                     *)
LEMMA EvidenceNumbered ==
    ASSUME NEW s, NEW n \in Nat, s = [i \in 1 .. n |-> s[i]], NEW kind,
           \A i \in 1 .. n : s[i].id = <<kind, i>> /\ Weighted(s[i])
    PROVE  Evidenced(s, {kind})
  <1>1. DOMAIN s = 1 .. n
    OBVIOUS
  <1>2. ToSet(s) = {s[i] : i \in 1 .. n}
    BY <1>1 DEF ToSet
  <1>3. s \in Seq(ToSet(s))
    <2> DEFINE V == ToSet(s)
    <2>1. \A i \in 1 .. n : s[i] \in V
      BY <1>2
    <2> HIDE DEF V
    <2>2. s \in Seq(V)
      BY <2>1
    <2> QED BY <2>2 DEF V
  <1>4. \A i, j \in 1 .. n : s[i].id = s[j].id => i = j
    OBVIOUS
  <1>5. Marked(ToSet(s), Citable)
    BY <1>2, <1>4 DEF Marked
  <1>6. \A e \in ToSet(s) : e.id[1] \in {kind}
    BY <1>2
  <1> QED BY <1>3, <1>5, <1>6 DEF Evidenced

(* What an observation keeps of what it is made from.                      *)
LEMMA ObservedIs ==
    ASSUME NEW id, NEW sample, NEW coverage, NEW degraded, NEW m
    PROVE  /\ Observed(id, sample, coverage, degraded, m).id = id
           /\ Observed(id, sample, coverage, degraded, m).m = m
           /\ (sample \in Int /\ coverage[1] \in Int /\ coverage[2] \in Nat)
                => Weighted(Observed(id, sample, coverage, degraded, m))
  BY DEF Observed, Weighted

LEMMA OneIs == ASSUME NEW kind PROVE One(kind)[1] = kind /\ (kind \in Kinds => One(kind) \in Citable)
  BY DEF One, Citable

LEMMA FullIs == Full[1] \in Int /\ Full[2] \in Nat /\ Full[1] = 1 /\ Full[2] = 1
  BY DEF Full

(* How much of the window a history shows.                                 *)
LEMMA CoverageIs ==
    ASSUME NEW points \in Seq(Point), NEW c, c = CoverageOf(Availability(points))
    PROVE  \/ c = <<0, 1>>
           \/ c[1] \in 1 .. To /\ c[2] = To
  <1> DEFINE a == Availability(points)
  <1>1. CASE a.covered = 0 /\ a.computable = FALSE
    BY <1>1 DEF CoverageOf
  <1>2. ASSUME NEW s \in Seconds, a.covered = To - s, a.computable = TRUE
        PROVE  c[1] \in 1 .. To /\ c[2] = To
    <2>1. c = <<a.covered, To - From>>
      BY <1>2 DEF CoverageOf
    <2> HIDE DEF a
    <2>2. c[1] = To - s /\ c[2] = To - From
      BY <1>2, <2>1
    <2> QED BY <1>2, <2>2, InstantsAre
  <1> QED BY <1>1, <1>2, CoveredIs

LEMMA CoverageWeighs ==
    ASSUME NEW points \in Seq(Point), NEW c, c = CoverageOf(Availability(points))
    PROVE  c[1] \in Int /\ c[2] \in Nat
  <1>1. To \in Nat
    BY WindowAssumption
  <1>2. CASE c = <<0, 1>>
    BY <1>2
  <1> QED BY <1>1, <1>2, CoverageIs

(* The evidence each analysis takes from the repairs.                      *)
LEMMA RepairsAre ==
    ASSUME NEW i, i.repairsRead => i.repairs \in RepairLists, NEW domain
    PROVE  Evidenced(RepairEvidence(i, domain), {"repairs"})
  <1> DEFINE r == i.repairs
             open == OpenRepairs(r, domain)
             ev == Observed(One("repairs"), open, Full, FALSE, [open |-> open])
  <1>1. RepairsOpen(i, domain) => open \in Int
    <2> SUFFICES ASSUME i.repairsRead PROVE open \in Int
      BY DEF RepairsOpen
    <2>1. Len(r) \in Nat /\ DOMAIN r = 1 .. Len(r)
      <3> DEFINE R == [domain : STRING, ignored : BOOLEAN]
      <3>1. r \in Seq(R)
        BY AnswerAssumption
      <3> HIDE DEF R, r
      <3> QED BY <3>1
    <2>2. IsFiniteSet(1 .. Len(r))
      BY <2>1, FS_Interval
    <2>3. IsFiniteSet({n \in DOMAIN r : r[n].domain = domain /\ ~r[n].ignored})
      BY <2>1, <2>2, FS_Subset
    <2> HIDE DEF r
    <2> QED BY <2>3, FS_CardinalityType DEF OpenRepairs
  <1>2. RepairEvidence(i, domain) = When(RepairsOpen(i, domain), ev)
    BY DEF RepairEvidence
  <1> HIDE DEF open
  <1>3. ev.id = One("repairs") /\ (open \in Int => Weighted(ev))
    <2>1. Full[1] \in Int /\ Full[2] \in Nat
      BY FullIs
    <2>2. ev.id = One("repairs")
      BY DEF Observed
    <2>3. open \in Int => Weighted(ev)
      BY <2>1, ObservedIs
    <2> QED BY <2>2, <2>3
  <1>4. ev.id[1] = "repairs"
    BY <1>3, OneIs
  <1> HIDE DEF ev
  <1> QED BY <1>1, <1>2, <1>3, <1>4, EvidenceWhen

(* What the analyses cite.                                                 *)
Statements == {"repeatedly_down", "still_down", "silent", "setup", "repair", "majority", "restart", "upstream",
               "persistent", "host", "failed_during", "ran_during", "dependency_down", "fault"}
Claims == Claimed(Statements, Citable)

LEMMA CitesOne ==
    ASSUME NEW kind \in Kinds, NEW statement \in Statements
    PROVE  <<One(kind)>> \in Seq(Citable) /\ Claim(statement, <<One(kind)>>) \in Claims
  <1>1. One(kind) \in Citable
    BY OneIs
  <1> HIDE DEF Citable
  <1> QED BY <1>1 DEF Claim, Claims, Claimed

LEMMA CitesTwo ==
    ASSUME NEW kind \in Kinds, NEW other \in Kinds, NEW statement \in Statements
    PROVE  Claim(statement, <<One(kind), One(other)>>) \in Claims
  <1>1. One(kind) \in Citable /\ One(other) \in Citable
    BY OneIs
  <1>2. <<One(kind), One(other)>> \in Seq(Citable)
    BY <1>1
  <1> QED BY <1>2 DEF Claim, Claims, Claimed

(* Lists of claims.                                                        *)
LEMMA ClaimsWhen ==
    ASSUME NEW claim, claim \in Claims, NEW holds
    PROVE  When(holds, claim) \in Seq(Claims)
  BY WhenIsSeq

LEMMA ClaimsJoin ==
    ASSUME NEW s \in Seq(Claims), NEW t \in Seq(Claims)
    PROVE  s \o t \in Seq(Claims)
  <1> HIDE DEF Claims
  <1> QED OBVIOUS

LEMMA NoClaims == <<>> \in Seq(Claims)
  <1> HIDE DEF Claims
  <1> QED OBVIOUS

(* An answer whose hypotheses are earned.                                  *)
AllEarned(a) == \A h \in ToSet(a.hypotheses) : Earned(h, ToSet(a.evidence))

(* Whatever is claimed of evidence told apart and weighed is earned.       *)
LEMMA HealthEarns ==
    ASSUME NEW evidence, NEW K, Evidenced(evidence, K), NEW claims \in Seq(Claims),
           NEW missing, NEW next, NEW clusters
    PROVE  AllEarned(Health(evidence, claims, missing, next, clusters))
  <1>1. evidence \in Seq(ToSet(evidence)) /\ Marked(ToSet(evidence), Citable)
    BY DEF Evidenced
  <1>2. claims \in Seq(Claimed(Statements, Citable))
    BY DEF Claims
  <1>3. \A h \in ToSet(Hypotheses(evidence, claims)) : Earned(h, ToSet(evidence))
    BY <1>1, <1>2, HypothesesAreEarned
  <1> QED BY <1>3 DEF AllEarned, Health

LEMMA KindsAreKinds ==
    \A k \in {"availability", "cadence", "integration_state", "repairs", "inventory", "throughout",
          "cluster", "restart", "supervisor", "runs", "dependency", "dependencies"} : k \in Kinds
  BY DEF Kinds

(* What an entity is shown by and what is claimed of it.                   *)
LEMMA EntityEvidence ==
    ASSUME NEW i, i.points \in Seq(Point), i.repairsRead => i.repairs \in RepairLists
    PROVE  Evidenced(HistoryEvidence(i, Availability(i.points), Cadence(i.points)) \o SetupEvidence(i)
                        \o RepairEvidence(i, IntegrationDomain(i)),
                     {"availability", "cadence", "integration_state", "repairs"})
  <1> DEFINE a == Availability(i.points)
             c == Cadence(i.points)
             cover == CoverageOf(a)
             s == When(Measurable(i, a), AvailabilityEvidence(i, a))
             t == When(Measurable(i, a) /\ c.intervals > 0, CadenceEvidence(a, c))
             u == SetupEvidence(i)
             v == RepairEvidence(i, IntegrationDomain(i))
  <1>1. cover[1] \in Int /\ cover[2] \in Nat
    BY CoverageWeighs
  <1>2. Len(i.points) \in Int /\ c.intervals \in Int
    BY CadenceIs, PointsAre
  <1>3. HistoryEvidence(i, a, c) = s \o t
    BY DEF HistoryEvidence
  <1> HIDE DEF a, c
  <1>4. Evidenced(s, {"availability"})
    <2>1. AvailabilityEvidence(i, a).id = One("availability") /\ One("availability")[1] = "availability"
      BY OneIs DEF AvailabilityEvidence, Observed
    <2>2. Weighted(AvailabilityEvidence(i, a))
      BY <1>1, <1>2, ObservedIs DEF AvailabilityEvidence
    <2> QED BY <2>1, <2>2, EvidenceWhen
  <1>5. Evidenced(t, {"cadence"})
    <2>1. CadenceEvidence(a, c).id = One("cadence") /\ One("cadence")[1] = "cadence"
      BY OneIs DEF CadenceEvidence, Observed
    <2>2. Weighted(CadenceEvidence(a, c))
      BY <1>1, <1>2, ObservedIs DEF CadenceEvidence
    <2> QED BY <2>1, <2>2, EvidenceWhen
  <1>6. Evidenced(u, {"integration_state"})
    <2>1. SetupStateEvidence(i.entry).id = One("integration_state")
          /\ One("integration_state")[1] = "integration_state"
      BY OneIs DEF SetupStateEvidence, Observed
    <2>2. Weighted(SetupStateEvidence(i.entry))
      BY FullIs, ObservedIs DEF SetupStateEvidence
    <2>3. u = When(i.entry # None, SetupStateEvidence(i.entry))
      BY DEF SetupEvidence, When
    <2> QED BY <2>1, <2>2, <2>3, EvidenceWhen
  <1>7. Evidenced(v, {"repairs"})
    BY RepairsAre
  <1> HIDE DEF s, t, u, v
  <1>8. Evidenced(s \o t, {"availability"} \cup {"cadence"})
    BY <1>4, <1>5, EvidenceJoins
  <1>9. Evidenced((s \o t) \o u, {"availability", "cadence"} \cup {"integration_state"})
    BY <1>6, <1>8, EvidenceJoins
  <1>10. Evidenced(((s \o t) \o u) \o v, {"availability", "cadence", "integration_state"} \cup {"repairs"})
    BY <1>7, <1>9, EvidenceJoins
  <1> QED BY <1>3, <1>10 DEF a, c, u, v

LEMMA EntityClaims ==
    ASSUME NEW i, NEW a, NEW c
    PROVE  HistoryClaims(i, a, c) \o SetupClaim(i, a, c) \o RepairClaim(i, a, c) \in Seq(Claims)
  <1>1. HistoryClaims(i, a, c) \in Seq(Claims)
    <2>1. /\ Claim("repeatedly_down", <<One("availability")>>) \in Claims
          /\ Claim("still_down", <<One("availability")>>) \in Claims
          /\ Claim("silent", <<One("cadence")>>) \in Claims
      BY CitesOne DEF Kinds, Statements
    <2> QED BY <2>1, ClaimsWhen, ClaimsJoin, NoClaims DEF HistoryClaims
  <1>2. SetupClaim(i, a, c) \in Seq(Claims)
    BY CitesTwo, ClaimsWhen, NoClaims DEF SetupClaim, Kinds, Statements
  <1>3. RepairClaim(i, a, c) \in Seq(Claims)
    BY CitesTwo, ClaimsWhen DEF RepairClaim, Kinds, Statements
  <1> QED BY <1>1, <1>2, <1>3, ClaimsJoin

(* An answer about an entity earns its confidence.                         *)
LEMMA EntityEarns ==
    ASSUME NEW i, i.points \in Seq(Point), i.repairsRead => i.repairs \in RepairLists
    PROVE  AllEarned(AnalyzeEntityHealth(i))
  BY EntityEvidence, EntityClaims, HealthEarns DEF AnalyzeEntityHealth, EntityAnalysis

-----------------------------------------------------------------------------
(* What is claimed of an integration (integration_health.go).              *)

(* The shares of the window that coverages are.                            *)
Shares01 == {<<0, 1>>, <<1, 1>>}
Covering == Shares01 \cup {<<k, To>> : k \in 1 .. To}

(* A coverage is nothing, everything or a number of the seconds of the     *)
(* window.                                                                 *)
LEMMA CoveringIs ==
    /\ \A c \in Covering : c[1] \in Nat /\ c[2] \in Nat /\ (c[2] = 1 \/ c[2] = To) /\ (c[1] \in {0, 1} \/ c[2] = To)
    /\ \A points \in Seq(Point) : CoverageOf(Availability(points)) \in Covering
    /\ Full \in Covering
  <1>1. To \in Nat \ {0}
    BY WindowAssumption
  <1>2. ASSUME NEW c \in Covering
        PROVE  c[1] \in Nat /\ c[2] \in Nat /\ (c[2] = 1 \/ c[2] = To) /\ (c[1] \in {0, 1} \/ c[2] = To)
    BY <1>1, <1>2 DEF Covering, Shares01
  <1>3. ASSUME NEW points \in Seq(Point)
        PROVE  CoverageOf(Availability(points)) \in Covering
    <2> DEFINE a == Availability(points)
    <2>1. CASE a.covered = 0 /\ a.computable = FALSE
      BY <2>1 DEF CoverageOf, Covering, Shares01
    <2>2. ASSUME NEW s \in Seconds, a.covered = To - s, a.computable = TRUE
          PROVE  CoverageOf(a) \in Covering
      <3>1. CoverageOf(a) = <<a.covered, To - From>>
        BY <2>2 DEF CoverageOf
      <3> HIDE DEF a
      <3>2. To - From = To /\ To - s \in 1 .. To
        BY <1>1, InstantsAre
      <3>3. CoverageOf(a) = <<To - s, To>>
        BY <2>2, <3>1, <3>2
      <3> QED BY <3>2, <3>3 DEF Covering
    <2> QED BY <2>1, <2>2, CoveredIs
  <1>4. Full \in Covering
    BY DEF Full, Covering, Shares01
  <1> QED BY <1>2, <1>3, <1>4

(* The numerator of a coverage, its denominator being To.                  *)
Scaled(c) == IF c[2] = To THEN c[1] ELSE c[1] * To

(* Two coverages compare as their numerators do.                           *)
LEMMA ScaledIs ==
    ASSUME NEW c \in Covering, NEW d \in Covering
    PROVE  /\ Scaled(c) \in Nat
           /\ Scaled(c) <= Scaled(d) => c[1] * d[2] <= d[1] * c[2]
  <1>1. To \in Nat \ {0}
    BY WindowAssumption
  <1>2. /\ c[1] \in Nat /\ c[2] \in Nat /\ (c[2] = 1 \/ c[2] = To) /\ (c[1] \in {0, 1} \/ c[2] = To)
        /\ d[1] \in Nat /\ d[2] \in Nat /\ (d[2] = 1 \/ d[2] = To) /\ (d[1] \in {0, 1} \/ d[2] = To)
    BY CoveringIs
  <1> DEFINE p == c[1]
             q == d[1]
             t == To
  <1>3. p \in Nat /\ q \in Nat /\ t \in Nat
    BY <1>1, <1>2
  <1>4. p * t \in Nat /\ q * t \in Nat /\ p * 1 = p /\ q * 1 = q
    <2> HIDE DEF p, q, t
    <2> QED BY <1>3
  <1>5. p <= q => p * t <= q * t
    <2> HIDE DEF p, q, t
    <2>1. p <= q => t * p <= t * q
      BY <1>3, Multiplied
    <2>2. t * p = p * t /\ t * q = q * t
      BY <1>3
    <2> QED BY <2>1, <2>2
  <1>6. Scaled(c) \in Nat
    BY <1>3, <1>4 DEF Scaled
  <1>7. Scaled(c) <= Scaled(d) => c[1] * d[2] <= d[1] * c[2]
    <2>1. CASE c[2] = To /\ d[2] = To
      BY <2>1, <1>5 DEF Scaled
    <2>2. CASE c[2] = To /\ d[2] # To
      BY <2>2, <1>2, <1>4 DEF Scaled
    <2>3. CASE c[2] # To /\ d[2] = To
      BY <2>3, <1>2, <1>4 DEF Scaled
    <2>4. CASE c[2] # To /\ d[2] # To
      <3>1. p \in {0, 1} /\ q \in {0, 1} /\ c[2] = 1 /\ d[2] = 1
        BY <2>4, <1>2
      <3>2. Scaled(c) = p * t /\ Scaled(d) = q * t
        BY <2>4 DEF Scaled
      <3>3. p = 1 /\ q = 0 => ~(p * t <= q * t)
        <4> HIDE DEF p, q, t
        <4>1. p = 1 /\ q = 0 => p * t = t /\ q * t = 0
          BY <1>3
        <4>2. t > 0
          BY <1>1 DEF t
        <4> QED BY <4>1, <4>2, <1>3
      <3>4. Scaled(c) <= Scaled(d) => p <= q
        BY <3>1, <3>2, <3>3
      <3>5. c[1] * d[2] = p * 1 /\ d[1] * c[2] = q * 1
        BY <3>1
      <3> QED BY <3>4, <3>5, <1>4
    <2> QED BY <2>1, <2>2, <2>3, <2>4
  <1> QED BY <1>6, <1>7

(* The least of several coverages is one of them.                          *)
LEMMA LeastIs ==
    ASSUME NEW S, S \subseteq Covering, S # {}
    PROVE  LeastCoverage(S) \in S
  <1> DEFINE N == {Scaled(c) : c \in S}
  <1>1. N \in SUBSET Nat /\ N # {}
    BY ScaledIs
  <1>2. PICK n \in N : \A m \in N : n <= m
    BY <1>1, Least
  <1>3. PICK c \in S : n = Scaled(c)
    BY <1>2
  <1>4. \A d \in S : Scaled(c) <= Scaled(d)
    BY <1>2, <1>3
  <1>5. \A d \in S : c[1] * d[2] <= d[1] * c[2]
    BY <1>4, ScaledIs
  <1> QED BY <1>5 DEF LeastCoverage

(* Clusters of which each shows its evidence, one after the other.         *)
Clustering(timed) ==
    /\ Len(timed) \in Nat /\ DOMAIN timed = 1 .. Len(timed) /\ (timed = <<>> <=> Len(timed) = 0)
    /\ \A n \in 1 .. Len(timed) :
            /\ timed[n].evidence.id = <<"cluster", n>> /\ Weighted(timed[n].evidence)
            /\ timed[n].from \in Int
    /\ \A m, n \in 1 .. Len(timed) : m < n => timed[m].from < timed[n].from

(* The evidence of a cluster is as thin as the least covered of its        *)
(* entities.                                                               *)
LEMMA ClusterWeighs ==
    ASSUME NEW n, NEW g, Len(g) \in Int, NEW inputs, Measured(inputs), NEW devices, NEW c,
           c = BuildCluster(n, g, inputs, devices)
    PROVE  c.evidence.id = <<"cluster", n>> /\ Weighted(c.evidence) /\ c.from = Head(g).from
  <1> DEFINE members == {i \in inputs : i.entity.id \in {w.entity : w \in ToSet(g)}}
             S == {Full} \cup {CoverageOf(Availability(m.points)) : m \in members}
             ev == ClusterEvidence(n, g, members)
  <1>1. S \subseteq Covering
    <2>1. \A m \in members : m.points \in Seq(Point)
      BY DEF Measured
    <2> HIDE DEF members
    <2>2. \A m \in members : CoverageOf(Availability(m.points)) \in Covering
      BY <2>1, CoveringIs
    <2> QED BY <2>2, CoveringIs
  <1>2. LeastCoverage(S) \in Covering
    <2>1. S # {}
      OBVIOUS
    <2> HIDE DEF S
    <2> QED BY <1>1, <2>1, LeastIs
  <1>3. c.evidence = ev /\ c.from = Head(g).from
    BY DEF BuildCluster
  <1> DEFINE least == LeastCoverage(S)
             m == [ entities |-> Cardinality(members), span |-> Max({w.to : w \in ToSet(g)}) - Head(g).from ]
  <1>4. ev = Observed(<<"cluster", n>>, Len(g), least, FALSE, m)
    BY DEF ClusterEvidence
  <1>5. least[1] \in Int /\ least[2] \in Nat
    <2> HIDE DEF least
    <2>1. least \in Covering
      BY <1>2 DEF least
    <2> QED BY <2>1, CoveringIs
  <1> HIDE DEF ev, least, m
  <1>6. ev.id = <<"cluster", n>> /\ Weighted(ev)
    BY <1>4, <1>5 DEF Observed, Weighted
  <1> QED BY <1>3, <1>6

LEMMA ClustersAreWeighed ==
    ASSUME NEW i, NEW V, i.outages \in Seq(V),
           \A v \in V : v.entity.id \in Int /\ v.points \in Seq(Point)
    PROVE  Clustering(Clusters(i))
  <1> DEFINE inputs == ToSet(i.outages)
             windows == Windows(inputs)
             groups == SweepClusters(windows)
             places == {n \in DOMAIN groups : Clustered(groups[n])}
             picked == AtPlaces(groups, places)
             order == Ascending(places)
             timed == ClusterOutages(inputs, i.devices)
  <1>1. IsFiniteSet(inputs) /\ Measured(inputs)
    <2>1. IsFiniteSet(inputs) /\ inputs \subseteq V
      BY MembersAreFinite
    <2> HIDE DEF inputs
    <2> QED BY <2>1 DEF Measured
  <1>2. timed = [n \in DOMAIN picked |-> BuildCluster(n, picked[n], inputs, i.devices)]
    BY DEF ClusterOutages, BuildClusters
  <1>3. picked = [n \in DOMAIN order |-> groups[order[n]]]
    BY DEF AtPlaces
  <1> HIDE DEF inputs, timed, picked, order
  <1>4. /\ IsFiniteSet(windows) /\ windows \subseteq Window
        /\ \A w \in windows : w.from <= w.to
    BY <1>1, WindowsAre
  <1> HIDE DEF windows
  <1>5. Sorts(groups, windows)
    BY <1>4, SweepSorts
  <1> HIDE DEF groups
  <1>6. Len(groups) \in Nat /\ DOMAIN groups = 1 .. Len(groups) /\ IsFiniteSet(places) /\ places \subseteq 1 .. Len(groups)
    <2>1. Len(groups) \in Nat /\ DOMAIN groups = 1 .. Len(groups)
      BY <1>5 DEF Sorts
    <2>2. IsFiniteSet(1 .. Len(groups))
      BY <2>1, FS_Interval
    <2> QED BY <2>1, <2>2, FS_Subset
  <1> HIDE DEF places
  <1>7. /\ order \in Seq(places) /\ Len(order) \in Nat /\ DOMAIN order = 1 .. Len(order)
        /\ \A m, n \in 1 .. Len(order) : m < n => order[m] < order[n]
        /\ \A n \in 1 .. Len(order) : order[n] \in places
    <2>1. places \subseteq Int
      BY <1>6
    <2>2. /\ order \in Seq(places) /\ Len(order) \in Nat
          /\ \A m, n \in 1 .. Len(order) : m < n => order[m] < order[n]
          /\ \A n \in 1 .. Len(order) : order[n] \in places
      BY <1>6, <2>1, AscendingIs DEF order
    <2>3. DOMAIN order = 1 .. Len(order)
      BY <2>2
    <2> QED BY <2>2, <2>3
  <1>8. DOMAIN picked = 1 .. Len(order) /\ \A n \in 1 .. Len(order) : picked[n] = groups[order[n]]
    BY <1>3, <1>7
  <1>9. /\ DOMAIN timed = 1 .. Len(order)
        /\ \A n \in 1 .. Len(order) : timed[n] = BuildCluster(n, groups[order[n]], inputs, i.devices)
    BY <1>2, <1>8
  <1>10. Len(timed) = Len(order)
    <2>1. timed = [n \in 1 .. Len(order) |-> timed[n]]
      BY <1>2, <1>8
    <2> QED BY <1>7, <2>1
  <1>11. ASSUME NEW k \in 1 .. Len(groups)
         PROVE  /\ Len(groups[k]) \in Nat \ {0} /\ Head(groups[k]) = groups[k][1]
                /\ groups[k][1].from \in Int /\ groups[k][1].to \in Int /\ groups[k][1].from <= groups[k][1].to
    <2>1. Fills(groups[k], windows)
      BY <1>5, GroupsAre
    <2>2. groups[k] \in Seq(windows) /\ Len(groups[k]) \in Nat \ {0}
      BY <2>1 DEF Fills
    <2>3. Head(groups[k]) = groups[k][1] /\ groups[k][1] \in windows
      BY <2>2
    <2> QED BY <1>4, <2>2, <2>3, WindowFieldsAre
  <1>12. ASSUME NEW n \in 1 .. Len(order)
         PROVE  /\ timed[n].evidence.id = <<"cluster", n>> /\ Weighted(timed[n].evidence)
                /\ timed[n].from = groups[order[n]][1].from
    <2>1. order[n] \in 1 .. Len(groups)
      BY <1>6, <1>7
    <2>2. Len(groups[order[n]]) \in Int
      BY <1>11, <2>1
    <2>3. timed[n] = BuildCluster(n, groups[order[n]], inputs, i.devices)
      BY <1>9
    <2> DEFINE g == groups[order[n]]
               c == timed[n]
    <2>4. Len(g) \in Int /\ c = BuildCluster(n, g, inputs, i.devices) /\ Measured(inputs)
      BY <1>1, <2>2, <2>3
    <2>5. Head(g) = g[1]
      BY <1>11, <2>1
    <2> DEFINE devices == i.devices
    <2>7. Len(g) \in Int /\ c = BuildCluster(n, g, inputs, devices) /\ Measured(inputs)
      BY <2>4
    <2> HIDE DEF g, c, devices
    <2>6. c.evidence.id = <<"cluster", n>> /\ Weighted(c.evidence) /\ c.from = Head(g).from
      BY ONLY <2>7, ClusterWeighs, ZenonT(20)
    <2> QED BY <2>5, <2>6 DEF g, c
  <1>13. ASSUME NEW m \in 1 .. Len(order), NEW n \in 1 .. Len(order), m < n
         PROVE  timed[m].from < timed[n].from
    <2> DEFINE g == groups[order[m]][1]
               h == groups[order[n]][1]
    <2>1. order[m] \in 1 .. Len(groups) /\ order[n] \in 1 .. Len(groups) /\ order[m] < order[n]
      BY <1>6, <1>7, <1>13
    <2>2. 1 \in 1 .. Len(groups[order[m]]) /\ 1 \in 1 .. Len(groups[order[n]])
      BY <1>11, <2>1
    <2>3. g.to + Tolerance < h.from
      BY <1>5, <2>1, <2>2 DEF Sorts, Distant
    <2>4. g.from \in Int /\ g.to \in Int /\ g.from <= g.to /\ h.from \in Int
      BY <1>11, <2>1
    <2>5. timed[m].from = g.from /\ timed[n].from = h.from
      BY <1>12
    <2> DEFINE a == g.from
               b == g.to
               d == h.from
    <2>6. a \in Int /\ b \in Int /\ d \in Int /\ a <= b /\ b + Tolerance < d
      BY <2>3, <2>4
    <2> HIDE DEF a, b, d, g, h
    <2>7. a < d
      BY <2>6, ToleranceAssumption
    <2> QED BY <2>5, <2>7 DEF a, d
  <1>14. timed = <<>> <=> Len(timed) = 0
    <2>1. timed = [n \in 1 .. Len(order) |-> timed[n]]
      BY <1>2, <1>8
    <2> QED BY <1>7, <1>10, <2>1
  <1>15. \A n \in 1 .. Len(order) : timed[n].from \in Int
    <2> TAKE n \in 1 .. Len(order)
    <2>1. order[n] \in 1 .. Len(groups)
      BY <1>6, <1>7
    <2> QED BY <1>11, <1>12, <2>1
  <1>16. Clustering(timed)
    BY <1>7, <1>9, <1>10, <1>12, <1>13, <1>14, <1>15 DEF Clustering
  <1>17. CASE i.outagesRead
    BY <1>16, <1>17 DEF Clusters, timed, inputs
  <1>18. CASE ~i.outagesRead
    <2>1. Clusters(i) = <<>> /\ Len(<<>>) = 0 /\ DOMAIN <<>> = 1 .. 0
      BY <1>18 DEF Clusters
    <2> QED BY <2>1 DEF Clustering
  <1> QED BY <1>17, <1>18

(* The probes around an onset.                                             *)
LEMMA ProbesAre ==
    ASSUME NEW i, NEW P, i.probes \in Seq(P), NEW onset
    PROVE  /\ Probes(i, onset) = <<>> <=> \A k \in DOMAIN i.probes : i.probes[k].onset # onset
           /\ Probes(i, onset) # <<>> => \E k \in DOMAIN i.probes :
                    i.probes[k].onset = onset /\ Head(Probes(i, onset)) = i.probes[k]
  <1> DEFINE probes == i.probes
             places == {k \in DOMAIN probes : probes[k].onset = onset}
             s == AtPlaces(probes, places)
  <1>1. Probes(i, onset) = s
    BY DEF Probes, Kept
  <1>2. Len(probes) \in Nat /\ DOMAIN probes = 1 .. Len(probes)
    <2> HIDE DEF probes
    <2>1. probes \in Seq(P)
      BY DEF probes
    <2> QED BY <2>1
  <1> HIDE DEF probes
  <1>3. places \in SUBSET (1 .. Len(probes))
    BY <1>2
  <1>4. \A k \in places : probes[k].onset = onset /\ k \in DOMAIN probes
    OBVIOUS
  <1>5. \A k \in DOMAIN probes : probes[k].onset = onset => k \in places
    OBVIOUS
  <1> HIDE DEF places, s
  <1>6. /\ s \in Seq({probes[k] : k \in places}) /\ Len(s) = Cardinality(places) /\ Cardinality(places) \in Nat
        /\ \A k \in places : \E m \in 1 .. Cardinality(places) : s[m] = probes[k]
    <2> DEFINE c == Len(probes)
    <2>1. c \in Nat /\ places \in SUBSET (1 .. c)
      BY <1>2, <1>3
    <2> HIDE DEF c
    <2>2. /\ s \in Seq({probes[k] : k \in places}) /\ Len(s) = Cardinality(places) /\ Cardinality(places) \in 0 .. c
          /\ \A k \in places : \E m \in 1 .. Cardinality(places) : s[m] = probes[k]
      BY ONLY <2>1, PlacesAreKept DEF s
    <2> QED BY <2>1, <2>2
  <1>7. s # <<>> => \E k \in places : Head(s) = probes[k]
    <2> DEFINE S == {probes[k] : k \in places}
    <2>1. s \in Seq(S)
      BY <1>6
    <2> HIDE DEF S
    <2>2. s # <<>> => Head(s) \in S
      BY <2>1
    <2> QED BY <2>2 DEF S
  <1>8. s = <<>> => \A k \in places : FALSE
    <2>1. s = <<>> => Len(s) = 0
      OBVIOUS
    <2> QED BY <1>6, <2>1
  <1> QED BY <1>1, <1>4, <1>5, <1>7, <1>8 DEF probes

(* One or none of each number.                                             *)
Numbers(seqs, n, kind) ==
    /\ n \in Nat /\ seqs = [k \in 1 .. n |-> seqs[k]]
    /\ \A k \in 1 .. n :
        /\ seqs[k] \in Seq(ToSet(seqs[k]))
        /\ \A e \in ToSet(seqs[k]) : e.id = <<kind, k>> /\ Weighted(e)
        /\ \A e, f \in ToSet(seqs[k]) : e = f

LEMMA EvidenceFlattens ==
    ASSUME NEW seqs, NEW n, NEW kind, Numbers(seqs, n, kind)
    PROVE  Evidenced(FlattenSeq(seqs), {kind})
  <1> DEFINE V == UNION {ToSet(seqs[k]) : k \in 1 .. n}
             s == FlattenSeq(seqs)
  <1>1. n \in Nat /\ seqs = [k \in 1 .. n |-> seqs[k]] /\ Len(seqs) = n
    <2>1. n \in Nat /\ seqs = [k \in 1 .. n |-> seqs[k]]
      BY DEF Numbers
    <2> QED BY <2>1
  <1>2. \A k \in 1 .. n : seqs[k] \in Seq(V)
    BY SeqWidens DEF Numbers
  <1>3. seqs \in Seq(Seq(V))
    <2> DEFINE A == Seq(V)
    <2>1. \A k \in 1 .. n : seqs[k] \in A
      BY <1>2
    <2> HIDE DEF A
    <2>2. seqs \in Seq(A)
      BY <1>1, <2>1
    <2> QED BY <2>2 DEF A
  <1>4. s \in Seq(V) /\ ToSet(s) = UNION {ToSet(seqs[k]) : k \in 1 .. n}
    BY <1>1, <1>3, FlattenIs
  <1> HIDE DEF s
  <1>5. ToSet(s) = V
    BY <1>4
  <1>6. \A e, f \in V : e.id = f.id => e = f
    <2> SUFFICES ASSUME NEW k \in 1 .. n, NEW m \in 1 .. n, NEW e \in ToSet(seqs[k]), NEW f \in ToSet(seqs[m]), e.id = f.id
                 PROVE  e = f
      OBVIOUS
    <2>1. <<kind, k>> = <<kind, m>>
      BY DEF Numbers
    <2> QED BY <2>1 DEF Numbers
  <1>7. \A e \in V : Weighted(e) /\ e.id[1] = kind
    BY DEF Numbers
  <1> HIDE DEF V
  <1>8. Marked(V, Citable)
    BY <1>6, <1>7 DEF Marked
  <1> QED BY <1>4, <1>5, <1>7, <1>8 DEF Evidenced, s

(* The restarts are shown once for each cluster that was asked after.      *)
LEMMA RestartsEvidence ==
    ASSUME NEW i, NEW timed, Clustering(timed),
           NEW P, i.probes \in Seq(P), \A p \in P : p.events \in {0, 2}
    PROVE  Evidenced(RestartEvidence(i, timed), {"restart"})
  <1> DEFINE n == Len(timed)
             seqs == [k \in DOMAIN timed |-> RestartLeg(i, timed[k], k)]
  <1>1. n \in Nat /\ DOMAIN timed = 1 .. n
    BY DEF Clustering
  <1>2. seqs = [k \in 1 .. n |-> seqs[k]]
    BY <1>1
  <1>3. ASSUME NEW k \in 1 .. n
        PROVE  /\ seqs[k] \in Seq(ToSet(seqs[k]))
               /\ \A e \in ToSet(seqs[k]) : e.id = <<"restart", k>> /\ Weighted(e)
               /\ \A e, f \in ToSet(seqs[k]) : e = f
    <2> DEFINE probes == Probes(i, timed[k].from)
               events == Head(probes).events
               sample == Max({events, 1})
               ev == Observed(<<"restart", k>>, sample, Full, FALSE, [events |-> events])
               s == RestartLeg(i, timed[k], k)
    <2>1. seqs[k] = s
      BY <1>1
    <2>2. s = IF probes = <<>> THEN <<>> ELSE <<ev>>
      BY DEF RestartLeg
    <2>3. probes # <<>> => sample \in Int
      <3>1. probes # <<>> => \E m \in DOMAIN i.probes : Head(probes) = i.probes[m]
        BY ProbesAre
      <3>2. \A m \in DOMAIN i.probes : i.probes[m].events \in Int
        <4>1. \A m \in DOMAIN i.probes : i.probes[m] \in P
          <5> DEFINE q == i.probes
          <5>1. q \in Seq(P)
            OBVIOUS
          <5> HIDE DEF q
          <5>2. \A m \in DOMAIN q : q[m] \in P
            BY <5>1
          <5> QED BY <5>2 DEF q
        <4> QED BY <4>1
      <3> HIDE DEF probes
      <3>3. probes # <<>> => events \in Int
        BY <3>1, <3>2
      <3> HIDE DEF events
      <3> QED BY <3>3, MaxOfTwo
    <2> HIDE DEF probes, sample
    <2>4. ev.id = <<"restart", k>>
      BY DEF Observed
    <2>5. probes # <<>> => Weighted(ev)
      BY <2>3, FullIs, ObservedIs
    <2> HIDE DEF ev, s
    <2>6. CASE probes = <<>>
      <3>1. s = <<>> /\ ToSet(<<>>) = {} /\ <<>> \in Seq({})
        BY <2>2, <2>6 DEF ToSet
      <3> QED BY <2>1, <3>1
    <2>7. CASE probes # <<>>
      <3>1. s = <<ev>> /\ <<ev>> \in Seq({ev})
        BY <2>2, <2>7
      <3>2. ToSet(<<ev>>) = {ev}
        <4>1. DOMAIN <<ev>> = 1 .. 1 /\ <<ev>>[1] = ev
          OBVIOUS
        <4> QED BY <4>1 DEF ToSet
      <3>3. s \in Seq(ToSet(s)) /\ ToSet(s) = {ev}
        BY <3>1, <3>2
      <3> HIDE DEF seqs
      <3> QED BY <2>1, <2>4, <2>5, <2>7, <3>3
    <2> QED BY <2>6, <2>7
  <1>4. RestartEvidence(i, timed) = FlattenSeq(seqs)
    BY DEF RestartEvidence
  <1> HIDE DEF seqs
  <1>5. Numbers(seqs, n, "restart")
    BY <1>1, <1>2, <1>3 DEF Numbers
  <1> QED BY <1>4, <1>5, EvidenceFlattens

(* What an integration is shown by.                                        *)
LEMMA ClustersEvidence ==
    ASSUME NEW i, NEW timed, Clustering(timed), NEW V, i.outages \in Seq(V)
    PROVE  Evidenced(ClusterEvidences(i, timed), {"cluster"} \cup {"throughout"})
  <1> DEFINE n == Len(timed)
             s == [k \in DOMAIN timed |-> timed[k].evidence]
             down == UnavailableThroughout(ToSet(i.outages))
             t == ThroughoutEvidence(i, down)
  <1>1. n \in Nat /\ DOMAIN timed = 1 .. n
    BY DEF Clustering
  <1>2. Evidenced(s, {"cluster"})
    <2>1. s = [k \in 1 .. n |-> s[k]]
      BY <1>1
    <2>2. \A k \in 1 .. n : s[k].id = <<"cluster", k>> /\ Weighted(s[k])
      BY <1>1 DEF Clustering
    <2> HIDE DEF s, n
    <2> QED BY <1>1, <2>1, <2>2, EvidenceNumbered
  <1>3. Cardinality(down) \in Int
    <2> DEFINE S == ToSet(i.outages)
               T == {o \in S : \E w \in ToSet(Availability(o.points).outages) : Throughout(w)}
               f == [o \in T |-> o.entity.id]
    <2>1. IsFiniteSet(S)
      BY MembersAreFinite
    <2> HIDE DEF S
    <2>2. IsFiniteSet(T)
      BY <2>1, FS_Subset
    <2>3. UnavailableThroughout(S) = {f[o] : o \in T}
      BY DEF UnavailableThroughout
    <2> HIDE DEF T, f
    <2>4. IsFiniteSet({f[o] : o \in T})
      BY <2>2, ImageIsFinite
    <2>5. IsFiniteSet(down)
      BY <2>3, <2>4 DEF S
    <2> HIDE DEF down
    <2> QED BY <2>5, FS_CardinalityType
  <1> HIDE DEF down
  <1>4. Evidenced(t, {"throughout"})
    <2> DEFINE ev == Observed(One("throughout"), Cardinality(down), Full, FALSE, [entities |-> Cardinality(down)])
    <2>1. ev.id = One("throughout") /\ One("throughout")[1] = "throughout"
      BY OneIs DEF Observed
    <2>2. Weighted(ev)
      BY <1>3, FullIs, ObservedIs
    <2>3. t = When(i.outagesRead /\ down # {}, ev)
      BY DEF ThroughoutEvidence
    <2> HIDE DEF ev
    <2> QED BY <2>1, <2>2, <2>3, EvidenceWhen
  <1>5. ClusterEvidences(i, timed) = s \o t
    BY DEF ClusterEvidences, down
  <1> HIDE DEF s, t
  <1> QED BY <1>2, <1>4, <1>5, EvidenceJoins

LEMMA InventoryAndSetup ==
    ASSUME NEW i, i.entities \in Int
    PROVE  Evidenced(<<InventoryEvidence(i), SetupStateEvidence(i.entry)>>, {"inventory", "integration_state"})
  <1> DEFINE e == InventoryEvidence(i)
             f == SetupStateEvidence(i.entry)
             s == <<e, f>>
  <1>1. e.id = One("inventory") /\ One("inventory")[1] = "inventory"
    BY OneIs DEF InventoryEvidence, Observed
  <1>2. f.id = One("integration_state") /\ One("integration_state")[1] = "integration_state"
    BY OneIs DEF SetupStateEvidence, Observed
  <1>3. Weighted(e)
    BY FullIs, ObservedIs DEF InventoryEvidence
  <1>4. Weighted(f)
    BY FullIs, ObservedIs DEF SetupStateEvidence
  <1> HIDE DEF e, f
  <1>5. s \in Seq({e, f}) /\ DOMAIN s = 1 .. 2 /\ s[1] = e /\ s[2] = f
    OBVIOUS
  <1>6. ToSet(s) = {e, f}
    BY <1>5 DEF ToSet
  <1> HIDE DEF s
  <1>7. Marked({e, f}, Citable)
    BY <1>1, <1>2, <1>3, <1>4 DEF Marked
  <1>8. Evidenced(s, {"inventory", "integration_state"})
    BY <1>1, <1>2, <1>5, <1>6, <1>7 DEF Evidenced
  <1> QED BY <1>8 DEF s, e, f

LEMMA MeshIsNotCited ==
    ASSUME NEW M, NEW s \in Seq(M), \A m \in M : m.id[1] = "mesh"
    PROVE  Evidenced(s, {"mesh"})
  <1>1. s \in Seq(ToSet(s)) /\ ToSet(s) \subseteq M
    BY SeqOfItsOwn, MembersAreFinite
  <1>2. \A m \in M : m.id \notin Citable
    BY DEF Citable, Kinds
  <1> QED BY <1>1, <1>2 DEF Evidenced, Marked

LEMMA SupervisorShows ==
    ASSUME NEW i
    PROVE  Evidenced(SupervisorEvidence(i), {"supervisor"})
  <1> DEFINE ev == Observed(One("supervisor"), 1, Full, FALSE, [unhealthy |-> i.unhealthy])
  <1>1. ev.id = One("supervisor") /\ One("supervisor")[1] = "supervisor"
    BY OneIs DEF Observed
  <1>2. Weighted(ev)
    BY FullIs, ObservedIs
  <1>3. SupervisorEvidence(i) = When(i.supervisorRead, ev)
    BY DEF SupervisorEvidence
  <1> HIDE DEF ev
  <1> QED BY <1>1, <1>2, <1>3, EvidenceWhen

(* What an integration's input holds.                                      *)
OfAnIntegration(i) ==
    /\ \E V : i.outages \in Seq(V) /\ \A v \in V : v.entity.id \in Int /\ v.points \in Seq(Point)
    /\ \E P : i.probes \in Seq(P) /\ \A p \in P : p.events \in {0, 2}
    /\ \E M : i.mesh \in Seq(M) /\ \A m \in M : m.id[1] = "mesh"
    /\ i.entities \in Int
    /\ i.repairsRead => i.repairs \in RepairLists

IntegrationEvidence(i, timed) ==
    ClusterEvidences(i, timed) \o <<InventoryEvidence(i), SetupStateEvidence(i.entry)>>
        \o RepairEvidence(i, i.entry.domain) \o RestartEvidence(i, timed) \o i.mesh
        \o SupervisorEvidence(i)

(* All the evidence of an integration is told apart by its ids.            *)
LEMMA IntegrationShows ==
    ASSUME NEW i, OfAnIntegration(i), NEW timed, Clustering(timed)
    PROVE  Evidenced(IntegrationEvidence(i, timed), Kinds \cup {"mesh"})
  <1> DEFINE a == ClusterEvidences(i, timed)
             b == <<InventoryEvidence(i), SetupStateEvidence(i.entry)>>
             c == RepairEvidence(i, i.entry.domain)
             d == RestartEvidence(i, timed)
             e == i.mesh
             f == SupervisorEvidence(i)
  <1>1. Evidenced(a, {"cluster", "throughout"})
    <2>1. PICK V : i.outages \in Seq(V)
      BY DEF OfAnIntegration
    <2>2. Evidenced(a, {"cluster"} \cup {"throughout"})
      BY <2>1, ClustersEvidence
    <2>3. {"cluster"} \cup {"throughout"} = {"cluster", "throughout"}
      OBVIOUS
    <2> QED BY <2>2, <2>3
  <1>2. Evidenced(b, {"inventory", "integration_state"})
    BY InventoryAndSetup DEF OfAnIntegration
  <1>3. Evidenced(c, {"repairs"})
    BY RepairsAre DEF OfAnIntegration
  <1>4. Evidenced(d, {"restart"})
    BY RestartsEvidence DEF OfAnIntegration
  <1>5. Evidenced(e, {"mesh"})
    BY MeshIsNotCited DEF OfAnIntegration
  <1>6. Evidenced(f, {"supervisor"})
    BY SupervisorShows
  <1>7. IntegrationEvidence(i, timed) = ((((a \o b) \o c) \o d) \o e) \o f
    BY DEF IntegrationEvidence
  <1> HIDE DEF a, b, c, d, e, f
  <1>8. Evidenced(a \o b, {"cluster", "throughout"} \cup {"inventory", "integration_state"})
    BY <1>1, <1>2, EvidenceJoins
  <1>9. Evidenced((a \o b) \o c, {"cluster", "throughout", "inventory", "integration_state"} \cup {"repairs"})
    BY <1>8, <1>3, EvidenceJoins
  <1>10. Evidenced(((a \o b) \o c) \o d,
                   {"cluster", "throughout", "inventory", "integration_state", "repairs"} \cup {"restart"})
    BY <1>9, <1>4, EvidenceJoins
  <1>11. Evidenced((((a \o b) \o c) \o d) \o e,
                   {"cluster", "throughout", "inventory", "integration_state", "repairs", "restart"} \cup {"mesh"})
    BY <1>10, <1>5, EvidenceJoins
  <1>12. Evidenced(((((a \o b) \o c) \o d) \o e) \o f,
                   {"cluster", "throughout", "inventory", "integration_state", "repairs", "restart", "mesh"}
                        \cup {"supervisor"})
    BY <1>11, <1>6, EvidenceJoins
  <1> QED BY <1>7, <1>12 DEF Evidenced, Kinds

LEMMA ProblemIdsAre ==
    ASSUME NEW i, NEW timed, Clustering(timed)
    PROVE  ProblemIds(i, timed) \in Seq(Citable)
  <1> DEFINE n == Len(timed)
             s == [k \in DOMAIN timed |-> <<"cluster", k>>]
  <1>1. n \in Nat /\ DOMAIN timed = 1 .. n
    BY DEF Clustering
  <1>2. \A k \in 1 .. n : <<"cluster", k>> \in Citable
    BY DEF Citable, Kinds
  <1>3. One("integration_state") \in Citable /\ One("inventory") \in Citable
    BY OneIs DEF Kinds
  <1> HIDE DEF Citable
  <1>4. s \in Seq(Citable)
    BY <1>1, <1>2
  <1> DEFINE t == When(~Loaded(i), One("integration_state"))
             u == When(MajorityUnavailable(i), One("inventory"))
  <1>5. t \in Seq(Citable) /\ u \in Seq(Citable)
    BY <1>3, WhenIsSeq
  <1>6. ProblemIds(i, timed) = s \o t \o u
    BY DEF ProblemIds
  <1> HIDE DEF s, t, u
  <1> QED BY <1>4, <1>5, <1>6

(* What is claimed of an integration.                                      *)
LEMMA IntegrationClaimsAre ==
    ASSUME NEW i, NEW timed, Clustering(timed)
    PROVE  IntegrationClaims(i, timed) \in Seq(Claims)
  <1> DEFINE n == Len(timed)
             ids == ProblemIds(i, timed)
             a == When(~Loaded(i), Claim("setup", <<One("integration_state"), One("inventory")>>))
             b == When(MajorityUnavailable(i), Claim("majority", <<One("inventory")>>))
             c == ClusterClaims(i, timed)
             d == <<Claim("persistent", <<One("throughout")>>)>>
             e == When(Problem(i, timed) /\ RepairsOpen(i, i.entry.domain), Claim("repair", <<One("repairs")>> \o ids))
             f == When(Problem(i, timed) /\ i.supervisorRead /\ i.unhealthy > 0,
                       Claim("host", <<One("supervisor")>> \o ids))
  <1>1. n \in Nat /\ DOMAIN timed = 1 .. n
    BY DEF Clustering
  <1>2. a \in Seq(Claims) /\ b \in Seq(Claims)
    <2>1. /\ Claim("setup", <<One("integration_state"), One("inventory")>>) \in Claims
          /\ Claim("majority", <<One("inventory")>>) \in Claims
      BY CitesOne, CitesTwo DEF Kinds, Statements
    <2> QED BY <2>1, ClaimsWhen
  <1>3. c \in Seq(Claims)
    <2>1. ASSUME NEW k \in 1 .. n
          PROVE  c[k] \in Claims
      <3>1. <<"cluster", k>> \in Citable /\ <<"restart", k>> \in Citable
        BY DEF Citable, Kinds
      <3>2. <<<<"cluster", k>>, <<"restart", k>>>> \in Seq(Citable)
        <4> HIDE DEF Citable
        <4> QED BY <3>1
      <3>3. (IF RestartCoincides(i, timed[k]) THEN "restart" ELSE "upstream") \in Statements
        BY DEF Statements
      <3> DEFINE st == IF RestartCoincides(i, timed[k]) THEN "restart" ELSE "upstream"
      <3>4. c[k] = Claim(st, <<<<"cluster", k>>, <<"restart", k>>>>)
        BY <1>1 DEF ClusterClaims
      <3> HIDE DEF st, c
      <3> QED BY <3>2, <3>3, <3>4 DEF Claim, Claims, Claimed, st
    <2>2. c = [k \in 1 .. n |-> c[k]]
      BY <1>1 DEF ClusterClaims
    <2> HIDE DEF c, Claims
    <2> QED BY <1>1, <2>1, <2>2
  <1>4. d \in Seq(Claims)
    <2>1. Claim("persistent", <<One("throughout")>>) \in Claims
      BY CitesOne DEF Kinds, Statements
    <2> HIDE DEF Claims
    <2> QED BY <2>1
  <1>5. ids \in Seq(Citable)
    BY ProblemIdsAre
  <1> HIDE DEF ids
  <1>6. e \in Seq(Claims) /\ f \in Seq(Claims)
    <2>1. One("repairs") \in Citable /\ One("supervisor") \in Citable
      BY OneIs DEF Kinds
    <2>2. <<One("repairs")>> \o ids \in Seq(Citable) /\ <<One("supervisor")>> \o ids \in Seq(Citable)
      <3> HIDE DEF Citable
      <3> QED BY <2>1, <1>5
    <2>3. "repair" \in Statements /\ "host" \in Statements
      BY DEF Statements
    <2>4. Claim("repair", <<One("repairs")>> \o ids) \in Claims /\ Claim("host", <<One("supervisor")>> \o ids) \in Claims
      BY <2>2, <2>3 DEF Claim, Claims, Claimed
    <2> QED BY <2>4, ClaimsWhen
  <1>7. IntegrationClaims(i, timed) = ((((a \o b) \o c) \o d) \o e) \o f
    BY DEF IntegrationClaims, ids
  <1> HIDE DEF a, b, c, d, e, f
  <1>8. ((a \o b) \o c) \o d \in Seq(Claims)
    BY <1>2, <1>3, <1>4, ClaimsJoin
  <1> QED BY <1>6, <1>7, <1>8, ClaimsJoin

(* An answer about an integration earns its confidence.                    *)
LEMMA IntegrationEarns ==
    ASSUME NEW i, OfAnIntegration(i)
    PROVE  AllEarned(AnalyzeIntegrationHealth(i)) /\ Clustering(Clusters(i))
  <1>1. Clustering(Clusters(i))
    BY ClustersAreWeighed DEF OfAnIntegration
  <1>2. /\ Evidenced(IntegrationEvidence(i, Clusters(i)), Kinds \cup {"mesh"})
        /\ IntegrationClaims(i, Clusters(i)) \in Seq(Claims)
    BY <1>1, IntegrationShows, IntegrationClaimsAre
  <1> QED BY <1>1, <1>2, HealthEarns DEF AnalyzeIntegrationHealth, IntegrationAnalysis, IntegrationEvidence

-----------------------------------------------------------------------------
(* What is claimed of an automation (automation_health.go).                *)

Reasons == {"upstream_unavailable", "unsupported", "budget_exceeded", "policy_denied", "deadline",
            "entity_disabled", "not_exposed", "out_of_retention"}

Deps == [entity : Int, read : BOOLEAN, reason : Reasons \cup {"none"}, points : Seq(Point)]

(* The dependencies of an automation, once each.                           *)
Distinct(deps) == \A j, k \in DOMAIN deps : deps[j].entity = deps[k].entity => j = k

LEMMA DepsAreLine ==
    ASSUME NEW D, NEW deps \in Seq(D), \A d \in D : d.entity \in Int, Distinct(deps)
    PROVE  IsLine(Sorted(ToSet(deps), LAMBDA d, e : d.entity < e.entity), ToSet(deps),
                  {p \in ToSet(deps) \X ToSet(deps) : p[1].entity < p[2].entity})
  <1> DEFINE S == ToSet(deps)
             R == {p \in S \X S : p[1].entity < p[2].entity}
             lt(d, e) == d.entity < e.entity
             s == Sorted(S, LAMBDA d, e : d.entity < e.entity)
  <1>1. IsFiniteSet(S) /\ \A d \in S : d.entity \in Int
    BY MembersAreFinite
  <1>2. \A d, e \in S : d.entity = e.entity => d = e
    BY DEF ToSet, Distinct
  <1>3. s = [i \in 1 .. Cardinality(S) |-> CHOOSE x \in S : Cardinality({y \in S : lt(y, x)}) = i - 1]
    BY DEF Sorted
  <1> HIDE DEF S
  <1>4. \A x, y \in S : <<y, x>> \in R <=> lt(y, x)
    OBVIOUS
  <1>5. \A x \in S : {y \in S : lt(y, x)} = Below(x, S, R)
    <2> HIDE DEF R, lt
    <2> QED BY <1>4 DEF Below
  <1>6. IsTotal(R, S)
    <2> SUFFICES /\ \A x \in S : ~lt(x, x)
                 /\ \A x, y, z \in S : lt(x, y) /\ lt(y, z) => lt(x, z)
                 /\ \A x, y \in S : x = y \/ lt(x, y) \/ lt(y, x)
      <3> HIDE DEF R, lt
      <3> QED BY <1>4 DEF IsTotal
    <2> QED BY <1>1, <1>2
  <1> HIDE DEF s, lt, R
  <1>7. s \in [1 .. Cardinality(S) -> {s[i] : i \in 1 .. Cardinality(S)}]
    BY <1>3
  <1>8. ASSUME NEW i \in 1 .. Cardinality(S), NEW x \in S, Cardinality(Below(x, S, R)) = i - 1
        PROVE  s[i] \in S /\ Cardinality(Below(s[i], S, R)) = i - 1
    <2>1. Cardinality({y \in S : lt(y, x)}) = i - 1
      BY <1>5, <1>8
    <2>2. s[i] = CHOOSE z \in S : Cardinality({y \in S : lt(y, z)}) = i - 1
      BY <1>3
    <2>3. s[i] \in S /\ Cardinality({y \in S : lt(y, s[i])}) = i - 1
      BY <2>1, <2>2
    <2> QED BY <1>5, <2>3
  <1>9. IsLine(s, S, R)
    BY <1>1, <1>6, <1>7, <1>8, Ranking
  <1> QED BY <1>9 DEF s, R, S

(* Runs of an automation.                                                  *)
Ran(runs) ==
    /\ Len(runs) \in Nat /\ DOMAIN runs = 1 .. Len(runs) /\ (runs = <<>> <=> Len(runs) = 0)
    /\ \A k \in 1 .. Len(runs) :
            runs[k].from \in Nat /\ runs[k].to \in Int /\ runs[k].from <= runs[k].to

(* A run ends no sooner than it starts, however its trace was cut.         *)
LEMMA TracedRunsAre ==
    ASSUME NEW traces \in TraceLists
    PROVE  Ran(TracedRuns(traces))
  <1> DEFINE places == {i \in DOMAIN traces : InPeriod(traces[i].start)}
             kept == AtPlaces(traces, places)
             runs == TracedRuns(traces)
  <1>1. Len(traces) \in Nat /\ DOMAIN traces = 1 .. Len(traces)
        /\ \A i \in 1 .. Len(traces) : traces[i].start \in Int /\ traces[i].finish \in Int
    <2> DEFINE T == [start : Int, finish : Int, end : STRING]
    <2>1. traces \in Seq(T)
      BY AnswerAssumption
    <2>2. \A t \in T : t.start \in Int /\ t.finish \in Int
      OBVIOUS
    <2> HIDE DEF T
    <2> QED BY <2>1, <2>2
  <1>2. places \in SUBSET (1 .. Len(traces))
    BY <1>1
  <1>3. \A i \in places : traces[i].start \in Nat /\ traces[i].finish \in Int
    <2>1. \A i \in places : InPeriod(traces[i].start) /\ i \in 1 .. Len(traces)
      BY <1>1
    <2> HIDE DEF places
    <2>2. \A t \in Int : InPeriod(t) => t \in Nat
      BY InstantsAre DEF InPeriod
    <2> QED BY <1>1, <2>1, <2>2
  <1>4. runs = [k \in DOMAIN kept |-> RunOf(kept[k])]
    BY DEF TracedRuns, Kept
  <1> HIDE DEF places, kept, runs
  <1>5. kept \in Seq({traces[i] : i \in places})
    BY <1>1, <1>2, PlacesAreKept DEF kept
  <1>6. Len(kept) \in Nat /\ DOMAIN kept = 1 .. Len(kept)
        /\ \A k \in 1 .. Len(kept) : \E i \in places : kept[k] = traces[i]
    <2> DEFINE S == {traces[i] : i \in places}
    <2>1. kept \in Seq(S)
      BY <1>5
    <2> HIDE DEF S
    <2>2. Len(kept) \in Nat /\ DOMAIN kept = 1 .. Len(kept) /\ \A k \in 1 .. Len(kept) : kept[k] \in S
      BY <2>1
    <2> QED BY <2>2 DEF S
  <1>7. Len(runs) = Len(kept) /\ DOMAIN runs = 1 .. Len(kept) /\ (runs = <<>> <=> Len(runs) = 0)
    <2>1. runs = [k \in 1 .. Len(kept) |-> RunOf(kept[k])]
      BY <1>4, <1>6
    <2> QED BY <1>6, <2>1
  <1>8. ASSUME NEW k \in 1 .. Len(kept)
        PROVE  runs[k].from \in Nat /\ runs[k].to \in Int /\ runs[k].from <= runs[k].to
    <2>1. PICK i \in places : kept[k] = traces[i]
      BY <1>6
    <2> DEFINE a == traces[i].start
               b == traces[i].finish
    <2>2. a \in Nat /\ b \in Int
      BY <1>3
    <2>3. runs[k] = RunOf(traces[i])
      BY <1>4, <1>6, <2>1
    <2>4. runs[k].from = a /\ runs[k].to = Max({a, b})
      BY <2>3 DEF RunOf
    <2> HIDE DEF a, b
    <2>5. Max({a, b}) \in Int /\ a <= Max({a, b})
      BY <2>2, MaxOfTwo
    <2> QED BY <2>2, <2>4, <2>5
  <1> QED BY <1>6, <1>7, <1>8 DEF Ran, runs

LEMMA LoggedRunsAre ==
    ASSUME NEW events \in LogbookRows
    PROVE  Ran(LoggedRuns(events))
  <1> DEFINE places == {i \in DOMAIN events : InPeriod(events[i].when)}
             kept == AtPlaces(events, places)
             ones == {i \in DOMAIN kept : kept[i].context = None
                                 \/ \A j \in 1..(i - 1) : kept[j].context # kept[i].context}
             first == Ascending(ones)
             runs == LoggedRuns(events)
  <1>1. Len(events) \in Nat /\ DOMAIN events = 1 .. Len(events)
        /\ \A i \in 1 .. Len(events) : events[i].when \in Int
    <2> DEFINE T == ToSet(events)
    <2>1. events \in Seq(T) /\ \A t \in T : t.when \in Int
      BY AnswerAssumption
    <2> HIDE DEF T
    <2> QED BY <2>1
  <1>2. places \in SUBSET (1 .. Len(events))
    BY <1>1
  <1>3. \A i \in places : events[i].when \in Nat
    <2>1. \A i \in places : InPeriod(events[i].when) /\ i \in 1 .. Len(events)
      BY <1>1
    <2> HIDE DEF places
    <2>2. \A t \in Int : InPeriod(t) => t \in Nat
      BY InstantsAre DEF InPeriod
    <2> QED BY <1>1, <2>1, <2>2
  <1>4. runs = [k \in DOMAIN first |-> [from |-> kept[first[k]].when, to |-> kept[first[k]].when,
                                        failed |-> FALSE, errored |-> FALSE]]
    BY DEF LoggedRuns, Kept
  <1> HIDE DEF places, kept, runs
  <1>5. kept \in Seq({events[i] : i \in places})
    BY <1>1, <1>2, PlacesAreKept DEF kept
  <1>6. Len(kept) \in Nat /\ DOMAIN kept = 1 .. Len(kept)
        /\ \A k \in 1 .. Len(kept) : \E i \in places : kept[k] = events[i]
    <2> DEFINE S == {events[i] : i \in places}
    <2>1. kept \in Seq(S)
      BY <1>5
    <2> HIDE DEF S
    <2>2. Len(kept) \in Nat /\ DOMAIN kept = 1 .. Len(kept) /\ \A k \in 1 .. Len(kept) : kept[k] \in S
      BY <2>1
    <2> QED BY <2>2 DEF S
  <1>7. ones \subseteq 1 .. Len(kept)
    BY <1>6
  <1> HIDE DEF ones, first
  <1>8. first \in Seq(ones) /\ Len(first) \in Nat /\ \A k \in 1 .. Len(first) : first[k] \in ones
    <2>1. IsFiniteSet(1 .. Len(kept))
      BY <1>6, FS_Interval
    <2>2. IsFiniteSet(ones)
      BY ONLY <1>7, <2>1, FS_Subset
    <2>3. ones \subseteq Int
      BY <1>7
    <2> QED BY <2>2, <2>3, AscendingIs DEF first
  <1>9. DOMAIN first = 1 .. Len(first)
    BY <1>8
  <1>10. Len(runs) = Len(first) /\ DOMAIN runs = 1 .. Len(first) /\ (runs = <<>> <=> Len(runs) = 0)
    <2>1. runs = [k \in 1 .. Len(first) |-> runs[k]]
      BY <1>4, <1>9
    <2> QED BY <1>8, <2>1
  <1>11. ASSUME NEW k \in 1 .. Len(first)
         PROVE  runs[k].from \in Nat /\ runs[k].to \in Int /\ runs[k].from <= runs[k].to
    <2>1. PICK i \in places : kept[first[k]] = events[i]
      BY <1>6, <1>7, <1>8
    <2> DEFINE t == events[i].when
    <2>2. runs[k].from = t /\ runs[k].to = t
      BY <1>4, <1>9, <2>1
    <2>3. t \in Nat
      BY <1>3
    <2> HIDE DEF t
    <2> QED BY <2>2, <2>3
  <1> QED BY <1>8, <1>10, <1>11 DEF Ran, runs

(* What an automation's input holds.                                       *)
OfAnAutomation(i) ==
    /\ i.tracesRead \in BOOLEAN /\ i.fallbackRead \in BOOLEAN /\ i.configRead \in BOOLEAN
    /\ i.tracesRead => i.traces \in TraceLists
    /\ i.fallbackRead => i.events \in LogbookRows /\ i.since \in Int
    /\ i.repairsRead => i.repairs \in RepairLists
    /\ i.deps \in Seq(Deps) /\ Distinct(i.deps)

LEMMA RunsAre ==
    ASSUME NEW i, OfAnAutomation(i)
    PROVE  Ran(Runs(i))
  <1>1. CASE i.tracesRead
    BY <1>1, TracedRunsAre DEF Runs, OfAnAutomation
  <1>2. CASE ~i.tracesRead /\ i.fallbackRead
    BY <1>2, LoggedRunsAre DEF Runs, OfAnAutomation
  <1>3. CASE ~i.tracesRead /\ ~i.fallbackRead
    <2>1. Runs(i) = <<>> /\ Len(<<>>) = 0 /\ DOMAIN <<>> = 1 .. 0
      BY <1>3 DEF Runs
    <2> QED BY <2>1 DEF Ran
  <1> QED BY <1>1, <1>2, <1>3 DEF OfAnAutomation

LEMMA FractionIs ==
    ASSUME NEW since \in Int
    PROVE  PeriodFraction(since)[1] \in Int /\ PeriodFraction(since)[2] \in Nat
  <1>1. CASE since <= From
    BY <1>1, FullIs DEF PeriodFraction
  <1>2. CASE ~(since <= From)
    <2>1. PeriodFraction(since) = <<To - since, To - From>>
      BY <1>2 DEF PeriodFraction
    <2>2. To - since \in Int /\ To - From \in Nat
      BY InstantsAre
    <2> QED BY <2>1, <2>2
  <1> QED BY <1>1, <1>2

(* The share of the window the runs are known for.                         *)
LEMMA TraceCoverageIs ==
    ASSUME NEW traces, NEW runs, Ran(runs)
    PROVE  TraceCoverage(traces, runs)[1] \in Int /\ TraceCoverage(traces, runs)[2] \in Nat
  <1> DEFINE S == {runs[k].from : k \in DOMAIN runs}
  <1>1. CASE runs = <<>> \/ \E k \in DOMAIN traces : traces[k].start < From
    <2>1. TraceCoverage(traces, runs) = Full
      BY <1>1 DEF TraceCoverage
    <2> QED BY <2>1, FullIs
  <1>2. CASE ~(runs = <<>> \/ \E k \in DOMAIN traces : traces[k].start < From)
    <2>1. TraceCoverage(traces, runs) = PeriodFraction(Min(S))
      BY <1>2 DEF TraceCoverage
    <2>2. S \in SUBSET Nat /\ S # {}
      BY <1>2 DEF Ran
    <2> HIDE DEF S
    <2>3. PICK n \in S : \A m \in S : n <= m
      BY <2>2, Least
    <2>4. Min(S) \in S
      BY <2>3 DEF Min
    <2>5. Min(S) \in Int
      <3> DEFINE m == Min(S)
      <3>1. m \in S
        BY <2>4
      <3> HIDE DEF m
      <3>2. m \in Nat
        BY <2>2, <3>1
      <3>3. m \in Int
        BY <3>2
      <3> QED BY <3>3 DEF m
    <2> QED BY <2>1, <2>5, FractionIs
  <1> QED BY <1>1, <1>2

LEMMA RunsEvidence ==
    ASSUME NEW i, OfAnAutomation(i), NEW runs, Ran(runs)
    PROVE  Evidenced(RunEvidence(i, runs), {"runs"})
  <1> DEFINE n == Len(runs)
             p == TraceCoverage(i.traces, runs)
             q == PeriodFraction(i.since)
             e == Observed(One("runs"), n, p, FALSE, [runs |-> n])
             f == Observed(One("runs"), n, q, TRUE, [runs |-> n])
  <1>1. RunEvidence(i, runs) = When(i.tracesRead, e) \o When(~i.tracesRead /\ i.fallbackRead, f)
    BY DEF RunEvidence
  <1>2. n \in Int
    BY DEF Ran
  <1>3. p[1] \in Int /\ p[2] \in Nat
    BY TraceCoverageIs
  <1>4. i.fallbackRead => q[1] \in Int /\ q[2] \in Nat
    BY FractionIs DEF OfAnAutomation
  <1> HIDE DEF p, q, n
  <1>5. e.id[1] = "runs" /\ Weighted(e)
    BY <1>2, <1>3, OneIs DEF Observed, Weighted
  <1>6. f.id[1] = "runs" /\ (i.fallbackRead => Weighted(f))
    BY <1>2, <1>4, OneIs DEF Observed, Weighted
  <1> HIDE DEF e, f
  <1>7. CASE i.tracesRead
    <2>1. When(~i.tracesRead /\ i.fallbackRead, f) = <<>>
      BY <1>7 DEF When
    <2>2. Evidenced(When(i.tracesRead, e), {"runs"})
      BY <1>5, EvidenceWhen
    <2> DEFINE s == When(i.tracesRead, e)
    <2> HIDE DEF s
    <2>3. s \o <<>> = s
      <3>1. s \in Seq(ToSet(s))
        BY <2>2 DEF Evidenced, s
      <3> DEFINE S == ToSet(s)
      <3> HIDE DEF S
      <3>2. s \in Seq(S)
        BY <3>1 DEF S
      <3> QED BY <3>2
    <2> QED BY <1>1, <2>1, <2>2, <2>3 DEF s
  <1>8. CASE ~i.tracesRead
    <2>1. When(i.tracesRead, e) = <<>>
      BY <1>8 DEF When
    <2> DEFINE s == When(~i.tracesRead /\ i.fallbackRead, f)
    <2>2. Evidenced(s, {"runs"})
      BY <1>6, EvidenceWhen
    <2> HIDE DEF s
    <2>3. <<>> \o s = s
      <3>1. s \in Seq(ToSet(s))
        BY <2>2 DEF Evidenced
      <3> DEFINE S == ToSet(s)
      <3> HIDE DEF S
      <3>2. s \in Seq(S)
        BY <3>1 DEF S
      <3> QED BY <3>2
    <2> QED BY <1>1, <2>1, <2>2, <2>3 DEF s
  <1> QED BY <1>7, <1>8 DEF OfAnAutomation

Listed(s) == Len(s) \in Nat /\ DOMAIN s = 1 .. Len(s) /\ s = [k \in 1 .. Len(s) |-> s[k]]

LEMMA SeqIsListed == ASSUME NEW V, NEW s \in Seq(V) PROVE Listed(s)
  BY DEF Listed

(* The dependencies, each measured once.                                   *)
LEMMA DepsAreMeasured ==
    ASSUME NEW i, OfAnAutomation(i)
    PROVE  /\ Listed(MeasuredDeps(i))
           /\ \A n \in 1 .. Len(MeasuredDeps(i)) : i.configRead
                /\ \E d \in ToSet(i.deps) : MeasuredDeps(i)[n] = MeasureDependency(d)
           /\ i.configRead => \A d \in ToSet(i.deps) : \E n \in 1 .. Len(MeasuredDeps(i)) :
                MeasuredDeps(i)[n] = MeasureDependency(d)
  <1> DEFINE deps == i.deps
             s == SortedDeps(i)
             m == MeasuredDeps(i)
             S == ToSet(deps)
  <1>1. m = [k \in DOMAIN s |-> MeasureDependency(s[k])]
    BY DEF MeasuredDeps
  <1>2. s \in Seq(S) /\ (i.configRead => \A x \in S : \E k \in 1 .. Len(s) : s[k] = x)
        /\ (~i.configRead => s = <<>>)
    <2>1. CASE i.configRead
      <3>1. s = Sorted(ToSet(deps), LAMBDA d, e : d.entity < e.entity)
        BY <2>1 DEF SortedDeps
      <3>2. deps \in Seq(Deps) /\ Distinct(deps) /\ \A d \in Deps : d.entity \in Int
        BY DEF OfAnAutomation, Deps
      <3> HIDE DEF deps, s
      <3>3. IsLine(Sorted(ToSet(deps), LAMBDA d, e : d.entity < e.entity), ToSet(deps),
                    {p \in ToSet(deps) \X ToSet(deps) : p[1].entity < p[2].entity})
        BY <3>2, DepsAreLine
      <3>4. IsLine(s, S, {p \in S \X S : p[1].entity < p[2].entity})
        BY <3>1, <3>3
      <3> QED BY <2>1, <3>4 DEF IsLine
    <2>2. CASE ~i.configRead
      <3>1. s = <<>>
        BY <2>2 DEF SortedDeps
      <3> HIDE DEF s, S
      <3> QED BY <2>2, <3>1
    <2> QED BY <2>1, <2>2 DEF OfAnAutomation
  <1> HIDE DEF s, m, S, deps
  <1>3. DOMAIN s = 1 .. Len(s) /\ Len(s) \in Nat /\ \A k \in 1 .. Len(s) : s[k] \in S
    BY <1>2
  <1>4. Len(m) = Len(s) /\ DOMAIN m = 1 .. Len(s) /\ Listed(m)
    <2>1. m = [k \in 1 .. Len(s) |-> MeasureDependency(s[k])]
      BY <1>1, <1>3
    <2>2. Len(m) = Len(s) /\ DOMAIN m = 1 .. Len(s)
      BY <1>3, <2>1
    <2>3. m = [k \in 1 .. Len(m) |-> m[k]]
      BY <2>1, <2>2
    <2> QED BY <1>3, <2>2, <2>3 DEF Listed
  <1>5. ~i.configRead => Len(s) = 0
    BY <1>2
  <1>6. \A k \in 1 .. Len(s) : m[k] = MeasureDependency(s[k])
    BY <1>1, <1>3
  <1>7. \A n \in 1 .. Len(m) : i.configRead /\ \E d \in S : m[n] = MeasureDependency(d)
    <2> TAKE n \in 1 .. Len(m)
    <2>1. n \in 1 .. Len(s)
      BY <1>4
    <2>2. i.configRead
      BY <1>5, <2>1 DEF OfAnAutomation
    <2> QED BY <1>3, <1>6, <2>1, <2>2
  <1>8. i.configRead => \A d \in S : \E n \in 1 .. Len(m) : m[n] = MeasureDependency(d)
    <2> SUFFICES ASSUME i.configRead, NEW d \in S PROVE \E n \in 1 .. Len(m) : m[n] = MeasureDependency(d)
      OBVIOUS
    <2>1. PICK k \in 1 .. Len(s) : s[k] = d
      BY <1>2
    <2> QED BY <1>4, <1>6, <2>1
  <1> QED BY <1>4, <1>7, <1>8 DEF m, S, deps

(* Those of the dependencies of i whose windows are evidence.              *)
Blamable(d) == d.read /\ MeasureDependency(d).spans # {}
BadOf(bad, i) ==
    /\ Listed(bad)
    /\ \A n \in 1 .. Len(bad) : i.configRead
         /\ \E d \in ToSet(i.deps) : Blamable(d) /\ bad[n] = MeasureDependency(d)
    /\ i.configRead => \A d \in ToSet(i.deps) : Blamable(d)
         => \E n \in 1 .. Len(bad) : bad[n] = MeasureDependency(d)

(* None is forgotten, and none is among them that was not read.            *)
LEMMA BadDepsAre ==
    ASSUME NEW i, OfAnAutomation(i), NEW deps, deps = MeasuredDeps(i)
    PROVE  BadOf(BadDeps(deps), i)
  <1> DEFINE places == {k \in DOMAIN deps : deps[k].read /\ deps[k].spans # {}}
             bad == AtPlaces(deps, places)
  <1>1. /\ Listed(deps)
        /\ \A n \in 1 .. Len(deps) : i.configRead /\ \E d \in ToSet(i.deps) : deps[n] = MeasureDependency(d)
        /\ i.configRead => \A d \in ToSet(i.deps) : \E n \in 1 .. Len(deps) : deps[n] = MeasureDependency(d)
    BY DepsAreMeasured
  <1>2. BadDeps(deps) = bad
    BY DEF BadDeps, Kept
  <1>3. places \in SUBSET (1 .. Len(deps))
    BY <1>1 DEF Listed
  <1>4. \A k \in places : deps[k].read /\ deps[k].spans # {}
    OBVIOUS
  <1>5. \A k \in 1 .. Len(deps) : deps[k].read /\ deps[k].spans # {} => k \in places
    BY <1>1 DEF Listed
  <1>6. Len(deps) \in Nat
    BY <1>1 DEF Listed
  <1> HIDE DEF places, bad
  <1>7. /\ bad \in Seq({deps[k] : k \in places}) /\ Len(bad) = Cardinality(places)
        /\ \A k \in places : \E n \in 1 .. Cardinality(places) : bad[n] = deps[k]
    BY ONLY <1>3, <1>6, PlacesAreKept DEF bad
  <1>8. Listed(bad) /\ \A n \in 1 .. Len(bad) : \E k \in places : bad[n] = deps[k]
    <2> DEFINE S == {deps[k] : k \in places}
    <2>1. bad \in Seq(S)
      BY <1>7
    <2> HIDE DEF S
    <2>2. Listed(bad) /\ \A n \in 1 .. Len(bad) : bad[n] \in S
      BY <2>1, SeqIsListed
    <2> QED BY <2>2 DEF S
  <1>9. \A d : MeasureDependency(d).read = d.read
    BY DEF MeasureDependency, Measures
  <1>10. \A n \in 1 .. Len(bad) : i.configRead
            /\ \E d \in ToSet(i.deps) : Blamable(d) /\ bad[n] = MeasureDependency(d)
    <2> TAKE n \in 1 .. Len(bad)
    <2>1. PICK k \in places : bad[n] = deps[k]
      BY <1>8
    <2>2. k \in 1 .. Len(deps)
      BY <1>3
    <2>3. PICK d \in ToSet(i.deps) : deps[k] = MeasureDependency(d)
      BY <1>1, <2>2
    <2> QED BY <1>1, <1>4, <1>9, <2>1, <2>2, <2>3 DEF Blamable
  <1>11. i.configRead => \A d \in ToSet(i.deps) : Blamable(d)
            => \E n \in 1 .. Len(bad) : bad[n] = MeasureDependency(d)
    <2> SUFFICES ASSUME i.configRead, NEW d \in ToSet(i.deps), Blamable(d)
                 PROVE  \E n \in 1 .. Len(bad) : bad[n] = MeasureDependency(d)
      OBVIOUS
    <2>1. PICK k \in 1 .. Len(deps) : deps[k] = MeasureDependency(d)
      BY <1>1
    <2>2. k \in places
      BY <1>5, <1>9, <2>1 DEF Blamable
    <2> QED BY <1>7, <2>1, <2>2
  <1> QED BY <1>2, <1>8, <1>10, <1>11 DEF BadOf

(* What the dependencies are shown by.                                     *)
LEMMA WindowsEvidence ==
    ASSUME NEW i, OfAnAutomation(i), NEW bad, BadOf(bad, i), NEW runs
    PROVE  Evidenced(WindowEvidence(bad, runs), {"dependency"})
  <1> DEFINE s == WindowEvidence(bad, runs)
             n == Len(bad)
  <1>1. n \in Nat /\ DOMAIN bad = 1 .. n
    BY DEF BadOf, Listed
  <1>2. s = [k \in 1 .. n |-> s[k]] /\ \A k \in 1 .. n : s[k] = DependencyEvidence(k, bad[k], runs)
    BY <1>1 DEF WindowEvidence
  <1> HIDE DEF s
  <1>3. ASSUME NEW k \in 1 .. n
        PROVE  s[k].id = <<"dependency", k>> /\ Weighted(s[k])
    <2>1. PICK d \in ToSet(i.deps) : bad[k] = MeasureDependency(d)
      BY DEF BadOf
    <2>2. d.points \in Seq(Point)
      <3>1. i.deps \in Seq(Deps)
        BY DEF OfAnAutomation
      <3>2. ToSet(i.deps) \subseteq Deps
        BY <3>1, MembersAreFinite
      <3> QED BY <3>2 DEF Deps
    <2> DEFINE cover == CoverageOf(Availability(d.points))
    <2>3. bad[k].sample = Len(d.points) /\ bad[k].coverage = cover
      BY <2>1 DEF MeasureDependency, Measures
    <2>4. Len(d.points) \in Int /\ cover[1] \in Int /\ cover[2] \in Nat
      BY <2>2, CoverageWeighs, PointsAre
    <2> HIDE DEF cover
    <2>5. s[k] = DependencyEvidence(k, bad[k], runs)
      BY <1>2
    <2> QED BY <2>3, <2>4, <2>5 DEF DependencyEvidence, Observed, Weighted
  <1> HIDE DEF n
  <1> QED BY <1>1, <1>2, <1>3, EvidenceNumbered DEF s

LEMMA DepsChecked ==
    ASSUME NEW i, NEW deps, Listed(deps), NEW bad
    PROVE  Evidenced(CheckedEvidence(i, deps, bad), {"dependencies"})
  <1> DEFINE S == {k \in DOMAIN deps : deps[k].read}
             checked == Cardinality(S)
             ev == Observed(One("dependencies"), checked, Full, FALSE,
                            [windows |-> Len(bad), unread |-> Len(deps) - checked])
  <1>1. CheckedEvidence(i, deps, bad) = When(i.configRead, ev)
    BY DEF CheckedEvidence
  <1>2. checked \in Int
    <2>1. DOMAIN deps = 1 .. Len(deps) /\ Len(deps) \in Nat
      BY DEF Listed
    <2>2. IsFiniteSet(DOMAIN deps)
      BY <2>1, FS_Interval
    <2>3. IsFiniteSet(S)
      BY <2>2, FS_Subset
    <2> HIDE DEF S
    <2> QED BY <2>3, FS_CardinalityType
  <1> HIDE DEF checked
  <1>3. ev.id = One("dependencies") /\ One("dependencies")[1] = "dependencies"
    BY OneIs DEF Observed
  <1>4. Weighted(ev)
    BY <1>2, FullIs DEF Observed, Weighted
  <1> HIDE DEF ev
  <1> QED BY <1>1, <1>3, <1>4, EvidenceWhen

(* What an automation is shown by and what is claimed of it.               *)
LEMMA ClaimsFlatten ==
    ASSUME NEW n \in Nat, NEW seqs, seqs = [k \in 1 .. n |-> seqs[k]], \A k \in 1 .. n : seqs[k] \in Seq(Claims)
    PROVE  FlattenSeq(seqs) \in Seq(Claims) /\ ToSet(FlattenSeq(seqs)) = UNION {ToSet(seqs[k]) : k \in 1 .. n}
  <1> HIDE DEF Claims
  <1> DEFINE A == Seq(Claims)
  <1>1. \A k \in 1 .. n : seqs[k] \in A
    OBVIOUS
  <1> HIDE DEF A
  <1>2. seqs \in Seq(A) /\ Len(seqs) = n
    BY <1>1
  <1> USE DEF A
  <1>3. seqs \in Seq(Seq(Claims)) /\ Len(seqs) = n
    BY <1>2
  <1> QED BY <1>3, FlattenIs

(* What is claimed of one dependency.                                      *)
LEMMA BlameClaims ==
    ASSUME NEW i, NEW ev, NEW k \in Nat, ev.id = <<"dependency", k>>
    PROVE  Blame(i, ev) \in Seq(Claims) /\ Still(ev) \in Seq(Claims)
  <1>1. ev.id \in Citable /\ One("runs") \in Citable
    BY OneIs DEF Citable, Kinds
  <1> DEFINE id == ev.id
             st == IF i.tracesRead THEN "failed_during" ELSE "ran_during"
  <1>2. id \in Citable
    BY <1>1
  <1> HIDE DEF id
  <1>3. <<One("runs"), id>> \in Seq(Citable) /\ <<id>> \in Seq(Citable)
    <2> HIDE DEF Citable
    <2> QED BY <1>1, <1>2
  <1>4. st \in Statements /\ "dependency_down" \in Statements
    BY DEF Statements
  <1> HIDE DEF st
  <1>5. Claim(st, <<One("runs"), id>>) \in Claims /\ Claim("dependency_down", <<id>>) \in Claims
    BY <1>3, <1>4 DEF Claim, Claims, Claimed
  <1>6. Blame(i, ev) = When(OverlapMatters(i, ev), Claim(st, <<One("runs"), id>>))
    BY DEF Blame, id, st
  <1>7. Still(ev) = When(ev.m.still, Claim("dependency_down", <<id>>))
    BY DEF Still, id
  <1> QED BY <1>5, <1>6, <1>7, ClaimsWhen

LEMMA AutomationClaimsAre ==
    ASSUME NEW i, NEW found, Listed(found), \A n \in 1 .. Len(found) : found[n].id = <<"dependency", n>>, NEW faulty
    PROVE  AutomationClaims(i, found, faulty) \in Seq(Claims)
  <1> DEFINE n == Len(found)
             blames == [k \in DOMAIN found |-> Blame(i, found[k])]
             stills == [k \in DOMAIN found |-> Still(found[k])]
             a == FlattenSeq(blames)
             b == FlattenSeq(stills)
             c == When(faulty, Claim("fault", <<One("runs")>>))
             d == When(faulty /\ RepairsOpen(i, "automation"), Claim("repair", <<One("repairs"), One("runs")>>))
  <1>1. n \in Nat /\ DOMAIN found = 1 .. n
    BY DEF Listed
  <1>2. ASSUME NEW k \in 1 .. n
        PROVE  Blame(i, found[k]) \in Seq(Claims) /\ Still(found[k]) \in Seq(Claims)
    <2>1. k \in Nat /\ found[k].id = <<"dependency", k>>
      BY <1>1
    <2> QED BY <2>1, BlameClaims
  <1>3. /\ blames = [k \in 1 .. n |-> blames[k]] /\ \A k \in 1 .. n : blames[k] \in Seq(Claims)
        /\ stills = [k \in 1 .. n |-> stills[k]] /\ \A k \in 1 .. n : stills[k] \in Seq(Claims)
    BY <1>1, <1>2
  <1> HIDE DEF blames, stills, n
  <1>4. a \in Seq(Claims) /\ b \in Seq(Claims)
    BY <1>1, <1>3, ClaimsFlatten
  <1>5. c \in Seq(Claims) /\ d \in Seq(Claims)
    <2>1. Claim("fault", <<One("runs")>>) \in Claims /\ Claim("repair", <<One("repairs"), One("runs")>>) \in Claims
      BY CitesOne, CitesTwo DEF Kinds, Statements
    <2> QED BY <2>1, ClaimsWhen
  <1>6. AutomationClaims(i, found, faulty) = ((a \o b) \o c) \o d
    BY DEF AutomationClaims, blames, stills
  <1> HIDE DEF a, b, c, d
  <1>7. (a \o b) \o c \in Seq(Claims)
    BY <1>4, <1>5, ClaimsJoin
  <1> QED BY <1>5, <1>6, <1>7, ClaimsJoin

LEMMA FoundIs ==
    ASSUME NEW bad, Listed(bad), NEW runs
    PROVE  /\ Listed(WindowEvidence(bad, runs)) /\ Len(WindowEvidence(bad, runs)) = Len(bad)
           /\ \A n \in 1 .. Len(bad) :
                /\ WindowEvidence(bad, runs)[n] = DependencyEvidence(n, bad[n], runs)
                /\ WindowEvidence(bad, runs)[n].id = <<"dependency", n>>
  <1> DEFINE n == Len(bad)
             s == WindowEvidence(bad, runs)
  <1>1. n \in Nat /\ DOMAIN bad = 1 .. n
    BY DEF Listed
  <1>2. s = [k \in 1 .. n |-> DependencyEvidence(k, bad[k], runs)]
    BY <1>1 DEF WindowEvidence
  <1>3. \A k \in 1 .. n : DependencyEvidence(k, bad[k], runs).id = <<"dependency", k>>
    BY DEF DependencyEvidence, Observed
  <1> HIDE DEF n, s
  <1>4. Len(s) = n /\ DOMAIN s = 1 .. n /\ s = [k \in 1 .. n |-> s[k]]
    BY <1>1, <1>2
  <1>5. Listed(s)
    BY <1>1, <1>4 DEF Listed
  <1> QED BY <1>2, <1>3, <1>4, <1>5 DEF n, s

AutomationEvidence(i, runs, deps, bad, found) ==
    RunEvidence(i, runs) \o found \o CheckedEvidence(i, deps, bad) \o RepairEvidence(i, "automation")

LEMMA AutomationShows ==
    ASSUME NEW i, OfAnAutomation(i), NEW runs, Ran(runs), NEW deps, Listed(deps), NEW bad, BadOf(bad, i),
           NEW found, found = WindowEvidence(bad, runs)
    PROVE  Evidenced(AutomationEvidence(i, runs, deps, bad, found), {"runs", "dependency", "dependencies", "repairs"})
  <1> DEFINE a == RunEvidence(i, runs)
             c == CheckedEvidence(i, deps, bad)
             d == RepairEvidence(i, "automation")
  <1>1. Evidenced(a, {"runs"})
    BY RunsEvidence
  <1>2. Evidenced(found, {"dependency"})
    BY WindowsEvidence
  <1>3. Evidenced(c, {"dependencies"})
    BY DepsChecked
  <1>4. Evidenced(d, {"repairs"})
    BY RepairsAre DEF OfAnAutomation
  <1>5. AutomationEvidence(i, runs, deps, bad, found) = ((a \o found) \o c) \o d
    BY DEF AutomationEvidence
  <1> HIDE DEF a, c, d
  <1>6. Evidenced(a \o found, {"runs"} \cup {"dependency"})
    BY <1>1, <1>2, EvidenceJoins
  <1>7. Evidenced((a \o found) \o c, {"runs", "dependency"} \cup {"dependencies"})
    BY <1>6, <1>3, EvidenceJoins
  <1>8. Evidenced(((a \o found) \o c) \o d, {"runs", "dependency", "dependencies"} \cup {"repairs"})
    BY <1>7, <1>4, EvidenceJoins
  <1> QED BY <1>5, <1>8

(* An answer about an automation earns its confidence.                     *)
LEMMA AutomationEarns ==
    ASSUME NEW i, OfAnAutomation(i)
    PROVE  AllEarned(AnalyzeAutomationHealth(i))
  <1> DEFINE runs == Runs(i)
             deps == MeasuredDeps(i)
             bad == BadDeps(deps)
             found == WindowEvidence(bad, runs)
             faulty == ErrorsOutsideWindows(runs, bad)
             evidence == AutomationEvidence(i, runs, deps, bad, found)
             claims == AutomationClaims(i, found, faulty)
  <1>1. Ran(runs) /\ Listed(deps) /\ BadOf(bad, i)
    BY RunsAre, DepsAreMeasured, BadDepsAre
  <1>2. Listed(bad)
    BY <1>1 DEF BadOf
  <1>3. Evidenced(evidence, {"runs", "dependency", "dependencies", "repairs"})
    <2> HIDE DEF runs, deps, bad
    <2> QED BY <1>1, AutomationShows
  <1>4. claims \in Seq(Claims)
    <2>1. Listed(found) /\ \A n \in 1 .. Len(found) : found[n].id = <<"dependency", n>>
      <3> HIDE DEF runs, deps, bad
      <3> QED BY <1>2, FoundIs
    <2> HIDE DEF found, faulty
    <2> QED BY <2>1, AutomationClaimsAre
  <1>5. \E missing, next : AnalyzeAutomationHealth(i) = Health(evidence, claims, missing, next, {})
    BY DEF AnalyzeAutomationHealth, AutomationAnalysis, Concludes, AutomationEvidence
  <1> HIDE DEF evidence, claims
  <1> QED BY <1>3, <1>4, <1>5, HealthEarns

-----------------------------------------------------------------------------
(* Who is blamed, and on what: an entity and the clusters of an            *)
(* integration.                                                            *)

(* No outage is shown of what was up at the window's start and has not     *)
(* gone down since.                                                        *)
LEMMA UpHasNoOutage ==
    ASSUME NEW points \in Seq(Point), HeldAt(points, From) \notin Down,
           \A j \in DOMAIN points : From < points[j].at /\ points[j].at <= To => points[j].state \notin Down
    PROVE  Availability(points).outages = <<>>
  <1> DEFINE segs == SegmentsIn(points)
             outs == Availability(points).outages
  <1>1. Tells(segs, points) /\ TellsHeld(segs, points) /\ TellsPoints(segs, points)
    BY SegmentsTell
  <1> HIDE DEF segs, outs
  <1>2. Len(segs) \in Nat /\ \A m \in 1 .. Len(segs) : segs[m].start \in Int
    BY <1>1, SegmentsAre DEF Tells
  <1>3. \A j \in DOMAIN points : points[j].at \in Int
    BY PointsAre
  <1>4. ASSUME NEW i \in 1 .. Len(segs), segs[i].state \in Down PROVE FALSE
    <2>1. PICK j \in DOMAIN points :
            /\ segs[i].state = points[j].state
            /\ segs[i].start = points[j].at \/ (points[j].at <= From /\ segs[i].start = From)
      BY <1>1 DEF TellsPoints
    <2>2. From <= segs[i].start /\ segs[i].start <= To /\ (i > 1 => segs[i].start > From)
      BY <1>1 DEF Tells
    <2>3. segs[i].start = From
      BY <1>2, <1>3, <1>4, <2>1, <2>2, InstantsAre
    <2>4. i = 1
      BY <1>2, <2>2, <2>3, InstantsAre
    <2>5. i < Len(segs) => segs[i + 1].start > From
      <3> SUFFICES ASSUME i < Len(segs) PROVE segs[i + 1].start > From
        OBVIOUS
      <3>1. i + 1 \in 1 .. Len(segs) /\ i + 1 > 1
        BY <1>2
      <3> QED BY <1>1, <3>1 DEF Tells
    <2>6. Holding(segs, i, From)
      BY <2>3, <2>5, InstantsAre DEF Holding
    <2>7. From \in From .. To
      BY InstantsAre
    <2>8. HeldAt(points, From) = segs[i].state
      BY <1>1, <2>6, <2>7, HeldIs
    <2> QED BY <1>4, <2>8
  <1>5. \A t \in From .. To : HeldAt(points, t) \notin Down
    BY <1>1, <1>4, HeldIs
  <1>6. ASSUME NEW t \in From .. To PROVE ~DownAt(points, t)
    <2>1. t \in Int /\ From <= t /\ t <= To
      BY InstantsAre
    <2>2. t > From => t - 1 \in From .. To
      BY <2>1, InstantsAre
    <2>3. \A j \in DOMAIN points : t > From /\ points[j].at = t => points[j].state \notin Down
      BY <2>1
    <2> QED BY <1>5, <2>2, <2>3 DEF DownAt
  <1>7. Lies(outs) /\ \A t \in From .. To : ~Meets(outs, t)
    BY <1>6, ReportShows DEF outs
  <1>8. Len(outs) \in Nat /\ (outs = <<>>) = (Len(outs) = 0)
        /\ \A i \in 1 .. Len(outs) : outs[i].from \in Int /\ outs[i].to \in Int
    BY <1>7, OutagesAre DEF Lies
  <1>9. ASSUME Len(outs) # 0 PROVE FALSE
    <2> DEFINE t == outs[1].from
    <2>1. 1 \in 1 .. Len(outs)
      BY <1>8, <1>9
    <2>2. t \in Int /\ outs[1].to \in Int /\ From <= t /\ t <= outs[1].to /\ outs[1].to <= To
      BY <1>7, <1>8, <2>1 DEF Lies
    <2>3. t \in From .. To /\ t <= t
      BY <2>2, InstantsAre
    <2>4. Meets(outs, t)
      BY <2>1, <2>2, <2>3 DEF Meets
    <2> QED BY <1>7, <2>3, <2>4
  <1> QED BY <1>8, <1>9 DEF outs

(* Of an entity that shows no problem nothing is claimed, and nothing      *)
(* said.                                                                   *)
LEMMA NothingIsClaimed ==
    ASSUME NEW i, NEW a, NEW c, a.outages = <<>>, ~c.stale
    PROVE  HistoryClaims(i, a, c) \o SetupClaim(i, a, c) \o RepairClaim(i, a, c) = <<>>
  <1>1. ~(Len(a.outages) >= RepeatedOutages)
    BY RepeatedOutagesAssumption
  <1>2. ~ShowsProblem(i, a, c)
    BY DEF ShowsProblem
  <1>3. HistoryClaims(i, a, c) = <<>>
    BY <1>1 DEF HistoryClaims, When
  <1>4. SetupClaim(i, a, c) = <<>> /\ RepairClaim(i, a, c) = <<>>
    BY <1>2 DEF SetupClaim, RepairClaim, When
  <1> QED BY <1>3, <1>4

LEMMA NothingIsMade ==
    ASSUME NEW evidence, NEW claims, claims = <<>>
    PROVE  Hypotheses(evidence, claims) = <<>>
  <1> DEFINE h == Hypotheses(evidence, claims)
  <1>1. claims \in Seq(Claims) /\ Len(claims) = 0
    <2> HIDE DEF Claims
    <2> QED OBVIOUS
  <1>2. ToSet(h) = MadeOf(evidence, claims) /\ \E V : h \in Seq(V)
    BY <1>1, HypothesesAre DEF Claims
  <1>3. MadeOf(evidence, claims) = {}
    BY <1>1 DEF MadeOf
  <1> HIDE DEF h
  <1>4. PICK V : h \in Seq(V)
    BY <1>2
  <1>5. Len(h) \in Nat /\ DOMAIN h = 1 .. Len(h) /\ (Len(h) = 0 => h = <<>>)
    BY <1>4
  <1>6. \A k \in DOMAIN h : h[k] \in ToSet(h)
    BY DEF ToSet
  <1>7. Len(h) # 0 => 1 \in DOMAIN h
    BY <1>5
  <1> QED BY <1>2, <1>3, <1>5, <1>6, <1>7 DEF h

(* The claims that are made good are those that cite something observed.   *)
LEMMA MadeBy ==
    ASSUME NEW evidence, NEW V, NEW claims \in Seq(V), NEW h
    PROVE  h \in MadeOf(evidence, claims)
               <=> \E claim \in ToSet(claims) : CitesOf(evidence, claim) # <<>> /\ h = Made(evidence, claim)
  <1>1. DOMAIN claims = 1 .. Len(claims)
    OBVIOUS
  <1> QED BY <1>1 DEF MadeOf, ToSet

(* What a list begins with stays in it.                                    *)
Begins(s, u) == (\E V : u \in Seq(V)) /\ ToSet(s) \subseteq ToSet(u)

LEMMA BeginsOn ==
    ASSUME NEW s, NEW u, Begins(s, u), NEW t, NEW W, t \in Seq(W)
    PROVE  Begins(s, u \o t)
  <1>1. PICK V : u \in Seq(V)
    BY DEF Begins
  <1> DEFINE X == V \cup W
  <1>2. u \in Seq(X) /\ t \in Seq(X)
    BY <1>1, SeqWidens
  <1> HIDE DEF X
  <1>3. u \o t \in Seq(X) /\ ToSet(u \o t) = ToSet(u) \cup ToSet(t)
    BY <1>2, Joined
  <1> QED BY <1>3 DEF Begins

(* Every cluster is shown, by its number.                                  *)
LEMMA ClustersBegin ==
    ASSUME NEW i, NEW timed, Clustering(timed)
    PROVE  /\ \E V : ClusterEvidences(i, timed) \in Seq(V)
           /\ \A n \in 1 .. Len(timed) : timed[n].evidence \in ToSet(ClusterEvidences(i, timed))
  <1> DEFINE n == Len(timed)
             s == [k \in DOMAIN timed |-> timed[k].evidence]
             t == ThroughoutEvidence(i, UnavailableThroughout(ToSet(i.outages)))
             V == {timed[k].evidence : k \in 1 .. n}
  <1>1. n \in Nat /\ DOMAIN timed = 1 .. n
    BY DEF Clustering
  <1>2. s \in Seq(V)
    BY <1>1
  <1>3. \A k \in 1 .. n : s[k] = timed[k].evidence /\ k \in DOMAIN s
    BY <1>1
  <1>4. \E W : t \in Seq(W)
    BY WhenIsSeq DEF ThroughoutEvidence
  <1>5. ClusterEvidences(i, timed) = s \o t
    BY DEF ClusterEvidences
  <1> HIDE DEF s, t, V
  <1>6. Begins(s, s)
    BY <1>2 DEF Begins
  <1>7. Begins(s, s \o t)
    BY <1>4, <1>6, BeginsOn
  <1>8. \A k \in 1 .. n : timed[k].evidence \in ToSet(s)
    BY <1>3 DEF ToSet
  <1> QED BY <1>5, <1>7, <1>8 DEF Begins

LEMMA ClustersAreShown ==
    ASSUME NEW i, OfAnIntegration(i), NEW timed, Clustering(timed), NEW n \in 1 .. Len(timed)
    PROVE  <<"cluster", n>> \in Ids(IntegrationEvidence(i, timed))
  <1> DEFINE a == ClusterEvidences(i, timed)
             b == <<InventoryEvidence(i), SetupStateEvidence(i.entry)>>
             c == RepairEvidence(i, i.entry.domain)
             d == RestartEvidence(i, timed)
             e == i.mesh
             f == SupervisorEvidence(i)
             u == IntegrationEvidence(i, timed)
  <1>1. timed[n].evidence \in ToSet(a) /\ timed[n].evidence.id = <<"cluster", n>>
    BY ClustersBegin DEF Clustering
  <1>2. Begins(a, a)
    BY ClustersBegin DEF Begins
  <1>3. \E V : b \in Seq(V)
    <2> DEFINE x == InventoryEvidence(i)
               y == SetupStateEvidence(i.entry)
    <2> HIDE DEF x, y
    <2>1. <<x, y>> \in Seq({x, y})
      OBVIOUS
    <2> QED BY <2>1 DEF x, y
  <1>4. \E V : c \in Seq(V)
    BY WhenIsSeq DEF RepairEvidence
  <1>5. \E V : d \in Seq(V)
    <2>1. Evidenced(d, {"restart"})
      BY RestartsEvidence DEF OfAnIntegration
    <2> QED BY <2>1 DEF Evidenced
  <1>6. \E V : e \in Seq(V)
    BY DEF OfAnIntegration
  <1>7. \E V : f \in Seq(V)
    BY WhenIsSeq DEF SupervisorEvidence
  <1>8. u = ((((a \o b) \o c) \o d) \o e) \o f
    BY DEF IntegrationEvidence
  <1> HIDE DEF a, b, c, d, e, f, u
  <1>9. Begins(a, (a \o b) \o c)
    BY <1>2, <1>3, <1>4, BeginsOn
  <1>10. Begins(a, ((a \o b) \o c) \o d)
    BY <1>5, <1>9, BeginsOn
  <1>11. Begins(a, u)
    BY <1>6, <1>7, <1>8, <1>10, BeginsOn
  <1>12. timed[n].evidence \in ToSet(u)
    BY <1>1, <1>11 DEF Begins
  <1>13. PICK k \in DOMAIN u : u[k] = timed[n].evidence
    BY <1>12 DEF ToSet
  <1>14. u[k].id = <<"cluster", n>>
    BY <1>1, <1>13
  <1> QED BY <1>13, <1>14 DEF Ids, u

(* What an integration's analysis claims of a cluster, and of a majority.  *)
ClusterClaim(i, timed, n) ==
    Claim(IF RestartCoincides(i, timed[n]) THEN "restart" ELSE "upstream",
          <<<<"cluster", n>>, <<"restart", n>>>>)

LEMMA WhenHas ==
    ASSUME NEW holds, NEW x
    PROVE  \A y \in ToSet(When(holds, x)) : y = x /\ holds
  BY DEF ToSet, When

LEMMA ClaimsOfClusters ==
    ASSUME NEW i, NEW timed, Clustering(timed)
    PROVE  /\ \A k \in 1 .. Len(timed) : ClusterClaim(i, timed, k) \in ToSet(IntegrationClaims(i, timed))
           /\ \A claim \in ToSet(IntegrationClaims(i, timed)) :
                /\ claim.statement \in {"restart", "upstream"}
                        => \E k \in 1 .. Len(timed) : claim = ClusterClaim(i, timed, k)
                /\ claim.statement = "majority" => MajorityUnavailable(i)
  <1> DEFINE n == Len(timed)
             ids == ProblemIds(i, timed)
             a == When(~Loaded(i), Claim("setup", <<One("integration_state"), One("inventory")>>))
             b == When(MajorityUnavailable(i), Claim("majority", <<One("inventory")>>))
             c == ClusterClaims(i, timed)
             d == <<Claim("persistent", <<One("throughout")>>)>>
             e == When(Problem(i, timed) /\ RepairsOpen(i, i.entry.domain), Claim("repair", <<One("repairs")>> \o ids))
             f == When(Problem(i, timed) /\ i.supervisorRead /\ i.unhealthy > 0,
                       Claim("host", <<One("supervisor")>> \o ids))
             V == ToSet(a) \cup ToSet(b) \cup ToSet(c) \cup ToSet(d) \cup ToSet(e) \cup ToSet(f)
  <1>1. n \in Nat /\ DOMAIN timed = 1 .. n
    BY DEF Clustering
  <1>2. /\ DOMAIN c = 1 .. n /\ \A k \in 1 .. n : c[k] = ClusterClaim(i, timed, k)
    BY <1>1 DEF ClusterClaims, ClusterClaim
  <1>3. (\A x \in ToSet(a) : x.statement = "setup") /\ (\A x \in ToSet(e) : x.statement = "repair")
        /\ (\A x \in ToSet(f) : x.statement = "host")
    BY WhenHas DEF Claim
  <1>4. \A x \in ToSet(b) : x.statement = "majority" /\ MajorityUnavailable(i)
    BY WhenHas DEF Claim
  <1>5. \A x \in ToSet(d) : x.statement = "persistent"
    BY DEF Claim, ToSet
  <1>6. /\ \A k \in 1 .. n : ClusterClaim(i, timed, k) \in ToSet(c)
        /\ \A x \in ToSet(c) : \E k \in 1 .. n : x = ClusterClaim(i, timed, k)
    <2> HIDE DEF c
    <2> QED BY <1>2 DEF ToSet
  <1>7. \A k \in 1 .. n : ClusterClaim(i, timed, k).statement \in {"restart", "upstream"}
    BY DEF ClusterClaim, Claim
  <1>8. (\E W : a \in Seq(W)) /\ (\E W : b \in Seq(W)) /\ (\E W : e \in Seq(W)) /\ (\E W : f \in Seq(W))
    BY WhenIsSeq
  <1>9. (\E W : c \in Seq(W)) /\ (\E W : d \in Seq(W))
    <2>1. c = [k \in 1 .. n |-> c[k]]
      BY <1>1 DEF ClusterClaims
    <2>2. \A k \in 1 .. n : c[k] \in ToSet(c)
      BY <1>2, <1>6
    <2>3. c \in Seq(ToSet(c))
      <3> HIDE DEF c, n
      <3> DEFINE C == ToSet(c)
      <3> HIDE DEF C
      <3> QED BY <1>1, <2>1, <2>2 DEF C
    <2> DEFINE x == Claim("persistent", <<One("throughout")>>)
    <2> HIDE DEF x
    <2>4. <<x>> \in Seq({x})
      OBVIOUS
    <2> QED BY <2>3, <2>4 DEF x
  <1>10. IntegrationClaims(i, timed) = ((((a \o b) \o c) \o d) \o e) \o f
    BY DEF IntegrationClaims, ids
  <1> HIDE DEF a, b, c, d, e, f, n
  <1>11. ToSet(((((a \o b) \o c) \o d) \o e) \o f) = V
    <2>1. a \in Seq(V) /\ b \in Seq(V) /\ c \in Seq(V) /\ d \in Seq(V) /\ e \in Seq(V) /\ f \in Seq(V)
      <3>1. a \in Seq(ToSet(a)) /\ b \in Seq(ToSet(b)) /\ c \in Seq(ToSet(c))
            /\ d \in Seq(ToSet(d)) /\ e \in Seq(ToSet(e)) /\ f \in Seq(ToSet(f))
        BY <1>8, <1>9, SeqOfItsOwn
      <3> QED BY <3>1, SeqWidens
    <2> HIDE DEF V
    <2>2. a \o b \in Seq(V) /\ ToSet(a \o b) = ToSet(a) \cup ToSet(b)
      BY <2>1, Joined
    <2> DEFINE p == a \o b
    <2>3. p \in Seq(V) /\ ToSet(p) = ToSet(a) \cup ToSet(b)
      BY <2>2
    <2> HIDE DEF p
    <2>4. p \o c \in Seq(V) /\ ToSet(p \o c) = ToSet(p) \cup ToSet(c)
      BY <2>1, <2>3, Joined
    <2> DEFINE q == p \o c
    <2>8. q \in Seq(V) /\ ToSet(q) = ToSet(a) \cup ToSet(b) \cup ToSet(c)
      BY <2>3, <2>4
    <2> HIDE DEF q
    <2>9. q \o d \in Seq(V) /\ ToSet(q \o d) = ToSet(q) \cup ToSet(d)
      BY <2>1, <2>8, Joined
    <2> DEFINE g == q \o d
    <2>5. g \in Seq(V) /\ ToSet(g) = ToSet(a) \cup ToSet(b) \cup ToSet(c) \cup ToSet(d)
      BY <2>8, <2>9
    <2> HIDE DEF g
    <2>6. g \o e \in Seq(V) /\ ToSet(g \o e) = ToSet(g) \cup ToSet(e)
      BY <2>1, <2>5, Joined
    <2> DEFINE r == g \o e
    <2>10. r \in Seq(V) /\ ToSet(r) = ToSet(g) \cup ToSet(e)
      BY <2>6
    <2> HIDE DEF r
    <2>7. ToSet(r \o f) = ToSet(g) \cup ToSet(e) \cup ToSet(f)
      BY <2>1, <2>10, Joined
    <2> QED BY <2>5, <2>7 DEF V, g, p, q, r
  <1>12. \A x \in V :
            /\ x.statement \in {"restart", "upstream"} => x \in ToSet(c)
            /\ x.statement = "majority" => MajorityUnavailable(i)
    <2> TAKE x \in V
    <2>1. x \in ToSet(c) => x.statement # "majority"
      BY <1>6, <1>7
    <2> QED BY <1>3, <1>4, <1>5, <2>1
  <1> QED BY <1>6, <1>10, <1>11, <1>12 DEF n

(* One probe for each onset that was asked after.                          *)
OneProbeEach(probes) == \A p, q \in ToSet(probes) : p.onset = q.onset => p = q
SawRestart(probes, onset) == \E k \in DOMAIN probes : probes[k].onset = onset /\ probes[k].events > 0

(* A cluster coincides with a restart if the probe of its onset saw one.   *)
LEMMA RestartIsSeen ==
    ASSUME NEW i, NEW P, i.probes \in Seq(P), OneProbeEach(i.probes), NEW cluster
    PROVE  RestartCoincides(i, cluster) <=> SawRestart(i.probes, cluster.from)
  <1> DEFINE onset == cluster.from
             probes == i.probes
  <1>1. /\ Probes(i, onset) = <<>> <=> \A k \in DOMAIN probes : probes[k].onset # onset
        /\ Probes(i, onset) # <<>> => \E k \in DOMAIN probes :
                    probes[k].onset = onset /\ Head(Probes(i, onset)) = probes[k]
    BY ProbesAre
  <1>2. CASE Probes(i, onset) = <<>>
    BY <1>1, <1>2 DEF RestartCoincides, SawRestart
  <1>3. CASE Probes(i, onset) # <<>>
    <2>1. PICK k \in DOMAIN probes : probes[k].onset = onset /\ Head(Probes(i, onset)) = probes[k]
      BY <1>1, <1>3
    <2>2. \A m \in DOMAIN probes : probes[m].onset = onset => probes[m] = probes[k]
      BY <2>1 DEF OneProbeEach, ToSet
    <2>3. RestartCoincides(i, cluster) <=> probes[k].events > 0
      BY <1>3, <2>1 DEF RestartCoincides
    <2> QED BY <2>1, <2>2, <2>3 DEF SawRestart
  <1> QED BY <1>2, <1>3

(* What an integration's answer says of a cluster is its one claim.        *)
SaidBy(a, statement) == {h \in ToSet(a.hypotheses) : h.statement = statement}
About(a, n) == {h \in SaidBy(a, "restart") \cup SaidBy(a, "upstream") : <<"cluster", n>> \in ToSet(h.cites)}

LEMMA IntegrationIsMade ==
    ASSUME NEW i, OfAnIntegration(i), NEW timed, timed = Clusters(i), NEW h
    PROVE  h \in ToSet(AnalyzeIntegrationHealth(i).hypotheses)
             <=> \E claim \in ToSet(IntegrationClaims(i, timed)) :
                    /\ CitesOf(IntegrationEvidence(i, timed), claim) # <<>>
                    /\ h = Made(IntegrationEvidence(i, timed), claim)
  <1> DEFINE evidence == IntegrationEvidence(i, timed)
             claims == IntegrationClaims(i, timed)
  <1>1. claims \in Seq(Claims)
    BY IntegrationEarns, IntegrationClaimsAre
  <1>2. AnalyzeIntegrationHealth(i).hypotheses = Hypotheses(evidence, claims)
    BY DEF AnalyzeIntegrationHealth, IntegrationAnalysis, IntegrationEvidence, Health
  <1> HIDE DEF evidence, claims
  <1>3. ToSet(Hypotheses(evidence, claims)) = MadeOf(evidence, claims)
    BY <1>1, HypothesesAre DEF Claims
  <1>4. h \in MadeOf(evidence, claims)
             <=> \E claim \in ToSet(claims) : CitesOf(evidence, claim) # <<>> /\ h = Made(evidence, claim)
    BY <1>1, MadeBy
  <1> QED BY <1>2, <1>3, <1>4 DEF evidence, claims

(* The claim of a cluster cites that cluster and no other.                 *)
LEMMA ClusterIsCited ==
    ASSUME NEW i, OfAnIntegration(i), NEW timed, Clustering(timed), NEW k \in 1 .. Len(timed),
           NEW cites, cites = CitesOf(IntegrationEvidence(i, timed), ClusterClaim(i, timed, k))
    PROVE  /\ cites # <<>> /\ <<"cluster", k>> \in ToSet(cites)
           /\ \A n : <<"cluster", n>> \in ToSet(cites) => n = k
  <1> DEFINE evidence == IntegrationEvidence(i, timed)
             claim == ClusterClaim(i, timed, k)
             x == <<"cluster", k>>
             y == <<"restart", k>>
  <1>1. x \in Ids(evidence)
    BY ClustersAreShown
  <1>2. claim.ids = <<x, y>>
    BY DEF ClusterClaim, Claim
  <1>3. /\ \A n : <<"cluster", n>> = x => n = k
        /\ \A n : <<"cluster", n>> # y
    OBVIOUS
  <1> HIDE DEF evidence, claim, x, y
  <1>4. <<x, y>> \in Seq({x, y}) /\ ToSet(<<x, y>>) = {x, y}
    <2>1. <<x, y>> \in Seq({x, y}) /\ DOMAIN <<x, y>> = 1 .. 2 /\ <<x, y>>[1] = x /\ <<x, y>>[2] = y
      OBVIOUS
    <2> QED BY <2>1 DEF ToSet
  <1> DEFINE I == {x, y}
  <1>5. claim.ids \in Seq(I) /\ ToSet(claim.ids) = I
    BY <1>2, <1>4
  <1> HIDE DEF I
  <1>6. /\ ToSet(CitesOf(evidence, claim)) = ToSet(claim.ids) \cap Ids(evidence)
        /\ CitesOf(evidence, claim) # <<>> <=> \E id \in ToSet(claim.ids) : id \in Ids(evidence)
    BY <1>5, CitesAre
  <1>7. x \in I /\ \A z \in I : z = x \/ z = y
    BY DEF I
  <1> QED BY <1>1, <1>3, <1>5, <1>6, <1>7 DEF evidence, claim, x

LEMMA ClustersAreBlamed ==
    ASSUME NEW i, OfAnIntegration(i), OneProbeEach(i.probes), NEW timed, timed = Clusters(i),
           NEW n \in DOMAIN timed, NEW a, a = AnalyzeIntegrationHealth(i)
    PROVE  /\ Cardinality(About(a, n)) = 1
           /\ \A h \in About(a, n) : (h.statement = "restart") <=> SawRestart(i.probes, timed[n].from)
  <1> DEFINE evidence == IntegrationEvidence(i, timed)
             claim == ClusterClaim(i, timed, n)
             one == Made(evidence, claim)
  <1>1. Clustering(timed) /\ n \in 1 .. Len(timed)
    <2>1. Clustering(timed)
      BY IntegrationEarns
    <2> QED BY <2>1 DEF Clustering
  <1>2. /\ CitesOf(evidence, claim) # <<>> /\ <<"cluster", n>> \in ToSet(CitesOf(evidence, claim))
        /\ claim \in ToSet(IntegrationClaims(i, timed))
    BY <1>1, ClusterIsCited, ClaimsOfClusters
  <1>3. one.statement = claim.statement /\ one.cites = CitesOf(evidence, claim)
    BY DEF Made
  <1>4. /\ claim.statement \in {"restart", "upstream"}
        /\ claim.statement = "restart" <=> RestartCoincides(i, timed[n])
    BY DEF ClusterClaim, Claim
  <1>5. one \in About(a, n)
    <2>1. one \in ToSet(a.hypotheses)
      BY <1>2, IntegrationIsMade
    <2> HIDE DEF one, evidence, claim
    <2> QED BY <1>2, <1>3, <1>4, <2>1 DEF About, SaidBy
  <1>6. ASSUME NEW h \in About(a, n) PROVE h = one
    <2>1. h \in ToSet(a.hypotheses) /\ h.statement \in {"restart", "upstream"} /\ <<"cluster", n>> \in ToSet(h.cites)
      BY <1>6 DEF About, SaidBy
    <2>0. h \in ToSet(AnalyzeIntegrationHealth(i).hypotheses)
      BY <2>1
    <2>2. PICK c \in ToSet(IntegrationClaims(i, timed)) : h = Made(evidence, c)
      <3>1. \E c \in ToSet(IntegrationClaims(i, timed)) :
                /\ CitesOf(IntegrationEvidence(i, timed), c) # <<>>
                /\ h = Made(IntegrationEvidence(i, timed), c)
        BY ONLY <2>0, IntegrationIsMade, timed = Clusters(i), OfAnIntegration(i)
      <3> QED BY <3>1
    <2>3. h.statement = c.statement /\ h.cites = CitesOf(evidence, c)
      BY <2>2 DEF Made
    <2>4. PICK k \in 1 .. Len(timed) : c = ClusterClaim(i, timed, k)
      BY <1>1, <2>1, <2>3, ClaimsOfClusters
    <2>5. n = k
      BY <1>1, <2>1, <2>3, <2>4, ClusterIsCited
    <2> QED BY <2>2, <2>4, <2>5
  <1>7. About(a, n) = {one} /\ Cardinality({one}) = 1
    BY <1>5, <1>6, FS_Singleton
  <1>8. RestartCoincides(i, timed[n]) <=> SawRestart(i.probes, timed[n].from)
    BY RestartIsSeen DEF OfAnIntegration
  <1> HIDE DEF one, claim, evidence
  <1> QED BY <1>3, <1>4, <1>7, <1>8

(* A majority that is spoken of was counted.                               *)
LEMMA MajorityIsCounted ==
    ASSUME NEW i, OfAnIntegration(i), NEW a, a = AnalyzeIntegrationHealth(i), SaidBy(a, "majority") # {}
    PROVE  MajorityUnavailable(i)
  <1> DEFINE timed == Clusters(i)
  <1>1. Clustering(timed)
    BY IntegrationEarns
  <1>2. PICK h \in ToSet(a.hypotheses) : h.statement = "majority"
    BY DEF SaidBy
  <1> HIDE DEF timed
  <1>3. PICK c \in ToSet(IntegrationClaims(i, timed)) : h = Made(IntegrationEvidence(i, timed), c)
    BY <1>2, IntegrationIsMade DEF timed
  <1>4. c.statement = "majority"
    BY <1>2, <1>3 DEF Made
  <1> QED BY <1>1, <1>4, ClaimsOfClusters

-----------------------------------------------------------------------------
(* Who is blamed, and on what: the runs of an automation.                  *)

(* The windows a dependency is blamed by are the spans of the period in    *)
(* which it was not reporting, or was silent for longer than its cadence   *)
(* allows.                                                                 *)
Spanning(spans) == \A s \in spans : s.from \in Int /\ s.to \in Int /\ From <= s.from /\ s.from <= s.to /\ s.to <= To
Inside(spans, t) == \E s \in spans : s.from <= t /\ t <= s.to
SpansOf(points) == BadSpans(Availability(points), Cadence(points))

(* What was never recorded, or at the end alone, has no such windows.      *)
LEMMA OnlyRecordedHaveSpans ==
    ASSUME NEW points \in Seq(Point), SpansOf(points) # {}
    PROVE  Recorded(points, To - 1)
  <1> DEFINE a == Availability(points)
             c == Cadence(points)
  <1>1. BadSpans(a, c) # {} => a.computable
    BY DEF BadSpans
  <1>2. \/ a.covered = 0 /\ a.computable = FALSE /\ \A t \in Seconds : ~Recorded(points, t)
        \/ \E s \in Seconds : a.covered = To - s /\ a.computable = TRUE
                /\ \A t \in Seconds : Recorded(points, t) <=> s <= t
    BY CoveredIs
  <1> HIDE DEF a, c
  <1>3. PICK s \in Seconds : \A t \in Seconds : Recorded(points, t) <=> s <= t
    BY <1>1, <1>2 DEF SpansOf, a, c
  <1>4. To - 1 \in Seconds /\ s <= To - 1
    BY InstantsAre
  <1> QED BY <1>3, <1>4

LEMMA OutagesSpan ==
    ASSUME NEW outs, Lies(outs), NEW S, S = {[from |-> o.from, to |-> o.to] : o \in ToSet(outs)}
    PROVE  Spanning(S) /\ \A t \in From .. To : Meets(outs, t) <=> Inside(S, t)
  <1>1. DOMAIN outs = 1 .. Len(outs) /\ \A k \in 1 .. Len(outs) :
            outs[k].from \in Int /\ outs[k].to \in Int
            /\ From <= outs[k].from /\ outs[k].from <= outs[k].to /\ outs[k].to <= To
    BY OutagesAre DEF Lies
  <1>2. \A s \in S : \E k \in 1 .. Len(outs) : s.from = outs[k].from /\ s.to = outs[k].to
    BY <1>1 DEF ToSet
  <1>3. \A k \in 1 .. Len(outs) : \E s \in S : s.from = outs[k].from /\ s.to = outs[k].to
    <2> TAKE k \in 1 .. Len(outs)
    <2> DEFINE s == [from |-> outs[k].from, to |-> outs[k].to]
    <2>1. s \in S
      BY <1>1 DEF ToSet
    <2> QED BY <2>1
  <1>4. Spanning(S)
    BY <1>1, <1>2 DEF Spanning
  <1>5. \A t : Meets(outs, t) <=> Inside(S, t)
    BY <1>2, <1>3 DEF Meets, Inside
  <1> QED BY <1>4, <1>5

LEMMA SilenceSpans ==
    ASSUME NEW points \in Seq(Point), NEW c, c = Cadence(points),
           NEW S, S = IF c.stale THEN {StaleSpan(c)} ELSE {}
    PROVE  /\ Spanning(S)
           /\ \A t \in From .. To : (c.stale /\ t >= c.lastUpdate + c.threshold) <=> Inside(S, t)
  <1>1. CASE ~c.stale
    BY <1>1 DEF Spanning, Inside
  <1>2. CASE c.stale
    <2> DEFINE u == c.lastUpdate
               h == c.threshold
               s == StaleSpan(c)
    <2>1. u \in Int /\ h \in Nat /\ From < u /\ u <= To /\ To - u > h
      BY <1>2, CadenceIs
    <2>2. s.from = u + h /\ s.to = To /\ S = {s}
      BY <1>2 DEF StaleSpan
    <2> HIDE DEF u, h, s
    <2>3. s.from \in Int /\ s.to \in Int /\ From <= s.from /\ s.from <= s.to /\ s.to <= To
      BY <2>1, <2>2, InstantsAre
    <2>4. \A t \in From .. To : t >= u + h <=> s.from <= t /\ t <= s.to
      BY <2>1, <2>2, InstantsAre
    <2> QED BY <1>2, <2>2, <2>3, <2>4 DEF Spanning, Inside, u, h
  <1> QED BY <1>1, <1>2

(* An instant is in one of the windows just when the dependency was bad at *)
(* it.                                                                     *)
LEMMA SpansAreBad ==
    ASSUME NEW points \in Seq(Point), Recorded(points, To - 1)
    PROVE  /\ Spanning(SpansOf(points))
           /\ \A t \in From .. To : BadAt(points, Cadence(points), t) <=> Inside(SpansOf(points), t)
  <1> DEFINE a == Availability(points)
             c == Cadence(points)
             S == {[from |-> o.from, to |-> o.to] : o \in ToSet(a.outages)}
             R == IF c.stale THEN {StaleSpan(c)} ELSE {}
  <1>1. To - 1 \in Seconds
    BY InstantsAre
  <1>2. a.computable
    BY <1>1, CoveredIs
  <1>3. SpansOf(points) = S \cup R
    BY <1>2 DEF SpansOf, BadSpans
  <1>4. Lies(a.outages) /\ \A t \in From .. To : DownAt(points, t) <=> Meets(a.outages, t)
    BY ReportShows
  <1> DEFINE outs == a.outages
  <1>5. Spanning(S) /\ \A t \in From .. To : Meets(outs, t) <=> Inside(S, t)
    <2>1. Lies(outs)
      BY <1>4
    <2> HIDE DEF outs
    <2>2. \A X : X = {[from |-> o.from, to |-> o.to] : o \in ToSet(outs)}
                    => Spanning(X) /\ \A t \in From .. To : Meets(outs, t) <=> Inside(X, t)
      BY <2>1, OutagesSpan
    <2> QED BY <2>2 DEF outs
  <1>6. /\ Spanning(R)
        /\ \A t \in From .. To : (c.stale /\ t >= c.lastUpdate + c.threshold) <=> Inside(R, t)
    BY SilenceSpans
  <1>7. \A t : BadAt(points, c, t) <=> DownAt(points, t) \/ (c.stale /\ t >= c.lastUpdate + c.threshold)
    <2> HIDE DEF c
    <2> QED BY DEF BadAt, DownAt
  <1> HIDE DEF a, c, S, R
  <1>8. Spanning(S \cup R) /\ \A t : Inside(S \cup R, t) <=> Inside(S, t) \/ Inside(R, t)
    BY <1>5, <1>6 DEF Spanning, Inside
  <1> QED BY <1>3, <1>4, <1>5, <1>6, <1>7, <1>8 DEF c, outs

(* A run touches the windows of a dependency if and only if the dependency *)
(* was bad within the tolerance of the run.                                *)
LEMMA TouchesAre ==
    ASSUME NEW spans, Spanning(spans), NEW r, r.from \in Nat, r.to \in Int, r.from <= r.to
    PROVE  Touches(r, spans) <=> \E t \in From .. To : Inside(spans, t) /\ t \in (r.from - Tolerance) .. (r.to + Tolerance)
  <1> DEFINE b == r.from
             e == r.to
  <1>1. b \in Nat /\ e \in Int /\ b <= e /\ Tolerance \in Nat
    BY ToleranceAssumption
  <1> HIDE DEF b, e
  <1>2. ASSUME NEW s \in spans, b <= s.to + Tolerance, e >= s.from - Tolerance
        PROVE  \E t \in From .. To : s.from <= t /\ t <= s.to /\ t \in (b - Tolerance) .. (e + Tolerance)
    <2> DEFINE f == s.from
               g == s.to
    <2>1. f \in Int /\ g \in Int /\ From <= f /\ f <= g /\ g <= To /\ b <= g + Tolerance /\ e >= f - Tolerance
      BY <1>2 DEF Spanning
    <2> HIDE DEF f, g
    <2>2. CASE f >= b - Tolerance
      <3>1. f \in From .. To /\ f \in (b - Tolerance) .. (e + Tolerance)
        BY <1>1, <2>1, <2>2, InstantsAre
      <3> QED BY <2>1, <3>1 DEF f, g
    <2>3. CASE f < b - Tolerance
      <3> DEFINE t == b - Tolerance
      <3>1. t \in From .. To /\ f <= t /\ t <= g /\ t \in (b - Tolerance) .. (e + Tolerance)
        BY <1>1, <2>1, <2>3, InstantsAre
      <3> QED BY <3>1 DEF f, g
    <2> QED BY <1>1, <2>1, <2>2, <2>3
  <1>3. ASSUME NEW s \in spans, NEW t \in From .. To, s.from <= t, t <= s.to, t \in (b - Tolerance) .. (e + Tolerance)
        PROVE  b <= s.to + Tolerance /\ e >= s.from - Tolerance
    <2> DEFINE f == s.from
               g == s.to
    <2>1. f \in Int /\ g \in Int /\ t \in Int /\ f <= t /\ t <= g /\ b - Tolerance <= t /\ t <= e + Tolerance
      BY <1>1, <1>3, InstantsAre DEF Spanning
    <2> HIDE DEF f, g
    <2>2. b <= g + Tolerance /\ e >= f - Tolerance
      BY <1>1, <2>1
    <2> QED BY <2>2 DEF f, g
  <1> QED BY <1>2, <1>3 DEF Touches, Inside, b, e

LEMMA TouchedIsBad ==
    ASSUME NEW points \in Seq(Point), Recorded(points, To - 1),
           NEW r, r.from \in Nat, r.to \in Int, r.from <= r.to
    PROVE  Touches(r, SpansOf(points)) <=> BadDuring(r, points, Cadence(points))
  <1>1. /\ Spanning(SpansOf(points))
        /\ \A t \in From .. To : BadAt(points, Cadence(points), t) <=> Inside(SpansOf(points), t)
    BY SpansAreBad
  <1> QED BY <1>1, TouchesAre DEF BadDuring

(* What an automation's analysis claims of its runs.                       *)
LEMMA ClaimsOfRuns ==
    ASSUME NEW i, NEW found, Listed(found), \A n \in 1 .. Len(found) : found[n].id = <<"dependency", n>>, NEW faulty,
           NEW claim \in ToSet(AutomationClaims(i, found, faulty))
    PROVE  /\ claim.statement \in {"failed_during", "ran_during"}
                => \E n \in 1 .. Len(found) : OverlapMatters(i, found[n])
           /\ claim.statement = "failed_during" => i.tracesRead
           /\ claim.statement = "fault" => faulty
  <1> DEFINE n == Len(found)
             blames == [k \in DOMAIN found |-> Blame(i, found[k])]
             stills == [k \in DOMAIN found |-> Still(found[k])]
             a == FlattenSeq(blames)
             b == FlattenSeq(stills)
             c == When(faulty, Claim("fault", <<One("runs")>>))
             d == When(faulty /\ RepairsOpen(i, "automation"), Claim("repair", <<One("repairs"), One("runs")>>))
  <1>1. n \in Nat /\ DOMAIN found = 1 .. n
    BY DEF Listed
  <1>2. ASSUME NEW k \in 1 .. n
        PROVE  /\ \A x \in ToSet(Blame(i, found[k])) :
                    /\ x.statement = (IF i.tracesRead THEN "failed_during" ELSE "ran_during")
                    /\ OverlapMatters(i, found[k])
               /\ \A x \in ToSet(Still(found[k])) : x.statement = "dependency_down"
    BY WhenHas DEF Blame, Still, Claim
  <1>3. ASSUME NEW k \in 1 .. n
        PROVE  Blame(i, found[k]) \in Seq(Claims) /\ Still(found[k]) \in Seq(Claims)
    <2>1. k \in Nat /\ found[k].id = <<"dependency", k>>
      BY <1>1
    <2> QED BY <2>1, BlameClaims
  <1>4. /\ blames = [k \in 1 .. n |-> blames[k]] /\ \A k \in 1 .. n : blames[k] = Blame(i, found[k])
        /\ stills = [k \in 1 .. n |-> stills[k]] /\ \A k \in 1 .. n : stills[k] = Still(found[k])
    BY <1>1
  <1> HIDE DEF blames, stills, n
  <1>5. /\ a \in Seq(Claims) /\ ToSet(a) = UNION {ToSet(blames[k]) : k \in 1 .. n}
        /\ b \in Seq(Claims) /\ ToSet(b) = UNION {ToSet(stills[k]) : k \in 1 .. n}
    <2>1. \A k \in 1 .. n : blames[k] \in Seq(Claims) /\ stills[k] \in Seq(Claims)
      <3> TAKE k \in 1 .. n
      <3>1. Blame(i, found[k]) \in Seq(Claims) /\ Still(found[k]) \in Seq(Claims)
        BY <1>3
      <3> QED BY <3>1, <1>4
    <2>2. n \in Nat
      BY <1>1
    <2>3. a \in Seq(Claims) /\ ToSet(a) = UNION {ToSet(blames[k]) : k \in 1 .. n}
      BY <1>4, <2>1, <2>2, ClaimsFlatten
    <2>4. b \in Seq(Claims) /\ ToSet(b) = UNION {ToSet(stills[k]) : k \in 1 .. n}
      BY <1>4, <2>1, <2>2, ClaimsFlatten
    <2> QED BY <2>3, <2>4
  <1>6. \A x \in ToSet(a) : x.statement = (IF i.tracesRead THEN "failed_during" ELSE "ran_during")
                                /\ \E k \in 1 .. n : OverlapMatters(i, found[k])
    BY <1>2, <1>4, <1>5
  <1>7. \A x \in ToSet(b) : x.statement = "dependency_down"
    BY <1>2, <1>4, <1>5
  <1>8. /\ \A x \in ToSet(c) : x.statement = "fault" /\ faulty
        /\ \A x \in ToSet(d) : x.statement = "repair"
    BY WhenHas DEF Claim
  <1>9. c \in Seq(Claims) /\ d \in Seq(Claims)
    <2>1. Claim("fault", <<One("runs")>>) \in Claims /\ Claim("repair", <<One("repairs"), One("runs")>>) \in Claims
      BY CitesOne, CitesTwo DEF Kinds, Statements
    <2> QED BY <2>1, ClaimsWhen
  <1>10. AutomationClaims(i, found, faulty) = ((a \o b) \o c) \o d
    BY DEF AutomationClaims, blames, stills
  <1> HIDE DEF a, b, c, d
  <1>11. ToSet(((a \o b) \o c) \o d) = ToSet(a) \cup ToSet(b) \cup ToSet(c) \cup ToSet(d)
    <2> HIDE DEF Claims
    <2> DEFINE p == a \o b
    <2>1. p \in Seq(Claims) /\ ToSet(p) = ToSet(a) \cup ToSet(b)
      BY <1>5, Joined
    <2> HIDE DEF p
    <2> DEFINE q == p \o c
    <2>2. q \in Seq(Claims) /\ ToSet(q) = ToSet(p) \cup ToSet(c)
      BY <2>1, <1>9, Joined
    <2> HIDE DEF q
    <2>3. ToSet(q \o d) = ToSet(q) \cup ToSet(d)
      BY <2>2, <1>9, Joined
    <2> QED BY <2>1, <2>2, <2>3 DEF p, q
  <1>12. claim \in ToSet(a) \cup ToSet(b) \cup ToSet(c) \cup ToSet(d)
    BY <1>10, <1>11
  <1> QED BY <1>6, <1>7, <1>8, <1>12 DEF n

(* What an automation's answer says is a claim of its analysis.            *)
ShownWindows(i) == WindowEvidence(BadDeps(MeasuredDeps(i)), Runs(i))
Faulty(i) == ErrorsOutsideWindows(Runs(i), BadDeps(MeasuredDeps(i)))

LEMMA AutomationIsMade ==
    ASSUME NEW i, OfAnAutomation(i), NEW h \in ToSet(AnalyzeAutomationHealth(i).hypotheses)
    PROVE  \E claim \in ToSet(AutomationClaims(i, ShownWindows(i), Faulty(i))) : h.statement = claim.statement
  <1> DEFINE runs == Runs(i)
             deps == MeasuredDeps(i)
             bad == BadDeps(deps)
             found == WindowEvidence(bad, runs)
             faulty == ErrorsOutsideWindows(runs, bad)
             evidence == AutomationEvidence(i, runs, deps, bad, found)
             claims == AutomationClaims(i, found, faulty)
  <1>1. Ran(runs) /\ Listed(deps) /\ BadOf(bad, i)
    BY RunsAre, DepsAreMeasured, BadDepsAre
  <1>2. Listed(bad)
    BY <1>1 DEF BadOf
  <1>3. claims \in Seq(Claims)
    <2>1. Listed(found) /\ \A n \in 1 .. Len(found) : found[n].id = <<"dependency", n>>
      <3> HIDE DEF runs, deps, bad
      <3> QED BY <1>2, FoundIs
    <2> HIDE DEF found, faulty
    <2> QED BY <2>1, AutomationClaimsAre
  <1>4. AnalyzeAutomationHealth(i).hypotheses = Hypotheses(evidence, claims)
    BY DEF AnalyzeAutomationHealth, AutomationAnalysis, Concludes, AutomationEvidence, Health
  <1>5. claims = AutomationClaims(i, ShownWindows(i), Faulty(i))
    BY DEF ShownWindows, Faulty
  <1> HIDE DEF evidence, claims
  <1>6. h \in MadeOf(evidence, claims)
    <2>1. ToSet(Hypotheses(evidence, claims)) = MadeOf(evidence, claims)
      BY <1>3, HypothesesAre DEF Claims
    <2> QED BY <1>4, <2>1
  <1>7. PICK claim \in ToSet(claims) : h = Made(evidence, claim)
    BY <1>3, <1>6, MadeBy
  <1>8. h.statement = claim.statement
    BY <1>7 DEF Made
  <1> QED BY <1>5, <1>8

(* A window that matters is one a run of the kind that is blamed touches.  *)
LEMMA WindowMatters ==
    ASSUME NEW i, NEW n, NEW d, NEW runs, OverlapMatters(i, DependencyEvidence(n, d, runs))
    PROVE  \E k \in DOMAIN runs : Touches(runs[k], d.spans) /\ (i.tracesRead => runs[k].failed)
  <1> DEFINE over == Overlapping(runs, d.spans)
             bad == {k \in over : runs[k].failed}
             ev == DependencyEvidence(n, d, runs)
  <1>1. ev.m.overlapping = Cardinality(over) /\ ev.m.failed = Cardinality(bad)
    BY DEF DependencyEvidence, Observed
  <1>2. Cardinality({}) = 0
    BY FS_EmptySet
  <1>3. CASE i.tracesRead
    <2>1. Cardinality(bad) > 0
      BY <1>1, <1>3 DEF OverlapMatters
    <2>2. bad # {}
      <3> HIDE DEF bad
      <3> QED BY <2>1, <1>2
    <2> QED BY <2>2 DEF Overlapping
  <1>4. CASE ~i.tracesRead
    <2>1. Cardinality(over) > 0
      BY <1>1, <1>4 DEF OverlapMatters
    <2>2. over # {}
      <3> HIDE DEF over
      <3> QED BY <2>1, <1>2
    <2> QED BY <1>4, <2>2 DEF Overlapping
  <1> QED BY <1>3, <1>4

(* A run is blamed on a dependency that was bad within its tolerance.      *)
Spanned(d) == d.read /\ Recorded(d.points, To - 1)
Blames(i, d, k) ==
    /\ BadDuring(Runs(i)[k], d.points, Cadence(d.points))
    /\ i.tracesRead => Runs(i)[k].failed

LEMMA BlamableIsSpanned ==
    ASSUME NEW d \in Deps
    PROVE  /\ d.points \in Seq(Point) /\ MeasureDependency(d).spans = SpansOf(d.points)
           /\ Blamable(d) => Spanned(d)
  <1>1. d.points \in Seq(Point)
    BY DEF Deps
  <1>2. MeasureDependency(d).spans = SpansOf(d.points)
    BY DEF MeasureDependency, Measures, SpansOf
  <1> QED BY <1>1, <1>2, OnlyRecordedHaveSpans DEF Blamable, Spanned

LEMMA DepsAreDeps ==
    ASSUME NEW i, OfAnAutomation(i)
    PROVE  ToSet(i.deps) \subseteq Deps
  <1>1. i.deps \in Seq(Deps)
    BY DEF OfAnAutomation
  <1> QED BY <1>1, MembersAreFinite

LEMMA RunIsBlamedOnBad ==
    ASSUME NEW i, OfAnAutomation(i), NEW n \in 1 .. Len(ShownWindows(i)), OverlapMatters(i, ShownWindows(i)[n])
    PROVE  \E d \in ToSet(i.deps) : Spanned(d) /\ \E k \in DOMAIN Runs(i) : Blames(i, d, k)
  <1> DEFINE runs == Runs(i)
             deps == MeasuredDeps(i)
             bad == BadDeps(deps)
  <1>1. Ran(runs) /\ BadOf(bad, i)
    BY RunsAre, BadDepsAre
  <1>2. ShownWindows(i) = WindowEvidence(bad, runs)
    BY DEF ShownWindows
  <1> HIDE DEF runs, deps, bad
  <1>3. Listed(bad)
    BY <1>1 DEF BadOf
  <1>4. n \in 1 .. Len(bad) /\ ShownWindows(i)[n] = DependencyEvidence(n, bad[n], runs)
    BY <1>2, <1>3, FoundIs
  <1>5. PICK d \in ToSet(i.deps) : Blamable(d) /\ bad[n] = MeasureDependency(d)
    BY <1>1, <1>4 DEF BadOf
  <1>6. d \in Deps
    BY DepsAreDeps
  <1>7. d.points \in Seq(Point) /\ bad[n].spans = SpansOf(d.points) /\ Spanned(d)
    BY <1>5, <1>6, BlamableIsSpanned
  <1>8. OverlapMatters(i, DependencyEvidence(n, bad[n], runs))
    BY <1>4
  <1>9. PICK k \in DOMAIN runs : Touches(runs[k], bad[n].spans) /\ (i.tracesRead => runs[k].failed)
    BY <1>8, WindowMatters
  <1>10. runs[k].from \in Nat /\ runs[k].to \in Int /\ runs[k].from <= runs[k].to
    BY <1>1 DEF Ran
  <1>11. Touches(runs[k], SpansOf(d.points)) /\ Recorded(d.points, To - 1)
    BY <1>7, <1>9 DEF Spanned
  <1> DEFINE r == runs[k]
  <1> HIDE DEF r
  <1>12. BadDuring(r, d.points, Cadence(d.points))
    BY <1>7, <1>10, <1>11, TouchedIsBad DEF r
  <1> QED BY <1>7, <1>9, <1>12 DEF Blames, runs, r

(* A run that erred outside every window erred while every dependency that *)
(* was measured was well.                                                  *)
LEMMA FaultIsNoOnesElse ==
    ASSUME NEW i, OfAnAutomation(i), i.configRead \/ i.deps = <<>>, Faulty(i)
    PROVE  \E k \in DOMAIN Runs(i) : Runs(i)[k].errored
                /\ \A d \in ToSet(i.deps) : Spanned(d) => ~BadDuring(Runs(i)[k], d.points, Cadence(d.points))
  <1> DEFINE runs == Runs(i)
             deps == MeasuredDeps(i)
             bad == BadDeps(deps)
             windows == UNION {d.spans : d \in ToSet(bad)}
  <1>1. Ran(runs) /\ BadOf(bad, i)
    BY RunsAre, BadDepsAre
  <1>2. PICK k \in DOMAIN runs : runs[k].errored /\ ~Touches(runs[k], windows)
    BY DEF Faulty, ErrorsOutsideWindows
  <1>3. ASSUME NEW d \in ToSet(i.deps), Spanned(d)
        PROVE  ~BadDuring(runs[k], d.points, Cadence(d.points))
    <2> DEFINE r == runs[k]
               spans == SpansOf(d.points)
    <2>1. d \in Deps
      BY DepsAreDeps
    <2>2. d.points \in Seq(Point) /\ MeasureDependency(d).spans = spans /\ Recorded(d.points, To - 1) /\ d.read
      BY <1>3, <2>1, BlamableIsSpanned DEF Spanned
    <2>3. r.from \in Nat /\ r.to \in Int /\ r.from <= r.to
      BY <1>1 DEF Ran
    <2>4. i.configRead
      BY DEF ToSet
    <2>5. spans \subseteq windows
      <3> HIDE DEF bad, spans
      <3>1. CASE spans = {}
        BY <3>1
      <3>2. CASE spans # {}
        <4>1. Blamable(d)
          BY <2>2, <3>2 DEF Blamable
        <4>2. PICK m \in 1 .. Len(bad) : bad[m] = MeasureDependency(d)
          BY <1>1, <2>4, <4>1 DEF BadOf
        <4>3. bad[m] \in ToSet(bad) /\ bad[m].spans = spans
          BY <1>1, <2>2, <4>2 DEF BadOf, Listed, ToSet
        <4> QED BY <4>3
      <3> QED BY <3>1, <3>2
    <2> HIDE DEF spans, windows, r
    <2>6. ~Touches(r, spans)
      BY <1>2, <2>5 DEF Touches, r
    <2>7. ~BadDuring(r, d.points, Cadence(d.points))
      BY <2>2, <2>3, <2>6, TouchedIsBad DEF spans
    <2> QED BY <2>7 DEF r
  <1> QED BY <1>2, <1>3
=============================================================================
