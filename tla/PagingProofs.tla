---------------------------- MODULE PagingProofs ----------------------------
(***************************************************************************)
(* Theorems about Paging, for any finite set of records of any sizes, any  *)
(* limits and any number of changes: what sort.Search and the loop that    *)
(* cuts a page return, and that a tool which sorts by key keeps the        *)
(* promise of CursorScan.                                                  *)
(***************************************************************************)
EXTENDS Paging, FiniteSetTheorems, TLAPS

-----------------------------------------------------------------------------
(* Induction over the naturals, by a smallest counterexample.              *)
LEMMA Least ==
    ASSUME NEW T \in SUBSET Nat, T # {}
    PROVE  \E n \in T : \A m \in T : n <= m
  <1> DEFINE R == OpToRel(<, Nat)
  <1>1. IsWellFoundedOn(R, Nat)
    BY NatLessThanWellFounded
  <1>2. \A m, n \in Nat : m < n => <<m, n>> \in R
    BY DEF OpToRel
  <1> HIDE DEF R
  <1>3. PICK n \in T : \A m \in T : <<m, n>> \notin R
    BY <1>1, WFMin
  <1>4. ASSUME NEW m \in T PROVE n <= m
    <2>1. m \in Nat /\ n \in Nat /\ ~(m < n)
      BY <1>2, <1>3
    <2> QED BY <2>1
  <1> QED BY <1>4

(* A statement about every natural number, as the set of those it holds    *)
(* for: it is enough that it holds of n when it holds of all below n.      *)
LEMMA CompleteInduction ==
    ASSUME NEW T, \A n \in Nat : (\A m \in Nat : m < n => m \in T) => n \in T
    PROVE  \A n \in Nat : n \in T
  <1> SUFFICES ASSUME Nat \ T # {} PROVE FALSE
    OBVIOUS
  <1>1. PICK n \in Nat \ T : \A m \in Nat \ T : n <= m
    BY Least
  <1>2. \A m \in Nat : m < n => m \in T
    BY <1>1
  <1> QED BY <1>1, <1>2

-----------------------------------------------------------------------------
(* The sorted copy of the list holds each record once, by ascending key.   *)
IsSortedList(s) ==
    /\ Len(s) \in Nat /\ \A i \in 1 .. Len(s) : s[i] \in list
    /\ \A r \in list : \E i \in 1 .. Len(s) : s[i] = r
    /\ \A i, j \in 1 .. Len(s) : i < j => Key[s[i]] < Key[s[j]]

LEMMA SortedList ==
    ASSUME list \subseteq Records, SortsByKey, NEW s \in Sorted
    PROVE  IsSortedList(s)
  <1> DEFINE n == Cardinality(list)
  <1>1. IsFiniteSet(list) /\ n \in Nat
    BY RecordAssumption, FS_Subset, FS_CardinalityType
  <1>2. /\ s \in [1 .. n -> list] /\ \A i, j \in 1 .. n : i # j => s[i] # s[j]
        /\ \A i, j \in DOMAIN s : i < j => Place[s[i]] <= Place[s[j]]
    BY DEF Sorted, SetToSeqs
  <1>3. Len(s) = n /\ DOMAIN s = 1 .. n
    BY <1>1, <1>2
  <1>4. s \in Injection(1 .. n, list)
    BY <1>2 DEF Injection, IsInjective
  <1>5. IsFiniteSet(1 .. n) /\ Cardinality(1 .. n) = n
    <2>1. 1 \in Int /\ n \in Int
      BY <1>1
    <2>2. Cardinality(1 .. n) = IF 1 > n THEN 0 ELSE n - 1 + 1
      BY <2>1, FS_Interval
    <2> QED BY <1>1, <2>1, <2>2, FS_Interval
  <1>6. s \in Surjection(1 .. n, list)
    BY <1>1, <1>4, <1>5, FS_Injection
  <1>7. \A r \in list : \E i \in 1 .. n : s[i] = r
    BY <1>6 DEF Surjection
  <1>8. ASSUME NEW i \in 1 .. n, NEW j \in 1 .. n, i < j
        PROVE  Key[s[i]] < Key[s[j]]
    <2>1. s[i] \in Records /\ s[j] \in Records /\ s[i] # s[j]
      BY <1>1, <1>2, <1>8
    <2>2. Place[s[i]] <= Place[s[j]]
      BY <1>2, <1>3, <1>8
    <2>3. Key[s[i]] <= Key[s[j]] /\ Key[s[i]] # Key[s[j]]
      BY <2>1, <2>2 DEF SortsByKey
    <2>4. Key[s[i]] \in Nat /\ Key[s[j]] \in Nat
      BY <2>1, RecordAssumption
    <2> QED BY <2>3, <2>4
  <1> HIDE DEF n
  <1> QED BY <1>1, <1>2, <1>3, <1>7, <1>8 DEF IsSortedList

(* Where the records at or before a key end, in a list sorted by key.      *)
Divides(s, key, m) ==
    /\ m \in 0 .. Len(s)
    /\ \A i \in 1 .. Len(s) : Key[s[i]] > key <=> i > m

LEMMA SomeDivision ==
    ASSUME list \subseteq Records, NEW s, IsSortedList(s), NEW key \in Nat
    PROVE  \E m : Divides(s, key, m)
  <1> DEFINE n == Len(s)
             T == {m \in 0 .. n : \A i \in 1 .. n : i > m => Key[s[i]] > key}
  <1>0. n \in Nat /\ \A i \in 1 .. n : Key[s[i]] \in Nat
    BY RecordAssumption DEF IsSortedList
  <1>1. n \in T /\ T \subseteq Nat
    BY <1>0
  <1>2. PICK m \in T : \A k \in T : m <= k
    BY <1>1, Least
  <1>3. ASSUME NEW i \in 1 .. n, i <= m, Key[s[i]] > key
        PROVE  FALSE
    <2>1. m \in 1 .. n /\ m - 1 \in 0 .. n
      BY <1>0, <1>2, <1>3
    <2>2. Key[s[m]] > key
      <3>1. CASE i = m
        BY <1>3, <3>1
      <3>2. CASE i < m
        <4>1. Key[s[i]] < Key[s[m]]
          BY <2>1, <3>2 DEF IsSortedList
        <4> QED BY <1>0, <1>3, <2>1, <4>1
      <3> QED BY <1>0, <1>3, <2>1, <3>1, <3>2
    <2>3. m - 1 \in T
      BY <1>0, <1>2, <2>1, <2>2
    <2>4. m <= m - 1 /\ m \in Int
      <3> HIDE DEF T
      <3> QED BY <1>0, <1>2, <2>1, <2>3
    <2> QED BY <2>4
  <1> QED BY <1>0, <1>2, <1>3 DEF Divides

-----------------------------------------------------------------------------
(* sort.Search finds the division, wherever it lies: it looks at the       *)
(* middle of the window (w[1], w[2]) and goes on in one half.              *)
Middle(w) == (w[1] + w[2]) \div 2

Found(f, w, s, key) ==
    IF w[1] >= w[2] THEN w[1]
    ELSE IF IsAfter(s[Middle(w) + 1], key) THEN f[<<w[1], Middle(w)>>]
    ELSE f[<<Middle(w) + 1, w[2]>>]

LEMMA Halves ==
    ASSUME NEW i \in Nat, NEW j \in Nat, i < j
    PROVE  (i + j) \div 2 \in Nat /\ i <= (i + j) \div 2 /\ (i + j) \div 2 < j
  OBVIOUS

(* The recursion is well-defined, because the windows shrink: whatever     *)
(* works for the windows shorter than d works for those of length d.       *)
IsSearch(f, s, key, n) == f = [w \in (0 .. n) \X (0 .. n) |-> Found(f, w, s, key)]

LEMMA SearchIsDefined ==
    ASSUME NEW s, NEW key, NEW n \in Nat
    PROVE  \E f : IsSearch(f, s, key, n)
  <1> DEFINE W == (0 .. n) \X (0 .. n)
             Upto(f, d) == \A w \in W : w[2] - w[1] < d => f[w] = Found(f, w, s, key)
             T == {d \in Nat : \E f : Upto(f, d)}
  <1>1. ASSUME NEW f, NEW g, NEW w \in W, w[1] < w[2] => f[<<w[1], Middle(w)>>] = g[<<w[1], Middle(w)>>],
               w[1] < w[2] => f[<<Middle(w) + 1, w[2]>>] = g[<<Middle(w) + 1, w[2]>>]
        PROVE  Found(f, w, s, key) = Found(g, w, s, key)
    BY <1>1 DEF Found
  <1>2. ASSUME NEW w \in W, w[1] < w[2]
        PROVE  /\ <<w[1], Middle(w)>> \in W /\ <<Middle(w) + 1, w[2]>> \in W
               /\ Middle(w) - w[1] < w[2] - w[1] /\ w[2] - (Middle(w) + 1) < w[2] - w[1]
    <2>1. w[1] \in 0 .. n /\ w[2] \in 0 .. n
      OBVIOUS
    <2>2. Middle(w) \in Nat /\ w[1] <= Middle(w) /\ Middle(w) < w[2]
      BY <1>2, <2>1, Halves DEF Middle
    <2> QED BY <2>1, <2>2
  <1>3. ASSUME NEW d \in Nat, \A e \in Nat : e < d => e \in T
        PROVE  d \in T
    <2>1. CASE d = 0
      <3> DEFINE f == [w \in W |-> w[1]]
      <3>1. Upto(f, d)
        <4> SUFFICES ASSUME NEW w \in W, w[2] - w[1] < d PROVE f[w] = Found(f, w, s, key)
          OBVIOUS
        <4>1. w[1] >= w[2]
          BY <2>1
        <4> QED BY <4>1 DEF Found
      <3> HIDE DEF f, Upto
      <3> QED BY <3>1
    <2>2. CASE d # 0
      <3>1. d - 1 \in T
        <4> HIDE DEF T
        <4> QED BY <1>3, <2>2
      <3>2. PICK g : Upto(g, d - 1)
        <4> HIDE DEF Upto
        <4> QED BY <3>1
      <3> DEFINE f == [w \in W |-> Found(g, w, s, key)]
      <3>3. \A w \in W : f[w] = Found(g, w, s, key)
        OBVIOUS
      <3>4. Upto(f, d)
        <4> SUFFICES ASSUME NEW w \in W, w[2] - w[1] < d PROVE f[w] = Found(f, w, s, key)
          OBVIOUS
        <4>1. \A v \in W : v[2] - v[1] < w[2] - w[1] => f[v] = g[v]
          <5> TAKE v \in W
          <5> HAVE v[2] - v[1] < w[2] - w[1]
          <5>1. v[1] \in Int /\ v[2] \in Int /\ w[1] \in Int /\ w[2] \in Int
            OBVIOUS
          <5>2. v[2] - v[1] < d - 1
            BY <5>1
          <5> HIDE DEF f
          <5> QED BY <3>2, <3>3, <5>2
        <4> HIDE DEF f
        <4>2. ASSUME w[1] < w[2]
              PROVE  /\ f[<<w[1], Middle(w)>>] = g[<<w[1], Middle(w)>>]
                     /\ f[<<Middle(w) + 1, w[2]>>] = g[<<Middle(w) + 1, w[2]>>]
          <5>1. \A a, b : <<a, b>>[1] = a /\ <<a, b>>[2] = b
            OBVIOUS
          <5> HIDE DEF W
          <5> QED BY <1>2, <4>1, <4>2, <5>1
        <4> QED BY <1>1, <3>3, <4>2
      <3> HIDE DEF f, Upto
      <3> QED BY <3>4
    <2> QED BY <2>1, <2>2
  <1>4. n + 1 \in T
    <2>1. \A d \in Nat : d \in T
      <3> HIDE DEF T
      <3> QED BY <1>3, CompleteInduction
    <2> HIDE DEF T
    <2> QED BY <2>1
  <1>5. PICK g : Upto(g, n + 1)
    <2> HIDE DEF Upto
    <2> QED BY <1>4
  <1>6. \A w \in W : g[w] = Found(g, w, s, key)
    BY <1>5
  <1> DEFINE f == [w \in W |-> g[w]]
  <1>7. ASSUME NEW w \in W PROVE f[w] = Found(f, w, s, key)
    <2>1. \A v \in W : f[v] = g[v]
      OBVIOUS
    <2> HIDE DEF f, W
    <2>2. Found(f, w, s, key) = Found(g, w, s, key)
      BY <1>1, <1>2, <2>1
    <2> QED BY <1>6, <2>1, <2>2
  <1>8. f = [w \in W |-> Found(f, w, s, key)]
    BY <1>7
  <1>9. IsSearch(f, s, key, n)
    BY <1>8 DEF IsSearch
  <1> HIDE DEF f
  <1> QED BY <1>9

LEMMA SearchUnfolds ==
    ASSUME NEW s, NEW key, Len(s) \in Nat
    PROVE  \E find : /\ Search(s, key) = find[<<0, Len(s)>>]
                     /\ \A w \in (0 .. Len(s)) \X (0 .. Len(s)) : find[w] = Found(find, w, s, key)
  <1> DEFINE find == CHOOSE f : IsSearch(f, s, key, Len(s))
  <1>1. IsSearch(find, s, key, Len(s))
    BY SearchIsDefined
  <1>2. Search(s, key) = find[<<0, Len(s)>>]
    BY DEF Search, IsSearch, Found, Middle
  <1> HIDE DEF find
  <1>3. \A w \in (0 .. Len(s)) \X (0 .. Len(s)) : find[w] = Found(find, w, s, key)
    BY <1>1 DEF IsSearch
  <1> QED BY <1>2, <1>3

(* In any list, sorted or not, the search stays within the list.           *)
LEMMA SearchBounds ==
    ASSUME NEW s, NEW key, Len(s) \in Nat
    PROVE  Search(s, key) \in 0 .. Len(s)
  <1> DEFINE n == Len(s)
             W == (0 .. n) \X (0 .. n)
  <1>1. PICK find : /\ Search(s, key) = find[<<0, n>>]
                    /\ \A w \in W : find[w] = Found(find, w, s, key)
    BY SearchUnfolds
  <1> DEFINE T == {d \in Nat : \A i, j \in 0 .. n : i <= j /\ j - i = d => find[<<i, j>>] \in 0 .. n}
  <1>2. ASSUME NEW d \in Nat, \A e \in Nat : e < d => e \in T
        PROVE  d \in T
    <2> SUFFICES ASSUME NEW i \in 0 .. n, NEW j \in 0 .. n, i <= j, j - i = d
                 PROVE  find[<<i, j>>] \in 0 .. n
      OBVIOUS
    <2>1. find[<<i, j>>] = Found(find, <<i, j>>, s, key)
      BY <1>1
    <2>2. CASE i >= j
      BY <2>1, <2>2 DEF Found
    <2>3. CASE i < j
      <3>1. PICK k \in Nat : k = Middle(<<i, j>>) /\ i <= k /\ k < j
        BY <2>3, Halves DEF Middle
      <3>2. find[<<i, j>>] \in {find[<<i, k>>], find[<<k + 1, j>>]}
        BY <2>1, <2>3, <3>1 DEF Found
      <3>3. k - i \in Nat /\ k - i < d /\ j - (k + 1) \in Nat /\ j - (k + 1) < d
        BY <3>1
      <3>4. k - i \in T /\ j - (k + 1) \in T
        <4> HIDE DEF T
        <4> QED BY <1>2, <3>3
      <3>5. \A e \in {k - i, j - (k + 1)} : \A a, b \in 0 .. n :
               a <= b /\ b - a = e => find[<<a, b>>] \in 0 .. n
        BY <3>4
      <3>6. i <= k /\ k + 1 <= j /\ k \in 0 .. n /\ k + 1 \in 0 .. n
        BY <3>1
      <3>7. find[<<i, k>>] \in 0 .. n
        BY <3>5, <3>6
      <3>8. find[<<k + 1, j>>] \in 0 .. n
        BY <3>5, <3>6
      <3> QED BY <3>2, <3>7, <3>8
    <2> QED BY <2>2, <2>3
  <1>3. \A d \in Nat : d \in T
    <2> HIDE DEF T
    <2> QED BY <1>2, CompleteInduction
  <1>4. n \in T /\ 0 \in 0 .. n /\ n \in 0 .. n /\ n - 0 = n
    <2> HIDE DEF T
    <2> QED BY <1>3
  <1> QED BY <1>1, <1>4

(* In a list that the key divides, it finds the division.                  *)
LEMMA SearchFinds ==
    ASSUME NEW s, NEW key, Len(s) \in Nat, NEW m \in 0 .. Len(s),
           \A i \in 1 .. Len(s) : IsAfter(s[i], key) <=> i > m
    PROVE  Search(s, key) = m
  <1> DEFINE n == Len(s)
             W == (0 .. n) \X (0 .. n)
  <1>2. PICK find : /\ Search(s, key) = find[<<0, n>>]
                    /\ \A w \in W : find[w] = Found(find, w, s, key)
    BY SearchUnfolds
  <1> DEFINE T == {d \in Nat : \A i, j \in 0 .. n :
                      i <= m /\ m <= j /\ j - i = d => find[<<i, j>>] = m}
  <1>3. ASSUME NEW d \in Nat, \A e \in Nat : e < d => e \in T
        PROVE  d \in T
    <2> SUFFICES ASSUME NEW i \in 0 .. n, NEW j \in 0 .. n, i <= m, m <= j, j - i = d
                 PROVE  find[<<i, j>>] = m
      OBVIOUS
    <2>1. <<i, j>> \in W /\ i \in Nat /\ j \in Nat
      OBVIOUS
    <2>2. find[<<i, j>>] = Found(find, <<i, j>>, s, key)
      BY <1>2, <2>1
    <2>3. CASE i >= j
      BY <2>2, <2>3 DEF Found
    <2>4. CASE i < j
      <3>1. PICK k \in Nat : k = Middle(<<i, j>>) /\ i <= k /\ k < j
        BY <2>1, <2>4, Halves DEF Middle
      <3>2. find[<<i, j>>] =
               IF IsAfter(s[k + 1], key) THEN find[<<i, k>>] ELSE find[<<k + 1, j>>]
        BY <2>2, <2>4, <3>1 DEF Found
      <3>3. k + 1 \in 1 .. n /\ (IsAfter(s[k + 1], key) <=> k + 1 > m)
        BY <3>1
      <3>4. CASE k + 1 > m
        <4>1. m <= k /\ k \in 0 .. n /\ k - i \in Nat /\ k - i < d
          BY <3>1, <3>4
        <4>2. find[<<i, k>>] = m
          BY <1>3, <4>1
        <4> QED BY <3>2, <3>3, <3>4, <4>2
      <3>5. CASE ~(k + 1 > m)
        <4>1. k + 1 <= m /\ k + 1 \in 0 .. n /\ j - (k + 1) \in Nat /\ j - (k + 1) < d
          BY <3>1, <3>5
        <4>2. find[<<k + 1, j>>] = m
          BY <1>3, <4>1
        <4> QED BY <3>2, <3>3, <3>5, <4>2
      <3> QED BY <3>4, <3>5
    <2> QED BY <2>3, <2>4
  <1>4. \A d \in Nat : d \in T
    <2> HIDE DEF T
    <2> QED BY <1>3, CompleteInduction
  <1>5. 0 \in 0 .. n /\ n \in 0 .. n /\ n - 0 = n /\ 0 <= m /\ m <= n
    OBVIOUS
  <1>6. find[<<0, n>>] = m
    <2>1. \A i, j \in 0 .. n : i <= m /\ m <= j /\ j - i = n => find[<<i, j>>] = m
      BY <1>4
    <2> QED BY <1>5, <2>1
  <1> QED BY <1>2, <1>6

-----------------------------------------------------------------------------
(* The loop that cuts the page stops somewhere: at the first record that   *)
(* it does not take.                                                       *)
IsEnd(e, s, start, limit) ==
    e = [i \in start .. Len(s) |->
           IF i < Len(s) /\ Takes(s, start, i, limit) THEN e[i + 1] ELSE i]

LEMMA CutIsDefined ==
    ASSUME NEW s, Len(s) \in Nat, NEW a \in Nat, NEW limit
    PROVE  \E e : IsEnd(e, s, a, limit)
  <1> DEFINE n == Len(s)
             A == {i \in Nat : Takes(s, a, i, limit)}
             Stops(i) == {j \in i .. n : ~(j < n /\ j \in A)}
             First(i) == CHOOSE j \in Stops(i) : \A k \in Stops(i) : j <= k
             e == [i \in a .. n |-> First(i)]
  <1>1. ASSUME NEW i \in a .. n
        PROVE  First(i) \in Stops(i) /\ \A k \in Stops(i) : First(i) <= k
    <2>1. n \in Stops(i) /\ Stops(i) \subseteq Nat
      OBVIOUS
    <2>2. \E j \in Stops(i) : \A k \in Stops(i) : j <= k
      <3> HIDE DEF Stops
      <3> QED BY <2>1, Least
    <2> HIDE DEF Stops
    <2> QED BY <2>2
  <1>2. ASSUME NEW i \in a .. n PROVE First(i) = IF i < n /\ i \in A THEN e[i + 1] ELSE i
    <2>1. CASE i < n /\ i \in A
      <3>1. i + 1 \in a .. n
        BY <2>1
      <3>2. Stops(i) = Stops(i + 1)
        BY <2>1
      <3>3. First(i) = First(i + 1)
        BY <3>2
      <3> HIDE DEF First
      <3> QED BY <2>1, <3>1, <3>3
    <2>2. CASE ~(i < n /\ i \in A)
      <3>1. i \in Stops(i) /\ \A k \in Stops(i) : i <= k /\ k \in Nat
        BY <2>2
      <3>2. First(i) \in Stops(i) /\ First(i) <= i
        <4> HIDE DEF Stops, First
        <4> QED BY <1>1, <3>1
      <3>3. First(i) = i
        <4> HIDE DEF Stops, First
        <4> QED BY <3>1, <3>2
      <3> HIDE DEF First
      <3> QED BY <2>2, <3>3
    <2> QED BY <2>1, <2>2
  <1>3. e = [i \in a .. n |-> IF i < n /\ i \in A THEN e[i + 1] ELSE i]
    <2> HIDE DEF First
    <2> QED BY <1>2
  <1>4. IsEnd(e, s, a, limit)
    <2> HIDE DEF First
    <2> QED BY <1>3 DEF IsEnd
  <1> HIDE DEF e
  <1> QED BY <1>4

(* A page ends within the list and within its limit, and is empty only     *)
(* where the list ends: whatever the sizes of the records and the cap.     *)
LEMMA CutBounds ==
    ASSUME NEW s, Len(s) \in Nat, NEW start \in 0 .. Len(s), NEW limit \in Nat \ {0}
    PROVE  /\ Cut(s, start, limit) \in start .. Len(s)
           /\ Cut(s, start, limit) - start <= limit
           /\ start < Len(s) => Cut(s, start, limit) > start
  <1> DEFINE n == Len(s)
             stop == CHOOSE e : IsEnd(e, s, start, limit)
  <1>1. IsEnd(stop, s, start, limit)
    BY CutIsDefined
  <1>2. Cut(s, start, limit) = stop[start]
    BY DEF Cut, IsEnd
  <1>3. /\ \A i \in Nat : Takes(s, start, i, limit) => i - start < limit
        /\ Takes(s, start, start, limit)
    BY DEF Takes
  <1> HIDE DEF stop
  <1>4. \A i \in start .. n :
           stop[i] = IF i < n /\ Takes(s, start, i, limit) THEN stop[i + 1] ELSE i
    BY <1>1 DEF IsEnd
  <1> DEFINE T == {d \in Nat : \A i \in start .. n : n - i = d =>
                      stop[i] \in i .. n /\ (i - start <= limit => stop[i] - start <= limit)}
  <1>5. ASSUME NEW d \in Nat, \A e \in Nat : e < d => e \in T
        PROVE  d \in T
    <2> SUFFICES ASSUME NEW i \in start .. n, n - i = d
                 PROVE  stop[i] \in i .. n /\ (i - start <= limit => stop[i] - start <= limit)
      OBVIOUS
    <2>1. CASE ~(i < n /\ Takes(s, start, i, limit))
      BY <1>4, <2>1
    <2>2. CASE i < n /\ Takes(s, start, i, limit)
      <3>1. stop[i] = stop[i + 1] /\ i + 1 \in start .. n /\ i - start < limit
        BY <1>3, <1>4, <2>2
      <3>2. n - (i + 1) \in Nat /\ n - (i + 1) < d
        BY <2>2
      <3>t. n - (i + 1) \in T
        <4> HIDE DEF T
        <4> QED BY <1>5, <3>2
      <3>3. stop[i + 1] \in i + 1 .. n
            /\ (i + 1 - start <= limit => stop[i + 1] - start <= limit)
        <4>1. \A j \in start .. n : n - j = n - (i + 1) =>
                 stop[j] \in j .. n /\ (j - start <= limit => stop[j] - start <= limit)
          BY <3>t
        <4> QED BY <3>1, <4>1
      <3> QED BY <3>1, <3>3
    <2> QED BY <2>1, <2>2
  <1>6. \A d \in Nat : d \in T
    <2> HIDE DEF T
    <2> QED BY <1>5, CompleteInduction
  <1>7. \A i \in start .. n :
           stop[i] \in i .. n /\ (i - start <= limit => stop[i] - start <= limit)
    <2> TAKE i \in start .. n
    <2>1. n - i \in T
      <3>1. n - i \in Nat
        OBVIOUS
      <3> HIDE DEF T
      <3> QED BY <1>6, <3>1
    <2> QED BY <2>1
  <1>8. stop[start] \in start .. n /\ stop[start] - start <= limit
    BY <1>7
  <1>9. ASSUME start < n PROVE stop[start] > start
    <2>1. stop[start] = stop[start + 1] /\ start + 1 \in start .. n
      BY <1>3, <1>4, <1>9
    <2>2. stop[start + 1] \in start + 1 .. n
      BY <1>7, <2>1
    <2> QED BY <2>1, <2>2
  <1> QED BY <1>2, <1>8, <1>9

-----------------------------------------------------------------------------
(* Type correctness, for every list tool, in whatever order it sorts.      *)

LEMMA Limits == \A requested \in Requested : ResolveLimit(requested) \in 1 .. MaxLimit
  BY RecordAssumption, PageLimitAssumption DEF ResolveLimit

LEMMA CursorIsNatural == TypeOK => cursor \in Nat
  BY RecordAssumption DEF TypeOK, NoCursor

LEMMA AnyList ==
    ASSUME TypeOK, NEW s \in Sorted
    PROVE  Len(s) \in Nat /\ \A i \in 1 .. Len(s) : s[i] \in list
  <1> DEFINE n == Cardinality(list)
  <1>1. n \in Nat
    BY RecordAssumption, FS_Subset, FS_CardinalityType DEF TypeOK
  <1>2. s \in [1 .. n -> list]
    BY DEF Sorted, SetToSeqs
  <1> HIDE DEF n
  <1>3. Len(s) = n
    BY <1>1, <1>2
  <1> QED BY <1>1, <1>2, <1>3

(* Where the page of one answer lies in the list.                          *)
LEMMA PageLies ==
    ASSUME TypeOK, NEW requested \in Requested, NEW s \in Sorted,
           NEW start, start = Start(s), NEW end, end = Cut(s, start, ResolveLimit(requested))
    PROVE  /\ start \in 0 .. Len(s) /\ end \in start .. Len(s)
           /\ end - start \in 0 .. MaxLimit
           /\ start < Len(s) => end > start
  <1>1. Len(s) \in Nat
    BY AnyList
  <1>2. start \in 0 .. Len(s)
    BY <1>1, SearchBounds DEF Start
  <1>3. ResolveLimit(requested) \in Nat \ {0} /\ ResolveLimit(requested) <= MaxLimit /\ MaxLimit \in Nat
    BY Limits, PageLimitAssumption
  <1>4. /\ end \in start .. Len(s) /\ end - start <= ResolveLimit(requested)
        /\ start < Len(s) => end > start
    BY <1>1, <1>2, <1>3, CutBounds
  <1> QED BY <1>1, <1>2, <1>3, <1>4

LEMMA InitType == Init => TypeOK
  <1> SUFFICES ASSUME Init PROVE TypeOK
    OBVIOUS
  <1>1. longest \in 0 .. MaxLimit /\ changes \in 0 .. MaxChanges
    BY RecordAssumption, PageLimitAssumption DEF Init
  <1>2. times \in [Records -> Nat] /\ done \in BOOLEAN
    BY DEF Init
  <1>3. list \subseteq Records /\ stayed \subseteq list /\ cursor = NoCursor
    BY DEF Init
  <1> QED BY <1>1, <1>2, <1>3 DEF TypeOK

LEMMA NextType == TypeOK /\ [Next]_vars => TypeOK'
  <1> SUFFICES ASSUME TypeOK, [Next]_vars PROVE TypeOK'
    OBVIOUS
  <1>1. CASE Call
    <2>1. PICK requested \in Requested, s \in Sorted :
             LET limit == ResolveLimit(requested)
                 start == Start(s)
                 end   == Cut(s, start, limit)
                 page  == {s[i] : i \in start + 1 .. end}
             IN /\ times' = [r \in Records |-> IF r \in page THEN times[r] + 1 ELSE times[r]]
                /\ longest' = Max({longest, end - start})
                /\ done' = ~IsTruncated(s, start, end, limit)
                /\ cursor' = IF done' THEN cursor ELSE CursorAfter(s, end)
      BY <1>1 DEF Call
    <2>2. PICK start : start = Start(s)
      OBVIOUS
    <2>3. PICK end : end = Cut(s, start, ResolveLimit(requested))
      OBVIOUS
    <2>4. /\ start \in 0 .. Len(s) /\ end \in start .. Len(s) /\ end - start \in 0 .. MaxLimit
          /\ Len(s) \in Nat /\ \A i \in 1 .. Len(s) : s[i] \in list
      BY <2>2, <2>3, PageLies, AnyList
    <2>5. times' \in [Records -> Nat]
      BY <2>1 DEF TypeOK
    <2>6. longest' \in 0 .. MaxLimit
      <3>1. longest' = Max({longest, end - start})
        BY <2>1, <2>2, <2>3
      <3>2. \E x \in {longest, end - start} : \A y \in {longest, end - start} : x >= y
        BY <2>4, PageLimitAssumption DEF TypeOK
      <3>3. Max({longest, end - start}) \in {longest, end - start}
        BY <3>2 DEF Max
      <3> QED BY <2>4, <3>1, <3>3 DEF TypeOK
    <2>7. cursor' \in {Key[r] : r \in Records} \cup {NoCursor}
      <3>1. CursorAfter(s, end) \in {Key[r] : r \in Records} \cup {NoCursor}
        <4>1. CASE end = 0
          BY <4>1 DEF CursorAfter, TypeOK
        <4>2. CASE end # 0
          <5>1. s[end] \in Records
            BY <2>4, <4>2 DEF TypeOK
          <5> QED BY <4>2, <5>1 DEF CursorAfter
        <4> QED BY <4>1, <4>2
      <3> QED BY <2>1, <2>2, <2>3, <3>1 DEF TypeOK
    <2>8. done' \in BOOLEAN
      BY <2>1 DEF IsTruncated
    <2> QED BY <1>1, <2>5, <2>6, <2>7, <2>8 DEF Call, TypeOK
  <1>2. CASE Change
    <2>1. changes' \in 0 .. MaxChanges
      BY <1>2, RecordAssumption DEF Change, TypeOK
    <2> QED BY <1>2, <2>1 DEF Change, TypeOK
  <1>3. CASE UNCHANGED vars
    BY <1>3 DEF vars, TypeOK
  <1> QED BY <1>1, <1>2, <1>3 DEF Next

(* Every value has its type: a cursor is a key or none, and no page is     *)
(* longer than the largest limit, for any records, sizes, orders and       *)
(* limits.                                                                 *)
THEOREM TypeCorrect == Spec => []TypeOK
  BY InitType, NextType, PTL DEF Spec

-----------------------------------------------------------------------------
(* A tool that sorts by key keeps the promise of CursorScan.               *)

LEMMA KeyFacts ==
    ASSUME SortsByKey
    PROVE  /\ Keys \subseteq Nat \ {0}
           /\ \A r \in Records : Key[r] \in Keys /\ TimesByKey[Key[r]] = times[r]
           /\ \A r \in Records, S \in SUBSET Records : Key[r] \in KeysOf(S) <=> r \in S
  <1>1. Keys \subseteq Nat \ {0} /\ \A r \in Records : Key[r] \in Keys
    BY RecordAssumption DEF Keys
  <1>2. ASSUME NEW r \in Records PROVE TimesByKey[Key[r]] = times[r]
    <2>1. (CHOOSE q \in Records : Key[q] = Key[r]) = r
      BY DEF SortsByKey
    <2> QED BY <1>1, <2>1 DEF TimesByKey
  <1>3. \A r \in Records, S \in SUBSET Records : Key[r] \in KeysOf(S) <=> r \in S
    BY DEF SortsByKey, KeysOf
  <1> QED BY <1>1, <1>2, <1>3

LEMMA KeyFactsNext ==
    ASSUME SortsByKey
    PROVE  \A r \in Records : TimesByKey'[Key[r]] = times'[r]
  <1> SUFFICES ASSUME NEW r \in Records PROVE TimesByKey'[Key[r]] = times'[r]
    OBVIOUS
  <1>1. (CHOOSE q \in Records : Key[q] = Key[r]) = r
    BY DEF SortsByKey
  <1> QED BY <1>1 DEF TimesByKey, Keys

(* The page starts right after the cursor, wherever its record has gone.   *)
LEMMA StartDivides ==
    ASSUME TypeOK, NEW s, IsSortedList(s)
    PROVE  Divides(s, cursor, Start(s))
  <1>0. Len(s) \in Nat /\ \A i \in 1 .. Len(s) : Key[s[i]] \in Nat \ {0}
    BY RecordAssumption DEF IsSortedList, TypeOK
  <1>1. CASE cursor = NoCursor
    BY <1>0, <1>1 DEF Divides, Start, NoCursor
  <1>2. CASE cursor # NoCursor
    <2>1. PICK m : Divides(s, cursor, m)
      BY CursorIsNatural, SomeDivision DEF TypeOK
    <2>2. Search(s, cursor) = m
      BY <1>0, <2>1, SearchFinds DEF Divides, IsAfter
    <2> QED BY <1>2, <2>1, <2>2 DEF Start
  <1> QED BY <1>1, <1>2

LEMMA CallIsPage ==
    ASSUME TypeOK, SortsByKey, Call
    PROVE  Promise!Next
  <1>1. PICK requested \in Requested, s \in Sorted :
           LET limit == ResolveLimit(requested)
               start == Start(s)
               end   == Cut(s, start, limit)
               page  == {s[i] : i \in start + 1 .. end}
           IN /\ times' = [r \in Records |-> IF r \in page THEN times[r] + 1 ELSE times[r]]
              /\ longest' = Max({longest, end - start})
              /\ done' = ~IsTruncated(s, start, end, limit)
              /\ cursor' = IF done' THEN cursor ELSE CursorAfter(s, end)
    BY DEF Call
  <1>2. PICK start : start = Start(s)
    OBVIOUS
  <1>3. PICK end : end = Cut(s, start, ResolveLimit(requested))
    OBVIOUS
  <1>4. PICK page : page = {s[i] : i \in start + 1 .. end}
    OBVIOUS
  <1>5. IsSortedList(s) /\ Len(s) \in Nat
    BY SortedList DEF TypeOK, IsSortedList
  <1>6. /\ start \in 0 .. Len(s) /\ end \in start .. Len(s) /\ end - start \in 0 .. MaxLimit
        /\ start < Len(s) => end > start
    BY <1>2, <1>3, PageLies
  <1>7. /\ times' = [r \in Records |-> IF r \in page THEN times[r] + 1 ELSE times[r]]
        /\ done' = ~(end < Len(s)) /\ cursor' = IF done' THEN cursor ELSE CursorAfter(s, end)
    BY <1>1, <1>2, <1>3, <1>4 DEF IsTruncated
  <1>8. /\ list' = list /\ stayed' = stayed /\ ~done
        /\ list \subseteq Records /\ stayed \subseteq list /\ page \subseteq list
    BY <1>4, <1>5, <1>6 DEF Call, TypeOK, IsSortedList
  <1>9. \A i \in 1 .. Len(s) : Key[s[i]] > cursor <=> i > start
    BY <1>2, <1>5, StartDivides DEF Divides
  <1>10. \A i \in 1 .. Len(s) : Key[s[i]] \in Nat \ {0} /\ s[i] \in Records /\ Key[s[i]] \in Keys
    BY <1>5, <1>8, KeyFacts DEF IsSortedList
  <1>c. cursor \in Nat
    BY CursorIsNatural
  <1>11. Promise!Give(KeysOf(page))
    <2>1. ASSUME NEW k \in Keys
          PROVE  TimesByKey'[k] = IF k \in KeysOf(page) THEN TimesByKey[k] + 1 ELSE TimesByKey[k]
      <3>1. PICK r \in Records : k = Key[r]
        BY DEF Keys
      <3>2. k \in KeysOf(page) <=> r \in page
        BY <1>8, <3>1, KeyFacts
      <3> QED BY <1>7, <3>1, <3>2, KeyFacts, KeyFactsNext
    <2>2. TimesByKey' = [k \in Keys |-> IF k \in KeysOf(page) THEN TimesByKey[k] + 1 ELSE TimesByKey[k]]
      BY <2>1 DEF TimesByKey
    <2> QED BY <2>2 DEF Promise!Give
  <1>12. KeysOf(page) \subseteq Keys /\ \A k \in KeysOf(page) : cursor < k
    <2> SUFFICES ASSUME NEW k \in KeysOf(page) PROVE k \in Keys /\ cursor < k
      OBVIOUS
    <2>1. PICK i \in start + 1 .. end : k = Key[s[i]]
      BY <1>4 DEF KeysOf
    <2>2. i \in 1 .. Len(s) /\ i > start
      BY <1>5, <1>6
    <2> QED BY <1>9, <1>10, <1>c, <2>1, <2>2
  <1>13. ASSUME NEW k \in KeysOf(stayed), cursor < k
         PROVE  \E i \in 1 .. Len(s) : k = Key[s[i]] /\ i > start /\ (i <= end => k \in KeysOf(page))
    <2>1. PICK r \in list : k = Key[r]
      BY <1>8 DEF KeysOf
    <2>2. PICK i \in 1 .. Len(s) : s[i] = r
      BY <1>5 DEF IsSortedList
    <2>3. i > start
      BY <1>9, <1>10, <1>c, <1>13, <2>1, <2>2
    <2>4. i <= end => s[i] \in page
      BY <1>4, <1>5, <1>6, <2>3
    <2> QED BY <2>1, <2>2, <2>3, <2>4 DEF KeysOf
  <1>14. CASE end < Len(s)
    <2>1. end \in 1 .. Len(s) /\ end > start
      BY <1>5, <1>6, <1>14
    <2>2. done' = FALSE /\ done' = done /\ cursor' = Key[s[end]]
      BY <1>7, <1>8, <1>14, <2>1 DEF CursorAfter, TypeOK
    <2>3. cursor < Key[s[end]] /\ Key[s[end]] \in Keys
      BY <1>9, <1>10, <1>c, <2>1
    <2>4. \A i \in 1 .. Len(s) : Key[s[i]] <= Key[s[end]] <=> i <= end
      <3> TAKE i \in 1 .. Len(s)
      <3>1. /\ i < end => Key[s[i]] < Key[s[end]]
            /\ end < i => Key[s[end]] < Key[s[i]]
        BY <1>5, <2>1 DEF IsSortedList
      <3>2. i = end \/ i < end \/ end < i
        BY <1>5, <2>1
      <3>3. Key[s[i]] \in Int /\ Key[s[end]] \in Int /\ i \in Int /\ end \in Int
        BY <1>10, <2>1
      <3> QED BY <3>1, <3>2, <3>3
    <2>5. \A k \in KeysOf(page) : k <= Key[s[end]]
      <3> SUFFICES ASSUME NEW k \in KeysOf(page) PROVE k <= Key[s[end]]
        OBVIOUS
      <3>1. PICK i \in start + 1 .. end : k = Key[s[i]]
        BY <1>4 DEF KeysOf
      <3>2. i \in 1 .. Len(s) /\ i <= end
        BY <1>5, <1>6
      <3> QED BY <2>4, <3>1, <3>2
    <2>6. \A k \in KeysOf(stayed) : cursor < k /\ k <= Key[s[end]] => k \in KeysOf(page)
      BY <1>13, <2>4
    <2>7. Promise!More
      <3>1. KeysOf(page) \in SUBSET Keys
        BY <1>12
      <3>2. UNCHANGED <<KeysOf(list), KeysOf(stayed), done>>
        BY <1>8, <2>2
      <3> QED BY <1>8, <1>11, <1>12, <2>2, <2>3, <2>5, <2>6, <3>1, <3>2 DEF Promise!More
    <2> QED BY <2>7 DEF Promise!Next
  <1>15. CASE ~(end < Len(s))
    <2>1. done' = TRUE /\ cursor' = cursor
      BY <1>7, <1>15
    <2>2. \A i \in 1 .. Len(s) : i <= end
      BY <1>5, <1>6, <1>15
    <2>3. \A k \in KeysOf(stayed) : cursor < k => k \in KeysOf(page)
      BY <1>13, <2>2
    <2>4. Promise!Last
      <3>1. KeysOf(page) \in SUBSET Keys
        BY <1>12
      <3>2. UNCHANGED <<KeysOf(list), KeysOf(stayed), cursor>>
        BY <1>8, <2>1
      <3> QED BY <1>8, <1>11, <1>12, <2>1, <2>3, <3>1, <3>2 DEF Promise!Last
    <2> QED BY <2>4 DEF Promise!Next
  <1> QED BY <1>14, <1>15

LEMMA InitPromise ==
    ASSUME SortsByKey PROVE Init => Promise!Init
  <1> SUFFICES ASSUME Init PROVE Promise!Init
    OBVIOUS
  <1>1. TimesByKey = [k \in Keys |-> 0]
    <2>1. ASSUME NEW k \in Keys PROVE TimesByKey[k] = 0
      <3>1. PICK r \in Records : k = Key[r]
        BY DEF Keys
      <3>2. TimesByKey[Key[r]] = times[r]
        BY KeyFacts
      <3> QED BY <3>1, <3>2 DEF Init
    <2> QED BY <2>1 DEF TimesByKey
  <1>2. KeysOf(list) \in SUBSET Keys
    BY DEF Init, KeysOf, Keys
  <1> QED BY <1>1, <1>2 DEF Init, Promise!Init, NoCursor

LEMMA ChangeIsChange ==
    ASSUME TypeOK, SortsByKey, Change
    PROVE  Promise!Next
  <1>1. list' \subseteq Records /\ stayed \subseteq Records /\ stayed' = stayed \cap list'
        /\ UNCHANGED <<cursor, times, done>>
    BY DEF Change, TypeOK
  <1>2. KeysOf(stayed)' = KeysOf(stayed) \cap KeysOf(list)'
    <2>1. ASSUME NEW k PROVE k \in KeysOf(stayed)' <=> k \in KeysOf(stayed) /\ k \in KeysOf(list)'
      <3>1. \A r \in Records : /\ Key[r] \in KeysOf(stayed)' <=> r \in stayed'
                               /\ Key[r] \in KeysOf(list)' <=> r \in list'
                               /\ Key[r] \in KeysOf(stayed) <=> r \in stayed
        BY <1>1 DEF SortsByKey, KeysOf
      <3>2. /\ k \in KeysOf(stayed)' => \E r \in Records : k = Key[r]
            /\ k \in KeysOf(stayed) => \E r \in Records : k = Key[r]
        BY <1>1 DEF KeysOf
      <3> QED BY <1>1, <3>1, <3>2
    <2> QED BY <2>1
  <1>3. KeysOf(list)' \in SUBSET Keys /\ TimesByKey' = TimesByKey
    BY <1>1 DEF KeysOf, Keys, TimesByKey
  <1> QED BY <1>1, <1>2, <1>3 DEF Promise!Next, Promise!Change

LEMMA NextPromise ==
    ASSUME SortsByKey PROVE TypeOK /\ [Next]_vars => [Promise!Next]_(Promise!vars)
  <1> SUFFICES ASSUME TypeOK, [Next]_vars PROVE Promise!Next \/ UNCHANGED Promise!vars
    OBVIOUS
  <1>1. CASE UNCHANGED vars
    BY <1>1 DEF vars, Promise!vars, KeysOf, TimesByKey
  <1> QED BY <1>1, CallIsPage, ChangeIsChange DEF Next

(* A tool that sorts by a key that tells its records apart gives each page *)
(* where the last one ended, however records come and go, whatever their   *)
(* sizes, the byte cap and the limits the client asks for.                 *)
THEOREM PagesKeepThePromise ==
    ASSUME SortsByKey PROVE Spec => ImplementsCursorScan
  BY InitType, NextType, InitPromise, NextPromise, PTL
     DEF Spec, ImplementsCursorScan, Promise!Spec

-----------------------------------------------------------------------------
(* Why a walk that keeps the promise skips nothing and gives nothing twice *)
(* (Divided, in CursorScan).                                               *)

LEMMA InitFaithful ==
    ASSUME Promise!KeysFollowZero PROVE Promise!Init => Promise!Faithful
  <1> SUFFICES ASSUME Promise!Init PROVE Promise!Faithful
    OBVIOUS
  <1>1. /\ KeysOf(list) \subseteq Keys /\ KeysOf(stayed) = KeysOf(list) /\ cursor = 0 /\ ~done /\ done \in BOOLEAN
        /\ TimesByKey \in [Keys -> Nat] /\ \A k \in Keys : TimesByKey[k] = 0
    BY DEF Promise!Init
  <1>2. \A k \in Keys : k \in Nat /\ ~(k <= 0)
    BY DEF Promise!KeysFollowZero
  <1>3. Promise!Divided
    BY <1>1, <1>2 DEF Promise!Divided
  <1> QED BY <1>1, <1>3 DEF Promise!Faithful, Promise!TypeOK, Promise!Complete, Promise!NothingTwice

(* What a page does to the number of TimesByKey a record was given.             *)
LEMMA Given ==
    ASSUME Promise!KeysFollowZero, Promise!Faithful, ~done, NEW page \in SUBSET Keys, Promise!Give(page), \A k \in page : cursor < k
    PROVE  /\ TimesByKey' \in [Keys -> Nat] /\ \A k \in Keys : TimesByKey'[k] <= 1
           /\ \A k \in Keys : k \in page => TimesByKey'[k] = 1
           /\ \A k \in Keys : k \notin page => TimesByKey'[k] = TimesByKey[k]
  <1>1. /\ TimesByKey \in [Keys -> Nat] /\ \A k \in Keys : TimesByKey[k] <= 1
        /\ \A k \in Keys : k > cursor => TimesByKey[k] = 0
        /\ cursor \in Int /\ Keys \subseteq Int
    BY DEF Promise!KeysFollowZero, Promise!Faithful, Promise!TypeOK, Promise!Divided, Promise!NothingTwice
  <1>2. \A k \in page : TimesByKey[k] = 0
    BY <1>1
  <1> QED BY <1>1, <1>2 DEF Promise!Give

LEMMA NextFaithful ==
    ASSUME Promise!KeysFollowZero PROVE Promise!Faithful /\ [Promise!Next]_Promise!vars => Promise!Faithful'
  <1> SUFFICES ASSUME Promise!Faithful, [Promise!Next]_Promise!vars PROVE Promise!Faithful'
    OBVIOUS
  <1>0. /\ KeysOf(list) \subseteq Keys /\ KeysOf(stayed) \subseteq KeysOf(list) /\ cursor \in Keys \cup {0}
        /\ TimesByKey \in [Keys -> Nat] /\ done \in BOOLEAN /\ Keys \subseteq Int
    BY DEF Promise!KeysFollowZero, Promise!Faithful, Promise!TypeOK
  <1>a. cursor \in Int
    BY <1>0 DEF Promise!KeysFollowZero
  <1>b. \A k \in KeysOf(stayed) : k \in Keys /\ k \in Int
    BY <1>0
  <1>1. CASE Promise!Change
    BY <1>0, <1>1 DEF Promise!Change, Promise!Faithful, Promise!TypeOK, Promise!Divided, Promise!Complete, Promise!NothingTwice
  <1>2. CASE Promise!More
    <2>1. PICK end \in Keys, page \in SUBSET Keys :
              /\ cursor < end
              /\ \A k \in page : cursor < k /\ k <= end
              /\ \A k \in KeysOf(stayed) : cursor < k /\ k <= end => k \in page
              /\ Promise!Give(page) /\ cursor' = end
      BY <1>2 DEF Promise!More
    <2>2. ~done /\ KeysOf(list)' = KeysOf(list) /\ KeysOf(stayed)' = KeysOf(stayed) /\ done' = done
      BY <1>2 DEF Promise!More
    <2>3. /\ TimesByKey' \in [Keys -> Nat] /\ \A k \in Keys : TimesByKey'[k] <= 1
          /\ \A k \in Keys : k \in page => TimesByKey'[k] = 1
          /\ \A k \in Keys : k \notin page => TimesByKey'[k] = TimesByKey[k]
      BY <2>1, <2>2, Given
    <2>4. \A k \in KeysOf(stayed) : k <= cursor => TimesByKey[k] > 0
      BY <2>2 DEF Promise!Faithful, Promise!Divided
    <2>5. \A k \in KeysOf(stayed)' : k <= cursor' => TimesByKey'[k] > 0
      <3> SUFFICES ASSUME NEW k, k \in KeysOf(stayed), k <= end PROVE TimesByKey'[k] > 0
        BY <2>1, <2>2
      <3>0. k \in Keys /\ k \in Int /\ cursor \in Int
        BY <1>a, <1>b
      <3>1. CASE cursor < k
        BY <3>0, <3>1, <2>1, <2>3
      <3>2. CASE k <= cursor
        BY <3>0, <3>2, <2>3, <2>4
      <3> QED BY <3>0, <3>1, <3>2
    <2>6. \A k \in Keys : k > cursor' => TimesByKey'[k] = 0
      <3> SUFFICES ASSUME NEW k \in Keys, k > end PROVE TimesByKey'[k] = 0
        BY <2>1
      <3>1. k \notin page /\ k > cursor
        BY <1>0, <2>1
      <3> QED BY <3>1, <2>2, <2>3 DEF Promise!Faithful, Promise!Divided
    <2> QED BY <1>0, <2>1, <2>2, <2>3, <2>5, <2>6 DEF Promise!Faithful, Promise!TypeOK, Promise!Divided, Promise!Complete, Promise!NothingTwice
  <1>3. CASE Promise!Last
    <2>1. PICK page \in SUBSET Keys :
              /\ \A k \in page : cursor < k
              /\ \A k \in KeysOf(stayed) : cursor < k => k \in page
              /\ Promise!Give(page)
      BY <1>3 DEF Promise!Last
    <2>2. /\ ~done /\ KeysOf(list)' = KeysOf(list) /\ KeysOf(stayed)' = KeysOf(stayed) /\ cursor' = cursor /\ done' = TRUE
      BY <1>3 DEF Promise!Last
    <2>3. /\ TimesByKey' \in [Keys -> Nat] /\ \A k \in Keys : TimesByKey'[k] <= 1
          /\ \A k \in Keys : k \in page => TimesByKey'[k] = 1
          /\ \A k \in Keys : k \notin page => TimesByKey'[k] = TimesByKey[k]
      BY <2>1, <2>2, Given
    <2>4. \A k \in KeysOf(stayed) : k <= cursor => TimesByKey[k] > 0
      BY <2>2 DEF Promise!Faithful, Promise!Divided
    <2>5. \A k \in KeysOf(stayed) : TimesByKey'[k] > 0
      <3> SUFFICES ASSUME NEW k, k \in KeysOf(stayed) PROVE TimesByKey'[k] > 0
        OBVIOUS
      <3>0. k \in Keys /\ k \in Int /\ cursor \in Int
        BY <1>a, <1>b
      <3>1. CASE cursor < k
        BY <3>0, <3>1, <2>1, <2>3
      <3>2. CASE k <= cursor
        BY <3>0, <3>2, <2>3, <2>4
      <3> QED BY <3>0, <3>1, <3>2
    <2> QED BY <1>0, <2>2, <2>3, <2>5 DEF Promise!Faithful, Promise!TypeOK, Promise!Divided, Promise!Complete, Promise!NothingTwice
  <1>4. CASE UNCHANGED Promise!vars
    BY <1>4 DEF Promise!vars, Promise!Faithful, Promise!TypeOK, Promise!Divided, Promise!Complete, Promise!NothingTwice
  <1> QED BY <1>1, <1>2, <1>3, <1>4 DEF Promise!Next

(* Hence such a tool skips nothing that stayed and gives nothing twice;    *)
(* the run of the traces, which are not sorted by their key, shows that    *)
(* the order is needed.                                                    *)
THEOREM WalkIsComplete ==
    ASSUME SortsByKey PROVE Spec => [](NothingSkipped /\ NothingTwice)
  <1>0. Promise!KeysFollowZero
    BY KeyFacts DEF Promise!KeysFollowZero
  <1>1. Init => Promise!Faithful
    BY <1>0, InitPromise, InitFaithful
  <1>2. TypeOK /\ Promise!Faithful /\ [Next]_vars => Promise!Faithful'
    BY <1>0, NextPromise, NextFaithful
  <1>3. TypeOK /\ Promise!Faithful => NothingSkipped /\ NothingTwice
    <2> SUFFICES ASSUME TypeOK, Promise!Complete, Promise!NothingTwice PROVE NothingSkipped /\ NothingTwice
      BY DEF Promise!Faithful
    <2>1. ASSUME NEW r \in Records PROVE times[r] <= 1 /\ (done /\ r \in stayed => times[r] > 0)
      <3>1. Key[r] \in Keys /\ TimesByKey[Key[r]] = times[r]
        BY KeyFacts
      <3>2. r \in stayed => Key[r] \in KeysOf(stayed)
        BY DEF KeysOf
      <3> QED BY <3>1, <3>2 DEF Promise!Complete, Promise!NothingTwice
    <2> QED BY <2>1 DEF NothingSkipped, NothingTwice, TypeOK
  <1> QED BY InitType, NextType, <1>1, <1>2, <1>3, PTL DEF Spec
=============================================================================
