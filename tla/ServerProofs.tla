---------------------------- MODULE ServerProofs ----------------------------
(***************************************************************************)
(* Theorems about Server for any finite set of requests, any number of     *)
(* slots, any budget and any length of the clock.                          *)
(***************************************************************************)
EXTENDS Server, FiniteSetTheorems, TLAPS

-----------------------------------------------------------------------------
(* Sums over finite sets.                                                  *)

(* Induction over the naturals and over finite sets, by a smallest         *)
(* counterexample.                                                         *)
LEMMA LeastNatural ==
    ASSUME NEW T \in SUBSET Nat, T # {}
    PROVE  \E n \in T : \A m \in T : n <= m
  <1> DEFINE R == OpToRel(<, Nat)
  <1>1. IsWellFoundedOn(R, Nat)
    BY NatLessThanWellFounded
  <1>2. \A m, n \in Nat : m < n => <<m, n>> \in R
    BY DEF OpToRel
  <1> HIDE DEF R
  <1>3. PICK n \in T : \A m \in T : <<m, n>> \notin R
    BY <1>1, WFMin
  <1>4. ASSUME NEW m \in T PROVE n <= m
    <2>1. m \in Nat /\ n \in Nat
      OBVIOUS
    <2>2. ~(m < n)
      BY <1>2, <1>3, <2>1
    <2> QED BY <2>1, <2>2
  <1> QED BY <1>4

LEMMA Induction ==
    ASSUME NEW S, 0 \in S, \A n \in Nat : n \in S => n + 1 \in S
    PROVE  Nat \subseteq S
  <1> SUFFICES ASSUME Nat \ S # {} PROVE FALSE
    OBVIOUS
  <1>1. PICK n \in Nat \ S : \A m \in Nat \ S : n <= m
    BY LeastNatural
  <1>2. n # 0 /\ n - 1 \in Nat /\ n - 1 \in S
    BY <1>1
  <1> QED BY <1>1, <1>2

(* What SumFunctionOnSet(f, S) is in the community modules: the value at S *)
(* of a function g over its subsets which takes out one element a time.    *)
Pick(s) == CHOOSE x \in s : TRUE

IsSum(g, f, S) ==
    g = [s \in SUBSET S |-> IF s = {} THEN 0 ELSE f[Pick(s)] + g[s \ {Pick(s)}]]


(* Every subset of a finite set is good when removing an element from a     *)
(* subset that is not good leaves one that is not.                          *)
LEMMA SubsetInduction ==
    ASSUME NEW S, IsFiniteSet(S), NEW Good,
           \A T \in SUBSET S : (\A x \in T : T \ {x} \in Good) => T \in Good
    PROVE  \A T \in SUBSET S : T \in Good
  <1> SUFFICES ASSUME NEW B \in SUBSET S, B \notin Good PROVE FALSE
    OBVIOUS
  <1> DEFINE Sizes == {Cardinality(T) : T \in {U \in SUBSET S : U \notin Good}}
  <1>1. \A T \in SUBSET S : IsFiniteSet(T) /\ Cardinality(T) \in Nat
    BY FS_Subset, FS_CardinalityType
  <1>2. Sizes \in SUBSET Nat /\ Sizes # {}
    BY <1>1
  <1>3. PICK T \in SUBSET S : T \notin Good /\ \A n \in Sizes : Cardinality(T) <= n
    <2>1. PICK k \in Sizes : \A n \in Sizes : k <= n
      <3> HIDE DEF Sizes
      <3> QED BY <1>2, LeastNatural
    <2>2. PICK T \in SUBSET S : T \notin Good /\ k = Cardinality(T)
      OBVIOUS
    <2> QED BY <2>1, <2>2
  <1>4. PICK x \in T : T \ {x} \notin Good
    BY <1>3
  <1>5. T \ {x} \in SUBSET S /\ Cardinality(T \ {x}) = Cardinality(T) - 1
    BY <1>1, <1>4, FS_RemoveElement
  <1>6. Cardinality(T \ {x}) \in Sizes
    BY <1>4, <1>5
  <1>7. Cardinality(T) \in Nat /\ Cardinality(T) <= Cardinality(T) - 1
    <2> HIDE DEF Sizes
    <2> QED BY <1>1, <1>3, <1>5, <1>6
  <1> QED BY <1>7

(* There is such a function: each set takes one step more than a smaller.  *)
LEMMA SumExists ==
    ASSUME NEW S, IsFiniteSet(S), NEW f
    PROVE  \E g : IsSum(g, f, S)
  <1> DEFINE Step(g, s) == IF s = {} THEN 0 ELSE f[Pick(s)] + g[s \ {Pick(s)}]
             Small(n) == {s \in SUBSET S : Cardinality(s) <= n}
             Up(g, n) == g = [s \in Small(n) |-> Step(g, s)]
             Good == {n \in Nat : \E g : Up(g, n)}
  <1>0. ASSUME NEW s \in SUBSET S
        PROVE  /\ IsFiniteSet(s) /\ Cardinality(s) \in Nat
               /\ s # {} => /\ Pick(s) \in s
                            /\ s \ {Pick(s)} \in SUBSET S
                            /\ Cardinality(s \ {Pick(s)}) = Cardinality(s) - 1
    <2>1. IsFiniteSet(s) /\ Cardinality(s) \in Nat
      BY FS_Subset, FS_CardinalityType
    <2>2. s # {} => Pick(s) \in s
      BY DEF Pick
    <2> QED BY <2>1, <2>2, FS_RemoveElement
  <1>1. 0 \in Good
    <2>1. ASSUME NEW s \in Small(0) PROVE s = {}
      <3>1. s \in SUBSET S /\ Cardinality(s) <= 0
        OBVIOUS
      <3>2. IsFiniteSet(s) /\ Cardinality(s) \in Nat
        BY <1>0, <3>1
      <3>3. Cardinality(s) = 0
        BY <3>1, <3>2
      <3> QED BY <3>2, <3>3, FS_EmptySet
    <2> DEFINE g == [s \in Small(0) |-> 0]
    <2>2. \A s \in Small(0) : Step(g, s) = 0
      BY <2>1
    <2> HIDE DEF Step, Small
    <2>3. Up(g, 0)
      BY <2>2
    <2> QED BY <2>3
  <1>2. ASSUME NEW n \in Nat, n \in Good PROVE n + 1 \in Good
    <2>1. PICK g : Up(g, n)
      BY <1>2
    <2> DEFINE h == [s \in Small(n + 1) |-> Step(g, s)]
    <2>3. ASSUME NEW s \in Small(n + 1), s # {}
          PROVE  s \ {Pick(s)} \in Small(n)
      <3>1. s \in SUBSET S /\ Cardinality(s) <= n + 1
        BY <2>3
      <3> QED BY <1>0, <2>3, <3>1
    <2>4. ASSUME NEW s \in Small(n) PROVE s \in Small(n + 1)
      <3>1. s \in SUBSET S /\ Cardinality(s) <= n
        OBVIOUS
      <3>2. Cardinality(s) \in Nat
        BY <1>0, <3>1
      <3>3. Cardinality(s) <= n + 1
        BY <3>1, <3>2
      <3> QED BY <3>1, <3>3
    <2>5. \A s \in Small(n) : h[s] = g[s]
      <3> HIDE DEF Small, Step
      <3> QED BY <2>1, <2>4
    <2>6. ASSUME NEW s \in Small(n + 1) PROVE Step(g, s) = Step(h, s)
      <3> HIDE DEF Small, h
      <3> QED BY <2>3, <2>5
    <2>7. Up(h, n + 1)
      <3> HIDE DEF Small, Step
      <3> QED BY <2>6
    <2>8. \E u : Up(u, n + 1)
      <3> HIDE DEF h, Up
      <3> QED BY <2>7
    <2> HIDE DEF Up
    <2> QED BY <2>8
  <1>3. Nat \subseteq Good
    <2> HIDE DEF Good
    <2> QED BY <1>1, <1>2, Induction
  <1>4. Cardinality(S) \in Nat /\ Small(Cardinality(S)) = SUBSET S
    <2>1. \A s \in SUBSET S : Cardinality(s) <= Cardinality(S)
      BY FS_Subset
    <2>2. Cardinality(S) \in Nat
      BY FS_CardinalityType
    <2> QED BY <2>1, <2>2
  <1>5. PICK g : Up(g, Cardinality(S))
    BY <1>3, <1>4
  <1>6. g = [s \in SUBSET S |-> Step(g, s)]
    <2> HIDE DEF Small, Step
    <2> QED BY <1>4, <1>5
  <1> QED BY <1>6 DEF IsSum

LEMMA SumIsSum ==
    ASSUME NEW S, IsFiniteSet(S), NEW f
    PROVE  \E g : IsSum(g, f, S) /\ SumFunctionOnSet(f, S) = g[S]
  <1> DEFINE Step(g) == [s \in SUBSET S |-> IF s = {} THEN 0 ELSE f[Pick(s)] + g[s \ {Pick(s)}]]
             total == CHOOSE g : g = Step(g)
  <1>1. PICK g : IsSum(g, f, S)
    BY SumExists
  <1>2. g = Step(g)
    BY <1>1 DEF IsSum
  <1>3. total = Step(total)
    BY <1>2
  <1>4. SumFunctionOnSet(f, S) = total[S]
    BY DEF SumFunctionOnSet, FoldFunctionOnSet, MapThenFoldSet, Pick
  <1> QED BY <1>3, <1>4 DEF IsSum

LEMMA SumUnfolds ==
    ASSUME NEW S, NEW f, NEW g, IsSum(g, f, S)
    PROVE  /\ g[{}] = 0
           /\ \A T \in SUBSET S : T # {} => \E x \in T : g[T] = f[x] + g[T \ {x}]
  <1>1. \A T \in SUBSET S : g[T] = IF T = {} THEN 0 ELSE f[Pick(T)] + g[T \ {Pick(T)}]
    BY DEF IsSum
  <1>2. \A T \in SUBSET S : T # {} => Pick(T) \in T
    BY DEF Pick
  <1> QED BY <1>1, <1>2

(* A sum of naturals is one.                                                *)
LEMMA SumIsNatural ==
    ASSUME NEW S, IsFiniteSet(S), NEW f \in [S -> Nat], NEW g, IsSum(g, f, S)
    PROVE  \A T \in SUBSET S : g[T] \in Nat
  <1> DEFINE Good == {T \in SUBSET S : g[T] \in Nat}
  <1>1. ASSUME NEW T \in SUBSET S, \A x \in T : T \ {x} \in Good PROVE T \in Good
    <2>1. CASE T = {}
      BY <2>1, SumUnfolds
    <2>2. CASE T # {}
      <3>1. PICK x \in T : g[T] = f[x] + g[T \ {x}]
        <4> HIDE DEF Good
        <4> QED BY <2>2, SumUnfolds
      <3>2. f[x] \in Nat /\ g[T \ {x}] \in Nat
        BY <1>1
      <3> QED BY <3>1, <3>2
    <2> QED BY <2>1, <2>2
  <1>2. \A T \in SUBSET S : T \in Good
    <2> HIDE DEF Good
    <2> QED BY <1>1, SubsetInduction
  <1> QED BY <1>2

(* It does not matter which element is added last.                          *)
LEMMA SumAnyOrder ==
    ASSUME NEW S, IsFiniteSet(S), NEW f \in [S -> Nat], NEW g, IsSum(g, f, S)
    PROVE  \A T \in SUBSET S : \A x \in T : g[T] = f[x] + g[T \ {x}]
  <1> DEFINE Good == {T \in SUBSET S : \A x \in T : g[T] = f[x] + g[T \ {x}]}
  <1>1. ASSUME NEW T \in SUBSET S, \A x \in T : T \ {x} \in Good PROVE T \in Good
    <2> SUFFICES ASSUME NEW x \in T PROVE g[T] = f[x] + g[T \ {x}]
      OBVIOUS
    <2>1. PICK y \in T : g[T] = f[y] + g[T \ {y}]
      <3> HIDE DEF Good
      <3> QED BY SumUnfolds
    <2>2. CASE x = y
      BY <2>1, <2>2
    <2>3. CASE x # y
      <3>1. x \in T \ {y} /\ y \in T \ {x}
        BY <2>3
      <3>2. g[T \ {y}] = f[x] + g[(T \ {y}) \ {x}]
        BY <1>1, <3>1
      <3>3. g[T \ {x}] = f[y] + g[(T \ {x}) \ {y}]
        BY <1>1, <3>1
      <3>4. (T \ {x}) \ {y} = (T \ {y}) \ {x} /\ (T \ {x}) \ {y} \in SUBSET S
        OBVIOUS
      <3>5. g[(T \ {x}) \ {y}] \in Nat /\ f[x] \in Nat /\ f[y] \in Nat
        <4>1. f[x] \in Nat /\ f[y] \in Nat
          OBVIOUS
        <4> HIDE DEF Good
        <4> QED BY <3>4, <4>1, SumIsNatural
      <3>6. g[T] = f[y] + (f[x] + g[(T \ {x}) \ {y}]) /\ g[T \ {x}] = f[y] + g[(T \ {x}) \ {y}]
        BY <2>1, <3>2, <3>3, <3>4
      <3> QED BY <3>5, <3>6
    <2> QED BY <2>2, <2>3
  <1>2. \A T \in SUBSET S : T \in Good
    <2> HIDE DEF Good
    <2> QED BY <1>1, SubsetInduction
  <1> QED BY <1>2

(* What two functions agree on sums to the same.                            *)
LEMMA SumsAgree ==
    ASSUME NEW S, IsFiniteSet(S), NEW f \in [S -> Nat], NEW g, IsSum(g, f, S),
           NEW V, IsFiniteSet(V), NEW h \in [V -> Nat], NEW k, IsSum(k, h, V),
           NEW R \in SUBSET S, R \in SUBSET V, \A x \in R : f[x] = h[x]
    PROVE  g[R] = k[R]
  <1> DEFINE Good == {T \in SUBSET R : g[T] = k[T]}
  <1>1. ASSUME NEW T \in SUBSET R, \A x \in T : T \ {x} \in Good PROVE T \in Good
    <2>0. T \in SUBSET S /\ T \in SUBSET V
      OBVIOUS
    <2>1. CASE T = {}
      BY <2>1, SumUnfolds
    <2>2. CASE T # {}
      <3>1. PICK x \in T : g[T] = f[x] + g[T \ {x}]
        <4> HIDE DEF Good
        <4> QED BY <2>0, <2>2, SumUnfolds
      <3>2. k[T] = h[x] + k[T \ {x}]
        <4> HIDE DEF Good
        <4> QED BY <2>0, SumAnyOrder
      <3> QED BY <1>1, <3>1, <3>2
    <2> QED BY <2>1, <2>2
  <1>2. \A T \in SUBSET R : T \in Good
    <2> HIDE DEF Good
    <2>1. IsFiniteSet(R)
      BY FS_Subset
    <2> QED BY <1>1, <2>1, SubsetInduction
  <1> QED BY <1>2

(* The three facts about sums that the invariants need: nothing sums to     *)
(* nothing, a change at one point changes the sum by as much, and one more  *)
(* point adds what is there.                                                *)
LEMMA SumOfNothing ==
    ASSUME NEW S, IsFiniteSet(S), NEW f \in [S -> Nat], \A x \in S : f[x] = 0
    PROVE  SumFunctionOnSet(f, S) = 0
  <1>1. PICK g : IsSum(g, f, S) /\ SumFunctionOnSet(f, S) = g[S]
    BY SumIsSum
  <1> DEFINE Good == {T \in SUBSET S : g[T] = 0}
  <1>2. ASSUME NEW T \in SUBSET S, \A x \in T : T \ {x} \in Good PROVE T \in Good
    <2>1. CASE T = {}
      BY <1>1, <2>1, SumUnfolds
    <2>2. CASE T # {}
      <3>1. PICK x \in T : g[T] = f[x] + g[T \ {x}]
        <4> HIDE DEF Good
        <4> QED BY <1>1, <2>2, SumUnfolds
      <3> QED BY <1>2, <3>1
    <2> QED BY <2>1, <2>2
  <1>3. \A T \in SUBSET S : T \in Good
    <2> HIDE DEF Good
    <2> QED BY <1>2, SubsetInduction
  <1> QED BY <1>1, <1>3

LEMMA SumType ==
    ASSUME NEW S, IsFiniteSet(S), NEW f \in [S -> Nat]
    PROVE  SumFunctionOnSet(f, S) \in Nat
  BY SumIsSum, SumIsNatural

LEMMA SumChanges ==
    ASSUME NEW S, IsFiniteSet(S), NEW f \in [S -> Nat], NEW h \in [S -> Nat], NEW x \in S,
           \A y \in S : y # x => h[y] = f[y]
    PROVE  /\ SumFunctionOnSet(f, S) \in Nat
           /\ SumFunctionOnSet(h, S) = SumFunctionOnSet(f, S) + h[x] - f[x]
  <1>1. PICK g : IsSum(g, f, S) /\ SumFunctionOnSet(f, S) = g[S]
    BY SumIsSum
  <1>2. PICK k : IsSum(k, h, S) /\ SumFunctionOnSet(h, S) = k[S]
    BY SumIsSum
  <1>3. g[S] = f[x] + g[S \ {x}] /\ k[S] = h[x] + k[S \ {x}]
    BY <1>1, <1>2, SumAnyOrder
  <1>4. g[S \ {x}] = k[S \ {x}]
    BY <1>1, <1>2, SumsAgree
  <1>5. g[S] \in Nat /\ g[S \ {x}] \in Nat /\ f[x] \in Nat /\ h[x] \in Nat
    BY <1>1, SumIsNatural
  <1> QED BY <1>1, <1>2, <1>3, <1>4, <1>5

LEMMA SumGrows ==
    ASSUME NEW S, IsFiniteSet(S), NEW f \in [S -> Nat], NEW x, x \notin S,
           NEW h \in [S \cup {x} -> Nat], \A y \in S : h[y] = f[y]
    PROVE  /\ SumFunctionOnSet(f, S) \in Nat
           /\ SumFunctionOnSet(h, S \cup {x}) = SumFunctionOnSet(f, S) + h[x]
  <1>0. IsFiniteSet(S \cup {x}) /\ (S \cup {x}) \ {x} = S /\ x \in S \cup {x}
    BY FS_AddElement
  <1>1. PICK g : IsSum(g, f, S) /\ SumFunctionOnSet(f, S) = g[S]
    BY SumIsSum
  <1>2. PICK k : IsSum(k, h, S \cup {x}) /\ SumFunctionOnSet(h, S \cup {x}) = k[S \cup {x}]
    BY <1>0, SumIsSum
  <1>3. k[S \cup {x}] = h[x] + k[S]
    BY <1>0, <1>2, SumAnyOrder
  <1>4. g[S] = k[S]
    BY <1>0, <1>1, <1>2, SumsAgree
  <1>5. g[S] \in Nat /\ h[x] \in Nat
    BY <1>1, SumIsNatural
  <1> QED BY <1>1, <1>2, <1>3, <1>4, <1>5

LEMMA SumOfOneMore ==
    ASSUME NEW n \in Nat, NEW f \in [1 .. n -> Nat], NEW h \in [1 .. n + 1 -> Nat],
           \A i \in 1 .. n : h[i] = f[i]
    PROVE  SumFunction(f) \in Nat /\ SumFunction(h) = SumFunction(f) + h[n + 1]
  <1> DEFINE S == 1 .. n
             x == n + 1
  <1>1. IsFiniteSet(S)
    <2>1. 1 \in Int /\ n \in Int
      OBVIOUS
    <2> QED BY <2>1, FS_Interval
  <1>2. 1 .. n + 1 = S \cup {x} /\ x \notin S /\ DOMAIN f = S /\ DOMAIN h = S \cup {x}
    OBVIOUS
  <1>3. f \in [S -> Nat] /\ h \in [S \cup {x} -> Nat] /\ \A i \in S : h[i] = f[i]
    BY <1>2
  <1>4. SumFunctionOnSet(f, S) \in Nat /\ SumFunctionOnSet(h, S \cup {x}) = SumFunctionOnSet(f, S) + h[x]
    <2> HIDE DEF S, x
    <2>1. x \notin S
      BY <1>2
    <2>2. \A u \in [S -> Nat] : \A v \in [S \cup {x} -> Nat] : (\A y \in S : v[y] = u[y]) =>
            SumFunctionOnSet(u, S) \in Nat /\ SumFunctionOnSet(v, S \cup {x}) = SumFunctionOnSet(u, S) + v[x]
      BY <1>1, <2>1, SumGrows
    <2> QED BY <1>3, <2>2
  <1> QED BY <1>2, <1>4 DEF SumFunction

-----------------------------------------------------------------------------
(* The request that a step moves, and the others.                          *)

LEMMA ChargedType ==
    ASSUME NEW u \in [Dimensions -> Nat], NEW d \in Dimensions
    PROVE  /\ Charged(u, d, 1) \in [Dimensions -> Nat]
           /\ Charged(u, d, 1)[d] = u[d] + 1
           /\ \A f \in Dimensions : f # d => Charged(u, d, 1)[f] = u[f]
  BY DEF Charged

LEMMA UnspentType == Unspent \in [Dimensions -> Nat] /\ \A d \in Dimensions : Unspent[d] = 0
  BY DEF Unspent

LEMMA NewRequestType == NewRequest \in RequestType
  BY UnspentType DEF NewRequest, RequestType, NotEnded, Ended, Endings, Answer, Failure

(* What a fetch does to a request: it hears of it, or is not concerned.    *)
LEMMA HearsType ==
    ASSUME req \in [Request -> RequestType], NEW r \in Request,
           NEW f \in {"ok"} \cup Failure, Hears(r, f)
    PROVE  /\ req' \in [Request -> RequestType]
           /\ \A s \in Request :
                \/ s # r /\ req[s].pc # "wait" /\ req'[s] = req[s]
                \/ /\ s = r \/ req[s].pc = "wait"
                   /\ req'[s].pc = "running" /\ req'[s].shared = f
                   /\ req'[s].answer = req[s].answer /\ req'[s].ending = req[s].ending
                   /\ req'[s].used = IF Pays(s, r, f) THEN Charged(req[s].used, "ha_requests", 1)
                                     ELSE req[s].used
  <1>1. ASSUME NEW s \in Request
        PROVE  /\ req'[s] \in RequestType
               /\ \/ s # r /\ req[s].pc # "wait" /\ req'[s] = req[s]
                  \/ /\ s = r \/ req[s].pc = "wait"
                     /\ req'[s].pc = "running" /\ req'[s].shared = f
                     /\ req'[s].answer = req[s].answer /\ req'[s].ending = req[s].ending
                     /\ req'[s].used = IF Pays(s, r, f) THEN Charged(req[s].used, "ha_requests", 1)
                                       ELSE req[s].used
    <2> DEFINE q == [Resumed(req[s], f) EXCEPT
                        !.refused = @ \/ (f = "budget" /\ s = r),
                        !.used = IF Pays(s, r, f) THEN Charged(@, "ha_requests", 1) ELSE @]
    <2>1. CASE s = r \/ req[s].pc = "wait"
      <3>1. req'[s] = q
        BY <2>1 DEF Hears
      <3>2. req[s] \in RequestType
        OBVIOUS
      <3>3. /\ q.pc = "running" /\ q.shared = f /\ q.answer = req[s].answer
            /\ q.ending = req[s].ending
            /\ q.used = IF Pays(s, r, f) THEN Charged(req[s].used, "ha_requests", 1)
                        ELSE req[s].used
        BY <3>2 DEF Resumed, RequestType
      <3>4. Charged(req[s].used, "ha_requests", 1) \in [Dimensions -> Nat]
        BY <3>2, ChargedType DEF RequestType, Dimensions
      <3>5. q \in RequestType
        BY <3>2, <3>4 DEF Resumed, RequestType
      <3> QED BY <2>1, <3>1, <3>3, <3>5
    <2>2. CASE ~(s = r \/ req[s].pc = "wait")
      BY <2>2 DEF Hears
    <2> QED BY <2>1, <2>2
  <1>2. req' = [s \in Request |-> req'[s]]
    BY DEF Hears
  <1> QED BY <1>1, <1>2

-----------------------------------------------------------------------------
(* Types and slots.                                                        *)

(* The requests that hold a slot.                                          *)
Holders == {r \in Request : InFlight(r) /\ req[r].pc # "warn"}

(* A handler that has ended has ended in some way: what Conclude           *)
(* classifies is never the absence of an ending.                           *)
EndsKnown == \A r \in Request : req[r].pc = "ended" => req[r].ending \in Endings

(* The inductive invariant.  The types alone are not: a slot is given back *)
(* only while it is taken, which keeps the count from going below none.    *)
Held == TypeOK /\ SlotsHeld /\ EndsKnown

LEMMA FiniteHolders ==
    ASSUME NEW S \in SUBSET Request
    PROVE  IsFiniteSet(S) /\ Cardinality(S) \in Nat
  BY RequestAssumption, FS_Subset, FS_CardinalityType

LEMMA SlotsCounted ==
    SlotsHeld <=> (transport = "http" => slots = Cardinality(Holders)) /\ slots <= MaxInFlight
  BY DEF SlotsHeld, Holders

(* Where a request that moves does not pass the gate nor leave it, the     *)
(* same requests hold slots.                                               *)
LEMMA SameHolders ==
    ASSUME \A s \in Request : req'[s].pc \in {"new", "done", "warn"} <=> req[s].pc \in {"new", "done", "warn"}
    PROVE  Holders' = Holders
  BY DEF Holders, InFlight

LEMMA SlotsSame ==
    ASSUME SlotsHeld, Holders' = Holders, UNCHANGED <<slots, transport>>
    PROVE  SlotsHeld'
  BY DEF SlotsHeld, Holders

(* One request moves.                                                      *)
LEMMA OneMoves ==
    ASSUME req \in [Request -> RequestType], NEW r \in Request, NEW q \in RequestType,
           req' = [req EXCEPT ![r] = q]
    PROVE  /\ req' \in [Request -> RequestType] /\ req'[r] = q
           /\ \A s \in Request : s # r => req'[s] = req[s]
  OBVIOUS

LEMMA InitHeld == Init => Held
  <1> SUFFICES ASSUME Init PROVE Held
    OBVIOUS
  <1>1. req \in [Request -> RequestType] /\ \A r \in Request : req[r].pc = "new"
    BY NewRequestType DEF Init, NewRequest
  <1>2. slots \in 0 .. MaxInFlight /\ now \in 0 .. MaxTime /\ -WarnEvery \in Int
    BY SlotAssumption, ClockAssumption DEF Init
  <1>3. rej \in [total : Nat, sinceWarn : Nat, lastWarn : Int] /\ warned \in Seq([at : Nat, count : Nat])
    BY <1>2 DEF Init
  <1>4. audit \in [Request -> Seq(Record)] /\ registry \in [leader : Request \cup {None}, fresh : BOOLEAN]
    BY DEF Init
  <1>5. Holders = {}
    BY <1>1 DEF Holders, InFlight
  <1>6. TypeOK
    BY <1>1, <1>2, <1>3, <1>4 DEF Init, TypeOK
  <1>7. SlotsHeld
    BY <1>5, FS_EmptySet, SlotsCounted, SlotAssumption DEF Init
  <1>8. EndsKnown
    BY <1>1 DEF EndsKnown
  <1> QED BY <1>6, <1>7, <1>8 DEF Held

(* A step of the gate.                                                     *)
LEMMA GateHeld == ASSUME Held, NEW r \in Request, Gate(r) PROVE Held'
  <1> USE DEF Held, TypeOK, EndsKnown
  <1>0. /\ req[r] \in RequestType /\ req[r].pc = "new" /\ transport = "http" /\ r \notin Holders
        /\ UNCHANGED <<transport, phase, registry, audit, issued>>
    BY DEF Gate, Holders, InFlight
  <1>1. PICK p \in Presented :
            \/ ~p.route /\ NotFound(r)
            \/ p.route /\ Reason(p) = "origin" /\ Note(r, "forbidden")
            \/ p.route /\ Reason(p) \notin {"", "origin"} /\ Note(r, "unauthorized")
            \/ p.route /\ Reason(p) = "" /\ TakeSlot(r)
    BY DEF Gate
  <1>2. ASSUME NEW a \in {"not_found", "busy", "forbidden", "unauthorized"}, Answers(r, a), UNCHANGED slots,
               now' = now, rej' \in [total : Nat, sinceWarn : Nat, lastWarn : Int],
               warned' \in Seq([at : Nat, count : Nat])
        PROVE  Held'
    <2> DEFINE q == [req[r] EXCEPT !.pc = "done", !.answer = a]
    <2>1. q \in RequestType /\ req' = [req EXCEPT ![r] = q]
      BY <1>0, <1>2 DEF Answers, RequestType, Answer
    <2>2. req' \in [Request -> RequestType] /\ req'[r].pc = "done" /\ \A s \in Request : s # r => req'[s] = req[s]
      BY <2>1, OneMoves, <1>0
    <2>3. Holders' = Holders
      BY <1>0, <2>2, SameHolders
    <2> QED BY <1>0, <1>2, <2>2, <2>3, SlotsSame
  <1>3. ASSUME NEW a \in {"forbidden", "unauthorized"}, Note(r, a) PROVE Held'
    <2>1. CASE WarnDue
      <3> DEFINE q == [req[r] EXCEPT !.pc = "warn", !.answer = a]
      <3>1. q \in RequestType /\ req' = [req EXCEPT ![r] = q]
        BY <1>0, <1>3, <2>1 DEF Note, RequestType, Answer
      <3>2. req' \in [Request -> RequestType] /\ req'[r].pc = "warn" /\ \A s \in Request : s # r => req'[s] = req[s]
        BY <3>1, OneMoves, <1>0
      <3>3. Holders' = Holders
        BY <1>0, <3>2, SameHolders
      <3>4. rej' \in [total : Nat, sinceWarn : Nat, lastWarn : Int] /\ warned' \in Seq([at : Nat, count : Nat])
        <4>1. /\ rej.total + 1 \in Nat /\ rej.sinceWarn + 1 \in Nat /\ now \in Nat /\ now \in Int
              /\ rej' = [total |-> rej.total + 1, sinceWarn |-> 0, lastWarn |-> now]
          <5>1. rej.total + 1 \in Nat /\ rej.sinceWarn + 1 \in Nat /\ now \in Nat /\ now \in Int
            BY ClockAssumption
          <5>2. rej' = [total |-> rej.total + 1, sinceWarn |-> 0, lastWarn |-> now]
            BY <1>3, <2>1 DEF Note, Reset, LastWarn
          <5> QED BY <5>1, <5>2
        <4>2. [at |-> now, count |-> rej.sinceWarn + 1] \in [at : Nat, count : Nat]
          BY <4>1
        <4>3. warned' = Append(warned, [at |-> now, count |-> rej.sinceWarn + 1])
          BY <1>3, <2>1 DEF Note
        <4> QED BY <4>1, <4>2, <4>3
      <3> QED BY <1>0, <1>3, <2>1, <3>2, <3>3, <3>4, SlotsSame DEF Note
    <2>2. CASE ~WarnDue
      <3>1. /\ Answers(r, a) /\ UNCHANGED <<slots, now, warned>>
            /\ rej' = [rej EXCEPT !.total = @ + 1, !.sinceWarn = @ + 1]
        BY <1>3, <2>2 DEF Note
      <3>2. rej' \in [total : Nat, sinceWarn : Nat, lastWarn : Int]
        <4>1. rej \in [total : Nat, sinceWarn : Nat, lastWarn : Int]
          OBVIOUS
        <4>2. rej' = [total |-> rej.total + 1, sinceWarn |-> rej.sinceWarn + 1, lastWarn |-> rej.lastWarn]
          BY <3>1, <4>1
        <4> QED BY <4>1, <4>2
      <3> QED BY <1>2, <3>1, <3>2
    <2> QED BY <2>1, <2>2
  <1>4. CASE NotFound(r)
    BY <1>4, <1>2 DEF NotFound, gateVars
  <1>5. CASE TakeSlot(r)
    <2>1. CASE SlotFree /\ slots' = slots + 1 /\ req' = [req EXCEPT ![r].pc = "admitted"] /\ UNCHANGED <<now, rej, warned>>
      <3> DEFINE q == [req[r] EXCEPT !.pc = "admitted"]
      <3>1. q \in RequestType /\ req' = [req EXCEPT ![r] = q]
        BY <1>0, <2>1 DEF RequestType
      <3>2. req' \in [Request -> RequestType] /\ req'[r].pc = "admitted" /\ \A s \in Request : s # r => req'[s] = req[s]
        BY <3>1, OneMoves, <1>0
      <3>3. Holders' = Holders \cup {r}
        BY <3>2 DEF Holders, InFlight
      <3>4. Holders \in SUBSET Request
        BY DEF Holders
      <3>5. Cardinality(Holders') = Cardinality(Holders) + 1
        BY <1>0, <3>3, <3>4, FiniteHolders, FS_AddElement
      <3>6. slots + 1 \in 0 .. MaxInFlight
        BY <2>1, SlotAssumption DEF SlotFree
      <3>7. slots = Cardinality(Holders)
        BY <1>0 DEF SlotsHeld, Holders
      <3>8. SlotsHeld'
        BY <1>0, <2>1, <3>5, <3>6, <3>7 DEF SlotsHeld, Holders
      <3> QED BY <1>0, <2>1, <3>2, <3>6, <3>8
    <2>2. CASE ~SlotFree /\ Answers(r, "busy") /\ UNCHANGED gateVars
      BY <2>2, <1>2 DEF gateVars
    <2> QED BY <1>5, <2>1, <2>2 DEF TakeSlot
  <1> QED BY <1>1, <1>3, <1>4, <1>5

(* One request moves and keeps its slot, or its want of one.               *)
LEMMA MoveHeld ==
    ASSUME Held, NEW r \in Request, NEW q \in RequestType, req' = [req EXCEPT ![r] = q],
           q.pc \in {"new", "done", "warn"} <=> req[r].pc \in {"new", "done", "warn"},
           q.pc = "ended" => q.ending \in Endings,
           UNCHANGED <<transport, phase, slots, now, rej, warned>>,
           registry' \in [leader : Request \cup {None}, fresh : BOOLEAN],
           audit' \in [Request -> Seq(Record)], issued' \in Nat
    PROVE  Held'
  <1> USE DEF Held, TypeOK, EndsKnown
  <1>1. /\ req' \in [Request -> RequestType] /\ req'[r] = q
        /\ \A s \in Request : s # r => req'[s] = req[s]
    BY OneMoves
  <1>2. Holders' = Holders
    BY <1>1, SameHolders
  <1> QED BY <1>1, <1>2, SlotsSame DEF gateVars

LEMMA EmitType ==
    ASSUME Held, NEW r \in Request, NEW st \in Status, NEW n \in Nat, Emit(r, st, n)
    PROVE  /\ audit' \in [Request -> Seq(Record)]
           /\ audit'[r] = Append(audit[r], [status |-> st, ha_requests |-> n])
           /\ \A s \in Request : s # r => audit'[s] = audit[s]
  <1>1. [status |-> st, ha_requests |-> n] \in Record
    BY DEF Record
  <1> QED BY <1>1 DEF Emit, Held, TypeOK

(* The steps of a call that move it alone.                                 *)
Alone(r) ==
    \/ Warn(r) \/ Retry(r) \/ PassThrough(r) \/ Deny(r) \/ Dispatch(r) \/ Spend(r)
    \/ ReadRegistry(r) \/ FetchPanics(r) \/ GiveUp(r) \/ Finish(r) \/ Conclude(r)

LEMMA LeaveMoves ==
    ASSUME Held, NEW r \in Request, NEW a \in Answer, Leave(r, a)
    PROVE  \E q \in RequestType :
              /\ req' = [req EXCEPT ![r] = q] /\ q.pc = "leaving" /\ q.answer = a
              /\ q.used = req[r].used /\ q.refused = req[r].refused
              /\ q.shared = req[r].shared /\ q.ending = req[r].ending
  <1> DEFINE q == [req[r] EXCEPT !.pc = "leaving", !.answer = a]
  <1>1. req[r] \in RequestType
    BY DEF Held, TypeOK
  <1>2. q \in RequestType
    BY <1>1 DEF RequestType
  <1>3. req' = [req EXCEPT ![r] = q]
    BY <1>1 DEF Leave
  <1> QED BY <1>1, <1>2, <1>3 DEF RequestType

LEMMA AnswerKinds ==
    /\ {"none", "passed", "malformed", "result", "tool_error", "protocol_error"} \subseteq Answer
    /\ {"success", "denied", "budget_exceeded", "error"} = Status
  BY DEF Answer, Status

LEMMA AloneHeld == ASSUME Held, NEW r \in Request, Alone(r) PROVE Held'
  <1> USE DEF Held, TypeOK, EndsKnown, gateVars
  <1>0. req[r] \in RequestType /\ transport \in {"http", "stdio"}
    OBVIOUS
  <1>1. CASE Warn(r)
    <2> DEFINE q == [req[r] EXCEPT !.pc = "done"]
    <2>1. q \in RequestType /\ q.pc = "done" /\ req' = [req EXCEPT ![r] = q] /\ req[r].pc = "warn"
      BY <1>0, <1>1 DEF Warn, RequestType
    <2> HIDE DEF q
    <2> QED BY <1>1, <2>1, MoveHeld DEF Warn
  <1>2. CASE Retry(r)
    <2>1. req' = [req EXCEPT ![r] = NewRequest] /\ req[r].pc = "done" /\ NewRequest.pc = "new"
      BY <1>2 DEF Retry, NewRequest
    <2> QED BY <1>2, <2>1, MoveHeld, NewRequestType DEF Retry
  <1>3. CASE PassThrough(r)
    <2>1. req[r].pc = "admitted" /\ UNCHANGED <<transport, phase, gateVars, registry, audit, issued>>
      BY <1>3 DEF PassThrough
    <2>2. PICK q \in RequestType : req' = [req EXCEPT ![r] = q] /\ q.pc = "leaving"
      BY <1>3, LeaveMoves, AnswerKinds DEF PassThrough
    <2> QED BY <2>1, <2>2, MoveHeld
  <1>4. CASE Deny(r)
    <2>1. req[r].pc = "admitted" /\ UNCHANGED <<transport, phase, gateVars, registry, issued>>
      BY <1>4 DEF Deny
    <2>2. PICK q \in RequestType : req' = [req EXCEPT ![r] = q] /\ q.pc = "leaving"
      BY <1>4, LeaveMoves, AnswerKinds DEF Deny
    <2>3. audit' \in [Request -> Seq(Record)]
      BY <1>4, EmitType, AnswerKinds DEF Deny
    <2> QED BY <2>1, <2>2, <2>3, MoveHeld
  <1>5. CASE Dispatch(r)
    <2> DEFINE q == [req[r] EXCEPT !.pc = "running"]
    <2>1. q \in RequestType /\ q.pc = "running" /\ req' = [req EXCEPT ![r] = q] /\ req[r].pc = "admitted"
      BY <1>0, <1>5 DEF Dispatch, RequestType
    <2> HIDE DEF q
    <2> QED BY <1>5, <2>1, MoveHeld DEF Dispatch
  <1>6. CASE Spend(r)
    <2>0. req[r].pc = "running" /\ UNCHANGED <<transport, phase, gateVars, registry, audit>>
      BY <1>6 DEF Spend, Running
    <2>1. CASE Fits(req[r].used, Limits, "ha_requests", 1)
      <3> DEFINE q == [req[r] EXCEPT !.used = Charged(@, "ha_requests", 1)]
      <3>1. req' = [req EXCEPT ![r] = q] /\ issued' \in Nat
        BY <1>0, <1>6, <2>1 DEF Spend
      <3>2. q \in RequestType /\ q.pc = "running"
        BY <1>0, <2>0, ChargedType DEF RequestType, Dimensions
      <3> HIDE DEF q
      <3> QED BY <2>0, <3>1, <3>2, MoveHeld
    <2>2. CASE ~Fits(req[r].used, Limits, "ha_requests", 1)
      <3> DEFINE q == [req[r] EXCEPT !.refused = TRUE]
      <3>1. req' = [req EXCEPT ![r] = q] /\ issued' = issued
        BY <1>0, <1>6, <2>2 DEF Spend
      <3>2. q \in RequestType /\ q.pc = "running"
        BY <1>0, <2>0 DEF RequestType
      <3> HIDE DEF q
      <3> QED BY <2>0, <3>1, <3>2, MoveHeld
    <2> QED BY <2>1, <2>2
  <1>7. CASE ReadRegistry(r)
    <2>0. /\ req[r].pc = "running" /\ UNCHANGED <<transport, phase, gateVars, audit, issued>>
          /\ registry' = registry \/ registry' = [registry EXCEPT !.leader = r]
      BY <1>7 DEF ReadRegistry, Running
    <2>1. registry' \in [leader : Request \cup {None}, fresh : BOOLEAN]
      BY <2>0
    <2>2. PICK q \in {[req[r] EXCEPT !.shared = "ok"], [req[r] EXCEPT !.pc = "wait"], [req[r] EXCEPT !.pc = "fetch"]} :
              req' = [req EXCEPT ![r] = q]
      BY <1>0, <1>7 DEF ReadRegistry
    <2>3. q \in RequestType /\ q.pc \in {"running", "wait", "fetch"}
      BY <1>0, <2>0, <2>2 DEF RequestType
    <2> QED BY <2>0, <2>1, <2>2, <2>3, MoveHeld
  <1>8. CASE GiveUp(r)
    <2> DEFINE q == Resumed(req[r], "other")
    <2>1. q \in RequestType /\ q.pc = "running" /\ req' = [req EXCEPT ![r] = q] /\ req[r].pc = "wait"
      BY <1>0, <1>8 DEF GiveUp, Resumed, RequestType, Failure
    <2> HIDE DEF q
    <2> QED BY <1>8, <2>1, MoveHeld DEF GiveUp
  <1>9. CASE Finish(r)
    <2>1. PICK e \in Endings : req' = [req EXCEPT ![r].pc = "ended", ![r].ending = e]
      BY <1>9 DEF Finish
    <2> DEFINE q == [req[r] EXCEPT !.pc = "ended", !.ending = e]
    <2>2. q \in RequestType /\ q.pc = "ended" /\ q.ending \in Endings /\ req' = [req EXCEPT ![r] = q] /\ req[r].pc = "running"
      BY <1>0, <1>9, <2>1 DEF Finish, RequestType
    <2> HIDE DEF q
    <2> QED BY <1>9, <2>2, MoveHeld DEF Finish
  <1>10. CASE Conclude(r)
    <2> DEFINE e  == req[r].ending
               st == IF Failed(e) THEN Classify(e) ELSE "success"
    <2>1. /\ req[r].pc = "ended" /\ Emit(r, st, Spent(r)) /\ UNCHANGED <<transport, phase, gateVars, registry, issued>>
      BY <1>10 DEF Conclude
    <2>2. e \in Endings
      BY <2>1
    <2>3. st \in Status
      BY <2>2 DEF Failed, Classify, Endings, Ended, Failure, Status
    <2>4. Spent(r) \in Nat
      BY <1>0 DEF Spent, RequestType, Dimensions
    <2>5. audit' \in [Request -> Seq(Record)]
      BY <2>1, <2>3, <2>4, EmitType
    <2>6. PICK q \in RequestType : req' = [req EXCEPT ![r] = q] /\ q.pc = "leaving"
      <3>1. \E a \in Answer : Leave(r, a)
        <4> DEFINE a == CASE e.how = "ok"       -> "result"
                          [] e.how = "is_error" -> "tool_error"
                          [] e.how \in {"error", "panic"} -> "protocol_error"
        <4>1. e.how \in {"ok", "is_error", "error", "panic"}
          BY <2>2 DEF Endings, Ended
        <4>2. a \in Answer
          BY <4>1, AnswerKinds
        <4>3. Leave(r, a)
          BY <1>10 DEF Conclude
        <4> HIDE DEF a
        <4> QED BY <4>2, <4>3
      <3> QED BY <3>1, LeaveMoves
    <2> QED BY <2>1, <2>5, <2>6, MoveHeld
  <1>11. CASE FetchPanics(r)
    <2> DEFINE q == [req[r] EXCEPT !.used = Charged(@, "ha_requests", 1), !.pc = "ended",
                                   !.ending = Ended("panic", "other")]
    <2>1. /\ req[r].pc = "fetch" /\ issued' \in Nat
          /\ UNCHANGED <<transport, phase, gateVars, registry, audit>>
      BY <1>11 DEF FetchPanics
    <2>2. Charged(req[r].used, "ha_requests", 1) \in [Dimensions -> Nat]
      BY <1>0, ChargedType DEF RequestType, Dimensions
    <2>3. Ended("panic", "other") \in Endings
      BY DEF Endings
    <2>4. q \in RequestType /\ q.pc = "ended" /\ q.ending \in Endings
      BY <1>0, <2>2, <2>3 DEF RequestType
    <2>5. req' = [req EXCEPT ![r] = q]
      BY <1>0, <1>11 DEF FetchPanics, RequestType
    <2> HIDE DEF q
    <2> QED BY <2>1, <2>4, <2>5, MoveHeld
  <1> QED BY <1>1, <1>2, <1>3, <1>4, <1>5, <1>6, <1>7, <1>8, <1>9, <1>10, <1>11 DEF Alone

(* Nobody counts slots on stdio.                                           *)
LEMMA ReceiveHeld == ASSUME Held, NEW r \in Request, Receive(r) PROVE Held'
  <1> USE DEF Held, TypeOK, EndsKnown, gateVars
  <1> DEFINE q == [req[r] EXCEPT !.pc = "admitted"]
  <1>1. q \in RequestType /\ q.pc = "admitted" /\ req' = [req EXCEPT ![r] = q] /\ transport = "stdio"
    <2>1. req[r] \in RequestType
      OBVIOUS
    <2>2. q \in RequestType /\ q.pc = "admitted"
      BY ONLY <2>1 DEF RequestType
    <2> QED BY <2>2 DEF Receive
  <1> HIDE DEF q
  <1>2. req' \in [Request -> RequestType] /\ req'[r] = q /\ \A s \in Request : s # r => req'[s] = req[s]
    BY <1>1, OneMoves
  <1>3. SlotsHeld'
    BY <1>1 DEF Receive, SlotsHeld
  <1> QED BY <1>1, <1>2, <1>3 DEF Receive

(* The end of a fetch moves many requests, and all of them on.             *)
LEMMA FetchHeld == ASSUME Held, NEW r \in Request, FetchRegistry(r) PROVE Held'
  <1> USE DEF Held, TypeOK, EndsKnown, gateVars
  <1>1. /\ req[r].pc = "fetch" /\ UNCHANGED <<transport, phase, slots, now, rej, warned, audit>>
        /\ \E f \in {"ok"} \cup Failure : Hears(r, f)
        /\ registry' \in [leader : Request \cup {None}, fresh : BOOLEAN]
        /\ issued' \in Nat
    <2>1. req[r].pc = "fetch" /\ UNCHANGED <<transport, phase, slots, now, rej, warned, audit>>
      BY DEF FetchRegistry
    <2>2. CASE Fits(req[r].used, Limits, "ha_requests", 1)
      <3>1. issued' = issued + 1 /\ \E f \in {"ok", "other"} :
                Hears(r, f) /\ registry' = [leader |-> None, fresh |-> (f = "ok")]
        BY <2>2 DEF FetchRegistry
      <3> QED BY <2>1, <3>1 DEF Failure
    <2>3. CASE ~Fits(req[r].used, Limits, "ha_requests", 1)
      <3>1. issued' = issued /\ Hears(r, "budget") /\ registry' = [leader |-> None, fresh |-> FALSE]
        BY <2>3 DEF FetchRegistry
      <3> QED BY <2>1, <3>1 DEF Failure
    <2> QED BY <2>2, <2>3
  <1>2. PICK f \in {"ok"} \cup Failure : Hears(r, f)
    BY <1>1
  <1>3. /\ req' \in [Request -> RequestType]
        /\ \A s \in Request : \/ req'[s] = req[s]
                              \/ req[s].pc \in {"fetch", "wait"} /\ req'[s].pc = "running"
    BY <1>1, <1>2, HearsType
  <1>4. Holders' = Holders
    BY <1>3, SameHolders
  <1>5. EndsKnown'
    BY <1>3
  <1>6. SlotsHeld'
    BY <1>1, <1>4, SlotsSame
  <1> QED BY <1>1, <1>3, <1>5, <1>6

(* Only who holds a slot gives one back.                                   *)
LEMMA ReleaseHeld == ASSUME Held, NEW r \in Request, Release(r) PROVE Held'
  <1> USE DEF Held, TypeOK, EndsKnown
  <1> DEFINE q == [req[r] EXCEPT !.pc = "done"]
  <1>1. q \in RequestType /\ q.pc = "done" /\ req' = [req EXCEPT ![r] = q] /\ req[r].pc = "leaving"
    <2>1. req[r] \in RequestType
      OBVIOUS
    <2>2. q \in RequestType /\ q.pc = "done"
      BY ONLY <2>1 DEF RequestType
    <2> QED BY <2>2 DEF Release
  <1> HIDE DEF q
  <1>2. req' \in [Request -> RequestType] /\ req'[r] = q /\ \A s \in Request : s # r => req'[s] = req[s]
    BY <1>1, OneMoves
  <1>3. /\ UNCHANGED <<transport, phase, now, rej, warned, registry, audit, issued>>
        /\ slots' = IF transport = "http" THEN slots - 1 ELSE slots
    BY DEF Release, Frees
  <1>4. r \in Holders /\ Holders' = Holders \ {r} /\ Holders \in SUBSET Request
    BY <1>1, <1>2 DEF Holders, InFlight
  <1>5. /\ IsFiniteSet(Holders) /\ Cardinality(Holders) \in Nat /\ Cardinality(Holders') \in Nat
        /\ Cardinality(Holders') = Cardinality(Holders) - 1
    <2>1. IsFiniteSet(Holders)
      BY <1>4, FiniteHolders
    <2>2. Holders' \in SUBSET Request
      BY <1>4
    <2> QED BY <1>4, <2>1, <2>2, FiniteHolders, FS_RemoveElement
  <1>6. transport = "http" => slots = Cardinality(Holders)
    BY SlotsCounted
  <1>7. slots' \in 0 .. MaxInFlight /\ (transport' = "http" => slots' = Cardinality(Holders'))
    BY <1>3, <1>5, <1>6, SlotAssumption
  <1>8. SlotsHeld'
    BY <1>7, SlotAssumption DEF SlotsHeld, Holders
  <1>9. EndsKnown'
    BY <1>1, <1>2
  <1> QED BY <1>2, <1>3, <1>7, <1>8, <1>9

(* The clock and the process move nobody.                                  *)
LEMMA ProcessHeld ==
    ASSUME Held, Tick \/ StopSignal \/ ServeEnds \/ Shutdown \/ UNCHANGED vars
    PROVE  Held'
  <1> USE DEF Held, TypeOK, EndsKnown, gateVars
  <1>1. /\ UNCHANGED <<transport, req, slots, rej, warned, registry, audit, issued>>
        /\ phase' \in {"serving", "draining", "closing", "stopped"} /\ now' \in 0 .. MaxTime
    BY ClockAssumption
       DEF Tick, StopSignal, ServeEnds, Shutdown, Drained, GraceOver, Exit, vars
  <1>2. Holders' = Holders
    BY <1>1 DEF Holders, InFlight
  <1>3. SlotsHeld' /\ EndsKnown'
    BY <1>1, <1>2, SlotsSame
  <1> QED BY <1>1, <1>3

LEMMA NextHeld == Held /\ [Next]_vars => Held'
  <1> SUFFICES ASSUME Held, [Next]_vars PROVE Held'
    OBVIOUS
  <1>1. ASSUME NEW r \in Request, Gate(r) \/ Receive(r) \/ Handle(r) \/ Spend(r) \/ ReadRegistry(r) \/ Retry(r)
        PROVE  Held'
    BY <1>1, GateHeld, ReceiveHeld, AloneHeld, FetchHeld, ReleaseHeld DEF Handle, Alone
  <1>2. CASE Tick \/ StopSignal \/ ServeEnds \/ Shutdown \/ UNCHANGED vars
    BY <1>2, ProcessHeld
  <1> QED BY <1>1, <1>2 DEF Next

(* The server's state always has its type, for any requests, slots and     *)
(* budgets; the slots taken are never fewer than none nor more than there  *)
(* are (requestGate).                                                      *)
THEOREM TypeCorrect == Spec => []TypeOK
  <1>1. Held => TypeOK
    BY DEF Held
  <1> QED BY <1>1, InitHeld, NextHeld, PTL DEF Spec

(* Every slot is held by a request past the gate, on every way out of it:  *)
(* refused, failed, panicked, or cut off (ServeHTTP's deferred release).   *)
THEOREM SlotsAreHeld == Spec => []SlotsHeld
  <1>1. Held => SlotsHeld
    BY DEF Held
  <1> QED BY <1>1, InitHeld, NextHeld, PTL DEF Spec

-----------------------------------------------------------------------------
(* Audit records.                                                          *)

Early == {"new", "admitted", "running", "fetch", "wait", "ended"}
Told(r) ==
    Len(audit[r]) = 1 =>
        /\ audit[r][1].status = "success" <=> req[r].answer = "result"
        /\ audit[r][1].status = "budget_exceeded" => req[r].refused \/ req[r].shared = "budget"

(* A call has no answer before it leaves the middleware, so that the step  *)
(* which gives it one finds no record; and how it ended was possible when  *)
(* it ended, so that a record of a cutoff follows a refusal.               *)
Audited(r) ==
    /\ req[r].pc \in Early => req[r].answer = "none"
    /\ req[r].pc = "ended" => MayEndWith(r, req[r].ending)
    /\ Len(audit[r]) = IF Concluded(r) THEN 1 ELSE 0
    /\ Told(r)
    /\ Within(req[r].used, Limits)

AllAudited == \A r \in Request : Audited(r)

(* A request that is not concluded and does not become so.                 *)
LEMMA StillOpen ==
    ASSUME NEW r, Audited(r), ~Concluded(r), audit'[r] = audit[r],
           \/ req'[r].answer = "none"
           \/ /\ req'[r].answer \notin {"result", "tool_error", "protocol_error"}
              /\ req'[r].pc \notin Early,
           req'[r].pc = "ended" => (req'[r].ending.why = "budget" => req'[r].refused \/ req'[r].shared = "budget"),
           Within(req'[r].used, Limits)
    PROVE  Audited(r)'
  <1>1. Len(audit[r]) = 0 /\ ~Concluded(r)'
    BY DEF Audited, Concluded
  <1>2. (req'[r].pc \in Early => req'[r].answer = "none") /\ Told(r)'
    BY <1>1 DEF Told
  <1> QED BY <1>1, <1>2 DEF Audited, MayEndWith

(* A request that only comes to its end.                                   *)
LEMMA ComesToEnd ==
    ASSUME NEW r, Audited(r), audit'[r] = audit[r], req'[r].pc = "done",
           req'[r].answer = req[r].answer, req'[r].used = req[r].used,
           req'[r].refused = req[r].refused, req'[r].shared = req[r].shared
    PROVE  Audited(r)'
  BY DEF Audited, Told, Concluded, Early, MayEndWith

(* A request that leaves with a record.                                    *)
LEMMA LeavesRecord ==
    ASSUME Held, NEW r \in Request, Audited(r), ~Concluded(r),
           NEW st \in Status, NEW n \in Nat, Emit(r, st, n),
           NEW a \in {"result", "tool_error", "protocol_error"}, Leave(r, a),
           st = "success" <=> a = "result",
           st = "budget_exceeded" => req[r].refused \/ req[r].shared = "budget"
    PROVE  Audited(r)'
  <1>1. PICK q \in RequestType :
              /\ req' = [req EXCEPT ![r] = q] /\ q.pc = "leaving" /\ q.answer = a
              /\ q.used = req[r].used /\ q.refused = req[r].refused
              /\ q.shared = req[r].shared /\ q.ending = req[r].ending
    BY LeaveMoves, AnswerKinds
  <1>2. req'[r] = q
    BY <1>1 DEF Held, TypeOK
  <1>3. audit'[r] = Append(audit[r], [status |-> st, ha_requests |-> n]) /\ audit[r] \in Seq(Record)
    BY EmitType DEF Held, TypeOK
  <1>4. Len(audit[r]) = 0
    BY DEF Audited
  <1>5. Len(audit'[r]) = 1 /\ audit'[r][1] = [status |-> st, ha_requests |-> n]
    BY <1>3, <1>4
  <1>6. Concluded(r)' /\ Told(r)'
    BY <1>1, <1>2, <1>5 DEF Concluded, Told
  <1> QED BY <1>1, <1>2, <1>5, <1>6 DEF Audited, Early

LEMMA Untouched ==
    ASSUME NEW r, Audited(r), req'[r] = req[r], audit'[r] = audit[r]
    PROVE  Audited(r)'
  BY DEF Audited, Told, Concluded, Early, MayEndWith

LEMMA ChargeFits ==
    ASSUME NEW u \in [Dimensions -> Nat], Within(u, Limits), Fits(u, Limits, "ha_requests", 1)
    PROVE  Within(Charged(u, "ha_requests", 1), Limits)
  <1>1. "ha_requests" \in Dimensions
    BY DEF Dimensions
  <1>2. /\ Charged(u, "ha_requests", 1)["ha_requests"] = u["ha_requests"] + 1
        /\ \A d \in Dimensions : d # "ha_requests" => Charged(u, "ha_requests", 1)[d] = u[d]
    BY <1>1, ChargedType
  <1>3. u["ha_requests"] + 1 <= Limits["ha_requests"] /\ \A d \in Dimensions : u[d] <= Limits[d]
    BY DEF Within, Fits
  <1> QED BY <1>2, <1>3 DEF Within

LEMMA NothingSpent == Within(Unspent, Limits)
  <1> SUFFICES ASSUME NEW d \in Dimensions PROVE Unspent[d] <= Limits[d]
    BY DEF Within
  <1>1. Unspent[d] = 0
    BY UnspentType
  <1>2. Limits[d] \in Nat
    BY LimitAssumption
  <1> QED BY <1>1, <1>2

LEMMA InitAudited == Init => AllAudited
  <1> SUFFICES ASSUME Init, NEW r \in Request PROVE Audited(r)
    BY DEF AllAudited
  <1>1. req[r] = NewRequest /\ audit[r] = <<>>
    BY DEF Init
  <1> QED BY <1>1, NothingSpent DEF Audited, Told, Concluded, NewRequest

(* What a step does to the others it does not name.                        *)
LEMMA OthersAudited ==
    ASSUME AllAudited, NEW r \in Request, Audited(r)',
           \A s \in Request : s # r => req'[s] = req[s] /\ audit'[s] = audit[s]
    PROVE  AllAudited'
  BY Untouched DEF AllAudited

(* The steps of a request that is and stays open.                          *)
LEMMA OpenSteps ==
    ASSUME Held, AllAudited, NEW r \in Request,
           Gate(r) \/ Retry(r) \/ Receive(r) \/ PassThrough(r) \/ Dispatch(r)
             \/ Spend(r) \/ ReadRegistry(r) \/ FetchPanics(r) \/ GiveUp(r) \/ Finish(r)
    PROVE  AllAudited'
  <1> USE DEF Held, TypeOK
  <1>0. req[r] \in RequestType /\ Audited(r) /\ Within(req[r].used, Limits)
    BY DEF AllAudited, Audited
  <1>1. audit' = audit /\ \E q : req' = [req EXCEPT ![r] = q]
    <2>1. CASE Gate(r)
      BY <2>1 DEF Gate, NotFound, Note, TakeSlot, Answers
    <2>2. CASE Retry(r) \/ Receive(r) \/ PassThrough(r) \/ Dispatch(r)
      BY <2>2 DEF Retry, Receive, PassThrough, Leave, Dispatch
    <2>3. CASE Spend(r) \/ ReadRegistry(r) \/ FetchPanics(r) \/ GiveUp(r) \/ Finish(r)
      BY <2>3 DEF Spend, ReadRegistry, FetchPanics, GiveUp, Finish
    <2> QED BY <2>1, <2>2, <2>3
  <1>2. \A s \in Request : s # r => req'[s] = req[s] /\ audit'[s] = audit[s]
    BY <1>1
  <1>3. ~Concluded(r)
    <2>1. req[r].pc \in Early \/ Retry(r)
      BY DEF Gate, Receive, PassThrough, Dispatch, Spend, ReadRegistry, Running, FetchPanics, GiveUp,
             Finish, Early
    <2> QED BY <2>1, <1>0 DEF Audited, Concluded, Retry
  <1>4. /\ \/ req'[r].answer = "none"
           \/ /\ req'[r].answer \notin {"result", "tool_error", "protocol_error"}
              /\ req'[r].pc \notin Early
        /\ req'[r].pc = "ended" => (req'[r].ending.why = "budget" => req'[r].refused \/ req'[r].shared = "budget")
        /\ Within(req'[r].used, Limits)
    <2>1. CASE Gate(r)
      <3>1. req[r].pc = "new" /\ req[r].answer = "none"
        BY <1>0, <2>1 DEF Gate, Audited, Early
      <3>2. \/ \E a \in {"not_found", "busy", "forbidden", "unauthorized"}, c \in {"done", "warn"} :
                  req' = [req EXCEPT ![r].pc = c, ![r].answer = a]
            \/ req' = [req EXCEPT ![r].pc = "admitted"]
        BY <2>1 DEF Gate, NotFound, Note, TakeSlot, Answers
      <3>3. /\ req'[r].used = req[r].used
            /\ \/ /\ req'[r].answer \in {"not_found", "busy", "forbidden", "unauthorized"}
                  /\ req'[r].pc \in {"done", "warn"}
               \/ req'[r].answer = "none" /\ req'[r].pc = "admitted"
        BY <1>0, <3>1, <3>2 DEF RequestType
      <3> QED BY <1>0, <3>3 DEF Early
    <2>2. CASE Retry(r)
      <3>1. req'[r] = NewRequest
        BY <2>2 DEF Retry
      <3> QED BY <3>1, NothingSpent DEF NewRequest
    <2>3. CASE Receive(r) \/ Dispatch(r)
      <3>1. req[r].answer = "none"
        BY <1>0, <2>3 DEF Receive, Dispatch, Audited, Early
      <3>2. /\ req'[r].answer = req[r].answer /\ req'[r].used = req[r].used
            /\ req'[r].pc \in {"admitted", "running"}
        BY <1>0, <2>3 DEF Receive, Dispatch, RequestType
      <3> QED BY <1>0, <3>1, <3>2
    <2>4. CASE PassThrough(r)
      <3>1. /\ req'[r].answer \in {"passed", "malformed"} /\ req'[r].used = req[r].used
            /\ req'[r].pc = "leaving"
        BY <1>0, <2>4 DEF PassThrough, Leave, RequestType
      <3> QED BY <1>0, <3>1 DEF Early
    <2>5. CASE Spend(r) \/ ReadRegistry(r) \/ GiveUp(r)
      <3>1. req[r].pc \in {"running", "wait"} /\ req[r].answer = "none"
        BY <1>0, <2>5 DEF Spend, ReadRegistry, Running, GiveUp, Audited, Early
      <3>2. CASE Spend(r)
        <4>1. CASE Fits(req[r].used, Limits, "ha_requests", 1)
          <5>1. req' = [req EXCEPT ![r].used = Charged(@, "ha_requests", 1)] /\ req[r].pc = "running"
            BY <3>2, <4>1 DEF Spend, Running
          <5>2. /\ req'[r].answer = req[r].answer /\ req'[r].pc = "running"
                /\ req'[r].used = Charged(req[r].used, "ha_requests", 1)
            BY <1>0, <5>1 DEF RequestType
          <5>3. req[r].used \in [Dimensions -> Nat]
            BY <1>0 DEF RequestType
          <5> QED BY <1>0, <3>1, <4>1, <5>2, <5>3, ChargeFits
        <4>2. CASE ~Fits(req[r].used, Limits, "ha_requests", 1)
          <5>1. req' = [req EXCEPT ![r].refused = TRUE] /\ req[r].pc = "running"
            BY <3>2, <4>2 DEF Spend, Running
          <5>2. /\ req'[r].answer = req[r].answer /\ req'[r].pc = "running"
                /\ req'[r].used = req[r].used
            BY <1>0, <5>1 DEF RequestType
          <5> QED BY <1>0, <3>1, <5>2
        <4> QED BY <4>1, <4>2
      <3>3. CASE ReadRegistry(r) \/ GiveUp(r)
        <4>1. /\ req'[r].answer = req[r].answer /\ req'[r].used = req[r].used
              /\ req'[r].pc \in {"running", "wait", "fetch"}
          <5>1. PICK q \in {[req[r] EXCEPT !.shared = "ok"], [req[r] EXCEPT !.pc = "wait"],
                             [req[r] EXCEPT !.pc = "fetch"],
                             [[req[r] EXCEPT !.pc = "running"] EXCEPT !.shared = "other"]} :
                      req' = [req EXCEPT ![r] = q]
            <6>1. CASE ReadRegistry(r)
              BY <6>1, <1>0 DEF ReadRegistry
            <6>2. CASE GiveUp(r)
              <7>1. req' = [req EXCEPT ![r] = Resumed(req[r], "other")]
                BY <6>2 DEF GiveUp
              <7>2. Resumed(req[r], "other") = [[req[r] EXCEPT !.pc = "running"] EXCEPT !.shared = "other"]
                BY <1>0 DEF Resumed, RequestType
              <7> QED BY <7>1, <7>2
            <6> QED BY <3>3, <6>1, <6>2
          <5>2. req'[r] = q
            BY <5>1
          <5> QED BY <1>0, <3>1, <5>1, <5>2 DEF RequestType
        <4> QED BY <1>0, <3>1, <4>1
      <3> QED BY <2>5, <3>2, <3>3
    <2>6. CASE Finish(r)
      <3>1. req[r].answer = "none" /\ req[r].pc = "running"
        BY <1>0, <2>6 DEF Finish, Audited, Early
      <3>2. PICK e \in Endings : MayEndWith(r, e) /\ req' = [req EXCEPT ![r].pc = "ended", ![r].ending = e]
        BY <2>6 DEF Finish
      <3>3. /\ req'[r].answer = req[r].answer /\ req'[r].used = req[r].used /\ req'[r].ending = e
            /\ req'[r].refused = req[r].refused /\ req'[r].shared = req[r].shared
        BY <1>0, <3>2 DEF RequestType
      <3> QED BY <1>0, <3>1, <3>2, <3>3 DEF MayEndWith
    <2>7. CASE FetchPanics(r)
      <3>1. /\ req[r].answer = "none" /\ req[r].used \in [Dimensions -> Nat]
            /\ Fits(req[r].used, Limits, "ha_requests", 1)
        BY <1>0, <2>7 DEF FetchPanics, Audited, Early, RequestType
      <3>2. /\ req'[r].answer = req[r].answer /\ req'[r].ending = Ended("panic", "other")
            /\ req'[r].used = Charged(req[r].used, "ha_requests", 1)
        BY <1>0, <2>7 DEF FetchPanics, RequestType
      <3> QED BY <1>0, <3>1, <3>2, ChargeFits DEF Ended
    <2> QED BY <2>1, <2>2, <2>3, <2>4, <2>5, <2>6, <2>7
  <1>5. audit'[r] = audit[r]
    BY <1>1
  <1>6. Audited(r)'
    BY <1>0, <1>3, <1>4, <1>5, StillOpen
  <1> QED BY <1>2, <1>6, OthersAudited

(* The end of a fetch: its leader pays, if it can, and nobody else.        *)
LEMMA FetchAudited ==
    ASSUME Held, AllAudited, NEW r \in Request, FetchRegistry(r) PROVE AllAudited'
  <1> USE DEF Held, TypeOK
  <1>1. req[r].pc = "fetch" /\ audit' = audit
    BY DEF FetchRegistry
  <1>2. PICK f \in {"ok"} \cup Failure :
            Hears(r, f) /\ (f # "budget" => Fits(req[r].used, Limits, "ha_requests", 1))
    BY DEF FetchRegistry, Failure
  <1> SUFFICES ASSUME NEW s \in Request PROVE Audited(s)'
    BY DEF AllAudited
  <1>3. req[s] \in RequestType /\ Audited(s) /\ Within(req[s].used, Limits)
    BY DEF AllAudited, Audited
  <1>4. CASE s # r /\ req[s].pc # "wait" /\ req'[s] = req[s]
    BY <1>1, <1>3, <1>4, Untouched
  <1>5. CASE /\ s = r \/ req[s].pc = "wait"
             /\ req'[s].pc = "running" /\ req'[s].shared = f
             /\ req'[s].answer = req[s].answer /\ req'[s].ending = req[s].ending
             /\ req'[s].used = IF Pays(s, r, f) THEN Charged(req[s].used, "ha_requests", 1)
                               ELSE req[s].used
    <2>1. req[s].answer = "none" /\ ~Concluded(s)
      BY <1>1, <1>3, <1>5 DEF Audited, Early, Concluded
    <2>2. req[s].used \in [Dimensions -> Nat]
      BY <1>3 DEF RequestType
    <2>3. Within(req'[s].used, Limits)
      BY <1>2, <1>3, <1>5, <2>2, ChargeFits DEF Pays
    <2> QED BY <1>1, <1>3, <1>5, <2>1, <2>3, StillOpen
  <1> QED BY <1>2, <1>4, <1>5, HearsType

(* The two places that write a record, and the two that follow.            *)
LEMMA RecordSteps ==
    ASSUME Held, AllAudited, NEW r \in Request, Deny(r) \/ Conclude(r) \/ Warn(r) \/ Release(r)
    PROVE  AllAudited'
  <1> USE DEF Held, TypeOK
  <1>0. req[r] \in RequestType /\ Audited(r)
    BY DEF AllAudited
  <1>1. \A s \in Request : s # r => req'[s] = req[s] /\ audit'[s] = audit[s]
    BY DEF Deny, Conclude, Warn, Release, Emit, Leave
  <1>2. CASE Deny(r)
    <2>1. ~Concluded(r)
      BY <1>0, <1>2 DEF Deny, Audited, Early, Concluded
    <2>2. Emit(r, "denied", 0) /\ Leave(r, "protocol_error") /\ "denied" \in Status
      BY <1>2 DEF Deny, Status
    <2>3. Audited(r)'
      BY <1>0, <2>1, <2>2, LeavesRecord
    <2> QED BY <1>1, <2>3, OthersAudited
  <1>3. CASE Conclude(r)
    <2> DEFINE e  == req[r].ending
               st == IF Failed(e) THEN Classify(e) ELSE "success"
               a  == CASE e.how = "ok"       -> "result"
                       [] e.how = "is_error" -> "tool_error"
                       [] e.how \in {"error", "panic"} -> "protocol_error"
    <2>1. req[r].pc = "ended" /\ Emit(r, st, Spent(r)) /\ Leave(r, a)
      BY <1>3 DEF Conclude
    <2>2. ~Concluded(r) /\ MayEndWith(r, e) /\ e \in Endings
      BY <1>0, <2>1 DEF Audited, Early, Concluded, EndsKnown
    <2>3. e.how \in {"ok", "is_error", "error", "panic"} /\ e.why \in Failure
      BY <2>2 DEF Endings, Ended, Failure
    <2>4. /\ st \in Status /\ a \in {"result", "tool_error", "protocol_error"}
          /\ st = "success" <=> a = "result"
          /\ st = "budget_exceeded" => e.why = "budget"
      BY <2>3 DEF Failed, Classify, Failure, Status
    <2>5. Spent(r) \in Nat
      BY <1>0 DEF Spent, RequestType, Dimensions
    <2> HIDE DEF st, a
    <2>6. Audited(r)'
      BY <1>0, <2>1, <2>2, <2>4, <2>5, LeavesRecord DEF MayEndWith
    <2> QED BY <1>1, <2>6, OthersAudited
  <1>4. CASE Warn(r) \/ Release(r)
    <2>1. req' = [req EXCEPT ![r].pc = "done"] /\ audit' = audit
      BY <1>4 DEF Warn, Release
    <2>2. /\ audit'[r] = audit[r] /\ req'[r].pc = "done"
          /\ req'[r].answer = req[r].answer /\ req'[r].used = req[r].used
          /\ req'[r].refused = req[r].refused /\ req'[r].shared = req[r].shared
      BY <1>0, <2>1 DEF RequestType
    <2>3. Audited(r)'
      BY <1>0, <2>2, ComesToEnd
    <2> QED BY <1>1, <2>3, OthersAudited
  <1> QED BY <1>2, <1>3, <1>4

LEMMA NextAudited == Held /\ AllAudited /\ [Next]_vars => AllAudited'
  <1> SUFFICES ASSUME Held, AllAudited, [Next]_vars PROVE AllAudited'
    OBVIOUS
  <1>1. ASSUME NEW r \in Request, Gate(r) \/ Receive(r) \/ Handle(r) \/ Spend(r) \/ ReadRegistry(r) \/ Retry(r)
        PROVE  AllAudited'
    BY <1>1, OpenSteps, FetchAudited, RecordSteps DEF Handle
  <1>2. CASE Tick \/ StopSignal \/ ServeEnds \/ Shutdown \/ UNCHANGED vars
    <2>1. req' = req /\ audit' = audit
      BY <1>2 DEF Tick, StopSignal, ServeEnds, Shutdown, Drained, GraceOver, Exit, vars
    <2> QED BY <2>1, Untouched DEF AllAudited
  <1> QED BY <1>1, <1>2 DEF Next

(* A call that comes to its end leaves one audit record, whichever way it  *)
(* ends, and none before; the record tells a success and a cutoff as they  *)
(* were; and no call spends more than its budget, also where others share  *)
(* what it pays for (invoke, chargeRequest).                               *)
THEOREM EveryCallIsAudited ==
    Spec => [](AuditedOnce /\ RecordTells /\ \A r \in Request : Within(req[r].used, Limits))
  <1>1. AllAudited => AuditedOnce /\ RecordTells /\ \A r \in Request : Within(req[r].used, Limits)
    BY DEF AllAudited, Audited, Told, AuditedOnce, RecordTells
  <1>2. Init => Held /\ AllAudited
    BY InitHeld, InitAudited
  <1>3. (Held /\ AllAudited) /\ [Next]_vars => (Held /\ AllAudited)'
    BY NextHeld, NextAudited
  <1> QED BY <1>1, <1>2, <1>3, PTL DEF Spec

-----------------------------------------------------------------------------
(* Warnings.                                                               *)

(* The counter remembers its last warning, and nothing is warned of again  *)
(* before WarnEvery is over.                                               *)
Spaced ==
    /\ WarningsSpaced
    /\ warned # <<>> => warned[Len(warned)].at = rej.lastWarn

LEMMA NextSpaced == Held /\ Spaced /\ [Next]_vars => Spaced'
  <1> SUFFICES ASSUME Held, Spaced, [Next]_vars PROVE Spaced'
    OBVIOUS
  <1> USE DEF Held, TypeOK, Spaced, WarningsSpaced
  <1>1. CASE UNCHANGED <<rej, warned>> \/ (warned' = warned /\ rej'.lastWarn = rej.lastWarn)
    BY <1>1
  <1>2. ASSUME NEW n \in Nat, warned' = Append(warned, [at |-> now, count |-> n]), WarnDue, rej'.lastWarn = now
        PROVE  Spaced'
    <2>1. /\ Len(warned') = Len(warned) + 1 /\ DOMAIN warned' = 1 .. Len(warned) + 1
          /\ warned'[Len(warned) + 1].at = now
          /\ \A i \in DOMAIN warned : warned'[i] = warned[i]
      <3> DEFINE w == [at |-> now, count |-> n]
      <3>1. w.at = now /\ w \in [at : Nat, count : Nat] /\ warned \in Seq([at : Nat, count : Nat])
        BY ClockAssumption
      <3>2. warned' = Append(warned, w)
        BY <1>2
      <3> HIDE DEF w
      <3>3. Len(warned') = Len(warned) + 1 /\ DOMAIN warned' = 1 .. Len(warned) + 1
        BY <3>1, <3>2
      <3>4. warned'[Len(warned) + 1] = w
        BY <3>1, <3>2
      <3>5. \A i \in DOMAIN warned : warned'[i] = warned[i]
        BY ONLY <3>1, <3>2
      <3> QED BY <3>1, <3>3, <3>4, <3>5
    <2>2. ASSUME NEW i \in DOMAIN warned' \ {1}
          PROVE  warned'[i].at - warned'[i - 1].at >= WarnEvery
      <3>1. CASE i = Len(warned) + 1
        <4>1. warned # <<>> /\ Len(warned) \in DOMAIN warned /\ i - 1 = Len(warned)
          BY <2>1, <2>2, <3>1
        <4>2. warned'[i].at = now /\ warned'[i - 1].at = rej.lastWarn
          BY <2>1, <3>1, <4>1
        <4> QED BY <1>2, <4>2 DEF WarnDue
      <3>2. CASE i # Len(warned) + 1
        <4>1. i \in DOMAIN warned \ {1} /\ i - 1 \in DOMAIN warned
          <5>1. DOMAIN warned = 1 .. Len(warned) /\ Len(warned) \in Nat
            OBVIOUS
          <5>2. i \in 1 .. Len(warned) + 1 /\ i # 1
            BY <2>1, <2>2
          <5> QED BY ONLY <3>2, <5>1, <5>2
        <4> QED BY <2>1, <4>1
      <3> QED BY <3>1, <3>2
    <2> QED BY <1>2, <2>1, <2>2
  <1>3. ASSUME NEW r \in Request, NEW a, Note(r, a) PROVE Spaced'
    <2>1. CASE WarnDue
      BY <1>2, <1>3, <2>1 DEF Note, LastWarn
    <2>2. CASE ~WarnDue
      BY <1>1, <1>3, <2>2 DEF Note
    <2> QED BY <2>1, <2>2
  <1>4. CASE \E r \in Request : Gate(r)
    <2>1. PICK r \in Request : Gate(r)
      BY <1>4
    <2>2. (\E a : Note(r, a)) \/ UNCHANGED <<rej, warned>>
      BY <2>1 DEF Gate, NotFound, TakeSlot, gateVars
    <2> QED BY <1>1, <1>3, <2>2
  <1>5. CASE ~\E r \in Request : Gate(r)
    <2>1. UNCHANGED <<rej, warned>>
      BY <1>5 DEF Next, vars, gateVars, Handle, Receive, Warn, PassThrough, Deny, Dispatch, FetchRegistry,
            FetchPanics, GiveUp, Finish, Conclude, Release, Spend, ReadRegistry, Retry, Tick, StopSignal, ServeEnds,
            Shutdown, Drained, GraceOver, Exit
    <2> QED BY <1>1, <2>1
  <1> QED BY <1>4, <1>5

(* Two warnings of rejected requests are at least WarnEvery apart, however *)
(* many requests are rejected at once (rejections.note).                   *)
THEOREM WarningsAreSpaced == Spec => []WarningsSpaced
  <1>1. Init => Held /\ Spaced
    BY InitHeld DEF Init, Spaced, WarningsSpaced
  <1>2. (Held /\ Spaced) /\ [Next]_vars => (Held /\ Spaced)'
    BY NextHeld, NextSpaced
  <1>3. Spaced => WarningsSpaced
    BY DEF Spaced
  <1> QED BY <1>1, <1>2, <1>3, PTL DEF Spec
-----------------------------------------------------------------------------
(* The requests on the wire, and who pays for them.                        *)

PaidBy == [r \in Request |-> Paid(r)]

(* A request that has not reached its handler has spent nothing: what the  *)
(* record of a denied call says, and what a retry forgets, is nothing.     *)
NotYetSpent ==
    \A r \in Request :
        req[r].pc \in {"new", "admitted"} \/ req[r].answer \in {"forbidden", "unauthorized"}
            => req[r].used["ha_requests"] = 0

Balanced == NotYetSpent /\ issued = SumFunction(PaidBy)

PaidTyped == PaidBy \in [Request -> Nat] /\ \A r \in Request : Paid(r) \in Nat

LEMMA PaidType == TypeOK => PaidTyped
  <1> SUFFICES ASSUME TypeOK, NEW r \in Request PROVE Paid(r) \in Nat
    BY DEF PaidBy, PaidTyped
  <1>1. req[r].used["ha_requests"] \in Nat
    BY DEF TypeOK, RequestType, Dimensions
  <1>2. Len(audit[r]) = 1 => audit[r][1].ha_requests \in Nat
    <2>1. audit[r] \in Seq(Record)
      BY DEF TypeOK
    <2>2. Len(audit[r]) = 1 => audit[r][1] \in Record
      BY <2>1
    <2> QED BY <2>2 DEF Record
  <1> QED BY <1>1, <1>2 DEF Paid

LEMMA PaidTypeNext == TypeOK' => PaidTyped'
  BY PaidType, PTL

(* What one request pays more is what more is on the wire.                 *)
LEMMA OnePays ==
    ASSUME TypeOK, TypeOK', issued = SumFunction(PaidBy), NEW r \in Request,
           \A s \in Request : s # r => Paid(s)' = Paid(s),
           issued' = issued + Paid(r)' - Paid(r)
    PROVE  issued' = SumFunction(PaidBy)'
  <1>1. PaidBy \in [Request -> Nat] /\ PaidBy' \in [Request -> Nat]
    BY PaidType, PaidTypeNext DEF PaidTyped
  <1>2. \A s \in Request : PaidBy[s] = Paid(s) /\ PaidBy'[s] = Paid(s)'
    BY DEF PaidBy
  <1>3. SumFunctionOnSet(PaidBy', Request) = SumFunctionOnSet(PaidBy, Request) + PaidBy'[r] - PaidBy[r]
    BY <1>1, <1>2, RequestAssumption, SumChanges
  <1>4. SumFunction(PaidBy) = SumFunctionOnSet(PaidBy, Request) /\ SumFunction(PaidBy)' = SumFunctionOnSet(PaidBy', Request)
    BY <1>1 DEF SumFunction
  <1> QED BY <1>2, <1>3, <1>4

(* The ways a step leaves the balance: a request spends and is charged,    *)
(* writes down what it has spent, or spends nothing.                       *)
LEMMA SpentAsBefore ==
    ASSUME NEW s, req'[s].used["ha_requests"] = req[s].used["ha_requests"], audit'[s] = audit[s]
    PROVE  Paid(s)' = Paid(s)
  BY DEF Paid

LEMMA SpentAndCharged ==
    ASSUME NEW s, req'[s].used["ha_requests"] = req[s].used["ha_requests"] + 1,
           audit'[s] = audit[s], Len(audit[s]) = 0
    PROVE  Paid(s)' = Paid(s) + 1
  BY DEF Paid

LEMMA WrittenDown ==
    ASSUME Held, NEW r \in Request, NEW st \in Status, Len(audit[r]) = 0,
           Emit(r, st, req[r].used["ha_requests"])
    PROVE  Paid(r)' = Paid(r)
  <1>1. req[r].used["ha_requests"] \in Nat /\ audit[r] \in Seq(Record)
    BY DEF Held, TypeOK, RequestType, Dimensions
  <1>2. audit'[r] = Append(audit[r], [status |-> st, ha_requests |-> req[r].used["ha_requests"]])
    BY <1>1, EmitType
  <1>3. Len(audit'[r]) = 1 /\ audit'[r][1].ha_requests = req[r].used["ha_requests"]
    BY <1>1, <1>2
  <1> QED BY <1>3 DEF Paid

LEMMA InitBalanced == Init => Balanced
  <1> SUFFICES ASSUME Init PROVE Balanced
    OBVIOUS
  <1>1. \A r \in Request : req[r].used["ha_requests"] = 0 /\ Paid(r) = 0
    BY UnspentType DEF Init, NewRequest, Paid, Dimensions
  <1>2. PaidBy \in [Request -> Nat] /\ \A r \in Request : PaidBy[r] = 0
    BY <1>1 DEF PaidBy
  <1>3. SumFunction(PaidBy) = 0
    BY <1>2, RequestAssumption, SumOfNothing DEF SumFunction
  <1> QED BY <1>1, <1>3 DEF Init, Balanced, NotYetSpent

(* The steps of one request that put nothing on the wire.                  *)
LEMMA NothingIssued ==
    ASSUME Held, Held', Balanced, NEW r \in Request, issued' = issued,
           \A s \in Request : s # r => req'[s] = req[s] /\ audit'[s] = audit[s],
           Paid(r)' = Paid(r),
           req'[r].pc \in {"new", "admitted"} \/ req'[r].answer \in {"forbidden", "unauthorized"}
               => req'[r].used["ha_requests"] = 0
    PROVE  Balanced'
  <1>1. \A s \in Request : s # r => Paid(s)' = Paid(s)
    BY DEF Paid
  <1>2. Paid(r) \in Nat /\ issued \in Nat
    BY PaidType DEF Held, TypeOK, PaidTyped
  <1>3. issued' = SumFunction(PaidBy)'
    BY <1>1, <1>2, OnePays DEF Held, Balanced
  <1> QED BY <1>3 DEF Balanced, NotYetSpent

LEMMA Before ==
    ASSUME Held, AllAudited, Balanced, NEW r \in Request,
           req[r].pc \in {"new", "admitted", "running", "fetch", "wait", "ended"}
    PROVE  /\ req[r] \in RequestType /\ Len(audit[r]) = 0 /\ req[r].answer = "none"
           /\ req[r].pc \in {"new", "admitted"} => req[r].used["ha_requests"] = 0
  BY DEF Held, TypeOK, AllAudited, Audited, Early, Concluded, Balanced, NotYetSpent

(* The steps that neither spend nor write a record.                        *)
LEMMA IdleSteps ==
    ASSUME Held, Held', AllAudited, Balanced, NEW r \in Request,
           Gate(r) \/ Receive(r) \/ PassThrough(r) \/ Dispatch(r) \/ ReadRegistry(r) \/ GiveUp(r)
             \/ Finish(r) \/ Warn(r) \/ Release(r)
    PROVE  Balanced'
  <1>0. req[r] \in RequestType /\ req \in [Request -> RequestType]
    BY DEF Held, TypeOK
  <1>1. /\ audit' = audit /\ issued' = issued
        /\ \E q : req' = [req EXCEPT ![r] = q]
    <2>1. CASE Gate(r)
      BY <2>1 DEF Gate, NotFound, Note, TakeSlot, Answers
    <2>2. CASE Receive(r) \/ PassThrough(r) \/ Dispatch(r) \/ ReadRegistry(r)
      BY <2>2 DEF Receive, PassThrough, Leave, Dispatch, ReadRegistry
    <2>3. CASE GiveUp(r) \/ Finish(r) \/ Warn(r) \/ Release(r)
      BY <2>3 DEF GiveUp, Finish, Warn, Release
    <2> QED BY <2>1, <2>2, <2>3
  <1>2. \A s \in Request : s # r => req'[s] = req[s] /\ audit'[s] = audit[s]
    BY <1>1
  <1>3. /\ req'[r].used = req[r].used
        /\ \/ req[r].used["ha_requests"] = 0
           \/ /\ req'[r].pc \notin {"new", "admitted"}
              /\ req'[r].answer = req[r].answer
    <2>1. CASE Gate(r) \/ Receive(r) \/ PassThrough(r) \/ Dispatch(r)
      <3>1. req[r].used["ha_requests"] = 0
        BY <2>1, Before DEF Gate, Receive, PassThrough, Dispatch
      <3>2. req'[r].used = req[r].used
        <4>1. CASE Gate(r)
          <5>1. \/ \E a, c : req' = [req EXCEPT ![r].pc = c, ![r].answer = a]
                \/ req' = [req EXCEPT ![r].pc = "admitted"]
            BY <4>1 DEF Gate, NotFound, Note, TakeSlot, Answers
          <5>2. CASE \E a, c : req' = [req EXCEPT ![r].pc = c, ![r].answer = a]
            BY <1>0, <5>2 DEF RequestType
          <5>3. CASE req' = [req EXCEPT ![r].pc = "admitted"]
            BY <1>0, <5>3 DEF RequestType
          <5> QED BY <5>1, <5>2, <5>3
        <4>2. CASE Receive(r) \/ PassThrough(r) \/ Dispatch(r)
          BY <1>0, <4>2 DEF Receive, PassThrough, Leave, Dispatch, RequestType
        <4> QED BY <2>1, <4>1, <4>2
      <3> QED BY <3>1, <3>2
    <2>2. CASE ReadRegistry(r)
      <3>1. PICK q \in {[req[r] EXCEPT !.shared = "ok"], [req[r] EXCEPT !.pc = "wait"], [req[r] EXCEPT !.pc = "fetch"]} :
                req' = [req EXCEPT ![r] = q]
        BY <1>0, <2>2 DEF ReadRegistry
      <3>2. req[r].pc = "running" /\ req'[r] = q
        BY <1>0, <2>2, <3>1 DEF ReadRegistry, Running
      <3> QED BY <1>0, <3>1, <3>2 DEF RequestType
    <2>3. CASE GiveUp(r)
      <3>1. req'[r] = Resumed(req[r], "other")
        BY <1>0, <2>3 DEF GiveUp
      <3> QED BY <1>0, <3>1 DEF Resumed, RequestType
    <2>4. CASE Finish(r)
      <3>1. PICK e \in Endings : req' = [req EXCEPT ![r].pc = "ended", ![r].ending = e]
        BY <2>4 DEF Finish
      <3>2. req'[r].used = req[r].used /\ req'[r].pc = "ended" /\ req'[r].answer = req[r].answer
        BY <1>0, <3>1 DEF RequestType
      <3> QED BY <3>2
    <2>5. CASE Warn(r) \/ Release(r)
      BY <1>0, <2>5 DEF Warn, Release, RequestType
    <2> QED BY <2>1, <2>2, <2>3, <2>4, <2>5
  <1>4. Paid(r)' = Paid(r)
    BY <1>1, <1>3, SpentAsBefore
  <1>5. req'[r].pc \in {"new", "admitted"} \/ req'[r].answer \in {"forbidden", "unauthorized"}
            => req'[r].used["ha_requests"] = 0
    BY <1>3 DEF Balanced, NotYetSpent
  <1> QED BY <1>1, <1>2, <1>4, <1>5, NothingIssued

(* A request tries again: it had spent nothing.                            *)
LEMMA RetryBalanced ==
    ASSUME Held, Held', AllAudited, Balanced, NEW r \in Request, Retry(r) PROVE Balanced'
  <1>1. /\ req' = [req EXCEPT ![r] = NewRequest] /\ audit' = audit /\ issued' = issued
        /\ req[r].answer \in {"forbidden", "unauthorized"}
    BY DEF Retry
  <1>2. req \in [Request -> RequestType]
    BY DEF Held, TypeOK
  <1>3. req'[r] = NewRequest /\ \A s \in Request : s # r => req'[s] = req[s] /\ audit'[s] = audit[s]
    BY <1>1, <1>2
  <1>4. req[r].used["ha_requests"] = 0
    BY <1>1 DEF Balanced, NotYetSpent
  <1>5. req'[r].used["ha_requests"] = 0
    BY <1>3, UnspentType DEF NewRequest, Dimensions
  <1>6. Paid(r)' = Paid(r)
    BY <1>1, <1>4, <1>5, SpentAsBefore
  <1> QED BY <1>1, <1>3, <1>5, <1>6, NothingIssued

(* What is written down is what was spent: nothing by a call that was      *)
(* denied, and by any other what its budget was charged.                   *)
LEMMA RecordBalanced ==
    ASSUME Held, Held', AllAudited, Balanced, NEW r \in Request, Deny(r) \/ Conclude(r)
    PROVE  Balanced'
  <1>0. req[r].pc \in {"admitted", "ended"} /\ issued' = issued
    BY DEF Deny, Conclude
  <1>1. /\ req[r] \in RequestType /\ req \in [Request -> RequestType] /\ Len(audit[r]) = 0
        /\ req[r].pc = "admitted" => req[r].used["ha_requests"] = 0
    BY <1>0, Before DEF Held, TypeOK
  <1>2. PICK a \in {"result", "tool_error", "protocol_error"} : Leave(r, a)
    <2>1. CASE Deny(r)
      BY <2>1 DEF Deny
    <2>2. CASE Conclude(r)
      <3> DEFINE e == req[r].ending
                 a == CASE e.how = "ok"       -> "result"
                        [] e.how = "is_error" -> "tool_error"
                        [] e.how \in {"error", "panic"} -> "protocol_error"
      <3>1. e \in Endings /\ Leave(r, a)
        BY <2>2 DEF Conclude, Held, EndsKnown
      <3>2. e.how \in {"ok", "is_error", "error", "panic"}
        BY <3>1 DEF Endings, Ended
      <3>3. a \in {"result", "tool_error", "protocol_error"}
        BY <3>2
      <3> HIDE DEF a
      <3> QED BY <3>1, <3>3
    <2> QED BY <2>1, <2>2
  <1>3. PICK st \in Status : Emit(r, st, req[r].used["ha_requests"])
    <2>1. CASE Deny(r)
      <3>1. req[r].pc = "admitted" /\ Emit(r, "denied", 0)
        BY <2>1 DEF Deny
      <3> QED BY <1>1, <3>1, AnswerKinds
    <2>2. CASE Conclude(r)
      <3> DEFINE e == req[r].ending
                 st == IF Failed(e) THEN Classify(e) ELSE "success"
      <3>1. e \in Endings /\ Emit(r, st, Spent(r))
        BY <2>2 DEF Conclude, Held, EndsKnown
      <3>2. st \in Status
        BY <3>1 DEF Failed, Classify, Endings, Ended, Failure, Status
      <3> HIDE DEF st
      <3> QED BY <3>1, <3>2 DEF Spent
    <2> QED BY <2>1, <2>2
  <1>4. PICK q \in RequestType : req' = [req EXCEPT ![r] = q] /\ q.pc = "leaving" /\ q.answer = a
    BY <1>2, LeaveMoves, AnswerKinds
  <1>5. /\ req'[r].pc = "leaving" /\ req'[r].answer \notin {"forbidden", "unauthorized"}
        /\ \A s \in Request : s # r => req'[s] = req[s]
    BY <1>1, <1>2, <1>4
  <1>6. Paid(r)' = Paid(r)
    BY <1>1, <1>3, WrittenDown
  <1>7. \A s \in Request : s # r => audit'[s] = audit[s]
    <2>1. req[r].used["ha_requests"] \in Nat
      BY <1>1 DEF RequestType, Dimensions
    <2> QED BY <1>3, <2>1, EmitType
  <1> QED BY <1>0, <1>5, <1>6, <1>7, NothingIssued

(* A request of a handler's own.                                           *)
LEMMA SpendBalanced ==
    ASSUME Held, Held', AllAudited, Balanced, NEW r \in Request, Spend(r) PROVE Balanced'
  <1>0. /\ req[r] \in RequestType /\ req \in [Request -> RequestType] /\ Len(audit[r]) = 0
        /\ req[r].answer = "none" /\ req[r].pc = "running" /\ audit' = audit
    BY Before DEF Held, TypeOK, Spend, Running
  <1>1. CASE Fits(req[r].used, Limits, "ha_requests", 1)
    <2>1. req' = [req EXCEPT ![r].used = Charged(@, "ha_requests", 1)] /\ issued' = issued + 1
      BY <1>1 DEF Spend
    <2>2. /\ req'[r].used = Charged(req[r].used, "ha_requests", 1)
          /\ req'[r].pc = "running" /\ req'[r].answer = "none"
          /\ \A s \in Request : s # r => req'[s] = req[s]
      BY <1>0, <2>1 DEF RequestType
    <2>3. req'[r].used["ha_requests"] = req[r].used["ha_requests"] + 1
      BY <1>0, <2>2, ChargedType DEF RequestType, Dimensions
    <2>4. Paid(r)' = Paid(r) + 1
      BY <1>0, <2>3, SpentAndCharged
    <2>5. \A s \in Request : s # r => Paid(s)' = Paid(s)
      BY <1>0, <2>2 DEF Paid
    <2>6. Paid(r) \in Nat /\ issued \in Nat
      BY PaidType DEF Held, TypeOK, PaidTyped
    <2>7. issued' = SumFunction(PaidBy)'
      BY <2>1, <2>4, <2>5, <2>6, OnePays DEF Held, Balanced
    <2> QED BY <2>2, <2>7 DEF Balanced, NotYetSpent
  <1>2. CASE ~Fits(req[r].used, Limits, "ha_requests", 1)
    <2>1. req' = [req EXCEPT ![r].refused = TRUE] /\ issued' = issued
      BY <1>2 DEF Spend
    <2>2. /\ req'[r].used = req[r].used /\ req'[r].pc = "running" /\ req'[r].answer = "none"
          /\ \A s \in Request : s # r => req'[s] = req[s] /\ audit'[s] = audit[s]
      BY <1>0, <2>1 DEF RequestType
    <2>3. Paid(r)' = Paid(r)
      BY <1>0, <2>2, SpentAsBefore
    <2> QED BY <2>1, <2>2, <2>3, NothingIssued
  <1> QED BY <1>1, <1>2

(* A fetch that panics was sent, and paid for by its leader.               *)
LEMMA PanicBalanced ==
    ASSUME Held, Held', AllAudited, Balanced, NEW r \in Request, FetchPanics(r) PROVE Balanced'
  <1>0. /\ req[r] \in RequestType /\ req \in [Request -> RequestType] /\ Len(audit[r]) = 0
        /\ req[r].answer = "none" /\ req[r].pc = "fetch" /\ audit' = audit /\ issued' = issued + 1
    BY Before DEF Held, TypeOK, FetchPanics
  <1>1. /\ req'[r].used = Charged(req[r].used, "ha_requests", 1)
        /\ req'[r].pc = "ended" /\ req'[r].answer = "none"
        /\ \A s \in Request : s # r => req'[s] = req[s]
    BY <1>0 DEF FetchPanics, RequestType
  <1>2. req'[r].used["ha_requests"] = req[r].used["ha_requests"] + 1
    BY <1>0, <1>1, ChargedType DEF RequestType, Dimensions
  <1>3. Paid(r)' = Paid(r) + 1
    BY <1>0, <1>2, SpentAndCharged
  <1>4. \A s \in Request : s # r => Paid(s)' = Paid(s)
    BY <1>0, <1>1 DEF Paid
  <1>5. Paid(r) \in Nat /\ issued \in Nat
    BY PaidType DEF Held, TypeOK, PaidTyped
  <1>6. issued' = SumFunction(PaidBy)'
    BY <1>0, <1>3, <1>4, <1>5, OnePays DEF Held, Balanced
  <1> QED BY <1>1, <1>6 DEF Balanced, NotYetSpent

(* A fetch of the registry: it is its leader's, however many wait for it.  *)
LEMMA FetchBalanced ==
    ASSUME Held, Held', AllAudited, Balanced, NEW r \in Request, FetchRegistry(r) PROVE Balanced'
  <1>0. /\ req[r] \in RequestType /\ req \in [Request -> RequestType] /\ Len(audit[r]) = 0
        /\ audit' = audit /\ req[r].pc = "fetch"
    BY Before DEF Held, TypeOK, FetchRegistry
  <1>1. PICK f \in {"ok"} \cup Failure :
            Hears(r, f) /\ issued' = IF f # "budget" THEN issued + 1 ELSE issued
    BY DEF FetchRegistry, Failure
  <1>2. \A s \in Request :
            /\ req'[s].used = IF f # "budget" /\ s = r THEN Charged(req[s].used, "ha_requests", 1)
                              ELSE req[s].used
            /\ \/ req'[s] = req[s]
               \/ req'[s].pc = "running" /\ req'[s].answer = req[s].answer
    <2> SUFFICES ASSUME NEW s \in Request
                 PROVE  /\ req'[s].used = IF f # "budget" /\ s = r THEN Charged(req[s].used, "ha_requests", 1)
                                          ELSE req[s].used
                        /\ \/ req'[s] = req[s]
                           \/ req'[s].pc = "running" /\ req'[s].answer = req[s].answer
      OBVIOUS
    <2>1. CASE s # r /\ req[s].pc # "wait" /\ req'[s] = req[s]
      BY <2>1
    <2>2. CASE /\ req'[s].pc = "running" /\ req'[s].answer = req[s].answer
               /\ req'[s].used = IF Pays(s, r, f) THEN Charged(req[s].used, "ha_requests", 1)
                                 ELSE req[s].used
      BY <2>2 DEF Pays
    <2>3. \/ s # r /\ req[s].pc # "wait" /\ req'[s] = req[s]
          \/ /\ req'[s].pc = "running" /\ req'[s].answer = req[s].answer
             /\ req'[s].used = IF Pays(s, r, f) THEN Charged(req[s].used, "ha_requests", 1)
                               ELSE req[s].used
      <3>1. req \in [Request -> RequestType]
        BY <1>0
      <3> QED BY <1>1, <3>1, HearsType
    <2> QED BY <2>1, <2>2, <2>3
  <1>3. \A s \in Request : s # r => Paid(s)' = Paid(s)
    BY <1>0, <1>2 DEF Paid
  <1>4. Paid(r) \in Nat /\ issued \in Nat
    BY PaidType DEF Held, TypeOK, PaidTyped
  <1>5. issued' = issued + Paid(r)' - Paid(r)
    <2>1. CASE f # "budget"
      <3>0. req[r].used \in [Dimensions -> Nat] /\ "ha_requests" \in Dimensions
        BY <1>0 DEF RequestType, Dimensions
      <3>1. req'[r].used["ha_requests"] = req[r].used["ha_requests"] + 1
        BY <1>2, <2>1, <3>0, ChargedType
      <3>2. Paid(r)' = Paid(r) + 1
        BY <1>0, <3>1, SpentAndCharged
      <3> QED BY <1>1, <1>4, <2>1, <3>2
    <2>2. CASE f = "budget"
      <3>1. Paid(r)' = Paid(r)
        BY <1>0, <1>2, <2>2, SpentAsBefore
      <3> QED BY <1>1, <1>4, <2>2, <3>1
    <2> QED BY <2>1, <2>2
  <1>6. issued' = SumFunction(PaidBy)'
    BY <1>3, <1>5, OnePays DEF Held, Balanced
  <1>7. NotYetSpent'
    <2> SUFFICES ASSUME NEW s \in Request,
                        req'[s].pc \in {"new", "admitted"} \/ req'[s].answer \in {"forbidden", "unauthorized"}
                 PROVE  req'[s].used["ha_requests"] = 0
      BY DEF NotYetSpent
    <2>1. s # r
      <3>1. req[r].answer = "none"
        BY <1>0, Before
      <3> QED BY <1>0, <1>2, <3>1
    <2>2. req'[s].used = req[s].used
      BY <1>2, <2>1
    <2>3. req[s].pc \in {"new", "admitted"} \/ req[s].answer \in {"forbidden", "unauthorized"}
      BY <1>2
    <2> QED BY <2>2, <2>3 DEF Balanced, NotYetSpent
  <1> QED BY <1>6, <1>7 DEF Balanced

LEMMA NextBalanced == Held /\ AllAudited /\ Balanced /\ [Next]_vars => Balanced'
  <1> SUFFICES ASSUME Held, AllAudited, Balanced, [Next]_vars PROVE Balanced'
    OBVIOUS
  <1>0. Held'
    BY NextHeld
  <1>1. ASSUME NEW r \in Request, Gate(r) \/ Receive(r) \/ Handle(r) \/ Spend(r) \/ ReadRegistry(r) \/ Retry(r)
        PROVE  Balanced'
    BY <1>0, <1>1, IdleSteps, RetryBalanced, RecordBalanced, SpendBalanced, PanicBalanced,
       FetchBalanced DEF Handle
  <1>2. CASE Tick \/ StopSignal \/ ServeEnds \/ Shutdown \/ UNCHANGED vars
    <2>1. req' = req /\ audit' = audit /\ issued' = issued
      BY <1>2 DEF Tick, StopSignal, ServeEnds, Shutdown, Drained, GraceOver, Exit, vars
    <2>2. PaidBy' = PaidBy /\ NotYetSpent'
      BY <2>1 DEF PaidBy, Paid, Balanced, NotYetSpent
    <2> QED BY <2>1, <2>2 DEF Balanced, SumFunction
  <1> QED BY <1>1, <1>2 DEF Next

(* Every call that comes to its end leaves one audit record that tells how *)
(* it ended and what it spent, and one call pays for every request on Home *)
(* Assistant's wire, a fetch that many wait for included: for any number   *)
(* of requests and any budget (invoke, chargeRequest).                     *)
THEOREM CallsLeaveRecords == Spec => []CallsAreAudited
  <1>1. AllAudited /\ Balanced => CallsAreAudited
    BY DEF AllAudited, Audited, Told, AuditedOnce, RecordTells, CallsAreAudited, EveryRequestPaid,
           Balanced, PaidBy
  <1>2. Init => Held /\ AllAudited /\ Balanced
    BY InitHeld, InitAudited, InitBalanced
  <1>3. (Held /\ AllAudited /\ Balanced) /\ [Next]_vars => (Held /\ AllAudited /\ Balanced)'
    BY NextHeld, NextAudited, NextBalanced
  <1> QED BY <1>1, <1>2, <1>3, PTL DEF Spec

-----------------------------------------------------------------------------
(* The rejections that are told of.                                        *)

CountsOf == [i \in DOMAIN warned |-> warned[i].count]

LEMMA WarningTyped ==
    ASSUME warned \in Seq([at : Nat, count : Nat]), NEW i \in 1 .. Len(warned)
    PROVE  warned[i].count \in Nat
  <1> DEFINE W == [at : Nat, count : Nat]
  <1>1. \A w \in W : w.count \in Nat
    OBVIOUS
  <1>2. warned \in Seq(W)
    OBVIOUS
  <1> HIDE DEF W
  <1>3. warned[i] \in W
    BY <1>2
  <1> QED BY <1>1, <1>3

LEMMA CountsTyped ==
    ASSUME Held PROVE /\ CountsOf \in [1 .. Len(warned) -> Nat] /\ DOMAIN warned = 1 .. Len(warned)
                      /\ Len(warned) \in Nat /\ IsFiniteSet(1 .. Len(warned))
  <1>1. warned \in Seq([at : Nat, count : Nat])
    BY DEF Held, TypeOK
  <1>2. DOMAIN warned = 1 .. Len(warned) /\ Len(warned) \in Nat
    BY <1>1
  <1>3. \A i \in 1 .. Len(warned) : warned[i].count \in Nat
    BY <1>1, WarningTyped
  <1>4. CountsOf \in [1 .. Len(warned) -> Nat]
    BY <1>2, <1>3 DEF CountsOf
  <1> QED BY <1>2, <1>4, FS_Interval

(* What a warning adds to the count.                                       *)
LEMMA WarnedMore ==
    ASSUME Held, Held', NEW n \in Nat, NEW t \in Nat, warned' = Append(warned, [at |-> t, count |-> n])
    PROVE  SumFunction(CountsOf) \in Nat /\ SumFunction(CountsOf)' = SumFunction(CountsOf) + n
  <1> DEFINE w == [at |-> t, count |-> n]
  <1>1. w \in [at : Nat, count : Nat] /\ w.count = n /\ warned \in Seq([at : Nat, count : Nat])
    BY DEF Held, TypeOK
  <1> HIDE DEF w
  <1>2. warned' = Append(warned, w)
    BY DEF w
  <1>3. /\ Len(warned') = Len(warned) + 1 /\ DOMAIN warned' = 1 .. Len(warned) + 1
        /\ warned'[Len(warned) + 1] = w /\ \A i \in 1 .. Len(warned) : warned'[i] = warned[i]
    BY <1>1, <1>2
  <1>4. CountsOf \in [1 .. Len(warned) -> Nat] /\ IsFiniteSet(1 .. Len(warned)) /\ DOMAIN warned = 1 .. Len(warned)
    BY CountsTyped
  <1>5. \A i \in 1 .. Len(warned) : warned[i].count \in Nat
    BY <1>1, WarningTyped
  <1>6. /\ CountsOf' \in [1 .. Len(warned) + 1 -> Nat]
        /\ CountsOf'[Len(warned) + 1] = n
        /\ \A i \in 1 .. Len(warned) : CountsOf'[i] = CountsOf[i]
    BY <1>1, <1>3, <1>4, <1>5 DEF CountsOf
  <1>7. Len(warned) \in Nat /\ CountsOf' \in [1 .. Len(warned) + 1 -> Nat]
    BY <1>1, <1>3, <1>6
  <1> QED BY <1>4, <1>6, <1>7, SumOfOneMore

LEMMA NextCounted == Held /\ RejectionsCounted /\ [Next]_vars => RejectionsCounted'
  <1> SUFFICES ASSUME Held, RejectionsCounted, [Next]_vars PROVE RejectionsCounted'
    OBVIOUS
  <1>0. Held' /\ rej.total = rej.sinceWarn + SumFunction(CountsOf)
    BY NextHeld DEF RejectionsCounted, CountsOf
  <1>1. rej \in [total : Nat, sinceWarn : Nat, lastWarn : Int] /\ now \in Nat
    BY ClockAssumption DEF Held, TypeOK
  <1>2. ASSUME NEW r \in Request, NEW a, Note(r, a) PROVE RejectionsCounted'
    <2>1. CASE WarnDue
      <3>1. /\ rej'.total = rej.total + 1 /\ rej'.sinceWarn = 0
            /\ warned' = Append(warned, [at |-> now, count |-> rej.sinceWarn + 1])
        BY <1>2, <2>1 DEF Note, Reset
      <3>2. rej.sinceWarn + 1 \in Nat
        BY <1>1
      <3>3. SumFunction(CountsOf) \in Nat /\ SumFunction(CountsOf)' = SumFunction(CountsOf) + (rej.sinceWarn + 1)
        BY <1>0, <1>1, <3>1, <3>2, WarnedMore
      <3>4. rej'.total = rej'.sinceWarn + SumFunction(CountsOf)'
        BY <1>0, <1>1, <3>1, <3>3
      <3> QED BY <3>4 DEF RejectionsCounted, CountsOf
    <2>2. CASE ~WarnDue
      <3>1. rej' = [rej EXCEPT !.total = @ + 1, !.sinceWarn = @ + 1] /\ warned' = warned
        BY <1>2, <2>2 DEF Note
      <3>2. rej'.total = rej.total + 1 /\ rej'.sinceWarn = rej.sinceWarn + 1
        BY <1>1, <3>1
      <3>3. SumFunction(CountsOf)' = SumFunction(CountsOf)
        BY <3>1 DEF CountsOf, SumFunction
      <3>4. SumFunction(CountsOf) \in Nat
        BY CountsTyped, SumType DEF SumFunction
      <3> QED BY <1>0, <1>1, <3>2, <3>3, <3>4 DEF RejectionsCounted, CountsOf
    <2> QED BY <2>1, <2>2
  <1>3. CASE UNCHANGED <<rej, warned>>
    BY <1>3 DEF RejectionsCounted, SumFunction
  <1>4. CASE \E r \in Request : Gate(r)
    <2>1. PICK r \in Request : Gate(r)
      BY <1>4
    <2>2. (\E a : Note(r, a)) \/ UNCHANGED <<rej, warned>>
      BY <2>1 DEF Gate, NotFound, TakeSlot, gateVars
    <2> QED BY <1>2, <1>3, <2>2
  <1>5. CASE ~\E r \in Request : Gate(r)
    <2>1. UNCHANGED <<rej, warned>>
      BY <1>5 DEF Next, vars, gateVars, Handle, Receive, Warn, PassThrough, Deny, Dispatch, FetchRegistry,
            FetchPanics, GiveUp, Finish, Conclude, Release, Spend, ReadRegistry, Retry, Tick, StopSignal, ServeEnds,
            Shutdown, Drained, GraceOver, Exit
    <2> QED BY <1>3, <2>1
  <1> QED BY <1>4, <1>5

(* Rejections are counted once, however many are rejected at once and      *)
(* however the clock runs: what was warned of and what is to be warned of  *)
(* next are all of them, and warnings are WarnEvery apart                  *)
(* (rejections.note).                                                      *)
THEOREM RejectionsAreTold == Spec => []RejectionsTold
  <1>1. Init => Held /\ Spaced /\ RejectionsCounted
    <2> SUFFICES ASSUME Init PROVE Held /\ Spaced /\ RejectionsCounted
      OBVIOUS
    <2>1. Held /\ Spaced
      BY InitHeld DEF Init, Spaced, WarningsSpaced
    <2>2. /\ warned = <<>> /\ rej.total = 0 /\ rej.sinceWarn = 0
      BY DEF Init
    <2>3. CountsOf \in [{} -> Nat] /\ \A i \in {} : CountsOf[i] = 0
      BY <2>1, <2>2, CountsTyped
    <2>4. SumFunction(CountsOf) = 0
      BY <2>3, FS_EmptySet, SumOfNothing DEF SumFunction
    <2> QED BY <2>1, <2>2, <2>4 DEF RejectionsCounted, CountsOf
  <1>2. (Held /\ Spaced /\ RejectionsCounted) /\ [Next]_vars => (Held /\ Spaced /\ RejectionsCounted)'
    BY NextHeld, NextSpaced, NextCounted
  <1>3. Spaced /\ RejectionsCounted => RejectionsTold
    BY DEF Spaced, RejectionsTold
  <1> QED BY <1>1, <1>2, <1>3, PTL DEF Spec
=============================================================================
