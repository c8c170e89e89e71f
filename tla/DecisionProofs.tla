----------------------------- MODULE DecisionProofs -----------------------------
(* Proofs about the parts that decide on amounts: the rate limiter, the      *)
(* wallets' reservations, the hedge planner, the market maker and the paper  *)
(* desk, for every value of their constants.                                 *)
EXTENDS RateLimiter, WalletReservations, PaperDesk, HedgePlanning, MarketMaker,
        ResidualRescue, FiniteSetTheorems, WellFoundedInduction, TLAPS

-----------------------------------------------------------------------------
(* Arithmetic                                                                *)

LEMMA MinOfTwo ==
  ASSUME NEW a \in Int, NEW b \in Int
  PROVE  /\ Min({a, b}) \in {a, b}
         /\ Min({a, b}) <= a /\ Min({a, b}) <= b
<1>1. \E x \in {a, b} : \A y \in {a, b} : x <= y
  <2>1. CASE a <= b BY <2>1
  <2>2. CASE ~(a <= b) BY <2>2
  <2> QED BY <2>1, <2>2
<1> QED BY <1>1 DEF Min

LEMMA MaxOfTwo ==
  ASSUME NEW a \in Int, NEW b \in Int
  PROVE  /\ Max({a, b}) \in {a, b}
         /\ Max({a, b}) >= a /\ Max({a, b}) >= b
<1>1. \E x \in {a, b} : \A y \in {a, b} : x >= y
  <2>1. CASE a >= b BY <2>1
  <2>2. CASE ~(a >= b) BY <2>2
  <2> QED BY <2>1, <2>2
<1> QED BY <1>1 DEF Max

LEMMA MinOfThree ==
  ASSUME NEW a \in Int, NEW b \in Int, NEW c \in Int
  PROVE  /\ Min({a, b, c}) \in {a, b, c}
         /\ Min({a, b, c}) <= a /\ Min({a, b, c}) <= b /\ Min({a, b, c}) <= c
<1>1. \E x \in {a, b, c} : \A y \in {a, b, c} : x <= y
  <2>1. CASE a <= b /\ a <= c BY <2>1
  <2>2. CASE b <= a /\ b <= c BY <2>2
  <2>3. CASE c <= a /\ c <= b BY <2>3
  <2> QED BY <2>1, <2>2, <2>3
<1> QED BY <1>1 DEF Min

LEMMA MinOfFour ==
  ASSUME NEW a \in Int, NEW b \in Int, NEW c \in Int, NEW d \in Int
  PROVE  /\ Min({a, b, c, d}) \in {a, b, c, d}
         /\ Min({a, b, c, d}) <= a /\ Min({a, b, c, d}) <= c
<1>1. \E x \in {a, b, c, d} : \A y \in {a, b, c, d} : x <= y
  <2>1. CASE a <= b /\ a <= c /\ a <= d BY <2>1
  <2>2. CASE b <= a /\ b <= c /\ b <= d BY <2>2
  <2>3. CASE c <= a /\ c <= b /\ c <= d BY <2>3
  <2>4. CASE d <= a /\ d <= b /\ d <= c BY <2>4
  <2> QED BY <2>1, <2>2, <2>3, <2>4
<1> QED BY <1>1 DEF Min

-----------------------------------------------------------------------------
(* Sums: what a fold over a finite set adds up to, in whatever order         *)

LEMMA LeastNatural ==
  ASSUME NEW T, T \subseteq Nat, T # {}
  PROVE  Min(T) \in T /\ \A y \in T : Min(T) <= y
<1>1. \E x \in T : \A y \in T : ~(<<y, x>> \in OpToRel(<, Nat))
  BY NatLessThanWellFounded, WFMin
<1>2. \E x \in T : \A y \in T : x <= y
  <2>1. PICK x \in T : \A y \in T : ~(<<y, x>> \in OpToRel(<, Nat)) BY <1>1
  <2>2. \A y \in T : ~(y < x) BY <2>1 DEF OpToRel
  <2> QED BY <2>2
<1> QED BY <1>2 DEF Min

\* The folds of the community modules, spelled out: the element taken first, the
\* equation of the fold, and the function that solves it for the subsets of S.
One(s) == CHOOSE x \in s : TRUE

Summed(f, iter, s) == IF s = {} THEN 0 ELSE f[One(s)] + iter[s \ {One(s)}]

SumsUp(f, S, iter) == iter = [s \in SUBSET S |-> Summed(f, iter, s)]

LEMMA SumIsChosen ==
  ASSUME NEW f, NEW S
  PROVE  SumFunctionOnSet(f, S) = (CHOOSE iter : SumsUp(f, S, iter))[S]
BY DEF SumFunctionOnSet, FoldFunctionOnSet, MapThenFoldSet, SumsUp, Summed, One

\* The subsets of S with at most n elements.
Small(S, n) == {s \in SUBSET S : Cardinality(s) <= n}

LEMMA OneLess ==
  ASSUME NEW s, IsFiniteSet(s), s # {}
  PROVE  /\ One(s) \in s
         /\ IsFiniteSet(s \ {One(s)})
         /\ Cardinality(s) \in Nat \ {0}
         /\ Cardinality(s \ {One(s)}) = Cardinality(s) - 1
<1>1. One(s) \in s BY DEF One
<1> QED BY <1>1, FS_RemoveElement, FS_CardinalityType, FS_EmptySet

\* The equation of the fold has a solution.
LEMMA IterExists ==
  ASSUME NEW S, IsFiniteSet(S), NEW f, NEW Typ \in {Nat, Int}, \A x \in S : f[x] \in Typ
  PROVE  \E iter \in [SUBSET S -> Typ] : SumsUp(f, S, iter)
<1> DEFINE Upto(n, g) == /\ g \in [Small(S, n) -> Typ]
                         /\ \A s \in Small(S, n) : g[s] = Summed(f, g, s)
           bad == {n \in Nat : ~\E g : Upto(n, g)}
<1>0. \A s \in SUBSET S : IsFiniteSet(s) /\ Cardinality(s) \in Nat
                          /\ Cardinality(s) <= Cardinality(S)
  BY FS_Subset, FS_CardinalityType
<1>1. \E g : Upto(0, g)
  <2> DEFINE g == [s \in Small(S, 0) |-> 0]
  <2>1. \A s \in Small(S, 0) : s = {} BY <1>0, FS_EmptySet DEF Small
  <2>2. Upto(0, g) BY <2>1 DEF Summed
  <2> QED BY <2>2
<1>2. ASSUME NEW n \in Nat, \E g : Upto(n, g) PROVE \E h : Upto(n + 1, h)
  <2> PICK g : Upto(n, g) BY <1>2
  <2> DEFINE h == [s \in Small(S, n + 1) |-> Summed(f, g, s)]
  <2>1. \A s \in Small(S, n + 1) : s # {} => /\ One(s) \in S
                                             /\ s \ {One(s)} \in Small(S, n)
                                             /\ s \ {One(s)} \in Small(S, n + 1)
    BY <1>0, OneLess DEF Small
  <2>2. \A s \in Small(S, n + 1) : Summed(f, g, s) \in Typ
    BY <2>1 DEF Summed
  <2>3. \A s \in Small(S, n) : s \in Small(S, n + 1) /\ h[s] = g[s]
    BY <1>0 DEF Small
  <2>4. \A s \in Small(S, n + 1) : h[s] = Summed(f, h, s)
    BY <2>1, <2>3 DEF Summed
  <2>5. h \in [Small(S, n + 1) -> Typ] BY <2>2
  <2>6. Upto(n + 1, h) BY <2>4, <2>5
  <2> QED BY <2>6
<1>3. bad = {}
  <2> SUFFICES ASSUME bad # {} PROVE FALSE OBVIOUS
  <2> HIDE DEF Upto
  <2>1. PICK k \in bad : \A y \in bad : k <= y BY LeastNatural
  <2>2. k \in Nat /\ ~\E g : Upto(k, g) BY <2>1
  <2>3. k # 0 BY <2>2, <1>1
  <2>4. k - 1 \in Nat /\ k - 1 \notin bad BY <2>1, <2>2, <2>3
  <2>5. \E h : Upto((k - 1) + 1, h) BY <2>4, <1>2
  <2>6. (k - 1) + 1 = k BY <2>2
  <2> QED BY <2>2, <2>5, <2>6
<1>4. PICK g : Upto(Cardinality(S), g) BY <1>0, <1>3
<1>5. Small(S, Cardinality(S)) = SUBSET S BY <1>0 DEF Small
<1>6. g \in [SUBSET S -> Typ] /\ \A s \in SUBSET S : g[s] = Summed(f, g, s)
  BY <1>4, <1>5
<1> QED BY <1>6 DEF SumsUp

\* It has only one, and the solution for a set is that for the sets it is part of.
LEMMA ItersAgree ==
  ASSUME NEW S, IsFiniteSet(S), NEW f, NEW g, SumsUp(f, S, g),
         NEW T \in SUBSET S, NEW h, SumsUp(f, T, h)
  PROVE  h[T] = g[T]
<1> DEFINE bad == {n \in Nat : \E s \in SUBSET T : Cardinality(s) = n /\ h[s] # g[s]}
<1>0. \A s \in SUBSET T : IsFiniteSet(s) /\ Cardinality(s) \in Nat
  BY FS_Subset, FS_CardinalityType
<1>1. \A s \in SUBSET T : h[s] = Summed(f, h, s) /\ g[s] = Summed(f, g, s)
  BY DEF SumsUp
<1>2. bad = {}
  <2> SUFFICES ASSUME bad # {} PROVE FALSE OBVIOUS
  <2>1. PICK k \in bad : \A y \in bad : k <= y BY LeastNatural
  <2>2. PICK s \in SUBSET T : Cardinality(s) = k /\ h[s] # g[s] /\ k \in Nat BY <2>1
  <2>3. s # {} BY <1>1, <2>2 DEF Summed
  <2> DEFINE less == s \ {One(s)}
  <2>4. less \in SUBSET T /\ Cardinality(less) = k - 1
    BY <1>0, <2>2, <2>3, OneLess
  <2>5. h[less] = g[less]
    <3>1. k - 1 \notin bad BY <2>1, <2>2
    <3>2. k - 1 \in Nat BY <1>0, <2>4
    <3> QED BY <2>4, <3>1, <3>2
  <2> QED BY <1>1, <2>2, <2>3, <2>5 DEF Summed
<1> QED BY <1>0, <1>2

LEMMA SumUnfolds ==
  ASSUME NEW S, IsFiniteSet(S), NEW f, NEW Typ \in {Nat, Int}, \A x \in S : f[x] \in Typ
  PROVE  /\ SumFunctionOnSet(f, S) \in Typ
         /\ S = {} => SumFunctionOnSet(f, S) = 0
         /\ S # {} => SumFunctionOnSet(f, S)
                        = f[One(S)] + SumFunctionOnSet(f, S \ {One(S)})
<1> DEFINE iter(T) == CHOOSE g : SumsUp(f, T, g)
<1>1. ASSUME NEW T \in SUBSET S
      PROVE  SumsUp(f, T, iter(T)) /\ iter(T)[T] \in Typ
  <2>1. IsFiniteSet(T) BY FS_Subset
  <2>2. PICK h \in [SUBSET T -> Typ] : SumsUp(f, T, h) BY <2>1, IterExists
  <2>3. SumsUp(f, T, iter(T)) BY <2>2
  <2>4. iter(T)[T] = h[T] BY <2>1, <2>2, <2>3, ItersAgree
  <2> QED BY <2>2, <2>3, <2>4
<1> HIDE DEF iter
<1>2. \A T \in SUBSET S : SumFunctionOnSet(f, T) = iter(T)[T] BY SumIsChosen DEF iter
<1>3. \A T \in SUBSET S : iter(T)[T] = iter(S)[T] BY <1>1, ItersAgree
<1>4. \A T \in SUBSET S : iter(S)[T] = Summed(f, iter(S), T) BY <1>1 DEF SumsUp
<1>5. S # {} => S \ {One(S)} \in SUBSET S BY OneLess
<1>6. SumFunctionOnSet(f, S) = Summed(f, iter(S), S) /\ SumFunctionOnSet(f, S) \in Typ
  BY <1>1, <1>2, <1>4
<1>7. S # {} => SumFunctionOnSet(f, S \ {One(S)}) = iter(S)[S \ {One(S)}]
  BY <1>2, <1>3, <1>5
<1> QED BY <1>6, <1>7 DEF Summed

\* Any element can be the one taken out.
LEMMA SumTakesOut ==
  ASSUME NEW S, IsFiniteSet(S), NEW f, \A x \in S : f[x] \in Int, NEW y \in S
  PROVE  SumFunctionOnSet(f, S) = f[y] + SumFunctionOnSet(f, S \ {y})
<1> DEFINE sum(T) == SumFunctionOnSet(f, T)
           Out(T) == \A x \in T : sum(T) = f[x] + sum(T \ {x})
           bad == {n \in Nat : \E T \in SUBSET S : Cardinality(T) = n /\ ~Out(T)}
<1>0. \A T \in SUBSET S : IsFiniteSet(T) /\ Cardinality(T) \in Nat /\ \A x \in T : f[x] \in Int
  BY FS_Subset, FS_CardinalityType
<1>1. \A T \in SUBSET S : /\ sum(T) \in Int
                          /\ T # {} => sum(T) = f[One(T)] + sum(T \ {One(T)})
  BY <1>0, SumUnfolds
<1> HIDE DEF sum
<1>2. bad = {}
  <2> SUFFICES ASSUME bad # {} PROVE FALSE OBVIOUS
  <2>1. PICK k \in bad : \A z \in bad : k <= z BY LeastNatural
  <2>2. PICK T \in SUBSET S : Cardinality(T) = k /\ ~Out(T) /\ k \in Nat BY <2>1
  <2>3. PICK x \in T : sum(T) # f[x] + sum(T \ {x}) BY <2>2
  <2>4. T # {} /\ sum(T) = f[One(T)] + sum(T \ {One(T)}) /\ One(T) \in T BY <1>1, <2>3 DEF One
  <2>5. One(T) # x BY <2>3, <2>4
  <2> DEFINE t == T \ {One(T)}
             u == T \ {x}
  <2>6. /\ t \in SUBSET S /\ Cardinality(t) = k - 1
        /\ u \in SUBSET S /\ Cardinality(u) = k - 1
    <3>1. IsFiniteSet(T) BY <1>0
    <3> QED BY <2>2, <2>3, <2>4, <3>1, FS_RemoveElement
  <2>7. Out(t) /\ Out(u)
    <3>1. k - 1 \notin bad BY <2>1, <2>2
    <3>2. k - 1 \in Nat BY <1>0, <2>6
    <3> QED BY <2>6, <3>1, <3>2
  <2>8. x \in t /\ One(T) \in u /\ t \ {x} = u \ {One(T)} BY <2>4, <2>5, <2>3
  <2>9. sum(t) = f[x] + sum(t \ {x}) /\ sum(u) = f[One(T)] + sum(t \ {x})
    BY <2>7, <2>8
  <2>10. /\ f[x] \in Int /\ f[One(T)] \in Int /\ sum(t \ {x}) \in Int
    BY <1>0, <1>1, <2>3, <2>4, <2>6
  <2> HIDE DEF t, u
  <2>11. sum(T) # f[x] + sum(u) /\ sum(T) = f[One(T)] + sum(t) BY <2>3, <2>4 DEF t, u
  <2> QED BY <2>9, <2>10, <2>11
<1>3. Out(S) BY <1>0, <1>2
<1> QED BY <1>3 DEF sum

LEMMA SumOfSame ==
  ASSUME NEW S, IsFiniteSet(S), NEW f, NEW g, \A x \in S : f[x] \in Int /\ g[x] = f[x]
  PROVE  SumFunctionOnSet(g, S) = SumFunctionOnSet(f, S)
<1>1. PICK iter \in [SUBSET S -> Int] : SumsUp(f, S, iter) BY IterExists
<1>2. \A s \in SUBSET S : Summed(g, iter, s) = Summed(f, iter, s)
  BY DEF Summed, One
<1>3. SumsUp(g, S, iter) BY <1>1, <1>2 DEF SumsUp
<1>4. \A x \in S : g[x] \in Int OBVIOUS
<1> DEFINE F == CHOOSE h : SumsUp(f, S, h)
           G == CHOOSE h : SumsUp(g, S, h)
<1>5. SumsUp(f, S, F) /\ SumsUp(g, S, G) BY <1>1, <1>3
<1> HIDE DEF F, G
<1>6. F[S] = iter[S] BY <1>1, <1>5, ItersAgree
<1>7. G[S] = iter[S] BY <1>3, <1>5, ItersAgree
<1> QED BY <1>6, <1>7, SumIsChosen DEF F, G

LEMMA SumOfZeros ==
  ASSUME NEW S, IsFiniteSet(S)
  PROVE  SumFunctionOnSet([x \in S |-> 0], S) = 0
<1> DEFINE f    == [x \in S |-> 0]
           iter == [s \in SUBSET S |-> 0]
           F    == CHOOSE h : SumsUp(f, S, h)
<1>1. SumsUp(f, S, iter)
  <2>1. \A s \in SUBSET S : s # {} => One(s) \in S BY DEF One
  <2>2. \A s \in SUBSET S : Summed(f, iter, s) = 0 BY <2>1 DEF Summed
  <2> QED BY <2>2 DEF SumsUp
<1>2. SumsUp(f, S, F) BY <1>1
<1> HIDE DEF f, F
<1>3. F[S] = iter[S] BY <1>1, <1>2, ItersAgree
<1> QED BY <1>3, SumIsChosen DEF f, F

LEMMA SumOfExcept ==
  ASSUME NEW S, IsFiniteSet(S), NEW f \in [S -> Int], NEW y \in S, NEW v \in Int
  PROVE  /\ SumFunction(f) \in Int
         /\ SumFunction([f EXCEPT ![y] = v]) = SumFunction(f) - f[y] + v
<1> DEFINE g == [f EXCEPT ![y] = v]
           rest == S \ {y}
<1>1. \A x \in S : f[x] \in Int /\ g[x] \in Int OBVIOUS
<1>2. g[y] = v /\ \A x \in rest : g[x] = f[x] OBVIOUS
<1>3. DOMAIN f = S /\ DOMAIN g = S OBVIOUS
<1> HIDE DEF g
<1>4. IsFiniteSet(rest) BY FS_RemoveElement
<1>5. SumFunctionOnSet(g, rest) = SumFunctionOnSet(f, rest) BY <1>1, <1>2, <1>4, SumOfSame
<1>6. /\ SumFunctionOnSet(f, S) = f[y] + SumFunctionOnSet(f, rest)
      /\ SumFunctionOnSet(g, S) = g[y] + SumFunctionOnSet(g, rest)
  BY <1>1, SumTakesOut
<1>7. SumFunctionOnSet(f, rest) \in Int /\ SumFunctionOnSet(f, S) \in Int
  BY <1>1, <1>4, SumUnfolds
<1> QED BY <1>1, <1>2, <1>3, <1>5, <1>6, <1>7 DEF SumFunction, g

\* The others add up to what is left.
LEMMA RestOfSum ==
  ASSUME NEW S, IsFiniteSet(S), NEW f \in [S -> Nat], NEW y \in S
  PROVE  SumFunction(f) - f[y] \in Nat
<1> DEFINE rest == S \ {y}
<1>1. \A x \in S : f[x] \in Nat /\ f[x] \in Int OBVIOUS
<1>2. IsFiniteSet(rest) BY FS_RemoveElement
<1>3. SumFunctionOnSet(f, rest) \in Nat BY <1>1, <1>2, SumUnfolds
<1>4. SumFunctionOnSet(f, S) = f[y] + SumFunctionOnSet(f, rest) BY <1>1, SumTakesOut
<1> HIDE DEF rest
<1> QED BY <1>1, <1>3, <1>4 DEF SumFunction

-----------------------------------------------------------------------------
(* The rate limiter                                                          *)

BucketType == [used : BOOLEAN, tokens : Nat, updatedAt : Moment]

\* The bucket is filled as of the last reading of the clock: what was granted and
\* what is left came from a full bucket and the time counted so far.
LimiterIInv ==
  /\ bucket \in BucketType
  /\ granted \in Nat /\ passed \in Nat /\ read \in Moment
  /\ bucket.used => bucket.updatedAt = read
  /\ ~bucket.used => bucket.tokens = 0 /\ granted = 0 /\ passed = 0
  /\ bucket.tokens <= Capacity
  /\ granted + bucket.tokens <= Capacity + Refill * passed

LEMMA LimiterStarts == LimiterInit => LimiterIInv
BY LimiterAssumption DEF LimiterInit, LimiterIInv, BucketType, Unused, Moment

LEMMA ElapsedType ==
  ASSUME LimiterIInv, NEW now \in Moment
  PROVE  /\ Elapsed(now) \in Nat
         /\ Elapsed(now) * Refill \in Nat
         /\ bucket.used => Elapsed(now) = Max({0, now - read})
<1>1. now - bucket.updatedAt \in Int BY LimiterAssumption DEF LimiterIInv, BucketType, Moment
<1>2. Max({0, now - bucket.updatedAt}) \in Int /\ Max({0, now - bucket.updatedAt}) >= 0
  <2> DEFINE d == now - bucket.updatedAt
  <2> HIDE DEF d
  <2>1. d \in Int BY <1>1 DEF d
  <2>2. Max({0, d}) \in {0, d} /\ Max({0, d}) >= 0 BY <2>1, MaxOfTwo
  <2>3. Max({0, d}) \in Int BY <2>1, <2>2
  <2> QED BY <2>2, <2>3 DEF d
<1>3. Elapsed(now) \in Nat
  <2> DEFINE m == Max({0, now - bucket.updatedAt})
  <2>1. m \in Int /\ m >= 0 BY <1>2
  <2>2. Elapsed(now) = IF bucket.used THEN m ELSE 0 BY DEF Elapsed
  <2> HIDE DEF m
  <2> QED BY <2>1, <2>2
<1>4. \A e \in Nat : e * Refill \in Nat BY LimiterAssumption
<1> QED BY <1>3, <1>4 DEF Elapsed, LimiterIInv

\* A refill adds no more tokens than the time counted allows.
LEMMA RefillIsPaid ==
  ASSUME LimiterIInv, NEW now \in Moment, Reads(now)
  PROVE  /\ Refilled(now) \in BucketType
         /\ Refilled(now).used /\ Refilled(now).updatedAt = read'
         /\ Refilled(now).tokens <= Capacity
         /\ passed' \in Nat /\ read' \in Moment
         /\ granted + Refilled(now).tokens <= Capacity + Refill * passed'
<1> DEFINE gain == Elapsed(now) * Refill
           fill == bucket.tokens + gain
           least == Min({Capacity, fill})
<1>0. Capacity \in Nat /\ Refill \in Nat BY LimiterAssumption
<1>1. gain \in Nat /\ Elapsed(now) \in Nat BY ElapsedType
<1>2. read' = now BY DEF Reads
<1>a. bucket.tokens \in Nat /\ granted \in Nat /\ passed \in Nat /\ read \in Moment
  BY DEF LimiterIInv, BucketType
<1>3. CASE bucket.used
  <2>1. Refilled(now) = [used |-> TRUE, tokens |-> least, updatedAt |-> now]
    BY <1>3 DEF Refilled
  <2>2. fill \in Nat
    <3> HIDE DEF gain
    <3> QED BY <1>1, <1>a
  <2>3. least \in Nat /\ least <= Capacity /\ least <= fill
    <3> HIDE DEF fill
    <3>1. least \in {Capacity, fill} /\ least <= Capacity /\ least <= fill
      BY <1>0, <2>2, MinOfTwo
    <3> QED BY <1>0, <2>2, <3>1
  <2>4. passed' = passed + Elapsed(now) BY <1>3, ElapsedType DEF Reads
  <2>5. passed' \in Nat BY <1>1, <1>a, <2>4
  <2>6. Refill * passed' = Refill * passed + gain
    <3>1. \A r, p, e \in Nat : r * (p + e) = r * p + e * r OBVIOUS
    <3> QED BY <1>0, <1>1, <1>a, <2>4, <3>1
  <2>7. granted + bucket.tokens <= Capacity + Refill * passed BY DEF LimiterIInv
  <2>8. Refill * passed \in Nat
    <3>1. \A r, p \in Nat : r * p \in Nat OBVIOUS
    <3> QED BY <1>0, <1>a, <3>1
  <2>9. granted + least <= Capacity + Refill * passed'
    <3>1. granted + fill <= Capacity + Refill * passed + gain
      <4> HIDE DEF gain
      <4> QED BY <1>0, <1>1, <1>a, <2>7, <2>8
    <3>2. granted + least <= granted + fill
      <4> HIDE DEF least, fill
      <4> QED BY <1>a, <2>2, <2>3
    <3> HIDE DEF least, fill, gain
    <3> QED BY <1>0, <1>1, <1>a, <2>2, <2>3, <2>6, <2>8, <3>1, <3>2
  <2> HIDE DEF least
  <2> QED BY <1>2, <2>1, <2>3, <2>5, <2>9 DEF BucketType
<1>4. CASE ~bucket.used
  <2>1. Refilled(now) = [used |-> TRUE, tokens |-> Capacity, updatedAt |-> now]
    BY <1>4 DEF Refilled
  <2>2. passed' = 0 /\ granted = 0 BY <1>4 DEF Reads, LimiterIInv
  <2> QED BY <1>0, <1>2, <2>1, <2>2 DEF BucketType
<1> QED BY <1>3, <1>4

LEMMA LimiterStep == LimiterIInv /\ [LimiterNext]_limiterVars => LimiterIInv'
<1> SUFFICES ASSUME LimiterIInv, [LimiterNext]_limiterVars PROVE LimiterIInv' OBVIOUS
<1>0. Capacity \in Nat BY LimiterAssumption
<1>1. ASSUME NEW now \in Moment, NEW amount \in Requests, Acquire(now, amount)
      PROVE  LimiterIInv'
  <2>0. amount \in Nat BY LimiterAssumption
  <2>1. Reads(now) BY <1>1 DEF Acquire
  <2>2. CASE Refilled(now).tokens >= amount
    <3>1. bucket' = [Refilled(now) EXCEPT !.tokens = @ - amount] /\ granted' = granted + amount
      BY <1>1, <2>2 DEF Acquire
    <3>2. /\ bucket' \in BucketType /\ bucket'.used /\ bucket'.updatedAt = read'
          /\ bucket'.tokens = Refilled(now).tokens - amount
      BY <2>0, <2>1, <2>2, <3>1, RefillIsPaid DEF BucketType
    <3>3. granted \in Nat /\ Refilled(now).tokens \in Nat
      BY <2>1, RefillIsPaid DEF LimiterIInv, BucketType
    <3>4. granted' + bucket'.tokens = granted + Refilled(now).tokens
      BY <2>0, <3>1, <3>2, <3>3
    <3> QED BY <2>0, <2>1, <3>1, <3>2, <3>3, <3>4, <1>0, RefillIsPaid DEF LimiterIInv
  <2>3. CASE ~(Refilled(now).tokens >= amount)
    <3>1. bucket' = Refilled(now) /\ granted' = granted BY <1>1, <2>3 DEF Acquire
    <3> QED BY <2>1, <3>1, RefillIsPaid DEF LimiterIInv
  <2> QED BY <2>2, <2>3
<1>2. ASSUME NEW now \in Moment, AskWait(now)
      PROVE  LimiterIInv'
  BY <1>2, RefillIsPaid DEF AskWait, LimiterIInv
<1>3. CASE UNCHANGED limiterVars
  BY <1>3 DEF limiterVars, LimiterIInv
<1> QED BY <1>1, <1>2, <1>3 DEF LimiterNext

\* However often the limiter is asked and whichever way the clock goes, it grants no
\* more than a full bucket and what the time that passed fills (rate_limit.py:26-33).
THEOREM GrantsAreBounded == LimiterSpec => []NeverOverspends
<1>1. LimiterIInv => NeverOverspends
  BY LimiterAssumption DEF LimiterIInv, NeverOverspends, BucketType
<1> QED BY <1>1, LimiterStarts, LimiterStep, PTL DEF LimiterSpec

-----------------------------------------------------------------------------
(* The market maker                                                          *)

Dollars == [yes : Nat, no : Nat]

MakerType == inventory \in Dollars /\ quotes \in Dollars /\ prices \in Dollars

SkewedFor(center, net) == Limit(center - Skew(net), 0, 1000)

\* The prices are those of what the last evaluation computed them from.
MakerPriced ==
  basis # NoBasis => /\ basis \in [center : Int, spread : Int, net : Int]
                     /\ prices = Bids(SkewedFor(basis.center, basis.net), basis.spread)

\* What is quoted counts as held already.
MakerIInv == MakerType /\ InventoryIsBounded /\ MakerPriced

LEMMA MakerConstants ==
  /\ BaseSpread \in Nat /\ MinSpread \in Nat /\ QuoteMaxSpread \in Nat
  /\ SkewFactor \in Nat /\ MaxOrder \in Nat \ {0} /\ MaxInventory \in Nat \ {0}
  /\ MinEdge \in Nat
BY MakerAssumption

LEMMA MakerStarts == MakerInit => MakerIInv
BY MakerConstants
   DEF MakerInit, MakerIInv, MakerType, Dollars, NoQuotes, InventoryIsBounded, MakerPriced, NetYes

\* Clamping two numbers keeps their order and brings them no further apart.
LEMMA ClampingNarrows ==
  ASSUME NEW x \in Int, NEW y \in Int, NEW d \in Int, y - x \in 0..d
  PROVE  /\ ClampPrice(x) \in Int
         /\ ClampPrice(y) \in Int
         /\ ClampPrice(y) - ClampPrice(x) \in 0..d
BY DEF ClampPrice, Limit

\* So does keeping a center between 0 and a dollar.
LEMMA CenteringNarrows ==
  ASSUME NEW x \in Int, NEW y \in Int, NEW d \in Int, y - x \in 0..d
  PROVE  /\ Limit(x, 0, 1000) \in Int
         /\ Limit(y, 0, 1000) \in Int
         /\ Limit(y, 0, 1000) - Limit(x, 0, 1000) \in 0..d
BY DEF Limit

\* So does the greater of each and a number, one for each, that are no further apart.
LEMMA MaxNarrows ==
  ASSUME NEW x \in Int, NEW y \in Int, NEW a \in Int, NEW b \in Int, NEW d \in Nat,
         y - x \in 0..d, b - a \in 0..d
  PROVE  /\ Max({a, x}) \in Int /\ Max({b, y}) \in Int
         /\ Max({b, y}) - Max({a, x}) \in 0..d
<1> DEFINE m == Max({a, x})
           n == Max({b, y})
<1>1. m \in {a, x} /\ m >= a /\ m >= x BY MaxOfTwo
<1>2. n \in {b, y} /\ n >= b /\ n >= y BY MaxOfTwo
<1> HIDE DEF m, n
<1>3. m \in Int /\ n \in Int BY <1>1, <1>2
<1>4. n - m \in 0..d BY <1>1, <1>2, <1>3
<1> QED BY <1>3, <1>4 DEF m, n

\* A center that moves up moves the bid for YES up and the bid for NO down, by no more.
LEMMA BidsLean ==
  ASSUME NEW x \in Int, NEW y \in Int, NEW spread \in Int, x <= y
  PROVE  /\ Bids(y, spread).yes - Bids(x, spread).yes \in 0..(y - x)
         /\ Bids(x, spread).no - Bids(y, spread).no \in 0..(y - x)
<1> DEFINE half == spread \div 2
           d    == y - x
           xBid == ClampPrice(x - half)
           yBid == ClampPrice(y - half)
           xTop == Max({xBid + MinEdge, x + half})
           yTop == Max({yBid + MinEdge, y + half})
           xAsk == ClampPrice(xTop)
           yAsk == ClampPrice(yTop)
           xNo  == ClampPrice(1000 - xAsk)
           yNo  == ClampPrice(1000 - yAsk)
<1>1. half \in Int /\ d \in Nat OBVIOUS
<1>2. /\ Bids(x, spread).yes = xBid /\ Bids(x, spread).no = xNo
      /\ Bids(y, spread).yes = yBid /\ Bids(y, spread).no = yNo
  BY DEF Bids, AskYes
<1> HIDE DEF half
<1>3. xBid \in Int /\ yBid \in Int /\ yBid - xBid \in 0..d
  <2>1. /\ x - half \in Int /\ y - half \in Int
        /\ (y - half) - (x - half) \in 0..d
    BY <1>1
  <2> QED BY <1>1, <2>1, ClampingNarrows
<1> HIDE DEF xBid, yBid, d
<1>4. xTop \in Int /\ yTop \in Int /\ yTop - xTop \in 0..d
  <2>1. /\ x + half \in Int /\ y + half \in Int
        /\ (y + half) - (x + half) \in 0..d
    BY <1>1 DEF d
  <2>2. /\ xBid + MinEdge \in Int /\ yBid + MinEdge \in Int
        /\ (yBid + MinEdge) - (xBid + MinEdge) \in 0..d
    BY <1>1, <1>3, MakerConstants
  <2> QED BY <1>1, <2>1, <2>2, MaxNarrows
<1> HIDE DEF xTop, yTop
<1>5. xAsk \in Int /\ yAsk \in Int /\ yAsk - xAsk \in 0..d
  BY <1>1, <1>4, ClampingNarrows
<1> HIDE DEF xAsk, yAsk
<1>6. xNo \in Int /\ yNo \in Int /\ xNo - yNo \in 0..d
  <2>1. /\ 1000 - yAsk \in Int /\ 1000 - xAsk \in Int
        /\ (1000 - xAsk) - (1000 - yAsk) \in 0..d
    BY <1>1, <1>5
  <2> QED BY <1>1, <2>1, ClampingNarrows
<1> QED BY <1>2, <1>3, <1>6 DEF d

LEMMA SkewType ==
  ASSUME NEW a \in Int, NEW b \in Int
  PROVE  /\ Skew(a) \in Int
         /\ Skew(a) - Skew(b) = Skew(a - b)
         /\ a >= b => Skew(b) <= Skew(a)
<1> DEFINE k == SkewFactor \div MaxInventory
<1>1. k \in Nat BY MakerConstants
<1>2. Skew(a) = a * k /\ Skew(b) = b * k /\ Skew(a - b) = (a - b) * k BY DEF Skew
<1> HIDE DEF k
<1>3. a * k \in Int /\ b * k \in Int BY <1>1
<1>4. a * k - b * k = (a - b) * k BY <1>1
<1>5. ASSUME a >= b PROVE b * k <= a * k
  <2>1. a - b \in Nat BY <1>5
  <2>2. (a - b) * k \in Nat BY <1>1, <2>1
  <2> QED BY <1>3, <1>4, <2>2
<1> QED BY <1>2, <1>3, <1>4, <1>5

\* Of two evaluations of one center and spread, that with more YES leans against YES.
LEMMA SkewLeans ==
  ASSUME NEW center \in Int, NEW spread \in Int, NEW net \in Int, NEW more \in Int,
         net <= more
  PROVE  LET before == Bids(SkewedFor(center, net), spread)
             after  == Bids(SkewedFor(center, more), spread)
         IN /\ before.yes - after.yes \in 0..Skew(more - net)
            /\ after.no - before.no \in 0..Skew(more - net)
<1> DEFINE x == SkewedFor(center, more)
           y == SkewedFor(center, net)
           d == Skew(more - net)
<1>1. Skew(net) \in Int /\ Skew(more) \in Int /\ Skew(net) <= Skew(more)
      /\ Skew(more) - Skew(net) = d
  BY SkewType
<1>2. x \in Int /\ y \in Int /\ y - x \in 0..d
  <2> DEFINE p == center - Skew(more)
             q == center - Skew(net)
  <2>1. p \in Int /\ q \in Int /\ d \in Int /\ q - p \in 0..d
    <3> DEFINE a == Skew(more)
               b == Skew(net)
    <3> HIDE DEF a, b, d
    <3>1. a \in Int /\ b \in Int /\ b <= a /\ a - b = d BY <1>1 DEF a, b
    <3>2. center - a \in Int /\ center - b \in Int /\ d \in Int
          /\ (center - b) - (center - a) \in 0..d
      BY <3>1
    <3> QED BY <3>2 DEF a, b
  <2> HIDE DEF p, q, d
  <2>2. /\ Limit(p, 0, 1000) \in Int /\ Limit(q, 0, 1000) \in Int
        /\ Limit(q, 0, 1000) - Limit(p, 0, 1000) \in 0..d
    BY <2>1, CenteringNarrows
  <2> QED BY <2>2 DEF p, q, SkewedFor
<1>3. d \in Int BY SkewType
<1> HIDE DEF x, y, d
<1>4. /\ Bids(y, spread).yes - Bids(x, spread).yes \in 0..(y - x)
      /\ Bids(x, spread).no - Bids(y, spread).no \in 0..(y - x)
  <2>1. x <= y BY <1>2, <1>3
  <2> QED BY <1>2, <2>1, BidsLean
<1>5. 0..(y - x) \subseteq 0..d BY <1>2, <1>3
<1>6. /\ Bids(y, spread).yes - Bids(x, spread).yes \in 0..d
      /\ Bids(x, spread).no - Bids(y, spread).no \in 0..d
  BY <1>4, <1>5
<1> QED BY <1>6 DEF x, y, d

\* The orders of a signal respect the caps.
LEMMA QuotesType ==
  ASSUME MakerType, NEW bids, NEW size \in 0..MaxOrder
  PROVE  /\ Quotes(bids, size) \in [yes : 0..MaxOrder, no : 0..MaxOrder]
         /\ NetYes >= MaxInventory => Quotes(bids, size).yes = 0
         /\ NetYes <= -MaxInventory => Quotes(bids, size).no = 0
<1> DEFINE orders == [yes |-> IF AtCap.yes THEN 0 ELSE size,
                      no  |-> IF AtCap.no THEN 0 ELSE size]
<1>0. 0 \in 0..MaxOrder BY MakerConstants
<1>1. Quotes(bids, size) = NoQuotes \/ Quotes(bids, size) = orders BY DEF Quotes
<1>2. (AtCap.yes <=> NetYes >= MaxInventory) /\ (AtCap.no <=> NetYes <= -MaxInventory)
  BY Zenon DEF AtCap
<1>3. CASE Quotes(bids, size) = NoQuotes BY <1>0, <1>3 DEF NoQuotes
<1>4. CASE Quotes(bids, size) = orders BY <1>0, <1>2, <1>4
<1> QED BY <1>1, <1>3, <1>4

LEMMA BidsType ==
  ASSUME NEW x \in Int, NEW spread \in Int
  PROVE  Bids(x, spread) \in Dollars
<1> DEFINE low    == x - spread \div 2
           bidYes == ClampPrice(low)
           high   == Max({bidYes + MinEdge, x + spread \div 2})
           askYes == ClampPrice(high)
           rest   == 1000 - askYes
           bidNo  == ClampPrice(rest)
<1>1. Bids(x, spread) = [yes |-> bidYes, no |-> bidNo] BY DEF Bids, AskYes
<1>2. low \in Int OBVIOUS
<1> HIDE DEF low
<1>3. bidYes \in Nat BY <1>2 DEF ClampPrice, Limit
<1> HIDE DEF bidYes
<1>4. high \in Int
  <2>1. bidYes + MinEdge \in Int /\ x + spread \div 2 \in Int BY <1>3, MakerConstants
  <2> QED BY <2>1, MaxOfTwo
<1> HIDE DEF high
<1>5. askYes \in Int BY <1>4 DEF ClampPrice, Limit
<1> HIDE DEF askYes
<1>6. rest \in Int BY <1>5
<1> HIDE DEF rest
<1>7. bidNo \in Nat BY <1>6 DEF ClampPrice, Limit
<1> HIDE DEF bidNo
<1> QED BY <1>1, <1>3, <1>7 DEF Dollars

LEMMA ObservedType ==
  ASSUME NEW probability \in Probability, NEW best \in BestYes
  PROVE  probability \in Int /\ best[1] \in Int /\ best[2] \in Int
<1> DEFINE bid == best[1]
           ask == best[2]
<1>1. probability \in 0..1000 BY MakerAssumption
<1>2. best \in (0..1000) \X (0..1000) BY MakerAssumption
<1>3. bid \in 0..1000 /\ ask \in 0..1000 BY <1>2
<1> HIDE DEF bid, ask
<1>4. probability \in Int /\ bid \in Int /\ ask \in Int BY <1>1, <1>3
<1> QED BY <1>4 DEF bid, ask

\* What an evaluation is, with the center and the spread it chose.
LEMMA EvaluateParts ==
  ASSUME MakerType, Evaluate
  PROVE  \E center \in Int, spread \in Int, size \in 0..MaxOrder :
           /\ prices' = Bids(SkewedFor(center, NetYes), spread)
           /\ quotes' = Quotes(prices', size)
           /\ basis' = [center |-> center, spread |-> spread, net |-> NetYes]
           /\ inventory' = inventory
<1>1. PICK probability \in Probability, best \in BestYes, wider \in Uncertainty,
           depth \in DepthUsd :
        LET mid == (best[1] + best[2]) \div 2 IN
          /\ best[2] > best[1]
          /\ best[2] - best[1] <= QuoteMaxSpread
          /\ depth >= QuoteMinDepth
          /\ \E center \in {probability, mid, (probability + mid) \div 2} :
               LET spread == Limit(BaseSpread + wider, MinSpread, QuoteMaxSpread) IN
                 /\ prices' = Bids(Skewed(center), spread)
                 /\ quotes' = Quotes(prices', Min({MaxOrder, depth}))
                 /\ basis' = [center |-> center, spread |-> spread, net |-> NetYes]
          /\ UNCHANGED inventory
  BY DEF Evaluate
<1> DEFINE mid    == (best[1] + best[2]) \div 2
           spread == Limit(BaseSpread + wider, MinSpread, QuoteMaxSpread)
           size   == Min({MaxOrder, depth})
<1>2. PICK center \in {probability, mid, (probability + mid) \div 2} :
        /\ prices' = Bids(Skewed(center), spread)
        /\ quotes' = Quotes(prices', size)
        /\ basis' = [center |-> center, spread |-> spread, net |-> NetYes]
  BY <1>1
<1>3. center \in Int
  <2>1. probability \in Int /\ best[1] \in Int /\ best[2] \in Int BY ObservedType
  <2>2. mid \in Int BY <2>1
  <2> HIDE DEF mid
  <2> QED BY <2>1, <2>2
<1>4. spread \in Int
  <2>1. wider \in Nat BY MakerAssumption
  <2> QED BY <2>1, MakerConstants DEF Limit
<1>5. size \in 0..MaxOrder
  <2>1. depth \in Nat BY MakerAssumption
  <2>2. depth \in Int /\ MaxOrder \in Int BY <2>1, MakerConstants
  <2>3. size \in {MaxOrder, depth} /\ size <= MaxOrder BY <2>2, MinOfTwo
  <2> HIDE DEF size
  <2> QED BY <2>1, <2>3, MakerConstants
<1> HIDE DEF spread, size
<1>6. Skewed(center) = SkewedFor(center, NetYes) BY DEF Skewed, SkewedFor
<1>7. inventory' = inventory BY <1>1
<1> QED BY <1>2, <1>3, <1>4, <1>5, <1>6, <1>7

LEMMA EvaluateStep == MakerIInv /\ Evaluate => MakerIInv'
<1> SUFFICES ASSUME MakerIInv, Evaluate PROVE MakerIInv' OBVIOUS
<1>0. MakerType BY DEF MakerIInv
<1>1. PICK center \in Int, spread \in Int, size \in 0..MaxOrder :
        /\ prices' = Bids(SkewedFor(center, NetYes), spread)
        /\ quotes' = Quotes(prices', size)
        /\ basis' = [center |-> center, spread |-> spread, net |-> NetYes]
        /\ inventory' = inventory
  BY <1>0, EvaluateParts
<1>2. NetYes' = NetYes /\ NetYes \in Int
  BY <1>0, <1>1 DEF NetYes, MakerType, Dollars
<1>3. /\ quotes' \in [yes : 0..MaxOrder, no : 0..MaxOrder]
      /\ NetYes >= MaxInventory => quotes'.yes = 0
      /\ NetYes <= -MaxInventory => quotes'.no = 0
  BY <1>0, <1>1, QuotesType
<1>4. MakerType'
  <2>1. SkewedFor(center, NetYes) \in Int
    <3>1. Skew(NetYes) \in Int BY <1>2, SkewType
    <3>2. center - Skew(NetYes) \in Int BY <3>1
    <3> QED BY <3>2 DEF SkewedFor, Limit
  <2>2. prices' \in Dollars BY <1>1, <2>1, BidsType
  <2>3. quotes' \in Dollars BY <1>3, MakerConstants DEF Dollars
  <2> QED BY <1>0, <1>1, <2>2, <2>3 DEF MakerType
<1>5. InventoryIsBounded'
  <2>1. NetYes < MaxInventory + MaxOrder /\ NetYes > -(MaxInventory + MaxOrder)
    BY <1>2, MakerConstants DEF MakerIInv, InventoryIsBounded, MakerType, Dollars
  <2>2. quotes'.yes \in 0..MaxOrder /\ quotes'.no \in 0..MaxOrder BY <1>3
  <2> QED BY <1>2, <1>3, <2>1, <2>2, MakerConstants DEF InventoryIsBounded
<1>6. MakerPriced' BY <1>1, <1>2 DEF MakerPriced
<1> QED BY <1>4, <1>5, <1>6 DEF MakerIInv

LEMMA FillStep ==
  ASSUME MakerIInv, NEW outcome \in {"yes", "no"}, Fill(outcome)
  PROVE  MakerIInv'
<1>1. PICK x \in 1..quotes[outcome] :
        /\ inventory' = [inventory EXCEPT ![outcome] = @ + x]
        /\ quotes' = [quotes EXCEPT ![outcome] = @ - x]
        /\ prices' = prices /\ basis' = basis
  BY DEF Fill
<1>2. MakerPriced' BY <1>1 DEF MakerIInv, MakerPriced
<1>3. (MakerType /\ InventoryIsBounded)'
  <2>1. CASE outcome = "yes"
    BY <1>1, <2>1, MakerConstants DEF MakerIInv, MakerType, Dollars, InventoryIsBounded, NetYes
  <2>2. CASE outcome = "no"
    BY <1>1, <2>2, MakerConstants DEF MakerIInv, MakerType, Dollars, InventoryIsBounded, NetYes
  <2> QED BY <2>1, <2>2
<1> QED BY <1>2, <1>3 DEF MakerIInv

LEMMA MakerStep == MakerIInv /\ [MakerNext]_makerVars => MakerIInv'
<1> SUFFICES ASSUME MakerIInv, [MakerNext]_makerVars PROVE MakerIInv' OBVIOUS
<1>1. CASE Reject
  <2>1. MakerPriced' BY <1>1 DEF Reject, MakerIInv, MakerPriced
  <2>2. (MakerType /\ InventoryIsBounded)'
    BY <1>1, MakerConstants
       DEF Reject, MakerIInv, MakerType, Dollars, InventoryIsBounded, NetYes, NoQuotes
  <2> QED BY <2>1, <2>2 DEF MakerIInv
<1>2. CASE Evaluate BY <1>2, EvaluateStep
<1>3. ASSUME NEW outcome \in {"yes", "no"}, Fill(outcome) PROVE MakerIInv'
  BY <1>3, FillStep
<1>4. CASE UNCHANGED makerVars
  BY <1>4 DEF makerVars, MakerIInv, MakerType, InventoryIsBounded, MakerPriced, NetYes
<1> QED BY <1>1, <1>2, <1>3, <1>4 DEF MakerNext

\* However the quotes are filled between evaluations, the inventory stays within the
\* cap and one order more (simple-market-maker.ts:142-152).
THEOREM InventoryStaysBounded == MakerSpec => []InventoryIsBounded
<1>1. MakerIInv => InventoryIsBounded BY DEF MakerIInv
<1> QED BY <1>1, MakerStarts, MakerStep, PTL DEF MakerSpec

\* Between two evaluations of one center and spread, with any fills and rejections in
\* between, the bids move against what was bought and by no more than its skew, wherever
\* the clamps and the least edge cut in (simple-market-maker.ts:121-135).
THEOREM RequotesStayLean == MakerSpec => RequotesLean
<1> DEFINE change == basis'.net - basis.net
           Leans ==
             basis # NoBasis /\ basis'.center = basis.center /\ basis'.spread = basis.spread =>
               /\ change >= 0 => /\ prices.yes - prices'.yes \in 0..Skew(change)
                                 /\ prices'.no - prices.no \in 0..Skew(change)
               /\ change <= 0 => /\ prices'.yes - prices.yes \in 0..Skew(-change)
                                 /\ prices.no - prices'.no \in 0..Skew(-change)
<1>1. MakerIInv /\ [MakerNext]_makerVars => [Leans]_makerVars
  <2> SUFFICES ASSUME MakerIInv, MakerNext,
                      basis # NoBasis, basis'.center = basis.center, basis'.spread = basis.spread
               PROVE  /\ change >= 0 => /\ prices.yes - prices'.yes \in 0..Skew(change)
                                        /\ prices'.no - prices.no \in 0..Skew(change)
                      /\ change <= 0 => /\ prices'.yes - prices.yes \in 0..Skew(-change)
                                        /\ prices.no - prices'.no \in 0..Skew(-change)
    OBVIOUS
  <2>0. /\ basis.center \in Int /\ basis.spread \in Int /\ basis.net \in Int
        /\ prices = Bids(SkewedFor(basis.center, basis.net), basis.spread)
        /\ MakerType
    BY DEF MakerIInv, MakerPriced
  <2>1. CASE Evaluate
    <3>1. PICK center \in Int, spread \in Int :
            /\ prices' = Bids(SkewedFor(center, NetYes), spread)
            /\ basis' = [center |-> center, spread |-> spread, net |-> NetYes]
      BY <2>0, <2>1, EvaluateParts
    <3>2. NetYes \in Int BY <2>0 DEF NetYes, MakerType, Dollars
    <3>3. center = basis.center /\ spread = basis.spread /\ basis'.net = NetYes BY <3>1
    <3>4. /\ change = NetYes - basis.net /\ -change = basis.net - NetYes
          /\ change >= 0 <=> basis.net <= NetYes
          /\ change <= 0 <=> NetYes <= basis.net
      BY <2>0, <3>2, <3>3
    <3>5. prices' = Bids(SkewedFor(basis.center, NetYes), basis.spread) BY <3>1, <3>3
    <3> HIDE DEF change
    <3>6. ASSUME change >= 0
          PROVE  /\ prices.yes - prices'.yes \in 0..Skew(change)
                 /\ prices'.no - prices.no \in 0..Skew(change)
      BY <2>0, <3>2, <3>4, <3>5, <3>6, SkewLeans
    <3>7. ASSUME change <= 0
          PROVE  /\ prices'.yes - prices.yes \in 0..Skew(-change)
                 /\ prices.no - prices'.no \in 0..Skew(-change)
      BY <2>0, <3>2, <3>4, <3>5, <3>7, SkewLeans
    <3> QED BY <3>6, <3>7
  <2>2. CASE basis' = basis /\ prices' = prices
    <3>1. change = 0 /\ -change = 0 BY <2>0, <2>2
    <3>2. Skew(0) = 0
      <4>1. Skew(0) \in Int /\ Skew(0) - Skew(0) = Skew(0 - 0) BY SkewType
      <4> QED BY <4>1
    <3>3. prices.yes \in Int /\ prices.no \in Int BY <2>0 DEF MakerType, Dollars
    <3> HIDE DEF change
    <3>4. Skew(change) = 0 /\ Skew(-change) = 0 BY <3>1, <3>2
    <3> QED BY <2>2, <3>3, <3>4
  <2>3. MakerNext => Evaluate \/ (basis' = basis /\ prices' = prices)
    BY DEF MakerNext, Reject, Fill
  <2> QED BY <2>1, <2>2, <2>3
<1> QED BY <1>1, MakerStarts, MakerStep, PTL DEF MakerSpec, RequotesLean

-----------------------------------------------------------------------------
(* Rounding                                                                  *)

LEMMA Rounding ==
  ASSUME NEW x \in Int
  PROVE  /\ RoundUsd(x) \in Int /\ WholeCents(RoundUsd(x))
         /\ WholeCents(x) => RoundUsd(x) = x
         /\ x >= 0 => RoundUsd(x) >= 0
BY DEF RoundUsd, WholeCents, Cent

LEMMA RoundingIsMonotone ==
  ASSUME NEW x \in Int, NEW y \in Int, x <= y
  PROVE  RoundUsd(x) <= RoundUsd(y)
BY DEF RoundUsd, Cent

LEMMA DifferenceOfCents ==
  ASSUME NEW x \in Int, NEW y \in Int, WholeCents(x), WholeCents(y)
  PROVE  WholeCents(x - y) /\ WholeCents(x + y)
BY DEF WholeCents, Cent

-----------------------------------------------------------------------------
(* The wallets                                                               *)

\* A wallet whose books are in order.
Ordered(f) == /\ f \in [balance : Nat, reserved : Nat, available : Nat]
              /\ WholeCents(f.balance) /\ WholeCents(f.reserved)
              /\ f.reserved <= f.balance
              /\ f.available = f.balance - f.reserved

\* The reservations are amounts, and the wallets have drifted from them no further
\* than the roundings of the calls account for.
WalletsIInv ==
  /\ wallets \in [Wallet -> [address : Address, funds : Funds]]
  /\ reservations \in [Wallet -> [Plan -> Nat]]
  /\ settled \in [Wallet -> Nat]
  /\ fractions \in Nat
  /\ \A w \in Wallet : Ordered(wallets[w].funds)
  /\ DriftIsBounded

LEMMA HoldingIsOrdered ==
  ASSUME NEW balance \in Nat, WholeCents(balance), NEW r \in 0..balance
  PROVE  Ordered(Holding(balance, r))
<1> DEFINE held == RoundUsd(r)
<1>1. held \in Nat /\ WholeCents(held) /\ held <= balance
  <2>1. RoundUsd(balance) = balance BY Rounding
  <2> QED BY <2>1, Rounding, RoundingIsMonotone
<1>2. balance - held \in Nat /\ WholeCents(balance - held)
  <2> HIDE DEF held
  <2> QED BY <1>1, DifferenceOfCents
<1>3. RoundUsd(AtLeastZero(balance - held)) = balance - held
  <2> HIDE DEF held
  <2>1. AtLeastZero(balance - held) = balance - held BY <1>2 DEF AtLeastZero
  <2> QED BY <1>2, <2>1, Rounding
<1>4. Holding(balance, r) = [balance |-> balance, reserved |-> held,
                             available |-> balance - held]
  BY <1>3 DEF Holding
<1> HIDE DEF held
<1> QED BY <1>1, <1>2, <1>4 DEF Ordered

\* One normalisation puts the amounts in whole cents and the reserved below the
\* balance; the second makes them add up.
LEMMA NormalizedIsOrdered ==
  ASSUME NEW balance \in Nat, NEW reserved \in Nat
  PROVE  Ordered(Normalized(balance, reserved))
<1> DEFINE least == Min({balance, reserved})
           b == RoundUsd(balance)
           r == RoundUsd(least)
<1>1. least \in Nat /\ least <= balance
  <2>1. least \in {balance, reserved} /\ least <= balance BY MinOfTwo
  <2> QED BY <2>1
<1>2. /\ b \in Nat /\ r \in Nat /\ r <= b
      /\ WholeCents(b) /\ WholeCents(r)
  <2> HIDE DEF least
  <2> QED BY <1>1, Rounding, RoundingIsMonotone
<1>3. Normalized(balance, reserved) = WalletInfo(b, r)
  BY DEF Normalized, WalletInfo
<1> HIDE DEF b, r
<1>4. Min({b, r}) = r
  <2>1. Min({b, r}) \in {b, r} /\ Min({b, r}) <= r /\ Min({b, r}) <= b BY <1>2, MinOfTwo
  <2> QED BY <1>2, <2>1
<1>5. RoundUsd(b) = b /\ RoundUsd(r) = r BY <1>2, Rounding
<1>6. WalletInfo(b, r) = Holding(b, r)
  BY <1>4, <1>5 DEF WalletInfo, Holding
<1> QED BY <1>2, <1>3, <1>6, HoldingIsOrdered

LEMMA WalletsStart == WalletsInit => WalletsIInv
<1> SUFFICES ASSUME WalletsInit PROVE WalletsIInv OBVIOUS
<1>1. PICK balance \in [Wallet -> Configured], reserved \in [Wallet -> Configured],
           address \in [Wallet -> Address] :
        wallets = [w \in Wallet |-> [address |-> address[w],
                                     funds   |-> Normalized(balance[w], reserved[w])]]
  BY DEF WalletsInit
<1>2. \A w \in Wallet : Ordered(Normalized(balance[w], reserved[w]))
  <2> TAKE w \in Wallet
  <2>1. balance[w] \in Nat /\ reserved[w] \in Nat BY WalletAssumption
  <2> QED BY <2>1, NormalizedIsOrdered
<1>3. \A w \in Wallet : Normalized(balance[w], reserved[w]) \in Funds
  BY <1>2 DEF Ordered, Funds
<1>4. reservations = [w \in Wallet |-> [p \in Plan |-> 0]] BY DEF WalletsInit
<1>5. settled = [w \in Wallet |-> wallets[w].funds.reserved] /\ fractions = 0
  BY DEF WalletsInit
<1>6. \A w \in Wallet : wallets[w].funds = Normalized(balance[w], reserved[w]) BY <1>1
<1>7. \A w \in Wallet : wallets[w].funds.reserved \in Nat BY <1>2, <1>6 DEF Ordered
<1>8. DriftIsBounded
  <2>1. ASSUME NEW w \in Wallet PROVE SumFunction(reservations[w]) = 0
    <3>1. reservations[w] = [p \in Plan |-> 0] BY <1>4
    <3>2. SumFunctionOnSet([p \in Plan |-> 0], Plan) = 0 BY SumOfZeros, WalletAssumption
    <3> QED BY <3>1, <3>2 DEF SumFunction
  <2> QED BY <1>5, <1>7, <2>1 DEF DriftIsBounded, Magnitude, Cent
<1>9. \A w \in Wallet : Ordered(wallets[w].funds) BY <1>2, <1>6
<1>10. wallets \in [Wallet -> [address : Address, funds : Funds]] BY <1>1, <1>3
<1>11. reservations \in [Wallet -> [Plan -> Nat]] BY <1>4
<1>12. settled \in [Wallet -> Nat] /\ fractions \in Nat BY <1>5, <1>7
<1> QED BY <1>8, <1>9, <1>10, <1>11, <1>12 DEF WalletsIInv

\* Rounding moves an amount by half a cent at most.
LEMMA RoundingError ==
  ASSUME NEW x \in Int
  PROVE  RoundUsd(x) - x \in -2..2 /\ (WholeCents(x) => RoundUsd(x) = x)
BY DEF RoundUsd, WholeCents, Cent

\* What a call does to the drift d, and what the bound then allows.
LEMMA DriftOfCall ==
  ASSUME NEW d \in Int, NEW e \in Int, NEW n \in Nat, NEW whole \in BOOLEAN,
         Magnitude(d) <= Cent * n,
         Magnitude(e) <= Magnitude(d) + Cent, whole => Magnitude(e) <= Magnitude(d)
  PROVE  Magnitude(e) <= Cent * (IF whole THEN n ELSE n + 1)
<1>1. Magnitude(d) \in Int /\ Magnitude(e) \in Int BY DEF Magnitude
<1>2. CASE whole BY <1>1, <1>2 DEF Cent
<1>3. CASE ~whole BY <1>1, <1>3 DEF Cent
<1> QED BY <1>2, <1>3

\* How far a wallet can be from its plans after x is put to or taken from the v
\* reserved for one of them, the others having reserved rest: the wallet held r,
\* of which s by configuration, and n calls before involved a fraction.
LEMMA DriftOfReserve ==
  ASSUME NEW r \in Nat, WholeCents(r), NEW s \in Nat, NEW v \in Nat, NEW rest \in Nat,
         NEW x \in Nat, NEW n \in Nat, Magnitude(r - s - (v + rest)) <= Cent * n
  PROVE  Magnitude(RoundUsd(r + x) - s - ((v + x) + rest))
           <= Cent * (IF WholeCents(x) /\ WholeCents(v) THEN n ELSE n + 1)
<1> DEFINE held  == RoundUsd(r + x)
           d     == r - s - (v + rest)
           e     == held - s - ((v + x) + rest)
           whole == WholeCents(x) /\ WholeCents(v)
<1>1. held \in Int /\ held - (r + x) \in -2..2
  <2>1. r + x \in Int OBVIOUS
  <2> QED BY <2>1, Rounding, RoundingError
<1>2. WholeCents(x) => held = r + x
  <2>1. WholeCents(x) => WholeCents(r + x) BY DifferenceOfCents
  <2>2. r + x \in Int OBVIOUS
  <2> QED BY <2>1, <2>2, RoundingError
<1> HIDE DEF held
<1>3. d \in Int /\ e \in Int /\ e - d = held - (r + x) BY <1>1
<1>4. Magnitude(e) <= Magnitude(d) + Cent /\ (whole => Magnitude(e) <= Magnitude(d))
  <2> HIDE DEF d, e
  <2> QED BY <1>1, <1>2, <1>3 DEF Magnitude, Cent
<1>5. whole \in BOOLEAN BY DEF WholeCents
<1>6. Magnitude(d) <= Cent * n OBVIOUS
<1>7. Magnitude(e) <= Cent * (IF whole THEN n ELSE n + 1)
  <2> HIDE DEF d, e, whole
  <2> QED BY <1>3, <1>4, <1>5, <1>6, DriftOfCall
<1> QED BY <1>7 DEF held

LEMMA DriftOfRelease ==
  ASSUME NEW r \in Nat, WholeCents(r), NEW s \in Nat, NEW v \in Nat, NEW rest \in Nat,
         NEW x \in 0..v, NEW n \in Nat, Magnitude(r - s - (v + rest)) <= Cent * n
  PROVE  Magnitude(RoundUsd(AtLeastZero(r - x)) - s - (RoundUsd(v - x) + rest))
           <= Cent * (IF WholeCents(x) /\ WholeCents(v) THEN n ELSE n + 1)
<1> DEFINE held  == RoundUsd(AtLeastZero(r - x))
           left  == RoundUsd(v - x)
           d     == r - s - (v + rest)
           e     == held - s - (left + rest)
           whole == WholeCents(x) /\ WholeCents(v)
<1>1. left \in Nat /\ left - (v - x) \in -2..2 /\ (whole => left = v - x)
  <2>1. v - x \in Int /\ v - x >= 0 OBVIOUS
  <2>2. whole => WholeCents(v - x) BY DifferenceOfCents
  <2> HIDE DEF whole
  <2> QED BY <2>1, <2>2, Rounding, RoundingError
<1>2. /\ held \in Int
      /\ x <= r => held - (r - x) \in -2..2 /\ (whole => held = r - x)
      /\ x > r => held = 0
  <2>1. CASE x <= r
    <3>1. AtLeastZero(r - x) = r - x /\ r - x \in Int BY <2>1 DEF AtLeastZero
    <3>2. whole => WholeCents(r - x) BY DifferenceOfCents
    <3> HIDE DEF whole
    <3> QED BY <2>1, <3>1, <3>2, Rounding, RoundingError
  <2>2. CASE x > r
    <3>1. AtLeastZero(r - x) = 0 BY <2>2 DEF AtLeastZero
    <3>2. held = 0 BY <3>1, RoundingError DEF WholeCents, Cent
    <3> QED BY <2>2, <3>2
  <2> QED BY <2>1, <2>2
<1>3. whole \in BOOLEAN BY DEF WholeCents
<1> HIDE DEF held, left, whole
<1>4. d \in Int /\ e \in Int BY <1>1, <1>2
<1>5. Magnitude(e) <= Magnitude(d) + Cent /\ (whole => Magnitude(e) <= Magnitude(d))
  <2>1. CASE x <= r
    <3>1. e - d = (held - (r - x)) - (left - (v - x)) BY <1>1, <1>2, <2>1
    <3>2. e - d \in -4..4 /\ (whole => e = d) BY <1>1, <1>2, <1>4, <2>1, <3>1
    <3> HIDE DEF d, e
    <3> QED BY <1>4, <3>2 DEF Magnitude, Cent
  <2>2. CASE x > r
    <3>1. e <= 0 /\ e >= d - 2 /\ (whole => e >= d) BY <1>1, <1>2, <2>2
    <3> HIDE DEF d, e
    <3> QED BY <1>4, <3>1 DEF Magnitude, Cent
  <2> QED BY <2>1, <2>2
<1>6. Magnitude(d) <= Cent * n OBVIOUS
<1>7. Magnitude(e) <= Cent * (IF whole THEN n ELSE n + 1)
  <2> HIDE DEF d, e
  <2> QED BY <1>3, <1>4, <1>5, <1>6, DriftOfCall
<1> QED BY <1>7 DEF held, left, whole

\* One plan of one wallet has v reserved from now on, and the wallet holds f.
LEMMA DriftOfOne ==
  ASSUME WalletsIInv, NEW w \in Wallet, NEW p \in Plan, NEW v \in Nat, NEW f \in Funds,
         NEW x \in Nat,
         reservations' = [reservations EXCEPT ![w][p] = v],
         wallets' = [wallets EXCEPT ![w].funds = f],
         Count(w, p, x), UNCHANGED settled,
         Magnitude(f.reserved - settled[w]
                     - (v + (SumFunction(reservations[w]) - reservations[w][p])))
           <= Cent * (IF WholeCents(x) /\ WholeCents(reservations[w][p])
                      THEN fractions ELSE fractions + 1)
  PROVE  DriftIsBounded' /\ fractions' \in Nat
<1>1. /\ fractions' = IF WholeCents(x) /\ WholeCents(reservations[w][p])
                      THEN fractions ELSE fractions + 1
      /\ fractions \in Nat
  BY DEF Count, WalletsIInv
<1>2. fractions' \in Nat /\ fractions <= fractions' BY <1>1
<1>3. ASSUME NEW u \in Wallet
      PROVE  Magnitude(wallets'[u].funds.reserved - settled'[u]
                         - SumFunction(reservations'[u])) <= Cent * fractions'
  <2>1. CASE u = w
    <3> DEFINE old == reservations[w]
    <3>1. old \in [Plan -> Nat] /\ old \in [Plan -> Int] BY DEF WalletsIInv
    <3>2. reservations'[w] = [old EXCEPT ![p] = v] BY DEF WalletsIInv
    <3> HIDE DEF old
    <3>3. /\ SumFunction(old) \in Int
          /\ SumFunction([old EXCEPT ![p] = v]) = SumFunction(old) - old[p] + v
      <4>1. v \in Int OBVIOUS
      <4> QED BY <3>1, <4>1, SumOfExcept, WalletAssumption
    <3>4. wallets'[w].funds = f BY DEF WalletsIInv
    <3>5. SumFunction(reservations'[w]) = v + (SumFunction(old) - old[p])
      BY <3>1, <3>2, <3>3
    <3> QED BY <1>1, <2>1, <3>4, <3>5 DEF old
  <2>2. CASE u # w
    <3>1. wallets'[u] = wallets[u] /\ reservations'[u] = reservations[u]
      BY <2>2 DEF WalletsIInv
    <3> DEFINE drift == Magnitude(wallets[u].funds.reserved - settled[u]
                                    - SumFunction(reservations[u]))
    <3>2. drift <= Cent * fractions BY DEF WalletsIInv, DriftIsBounded
    <3>3. drift \in Int
      <4>1. wallets[u].funds.reserved \in Int /\ settled[u] \in Int
        BY DEF WalletsIInv, Funds
      <4>2. reservations[u] \in [Plan -> Int] BY DEF WalletsIInv
      <4>3. SumFunction(reservations[u]) \in Int BY <4>2, SumOfExcept, WalletAssumption
      <4> QED BY <4>1, <4>3 DEF Magnitude
    <3>4. Cent * fractions <= Cent * fractions' BY <1>1 DEF Cent
    <3>5. drift <= Cent * fractions'
      <4> HIDE DEF drift
      <4> QED BY <1>1, <1>2, <3>2, <3>3, <3>4 DEF Cent
    <3> QED BY <3>1, <3>5
  <2> QED BY <2>1, <2>2
<1> QED BY <1>2, <1>3 DEF DriftIsBounded

\* What a plan has reserved and what the others have, beside what the wallet holds.
LEMMA DriftOfPlan ==
  ASSUME WalletsIInv, NEW w \in Wallet, NEW p \in Plan
  PROVE  LET v    == reservations[w][p]
             rest == SumFunction(reservations[w]) - v
             r    == wallets[w].funds.reserved
         IN /\ v \in Nat /\ rest \in Nat /\ r \in Nat /\ WholeCents(r)
            /\ settled[w] \in Nat
            /\ Magnitude(r - settled[w] - (v + rest)) <= Cent * fractions
<1> DEFINE old == reservations[w]
<1>1. old \in [Plan -> Nat] /\ old \in [Plan -> Int] BY DEF WalletsIInv
<1>2. Ordered(wallets[w].funds) /\ settled[w] \in Nat BY DEF WalletsIInv
<1>3. Magnitude(wallets[w].funds.reserved - settled[w] - SumFunction(old)) <= Cent * fractions
  BY DEF WalletsIInv, DriftIsBounded
<1> HIDE DEF old
<1>4. SumFunction(old) \in Int /\ SumFunction(old) - old[p] \in Nat /\ old[p] \in Nat
  BY <1>1, SumOfExcept, RestOfSum, WalletAssumption
<1>5. SumFunction(old) = old[p] + (SumFunction(old) - old[p]) BY <1>4
<1> QED BY <1>2, <1>3, <1>4, <1>5 DEF Ordered, old

LEMMA ReserveStep ==
  ASSUME WalletsIInv, NEW a \in Address, NEW p \in Plan, NEW x \in Amount,
         ReserveForPlan(a, p, x)
  PROVE  WalletsIInv'
<1>1. PICK w \in Wallet :
        /\ CanReserve(w, x)
        /\ reservations' = [reservations EXCEPT ![w][p] = ReservedFor(w, p, x)]
        /\ wallets' = [wallets EXCEPT ![w].funds = Holding(wallets[w].funds.balance,
                                                          wallets[w].funds.reserved + x)]
        /\ Count(w, p, x)
        /\ UNCHANGED settled
  BY DEF ReserveForPlan
<1> DEFINE f == wallets[w].funds
           g == Holding(f.balance, f.reserved + x)
           v == reservations[w][p]
           rest == SumFunction(reservations[w]) - v
<1>2. x \in Nat BY WalletAssumption
<1>3. Ordered(f) BY DEF WalletsIInv
<1>4. Ordered(g)
  <2>1. f.balance \in Nat /\ WholeCents(f.balance) /\ f.reserved + x \in 0..f.balance
    BY <1>1, <1>2, <1>3 DEF Ordered, CanReserve
  <2> HIDE DEF f
  <2> QED BY <2>1, HoldingIsOrdered
<1>5. ReservedFor(w, p, x) = v + x /\ v \in Nat BY <1>2 DEF ReservedFor, WalletsIInv
<1>6. reservations' \in [Wallet -> [Plan -> Nat]] BY <1>1, <1>2, <1>5 DEF WalletsIInv
<1>7. g \in Funds BY <1>4 DEF Ordered, Funds
<1>8. DriftIsBounded' /\ fractions' \in Nat
  <2>1. g.reserved = RoundUsd(f.reserved + x) BY DEF Holding
  <2>2. /\ v \in Nat /\ rest \in Nat /\ f.reserved \in Nat /\ WholeCents(f.reserved)
        /\ settled[w] \in Nat
        /\ Magnitude(f.reserved - settled[w] - (v + rest)) <= Cent * fractions
    BY DriftOfPlan
  <2>3. fractions \in Nat BY DEF WalletsIInv
  <2> HIDE DEF f, rest, g, v
  <2>4. Magnitude(g.reserved - settled[w] - ((v + x) + rest))
          <= Cent * (IF WholeCents(x) /\ WholeCents(v) THEN fractions ELSE fractions + 1)
    BY <1>2, <2>1, <2>2, <2>3, DriftOfReserve
  <2>5. v + x \in Nat BY <1>2, <2>2
  <2> QED BY <1>1, <1>2, <1>5, <1>7, <2>4, <2>5, DriftOfOne DEF f, g, v, rest
<1> HIDE DEF g
<1> QED BY <1>1, <1>4, <1>6, <1>7, <1>8 DEF WalletsIInv, g

LEMMA ReleaseStep ==
  ASSUME WalletsIInv, NEW w \in Wallet, NEW p \in Plan, NEW x \in 0..reservations[w][p],
         Release(w, p, x)
  PROVE  WalletsIInv'
<1> DEFINE f == wallets[w].funds
           g == Holding(f.balance, AtLeastZero(f.reserved - x))
           v == reservations[w][p]
           rest == SumFunction(reservations[w]) - v
<1>1. wallets' = [wallets EXCEPT ![w].funds = g] BY DEF Release
<1>2. /\ v \in Nat /\ rest \in Nat /\ f.reserved \in Nat /\ WholeCents(f.reserved)
      /\ settled[w] \in Nat
      /\ Magnitude(f.reserved - settled[w] - (v + rest)) <= Cent * fractions
  BY DriftOfPlan
<1>3. x \in Nat /\ x \in 0..v BY <1>2
<1>4. Ordered(g)
  <2>1. Ordered(f) BY DEF WalletsIInv
  <2>2. f.balance \in Nat /\ WholeCents(f.balance)
        /\ AtLeastZero(f.reserved - x) \in 0..f.balance
    BY <1>3, <2>1 DEF Ordered, AtLeastZero
  <2> HIDE DEF f
  <2> QED BY <2>2, HoldingIsOrdered
<1>5. g \in Funds BY <1>4 DEF Ordered, Funds
<1>6. RoundUsd(v - x) \in Nat BY <1>2, <1>3, Rounding
<1>7. /\ reservations' = [reservations EXCEPT ![w][p] = RoundUsd(v - x)]
      /\ Count(w, p, x) /\ UNCHANGED settled
  BY DEF Release
<1>8. reservations' \in [Wallet -> [Plan -> Nat]] BY <1>6, <1>7 DEF WalletsIInv
<1>9. DriftIsBounded' /\ fractions' \in Nat
  <2>1. g.reserved = RoundUsd(AtLeastZero(f.reserved - x)) BY DEF Holding
  <2>2. fractions \in Nat BY DEF WalletsIInv
  <2> HIDE DEF f, rest, g, v
  <2>3. Magnitude(g.reserved - settled[w] - (RoundUsd(v - x) + rest))
          <= Cent * (IF WholeCents(x) /\ WholeCents(v) THEN fractions ELSE fractions + 1)
    BY <1>2, <1>3, <2>1, <2>2, DriftOfRelease
  <2> QED BY <1>1, <1>3, <1>5, <1>6, <1>7, <2>3, DriftOfOne DEF v, rest
<1> HIDE DEF g
<1> QED BY <1>1, <1>4, <1>5, <1>7, <1>8, <1>9 DEF WalletsIInv, g

LEMMA WalletsStep == WalletsIInv /\ [WalletsNext]_walletVars => WalletsIInv'
<1> SUFFICES ASSUME WalletsIInv, [WalletsNext]_walletVars PROVE WalletsIInv' OBVIOUS
<1>1. ASSUME NEW a \in Address, NEW p \in Plan, NEW x \in Amount, ReserveForPlan(a, p, x)
      PROVE  WalletsIInv'
  BY <1>1, ReserveStep
<1>2. ASSUME NEW a \in Address, NEW p \in Plan, NEW x \in Amount, ReleasePart(a, p, x)
      PROVE  WalletsIInv'
  <2>1. PICK w \in Wallet : /\ reservations[w][p] > 0
                            /\ Release(w, p, ReleasedAtMost(w, p, x))
    BY <1>2 DEF ReleasePart
  <2>2. ReleasedAtMost(w, p, x) \in 0..reservations[w][p]
    <3>1. x \in Nat /\ reservations[w][p] \in Nat BY WalletAssumption DEF WalletsIInv
    <3> QED BY <3>1 DEF ReleasedAtMost
  <2> QED BY <2>1, <2>2, ReleaseStep
<1>3. ASSUME NEW a \in Address, NEW p \in Plan, ReleaseAll(a, p) PROVE WalletsIInv'
  <2>1. PICK w \in Wallet : /\ reservations[w][p] > 0
                            /\ Release(w, p, reservations[w][p])
    BY <1>3 DEF ReleaseAll
  <2>2. reservations[w][p] \in 0..reservations[w][p] BY DEF WalletsIInv
  <2> QED BY <2>1, <2>2, ReleaseStep
<1>4. CASE UNCHANGED walletVars BY <1>4 DEF walletVars, WalletsIInv, DriftIsBounded
<1> QED BY <1>1, <1>2, <1>3, <1>4 DEF WalletsNext

\* Whatever plans reserve and release: a wallet's books are in whole cents, and what
\* is reserved and what is available add up to its balance (wallet-manager.ts:155-193).
THEOREM FundsAlwaysAddUp == WalletsSpec => []FundsAddUp
<1>1. WalletsIInv => FundsAddUp BY DEF WalletsIInv, Ordered, FundsAddUp
<1> QED BY <1>1, WalletsStart, WalletsStep, PTL DEF WalletsSpec

\* What a wallet has reserved is what its plans did, within a cent for each call that
\* involved a fraction of one, and exactly when none did, however many plans there are
\* and in whatever order they reserve and release (wallet-manager.ts:155-193).
THEOREM DriftStaysBounded == WalletsSpec => []DriftIsBounded
<1>1. WalletsIInv => DriftIsBounded BY DEF WalletsIInv
<1> QED BY <1>1, WalletsStart, WalletsStep, PTL DEF WalletsSpec

-----------------------------------------------------------------------------
(* The paper desk                                                            *)

\* What the property says of a plan.
Shrinks(plan) ==
  /\ Magnitude(plan.after) + plan.size = Magnitude(plan.before)
  /\ IF plan.before >= 0 THEN plan.after >= 0 ELSE plan.after <= 0
  /\ plan.size \in 0..plan.simulation.funds
  /\ plan.simulation.reserved = IF plan.codes = {} THEN plan.size ELSE 0
  /\ plan.codes = {} => plan.size > 0

\* What the dashboard finds in the record of the plan: its size and its exposure, in
\* whole cents, in the simulation that goes with it.
Described(plan) ==
  /\ plan.simulation.wallets \in Nat
  /\ plan.simulation.funds \in Nat /\ WholeCents(plan.simulation.funds)
  /\ WholeCents(plan.size) /\ plan.simulation.planned = plan.size
  /\ plan.before \in Int /\ WholeCents(plan.before) /\ plan.simulation.net = plan.before

DeskIInv == HasPlan => Shrinks(deskLatest) /\ Described(deskLatest)

Ratio == 0..4

LEMMA ClampType ==
  ASSUME NEW x \in Int, NEW top \in Nat
  PROVE  Clamp(x, 0, top) \in 0..top
<1> DEFINE high == Max({0, x})
           low  == Min({top, high})
<1>1. high \in {0, x} /\ high >= 0 BY MaxOfTwo
<1>2. high \in Int BY <1>1
<1> HIDE DEF high
<1>3. low \in {top, high} /\ low <= top BY <1>2, MinOfTwo
<1> HIDE DEF low
<1>4. low \in 0..top BY <1>1, <1>2, <1>3
<1> QED BY <1>4 DEF Clamp, low, high

LEMMA ResolvedType ==
  ASSUME NEW o \in Options
  PROVE  /\ Resolved(o).net \in Int /\ Resolved(o).ratio \in Ratio
         /\ Resolved(o).maxOrder \in Nat \ {0} /\ Resolved(o).funds \in Nat \ {0}
         /\ Resolved(o).wallets \in 0..10
         /\ Resolved(o).net = o.net
<1>1. o \in [net : Int, ratio : Int, maxOrder : Int, funds : Int,
             wallets : Int, purse : Int, simulate : BOOLEAN]
  BY PaperAssumption
<1>2. Clamp(o.ratio, 0, 4) \in Ratio /\ Clamp(o.wallets, 0, 10) \in 0..10
  BY <1>1, ClampType DEF Ratio
<1>3. /\ Positive(o.maxOrder, DefaultMaxOrder) \in Nat \ {0}
      /\ Positive(o.funds, DefaultFunds) \in Nat \ {0}
  BY <1>1 DEF Positive, DefaultMaxOrder, DefaultFunds, Cent
<1> QED BY <1>1, <1>2, <1>3 DEF Resolved

LEMMA QuarterOf ==
  ASSUME NEW n \in Nat, NEW r \in 0..4
  PROVE  (n * r) \div 4 \in 0..n /\ (r # 0 /\ n >= 4 => (n * r) \div 4 >= 1)
<1>1. CASE r = 0 BY <1>1
<1>2. CASE r = 1 BY <1>2
<1>3. CASE r = 2 BY <1>3
<1>4. CASE r = 3 BY <1>4
<1>5. CASE r = 4 BY <1>5
<1> QED BY <1>1, <1>2, <1>3, <1>4, <1>5

LEMMA ShareIsPart ==
  ASSUME NEW net \in Int, NEW r \in Ratio
  PROVE  Share(net, r) \in 0..Magnitude(net) /\ Magnitude(net) \in Nat
<1>1. Magnitude(net) \in Nat BY DEF Magnitude
<1> QED BY <1>1, QuarterOf DEF Share, Ratio

\* An amount in whole cents that the funds cover is written down as it is.
LEMMA CoveredAmount ==
  ASSUME NEW funds \in Nat, NEW x \in 0..funds, WholeCents(x)
  PROVE  RoundUsd(x) = x /\ Min({x, funds}) = x
<1>1. x \in Int /\ x <= funds /\ RoundUsd(x) = x BY Rounding
<1>2. Min({x, funds}) \in {x, funds} /\ Min({x, funds}) <= x /\ Min({x, funds}) <= funds
  BY <1>1, MinOfTwo
<1> QED BY <1>1, <1>2

\* The part of a simulation that the wallet shown rests on.
LEMMA SimulationHolds ==
  ASSUME NEW o \in Options,
         NEW planned \in 0..RoundUsd(Resolved(o).funds), WholeCents(planned),
         NEW held \in 0..RoundUsd(Resolved(o).funds), WholeCents(held)
  PROVE  LET s == SimulationMetadata(Resolved(o), planned, held)
         IN /\ s.funds = RoundUsd(Resolved(o).funds)
            /\ s.funds \in Nat /\ WholeCents(s.funds)
            /\ s.planned = planned /\ s.reserved = held
            /\ s.net = RoundUsd(Resolved(o).net) /\ s.wallets \in Nat
<1> DEFINE funds == RoundUsd(Resolved(o).funds)
           net   == RoundUsd(Resolved(o).net)
           r     == [Resolved(o) EXCEPT !.net = net]
<1>1. Resolved(o).funds \in Nat /\ Resolved(o).net \in Int BY ResolvedType
<1>2. funds \in Nat /\ WholeCents(funds) BY <1>1, Rounding
<1>3. RoundUsd(net) = net BY <1>1, Rounding
<1>4. r.funds = Resolved(o).funds /\ r.net = net /\ r.wallets \in Nat
  <2>1. Resolved(o).wallets \in Nat BY ResolvedType
  <2> QED BY <2>1 DEF Resolved
<1>5. /\ RoundUsd(planned) = planned /\ Min({planned, funds}) = planned
      /\ RoundUsd(held) = held /\ Min({held, funds}) = held
  <2> HIDE DEF funds
  <2> QED BY <1>2, CoveredAmount DEF funds
<1>6. SimulationMetadata(Resolved(o), planned, held)
        = Simulation(Resolved(o).simulate, r, planned, held)
  BY <1>5 DEF SimulationMetadata
<1> DEFINE s == Simulation(Resolved(o).simulate, r, planned, held)
<1>7. /\ s.funds = funds /\ s.net = RoundUsd(r.net) /\ s.wallets = r.wallets
      /\ s.planned = RoundUsd(Min({planned, funds}))
      /\ s.reserved = RoundUsd(Min({held, funds}))
  BY <1>4 DEF Simulation
<1> HIDE DEF s, r, funds, net
<1> QED BY <1>2, <1>3, <1>4, <1>5, <1>6, <1>7 DEF s, funds, net

LEMMA RejectedShrinks ==
  ASSUME NEW o \in Options, NEW code
  PROVE  Shrinks(RejectedPlan(Resolved(o), code)) /\ Described(RejectedPlan(Resolved(o), code))
<1> DEFINE net   == RoundUsd(Resolved(o).net)
           funds == RoundUsd(Resolved(o).funds)
           plan  == RejectedPlan(Resolved(o), code)
<1>1. Resolved(o).net \in Int /\ Resolved(o).funds \in Nat BY ResolvedType
<1>2. net \in Int /\ WholeCents(net) /\ funds \in Nat BY <1>1, Rounding
<1>3. 0 \in 0..funds /\ WholeCents(0) BY <1>2 DEF WholeCents, Cent
<1>4. /\ plan.simulation.funds = funds
      /\ plan.simulation.funds \in Nat /\ WholeCents(plan.simulation.funds)
      /\ plan.simulation.planned = 0 /\ plan.simulation.reserved = 0
      /\ plan.simulation.net = net /\ plan.simulation.wallets \in Nat
  BY <1>3, SimulationHolds DEF RejectedPlan
<1>5. plan.after = net /\ plan.before = net /\ plan.size = 0 /\ plan.codes = {code}
  BY DEF RejectedPlan
<1>6. Shrinks(plan) /\ Described(plan)
  <2> HIDE DEF plan, net, funds
  <2> QED BY <1>2, <1>3, <1>4, <1>5 DEF Shrinks, Described, Magnitude
<1> QED BY <1>6

LEMMA DepthType ==
  ASSUME NEW book \in Book, NEW net \in Int
  PROVE  RoundUsd(Cardinality(Good(SideTaken(book, net))) * LevelUsd) \in Nat
<1> DEFINE side == SideTaken(book, net)
<1>1. side \in Levels BY DEF Book, SideTaken
<1>2. PICK n \in Nat : DOMAIN side = 1..n
  <2>1. CASE side = Absent BY <2>1 DEF Absent
  <2>2. CASE side \in Seq(RawLevel)
    <3>1. DOMAIN side = 1..Len(side) /\ Len(side) \in Nat BY <2>2
    <3> QED BY <3>1
  <2> QED BY <1>1, <2>1, <2>2, PaperAssumption
<1> HIDE DEF side
<1>4. IsFiniteSet(1..n) BY FS_Interval
<1>5. Good(side) \subseteq 1..n BY <1>2 DEF Good
<1>6. IsFiniteSet(Good(side)) BY <1>4, <1>5, FS_Subset
<1>7. Cardinality(Good(side)) \in Nat BY <1>6, FS_CardinalityType
<1>8. Cardinality(Good(side)) * LevelUsd \in Nat
  <2>1. \A a, b \in Nat : a * b \in Nat OBVIOUS
  <2> QED BY <1>7, <2>1, PaperAssumption
<1> QED BY <1>8, Rounding DEF side

LEMMA PlanShrinks ==
  ASSUME NEW o \in Options, NEW book \in Book
  PROVE  Shrinks(PlanFromBook(Resolved(o), book)) /\ Described(PlanFromBook(Resolved(o), book))
<1> DEFINE r     == Resolved(o)
           net   == RoundUsd(r.net)
           side  == Good(SideTaken(book, net))
           depth == RoundUsd(Cardinality(side) * LevelUsd)
           size  == IF side = {} THEN 0 ELSE PaperSize(r, net, depth)
           codes == Codes(book, depth, size, side # {})
           held  == IF codes = {} THEN size ELSE 0
           plan  == PlanFromBook(r, book)
<1>1. /\ r.net \in Int /\ r.ratio \in Ratio /\ r.maxOrder \in Nat /\ r.funds \in Nat
  BY ResolvedType
<1>2. net \in Int /\ WholeCents(net) BY <1>1, Rounding
<1>3. depth \in Nat BY <1>2, DepthType
<1>4. PaperSize(r, net, depth) \in 0..RoundUsd(r.funds)
      /\ PaperSize(r, net, depth) <= Magnitude(net)
      /\ WholeCents(PaperSize(r, net, depth))
  <2> DEFINE share == Share(net, r.ratio)
             least == Min({share, r.maxOrder, r.funds, depth})
  <2> HIDE DEF r, net, depth
  <2>1. share \in 0..Magnitude(net) /\ Magnitude(net) \in Nat BY <1>1, <1>2, ShareIsPart
  <2>2. share \in Nat BY <2>1
  <2>3. least \in {share, r.maxOrder, r.funds, depth} /\ least <= share /\ least <= r.funds
    <3> HIDE DEF share
    <3>1. share \in Int /\ r.maxOrder \in Int /\ r.funds \in Int /\ depth \in Int
      BY <1>1, <1>3, <2>2
    <3> QED BY <3>1, MinOfFour
  <2>4. least \in Nat
    <3> HIDE DEF share, least
    <3> QED BY <1>1, <1>3, <2>2, <2>3
  <2> HIDE DEF share, least
  <2>5. least <= Magnitude(net) BY <2>1, <2>3, <2>4
  <2>6. RoundUsd(Magnitude(net)) = Magnitude(net)
    BY <1>2 DEF Magnitude, RoundUsd, WholeCents, Cent
  <2>7. RoundUsd(least) <= RoundUsd(Magnitude(net)) BY <2>1, <2>4, <2>5, RoundingIsMonotone
  <2>8. RoundUsd(least) <= RoundUsd(r.funds) BY <1>1, <2>3, <2>4, RoundingIsMonotone
  <2>9. RoundUsd(least) \in Nat /\ WholeCents(RoundUsd(least)) /\ RoundUsd(r.funds) \in Nat
    BY <1>1, <2>4, Rounding
  <2> QED BY <2>6, <2>7, <2>8, <2>9 DEF PaperSize, least, share
<1>5. size \in 0..RoundUsd(r.funds) /\ size <= Magnitude(net) /\ WholeCents(size)
  <2>1. RoundUsd(r.funds) \in Nat BY <1>1, Rounding
  <2>2. WholeCents(0) /\ 0 <= Magnitude(net) BY <1>2 DEF WholeCents, Cent, Magnitude
  <2> HIDE DEF r, net, depth, side
  <2> QED BY <1>4, <2>1, <2>2
<1>6. ExposureAfter(net, size) = IF net >= 0 THEN net - size ELSE net + size
  <2> HIDE DEF net, size
  <2>1. size \in Int /\ WholeCents(net - size) /\ WholeCents(net + size)
    BY <1>2, <1>5, DifferenceOfCents
  <2>2. RoundUsd(net - size) = net - size /\ RoundUsd(net + size) = net + size
    BY <1>2, <2>1, Rounding
  <2> QED BY <1>2, <2>2 DEF ExposureAfter
<1>7. held \in 0..RoundUsd(r.funds) /\ WholeCents(held)
  <2>1. RoundUsd(r.funds) \in Nat /\ WholeCents(0) BY <1>1, Rounding DEF WholeCents, Cent
  <2> HIDE DEF r, size, codes
  <2> QED BY <1>5, <2>1
<1>8. LET s == SimulationMetadata(r, size, held)
      IN /\ s.funds = RoundUsd(r.funds) /\ s.funds \in Nat /\ WholeCents(s.funds)
         /\ s.planned = size /\ s.reserved = held /\ s.net = net /\ s.wallets \in Nat
  <2> HIDE DEF size, held
  <2> QED BY <1>5, <1>7, SimulationHolds
<1>9. codes = {} => size > 0
  <2>1. ~(side # {}) \/ size <= 0 => "depth_unavailable" \in codes BY DEF Codes
  <2>2. size \in Int BY <1>5
  <2> HIDE DEF codes, size
  <2> QED BY <2>1, <2>2
<1>10. /\ plan.before = net /\ plan.size = size /\ plan.codes = codes
       /\ plan.after = ExposureAfter(net, size)
       /\ plan.simulation = SimulationMetadata(r, size, held)
  BY DEF PlanFromBook
<1>11. held = IF codes = {} THEN size ELSE 0 OBVIOUS
<1>12. Shrinks(plan) /\ Described(plan)
  <2> HIDE DEF r, net, side, depth, size, codes, held, plan
  <2>1. size \in Nat BY <1>5
  <2>2. /\ Magnitude(plan.after) + size = Magnitude(net)
        /\ IF net >= 0 THEN plan.after >= 0 ELSE plan.after <= 0
    BY <1>2, <1>5, <1>6, <1>10, <2>1 DEF Magnitude
  <2>3. plan.simulation.funds = RoundUsd(r.funds) /\ plan.simulation.reserved = held
    BY <1>8, <1>10
  <2>4. Described(plan) BY <1>2, <1>5, <1>8, <1>10 DEF Described
  <2> QED BY <1>5, <1>9, <1>10, <1>11, <2>2, <2>3, <2>4 DEF Shrinks
<1> QED BY <1>12

LEMMA DeskStep == DeskIInv /\ [DeskNext]_deskVars => DeskIInv'
<1> SUFFICES ASSUME DeskIInv, [DeskNext]_deskVars PROVE DeskIInv' OBVIOUS
<1>1. CASE Publish
  <2>1. deskLatest' \in Plans \cup {Empty} BY <1>1 DEF Publish
  <2>2. CASE deskLatest' = Empty BY <2>2 DEF DeskIInv, HasPlan, Empty
  <2>3. CASE deskLatest' \in Plans
    <3>1. Shrinks(deskLatest') /\ Described(deskLatest')
      BY <2>3, RejectedShrinks, PlanShrinks DEF Plans
    <3> QED BY <3>1 DEF DeskIInv, Shrinks, Described
  <2> QED BY <2>1, <2>2, <2>3
<1>2. CASE UNCHANGED deskLatest BY <1>2 DEF DeskIInv, HasPlan, Shrinks, Described
<1> QED BY <1>1, <1>2 DEF DeskNext, ShowWallets, LeavePage, deskVars

\* Every paper plan narrows the exposure without turning it round, within the funds,
\* and reserves its size exactly when no risk code stands against it
\* (dry-run-hedge-worker.ts:373-449).
THEOREM PaperPlansShrink == DeskSpec => []PaperHedgeShrinks
<1>1. DeskInit => DeskIInv BY DEF DeskInit, DeskIInv, HasPlan, Nothing
<1>2. DeskIInv => PaperHedgeShrinks BY DEF DeskIInv, PaperHedgeShrinks, Shrinks
<1> QED BY <1>1, <1>2, DeskStep, PTL DEF DeskSpec

\* Amounts in whole cents, one covered by the other, come out of the constructor of the
\* wallets as they went in.
LEMMA NormalizedCents ==
  ASSUME NEW b \in Nat, NEW r \in 0..b, WholeCents(b), WholeCents(r)
  PROVE  LET f == Normalized(b, r)
         IN f.balance = b /\ f.reserved = r /\ f.reserved + f.available = b
<1>1. RoundUsd(b) = b /\ RoundUsd(r) = r /\ Min({b, r}) = r
  <2>1. {b, r} = {r, b} OBVIOUS
  <2> QED BY <2>1, CoveredAmount, Rounding
<1>2. WalletInfo(b, r) = Holding(b, r) BY <1>1 DEF WalletInfo, Holding
<1>3. /\ WalletInfo(b, r).balance = b /\ WalletInfo(b, r).reserved = r
      /\ Ordered(WalletInfo(b, r))
  BY <1>1, <1>2, HoldingIsOrdered DEF Holding
<1>4. Normalized(b, r) = WalletInfo(b, r) BY <1>3 DEF Normalized
<1> QED BY <1>3, <1>4 DEF Ordered

\* What the dashboard makes of the record of a plan.
LEMMA LatestIsShown ==
  ASSUME DeskIInv, FollowsLatest, NEW o
  PROVE  LET s == ShownSimulation(o)
             t == deskLatest.simulation
         IN /\ s.enabled /\ s.wallets = t.wallets /\ s.net = deskLatest.before
            /\ s.funds = t.funds
            /\ s.planned = deskLatest.size /\ s.reserved = deskLatest.size
<1> DEFINE t    == deskLatest.simulation
           size == deskLatest.size
           s    == Simulation(t.enabled, t, t.planned, t.planned)
<1>1. /\ t.funds \in Nat /\ WholeCents(t.funds) /\ size \in 0..t.funds /\ WholeCents(size)
      /\ t.planned = size /\ t.net = deskLatest.before
      /\ deskLatest.before \in Int /\ WholeCents(deskLatest.before)
      /\ t.enabled
  BY DEF DeskIInv, FollowsLatest, Shrinks, Described
<1>2. ShownSimulation(o) = s BY DEF ShownSimulation, FollowsLatest, FromLatestRecord
<1>3. /\ s.enabled = t.enabled /\ s.wallets = t.wallets /\ s.net = RoundUsd(t.net)
      /\ s.funds = RoundUsd(t.funds)
      /\ s.planned = RoundUsd(Min({t.planned, RoundUsd(t.funds)}))
      /\ s.reserved = RoundUsd(Min({t.planned, RoundUsd(t.funds)}))
  BY DEF Simulation
<1> HIDE DEF s, t, size
<1>4. RoundUsd(t.funds) = t.funds /\ RoundUsd(t.net) = deskLatest.before BY <1>1, Rounding
<1>5. RoundUsd(Min({t.planned, RoundUsd(t.funds)})) = size BY <1>1, <1>4, CoveredAmount
<1> QED BY <1>1, <1>2, <1>3, <1>4, <1>5 DEF t, size

LEMMA PageCoversPlan ==
  ASSUME DeskIInv, FollowsLatest, ShowWallets
  PROVE  LET plan == deskLatest
             page == deskShown'
         IN /\ page.planned = plan.size
            /\ page.paper => /\ page.polymarket.balance = plan.simulation.funds
                             /\ page.polymarket.reserved + page.polymarket.available
                                  = page.polymarket.balance
                             /\ page.polymarket.reserved >= plan.simulation.reserved
                             /\ plan.codes = {} => page.polymarket.reserved = plan.size
            /\ ~page.real /\ plan.simulation.wallets > 0 => page.predict[1].net = plan.before
<1> DEFINE plan == deskLatest
           page == deskShown'
           t    == plan.simulation
<1>1. PICK o \in Options, real \in RealWallets :
        LET s     == ShownSimulation(FromEnv(o))
            paper == s.enabled /\ ~HasPolymarketWallet(real)
        IN deskShown' =
             [is         |-> "page",
              predict    |-> IF s.enabled /\ RealRows(real) = <<>> THEN PaperRows(s)
                             ELSE RealRows(real),
              real       |-> RealRows(real) # <<>>,
              paper      |-> paper,
              planned    |-> s.planned,
              polymarket |-> IF HasPolymarketWallet(real) THEN PolymarketWallet(real)
                             ELSE IF paper THEN PaperPolymarketWallet(s)
                             ELSE Normalized(0, 0)]
  BY DEF ShowWallets
<1> DEFINE s    == ShownSimulation(FromEnv(o))
           rows == RealRows(real)
           has  == HasPolymarketWallet(real)
<1>2. /\ s.enabled /\ s.wallets = t.wallets /\ s.net = plan.before
      /\ s.funds = t.funds /\ s.planned = plan.size /\ s.reserved = plan.size
  BY LatestIsShown
<1> HIDE DEF s, rows, has
<1>3. /\ page.planned = s.planned
      /\ page.paper = (s.enabled /\ ~has)
      /\ page.real = (rows # <<>>)
      /\ ~page.real => page.predict = PaperRows(s)
      /\ page.paper => page.polymarket = PaperPolymarketWallet(s)
  BY <1>1, <1>2 DEF s, rows, has
<1> HIDE DEF page
<1>4. /\ t.funds \in Nat /\ WholeCents(t.funds) /\ plan.size \in 0..t.funds
      /\ WholeCents(plan.size) /\ t.wallets \in Nat
      /\ t.reserved = IF plan.codes = {} THEN plan.size ELSE 0
  BY DEF DeskIInv, FollowsLatest, Shrinks, Described
<1> HIDE DEF plan, t
<1>5. LET f == PaperPolymarketWallet(s)
      IN /\ f.balance = t.funds /\ f.reserved = plan.size
         /\ f.reserved + f.available = t.funds
  BY <1>2, <1>4, NormalizedCents DEF PaperPolymarketWallet
<1>6. page.paper => /\ page.polymarket.balance = t.funds
                    /\ page.polymarket.reserved + page.polymarket.available
                         = page.polymarket.balance
                    /\ page.polymarket.reserved >= t.reserved
                    /\ page.polymarket.reserved = plan.size
  <2>1. plan.size >= t.reserved BY <1>4
  <2> QED BY <1>3, <1>5, <2>1
<1>7. ASSUME ~page.real, t.wallets > 0
      PROVE  page.predict[1].net = plan.before
  <2>1. PaperRows(s)[1].net = s.net
    <3>1. 1 \in 1..s.wallets BY <1>2, <1>4, <1>7
    <3> QED BY <3>1 DEF PaperRows
  <2> QED BY <1>2, <1>3, <1>7, <2>1
<1> QED BY <1>2, <1>3, <1>6, <1>7 DEF plan, page, t

\* The page the dashboard shows covers the latest plan, with whatever settings and real
\* wallets its process was started (wallet-manager.ts:224-526).
THEOREM PagesCoverPlans == DeskSpec => ShownCoversPlan
<1>1. DeskInit => DeskIInv BY DEF DeskInit, DeskIInv, HasPlan, Nothing
<1>2. DeskIInv /\ [DeskNext]_deskVars =>
        [FollowsLatest /\ deskShown' # deskShown /\ deskShown' # Nothing =>
           LET plan == deskLatest
               page == deskShown'
           IN /\ page.planned = plan.size
              /\ page.paper => /\ page.polymarket.balance = plan.simulation.funds
                               /\ page.polymarket.reserved + page.polymarket.available
                                    = page.polymarket.balance
                               /\ page.polymarket.reserved >= plan.simulation.reserved
                               /\ plan.codes = {} => page.polymarket.reserved = plan.size
              /\ ~page.real /\ plan.simulation.wallets > 0 => page.predict[1].net = plan.before
        ]_deskVars
  <2> SUFFICES ASSUME DeskIInv, [DeskNext]_deskVars, FollowsLatest,
                      deskShown' # deskShown, deskShown' # Nothing
               PROVE  ShowWallets
    BY PageCoversPlan
  <2> QED BY DEF DeskNext, Publish, LeavePage, deskVars
<1> QED BY <1>1, <1>2, DeskStep, PTL DEF DeskSpec, ShownCoversPlan

-----------------------------------------------------------------------------
(* The hedge planner                                                         *)

Cents == {x \in Nat : WholeCents(x)}

ExposureType == [long : Cents, short : Cents]

Position == [market : Market, side : Side, stated : Amounts]

\* The exposures are of the markets met, in whole cents, and what their positions sum
\* to; what the plans say of them holds as long as the plans stand.
PlanningIInv ==
  /\ positions \in Seq(Position)
  /\ \A m \in DOMAIN exposures : exposures[m] \in ExposureType
  /\ ExposuresAreSums
  /\ HedgesReduceExposure

LEMMA NetType ==
  ASSUME NEW e \in ExposureType
  PROVE  /\ Net(e) \in Int /\ Magnitude(Net(e)) \in Nat
         /\ Net(e) # 0 => Magnitude(Net(e)) >= 4
BY DEF ExposureType, Cents, WholeCents, Cent, Net, Magnitude

\* The hedge size is a part of the exposure and of the depth, and not nothing.
LEMMA HedgeSizeType ==
  ASSUME NEW cfg \in ConfigType, NEW c \in CandidateType, NEW net \in Int,
         net # 0 => Magnitude(net) >= 4
  PROVE  LET size == HedgeSize(net, c, cfg) IN
         /\ size \in 0..Magnitude(net) /\ size <= cfg.maxOrder
         /\ 4 * size <= MarketDepth(c) * cfg.usage
         /\ net # 0 /\ MarketDepth(c) >= cfg.minDepth => size > 0
<1> DEFINE part == (Magnitude(net) * cfg.ratio) \div 4
           use  == MarketDepth(c) * cfg.usage
           room == use \div 4
           size == HedgeSize(net, c, cfg)
<1>1. /\ cfg.ratio \in 1..4 /\ cfg.usage \in 1..4 /\ cfg.maxOrder \in Nat \ {0}
      /\ cfg.minDepth \in Nat \ {0}
  BY DEF ConfigType
<1>2. Magnitude(net) \in Nat BY DEF Magnitude
<1>3. part \in 0..Magnitude(net) /\ (net # 0 => part >= 1)
  <2>1. cfg.ratio \in 0..4 /\ cfg.ratio # 0 BY <1>1
  <2> QED BY <1>2, <2>1, QuarterOf
<1>4. MarketDepth(c) \in Nat /\ (MarketDepth(c) > 0 => MarketDepth(c) >= 4)
  <2>1. c.depth \in Int /\ WholeCents(c.depth) BY DEF CandidateType
  <2> QED BY <2>1 DEF MarketDepth, AtLeastZero, WholeCents, Cent
<1>5. room \in Nat /\ 4 * room <= use /\ (MarketDepth(c) > 0 => room >= 1)
  <2>1. cfg.usage \in 0..4 /\ cfg.usage # 0 BY <1>1
  <2>2. room \in 0..MarketDepth(c) /\ (MarketDepth(c) >= 4 => room >= 1)
    BY <1>4, <2>1, QuarterOf
  <2>3. use \in Nat
    <3>1. \A a, b \in Nat : a * b \in Nat OBVIOUS
    <3> QED BY <1>1, <1>4, <3>1
  <2>4. 4 * room <= use
    <3> HIDE DEF use
    <3> QED BY <2>3
  <2> HIDE DEF room, use
  <2> QED BY <1>4, <2>2, <2>4
<1>6. size = Min({part, cfg.maxOrder, room}) BY DEF HedgeSize
<1>7. size \in {part, cfg.maxOrder, room} /\ size <= part /\ size <= cfg.maxOrder
      /\ size <= room
  <2>1. part \in Int /\ cfg.maxOrder \in Int /\ room \in Int
    <3> HIDE DEF part, room
    <3> QED BY <1>1, <1>2, <1>3, <1>5
  <2> HIDE DEF part, room, size
  <2> QED BY <1>6, <2>1, MinOfThree
<1> HIDE DEF part, room, size
<1>8. size \in 0..Magnitude(net) BY <1>1, <1>2, <1>3, <1>5, <1>7
<1>9. 4 * size <= use
  <2>1. use \in Int
    <3>1. \A a, b \in Nat : a * b \in Int OBVIOUS
    <3> QED BY <1>1, <1>4, <3>1
  <2> HIDE DEF use
  <2> QED BY <1>2, <1>5, <1>7, <1>8, <2>1
<1>10. net # 0 /\ MarketDepth(c) >= cfg.minDepth => size > 0
  BY <1>1, <1>3, <1>4, <1>5, <1>7
<1> QED BY <1>7, <1>8, <1>9, <1>10 DEF size

\* A plan for an exposure in whole cents is sound when no code stands against it.
LEMMA PlanIsSound ==
  ASSUME NEW cfg \in ConfigType, NEW candidates \in Candidates, NEW m,
         exposures[m] \in ExposureType, PlanFor(m, candidates, cfg).codes = {}
  PROVE  Sound(m, PlanFor(m, candidates, cfg), candidates, cfg)
<1> DEFINE net      == Net(exposures[m])
           matching == Matching(EventOf[m], candidates, cfg)
           i        == Min(matching)
           c        == candidates[i]
           size     == HedgeSize(net, c, cfg)
           plan     == PlanFor(m, candidates, cfg)
<1>1. matching # {}
  <2>1. CASE matching = {}
    <3>1. plan = PlanWithoutCandidate(net, cfg) BY <2>1 DEF PlanFor
    <3> QED BY <3>1 DEF PlanWithoutCandidate
  <2> QED BY <2>1
<1>2. plan = PlanWithCandidate(net, EventOf[m], i, candidates, cfg) BY <1>1 DEF PlanFor
<1>3. i \in matching
  <2>1. DOMAIN candidates \subseteq Nat BY PlanningAssumption
  <2>2. matching \subseteq Nat BY <2>1 DEF Matching
  <2> HIDE DEF matching
  <2> QED BY <1>1, <2>2, LeastNatural
<1>4. i \in DOMAIN candidates /\ (c.event = EventOf[m] \/ (~cfg.sameEvent /\ cfg.correlated))
  BY <1>3 DEF Matching
<1>5. c \in CandidateType
  <2>1. candidates \in Seq(CandidateType) BY PlanningAssumption
  <2> HIDE DEF i
  <2> QED BY <1>4, <2>1
<1>6. net \in Int /\ Magnitude(net) \in Nat /\ (net # 0 => Magnitude(net) >= 4)
  BY NetType
<1> HIDE DEF net, matching, i, c, size, plan
<1>7. /\ size \in 0..Magnitude(net) /\ size <= cfg.maxOrder
      /\ 4 * size <= MarketDepth(c) * cfg.usage
      /\ net # 0 /\ MarketDepth(c) >= cfg.minDepth => size > 0
  BY <1>5, <1>6, HedgeSizeType DEF size
<1>8. /\ plan.net = net /\ plan.size = size /\ plan.after = Magnitude(net) - size
      /\ plan.order = IF net = 0 \/ size <= 0 THEN "none" ELSE IF net < 0 THEN "YES" ELSE "NO"
      /\ plan.candidate = i
      /\ plan.codes = CandidateCodes(c, EventOf[m], cfg) \cup PlanCodes(net, size, cfg)
  BY <1>2 DEF PlanWithCandidate, size, c
<1>9. CandidateCodes(c, EventOf[m], cfg) = {} /\ PlanCodes(net, size, cfg) = {}
  BY <1>8 DEF plan
<1>10. ~(MarketAge(c) > cfg.maxAge) /\ ~(MarketDepth(c) < cfg.minDepth)
  BY <1>9 DEF CandidateCodes
<1>11. ~(size > 0 /\ size < cfg.minOrder) BY <1>9 DEF PlanCodes
<1>12. /\ cfg.maxOrder \in Nat /\ cfg.minOrder \in Nat /\ cfg.minDepth \in Nat
       /\ cfg.maxAge \in Nat
  BY DEF ConfigType
<1>13. c.age <= cfg.maxAge
  <2>1. c.age \in Int BY <1>5 DEF CandidateType
  <2> QED BY <1>10, <1>12, <2>1 DEF MarketAge, AtLeastZero
<1>14. net # 0 => size > 0
  <2>1. MarketDepth(c) \in Int
    <3>1. c.depth \in Int BY <1>5 DEF CandidateType
    <3> QED BY <3>1 DEF MarketDepth, AtLeastZero
  <2> QED BY <1>7, <1>10, <1>12, <2>1
<1>15. size \in Nat /\ size <= Magnitude(net) BY <1>6, <1>7
<1>16. plan.size \in 0..cfg.maxOrder /\ plan.after \in 0..Magnitude(plan.net)
  BY <1>6, <1>7, <1>8, <1>12, <1>15
<1>17. plan.net # 0 => /\ plan.size >= cfg.minOrder
                       /\ plan.after < Magnitude(plan.net)
                       /\ plan.order = IF plan.net > 0 THEN "NO" ELSE "YES"
  BY <1>6, <1>8, <1>11, <1>12, <1>14, <1>15
<1>18. /\ candidates[plan.candidate].event = EventOf[m] \/ (~cfg.sameEvent /\ cfg.correlated)
       /\ candidates[plan.candidate].age <= cfg.maxAge
       /\ 4 * plan.size <= MarketDepth(candidates[plan.candidate]) * cfg.usage
  BY <1>4, <1>7, <1>8, <1>13 DEF c
<1>19. Sound(m, plan, candidates, cfg) BY <1>4, <1>8, <1>16, <1>17, <1>18 DEF Sound
<1> QED BY <1>19 DEF plan

LEMMA PlanNet ==
  ASSUME NEW m, NEW candidates, NEW cfg
  PROVE  PlanFor(m, candidates, cfg).net = Net(exposures[m])
BY DEF PlanFor, PlanWithoutCandidate, PlanWithCandidate

\* What a call leaves behind, of all exposures or of the first.
LEMMA CallIsSound ==
  ASSUME PlanningIInv, NEW candidates \in Candidates, NEW raw \in Config,
         NEW markets \in SUBSET DOMAIN exposures, NEW accepted,
         accepted => \A m \in markets :
                       PlanFor(m, candidates, NormalizeHedgeConfig(raw)).codes = {},
         hedges' = <<[plans      |-> [m \in markets |->
                                        PlanFor(m, candidates, NormalizeHedgeConfig(raw))],
                      accepted   |-> accepted,
                      candidates |-> candidates,
                      config     |-> NormalizeHedgeConfig(raw)]>>,
         UNCHANGED <<positions, exposures>>
  PROVE  PlanningIInv'
<1> DEFINE cfg  == NormalizeHedgeConfig(raw)
           call == hedges'[1]
<1>1. cfg \in ConfigType BY PlanningAssumption
<1> HIDE DEF cfg
<1>2. /\ call.plans = [m \in markets |-> PlanFor(m, candidates, cfg)]
      /\ call.accepted = accepted /\ call.candidates = candidates /\ call.config = cfg
      /\ DOMAIN hedges' = {1}
  BY DEF cfg
<1>3. \A m \in markets :
        /\ call.plans[m].net = Net(exposures[m])
        /\ call.plans[m].codes = {} => Sound(m, call.plans[m], candidates, cfg)
  <2> TAKE m \in markets
  <2>1. exposures[m] \in ExposureType BY DEF PlanningIInv
  <2>2. call.plans[m] = PlanFor(m, candidates, cfg) BY <1>2
  <2> HIDE DEF call
  <2> QED BY <1>1, <2>1, <2>2, PlanNet, PlanIsSound
<1>4. accepted => \A m \in markets : call.plans[m].codes = {} BY <1>2 DEF cfg
<1>5. HedgesReduceExposure'
  <2> HIDE DEF call
  <2>1. DOMAIN call.plans = markets BY <1>2
  <2>2. exposures' = exposures OBVIOUS
  <2> QED BY <1>2, <1>3, <1>4, <2>1, <2>2 DEF HedgesReduceExposure, call
<1>6. ExposuresAreSums' BY DEF PlanningIInv, ExposuresAreSums, SumOf, Taken, Sizes
<1> QED BY <1>5, <1>6 DEF PlanningIInv

LEMMA SizesType ==
  ASSUME positions \in Seq(Position)
  PROVE  /\ DOMAIN Sizes = 1..Len(positions) /\ Len(positions) \in Nat
         /\ \A i \in DOMAIN positions : Sizes[i] \in Int
         /\ \A m, side : /\ Taken(m, side) \subseteq 1..Len(positions)
                         /\ IsFiniteSet(Taken(m, side))
<1>1. DOMAIN positions = 1..Len(positions) /\ Len(positions) \in Nat OBVIOUS
<1>2. \A i \in DOMAIN positions : positions[i].stated \in Amounts
  <2>1. \A i \in DOMAIN positions : positions[i] \in Position OBVIOUS
  <2> QED BY <2>1 DEF Position
<1>3. \A i \in DOMAIN positions : Sizes[i] \in Int
  BY <1>2, PlanningAssumption DEF Sizes, Magnitude
<1>4. \A m, side : Taken(m, side) \subseteq 1..Len(positions) BY <1>1 DEF Taken
<1>5. IsFiniteSet(1..Len(positions)) BY <1>1, FS_Interval
<1>6. \A m, side : IsFiniteSet(Taken(m, side)) BY <1>4, <1>5, FS_Subset
<1> QED BY <1>1, <1>3, <1>4, <1>6 DEF Sizes

\* One position more adds its size to the sum of its market and side.
LEMMA SumAfterPosition ==
  ASSUME positions \in Seq(Position), NEW m \in Market, NEW side \in Side,
         NEW stated \in Amounts,
         positions' = Append(positions, [market |-> m, side |-> side, stated |-> stated]),
         NEW k, NEW s
  PROVE  SumOf(k, s)' = SumOf(k, s) + (IF k = m /\ s = side
                                       THEN Magnitude(PositionUsd(stated)) ELSE 0)
<1> DEFINE n == Len(positions)
           f == Sizes
           g == Sizes'
           old == Taken(k, s)
           new == Taken(k, s)'
<1>1. positions' \in Seq(Position) BY DEF Position
<1>2. /\ n \in Nat /\ DOMAIN positions = 1..n /\ DOMAIN positions' = 1..(n + 1)
      /\ \A i \in 1..n : positions'[i] = positions[i]
      /\ positions'[n + 1] = [market |-> m, side |-> side, stated |-> stated]
  OBVIOUS
<1>3. /\ \A i \in 1..n : g[i] = f[i]
      /\ g[n + 1] = Magnitude(PositionUsd(stated))
  BY <1>2 DEF Sizes
<1>4. /\ \A i \in 1..n : f[i] \in Int
      /\ old \subseteq 1..n /\ IsFiniteSet(old)
  BY <1>2, SizesType
<1>5. g[n + 1] \in Int BY <1>3, PlanningAssumption DEF Magnitude
<1>6. SumOf(k, s) = SumFunctionOnSet(f, old) /\ SumOf(k, s)' = SumFunctionOnSet(g, new)
  BY DEF SumOf
<1>7. new = IF k = m /\ s = side THEN old \cup {n + 1} ELSE old BY <1>2 DEF Taken
<1> HIDE DEF f, g, old, new, n
<1>8. SumFunctionOnSet(g, old) = SumFunctionOnSet(f, old)
  <2>1. \A i \in old : f[i] \in Int /\ g[i] = f[i] BY <1>3, <1>4
  <2> QED BY <1>4, <2>1, SumOfSame
<1>9. SumFunctionOnSet(f, old) \in Int
  <2>1. \A i \in old : f[i] \in Int BY <1>4
  <2> QED BY <1>4, <2>1, SumUnfolds
<1>10. CASE k = m /\ s = side
  <2>1. n + 1 \in new /\ new \ {n + 1} = old BY <1>2, <1>4, <1>7, <1>10
  <2>2. IsFiniteSet(new) BY <1>4, <1>7, <1>10, FS_AddElement
  <2>3. \A i \in new : g[i] \in Int BY <1>3, <1>4, <1>5, <1>7, <1>10
  <2>4. SumFunctionOnSet(g, new) = g[n + 1] + SumFunctionOnSet(g, old)
    BY <2>1, <2>2, <2>3, SumTakesOut
  <2> QED BY <1>3, <1>5, <1>6, <1>8, <1>9, <1>10, <2>4
<1>11. CASE ~(k = m /\ s = side) BY <1>6, <1>7, <1>8, <1>9, <1>11
<1> QED BY <1>10, <1>11

\* So the map that calculatePredictExposure builds has the sums.
LEMMA SumsAfterPosition ==
  ASSUME PlanningIInv, NEW m \in Market, NEW side \in Side, NEW stated \in Amounts,
         TakePosition(m, side, stated)
  PROVE  ExposuresAreSums'
<1> DEFINE usd == Magnitude(PositionUsd(stated))
           e   == Current(m)
<1>1. positions \in Seq(Position) /\ ExposuresAreSums BY DEF PlanningIInv
<1>2. positions' = Append(positions, [market |-> m, side |-> side, stated |-> stated])
  BY DEF TakePosition
<1>3. exposures' = [k \in DOMAIN exposures \cup {m} |->
                      IF k = m THEN Exposed(e, side, PositionUsd(stated)) ELSE exposures[k]]
  BY DEF TakePosition
<1>4. \A k, s : SumOf(k, s)' = SumOf(k, s) + (IF k = m /\ s = side THEN usd ELSE 0)
  BY <1>1, <1>2, SumAfterPosition
<1>5. \A k, s : SumOf(k, s) \in Int
  <2> TAKE k, s
  <2>0. Taken(k, s) \subseteq DOMAIN positions BY DEF Taken
  <2>1. IsFiniteSet(Taken(k, s)) /\ \A i \in Taken(k, s) : Sizes[i] \in Int
    BY <1>1, <2>0, SizesType
  <2> QED BY <2>1, SumUnfolds DEF SumOf
<1>6. usd \in Int BY PlanningAssumption DEF Magnitude
<1>7. \A k \in DOMAIN exposures :
        exposures[k] = [long |-> SumOf(k, "long"), short |-> SumOf(k, "short")]
  BY <1>1 DEF ExposuresAreSums
<1>8. e = [long |-> SumOf(m, "long"), short |-> SumOf(m, "short")]
  <2>1. CASE m \in DOMAIN exposures BY <1>7, <2>1 DEF Current
  <2>2. CASE m \notin DOMAIN exposures
    <3>1. \A s : Taken(m, s) = {} BY <1>1, <2>2 DEF ExposuresAreSums, Taken
    <3>2. IsFiniteSet({}) BY FS_EmptySet
    <3>3. SumFunctionOnSet(Sizes, {}) = 0 BY <3>2, SumUnfolds
    <3>4. \A s : SumOf(m, s) = 0 BY <3>1, <3>3 DEF SumOf
    <3> QED BY <2>2, <3>4 DEF Current
  <2> QED BY <2>1, <2>2
<1>9. Exposed(e, side, PositionUsd(stated))
        = [long |-> SumOf(m, "long")', short |-> SumOf(m, "short")']
  <2>1. Exposed(e, side, PositionUsd(stated))
          = [long  |-> SumOf(m, "long") + (IF side = "long" THEN usd ELSE 0),
             short |-> SumOf(m, "short") + (IF side = "short" THEN usd ELSE 0)]
    <3> HIDE DEF e
    <3>1. SumOf(m, "long") \in Int /\ SumOf(m, "short") \in Int BY <1>5
    <3>2. CASE side = "long" BY <1>6, <1>8, <3>1, <3>2 DEF Exposed
    <3>3. CASE side = "short" BY <1>6, <1>8, <3>1, <3>3 DEF Exposed
    <3>4. CASE side = "other" BY <1>6, <1>8, <3>1, <3>4 DEF Exposed
    <3> QED BY <3>2, <3>3, <3>4 DEF Side
  <2>2. /\ SumOf(m, "long")' = SumOf(m, "long") + (IF side = "long" THEN usd ELSE 0)
        /\ SumOf(m, "short")' = SumOf(m, "short") + (IF side = "short" THEN usd ELSE 0)
    BY <1>4
  <2> QED BY <2>1, <2>2
<1>10. \A k \in DOMAIN exposures' :
         exposures'[k] = [long |-> SumOf(k, "long")', short |-> SumOf(k, "short")']
  <2> TAKE k \in DOMAIN exposures'
  <2>1. CASE k = m BY <1>3, <1>9, <2>1
  <2>2. CASE k # m
    <3>1. k \in DOMAIN exposures /\ exposures'[k] = exposures[k] BY <1>3, <2>2
    <3>2. SumOf(k, "long")' = SumOf(k, "long") /\ SumOf(k, "short")' = SumOf(k, "short")
      BY <1>4, <1>5, <2>2
    <3> QED BY <1>7, <3>1, <3>2
  <2> QED BY <2>1, <2>2
<1>11. DOMAIN exposures' = {positions'[i].market : i \in DOMAIN positions'}
  <2>1. DOMAIN exposures' = {positions[i].market : i \in DOMAIN positions} \cup {m}
    BY <1>1, <1>3 DEF ExposuresAreSums
  <2> DEFINE n == Len(positions)
  <2>2. /\ n \in Nat /\ DOMAIN positions = 1..n /\ DOMAIN positions' = 1..(n + 1)
        /\ \A i \in 1..n : positions'[i] = positions[i]
        /\ positions'[n + 1].market = m
    BY <1>1, <1>2
  <2> HIDE DEF n
  <2>3. 1..(n + 1) = 1..n \cup {n + 1} BY <2>2
  <2> QED BY <2>1, <2>2, <2>3
<1> QED BY <1>10, <1>11 DEF ExposuresAreSums

LEMMA TakeStep ==
  ASSUME PlanningIInv, NEW m \in Market, NEW side \in Side, NEW stated \in Amounts,
         TakePosition(m, side, stated)
  PROVE  PlanningIInv'
<1> DEFINE usd == PositionUsd(stated)
<1>1. Magnitude(usd) \in Cents
  <2>1. usd \in Int /\ WholeCents(usd) BY PlanningAssumption
  <2> HIDE DEF usd
  <2> QED BY <2>1 DEF Magnitude, Cents, WholeCents, Cent
<1>2. Current(m) \in ExposureType
  <2>1. 0 \in Cents BY DEF Cents, WholeCents, Cent
  <2> QED BY <2>1 DEF Current, ExposureType, PlanningIInv
<1> HIDE DEF usd
<1>3. \A x \in Cents : x + Magnitude(usd) \in Cents
  <2> TAKE x \in Cents
  <2> DEFINE y == Magnitude(usd)
  <2>1. x \in Nat /\ y \in Nat /\ WholeCents(x) /\ WholeCents(y) BY <1>1 DEF Cents
  <2> HIDE DEF y
  <2>2. x + y \in Nat /\ WholeCents(x + y) BY <2>1, DifferenceOfCents
  <2>3. x + y \in Cents BY <2>2 DEF Cents
  <2> QED BY <2>3 DEF y
<1>4. Exposed(Current(m), side, usd) \in ExposureType
  <2> DEFINE e == Current(m)
             l == e.long + Magnitude(usd)
             t == e.short + Magnitude(usd)
  <2>1. e \in ExposureType BY <1>2
  <2>2. l \in Cents /\ t \in Cents BY <1>3, <2>1 DEF ExposureType
  <2>3. /\ side = "long" => Exposed(e, side, usd) = [e EXCEPT !.long = l]
        /\ side = "short" => Exposed(e, side, usd) = [e EXCEPT !.short = t]
        /\ side = "other" => Exposed(e, side, usd) = e
    BY DEF Exposed
  <2>4. Exposed(e, side, usd) \in ExposureType
    <3> HIDE DEF e, l, t
    <3> QED BY <2>1, <2>2, <2>3 DEF Side, ExposureType
  <2> QED BY <2>4
<1>5. exposures' = [k \in DOMAIN exposures \cup {m} |->
                      IF k = m THEN Exposed(Current(m), side, usd) ELSE exposures[k]]
  BY DEF TakePosition, usd
<1>6. positions' = Append(positions, [market |-> m, side |-> side, stated |-> stated])
  BY DEF TakePosition
<1>7. \A k \in DOMAIN exposures' : exposures'[k] \in ExposureType
  BY <1>4, <1>5 DEF PlanningIInv
<1>8. positions' \in Seq(Position) BY <1>6 DEF PlanningIInv, Position
<1>9. ExposuresAreSums' BY SumsAfterPosition
<1>10. HedgesReduceExposure' BY DEF TakePosition, HedgesReduceExposure
<1> QED BY <1>7, <1>8, <1>9, <1>10 DEF PlanningIInv

LEMMA PlanningStep == PlanningIInv /\ [PlanningNext]_planningVars => PlanningIInv'
<1> SUFFICES ASSUME PlanningIInv, [PlanningNext]_planningVars PROVE PlanningIInv' OBVIOUS
<1>1. ASSUME NEW m \in Market, NEW side \in Side, NEW stated \in Amounts,
             TakePosition(m, side, stated)
      PROVE  PlanningIInv'
  BY <1>1, TakeStep
<1>2. ASSUME NEW candidates \in Candidates, NEW raw \in Config,
             PlanExposureHedges(candidates, raw)
      PROVE  PlanningIInv'
  <2> DEFINE cfg     == NormalizeHedgeConfig(raw)
             markets == {k \in DOMAIN exposures : cfg.enabled}
             plans   == [m \in markets |-> PlanFor(m, candidates, cfg)]
             all     == \A m \in DOMAIN plans : plans[m].codes = {}
  <2>1. /\ hedges' = <<[plans |-> plans, accepted |-> all, candidates |-> candidates,
                        config |-> cfg]>>
        /\ UNCHANGED <<positions, exposures>>
    BY <1>2 DEF PlanExposureHedges
  <2>2. markets \in SUBSET DOMAIN exposures OBVIOUS
  <2>3. all => \A m \in markets : PlanFor(m, candidates, cfg).codes = {} OBVIOUS
  <2> HIDE DEF markets, all
  <2> QED BY <2>1, <2>2, <2>3, CallIsSound
<1>3. ASSUME NEW candidates \in Candidates, NEW raw \in Config,
             BuildExposureHedgePlan(candidates, raw)
      PROVE  PlanningIInv'
  <2> DEFINE cfg     == NormalizeHedgeConfig(raw)
             markets == {positions[i].market : i \in {j \in DOMAIN positions :
                                                        j = 1 /\ cfg.enabled}}
             plans   == [m \in markets |-> PlanFor(m, candidates, cfg)]
             all     == markets # {} /\ \A m \in markets : plans[m].codes = {}
  <2>1. /\ hedges' = <<[plans |-> plans, accepted |-> all, candidates |-> candidates,
                        config |-> cfg]>>
        /\ UNCHANGED <<positions, exposures>>
    BY <1>3 DEF BuildExposureHedgePlan
  <2>2. markets \in SUBSET DOMAIN exposures BY DEF PlanningIInv, ExposuresAreSums
  <2>3. all => \A m \in markets : PlanFor(m, candidates, cfg).codes = {} OBVIOUS
  <2> HIDE DEF markets, all
  <2> QED BY <2>1, <2>2, <2>3, CallIsSound
<1>4. CASE NextEvaluation
  <2>1. hedges' = <<>> /\ positions' = <<>> /\ DOMAIN exposures' = {}
    BY <1>4 DEF NextEvaluation
  <2>2. ExposuresAreSums' BY <2>1 DEF ExposuresAreSums
  <2> QED BY <2>1, <2>2 DEF PlanningIInv, HedgesReduceExposure
<1>5. CASE UNCHANGED planningVars
  <2>1. ExposuresAreSums'
    BY <1>5 DEF planningVars, PlanningIInv, ExposuresAreSums, SumOf, Taken, Sizes
  <2> QED BY <1>5, <2>1 DEF planningVars, PlanningIInv, HedgesReduceExposure, Sound
<1> QED BY <1>1, <1>2, <1>3, <1>4, <1>5 DEF PlanningNext

LEMMA PlanningStarts == PlanningInit => PlanningIInv
<1> SUFFICES ASSUME PlanningInit PROVE PlanningIInv OBVIOUS
<1>1. positions = <<>> /\ hedges = <<>> /\ DOMAIN exposures = {} BY DEF PlanningInit
<1>2. ExposuresAreSums BY <1>1 DEF ExposuresAreSums
<1> QED BY <1>1, <1>2 DEF PlanningIInv, HedgesReduceExposure

\* A plan without a risk code goes against its exposure, never beyond it, and rests on
\* fresh data of a market of its event (hedge-planner.ts:239-337, hedge-risk.ts).
THEOREM HedgesReduce == PlanningSpec => []HedgesReduceExposure
<1>1. PlanningIInv => HedgesReduceExposure BY DEF PlanningIInv
<1> QED BY <1>1, PlanningStarts, PlanningStep, PTL DEF PlanningSpec

\* However many positions the accounts have and in whatever order they come, the exposure
\* of a market is what its positions sum to (exposure-calculator.ts:92-121).
THEOREM ExposuresStaySums == PlanningSpec => []ExposuresAreSums
<1>1. PlanningIInv => ExposuresAreSums BY DEF PlanningIInv
<1> QED BY <1>1, PlanningStarts, PlanningStep, PTL DEF PlanningSpec

-----------------------------------------------------------------------------
(* The rescue of a residual                                                  *)

Venues == {"predict", "polymarket"}

Decisions == [action  : {"OPEN", "NONE", "PAUSE", "SAFE_METHOD_REQUIRED", "BUY"},
              venue   : Venues \cup {"none"},
              shares  : Nat,
              account : Rescuer,
              pause   : BOOLEAN]

RescueType == /\ bought \in [Venues -> Nat]
              /\ rescue \in Decisions
              /\ late \in BOOLEAN

LEMMA NoOrderType ==
  ASSUME NEW action \in {"OPEN", "NONE", "PAUSE", "SAFE_METHOD_REQUIRED"},
         NEW pause \in BOOLEAN
  PROVE  /\ NoOrder(action, pause) \in Decisions
         /\ NoOrder(action, pause).shares = 0
         /\ NoOrder(action, pause).pause = pause
         /\ NoOrder(action, pause).action = action
<1>1. Original \in Rescuer BY RescueAssumption DEF Original, Rescuer
<1> QED BY <1>1 DEF NoOrder, Decision, Decisions

\* What rescueResidual may answer.
Answers(d) ==
  \/ d.shares = 0 /\ (Residual = 0 \/ d.pause \/ d.action = "SAFE_METHOD_REQUIRED")
  \/ /\ Residual # 0 /\ d.shares = ResidualShares
     /\ d.venue = IF Residual > 0 THEN "polymarket" ELSE "predict"
     /\ d.venue = "predict" => d.account # Original

\* An order at work is for the side that is behind, unless a leg has filled since.
RescueIInv ==
  /\ RescueType
  /\ rescue.shares > 0 => rescue.venue \in Venues
  /\ rescue.shares > 0 /\ ~late =>
       /\ rescue.shares = ResidualShares
       /\ rescue.venue = IF Residual > 0 THEN "polymarket" ELSE "predict"

LEMMA RescueStarts == RescueInit => RescueIInv
<1> SUFFICES ASSUME RescueInit PROVE RescueIInv OBVIOUS
<1>1. bought \in [Venues -> Nat] BY RescueAssumption DEF RescueInit, Venues
<1>2. rescue \in Decisions /\ rescue.shares = 0 BY NoOrderType DEF RescueInit
<1>3. late \in BOOLEAN BY DEF RescueInit
<1>4. ~(rescue.shares > 0) BY <1>2
<1> QED BY <1>1, <1>2, <1>3, <1>4 DEF RescueIInv, RescueType

LEMMA ResidualType == RescueType => Residual \in Int /\ ResidualShares \in Nat
BY DEF RescueType, Venues, Residual, ResidualShares

LEMMA NextReadyType ==
  ASSUME NEW ready \in SUBSET Rescuer, NEW lastUsed \in Rescuer
  PROVE  NextReady(ready, lastUsed) \in Rescuer
<1> DEFINE others == ready \ {Original}
           behind == {a \in others : a > lastUsed}
<1>1. Rescuer \subseteq Nat /\ Original \in Rescuer
  BY RescueAssumption DEF Rescuer, Original
<1>2. others # {} => Min(others) \in others BY <1>1, LeastNatural
<1>3. behind # {} => Min(behind) \in behind BY <1>1, LeastNatural
<1> QED BY <1>1, <1>2, <1>3 DEF NextReady

\* Every answer is a pause or a demand, or buys the residual where it is missing.
LEMMA AnswerType ==
  ASSUME RescueType, NEW price \in Price, NEW ready \in SUBSET Rescuer,
         NEW lastUsed \in Rescuer
  PROVE  /\ RescueResidual(price, ready, lastUsed) \in Decisions
         /\ Answers(RescueResidual(price, ready, lastUsed))
<1> DEFINE next == NextReady(ready, lastUsed)
           d    == RescueResidual(price, ready, lastUsed)
<1>1. Residual \in Int /\ ResidualShares \in Nat BY ResidualType
<1>2. next \in Rescuer /\ Original \in Rescuer
  BY NextReadyType, RescueAssumption DEF Original, Rescuer
<1>3. ASSUME NEW v \in Venues, NEW a \in Rescuer
      PROVE  /\ Buys(v, a) \in Decisions /\ Buys(v, a).shares = ResidualShares
             /\ Buys(v, a).venue = v /\ Buys(v, a).account = a
  BY <1>1 DEF Buys, Decision, Decisions
<1>4. CASE Residual = 0
  <2>1. d = NoOrder("NONE", FALSE) BY <1>4 DEF RescueResidual
  <2> HIDE DEF d
  <2>2. d \in Decisions /\ Answers(d) BY <1>4, <2>1, NoOrderType DEF Answers
  <2> QED BY <2>2 DEF d
<1>5. CASE Residual # 0 /\ (unhedged > MaxUnhedged \/ RescueLoss(price) > MaxLoss)
  <2>1. d = NoOrder("PAUSE", TRUE) BY <1>5 DEF RescueResidual
  <2> HIDE DEF d
  <2>2. d \in Decisions /\ Answers(d) BY <2>1, NoOrderType DEF Answers
  <2> QED BY <2>2 DEF d
<1>6. CASE Residual # 0 /\ ~(unhedged > MaxUnhedged \/ RescueLoss(price) > MaxLoss)
  <2>1. d = IF Residual > 0 THEN Buys("polymarket", Original)
            ELSE IF next = Original THEN WithoutAccount
            ELSE Buys("predict", next)
    BY <1>6 DEF RescueResidual
  <2> HIDE DEF d, next
  <2>2. CASE Residual > 0
    <3>1. d = Buys("polymarket", Original) BY <2>1, <2>2
    <3>2. d \in Decisions /\ d.shares = ResidualShares /\ d.venue = "polymarket"
      BY <1>2, <1>3, <3>1 DEF Venues
    <3> QED BY <1>6, <2>2, <3>2 DEF Answers, d
  <2>3. CASE ~(Residual > 0) /\ next = Original
    <3>1. d = WithoutAccount BY <2>1, <2>3
    <3>2. d = NoOrder("SAFE_METHOD_REQUIRED", PauseOnResidual) \/ d = NoOrder("PAUSE", TRUE)
      BY <3>1 DEF WithoutAccount
    <3>3. d \in Decisions /\ d.shares = 0 /\ (d.pause \/ d.action = "SAFE_METHOD_REQUIRED")
      BY <3>2, NoOrderType, RescueAssumption
    <3> QED BY <3>3 DEF Answers, d
  <2>4. CASE ~(Residual > 0) /\ next # Original
    <3>1. d = Buys("predict", next) BY <2>1, <2>4
    <3>2. /\ d \in Decisions /\ d.shares = ResidualShares /\ d.venue = "predict"
          /\ d.account = next
      BY <1>2, <1>3, <3>1 DEF Venues
    <3> QED BY <1>6, <2>4, <3>2 DEF Answers, d
  <2> QED BY <2>2, <2>3, <2>4 DEF d
<1> QED BY <1>4, <1>5, <1>6

LEMMA RescueStep == RescueIInv /\ [RescueNext]_rescueVars => RescueIInv'
<1> SUFFICES ASSUME RescueIInv, [RescueNext]_rescueVars PROVE RescueIInv' OBVIOUS
<1>1. CASE Decide
  <2>1. PICK price \in Price, ready \in SUBSET Rescuer, lastUsed \in Rescuer :
          /\ rescue' = RescueResidual(price, ready, lastUsed)
          /\ late' = FALSE
          /\ UNCHANGED <<bought, unhedged>>
    BY <1>1 DEF Decide
  <2>2. Residual' = Residual /\ ResidualShares' = ResidualShares
    BY <2>1 DEF Residual, ResidualShares
  <2>3. RescueType BY DEF RescueIInv
  <2>4. rescue' \in Decisions /\ Answers(rescue') BY <2>1, <2>3, AnswerType
  <2>5. rescue'.shares > 0 =>
          /\ rescue'.shares = ResidualShares
          /\ rescue'.venue = IF Residual > 0 THEN "polymarket" ELSE "predict"
    BY <2>4 DEF Answers
  <2>6. RescueType' BY <2>1, <2>3, <2>4 DEF RescueType
  <2> QED BY <2>2, <2>5, <2>6 DEF RescueIInv, Venues
<1>2. CASE RescueFills
  <2>0. rescue.shares > 0 /\ rescue.venue \in Venues /\ rescue.shares \in Nat
    BY <1>2 DEF RescueFills, RescueIInv, RescueType, Decisions
  <2>1. PICK x \in 0..rescue.shares : bought' = [bought EXCEPT ![rescue.venue] = @ + x]
    BY <1>2 DEF RescueFills
  <2>2. rescue' = [rescue EXCEPT !.shares = 0] /\ late' = late
    BY <1>2 DEF RescueFills
  <2>3. bought' \in [Venues -> Nat] BY <2>0, <2>1 DEF RescueIInv, RescueType
  <2>4. rescue'.shares = 0 /\ rescue' \in Decisions
    BY <2>2 DEF RescueIInv, RescueType, Decisions
  <2> QED BY <2>2, <2>3, <2>4 DEF RescueIInv, RescueType
<1>3. ASSUME NEW v \in Venues, LegFills(v) PROVE RescueIInv'
  BY <1>3 DEF LegFills, RescueIInv, RescueType
<1>4. CASE Tick
  BY <1>4 DEF Tick, RescueIInv, RescueType, Residual, ResidualShares
<1>5. CASE NextHedge
  <2>1. bought' \in [Venues -> Nat] BY <1>5, RescueAssumption DEF NextHedge, Venues
  <2>2. rescue' \in Decisions /\ rescue'.shares = 0 BY <1>5, NoOrderType DEF NextHedge
  <2>3. late' \in BOOLEAN BY <1>5 DEF NextHedge
  <2>4. ~(rescue'.shares > 0) BY <2>2
  <2> QED BY <2>1, <2>2, <2>3, <2>4 DEF RescueIInv, RescueType
<1>6. CASE UNCHANGED rescueVars
  BY <1>6 DEF rescueVars, RescueIInv, RescueType, Residual, ResidualShares
<1> QED BY <1>1, <1>2, <1>3, <1>4, <1>5, <1>6 DEF RescueNext, Venues

LEMMA FillNarrows ==
  ASSUME RescueIInv, RescueNext, rescue.shares > 0, rescue'.shares = 0, ~late
  PROVE  /\ ResidualShares' <= ResidualShares
         /\ Residual > 0 => Residual' >= 0
         /\ Residual < 0 => Residual' <= 0
<1>0. rescue.shares # 0 /\ rescue' # rescue BY DEF RescueIInv, RescueType, Decisions
<1>1. RescueFills
  BY <1>0 DEF RescueNext, Decide, LegFills, Tick, NextHedge
<1>2. PICK x \in 0..rescue.shares : bought' = [bought EXCEPT ![rescue.venue] = @ + x]
  BY <1>1 DEF RescueFills
<1>3. /\ rescue.shares = ResidualShares
      /\ rescue.venue = IF Residual > 0 THEN "polymarket" ELSE "predict"
  BY DEF RescueIInv
<1>4. Residual \in Int /\ ResidualShares \in Nat BY ResidualType DEF RescueIInv
<1>5. x \in 0..ResidualShares BY <1>2, <1>3
<1>6. Residual' = IF Residual > 0 THEN Residual - x ELSE Residual + x
  BY <1>2, <1>3, <1>5 DEF Residual, RescueIInv, RescueType, Venues
<1>7. ResidualShares' = IF Residual' < 0 THEN -Residual' ELSE Residual' BY DEF ResidualShares
<1>8. ResidualShares = IF Residual < 0 THEN -Residual ELSE Residual BY DEF ResidualShares
<1> QED BY <1>4, <1>5, <1>6, <1>7, <1>8

\* A rescue order narrows the exposure and never turns it round, as long as no leg
\* that was counted as over fills behind it (rescue.ts:51-129).
THEOREM RescuesNarrow == RescueSpec => RescueNarrows
<1>1. RescueIInv /\ [RescueNext]_rescueVars =>
        [rescue.shares > 0 /\ rescue'.shares = 0 /\ ~late =>
           /\ ResidualShares' <= ResidualShares
           /\ Residual > 0 => Residual' >= 0
           /\ Residual < 0 => Residual' <= 0]_rescueVars
  BY FillNarrows
<1> QED BY <1>1, RescueStarts, RescueStep, PTL DEF RescueSpec, RescueNarrows

\* A residual is answered by an order on the side that is behind, of another Predict
\* account if it is Predict's, by a pause, or by the demand for the configured method
\* (rescue.ts:51-129).
THEOREM ResidualsAreAnswered == RescueSpec => ResidualIsAnswered
<1>1. RescueIInv /\ [RescueNext]_rescueVars =>
        [rescue' # rescue /\ rescue'.action \notin {"OPEN"} /\ rescue.shares = 0 /\ Residual # 0 =>
           \/ rescue'.pause
           \/ rescue'.action = "SAFE_METHOD_REQUIRED"
           \/ /\ rescue'.shares = ResidualShares
              /\ rescue'.venue = IF Residual > 0 THEN "polymarket" ELSE "predict"
              /\ rescue'.venue = "predict" => rescue'.account # Original]_rescueVars
  <2> SUFFICES ASSUME RescueIInv, RescueNext, rescue' # rescue, rescue'.action # "OPEN",
                      rescue.shares = 0, Residual # 0
               PROVE  \/ rescue'.pause
                      \/ rescue'.action = "SAFE_METHOD_REQUIRED"
                      \/ /\ rescue'.shares = ResidualShares
                         /\ rescue'.venue = IF Residual > 0 THEN "polymarket" ELSE "predict"
                         /\ rescue'.venue = "predict" => rescue'.account # Original
    OBVIOUS
  <2>1. ~NextHedge BY NoOrderType DEF NextHedge
  <2>2. Decide
    BY <2>1 DEF RescueNext, RescueFills, LegFills, Tick
  <2>3. PICK price \in Price, ready \in SUBSET Rescuer, lastUsed \in Rescuer :
          rescue' = RescueResidual(price, ready, lastUsed)
    BY <2>2 DEF Decide
  <2>4. Answers(rescue') BY <2>3, AnswerType DEF RescueIInv
  <2> QED BY <2>4 DEF Answers
<1> QED BY <1>1, RescueStarts, RescueStep, PTL DEF RescueSpec, ResidualIsAnswered

=============================================================================
