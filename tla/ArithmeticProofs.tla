-------------------------- MODULE ArithmeticProofs --------------------------
(***************************************************************************)
(* What the proofs of the adapters use of natural numbers: products,       *)
(* rounded quotients, and sums.                                            *)
(*                                                                         *)
(* SumFunctionOnSet of the community modules adds the values of a function *)
(* over a finite set by a recursive walk.  The lemmas say of it what the   *)
(* accounts of klend, Drift and Jupiter are reasoned about with: a total   *)
(* is the sum of its parts, changes by what one part changes, and is above *)
(* each of them.  The library's induction theorems take an operator as a   *)
(* parameter; induction is by least counterexamples here, from the         *)
(* well-foundedness of the natural numbers.                                *)
(***************************************************************************)
EXTENDS FiniteSetTheorems, TLAPS

-----------------------------------------------------------------------------
(* products and quotients *)

\* Quotients of natural numbers.
LEMMA DivNat ==
  ASSUME NEW a \in Nat, NEW b \in Nat \ {0}
  PROVE  a \div b \in Nat /\ b * (a \div b) <= a
  OBVIOUS

\* A quotient is the greatest number of times the divisor fits.
LEMMA QuotientBounds ==
  ASSUME NEW a \in Nat, NEW b \in Nat \ {0}
  PROVE  /\ a \div b \in Nat
         /\ (a \div b) * b <= a
         /\ a < (a \div b) * b + b
  OBVIOUS

\* Products of natural numbers.
LEMMA TimesNat ==
  ASSUME NEW a \in Nat, NEW b \in Nat
  PROVE  a * b \in Nat
  OBVIOUS

\* Products of positive numbers.
LEMMA TimesPos ==
  ASSUME NEW a \in Nat \ {0}, NEW b \in Nat \ {0}
  PROVE  a * b \in Nat \ {0}
  OBVIOUS

\* Products are monotone.
LEMMA TimesMonotone ==
  ASSUME NEW a \in Nat, NEW b \in Nat, NEW c \in Nat, NEW d \in Nat, a <= b, c <= d
  PROVE  a * c <= b * d /\ a * c \in Nat /\ b * d \in Nat
<1>1. a * c <= b * c /\ b * c <= b * d
  OBVIOUS
<1>2. a * c \in Nat /\ b * c \in Nat /\ b * d \in Nat
  OBVIOUS
<1>3. QED
  BY <1>1, <1>2

\* A common factor of two products may be left out of their order.
LEMMA LessFactor ==
  ASSUME NEW m \in Nat, NEW n \in Nat, NEW b \in Nat \ {0}, m * b < n * b
  PROVE  m < n
<1>1. SUFFICES ASSUME n <= m PROVE FALSE
  OBVIOUS
<1>2. n * b <= m * b /\ n * b \in Nat /\ m * b \in Nat
  BY <1>1, TimesMonotone
<1>3. QED
  BY <1>2

\* A product of natural numbers has a natural quotient.
LEMMA QuotientNat ==
  ASSUME NEW a \in Nat, NEW b \in Nat, NEW c \in Nat \ {0}
  PROVE  (a * b) \div c \in Nat
  BY TimesNat, DivNat

\* A number whose multiple fits below another is at most the quotient.
LEMMA BelowQuotient ==
  ASSUME NEW a \in Nat, NEW b \in Nat \ {0}, NEW q \in Nat, b * q <= a
  PROVE  q <= a \div b
<1> DEFINE r == a \div b
<1>1. r \in Nat /\ a < b * (r + 1)
  OBVIOUS
<1> HIDE DEF r
<1>2. SUFFICES ASSUME q >= r + 1 PROVE FALSE
  BY <1>1 DEF r
<1>3. b * (r + 1) <= b * q
  BY <1>1, <1>2, TimesMonotone
<1>4. b * (r + 1) \in Nat /\ b * q \in Nat
  BY <1>1, TimesNat
<1>5. QED
  BY <1>1, <1>3, <1>4

\* A part of a whole is at most the whole.
LEMMA PartBelowWhole ==
  ASSUME NEW a \in Nat, NEW b \in Nat, NEW c \in Nat \ {0}, a <= c
  PROVE  (a * b) \div c <= b
<1> DEFINE q == (a * b) \div c
<1>1. a * b \in Nat /\ c * b \in Nat /\ a * b <= c * b
  BY TimesMonotone
<1>2. q \in Nat /\ q * c <= a * b
  BY <1>1, QuotientBounds
<1> HIDE DEF q
<1>3. q * c < (b + 1) * c
  <2>1. (b + 1) * c = c * b + c /\ q * c \in Nat
    BY <1>2
  <2>2. QED
    BY <1>1, <1>2, <2>1
<1>4. QED
  BY <1>2, <1>3, LessFactor DEF q

\* A pool of l behind s shares that grows by at least the worth of m new shares: no
\* share loses.
LEMMA MintKeepsRate ==
  ASSUME NEW l \in Nat, NEW paid \in Nat, NEW s \in Nat, NEW m \in Nat,
         paid * s >= m * l
  PROVE  (l + paid) * s >= l * (s + m)
<1>1. (l + paid) * s = l * s + paid * s
  OBVIOUS
<1>2. l * (s + m) = l * s + m * l
  OBVIOUS
<1>3. l * s \in Nat /\ paid * s \in Nat /\ m * l \in Nat
  BY TimesNat
<1>4. l * s + paid * s >= l * s + m * l
  BY <1>3
<1>5. QED
  BY <1>1, <1>2, <1>4, Zenon

\* The same of a pool that shrinks by at most the worth of m shares burned.
LEMMA BurnKeepsRate ==
  ASSUME NEW l \in Nat, NEW paid \in Nat, NEW s \in Nat, NEW m \in Nat,
         paid * s <= m * l
  PROVE  (l - paid) * s >= l * (s - m)
<1>1. (l - paid) * s = l * s - paid * s
  OBVIOUS
<1>2. l * (s - m) = l * s - m * l
  OBVIOUS
<1>3. l * s \in Nat /\ paid * s \in Nat /\ m * l \in Nat
  BY TimesNat
<1>4. l * s - paid * s >= l * s - m * l
  BY <1>3
<1>5. QED
  BY <1>1, <1>2, <1>4, Zenon

\* At a rate that has not fallen a share's part is worth no less, in whole units.
LEMMA RateLiftsValue ==
  ASSUME NEW x \in Nat, NEW v \in Nat, NEW w \in Nat,
         NEW s \in Nat \ {0}, NEW t \in Nat \ {0}, w * s >= v * t
  PROVE  (x * w) \div t >= (x * v) \div s
<1> DEFINE q == (x * v) \div s
<1>1. x * v \in Nat /\ x * w \in Nat /\ w * s \in Nat /\ v * t \in Nat
  BY TimesNat
<1>2. q \in Nat /\ q * s <= x * v
  BY <1>1, QuotientBounds
<1> HIDE DEF q
<1>3. x * (v * t) <= x * (w * s) /\ x * (v * t) \in Nat
  BY <1>1, TimesMonotone
<1>4. (q * s) * t <= (x * v) * t
  BY <1>1, <1>2, TimesMonotone, TimesNat
<1>5. (x * v) * t = x * (v * t) /\ x * (w * s) = (x * w) * s /\ (q * s) * t = (t * q) * s
  BY <1>2
<1>6. (t * q) * s < (x * w + 1) * s
  <2>1. (x * w + 1) * s = (x * w) * s + s /\ (t * q) * s \in Nat /\ (x * w) * s \in Nat
    BY <1>1, <1>2
  <2> DEFINE a == (t * q) * s
             b == (x * w) * s
             c == x * (v * t)
  <2>2. a <= c /\ c <= b /\ a \in Nat /\ b \in Nat /\ c \in Nat
    BY <1>3, <1>4, <1>5, <2>1
  <2> HIDE DEF a, b, c
  <2>3. a < b + s
    BY <2>2
  <2>4. QED
    BY <2>1, <2>3 DEF a, b
<1>7. t * q <= x * w
  <2>1. t * q \in Nat /\ x * w + 1 \in Nat
    BY <1>1, <1>2, TimesNat
  <2>2. t * q < x * w + 1
    BY <1>6, <2>1, LessFactor
  <2>3. QED
    BY <1>1, <2>1, <2>2
<1>8. q <= (x * w) \div t /\ (x * w) \div t \in Nat
  BY <1>1, <1>2, <1>7, BelowQuotient, DivNat
<1>9. QED
  BY <1>2, <1>8 DEF q

-----------------------------------------------------------------------------
(* induction *)

\* A set of natural numbers has a least one.
LEMMA LeastNumber ==
  ASSUME NEW T \in SUBSET Nat, T # {}
  PROVE  \E n \in T : \A m \in T : n <= m
<1>1. IsWellFoundedOn(OpToRel(<, Nat), Nat)
  BY NatLessThanWellFounded
<1>2. PICK n \in T : \A m \in T : ~ (<<m, n>> \in OpToRel(<, Nat))
  BY <1>1, WFMin, Zenon
<1>3. ASSUME NEW m \in T PROVE n <= m
  <2>1. OpToRel(<, Nat) = {p \in Nat \X Nat : p[1] < p[2]}
    BY Zenon DEF OpToRel
  <2>2. <<m, n>> \in Nat \X Nat /\ ~ (m < n)
    BY <1>2, <2>1
  <2>3. QED
    BY <2>2
<1>4. QED
  BY <1>3

\* What passes from every T \ {x} to T holds of every subset of a finite set.
LEMMA SubsetInduction ==
  ASSUME NEW S, IsFiniteSet(S), NEW F,
         \A T \in SUBSET S : (\A x \in T : T \ {x} \in F) => T \in F
  PROVE  \A T \in SUBSET S : T \in F
<1> DEFINE Sizes == {Cardinality(T) : T \in {U \in SUBSET S : U \notin F}}
<1>1. \A T \in SUBSET S : IsFiniteSet(T) /\ Cardinality(T) \in Nat
  BY FS_Subset, FS_CardinalityType
<1>2. SUFFICES ASSUME \E T \in SUBSET S : T \notin F PROVE FALSE
  OBVIOUS
<1>3. Sizes \in SUBSET Nat /\ Sizes # {}
  BY <1>1, <1>2
<1>4. PICK n \in Sizes : \A m \in Sizes : n <= m
  BY <1>3, LeastNumber
<1>5. PICK T \in SUBSET S : T \notin F /\ n = Cardinality(T)
  BY <1>4
<1>6. ASSUME NEW x \in T PROVE T \ {x} \in F
  <2>1. Cardinality(T \ {x}) = n - 1 /\ T \ {x} \in SUBSET S
    BY <1>1, <1>5, FS_RemoveElement
  <2>2. n \in Nat
    BY <1>3
  <2>3. CASE T \ {x} \notin F
    <3>1. n - 1 \in Sizes
      BY <2>1, <2>3
    <3>2. n <= n - 1
      BY <1>4, <3>1
    <3>3. QED
      BY <2>2, <3>2
  <2>4. QED
    BY <2>3
<1>7. QED
  BY <1>5, <1>6

-----------------------------------------------------------------------------
(* the walk *)

\* The function SumFunctionOnSet recurses on.
Walk(f, S) == CHOOSE iter : iter = [s \in SUBSET S |->
        IF s = {} THEN 0
        ELSE LET x == CHOOSE x \in s : TRUE
             IN  f[x] + iter[s \ {x}]]

\* The recursion defines a function: the walk counts the element it chooses and
\* goes on with the rest.
LEMMA WalkStep ==
  ASSUME NEW f, NEW S, IsFiniteSet(S)
  PROVE  /\ Walk(f, S)[{}] = 0
         /\ \A T \in SUBSET S : T # {} =>
              \E c \in T : /\ c = CHOOSE x \in T : TRUE
                          /\ Walk(f, S)[T] = f[c] + Walk(f, S)[T \ {c}]
<1> DEFINE Body(g, s) == IF s = {} THEN 0
                         ELSE f[CHOOSE x \in s : TRUE] + g[s \ {CHOOSE x \in s : TRUE}]
           Small(n) == {s \in SUBSET S : Cardinality(s) <= n}
           Bad == {n \in Nat : ~ \E g : g = [s \in Small(n) |-> Body(g, s)]}
<1>1. \A s \in SUBSET S : IsFiniteSet(s) /\ Cardinality(s) \in Nat
  BY FS_Subset, FS_CardinalityType
<1>2. ASSUME NEW s \in SUBSET S, s # {}
      PROVE  /\ s \ {CHOOSE x \in s : TRUE} \in SUBSET S
             /\ Cardinality(s \ {CHOOSE x \in s : TRUE}) = Cardinality(s) - 1
  BY <1>1, <1>2, FS_RemoveElement
<1>3. Bad = {}
  <2>1. SUFFICES ASSUME Bad # {} PROVE FALSE
    OBVIOUS
  <2>2. PICK n \in Bad : \A m \in Bad : n <= m
    BY <2>1, LeastNumber
  <2>3. CASE n = 0
    <3>1. Small(0) = {{}}
      BY <1>1, FS_EmptySet
    <3>2. [s \in Small(0) |-> 0] = [s \in Small(0) |-> Body([t \in Small(0) |-> 0], s)]
      BY <3>1
    <3>3. QED
      BY <2>2, <2>3, <3>2
  <2>4. CASE n # 0
    <3>1. n \in Nat /\ n - 1 \in Nat /\ n - 1 \notin Bad
      <4>1. n \in Nat /\ n - 1 \in Nat
        BY <2>4
      <4> HIDE DEF Bad
      <4>2. QED
        BY <4>1, <2>2
    <3>2. PICK g : g = [s \in Small(n - 1) |-> Body(g, s)]
      BY <3>1
    <3> DEFINE h == [s \in Small(n) |-> Body(g, s)]
    <3>3. ASSUME NEW s \in Small(n) PROVE Body(g, s) = Body(h, s)
      <4>1. CASE s = {}
        BY <4>1
      <4>2. CASE s # {}
        <5> DEFINE t == s \ {CHOOSE x \in s : TRUE}
        <5>1. t \in Small(n - 1) /\ t \in Small(n)
          BY <1>1, <1>2, <3>1, <3>3, <4>2
        <5>2. g[t] = Body(g, t)
          BY <3>2, <5>1
        <5>3. h[t] = Body(g, t)
          BY <5>1
        <5>4. QED
          BY <5>2, <5>3
      <4>3. QED
        BY <4>1, <4>2
    <3>4. h = [s \in Small(n) |-> Body(h, s)]
      <4>1. h = [s \in Small(n) |-> Body(g, s)]
        OBVIOUS
      <4> HIDE DEF h, Body, Small
      <4>2. QED
        BY <3>3, <4>1
    <3>5. QED
      BY <2>2, <3>4
  <2>5. QED
    BY <2>3, <2>4
<1>4. Cardinality(S) \in Nat
  BY FS_CardinalityType
<1>5. Small(Cardinality(S)) = SUBSET S
  BY <1>1, <1>4, FS_Subset
<1>6. \E g : g = [s \in SUBSET S |-> Body(g, s)]
  <2>1. \E g : g = [s \in Small(Cardinality(S)) |-> Body(g, s)]
    BY <1>3, <1>4
  <2>2. QED
    BY <1>5, <2>1
<1> DEFINE W == Walk(f, S)
<1>7. W = [s \in SUBSET S |-> Body(W, s)]
  BY <1>6 DEF Walk
<1> HIDE DEF W
<1>8. \A s \in SUBSET S : W[s] = Body(W, s)
  BY <1>7
<1>9. QED
  BY <1>8 DEF W

\* The walk adds naturals up to a natural.
LEMMA WalkNat ==
  ASSUME NEW f, NEW S, IsFiniteSet(S), \A x \in S : f[x] \in Nat
  PROVE  \A T \in SUBSET S : Walk(f, S)[T] \in Nat
<1> DEFINE F == {T \in SUBSET S : Walk(f, S)[T] \in Nat}
<1>1. ASSUME NEW T \in SUBSET S, \A x \in T : T \ {x} \in F
      PROVE  T \in F
  <2>1. CASE T = {}
    BY <2>1, WalkStep
  <2>2. CASE T # {}
    <3>1. PICK c \in T : Walk(f, S)[T] = f[c] + Walk(f, S)[T \ {c}]
      BY <2>2, WalkStep
    <3>2. f[c] \in Nat /\ Walk(f, S)[T \ {c}] \in Nat
      BY <1>1
    <3>3. QED
      BY <3>1, <3>2
  <2>3. QED
    BY <2>1, <2>2
<1> HIDE DEF F
<1>2. \A T \in SUBSET S : T \in F
  BY <1>1, SubsetInduction
<1>3. QED
  BY <1>2 DEF F

\* Whatever the order of the walk, any element may be counted first.
LEMMA WalkAnyOrder ==
  ASSUME NEW f, NEW S, IsFiniteSet(S), \A x \in S : f[x] \in Nat
  PROVE  \A T \in SUBSET S : \A x \in T :
           Walk(f, S)[T] = f[x] + Walk(f, S)[T \ {x}]
<1> DEFINE W == Walk(f, S)
           F == {T \in SUBSET S : \A x \in T : W[T] = f[x] + W[T \ {x}]}
<1>1. ASSUME NEW T \in SUBSET S, \A x \in T : T \ {x} \in F
      PROVE  T \in F
  <2>1. SUFFICES ASSUME NEW x \in T PROVE W[T] = f[x] + W[T \ {x}]
    OBVIOUS
  <2>2. PICK c \in T : W[T] = f[c] + W[T \ {c}]
    BY WalkStep
  <2>3. CASE c = x
    BY <2>2, <2>3
  <2>4. CASE c # x
    <3>1. W[T \ {c}] = f[x] + W[(T \ {c}) \ {x}]
      BY <1>1, <2>4
    <3>2. W[T \ {x}] = f[c] + W[(T \ {x}) \ {c}]
      BY <1>1, <2>4
    <3>3. (T \ {c}) \ {x} = (T \ {x}) \ {c}
      OBVIOUS
    <3>4. f[x] \in Nat /\ f[c] \in Nat /\ W[(T \ {x}) \ {c}] \in Nat
      BY WalkNat
    <3> HIDE DEF W
    <3>5. QED
      BY <2>2, <3>1, <3>2, <3>3, <3>4
  <2>5. QED
    BY <2>3, <2>4
<1> HIDE DEF F
<1>2. \A T \in SUBSET S : T \in F
  BY <1>1, SubsetInduction
<1>3. QED
  BY <1>2 DEF F

\* The walk over a subset depends on the values in the subset only.
LEMMA WalkSame ==
  ASSUME NEW f, NEW g, NEW R, IsFiniteSet(R), NEW S, IsFiniteSet(S),
         \A x \in R \cap S : f[x] = g[x]
  PROVE  \A T \in SUBSET (R \cap S) : Walk(f, R)[T] = Walk(g, S)[T]
<1> DEFINE V == R \cap S
           F == {T \in SUBSET V : Walk(f, R)[T] = Walk(g, S)[T]}
<1>1. ASSUME NEW T \in SUBSET V, \A x \in T : T \ {x} \in F
      PROVE  T \in F
  <2>1. CASE T = {}
    BY <2>1, WalkStep
  <2>2. CASE T # {}
    <3>1. PICK c \in T : Walk(f, R)[T] = f[c] + Walk(f, R)[T \ {c}]
                         /\ c = CHOOSE x \in T : TRUE
      BY <2>2, WalkStep
    <3>2. PICK d \in T : Walk(g, S)[T] = g[d] + Walk(g, S)[T \ {d}]
                         /\ d = CHOOSE x \in T : TRUE
      BY <2>2, WalkStep
    <3>3. c = d /\ f[c] = g[c]
      BY <3>1, <3>2
    <3>4. Walk(f, R)[T \ {c}] = Walk(g, S)[T \ {c}]
      BY <1>1
    <3>5. QED
      BY <3>1, <3>2, <3>3, <3>4
  <2>3. QED
    BY <2>1, <2>2
<1>2. IsFiniteSet(V)
  BY FS_Subset
<1> HIDE DEF F, V
<1>3. \A T \in SUBSET V : T \in F
  BY <1>1, <1>2, SubsetInduction
<1>4. QED
  BY <1>3 DEF F, V

-----------------------------------------------------------------------------
(* the sum *)

\* SumFunctionOnSet of the community modules is that walk.
LEMMA SumIsWalk ==
  ASSUME NEW f, NEW S
  PROVE  SumFunctionOnSet(f, S) = Walk(f, S)[S]
BY DEF SumFunctionOnSet, FoldFunctionOnSet, MapThenFoldSet, Walk

\* Nothing adds up to nothing.
LEMMA SumEmpty ==
  ASSUME NEW f
  PROVE  SumFunctionOnSet(f, {}) = 0
BY SumIsWalk, WalkStep, FS_EmptySet

\* Natural numbers add up to one.
LEMMA SumNat ==
  ASSUME NEW f, NEW S, IsFiniteSet(S), \A x \in S : f[x] \in Nat
  PROVE  SumFunctionOnSet(f, S) \in Nat
BY SumIsWalk, WalkNat

\* The sum depends on the values over the set only.
LEMMA SumSame ==
  ASSUME NEW f, NEW g, NEW S, IsFiniteSet(S), \A x \in S : f[x] = g[x]
  PROVE  SumFunctionOnSet(f, S) = SumFunctionOnSet(g, S)
BY SumIsWalk, WalkSame

\* Any summand may be set apart.
LEMMA SumSplit ==
  ASSUME NEW f, NEW S, IsFiniteSet(S), \A x \in S : f[x] \in Nat, NEW x \in S
  PROVE  SumFunctionOnSet(f, S) = f[x] + SumFunctionOnSet(f, S \ {x})
<1>1. Walk(f, S)[S] = f[x] + Walk(f, S)[S \ {x}]
  BY WalkAnyOrder
<1>2. Walk(f, S)[S \ {x}] = Walk(f, S \ {x})[S \ {x}]
  <2>1. IsFiniteSet(S \ {x}) /\ S \ {x} \in SUBSET (S \cap (S \ {x}))
    BY FS_Subset
  <2>2. QED
    BY <2>1, WalkSame
<1>3. QED
  BY <1>1, <1>2, SumIsWalk

\* One value changed: the sum changes by as much.
LEMMA SumChange ==
  ASSUME NEW f, NEW g, NEW S, IsFiniteSet(S), NEW x \in S,
         \A y \in S : f[y] \in Nat /\ g[y] \in Nat,
         \A y \in S \ {x} : f[y] = g[y]
  PROVE  SumFunctionOnSet(g, S) + f[x] = SumFunctionOnSet(f, S) + g[x]
<1>1. IsFiniteSet(S \ {x})
  BY FS_Subset
<1>2. SumFunctionOnSet(f, S \ {x}) = SumFunctionOnSet(g, S \ {x})
  BY <1>1, SumSame
<1>3. SumFunctionOnSet(f, S \ {x}) \in Nat
  BY <1>1, SumNat
<1>4. /\ SumFunctionOnSet(f, S) = f[x] + SumFunctionOnSet(f, S \ {x})
      /\ SumFunctionOnSet(g, S) = g[x] + SumFunctionOnSet(g, S \ {x})
  BY SumSplit
<1>5. QED
  BY <1>2, <1>3, <1>4

\* No summand is above the sum, nor are two together.
LEMMA SumAbove ==
  ASSUME NEW f, NEW S, IsFiniteSet(S), \A x \in S : f[x] \in Nat, NEW x \in S
  PROVE  /\ f[x] <= SumFunctionOnSet(f, S)
         /\ \A y \in S \ {x} : f[x] + f[y] <= SumFunctionOnSet(f, S)
<1>1. IsFiniteSet(S \ {x}) /\ SumFunctionOnSet(f, S \ {x}) \in Nat
  BY FS_Subset, SumNat
<1>2. SumFunctionOnSet(f, S) = f[x] + SumFunctionOnSet(f, S \ {x})
  BY SumSplit
<1>3. ASSUME NEW y \in S \ {x}
      PROVE  f[y] <= SumFunctionOnSet(f, S \ {x})
  <2>1. SumFunctionOnSet(f, S \ {x}) = f[y] + SumFunctionOnSet(f, (S \ {x}) \ {y})
    BY <1>1, SumSplit
  <2>2. SumFunctionOnSet(f, (S \ {x}) \ {y}) \in Nat
    BY <1>1, FS_Subset, SumNat
  <2>3. QED
    BY <2>1, <2>2
<1>4. QED
  BY <1>1, <1>2, <1>3

\* What bounds each summand by a fixed ratio bounds the sums by it.
LEMMA SumScaled ==
  ASSUME NEW f, NEW g, NEW S, IsFiniteSet(S), NEW c \in Nat, NEW d \in Nat,
         \A x \in S : f[x] \in Nat /\ g[x] \in Nat,
         \A x \in S : g[x] * c <= f[x] * d
  PROVE  SumFunctionOnSet(g, S) * c <= SumFunctionOnSet(f, S) * d
<1> DEFINE F == {T \in SUBSET S : SumFunctionOnSet(g, T) * c <= SumFunctionOnSet(f, T) * d}
<1>1. ASSUME NEW T \in SUBSET S, \A x \in T : T \ {x} \in F
      PROVE  T \in F
  <2>1. CASE T = {}
    BY <2>1, SumEmpty
  <2>2. CASE T # {}
    <3>1. PICK x \in T : TRUE
      BY <2>2
    <3>2. IsFiniteSet(T) /\ IsFiniteSet(T \ {x})
      BY FS_Subset
    <3> DEFINE a == SumFunctionOnSet(g, T \ {x})
               b == SumFunctionOnSet(f, T \ {x})
    <3>3. a \in Nat /\ b \in Nat
      BY <3>2, SumNat
    <3>4. SumFunctionOnSet(g, T) = g[x] + a /\ SumFunctionOnSet(f, T) = f[x] + b
      BY <3>2, SumSplit
    <3>5. a * c <= b * d
      BY <1>1
    <3> HIDE DEF a, b
    <3>6. g[x] * c <= f[x] * d /\ f[x] \in Nat /\ g[x] \in Nat
      OBVIOUS
    <3>7. (g[x] + a) * c <= (f[x] + b) * d
      BY <3>3, <3>5, <3>6
    <3>8. QED
      BY <3>4, <3>7
  <2>3. QED
    BY <2>1, <2>2
<1> HIDE DEF F
<1>2. \A T \in SUBSET S : T \in F
  BY <1>1, SubsetInduction
<1>3. QED
  BY <1>2 DEF F

\* One more account: the sum grows by what is in it.
LEMMA SumAdd ==
  ASSUME NEW f, NEW g, NEW S, IsFiniteSet(S), NEW x, x \notin S, g[x] \in Nat,
         \A y \in S : f[y] \in Nat /\ g[y] = f[y]
  PROVE  SumFunctionOnSet(g, S \cup {x}) = g[x] + SumFunctionOnSet(f, S)
<1>1. IsFiniteSet(S \cup {x}) /\ (S \cup {x}) \ {x} = S
  BY FS_AddElement
<1>2. \A y \in S \cup {x} : g[y] \in Nat
  OBVIOUS
<1>3. SumFunctionOnSet(g, S) = SumFunctionOnSet(f, S)
  BY SumSame
<1>4. SumFunctionOnSet(g, S \cup {x}) = g[x] + SumFunctionOnSet(g, (S \cup {x}) \ {x})
  BY <1>1, <1>2, SumSplit
<1>5. QED
  BY <1>1, <1>3, <1>4

\* Parts of a whole in proportion to what is held, rounded down, come to no more
\* than the whole when no more is held than there is.
LEMMA PartsFit ==
  ASSUME NEW held, NEW parts, NEW S, IsFiniteSet(S), NEW supply \in Nat, NEW whole \in Nat,
         \A x \in S : /\ held[x] \in Nat /\ parts[x] \in Nat
                      /\ parts[x] * supply <= held[x] * whole
                      /\ supply = 0 => parts[x] = 0,
         SumFunctionOnSet(held, S) <= supply
  PROVE  SumFunctionOnSet(parts, S) <= whole
<1> DEFINE total == SumFunctionOnSet(parts, S)
           all == SumFunctionOnSet(held, S)
<1>1. total \in Nat /\ all \in Nat /\ all <= supply
  BY SumNat
<1>2. CASE supply = 0
  <2>1. \A x \in S : parts[x] * 1 <= held[x] * 0
    BY <1>2
  <2>2. total * 1 <= all * 0
    BY <2>1, SumScaled
  <2> HIDE DEF total, all
  <2>3. total <= whole
    BY <1>1, <2>2
  <2>4. QED
    BY <2>3 DEF total
<1>3. CASE supply # 0
  <2>1. total * supply <= all * whole
    BY SumScaled
  <2>2. all * whole <= supply * whole
    BY <1>1, TimesMonotone
  <2> HIDE DEF total, all
  <2>3. total * supply < (whole + 1) * supply
    <3>1. supply * whole < (whole + 1) * supply
      BY <1>3
    <3>2. /\ total * supply \in Nat /\ all * whole \in Nat /\ supply * whole \in Nat
          /\ (whole + 1) * supply \in Nat
      BY <1>1, TimesNat
    <3>3. QED
      BY <2>1, <2>2, <3>1, <3>2
  <2>4. total < whole + 1
    BY <1>1, <1>3, <2>3, LessFactor
  <2>5. total <= whole
    BY <1>1, <2>4
  <2>6. QED
    BY <2>5 DEF total
<1>4. QED
  BY <1>2, <1>3
=============================================================================
