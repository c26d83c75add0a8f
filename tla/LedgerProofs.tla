---------------------------- MODULE LedgerProofs ----------------------------
(***************************************************************************)
(* Theorems about the two modules that stand on Ledger, for any sets of    *)
(* users, companies, reports and readers: the scores (Scoring), and the    *)
(* answers put together while others write (Reads).                        *)
(***************************************************************************)
EXTENDS Reads, Scoring, TablesProofs, WellFoundedInduction

-----------------------------------------------------------------------------
(* normalize_ethical_score, for every raw score an integer can be *)

\* The absolute value, by the sign of its argument.
LEMMA MagnitudeType ==
    ASSUME NEW x \in Int
    PROVE  /\ Magnitude(x) \in Int
           /\ Magnitude(x) >= 0
           /\ x >= 0 => Magnitude(x) = x
           /\ x <= 0 => Magnitude(x) = -x
BY DEF Magnitude

\* Crosswise, the products x * |y| and y * |x| compare like the signs of x and y.
LEMMA CrossProducts ==
    ASSUME NEW x \in Int, NEW y \in Int, x < y
    PROVE  x * Magnitude(y) <= y * Magnitude(x)
<1>1. CASE x >= 0
    <2>1. Magnitude(x) = x /\ Magnitude(y) = y
        BY <1>1, MagnitudeType
    <2>2. QED  BY <2>1
<1>2. CASE y <= 0
    <2>1. Magnitude(x) = -x /\ Magnitude(y) = -y
        BY <1>2, MagnitudeType
    <2>2. x * (-y) = y * (-x)
        OBVIOUS
    <2>3. QED  BY <2>1, <2>2
<1>3. CASE x < 0 /\ y > 0
    <2>1. Magnitude(x) = -x /\ Magnitude(y) = y
        BY <1>3, MagnitudeType
    <2>2. x * y < 0 /\ y * (-x) > 0
        BY <1>3
    <2>3. QED  BY <2>1, <2>2
<1>4. QED  BY <1>1, <1>2, <1>3

\* The displayed score orders any two raw scores as they are: 100 x / (|x| + 5)
\* is strictly increasing, so normalize_ethical_score never changes a ranking.
THEOREM NormalizationIncreasing ==
    ASSUME NEW x \in Int, NEW y \in Int, x < y
    PROVE  ScoreBelow(x, y)
<1> DEFINE a == Magnitude(x)
           b == Magnitude(y)
<1>1. a \in Int /\ b \in Int
    BY MagnitudeType
<1>2. x * b <= y * a
    BY CrossProducts
<1> HIDE DEF a, b
<1>3. x * b + 5 * x < y * a + 5 * y
    <2>1. x * b \in Int /\ y * a \in Int
        BY <1>1
    <2>2. QED  BY <1>2, <2>1
<1>4. (100 * x) * (b + 5) = 100 * (x * b + 5 * x)
    BY <1>1
<1>5. (100 * y) * (a + 5) = 100 * (y * a + 5 * y)
    BY <1>1
<1>6. (100 * x) * (b + 5) < (100 * y) * (a + 5)
    <2>1. x * b + 5 * x \in Int /\ y * a + 5 * y \in Int
        BY <1>1
    <2>2. QED  BY <1>3, <1>4, <1>5, <2>1
<1>7. QED
    BY <1>6 DEF ScoreBelow, ScoreNum, ScoreDen, a, b

\* It lies strictly between -100 and 100, and has the sign of the raw score.
THEOREM NormalizationBounded ==
    ASSUME NEW x \in Int
    PROVE  /\ ScoreDen(x) > 0
           /\ -100 * ScoreDen(x) < ScoreNum(x)
           /\ ScoreNum(x) < 100 * ScoreDen(x)
           /\ ScoreNum(x) > 0 <=> x > 0
BY MagnitudeType DEF ScoreNum, ScoreDen

-----------------------------------------------------------------------------
(* Sums over the rows of a query: a fold takes the rows in whatever order CHOOSE *)
(* gives, and what follows is that the order does not matter                     *)

\* A set of finite subsets has a smallest member.
LEMMA SmallestSet ==
    ASSUME NEW S, IsFiniteSet(S), NEW Bad \in SUBSET SUBSET S, Bad # {}
    PROVE  \E T \in Bad : \A U \in SUBSET T : U # T => U \notin Bad
<1>1. IsWellFoundedOn(StrictSubsetOrdering(S), SUBSET S)
  <2>1. FiniteSubsetsOf(S) = SUBSET S
    BY FS_FiniteSubsetsOfFinite
  <2> QED
    BY <2>1, FS_StrictSubsetOrderingWellFounded
<1>2. PICK T \in Bad : \A U \in Bad : ~(<<U, T>> \in StrictSubsetOrdering(S))
  BY <1>1, WFMin
<1>3. ASSUME NEW U \in SUBSET T, U # T
      PROVE  U \notin Bad
  <2>1. U \in SUBSET S /\ T \in SUBSET S
    BY <1>3
  <2>2. <<U, T>> \in StrictSubsetOrdering(S)
    BY <1>3, <2>1 DEF StrictSubsetOrdering
  <2> QED
    BY <1>2, <2>2
<1> QED
  BY <1>3

\* Induction over a finite set, with the set of those subsets that are as claimed in
\* place of a predicate.
LEMMA OneByOne ==
    ASSUME NEW S, IsFiniteSet(S), NEW Good, {} \in Good,
           \A T \in SUBSET S, x \in S : T \in Good /\ x \notin T => T \cup {x} \in Good
    PROVE  S \in Good
<1> DEFINE Bad == {T \in SUBSET S : T \notin Good}
<1>1. SUFFICES ASSUME S \notin Good PROVE FALSE
  OBVIOUS
<1>2. Bad # {} /\ Bad \in SUBSET SUBSET S
  BY <1>1
<1> HIDE DEF Bad
<1>3. PICK T \in Bad : \A U \in SUBSET T : U # T => U \notin Bad
  BY <1>2, SmallestSet
<1> USE DEF Bad
<1>4. PICK x : x \in T
  BY <1>3
<1>5. T \ {x} \in Good /\ T \ {x} \in SUBSET S /\ x \in S
  BY <1>3, <1>4
<1>6. (T \ {x}) \cup {x} = T
  BY <1>4
<1> QED
  BY <1>3, <1>5, <1>6

\* The function that MapThenSumSet defines by recursion over the subsets, for the
\* summands w.
Some(s) == CHOOSE x \in s : TRUE

IsSum(f, w, S) ==
    f = [s \in SUBSET S |-> IF s = {} THEN 0 ELSE w[Some(s)] + f[s \ {Some(s)}]]

SumOf(w, S) == (CHOOSE f : IsSum(f, w, S))[S]

\* What CHOOSE takes from a set is in the set.
LEMMA SomeIn ==
    ASSUME NEW s, s # {}
    PROVE  Some(s) \in s
  BY DEF Some

\* The recursion, unfolded once.
LEMMA SumSteps ==
    ASSUME NEW f, NEW w, NEW S, IsSum(f, w, S)
    PROVE  /\ f[{}] = 0
           /\ \A s \in SUBSET S : s # {} => f[s] = w[Some(s)] + f[s \ {Some(s)}]
<1>1. \A s \in SUBSET S : f[s] = IF s = {} THEN 0 ELSE w[Some(s)] + f[s \ {Some(s)}]
  BY DEF IsSum
<1> QED
  BY <1>1

\* It has one solution at most.
LEMMA SumUnique ==
    ASSUME NEW S, IsFiniteSet(S), NEW w, NEW f, NEW g, IsSum(f, w, S), IsSum(g, w, S)
    PROVE  f = g
<1> DEFINE Bad == {s \in SUBSET S : f[s] # g[s]}
<1>1. Bad = {}
  <2>1. SUFFICES ASSUME Bad # {} PROVE FALSE
    OBVIOUS
  <2>2. PICK T \in Bad : \A U \in SUBSET T : U # T => U \notin Bad
    <3>1. Bad \in SUBSET SUBSET S
      OBVIOUS
    <3> HIDE DEF Bad
    <3> QED
      BY <2>1, <3>1, SmallestSet
  <2>3. T # {}
    BY <2>2, SumSteps
  <2>4. Some(T) \in T
    BY <2>3, SomeIn
  <2>5. f[T \ {Some(T)}] = g[T \ {Some(T)}]
    BY <2>2, <2>4
  <2> QED
    BY <2>2, <2>3, <2>5, SumSteps
<1>2. \A s \in SUBSET S : f[s] = g[s]
  BY <1>1
<1>3. /\ f = [s \in SUBSET S |-> f[s]]
      /\ g = [s \in SUBSET S |-> g[s]]
  BY DEF IsSum
<1> QED
  BY <1>2, <1>3

\* A solution for a set is one for its subsets.
LEMMA SumRestricted ==
    ASSUME NEW S, NEW T \in SUBSET S, NEW w, NEW f, IsSum(f, w, S),
           NEW g, g = [s \in SUBSET T |-> f[s]]
    PROVE  IsSum(g, w, T)
<1>1. ASSUME NEW s \in SUBSET T
      PROVE  g[s] = IF s = {} THEN 0 ELSE w[Some(s)] + g[s \ {Some(s)}]
  <2>1. s \in SUBSET S /\ s \ {Some(s)} \in SUBSET T
    OBVIOUS
  <2>2. g[s] = f[s] /\ g[s \ {Some(s)}] = f[s \ {Some(s)}]
    BY <2>1
  <2>3. f[s] = IF s = {} THEN 0 ELSE w[Some(s)] + f[s \ {Some(s)}]
    BY <2>1, Zenon DEF IsSum
  <2> QED
    BY <2>2, <2>3
<1>2. g = [s \in SUBSET T |-> g[s]]
  OBVIOUS
<1>3. g = [s \in SUBSET T |-> IF s = {} THEN 0 ELSE w[Some(s)] + g[s \ {Some(s)}]]
  BY <1>1, <1>2
<1> QED
  BY <1>3 DEF IsSum

\* The recursion is well defined: such a function exists for every finite set.
LEMMA SumExists ==
    ASSUME NEW S, IsFiniteSet(S), NEW w
    PROVE  \E f : IsSum(f, w, S)
<1> DEFINE Bad == {T \in SUBSET S : ~ \E f : IsSum(f, w, T)}
<1>1. SUFFICES ASSUME S \in Bad PROVE FALSE
  OBVIOUS
<1>2. PICK T \in Bad : \A U \in SUBSET T : U # T => U \notin Bad
  <2>1. Bad \in SUBSET SUBSET S /\ Bad # {}
    BY <1>1
  <2> HIDE DEF Bad
  <2> QED
    BY <2>1, SmallestSet
<1> DEFINE value(s) == IF s = {} THEN 0 ELSE w[Some(s)] + SumOf(w, s \ {Some(s)})
           g == [s \in SUBSET T |-> value(s)]
<1>3. ASSUME NEW u \in SUBSET T, u # T
      PROVE  value(u) = SumOf(w, u)
  <2>1. \A v \in SUBSET u : IsFiniteSet(v) /\ \E f : IsSum(f, w, v)
    BY <1>2, <1>3, FS_Subset
  <2>2. \A v \in SUBSET u : IsSum(CHOOSE f : IsSum(f, w, v), w, v)
    BY <2>1
  <2> DEFINE h(v) == CHOOSE f : IsSum(f, w, v)
  <2>3. \A v : SumOf(w, v) = h(v)[v]
    BY DEF SumOf
  <2>4. \A v \in SUBSET u : IsSum(h(v), w, v)
    BY <2>2
  <2> HIDE DEF h
  <2>5. CASE u = {}
    BY <2>3, <2>4, <2>5, SumSteps
  <2>6. CASE u # {}
    <3>1. h(u)[u] = w[Some(u)] + h(u)[u \ {Some(u)}]
      BY <2>4, <2>6, SumSteps
    <3> DEFINE v == u \ {Some(u)}
    <3>2. v \in SUBSET u /\ IsFiniteSet(v)
      BY <2>1
    <3>3. IsSum([s \in SUBSET v |-> h(u)[s]], w, v) /\ IsSum(h(v), w, v)
      <4>1. PICK f : f = h(u)
        OBVIOUS
      <4>4. PICK k : k = [s \in SUBSET v |-> f[s]]
        OBVIOUS
      <4>2. IsSum(f, w, u) /\ IsSum(h(v), w, v)
        BY <2>4, <3>2, <4>1
      <4> HIDE DEF v
      <4>3. IsSum(k, w, v)
        BY <3>2, <4>2, <4>4, SumRestricted, Zenon
      <4> QED
        BY <4>1, <4>2, <4>3, <4>4
    <3>4. h(v) = [s \in SUBSET v |-> h(u)[s]]
      BY <3>2, <3>3, SumUnique
    <3>5. h(v)[v] = h(u)[v]
      BY <3>4
    <3> QED
      BY <2>3, <2>6, <3>1, <3>5
  <2> QED
    BY <2>5, <2>6
<1>4. ASSUME NEW s \in SUBSET T
      PROVE  g[s] = IF s = {} THEN 0 ELSE w[Some(s)] + g[s \ {Some(s)}]
  <2>1. CASE s = {}
    BY <2>1
  <2>2. CASE s # {}
    <3>1. s \ {Some(s)} \in SUBSET T /\ s \ {Some(s)} # T
      BY <2>2, SomeIn
    <3>2. g[s \ {Some(s)}] = SumOf(w, s \ {Some(s)})
      BY <1>3, <3>1
    <3> QED
      BY <2>2, <3>2
  <2> QED
    BY <2>1, <2>2
<1>5. g = [s \in SUBSET T |-> g[s]]
  OBVIOUS
<1> HIDE DEF g
<1>6. g = [s \in SUBSET T |-> IF s = {} THEN 0 ELSE w[Some(s)] + g[s \ {Some(s)}]]
  BY <1>4, <1>5
<1>7. IsSum(g, w, T)
  BY <1>6 DEF IsSum
<1> QED
  BY <1>2, <1>7

\* The sum over a subset is what any solution gives it.
LEMMA SumIs ==
    ASSUME NEW S, IsFiniteSet(S), NEW w, NEW f, IsSum(f, w, S), NEW T \in SUBSET S
    PROVE  SumOf(w, T) = f[T]
<1>1. IsFiniteSet(T)
  BY FS_Subset
<1>2. PICK g : g = [s \in SUBSET T |-> f[s]]
  OBVIOUS
<1>3. IsSum(g, w, T)
  BY <1>2, SumRestricted, Zenon
<1>4. PICK h : h = CHOOSE k : IsSum(k, w, T)
  OBVIOUS
<1>5. IsSum(h, w, T)
  BY <1>3, <1>4
<1>6. g = h
  BY <1>1, <1>3, <1>5, SumUnique
<1>7. SumOf(w, T) = h[T]
  BY <1>4 DEF SumOf
<1> QED
  BY <1>2, <1>6, <1>7

\* The recursion, for the sums themselves.
LEMMA SumRecursion ==
    ASSUME NEW S, IsFiniteSet(S), NEW w
    PROVE  /\ SumOf(w, {}) = 0
           /\ \A T \in SUBSET S : T # {} => SumOf(w, T) = w[Some(T)] + SumOf(w, T \ {Some(T)})
<1>1. PICK f : IsSum(f, w, S)
  BY SumExists
<1>2. \A T \in SUBSET S : SumOf(w, T) = f[T]
  BY <1>1, SumIs
<1>3. SumOf(w, {}) = 0
  <2>1. {} \in SUBSET S /\ f[{}] = 0
    BY <1>1, SumSteps
  <2> QED
    BY <1>2, <2>1
<1>4. ASSUME NEW T \in SUBSET S, T # {}
      PROVE  SumOf(w, T) = w[Some(T)] + SumOf(w, T \ {Some(T)})
  <2>1. PICK x : x = Some(T)
    OBVIOUS
  <2>2. T \ {x} \in SUBSET S
    OBVIOUS
  <2>3. f[T \ {x}] = SumOf(w, T \ {x}) /\ f[T] = SumOf(w, T)
    BY <1>2, <2>2
  <2>4. f[T] = w[x] + f[T \ {x}]
    BY <1>1, <1>4, <2>1, SumSteps
  <2> QED
    BY <2>1, <2>3, <2>4
<1> QED
  BY <1>3, <1>4

\* Sums of integers are integers.
LEMMA SumType ==
    ASSUME NEW S, IsFiniteSet(S), NEW w, \A x \in S : w[x] \in Int
    PROVE  \A T \in SUBSET S : SumOf(w, T) \in Int
<1> DEFINE Bad == {T \in SUBSET S : SumOf(w, T) \notin Int}
<1>1. SUFFICES ASSUME Bad # {} PROVE FALSE
  OBVIOUS
<1>2. PICK T \in Bad : \A U \in SUBSET T : U # T => U \notin Bad
  <2>1. Bad \in SUBSET SUBSET S
    OBVIOUS
  <2> HIDE DEF Bad
  <2> QED
    BY <1>1, <2>1, SmallestSet
<1>3. T # {}
  BY <1>2, SumRecursion
<1>4. Some(T) \in T /\ Some(T) \in S
  BY <1>2, <1>3, SomeIn
<1>5. SumOf(w, T \ {Some(T)}) \in Int
  BY <1>2, <1>4
<1>6. SumOf(w, T) = w[Some(T)] + SumOf(w, T \ {Some(T)})
  BY <1>2, <1>3, SumRecursion
<1> QED
  BY <1>2, <1>4, <1>5, <1>6

\* Whatever element CHOOSE takes first, any other may be taken first as well.
LEMMA SumTake ==
    ASSUME NEW S, IsFiniteSet(S), NEW w, \A x \in S : w[x] \in Int
    PROVE  \A T \in SUBSET S : \A x \in T : SumOf(w, T) = w[x] + SumOf(w, T \ {x})
<1> DEFINE Bad == {T \in SUBSET S : \E x \in T : SumOf(w, T) # w[x] + SumOf(w, T \ {x})}
<1>1. SUFFICES ASSUME Bad # {} PROVE FALSE
  OBVIOUS
<1>2. PICK T \in Bad : \A U \in SUBSET T : U # T => U \notin Bad
  <2>1. Bad \in SUBSET SUBSET S
    OBVIOUS
  <2> HIDE DEF Bad
  <2> QED
    BY <1>1, <2>1, SmallestSet
<1>3. PICK x \in T : SumOf(w, T) # w[x] + SumOf(w, T \ {x})
  BY <1>2
<1>4. PICK y : y = Some(T)
  OBVIOUS
<1>5. y \in T /\ SumOf(w, T) = w[y] + SumOf(w, T \ {y})
  BY <1>2, <1>3, <1>4, SomeIn, SumRecursion
<1>6. x # y
  BY <1>3, <1>5
<1>7. SumOf(w, T \ {y}) = w[x] + SumOf(w, (T \ {y}) \ {x})
  <2>1. T \ {y} \in SUBSET T /\ T \ {y} # T /\ x \in T \ {y} /\ T \ {y} \in SUBSET S
    BY <1>2, <1>5, <1>6
  <2> QED
    BY <1>2, <2>1
<1>8. SumOf(w, T \ {x}) = w[y] + SumOf(w, (T \ {x}) \ {y})
  <2>1. T \ {x} \in SUBSET T /\ T \ {x} # T /\ y \in T \ {x} /\ T \ {x} \in SUBSET S
    BY <1>2, <1>5, <1>6
  <2> QED
    BY <1>2, <2>1
<1>9. (T \ {x}) \ {y} = (T \ {y}) \ {x}
  OBVIOUS
<1>10. /\ w[x] \in Int /\ w[y] \in Int
       /\ SumOf(w, (T \ {y}) \ {x}) \in Int
  <2>1. (T \ {y}) \ {x} \in SUBSET S /\ x \in S /\ y \in S
    BY <1>2, <1>5
  <2> QED
    BY <2>1, SumType
<1>11. PICK n : n = SumOf(w, (T \ {y}) \ {x})
  OBVIOUS
<1>12. SumOf(w, T) = w[y] + (w[x] + n) /\ SumOf(w, T \ {x}) = w[y] + n /\ n \in Int
  BY <1>5, <1>7, <1>8, <1>9, <1>10, <1>11, Zenon
<1>13. PICK a, b : a = w[x] /\ b = w[y]
  OBVIOUS
<1>14. b + (a + n) = a + (b + n)
  BY <1>10, <1>12, <1>13
<1> QED
  BY <1>3, <1>12, <1>13, <1>14, Zenon

\* One summand more.
LEMMA SumAdd ==
    ASSUME NEW S, IsFiniteSet(S), NEW w, \A x \in S : w[x] \in Int,
           NEW T \in SUBSET S, NEW x \in S, x \notin T
    PROVE  SumOf(w, T \cup {x}) = w[x] + SumOf(w, T)
<1>1. T \cup {x} \in SUBSET S /\ x \in T \cup {x} /\ (T \cup {x}) \ {x} = T
  OBVIOUS
<1> QED
  BY <1>1, SumTake

\* Equal summands, equal sums.
LEMMA SumSame ==
    ASSUME NEW S, IsFiniteSet(S), NEW w, NEW v, \A x \in S : w[x] \in Int /\ w[x] = v[x]
    PROVE  SumOf(w, S) = SumOf(v, S)
<1> DEFINE Good == {T \in SUBSET S : SumOf(w, T) = SumOf(v, T)}
<1>1. {} \in Good
  BY SumRecursion
<1>2. ASSUME NEW T \in SUBSET S, NEW x \in S, T \in Good, x \notin T
      PROVE  T \cup {x} \in Good
  <2>1. SumOf(w, T \cup {x}) = w[x] + SumOf(w, T) /\ SumOf(v, T \cup {x}) = v[x] + SumOf(v, T)
    BY <1>2, SumAdd
  <2> QED
    BY <1>2, <2>1
<1> HIDE DEF Good
<1>3. S \in Good
  BY <1>1, <1>2, OneByOne
<1> QED
  BY <1>3 DEF Good

\* The sum of differences is the difference of the sums.
LEMMA SumMinus ==
    ASSUME NEW S, IsFiniteSet(S), NEW w, NEW v, NEW d,
           \A x \in S : w[x] \in Int /\ v[x] \in Int /\ d[x] = w[x] - v[x]
    PROVE  SumOf(d, S) = SumOf(w, S) - SumOf(v, S)
<1> DEFINE Good == {T \in SUBSET S : SumOf(d, T) = SumOf(w, T) - SumOf(v, T)}
<1>1. {} \in Good
  BY SumRecursion
<1>2. ASSUME NEW T \in SUBSET S, NEW x \in S, T \in Good, x \notin T
      PROVE  T \cup {x} \in Good
  <2>1. /\ SumOf(w, T \cup {x}) = w[x] + SumOf(w, T)
        /\ SumOf(v, T \cup {x}) = v[x] + SumOf(v, T)
        /\ SumOf(d, T \cup {x}) = d[x] + SumOf(d, T)
    BY <1>2, SumAdd
  <2>2. SumOf(w, T) \in Int /\ SumOf(v, T) \in Int /\ w[x] \in Int /\ v[x] \in Int
    BY SumType
  <2> QED
    BY <1>2, <2>1, <2>2
<1> HIDE DEF Good
<1>3. S \in Good
  BY <1>1, <1>2, OneByOne
<1> QED
  BY <1>3 DEF Good

\* The sum over two sets that share no row.
LEMMA SumUnion ==
    ASSUME NEW S, IsFiniteSet(S), NEW w, \A x \in S : w[x] \in Int,
           NEW T \in SUBSET S, NEW R \in SUBSET S, T \cap R = {}
    PROVE  SumOf(w, T \cup R) = SumOf(w, T) + SumOf(w, R)
<1> DEFINE Good == {U \in SUBSET R : SumOf(w, T \cup U) = SumOf(w, T) + SumOf(w, U)}
<1>1. {} \in Good
  <2>1. T \cup {} = T /\ SumOf(w, T) \in Int
    BY SumType
  <2> QED
    BY <2>1, SumRecursion
<1>2. ASSUME NEW U \in SUBSET R, NEW x \in R, U \in Good, x \notin U
      PROVE  U \cup {x} \in Good
  <2>1. /\ T \cup U \in SUBSET S /\ U \in SUBSET S /\ x \in S /\ x \notin T \cup U
        /\ T \cup (U \cup {x}) = (T \cup U) \cup {x}
    BY <1>2
  <2>2. SumOf(w, (T \cup U) \cup {x}) = w[x] + SumOf(w, T \cup U)
    BY <2>1, SumAdd
  <2>3. SumOf(w, U \cup {x}) = w[x] + SumOf(w, U)
    BY <1>2, <2>1, SumAdd
  <2>4. SumOf(w, T) \in Int /\ SumOf(w, U) \in Int /\ w[x] \in Int
    BY <2>1, SumType
  <2>5. SumOf(w, T \cup U) = SumOf(w, T) + SumOf(w, U)
    BY <1>2
  <2>6. PICK a, b, c : a = SumOf(w, T) /\ b = SumOf(w, U) /\ c = w[x]
    OBVIOUS
  <2>7. c + (a + b) = a + (c + b)
    BY <2>4, <2>6
  <2>8. SumOf(w, T \cup (U \cup {x})) = SumOf(w, T) + SumOf(w, U \cup {x})
    BY <2>1, <2>2, <2>3, <2>5, <2>6, <2>7, Zenon
  <2>9. U \cup {x} \in SUBSET R
    OBVIOUS
  <2> QED
    BY <2>8, <2>9
<1>3. IsFiniteSet(R)
  BY FS_Subset
<1> HIDE DEF Good
<1>4. R \in Good
  BY <1>1, <1>2, <1>3, OneByOne
<1> QED
  BY <1>4 DEF Good

\* Rows summed by another key: h names a row for each member of T, a new one for
\* each.
LEMMA SumReindexed ==
    ASSUME NEW S, IsFiniteSet(S), NEW w, \A x \in S : w[x] \in Int,
           NEW T, IsFiniteSet(T), NEW h \in [T -> S], NEW v,
           \A t \in T : v[t] = w[h[t]],
           \A t, u \in T : h[t] = h[u] => t = u
    PROVE  SumOf(w, {h[t] : t \in T}) = SumOf(v, T)
<1> DEFINE image(U) == {h[t] : t \in U}
           Good == {U \in SUBSET T : SumOf(w, image(U)) = SumOf(v, U)}
<1>1. {} \in Good
  <2>1. image({}) = {}
    OBVIOUS
  <2>2. SumOf(w, {}) = 0 /\ SumOf(v, {}) = 0
    BY SumRecursion
  <2> QED
    BY <2>1, <2>2
<1>2. ASSUME NEW U \in SUBSET T, NEW x \in T, U \in Good, x \notin U
      PROVE  U \cup {x} \in Good
  <2>1. image(U \cup {x}) = image(U) \cup {h[x]} /\ image(U) \in SUBSET S
    OBVIOUS
  <2>2. h[x] \notin image(U) /\ h[x] \in S
    BY <1>2
  <2> HIDE DEF image
  <2>3. SumOf(w, image(U) \cup {h[x]}) = w[h[x]] + SumOf(w, image(U))
    BY <2>1, <2>2, SumAdd
  <2>4. \A t \in T : v[t] \in Int
    OBVIOUS
  <2>5. SumOf(v, U \cup {x}) = v[x] + SumOf(v, U)
    BY <1>2, <2>4, SumAdd
  <2> QED
    BY <1>2, <2>1, <2>3, <2>5
<1> HIDE DEF Good
<1>3. T \in Good
  BY <1>1, <1>2, OneByOne
<1> QED
  BY <1>3 DEF Good

\* Summed by group, each element in the group of its key.
LEMMA SumGrouped ==
    ASSUME NEW S, IsFiniteSet(S), NEW w, \A x \in S : w[x] \in Int,
           NEW P, IsFiniteSet(P), NEW key, \A x \in S : key[x] \in P,
           NEW group, \A p \in P : group[p] = {x \in S : key[x] = p},
           NEW g, \A p \in P : g[p] = SumOf(w, group[p])
    PROVE  SumOf(w, S) = SumOf(g, P)
<1> DEFINE of(Q) == {x \in S : key[x] \in Q}
           Good == {Q \in SUBSET P : SumOf(w, of(Q)) = SumOf(g, Q)}
<1>1. {} \in Good
  <2>1. of({}) = {}
    OBVIOUS
  <2>2. SumOf(w, {}) = 0 /\ SumOf(g, {}) = 0
    BY SumRecursion
  <2> QED
    BY <2>1, <2>2
<1>2. ASSUME NEW Q \in SUBSET P, NEW p \in P, Q \in Good, p \notin Q
      PROVE  Q \cup {p} \in Good
  <2> DEFINE new == {x \in S : key[x] = p}
  <2>1. /\ of(Q \cup {p}) = of(Q) \cup new /\ of(Q) \cap new = {}
        /\ of(Q) \in SUBSET S /\ new \in SUBSET S
    BY <1>2
  <2>2. \A r \in P : g[r] \in Int
    <3>1. ASSUME NEW r \in P
          PROVE  SumOf(w, group[r]) \in Int
      <4>1. group[r] \in SUBSET S
        OBVIOUS
      <4> QED
        BY <4>1, SumType
    <3> QED
      BY <3>1
  <2>3. g[p] = SumOf(w, new)
    OBVIOUS
  <2>4. SumOf(g, Q \cup {p}) = g[p] + SumOf(g, Q) /\ SumOf(g, Q) \in Int
    BY <1>2, <2>2, SumAdd, SumType
  <2>6. SumOf(w, of(Q)) = SumOf(g, Q) /\ Q \cup {p} \in SUBSET P
    BY <1>2
  <2> HIDE DEF of, new
  <2>5. SumOf(w, of(Q) \cup new) = SumOf(w, of(Q)) + SumOf(w, new)
    BY <2>1, SumUnion
  <2>7. PICK a, b : a = SumOf(g, Q) /\ b = g[p]
    OBVIOUS
  <2>8. a + b = b + a
    BY <1>2, <2>2, <2>4, <2>7
  <2>9. SumOf(w, of(Q \cup {p})) = SumOf(g, Q \cup {p})
    BY <2>1, <2>3, <2>4, <2>5, <2>6, <2>7, <2>8, Zenon
  <2> QED
    BY <2>6, <2>9
<1> HIDE DEF Good
<1>3. P \in Good
  BY <1>1, <1>2, OneByOne
<1>4. of(P) = S
  OBVIOUS
<1> QED
  BY <1>3, <1>4 DEF Good

\* One summand apart from the rest.
LEMMA SumRest ==
    ASSUME NEW S, IsFiniteSet(S), NEW w, \A x \in S : w[x] \in Int, NEW y \in S
    PROVE  /\ SumOf(w, S) = w[y] + SumOf(w, S \ {y})
           /\ w[y] \in Int /\ SumOf(w, S \ {y}) \in Int
  BY SumTake, SumType

-----------------------------------------------------------------------------
(* The tables, step by step *)

\* What a new report changes.
LEMMA SubmitRows ==
    ASSUME LedgerTypeOK, NEW r \in ReportIds, NEW c \in Companies, NEW u \in Users,
           NEW p \in ReportIds \cup {NULL}, NEW x \in Texts, Submit(r, c, u, p, x)
    PROVE  /\ ~Exists(r) /\ Exists(r)' /\ LedgerTypeOK' /\ votes' = votes
           /\ reports'[r].company = c /\ reports'[r].parent = p /\ reports'[r].vote_sum = 0
           /\ p # NULL => TopLevel(p) /\ reports[p].company = c
           /\ \A s \in ReportIds : s # r => reports'[s] = reports[s]
<1> DEFINE row == [company |-> c, user |-> u, parent |-> p, text |-> x, vote_sum |-> 0]
<1>1. /\ reports[r] = NULL /\ reports' = [reports EXCEPT ![r] = row] /\ votes' = votes
      /\ p # NULL => TopLevel(p) /\ reports[p].company = c
  BY DEF Submit, Exists
<1>2. /\ row \in Row /\ row # NULL
      /\ row.parent = p /\ row.company = c /\ row.vote_sum = 0
  BY TablesAssumption DEF Row
<1> HIDE DEF row
<1>3. /\ reports' \in [ReportIds -> Row \cup {NULL}] /\ reports'[r] = row
      /\ \A s \in ReportIds : s # r => reports'[s] = reports[s]
  BY <1>1, <1>2 DEF LedgerTypeOK
<1>4. LedgerTypeOK'
  BY <1>1, <1>3 DEF LedgerTypeOK
<1> QED
  BY <1>1, <1>2, <1>3, <1>4 DEF Exists

\* What an edit changes.
LEMMA AmendRows ==
    ASSUME LedgerTypeOK, NEW r \in ReportIds, NEW x \in Texts, Amend(r, x)
    PROVE  /\ LedgerTypeOK' /\ votes' = votes
           /\ \A s \in ReportIds : /\ Exists(s)' <=> Exists(s)
                                   /\ Exists(s) =>
                                        /\ reports'[s].company = reports[s].company
                                        /\ reports'[s].parent = reports[s].parent
                                        /\ reports'[s].vote_sum = reports[s].vote_sum
<1>1. reports[r] # NULL /\ reports' = [reports EXCEPT ![r].text = x] /\ votes' = votes
  BY DEF Amend, Exists
<1>2. reports[r] \in Row
  BY <1>1 DEF LedgerTypeOK
<1>3. PICK row : row = [reports[r] EXCEPT !.text = x]
  OBVIOUS
<1>4. /\ row \in Row /\ row # NULL
      /\ row.parent = reports[r].parent /\ row.company = reports[r].company
      /\ row.vote_sum = reports[r].vote_sum
  BY <1>2, <1>3, TablesAssumption DEF Row
<1>5. /\ reports' \in [ReportIds -> Row \cup {NULL}] /\ reports'[r] = row
      /\ \A s \in ReportIds : s # r => reports'[s] = reports[s]
  BY <1>1, <1>3, <1>4 DEF LedgerTypeOK
<1>6. LedgerTypeOK'
  BY <1>1, <1>5 DEF LedgerTypeOK
<1> QED
  BY <1>1, <1>4, <1>5, <1>6 DEF Exists

\* What a withdrawal changes: the report and its challenges are gone.
LEMMA WithdrawRows ==
    ASSUME LedgerTypeOK, NEW r \in ReportIds, Withdraw(r)
    PROVE  /\ LedgerTypeOK' /\ Exists(r)
           /\ \A s \in ReportIds :
                 /\ Exists(s)' <=> Exists(s) /\ s # r /\ s \notin Challenges(r)
                 /\ Exists(s)' => reports'[s] = reports[s] /\ votes'[s] = votes[s]
                 /\ votes'[s] \in {votes[s], NoVotes}
                 /\ s = r \/ s \in Challenges(r) => votes'[s] = NoVotes
<1>1. PICK gone : gone = {r} \cup Challenges(r)
  OBVIOUS
<1>2. /\ reports' = [s \in ReportIds |-> IF s \in gone THEN NULL ELSE reports[s]]
      /\ votes' = [s \in ReportIds |-> IF s \in gone THEN NoVotes ELSE votes[s]]
      /\ Exists(r)
  BY <1>1 DEF Withdraw
<1>3. NoVotes \in Ballot
  BY DEF NoVotes, Ballot
<1>4. LedgerTypeOK'
  BY <1>2, <1>3 DEF LedgerTypeOK
<1>5. ASSUME NEW s \in ReportIds
      PROVE  /\ Exists(s)' <=> Exists(s) /\ s \notin gone
             /\ Exists(s)' => reports'[s] = reports[s] /\ votes'[s] = votes[s]
             /\ votes'[s] \in {votes[s], NoVotes}
             /\ s \in gone => votes'[s] = NoVotes
  BY <1>2 DEF Exists
<1> QED
  BY <1>1, <1>2, <1>4, <1>5

\* What a vote changes: one ballot, and the vote_sum that goes with it.
LEMMA CastRows ==
    ASSUME LedgerTypeOK, NEW r \in ReportIds, NEW u \in Users, NEW v \in Value, CastVote(r, u, v)
    PROVE  /\ LedgerTypeOK' /\ Exists(r)
           /\ votes'[r] = [votes[r] EXCEPT ![u] = Toggle(votes[r][u], v)]
           /\ reports'[r].vote_sum = Tally(votes'[r])
           /\ \A s \in ReportIds :
                 /\ Exists(s)' <=> Exists(s)
                 /\ Exists(s) => /\ reports'[s].company = reports[s].company
                                 /\ reports'[s].parent = reports[s].parent
                 /\ s # r => reports'[s] = reports[s] /\ votes'[s] = votes[s]
<1>1. PICK b, n : b = [votes[r] EXCEPT ![u] = Toggle(votes[r][u], v)] /\ n = Tally(b)
  OBVIOUS
<1>2. b \in Ballot
  <2>1. votes[r] \in Ballot
    BY DEF LedgerTypeOK
  <2>2. Toggle(votes[r][u], v) \in Value \cup {0}
    BY <2>1 DEF Toggle, Ballot
  <2> QED
    BY <1>1, <2>1, <2>2 DEF Ballot
<1>3. votes' = [votes EXCEPT ![r] = b]
  BY <1>1 DEF CastVote, LedgerTypeOK
<1>4. votes'[r] = b /\ votes' \in [ReportIds -> Ballot]
  BY <1>2, <1>3 DEF LedgerTypeOK
<1>5. Exists(r) /\ reports' = [reports EXCEPT ![r].vote_sum = n]
  BY <1>1, <1>4 DEF CastVote
<1>6. reports[r] \in Row
  BY <1>5 DEF LedgerTypeOK, Exists
<1>7. n \in Int
  BY <1>1, TallyType
<1>8. PICK row : row = [reports[r] EXCEPT !.vote_sum = n]
  OBVIOUS
<1>9. /\ row \in Row /\ row # NULL /\ row.vote_sum = n
      /\ row.parent = reports[r].parent /\ row.company = reports[r].company
  BY <1>6, <1>7, <1>8, TablesAssumption DEF Row
<1>10. /\ reports' \in [ReportIds -> Row \cup {NULL}] /\ reports'[r] = row
       /\ \A s \in ReportIds : s # r => reports'[s] = reports[s]
  BY <1>5, <1>8, <1>9 DEF LedgerTypeOK
<1>11. LedgerTypeOK'
  BY <1>4, <1>10 DEF LedgerTypeOK
<1>12. \A s \in ReportIds : s # r => votes'[s] = votes[s]
  BY <1>3 DEF LedgerTypeOK
<1>13. \A s \in ReportIds : Exists(s)' <=> Exists(s)
  BY <1>5, <1>9, <1>10 DEF Exists
<1> QED
  BY <1>1, <1>4, <1>5, <1>9, <1>10, <1>11, <1>12, <1>13

\* When the same reports stand in the same places, only the sums need a look.
LEMMA PlacesStay ==
    ASSUME ScoringInv, LedgerTypeOK',
           \A s \in ReportIds : /\ Exists(s)' <=> Exists(s)
                                /\ Exists(s) => /\ reports'[s].company = reports[s].company
                                                /\ reports'[s].parent = reports[s].parent,
           VotesHaveReports'
    PROVE  ScoringInv'
<1>1. Standing' = Standing
  BY DEF Standing
<1>2. ASSUME NEW s \in ReportIds, NEW p \in ReportIds, Exists(s)', reports'[s].parent = p
      PROVE  TopLevel(p)' /\ reports'[p].company = reports'[s].company
  <2>1. TopLevel(p) /\ reports[p].company = reports[s].company
    BY <1>2 DEF ScoringInv, ChallengesHaveClaims
  <2> QED
    BY <1>2, <2>1 DEF TopLevel
<1> QED
  BY <1>1, <1>2 DEF ScoringInv, ChallengesHaveClaims, Standing

\* A new report has no votes yet, and answers a claim about its company or none.
LEMMA ScoringInvSubmit ==
    ASSUME ScoringInv, NEW r \in ReportIds, NEW c \in Companies, NEW u \in Users,
           NEW p \in ReportIds \cup {NULL}, NEW x \in Texts, Submit(r, c, u, p, x)
    PROVE  ScoringInv'
<1>1. /\ ~Exists(r) /\ Exists(r)' /\ LedgerTypeOK' /\ votes' = votes
      /\ reports'[r].company = c /\ reports'[r].parent = p /\ reports'[r].vote_sum = 0
      /\ p # NULL => TopLevel(p) /\ reports[p].company = c
      /\ \A s \in ReportIds : s # r => reports'[s] = reports[s]
  BY SubmitRows DEF ScoringInv
<1>2. Standing' = Standing \cup {r}
  BY <1>1 DEF Standing, Exists
<1>3. IsFiniteSet(Standing')
  BY <1>2, FS_AddElement DEF ScoringInv
<1>4. ASSUME NEW s \in ReportIds, NEW q \in ReportIds, Exists(s)', reports'[s].parent = q
      PROVE  TopLevel(q)' /\ reports'[q].company = reports'[s].company
  <2>1. TopLevel(q) /\ reports[q].company = reports'[s].company
    <3>1. CASE s = r
      BY <1>1, <1>4, <3>1, TablesAssumption
    <3>2. CASE s # r
      BY <1>1, <1>4, <3>2 DEF ScoringInv, ChallengesHaveClaims, Exists
    <3> QED
      BY <3>1, <3>2
  <2>2. q # r
    BY <1>1, <2>1 DEF TopLevel
  <2> QED
    BY <1>1, <2>1, <2>2 DEF TopLevel, Exists
<1>5. VotesHaveReports'
  <2>1. ASSUME NEW s \in ReportIds
        PROVE  IF Exists(s)' THEN reports'[s].vote_sum = Tally(votes'[s])
                             ELSE votes'[s] = NoVotes
    <3>1. CASE s = r
      <4>1. votes'[r] = NoVotes
        BY <1>1 DEF ScoringInv, VotesHaveReports
      <4> QED
        BY <1>1, <3>1, <4>1, TallyType
    <3>2. CASE s # r
      BY <1>1, <3>2 DEF ScoringInv, VotesHaveReports, Exists
    <3> QED
      BY <3>1, <3>2
  <2> QED
    BY <2>1 DEF VotesHaveReports
<1> QED
  BY <1>1, <1>3, <1>4, <1>5 DEF ScoringInv, ChallengesHaveClaims

\* A claim takes its challenges along: none is left without its claim.
LEMMA ScoringInvWithdraw ==
    ASSUME ScoringInv, NEW r \in ReportIds, Withdraw(r)
    PROVE  ScoringInv'
<1>1. /\ LedgerTypeOK' /\ Exists(r)
      /\ \A s \in ReportIds :
            /\ Exists(s)' <=> Exists(s) /\ s # r /\ s \notin Challenges(r)
            /\ Exists(s)' => reports'[s] = reports[s] /\ votes'[s] = votes[s]
            /\ votes'[s] \in {votes[s], NoVotes}
            /\ s = r \/ s \in Challenges(r) => votes'[s] = NoVotes
  BY WithdrawRows DEF ScoringInv
<1>2. Standing' \subseteq Standing
  BY <1>1 DEF Standing
<1>3. IsFiniteSet(Standing')
  BY <1>2, FS_Subset DEF ScoringInv
<1>4. ASSUME NEW s \in ReportIds, NEW p \in ReportIds, Exists(s)', reports'[s].parent = p
      PROVE  TopLevel(p)' /\ reports'[p].company = reports'[s].company
  <2>1. Exists(s) /\ reports[s].parent = p /\ reports'[s] = reports[s] /\ s \notin Challenges(r)
    BY <1>1, <1>4
  <2>2. TopLevel(p) /\ reports[p].company = reports[s].company
    BY <2>1 DEF ScoringInv, ChallengesHaveClaims
  <2>3. p # r
    BY <2>1 DEF Challenges
  <2>4. p \notin Challenges(r)
    BY <2>2, TablesAssumption DEF Challenges, TopLevel
  <2>5. Exists(p)' /\ reports'[p] = reports[p]
    BY <1>1, <2>2, <2>3, <2>4 DEF TopLevel
  <2> QED
    BY <2>1, <2>2, <2>5 DEF TopLevel
<1>5. ASSUME NEW s \in ReportIds
      PROVE  IF Exists(s)' THEN reports'[s].vote_sum = Tally(votes'[s])
                           ELSE votes'[s] = NoVotes
  BY <1>1 DEF ScoringInv, VotesHaveReports
<1> QED
  BY <1>1, <1>3, <1>4, <1>5 DEF ScoringInv, ChallengesHaveClaims, VotesHaveReports

\* A vote is recounted into the vote sum.
LEMMA ScoringInvCast ==
    ASSUME ScoringInv, NEW r \in ReportIds, NEW u \in Users, NEW v \in Value, CastVote(r, u, v)
    PROVE  ScoringInv'
<1>1. /\ LedgerTypeOK' /\ Exists(r)
      /\ reports'[r].vote_sum = Tally(votes'[r])
      /\ \A s \in ReportIds :
            /\ Exists(s)' <=> Exists(s)
            /\ Exists(s) => /\ reports'[s].company = reports[s].company
                            /\ reports'[s].parent = reports[s].parent
            /\ s # r => reports'[s] = reports[s] /\ votes'[s] = votes[s]
  BY CastRows DEF ScoringInv
<1>2. VotesHaveReports'
  BY <1>1 DEF ScoringInv, VotesHaveReports
<1> QED
  BY <1>1, <1>2, PlacesStay

\* An edit changes the text alone.
LEMMA ScoringInvAmend ==
    ASSUME ScoringInv, NEW r \in ReportIds, NEW x \in Texts, Amend(r, x)
    PROVE  ScoringInv'
<1>1. /\ LedgerTypeOK' /\ votes' = votes
      /\ \A s \in ReportIds : /\ Exists(s)' <=> Exists(s)
                              /\ Exists(s) =>
                                   /\ reports'[s].company = reports[s].company
                                   /\ reports'[s].parent = reports[s].parent
                                   /\ reports'[s].vote_sum = reports[s].vote_sum
  BY AmendRows DEF ScoringInv
<1>2. VotesHaveReports'
  BY <1>1 DEF ScoringInv, VotesHaveReports
<1> QED
  BY <1>1, <1>2, PlacesStay

\* The steps of the ledger, one disjunct each.
LEMMA LedgerStep ==
    ASSUME [LedgerNext]_ledger
    PROVE  \/ UNCHANGED ledger
           \/ \E r \in ReportIds, c \in Companies, u \in Users, p \in ReportIds \cup {NULL}, x \in Texts :
                 Submit(r, c, u, p, x)
           \/ \E r \in ReportIds, x \in Texts : Amend(r, x)
           \/ \E r \in ReportIds : Withdraw(r)
           \/ \E r \in ReportIds, u \in Users, v \in Value : CastVote(r, u, v)
           \/ \E r \in ReportIds : Burn(r)
  BY DEF LedgerNext

\* Every step of the ledger keeps the invariant.
LEMMA ScoringInvStep == ScoringInv /\ [LedgerNext]_ledger => ScoringInv'
<1> SUFFICES ASSUME ScoringInv, [LedgerNext]_ledger PROVE ScoringInv'
  OBVIOUS
<1>1. ASSUME reports' = reports, votes' = votes
      PROVE  ScoringInv'
  BY <1>1 DEF ScoringInv, LedgerTypeOK, ChallengesHaveClaims, VotesHaveReports, Standing,
              TopLevel, Exists
<1>2. CASE UNCHANGED ledger
  BY <1>1, <1>2 DEF ledger
<1>3. ASSUME NEW r \in ReportIds, Burn(r)
      PROVE  ScoringInv'
  BY <1>1, <1>3 DEF Burn
<1> QED
  BY <1>2, <1>3, LedgerStep, ScoringInvSubmit, ScoringInvAmend, ScoringInvWithdraw, ScoringInvCast

\* The inductive invariant of the ledger holds.
LEMMA ScoringInvariance == LedgerSpec => []ScoringInv
<1>1. LedgerInit => ScoringInv
  <2> SUFFICES ASSUME LedgerInit PROVE ScoringInv
    OBVIOUS
  <2>1. /\ reports = [r \in ReportIds |-> NULL] /\ votes = [r \in ReportIds |-> NoVotes]
    BY DEF LedgerInit
  <2>2. NoVotes \in Ballot
    BY DEF NoVotes, Ballot
  <2>3. LedgerTypeOK
    BY <2>1, <2>2 DEF LedgerTypeOK
  <2>4. Standing = {}
    BY <2>1 DEF Standing, Exists
  <2>5. IsFiniteSet(Standing)
    BY <2>4, FS_EmptySet
  <2> QED
    BY <2>1, <2>3, <2>5 DEF ScoringInv, ChallengesHaveClaims, VotesHaveReports, Exists
<1>2. ScoringInv /\ [LedgerNext]_ledger => ScoringInv'
  BY ScoringInvStep
<1> QED
  BY <1>1, <1>2, PTL DEF LedgerSpec

-----------------------------------------------------------------------------
(* recalculate_company_score, subquery by subquery *)

\* The sums of the statement and of its properties.
RowsWeight(S) == MapThenSumSet(LAMBDA row : row.weight, S)
RowsCost(S) == MapThenSumSet(LAMBDA s : Positive(s.sub_vote_sum), S)
ShownSum(S) == MapThenSumSet(LAMBDA r : reports[r].vote_sum, S)
ShownCost(S) == MapThenSumSet(LAMBDA r : Positive(reports[r].vote_sum), S)
TalliedCost(S) == MapThenSumSet(LAMBDA s : Positive(Tally(votes[s])), S)

\* SUM(vote_sum - COALESCE(penalty, 0)) over the joined rows: the recursion behind
\* it is that of SumOf, with the weights as summands.  So too for the sums below.
LEMMA WeightsSummed ==
    ASSUME NEW S, IsFiniteSet(S), NEW w, \A x \in S : w[x] = x.weight
    PROVE  RowsWeight(S) = SumOf(w, S)
<1> DEFINE Is(f) == f = [s \in SUBSET S |-> IF s = {} THEN 0
                            ELSE (CHOOSE x \in s : TRUE).weight + f[s \ {CHOOSE x \in s : TRUE}]]
<1>1. ASSUME NEW f
      PROVE  Is(f) <=> IsSum(f, w, S)
  <2>1. \A s \in SUBSET S : s # {} => w[Some(s)] = (CHOOSE x \in s : TRUE).weight
    BY SomeIn DEF Some
  <2> QED
    BY <2>1 DEF IsSum, Some
<1>2. (CHOOSE f : Is(f)) = (CHOOSE f : IsSum(f, w, S))
  <2> HIDE DEF Is
  <2> QED
    BY <1>1
<1>3. RowsWeight(S) = (CHOOSE f : Is(f))[S]
  BY DEF RowsWeight, MapThenSumSet, MapThenFoldSet
<1> QED
  BY <1>2, <1>3 DEF SumOf

\* SUM(CASE WHEN sub_vote_sum > 0 ...) over the rows of one group.
LEMMA ChallengesSummed ==
    ASSUME NEW S, IsFiniteSet(S), NEW w, \A x \in S : w[x] = Positive(x.sub_vote_sum)
    PROVE  RowsCost(S) = SumOf(w, S)
<1> DEFINE Is(f) == f = [s \in SUBSET S |-> IF s = {} THEN 0
                            ELSE Positive((CHOOSE x \in s : TRUE).sub_vote_sum) + f[s \ {CHOOSE x \in s : TRUE}]]
<1>1. ASSUME NEW f
      PROVE  Is(f) <=> IsSum(f, w, S)
  <2>1. \A s \in SUBSET S : s # {} => w[Some(s)] = Positive((CHOOSE x \in s : TRUE).sub_vote_sum)
    BY SomeIn DEF Some
  <2> QED
    BY <2>1 DEF IsSum, Some
<1>2. (CHOOSE f : Is(f)) = (CHOOSE f : IsSum(f, w, S))
  <2> HIDE DEF Is
  <2> QED
    BY <1>1
<1>3. RowsCost(S) = (CHOOSE f : Is(f))[S]
  BY DEF RowsCost, MapThenSumSet, MapThenFoldSet
<1> QED
  BY <1>2, <1>3 DEF SumOf

\* The sum of the vote sums shown.
LEMMA SumsShown ==
    ASSUME NEW S, IsFiniteSet(S), NEW w, \A r \in S : w[r] = reports[r].vote_sum
    PROVE  ShownSum(S) = SumOf(w, S)
<1> DEFINE Is(f) == f = [s \in SUBSET S |-> IF s = {} THEN 0
                            ELSE reports[CHOOSE x \in s : TRUE].vote_sum + f[s \ {CHOOSE x \in s : TRUE}]]
<1>1. ASSUME NEW f
      PROVE  Is(f) <=> IsSum(f, w, S)
  <2>1. \A s \in SUBSET S : s # {} => w[Some(s)] = reports[CHOOSE x \in s : TRUE].vote_sum
    BY SomeIn DEF Some
  <2> QED
    BY <2>1 DEF IsSum, Some
<1>2. (CHOOSE f : Is(f)) = (CHOOSE f : IsSum(f, w, S))
  <2> HIDE DEF Is
  <2> QED
    BY <1>1
<1>3. ShownSum(S) = (CHOOSE f : Is(f))[S]
  BY DEF ShownSum, MapThenSumSet, MapThenFoldSet
<1> QED
  BY <1>2, <1>3 DEF SumOf

\* The sum of the positive vote sums shown.
LEMMA CostsShown ==
    ASSUME NEW S, IsFiniteSet(S), NEW w, \A r \in S : w[r] = Positive(reports[r].vote_sum)
    PROVE  ShownCost(S) = SumOf(w, S)
<1> DEFINE Is(f) == f = [s \in SUBSET S |-> IF s = {} THEN 0
                            ELSE Positive(reports[CHOOSE x \in s : TRUE].vote_sum) + f[s \ {CHOOSE x \in s : TRUE}]]
<1>1. ASSUME NEW f
      PROVE  Is(f) <=> IsSum(f, w, S)
  <2>1. \A s \in SUBSET S : s # {} => w[Some(s)] = Positive(reports[CHOOSE x \in s : TRUE].vote_sum)
    BY SomeIn DEF Some
  <2> QED
    BY <2>1 DEF IsSum, Some
<1>2. (CHOOSE f : Is(f)) = (CHOOSE f : IsSum(f, w, S))
  <2> HIDE DEF Is
  <2> QED
    BY <1>1
<1>3. ShownCost(S) = (CHOOSE f : Is(f))[S]
  BY DEF ShownCost, MapThenSumSet, MapThenFoldSet
<1> QED
  BY <1>2, <1>3 DEF SumOf

\* The sum of the positive tallies.
LEMMA PenaltySummed ==
    ASSUME NEW S, IsFiniteSet(S), NEW w, \A s \in S : w[s] = Positive(Tally(votes[s]))
    PROVE  TalliedCost(S) = SumOf(w, S)
<1> DEFINE Is(f) == f = [s \in SUBSET S |-> IF s = {} THEN 0
                            ELSE Positive(Tally(votes[CHOOSE x \in s : TRUE])) + f[s \ {CHOOSE x \in s : TRUE}]]
<1>1. ASSUME NEW f
      PROVE  Is(f) <=> IsSum(f, w, S)
  <2>1. \A s \in SUBSET S : s # {} => w[Some(s)] = Positive(Tally(votes[CHOOSE x \in s : TRUE]))
    BY SomeIn DEF Some
  <2> QED
    BY <2>1 DEF IsSum, Some
<1>2. (CHOOSE f : Is(f)) = (CHOOSE f : IsSum(f, w, S))
  <2> HIDE DEF Is
  <2> QED
    BY <1>1
<1>3. TalliedCost(S) = (CHOOSE f : Is(f))[S]
  BY DEF TalliedCost, MapThenSumSet, MapThenFoldSet
<1> QED
  BY <1>2, <1>3 DEF SumOf

\* Beside ClaimsOf: the challenges about a company, and those of one claim.
ChallengesOf(c) == {s \in ReportIds : Exists(s) /\ ~TopLevel(s) /\ reports[s].company = c}
ChallengesOn(c, p) == {s \in ChallengesOf(c) : reports[s].parent = p}

\* What each report adds to the score of its company, and what a challenge takes.
Tallies == [r \in ReportIds |-> Tally(votes[r])]
Costs == [r \in ReportIds |-> Positive(Tally(votes[r]))]

\* The statement again, with its sums named.
LEMMA Unfolded ==
    ASSUME NEW c
    PROVE  /\ RawScore(c) = RowsWeight(Joined(c))
           /\ SubPenalty(c) = {[parent_id |-> p,
                                penalty |-> RowsCost({s \in SubVotes(c) : s.parent_id = p})] :
                                   p \in {s.parent_id : s \in SubVotes(c)}}
           /\ ShownWeight(c) = ShownSum(ClaimsOf(c)) - ShownCost(ChallengesOf(c))
           /\ \A r : PenaltyOn(r) = TalliedCost(Challenges(r))
<1>1. RawScore(c) = RowsWeight(Joined(c))
  BY DEF RawScore, RowsWeight
<1>2. SubPenalty(c) = {[parent_id |-> p,
                        penalty |-> RowsCost({s \in SubVotes(c) : s.parent_id = p})] :
                           p \in {s.parent_id : s \in SubVotes(c)}}
  BY DEF SubPenalty, RowsCost
<1>3. ShownWeight(c) = ShownSum(ClaimsOf(c)) - ShownCost(ChallengesOf(c))
  <2>1. ClaimsOf(c) = {r \in ReportIds : Exists(r) /\ reports[r].company = c /\ TopLevel(r)}
    BY DEF ClaimsOf, TopLevel
  <2>2. ChallengesOf(c) = {r \in ReportIds : Exists(r) /\ reports[r].company = c /\ ~TopLevel(r)}
    BY DEF ChallengesOf
  <2>3. ShownWeight(c) = ShownSum({r \in ReportIds : Exists(r) /\ reports[r].company = c /\ TopLevel(r)})
                         - ShownCost({r \in ReportIds : Exists(r) /\ reports[r].company = c /\ ~TopLevel(r)})
    BY DEF ShownWeight, ShownSum, ShownCost
  <2> QED
    BY <2>1, <2>2, <2>3, Zenon
<1>4. \A r : PenaltyOn(r) = TalliedCost(Challenges(r))
  BY DEF PenaltyOn, TalliedCost
<1> QED
  BY <1>1, <1>2, <1>3, <1>4

\* What stands in the tables is finite, and the summands are numbers.
LEMMA SummandsFinite ==
    ASSUME ScoringInv, NEW c
    PROVE  /\ IsFiniteSet(ClaimsOf(c)) /\ IsFiniteSet(ChallengesOf(c))
           /\ \A p : IsFiniteSet(ChallengesOn(c, p))
           /\ \A r \in ReportIds : Tallies[r] \in Int /\ Costs[r] \in Int
           /\ \A r \in ReportIds : Tallies[r] = Tally(votes[r]) /\ Costs[r] = Positive(Tally(votes[r]))
<1>1. /\ ClaimsOf(c) \subseteq Standing /\ ChallengesOf(c) \subseteq Standing
      /\ \A p : ChallengesOn(c, p) \subseteq Standing
  BY DEF ClaimsOf, ChallengesOf, ChallengesOn, TopLevel, Standing
<1>2. \A r \in ReportIds : Tally(votes[r]) \in Int /\ Positive(Tally(votes[r])) \in Int
  BY TallyType DEF Positive
<1> QED
  BY <1>1, <1>2, FS_Subset DEF ScoringInv, Tallies, Costs

\* Rows that a function gives to different ids are as many as the ids.
LEMMA RowPerId ==
    ASSUME NEW T, IsFiniteSet(T), NEW h, DOMAIN h = T,
           \A t, u \in T : h[t] = h[u] => t = u
    PROVE  /\ IsFiniteSet({h[t] : t \in T})
           /\ Cardinality({h[t] : t \in T}) = Cardinality(T)
<1>1. PICK X : X = {h[t] : t \in T}
  OBVIOUS
<1>2. PICK g : g = [t \in T |-> h[t]]
  OBVIOUS
<1>3. g \in Bijection(T, X)
  BY <1>1, <1>2 DEF Bijection, Injection, Surjection, IsInjective
<1>4. ExistsBijection(T, X)
  BY <1>3 DEF ExistsBijection
<1> QED
  BY <1>1, <1>4, FS_Bijection

\* What sub_penalty sums for one claim: the row of each challenge carries its tally.
LEMMA PenaltyRow ==
    ASSUME ScoringInv, NEW c, NEW p
    PROVE  RowsCost({x \in SubVotes(c) : x.parent_id = p}) = SumOf(Costs, ChallengesOn(c, p))
<1> DEFINE row(s) == [report_id |-> s, parent_id |-> reports[s].parent, sub_vote_sum |-> Tally(votes[s])]
           T == ChallengesOn(c, p)
           X == {x \in SubVotes(c) : x.parent_id = p}
<1>1. SubVotes(c) = {row(s) : s \in ChallengesOf(c)}
  BY DEF SubVotes, ChallengesOf
<1>2. PICK h : h = [s \in T |-> row(s)]
  OBVIOUS
<1>3. X = {h[s] : s \in T}
  BY <1>1, <1>2 DEF ChallengesOn
<1>4. IsFiniteSet(T)
  BY SummandsFinite
<1>6. PICK w : w = [x \in X |-> Positive(x.sub_vote_sum)]
  OBVIOUS
<1>7. T \subseteq ReportIds
  BY DEF ChallengesOn, ChallengesOf
<1>8. \A s \in T : h[s] \in X /\ h[s].report_id = s /\ h[s].sub_vote_sum = Tally(votes[s])
  BY <1>2, <1>3
<1>9. \A s \in T : Costs[s] = w[h[s]] /\ Costs[s] \in Int
  BY <1>6, <1>7, <1>8, SummandsFinite
<1>10. \A s, t \in T : h[s] = h[t] => s = t
  BY <1>8
<1>5. IsFiniteSet(X)
  BY <1>2, <1>3, <1>4, <1>10, RowPerId
<1>11. \A x \in X : w[x] \in Int
  BY <1>3, <1>9
<1>12. h \in [T -> X]
  BY <1>2, <1>3
<1> HIDE DEF X, T
<1>13. SumOf(w, X) = SumOf(Costs, T)
  <2>1. SumOf(w, {h[s] : s \in T}) = SumOf(Costs, T)
    BY <1>4, <1>5, <1>9, <1>10, <1>11, <1>12, SumReindexed
  <2> QED
    BY <1>3, <2>1
<1>14. RowsCost(X) = SumOf(w, X)
  BY <1>5, <1>6, ChallengesSummed
<1> QED
  BY <1>13, <1>14 DEF X, T

\* A claim's weight on the score: its tally, less what its challenges take.
Weights(c) == [r \in ReportIds |-> Tallies[r] - SumOf(Costs, ChallengesOn(c, r))]

\* The join gives one row per claim, with its weight: a claim without a challenge
\* keeps its row, and one with several challenges finds them grouped in one.
LEMMA JoinedRows ==
    ASSUME ScoringInv, NEW c
    PROVE  Joined(c) = {[report_id |-> r, weight |-> Weights(c)[r]] : r \in ClaimsOf(c)}
<1> DEFINE penalty(p) == [parent_id |-> p, penalty |-> SumOf(Costs, ChallengesOn(c, p))]
           parents == {reports[s].parent : s \in ChallengesOf(c)}
           matches(n) == {x.penalty : x \in {y \in SubPenalty(c) : y.parent_id = n}}
           left(r) == {[report_id |-> r, weight |-> Tally(votes[r]) - n] :
                          n \in IF matches(r) = {} THEN {0} ELSE matches(r)}
<1>1. {s.parent_id : s \in SubVotes(c)} = parents
  <2>1. SubVotes(c) = {[report_id |-> s, parent_id |-> reports[s].parent,
                        sub_vote_sum |-> Tally(votes[s])] : s \in ChallengesOf(c)}
    BY DEF SubVotes, ChallengesOf
  <2>3. PICK g : g = [s \in ChallengesOf(c) |-> [report_id |-> s, parent_id |-> reports[s].parent,
                                                   sub_vote_sum |-> Tally(votes[s])]]
    OBVIOUS
  <2>4. /\ SubVotes(c) = {g[s] : s \in ChallengesOf(c)}
        /\ \A s \in ChallengesOf(c) : g[s].parent_id = reports[s].parent
    BY <2>1, <2>3
  <2>2. \A p : p \in {s.parent_id : s \in SubVotes(c)} <=> p \in parents
    BY <2>4
  <2> QED
    BY <2>2, Zenon
<1>2. SubPenalty(c) = {penalty(p) : p \in parents}
  <2>1. \A p : RowsCost({s \in SubVotes(c) : s.parent_id = p}) = SumOf(Costs, ChallengesOn(c, p))
    BY PenaltyRow
  <2>2. SubPenalty(c) = {[parent_id |-> p, penalty |-> RowsCost({s \in SubVotes(c) : s.parent_id = p})] :
                           p \in {s.parent_id : s \in SubVotes(c)}}
    BY Unfolded
  <2>3. PICK ids : ids = {s.parent_id : s \in SubVotes(c)}
    OBVIOUS
  <2>4. SubPenalty(c) = {[parent_id |-> p, penalty |-> SumOf(Costs, ChallengesOn(c, p))] : p \in ids}
    BY <2>1, <2>2, <2>3, Zenon
  <2> QED
    BY <1>1, <2>3, <2>4, Zenon
<1>3. ASSUME NEW r \in ClaimsOf(c)
      PROVE  left(r) = {[report_id |-> r, weight |-> Weights(c)[r]]}
  <2>1. PICK n : n = SumOf(Costs, ChallengesOn(c, r))
    OBVIOUS
  <2>2. r \in parents => matches(r) = {n}
    <3>1. ASSUME r \in parents
          PROVE  matches(r) = {n}
      <4>1. \A y \in SubPenalty(c) : y.parent_id = r => y.penalty = n
        BY <1>2, <2>1
      <4>2. penalty(r) \in SubPenalty(c) /\ penalty(r).parent_id = r /\ penalty(r).penalty = n
        BY <1>2, <2>1, <3>1
      <4> HIDE DEF penalty, parents
      <4> QED
        BY <4>1, <4>2
    <3> QED
      BY <3>1
  <2>3. r \notin parents => matches(r) = {} /\ n = 0
    <3>1. ASSUME r \notin parents
          PROVE  ChallengesOn(c, r) = {}
      BY <3>1 DEF ChallengesOn
    <3>2. SumOf(Costs, {}) = 0
      BY FS_EmptySet, SumRecursion
    <3>3. ASSUME r \notin parents
          PROVE  matches(r) = {}
      BY <1>2, <3>3
    <3> QED
      BY <2>1, <3>1, <3>2, <3>3
  <2>4. left(r) = {[report_id |-> r, weight |-> Tally(votes[r]) - n]}
    <3> HIDE DEF matches, parents
    <3> QED
      BY <2>2, <2>3
  <2>5. Weights(c)[r] = Tally(votes[r]) - n
    BY <2>1 DEF Weights, Tallies, ClaimsOf
  <2> QED
    BY <2>4, <2>5
<1>4. Joined(c) = UNION {left(r) : r \in ClaimsOf(c)}
  <2>1. ParentVotes(c) = {[report_id |-> r, vote_sum |-> Tally(votes[r])] : r \in ClaimsOf(c)}
    BY DEF ParentVotes, ClaimsOf
  <2>2. Joined(c) = UNION {{[report_id |-> p.report_id, weight |-> p.vote_sum - n] :
                               n \in IF matches(p.report_id) = {} THEN {0} ELSE matches(p.report_id)} :
                           p \in ParentVotes(c)}
    BY DEF Joined
  <2> HIDE DEF matches
  <2>3. PICK g : g = [r \in ClaimsOf(c) |-> [report_id |-> r, vote_sum |-> Tally(votes[r])]]
    OBVIOUS
  <2>4. /\ ParentVotes(c) = {g[r] : r \in ClaimsOf(c)}
        /\ \A r \in ClaimsOf(c) : g[r].report_id = r /\ g[r].vote_sum = Tally(votes[r])
    BY <2>1, <2>3
  <2> DEFINE rows(p) == {[report_id |-> p.report_id, weight |-> p.vote_sum - n] :
                            n \in IF matches(p.report_id) = {} THEN {0} ELSE matches(p.report_id)}
  <2>5. \A r \in ClaimsOf(c) : rows(g[r]) = left(r)
    BY <2>4
  <2>6. Joined(c) = UNION {rows(p) : p \in ParentVotes(c)}
    BY <2>2
  <2> HIDE DEF left, rows
  <2>7. \A y : y \in Joined(c) <=> \E r \in ClaimsOf(c) : y \in left(r)
    BY <2>4, <2>5, <2>6
  <2> QED
    BY <2>7
<1> HIDE DEF left
<1> QED
  BY <1>3, <1>4

\* The raw score: the tallies of the claims, less what the challenges cost.
ScoreSplits(c) == RawScore(c) = SumOf(Tallies, ClaimsOf(c)) - SumOf(Costs, ChallengesOf(c))

\* The raw score in every state of the tables.  The sum over the groups of
\* sub_penalty is the sum over all challenges, as each has its claim in the join.
LEMMA ScoreIsSplit ==
    ASSUME ScoringInv, NEW c
    PROVE  /\ ScoreSplits(c)
           /\ SumOf(Tallies, ClaimsOf(c)) \in Int /\ SumOf(Costs, ChallengesOf(c)) \in Int
           /\ TopLevelReportCount(c) = Cardinality(ClaimsOf(c))
<1> DEFINE C == ClaimsOf(c)
           W == Weights(c)
<1>1. PICK h : h = [r \in C |-> [report_id |-> r, weight |-> W[r]]]
  OBVIOUS
<1>2. Joined(c) = {h[r] : r \in C}
  BY <1>1, JoinedRows
<1>3. /\ IsFiniteSet(C) /\ C \subseteq ReportIds /\ IsFiniteSet(ChallengesOf(c))
      /\ ChallengesOf(c) \subseteq ReportIds
  BY SummandsFinite DEF ClaimsOf, ChallengesOf
<1>4. \A r \in C : h[r].report_id = r /\ h[r].weight = W[r]
  BY <1>1
<1>5. \A r, s \in C : h[r] = h[s] => r = s
  BY <1>4
<1>6. IsFiniteSet(Joined(c)) /\ Cardinality(Joined(c)) = Cardinality(C)
  BY <1>1, <1>2, <1>3, <1>5, RowPerId
<1>7. PICK G : G = [r \in C |-> SumOf(Costs, ChallengesOn(c, r))]
  OBVIOUS
<1>8. \A r \in C : G[r] \in Int /\ Tallies[r] \in Int /\ W[r] = Tallies[r] - G[r] /\ W[r] \in Int
  <2>1. ASSUME NEW r \in C
        PROVE  G[r] \in Int
    <3>1. ChallengesOn(c, r) \in SUBSET ChallengesOf(c)
      BY DEF ChallengesOn
    <3>2. \A s \in ChallengesOf(c) : Costs[s] \in Int
      BY <1>3, SummandsFinite
    <3>3. SumOf(Costs, ChallengesOn(c, r)) \in Int
      BY <1>3, <3>1, <3>2, SumType
    <3> QED
      BY <1>7, <3>3
  <2>2. \A r \in C : Tallies[r] \in Int
    BY <1>3, SummandsFinite
  <2>3. \A r \in C : W[r] = Tallies[r] - G[r]
    BY <1>3, <1>7 DEF Weights
  <2> QED
    BY <2>1, <2>2, <2>3
<1>9. PICK w : w = [x \in Joined(c) |-> x.weight]
  OBVIOUS
<1>10. RawScore(c) = SumOf(w, Joined(c))
  BY <1>6, <1>9, Unfolded, WeightsSummed
<1> HIDE DEF C, W
<1>11. SumOf(w, Joined(c)) = SumOf(W, C)
  <2>1. \A x \in Joined(c) : w[x] \in Int
    BY <1>2, <1>4, <1>8, <1>9
  <2>2. \A r \in C : W[r] = w[h[r]]
    BY <1>2, <1>4, <1>9
  <2>3. h \in [C -> Joined(c)]
    BY <1>1, <1>2
  <2>4. SumOf(w, {h[r] : r \in C}) = SumOf(W, C)
    BY <1>3, <1>5, <1>6, <2>1, <2>2, <2>3, SumReindexed
  <2> QED
    BY <1>2, <2>4
<1>12. SumOf(W, C) = SumOf(Tallies, C) - SumOf(G, C)
  BY <1>3, <1>8, SumMinus
<1>13. SumOf(Costs, ChallengesOf(c)) = SumOf(G, C)
  <2>1. PICK key : key = [s \in ChallengesOf(c) |-> reports[s].parent]
    OBVIOUS
  <2>2. \A s \in ChallengesOf(c) : key[s] \in C /\ Costs[s] \in Int
    <3>1. ASSUME NEW s \in ChallengesOf(c)
          PROVE  key[s] \in C /\ Costs[s] \in Int
      <4>1. /\ s \in ReportIds /\ Exists(s) /\ ~TopLevel(s) /\ reports[s].company = c
            /\ key[s] = reports[s].parent
        BY <2>1 DEF ChallengesOf
      <4>2. reports[s] \in Row
        BY <4>1 DEF Exists, ScoringInv, LedgerTypeOK
      <4>3. reports[s].parent \in ReportIds
        BY <4>1, <4>2 DEF Row, TopLevel
      <4>4. TopLevel(key[s]) /\ reports[key[s]].company = c
        BY <4>1, <4>3 DEF ScoringInv, ChallengesHaveClaims
      <4> QED
        BY <4>1, <4>3, <4>4, SummandsFinite DEF ClaimsOf, C
    <3> QED
      BY <3>1
  <2>3. PICK group : group = [r \in C |-> ChallengesOn(c, r)]
    OBVIOUS
  <2>4. \A r \in C : group[r] = {s \in ChallengesOf(c) : key[s] = r}
    BY <2>1, <2>3 DEF ChallengesOn
  <2>5. \A r \in C : G[r] = SumOf(Costs, group[r])
    BY <1>7, <2>3
  <2> QED
    BY <1>3, <2>2, <2>4, <2>5, SumGrouped
<1>14. SumOf(Tallies, C) \in Int /\ SumOf(G, C) \in Int
  BY <1>3, <1>8, SumType
<1> USE DEF C
<1>15. ScoreSplits(c)
  BY <1>10, <1>11, <1>12, <1>13 DEF ScoreSplits
<1>16. TopLevelReportCount(c) = Cardinality(C)
  BY <1>6 DEF TopLevelReportCount
<1> QED
  BY <1>13, <1>14, <1>15, <1>16

\* The joins neither lose nor repeat a claim or a challenge: the score that is
\* computed from votes is the one the denormalised vote sums show.
LEMMA ShownIsSplit ==
    ASSUME ScoringInv, NEW c
    PROVE  ShownWeight(c) = SumOf(Tallies, ClaimsOf(c)) - SumOf(Costs, ChallengesOf(c))
<1>1. /\ IsFiniteSet(ClaimsOf(c)) /\ \A r \in ClaimsOf(c) : r \in ReportIds /\ Exists(r)
      /\ IsFiniteSet(ChallengesOf(c)) /\ \A r \in ChallengesOf(c) : r \in ReportIds /\ Exists(r)
  BY SummandsFinite DEF ClaimsOf, ChallengesOf, TopLevel
<1>2. \A r \in ReportIds : Exists(r) => reports[r].vote_sum = Tally(votes[r])
  BY DEF ScoringInv, VotesHaveReports
<1>3. \A r \in ClaimsOf(c) : Tallies[r] = reports[r].vote_sum
  BY <1>1, <1>2, SummandsFinite
<1>4. \A r \in ChallengesOf(c) : Costs[r] = Positive(reports[r].vote_sum)
  BY <1>1, <1>2, SummandsFinite
<1>5. ShownSum(ClaimsOf(c)) = SumOf(Tallies, ClaimsOf(c))
  BY <1>1, <1>3, SumsShown
<1>6. ShownCost(ChallengesOf(c)) = SumOf(Costs, ChallengesOf(c))
  BY <1>1, <1>4, CostsShown
<1> QED
  BY <1>5, <1>6, Unfolded

\* The two ways to the score agree.
LEMMA ScoreShown == ScoringInv => ScoreIsShownWeight
<1> SUFFICES ASSUME ScoringInv PROVE ScoreIsShownWeight
  OBVIOUS
<1>1. ASSUME NEW c \in Companies
      PROVE  RawScore(c) = ShownWeight(c) /\ TopLevelReportCount(c) = Cardinality(ClaimsOf(c))
  BY ScoreIsSplit, ShownIsSplit DEF ScoreSplits
<1> QED
  BY <1>1 DEF ScoreIsShownWeight, ClaimsOf

\* What a reader of the company's page adds up from the vote sums it shows is the
\* score that recalculate_company_score computes from the votes.
THEOREM ScoresAreShown == LedgerSpec => []ScoreIsShownWeight
  BY ScoringInvariance, ScoreShown, PTL


\* The raw scores are integers, for which the normalisation is increasing.
LEMMA RankingKept == ScoringInv => RankingPreserved
<1> SUFFICES ASSUME ScoringInv, NEW c \in Companies, NEW d \in Companies
             PROVE  /\ RawScore(c) < RawScore(d) => ScoreBelow(RawScore(c), RawScore(d))
                    /\ Magnitude(ScoreNum(RawScore(c))) < 100 * ScoreDen(RawScore(c))
  BY DEF RankingPreserved
<1>1. PICK x, y : x = RawScore(c) /\ y = RawScore(d)
  OBVIOUS
<1>2. x \in Int /\ y \in Int
  BY <1>1, ScoreIsSplit DEF ScoreSplits
<1>3. x < y => ScoreBelow(x, y)
  BY <1>2, NormalizationIncreasing
<1>4. Magnitude(ScoreNum(x)) < 100 * ScoreDen(x)
  <2>1. /\ -100 * ScoreDen(x) < ScoreNum(x) /\ ScoreNum(x) < 100 * ScoreDen(x)
        /\ ScoreNum(x) \in Int /\ ScoreDen(x) \in Int
    BY <1>2, NormalizationBounded, MagnitudeType DEF ScoreNum, ScoreDen
  <2> QED
    BY <2>1 DEF Magnitude
<1> QED
  BY <1>1, <1>3, <1>4

\* The displayed score ranks any two companies as their raw scores do, in every
\* state of the tables, and stays strictly between -100 and 100.
THEOREM RankingIsPreserved == LedgerSpec => []RankingPreserved
  BY ScoringInvariance, RankingKept, PTL

-----------------------------------------------------------------------------
(* How a step moves the score *)

\* The split holds after the step as well.
SplitsHold ==
    \A c \in Companies :
        /\ ScoreSplits(c)
        /\ SumOf(Tallies, ClaimsOf(c)) \in Int /\ SumOf(Costs, ChallengesOf(c)) \in Int

SummandsHold ==
    \A c \in Companies :
        /\ IsFiniteSet(ClaimsOf(c)) /\ IsFiniteSet(ChallengesOf(c))
        /\ \A r \in ReportIds : /\ Tallies[r] \in Int /\ Costs[r] \in Int
                                /\ Tallies[r] = Tally(votes[r])
                                /\ Costs[r] = Positive(Tally(votes[r]))

\* They hold in every state of the ledger.
LEMMA BothHold == ScoringInv => SplitsHold /\ SummandsHold
  BY ScoreIsSplit, SummandsFinite DEF SplitsHold, SummandsHold

\* And so after a step.
LEMMA BothHoldNext == ScoringInv' => SplitsHold' /\ SummandsHold'
  BY BothHold, PTL

\* Votes only change on a standing report when one is cast on it.
LEMMA VotesMoveByCasting ==
    ASSUME ScoringInv, [LedgerNext]_ledger, NEW r \in ReportIds, Exists(r), Exists(r)',
           votes'[r] # votes[r]
    PROVE  \E u \in Users, v \in Value : CastVote(r, u, v)
<1>1. LedgerTypeOK
  BY DEF ScoringInv
<1>2. ~ UNCHANGED ledger
  BY DEF ledger
<1>3. ASSUME NEW s \in ReportIds, NEW c \in Companies, NEW u \in Users,
             NEW p \in ReportIds \cup {NULL}, NEW x \in Texts, Submit(s, c, u, p, x)
      PROVE  FALSE
  BY <1>3 DEF Submit
<1>4. ASSUME NEW s \in ReportIds, NEW x \in Texts, Amend(s, x)
      PROVE  FALSE
  BY <1>4 DEF Amend
<1>5. ASSUME NEW s \in ReportIds, Withdraw(s)
      PROVE  FALSE
  BY <1>1, <1>5, WithdrawRows
<1>6. ASSUME NEW s \in ReportIds, Burn(s)
      PROVE  FALSE
  BY <1>6 DEF Burn
<1>7. PICK s \in ReportIds, u \in Users, v \in Value : CastVote(s, u, v)
  BY <1>2, <1>3, <1>4, <1>5, <1>6, LedgerStep
<1>8. s = r
  BY <1>1, <1>7, CastRows
<1> QED
  BY <1>7, <1>8

\* A vote leaves the claims and challenges of every company what they are.
LEMMA CastPlaces ==
    ASSUME ScoringInv, NEW r \in ReportIds, NEW u \in Users, NEW v \in Value, CastVote(r, u, v),
           NEW c \in Companies
    PROVE  /\ ClaimsOf(c)' = ClaimsOf(c) /\ ChallengesOf(c)' = ChallengesOf(c)
           /\ \A s \in ReportIds : s # r => Tallies'[s] = Tallies[s] /\ Costs'[s] = Costs[s]
<1>1. \A s \in ReportIds :
            /\ Exists(s)' <=> Exists(s)
            /\ Exists(s) => /\ reports'[s].company = reports[s].company
                            /\ reports'[s].parent = reports[s].parent
            /\ s # r => reports'[s] = reports[s] /\ votes'[s] = votes[s]
  BY CastRows DEF ScoringInv
<1>2. \A s \in ReportIds : s # r => Tallies'[s] = Tallies[s] /\ Costs'[s] = Costs[s]
  BY <1>1 DEF Tallies, Costs
<1>3. \A s \in ReportIds : TopLevel(s)' <=> TopLevel(s)
  BY <1>1 DEF TopLevel
<1> QED
  BY <1>1, <1>2, <1>3 DEF ClaimsOf, ChallengesOf, TopLevel

\* By how much a vote moves the tally of its report, and with it its cost.
LEMMA CastMoves ==
    ASSUME ScoringInv, NEW r \in ReportIds, NEW u \in Users, NEW v \in Value, CastVote(r, u, v)
    PROVE  /\ Tallies'[r] - Tallies[r] \in -2..2
           /\ Costs'[r] - Costs[r] \in -2..2
           /\ \A q \in Users : votes'[r][q] > votes[r][q] => Costs'[r] >= Costs[r]
<1>1. votes[r] \in Ballot
  BY DEF ScoringInv, LedgerTypeOK
<1>2. PICK d : d = Delta(votes[r][u], v)
  OBVIOUS
<1>3. votes'[r] = [votes[r] EXCEPT ![u] = Toggle(votes[r][u], v)]
  BY CastRows DEF ScoringInv
<1>4. Tally(votes'[r]) = Tally(votes[r]) + d
  BY <1>1, <1>2, <1>3, DeltaIsTallyChange
<1>5. votes[r][u] \in {1, -1, 0} /\ v \in {1, -1}
  BY <1>1 DEF Ballot, Value
<1>6. d \in -2..2 /\ d = Toggle(votes[r][u], v) - votes[r][u]
  BY <1>2, <1>5 DEF Delta, Toggle
<1>7. PICK t : t = Tally(votes[r])
  OBVIOUS
<1>8. t \in Int
  BY <1>7, TallyType
<1>9. /\ Tallies[r] = t /\ Costs[r] = Positive(t)
      /\ Tallies'[r] = t + d /\ Costs'[r] = Positive(t + d)
  BY <1>4, <1>7 DEF Tallies, Costs
<1>10. /\ (t + d) - t = d
       /\ Positive(t + d) - Positive(t) \in -2..2
       /\ d >= 0 => Positive(t + d) >= Positive(t)
  BY <1>6, <1>8 DEF Positive
<1>11. ASSUME NEW q \in Users, votes'[r][q] > votes[r][q]
       PROVE  d >= 0
  <2>1. votes'[r][u] = Toggle(votes[r][u], v) /\ (q # u => votes'[r][q] = votes[r][q])
    BY <1>1, <1>3 DEF Ballot
  <2>2. votes[r][q] \in {1, -1, 0}
    BY <1>1 DEF Ballot, Value
  <2>3. q = u
    BY <1>11, <2>1, <2>2
  <2> QED
    BY <1>5, <1>6, <1>11, <2>1, <2>3 DEF Toggle
<1>12. \A q \in Users : votes'[r][q] > votes[r][q] => Costs'[r] >= Costs[r]
  BY <1>9, <1>10, <1>11
<1> QED
  BY <1>6, <1>9, <1>10, <1>12

\* How a vote moves the score of a company: by its report's tally when that is a
\* claim of the company, by its cost when it is a challenge, else not.
LEMMA CastScores ==
    ASSUME ScoringInv, NEW r \in ReportIds, NEW u \in Users, NEW v \in Value, CastVote(r, u, v),
           NEW c \in Companies
    PROVE  /\ RawScore(c) \in Int /\ RawScore(c)' \in Int
           /\ RawScore(c)' - RawScore(c) =
                 (IF r \in ClaimsOf(c) THEN Tallies'[r] - Tallies[r] ELSE 0)
                 - (IF r \in ChallengesOf(c) THEN Costs'[r] - Costs[r] ELSE 0)
<1> DEFINE C == ClaimsOf(c)
           H == ChallengesOf(c)
<1>1. ScoringInv'
  BY ScoringInvCast
<1>2. PICK w, k : w = Tallies' /\ k = Costs'
  OBVIOUS
<1>3. C' = C /\ H' = H /\ \A s \in ReportIds : s # r => w[s] = Tallies[s] /\ k[s] = Costs[s]
  BY <1>2, CastPlaces
<1>4. /\ RawScore(c)' = SumOf(w, C) - SumOf(k, H)
      /\ SumOf(w, C) \in Int /\ SumOf(k, H) \in Int
      /\ \A s \in ReportIds : w[s] \in Int /\ k[s] \in Int
  BY <1>1, <1>2, <1>3, BothHoldNext DEF SplitsHold, SummandsHold, ScoreSplits
<1>5. /\ RawScore(c) = SumOf(Tallies, C) - SumOf(Costs, H)
      /\ SumOf(Tallies, C) \in Int /\ SumOf(Costs, H) \in Int
      /\ IsFiniteSet(C) /\ IsFiniteSet(H)
      /\ \A s \in ReportIds : Tallies[s] \in Int /\ Costs[s] \in Int
  BY BothHold DEF SplitsHold, SummandsHold, ScoreSplits
<1>6. C \subseteq ReportIds /\ H \subseteq ReportIds
  BY DEF ClaimsOf, ChallengesOf
<1> HIDE DEF C, H
<1>7. SumOf(w, C) = SumOf(Tallies, C) + (IF r \in C THEN w[r] - Tallies[r] ELSE 0)
  <2>1. CASE r \in C
    <3>1. PICK rest : rest = C \ {r}
      OBVIOUS
    <3>2. \A s \in rest : Tallies[s] \in Int /\ Tallies[s] = w[s]
      BY <1>3, <1>5, <1>6, <3>1
    <3>3. SumOf(Tallies, rest) = SumOf(w, rest)
      BY <1>5, <3>1, <3>2, FS_RemoveElement, SumSame
    <3>4. SumOf(Tallies, C) = Tallies[r] + SumOf(Tallies, rest) /\ Tallies[r] \in Int /\ SumOf(Tallies, rest) \in Int
      BY <1>5, <1>6, <2>1, <3>1, SumRest
    <3>5. SumOf(w, C) = w[r] + SumOf(w, rest) /\ w[r] \in Int
      BY <1>4, <1>5, <1>6, <2>1, <3>1, SumRest
    <3>6. PICK a, x, y : a = SumOf(Tallies, rest) /\ x = Tallies[r] /\ y = w[r]
      OBVIOUS
    <3>7. y + a = (x + a) + (y - x)
      BY <3>4, <3>5, <3>6
    <3>8. SumOf(w, C) = SumOf(Tallies, C) + (w[r] - Tallies[r])
      BY <3>3, <3>4, <3>5, <3>6, <3>7, Zenon
    <3> QED
      BY <2>1, <3>8
  <2>2. CASE r \notin C
    <3>1. \A s \in C : Tallies[s] \in Int /\ Tallies[s] = w[s]
      BY <1>3, <1>5, <1>6, <2>2
    <3>2. SumOf(Tallies, C) = SumOf(w, C)
      BY <1>5, <3>1, SumSame
    <3> QED
      BY <1>5, <2>2, <3>2
  <2> QED
    BY <2>1, <2>2
<1>8. SumOf(k, H) = SumOf(Costs, H) + (IF r \in H THEN k[r] - Costs[r] ELSE 0)
  <2>1. CASE r \in H
    <3>1. PICK rest : rest = H \ {r}
      OBVIOUS
    <3>2. \A s \in rest : Costs[s] \in Int /\ Costs[s] = k[s]
      BY <1>3, <1>5, <1>6, <3>1
    <3>3. SumOf(Costs, rest) = SumOf(k, rest)
      BY <1>5, <3>1, <3>2, FS_RemoveElement, SumSame
    <3>4. SumOf(Costs, H) = Costs[r] + SumOf(Costs, rest) /\ Costs[r] \in Int /\ SumOf(Costs, rest) \in Int
      BY <1>5, <1>6, <2>1, <3>1, SumRest
    <3>5. SumOf(k, H) = k[r] + SumOf(k, rest) /\ k[r] \in Int
      BY <1>4, <1>5, <1>6, <2>1, <3>1, SumRest
    <3>6. PICK a, x, y : a = SumOf(Costs, rest) /\ x = Costs[r] /\ y = k[r]
      OBVIOUS
    <3>7. y + a = (x + a) + (y - x)
      BY <3>4, <3>5, <3>6
    <3>8. SumOf(k, H) = SumOf(Costs, H) + (k[r] - Costs[r])
      BY <3>3, <3>4, <3>5, <3>6, <3>7, Zenon
    <3> QED
      BY <2>1, <3>8
  <2>2. CASE r \notin H
    <3>1. \A s \in H : Costs[s] \in Int /\ Costs[s] = k[s]
      BY <1>3, <1>5, <1>6, <2>2
    <3>2. SumOf(Costs, H) = SumOf(k, H)
      BY <1>5, <3>1, SumSame
    <3> QED
      BY <1>5, <2>2, <3>2
  <2> QED
    BY <2>1, <2>2
<1>9. PICK a, b, x, y : /\ a = SumOf(Tallies, C) /\ b = SumOf(Costs, H)
                        /\ x = (IF r \in C THEN w[r] - Tallies[r] ELSE 0)
                        /\ y = (IF r \in H THEN k[r] - Costs[r] ELSE 0)
  OBVIOUS
<1>10. a \in Int /\ b \in Int /\ x \in Int /\ y \in Int
  BY <1>4, <1>5, <1>9
<1>11. RawScore(c) = a - b /\ RawScore(c)' = (a + x) - (b + y)
  BY <1>4, <1>5, <1>7, <1>8, <1>9, Zenon
<1>12. ((a + x) - (b + y)) - (a - b) = x - y /\ (a - b) \in Int /\ ((a + x) - (b + y)) \in Int
  BY <1>10
<1>13. RawScore(c)' - RawScore(c) = x - y
  BY <1>11, <1>12, Zenon
<1> QED
  BY <1>2, <1>9, <1>11, <1>12, <1>13, Zenon DEF C, H

\* A vote moves the raw score by at most 2, and only that of the company reported on.
THEOREM VotesMoveOneStep == LedgerSpec => OneVoteOneStep
<1> DEFINE A == \A r \in ReportIds, u \in Users :
                  Exists(r) /\ Exists(r)' /\ votes'[r][u] # votes[r][u] =>
                      \A c \in Companies :
                          LET moved == Magnitude(RawScore(c)' - RawScore(c))
                          IN  moved <= IF c = reports[r].company THEN 2 ELSE 0
<1>1. ASSUME ScoringInv, [LedgerNext]_ledger
      PROVE  A
  <2>1. SUFFICES ASSUME NEW r \in ReportIds, NEW q \in Users,
                        Exists(r), Exists(r)', votes'[r][q] # votes[r][q], NEW c \in Companies
                 PROVE  Magnitude(RawScore(c)' - RawScore(c)) <= IF c = reports[r].company THEN 2 ELSE 0
    OBVIOUS
  <2>2. PICK u \in Users, v \in Value : CastVote(r, u, v)
    BY <1>1, <2>1, VotesMoveByCasting
  <2>3. PICK m, x, y : m = RawScore(c)' - RawScore(c) /\ x = Tallies'[r] - Tallies[r] /\ y = Costs'[r] - Costs[r]
    OBVIOUS
  <2>4. m = (IF r \in ClaimsOf(c) THEN x ELSE 0) - (IF r \in ChallengesOf(c) THEN y ELSE 0)
    BY <1>1, <2>2, <2>3, CastScores
  <2>5. x \in -2..2 /\ y \in -2..2
    BY <1>1, <2>2, <2>3, CastMoves
  <2>6. /\ ~(r \in ClaimsOf(c) /\ r \in ChallengesOf(c))
        /\ r \in ClaimsOf(c) \/ r \in ChallengesOf(c) => c = reports[r].company
    BY DEF ClaimsOf, ChallengesOf
  <2>7. Magnitude(m) <= IF c = reports[r].company THEN 2 ELSE 0
    <3>1. CASE r \in ClaimsOf(c)
      <4>1. m \in -2..2 /\ c = reports[r].company
        BY <2>4, <2>5, <2>6, <3>1
      <4> QED
        BY <4>1 DEF Magnitude
    <3>2. CASE r \in ChallengesOf(c)
      <4>1. m \in -2..2 /\ c = reports[r].company
        BY <2>4, <2>5, <2>6, <3>2
      <4> QED
        BY <4>1 DEF Magnitude
    <3>3. CASE r \notin ClaimsOf(c) /\ r \notin ChallengesOf(c)
      <4>1. m = 0
        BY <2>4, <3>3
      <4> QED
        BY <4>1 DEF Magnitude
    <3> QED
      BY <3>1, <3>2, <3>3
  <2> QED
    BY <2>3, <2>7
<1>2. ScoringInv /\ [LedgerNext]_ledger => [A]_ledger
  BY <1>1
<1> QED
  BY <1>2, ScoringInvariance, PTL DEF LedgerSpec, OneVoteOneStep

\* An ethical vote cast on a challenge, or an unethical one withdrawn from it, never
\* raises the score of the company.
THEOREM ChallengesSubtract == LedgerSpec => ChallengesOnlySubtract
<1> DEFINE A == \A r \in ReportIds, u \in Users, c \in Companies :
                  /\ Exists(r) /\ ~TopLevel(r) /\ reports[r].company = c
                  /\ Exists(r)' /\ votes'[r][u] > votes[r][u]
                  => RawScore(c)' <= RawScore(c)
<1>1. ASSUME ScoringInv, [LedgerNext]_ledger
      PROVE  A
  <2>1. SUFFICES ASSUME NEW r \in ReportIds, NEW q \in Users, NEW c \in Companies,
                        Exists(r), ~TopLevel(r), reports[r].company = c,
                        Exists(r)', votes'[r][q] > votes[r][q]
                 PROVE  RawScore(c)' <= RawScore(c)
    OBVIOUS
  <2>2. votes'[r] # votes[r]
    <3>1. votes[r][q] \in Int
      BY <1>1 DEF ScoringInv, LedgerTypeOK, Ballot, Value
    <3> QED
      BY <2>1, <3>1
  <2>3. PICK u \in Users, v \in Value : CastVote(r, u, v)
    BY <1>1, <2>1, <2>2, VotesMoveByCasting
  <2>4. r \notin ClaimsOf(c) /\ r \in ChallengesOf(c)
    BY <2>1 DEF ClaimsOf, ChallengesOf
  <2>5. PICK m, x, y : /\ m = RawScore(c)' - RawScore(c) /\ x = Tallies'[r] - Tallies[r]
                       /\ y = Costs'[r] - Costs[r]
    OBVIOUS
  <2>6. m = 0 - y
    BY <1>1, <2>3, <2>4, <2>5, CastScores
  <2>7. y \in -2..2 /\ y >= 0
    <3>1. y \in -2..2 /\ Costs'[r] >= Costs[r]
      BY <1>1, <2>1, <2>3, <2>5, CastMoves
    <3>2. Costs[r] \in Int /\ Costs'[r] \in Int
      <4>1. ScoringInv'
        BY <1>1, ScoringInvStep
      <4> QED
        BY <1>1, <2>1, <4>1, BothHold, BothHoldNext DEF SummandsHold
    <3> QED
      BY <2>5, <3>1, <3>2
  <2>8. RawScore(c) \in Int /\ RawScore(c)' \in Int
    BY <1>1, <2>3, CastScores
  <2> QED
    BY <2>5, <2>6, <2>7, <2>8
<1>2. ScoringInv /\ [LedgerNext]_ledger => [A]_ledger
  BY <1>1
<1> QED
  BY <1>2, ScoringInvariance, PTL DEF LedgerSpec, ChallengesOnlySubtract

\* A claim that goes is withdrawn itself: only a challenge goes with another report.
LEMMA ClaimsGoByWithdrawal ==
    ASSUME ScoringInv, [LedgerNext]_ledger, NEW r \in ReportIds, TopLevel(r), ~Exists(r)'
    PROVE  Withdraw(r)
<1>1. LedgerTypeOK /\ Exists(r) /\ reports[r].parent = NULL
  BY DEF ScoringInv, TopLevel
<1>2. reports' # reports
  BY <1>1 DEF Exists
<1>3. ASSUME NEW s \in ReportIds, NEW c \in Companies, NEW u \in Users,
             NEW p \in ReportIds \cup {NULL}, NEW x \in Texts, Submit(s, c, u, p, x)
      PROVE  FALSE
  <2>1. /\ Exists(s)' /\ \A q \in ReportIds : q # s => reports'[q] = reports[q]
    BY <1>1, <1>3, SubmitRows
  <2> QED
    BY <1>1, <2>1 DEF Exists
<1>4. ASSUME NEW s \in ReportIds, NEW x \in Texts, Amend(s, x)
      PROVE  FALSE
  BY <1>1, <1>4, AmendRows
<1>5. ASSUME NEW s \in ReportIds, NEW u \in Users, NEW v \in Value, CastVote(s, u, v)
      PROVE  FALSE
  BY <1>1, <1>5, CastRows
<1>6. PICK s \in ReportIds : Withdraw(s)
  BY <1>2, <1>3, <1>4, <1>5, LedgerStep DEF ledger, Burn
<1>7. r = s \/ r \in Challenges(s)
  BY <1>1, <1>6, WithdrawRows
<1>8. r \notin Challenges(s)
  BY <1>1, TablesAssumption DEF Challenges
<1> QED
  BY <1>6, <1>7, <1>8

\* A withdrawn claim leaves the sums with its challenges, and takes nothing else.
LEMMA WithdrawScores ==
    ASSUME ScoringInv, NEW r \in ReportIds, NEW c \in Companies, Withdraw(r),
           TopLevel(r), reports[r].company = c
    PROVE  RawScore(c)' = RawScore(c) - (Tally(votes[r]) - PenaltyOn(r))
<1> DEFINE C == ClaimsOf(c)
           H == ChallengesOf(c)
           D == Challenges(r)
<1>1. ScoringInv'
  BY ScoringInvWithdraw
<1>2. PICK w, k : w = Tallies' /\ k = Costs'
  OBVIOUS
<1>3. /\ \A s \in ReportIds :
            /\ Exists(s)' <=> Exists(s) /\ s # r /\ s \notin D
            /\ Exists(s)' => reports'[s] = reports[s] /\ votes'[s] = votes[s]
  BY WithdrawRows DEF ScoringInv
<1>4. /\ C \subseteq ReportIds /\ H \subseteq ReportIds /\ D \subseteq H /\ r \in C
  <2>1. ASSUME NEW s \in D
        PROVE  s \in H
    <3>1. s \in ReportIds /\ Exists(s) /\ reports[s].parent = r
      BY DEF Challenges
    <3>2. reports[r].company = reports[s].company
      BY <3>1 DEF ScoringInv, ChallengesHaveClaims
    <3>3. ~TopLevel(s)
      BY <3>1, TablesAssumption DEF TopLevel
    <3> QED
      BY <3>1, <3>2, <3>3 DEF ChallengesOf
  <2> QED
    BY <2>1 DEF ClaimsOf, ChallengesOf
<1>5. C' = C \ {r}
  <2>1. \A s \in ReportIds : s \in C' <=> s \in C /\ s # r
    BY <1>3, TablesAssumption DEF ClaimsOf, TopLevel, Challenges
  <2>2. C' \subseteq ReportIds
    BY DEF ClaimsOf
  <2> HIDE DEF C
  <2> QED
    BY <1>4, <2>1, <2>2
<1>6. H' = H \ D
  <2>1. \A s \in ReportIds : s \in H' <=> s \in H /\ s \notin D
    BY <1>3 DEF ChallengesOf, TopLevel
  <2>2. H' \subseteq ReportIds
    BY DEF ChallengesOf
  <2> HIDE DEF H, D
  <2> QED
    BY <1>4, <2>1, <2>2
<1>7. /\ \A s \in C \ {r} : w[s] = Tallies[s]
      /\ \A s \in H \ D : k[s] = Costs[s]
  <2>1. ASSUME NEW s \in ReportIds, s \in C' \/ s \in H'
        PROVE  Tallies'[s] = Tallies[s] /\ Costs'[s] = Costs[s]
    <3>1. Exists(s)'
      BY <2>1 DEF ClaimsOf, ChallengesOf, TopLevel
    <3>2. votes'[s] = votes[s]
      BY <1>3, <3>1
    <3> QED
      BY <3>2 DEF Tallies, Costs
  <2> HIDE DEF C, H, D
  <2> QED
    BY <1>2, <1>4, <1>5, <1>6, <2>1
<1>8. /\ RawScore(c)' = SumOf(w, C \ {r}) - SumOf(k, H \ D)
      /\ \A s \in ReportIds : w[s] \in Int /\ k[s] \in Int
  <2>1. RawScore(c)' = SumOf(w, C') - SumOf(k, H')
    BY <1>1, <1>2, BothHoldNext DEF SplitsHold, ScoreSplits
  <2>2. \A s \in ReportIds : w[s] \in Int /\ k[s] \in Int
    BY <1>1, <1>2, BothHoldNext DEF SummandsHold
  <2> QED
    BY <1>5, <1>6, <2>1, <2>2
<1>9. /\ RawScore(c) = SumOf(Tallies, C) - SumOf(Costs, H)
      /\ SumOf(Tallies, C) \in Int /\ SumOf(Costs, H) \in Int
      /\ IsFiniteSet(C) /\ IsFiniteSet(H)
      /\ \A s \in ReportIds : Tallies[s] \in Int /\ Costs[s] \in Int
      /\ Tallies[r] = Tally(votes[r])
  BY BothHold DEF SplitsHold, SummandsHold, ScoreSplits
<1>10. PenaltyOn(r) = SumOf(Costs, D)
  <2>1. IsFiniteSet(D)
    BY <1>4, <1>9, FS_Subset
  <2>2. \A s \in D : Costs[s] = Positive(Tally(votes[s]))
    BY <1>4, BothHold DEF SummandsHold
  <2>3. TalliedCost(D) = SumOf(Costs, D)
    BY <2>1, <2>2, PenaltySummed
  <2> QED
    BY <2>3, Unfolded
<1> HIDE DEF C, H, D
<1>11. /\ IsFiniteSet(C \ {r}) /\ IsFiniteSet(H \ D) /\ IsFiniteSet(D)
  BY <1>4, <1>9, FS_Subset
<1>12. SumOf(w, C \ {r}) = SumOf(Tallies, C \ {r})
  <2>1. \A s \in C \ {r} : w[s] \in Int /\ w[s] = Tallies[s]
    BY <1>4, <1>7, <1>8
  <2> QED
    BY <1>11, <2>1, SumSame
<1>13. SumOf(k, H \ D) = SumOf(Costs, H \ D)
  <2>1. \A s \in H \ D : k[s] \in Int /\ k[s] = Costs[s]
    BY <1>4, <1>7, <1>8
  <2> QED
    BY <1>11, <2>1, SumSame
<1>14. SumOf(Tallies, C) = Tallies[r] + SumOf(Tallies, C \ {r}) /\ SumOf(Tallies, C \ {r}) \in Int
  BY <1>4, <1>9, SumRest
<1>15. SumOf(Costs, H) = SumOf(Costs, H \ D) + SumOf(Costs, D)
  <2>1. /\ \A s \in H : Costs[s] \in Int
        /\ H \ D \in SUBSET H /\ D \in SUBSET H /\ (H \ D) \cap D = {} /\ (H \ D) \cup D = H
    BY <1>4, <1>9
  <2>2. SumOf(Costs, (H \ D) \cup D) = SumOf(Costs, H \ D) + SumOf(Costs, D)
    BY <1>9, <2>1, SumUnion
  <2> QED
    BY <2>1, <2>2
<1>16. SumOf(Costs, H \ D) \in Int /\ SumOf(Costs, D) \in Int /\ Tallies[r] \in Int
  <2>1. /\ \A s \in H : Costs[s] \in Int
        /\ H \ D \in SUBSET H /\ D \in SUBSET H
    BY <1>4, <1>9
  <2> QED
    BY <1>4, <1>9, <2>1, SumType
<1>17. PICK a, b, t, n : /\ a = SumOf(Tallies, C \ {r}) /\ b = SumOf(Costs, H \ D)
                         /\ t = Tallies[r] /\ n = SumOf(Costs, D)
  OBVIOUS
<1>18. a - b = ((t + a) - (b + n)) - (t - n)
  BY <1>14, <1>16, <1>17
<1> QED
  BY <1>8, <1>9, <1>10, <1>12, <1>13, <1>14, <1>15, <1>17, <1>18, Zenon

\* A claim that is withdrawn takes its votes and its penalty out of the score.
THEOREM WithdrawalsAreClean == LedgerSpec => WithdrawalIsClean
<1> DEFINE A == \A r \in ReportIds, c \in Companies :
                  TopLevel(r) /\ reports[r].company = c /\ ~Exists(r)' =>
                      RawScore(c)' = RawScore(c) - (Tally(votes[r]) - PenaltyOn(r))
<1>1. ASSUME ScoringInv, [LedgerNext]_ledger
      PROVE  A
  BY <1>1, ClaimsGoByWithdrawal, WithdrawScores
<1>2. ScoringInv /\ [LedgerNext]_ledger => [A]_ledger
  BY <1>1
<1> QED
  BY <1>2, ScoringInvariance, PTL DEF LedgerSpec, WithdrawalIsClean

-----------------------------------------------------------------------------
(* Reads *)

USE TablesAssumption

-----------------------------------------------------------------------------
(* What a step of somebody else does to a reader *)

\* A step that leaves a reader's record alone, and the rows and votes of the
\* reports in its histories, keeps what it has gathered.
LEMMA OtherKeeps ==
    ASSUME NEW q \in Readers, RowsGathered(q), VotesGathered(q),
           read'[q] = read[q],
           stood'[q] \subseteq stood[q], kept'[q] \subseteq kept[q],
           \A r \in stood'[q] : /\ TopLevel(r)' <=> TopLevel(r)
                                /\ reports'[r].company = reports[r].company
                                /\ reports'[r].user = reports[r].user,
           read[q].user # NULL =>
              \A r \in stood'[q] \cap kept'[q] :
                  votes'[r][read[q].user] = votes[r][read[q].user]
    PROVE  RowsGathered(q)' /\ VotesGathered(q)'
<1>1. RowsGathered(q)'
  BY DEF RowsGathered, At
<1>2. VotesGathered(q)'
  BY DEF VotesGathered, At, Shown, Includes
<1> QED
  BY <1>1, <1>2

\* Families hold when rows keep what they refer to, new rows refer to a claim
\* about their company, claims go with their challenges, and histories are cut
\* back to what stands, begin anew or end.
LEMMA FamiliesKept ==
    ASSUME FamiliesHold,
           \A r \in Standing \cap Standing' :
              /\ reports'[r].parent = reports[r].parent
              /\ reports'[r].company = reports[r].company
              /\ reports[r].parent \in ReportIds => reports[r].parent \in Standing',
           \A r \in Standing' \ Standing, p \in ReportIds : reports'[r].parent = p =>
              TopLevel(p)' /\ reports'[p].company = reports'[r].company,
           \A q \in Readers : stood'[q] \in {stood[q] \cap Standing', Standing', {}}
    PROVE  FamiliesHold'
<1>1. ASSUME NEW r \in Standing', NEW p \in ReportIds, reports'[r].parent = p
      PROVE  TopLevel(p)' /\ reports'[p].company = reports'[r].company
  <2>1. CASE r \notin Standing
    BY <1>1, <2>1
  <2>2. CASE r \in Standing
    <3>1. reports[r].parent = p /\ p \in Standing'
      BY <1>1, <2>2
    <3>2. TopLevel(p) /\ reports[p].company = reports[r].company
      BY <2>2, <3>1 DEF FamiliesHold
    <3>3. p \in Standing /\ reports[p].parent = NULL
      BY <3>2 DEF Standing, TopLevel
    <3>4. reports'[p].parent = NULL /\ reports'[p].company = reports[p].company
      BY <3>1, <3>3
    <3>5. TopLevel(p)'
      BY <3>1, <3>4 DEF TopLevel, Standing
    <3> QED
      BY <2>2, <3>2, <3>4, <3>5
  <2> QED
    BY <2>1, <2>2
<1>2. ASSUME NEW q \in Readers
      PROVE  /\ stood'[q] \subseteq Standing'
             /\ \A r \in stood'[q], p \in ReportIds : reports'[r].parent = p => p \in stood'[q]
  <2>1. CASE stood'[q] = {}
    BY <2>1
  <2>2. CASE stood'[q] = Standing'
    BY <1>1, <2>2 DEF Standing, TopLevel
  <2>3. CASE stood'[q] = stood[q] \cap Standing'
    <3>1. stood[q] \subseteq Standing
      BY DEF FamiliesHold
    <3>2. \A r \in stood[q], p \in ReportIds : reports[r].parent = p => p \in stood[q]
      BY DEF FamiliesHold
    <3> QED
      BY <2>3, <3>1, <3>2
  <2> QED
    BY <2>1, <2>2, <2>3
<1> QED
  BY <1>1, <1>2 DEF FamiliesHold

\* The answers gathered by the readers at hand are kept, too.
LEMMA StepKeeps ==
    ASSUME Inv, TypeOK', FamiliesHold', NEW q \in Readers,
           \A p \in Readers \ {q} :
              /\ read'[p] = read[p]
              /\ stood'[p] \subseteq stood[p] /\ kept'[p] \subseteq kept[p]
              /\ \A r \in stood'[p] : /\ TopLevel(r)' <=> TopLevel(r)
                                      /\ reports'[r].company = reports[r].company
                                      /\ reports'[r].user = reports[r].user
              /\ read[p].user # NULL =>
                    \A r \in stood'[p] \cap kept'[p] :
                        votes'[r][read[p].user] = votes[r][read[p].user],
           RowsGathered(q)', VotesGathered(q)'
    PROVE  Inv'
<1>1. ASSUME NEW p \in Readers \ {q}
      PROVE  RowsGathered(p)' /\ VotesGathered(p)'
  <2>1. RowsGathered(p) /\ VotesGathered(p)
    BY DEF Inv
  <2> QED
    BY <2>1, OtherKeeps
<1> QED
  BY <1>1 DEF Inv

-----------------------------------------------------------------------------
(* Statements *)

\* A statement of a reader changes its record alone.
LEMMA StatementKeeps ==
    ASSUME Inv, NEW q \in Readers, NEW t \in Reader, Advance(q, t),
           RowsGathered(q)', VotesGathered(q)'
    PROVE  Inv'
<1>1. /\ read' = [read EXCEPT ![q] = t]
      /\ reports' = reports /\ votes' = votes /\ retired' = retired
      /\ stood' = stood /\ kept' = kept
  BY DEF Advance, Untouched, ledger
<1>2. TypeOK'
  BY <1>1 DEF Inv, TypeOK
<1>3. FamiliesHold'
  BY <1>1 DEF Inv, FamiliesHold, Standing, TopLevel, Exists
<1>4. \A p \in Readers \ {q} : read'[p] = read[p]
  BY <1>1 DEF Inv, TypeOK
<1> QED
  BY <1>1, <1>2, <1>3, <1>4, StepKeeps DEF TopLevel, Exists

\* The counts of a statement are numbers of voters, and include every vote.
LEMMA CountsAreRight ==
    ASSUME Inv, NEW r \in ReportIds
    PROVE  /\ CountsOf(r) \in Counts
           /\ \A u \in Users : Includes(CountsOf(r), votes[r][u])
<1>1. CountsOf(r) \in Counts
  BY SidesFinite DEF CountsOf, Counts
<1>2. ASSUME NEW u \in Users
      PROVE  Includes(CountsOf(r), votes[r][u])
  <2>1. ASSUME votes[r][u] = 1
        PROVE  Cardinality(Ethical(votes[r])) > 0
    <3>1. u \in Ethical(votes[r])
      BY <2>1 DEF Ethical
    <3> QED
      BY <3>1, SidesFinite, FS_EmptySet
  <2>2. ASSUME votes[r][u] = -1
        PROVE  Cardinality(Unethical(votes[r])) > 0
    <3>1. u \in Unethical(votes[r])
      BY <2>2 DEF Unethical
    <3> QED
      BY <3>1, SidesFinite, FS_EmptySet
  <2> QED
    BY <2>1, <2>2 DEF Includes, CountsOf
<1> QED
  BY <1>1, <1>2

\* What a statement does to the variables.
LEMMA AfterStatement ==
    ASSUME Inv, NEW q \in Readers, NEW t, Advance(q, t)
    PROVE  /\ read'[q] = t
           /\ reports' = reports /\ votes' = votes /\ stood' = stood /\ kept' = kept
<1>1. read \in [Readers -> Reader]
  BY DEF Inv, TypeOK
<1> QED
  BY <1>1 DEF Advance, Untouched, ledger

\* Gathered answers are of their types.
LEMMA GatheredTypes ==
    ASSUME Inv, NEW q \in Readers, NEW rows
    PROVE  /\ Counted(q, rows) \in [ReportIds -> Counts]
           /\ read[q].user # NULL => Voted(q, rows) \in [ReportIds -> Value \cup {0}]
<1>1. read[q] \in Reader
  BY DEF Inv, TypeOK
<1>2. ASSUME NEW r \in ReportIds
      PROVE  /\ CountsOf(r) \in Counts
             /\ read[q].counts[r] \in Counts
             /\ read[q].own[r] \in Value \cup {0}
  <2>1. read[q].counts \in [ReportIds -> Counts] /\ read[q].own \in [ReportIds -> Value \cup {0}]
    BY <1>1 DEF Reader
  <2> QED
    BY <2>1, CountsAreRight
<1>3. ASSUME read[q].user # NULL, NEW r \in ReportIds
      PROVE  votes[r][read[q].user] \in Value \cup {0}
  <2>1. votes[r] \in Ballot
    BY DEF Inv, TypeOK
  <2>2. read[q].user \in Users
    BY <1>1, <1>3 DEF Reader
  <2> QED
    BY <2>1, <2>2 DEF Ballot
<1> QED
  BY <1>2, <1>3 DEF Counted, Voted

\* vote_on_report's counts.
LEMMA VoteCountsKeeps ==
    ASSUME Inv, NEW q \in Readers, VoteCounts(q)
    PROVE  Inv'
<1> DEFINE t == [read[q] EXCEPT !.pc = "vote_own", !.counts = Counted(q, {read[q].cast})]
<1>1. At(q, {"vote_counts"}) /\ Advance(q, t)
  BY DEF VoteCounts
<1>2. read[q] \in Reader /\ RowsGathered(q) /\ VotesGathered(q)
  BY DEF Inv, TypeOK
<1>3. t \in Reader
  BY <1>2, GatheredTypes DEF Reader, Stage
<1>4. /\ t.pc = "vote_own" /\ t.user = read[q].user /\ t.claims = {read[q].cast}
      /\ t.cast = read[q].cast /\ t.user # NULL
      /\ t.subs = {} /\ t.counts = Counted(q, {read[q].cast})
  BY <1>1, <1>2 DEF Reader, RowsGathered, At
<1> HIDE DEF t
<1>5. /\ read'[q] = t
      /\ reports' = reports /\ votes' = votes /\ stood' = stood /\ kept' = kept
  BY <1>1, AfterStatement
<1>6. RowsGathered(q)'
  BY <1>4, <1>5 DEF RowsGathered, At
<1>7. ASSUME NEW r \in ReportIds, r = read[q].cast
      PROVE  Includes(t.counts[r], votes[r][t.user])
  <2>1. t.user \in Users
    BY <1>3, <1>4 DEF Reader
  <2> QED
    BY <1>4, <1>7, <2>1, CountsAreRight DEF Counted
<1>8. VotesGathered(q)'
  <2>1. stood[q] \subseteq ReportIds
    BY DEF Inv, TypeOK
  <2> QED
    BY <1>4, <1>5, <1>7, <2>1 DEF VotesGathered, At, Shown, Includes
<1> QED
  BY <1>1, <1>3, <1>6, <1>8, StatementKeeps

\* vote_on_report's read of the voter's own vote.
LEMMA VoteOwnKeeps ==
    ASSUME Inv, NEW q \in Readers, VoteOwn(q)
    PROVE  Inv'
<1> DEFINE t == [read[q] EXCEPT !.pc = "vote_done", !.own = Voted(q, {read[q].cast})]
<1>1. At(q, {"vote_own"}) /\ Advance(q, t)
  BY DEF VoteOwn
<1>2. read[q] \in Reader /\ RowsGathered(q) /\ VotesGathered(q)
  BY DEF Inv, TypeOK
<1>3. read[q].user # NULL
  BY <1>1, <1>2 DEF RowsGathered, At
<1>4. t \in Reader
  BY <1>2, <1>3, GatheredTypes DEF Reader, Stage
<1>5. /\ t.pc = "vote_done" /\ t.user = read[q].user /\ t.claims = {read[q].cast}
      /\ t.claims = read[q].claims /\ t.subs = {} /\ t.subs = read[q].subs
      /\ t.counts = read[q].counts /\ t.own = Voted(q, {read[q].cast})
  BY <1>1, <1>2 DEF Reader, RowsGathered, At
<1> HIDE DEF t
<1>6. /\ read'[q] = t
      /\ reports' = reports /\ votes' = votes /\ stood' = stood /\ kept' = kept
  BY <1>1, AfterStatement
<1>7. RowsGathered(q)'
  BY <1>5, <1>6 DEF RowsGathered, At
<1>8. \A r \in ReportIds : r \in t.claims => t.own[r] = votes[r][t.user]
  BY <1>5 DEF Voted
<1>9. VotesGathered(q)'
  <2>1. stood[q] \subseteq ReportIds
    BY DEF Inv, TypeOK
  <2>2. read'[q].pc = "vote_done" /\ read[q].pc = "vote_own" /\ Shown(q)' = Shown(q)
    BY <1>1, <1>5, <1>6 DEF At, Shown
  <2>3. /\ read'[q].user = read[q].user /\ read'[q].counts = read[q].counts
        /\ read'[q].claims = read[q].claims /\ read'[q].subs = {}
        /\ votes' = votes /\ stood'[q] = stood[q] /\ kept'[q] = kept[q]
    BY <1>5, <1>6
  <2>4. ASSUME NEW r \in stood[q] \cap kept[q], read[q].user # NULL
        PROVE  /\ r \in Shown(q) => Includes(read[q].counts[r], votes[r][read[q].user])
               /\ r \in read[q].claims => read'[q].own[r] = votes[r][read[q].user]
    <3>1. r \in Shown(q) => Includes(read[q].counts[r], votes[r][read[q].user])
      BY <1>2, <2>2, <2>4 DEF VotesGathered, At
    <3>2. r \in read[q].claims => read'[q].own[r] = votes[r][read[q].user]
      BY <1>5, <1>6, <1>8, <2>1, <2>4
    <3> QED
      BY <3>1, <3>2
  <2> QED
    BY <2>2, <2>3, <2>4 DEF VotesGathered, At, Includes
<1> QED
  BY <1>1, <1>4, <1>7, <1>9, StatementKeeps
-----------------------------------------------------------------------------
(* The page of a company *)

\* The claims of the page.
LEMMA PageClaimsKeeps ==
    ASSUME Inv, NEW q \in Readers, PageClaims(q)
    PROVE  Inv'
<1> DEFINE ids == ClaimsOf(read[q].company)
           next == IF ids = {} THEN "page_done"
                   ELSE IF read[q].user = NULL THEN "page_subs" ELSE "page_votes"
           t == [read[q] EXCEPT !.pc = next, !.claims = ids, !.counts = Counted(q, ids)]
<1>1. At(q, {"page_claims"}) /\ Advance(q, t)
  BY DEF PageClaims
<1>2. read[q] \in Reader /\ RowsGathered(q)
  BY DEF Inv, TypeOK
<1>3. ids \in SUBSET ReportIds
  BY DEF ClaimsOf
<1>4. t \in Reader
  BY <1>2, <1>3, GatheredTypes DEF Reader, Stage
<1>5. /\ t.pc = next /\ t.user = read[q].user /\ t.company = read[q].company
      /\ t.claims = ids /\ t.subs = {} /\ t.counts = Counted(q, ids)
  BY <1>1, <1>2 DEF Reader, RowsGathered, At
<1>6. next \in {"page_done", "page_subs", "page_votes"} /\ (next = "page_done" <=> ids = {})
      /\ (next = "page_votes" => read[q].user # NULL)
      /\ (next = "page_subs" => read[q].user = NULL)
  OBVIOUS
<1> HIDE DEF t, next
<1>7. /\ read'[q] = t
      /\ reports' = reports /\ votes' = votes /\ stood' = stood /\ kept' = kept
  BY <1>1, AfterStatement
<1>8. \A r \in stood[q] : TopLevel(r) /\ reports[r].company = t.company => r \in ids
  <2>1. stood[q] \subseteq ReportIds
    BY DEF Inv, TypeOK
  <2> QED
    BY <1>5, <2>1 DEF ClaimsOf
<1>9. ASSUME ids = {}, NEW r \in stood[q], ~TopLevel(r)
      PROVE  reports[r].company # t.company
  <2>1. r \in Standing
    BY DEF Inv, FamiliesHold
  <2>2. reports[r] \in Row /\ reports[r].parent # NULL
    BY <1>9, <2>1 DEF Standing, TopLevel, Exists, Inv, TypeOK
  <2>3. reports[r].parent \in ReportIds
    BY <2>2 DEF Row
  <2>4. /\ reports[r].parent \in stood[q] /\ TopLevel(reports[r].parent)
        /\ reports[reports[r].parent].company = reports[r].company
    BY <2>1, <2>3 DEF Inv, FamiliesHold
  <2> QED
    BY <1>8, <1>9, <2>4
<1> HIDE DEF ids
<1>10. RowsGathered(q)'
  BY <1>5, <1>6, <1>7, <1>8, <1>9 DEF RowsGathered, At, TopLevel, Exists
<1>11. \A r \in ids : t.user # NULL => Includes(t.counts[r], votes[r][t.user])
  <2>1. t.user # NULL => t.user \in Users
    BY <1>4 DEF Reader
  <2> QED
    BY <1>3, <1>5, <2>1, CountsAreRight DEF Counted
<1>12. VotesGathered(q)'
  BY <1>5, <1>6, <1>7, <1>11 DEF VotesGathered, At, Shown, Includes
<1> QED
  BY <1>1, <1>4, <1>10, <1>12, StatementKeeps

\* The user's votes on the claims.
LEMMA PageVotesKeeps ==
    ASSUME Inv, NEW q \in Readers, PageVotes(q)
    PROVE  Inv'
<1> DEFINE t == [read[q] EXCEPT !.pc = "page_subs", !.own = Voted(q, read[q].claims)]
<1>1. At(q, {"page_votes"}) /\ Advance(q, t)
  BY DEF PageVotes
<1>2. read[q] \in Reader /\ RowsGathered(q) /\ VotesGathered(q)
  BY DEF Inv, TypeOK
<1>3. read[q].user # NULL
  BY <1>1, <1>2 DEF RowsGathered, At
<1>4. t \in Reader
  BY <1>2, <1>3, GatheredTypes DEF Reader, Stage
<1>5. /\ t.pc = "page_subs" /\ t.user = read[q].user /\ t.company = read[q].company
      /\ t.claims = read[q].claims /\ t.subs = {} /\ t.subs = read[q].subs
      /\ t.counts = read[q].counts /\ t.own = Voted(q, read[q].claims)
  BY <1>1, <1>2 DEF Reader, RowsGathered, At
<1> HIDE DEF t
<1>6. /\ read'[q] = t
      /\ reports' = reports /\ votes' = votes /\ stood' = stood /\ kept' = kept
  BY <1>1, AfterStatement
<1>7. RowsGathered(q)'
  BY <1>1, <1>2, <1>5, <1>6 DEF RowsGathered, At, TopLevel, Exists
<1>8. \A r \in ReportIds : r \in t.claims => t.own[r] = votes[r][t.user]
  BY <1>5 DEF Voted
<1>9. VotesGathered(q)'
  <2>1. stood[q] \subseteq ReportIds
    BY DEF Inv, TypeOK
  <2> QED
    BY <1>1, <1>2, <1>5, <1>6, <1>8, <2>1 DEF VotesGathered, At, Shown, Includes
<1> QED
  BY <1>1, <1>4, <1>7, <1>9, StatementKeeps

\* The challenges to the claims.
LEMMA PageSubsKeeps ==
    ASSUME Inv, NEW q \in Readers, PageSubs(q)
    PROVE  Inv'
<1> DEFINE ids == SubsOf(read[q].company, read[q].claims)
           next == IF ids = {} \/ read[q].user = NULL THEN "page_done" ELSE "page_sub_votes"
           t == [read[q] EXCEPT !.pc = next, !.subs = ids, !.counts = Counted(q, ids)]
<1>1. At(q, {"page_subs"}) /\ Advance(q, t)
  BY DEF PageSubs
<1>2. read[q] \in Reader /\ RowsGathered(q) /\ VotesGathered(q)
  BY DEF Inv, TypeOK
<1>3. ids \in SUBSET ReportIds
  BY DEF SubsOf
<1>4. t \in Reader
  BY <1>2, <1>3, GatheredTypes DEF Reader, Stage
<1>5. /\ t.pc = next /\ t.user = read[q].user /\ t.company = read[q].company
      /\ t.claims = read[q].claims /\ t.subs = ids /\ t.counts = Counted(q, ids)
      /\ t.own = read[q].own
  BY <1>2 DEF Reader
<1>6. next \in {"page_done", "page_sub_votes"}
      /\ (next = "page_done" => ids = {} \/ read[q].user = NULL)
      /\ (next = "page_sub_votes" => read[q].user # NULL)
  OBVIOUS
<1>7. ASSUME NEW r \in stood[q], ~TopLevel(r), reports[r].company = t.company
      PROVE  r \in ids
  <2>1. r \in Standing
    BY DEF Inv, FamiliesHold
  <2>2. reports[r] \in Row /\ reports[r].parent # NULL
    BY <1>7, <2>1 DEF Standing, TopLevel, Exists, Inv, TypeOK
  <2>3. reports[r].parent \in ReportIds
    BY <2>2 DEF Row
  <2>4. /\ reports[r].parent \in stood[q] /\ TopLevel(reports[r].parent)
        /\ reports[reports[r].parent].company = reports[r].company
    BY <2>1, <2>3 DEF Inv, FamiliesHold
  <2>5. reports[r].parent \in read[q].claims
    BY <1>1, <1>2, <1>5, <1>7, <2>4 DEF RowsGathered, At
  <2> QED
    BY <1>5, <1>7, <2>1, <2>5 DEF SubsOf, Standing
<1> HIDE DEF t, next, ids
<1>8. /\ read'[q] = t
      /\ reports' = reports /\ votes' = votes /\ stood' = stood /\ kept' = kept
  BY <1>1, AfterStatement
<1>9. \A r \in stood[q] : TopLevel(r) /\ reports[r].company = t.company => r \in t.claims
  BY <1>1, <1>2, <1>5 DEF RowsGathered, At
<1>10. RowsGathered(q)'
  BY <1>5, <1>6, <1>7, <1>8, <1>9 DEF RowsGathered, At, TopLevel, Exists
<1>11. \A r \in stood[q] \cap kept[q] :
           t.user # NULL /\ r \in t.claims \cup t.subs
           => Includes(t.counts[r], votes[r][t.user])
  <2>1. t.user # NULL => t.user \in Users
    BY <1>4 DEF Reader
  <2>2. stood[q] \subseteq ReportIds
    BY DEF Inv, TypeOK
  <2>3. \A r \in stood[q] \cap kept[q] : r \in ids => t.counts[r] = CountsOf(r)
    BY <1>5, <2>2 DEF Counted
  <2>4. \A r \in stood[q] \cap kept[q] : r \notin ids => t.counts[r] = read[q].counts[r]
    BY <1>5, <2>2 DEF Counted
  <2>5. \A r \in stood[q] \cap kept[q] :
           t.user # NULL /\ r \in t.claims => Includes(read[q].counts[r], votes[r][t.user])
    BY <1>1, <1>2, <1>5 DEF VotesGathered, At, Shown
  <2> QED
    BY <1>5, <2>1, <2>2, <2>3, <2>4, <2>5, CountsAreRight
<1>12. \A r \in stood[q] \cap kept[q] :
           t.user # NULL /\ r \in t.claims => t.own[r] = votes[r][t.user]
  BY <1>1, <1>2, <1>5 DEF VotesGathered, At
<1>13. VotesGathered(q)'
  BY <1>5, <1>6, <1>8, <1>11, <1>12 DEF VotesGathered, At, Shown
<1> QED
  BY <1>1, <1>4, <1>10, <1>13, StatementKeeps

\* The user's votes on the challenges.
LEMMA PageSubVotesKeeps ==
    ASSUME Inv, NEW q \in Readers, PageSubVotes(q)
    PROVE  Inv'
<1> DEFINE t == [read[q] EXCEPT !.pc = "page_done", !.own = Voted(q, read[q].subs)]
<1>1. At(q, {"page_sub_votes"}) /\ Advance(q, t)
  BY DEF PageSubVotes
<1>2. read[q] \in Reader /\ RowsGathered(q) /\ VotesGathered(q)
  BY DEF Inv, TypeOK
<1>3. read[q].user # NULL
  BY <1>1, <1>2 DEF RowsGathered, At
<1>4. t \in Reader
  BY <1>2, <1>3, GatheredTypes DEF Reader, Stage
<1>5. /\ t.pc = "page_done" /\ t.user = read[q].user /\ t.company = read[q].company
      /\ t.claims = read[q].claims /\ t.subs = read[q].subs
      /\ t.counts = read[q].counts /\ t.own = Voted(q, read[q].subs)
  BY <1>2 DEF Reader
<1> HIDE DEF t
<1>6. /\ read'[q] = t
      /\ reports' = reports /\ votes' = votes /\ stood' = stood /\ kept' = kept
  BY <1>1, AfterStatement
<1>7. RowsGathered(q)'
  BY <1>1, <1>2, <1>5, <1>6 DEF RowsGathered, At, TopLevel, Exists
<1>8. \A r \in ReportIds : t.own[r] = IF r \in t.subs THEN votes[r][t.user] ELSE read[q].own[r]
  BY <1>5 DEF Voted
<1>9. VotesGathered(q)'
  <2>1. stood[q] \subseteq ReportIds
    BY DEF Inv, TypeOK
  <2> QED
    BY <1>1, <1>2, <1>5, <1>6, <1>8, <2>1 DEF VotesGathered, At, Shown
<1> QED
  BY <1>1, <1>4, <1>7, <1>9, StatementKeeps

-----------------------------------------------------------------------------
(* The profile *)

\* The user's claims.
LEMMA ProfileClaimsKeeps ==
    ASSUME Inv, NEW q \in Readers, ProfileClaims(q)
    PROVE  Inv'
<1> DEFINE t == [read[q] EXCEPT !.pc = "profile_challenges", !.claims = Claimed(read[q].user)]
<1>1. At(q, {"profile_claims"}) /\ Advance(q, t)
  BY DEF ProfileClaims
<1>2. read[q] \in Reader
  BY DEF Inv, TypeOK
<1>3. t \in Reader
  BY <1>2 DEF Reader, Stage, Claimed
<1>4. /\ t.pc = "profile_challenges" /\ t.user = read[q].user
      /\ t.claims = Claimed(read[q].user)
  BY <1>2 DEF Reader
<1> HIDE DEF t
<1>5. /\ read'[q] = t
      /\ reports' = reports /\ votes' = votes /\ stood' = stood /\ kept' = kept
  BY <1>1, AfterStatement
<1>6. stood[q] \subseteq ReportIds
  BY DEF Inv, TypeOK
<1>7. RowsGathered(q)'
  BY <1>4, <1>5, <1>6 DEF RowsGathered, At, Claimed, TopLevel, Exists
<1>8. VotesGathered(q)'
  BY <1>4, <1>5 DEF VotesGathered, At
<1> QED
  BY <1>1, <1>3, <1>7, <1>8, StatementKeeps

\* The user's challenges.
LEMMA ProfileChallengesKeeps ==
    ASSUME Inv, NEW q \in Readers, ProfileChallenges(q)
    PROVE  Inv'
<1> DEFINE t == [read[q] EXCEPT !.pc = "profile_done", !.subs = Challenged(read[q].user)]
<1>1. At(q, {"profile_challenges"}) /\ Advance(q, t)
  BY DEF ProfileChallenges
<1>2. read[q] \in Reader /\ RowsGathered(q)
  BY DEF Inv, TypeOK
<1>3. t \in Reader
  BY <1>2 DEF Reader, Stage, Challenged
<1>4. /\ t.pc = "profile_done" /\ t.user = read[q].user
      /\ t.claims = read[q].claims /\ t.subs = Challenged(read[q].user)
  BY <1>2 DEF Reader
<1> HIDE DEF t
<1>5. /\ read'[q] = t
      /\ reports' = reports /\ votes' = votes /\ stood' = stood /\ kept' = kept
  BY <1>1, AfterStatement
<1>6. \A r \in stood[q] : r \in ReportIds /\ Exists(r)
  BY DEF Inv, TypeOK, FamiliesHold, Standing
<1>7. \A r \in stood[q] : ~TopLevel(r) /\ reports[r].user = t.user => r \in t.subs
  BY <1>4, <1>6 DEF Challenged, TopLevel
<1>8. \A r \in stood[q] : TopLevel(r) /\ reports[r].user = t.user => r \in t.claims
  BY <1>1, <1>2, <1>4 DEF RowsGathered, At
<1>9. RowsGathered(q)'
  BY <1>4, <1>5, <1>7, <1>8 DEF RowsGathered, At, TopLevel, Exists
<1>10. VotesGathered(q)'
  BY <1>4, <1>5 DEF VotesGathered, At
<1> QED
  BY <1>1, <1>3, <1>9, <1>10, StatementKeeps
-----------------------------------------------------------------------------
(* The beginning and the end of a request *)

\* A request that begins knows nothing but who asks for what.
LEMMA BeginKeeps ==
    ASSUME Inv, NEW q \in Readers, NEW t \in Reader,
           t.pc \in {"page_claims", "profile_claims"}, t.claims = {}, t.subs = {},
           read' = [read EXCEPT ![q] = t], Untouched, Watch(q)
    PROVE  Inv'
<1>1. /\ read'[q] = t /\ stood'[q] = Standing /\ kept'[q] = ReportIds
      /\ reports' = reports /\ votes' = votes /\ retired' = retired
  BY DEF Inv, TypeOK, Untouched, ledger, Watch
<1>2. \A p \in Readers \ {q} :
         read'[p] = read[p] /\ stood'[p] = stood[p] /\ kept'[p] = kept[p]
  BY DEF Inv, TypeOK, Watch
<1>3. TypeOK'
  BY <1>1 DEF Inv, TypeOK, Watch, Standing
<1>4. Standing' = Standing
  BY <1>1 DEF Standing, Exists
<1>5. FamiliesHold'
  <2>1. \A p \in Readers : stood'[p] \in {stood[p] \cap Standing', Standing', {}}
    BY <1>1, <1>2, <1>4 DEF Inv, FamiliesHold
  <2>2. \A r \in Standing : reports[r].parent \in ReportIds => reports[r].parent \in Standing
    BY DEF Inv, FamiliesHold, TopLevel, Standing
  <2> QED
    BY <1>1, <1>4, <2>1, <2>2, FamiliesKept DEF Inv
<1>6. RowsGathered(q)' /\ VotesGathered(q)'
  BY <1>1 DEF RowsGathered, VotesGathered, At, Shown
<1> QED
  BY <1>1, <1>2, <1>3, <1>5, <1>6, StepKeeps DEF TopLevel, Exists

\* The record of a reader without a request.
LEMMA IdleIsReader ==
    /\ Idle \in Reader /\ Idle.pc = "idle" /\ Idle.user = NULL
    /\ Idle.claims = {} /\ Idle.subs = {}
<1>1. NoCounts \in Counts
  BY DEF NoCounts, Counts
<1> QED
  BY <1>1 DEF Idle, Reader, Stage

\* get_company.
LEMMA PageGetKeeps ==
    ASSUME Inv, NEW q \in Readers, NEW u \in Users \cup {NULL}, NEW c \in Companies,
           PageGet(q, u, c)
    PROVE  Inv'
<1> DEFINE t == [Idle EXCEPT !.pc = "page_claims", !.user = u, !.company = c]
<1>1. t \in Reader
  BY IdleIsReader DEF Reader, Stage
<1>2. t.pc = "page_claims" /\ t.claims = {} /\ t.subs = {}
  BY IdleIsReader DEF Reader
<1>3. read' = [read EXCEPT ![q] = t] /\ Untouched /\ Watch(q)
  BY DEF PageGet
<1> HIDE DEF t
<1> QED
  BY <1>1, <1>2, <1>3, BeginKeeps

\* get_my_profile.
LEMMA ProfileGetKeeps ==
    ASSUME Inv, NEW q \in Readers, NEW u \in Users, ProfileGet(q, u)
    PROVE  Inv'
<1> DEFINE t == [Idle EXCEPT !.pc = "profile_claims", !.user = u]
<1>1. t \in Reader
  BY IdleIsReader DEF Reader, Stage
<1>2. t.pc = "profile_claims" /\ t.claims = {} /\ t.subs = {}
  BY IdleIsReader DEF Reader
<1>3. read' = [read EXCEPT ![q] = t] /\ Untouched /\ Watch(q)
  BY DEF ProfileGet
<1> HIDE DEF t
<1> QED
  BY <1>1, <1>2, <1>3, BeginKeeps

\* The answer.
LEMMA RespondKeeps ==
    ASSUME Inv, NEW q \in Readers, Respond(q)
    PROVE  Inv'
<1>1. /\ read'[q] = Idle /\ stood'[q] = {} /\ kept'[q] = {}
      /\ reports' = reports /\ votes' = votes /\ retired' = retired
  BY DEF Respond, Inv, TypeOK, Untouched, ledger
<1>2. \A p \in Readers \ {q} :
         read'[p] = read[p] /\ stood'[p] = stood[p] /\ kept'[p] = kept[p]
  BY DEF Respond, Inv, TypeOK
<1>3. TypeOK'
  BY <1>1, IdleIsReader DEF Respond, Inv, TypeOK
<1>4. Standing' = Standing
  BY <1>1 DEF Standing, Exists
<1>5. FamiliesHold'
  <2>1. \A p \in Readers : stood'[p] \in {stood[p] \cap Standing', Standing', {}}
    BY <1>1, <1>2, <1>4 DEF Inv, FamiliesHold
  <2>2. \A r \in Standing : reports[r].parent \in ReportIds => reports[r].parent \in Standing
    BY DEF Inv, FamiliesHold, TopLevel, Standing
  <2> QED
    BY <1>1, <1>4, <2>1, <2>2, FamiliesKept DEF Inv
<1>6. RowsGathered(q)' /\ VotesGathered(q)'
  BY <1>1, IdleIsReader DEF RowsGathered, VotesGathered, At
<1> QED
  BY <1>1, <1>2, <1>3, <1>5, <1>6, StepKeeps DEF TopLevel, Exists
-----------------------------------------------------------------------------
(* Mutations of the tables *)

\* Reports that stand before and after a mutation keep their place, and those
\* that are new are claims or challenge one about their company.
PlacesKept ==
    /\ \A s \in Standing \cap Standing' :
          /\ reports'[s].parent = reports[s].parent
          /\ reports'[s].company = reports[s].company
          /\ reports'[s].user = reports[s].user
          /\ reports[s].parent \in ReportIds => reports[s].parent \in Standing'
    /\ \A s \in Standing' \ Standing, p \in ReportIds : reports'[s].parent = p =>
          TopLevel(p)' /\ reports'[p].company = reports'[s].company

\* Only the voter's vote on the report changes, among those that stand.
VotesKept(voter, r) ==
    \A s \in Standing \cap Standing', w \in Users :
        votes'[s][w] = votes[s][w] \/ (s = r /\ w = voter)

\* A reader at hand during a mutation.
LEMMA BystanderKeeps ==
    ASSUME Inv, NEW voter, NEW r, PlacesKept, VotesKept(voter, r), NEW p \in Readers,
           read'[p] = read[p], stood'[p] = stood[p] \cap Standing',
           kept'[p] = IF read[p].user = voter /\ voter # NULL THEN kept[p] \ {r} ELSE kept[p]
    PROVE  /\ stood'[p] \subseteq stood[p] /\ kept'[p] \subseteq kept[p]
           /\ \A s \in stood'[p] : /\ TopLevel(s)' <=> TopLevel(s)
                                   /\ reports'[s].company = reports[s].company
                                   /\ reports'[s].user = reports[s].user
           /\ read[p].user # NULL =>
                 \A s \in stood'[p] \cap kept'[p] :
                     votes'[s][read[p].user] = votes[s][read[p].user]
<1>1. stood[p] \subseteq Standing
  BY DEF Inv, FamiliesHold
<1>2. \A s \in stood'[p] : s \in Standing \cap Standing'
  BY <1>1
<1>3. \A s \in stood'[p] : /\ reports'[s].parent = reports[s].parent
                           /\ reports'[s].company = reports[s].company
                           /\ reports'[s].user = reports[s].user
  BY <1>2 DEF PlacesKept
<1>4. \A s \in stood'[p] : TopLevel(s)' <=> TopLevel(s)
  BY <1>2, <1>3 DEF TopLevel, Standing
<1>5. ASSUME read[p].user # NULL, NEW s \in stood'[p] \cap kept'[p]
      PROVE  votes'[s][read[p].user] = votes[s][read[p].user]
  <2>1. read[p].user \in Users
    BY <1>5 DEF Inv, TypeOK, Reader
  <2>2. ~(s = r /\ read[p].user = voter)
    BY <1>5
  <2> QED
    BY <1>2, <2>1, <2>2 DEF VotesKept
<1> QED
  BY <1>3, <1>4, <1>5

\* A mutation by somebody who is not among the readers.
LEMMA MutationKeeps ==
    ASSUME Inv,
           reports' \in [ReportIds -> Row \cup {NULL}], votes' \in [ReportIds -> Ballot],
           retired' \subseteq ReportIds,
           NEW voter, NEW r, PlacesKept, VotesKept(voter, r),
           Witness(voter, r), read' = read
    PROVE  Inv'
<1>1. \A p \in Readers :
         /\ stood'[p] = stood[p] \cap Standing'
         /\ kept'[p] = IF read[p].user = voter /\ voter # NULL THEN kept[p] \ {r} ELSE kept[p]
  BY DEF Witness
<1>2. TypeOK'
  <2>1. stood' \in [Readers -> SUBSET ReportIds] /\ kept' \in [Readers -> SUBSET ReportIds]
    BY DEF Inv, TypeOK, Witness
  <2> QED
    BY <2>1 DEF Inv, TypeOK
<1>3. FamiliesHold'
  <2>1. \A p \in Readers : stood'[p] \in {stood[p] \cap Standing', Standing', {}}
    BY <1>1
  <2> QED
    BY <2>1, FamiliesKept DEF Inv, PlacesKept
<1>4. ASSUME NEW p \in Readers
      PROVE  RowsGathered(p)' /\ VotesGathered(p)'
  <2>1. /\ stood'[p] \subseteq stood[p] /\ kept'[p] \subseteq kept[p]
        /\ \A s \in stood'[p] : /\ TopLevel(s)' <=> TopLevel(s)
                                /\ reports'[s].company = reports[s].company
                                /\ reports'[s].user = reports[s].user
        /\ read[p].user # NULL =>
              \A s \in stood'[p] \cap kept'[p] :
                  votes'[s][read[p].user] = votes[s][read[p].user]
    <3>1. read'[p] = read[p] /\ stood'[p] = stood[p] \cap Standing'
      BY <1>1
    <3>2. kept'[p] = IF read[p].user = voter /\ voter # NULL THEN kept[p] \ {r} ELSE kept[p]
      BY <1>1
    <3> QED
      BY <3>1, <3>2, BystanderKeeps
  <2>2. RowsGathered(p) /\ VotesGathered(p)
    BY DEF Inv
  <2> QED
    BY <2>1, <2>2, OtherKeeps
<1> QED
  BY <1>2, <1>3, <1>4 DEF Inv

\* A vote.
LEMMA CastVoteEffect ==
    ASSUME Inv, NEW r \in ReportIds, NEW u \in Users, NEW v \in Value, CastVote(r, u, v)
    PROVE  /\ reports' \in [ReportIds -> Row \cup {NULL}] /\ votes' \in [ReportIds -> Ballot]
           /\ retired' \subseteq ReportIds
           /\ Standing' = Standing
           /\ PlacesKept /\ VotesKept(u, r)
<1>1. reports \in [ReportIds -> Row \cup {NULL}] /\ votes \in [ReportIds -> Ballot]
  BY DEF Inv, TypeOK
<1>2. /\ votes' = [votes EXCEPT ![r][u] = Toggle(votes[r][u], v)]
      /\ reports' = [reports EXCEPT ![r].vote_sum = Tally(votes'[r])]
      /\ reports[r] # NULL /\ retired' = retired
  BY DEF CastVote, Exists
<1>3. votes' \in [ReportIds -> Ballot]
  BY <1>1, <1>2 DEF Toggle, Ballot
<1>4. reports[r] \in Row
  BY <1>1, <1>2
<1>5. [reports[r] EXCEPT !.vote_sum = Tally(votes'[r])] \in Row
  BY <1>4, TallyType DEF Row
<1>6. reports' \in [ReportIds -> Row \cup {NULL}]
  BY <1>1, <1>2, <1>5
<1>7. /\ reports'[r].parent = reports[r].parent
      /\ reports'[r].company = reports[r].company
      /\ reports'[r].user = reports[r].user
      /\ reports'[r] # NULL
  <2>1. reports'[r] = [reports[r] EXCEPT !.vote_sum = Tally(votes'[r])]
    BY <1>1, <1>2
  <2> QED
    BY <1>4, <1>5, <2>1 DEF Row
<1>8. \A s \in ReportIds : s # r => reports'[s] = reports[s]
  BY <1>1, <1>2
<1>9. Standing' = Standing
  BY <1>2, <1>7, <1>8 DEF Standing, Exists
<1>10. PlacesKept
  <2>1. \A s \in Standing : reports[s].parent \in ReportIds => reports[s].parent \in Standing
    BY DEF Inv, FamiliesHold, TopLevel, Standing
  <2>2. \A s \in Standing : /\ reports'[s].parent = reports[s].parent
                            /\ reports'[s].company = reports[s].company
                            /\ reports'[s].user = reports[s].user
    BY <1>7, <1>8 DEF Standing
  <2> QED
    BY <1>9, <2>1, <2>2 DEF PlacesKept
<1>11. \A s \in ReportIds, w \in Users : votes'[s][w] = votes[s][w] \/ (s = r /\ w = u)
  BY <1>1, <1>2 DEF Ballot
<1>12. VotesKept(u, r)
  BY <1>11 DEF VotesKept, Standing
<1> QED
  BY <1>2, <1>3, <1>6, <1>9, <1>10, <1>12 DEF Inv, TypeOK

\* vote_on_report's commit.
LEMMA VoteKeeps ==
    ASSUME Inv, NEW q \in Readers, NEW r \in ReportIds, NEW u \in Users, NEW v \in Value,
           Vote(q, u, r, v)
    PROVE  Inv'
<1> DEFINE t == [Idle EXCEPT !.pc = "vote_counts", !.user = u, !.cast = r, !.claims = {r}]
<1>1. t \in Reader
  BY IdleIsReader DEF Reader, Stage
<1>2. t.pc = "vote_counts" /\ t.user = u /\ t.cast = r /\ t.claims = {r} /\ t.subs = {}
  BY IdleIsReader DEF Reader
<1>3. /\ CastVote(r, u, v)
      /\ read' = [read EXCEPT ![q] = t]
      /\ stood' = [stood EXCEPT ![q] = Standing]
      /\ kept' = [p \in Readers |->
                    IF p = q THEN ReportIds
                    ELSE IF read[p].user = u THEN kept[p] \ {r} ELSE kept[p]]
  BY DEF Vote
<1> HIDE DEF t
<1>4. /\ reports' \in [ReportIds -> Row \cup {NULL}] /\ votes' \in [ReportIds -> Ballot]
      /\ retired' \subseteq ReportIds
      /\ Standing' = Standing
      /\ PlacesKept /\ VotesKept(u, r)
  BY <1>3, CastVoteEffect
<1>5. /\ read'[q] = t
      /\ stood'[q] = Standing
      /\ \A p \in Readers \ {q} :
            /\ read'[p] = read[p] /\ stood'[p] = stood[p]
            /\ kept'[p] = IF read[p].user = u /\ u # NULL THEN kept[p] \ {r} ELSE kept[p]
  BY <1>3 DEF Inv, TypeOK
<1>6. \A p \in Readers : stood[p] \subseteq Standing
  BY DEF Inv, FamiliesHold
<1>7. TypeOK'
  <2>1. kept' \in [Readers -> SUBSET ReportIds] /\ stood' \in [Readers -> SUBSET ReportIds]
    BY <1>3 DEF Inv, TypeOK, Standing
  <2> QED
    BY <1>1, <1>3, <1>4, <2>1 DEF Inv, TypeOK
<1>8. FamiliesHold'
  <2>1. \A p \in Readers : stood'[p] \in {stood[p] \cap Standing', Standing', {}}
    BY <1>4, <1>5, <1>6
  <2> QED
    BY <1>4, <2>1, FamiliesKept DEF Inv, PlacesKept
<1>9. RowsGathered(q)' /\ VotesGathered(q)'
  <2>1. u # NULL
    OBVIOUS
  <2> QED
    BY <1>2, <1>5, <2>1 DEF RowsGathered, VotesGathered, At, Shown
<1>10. ASSUME NEW p \in Readers \ {q}
       PROVE  /\ stood'[p] \subseteq stood[p] /\ kept'[p] \subseteq kept[p]
              /\ \A s \in stood'[p] : /\ TopLevel(s)' <=> TopLevel(s)
                                      /\ reports'[s].company = reports[s].company
                                      /\ reports'[s].user = reports[s].user
              /\ read[p].user # NULL =>
                    \A s \in stood'[p] \cap kept'[p] :
                        votes'[s][read[p].user] = votes[s][read[p].user]
  <2>1. stood'[p] = stood[p] \cap Standing'
    BY <1>4, <1>5, <1>6
  <2>2. read'[p] = read[p]
    BY <1>5
  <2>3. kept'[p] = IF read[p].user = u /\ u # NULL THEN kept[p] \ {r} ELSE kept[p]
    BY <1>5
  <2>4. PlacesKept /\ VotesKept(u, r)
    BY <1>4
  <2> QED
    BY <2>1, <2>2, <2>3, <2>4, BystanderKeeps
<1> QED
  BY <1>5, <1>7, <1>8, <1>9, <1>10, StepKeeps
-----------------------------------------------------------------------------
(* Everybody else *)

\* A new report.
LEMMA SubmitKeeps ==
    ASSUME Inv, NEW r \in ReportIds, NEW c \in Companies, NEW u \in Users,
           NEW p \in ReportIds \cup {NULL}, NEW x \in Texts,
           Submit(r, c, u, p, x), Witness(NULL, r), read' = read
    PROVE  Inv'
<1> DEFINE row == [company |-> c, user |-> u, parent |-> p, text |-> x, vote_sum |-> 0]
<1>1. /\ reports[r] = NULL /\ reports' = [reports EXCEPT ![r] = row]
      /\ votes' = votes /\ retired' = retired
      /\ p # NULL => TopLevel(p) /\ reports[p].company = c
  BY DEF Submit, Exists
<1>2. row \in Row /\ row # NULL /\ row.parent = p /\ row.company = c
  BY DEF Row
<1> HIDE DEF row
<1>3. reports' \in [ReportIds -> Row \cup {NULL}] /\ reports'[r] = row
  BY <1>1, <1>2 DEF Inv, TypeOK
<1>4. \A s \in ReportIds : s # r => reports'[s] = reports[s]
  BY <1>1 DEF Inv, TypeOK
<1>5. Standing' = Standing \cup {r} /\ r \notin Standing
  BY <1>1, <1>2, <1>3, <1>4 DEF Standing, Exists
<1>6. PlacesKept
  <2>1. \A s \in Standing : /\ s # r /\ reports'[s] = reports[s]
                            /\ reports[s].parent \in ReportIds => reports[s].parent \in Standing
    BY <1>4, <1>5 DEF Inv, FamiliesHold, TopLevel, Standing
  <2>2. ASSUME NEW a \in ReportIds, row.parent = a
        PROVE  TopLevel(a)' /\ reports'[a].company = row.company
    <3>1. TopLevel(a) /\ reports[a].company = c /\ a # r
      BY <1>1, <1>2, <2>2 DEF TopLevel, Exists
    <3> QED
      BY <1>2, <1>4, <3>1 DEF TopLevel, Exists
  <2> QED
    BY <1>3, <1>5, <2>1, <2>2 DEF PlacesKept
<1>7. VotesKept(NULL, r)
  BY <1>1 DEF VotesKept
<1>8. votes' \in [ReportIds -> Ballot] /\ retired' \subseteq ReportIds
  BY <1>1 DEF Inv, TypeOK
<1> QED
  BY <1>3, <1>6, <1>7, <1>8, MutationKeeps

\* An edit.
LEMMA AmendKeeps ==
    ASSUME Inv, NEW r \in ReportIds, NEW x \in Texts,
           Amend(r, x), Witness(NULL, r), read' = read
    PROVE  Inv'
<1>1. /\ reports[r] # NULL /\ reports' = [reports EXCEPT ![r].text = x]
      /\ votes' = votes /\ retired' = retired
  BY DEF Amend, Exists
<1>2. reports[r] \in Row
  BY <1>1 DEF Inv, TypeOK
<1>3. [reports[r] EXCEPT !.text = x] \in Row
  BY <1>2 DEF Row
<1>4. reports'[r] = [reports[r] EXCEPT !.text = x]
  BY <1>1 DEF Inv, TypeOK
<1>5. /\ reports' \in [ReportIds -> Row \cup {NULL}]
      /\ \A s \in ReportIds : s # r => reports'[s] = reports[s]
  BY <1>1, <1>3 DEF Inv, TypeOK
<1>6. /\ reports'[r].parent = reports[r].parent
      /\ reports'[r].company = reports[r].company
      /\ reports'[r].user = reports[r].user
      /\ reports'[r] # NULL
  BY <1>2, <1>3, <1>4 DEF Row
<1>7. Standing' = Standing
  BY <1>1, <1>5, <1>6 DEF Standing, Exists
<1>8. PlacesKept
  <2>1. \A s \in Standing : reports[s].parent \in ReportIds => reports[s].parent \in Standing
    BY DEF Inv, FamiliesHold, TopLevel, Standing
  <2>2. \A s \in Standing : /\ reports'[s].parent = reports[s].parent
                            /\ reports'[s].company = reports[s].company
                            /\ reports'[s].user = reports[s].user
    BY <1>5, <1>6 DEF Standing
  <2> QED
    BY <1>7, <2>1, <2>2 DEF PlacesKept
<1>9. VotesKept(NULL, r)
  BY <1>1 DEF VotesKept
<1>10. votes' \in [ReportIds -> Ballot] /\ retired' \subseteq ReportIds
  BY <1>1 DEF Inv, TypeOK
<1> QED
  BY <1>5, <1>8, <1>9, <1>10, MutationKeeps

\* A report that goes, with its challenges.
LEMMA WithdrawKeeps ==
    ASSUME Inv, NEW r \in ReportIds, Withdraw(r), Witness(NULL, r), read' = read
    PROVE  Inv'
<1> DEFINE gone == {r} \cup Challenges(r)
<1>1. /\ reports' = [s \in ReportIds |-> IF s \in gone THEN NULL ELSE reports[s]]
      /\ votes' = [s \in ReportIds |-> IF s \in gone THEN NoVotes ELSE votes[s]]
      /\ retired' = retired \cup gone
  BY DEF Withdraw
<1>2. gone \subseteq ReportIds
  BY DEF Challenges
<1>3. \A s \in Standing \ gone : reports[s].parent # r
  BY DEF Challenges, Standing, Exists
<1> HIDE DEF gone
<1>4. NoVotes \in Ballot
  BY DEF NoVotes, Ballot
<1>5. /\ reports' \in [ReportIds -> Row \cup {NULL}] /\ votes' \in [ReportIds -> Ballot]
      /\ retired' \subseteq ReportIds
  BY <1>1, <1>2, <1>4 DEF Inv, TypeOK
<1>6. Standing' = Standing \ gone
  BY <1>1 DEF Standing, Exists
<1>7. \A s \in Standing' : reports'[s] = reports[s] /\ votes'[s] = votes[s]
  BY <1>1, <1>6 DEF Standing
<1>8. ASSUME NEW s \in Standing', reports[s].parent \in ReportIds
      PROVE  reports[s].parent \in Standing'
  <2>1. TopLevel(reports[s].parent)
    BY <1>6, <1>8 DEF Inv, FamiliesHold
  <2>2. reports[s].parent # r
    BY <1>3, <1>6, <1>8
  <2>3. reports[s].parent \notin gone
    BY <2>1, <2>2 DEF gone, TopLevel, Challenges
  <2> QED
    BY <1>6, <1>8, <2>1, <2>3 DEF TopLevel, Standing
<1>9. PlacesKept
  BY <1>6, <1>7, <1>8 DEF PlacesKept
<1>10. VotesKept(NULL, r)
  BY <1>7 DEF VotesKept
<1> QED
  BY <1>5, <1>9, <1>10, MutationKeeps

\* An id that is never used.
LEMMA BurnKeeps ==
    ASSUME Inv, NEW r \in ReportIds, Burn(r), Witness(NULL, r), read' = read
    PROVE  Inv'
<1>1. reports' = reports /\ votes' = votes /\ retired' = retired \cup {r}
  BY DEF Burn
<1>2. Standing' = Standing
  BY <1>1 DEF Standing, Exists
<1>3. \A s \in Standing : reports[s].parent \in ReportIds => reports[s].parent \in Standing
  BY DEF Inv, FamiliesHold, TopLevel, Standing
<1>4. PlacesKept
  BY <1>1, <1>2, <1>3 DEF PlacesKept
<1>5. VotesKept(NULL, r)
  BY <1>1 DEF VotesKept
<1>6. /\ reports' \in [ReportIds -> Row \cup {NULL}] /\ votes' \in [ReportIds -> Ballot]
      /\ retired' \subseteq ReportIds
  BY <1>1 DEF Inv, TypeOK
<1> QED
  BY <1>4, <1>5, <1>6, MutationKeeps

-----------------------------------------------------------------------------
(* The theorems about Reads *)

\* No reports, no requests.
LEMMA InitInv == Init => Inv
<1> SUFFICES ASSUME Init PROVE Inv
  OBVIOUS
<1>1. /\ reports = [r \in ReportIds |-> NULL] /\ votes = [r \in ReportIds |-> NoVotes]
      /\ retired = {}
      /\ read = [q \in Readers |-> Idle]
      /\ stood = [q \in Readers |-> {}] /\ kept = [q \in Readers |-> {}]
  BY DEF Init, LedgerInit
<1>2. NoVotes \in Ballot
  BY DEF NoVotes, Ballot
<1>3. TypeOK
  BY <1>1, <1>2, IdleIsReader DEF TypeOK
<1>4. FamiliesHold
  BY <1>1 DEF FamiliesHold, Standing, Exists
<1>5. ASSUME NEW q \in Readers
      PROVE  RowsGathered(q) /\ VotesGathered(q)
  BY <1>1, IdleIsReader DEF RowsGathered, VotesGathered, At
<1> QED
  BY <1>3, <1>4, <1>5 DEF Inv

\* Every step keeps the invariant.
LEMMA StepInv == Inv /\ [Next]_vars => Inv'
<1> SUFFICES ASSUME Inv, [Next]_vars PROVE Inv'
  OBVIOUS
<1>1. CASE UNCHANGED vars
  BY <1>1 DEF vars, ledger, Inv, TypeOK, FamiliesHold, Standing, TopLevel, Exists,
              RowsGathered, VotesGathered, At, Shown, Includes
<1>2. CASE Elsewhere
  <2>1. PICK r \in ReportIds :
          \/ /\ \/ \E c \in Companies, u \in Users, p \in ReportIds \cup {NULL}, x \in Texts :
                       Submit(r, c, u, p, x)
                \/ \E x \in Texts : Amend(r, x)
                \/ Withdraw(r)
                \/ Burn(r)
             /\ Witness(NULL, r)
             /\ UNCHANGED read
          \/ \E u \in Users, v \in Value : CastVote(r, u, v) /\ Witness(u, r) /\ UNCHANGED read
    BY <1>2 DEF Elsewhere
  <2>2. CASE \E u \in Users, v \in Value : CastVote(r, u, v) /\ Witness(u, r) /\ UNCHANGED read
    <3>1. PICK u \in Users, v \in Value : CastVote(r, u, v) /\ Witness(u, r) /\ UNCHANGED read
      BY <2>2
    <3> QED
      BY <3>1, CastVoteEffect, MutationKeeps
  <2> QED
    BY <2>1, <2>2, SubmitKeeps, AmendKeeps, WithdrawKeeps, BurnKeeps
<1>3. ASSUME NEW q \in Readers, Arrive(q)
      PROVE  Inv'
  BY <1>3, VoteKeeps, PageGetKeeps, ProfileGetKeeps DEF Arrive
<1>4. ASSUME NEW q \in Readers, Step(q)
      PROVE  Inv'
  BY <1>4, VoteCountsKeeps, VoteOwnKeeps, PageClaimsKeeps, PageVotesKeeps, PageSubsKeeps,
     PageSubVotesKeeps, ProfileClaimsKeeps, ProfileChallengesKeeps, RespondKeeps DEF Step
<1> QED
  BY <1>1, <1>2, <1>3, <1>4 DEF Next

\* The inductive invariant holds.
THEOREM Invariance == Spec => []Inv
<1>1. Init => Inv
  BY InitInv
<1>2. Inv /\ [Next]_vars => Inv'
  BY StepInv
<1> QED
  BY <1>1, <1>2, PTL DEF Spec

\* The variables, and what a reader has gathered, are always of their types.
THEOREM TypeCorrect == Spec => []TypeOK
<1>1. Inv => TypeOK
  BY DEF Inv
<1> QED
  BY <1>1, Invariance, PTL

\* No report that stands while get_company runs is missing from its page,
\* however others report, challenge, vote and withdraw between its statements.
THEOREM PagesAreComplete == Spec => []PageIsComplete
<1>1. ASSUME Inv, NEW q \in Readers, At(q, {"page_done"}),
             NEW r \in stood[q], reports[r].company = read[q].company
      PROVE  r \in Shown(q)
  <2>1. RowsGathered(q)
    BY <1>1 DEF Inv
  <2> QED
    BY <1>1, <2>1 DEF RowsGathered, At, Shown
<1>2. Inv => PageIsComplete
  BY <1>1 DEF PageIsComplete
<1> QED
  BY <1>2, Invariance, PTL

\* Nor is any of the user's own reports missing from get_my_profile.
THEOREM ProfilesAreComplete == Spec => []ProfileIsComplete
<1>1. ASSUME Inv, NEW q \in Readers, At(q, {"profile_done"}),
             NEW r \in stood[q], reports[r].user = read[q].user
      PROVE  r \in Shown(q)
  <2>1. RowsGathered(q)
    BY <1>1 DEF Inv
  <2> QED
    BY <1>1, <2>1 DEF RowsGathered, At, Shown
<1>2. Inv => ProfileIsComplete
  BY <1>1 DEF ProfileIsComplete
<1> QED
  BY <1>2, Invariance, PTL

\* The user's own vote, read by one statement, is among the counts that
\* another one read, unless the user votes in between.
THEOREM OwnVotesAreCounted == Spec => []OwnVoteIsCounted
<1>1. ASSUME Inv, NEW q \in Readers, At(q, {"vote_done", "page_done"}), read[q].user # NULL,
             NEW r \in Shown(q) \cap stood[q] \cap kept[q]
      PROVE  /\ read[q].own[r] = votes[r][read[q].user]
             /\ read[q].own[r] = 1 => read[q].counts[r].ethical > 0
             /\ read[q].own[r] = -1 => read[q].counts[r].unethical > 0
  <2>1. RowsGathered(q) /\ VotesGathered(q)
    BY <1>1 DEF Inv
  <2>2. Includes(read[q].counts[r], votes[r][read[q].user])
    BY <1>1, <2>1 DEF VotesGathered, At
  <2>3. r \in read[q].subs => At(q, {"page_done"})
    BY <1>1, <2>1 DEF RowsGathered, At
  <2>4. read[q].own[r] = votes[r][read[q].user]
    BY <1>1, <2>1, <2>3 DEF VotesGathered, At, Shown
  <2> QED
    BY <2>2, <2>4 DEF Includes
<1>2. Inv => OwnVoteIsCounted
  BY <1>1 DEF OwnVoteIsCounted
<1> QED
  BY <1>2, Invariance, PTL
=============================================================================
