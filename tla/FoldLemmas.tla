----------------------------- MODULE FoldLemmas -----------------------------
(***************************************************************************)
(* Facts the proofs of the components share, about none of them in         *)
(* particular: the least and the greatest number of a set, division, powers*)
(* of two, and what a fold over a set or a sequence returns.               *)
(*                                                                         *)
(* Nothing here is proved by an induction theorem, which would take a      *)
(* predicate as a parameter.  A claim about every number or every subset is*)
(* proved from its least counterexample instead.                           *)
(***************************************************************************)
EXTENDS Integers, FiniteSets, FiniteSetsExt, FiniteSetTheorems,
        WellFoundedInduction, TLAPS

(* The least number of a set of numbers: induction without a predicate. *)
LEMMA LeastNumber ==
    ASSUME NEW T \in SUBSET Nat, T # {}
    PROVE  \E x \in T : \A y \in T : x <= y
<1>1. PICK R : R = OpToRel(<, Nat)
  OBVIOUS
<1>2. IsWellFoundedOn(R, Nat)
  BY <1>1, NatLessThanWellFounded
<1>3. PICK x \in T : \A y \in T : ~(<<y, x>> \in R)
  BY <1>2, WFMin
<1>4. \A y \in T : y < x => <<y, x>> \in R
  BY <1>1 DEF OpToRel
<1>5. \A y \in T : ~(y < x)
  BY <1>3, <1>4, Zenon
<1>6. QED
  BY <1>5

(* The least and the greatest number of a set. *)
LEMMA MinIsLeast ==
    ASSUME NEW T \in SUBSET Nat, T # {}
    PROVE  Min(T) \in T /\ \A y \in T : Min(T) <= y
<1>1. \E x \in T : \A y \in T : x <= y
  BY LeastNumber
<1>2. QED
  BY <1>1 DEF Min

(* A greatest number needs a bound. *)
LEMMA MaxIsGreatest ==
    ASSUME NEW T \in SUBSET Nat, T # {}, NEW n \in Nat, \A x \in T : x <= n
    PROVE  Max(T) \in T /\ \A y \in T : y <= Max(T)
<1> DEFINE U == {m \in Nat : n - m \in T}
<1>0. \A x \in T : x \in Nat /\ n - x \in Nat /\ n - (n - x) = x
  OBVIOUS
<1>1. U \in SUBSET Nat /\ U # {}
  BY <1>0
<1>2. PICK u \in U : \A v \in U : u <= v
  BY <1>1, LeastNumber
<1>3. PICK x \in T : u = n - x
  BY <1>2
<1>4. ASSUME NEW y \in T PROVE x >= y
  <2>1. n - y \in U /\ x \in Nat /\ y \in Nat
    BY <1>0, <1>3, <1>4
  <2>2. n - x <= n - y
    BY <1>2, <1>3, <2>1
  <2>3. QED
    BY <2>1, <2>2
<1>5. Max(T) \in T /\ \A y \in T : Max(T) >= y
  BY <1>3, <1>4 DEF Max
<1>6. \A y \in T : y \in Nat /\ Max(T) \in Nat
  BY <1>5
<1>7. QED
  BY <1>5, <1>6

-----------------------------------------------------------------------------
(* A product grows with either factor. *)
LEMMA TimesMonotone ==
    ASSUME NEW a \in Nat, NEW b \in Nat, NEW c \in Nat, a <= b
    PROVE  c * a <= c * b
<1>1. b - a \in Nat /\ c * (b - a) \in Nat /\ c * a \in Nat /\ c * b \in Nat
  OBVIOUS
<1>2. c * b = c * a + c * (b - a)
  OBVIOUS
<1>3. QED
  BY <1>1, <1>2

(* Division rounds down. *)
LEMMA Floor ==
    ASSUME NEW n \in Nat, NEW d \in Nat, d > 0
    PROVE  /\ n \div d \in Nat
           /\ d * (n \div d) <= n /\ n < d * (n \div d) + d
OBVIOUS

(* Products of sums, and of differences. *)
LEMMA Distributes ==
    ASSUME NEW a \in Int, NEW b \in Int, NEW c \in Int
    PROVE  /\ c * a \in Int /\ c * b \in Int
           /\ c * (a + b) = c * a + c * b
           /\ c * (a - b) = c * a - c * b
           /\ c * a = a * c
OBVIOUS

(* d * x is at most n, which is below d * q. *)
LEMMA FactorBelow ==
    ASSUME NEW n \in Nat, NEW d \in Nat, NEW x \in Nat, NEW q \in Nat,
           d * x <= n, n < d * q
    PROVE  x < q
<1>1. d * x \in Nat /\ d * q \in Nat
  OBVIOUS
<1>2. ASSUME q <= x PROVE FALSE
  <2>1. d * q <= d * x
    BY <1>2, TimesMonotone
  <2>2. QED
    BY <1>1, <2>1
<1>3. QED
  BY <1>2

(* There is one floor. *)
LEMMA OneFloor ==
    ASSUME NEW n \in Nat, NEW d \in Nat, NEW x \in Nat, NEW y \in Nat,
           d * x <= n, n < d * x + d, d * y <= n, n < d * y + d
    PROVE  x = y
<1>1. d * (x + 1) = d * x + d /\ d * (y + 1) = d * y + d
  BY Distributes
<1>2. x < y + 1
  BY <1>1, FactorBelow
<1>3. y < x + 1
  BY <1>1, FactorBelow
<1>4. QED
  BY <1>2, <1>3

(* The powers of two up to one.  The provers have no theory of powers, so  *)
(* the modules assume this much of them, and TLC evaluates it.             *)
Powers(W) ==
    /\ 2 ^ 0 = 1
    /\ \A n \in 0 .. W : 2 ^ n \in Nat \ {0} /\ 2 ^ (n + 1) = 2 * 2 ^ n

(* One power, and the next. *)
LEMMA PowerStep ==
    ASSUME NEW W \in Nat, Powers(W), NEW n \in Nat, n <= W
    PROVE  2 ^ n \in Nat \ {0} /\ 2 ^ (n + 1) = 2 * 2 ^ n
BY DEF Powers

(* The power of a sum is the product of the powers. *)
LEMMA PowerProduct ==
    ASSUME NEW W \in Nat, Powers(W), NEW a \in Nat, NEW b \in Nat, a + b <= W
    PROVE  2 ^ (a + b) = 2 ^ a * 2 ^ b
<1> DEFINE T == {n \in Nat : a + n <= W /\ 2 ^ (a + n) # 2 ^ a * 2 ^ n}
<1>1. SUFFICES ASSUME T # {} PROVE FALSE
  OBVIOUS
<1>2. PICK n \in T : \A m \in T : n <= m
  BY <1>1, LeastNumber
<1>3. a <= W /\ 2 ^ a \in Nat \ {0}
  BY PowerStep
<1>4. n # 0
  <2>1. a + 0 = a /\ 2 ^ 0 = 1 /\ 2 ^ a * 1 = 2 ^ a
    BY <1>3 DEF Powers
  <2>2. QED
    BY <2>1, <1>2
<1>5. PICK m \in Nat : n = m + 1
  <2>1. n - 1 \in Nat /\ n = (n - 1) + 1
    BY <1>2, <1>4
  <2>2. QED
    BY <2>1
<1>6. m \notin T /\ a + m \in Nat /\ a + m <= W /\ m <= W /\ a + n = (a + m) + 1
  BY <1>2, <1>5
<1>7. 2 ^ (a + m) = 2 ^ a * 2 ^ m
  BY <1>6
<1>8. /\ 2 ^ (a + n) = 2 * 2 ^ (a + m) /\ 2 ^ n = 2 * 2 ^ m
      /\ 2 ^ m \in Nat
  BY <1>5, <1>6, PowerStep
<1>9. \A x, y \in Nat : 2 * (x * y) = x * (2 * y)
  OBVIOUS
<1>10. 2 ^ (a + n) = 2 ^ a * 2 ^ n
  BY <1>3, <1>7, <1>8, <1>9
<1>11. QED
  BY <1>2, <1>10

(* Powers are ordered as their exponents. *)
LEMMA PowersGrow ==
    ASSUME NEW W \in Nat, Powers(W), NEW a \in Nat, NEW b \in Nat, a <= b, b <= W
    PROVE  2 ^ a <= 2 ^ b
<1>1. PICK c \in Nat : b = a + c /\ c <= W /\ a <= W
  <2>1. b - a \in Nat /\ b = a + (b - a) /\ b - a <= W /\ a <= W
    OBVIOUS
  <2>2. QED
    BY <2>1
<1>2. PICK x \in Nat, y \in Nat \ {0} : x = 2 ^ a /\ y = 2 ^ c
  BY <1>1, PowerStep
<1>3. 2 ^ b = x * y
  BY <1>1, <1>2, PowerProduct
<1>4. x * 1 <= x * y /\ x * 1 = x
  BY TimesMonotone
<1>5. QED
  BY <1>2, <1>3, <1>4

(* Division with a rest. *)
LEMMA Divides ==
    ASSUME NEW d \in Nat \ {0}, NEW a \in Nat, NEW t \in Nat, t < d
    PROVE  (d * a + t) \div d = a
<1>1. d * a \in Nat /\ d * a + t \in Nat
  OBVIOUS
<1>2. PICK n \in Nat : n = d * a + t
  BY <1>1
<1>3. n \div d \in Nat /\ d * (n \div d) <= n /\ n < d * (n \div d) + d
  BY Floor
<1>4. d * a <= n /\ n < d * a + d
  BY <1>1, <1>2
<1>5. n \div d = a
  BY <1>3, <1>4, OneFloor
<1>6. QED
  BY <1>2, <1>5

(* The rest, from the quotient. *)
LEMMA RestOfDivision ==
    ASSUME NEW n \in Nat, NEW d \in Nat, d > 0, NEW q \in Nat, q = n \div d
    PROVE  n % d = n - d * q
OBVIOUS

(* A number is a multiple of d and a rest. *)
LEMMA Wraps ==
    ASSUME NEW n \in Nat, NEW d \in Nat, d > 0
    PROVE  \E q \in Nat, m \in Nat : m = n % d /\ n = d * q + m
<1>1. PICK q \in Nat : q = n \div d
  OBVIOUS
<1>2. PICK m \in Nat : m = n % d
  OBVIOUS
<1>3. m = n - d * q
  BY <1>1, <1>2, RestOfDivision
<1>4. d * q \in Nat
  OBVIOUS
<1>5. QED
  BY <1>2, <1>3, <1>4

(* A number is even or odd. *)
LEMMA Halves ==
    ASSUME NEW a \in Nat
    PROVE  \E k \in Nat : \/ a = 2 * k /\ a % 2 = 0
                          \/ a = 2 * k + 1 /\ a % 2 = 1
<1>1. PICK e \in {0, 1} : e = a % 2
  OBVIOUS
<1>2. PICK k \in Nat : k = a \div 2
  OBVIOUS
<1>3. e = a - 2 * k
  BY <1>1, <1>2, RestOfDivision
<1>4. a = 2 * k + e
  BY <1>1, <1>3
<1>5. QED
  BY <1>1, <1>4

-----------------------------------------------------------------------------
(* A smallest set of a nonempty family of finite sets. *)
LEMMA SmallestSet ==
    ASSUME NEW S, IsFiniteSet(S), NEW F \in SUBSET SUBSET S, F # {}
    PROVE  \E s \in F : \A x \in s : s \ {x} \notin F
<1> DEFINE T == {Cardinality(s) : s \in F}
<1>1. \A s \in F : IsFiniteSet(s) /\ Cardinality(s) \in Nat
  BY FS_Subset, FS_CardinalityType
<1>2. T \in SUBSET Nat /\ T # {}
  BY <1>1
<1>3. PICK n \in T : \A m \in T : n <= m
  BY <1>2, LeastNumber
<1>4. PICK s \in F : Cardinality(s) = n
  BY <1>3
<1>5. ASSUME NEW x \in s, s \ {x} \in F PROVE FALSE
  <2>1. Cardinality(s \ {x}) = Cardinality(s) - 1
    BY <1>1, FS_RemoveElement
  <2>2. n <= Cardinality(s \ {x})
    BY <1>3, <1>5
  <2>3. QED
    BY <1>1, <1>4, <2>1, <2>2
<1>6. QED
  BY <1>5

(* g takes a set apart element by element, in the order pick says. *)
TakesApart(g, S, base, pick, step) ==
    \A s \in SUBSET S :
        g[s] = IF s = {} THEN base ELSE step[pick[s]][g[s \ {pick[s]}]]

(* pick names an element of every set that has one. *)
Picks(pick, S) == \A s \in SUBSET S : s # {} => pick[s] \in s

(* A recursion over the subsets of a finite set has a solution. *)
LEMMA SetRecursion ==
    ASSUME NEW S, IsFiniteSet(S), NEW D, NEW base \in D,
           NEW pick, Picks(pick, S),
           NEW step \in [S -> [D -> D]]
    PROVE  \E g \in [SUBSET S -> D] : TakesApart(g, S, base, pick, step)
<1> DEFINE Below(n) == {s \in SUBSET S : Cardinality(s) <= n}
           Upto(n) == \E g \in [Below(n) -> D] : \A s \in Below(n) :
                        g[s] = IF s = {} THEN base
                               ELSE step[pick[s]][g[s \ {pick[s]}]]
           T == {n \in Nat : ~ Upto(n)}
<1>0. \A s \in SUBSET S : IsFiniteSet(s) /\ Cardinality(s) \in Nat
  BY FS_Subset, FS_CardinalityType
<1>1. \A s \in SUBSET S : s # {} =>
         /\ pick[s] \in S /\ s \ {pick[s]} \in SUBSET S
         /\ Cardinality(s \ {pick[s]}) = Cardinality(s) - 1
  BY <1>0, FS_RemoveElement DEF Picks
<1>2. Upto(0)
  <2> DEFINE g == [s \in Below(0) |-> base]
  <2>1. \A s \in Below(0) : s = {}
    BY <1>0, FS_EmptySet
  <2>2. g \in [Below(0) -> D]
    OBVIOUS
  <2>3. \A s \in Below(0) : g[s] = IF s = {} THEN base
                               ELSE step[pick[s]][g[s \ {pick[s]}]]
    BY <2>1
  <2> QED
    BY <2>2, <2>3
<1>3. ASSUME NEW n \in Nat, Upto(n) PROVE Upto(n + 1)
  <2>1. PICK h \in [Below(n) -> D] : \A s \in Below(n) :
                        h[s] = IF s = {} THEN base
                               ELSE step[pick[s]][h[s \ {pick[s]}]]
    BY <1>3
  <2> DEFINE g == [s \in Below(n + 1) |->
                     IF s = {} THEN base ELSE step[pick[s]][h[s \ {pick[s]}]]]
  <2>2. \A s \in Below(n + 1) : s # {} => s \ {pick[s]} \in Below(n)
                                        /\ s \ {pick[s]} \in Below(n + 1)
    BY <1>0, <1>1
  <2>3. g \in [Below(n + 1) -> D]
    BY <1>1, <2>2
  <2>4. ASSUME NEW s \in Below(n) PROVE s \in Below(n + 1) /\ g[s] = h[s]
    <3>1. s \in Below(n + 1)
      BY <1>0
    <3>2. QED
      BY <2>1, <3>1
  <2>5. \A s \in Below(n + 1) : g[s] = IF s = {} THEN base
                               ELSE step[pick[s]][g[s \ {pick[s]}]]
    BY <2>2, <2>4
  <2> QED
    BY <2>3, <2>5
<1> HIDE DEF Upto, Below
<1>4. T = {}
  <2> SUFFICES ASSUME T # {} PROVE FALSE
    OBVIOUS
  <2>1. PICK n \in T : \A m \in T : n <= m
    BY LeastNumber
  <2>2. n \in Nat /\ n # 0 /\ ~ Upto(n)
    BY <1>2, <2>1
  <2>3. n - 1 \in Nat /\ n - 1 \notin T /\ (n - 1) + 1 = n
    BY <2>1, <2>2
  <2>4. Upto(n - 1)
    BY <2>3
  <2>5. QED
    BY <1>3, <2>2, <2>3, <2>4
<1>5. Cardinality(S) \in Nat
  BY <1>0
<1>6. Upto(Cardinality(S))
  BY <1>4, <1>5
<1>7. Below(Cardinality(S)) = SUBSET S
  BY FS_Subset DEF Below
<1>8. QED
  BY <1>6, <1>7 DEF Upto, TakesApart
-----------------------------------------------------------------------------
(* Folding a sequence of length n from its last element back. *)
LastOf(n) == [s \in SUBSET (1 .. n) |-> Max(s)]

(* It picks the greatest index of a set of indices. *)
LEMMA LastIsPicked ==
    ASSUME NEW n \in Nat, NEW s \in SUBSET (1 .. n), s # {}
    PROVE  LastOf(n)[s] = Max(s) /\ Max(s) \in s /\ \A i \in s : i <= Max(s)
<1>1. s \in SUBSET Nat /\ \A i \in s : i <= n
  OBVIOUS
<1>2. Max(s) \in s /\ \A i \in s : i <= Max(s)
  BY <1>1, MaxIsGreatest
<1>3. QED
  BY <1>2 DEF LastOf

(* Of the first k indices that is k, and what is left are the first k - 1. *)
LEMMA LastOfPrefix ==
    ASSUME NEW k \in Nat, k > 0
    PROVE  Max(1 .. k) = k /\ (1 .. k) \ {Max(1 .. k)} = 1 .. (k - 1)
<1>1. 1 .. k \in SUBSET (1 .. k) /\ k \in 1 .. k
  OBVIOUS
<1>2. Max(1 .. k) \in 1 .. k /\ \A i \in 1 .. k : i <= Max(1 .. k)
  BY <1>1, LastIsPicked
<1>3. Max(1 .. k) = k
  BY <1>1, <1>2
<1>4. (1 .. k) \ {k} = 1 .. (k - 1)
  OBVIOUS
<1>5. QED
  BY <1>3, <1>4

(* So a recursion from the last element of a sequence back has a solution. *)
LEMMA SequenceRecursion ==
    ASSUME NEW n \in Nat, NEW D, NEW base \in D, NEW step \in [1 .. n -> [D -> D]]
    PROVE  \E g \in [SUBSET (1 .. n) -> D] :
             TakesApart(g, 1 .. n, base, LastOf(n), step)
<1>1. IsFiniteSet(1 .. n)
  BY FS_Interval
<1>2. Picks(LastOf(n), 1 .. n)
  BY LastIsPicked DEF Picks
<1>3. QED
  BY <1>1, <1>2, SetRecursion
-----------------------------------------------------------------------------
(***************************************************************************)
(* Sums, as MapThenSumSet adds them up: an element at a time, in an order  *)
(* nothing is known of.                                                    *)
(***************************************************************************)
Picked(s) == CHOOSE x \in s : TRUE

(* g gives the sum of f over every subset of S. *)
Sums(g, S, f) ==
    \A s \in SUBSET S :
        g[s] = IF s = {} THEN 0 ELSE f[Picked(s)] + g[s \ {Picked(s)}]

(* The sum of f over S. *)
SumOver(f, S) == MapThenSumSet(LAMBDA x : f[x], S)

(* Such a g exists. *)
LEMMA SumExists ==
    ASSUME NEW S, IsFiniteSet(S), NEW f \in [S -> Int]
    PROVE  \E g \in [SUBSET S -> Int] : Sums(g, S, f)
<1> DEFINE pick == [s \in SUBSET S |-> Picked(s)]
           step == [x \in S |-> [y \in Int |-> f[x] + y]]
<1>0. 0 \in Int
  OBVIOUS
<1>1. \A s \in SUBSET S : s # {} => pick[s] \in s /\ pick[s] = Picked(s)
  BY DEF Picked
<1>2. step \in [S -> [Int -> Int]]
  OBVIOUS
<1>3. PICK g \in [SUBSET S -> Int] : TakesApart(g, S, 0, pick, step)
  <2> HIDE DEF pick, step
  <2>1. Picks(pick, S)
    BY <1>1 DEF Picks
  <2>2. QED
    BY <1>0, <1>2, <2>1, SetRecursion
<1>4. Sums(g, S, f)
  BY <1>1, <1>3 DEF Sums, TakesApart
<1>5. QED
  BY <1>4

(* h is f with the term of x greater by d. *)
OneChange(f, h, S, x, d) ==
    \A y \in S : f[y] \in Int /\ h[y] = IF y = x THEN f[y] + d ELSE f[y]

(* Changing one term changes every sum that has it by as much. *)
LEMMA SumShift ==
    ASSUME NEW S, IsFiniteSet(S), NEW f, NEW h,
           NEW x \in S, NEW d \in Int, OneChange(f, h, S, x, d),
           NEW p \in [SUBSET S -> Int], Sums(p, S, f),
           NEW q, Sums(q, S, h)
    PROVE  q[S] = p[S] + d
<1> DEFINE Right(s) == q[s] = IF x \in s THEN p[s] + d ELSE p[s]
           F == {s \in SUBSET S : ~ Right(s)}
<1>0. F = {} => q[S] = p[S] + d
  OBVIOUS
<1> SUFFICES ASSUME F # {} PROVE FALSE
  BY <1>0
<1>1. PICK s \in F : \A y \in s : s \ {y} \notin F
  <2>1. F \in SUBSET SUBSET S
    OBVIOUS
  <2> HIDE DEF F
  <2>2. QED
    BY <2>1, SmallestSet
<1>2. s # {}
  BY <1>1 DEF Sums
<1>3. PICK y : y = Picked(s)
  OBVIOUS
<1>4. y \in s /\ y \in S /\ s \ {y} \in SUBSET S
  BY <1>1, <1>2, <1>3 DEF Picked
<1>5. Right(s \ {y})
  BY <1>1, <1>4
<1>6. /\ p[s] = f[y] + p[s \ {y}] /\ q[s] = h[y] + q[s \ {y}]
      /\ p[s \ {y}] \in Int /\ f[y] \in Int
  BY <1>1, <1>2, <1>3, <1>4 DEF Sums, OneChange
<1>7. h[y] = IF y = x THEN f[y] + d ELSE f[y]
  BY <1>4 DEF OneChange
<1>8. Right(s)
  BY <1>4, <1>5, <1>6, <1>7
<1>9. QED
  BY <1>1, <1>8

(* There is only one. *)
LEMMA SumUnique ==
    ASSUME NEW S, IsFiniteSet(S), NEW f, NEW p, Sums(p, S, f), NEW q, Sums(q, S, f)
    PROVE  \A s \in SUBSET S : q[s] = p[s]
<1> DEFINE F == {s \in SUBSET S : q[s] # p[s]}
<1> SUFFICES ASSUME F # {} PROVE FALSE
  OBVIOUS
<1>1. PICK s \in F : \A y \in s : s \ {y} \notin F
  <2>1. F \in SUBSET SUBSET S
    OBVIOUS
  <2> HIDE DEF F
  <2>2. QED
    BY <2>1, SmallestSet
<1>2. s # {}
  BY <1>1 DEF Sums
<1>3. PICK y : y = Picked(s)
  OBVIOUS
<1>4. y \in s /\ y \in S /\ s \ {y} \in SUBSET S
  BY <1>1, <1>2, <1>3 DEF Picked
<1>5. q[s \ {y}] = p[s \ {y}]
  BY <1>1, <1>4
<1>6. p[s] = f[y] + p[s \ {y}] /\ q[s] = f[y] + q[s \ {y}]
  BY <1>1, <1>2, <1>3, <1>4 DEF Sums
<1>7. QED
  BY <1>1, <1>5, <1>6

(* MapThenSumSet returns what it says. *)
LEMMA SumEquation ==
    ASSUME NEW S, IsFiniteSet(S), NEW f \in [S -> Int]
    PROVE  \E g \in [SUBSET S -> Int] : Sums(g, S, f) /\ SumOver(f, S) = g[S]
<1> DEFINE Body(g) == [s \in SUBSET S |->
               IF s = {} THEN 0 ELSE f[CHOOSE x \in s : TRUE] + g[s \ {CHOOSE x \in s : TRUE}]]
           it == CHOOSE g : g = Body(g)
<1>1. PICK g \in [SUBSET S -> Int] : Sums(g, S, f)
  BY SumExists
<1>2. g = Body(g)
  BY <1>1 DEF Sums, Picked
<1>3. it = Body(it)
  BY <1>2
<1>4. SumOver(f, S) = it[S]
  BY DEF SumOver, MapThenSumSet, MapThenFoldSet
<1>5. DOMAIN it = SUBSET S
  BY <1>3
<1>6. Sums(it, S, f)
  <2> HIDE DEF it
  <2>1. QED
    BY <1>3 DEF Sums, Picked
<1>7. \A s \in SUBSET S : it[s] = g[s]
  <2> HIDE DEF it
  <2>1. QED
    BY <1>1, <1>6, SumUnique
<1>8. QED
  BY <1>1, <1>4, <1>7

(* A sum of zeros is zero. *)
LEMMA SumOfZeros ==
    ASSUME NEW S, IsFiniteSet(S), NEW f \in [S -> Int], \A x \in S : f[x] = 0
    PROVE  SumOver(f, S) = 0
<1>1. PICK g \in [SUBSET S -> Int] : Sums(g, S, f) /\ SumOver(f, S) = g[S]
  BY SumEquation
<1> DEFINE z == [s \in SUBSET S |-> 0]
<1>2. Sums(z, S, f)
  BY DEF Sums, Picked
<1>3. z[S] = 0
  OBVIOUS
<1> HIDE DEF z
<1>4. g[S] = z[S]
  BY <1>1, <1>2, SumUnique
<1>5. QED
  BY <1>1, <1>3, <1>4

(* A sum changes by as much as one of its terms. *)
LEMMA SumOfOneChange ==
    ASSUME NEW S, IsFiniteSet(S), NEW f \in [S -> Int], NEW h \in [S -> Int],
           NEW x \in S, NEW d \in Int,
           \A y \in S : h[y] = IF y = x THEN f[y] + d ELSE f[y]
    PROVE  SumOver(h, S) = SumOver(f, S) + d
<1>1. PICK p \in [SUBSET S -> Int] : Sums(p, S, f) /\ SumOver(f, S) = p[S]
  BY SumEquation
<1>2. PICK q \in [SUBSET S -> Int] : Sums(q, S, h) /\ SumOver(h, S) = q[S]
  BY SumEquation
<1>3. OneChange(f, h, S, x, d)
  BY DEF OneChange
<1>4. q[S] = p[S] + d
  BY <1>1, <1>2, <1>3, SumShift
<1>5. QED
  BY <1>1, <1>2, <1>4
=============================================================================
