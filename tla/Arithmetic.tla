----------------------------- MODULE Arithmetic -----------------------------
(***************************************************************************)
(* What the proofs of several components need: least and greatest numbers  *)
(* and remainders, for rings and scans; SumFunctionOnSet and SumFunction   *)
(* of the module Functions, for functions into the naturals over finite    *)
(* sets; and an induction that is stated for a set of numbers, and not for *)
(* a predicate.                                                            *)
(***************************************************************************)
EXTENDS Integers, Functions, FiniteSetsExt, FiniteSetTheorems,
        SequenceTheorems, WellFoundedInduction, TLAPS

\* A set of naturals that has 0 and every successor has every natural: the
\* least number outside of it would be one more than a number inside.
LEMMA Induction ==
    ASSUME NEW T \in SUBSET Nat, 0 \in T, \A n \in T : n + 1 \in T
    PROVE  T = Nat
<1> SUFFICES ASSUME Nat \ T # {} PROVE FALSE
  OBVIOUS
<1>1. PICK n \in Nat \ T : \A m \in Nat \ T : ~(<<m, n>> \in OpToRel(<, Nat))
  BY NatLessThanWellFounded, WFMin, Zenon
<1>2. \A m \in Nat \ T : ~(m < n)
  BY <1>1 DEF OpToRel
<1>3. n # 0
  OBVIOUS
<1>4. n - 1 \in T
  BY <1>2, <1>3
<1> QED BY <1>4
-----------------------------------------------------------------------------
(* The indices of a ring wrap around.                                      *)
LEMMA Division ==
  ASSUME NEW a \in Int, NEW n \in Nat \ {0}
  PROVE  /\ a \div n \in Int /\ a % n \in 0..(n - 1)
         /\ a = n * (a \div n) + (a % n)
OBVIOUS

LEMMA Remainder ==
  ASSUME NEW n \in Nat \ {0}, NEW q \in Int, NEW r \in 0..(n - 1)
  PROVE  (n * q + r) % n = r
OBVIOUS

LEMMA MinOfTwo ==
  ASSUME NEW a \in Int, NEW b \in Int
  PROVE  Min({a, b}) = IF a <= b THEN a ELSE b
<1> DEFINE m == IF a <= b THEN a ELSE b
<1>1. m \in {a, b} /\ \A y \in {a, b} : m <= y
  OBVIOUS
<1>2. \A x \in {a, b} : (\A y \in {a, b} : x <= y) => x = m
  OBVIOUS
<1> QED BY <1>1, <1>2 DEF Min

\* So is the greatest.
LEMMA MaxOfTwo ==
  ASSUME NEW a \in Int, NEW b \in Int
  PROVE  Max({a, b}) = IF a >= b THEN a ELSE b
<1> DEFINE m == IF a >= b THEN a ELSE b
<1>1. m \in {a, b} /\ \A y \in {a, b} : m >= y
  OBVIOUS
<1>2. \A x \in {a, b} : (\A y \in {a, b} : x >= y) => x = m
  OBVIOUS
<1> QED BY <1>1, <1>2 DEF Max

\* Finitely many numbers have a least and a greatest.
LEMMA LeastAndGreatest ==
  ASSUME NEW S \in SUBSET Nat, IsFiniteSet(S), S # {}
  PROVE  /\ Max(S) \in S /\ \A x \in S : x <= Max(S)
         /\ Min(S) \in S /\ \A x \in S : Min(S) <= x
<1> DEFINE T == {n \in Nat : \A R \in SUBSET Nat :
                    IsFiniteSet(R) /\ Cardinality(R) = n + 1 =>
                       /\ \E x \in R : \A y \in R : y <= x
                       /\ \E x \in R : \A y \in R : x <= y}
<1>1. 0 \in T
  <2> SUFFICES ASSUME NEW R \in SUBSET Nat, IsFiniteSet(R), Cardinality(R) = 0 + 1
               PROVE  /\ \E x \in R : \A y \in R : y <= x
                      /\ \E x \in R : \A y \in R : x <= y
    OBVIOUS
  <2>1. PICK x \in R : R = {x}
    <3>1. Cardinality(R) = 1
      OBVIOUS
    <3> QED
      BY <3>1, FS_Singleton
  <2> QED
    BY <2>1
<1>2. ASSUME NEW n \in T PROVE n + 1 \in T
  <2> SUFFICES ASSUME NEW R \in SUBSET Nat, IsFiniteSet(R), Cardinality(R) = n + 1 + 1
               PROVE  /\ \E x \in R : \A y \in R : y <= x
                      /\ \E x \in R : \A y \in R : x <= y
    OBVIOUS
  <2>1. PICK z : z \in R
    BY FS_EmptySet
  <2>2. /\ IsFiniteSet(R \ {z}) /\ Cardinality(R \ {z}) = n + 1
        /\ R \ {z} \in SUBSET Nat
    BY <2>1, FS_RemoveElement
  <2>3. PICK x \in R \ {z} : \A y \in R \ {z} : y <= x
    BY <1>2, <2>2
  <2>4. PICK w \in R \ {z} : \A y \in R \ {z} : w <= y
    BY <1>2, <2>2
  <2> QED
    BY <2>1, <2>3, <2>4
<1>3. T \in SUBSET Nat
  OBVIOUS
<1> HIDE DEF T
<1>4. T = Nat
  BY <1>1, <1>2, <1>3, Induction
<1>5. PICK n \in Nat : Cardinality(S) = n + 1
  <2>1. Cardinality(S) \in Nat /\ Cardinality(S) # 0
    BY FS_EmptySet, FS_CardinalityType
  <2> QED
    BY <2>1
<1>6. (\E x \in S : \A y \in S : y <= x) /\ \E x \in S : \A y \in S : x <= y
  BY <1>4, <1>5 DEF T
<1> QED
  BY <1>6 DEF Max, Min

(* Wrapping before a step or only after it makes no difference.            *)
LEMMA ModAdd ==
  ASSUME NEW a \in Int, NEW b \in Int, NEW n \in Nat \ {0}
  PROVE  ((a % n) + b) % n = (a + b) % n
<1> DEFINE q == a \div n
           r == a % n
           p == (r + b) \div n
           s == (r + b) % n
<1>1. q \in Int /\ r \in Int /\ a = n * q + r
  BY Division
<1>2. p \in Int /\ s \in 0..(n - 1) /\ r + b = n * p + s
  BY <1>1, Division
<1>3. \A x, y \in Int : n * (x + y) = n * x + n * y
  OBVIOUS
<1> HIDE DEF q, r, p, s
<1>4. n * q \in Int /\ n * p \in Int
  BY <1>1, <1>2
<1>5. a + b = n * (q + p) + s
  BY <1>1, <1>2, <1>3, <1>4
<1>6. (n * (q + p) + s) % n = s
  BY <1>1, <1>2, Remainder
<1> QED BY <1>5, <1>6 DEF s, r

(* A full turn leads back to the slot.                                     *)
LEMMA ModTurn ==
  ASSUME NEW a \in Int, NEW n \in Nat \ {0}
  PROVE  (a + n) % n = a % n
<1> DEFINE q == a \div n
           r == a % n
<1>1. q \in Int /\ r \in 0..(n - 1) /\ a = n * q + r
  BY Division
<1>2. \A x \in Int : n * (x + 1) = n * x + n
  OBVIOUS
<1>3. n * q \in Int
  BY <1>1
<1> HIDE DEF q, r
<1>4. a + n = n * (q + 1) + r
  BY <1>1, <1>2, <1>3
<1>5. q + 1 \in Int
  BY <1>1
<1>6. (n * (q + 1) + r) % n = r
  BY <1>1, <1>5, Remainder
<1> QED BY <1>4, <1>6 DEF r

(* Indices less than a turn apart have slots of their own.                 *)
LEMMA ModApart ==
  ASSUME NEW a \in Int, NEW b \in Int, NEW n \in Nat \ {0}, a < b, b - a < n
  PROVE  a % n # b % n
<1> SUFFICES ASSUME a % n = b % n PROVE FALSE
  OBVIOUS
<1> DEFINE q == a \div n
           p == b \div n
           r == a % n
           d == p - q
<1>1. q \in Int /\ p \in Int /\ r \in Int /\ a = n * q + r /\ b = n * p + r
  BY Division
<1>2. \A x, y \in Int : n * (x - y) = n * x - n * y
  OBVIOUS
<1>3. d \in Int
  BY <1>1
<1>4. n * d = n * p - n * q
  BY <1>1, <1>2
<1> HIDE DEF q, p, r, d
<1>5. n * q \in Int /\ n * p \in Int
  BY <1>1
<1>6. b - a = n * d
  BY <1>1, <1>4, <1>5
<1>7. \A x \in Int : x <= 0 => n * x <= 0
  OBVIOUS
<1>8. \A x \in Int : x >= 1 => n * x >= n
  OBVIOUS
<1> QED BY <1>3, <1>6, <1>7, <1>8

-----------------------------------------------------------------------------
(* The function a sum over S is computed by, and its parts: it is defined   *)
(* for the sets of up to n elements, whatever n is.                         *)
Pick(S) == CHOOSE x \in S : TRUE
UpTo(S, n) == {t \in SUBSET S : Cardinality(t) <= n}
Unfold(it, f, t) == IF t = {} THEN 0 ELSE f[Pick(t)] + it[t \ {Pick(t)}]
Evaluates(it, f, S) == \A t \in SUBSET S : it[t] = Unfold(it, f, t)
Same(f, g, S) == \A x \in S : f[x] = g[x]
IsSum(it, f, S) == it = [t \in SUBSET S |-> Unfold(it, f, t)]
IsPart(it, f, S, n) ==
    /\ it \in [UpTo(S, n) -> Nat]
    /\ \A t \in UpTo(S, n) : it[t] = Unfold(it, f, t)

\* A set without the element that is picked of it.
LEMMA WithoutPick ==
    ASSUME NEW S, IsFiniteSet(S), NEW t \in SUBSET S
    PROVE  /\ IsFiniteSet(t) /\ Cardinality(t) \in Nat
           /\ t = {} <=> Cardinality(t) = 0
           /\ t # {} => /\ Pick(t) \in t
                        /\ t \ {Pick(t)} \in SUBSET S
                        /\ \A x \in t : Cardinality(t \ {x}) = Cardinality(t) - 1
<1>1. IsFiniteSet(t)
  BY FS_Subset
<1>2. Cardinality(t) \in Nat /\ (t = {} <=> Cardinality(t) = 0)
  BY <1>1, FS_CardinalityType, FS_EmptySet
<1>3. t # {} => Pick(t) \in t
  BY DEF Pick
<1>4. \A x \in t : Cardinality(t \ {x}) = Cardinality(t) - 1
  BY <1>1, FS_RemoveElement
<1> QED BY <1>1, <1>2, <1>3, <1>4

\* Each part can be made larger.
LEMMA PartsExist ==
    ASSUME NEW S, IsFiniteSet(S), NEW f, \A x \in S : f[x] \in Nat, NEW n \in Nat
    PROVE  \E it : IsPart(it, f, S, n)
<1> DEFINE T == {m \in Nat : \E it : IsPart(it, f, S, m)}
<1>1. 0 \in T
  <2> DEFINE it == [t \in UpTo(S, 0) |-> 0]
  <2>1. \A t \in UpTo(S, 0) : t = {}
    BY WithoutPick DEF UpTo
  <2>2. IsPart(it, f, S, 0)
    BY <2>1 DEF IsPart, Unfold
  <2> QED BY <2>2
<1>2. ASSUME NEW m \in T PROVE m + 1 \in T
  <2>1. PICK old : IsPart(old, f, S, m)
    OBVIOUS
  <2> DEFINE it == [t \in UpTo(S, m + 1) |-> Unfold(old, f, t)]
  <2>2. ASSUME NEW t \in UpTo(S, m + 1), t # {}
        PROVE  t \ {Pick(t)} \in UpTo(S, m) /\ f[Pick(t)] \in Nat
    BY <2>2, WithoutPick DEF UpTo
  <2>3. UpTo(S, m) \subseteq UpTo(S, m + 1)
    BY WithoutPick DEF UpTo
  <2>4. \A t \in UpTo(S, m) : it[t] = old[t]
    BY <2>1, <2>3 DEF IsPart
  <2>5. it \in [UpTo(S, m + 1) -> Nat]
    BY <2>1, <2>2 DEF IsPart, Unfold
  <2>6. \A t \in UpTo(S, m + 1) : it[t] = Unfold(it, f, t)
    BY <2>2, <2>4 DEF Unfold
  <2>7. IsPart(it, f, S, m + 1)
    BY <2>5, <2>6 DEF IsPart
  <2> QED BY <2>7
<1>3. T = Nat
  <2> HIDE DEF T
  <2>1. T \in SUBSET Nat
    BY DEF T
  <2> QED BY <1>1, <1>2, <2>1, Induction
<1> QED BY <1>3

\* Two such functions have the same value for a set if they sum the same
\* numbers, whichever sets they are defined for.
LEMMA SumsAgree ==
    ASSUME NEW S, IsFiniteSet(S), NEW R \in SUBSET S, NEW f, NEW g,
           Same(f, g, R), NEW it, Evaluates(it, f, S), NEW jt, Evaluates(jt, g, R)
    PROVE  it[R] = jt[R]
<1> DEFINE T == {n \in Nat : \A t \in SUBSET R : Cardinality(t) = n => it[t] = jt[t]}
<1>1. 0 \in T
  BY WithoutPick DEF Unfold, Evaluates
<1>2. ASSUME NEW n \in T PROVE n + 1 \in T
  <2> SUFFICES ASSUME NEW t \in SUBSET R, Cardinality(t) = n + 1 PROVE it[t] = jt[t]
    OBVIOUS
  <2>1. /\ t # {} /\ Pick(t) \in t
        /\ t \ {Pick(t)} \in SUBSET R
        /\ Cardinality(t \ {Pick(t)}) = n
    BY WithoutPick
  <2>2. it[t \ {Pick(t)}] = jt[t \ {Pick(t)}]
    BY <2>1
  <2>3. t \in SUBSET S /\ f[Pick(t)] = g[Pick(t)]
    BY <2>1 DEF Same
  <2> QED BY <2>1, <2>2, <2>3 DEF Unfold, Evaluates
<1>3. T = Nat
  <2> HIDE DEF T
  <2>1. T \in SUBSET Nat
    BY DEF T
  <2> QED BY <1>1, <1>2, <2>1, Induction
<1>4. R \in SUBSET R /\ Cardinality(R) \in Nat
  BY WithoutPick
<1> QED BY <1>3, <1>4

\* The sum is the value of such a function, and its values are naturals.
LEMMA SumUnfolds ==
    ASSUME NEW S, IsFiniteSet(S), NEW f, \A x \in S : f[x] \in Nat
    PROVE  \E it : /\ it \in [SUBSET S -> Nat]
                   /\ Evaluates(it, f, S)
                   /\ SumFunctionOnSet(f, S) = it[S]
<1>1. UpTo(S, Cardinality(S)) = SUBSET S
  BY FS_Subset DEF UpTo
<1>2. PICK it : IsPart(it, f, S, Cardinality(S))
  BY FS_CardinalityType, PartsExist
<1>3. /\ it \in [SUBSET S -> Nat]
      /\ Evaluates(it, f, S)
  BY <1>1, <1>2 DEF IsPart, Evaluates
<1>4. IsSum(it, f, S)
  BY <1>3 DEF IsSum, Evaluates
<1>5. PICK sum : IsSum(sum, f, S) /\ SumFunctionOnSet(f, S) = sum[S]
  BY <1>4 DEF SumFunctionOnSet, FoldFunctionOnSet, MapThenFoldSet, IsSum, Unfold, Pick
<1>6. Evaluates(sum, f, S)
  BY <1>5 DEF IsSum, Evaluates
<1>7. sum[S] = it[S]
  <2>1. S \in SUBSET S /\ Same(f, f, S)
    BY DEF Same
  <2> QED BY <1>3, <1>6, <2>1, SumsAgree
<1> QED BY <1>3, <1>5, <1>7

\* Any element may be taken out first.
LEMMA AnyFirst ==
    ASSUME NEW S, IsFiniteSet(S), NEW f, \A x \in S : f[x] \in Nat,
           NEW it \in [SUBSET S -> Nat], Evaluates(it, f, S)
    PROVE  \A x \in S : it[S] = f[x] + it[S \ {x}]
<1> DEFINE T == {n \in Nat : \A t \in SUBSET S, x \in S :
                    x \in t /\ Cardinality(t) = n => it[t] = f[x] + it[t \ {x}]}
<1>1. 0 \in T
  BY WithoutPick
<1>2. ASSUME NEW n \in T PROVE n + 1 \in T
  <2> SUFFICES ASSUME NEW t \in SUBSET S, NEW x \in S, x \in t, Cardinality(t) = n + 1
               PROVE  it[t] = f[x] + it[t \ {x}]
    OBVIOUS
  <2> DEFINE y == Pick(t)
  <2>1. y \in t /\ Cardinality(t \ {x}) = n /\ Cardinality(t \ {y}) = n
    BY WithoutPick
  <2>2. it[t] = f[y] + it[t \ {y}]
    BY <2>1 DEF Unfold, Evaluates
  <2>3. CASE x = y
    BY <2>2, <2>3
  <2>4. CASE x # y
    <3> HIDE DEF y
    <3>1. it[t \ {y}] = f[x] + it[(t \ {y}) \ {x}]
      BY <2>1, <2>4
    <3>2. it[t \ {x}] = f[y] + it[(t \ {x}) \ {y}]
      BY <2>1, <2>4
    <3>3. it[(t \ {x}) \ {y}] = it[(t \ {y}) \ {x}]
      <4>1. (t \ {x}) \ {y} = (t \ {y}) \ {x}
        OBVIOUS
      <4> QED BY <4>1
    <3>4. f[x] \in Nat /\ f[y] \in Nat /\ it[(t \ {x}) \ {y}] \in Nat
      BY <2>1
    <3> DEFINE a == f[x]
               b == f[y]
               c == it[(t \ {x}) \ {y}]
    <3>5. it[t] = b + (a + c) /\ it[t \ {x}] = b + c /\ a \in Nat /\ b \in Nat /\ c \in Nat
      BY <2>2, <3>1, <3>2, <3>3, <3>4
    <3> HIDE DEF a, b, c
    <3>6. it[t] = a + it[t \ {x}]
      BY <3>5
    <3> QED BY <3>6 DEF a
  <2> QED BY <2>3, <2>4
<1>3. T = Nat
  <2> HIDE DEF T
  <2>1. T \in SUBSET Nat
    BY DEF T
  <2> QED BY <1>1, <1>2, <2>1, Induction
<1>4. S \in SUBSET S /\ Cardinality(S) \in Nat
  BY WithoutPick
<1> QED BY <1>3, <1>4
-----------------------------------------------------------------------------
(* What a sum is: 0 over nothing, a natural over any finite set, and over a *)
(* set with an element the value of that element and the sum of the rest.  *)
THEOREM SumOverSet ==
    ASSUME NEW S, IsFiniteSet(S), NEW f, \A x \in S : f[x] \in Nat
    PROVE  /\ SumFunctionOnSet(f, S) \in Nat
           /\ S = {} => SumFunctionOnSet(f, S) = 0
           /\ \A x \in S : SumFunctionOnSet(f, S) = f[x] + SumFunctionOnSet(f, S \ {x})
<1>1. PICK it : /\ it \in [SUBSET S -> Nat]
                /\ Evaluates(it, f, S)
                /\ SumFunctionOnSet(f, S) = it[S]
  BY SumUnfolds
<1>2. S \in SUBSET S
  OBVIOUS
<1>3. SumFunctionOnSet(f, S) \in Nat
  BY <1>1, <1>2
<1>4. S = {} => SumFunctionOnSet(f, S) = 0
  BY <1>1, <1>2 DEF Unfold, Evaluates
<1>5. ASSUME NEW x \in S
      PROVE  SumFunctionOnSet(f, S) = f[x] + SumFunctionOnSet(f, S \ {x})
  <2> DEFINE R == S \ {x}
  <2>1. R \in SUBSET S /\ IsFiniteSet(R) /\ \A y \in R : f[y] \in Nat
    BY FS_Subset
  <2> HIDE DEF R
  <2>2. PICK jt : /\ jt \in [SUBSET R -> Nat]
                  /\ Evaluates(jt, f, R)
                  /\ SumFunctionOnSet(f, R) = jt[R]
    BY <2>1, SumUnfolds
  <2>4. it[R] = jt[R]
    <3>1. Same(f, f, R)
      BY DEF Same
    <3>2. R \in SUBSET S
      BY DEF R
    <3> QED BY <1>1, <2>2, <3>1, <3>2, SumsAgree
  <2>5. it[S] = f[x] + it[R]
    <3>1. \A y \in S : it[S] = f[y] + it[S \ {y}]
      BY <1>1, AnyFirst
    <3> QED BY <3>1 DEF R
  <2> QED BY <1>1, <2>2, <2>4, <2>5 DEF R
<1> QED BY <1>3, <1>4, <1>5

\* Functions with the same values have the same sum.
THEOREM SumOfEqual ==
    ASSUME NEW S, IsFiniteSet(S), NEW f, NEW g, \A x \in S : f[x] \in Nat,
           \A x \in S : f[x] = g[x]
    PROVE  SumFunctionOnSet(f, S) = SumFunctionOnSet(g, S)
<1>1. PICK it : /\ it \in [SUBSET S -> Nat]
                /\ Evaluates(it, f, S)
                /\ SumFunctionOnSet(f, S) = it[S]
  BY SumUnfolds
<1>2. PICK jt : /\ jt \in [SUBSET S -> Nat]
                /\ Evaluates(jt, g, S)
                /\ SumFunctionOnSet(g, S) = jt[S]
  BY SumUnfolds
<1>3. S \in SUBSET S
  OBVIOUS
<1>4. Same(f, g, S)
  BY DEF Same
<1>5. it[S] = jt[S]
  BY <1>1, <1>2, <1>3, <1>4, SumsAgree
<1> QED BY <1>1, <1>2, <1>5

\* A function with one value raised has a sum raised by as much.
THEOREM SumOfRaised ==
    ASSUME NEW S, IsFiniteSet(S), NEW f, NEW g, \A x \in S : f[x] \in Nat,
           NEW d \in Nat, NEW y \in S, g[y] = f[y] + d,
           \A x \in S \ {y} : g[x] = f[x]
    PROVE  SumFunctionOnSet(g, S) = SumFunctionOnSet(f, S) + d
<1>1. IsFiniteSet(S \ {y})
  BY FS_Subset
<1>2. \A x \in S : g[x] \in Nat
  OBVIOUS
<1>3. /\ SumFunctionOnSet(f, S) = f[y] + SumFunctionOnSet(f, S \ {y})
      /\ SumFunctionOnSet(g, S) = g[y] + SumFunctionOnSet(g, S \ {y})
  BY <1>2, SumOverSet
<1>4. SumFunctionOnSet(f, S \ {y}) = SumFunctionOnSet(g, S \ {y})
  BY <1>1, SumOfEqual
<1>5. SumFunctionOnSet(f, S \ {y}) \in Nat
  BY <1>1, SumOverSet
<1> QED BY <1>3, <1>4, <1>5

\* Functions with larger values have a larger sum.
THEOREM SumOfLarger ==
    ASSUME NEW S, IsFiniteSet(S), NEW f, NEW g, \A x \in S : f[x] \in Nat,
           \A x \in S : g[x] \in Nat, \A x \in S : f[x] <= g[x]
    PROVE  SumFunctionOnSet(f, S) <= SumFunctionOnSet(g, S)
<1> DEFINE T == {n \in Nat : \A t \in SUBSET S : Cardinality(t) = n =>
                    SumFunctionOnSet(f, t) <= SumFunctionOnSet(g, t)}
<1>1. \A t \in SUBSET S : /\ IsFiniteSet(t)
                          /\ \A x \in t : f[x] \in Nat
                          /\ \A x \in t : g[x] \in Nat
  BY FS_Subset
<1>2. 0 \in T
  <2>1. \A t \in SUBSET S : Cardinality(t) = 0 => t = {}
    BY WithoutPick
  <2>2. SumFunctionOnSet(f, {}) = 0 /\ SumFunctionOnSet(g, {}) = 0
    BY FS_EmptySet, SumOverSet
  <2> QED BY <2>1, <2>2
<1>3. ASSUME NEW n \in T PROVE n + 1 \in T
  <2> SUFFICES ASSUME NEW t \in SUBSET S, Cardinality(t) = n + 1
               PROVE  SumFunctionOnSet(f, t) <= SumFunctionOnSet(g, t)
    OBVIOUS
  <2> DEFINE x == Pick(t)
             r == t \ {x}
  <2>1. x \in t /\ r \in SUBSET S /\ Cardinality(r) = n
    BY WithoutPick
  <2>2. /\ SumFunctionOnSet(f, t) = f[x] + SumFunctionOnSet(f, r)
        /\ SumFunctionOnSet(g, t) = g[x] + SumFunctionOnSet(g, r)
    BY <1>1, <2>1, SumOverSet
  <2>3. SumFunctionOnSet(f, r) \in Nat /\ SumFunctionOnSet(g, r) \in Nat
    BY <1>1, <2>1, SumOverSet
  <2> HIDE DEF x, r
  <2>4. SumFunctionOnSet(f, r) <= SumFunctionOnSet(g, r)
    BY <2>1
  <2>5. f[x] <= g[x] /\ f[x] \in Nat /\ g[x] \in Nat
    BY <2>1
  <2> QED BY <2>2, <2>3, <2>4, <2>5
<1>4. T = Nat
  <2> HIDE DEF T
  <2>1. T \in SUBSET Nat
    BY DEF T
  <2> QED BY <1>2, <1>3, <2>1, Induction
<1>5. S \in SUBSET S /\ Cardinality(S) \in Nat
  BY WithoutPick
<1> QED BY <1>4, <1>5

\* Zeros have the sum 0.
THEOREM SumOfZeros ==
    ASSUME NEW S, IsFiniteSet(S), NEW f, \A x \in S : f[x] = 0
    PROVE  SumFunctionOnSet(f, S) = 0
<1> DEFINE T == {n \in Nat : \A t \in SUBSET S :
                    Cardinality(t) = n => SumFunctionOnSet(f, t) = 0}
<1>1. \A t \in SUBSET S : IsFiniteSet(t) /\ \A x \in t : f[x] \in Nat
  BY FS_Subset
<1>2. 0 \in T
  <2>1. \A t \in SUBSET S : Cardinality(t) = 0 => t = {}
    BY WithoutPick
  <2> QED BY <1>1, <2>1, SumOverSet
<1>3. ASSUME NEW n \in T PROVE n + 1 \in T
  <2> SUFFICES ASSUME NEW t \in SUBSET S, Cardinality(t) = n + 1
               PROVE  SumFunctionOnSet(f, t) = 0
    OBVIOUS
  <2>1. /\ Pick(t) \in t /\ t \ {Pick(t)} \in SUBSET S
        /\ Cardinality(t \ {Pick(t)}) = n
    BY WithoutPick
  <2>2. SumFunctionOnSet(f, t) = f[Pick(t)] + SumFunctionOnSet(f, t \ {Pick(t)})
    BY <1>1, <2>1, SumOverSet
  <2>3. SumFunctionOnSet(f, t \ {Pick(t)}) = 0
    BY <2>1
  <2> QED BY <2>1, <2>2, <2>3
<1>4. T = Nat
  <2> HIDE DEF T
  <2>1. T \in SUBSET Nat
    BY DEF T
  <2> QED BY <1>2, <1>3, <2>1, Induction
<1>5. S \in SUBSET S /\ Cardinality(S) \in Nat
  BY WithoutPick
<1> QED BY <1>4, <1>5

(* Counting twice: what the elements of D are worth by their values is the  *)
(* same, value by value, as element by element.                            *)
ByValue(w, t, X, D) == [i \in X |-> w[i] * Cardinality({k \in D : t[k] = i})]
ByElement(w, t, D) == [k \in D |-> w[t[k]]]

\* One element more raises one summand of the sum by values.
LEMMA OneMore ==
    ASSUME NEW X, IsFiniteSet(X), NEW w \in [X -> Nat], NEW t,
           NEW D, IsFiniteSet(D), NEW d \in D, \A k \in D : t[k] \in X
    PROVE  SumFunctionOnSet(ByValue(w, t, X, D), X)
              = SumFunctionOnSet(ByValue(w, t, X, D \ {d}), X) + w[t[d]]
<1> DEFINE At(i) == {k \in D : t[k] = i}
           Rest(i) == {k \in D \ {d} : t[k] = i}
           f == ByValue(w, t, X, D \ {d})
           g == ByValue(w, t, X, D)
           y == t[d]
<1>1. \A i : IsFiniteSet(At(i)) /\ IsFiniteSet(Rest(i))
  <2>1. \A i : At(i) \in SUBSET D /\ Rest(i) \in SUBSET D
    OBVIOUS
  <2> QED BY <2>1, FS_Subset
<1>2. \A i : Cardinality(At(i)) \in Nat /\ Cardinality(Rest(i)) \in Nat
  BY <1>1, FS_CardinalityType
<1>3. \A i \in X : f[i] = w[i] * Cardinality(Rest(i)) /\ g[i] = w[i] * Cardinality(At(i))
  BY DEF ByValue
<1>4. ASSUME NEW i \in X \ {y} PROVE g[i] = f[i]
  <2>1. At(i) = Rest(i)
    OBVIOUS
  <2> QED BY <1>3, <2>1
<1>5. y \in X /\ w[y] \in Nat
  OBVIOUS
<1>6. Cardinality(At(y)) = Cardinality(Rest(y)) + 1
  <2>1. At(y) = Rest(y) \cup {d} /\ d \notin Rest(y)
    OBVIOUS
  <2>2. IsFiniteSet(Rest(y))
    BY <1>1
  <2> DEFINE a == At(y)
             r == Rest(y)
  <2> HIDE DEF a, r
  <2>3. a = r \cup {d} /\ d \notin r /\ IsFiniteSet(r)
    BY <2>1, <2>2 DEF a, r
  <2>4. Cardinality(a) = Cardinality(r) + 1
    BY <2>3, FS_AddElement
  <2> QED BY <2>4 DEF a, r
<1>7. g[y] = f[y] + w[y]
  <2> DEFINE c == Cardinality(Rest(y))
             v == w[y]
  <2>1. g[y] = v * (c + 1) /\ f[y] = v * c /\ c \in Nat /\ v \in Nat
    BY <1>2, <1>3, <1>5, <1>6
  <2> HIDE DEF c, v
  <2>2. v * (c + 1) = v * c + v
    BY <2>1
  <2> QED BY <2>1, <2>2 DEF v
<1>8. \A i \in X : f[i] \in Nat
  <2>1. \A a, b \in Nat : a * b \in Nat
    OBVIOUS
  <2> SUFFICES ASSUME NEW i \in X PROVE f[i] \in Nat
    OBVIOUS
  <2> DEFINE c == Cardinality(Rest(i))
  <2>2. f[i] = w[i] * c /\ w[i] \in Nat /\ c \in Nat
    BY <1>2, <1>3
  <2> HIDE DEF c, f
  <2> QED BY <2>1, <2>2
<1> HIDE DEF f, g, y
<1>9. SumFunctionOnSet(g, X) = SumFunctionOnSet(f, X) + w[y]
  BY <1>4, <1>5, <1>7, <1>8, SumOfRaised
<1> QED BY <1>9 DEF f, g, y

\* The two sums are equal.
THEOREM SumByValue ==
    ASSUME NEW X, IsFiniteSet(X), NEW w \in [X -> Nat], NEW t,
           NEW D, IsFiniteSet(D), \A k \in D : t[k] \in X
    PROVE  SumFunctionOnSet(ByValue(w, t, X, D), X)
              = SumFunctionOnSet(ByElement(w, t, D), D)
<1> DEFINE Holds(C) == SumFunctionOnSet(ByValue(w, t, X, C), X)
                          = SumFunctionOnSet(ByElement(w, t, C), C)
           T == {n \in Nat : \A C \in SUBSET D : Cardinality(C) = n => Holds(C)}
<1>1. \A C \in SUBSET D : IsFiniteSet(C) /\ \A k \in C : t[k] \in X /\ w[t[k]] \in Nat
  BY FS_Subset
<1>2. 0 \in T
  <2> SUFFICES ASSUME NEW C \in SUBSET D, Cardinality(C) = 0 PROVE Holds(C)
    OBVIOUS
  <2>1. C = {}
    BY WithoutPick
  <2> DEFINE f == ByValue(w, t, X, C)
             g == ByElement(w, t, C)
  <2>2. \A i \in X : f[i] = 0
    <3>1. \A i : {k \in C : t[k] = i} = {}
      BY <2>1
    <3> QED BY <3>1, FS_EmptySet DEF ByValue
  <2> HIDE DEF f, g
  <2>3. SumFunctionOnSet(f, X) = 0
    BY <2>2, SumOfZeros
  <2>4. SumFunctionOnSet(g, C) = 0
    BY <1>1, <2>1, SumOfZeros
  <2> QED BY <2>3, <2>4 DEF f, g
<1>3. ASSUME NEW n \in T PROVE n + 1 \in T
  <2> SUFFICES ASSUME NEW C \in SUBSET D, Cardinality(C) = n + 1 PROVE Holds(C)
    OBVIOUS
  <2> DEFINE d == Pick(C)
             B == C \ {d}
  <2>1. d \in C /\ B \in SUBSET D /\ Cardinality(B) = n
    BY WithoutPick
  <2> HIDE DEF d
  <2>2. Holds(B)
    BY <2>1
  <2>3. SumFunctionOnSet(ByValue(w, t, X, C), X)
           = SumFunctionOnSet(ByValue(w, t, X, B), X) + w[t[d]]
    BY <1>1, <2>1, OneMore
  <2>4. SumFunctionOnSet(ByElement(w, t, C), C)
           = w[t[d]] + SumFunctionOnSet(ByElement(w, t, B), B)
    <3> DEFINE f == ByElement(w, t, C)
               g == ByElement(w, t, B)
    <3>1. (\A k \in C : f[k] = w[t[k]]) /\ (\A k \in B : g[k] = f[k])
      BY DEF ByElement
    <3>2. (\A k \in C : f[k] \in Nat) /\ (\A k \in B : f[k] \in Nat)
      BY <1>1, <3>1
    <3> HIDE DEF f, g
    <3>3. SumFunctionOnSet(f, C) = f[d] + SumFunctionOnSet(f, B)
      BY <1>1, <2>1, <3>2, SumOverSet
    <3>4. SumFunctionOnSet(f, B) = SumFunctionOnSet(g, B)
      BY <1>1, <2>1, <3>1, <3>2, SumOfEqual
    <3> QED BY <2>1, <3>1, <3>3, <3>4 DEF f, g
  <2>5. w[t[d]] \in Nat /\ SumFunctionOnSet(ByElement(w, t, B), B) \in Nat
    <3> DEFINE g == ByElement(w, t, B)
    <3>1. \A k \in B : g[k] \in Nat
      BY <1>1, <2>1 DEF ByElement
    <3> HIDE DEF g
    <3>2. SumFunctionOnSet(g, B) \in Nat
      BY <1>1, <2>1, <3>1, SumOverSet
    <3> QED BY <1>1, <2>1, <3>2 DEF g
  <2> QED BY <2>2, <2>3, <2>4, <2>5
<1>4. T = Nat
  <2> HIDE DEF T
  <2>1. T \in SUBSET Nat
    BY DEF T
  <2> QED BY <1>2, <1>3, <2>1, Induction
<1>5. D \in SUBSET D /\ Cardinality(D) \in Nat
  BY WithoutPick
<1> QED BY <1>4, <1>5
-----------------------------------------------------------------------------
(* Measures of sequences that add up: the worth of the elements, and how    *)
(* often one of them occurs.                                               *)
Additive(m, X) ==
    /\ m \in [Seq(X) -> Nat]
    /\ m[<<>>] = 0
    /\ \A s \in Seq(X), x \in X : m[Append(s, x)] = m[s] + m[<<x>>]
Worth(w, s) == SumFunction([k \in DOMAIN s |-> w[s[k]]])
Occurrences(x, s) == Cardinality({k \in DOMAIN s : s[k] = x})

\* A measure that adds up over Append adds up over concatenations.
THEOREM MeasureOfConcat ==
    ASSUME NEW X, NEW m, Additive(m, X), NEW s \in Seq(X), NEW t \in Seq(X)
    PROVE  m[s \o t] = m[s] + m[t]
<1> DEFINE T == {n \in Nat : \A u \in Seq(X) : Len(u) = n => m[s \o u] = m[s] + m[u]}
<1>1. 0 \in T
  <2> SUFFICES ASSUME NEW u \in Seq(X), Len(u) = 0 PROVE m[s \o u] = m[s] + m[u]
    OBVIOUS
  <2>1. u = <<>> /\ s \o <<>> = s
    BY EmptySeq, ConcatEmptySeq
  <2> QED BY <2>1 DEF Additive
<1>2. ASSUME NEW n \in T PROVE n + 1 \in T
  <2> SUFFICES ASSUME NEW u \in Seq(X), Len(u) = n + 1 PROVE m[s \o u] = m[s] + m[u]
    OBVIOUS
  <2> DEFINE v == SubSeq(u, 1, n)
             x == u[n + 1]
  <2>1. v \in Seq(X) /\ x \in X /\ u = Append(v, x) /\ Len(v) = n
    OBVIOUS
  <2> HIDE DEF v, x
  <2>2. s \o u = Append(s \o v, x) /\ s \o v \in Seq(X)
    BY <2>1
  <2>3. m[s \o v] = m[s] + m[v]
    BY <2>1
  <2>4. m[s \o u] = m[s \o v] + m[<<x>>] /\ m[u] = m[v] + m[<<x>>]
    BY <2>1, <2>2 DEF Additive
  <2>5. m[s] \in Nat /\ m[v] \in Nat /\ m[<<x>>] \in Nat
    <3>1. <<x>> \in Seq(X)
      BY <2>1
    <3> QED BY <2>1, <3>1 DEF Additive
  <2> QED BY <2>3, <2>4, <2>5
<1>3. T = Nat
  <2> HIDE DEF T
  <2>1. T \in SUBSET Nat
    BY DEF T
  <2> QED BY <1>1, <1>2, <2>1, Induction
<1>4. Len(t) \in Nat
  OBVIOUS
<1> QED BY <1>3, <1>4

\* The first element can be taken off as well as the last.
THEOREM MeasureOfTail ==
    ASSUME NEW X, NEW m, Additive(m, X), NEW s \in Seq(X), s # <<>>
    PROVE  m[s] = m[<<Head(s)>>] + m[Tail(s)]
<1>1. Head(s) \in X /\ Tail(s) \in Seq(X) /\ <<Head(s)>> \in Seq(X)
  OBVIOUS
<1>2. s = <<Head(s)>> \o Tail(s)
  OBVIOUS
<1> DEFINE h == <<Head(s)>>
           t == Tail(s)
<1>3. h \in Seq(X) /\ t \in Seq(X) /\ s = h \o t
  BY <1>1, <1>2
<1> HIDE DEF h, t
<1>4. m[h \o t] = m[h] + m[t]
  BY <1>3, MeasureOfConcat
<1> QED BY <1>3, <1>4 DEF h, t

\* What a sequence is worth adds up.
THEOREM WorthAddsUp ==
    ASSUME NEW X, NEW w \in [X -> Nat]
    PROVE  /\ Additive([s \in Seq(X) |-> Worth(w, s)], X)
           /\ \A x \in X : Worth(w, <<x>>) = w[x]
<1>1. ASSUME NEW s \in Seq(X)
      PROVE  /\ IsFiniteSet(DOMAIN s)
             /\ \A k \in DOMAIN s : w[s[k]] \in Nat
             /\ Worth(w, s) \in Nat
  <2>1. DOMAIN s = 1..Len(s) /\ \A k \in DOMAIN s : s[k] \in X
    OBVIOUS
  <2>2. IsFiniteSet(DOMAIN s)
    BY <2>1, FS_Interval
  <2> DEFINE f == [k \in DOMAIN s |-> w[s[k]]]
  <2>3. DOMAIN f = DOMAIN s /\ \A k \in DOMAIN s : f[k] \in Nat /\ w[s[k]] \in Nat
    BY <2>1
  <2> HIDE DEF f
  <2>4. SumFunctionOnSet(f, DOMAIN s) \in Nat
    BY <2>2, <2>3, SumOverSet
  <2> QED BY <2>2, <2>3, <2>4 DEF Worth, SumFunction, f
<1>2. Worth(w, <<>>) = 0
  <2> DEFINE f == [k \in DOMAIN <<>> |-> w[<<>>[k]]]
  <2>1. DOMAIN f = {} /\ IsFiniteSet({})
    BY FS_EmptySet
  <2> HIDE DEF f
  <2>2. SumFunctionOnSet(f, DOMAIN f) = 0
    BY <2>1, SumOverSet
  <2> QED BY <2>2 DEF Worth, SumFunction, f
<1>3. ASSUME NEW s \in Seq(X), NEW x \in X
      PROVE  Worth(w, Append(s, x)) = Worth(w, s) + w[x]
  <2> DEFINE a == Append(s, x)
             n == Len(s) + 1
             f == [k \in DOMAIN s |-> w[s[k]]]
             g == [k \in DOMAIN a |-> w[a[k]]]
  <2>1. /\ a \in Seq(X) /\ Len(a) = n /\ DOMAIN a = 1..n /\ a[n] = x
        /\ n \in DOMAIN a /\ (1..n) \ {n} = DOMAIN s
        /\ \A k \in DOMAIN s : k \in DOMAIN a /\ a[k] = s[k]
    <3>1. Len(s) \in Nat /\ DOMAIN s = 1..Len(s)
      OBVIOUS
    <3>2. a \in Seq(X) /\ Len(a) = n /\ a[n] = x /\ \A k \in 1..Len(s) : a[k] = s[k]
      BY <3>1
    <3>3. DOMAIN a = 1..n /\ n \in 1..n /\ (1..n) \ {n} = 1..Len(s)
      BY <3>1, <3>2
    <3> QED BY <3>1, <3>2, <3>3
  <2>2. /\ DOMAIN f = DOMAIN s /\ DOMAIN g = DOMAIN a /\ g[n] = w[x]
        /\ \A k \in DOMAIN s : f[k] = g[k]
    BY <2>1
  <2>3. /\ IsFiniteSet(DOMAIN a) /\ IsFiniteSet(DOMAIN s)
        /\ \A k \in DOMAIN a : w[a[k]] \in Nat
        /\ \A k \in DOMAIN s : w[s[k]] \in Nat
    BY <1>1, <2>1
  <2>4. (\A k \in DOMAIN a : g[k] \in Nat) /\ (\A k \in DOMAIN s : f[k] \in Nat)
    BY <2>3
  <2>5. Worth(w, a) = SumFunctionOnSet(g, DOMAIN a) /\ Worth(w, s) = SumFunctionOnSet(f, DOMAIN s)
    BY DEF Worth, SumFunction
  <2> HIDE DEF a, f, g, n
  <2>6. SumFunctionOnSet(g, DOMAIN a) = g[n] + SumFunctionOnSet(g, (DOMAIN a) \ {n})
    BY <2>1, <2>3, <2>4, SumOverSet
  <2>7. SumFunctionOnSet(f, DOMAIN s) = SumFunctionOnSet(g, DOMAIN s)
    BY <2>2, <2>3, <2>4, SumOfEqual
  <2>8. (DOMAIN a) \ {n} = DOMAIN s
    BY <2>1
  <2>9. w[x] \in Nat /\ Worth(w, s) \in Nat
    BY <1>1
  <2>10. Worth(w, a) = w[x] + Worth(w, s)
    BY <2>2, <2>5, <2>6, <2>7, <2>8
  <2> QED BY <2>9, <2>10 DEF a
<1>4. ASSUME NEW x \in X PROVE Worth(w, <<x>>) = w[x]
  <2> DEFINE e == <<>>
  <2>1. e \in Seq(X) /\ Append(e, x) = <<x>> /\ w[x] \in Nat
    OBVIOUS
  <2>2. Worth(w, e) = 0
    BY <1>2
  <2> HIDE DEF e
  <2>3. Worth(w, Append(e, x)) = Worth(w, e) + w[x]
    BY <1>3, <2>1
  <2> QED BY <2>1, <2>2, <2>3
<1> DEFINE m == [s \in Seq(X) |-> Worth(w, s)]
<1>5. m \in [Seq(X) -> Nat]
  BY <1>1
<1>6. m[<<>>] = 0
  <2>1. <<>> \in Seq(X)
    OBVIOUS
  <2> QED BY <1>2, <2>1
<1>7. ASSUME NEW s \in Seq(X), NEW x \in X
      PROVE  m[Append(s, x)] = m[s] + m[<<x>>]
  <2>1. Append(s, x) \in Seq(X) /\ <<x>> \in Seq(X)
    OBVIOUS
  <2> QED BY <1>3, <1>4, <2>1
<1>8. Additive(m, X)
  BY <1>5, <1>6, <1>7 DEF Additive
<1> QED BY <1>4, <1>8

\* So does the number of times something occurs in it.
THEOREM OccurrencesAddUp ==
    ASSUME NEW X, NEW i
    PROVE  /\ Additive([s \in Seq(X) |-> Occurrences(i, s)], X)
           /\ \A x \in X : Occurrences(i, <<x>>) = IF x = i THEN 1 ELSE 0
<1> DEFINE At(s) == {k \in DOMAIN s : s[k] = i}
<1>1. ASSUME NEW s \in Seq(X)
      PROVE  IsFiniteSet(At(s)) /\ Occurrences(i, s) \in Nat
  <2>1. DOMAIN s = 1..Len(s) /\ At(s) \in SUBSET DOMAIN s
    OBVIOUS
  <2>2. IsFiniteSet(DOMAIN s)
    BY <2>1, FS_Interval
  <2>3. IsFiniteSet(At(s))
    BY <2>1, <2>2, FS_Subset
  <2> QED BY <2>3, FS_CardinalityType DEF Occurrences
<1>2. Occurrences(i, <<>>) = 0
  <2>1. At(<<>>) = {}
    OBVIOUS
  <2> QED BY <2>1, FS_EmptySet DEF Occurrences
<1>3. ASSUME NEW s \in Seq(X), NEW x \in X
      PROVE  Occurrences(i, Append(s, x)) = Occurrences(i, s) + IF x = i THEN 1 ELSE 0
  <2> DEFINE a == Append(s, x)
             n == Len(s) + 1
  <2>1. /\ DOMAIN a = DOMAIN s \cup {n} /\ n \notin DOMAIN s
        /\ a[n] = x /\ \A k \in DOMAIN s : a[k] = s[k]
    OBVIOUS
  <2> SUFFICES Occurrences(i, a) = Occurrences(i, s) + IF x = i THEN 1 ELSE 0
    OBVIOUS
  <2> HIDE DEF a, n
  <2>2. CASE x = i
    <3>1. At(a) = At(s) \cup {n} /\ n \notin At(s)
      BY <2>1, <2>2
    <3> QED BY <1>1, <2>2, <3>1, FS_AddElement DEF Occurrences
  <2>3. CASE x # i
    <3>1. At(a) = At(s)
      BY <2>1, <2>3
    <3>2. Occurrences(i, a) = Occurrences(i, s)
      BY <3>1 DEF Occurrences
    <3>3. Occurrences(i, s) \in Nat
      BY <1>1
    <3> HIDE DEF At
    <3> QED BY <2>3, <3>2, <3>3
  <2> QED BY <2>2, <2>3
<1>4. ASSUME NEW x \in X
      PROVE  Occurrences(i, <<x>>) = IF x = i THEN 1 ELSE 0
  <2> DEFINE e == <<>>
  <2>1. e \in Seq(X) /\ Append(e, x) = <<x>>
    OBVIOUS
  <2>2. Occurrences(i, e) = 0
    BY <1>2
  <2> HIDE DEF e
  <2>3. Occurrences(i, Append(e, x)) = Occurrences(i, e) + IF x = i THEN 1 ELSE 0
    BY <1>3, <2>1
  <2> QED BY <2>1, <2>2, <2>3
<1> DEFINE m == [s \in Seq(X) |-> Occurrences(i, s)]
<1>5. m \in [Seq(X) -> Nat]
  BY <1>1
<1>6. m[<<>>] = 0
  <2>1. <<>> \in Seq(X)
    OBVIOUS
  <2> QED BY <1>2, <2>1
<1>7. ASSUME NEW s \in Seq(X), NEW x \in X
      PROVE  m[Append(s, x)] = m[s] + m[<<x>>]
  <2>1. Append(s, x) \in Seq(X) /\ <<x>> \in Seq(X)
    OBVIOUS
  <2> QED BY <1>3, <1>4, <2>1
<1>8. Additive(m, X)
  BY <1>5, <1>6, <1>7 DEF Additive
<1> QED BY <1>4, <1>8
=============================================================================
