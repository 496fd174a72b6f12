---------------------------- MODULE NaturalLemmas ----------------------------
(***************************************************************************)
(* Least and largest elements of sets of natural numbers, the places where *)
(* a function passes a number, sums, products, quotients and multiples,    *)
(* for the proofs.                                                         *)
(***************************************************************************)
EXTENDS Integers, Functions, WellFoundedInduction, FiniteSetTheorems, TLAPS

\* A nonempty set of natural numbers has a least element.
LEMMA LeastElement ==
  ASSUME NEW S \in SUBSET Nat, S # {}
  PROVE  \E m \in S : \A n \in S : m <= n
<1>1. PICK m \in S : \A n \in S : ~ (<<n, m>> \in OpToRel(<, Nat))
  BY NatLessThanWellFounded, WFMin, Zenon
<1>2. \A n \in S : ~ (n < m)
  BY <1>1 DEF OpToRel
<1>3. QED
  BY <1>2

\* One with an upper bound has a largest: the least of its upper bounds.
LEMMA LargestElement ==
  ASSUME NEW S \in SUBSET Nat, S # {}, NEW c \in Nat, \A n \in S : n <= c
  PROVE  \E m \in S : \A n \in S : n <= m
<1> DEFINE Bounds == {b \in Nat : \A n \in S : n <= b}
<1>1. c \in Bounds
  OBVIOUS
<1>2. PICK b \in Bounds : \A d \in Bounds : b <= d
  BY <1>1, LeastElement
<1>3. b \in S
  <2>1. SUFFICES ASSUME b \notin S PROVE FALSE
    OBVIOUS
  <2>2. \A n \in S : n < b
    BY <2>1
  <2>3. PICK n \in S : TRUE
    OBVIOUS
  <2>4. b - 1 \in Nat
    BY <2>2, <2>3
  <2>5. b - 1 \in Bounds
    BY <2>2, <2>4
  <2>6. QED
    BY <1>2, <2>5
<1>4. QED
  BY <1>3

-----------------------------------------------------------------------------
\* Where f goes from at most e to beyond it: at the last place before n that is not
\* beyond e, if n is.
LEMMA LastNotBeyond ==
  ASSUME NEW n \in Nat \ {0}, NEW f, \A r \in 0 .. n : f[r] \in Nat, NEW e \in Nat,
         f[0] <= e, e < f[n]
  PROVE  \E d \in 0 .. n - 1 :
           f[d] <= e /\ e < f[d + 1] /\ \A r \in 0 .. n - 1 : f[r] <= e => r <= d
<1> DEFINE S == {r \in 0 .. n - 1 : f[r] <= e}
<1>1. 0 \in S /\ S \in SUBSET Nat /\ \A r \in S : r <= n
  OBVIOUS
<1>2. PICK d \in S : \A r \in S : r <= d
  BY <1>1, LargestElement
<1>3. d \in 0 .. n - 1 /\ f[d] <= e /\ d + 1 \in 0 .. n /\ f[d + 1] \in Nat
  BY <1>2
<1>4. e < f[d + 1]
  <2>1. CASE d + 1 = n
    BY <2>1
  <2>2. CASE d + 1 # n
    <3>1. d + 1 \in 0 .. n - 1 /\ d + 1 \notin S
      BY <1>2, <1>3, <2>2
    <3>2. QED
      BY <3>1, <1>3
  <2>3. QED
    BY <2>1, <2>2
<1>5. QED
  BY <1>2, <1>3, <1>4

\* And before the first place after n that is beyond e, if n is not.
LEMMA FirstBeyond ==
  ASSUME NEW n \in Nat, NEW w \in Nat, NEW f, \A r \in n .. w : f[r] \in Nat, NEW e \in Nat,
         n < w, f[n] <= e, e < f[w]
  PROVE  \E d \in n .. w - 1 :
           f[d] <= e /\ e < f[d + 1] /\ \A r \in n + 1 .. w : f[r] > e => d + 1 <= r
<1> DEFINE S == {r \in n + 1 .. w : f[r] > e}
<1>1. w \in S /\ S \in SUBSET Nat
  OBVIOUS
<1>2. PICK m \in S : \A r \in S : m <= r
  BY <1>1, LeastElement
<1>3. m \in n + 1 .. w /\ f[m] > e /\ m - 1 \in n .. w - 1 /\ m - 1 \in n .. w
      /\ f[m - 1] \in Nat /\ (m - 1) + 1 = m
  BY <1>2
<1>4. f[m - 1] <= e
  <2>1. CASE m - 1 = n
    BY <2>1
  <2>2. CASE m - 1 # n
    <3>1. m - 1 \in n + 1 .. w /\ m - 1 \notin S
      BY <1>2, <1>3, <2>2
    <3>2. QED
      BY <3>1, <1>3
  <2>3. QED
    BY <2>1, <2>2
<1>5. QED
  BY <1>2, <1>3, <1>4

-----------------------------------------------------------------------------
\* The sum of f over a set, as the library computes it: taking one element after
\* another away.
Some(s) == CHOOSE x \in s : TRUE
Rest(s) == s \ {Some(s)}

Adds(f, S, sum) ==
  sum = [s \in S |-> IF s = {} THEN 0 ELSE f[Some(s)] + sum[Rest(s)]]

LEMMA SumUnfolded ==
  ASSUME NEW f, NEW S
  PROVE  SumFunctionOnSet(f, S) = (CHOOSE sum : Adds(f, SUBSET S, sum))[S]
BY DEF SumFunctionOnSet, FoldFunctionOnSet, MapThenFoldSet, Adds, Some, Rest

\* Taking an element away from a finite set leaves a smaller one.
LEMMA Smaller ==
  ASSUME NEW s, IsFiniteSet(s), NEW x \in s
  PROVE  /\ IsFiniteSet(s \ {x}) /\ Cardinality(s) \in Nat /\ Cardinality(s \ {x}) \in Nat
         /\ Cardinality(s \ {x}) = Cardinality(s) - 1
BY FS_RemoveElement, FS_CardinalityType

LEMMA SumExists ==
  ASSUME NEW S, IsFiniteSet(S), NEW f
  PROVE  \E sum : Adds(f, SUBSET S, sum)
<1> DEFINE Small(n) == {s \in SUBSET S : Cardinality(s) <= n}
<1>1. \A s \in SUBSET S : /\ IsFiniteSet(s) /\ Cardinality(s) \in Nat
                          /\ Cardinality(s) <= Cardinality(S)
                          /\ s # {} => Some(s) \in s
  BY FS_Subset, FS_CardinalityType DEF Some
<1>2. ASSUME NEW n \in Nat, NEW s \in Small(n + 1), s # {}
      PROVE  Rest(s) \in Small(n)
  <2>1. Cardinality(s \ {Some(s)}) = Cardinality(s) - 1 /\ Cardinality(s) \in Nat
    BY <1>1, <1>2, Smaller
  <2>2. QED
    BY <1>2, <2>1 DEF Rest
<1>3. \E sum : Adds(f, Small(0), sum)
  <2>1. \A s \in Small(0) : s = {}
    BY <1>1, FS_EmptySet
  <2>2. Adds(f, Small(0), [s \in Small(0) |-> 0])
    BY <2>1 DEF Adds
  <2>3. QED
    BY <2>2
<1>4. ASSUME NEW n \in Nat, NEW sum, Adds(f, Small(n), sum)
      PROVE  \E more : Adds(f, Small(n + 1), more)
  <2> DEFINE more == [s \in Small(n + 1) |-> IF s = {} THEN 0 ELSE f[Some(s)] + sum[Rest(s)]]
  <2>1. \A s \in Small(n) : s \in Small(n + 1)
    BY <1>1
  <2> HIDE DEF Small
  <2>2. \A s \in Small(n) : more[s] = sum[s]
    BY <1>4, <2>1 DEF Adds
  <2>3. \A s \in Small(n + 1) : s # {} => more[Rest(s)] = sum[Rest(s)]
    BY <1>2, <2>2
  <2>4. Adds(f, Small(n + 1), more)
    BY <2>3 DEF Adds
  <2>5. QED
    BY <2>4
<1> HIDE DEF Small
<1>5. ASSUME NEW n \in Nat PROVE \E sum : Adds(f, Small(n), sum)
  <2> DEFINE Bad == {m \in Nat : ~ \E sum : Adds(f, Small(m), sum)}
  <2>1. SUFFICES ASSUME Bad # {} PROVE FALSE
    OBVIOUS
  <2>2. PICK m \in Bad : \A k \in Bad : m <= k
    BY <2>1, LeastElement
  <2>3. m # 0 /\ m - 1 \in Nat /\ (m - 1) + 1 = m
    BY <1>3, <2>2
  <2>4. \E sum : Adds(f, Small(m - 1), sum)
    BY <2>2, <2>3
  <2>5. QED
    BY <1>4, <2>2, <2>3, <2>4
<1>6. Small(Cardinality(S)) = SUBSET S /\ Cardinality(S) \in Nat
  BY <1>1 DEF Small
<1>7. QED
  BY <1>5, <1>6

\* A nonempty set of finite sets has a smallest member.
LEMMA SmallestMember ==
  ASSUME NEW S, IsFiniteSet(S), NEW B \in SUBSET SUBSET S, B # {}
  PROVE  \E u \in B : \A v \in B : Cardinality(u) <= Cardinality(v)
<1> DEFINE Sizes == {Cardinality(t) : t \in B}
<1>1. \A t \in SUBSET S : Cardinality(t) \in Nat
  BY FS_Subset, FS_CardinalityType
<1>2. Sizes \in SUBSET Nat /\ Sizes # {}
  BY <1>1
<1>3. PICK m \in Sizes : \A k \in Sizes : m <= k
  BY <1>2, LeastElement
<1>4. QED
  BY <1>3

LEMMA SubsetsSmaller ==
  ASSUME NEW S, IsFiniteSet(S)
  PROVE  \A v \in SUBSET S : \A w \in SUBSET v : w = v \/ ~ (Cardinality(v) <= Cardinality(w))
<1>1. ASSUME NEW v \in SUBSET S, NEW w \in SUBSET v, Cardinality(v) <= Cardinality(w)
      PROVE  w = v
  <2>1. IsFiniteSet(v)
    BY FS_Subset
  <2>2. /\ Cardinality(w) <= Cardinality(v) /\ IsFiniteSet(w)
        /\ Cardinality(v) = Cardinality(w) => v = w
    BY <2>1, FS_Subset
  <2>3. Cardinality(v) \in Nat /\ Cardinality(w) \in Nat
    BY <2>1, <2>2, FS_CardinalityType
  <2>4. QED
    BY <1>1, <2>2, <2>3
<1>2. QED
  BY <1>1

\* It does not matter which element is taken away first.
LEMMA SumOf ==
  ASSUME NEW S, IsFiniteSet(S), NEW f, \A x \in S : f[x] \in Nat,
         NEW sum, Adds(f, SUBSET S, sum), NEW s \in SUBSET S
  PROVE  /\ sum[s] \in Nat /\ (s = {} => sum[s] = 0)
         /\ \A x \in s : sum[s] = f[x] + sum[s \ {x}]
<1> DEFINE Good(t) == sum[t] \in Nat /\ \A x \in t : sum[t] = f[x] + sum[t \ {x}]
           Bad == {t \in SUBSET S : ~ Good(t)}
<1>1. \A t \in SUBSET S : /\ sum[t] = IF t = {} THEN 0 ELSE f[Some(t)] + sum[Rest(t)]
                          /\ t # {} => Some(t) \in t
  BY DEF Some, Adds
<1>2. ASSUME NEW u \in SUBSET S, \A v \in SUBSET u : v = u \/ Good(v)
      PROVE  Good(u)
  <2>1. CASE u = {}
    BY <1>1, <2>1
  <2>2. CASE u # {}
    <3>1. PICK y \in u : sum[u] = f[y] + sum[u \ {y}]
      BY <1>1, <2>2 DEF Rest
    <3>2. sum[u] \in Nat
      BY <1>2, <3>1
    <3>3. ASSUME NEW x \in u, x # y PROVE sum[u] = f[x] + sum[u \ {x}]
      <4>1. x \in u \ {y} /\ y \in u \ {x} /\ (u \ {y}) \ {x} = (u \ {x}) \ {y}
        BY <3>3
      <4>2. PICK v : v = (u \ {y}) \ {x}
        OBVIOUS
      <4>3. sum[u \ {y}] = f[x] + sum[v] /\ sum[u \ {x}] = f[y] + sum[v]
            /\ sum[u \ {y}] \in Nat /\ sum[u \ {x}] \in Nat
        BY <1>2, <4>1, <4>2
      <4>4. sum[v] \in Nat
        BY <1>2, <4>2
      <4>5. QED
        BY <3>1, <4>3, <4>4
    <3>4. QED
      BY <3>1, <3>2, <3>3
  <2>3. QED
    BY <2>1, <2>2
<1>3. Bad = {}
  <2>1. SUFFICES ASSUME Bad # {} PROVE FALSE
    OBVIOUS
  <2>2. PICK u \in Bad : \A v \in Bad : Cardinality(u) <= Cardinality(v)
    BY <2>1, SmallestMember
  <2>3. \A v \in SUBSET u : v = u \/ Good(v)
    BY <2>2, SubsetsSmaller
  <2>4. QED
    BY <1>2, <2>2, <2>3
<1>4. QED
  BY <1>1, <1>3

LEMMA SumAlike ==
  ASSUME NEW S, IsFiniteSet(S), NEW f, \A x \in S : f[x] \in Nat,
         NEW sum, Adds(f, SUBSET S, sum), NEW T \in SUBSET S, NEW part, Adds(f, SUBSET T, part)
  PROVE  part[T] = sum[T]
<1> DEFINE Bad == {u \in SUBSET T : part[u] # sum[u]}
<1>1. \A t \in SUBSET T : /\ sum[t] = IF t = {} THEN 0 ELSE f[Some(t)] + sum[Rest(t)]
                          /\ part[t] = IF t = {} THEN 0 ELSE f[Some(t)] + part[Rest(t)]
                          /\ t # {} => Some(t) \in t
  BY DEF Some, Adds
<1>2. SUFFICES ASSUME Bad # {} PROVE FALSE
  OBVIOUS
<1>3. IsFiniteSet(T)
  BY FS_Subset
<1>4. PICK u \in Bad : \A v \in Bad : Cardinality(u) <= Cardinality(v)
  BY <1>2, <1>3, SmallestMember
<1>5. u # {}
  BY <1>1, <1>4
<1>6. Rest(u) \in SUBSET T /\ ~ (Cardinality(u) <= Cardinality(Rest(u)))
  BY <1>1, <1>3, <1>4, <1>5, SubsetsSmaller DEF Rest
<1>7. part[Rest(u)] = sum[Rest(u)]
  BY <1>4, <1>6
<1>8. QED
  BY <1>1, <1>4, <1>5, <1>7

\* What the library's sum is.
LEMMA Sums ==
  ASSUME NEW S, IsFiniteSet(S), NEW f, \A x \in S : f[x] \in Nat
  PROVE  /\ SumFunctionOnSet(f, S) \in Nat
         /\ S = {} => SumFunctionOnSet(f, S) = 0
         /\ \A x \in S : SumFunctionOnSet(f, S) = f[x] + SumFunctionOnSet(f, S \ {x})
<1>1. PICK sum : Adds(f, SUBSET S, sum) /\ SumFunctionOnSet(f, S) = sum[S]
  BY SumExists, SumUnfolded, Zenon
<1>2. ASSUME NEW x \in S PROVE SumFunctionOnSet(f, S) = f[x] + SumFunctionOnSet(f, S \ {x})
  <2> DEFINE T == S \ {x}
  <2>1. IsFiniteSet(T) /\ T \in SUBSET S
    BY FS_RemoveElement
  <2> HIDE DEF T
  <2>2. PICK part : Adds(f, SUBSET T, part) /\ SumFunctionOnSet(f, T) = part[T]
    BY <2>1, SumExists, SumUnfolded, Zenon
  <2>3. part[T] = sum[T]
    BY <1>1, <2>1, <2>2, SumAlike
  <2>4. sum[S] = f[x] + sum[S \ {x}]
    BY <1>1, SumOf
  <2>5. QED
    BY <1>1, <2>2, <2>3, <2>4 DEF T
<1>3. sum[S] \in Nat /\ (S = {} => sum[S] = 0)
  BY <1>1, SumOf
<1>4. QED
  BY <1>1, <1>2, <1>3

-----------------------------------------------------------------------------
\* Quotients, remainders and products.
LEMMA Division ==
  ASSUME NEW n \in Nat, NEW d \in Nat \ {0}
  PROVE  /\ n \div d \in Nat /\ n % d \in 0 .. d - 1
         /\ n = (d * (n \div d)) + (n % d)
BY Z3

LEMMA Products ==
  ASSUME NEW m \in Nat, NEW n \in Nat, NEW k \in Nat, m <= n
  PROVE  m * k \in Nat /\ n * k \in Nat /\ m * k <= n * k
BY Z3

\* Two numbers are compared as their quotients by d and, if these are the same, their
\* remainders are.
LEMMA Compared ==
  ASSUME NEW d \in Nat \ {0}, NEW m \in Nat, NEW n \in Nat, NEW x \in Nat, NEW y \in Nat,
         x < d, y < d
  PROVE  ((d * m) + x < (d * n) + y) <=> (m < n \/ (m = n /\ x < y))
<1>1. CASE m < n
  <2>1. PICK k \in Nat : n = m + 1 + k
    <3>1. n - m - 1 \in Nat /\ n = m + 1 + (n - m - 1)
      BY <1>1
    <3>2. QED
      BY <3>1
  <2>2. d * n = (d * m) + d + (d * k) /\ d * k \in Nat /\ d * m \in Nat
    BY <2>1, Z3
  <2>3. \A u, v \in Nat : u + x < (u + d + v) + y
    OBVIOUS
  <2>4. (d * m) + x < ((d * m) + d + (d * k)) + y
    BY <2>2, <2>3
  <2>5. (d * m) + x < (d * n) + y
    BY <2>2, <2>4, Zenon
  <2>6. m < n \/ (m = n /\ x < y)
    BY <1>1
  <2>7. QED
    BY <2>5, <2>6
<1>2. CASE m = n
  BY <1>2, Z3
<1>3. CASE n < m
  <2>1. PICK k \in Nat : m = n + 1 + k
    <3>1. m - n - 1 \in Nat /\ m = n + 1 + (m - n - 1)
      BY <1>3
    <3>2. QED
      BY <3>1
  <2>2. d * m = (d * n) + d + (d * k) /\ d * k \in Nat /\ d * n \in Nat
    BY <2>1, Z3
  <2>3. \A u, v \in Nat : ~ ((u + d + v) + x < u + y)
    OBVIOUS
  <2>4. QED
    BY <1>3, <2>2, <2>3
<1>4. QED
  BY <1>1, <1>2, <1>3

\* There is one quotient, and one remainder.
LEMMA OneDivision ==
  ASSUME NEW d \in Nat \ {0}, NEW q \in Nat, NEW x \in Nat, x < d, NEW n, n = (d * q) + x
  PROVE  n \in Nat /\ n \div d = q /\ n % d = x
<1>1. n \in Nat
  BY Z3
<1>2. /\ n \div d \in Nat /\ n % d \in 0 .. d - 1 /\ n = (d * (n \div d)) + (n % d)
  BY <1>1, Division
<1> DEFINE p == n \div d
           y == n % d
<1>3. p \in Nat /\ y \in Nat /\ y < d /\ (d * p) + y = (d * q) + x
  BY <1>2
<1> HIDE DEF p, y
<1>4. d * p \in Nat /\ d * q \in Nat
  BY <1>3, Z3
<1>5. ~ ((d * p) + y < (d * q) + x) /\ ~ ((d * q) + x < (d * p) + y)
  BY <1>3, <1>4
<1>6. p = q /\ y = x
  BY <1>3, <1>5, Compared
<1>7. QED
  BY <1>1, <1>6 DEF p, y

-----------------------------------------------------------------------------
\* What is a multiple.
LEMMA MultipleOf ==
  ASSUME NEW d \in Nat \ {0}, NEW n \in Nat
  PROVE  n % d = 0 <=> \E k \in Nat : n = d * k
<1>1. ASSUME n % d = 0 PROVE \E k \in Nat : n = d * k
  <2>1. n \div d \in Nat /\ n = (d * (n \div d)) + 0
    BY <1>1, Division
  <2>2. PICK k \in Nat : k = n \div d
    BY <2>1
  <2>3. n = (d * k) + 0
    BY <2>1, <2>2, Zenon
  <2>4. n = d * k
    BY <2>3
  <2>5. QED
    BY <2>4
<1>2. ASSUME NEW k \in Nat, n = d * k PROVE n % d = 0
  <2>1. d * k \in Nat /\ 0 < d
    BY <1>2
  <2>2. n = (d * k) + 0
    BY <1>2, <2>1
  <2>3. QED
    BY <2>1, <2>2, OneDivision
<1>3. QED
  BY <1>1, <1>2

\* A multiple more leaves the same rest.
LEMMA MultiplesAdd ==
  ASSUME NEW d \in Nat \ {0}, NEW m \in Nat, NEW n \in Nat, m % d = 0
  PROVE  (m + n) % d = n % d
<1>1. PICK k \in Nat : m = d * k
  BY MultipleOf
<1>2. n \div d \in Nat /\ n % d \in 0 .. d - 1 /\ n = (d * (n \div d)) + (n % d)
  BY Division
<1> DEFINE q == n \div d
           x == n % d
<1>3. q \in Nat /\ x \in Nat /\ x < d /\ n = (d * q) + x
  BY <1>2
<1> HIDE DEF q, x
<1>4. m + n = (d * (k + q)) + x
  BY <1>1, <1>3, Z3
<1>5. k + q \in Nat
  BY <1>1, <1>3
<1>6. (m + n) % d = x
  <2>1. PICK s : s = m + n
    OBVIOUS
  <2>2. PICK p \in Nat : p = k + q
    BY <1>5
  <2>3. s = (d * p) + x
    BY <1>4, <2>1, <2>2, Zenon
  <2>4. s % d = x
    BY <1>3, <2>3, OneDivision
  <2>5. QED
    BY <2>1, <2>4, Zenon
<1>7. QED
  BY <1>6 DEF x

\* As often as one likes, a multiple is one.
LEMMA MultiplesTimes ==
  ASSUME NEW d \in Nat \ {0}, NEW m \in Nat, NEW k \in Nat, m % d = 0
  PROVE  m * k \in Nat /\ (m * k) % d = 0
<1>1. PICK q \in Nat : m = d * q
  BY MultipleOf
<1>2. m * k = d * (q * k) /\ q * k \in Nat /\ m * k \in Nat
  BY <1>1, Z3
<1>3. QED
  BY <1>2, MultipleOf

\* Multiples of a multiple.
LEMMA MultiplesThrough ==
  ASSUME NEW a \in Nat \ {0}, NEW b \in Nat \ {0}, NEW n \in Nat, b % a = 0, n % b = 0
  PROVE  n % a = 0
<1>1. PICK q \in Nat : n = b * q
  BY MultipleOf
<1>2. (b * q) % a = 0
  BY MultiplesTimes
<1>3. QED
  BY <1>1, <1>2

\* A product divided by one of its factors.
LEMMA Cancelled ==
  ASSUME NEW d \in Nat \ {0}, NEW k \in Nat
  PROVE  (d * k) \div d = k
<1>1. d * k \in Nat /\ d * k = (d * k) + 0 /\ 0 < d
  OBVIOUS
<1>2. QED
  BY <1>1, OneDivision

\* What divides a positive number is not greater.
LEMMA DivisorSmall ==
  ASSUME NEW d \in Nat \ {0}, NEW n \in Nat \ {0}, n % d = 0
  PROVE  d <= n
<1>1. PICK k \in Nat : n = d * k
  BY MultipleOf
<1>2. k # 0
  BY <1>1
<1>3. QED
  BY <1>1, <1>2, Z3

\* The quotient of a number by one of its divisors.
LEMMA DivisorQuotient ==
  ASSUME NEW v \in Nat \ {0}, NEW e \in Nat \ {0}, v % e = 0
  PROVE  /\ v \div e \in Nat \ {0} /\ v = e * (v \div e) /\ v % (v \div e) = 0
<1>1. PICK k \in Nat : v = e * k
  BY MultipleOf
<1>2. k # 0
  BY <1>1
<1>3. v \div e = k
  BY <1>1, Cancelled
<1>4. v = k * e
  BY <1>1, Z3
<1>5. v % k = 0
  BY <1>2, <1>4, MultipleOf
<1>6. QED
  BY <1>1, <1>2, <1>3, <1>5

\* Different multiples are apart.
LEMMA MultiplesApart ==
  ASSUME NEW a \in Nat \ {0}, NEW b \in Nat, NEW c \in Nat, b % a = 0, c % a = 0, b # c
  PROVE  b + a <= c \/ c + a <= b
<1>1. PICK m \in Nat, n \in Nat : b = a * m /\ c = a * n
  BY MultipleOf
<1>2. ASSUME NEW x \in Nat, NEW y \in Nat, x < y PROVE (a * x) + a <= a * y
  <2>1. x + 1 <= y
    BY <1>2
  <2>2. a * (x + 1) <= a * y /\ a * (x + 1) = (a * x) + a
    BY <2>1, Z3
  <2>3. a * x \in Nat /\ a * y \in Nat
    BY Z3
  <2>4. QED
    BY <2>2, <2>3
<1>3. m < n \/ n < m
  BY <1>1
<1>4. QED
  BY <1>1, <1>2, <1>3

=============================================================================
