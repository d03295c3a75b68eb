------------------------------ MODULE Induction -------------------------------
(***************************************************************************)
(* Induction on the natural numbers in the form the proofs of this project *)
(* use it: over a set of numbers, for a function defined by iteration, and *)
(* for lists of numbers that descend; and which sets it shows to be finite.*)
(* No lemma here takes an operator as a parameter.                         *)
(***************************************************************************)
EXTENDS Naturals, FiniteSetTheorems, WellFoundedInduction, TLAPS

\* A set of numbers that has an element has a least one.
LEMMA LeastNumber ==
  ASSUME NEW T, T \subseteq Nat, T # {}
  PROVE  \E x \in T : \A y \in T : x <= y
<1> DEFINE R == {p \in Nat \X Nat : p[1] < p[2]}
<1>1. IsWellFoundedOn(R, Nat)
  BY NatLessThanWellFounded DEF OpToRel
<1> HIDE DEF R
<1>2. PICK x \in T : \A y \in T : ~ (<<y, x>> \in R)
  BY <1>1, WFMin
<1>3. \A y \in T : ~ (y < x)
  BY <1>2 DEF R
<1>4. \A y \in T : x <= y
  BY <1>3
<1> QED BY <1>4

\* A set that holds zero and the successors of its members holds every number.
LEMMA EveryNumber ==
  ASSUME NEW T, 0 \in T, \A n \in Nat : n \in T => n + 1 \in T
  PROVE  \A n \in Nat : n \in T
<1> SUFFICES ASSUME Nat \ T # {} PROVE FALSE
  OBVIOUS
<1>1. PICK x \in Nat \ T : \A y \in Nat \ T : x <= y
  BY LeastNumber
<1>2. x - 1 \in Nat
  BY <1>1
<1>3. x - 1 \in T
  BY <1>1, <1>2
<1>4. (x - 1) + 1 = x
  BY <1>1
<1> QED BY <1>2, <1>3, <1>4

\* Among things measured by numbers, one has the least measure.
LEMMA LeastMeasure ==
  ASSUME NEW S, S # {}, NEW f, \A x \in S : f[x] \in Nat
  PROVE  \E x \in S : \A y \in S : f[x] <= f[y]
<1>1. {f[x] : x \in S} \subseteq Nat /\ {f[x] : x \in S} # {}
  OBVIOUS
<1>2. PICK n \in {f[x] : x \in S} : \A m \in {f[x] : x \in S} : n <= m
  BY <1>1, LeastNumber
<1> QED BY <1>2

------------------------------------------------------------------------------
(* Definition by iteration *)

\* f starts with d, and G gives each further value from its index and the value
\* before it.
Iterates(f, D, d, G) ==
  /\ f \in [Nat -> D]
  /\ f[0] = d
  /\ \A n \in Nat : f[n + 1] = G[<<n + 1, f[n]>>]

\* A function on the natural numbers may be defined by its value at zero and
\* a rule that gives each further value from the one before it.
LEMMA IterationExists ==
  ASSUME NEW D, NEW d \in D, NEW G \in [Nat \X D -> D]
  PROVE  \E f : Iterates(f, D, d, G)
<1> DEFINE Approx(f, n) == /\ f \in [0..n -> D]
                           /\ f[0] = d
                           /\ \A k \in 0..n : k < n => f[k + 1] = G[<<k + 1, f[k]>>]
<1>1. \A n \in Nat : \E f : Approx(f, n)
  <2> DEFINE T == {n \in Nat : \E f : Approx(f, n)}
  <2>1. 0 \in T
    <3>1. Approx([k \in 0..0 |-> d], 0)
      OBVIOUS
    <3> QED BY <3>1
  <2>2. ASSUME NEW n \in Nat, n \in T PROVE n + 1 \in T
    <3>1. PICK f : Approx(f, n)
      BY <2>2
    <3> DEFINE g == [k \in 0..(n + 1) |-> IF k = n + 1 THEN G[<<n + 1, f[n]>>] ELSE f[k]]
    <3>2. Approx(g, n + 1)
      <4>1. f[n] \in D
        BY <3>1
      <4>2. G[<<n + 1, f[n]>>] \in D
        BY <4>1
      <4>3. g \in [0..(n + 1) -> D]
        BY <3>1, <4>2
      <4>4. g[0] = d
        BY <3>1
      <4>5. ASSUME NEW k \in 0..(n + 1), k < n + 1
            PROVE  g[k + 1] = G[<<k + 1, g[k]>>]
        <5>1. k \in 0..n /\ k + 1 \in 0..(n + 1) /\ k # n + 1
          BY <4>5
        <5>2. g[k] = f[k]
          BY <5>1
        <5>3. CASE k = n
          BY <5>1, <5>2, <5>3
        <5>4. CASE k < n
          <6>1. g[k + 1] = f[k + 1]
            BY <5>1, <5>4
          <6>2. f[k + 1] = G[<<k + 1, f[k]>>]
            BY <3>1, <5>1, <5>4
          <6> QED BY <5>2, <6>1, <6>2
        <5> QED BY <5>1, <5>3, <5>4
      <4> HIDE DEF g
      <4> QED BY <4>3, <4>4, <4>5
    <3> HIDE DEF g, Approx
    <3>3. \E h : Approx(h, n + 1)
      BY <3>2
    <3> QED BY <3>3
  <2> HIDE DEF T
  <2>3. \A n \in Nat : n \in T
    BY <2>1, <2>2, EveryNumber
  <2> QED BY <2>3 DEF T
<1>2. ASSUME NEW m \in Nat, NEW n \in Nat, m <= n,
             NEW f, Approx(f, m), NEW g, Approx(g, n)
      PROVE  f[m] = g[m]
  <2> DEFINE T == {k \in Nat : k <= m => f[k] = g[k]}
  <2>1. 0 \in T
    BY <1>2
  <2>2. ASSUME NEW k \in Nat, k \in T PROVE k + 1 \in T
    <3> SUFFICES ASSUME k + 1 <= m PROVE f[k + 1] = g[k + 1]
      OBVIOUS
    <3>1. k \in 0..m /\ k < m /\ k \in 0..n /\ k < n
      BY <1>2
    <3>2. f[k] = g[k]
      BY <2>2, <3>1
    <3>3. f[k + 1] = G[<<k + 1, f[k]>>] /\ g[k + 1] = G[<<k + 1, g[k]>>]
      BY <1>2, <3>1
    <3> QED BY <3>2, <3>3
  <2> HIDE DEF T
  <2>3. \A k \in Nat : k \in T
    BY <2>1, <2>2, EveryNumber
  <2> QED BY <2>3 DEF T
<1> DEFINE A == [n \in Nat |-> CHOOSE f : Approx(f, n)]
           F == [n \in Nat |-> A[n][n]]
<1>3. \A n \in Nat : Approx(A[n], n)
  BY <1>1
<1> HIDE DEF A
<1>4. \A n \in Nat : A[n][n] \in D
  BY <1>3
<1>5. F \in [Nat -> D]
  BY <1>4
<1>6. F[0] = d
  BY <1>3
<1>7. ASSUME NEW n \in Nat PROVE F[n + 1] = G[<<n + 1, F[n]>>]
  <2>1. A[n + 1][n + 1] = G[<<n + 1, A[n + 1][n]>>]
    BY <1>3
  <2>2. A[n + 1][n] = A[n][n]
    <3>1. Approx(A[n], n) /\ Approx(A[n + 1], n + 1) /\ n <= n + 1 /\ n + 1 \in Nat
      BY <1>3
    <3> HIDE DEF Approx
    <3> QED BY <1>2, <3>1
  <2> QED BY <2>1, <2>2
<1> HIDE DEF F
<1>8. Iterates(F, D, d, G)
  BY <1>5, <1>6, <1>7 DEF Iterates
<1> QED BY <1>8

\* f[k] is what a loop of n turns holds after k of them: it starts with d, and
\* turn k makes G[<<k, e>>] of e.
Loops(f, n, D, d, G) ==
  /\ f \in [0..n -> D]
  /\ f[0] = d
  /\ \A k \in 1..n : f[k] = G[<<k, f[k - 1]>>]

\* Such a loop has its values.
LEMMA LoopExists ==
  ASSUME NEW n \in Nat, NEW D, NEW d \in D, NEW G \in [(1..n) \X D -> D]
  PROVE  \E f : Loops(f, n, D, d, G)
<1> DEFINE H == [p \in Nat \X D |-> IF p[1] \in 1..n THEN G[<<p[1], p[2]>>] ELSE p[2]]
<1>1. H \in [Nat \X D -> D]
  OBVIOUS
<1>2. PICK g : Iterates(g, D, d, H)
  <2> HIDE DEF H
  <2> QED BY <1>1, IterationExists
<1> DEFINE f == [k \in 0..n |-> g[k]]
<1>3. f \in [0..n -> D] /\ f[0] = d
  BY <1>2 DEF Iterates
<1>4. ASSUME NEW k \in 1..n PROVE f[k] = G[<<k, f[k - 1]>>]
  <2>1. k - 1 \in Nat /\ k - 1 \in 0..n /\ (k - 1) + 1 = k
    OBVIOUS
  <2>2. g[k - 1] \in D /\ g[(k - 1) + 1] = H[<<(k - 1) + 1, g[k - 1]>>]
    BY <1>2, <2>1 DEF Iterates
  <2>3. <<k, g[k - 1]>> \in Nat \X D
    BY <2>1, <2>2
  <2>4. H[<<k, g[k - 1]>>] = G[<<k, g[k - 1]>>]
    BY <2>3
  <2> QED BY <2>1, <2>2, <2>4
<1> HIDE DEF f
<1>5. Loops(f, n, D, d, G)
  BY <1>3, <1>4 DEF Loops
<1> QED BY <1>5

------------------------------------------------------------------------------
(* Finite sets *)

\* What a function makes of the members of a finite set is finite.
LEMMA FiniteImage ==
  ASSUME NEW S, IsFiniteSet(S), NEW f
  PROVE  IsFiniteSet({f[x] : x \in S})
<1> DEFINE T == {f[x] : x \in S}
           g == [x \in S |-> f[x]]
<1>1. g \in Surjection(S, T)
  BY DEF Surjection
<1> HIDE DEF g, T
<1>2. IsFiniteSet(T)
  BY <1>1, FS_Surjection
<1> QED BY <1>2 DEF T

\* Finitely many finite sets have finitely many members.
LEMMA FiniteUnion ==
  ASSUME NEW S, IsFiniteSet(S), NEW f, \A x \in S : IsFiniteSet(f[x])
  PROVE  IsFiniteSet(UNION {f[x] : x \in S})
<1>1. IsFiniteSet({f[x] : x \in S})
  BY FiniteImage
<1>2. \A T \in {f[x] : x \in S} : IsFiniteSet(T)
  OBVIOUS
<1> QED BY <1>1, <1>2, FS_UNION

\* Of the lists of bounded length over a finite set there are finitely many.
ShortLists(S, n) == UNION {[1..k -> S] : k \in 0..n}

LEMMA FiniteLists ==
  ASSUME NEW S, IsFiniteSet(S), NEW n \in Nat
  PROVE  IsFiniteSet(ShortLists(S, n))
<1> DEFINE T == {k \in Nat : IsFiniteSet([1..k -> S])}
<1>1. 0 \in T
  <2>1. 1..0 = {}
    OBVIOUS
  <2>2. [1..0 -> S] \subseteq {[k \in {} |-> k]}
    BY <2>1
  <2>3. IsFiniteSet({[k \in {} |-> k]})
    BY FS_Singleton
  <2>4. IsFiniteSet([1..0 -> S])
    BY <2>2, <2>3, FS_Subset
  <2> QED BY <2>4
<1>2. ASSUME NEW k \in Nat, k \in T PROVE k + 1 \in T
  <2> DEFINE F == [1..k -> S]
             G == [1..(k + 1) -> S]
             g == [x \in F \X S |-> [i \in 1..(k + 1) |-> IF i = k + 1 THEN x[2] ELSE x[1][i]]]
  <2>1. IsFiniteSet(F \X S)
    <3>1. IsFiniteSet(F)
      BY <1>2
    <3> HIDE DEF F
    <3> QED BY <3>1, FS_Product
  <2>2. ASSUME NEW c \in G PROVE \E x \in F \X S : c = g[x]
    <3> DEFINE b == [i \in 1..k |-> c[i]]
    <3>1. /\ k + 1 \in 1..(k + 1)
          /\ \A i \in 1..k : i \in 1..(k + 1)
          /\ \A i \in 1..(k + 1) : i # k + 1 => i \in 1..k
      OBVIOUS
    <3>2. b \in F /\ c[k + 1] \in S
      BY <3>1
    <3>3. <<b, c[k + 1]>> \in F \X S
      BY <3>2
    <3>4. \A i \in 1..(k + 1) : c[i] = IF i = k + 1 THEN c[k + 1] ELSE b[i]
      BY <3>1
    <3>5. c = [i \in 1..(k + 1) |-> c[i]]
      OBVIOUS
    <3> HIDE DEF b
    <3>6. c = [i \in 1..(k + 1) |-> IF i = k + 1 THEN c[k + 1] ELSE b[i]]
      BY <3>4, <3>5
    <3>7. g[<<b, c[k + 1]>>] = [i \in 1..(k + 1) |-> IF i = k + 1 THEN c[k + 1] ELSE b[i]]
      BY <3>3
    <3> QED BY <3>3, <3>6, <3>7
  <2> HIDE DEF F, G, g
  <2>3. IsFiniteSet({g[x] : x \in F \X S})
    BY <2>1, FiniteImage
  <2>4. G \subseteq {g[x] : x \in F \X S}
    BY <2>2
  <2>5. IsFiniteSet(G)
    BY <2>3, <2>4, FS_Subset
  <2> QED BY <2>5 DEF G
<1> HIDE DEF T
<1>3. \A k \in Nat : k \in T
  BY <1>1, <1>2, EveryNumber
<1> DEFINE f == [k \in 0..n |-> [1..k -> S]]
<1>4. \A k \in 0..n : IsFiniteSet(f[k])
  BY <1>3 DEF T
<1>5. IsFiniteSet(0..n)
  BY FS_Interval
<1> HIDE DEF f
<1>6. IsFiniteSet(UNION {f[k] : k \in 0..n})
  BY <1>4, <1>5, FiniteUnion
<1>7. {f[k] : k \in 0..n} = {[1..k -> S] : k \in 0..n}
  BY DEF f
<1> QED BY <1>6, <1>7 DEF ShortLists

------------------------------------------------------------------------------
(* Descent *)

\* A list of numbers is lower than another if it is less where they first differ.
Lower(u, v) == \E k \in DOMAIN v : u[k] < v[k] /\ \A j \in 1..(k - 1) : u[j] = v[j]

\* Lists of one length cannot become lower for ever: the first number has a least
\* value, from which on the others descend.
LEMMA DescentEnds ==
  ASSUME NEW n \in Nat, NEW f \in [Nat -> [1..n -> Nat]]
  PROVE  ~ \A i \in Nat : Lower(f[i + 1], f[i])
<1> DEFINE Ends(m) == \A g \in [Nat -> [1..m -> Nat]] : ~ \A i \in Nat : Lower(g[i + 1], g[i])
           T == {m \in Nat : Ends(m)}
<1>1. 0 \in T
  <2>1. ASSUME NEW g \in [Nat -> [1..0 -> Nat]], \A i \in Nat : Lower(g[i + 1], g[i]) PROVE FALSE
    <3>1. g[0] \in [1..0 -> Nat] /\ Lower(g[0 + 1], g[0])
      BY <2>1
    <3>2. DOMAIN g[0] = {}
      BY <3>1
    <3> QED BY <3>1, <3>2 DEF Lower
  <2> QED BY <2>1
<1>2. ASSUME NEW m \in Nat, m \in T PROVE m + 1 \in T
  <2> SUFFICES ASSUME NEW g \in [Nat -> [1..(m + 1) -> Nat]],
                      \A i \in Nat : Lower(g[i + 1], g[i])
               PROVE  FALSE
    <3>1. m + 1 \in Nat
      OBVIOUS
    <3>2. Ends(m + 1)
      OBVIOUS
    <3> HIDE DEF Ends
    <3> QED BY <3>1, <3>2
  <2>1. \A i \in Nat : /\ i + 1 \in Nat /\ DOMAIN g[i] = 1..(m + 1)
                       /\ \A k \in 1..(m + 1) : g[i][k] \in Nat
    <3> SUFFICES ASSUME NEW i \in Nat
                 PROVE  /\ i + 1 \in Nat /\ DOMAIN g[i] = 1..(m + 1)
                        /\ \A k \in 1..(m + 1) : g[i][k] \in Nat
      OBVIOUS
    <3>1. g[i] \in [1..(m + 1) -> Nat]
      OBVIOUS
    <3>2. DOMAIN g[i] = 1..(m + 1)
      BY <3>1
    <3>3. \A k \in 1..(m + 1) : g[i][k] \in Nat
      BY <3>1
    <3>4. i + 1 \in Nat
      OBVIOUS
    <3> QED BY <3>2, <3>3, <3>4
  <2>2. 1 \in 1..(m + 1) /\ \A i \in Nat : g[i][1] \in Nat
    BY <2>1
  <2>3. \A i \in Nat : g[i + 1][1] <= g[i][1]
    <3> SUFFICES ASSUME NEW i \in Nat PROVE g[i + 1][1] <= g[i][1]
      OBVIOUS
    <3>1. PICK k \in 1..(m + 1) : /\ g[i + 1][k] < g[i][k]
                                  /\ \A j \in 1..(k - 1) : g[i + 1][j] = g[i][j]
      BY <2>1 DEF Lower
    <3>2. k = 1 \/ 1 \in 1..(k - 1)
      BY <3>1
    <3> DEFINE u == g[i + 1][1]
               v == g[i][1]
    <3>3. u \in Nat /\ v \in Nat
      BY <2>1, <2>2
    <3>4. u < v \/ u = v
      BY <3>1, <3>2
    <3> HIDE DEF u, v
    <3>5. u <= v
      BY <3>3, <3>4
    <3> QED BY <3>5 DEF u, v
  <2> DEFINE h == [i \in Nat |-> g[i][1]]
  <2>4. PICK b \in Nat : \A i \in Nat : h[b] <= h[i]
    <3>1. \A i \in Nat : h[i] \in Nat
      BY <2>2
    <3> HIDE DEF h
    <3> QED BY <3>1, LeastMeasure
  <2> DEFINE Same == {i \in Nat : g[b + i][1] = g[b][1]}
  <2>5. \A i \in Nat : i \in Same
    <3>1. 0 \in Same
      OBVIOUS
    <3>2. ASSUME NEW i \in Nat, i \in Same PROVE i + 1 \in Same
      <4>1. b + i \in Nat /\ b + (i + 1) = (b + i) + 1 /\ b + (i + 1) \in Nat
        OBVIOUS
      <4> DEFINE u == g[b + (i + 1)][1]
                 v == g[b][1]
      <4>2. u <= v /\ v <= u
        BY <2>3, <2>4, <3>2, <4>1
      <4>3. u \in Nat /\ v \in Nat
        BY <2>2, <4>1
      <4> HIDE DEF u, v
      <4>4. u = v
        BY <4>2, <4>3
      <4> QED BY <4>4 DEF u, v
    <3> HIDE DEF Same
    <3> QED BY <3>1, <3>2, EveryNumber
  <2> DEFINE r == [i \in Nat |-> [k \in 1..m |-> g[b + i][k + 1]]]
  <2>6. r \in [Nat -> [1..m -> Nat]]
    <3>1. \A i \in Nat, k \in 1..m : b + i \in Nat /\ k + 1 \in 1..(m + 1)
      OBVIOUS
    <3>2. \A i \in Nat, k \in 1..m : g[b + i][k + 1] \in Nat
      BY <2>1, <3>1
    <3> QED BY <3>2
  <2>7. ASSUME NEW i \in Nat PROVE Lower(r[i + 1], r[i])
    <3>1. b + i \in Nat /\ b + (i + 1) = (b + i) + 1 /\ i + 1 \in Nat
      OBVIOUS
    <3>2. PICK k \in 1..(m + 1) : /\ g[(b + i) + 1][k] < g[b + i][k]
                                  /\ \A j \in 1..(k - 1) : g[(b + i) + 1][j] = g[b + i][j]
      BY <2>1, <3>1 DEF Lower
    <3> DEFINE u == g[(b + i) + 1][1]
               v == g[b + i][1]
    <3>3. u = v /\ v \in Nat
      <4>1. v \in Nat
        BY <2>2, <3>1
      <4>2. i \in Same /\ i + 1 \in Same
        BY <2>5, <3>1
      <4>3. g[b + i][1] = g[b][1] /\ g[b + (i + 1)][1] = g[b][1]
        BY <4>2
      <4> QED BY <3>1, <4>1, <4>3
    <3>4. k # 1
      <4>1. k = 1 => u < v
        BY <3>2
      <4> HIDE DEF u, v
      <4> QED BY <3>3, <4>1
    <3>5. k - 1 \in 1..m /\ (k - 1) + 1 = k
      BY <3>4
    <3>6. \A j \in 1..((k - 1) - 1) : j + 1 \in 1..(k - 1) /\ j \in 1..m
      BY <3>5
    <3>7. /\ \A j \in 1..m : r[i][j] = g[b + i][j + 1]
          /\ \A j \in 1..m : r[i + 1][j] = g[(b + i) + 1][j + 1]
          /\ DOMAIN r[i] = 1..m
      BY <3>1
    <3> HIDE DEF r
    <3>8. r[i + 1][k - 1] < r[i][k - 1]
      BY <3>2, <3>5, <3>7
    <3>9. \A j \in 1..((k - 1) - 1) : r[i + 1][j] = r[i][j]
      BY <3>2, <3>6, <3>7
    <3> QED BY <3>5, <3>7, <3>8, <3>9 DEF Lower
  <2> HIDE DEF r
  <2> QED BY <1>2, <2>6, <2>7
<1> HIDE DEF Ends
<1>3. n \in T
  <2> HIDE DEF T
  <2> QED BY <1>1, <1>2, EveryNumber
<1> QED BY <1>3 DEF Ends

\* Four numbers are lower than four others when one is less and those before it are
\* the same.
LEMMA LowerFour ==
  ASSUME NEW a1, NEW a2, NEW a3, NEW a4, NEW b1, NEW b2, NEW b3, NEW b4,
         \/ a1 < b1
         \/ a1 = b1 /\ a2 < b2
         \/ a1 = b1 /\ a2 = b2 /\ a3 < b3
         \/ a1 = b1 /\ a2 = b2 /\ a3 = b3 /\ a4 < b4
  PROVE  Lower(<<a1, a2, a3, a4>>, <<b1, b2, b3, b4>>)
<1> DEFINE a == <<a1, a2, a3, a4>>
           b == <<b1, b2, b3, b4>>
<1>1. /\ a[1] = a1 /\ a[2] = a2 /\ a[3] = a3 /\ a[4] = a4
      /\ b[1] = b1 /\ b[2] = b2 /\ b[3] = b3 /\ b[4] = b4 /\ DOMAIN b = 1..4
  OBVIOUS
<1> HIDE DEF a, b
<1>2. CASE a1 < b1
  <2>1. a[1] < b[1] /\ \A j \in 1..(1 - 1) : a[j] = b[j]
    BY <1>1, <1>2
  <2> QED BY <1>1, <2>1 DEF Lower, a, b
<1>3. CASE a1 = b1 /\ a2 < b2
  <2>1. \A j \in 1..(2 - 1) : j = 1
    OBVIOUS
  <2>2. a[2] < b[2] /\ \A j \in 1..(2 - 1) : a[j] = b[j]
    BY <1>1, <1>3, <2>1
  <2> QED BY <1>1, <2>2 DEF Lower, a, b
<1>4. CASE a1 = b1 /\ a2 = b2 /\ a3 < b3
  <2>1. \A j \in 1..(3 - 1) : j = 1 \/ j = 2
    OBVIOUS
  <2>2. a[3] < b[3] /\ \A j \in 1..(3 - 1) : a[j] = b[j]
    BY <1>1, <1>4, <2>1
  <2> QED BY <1>1, <2>2 DEF Lower, a, b
<1>5. CASE a1 = b1 /\ a2 = b2 /\ a3 = b3 /\ a4 < b4
  <2>1. \A j \in 1..(4 - 1) : j = 1 \/ j = 2 \/ j = 3
    OBVIOUS
  <2>2. a[4] < b[4] /\ \A j \in 1..(4 - 1) : a[j] = b[j]
    BY <1>1, <1>5, <2>1
  <2> QED BY <1>1, <2>2 DEF Lower, a, b
<1> QED BY <1>2, <1>3, <1>4, <1>5
==============================================================================
