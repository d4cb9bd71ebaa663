--------------------------- MODULE Strategies_proofs ---------------------------
(***************************************************************************)
(* Theorems about trees of strategies: the resolution of every tree of     *)
(* delays, the delays http_retry_policy asks for, what every chain of      *)
(* builder calls means, and what the analyses, the warnings and the        *)
(* simulation of a policy say of its executions.  Trees have any size and  *)
(* any depth, so the proofs rest on one lemma about definitions by         *)
(* recursion, Recursion: one that looks at elements of smaller rank only   *)
(* has a solution.                                                         *)
(***************************************************************************)
EXTENDS HttpRetry, PolicyWarnings, SequenceTheorems, NaturalsInduction, WellFoundedInduction,
        FiniteSetTheorems, TLAPS

-----------------------------------------------------------------------------
\* A set of naturals that is not empty has a least element.
LEMMA LeastNatural ==
  ASSUME NEW N \in SUBSET Nat, N # {}
  PROVE  \E m \in N : \A n \in N : m <= n
<1>1. PICK m \in N : \A n \in N : ~(<<n, m>> \in OpToRel(<, Nat))
  BY NatLessThanWellFounded, WFMin
<1>2. \A n \in N : ~(n < m)
  BY <1>1 DEF OpToRel
<1> QED BY <1>2

\* A set of ranked elements has one that no other is below.
LEMMA LeastRank ==
  ASSUME NEW S, NEW rank \in [S -> Nat], NEW T \in SUBSET S, T # {}
  PROVE  \E x \in T : \A y \in T : ~(rank[y] < rank[x])
<1> DEFINE N == {rank[x] : x \in T}
<1>1. N \in SUBSET Nat /\ N # {}
  OBVIOUS
<1>2. PICK m \in N : \A n \in N : m <= n
  <2> HIDE DEF N
  <2> QED BY <1>1, LeastNatural
<1>3. PICK x \in T : m = rank[x]
  OBVIOUS
<1>4. \A y \in T : rank[x] <= rank[y] /\ rank[x] \in Nat /\ rank[y] \in Nat
  BY <1>2, <1>3
<1> QED BY <1>4

\* What step makes of x depends on a function below x only.
LooksBelow(step, S, rank, V) ==
  /\ V # {} /\ rank \in [S -> Nat] /\ step \in [S \X [S -> V] -> V]
  /\ \A x \in S : \A g, h \in [S -> V] :
       (\A y \in S : rank[y] < rank[x] => g[y] = h[y]) => step[<<x, g>>] = step[<<x, h>>]
Solutions(S, V, step) == {f \in [S -> V] : \A x \in S : f[x] = step[<<x, f>>]}

\* A recursive definition that looks at smaller elements only has a solution.
LEMMA Recursion ==
  ASSUME NEW S, NEW rank, NEW V, NEW step, LooksBelow(step, S, rank, V)
  PROVE  Solutions(S, V, step) # {}
<1>a. V # {} /\ rank \in [S -> Nat] /\ step \in [S \X [S -> V] -> V]
  BY DEF LooksBelow
<1>b. \A x \in S : \A g, h \in [S -> V] :
        (\A y \in S : rank[y] < rank[x] => g[y] = h[y]) => step[<<x, g>>] = step[<<x, h>>]
  BY DEF LooksBelow
<1> USE <1>a
<1> DEFINE Solves(f, n) == \A x \in S : rank[x] < n => f[x] = step[<<x, f>>]
           Unsolved == {n \in Nat : ~\E f \in [S -> V] : Solves(f, n)}
<1>1. 0 \notin Unsolved
  <2>1. PICK v \in V : TRUE
    OBVIOUS
  <2>2. [x \in S |-> v] \in [S -> V] /\ \A x \in S : ~(rank[x] < 0)
    OBVIOUS
  <2> QED BY <2>2
<1>2. ASSUME NEW n \in Nat, n \notin Unsolved PROVE n + 1 \notin Unsolved
  <2>1. PICK f \in [S -> V] : Solves(f, n)
    BY <1>2
  <2> DEFINE g == [x \in S |-> step[<<x, f>>]]
  <2>2. g \in [S -> V]
    OBVIOUS
  <2>3. ASSUME NEW x \in S, rank[x] < n + 1 PROVE g[x] = step[<<x, g>>]
    <3>1. \A y \in S : rank[y] < rank[x] => rank[y] < n
      BY <2>3
    <3>2. \A y \in S : rank[y] < rank[x] => f[y] = g[y]
      BY <2>1, <3>1
    <3>3. step[<<x, f>>] = step[<<x, g>>]
      <4> HIDE DEF g
      <4> QED BY <1>b, <2>2, <3>2
    <3> QED BY <3>3
  <2>4. \E h \in [S -> V] : Solves(h, n + 1)
    <3> HIDE DEF g
    <3> QED BY <2>2, <2>3
  <2> QED BY <2>4
<1>3. Unsolved = {}
  <2>1. SUFFICES ASSUME Unsolved # {} PROVE FALSE
    OBVIOUS
  <2>2. PICK m \in Unsolved : \A n \in Unsolved : m <= n
    <3> HIDE DEF Solves
    <3> QED BY <2>1, LeastNatural
  <2>3. m \in Nat /\ m # 0
    BY <1>1
  <2>4. m - 1 \in Nat /\ ~(m <= m - 1) /\ (m - 1) + 1 = m
    BY <2>3
  <2> HIDE DEF Unsolved
  <2>5. m - 1 \notin Unsolved
    BY <2>2, <2>4
  <2> QED BY <1>2, <2>2, <2>4, <2>5
<1>4. ASSUME NEW n \in Nat, NEW f \in [S -> V], NEW g \in [S -> V], Solves(f, n), Solves(g, n),
             NEW z \in S, rank[z] < n
      PROVE  f[z] = g[z]
  <2> DEFINE T == {x \in S : rank[x] < n /\ f[x] # g[x]}
  <2>1. SUFFICES ASSUME T # {} PROVE FALSE
    BY <1>4
  <2>2. PICK x \in T : \A y \in T : ~(rank[y] < rank[x])
    <3>1. T \in SUBSET S
      OBVIOUS
    <3> HIDE DEF T
    <3> QED BY <2>1, <3>1, LeastRank
  <2>3. \A y \in S : rank[y] < rank[x] => rank[y] < n
    OBVIOUS
  <2>4. \A y \in S : rank[y] < rank[x] => f[y] = g[y]
    BY <2>2, <2>3
  <2>5. step[<<x, f>>] = step[<<x, g>>]
    BY <1>b, <2>4
  <2> QED BY <1>4, <2>5
<1> DEFINE upTo(x) == CHOOSE f \in [S -> V] : Solves(f, rank[x] + 1)
           whole == [x \in S |-> upTo(x)[x]]
<1>5. \A x \in S : upTo(x) \in [S -> V] /\ Solves(upTo(x), rank[x] + 1)
  <2>1. ASSUME NEW x \in S PROVE \E f \in [S -> V] : Solves(f, rank[x] + 1)
    <3>1. rank[x] + 1 \in Nat
      OBVIOUS
    <3> HIDE DEF Solves
    <3> QED BY <1>3, <3>1
  <2> HIDE DEF Solves
  <2> QED BY <2>1, Zenon
<1>6. whole \in [S -> V]
  BY <1>5
<1>7. ASSUME NEW x \in S PROVE whole[x] = step[<<x, whole>>]
  <2>1. ASSUME NEW y \in S, rank[y] < rank[x] PROVE whole[y] = upTo(x)[y]
    <3>1. rank[y] + 1 \in Nat /\ rank[y] < rank[y] + 1
      OBVIOUS
    <3>2. Solves(upTo(x), rank[y] + 1)
      <4>1. \A z \in S : rank[z] < rank[y] + 1 => rank[z] < rank[x] + 1
        BY <2>1
      <4>2. Solves(upTo(x), rank[x] + 1)
        BY <1>5
      <4> HIDE DEF upTo
      <4> QED BY <4>1, <4>2
    <3>3. whole[y] = upTo(y)[y]
      OBVIOUS
    <3> HIDE DEF Solves, upTo, whole
    <3> QED BY <1>4, <1>5, <3>1, <3>2, <3>3
  <2>2. whole[x] = upTo(x)[x] /\ upTo(x)[x] = step[<<x, upTo(x)>>]
    <3>1. rank[x] < rank[x] + 1
      OBVIOUS
    <3> QED BY <1>5, <3>1
  <2>3. step[<<x, whole>>] = step[<<x, upTo(x)>>]
    <3> HIDE DEF Solves, upTo, whole
    <3> QED BY <1>b, <1>5, <1>6, <2>1
  <2> QED BY <2>2, <2>3
<1> QED BY <1>6, <1>7 DEF Solutions

\* f agrees with g at x if it agrees with g below x.
Follows(f, g, S, rank) ==
  /\ rank \in [S -> Nat] /\ f = [x \in S |-> f[x]] /\ g = [x \in S |-> g[x]]
  /\ \A x \in S : (\A y \in S : rank[y] < rank[x] => f[y] = g[y]) => f[x] = g[x]

\* ... and only one.
LEMMA OneSolution ==
  ASSUME NEW S, NEW rank, NEW f, NEW g, Follows(f, g, S, rank)
  PROVE  f = g
<1> USE DEF Follows
<1> DEFINE T == {x \in S : f[x] # g[x]}
<1>1. CASE T = {}
  <2>1. \A x \in S : f[x] = g[x]
    BY <1>1
  <2> QED BY <2>1
<1>2. CASE T # {}
  <2>1. PICK x \in T : \A y \in T : ~(rank[y] < rank[x])
    <3>1. T \in SUBSET S
      OBVIOUS
    <3> HIDE DEF T
    <3> QED BY <1>2, <3>1, LeastRank
  <2> QED BY <2>1
<1> QED BY <1>1, <1>2

\* What holds at 0, and after each step, holds up to n.
LEMMA Throughout ==
  ASSUME NEW n \in Nat, NEW R, NEW f, f[0] \in R, \A i \in 1..n : f[i - 1] \in R => f[i] \in R
  PROVE  \A i \in 0..n : f[i] \in R
<1> DEFINE Bad == {i \in 0..n : f[i] \notin R}
<1> SUFFICES ASSUME Bad # {} PROVE FALSE
  OBVIOUS
<1>1. PICK m \in Bad : \A k \in Bad : m <= k
  <2>1. Bad \in SUBSET Nat
    OBVIOUS
  <2> HIDE DEF Bad
  <2> QED BY <2>1, LeastNatural
<1>2. m \in 1..n
  OBVIOUS
<1>3. m - 1 \in 0..n /\ ~(m <= m - 1)
  BY <1>2
<1>4. f[m - 1] \in R
  BY <1>1, <1>3
<1> QED BY <1>2, <1>4

\* Each element is followed by what next makes of it.
Sequels(n, R, start, next) ==
  {f \in [0..n -> R] : f[0] = start /\ \A i \in 1..n : f[i] = next[<<i, f[i - 1]>>]}

\* A definition by recursion on the numbers up to n has a solution.
LEMMA Unrolling ==
  ASSUME NEW n \in Nat, NEW R, NEW start \in R, NEW next \in [(1..n) \X R -> R]
  PROVE  Sequels(n, R, start, next) # {}
<1> DEFINE S == 0..n
           rank == [i \in S |-> i]
           body(i, g) == IF i = 0 THEN start ELSE next[<<i, g[i - 1]>>]
           step == [p \in S \X [S -> R] |-> body(p[1], p[2])]
<1>1. rank \in [S -> Nat] /\ \A i \in S : i # 0 => i \in 1..n /\ i - 1 \in S /\ rank[i - 1] < rank[i]
  OBVIOUS
<1>2. ASSUME NEW i \in S, NEW g \in [S -> R] PROVE body(i, g) \in R
  <2>1. CASE i = 0
    BY <2>1
  <2>2. CASE i # 0
    <3>1. i \in 1..n /\ g[i - 1] \in R
      BY <1>1, <2>2
    <3> QED BY <2>2, <3>1
  <2> QED BY <2>1, <2>2
<1>3. step \in [S \X [S -> R] -> R] /\ \A i \in S : \A g \in [S -> R] : step[<<i, g>>] = body(i, g)
  <2> HIDE DEF body, S
  <2> QED BY <1>2
<1>4. ASSUME NEW i \in S, NEW g, NEW h, \A j \in S : rank[j] < rank[i] => g[j] = h[j]
      PROVE  body(i, g) = body(i, h)
  BY <1>1, <1>4
<1>5. LooksBelow(step, S, rank, R)
  <2> HIDE DEF body, step, rank, S
  <2> QED BY SMTT(30), <1>1, <1>3, <1>4 DEF LooksBelow
<1>6. Solutions(S, R, step) # {}
  <2> HIDE DEF step, rank, S
  <2> QED BY <1>5, Recursion
<1>7. PICK f \in [S -> R] : \A i \in S : f[i] = body(i, f)
  <2> HIDE DEF body, step, S
  <2> QED BY <1>3, <1>6 DEF Solutions
<1>8. f[0] = start
  <2>1. 0 \in S /\ body(0, f) = start
    OBVIOUS
  <2> HIDE DEF body, S
  <2> QED BY <1>7, <2>1
<1>9. ASSUME NEW i \in 1..n PROVE f[i] = next[<<i, f[i - 1]>>]
  <2>1. i \in S /\ i # 0
    OBVIOUS
  <2> QED BY <1>7, <2>1
<1> QED BY <1>8, <1>9 DEF Sequels

\* FlattenSeq puts one sequence after the other.
LEMMA Flattening ==
  ASSUME NEW X, NEW s \in Seq(Seq(X))
  PROVE  \E f \in [0..Len(s) -> Seq(X)] :
           /\ f[0] = <<>> /\ FlattenSeq(s) = f[Len(s)]
           /\ \A i \in 0..Len(s) - 1 : f[i + 1] = f[i] \o s[i + 1]
<1>1. CASE Len(s) = 0
  <2>1. s = <<>> /\ FlattenSeq(s) = s
    BY <1>1 DEF FlattenSeq
  <2>2. [i \in 0..0 |-> s] \in [0..0 -> Seq(X)]
    BY <2>1
  <2>3. 0..Len(s) - 1 = {}
    BY <1>1
  <2> DEFINE f == [i \in 0..0 |-> s]
  <2>4. f \in [0..Len(s) -> Seq(X)] /\ f[0] = <<>> /\ FlattenSeq(s) = f[Len(s)]
    BY <1>1, <2>1, <2>2
  <2> HIDE DEF f
  <2> QED BY <2>3, <2>4
<1>2. CASE Len(s) # 0
  <2> DEFINE n == Len(s)
             S == 1..n
             V == Seq(X)
             rank == [i \in S |-> i]
             body(i, g) == IF i = 1 THEN s[i] ELSE g[i - 1] \o s[i]
             step == [p \in S \X [S -> V] |-> body(p[1], p[2])]
             flatten == CHOOSE g : g = [i \in S |-> body(i, g)]
  <2>1. n \in Nat /\ n >= 1 /\ S \subseteq Nat
    BY <1>2
  <2>2. rank \in [S -> Nat]
    BY <2>1
  <2>3. V # {} /\ \A i \in S : s[i] \in V
    BY ElementOfSeq
  <2>4. ASSUME NEW i \in S, NEW g \in [S -> V] PROVE body(i, g) \in V
    <3>1. CASE i = 1
      BY <2>3, <3>1
    <3>2. CASE i # 1
      <4>1. i - 1 \in S
        BY <2>1, <3>2
      <4>2. g[i - 1] \in V /\ s[i] \in V
        BY <4>1, <2>3
      <4>3. g[i - 1] \o s[i] \in V
        BY <4>2, ConcatProperties
      <4> QED BY <3>2, <4>3
    <3> QED BY <3>1, <3>2
  <2>5. step \in [S \X [S -> V] -> V]
    <3> HIDE DEF body
    <3>1. \A p \in S \X [S -> V] : body(p[1], p[2]) \in V
      BY <2>4
    <3> QED BY <3>1
  <2>6. ASSUME NEW i \in S, NEW g, NEW h, \A j \in S : rank[j] < rank[i] => g[j] = h[j]
        PROVE  body(i, g) = body(i, h)
    <3>1. i # 1 => i - 1 \in S /\ rank[i - 1] < rank[i]
      BY <2>1
    <3> QED BY <3>1, <2>6
  <2>7. PICK g \in [S -> V] : \A i \in S : g[i] = step[<<i, g>>]
    <3>1. \A i \in S : \A g \in [S -> V] : step[<<i, g>>] = body(i, g)
      <4> HIDE DEF body
      <4> QED BY DEF step
    <3>2. \A i \in S : \A g, h \in [S -> V] :
            (\A j \in S : rank[j] < rank[i] => g[j] = h[j]) => step[<<i, g>>] = step[<<i, h>>]
      <4> HIDE DEF body, step, rank, V, S
      <4> QED BY <2>6, <3>1
    <3> HIDE DEF step, rank, V, S
    <3>3. LooksBelow(step, S, rank, V)
      BY <2>2, <2>3, <2>5, <3>2 DEF LooksBelow
    <3>4. Solutions(S, V, step) # {}
      BY <3>3, Recursion
    <3> QED BY <3>4 DEF Solutions
  <2>8. g = [i \in S |-> body(i, g)]
    <3>1. \A i \in S : g[i] = body(i, g)
      BY <2>7 DEF step
    <3> HIDE DEF body
    <3> QED BY <3>1
  <2>9. flatten = [i \in S |-> body(i, flatten)]
    <3> HIDE DEF body, S
    <3> QED BY <2>8, Zenon DEF flatten
  <2>10. FlattenSeq(s) = flatten[n]
    BY <1>2, Zenon DEF FlattenSeq
  <2> HIDE DEF flatten
  <2>11. flatten = g
    <3>1. flatten = [i \in S |-> flatten[i]] /\ g = [i \in S |-> g[i]]
      <4> HIDE DEF body
      <4> QED BY <2>9
    <3>2. \A i \in S : flatten[i] = body(i, flatten) /\ g[i] = body(i, g)
      <4> HIDE DEF body
      <4> QED BY <2>8, <2>9
    <3>3. \A i \in S : (\A j \in S : rank[j] < rank[i] => flatten[j] = g[j]) => flatten[i] = g[i]
      <4> HIDE DEF body, rank, S
      <4> QED BY <2>6, <3>2
    <3> HIDE DEF rank, S
    <3>4. Follows(flatten, g, S, rank)
      BY <2>2, <3>1, <3>3 DEF Follows
    <3> QED BY <3>4, OneSolution
  <2> DEFINE f == [i \in 0..n |-> IF i = 0 THEN <<>> ELSE g[i]]
  <2>13. f \in [0..n -> V]
    <3>1. \A i \in 0..n : i # 0 => i \in S /\ i \in Nat
      BY <2>1
    <3> QED BY <3>1
  <2>14. f[0] = <<>> /\ f[n] = g[n]
    BY <2>1
  <2>15. ASSUME NEW i \in 0..n - 1 PROVE f[i + 1] = f[i] \o s[i + 1]
    <3>1. i + 1 \in S /\ i + 1 # 0 /\ i + 1 \in 0..n /\ i \in 0..n /\ (i + 1) - 1 = i
      BY <2>1
    <3>2. f[i + 1] = g[i + 1] /\ g[i + 1] = body(i + 1, g)
      <4> HIDE DEF body
      <4> QED BY <2>8, <3>1
    <3>3. CASE i = 0
      <4>1. f[i] = <<>> /\ body(i + 1, g) = s[i + 1]
        BY <3>1, <3>3
      <4>2. s[i + 1] \in Seq(X)
        BY <3>1, <2>3
      <4> QED BY <3>2, <4>1, <4>2, ConcatEmptySeq
    <3>4. CASE i # 0
      <4>1. i + 1 # 1
        BY <3>4
      <4>2. body(i + 1, g) = g[(i + 1) - 1] \o s[i + 1]
        BY <4>1
      <4>3. f[i] = g[i]
        BY <3>1, <3>4
      <4> HIDE DEF body, f
      <4> QED BY <3>1, <3>2, <4>2, <4>3
    <3> QED BY <3>3, <3>4
  <2>16. FlattenSeq(s) = f[n]
    BY <2>10, <2>11, <2>14
  <2> HIDE DEF f, n, V
  <2>17. f[0] = <<>> /\ FlattenSeq(s) = f[n] /\ \A i \in 0..n - 1 : f[i + 1] = f[i] \o s[i + 1]
    BY <2>14, <2>15, <2>16
  <2> QED BY <2>13, <2>17 DEF n, V
<1> QED BY <1>1, <1>2

\* Sums over a sequence of integers go from one number to the next.
LEMMA Sums ==
  ASSUME NEW s \in Seq(Int)
  PROVE  /\ SumOfFirst(s, 0) = 0
         /\ \A n \in 0..Len(s) : SumOfFirst(s, n) \in Int
         /\ \A n \in 0..Len(s) - 1 : SumOfFirst(s, n + 1) = SumOfFirst(s, n) + s[n + 1]
<1> DEFINE n == Len(s)
           next == [p \in (1..n) \X Int |-> p[2] + s[p[1]]]
           body(i, g) == IF i = 0 THEN 0 ELSE g[i - 1] + s[i]
           sum == CHOOSE g : g = [i \in 0..n |-> body(i, g)]
<1>1. n \in Nat /\ \A i \in 1..n : s[i] \in Int
  OBVIOUS
<1>2. next \in [(1..n) \X Int -> Int] /\ \A i \in 1..n : \A d \in Int : next[<<i, d>>] = d + s[i]
  <2> HIDE DEF n
  <2> QED BY <1>1
<1>3. PICK g \in [0..n -> Int] : g[0] = 0 /\ \A i \in 1..n : g[i] = next[<<i, g[i - 1]>>]
  <2> DEFINE R == Int
  <2>1. 0 \in R /\ next \in [(1..n) \X R -> R]
    BY <1>2
  <2> HIDE DEF n, next, R
  <2>2. Sequels(n, R, 0, next) # {}
    BY <1>1, <2>1, Unrolling
  <2> QED BY <2>2 DEF Sequels, R
<1>4. \A i \in 0..n : i # 0 => i \in 1..n /\ g[i - 1] \in Int
  BY <1>1
<1>5. \A i \in 0..n : g[i] = body(i, g)
  <2> HIDE DEF n, next
  <2> QED BY <1>2, <1>3, <1>4
<1>6. g = [i \in 0..n |-> body(i, g)]
  <2> HIDE DEF body, n
  <2> QED BY <1>5
<1>7. sum = [i \in 0..n |-> body(i, sum)]
  <2> HIDE DEF body, n
  <2> QED BY <1>6, Zenon DEF sum
<1>8. \A m : SumOfFirst(s, m) = sum[m]
  BY Zenon DEF SumOfFirst
<1> HIDE DEF sum
<1>9. sum[0] = 0 /\ \A i \in 1..n : sum[i] = sum[i - 1] + s[i]
  <2>1. \A i \in 0..n : sum[i] = body(i, sum)
    <3> HIDE DEF body, n
    <3> QED BY <1>7
  <2>2. 0 \in 0..n /\ \A i \in 1..n : i \in 0..n /\ i # 0
    BY <1>1
  <2> HIDE DEF n
  <2> QED BY <2>1, <2>2
<1>10. \A i \in 0..n : sum[i] \in Int
  <2> DEFINE R == Int
  <2>1. sum[0] \in R
    BY <1>9
  <2>2. ASSUME NEW i \in 1..n, sum[i - 1] \in R PROVE sum[i] \in R
    <3>1. sum[i] = sum[i - 1] + s[i] /\ s[i] \in Int
      BY <1>1, <1>9
    <3> QED BY <2>2, <3>1
  <2>3. \A i \in 0..n : sum[i] \in R
    <3> HIDE DEF n, R
    <3> QED BY <1>1, <2>1, <2>2, Throughout
  <2> QED BY <2>3
<1>11. ASSUME NEW m \in 0..n - 1 PROVE sum[m + 1] = sum[m] + s[m + 1]
  <2>1. m + 1 \in 1..n /\ (m + 1) - 1 = m
    BY <1>1
  <2> QED BY <1>9, <2>1
<1> QED BY <1>8, <1>9, <1>10, <1>11

-----------------------------------------------------------------------------
(* The leaves of a tree of delays. *)

Leaf == {t \in Trees : ~IsAdditive(t)}

\* The parts of a sum are trees, nested less deeply.
LEMMA PartsOfTree ==
  ASSUME NEW t \in Trees, IsAdditive(t)
  PROVE  /\ t.parts \in Seq(Trees)
         /\ \A i \in 1..Len(t.parts) : t.parts[i] \in Trees /\ Nesting[t.parts[i]] < Nesting[t]
<1>1. t.parts \in Seq(Trees) /\ DOMAIN t.parts = 1..Len(t.parts)
  BY DelayAssumption, SleepAssumption
<1>2. \A i \in DOMAIN t.parts : Nesting[t.parts[i]] < Nesting[t]
  BY DelayAssumption, SleepAssumption
<1> QED BY <1>1, <1>2

\* The leaves of a tree are what its definition says.
LEMMA LeavesOfTree ==
  /\ Leaves \in [Trees -> Seq(Leaf)]
  /\ \A t \in Trees :
       Leaves[t] = IF IsAdditive(t) THEN FlattenSeq([i \in DOMAIN t.parts |-> Leaves[t.parts[i]]])
                   ELSE <<t>>
<1> DEFINE V == Seq(Leaf)
           all(t, g) == [i \in DOMAIN t.parts |-> g[t.parts[i]]]
           body(t, g) == IF IsAdditive(t) THEN FlattenSeq(all(t, g)) ELSE <<t>>
           step == [p \in Trees \X [Trees -> V] |-> body(p[1], p[2])]
<1>1. Nesting \in [Trees -> Nat]
  BY DelayAssumption, SleepAssumption
<1>2. ASSUME NEW t \in Trees, NEW g \in [Trees -> V] PROVE body(t, g) \in V
  <2>1. CASE IsAdditive(t)
    <3>1. t.parts \in Seq(Trees) /\ \A i \in 1..Len(t.parts) : t.parts[i] \in Trees
      BY <2>1, PartsOfTree
    <3>2. all(t, g) \in Seq(V)
      <4> DEFINE n == Len(t.parts)
      <4>1. n \in Nat /\ DOMAIN t.parts = 1..n
        BY <3>1
      <4>2. all(t, g) \in [1..n -> V]
        <5> HIDE DEF n, V
        <5> QED BY <3>1, <4>1 DEF n
      <4> HIDE DEF all, n, V
      <4> QED BY <4>1, <4>2
    <3>3. \E f \in [0..Len(all(t, g)) -> V] : FlattenSeq(all(t, g)) = f[Len(all(t, g))]
      <4> HIDE DEF all
      <4> QED BY <3>2, Flattening
    <3>4. Len(all(t, g)) \in 0..Len(all(t, g))
      <4> HIDE DEF all, V
      <4>1. Len(all(t, g)) \in Nat
        BY <3>2
      <4> QED BY <4>1
    <3>5. FlattenSeq(all(t, g)) \in V
      <4> HIDE DEF all, V
      <4> QED BY <3>3, <3>4
    <3> QED BY <2>1, <3>5
  <2>2. CASE ~IsAdditive(t)
    <3>1. t \in Leaf
      BY <2>2 DEF Leaf
    <3>2. <<t>> \in V
      BY <3>1
    <3> QED BY <2>2, <3>2
  <2> QED BY <2>1, <2>2
<1>3. step \in [Trees \X [Trees -> V] -> V]
  <2> HIDE DEF body, V
  <2> QED BY <1>2
<1>4. ASSUME NEW t \in Trees, NEW g, NEW h, \A u \in Trees : Nesting[u] < Nesting[t] => g[u] = h[u]
      PROVE  body(t, g) = body(t, h)
  <2>1. CASE IsAdditive(t)
    <3>1. \A i \in DOMAIN t.parts : g[t.parts[i]] = h[t.parts[i]]
      <4>1. t.parts \in Seq(Trees) /\ \A i \in 1..Len(t.parts) : t.parts[i] \in Trees /\ Nesting[t.parts[i]] < Nesting[t]
        BY <2>1, PartsOfTree
      <4> QED BY <4>1, <1>4
    <3>2. all(t, g) = all(t, h)
      BY <3>1
    <3> HIDE DEF all
    <3> QED BY <2>1, <3>2
  <2> QED BY <2>1
<1>5. PICK g \in [Trees -> V] : \A t \in Trees : g[t] = body(t, g)
  <2>1. \A t \in Trees : \A g \in [Trees -> V] : step[<<t, g>>] = body(t, g)
    <3> HIDE DEF body
    <3> QED BY DEF step
  <2>2. V # {}
    <3>1. <<>> \in V
      OBVIOUS
    <3> QED BY <3>1
  <2>3. LooksBelow(step, Trees, Nesting, V)
    <3> HIDE DEF body, step, V
    <3> QED BY <1>1, <1>3, <1>4, <2>1, <2>2 DEF LooksBelow
  <2>4. Solutions(Trees, V, step) # {}
    <3> HIDE DEF step, V
    <3> QED BY <2>3, Recursion
  <2> HIDE DEF body, step, V
  <2> QED BY <2>1, <2>4 DEF Solutions
<1>6. g = [t \in Trees |-> body(t, g)]
  <2> HIDE DEF body
  <2> QED BY <1>5
<1>7. Leaves = [t \in Trees |-> body(t, Leaves)]
  BY <1>6, Zenon DEF Leaves
<1>8. Leaves = g
  <2> HIDE DEF body
  <2>1. Leaves = [t \in Trees |-> Leaves[t]] /\ g = [t \in Trees |-> g[t]]
    BY <1>7
  <2>2. \A t \in Trees : Leaves[t] = body(t, Leaves) /\ g[t] = body(t, g)
    BY <1>5, <1>7
  <2>3. Follows(Leaves, g, Trees, Nesting)
    BY <1>1, <1>4, <2>1, <2>2 DEF Follows
  <2> QED BY <2>3, OneSolution
<1>9. \A t \in Trees : Leaves[t] = body(t, Leaves)
  <2> HIDE DEF body
  <2> QED BY <1>5, <1>8
<1>10. Leaves \in [Trees -> Seq(Leaf)]
  BY <1>8
<1> QED BY <1>9, <1>10

\* delay_needs_state answers yes for a tree with a stateful leaf or subtree.
LEMMA NeedsState ==
  \A t \in Trees :
    /\ DelayNeedsState[t] \in BOOLEAN
    /\ t.kind = "stateful" => DelayNeedsState[t]
    /\ IsAdditive(t) =>
         \A i \in DOMAIN t.parts :
           \/ t.parts[i].kind = "stateful"
           \/ IsAdditive(t.parts[i]) /\ DelayNeedsState[t.parts[i]]
           => DelayNeedsState[t]
<1> DEFINE V == BOOLEAN
           body(t, g) == \/ t.kind = "stateful"
                         \/ /\ IsAdditive(t)
                            /\ \/ \E i \in DOMAIN t.parts : t.parts[i].kind = "stateful"
                               \/ \E i \in AdditiveChildren(t) : g[t.parts[i]]
           step == [p \in Trees \X [Trees -> V] |-> body(p[1], p[2])]
<1>1. Nesting \in [Trees -> Nat]
  BY DelayAssumption, SleepAssumption
<1>2. step \in [Trees \X [Trees -> V] -> V]
  <2>1. \A t, g : body(t, g) \in BOOLEAN
    OBVIOUS
  <2> HIDE DEF body
  <2> QED BY <2>1
<1>4. ASSUME NEW t \in Trees, NEW g, NEW h, \A u \in Trees : Nesting[u] < Nesting[t] => g[u] = h[u]
      PROVE  body(t, g) = body(t, h)
  <2>1. CASE IsAdditive(t)
    <3>1. \A i \in DOMAIN t.parts : g[t.parts[i]] = h[t.parts[i]]
      <4>1. t.parts \in Seq(Trees) /\ \A i \in 1..Len(t.parts) : t.parts[i] \in Trees /\ Nesting[t.parts[i]] < Nesting[t]
        BY <2>1, PartsOfTree
      <4> QED BY <4>1, <1>4
    <3> QED BY <3>1, Zenon DEF AdditiveChildren
  <2>2. CASE ~IsAdditive(t)
    BY <2>2
  <2> QED BY <2>1, <2>2
<1>5. PICK g \in [Trees -> V] : \A t \in Trees : g[t] = body(t, g)
  <2>1. \A t \in Trees : \A g \in [Trees -> V] : step[<<t, g>>] = body(t, g)
    <3> HIDE DEF body
    <3> QED BY DEF step
  <2>2. V # {}
    OBVIOUS
  <2>3. LooksBelow(step, Trees, Nesting, V)
    <3> HIDE DEF body, step, V
    <3> QED BY <1>1, <1>2, <1>4, <2>1, <2>2 DEF LooksBelow
  <2>4. Solutions(Trees, V, step) # {}
    <3> HIDE DEF step, V
    <3> QED BY <2>3, Recursion
  <2> HIDE DEF body, step, V
  <2> QED BY <2>1, <2>4 DEF Solutions
<1>6. g = [t \in Trees |-> body(t, g)]
  <2> HIDE DEF body
  <2> QED BY <1>5
<1>7. DelayNeedsState = [t \in Trees |-> body(t, DelayNeedsState)]
  BY <1>6, Zenon DEF DelayNeedsState
<1>8. \A t \in Trees : DelayNeedsState[t] = body(t, DelayNeedsState)
  <2> HIDE DEF body
  <2> QED BY <1>7
<1>9. ASSUME NEW t \in Trees PROVE DelayNeedsState[t] \in BOOLEAN
  <2>1. body(t, DelayNeedsState) \in BOOLEAN
    OBVIOUS
  <2> HIDE DEF body
  <2> QED BY <1>8, <2>1
<1>10. ASSUME NEW t \in Trees, body(t, DelayNeedsState) PROVE DelayNeedsState[t]
  <2> HIDE DEF body
  <2> QED BY <1>8, <1>10, Zenon
<1>11. ASSUME NEW t \in Trees, IsAdditive(t), NEW i \in DOMAIN t.parts,
              t.parts[i].kind = "stateful" \/ (IsAdditive(t.parts[i]) /\ DelayNeedsState[t.parts[i]])
       PROVE  body(t, DelayNeedsState)
  BY <1>11, Zenon DEF AdditiveChildren
<1>12. ASSUME NEW t \in Trees, t.kind = "stateful" PROVE body(t, DelayNeedsState)
  BY <1>12
<1> HIDE DEF body
<1> QED BY <1>9, <1>10, <1>11, <1>12, Zenon

\* In the leaves of a sum, those of part i + 1 come after before[i] others.
LeavesBefore(t) ==
  {before \in [0..Len(t.parts) -> Nat] :
     /\ before[0] = 0 /\ before[Len(t.parts)] = Len(Leaves[t])
     /\ \A i \in 0..Len(t.parts) - 1 :
          /\ before[i + 1] = before[i] + Len(Leaves[t.parts[i + 1]])
          /\ before[i + 1] <= Len(Leaves[t])
          /\ \A m \in 1..Len(Leaves[t.parts[i + 1]]) :
               Leaves[t][before[i] + m] = Leaves[t.parts[i + 1]][m]}

\* The leaves of a sum are its parts' leaves, one part after the other.
LEMMA LeavesOfParts ==
  ASSUME NEW t \in Trees, IsAdditive(t)
  PROVE  LeavesBefore(t) # {}
<1> DEFINE n == Len(t.parts)
           L == [i \in DOMAIN t.parts |-> Leaves[t.parts[i]]]
           V == Seq(Leaf)
<1>1. /\ t.parts \in Seq(Trees) /\ n \in Nat /\ DOMAIN t.parts = 1..n
      /\ \A i \in 1..n : t.parts[i] \in Trees /\ Leaves[t.parts[i]] \in V
  BY PartsOfTree, LeavesOfTree
<1>2. L \in [1..n -> V] /\ L \in Seq(V) /\ Len(L) = n
  <2>1. L \in [1..n -> V]
    <3> HIDE DEF n, V
    <3> QED BY <1>1
  <2> HIDE DEF L, n, V
  <2> QED BY <1>1, <2>1
<1>3. Leaves[t] = FlattenSeq(L) /\ Leaves[t] \in V
  BY LeavesOfTree
<1>4. \A i \in 1..n : L[i] = Leaves[t.parts[i]]
  BY <1>1
<1> HIDE DEF L, V
<1>5. PICK f \in [0..Len(L) -> V] :
        /\ f[0] = <<>> /\ FlattenSeq(L) = f[Len(L)]
        /\ \A i \in 0..Len(L) - 1 : f[i + 1] = f[i] \o L[i + 1]
  BY ZenonT(30), <1>2, Flattening DEF V
<1> HIDE DEF n
<1>6. /\ f \in [0..n -> V] /\ f[0] = <<>> /\ Leaves[t] = f[n]
      /\ \A i \in 0..n - 1 : f[i + 1] = f[i] \o L[i + 1]
  BY <1>2, <1>3, <1>5
<1>7. ASSUME NEW i \in 0..n - 1
      PROVE  /\ i \in 0..n /\ i + 1 \in 0..n /\ i + 1 \in 1..n
             /\ f[i] \in V /\ f[i + 1] \in V /\ L[i + 1] \in V
             /\ Len(f[i + 1]) = Len(f[i]) + Len(L[i + 1])
             /\ \A m \in 1..Len(f[i]) : f[i + 1][m] = f[i][m]
             /\ \A m \in 1..Len(L[i + 1]) : f[i + 1][Len(f[i]) + m] = L[i + 1][m]
  <2>1. i \in 0..n /\ i + 1 \in 0..n /\ i + 1 \in 1..n
    BY <1>1
  <2>2. f[i] \in V /\ f[i + 1] \in V /\ L[i + 1] \in V
    BY <1>2, <1>6, <2>1
  <2>3. f[i + 1] = f[i] \o L[i + 1]
    BY <1>6
  <2> DEFINE a == f[i]
             b == L[i + 1]
             c == f[i + 1]
  <2> HIDE DEF a, b, c
  <2>4. a \in V /\ b \in V /\ c = a \o b
    BY <2>2, <2>3 DEF a, b, c
  <2>5. /\ Len(c) = Len(a) + Len(b)
        /\ \A m \in 1..Len(a) : c[m] = a[m]
        /\ \A m \in 1..Len(b) : c[Len(a) + m] = b[m]
    BY <2>4 DEF V
  <2> QED BY <2>1, <2>2, <2>5 DEF a, b, c
\* A part's leaves stay where they are when more follow.
<1> DEFINE keeps(k) == k \in 0..n =>
             /\ \A j \in 0..k : Len(f[j]) <= Len(f[k])
             /\ \A j \in 0..k : \A m \in 1..Len(f[j]) : f[k][m] = f[j][m]
<1>8. \A k \in Nat : keeps(k)
  <2>1. SUFFICES ASSUME {k \in Nat : ~keeps(k)} # {} PROVE FALSE
    OBVIOUS
  <2>2. PICK k \in Nat : ~keeps(k) /\ \A l \in Nat : ~keeps(l) => k <= l
    <3> HIDE DEF keeps
    <3> QED BY <2>1, LeastNatural
  <2>3. k \in 0..n /\ \A j \in 0..n : f[j] \in V /\ Len(f[j]) \in Nat
    <3>1. k \in 0..n
      BY <2>2
    <3>2. \A j \in 0..n : f[j] \in V
      BY <1>6
    <3>3. \A v \in V : Len(v) \in Nat
      BY DEF V
    <3> QED BY <3>1, <3>2, <3>3
  <2>4. k # 0
    <3>1. keeps(0)
      <4>1. \A j \in 0..0 : j = 0
        OBVIOUS
      <4> QED BY <1>6, <2>3, <4>1
    <3> QED BY <3>1, <2>2
  <2> DEFINE i == k - 1
  <2>5. i \in 0..n - 1 /\ i \in Nat /\ ~(k <= i) /\ k = i + 1 /\ i \in 0..n
    BY <1>1, <2>3, <2>4
  <2>6. keeps(i)
    <3> HIDE DEF keeps, i
    <3> QED BY <2>2, <2>5
  <2> HIDE DEF i
  <2>7. Len(f[k]) = Len(f[i]) + Len(L[k]) /\ Len(L[k]) \in Nat
    <3>1. Len(f[i + 1]) = Len(f[i]) + Len(L[i + 1]) /\ L[i + 1] \in V
      BY <1>7, <2>5
    <3>2. \A v \in V : Len(v) \in Nat
      BY DEF V
    <3> QED BY <2>5, <3>1, <3>2
  <2>8. \A m \in 1..Len(f[i]) : f[k][m] = f[i][m]
    BY <1>7, <2>5
  <2>9. ASSUME NEW j \in 0..k
        PROVE  Len(f[j]) <= Len(f[k]) /\ \A m \in 1..Len(f[j]) : f[k][m] = f[j][m]
    <3>1. CASE j = k
      BY <2>3, <3>1
    <3>2. CASE j # k
      <4>1. j \in 0..i /\ j \in 0..n
        BY <1>1, <2>3, <2>5, <3>2
      <4>2. Len(f[j]) <= Len(f[i])
        BY <2>5, <2>6, <4>1
      <4>3. \A m \in 1..Len(f[j]) : f[i][m] = f[j][m] /\ m \in 1..Len(f[i])
        BY <2>5, <2>6, <4>1, <4>2, <2>3
      <4>4. Len(f[j]) <= Len(f[k])
        BY <2>3, <2>5, <2>7, <4>1, <4>2
      <4> QED BY <2>8, <4>3, <4>4
    <3> QED BY <3>1, <3>2
  <2>10. keeps(k)
    BY <2>9
  <2> QED BY <2>2, <2>10
<1>9. \A j \in 0..n : Len(f[j]) <= Len(Leaves[t]) /\ \A m \in 1..Len(f[j]) : Leaves[t][m] = f[j][m]
  <2>1. keeps(n)
    <3> HIDE DEF keeps
    <3> QED BY <1>1, <1>8
  <2> QED BY <1>1, <1>6, <2>1
<1> DEFINE before == [i \in 0..n |-> Len(f[i])]
<1>10. before \in [0..n -> Nat] /\ before[0] = 0 /\ before[n] = Len(Leaves[t])
  BY <1>1, <1>6 DEF V
<1>11. ASSUME NEW i \in 0..n - 1
       PROVE  /\ before[i + 1] = before[i] + Len(Leaves[t.parts[i + 1]])
              /\ before[i + 1] <= Len(Leaves[t])
              /\ \A m \in 1..Len(Leaves[t.parts[i + 1]]) :
                   Leaves[t][before[i] + m] = Leaves[t.parts[i + 1]][m]
  <2>1. L[i + 1] = Leaves[t.parts[i + 1]]
    BY <1>4, <1>7
  <2>2. before[i + 1] = Len(f[i + 1]) /\ before[i] = Len(f[i])
    BY <1>7
  <2>3. Len(f[i]) \in Nat /\ Len(f[i + 1]) \in Nat /\ Len(L[i + 1]) \in Nat
    BY <1>7 DEF V
  <2>4. ASSUME NEW m \in 1..Len(L[i + 1]) PROVE Leaves[t][Len(f[i]) + m] = L[i + 1][m]
    <3>1. Len(f[i]) + m \in 1..Len(f[i + 1])
      BY <1>7, <2>3
    <3>2. Leaves[t][Len(f[i]) + m] = f[i + 1][Len(f[i]) + m]
      BY <1>7, <1>9, <3>1
    <3> QED BY <1>7, <3>2
  <2>5. Len(f[i + 1]) = Len(f[i]) + Len(L[i + 1]) /\ Len(f[i + 1]) <= Len(Leaves[t])
    BY <1>7, <1>9
  <2> HIDE DEF before
  <2> QED BY <2>1, <2>2, <2>4, <2>5
<1> HIDE DEF before
<1>12. before \in LeavesBefore(t)
  BY <1>10, <1>11, SMTT(30) DEF LeavesBefore, n
<1> QED BY <1>12

-----------------------------------------------------------------------------
(* The stack of the loop in resolve_delay. *)

\* Replacing the top of a stack, and taking it off.
LEMMA Tops ==
  ASSUME NEW X, NEW s \in Seq(X), s # <<>>, NEW x \in X
  PROVE  /\ Len(s) \in Nat /\ Len(s) >= 1 /\ Last(s) = s[Len(s)] /\ Last(s) \in X
         /\ Append(Front(s), x) \in Seq(X) /\ Len(Append(Front(s), x)) = Len(s)
         /\ Append(Front(s), x)[Len(s)] = x
         /\ \A j \in 1..Len(s) - 1 : Append(Front(s), x)[j] = s[j]
         /\ Front(s) \in Seq(X) /\ Len(Front(s)) = Len(s) - 1
         /\ \A j \in 1..Len(s) - 1 : Front(s)[j] = s[j]
<1> DEFINE n == Len(s)
           r == Front(s)
<1>1. n \in Nat /\ n >= 1 /\ n - 1 \in Nat
  BY EmptySeq
<1>2. r = SubSeq(s, 1, n - 1)
  BY DEF Front
<1>3. r \in Seq(X) /\ Len(r) = n - 1 /\ \A j \in 1..n - 1 : r[j] = s[j]
  <2> DEFINE k == n - 1
  <2>1. k \in Int /\ \A j \in 1..k : s[j] \in X
    BY <1>1
  <2> HIDE DEF k
  <2>2. /\ SubSeq(s, 1, k) \in Seq(X) /\ Len(SubSeq(s, 1, k)) = (IF 1 <= k THEN k - 1 + 1 ELSE 0)
        /\ \A j \in 1..k - 1 + 1 : SubSeq(s, 1, k)[j] = s[1 + j - 1]
    BY <2>1, SubSeqProperties
  <2>a. k \in Nat
    BY <1>1 DEF k
  <2>3. /\ k - 1 + 1 = k /\ (IF 1 <= k THEN k - 1 + 1 ELSE 0) = k
        /\ \A j \in 1..k : 1 + j - 1 = j
    BY <2>a
  <2> HIDE DEF r
  <2> QED BY <1>2, <2>2, <2>3 DEF k
<1>4. s[n] \in X
  BY <1>1, ElementOfSeq
<1> HIDE DEF r
<1>5. /\ Append(r, x) \in Seq(X) /\ Len(Append(r, x)) = Len(r) + 1
      /\ \A j \in 1..Len(r) : Append(r, x)[j] = r[j]
      /\ Append(r, x)[Len(r) + 1] = x
  BY <1>3, AppendProperties
<1>6. Len(r) + 1 = n
  BY <1>1, <1>3
<1> QED BY <1>1, <1>3, <1>4, <1>5, <1>6 DEF Last, r

\* A frame of the stack of resolve_delay.
FrameRecord == [delay : {t \in Trees : IsAdditive(t)}, index : Nat \ {0}, total : Nat]

\* The two changes of a frame that the loop makes.
LEMMA FrameMoves ==
  ASSUME NEW f \in FrameRecord, NEW d \in Nat
  PROVE  /\ [f EXCEPT !.index = @ + 1] \in FrameRecord
         /\ [f EXCEPT !.index = @ + 1].delay = f.delay
         /\ [f EXCEPT !.index = @ + 1].index = f.index + 1
         /\ [f EXCEPT !.index = @ + 1].total = f.total
         /\ [f EXCEPT !.total = @ + d] \in FrameRecord
         /\ [f EXCEPT !.total = @ + d].delay = f.delay
         /\ [f EXCEPT !.total = @ + d].index = f.index
         /\ [f EXCEPT !.total = @ + d].total = f.total + d
<1>1. f.index + 1 \in Nat \ {0} /\ f.total + d \in Nat
  BY DEF FrameRecord
<1> QED BY <1>1 DEF FrameRecord

\* The ceiling: Saturated of a sum sees only what is Saturated of its parts.
LEMMA Saturation ==
  ASSUME NEW x \in Nat
  PROVE  Saturated(x) = IF x <= MaxSleep THEN x ELSE MaxSleep
<1> DEFINE m == IF x <= MaxSleep THEN x ELSE MaxSleep
<1>1. MaxSleep \in Nat
  BY DelayAssumption, SleepAssumption
<1>2. m \in {x, MaxSleep} /\ \A y \in {x, MaxSleep} : m <= y
  BY <1>1
<1>3. \A y \in {x, MaxSleep} : (\A z \in {x, MaxSleep} : y <= z) => y = m
  BY <1>1
<1>4. Saturated(x) \in {x, MaxSleep} /\ \A z \in {x, MaxSleep} : Saturated(x) <= z
  <2> HIDE DEF m
  <2> QED BY <1>2, Zenon DEF Saturated, Min
<1> QED BY <1>3, <1>4

\* A cut of the parts of a sum does not show once the sum is cut.
LEMMA CutSum ==
  ASSUME NEW a \in Nat, NEW b \in Nat, NEW x \in Nat, NEW y \in Nat, NEW most \in Nat,
         (IF a <= most THEN a ELSE most) = (IF x <= most THEN x ELSE most),
         (IF b <= most THEN b ELSE most) = (IF y <= most THEN y ELSE most)
  PROVE  (IF a + b <= most THEN a + b ELSE most) = (IF x + y <= most THEN x + y ELSE most)
OBVIOUS

\* Saturated, which cuts at the ceiling, is such a cut.
LEMMA SaturatedSum ==
  ASSUME NEW a \in Nat, NEW b \in Nat, NEW x \in Nat, NEW y \in Nat,
         Saturated(a) = Saturated(x), Saturated(b) = Saturated(y)
  PROVE  Saturated(a + b) = Saturated(x + y)
<1> DEFINE cut(z) == IF z <= MaxSleep THEN z ELSE MaxSleep
<1>1. MaxSleep \in Nat /\ a + b \in Nat /\ x + y \in Nat
  BY DelayAssumption, SleepAssumption
<1>2. \A z \in Nat : Saturated(z) = cut(z)
  BY Saturation
<1>3. cut(a) = cut(x) /\ cut(b) = cut(y)
  <2> HIDE DEF cut
  <2>1. Saturated(a) = Saturated(x) /\ Saturated(b) = Saturated(y)
    OBVIOUS
  <2> QED BY <1>2, <2>1
<1>4. cut(a + b) = cut(x + y)
  BY <1>1, <1>3, CutSum
<1> HIDE DEF cut
<1> QED BY <1>1, <1>2, <1>4

-----------------------------------------------------------------------------
(* What the loop has counted, frame by frame. *)

\* The answers of the first n leaves of t, added up.
LeafSum(t, n) == SumOfFirst(RealAnswers(t), n)

\* What total stands for: the leaves after the first `from' up to `to'.
Totals(t, total, from, to) ==
  /\ total \in Nat /\ LeafSum(t, to) - LeafSum(t, from) \in Nat
  /\ Saturated(total) = Saturated(LeafSum(t, to) - LeafSum(t, from))

\* The leaves of part are those of t after the first a.
Within(t, part, a) ==
  /\ a \in Nat /\ a + Len(Leaves[part]) <= Len(Leaves[t])
  /\ \A m \in 1..Len(Leaves[part]) : Leaves[t][a + m] = Leaves[part][m]

\* How many leaves come before each part of t.
Before(t) == CHOOSE before \in LeavesBefore(t) : TRUE

\* A frame for a part whose leaves are those of t after the first a.
FrameAt(t, st, f, a) ==
  /\ Within(t, f.delay, a) /\ f.index <= Len(f.delay.parts) + 1
  /\ DelayNeedsState[f.delay] => st = "real"

\* A frame that waits for the one above it, which starts at b.
Waits(t, f, above, a, b) ==
  /\ f.index >= 2 /\ above.delay = f.delay.parts[f.index - 1]
  /\ b = a + Before(f.delay)[f.index - 2]
  /\ Totals(t, f.total, a, b)

\* The top, after n leaves.
Works(t, f, sum, a, n) ==
  /\ n = a + Before(f.delay)[f.index - 1]
  /\ sum = None => Totals(t, f.total, a, n)
  /\ sum # None =>
       /\ f.index >= 2 /\ sum \in 0..MaxSleep
       /\ Totals(t, f.total, a, a + Before(f.delay)[f.index - 2])
       /\ Totals(t, sum, a + Before(f.delay)[f.index - 2], n)

\* The frames of a resolution of t that has asked n leaves; frame j is at[j].
Stack(t, st, fs, sum, n, at) ==
  /\ fs \in Seq(FrameRecord) /\ fs # <<>> /\ n \in Nat
  /\ fs[1].delay = t /\ at[1] = 0
  /\ \A j \in 1..Len(fs) : FrameAt(t, st, fs[j], at[j])
  /\ \A j \in 1..Len(fs) - 1 : Waits(t, fs[j], fs[j + 1], at[j], at[j + 1])
  /\ Works(t, fs[Len(fs)], sum, at[Len(fs)], n)

\* Every sum has the offsets that LeavesBefore describes.
LEMMA BeforeLeaves ==
  ASSUME NEW t \in Trees, IsAdditive(t)
  PROVE  Before(t) \in LeavesBefore(t)
BY LeavesOfParts, Zenon DEF Before

\* Counting a part: its leaves lie within t where those of the sum do.
LEMMA PartWithin ==
  ASSUME NEW t \in Trees, NEW d \in Trees, IsAdditive(d), NEW a, Within(t, d, a),
         NEW i \in 1..Len(d.parts)
  PROVE  /\ Before(d)[i - 1] \in Nat /\ Before(d)[i] \in Nat /\ d.parts[i] \in Trees
         /\ Before(d)[i] = Before(d)[i - 1] + Len(Leaves[d.parts[i]])
         /\ Len(Leaves[d.parts[i]]) \in Nat
         /\ Within(t, d.parts[i], a + Before(d)[i - 1])
<1> DEFINE n == Len(d.parts)
           p == d.parts[i]
           b == Before(d)
           k == i - 1
<1>1. n \in Nat /\ p \in Trees
  BY PartsOfTree
<1>2. b \in LeavesBefore(d)
  BY BeforeLeaves
<1>3. k \in 0..n - 1 /\ k + 1 = i /\ k \in 0..n /\ i \in 0..n
  BY <1>1
<1>4. Len(Leaves[p]) \in Nat /\ Len(Leaves[d]) \in Nat /\ Len(Leaves[t]) \in Nat
  <2>1. Leaves[p] \in Seq(Leaf) /\ Leaves[d] \in Seq(Leaf) /\ Leaves[t] \in Seq(Leaf)
    BY <1>1, LeavesOfTree
  <2> QED BY <2>1
<1> HIDE DEF b, k, n
<1>5. b[k] \in Nat /\ b[i] \in Nat
  BY <1>2, <1>3 DEF LeavesBefore, n
<1>6. /\ b[k + 1] = b[k] + Len(Leaves[d.parts[k + 1]]) /\ b[k + 1] <= Len(Leaves[d])
      /\ \A m \in 1..Len(Leaves[d.parts[k + 1]]) :
               Leaves[d][b[k] + m] = Leaves[d.parts[k + 1]][m]
  BY <1>2, <1>3 DEF LeavesBefore, n
<1> HIDE DEF p
<1>7. /\ b[i] = b[k] + Len(Leaves[p]) /\ b[i] <= Len(Leaves[d])
      /\ \A m \in 1..Len(Leaves[p]) : Leaves[d][b[k] + m] = Leaves[p][m]
  BY <1>3, <1>6 DEF p
<1>8. a \in Nat /\ a + Len(Leaves[d]) <= Len(Leaves[t])
      /\ \A m \in 1..Len(Leaves[d]) : Leaves[t][a + m] = Leaves[d][m]
  BY DEF Within
<1>9. a + b[k] \in Nat /\ (a + b[k]) + Len(Leaves[p]) <= Len(Leaves[t])
  <2> DEFINE x == b[k]
             y == Len(Leaves[p])
             z == Len(Leaves[d])
             w == Len(Leaves[t])
  <2>1. x \in Nat /\ y \in Nat /\ z \in Nat /\ w \in Nat /\ a \in Nat
    BY <1>4, <1>5, <1>8
  <2>2. x + y <= z /\ a + z <= w
    BY <1>7, <1>8
  <2> HIDE DEF x, y, z, w
  <2>3. a + x \in Nat /\ (a + x) + y <= w
    BY <2>1, <2>2
  <2> QED BY <2>3 DEF x, y, w
<1>10. ASSUME NEW m \in 1..Len(Leaves[p]) PROVE Leaves[t][(a + b[k]) + m] = Leaves[p][m]
  <2>1. b[k] + m \in 1..Len(Leaves[d]) /\ a + (b[k] + m) = (a + b[k]) + m
    <3> DEFINE x == b[k]
               y == Len(Leaves[p])
               z == Len(Leaves[d])
    <3>1. x \in Nat /\ y \in Nat /\ z \in Nat /\ a \in Nat /\ m \in 1..y /\ x + y <= z
      BY <1>4, <1>5, <1>7, <1>8
    <3> HIDE DEF x, y, z
    <3>2. x + m \in 1..z /\ a + (x + m) = (a + x) + m
      BY <3>1
    <3> QED BY <3>2 DEF x, z
  <2> QED BY <1>7, <1>8, <2>1
<1>11. Within(t, p, a + b[k])
  BY <1>9, <1>10 DEF Within
<1> QED BY <1>1, <1>4, <1>5, <1>7, <1>11 DEF p, b, k

\* The answers of a tree's leaves are integers, with their running sums.
LEMMA RealAnswersOfTree ==
  ASSUME NEW t \in Trees
  PROVE  /\ Leaves[t] \in Seq(Leaf) /\ Len(Leaves[t]) \in Nat
         /\ RealAnswers(t) \in Seq(Int) /\ Len(RealAnswers(t)) = Len(Leaves[t])
         /\ \A i \in 1..Len(Leaves[t]) :
              /\ Leaves[t][i] \in Leaf /\ RealAnswers(t)[i] = RealAnswer(Leaves[t][i])
         /\ \A n \in 0..Len(Leaves[t]) : LeafSum(t, n) \in Int
         /\ LeafSum(t, 0) = 0
         /\ \A n \in 0..Len(Leaves[t]) - 1 :
              LeafSum(t, n + 1) = LeafSum(t, n) + RealAnswer(Leaves[t][n + 1])
<1> DEFINE s == Leaves[t]
           n == Len(s)
           r == RealAnswers(t)
<1>1. s \in Seq(Leaf) /\ n \in Nat /\ DOMAIN s = 1..n /\ \A i \in 1..n : s[i] \in Leaf
  <2>1. s \in Seq(Leaf)
    BY LeavesOfTree
  <2> HIDE DEF s
  <2> QED BY <2>1
<1>2. \A leaf \in Leaf : RealAnswer(leaf) \in Int
  BY DelayAssumption, SleepAssumption DEF Leaf, RealAnswer
<1>3. r = [i \in 1..n |-> RealAnswer(s[i])]
  BY <1>1 DEF RealAnswers
<1> HIDE DEF s, n, r
<1>4. r \in [1..n -> Int]
  BY <1>1, <1>2, <1>3
<1>5. r \in Seq(Int) /\ Len(r) = n
  BY <1>1, <1>4
<1>6. \A i \in 1..n : r[i] = RealAnswer(s[i])
  BY <1>3
<1>7. /\ SumOfFirst(r, 0) = 0 /\ \A i \in 0..n : SumOfFirst(r, i) \in Int
      /\ \A i \in 0..n - 1 : SumOfFirst(r, i + 1) = SumOfFirst(r, i) + r[i + 1]
  BY <1>5, Sums
<1>8. \A i \in 0..n - 1 : i + 1 \in 1..n
  BY <1>1
<1> QED BY <1>1, <1>5, <1>6, <1>7, <1>8 DEF LeafSum, s, n, r

\* Changing the top of the stack only.
LEMMA NewTop ==
  ASSUME NEW t \in Trees, NEW st, NEW fs, NEW sum, NEW n, NEW at,
         Stack(t, st, fs, sum, n, at),
         NEW g \in FrameRecord, g.delay = fs[Len(fs)].delay, g.index <= Len(g.delay.parts) + 1,
         NEW sum2, NEW n2 \in Nat, Works(t, g, sum2, at[Len(fs)], n2)
  PROVE  Stack(t, st, Append(Front(fs), g), sum2, n2, at)
<1> DEFINE k == Len(fs)
           gs == Append(Front(fs), g)
<1>1. fs \in Seq(FrameRecord) /\ fs # <<>>
  BY DEF Stack
<1>2. /\ k \in Nat /\ k >= 1 /\ gs \in Seq(FrameRecord) /\ Len(gs) = k /\ gs[k] = g
      /\ \A j \in 1..k - 1 : gs[j] = fs[j]
  BY <1>1, Tops
<1> HIDE DEF k, gs
<1>3. \A j \in 1..k : gs[j].delay = fs[j].delay
  <2>1. \A j \in 1..k : j # k => j \in 1..k - 1
    BY <1>2
  <2> QED BY <1>2, <2>1 DEF k
<1>4. gs # <<>> /\ gs[1].delay = t /\ at[1] = 0
  <2>1. 1 \in 1..k
    BY <1>2
  <2>2. fs[1].delay = t /\ at[1] = 0
    BY DEF Stack
  <2> QED BY <1>2, <1>3, <2>1, <2>2
<1>5. ASSUME NEW j \in 1..k PROVE FrameAt(t, st, gs[j], at[j])
  <2>1. FrameAt(t, st, fs[j], at[j])
    BY DEF Stack, k
  <2>2. CASE j = k
    BY <1>2, <1>3, <2>1, <2>2 DEF FrameAt
  <2>3. CASE j # k
    <3>1. j \in 1..k - 1
      BY <1>2, <2>3
    <3> QED BY <1>2, <2>1, <3>1
  <2> QED BY <2>2, <2>3
<1>6. ASSUME NEW j \in 1..k - 1 PROVE Waits(t, gs[j], gs[j + 1], at[j], at[j + 1])
  <2>1. Waits(t, fs[j], fs[j + 1], at[j], at[j + 1])
    BY DEF Stack, k
  <2>2. gs[j + 1].delay = fs[j + 1].delay
    BY <1>2, <1>3
  <2> QED BY <1>2, <2>1, <2>2 DEF Waits
<1>7. Works(t, gs[k], sum2, at[k], n2)
  BY <1>2 DEF k
<1>8. Stack(t, st, gs, sum2, n2, at)
  BY <1>2, <1>4, <1>5, <1>6, <1>7 DEF Stack
<1> QED BY <1>8 DEF gs

\* What is known of the frame on top.
LEMMA Top ==
  ASSUME NEW t \in Trees, NEW st, NEW fs, NEW sum, NEW n, NEW at,
         Stack(t, st, fs, sum, n, at)
  PROVE  /\ Len(fs) \in Nat /\ Len(fs) >= 1 /\ fs \in Seq(FrameRecord) /\ fs # <<>>
         /\ Last(fs) = fs[Len(fs)] /\ Last(fs) \in FrameRecord
         /\ Last(fs).delay \in Trees /\ IsAdditive(Last(fs).delay)
         /\ Last(fs).index \in Nat /\ Last(fs).index >= 1 /\ Last(fs).total \in Nat
         /\ Last(fs).index <= Len(Last(fs).delay.parts) + 1
         /\ Len(Last(fs).delay.parts) \in Nat
         /\ Within(t, Last(fs).delay, at[Len(fs)])
         /\ DelayNeedsState[Last(fs).delay] => st = "real"
         /\ Works(t, Last(fs), sum, at[Len(fs)], n)
         /\ n \in Nat
<1>1. fs \in Seq(FrameRecord) /\ fs # <<>> /\ n \in Nat
  BY DEF Stack
<1>2. /\ Len(fs) \in Nat /\ Len(fs) >= 1 /\ Last(fs) = fs[Len(fs)] /\ Last(fs) \in FrameRecord
  <2>1. PICK g \in FrameRecord : TRUE
    BY <1>1, EmptySeq
  <2> QED BY <1>1, <2>1, Tops
<1>3. /\ Last(fs).delay \in Trees /\ IsAdditive(Last(fs).delay)
      /\ Last(fs).index \in Nat /\ Last(fs).index >= 1 /\ Last(fs).total \in Nat
  BY <1>2 DEF FrameRecord
<1>4. Len(Last(fs).delay.parts) \in Nat
  BY <1>3, PartsOfTree
<1>5. FrameAt(t, st, fs[Len(fs)], at[Len(fs)])
  <2>1. Len(fs) \in 1..Len(fs)
    BY <1>2
  <2> QED BY <2>1 DEF Stack
<1>6. Works(t, Last(fs), sum, at[Len(fs)], n)
  BY <1>2 DEF Stack
<1> QED BY <1>1, <1>2, <1>3, <1>4, <1>5, <1>6 DEF FrameAt

\* resolve_delay starts with a frame of the whole tree.
LEMMA StackStarts ==
  ASSUME NEW t \in Trees, IsAdditive(t), NEW st, DelayNeedsState[t] => st = "real"
  PROVE  Stack(t, st, <<Frame(t)>>, None, 0, [j \in Nat |-> 0])
<1> DEFINE f == Frame(t)
           at == [j \in Nat |-> 0]
<1>1. /\ f \in FrameRecord /\ f.delay = t /\ f.index = 1 /\ f.total = 0
  BY DEF Frame, FrameRecord
<1>2. Len(Leaves[t]) \in Nat /\ LeafSum(t, 0) = 0
  BY RealAnswersOfTree
<1>3. Before(t)[0] = 0 /\ Len(t.parts) \in Nat
  BY BeforeLeaves, PartsOfTree DEF LeavesBefore
<1>4. Within(t, t, 0)
  BY <1>2, RealAnswersOfTree DEF Within
<1>5. Totals(t, 0, 0, 0)
  BY <1>2 DEF Totals
<1> HIDE DEF f
<1>6. Works(t, f, None, 0, 0)
  BY <1>1, <1>3, <1>5 DEF Works
<1>7. FrameAt(t, st, f, 0)
  BY <1>1, <1>3, <1>4 DEF FrameAt
<1>8. /\ <<f>> \in Seq(FrameRecord) /\ <<f>> # <<>> /\ Len(<<f>>) = 1 /\ <<f>>[1] = f
      /\ 1..1 - 1 = {} /\ at[1] = 0 /\ \A j \in 1..1 : j = 1
  BY <1>1
<1> HIDE DEF at
<1>9. Stack(t, st, <<f>>, None, 0, at)
  BY <1>1, <1>6, <1>7, <1>8 DEF Stack
<1> QED BY <1>9 DEF f, at

\* The totals of two runs of leaves, one after the other.
LEMMA TotalsJoin ==
  ASSUME NEW t \in Trees, NEW a, NEW b, NEW from \in 0..Len(Leaves[t]),
         NEW mid \in 0..Len(Leaves[t]), NEW to \in 0..Len(Leaves[t]),
         Totals(t, a, from, mid), Totals(t, b, mid, to)
  PROVE  Totals(t, a + b, from, to)
<1> DEFINE x == LeafSum(t, mid) - LeafSum(t, from)
           y == LeafSum(t, to) - LeafSum(t, mid)
<1>1. a \in Nat /\ b \in Nat /\ x \in Nat /\ y \in Nat /\ Saturated(a) = Saturated(x) /\ Saturated(b) = Saturated(y)
  BY DEF Totals
<1>2. LeafSum(t, to) \in Int /\ LeafSum(t, mid) \in Int /\ LeafSum(t, from) \in Int
  BY RealAnswersOfTree
<1>3. x + y = LeafSum(t, to) - LeafSum(t, from)
  BY <1>2
<1> HIDE DEF x, y
<1>4. Saturated(a + b) = Saturated(x + y) /\ a + b \in Nat /\ x + y \in Nat
  BY <1>1, SaturatedSum
<1> QED BY <1>3, <1>4 DEF Totals

\* Where a part's leaves begin and end among those of the whole tree.
LEMMA PartBounds ==
  ASSUME NEW t \in Trees, NEW d \in Trees, IsAdditive(d), NEW a, Within(t, d, a),
         NEW i \in 1..Len(d.parts)
  PROVE  /\ a \in Nat /\ a + Before(d)[i - 1] \in 0..Len(Leaves[t])
         /\ a + Before(d)[i] \in 0..Len(Leaves[t]) /\ a \in 0..Len(Leaves[t])
<1> DEFINE p == d.parts[i]
<1>1. /\ Before(d)[i - 1] \in Nat /\ Before(d)[i] \in Nat /\ p \in Trees
      /\ Before(d)[i] = Before(d)[i - 1] + Len(Leaves[p]) /\ Len(Leaves[p]) \in Nat
      /\ Within(t, p, a + Before(d)[i - 1])
  BY PartWithin
<1>2. Len(Leaves[t]) \in Nat /\ a \in Nat
  BY RealAnswersOfTree DEF Within
<1>3. (a + Before(d)[i - 1]) + Len(Leaves[p]) <= Len(Leaves[t])
  BY <1>1 DEF Within
<1> DEFINE u == Before(d)[i - 1]
           v == Before(d)[i]
           w == Len(Leaves[p])
           n == Len(Leaves[t])
<1>4. /\ u \in Nat /\ v \in Nat /\ w \in Nat /\ n \in Nat /\ a \in Nat
      /\ v = u + w /\ (a + u) + w <= n
  BY <1>1, <1>2, <1>3
<1> HIDE DEF p, u, v, w, n
<1>5. a + u \in 0..n /\ a + v \in 0..n /\ a \in 0..n
  BY <1>4
<1> QED BY <1>4, <1>5 DEF u, v, n

\* AskChild: the leaf asked is the next one of the whole tree, and its answer is counted.
LEMMA AskLeaf ==
  ASSUME NEW t \in Trees, NEW st, NEW fs, NEW n, NEW at, Stack(t, st, fs, None, n, at),
         Last(fs).index <= Len(Last(fs).delay.parts),
         NEW leaf, leaf = Last(fs).delay.parts[Last(fs).index], ~IsAdditive(leaf)
  PROVE  /\ n + 1 \in 1..Len(Leaves[t]) /\ Leaves[t][n + 1] = leaf
         /\ leaf \in Leaf
         /\ leaf.kind = "stateful" => st = "real"
         /\ RealAnswer(leaf) \in 0..MaxSleep =>
              \A g \in FrameRecord :
                /\ g.delay = Last(fs).delay /\ g.index = Last(fs).index + 1
                /\ g.total = Last(fs).total + RealAnswer(leaf)
                => Stack(t, st, Append(Front(fs), g), None, n + 1, at)
<1> DEFINE k == Len(fs)
           f == Last(fs)
           a == at[k]
           d == f.delay
           i == f.index
<1>1. /\ k \in Nat /\ f = fs[k] /\ f \in FrameRecord /\ d \in Trees /\ IsAdditive(d)
      /\ i \in Nat /\ i >= 1 /\ f.total \in Nat /\ Len(d.parts) \in Nat
      /\ Within(t, d, a) /\ (DelayNeedsState[d] => st = "real") /\ Works(t, f, None, a, n) /\ n \in Nat
  BY Top
<1> HIDE DEF f, a, d, i, k
<1>2. i \in 1..Len(d.parts) /\ leaf = d.parts[i]
  BY <1>1 DEF f, d, i
<1>3. /\ Before(d)[i - 1] \in Nat /\ Before(d)[i] \in Nat /\ leaf \in Trees
      /\ Before(d)[i] = Before(d)[i - 1] + Len(Leaves[leaf])
      /\ Within(t, leaf, a + Before(d)[i - 1])
  BY <1>1, <1>2, PartWithin, SMTT(30)
<1>4. leaf \in Leaf /\ Leaves[leaf] = <<leaf>> /\ Len(Leaves[leaf]) = 1 /\ Leaves[leaf][1] = leaf
  <2>1. leaf \in Leaf
    BY <1>3 DEF Leaf
  <2>2. Leaves[leaf] = <<leaf>>
    BY <1>3, LeavesOfTree
  <2> QED BY <2>1, <2>2
<1>5. n = a + Before(d)[i - 1] /\ Totals(t, f.total, a, n)
  BY <1>1 DEF Works, d, i
<1>6. n + 1 \in 1..Len(Leaves[t]) /\ Leaves[t][n + 1] = leaf
  <2>1. n + 1 <= Len(Leaves[t]) /\ \A m \in 1..1 : Leaves[t][n + m] = Leaves[leaf][m]
    BY <1>3, <1>4, <1>5 DEF Within
  <2>2. Len(Leaves[t]) \in Nat /\ 1 \in 1..1
    BY RealAnswersOfTree
  <2> QED BY <1>1, <1>4, <2>1, <2>2
<1>7. leaf.kind = "stateful" => st = "real"
  <2>1. i \in DOMAIN d.parts
    BY <1>1, <1>2, PartsOfTree
  <2> QED BY <1>1, <1>2, <2>1, NeedsState
<1>8. ASSUME RealAnswer(leaf) \in 0..MaxSleep, NEW g \in FrameRecord,
             g.delay = d, g.index = i + 1, g.total = f.total + RealAnswer(leaf)
      PROVE  Stack(t, st, Append(Front(fs), g), None, n + 1, at)
  <2>1. MaxSleep \in Nat /\ RealAnswer(leaf) \in Nat
    BY <1>8, DelayAssumption, SleepAssumption
  <2>2. g \in FrameRecord /\ g.delay = d /\ g.index = i + 1 /\ g.total = f.total + RealAnswer(leaf)
    BY <1>8
  <2>3. n + 1 = a + Before(d)[(i + 1) - 1]
    <3>1. (i + 1) - 1 = i
      BY <1>1
    <3>2. a \in Nat
      BY <1>1 DEF Within
    <3> QED BY <1>3, <1>4, <1>5, <3>1, <3>2
  <2>4. Totals(t, RealAnswer(leaf), n, n + 1)
    <3>1. n \in 0..Len(Leaves[t]) - 1 /\ n \in 0..Len(Leaves[t])
      BY <1>1, <1>6, RealAnswersOfTree
    <3>2. LeafSum(t, n + 1) = LeafSum(t, n) + RealAnswer(leaf) /\ LeafSum(t, n) \in Int
      BY <1>6, <3>1, RealAnswersOfTree
    <3>3. LeafSum(t, n + 1) - LeafSum(t, n) = RealAnswer(leaf)
      BY <2>1, <3>2
    <3> QED BY <2>1, <3>3 DEF Totals
  <2>5. Totals(t, f.total + RealAnswer(leaf), a, n + 1)
    <3>1. a \in 0..Len(Leaves[t]) /\ n \in 0..Len(Leaves[t]) /\ n + 1 \in 0..Len(Leaves[t])
      BY <1>1, <1>2, <1>5, <1>6, PartBounds
    <3> QED BY <1>5, <2>4, <3>1, TotalsJoin
  <2>6. Works(t, g, None, a, n + 1)
    BY <2>2, <2>3, <2>5 DEF Works
  <2>7. g.index <= Len(g.delay.parts) + 1 /\ n + 1 \in Nat
    BY <1>1, <1>2, <2>2
  <2>8. g.delay = fs[Len(fs)].delay /\ Works(t, g, None, at[Len(fs)], n + 1)
    BY <1>1, <2>2, <2>6 DEF d, a, k
  <2> QED BY <2>2, <2>7, <2>8, NewTop
<1> QED BY <1>4, <1>6, <1>7, <1>8 DEF f, d, i

\* TakeChild: the sum of a finished part is counted.
LEMMA TakeSum ==
  ASSUME NEW t \in Trees, NEW st, NEW fs, NEW sum, sum # None, NEW n, NEW at,
         Stack(t, st, fs, sum, n, at)
  PROVE  Stack(t, st, Append(Front(fs), [Last(fs) EXCEPT !.total = @ + sum]), None, n, at)
<1> DEFINE k == Len(fs)
           f == Last(fs)
           a == at[k]
           d == f.delay
           i == f.index
           g == [f EXCEPT !.total = @ + sum]
           b == a + Before(d)[i - 2]
<1>1. /\ k \in Nat /\ f = fs[k] /\ f \in FrameRecord /\ d \in Trees /\ IsAdditive(d)
      /\ i \in Nat /\ i >= 1 /\ f.total \in Nat /\ Len(d.parts) \in Nat /\ i <= Len(d.parts) + 1
      /\ Within(t, d, a) /\ Works(t, f, sum, a, n) /\ n \in Nat
  BY Top
<1> HIDE DEF f, a, d, i, k, g
<1>2. /\ i >= 2 /\ sum \in 0..MaxSleep /\ n = a + Before(d)[i - 1]
      /\ Totals(t, f.total, a, b) /\ Totals(t, sum, b, n)
  BY <1>1 DEF Works, d, i
<1>3. /\ a \in 0..Len(Leaves[t]) /\ b \in 0..Len(Leaves[t]) /\ n \in 0..Len(Leaves[t])
  <2>1. i - 1 \in 1..Len(d.parts) /\ (i - 1) - 1 = i - 2
    BY <1>1, <1>2
  <2> QED BY <1>1, <1>2, <2>1, PartBounds
<1> HIDE DEF b
<1>4. Totals(t, f.total + sum, a, n)
  BY <1>2, <1>3, TotalsJoin
<1>5. sum \in Nat
  BY <1>2, DelayAssumption, SleepAssumption
<1>6. g \in FrameRecord /\ g.delay = d /\ g.index = i /\ g.total = f.total + sum
  BY ZenonT(30), <1>1, <1>5, FrameMoves DEF g, d, i
<1>7. Works(t, g, None, a, n)
  BY <1>2, <1>4, <1>6 DEF Works
<1>8. g.index <= Len(g.delay.parts) + 1 /\ g.delay = fs[Len(fs)].delay /\ Works(t, g, None, at[Len(fs)], n)
  BY <1>1, <1>6, <1>7 DEF d, a, k
<1>9. Stack(t, st, Append(Front(fs), g), None, n, at)
  BY <1>1, <1>6, <1>8, NewTop
<1> QED BY <1>9 DEF g, f

\* The elements of two sequences, one put after the other.
LEMMA Joined ==
  ASSUME NEW X, NEW a \in Seq(X), NEW b \in Seq(X)
  PROVE  /\ a \o b \in Seq(X) /\ Len(a \o b) = Len(a) + Len(b)
         /\ \A j \in 1..Len(a) : (a \o b)[j] = a[j]
         /\ \A j \in 1..Len(b) : (a \o b)[Len(a) + j] = b[j]
OBVIOUS

\* Push: the frame of a nested sum starts where the leaves asked so far end.
LEMMA PushFrame ==
  ASSUME NEW t \in Trees, NEW st, NEW fs, NEW n, NEW at,
         Stack(t, st, fs, None, n, at),
         Last(fs).index <= Len(Last(fs).delay.parts),
         NEW part, part = Last(fs).delay.parts[Last(fs).index], IsAdditive(part)
  PROVE  \E at2 :
           Stack(t, st,
                 Append(Front(fs), [Last(fs) EXCEPT !.index = @ + 1]) \o <<Frame(part)>>,
                 None, n, at2)
<1> DEFINE k == Len(fs)
           f == Last(fs)
           a == at[k]
           d == f.delay
           i == f.index
           g == [f EXCEPT !.index = @ + 1]
           h == Frame(part)
           ms == Append(Front(fs), g)
           gs == ms \o <<h>>
           at2 == [j \in 1..k + 1 |-> IF j = k + 1 THEN n ELSE at[j]]
<1>1. /\ k \in Nat /\ k >= 1 /\ f = fs[k] /\ f \in FrameRecord /\ d \in Trees /\ IsAdditive(d)
      /\ i \in Nat /\ i >= 1 /\ f.total \in Nat /\ Len(d.parts) \in Nat
      /\ Within(t, d, a) /\ (DelayNeedsState[d] => st = "real") /\ Works(t, f, None, a, n) /\ n \in Nat
      /\ fs \in Seq(FrameRecord) /\ fs # <<>>
  BY Top
<1> HIDE DEF f, a, d, i, k, g, h, ms, gs, at2
<1>2. i \in 1..Len(d.parts) /\ part = d.parts[i]
  BY <1>1 DEF f, d, i
<1>3. /\ Before(d)[i - 1] \in Nat /\ Before(d)[i] \in Nat /\ part \in Trees
      /\ Before(d)[i] = Before(d)[i - 1] + Len(Leaves[part])
      /\ Within(t, part, a + Before(d)[i - 1])
  BY SMTT(30), <1>1, <1>2, PartWithin
<1>4. n = a + Before(d)[i - 1] /\ Totals(t, f.total, a, n)
  BY <1>1 DEF Works, d, i
<1>5. DelayNeedsState[part] => st = "real"
  <2>1. i \in DOMAIN d.parts
    BY <1>1, <1>2, PartsOfTree
  <2> QED BY <1>1, <1>2, <2>1, NeedsState
<1>6. g \in FrameRecord /\ g.delay = d /\ g.index = i + 1 /\ g.total = f.total
  <2>1. /\ [f EXCEPT !.index = @ + 1] \in FrameRecord
        /\ [f EXCEPT !.index = @ + 1].delay = f.delay
        /\ [f EXCEPT !.index = @ + 1].index = f.index + 1
        /\ [f EXCEPT !.index = @ + 1].total = f.total
    <3>1. 0 \in Nat
      OBVIOUS
    <3> QED BY <1>1, <3>1, FrameMoves
  <2> QED BY <2>1 DEF g, d, i
<1>7. h \in FrameRecord /\ h.delay = part /\ h.index = 1 /\ h.total = 0
  BY <1>3 DEF h, Frame, FrameRecord
<1>8. /\ ms \in Seq(FrameRecord) /\ Len(ms) = k /\ ms[k] = g /\ \A j \in 1..k - 1 : ms[j] = fs[j]
  BY <1>1, <1>6, Tops DEF ms, k
<1>9. /\ gs \in Seq(FrameRecord) /\ Len(gs) = k + 1 /\ gs[k + 1] = h
      /\ \A j \in 1..k : gs[j] = ms[j]
  <2>1. <<h>> \in Seq(FrameRecord) /\ Len(<<h>>) = 1 /\ <<h>>[1] = h
    BY <1>7
  <2> DEFINE hs == <<h>>
  <2> HIDE DEF hs
  <2>2. hs \in Seq(FrameRecord) /\ Len(hs) = 1 /\ hs[1] = h /\ gs = ms \o hs
    BY <2>1 DEF hs, gs
  <2>3. /\ gs \in Seq(FrameRecord) /\ Len(gs) = Len(ms) + Len(hs)
        /\ \A j \in 1..Len(ms) : gs[j] = ms[j]
        /\ \A j \in 1..Len(hs) : gs[Len(ms) + j] = hs[j]
    <3>1. ms \in Seq(FrameRecord)
      BY <1>8
    <3>2. hs \in Seq(FrameRecord) /\ gs = ms \o hs
      BY <2>2
    <3>3. /\ ms \o hs \in Seq(FrameRecord) /\ Len(ms \o hs) = Len(ms) + Len(hs)
          /\ \A j \in 1..Len(ms) : (ms \o hs)[j] = ms[j]
          /\ \A j \in 1..Len(hs) : (ms \o hs)[Len(ms) + j] = hs[j]
      BY <3>1, <3>2, Joined
    <3> QED BY <3>2, <3>3
  <2>4. 1 \in 1..1
    OBVIOUS
  <2> QED BY <1>8, <2>2, <2>3, <2>4
<1>10. at2[k + 1] = n /\ \A j \in 1..k : at2[j] = at[j]
  <2>1. k + 1 \in 1..k + 1 /\ \A j \in 1..k : j # k + 1 /\ j \in 1..k + 1
    BY <1>1
  <2> QED BY <2>1 DEF at2
<1>11. gs # <<>> /\ gs[1].delay = t /\ at2[1] = 0
  <2>1. 1 \in 1..k /\ k + 1 # 0
    BY <1>1
  <2>2. fs[1].delay = t /\ at[1] = 0
    BY DEF Stack
  <2>3. gs[1].delay = t
    <3>1. CASE k = 1
      BY <1>1, <1>6, <1>8, <1>9, <2>1, <2>2, <3>1 DEF d
    <3>2. CASE k # 1
      <4>1. 1 \in 1..k - 1
        BY <1>1, <3>2
      <4> QED BY <1>8, <1>9, <2>1, <2>2, <4>1
    <3> QED BY <3>1, <3>2
  <2>4. gs # <<>>
    BY <1>9, <2>1
  <2> QED BY <1>10, <2>1, <2>2, <2>3, <2>4
<1>12. ASSUME NEW j \in 1..k + 1 PROVE FrameAt(t, st, gs[j], at2[j])
  <2>1. CASE j = k + 1
    <3>1. Len(part.parts) \in Nat
      BY <1>3, PartsOfTree
    <3>2. h.index <= Len(h.delay.parts) + 1
      <4>1. \A l \in Nat : 1 <= l + 1
        OBVIOUS
      <4> QED BY <1>7, <3>1, <4>1
    <3>3. Within(t, h.delay, n) /\ (DelayNeedsState[h.delay] => st = "real")
      BY <1>3, <1>4, <1>5, <1>7
    <3>4. FrameAt(t, st, h, n)
      BY <3>2, <3>3 DEF FrameAt
    <3> QED BY <1>9, <1>10, <2>1, <3>4
  <2>2. CASE j = k
    <3>1. FrameAt(t, st, g, a)
      BY <1>1, <1>2, <1>6 DEF FrameAt
    <3>2. k \in 1..k
      BY <1>1
    <3> QED BY <1>8, <1>9, <1>10, <2>2, <3>1, <3>2 DEF a
  <2>3. CASE j # k /\ j # k + 1
    <3>1. j \in 1..k - 1 /\ j \in 1..k
      BY <1>1, <2>3
    <3>2. FrameAt(t, st, fs[j], at[j])
      BY <3>1 DEF Stack, k
    <3> QED BY <1>8, <1>9, <1>10, <3>1, <3>2
  <2> QED BY <2>1, <2>2, <2>3
<1>13. ASSUME NEW j \in 1..(k + 1) - 1 PROVE Waits(t, gs[j], gs[j + 1], at2[j], at2[j + 1])
  <2>1. CASE j = k
    <3>1. (i + 1) - 1 = i /\ (i + 1) - 2 = i - 1 /\ i + 1 >= 2 /\ k \in 1..k
      BY <1>1
    <3>2. Waits(t, g, h, a, n)
      BY <1>2, <1>4, <1>6, <1>7, <3>1 DEF Waits
    <3> QED BY <1>8, <1>9, <1>10, <2>1, <3>1, <3>2 DEF a
  <2>2. CASE j # k
    <3>1. j \in 1..k - 1 /\ j \in 1..k /\ j + 1 \in 1..k
      BY <1>1, <2>2
    <3>2. Waits(t, fs[j], fs[j + 1], at[j], at[j + 1])
      BY <3>1 DEF Stack, k
    <3>3. gs[j + 1].delay = fs[j + 1].delay
      <4>1. CASE j + 1 = k
        BY <1>1, <1>6, <1>8, <1>9, <3>1, <4>1 DEF d
      <4>2. CASE j + 1 # k
        <5>1. j + 1 \in 1..k - 1
          BY <1>1, <3>1, <4>2
        <5> QED BY <1>8, <1>9, <3>1, <5>1
      <4> QED BY <4>1, <4>2
    <3> QED BY <1>8, <1>9, <1>10, <3>1, <3>2, <3>3 DEF Waits
  <2> QED BY <2>1, <2>2
<1>14. Works(t, gs[k + 1], None, at2[k + 1], n)
  <2>1. Before(part)[0] = 0
    BY <1>3, BeforeLeaves DEF LeavesBefore
  <2>2. Totals(t, 0, n, n)
    <3>1. n \in 0..Len(Leaves[t])
      BY <1>1, <1>2, <1>4, PartBounds
    <3>2. LeafSum(t, n) \in Int
      BY <3>1, RealAnswersOfTree
    <3>3. LeafSum(t, n) - LeafSum(t, n) = 0
      BY <3>2
    <3> QED BY <3>3 DEF Totals
  <2>3. Works(t, h, None, n, n)
    <3>1. 1 - 1 = 0 /\ n + 0 = n
      BY <1>1
    <3> QED BY <1>7, <2>1, <2>2, <3>1 DEF Works
  <2> QED BY <1>9, <1>10, <2>3
<1>15. Stack(t, st, gs, None, n, at2)
  BY <1>1, <1>9, <1>11, <1>12, <1>13, <1>14 DEF Stack
<1> QED BY <1>15 DEF gs, ms, g, h, f

\* Pop: a frame that has counted all parts has the sum of all its leaves.
LEMMA PopFrame ==
  ASSUME NEW t \in Trees, NEW st, NEW fs, NEW n, NEW at,
         Stack(t, st, fs, None, n, at),
         Last(fs).index > Len(Last(fs).delay.parts)
  PROVE  /\ n <= Len(Leaves[t]) /\ Saturated(Last(fs).total) \in 0..MaxSleep
         /\ Front(fs) \in Seq(FrameRecord)
         /\ Front(fs) = <<>> => n = Len(Leaves[t]) /\ Totals(t, Saturated(Last(fs).total), 0, n)
         /\ Front(fs) # <<>> => Stack(t, st, Front(fs), Saturated(Last(fs).total), n, at)
<1> DEFINE k == Len(fs)
           f == Last(fs)
           a == at[k]
           d == f.delay
           i == f.index
           r == Front(fs)
           sum == Saturated(f.total)
<1>1. /\ k \in Nat /\ k >= 1 /\ f = fs[k] /\ f \in FrameRecord /\ d \in Trees /\ IsAdditive(d)
      /\ i \in Nat /\ i >= 1 /\ i <= Len(d.parts) + 1 /\ f.total \in Nat /\ Len(d.parts) \in Nat
      /\ Within(t, d, a) /\ Works(t, f, None, a, n) /\ n \in Nat
      /\ fs \in Seq(FrameRecord) /\ fs # <<>>
  BY Top
<1> HIDE DEF f, a, d, i, k, r, sum
<1>2. i = Len(d.parts) + 1
  <2>1. i > Len(d.parts)
    BY DEF f, d, i
  <2> QED BY <1>1, <2>1
<1>3. Before(d)[i - 1] = Len(Leaves[d])
  <2>1. i - 1 = Len(d.parts)
    BY <1>1, <1>2
  <2>2. Before(d)[Len(d.parts)] = Len(Leaves[d])
    BY <1>1, BeforeLeaves DEF LeavesBefore
  <2> QED BY <2>1, <2>2
<1>4. n = a + Len(Leaves[d]) /\ Totals(t, f.total, a, n)
  BY <1>1, <1>3 DEF Works, d, i
<1>5. n <= Len(Leaves[t])
  BY <1>1, <1>4 DEF Within
<1>6. sum \in 0..MaxSleep /\ sum \in Nat /\ Saturated(sum) = Saturated(f.total)
  <2>1. MaxSleep \in Nat
    BY DelayAssumption, SleepAssumption
  <2>2. sum = IF f.total <= MaxSleep THEN f.total ELSE MaxSleep
    BY <1>1, Saturation DEF sum
  <2>3. sum \in Nat /\ sum <= MaxSleep
    BY <1>1, <2>1, <2>2
  <2>4. Saturated(sum) = sum
    BY <2>1, <2>3, Saturation
  <2> QED BY <2>1, <2>3, <2>4 DEF sum
<1>7. Totals(t, sum, a, n)
  BY <1>4, <1>6 DEF Totals
<1>8. r \in Seq(FrameRecord) /\ Len(r) = k - 1 /\ \A j \in 1..k - 1 : r[j] = fs[j]
  BY <1>1, Tops DEF r, k
<1>9. fs[1].delay = t /\ at[1] = 0
  BY DEF Stack
<1>10. ASSUME r = <<>> PROVE n = Len(Leaves[t]) /\ Totals(t, sum, 0, n)
  <2>1. k = 1
    BY <1>1, <1>8, <1>10
  <2>2. d = t /\ a = 0
    BY <1>1, <1>9, <2>1 DEF a, d
  <2>3. Len(Leaves[t]) \in Nat
    BY RealAnswersOfTree
  <2> QED BY <1>4, <1>7, <2>2, <2>3
<1>11. ASSUME r # <<>> PROVE Stack(t, st, r, sum, n, at)
  <2>1. k - 1 \in Nat /\ k - 1 >= 1
    <3>1. k - 1 # 0
      BY <1>8, <1>11, EmptySeq
    <3> QED BY <1>1, <3>1
  <2> DEFINE l == k - 1
             e == r[l]
             b == at[l]
  <2>2. l \in 1..k - 1 /\ l + 1 = k /\ 1 \in 1..l /\ l \in Nat
    BY <1>1, <2>1
  <2> HIDE DEF l, e, b
  <2>3. e = fs[l] /\ e \in FrameRecord
    <3>1. e = fs[l] /\ l \in 1..Len(r)
      BY <1>8, <2>2 DEF e
    <3> QED BY <1>8, <3>1, ElementOfSeq DEF e
  <2>4. Waits(t, e, f, b, a)
    <3>1. Waits(t, fs[l], fs[l + 1], at[l], at[l + 1])
      BY <2>2 DEF Stack, k
    <3> QED BY <1>1, <2>2, <2>3, <3>1 DEF a, b
  <2>5. FrameAt(t, st, e, b)
    <3>1. l \in 1..k
      BY <1>1, <2>2
    <3>2. FrameAt(t, st, fs[l], at[l])
      BY <3>1 DEF Stack, k
    <3> QED BY <2>3, <3>2 DEF b
  <2>6. /\ e.index \in Nat /\ e.index >= 2 /\ e.delay \in Trees /\ IsAdditive(e.delay)
        /\ d = e.delay.parts[e.index - 1] /\ a = b + Before(e.delay)[e.index - 2]
        /\ e.index <= Len(e.delay.parts) + 1 /\ Within(t, e.delay, b)
        /\ Totals(t, e.total, b, a)
    BY <2>3, <2>4, <2>5 DEF Waits, FrameAt, FrameRecord, d
  <2>7. Works(t, e, sum, b, n)
    <3> DEFINE c == e.index - 1
               q == e.delay
    <3>1. c \in 1..Len(e.delay.parts) /\ c - 1 = e.index - 2
      <4>1. Len(e.delay.parts) \in Nat
        BY <2>6, PartsOfTree
      <4> QED BY <2>6, <4>1
    <3> HIDE DEF c, q
    <3>a. /\ q \in Trees /\ IsAdditive(q) /\ Within(t, q, b) /\ c \in 1..Len(q.parts)
          /\ q.parts[c] = d /\ a = b + Before(q)[c - 1]
      BY <2>6, <3>1 DEF c, q
    <3>2. /\ Before(q)[c - 1] \in Nat /\ Before(q)[c] \in Nat
          /\ Before(q)[c] = Before(q)[c - 1] + Len(Leaves[q.parts[c]])
          /\ Len(Leaves[q.parts[c]]) \in Nat
      BY ZenonT(30), <3>a, PartWithin
    <3>3. b \in Nat
      BY <3>a DEF Within
    <3>4. n = b + Before(q)[c]
      <4> DEFINE x == Before(q)[c - 1]
                 y == Before(q)[c]
                 z == Len(Leaves[q.parts[c]])
      <4>1. x \in Nat /\ y \in Nat /\ z \in Nat /\ y = x + z
        BY <3>2
      <4>2. n = a + z /\ a = b + x
        BY <1>4, <3>a
      <4> HIDE DEF x, y, z
      <4>3. n = b + y
        BY <3>3, <4>1, <4>2
      <4> QED BY <4>3 DEF y
    <3>5. n = b + Before(e.delay)[e.index - 1]
      BY <3>4 DEF c, q
    <3>6. sum # None
      BY <1>6 DEF None
    <3> QED BY <1>6, <1>7, <2>6, <3>5, <3>6 DEF Works
  <2>8. Len(r) = l /\ 1 \in 1..k - 1
    BY <1>1, <1>8, <2>1 DEF l
  <2>9. r[1].delay = t
    BY <1>8, <1>9, <2>8
  <2>10. ASSUME NEW j \in 1..l PROVE FrameAt(t, st, r[j], at[j])
    <3>1. j \in 1..k /\ j \in 1..k - 1
      BY <1>1 DEF l
    <3>2. FrameAt(t, st, fs[j], at[j])
      BY <3>1 DEF Stack, k
    <3> QED BY <1>8, <3>1, <3>2
  <2>11. ASSUME NEW j \in 1..l - 1 PROVE Waits(t, r[j], r[j + 1], at[j], at[j + 1])
    <3>1. j \in 1..k - 1 /\ j + 1 \in 1..k - 1
      BY <1>1, <2>2 DEF l
    <3>2. Waits(t, fs[j], fs[j + 1], at[j], at[j + 1])
      BY <3>1 DEF Stack, k
    <3> QED BY <1>8, <3>1, <3>2
  <2>12. Works(t, r[l], sum, at[l], n)
    BY <2>7 DEF e, b
  <2> QED BY <1>1, <1>8, <1>9, <1>11, <2>8, <2>9, <2>10, <2>11, <2>12 DEF Stack
<1> QED BY <1>5, <1>6, <1>8, <1>10, <1>11 DEF f, r, sum

-----------------------------------------------------------------------------
(* The invariant of a resolution. *)

\* What can be asked: a leaf, with the state it is shown.
Question == {<<leaf.id, s>> : leaf \in Leaf, s \in {"real", "minimal"}}

\* The leaves asked are the first ones of the tree, with the state they must see.
AskedInOrder ==
  /\ called \in Seq(Question) /\ Len(called) <= Len(Leaves[tree])
  /\ \A i \in 1..Len(called) :
       /\ called[i] = <<Leaves[tree][i].id, Seen(Leaves[tree][i])>>
       /\ Leaves[tree][i].kind = "stateful" => state = "real"

\* The answers so far were delays.
AnswersHeld ==
  pc # "raised" => \A i \in 1..Len(called) : RealAnswer(Leaves[tree][i]) \in 0..MaxSleep

\* Every leaf has been asked, and counted.
AllCounted ==
  /\ Len(called) = Len(Leaves[tree]) /\ child = Saturated(LeafSum(tree, Len(Leaves[tree])))

\* The stack accounts for the leaves asked so far.
StackHeld ==
  /\ frames \in Seq(FrameRecord)
  /\ frames = <<>> => AllCounted
  /\ frames # <<>> => \E at : Stack(tree, state, frames, child, Len(called), at)

\* The inductive invariant of a resolution.
DelayInv ==
  /\ tree \in Trees /\ pc \in {"begin", "resolve", "loop", "returned", "raised"}
  /\ pc \in {"begin", "resolve"} => called = <<>> /\ child = None
  /\ pc # "begin" /\ DelayNeedsState[tree] => state = "real"
  /\ AskedInOrder /\ AnswersHeld
  /\ pc = "loop" => IsAdditive(tree) /\ StackHeld
  /\ pc = "returned" => AllCounted
  /\ pc = "raised" /\ ~IsAdditive(tree) => tree.fails \/ ~Valid(Answer(tree))

\* A leaf that looks at the state answers to the real one.
LEMMA AnswerIsReal ==
  ASSUME NEW leaf, leaf.kind = "stateful" => state = "real"
  PROVE  Answer(leaf) = RealAnswer(leaf)
BY DEF Answer, RealAnswer, Seen

\* The elements of a sequence with one more.
LEMMA Extended ==
  ASSUME NEW X, NEW s \in Seq(X), NEW x \in X
  PROVE  /\ Append(s, x) \in Seq(X) /\ Len(Append(s, x)) = Len(s) + 1
         /\ Append(s, x)[Len(s) + 1] = x /\ \A i \in 1..Len(s) : Append(s, x)[i] = s[i]
OBVIOUS

\* Asking the next leaf of the tree.
LEMMA AskNext ==
  ASSUME tree \in Trees, AskedInOrder, tree' = tree, state' = state,
         NEW leaf \in Leaf, leaf.kind = "stateful" => state = "real",
         Len(called) + 1 \in 1..Len(Leaves[tree]), Leaves[tree][Len(called) + 1] = leaf,
         called' = Append(called, <<leaf.id, Seen(leaf)>>)
  PROVE  /\ AskedInOrder' /\ Len(called') = Len(called) + 1
         /\ \A i \in 1..Len(called') : i \in 1..Len(called) \/ i = Len(called) + 1
<1> DEFINE n == Len(called)
           q == <<leaf.id, Seen(leaf)>>
<1>1. called \in Seq(Question) /\ n \in Nat
  BY DEF AskedInOrder
<1>2. q \in Question
  BY DEF Question, Seen
<1>3. /\ called' \in Seq(Question) /\ Len(called') = n + 1 /\ called'[n + 1] = q
      /\ \A i \in 1..n : called'[i] = called[i]
  <2>1. called' = Append(called, q)
    OBVIOUS
  <2> HIDE DEF q
  <2>2. /\ Append(called, q) \in Seq(Question) /\ Len(Append(called, q)) = Len(called) + 1
        /\ Append(called, q)[Len(called) + 1] = q
        /\ \A i \in 1..Len(called) : Append(called, q)[i] = called[i]
    BY <1>1, <1>2, Extended
  <2> QED BY <2>1, <2>2
<1>4. \A i \in 1..n + 1 : i \in 1..n \/ i = n + 1
  BY <1>1
<1>5. n + 1 <= Len(Leaves[tree])
  <2>1. Len(Leaves[tree]) \in Nat
    BY RealAnswersOfTree
  <2> QED BY <1>1, <2>1
<1>6. \A l : Seen(l)' = Seen(l)
  BY DEF Seen
<1>7. ASSUME NEW i \in 1..n + 1
      PROVE  /\ called'[i] = <<Leaves[tree][i].id, Seen(Leaves[tree][i])>>
             /\ Leaves[tree][i].kind = "stateful" => state = "real"
  <2>1. CASE i \in 1..n
    BY <1>3, <2>1 DEF AskedInOrder
  <2>2. CASE i = n + 1
    BY <1>3, <2>2
  <2> QED BY <1>4, <2>1, <2>2
<1> HIDE DEF n, q
<1>8. AskedInOrder'
  BY <1>3, <1>5, <1>6, <1>7 DEF AskedInOrder
<1> QED BY <1>3, <1>4, <1>8 DEF n

\* The invariant holds before anything was asked.
LEMMA DelayStarts == Init => DelayInv
<1> SUFFICES ASSUME Init PROVE DelayInv
  OBVIOUS
<1>1. tree \in Trees /\ called = <<>> /\ child = None /\ pc = "begin" /\ Len(called) = 0
  BY DEF Init
<1>2. 1..0 = {} /\ <<>> \in Seq(Question)
  OBVIOUS
<1>3. Len(Leaves[tree]) \in Nat
  BY <1>1, RealAnswersOfTree
<1>4. AskedInOrder
  BY <1>1, <1>2, <1>3 DEF AskedInOrder
<1>5. AnswersHeld
  BY <1>1, <1>2 DEF AnswersHeld
<1> QED BY <1>1, <1>4, <1>5 DEF DelayInv

\* BuildState and Init change nothing that was asked: nothing was.
LEMMA DelaySteps == DelayInv /\ [Next]_vars => DelayInv'
<1> SUFFICES ASSUME DelayInv, [Next]_vars PROVE DelayInv'
  OBVIOUS
<1> USE DEF DelayInv
<1>t. tree' = tree /\ tree \in Trees
  BY DEF Next, vars, BuildState, ResolveLeaf, ResolveTree, TakeChild, Advance, Pop, Return
<1>l. Len(Leaves[tree]) \in Nat /\ Leaves[tree] \in Seq(Leaf)
  BY <1>t, RealAnswersOfTree
<1>n. called \in Seq(Question) /\ Len(called) \in Nat
  BY DEF AskedInOrder
<1>c. ASSUME called' = called, state' = state, pc # "raised"
      PROVE  AskedInOrder' /\ AnswersHeld'
  <2>1. \A leaf : Seen(leaf)' = Seen(leaf)
    BY <1>c DEF Seen
  <2> QED BY <1>t, <1>c, <2>1 DEF AskedInOrder, AnswersHeld
<1>1. CASE BuildState
  <2>1. pc = "begin" /\ pc' = "resolve" /\ called = <<>> /\ called' = called /\ child' = child /\ child = None
    BY <1>1 DEF BuildState
  <2>2. DelayNeedsState[tree] => state' = "real"
    BY <1>1, <1>t, NeedsState DEF BuildState
  <2>3. Len(called) = 0 /\ 1..0 = {}
    BY <2>1
  <2>4. AskedInOrder'
    BY <1>n, <1>l, <1>t, <2>1, <2>3 DEF AskedInOrder
  <2>5. AnswersHeld'
    BY <2>1, <2>3 DEF AnswersHeld
  <2> QED BY <1>t, <2>1, <2>2, <2>4, <2>5
<1>2. CASE ResolveLeaf
  <2>1. /\ pc = "resolve" /\ ~IsAdditive(tree) /\ called = <<>> /\ state' = state
        /\ Ask(tree, "returned") /\ child' = IF pc' = "returned" THEN Answer(tree) ELSE None
    BY <1>2 DEF ResolveLeaf
  <2>2. tree \in Leaf /\ Leaves[tree] = <<tree>>
    BY <1>t, <2>1, LeavesOfTree DEF Leaf
  <2>3. Len(Leaves[tree]) = 1 /\ Leaves[tree][1] = tree /\ Len(called) = 0
    BY <2>1, <2>2
  <2>4. tree.kind = "stateful" => state = "real"
    BY <1>t, <2>1, NeedsState
  <2>5. called' = Append(called, <<tree.id, Seen(tree)>>)
    BY <2>1 DEF Ask
  <2>6. AskedInOrder' /\ Len(called') = 1 /\ \A i \in 1..Len(called') : i = 1
    <3>1. Len(called) + 1 = 1 /\ 1 \in 1..1 /\ 1..0 = {}
      BY <2>3
    <3>2. Len(called) + 1 \in 1..Len(Leaves[tree]) /\ Leaves[tree][Len(called) + 1] = tree
      BY <2>3, <3>1
    <3>3. AskedInOrder
      OBVIOUS
    <3>4. /\ AskedInOrder' /\ Len(called') = Len(called) + 1
      BY <1>t, <2>1, <2>2, <2>4, <2>5, <3>2, <3>3, AskNext
    <3>5. \A i \in 1..1 : i = 1
      OBVIOUS
    <3> QED BY <3>1, <3>4, <3>5
  <2>7. Answer(tree) = RealAnswer(tree) /\ Answer(tree)' = Answer(tree)
    BY <1>t, <2>1, <2>4, AnswerIsReal DEF Answer, Seen
  <2>8. CASE pc' = "raised"
    <3>1. tree.fails \/ ~Valid(Answer(tree))
      BY <2>1, <2>8 DEF Ask
    <3>2. AnswersHeld'
      BY <2>8 DEF AnswersHeld
    <3> QED BY <1>t, <2>1, <2>6, <2>7, <2>8, <3>1, <3>2
  <2>9. CASE pc' # "raised"
    <3>1. pc' = "returned" /\ Valid(Answer(tree)) /\ child' = Answer(tree)
      BY <2>1, <2>9 DEF Ask
    <3>2. RealAnswer(tree) \in 0..MaxSleep
      BY <2>7, <3>1 DEF Valid
    <3>3. AnswersHeld'
      BY <1>t, <2>3, <2>6, <3>2 DEF AnswersHeld
    <3>4. LeafSum(tree, 1) = RealAnswer(tree)
      <4>1. 0 \in 0..1 - 1 /\ 0 + 1 = 1
        OBVIOUS
      <4>2. LeafSum(tree, 0 + 1) = LeafSum(tree, 0) + RealAnswer(Leaves[tree][0 + 1]) /\ LeafSum(tree, 0) = 0
        BY <1>t, <2>3, <4>1, RealAnswersOfTree
      <4>3. MaxSleep \in Nat
        BY DelayAssumption, SleepAssumption
      <4> QED BY <2>3, <3>2, <4>1, <4>2, <4>3
    <3>5. child' = Saturated(LeafSum(tree, 1))
      <4>1. MaxSleep \in Nat
        BY DelayAssumption, SleepAssumption
      <4>2. RealAnswer(tree) \in Nat /\ RealAnswer(tree) <= MaxSleep
        BY <3>2, <4>1
      <4>3. Saturated(RealAnswer(tree)) = RealAnswer(tree)
        BY <4>2, Saturation
      <4> QED BY <2>7, <3>1, <3>4, <4>3
    <3>6. AllCounted'
      BY <1>t, <2>3, <2>6, <3>5 DEF AllCounted
    <3> QED BY <1>t, <2>1, <2>6, <3>1, <3>3, <3>6
  <2> QED BY <2>8, <2>9
<1>3. CASE ResolveTree
  <2>1. /\ pc = "resolve" /\ pc' = "loop" /\ IsAdditive(tree) /\ frames' = <<Frame(tree)>>
        /\ called = <<>> /\ called' = called /\ child = None /\ child' = child /\ state' = state
    BY <1>3 DEF ResolveTree
  <2>2. Stack(tree, state, <<Frame(tree)>>, None, 0, [j \in Nat |-> 0])
    BY <1>t, <2>1, StackStarts
  <2>3. StackHeld'
    <3>1. Len(called') = 0 /\ frames' # <<>>
      BY <2>1
    <3>2. Stack(tree', state', frames', child', Len(called'), [j \in Nat |-> 0])
      BY <1>t, <2>1, <2>2, <3>1
    <3>3. frames' \in Seq(FrameRecord)
      BY <3>2 DEF Stack
    <3> QED BY <3>1, <3>2, <3>3 DEF StackHeld
  <2> QED BY <1>t, <1>c, <2>1, <2>3
<1>4. CASE TakeChild
  <2>1. /\ pc = "loop" /\ pc' = pc /\ frames # <<>> /\ child # None /\ child' = None
        /\ frames' = Append(Front(frames), [Last(frames) EXCEPT !.total = @ + child])
        /\ called' = called /\ state' = state
    BY <1>4 DEF TakeChild
  <2>2. PICK at : Stack(tree, state, frames, child, Len(called), at)
    BY <2>1 DEF StackHeld
  <2>3. Stack(tree, state, Append(Front(frames), [Last(frames) EXCEPT !.total = @ + child]),
              None, Len(called), at)
    BY <1>t, <2>1, <2>2, TakeSum
  <2>4. StackHeld'
    <3>1. Stack(tree', state', frames', child', Len(called'), at)
      BY <1>t, <2>1, <2>3
    <3>2. frames' \in Seq(FrameRecord) /\ frames' # <<>>
      BY <3>1 DEF Stack
    <3> QED BY <3>1, <3>2 DEF StackHeld
  <2> QED BY <1>t, <1>c, <2>1, <2>4
<1>5. CASE Advance
  <2> DEFINE leaf == Last(frames).delay.parts[Last(frames).index]
  <2>1. /\ pc = "loop" /\ frames # <<>> /\ child = None /\ child' = None /\ state' = state
        /\ Last(frames).index <= Len(Last(frames).delay.parts)
        /\ IF IsAdditive(leaf) THEN Push(leaf) ELSE AskChild(leaf)
    BY <1>5 DEF Advance
  <2>2. PICK at : Stack(tree, state, frames, None, Len(called), at)
    BY <2>1 DEF StackHeld
  <2>3. CASE IsAdditive(leaf)
    <3>1. /\ called' = called /\ pc' = pc
          /\ frames' = Append(Front(frames), [Last(frames) EXCEPT !.index = @ + 1]) \o <<Frame(leaf)>>
      BY <2>1, <2>3 DEF Push
    <3>2. \E at2 : Stack(tree, state,
                         Append(Front(frames), [Last(frames) EXCEPT !.index = @ + 1]) \o <<Frame(leaf)>>,
                         None, Len(called), at2)
      <4>1. IsAdditive(leaf) /\ leaf = Last(frames).delay.parts[Last(frames).index]
        BY <2>3
      <4> HIDE DEF leaf
      <4> QED BY <1>t, <2>1, <2>2, <4>1, PushFrame
    <3> HIDE DEF leaf
    <3>3. PICK at2 : Stack(tree, state, frames', None, Len(called), at2)
      BY <3>1, <3>2
    <3>4. StackHeld'
      <4>1. Stack(tree', state', frames', child', Len(called'), at2)
        BY <1>t, <2>1, <3>1, <3>3
      <4>2. frames' \in Seq(FrameRecord) /\ frames' # <<>>
        BY <4>1 DEF Stack
      <4> QED BY <4>1, <4>2 DEF StackHeld
    <3> QED BY <1>t, <1>c, <2>1, <3>1, <3>4
  <2>4. CASE ~IsAdditive(leaf)
    <3> DEFINE n == Len(called)
    <3>1. /\ AskChild(leaf) /\ leaf = Last(frames).delay.parts[Last(frames).index] /\ ~IsAdditive(leaf)
      BY <2>1, <2>4
    <3> HIDE DEF leaf
    <3>2. /\ called' = Append(called, <<leaf.id, Seen(leaf)>>)
          /\ \/ (leaf.fails \/ ~Valid(Answer(leaf))) /\ pc' = "raised"
             \/ Valid(Answer(leaf)) /\ pc' = "loop"
          /\ frames' = Append(Front(frames),
                              [Last(frames) EXCEPT !.index = @ + 1, !.total = @ + Answer(leaf)])
      BY <3>1 DEF AskChild, Ask
    <3>3. /\ n + 1 \in 1..Len(Leaves[tree]) /\ Leaves[tree][n + 1] = leaf /\ leaf \in Leaf
          /\ leaf.kind = "stateful" => state = "real"
          /\ RealAnswer(leaf) \in 0..MaxSleep =>
               \A g \in FrameRecord :
                 /\ g.delay = Last(frames).delay /\ g.index = Last(frames).index + 1
                 /\ g.total = Last(frames).total + RealAnswer(leaf)
                 => Stack(tree, state, Append(Front(frames), g), None, n + 1, at)
      <4> HIDE DEF n
      <4>1. Stack(tree, state, frames, None, n, at)
        BY <2>2 DEF n
      <4> QED BY <1>t, <2>1, <3>1, <4>1, AskLeaf
    <3>4. Answer(leaf) = RealAnswer(leaf)
      BY <3>3, AnswerIsReal
    <3>5. /\ AskedInOrder' /\ Len(called') = n + 1
          /\ \A i \in 1..Len(called') : i \in 1..n \/ i = n + 1
      <4>1. AskedInOrder
        OBVIOUS
      <4> QED BY <1>t, <2>1, <3>2, <3>3, <4>1, AskNext
    <3>6. CASE pc' = "raised"
      <4>1. AnswersHeld'
        BY <3>6 DEF AnswersHeld
      <4> QED BY <1>t, <2>1, <3>5, <3>6, <4>1
    <3>7. CASE pc' # "raised"
      <4>1. pc' = "loop" /\ RealAnswer(leaf) \in 0..MaxSleep
        BY <3>2, <3>4, <3>7 DEF Valid
      <4>2. frames' = Append(Front(frames),
                             [Last(frames) EXCEPT !.index = @ + 1, !.total = @ + RealAnswer(leaf)])
        BY <3>2, <3>4
      <4> DEFINE f == Last(frames)
                 v == RealAnswer(leaf)
                 g == [f EXCEPT !.index = @ + 1, !.total = @ + v]
      <4>a. frames' = Append(Front(frames), g)
        BY <4>2
      <4>b. g \in FrameRecord /\ g.delay = f.delay /\ g.index = f.index + 1 /\ g.total = f.total + v
        <5>1. f \in FrameRecord
          BY <1>t, <2>2, Top
        <5>2. v \in Nat
          BY <4>1, DelayAssumption, SleepAssumption
        <5> HIDE DEF f, v
        <5>3. f.index + 1 \in Nat \ {0} /\ f.total + v \in Nat
          BY <5>1, <5>2 DEF FrameRecord
        <5> QED BY <5>1, <5>3 DEF FrameRecord
      <4> HIDE DEF g
      <4>c. Stack(tree, state, Append(Front(frames), g), None, n + 1, at)
        BY <3>3, <4>1, <4>b
      <4>3. Stack(tree', state', frames', child', Len(called'), at)
        BY <1>t, <2>1, <3>5, <4>a, <4>c
      <4>4. StackHeld'
        <5>1. frames' \in Seq(FrameRecord) /\ frames' # <<>>
          BY <4>3 DEF Stack
        <5> QED BY <4>3, <5>1 DEF StackHeld
      <4>5. AnswersHeld'
        BY <1>t, <2>1, <3>3, <3>5, <4>1 DEF AnswersHeld
      <4> QED BY <1>t, <2>1, <3>5, <4>1, <4>4, <4>5
    <3> QED BY <3>6, <3>7
  <2> QED BY <2>3, <2>4
<1>6. CASE Pop
  <2>1. /\ pc = "loop" /\ pc' = pc /\ frames # <<>> /\ child = None
        /\ Last(frames).index > Len(Last(frames).delay.parts)
        /\ child' = Saturated(Last(frames).total) /\ frames' = Front(frames)
        /\ called' = called /\ state' = state
    BY <1>6 DEF Pop
  <2>2. PICK at : Stack(tree, state, frames, None, Len(called), at)
    BY <2>1 DEF StackHeld
  <2> DEFINE n == Len(called)
             sum == Saturated(Last(frames).total)
  <2> HIDE DEF n, sum
  <2>3. /\ sum \in 0..MaxSleep /\ Front(frames) \in Seq(FrameRecord)
        /\ Front(frames) = <<>> => n = Len(Leaves[tree]) /\ Totals(tree, sum, 0, n)
        /\ Front(frames) # <<>> => Stack(tree, state, Front(frames), sum, n, at)
    <3>1. Stack(tree, state, frames, None, n, at)
      BY <2>2 DEF n
    <3> QED BY <1>t, <2>1, <3>1, PopFrame DEF sum
  <2>4. ASSUME Front(frames) = <<>> PROVE AllCounted'
    <3>1. LeafSum(tree, 0) = 0 /\ LeafSum(tree, n) \in Int
      <4>1. n \in 0..Len(Leaves[tree])
        BY <1>l, <2>3, <2>4
      <4> QED BY <1>t, <4>1, RealAnswersOfTree
    <3>2. LeafSum(tree, n) - LeafSum(tree, 0) = LeafSum(tree, n)
      BY <3>1
    <3>3. Saturated(sum) = Saturated(LeafSum(tree, n))
      BY <2>3, <2>4, <3>2 DEF Totals
    <3>4. Saturated(sum) = sum
      <4>1. MaxSleep \in Nat
        BY DelayAssumption, SleepAssumption
      <4>2. sum \in Nat /\ sum <= MaxSleep
        BY <2>3, <4>1
      <4> QED BY <4>2, Saturation
    <3> QED BY <1>t, <2>1, <2>3, <2>4, <3>3, <3>4 DEF AllCounted, n, sum
  <2>5. StackHeld'
    <3>1. Front(frames) # <<>> => Stack(tree', state', frames', child', Len(called'), at)
      BY <1>t, <2>1, <2>3 DEF n, sum
    <3> QED BY <2>1, <2>3, <2>4, <3>1 DEF StackHeld
  <2> QED BY <1>t, <1>c, <2>1, <2>5
<1>7. CASE Return
  <2>1. /\ pc = "loop" /\ pc' = "returned" /\ frames = <<>> /\ called' = called /\ child' = child
        /\ state' = state
    BY <1>7 DEF Return
  <2>2. AllCounted
    BY <2>1 DEF StackHeld
  <2>3. AllCounted'
    BY <1>t, <2>1, <2>2 DEF AllCounted
  <2> QED BY <1>t, <1>c, <2>1, <2>3
<1>8. CASE UNCHANGED vars
  <2>1. /\ pc' = pc /\ frames' = frames /\ called' = called /\ child' = child /\ state' = state
    BY <1>8 DEF vars
  <2>2. \A leaf : Seen(leaf)' = Seen(leaf)
    BY <2>1 DEF Seen
  <2>3. AskedInOrder' /\ AnswersHeld'
    BY <1>t, <2>1, <2>2 DEF AskedInOrder, AnswersHeld
  <2>4. (StackHeld => StackHeld') /\ (AllCounted => AllCounted')
    BY <1>t, <2>1 DEF StackHeld, AllCounted
  <2>5. Answer(tree)' = Answer(tree)
    BY <1>t, <2>1 DEF Answer, Seen
  <2> QED BY <1>t, <2>1, <2>3, <2>4, <2>5
<1> QED BY <1>1, <1>2, <1>3, <1>4, <1>5, <1>6, <1>7, <1>8 DEF Next

\* Every resolution keeps the invariant.
THEOREM DelayInvariant == Spec => []DelayInv
<1>1. DelayInv /\ [Next]_vars => DelayInv'
  BY DelaySteps
<1> QED BY <1>1, DelayStarts, PTL DEF Spec

\* The delay returned is the sum of the real answers of the leaves, cut once.
THEOREM DelayIsTheSum == Spec => []SumsTheLeaves
<1>1. ASSUME DelayInv PROVE SumsTheLeaves
  <2>1. SUFFICES ASSUME pc = "returned" PROVE child = Saturated(SumSeq(RealAnswers(tree)))
    BY DEF SumsTheLeaves
  <2>2. AllCounted /\ tree \in Trees
    BY <1>1, <2>1 DEF DelayInv
  <2>3. Len(RealAnswers(tree)) = Len(Leaves[tree])
    BY <2>2, RealAnswersOfTree
  <2> QED BY <2>2, <2>3 DEF AllCounted, SumSeq, LeafSum
<1> QED BY <1>1, DelayInvariant, PTL

\* Every stateful leaf of a tree sees the real state, however deep it is.
THEOREM RealStateForAll == Spec => []StatefulSeesRealState
<1>1. ASSUME DelayInv PROVE StatefulSeesRealState
  <2>1. ASSUME NEW i \in DOMAIN called, Leaves[tree][i].kind = "stateful"
        PROVE  called[i][2] = "real"
    <3>1. called \in Seq(Question)
      BY <1>1 DEF DelayInv, AskedInOrder
    <3>2. i \in 1..Len(called)
      BY <3>1
    <3>3. called[i] = <<Leaves[tree][i].id, Seen(Leaves[tree][i])>> /\ state = "real"
      BY <1>1, <2>1, <3>2 DEF DelayInv, AskedInOrder
    <3> QED BY <2>1, <3>3 DEF Seen
  <2> QED BY <2>1 DEF StatefulSeesRealState
<1> QED BY <1>1, DelayInvariant, PTL

\* A shorter sequence with the same elements is a prefix.
LEMMA SamePrefix ==
  ASSUME NEW X, NEW s \in Seq(X), NEW t \in Seq(X), Len(s) <= Len(t),
         \A i \in 1..Len(s) : s[i] = t[i]
  PROVE  IsPrefix(s, t)
<1> DEFINE n == Len(s)
           a == SubSeq(s, 1, n)
           b == SubSeq(t, 1, n)
<1>1. n \in Nat /\ n \in Int /\ Len(t) \in Nat /\ (\A i \in 1..n : s[i] \in X /\ t[i] \in X) /\ n <= Len(t)
  OBVIOUS
<1> HIDE DEF n
<1>2. /\ n - 1 + 1 = n /\ (IF 1 <= n THEN n - 1 + 1 ELSE 0) = n
      /\ \A i \in 1..n : 1 + i - 1 = i
  BY <1>1
<1>3. /\ a \in Seq(X) /\ Len(a) = (IF 1 <= n THEN n - 1 + 1 ELSE 0)
      /\ \A i \in 1..n - 1 + 1 : a[i] = s[1 + i - 1]
  <2>1. n \in Int /\ \A i \in 1..n : s[i] \in X
    BY <1>1
  <2> QED BY <2>1, SubSeqProperties
<1>4. /\ b \in Seq(X) /\ Len(b) = (IF 1 <= n THEN n - 1 + 1 ELSE 0)
      /\ \A i \in 1..n - 1 + 1 : b[i] = t[1 + i - 1]
  <2>1. n \in Int /\ \A i \in 1..n : t[i] \in X
    BY <1>1
  <2> QED BY <2>1, SubSeqProperties
<1> HIDE DEF a, b
<1>5. Len(a) = n /\ Len(b) = n /\ \A i \in 1..n : a[i] = b[i]
  <2>1. \A i \in 1..n : s[i] = t[i]
    BY DEF n
  <2> QED BY <1>2, <1>3, <1>4, <2>1
<1>6. a = b
  BY <1>3, <1>4, <1>5, SeqEqual
<1> QED BY <1>1, <1>6 DEF IsPrefix, a, b, n

\* Every leaf is asked once, from left to right, and a resolution that returns
\* has asked them all.
THEOREM LeavesAskedOnce == Spec => []AsksEachLeafOnce
<1>1. ASSUME DelayInv PROVE AsksEachLeafOnce
  <2> DEFINE s == Leaves[tree]
             ids == [i \in DOMAIN s |-> s[i].id]
             asked == [i \in DOMAIN called |-> called[i][1]]
             X == {leaf.id : leaf \in Leaf}
  <2>1. tree \in Trees /\ AskedInOrder /\ (pc = "returned" => AllCounted)
    BY <1>1 DEF DelayInv
  <2>2. s \in Seq(Leaf) /\ Len(s) \in Nat /\ DOMAIN s = 1..Len(s)
    <3>1. s \in Seq(Leaf)
      BY <2>1, RealAnswersOfTree
    <3> HIDE DEF s
    <3> QED BY <3>1
  <2>3. /\ called \in Seq(Question) /\ Len(called) \in Nat /\ DOMAIN called = 1..Len(called)
        /\ Len(called) <= Len(s) /\ \A i \in 1..Len(called) : called[i][1] = s[i].id
    <3>1. called \in Seq(Question)
      BY <2>1 DEF AskedInOrder
    <3>2. Len(called) <= Len(s) /\ \A i \in 1..Len(called) : called[i] = <<s[i].id, Seen(s[i])>>
      BY <2>1 DEF AskedInOrder
    <3> HIDE DEF s
    <3> QED BY <3>1, <3>2
  <2> HIDE DEF s
  <2>4. \A i \in 1..Len(s) : s[i].id \in X
    <3>1. \A i \in 1..Len(s) : s[i] \in Leaf
      BY <2>2
    <3> QED BY <3>1
  <2> HIDE DEF X
  <2>5. ids \in [1..Len(s) -> X] /\ \A i \in 1..Len(s) : ids[i] = s[i].id
    BY <2>2, <2>4
  <2>6. asked \in [1..Len(called) -> X] /\ \A i \in 1..Len(called) : asked[i] = s[i].id
    <3>1. \A i \in 1..Len(called) : i \in 1..Len(s)
      BY <2>2, <2>3
    <3> QED BY <2>3, <2>4, <3>1
  <2>7. asked = ids \/ pc # "returned"
    <3>1. SUFFICES ASSUME pc = "returned" PROVE asked = ids
      OBVIOUS
    <3>2. Len(called) = Len(s)
      BY <2>1, <3>1 DEF AllCounted, s
    <3> HIDE DEF asked, ids
    <3> QED BY <2>5, <2>6, <3>2
  <2>8. IsPrefix(asked, ids)
    <3> HIDE DEF asked, ids
    <3>1. /\ ids \in Seq(X) /\ asked \in Seq(X) /\ Len(ids) = Len(s) /\ Len(asked) = Len(called)
      <4>1. \A n \in Nat : \A f \in [1..n -> X] : f \in Seq(X) /\ Len(f) = n
        OBVIOUS
      <4>2. ids \in [1..Len(s) -> X] /\ asked \in [1..Len(called) -> X]
        BY <2>5, <2>6
      <4> QED BY <2>2, <2>3, <4>1, <4>2
    <3>2. Len(asked) <= Len(ids) /\ \A i \in 1..Len(asked) : asked[i] = ids[i]
      BY <2>2, <2>3, <2>5, <2>6, <3>1
    <3> QED BY <3>1, <3>2, SamePrefix
  <2> QED BY <2>7, <2>8 DEF AsksEachLeafOnce, s
<1> QED BY <1>1, DelayInvariant, PTL

-----------------------------------------------------------------------------
(* The delays of http_retry_policy. *)

\* The smaller of two integers.
LEMMA PairMin ==
  ASSUME NEW a \in Int, NEW b \in Int
  PROVE  Min({a, b}) = IF a <= b THEN a ELSE b
<1> DEFINE m == IF a <= b THEN a ELSE b
<1>1. m \in {a, b} /\ \A y \in {a, b} : m <= y
  OBVIOUS
<1>2. \A y \in {a, b} : (\A z \in {a, b} : y <= z) => y = m
  OBVIOUS
<1>3. Min({a, b}) \in {a, b} /\ \A z \in {a, b} : Min({a, b}) <= z
  <2> HIDE DEF m
  <2> QED BY <1>1, Zenon DEF Min
<1> QED BY <1>2, <1>3

\* The larger of two integers.
LEMMA PairMax ==
  ASSUME NEW a \in Int, NEW b \in Int
  PROVE  Max({a, b}) = IF a >= b THEN a ELSE b
<1> DEFINE m == IF a >= b THEN a ELSE b
<1>1. m \in {a, b} /\ \A y \in {a, b} : m >= y
  OBVIOUS
<1>2. \A y \in {a, b} : (\A z \in {a, b} : y >= z) => y = m
  OBVIOUS
<1>3. Max({a, b}) \in {a, b} /\ \A z \in {a, b} : Max({a, b}) >= z
  <2> HIDE DEF m
  <2> QED BY <1>1, Zenon DEF Max
<1> QED BY <1>2, <1>3

\* parse_retry_after: never negative, never above its maximum, and not below what
\* the server asks for unless the maximum is.
LEMMA ParsedHeader ==
  ASSUME NEW header, header.seconds \in Int, NEW default \in 0..MaxSleep, NEW maximum \in 0..MaxSleep
  PROVE  /\ ParseRetryAfter(header, default, maximum) \in 0..maximum
         /\ header.form \in {"seconds", "date"} =>
              ParseRetryAfter(header, default, maximum) >= Min({header.seconds, maximum})
<1> DEFINE s == header.seconds
           p == ParseRetryAfter(header, default, maximum)
<1>1. MaxSleep \in Nat /\ s \in Int /\ default \in Nat /\ maximum \in Nat
  BY DelayAssumption, SleepAssumption
<1>2. /\ Min({s, maximum}) = (IF s <= maximum THEN s ELSE maximum)
      /\ Min({default, maximum}) = (IF default <= maximum THEN default ELSE maximum)
      /\ Min({s, maximum}) \in Int
  <2>1. /\ Min({s, maximum}) = (IF s <= maximum THEN s ELSE maximum)
        /\ Min({default, maximum}) = (IF default <= maximum THEN default ELSE maximum)
    <3> HIDE DEF s
    <3> QED BY <1>1, PairMin
  <2> QED BY <1>1, <2>1
<1> HIDE DEF s
<1>3. Max({0, Min({s, maximum})}) = IF 0 >= Min({s, maximum}) THEN 0 ELSE Min({s, maximum})
  BY <1>2, PairMax
<1>4. CASE header.form = "seconds" /\ s >= 0
  <2>1. p = Min({s, maximum})
    BY <1>4 DEF ParseRetryAfter, s
  <2> HIDE DEF p
  <2>2. p \in 0..maximum /\ p >= Min({s, maximum})
    BY <1>1, <1>2, <1>4, <2>1
  <2> QED BY <2>2 DEF p, s
<1>5. CASE header.form = "date"
  <2>1. p = Max({0, Min({s, maximum})})
    BY <1>5 DEF ParseRetryAfter, Until, s
  <2> HIDE DEF p
  <2>2. p \in 0..maximum /\ p >= Min({s, maximum})
    BY <1>1, <1>2, <1>3, <2>1
  <2> QED BY <2>2 DEF p, s
<1>6. CASE ~(header.form = "seconds" /\ s >= 0) /\ header.form # "date"
  <2>1. p = Min({default, maximum})
    BY <1>6 DEF ParseRetryAfter, s
  <2> HIDE DEF p
  <2>2. p \in 0..maximum
    BY <1>1, <1>2, <2>1
  <2>3. header.form = "seconds" => s < 0 /\ p >= Min({s, maximum})
    BY <1>1, <1>2, <1>6, <2>2
  <2> QED BY <1>6, <2>2, <2>3 DEF p, s
<1> QED BY <1>4, <1>5, <1>6

\* RetryAfterDelay is a delay, below its maximum, and heeds the header.
LEMMA RetryAfterBounds ==
  ASSUME NEW outcome, outcome.kind = "response" => outcome.header.seconds \in Int,
         NEW default \in 0..MaxSleep, NEW maximum \in {None} \cup 0..MaxSleep
  PROVE  /\ RetryAfterDelay(outcome, default, maximum) \in 0..MaxSleep
         /\ maximum # None => RetryAfterDelay(outcome, default, maximum) <= maximum
         /\ outcome.kind = "response" /\ outcome.header.form \in {"seconds", "date"} =>
              RetryAfterDelay(outcome, default, maximum)
                >= Min({outcome.header.seconds,
                        IF maximum = None THEN MaxRetryAfter ELSE maximum})
<1> DEFINE found == outcome.kind = "response" /\ outcome.header.form # "absent"
           limit == IF maximum = None THEN MaxRetryAfter ELSE maximum
           resolved == IF found THEN ParseRetryAfter(outcome.header, default, limit) ELSE default
           d == RetryAfterDelay(outcome, default, maximum)
           c == IF maximum = None THEN resolved ELSE Min({resolved, maximum})
<1>1. MaxSleep \in Nat /\ MaxRetryAfter \in 0..MaxSleep /\ limit \in 0..MaxSleep
  BY DelayAssumption, SleepAssumption, HttpAssumption
<1>2. d = Max({0, c})
  BY DEF RetryAfterDelay
<1>3. limit = IF maximum = None THEN MaxRetryAfter ELSE maximum
  OBVIOUS
<1> HIDE DEF limit
<1>4. found => /\ resolved \in 0..limit
               /\ outcome.header.form \in {"seconds", "date"} => resolved >= Min({outcome.header.seconds, limit})
  BY <1>1, ParsedHeader
<1>5. resolved \in 0..MaxSleep
  <2>1. found => resolved \in 0..limit
    BY <1>4
  <2>2. ~found => resolved = default
    OBVIOUS
  <2> HIDE DEF resolved, found
  <2> QED BY <1>1, <2>1, <2>2
<1>6. maximum # None => maximum \in Nat /\ limit = maximum /\ maximum \in 0..MaxSleep
  BY <1>1, <1>3
<1> HIDE DEF resolved, d, found
<1>7. maximum # None => Min({resolved, maximum}) = IF resolved <= maximum THEN resolved ELSE maximum
  BY <1>1, <1>5, <1>6, PairMin
<1>8. c \in 0..MaxSleep /\ (maximum # None => c <= maximum)
  BY <1>1, <1>5, <1>6, <1>7
<1>9. d = c
  <2> HIDE DEF c
  <2> QED BY <1>1, <1>2, <1>8, PairMax
<1>10. ASSUME outcome.kind = "response", outcome.header.form \in {"seconds", "date"}
      PROVE  d >= Min({outcome.header.seconds, limit})
  <2>1. found
    BY <1>10 DEF found
  <2>2. resolved \in 0..limit /\ resolved >= Min({outcome.header.seconds, limit})
    BY <1>4, <1>10, <2>1
  <2>3. c = resolved
    <3>1. CASE maximum = None
      BY <3>1
    <3>2. CASE maximum # None
      BY <1>1, <1>6, <1>7, <2>2, <3>2
    <3> QED BY <3>1, <3>2
  <2> HIDE DEF c
  <2> QED BY <1>9, <2>2, <2>3
<1>11. d \in 0..MaxSleep /\ (maximum # None => d <= maximum)
  <2> HIDE DEF c
  <2> QED BY <1>8, <1>9
<1> QED BY <1>3, <1>10, <1>11 DEF d

\* A sum of answers that are not negative is no less than any of them.
LEMMA SumAtLeast ==
  ASSUME NEW t \in Trees, \A i \in 1..Len(Leaves[t]) : RealAnswer(Leaves[t][i]) \in 0..MaxSleep
  PROVE  /\ LeafSum(t, Len(Leaves[t])) \in Nat
         /\ \A i \in 1..Len(Leaves[t]) : RealAnswer(Leaves[t][i]) <= LeafSum(t, Len(Leaves[t]))
<1> DEFINE n == Len(Leaves[t])
           r(i) == RealAnswer(Leaves[t][i])
           S(i) == LeafSum(t, i)
           covers(k) == k \in 0..n => S(k) \in Nat /\ \A i \in 1..k : r(i) <= S(k)
<1>1. /\ n \in Nat /\ S(0) = 0 /\ \A k \in 0..n : S(k) \in Int
      /\ \A k \in 0..n - 1 : S(k + 1) = S(k) + r(k + 1)
  BY RealAnswersOfTree
<1>2. \A i \in 1..n : r(i) \in Nat
  BY DelayAssumption, SleepAssumption
<1> HIDE DEF r, S, n
<1>3. \A k \in Nat : covers(k)
  <2>1. SUFFICES ASSUME {k \in Nat : ~covers(k)} # {} PROVE FALSE
    OBVIOUS
  <2>2. PICK k \in Nat : ~covers(k) /\ \A l \in Nat : ~covers(l) => k <= l
    <3> HIDE DEF covers
    <3> QED BY <2>1, LeastNatural
  <2>3. k # 0
    <3>1. 1..0 = {}
      OBVIOUS
    <3>2. covers(0)
      BY <1>1, <3>1
    <3> QED BY <2>2, <3>2
  <2> DEFINE l == k - 1
  <2>4. l \in Nat /\ ~(k <= l) /\ k = l + 1
    BY <2>3
  <2>5. covers(l)
    <3> HIDE DEF covers, l
    <3> QED BY <2>2, <2>4
  <2>6. k \in 0..n
    BY <2>2
  <2> HIDE DEF l
  <2>7. l \in 0..n - 1 /\ l \in 0..n /\ k \in 1..n
    BY <1>1, <2>3, <2>4, <2>6
  <2>8. S(k) = S(l) + r(k) /\ r(k) \in Nat /\ S(l) \in Nat /\ \A i \in 1..l : r(i) <= S(l)
    BY <1>1, <1>2, <2>4, <2>5, <2>7
  <2>9. ASSUME NEW i \in 1..k PROVE r(i) <= S(k)
    <3>1. CASE i = k
      BY <2>8, <3>1
    <3>2. CASE i # k
      <4>1. i \in 1..l /\ i \in 1..n
        BY <1>1, <2>4, <2>7, <3>2
      <4>2. r(i) <= S(l) /\ r(i) \in Nat
        BY <1>2, <2>8, <4>1
      <4> QED BY <2>8, <4>2
    <3> QED BY <3>1, <3>2
  <2>10. S(k) \in Nat
    BY <2>8
  <2> QED BY <2>2, <2>9, <2>10
<1>4. covers(n) /\ n \in 0..n
  <2> HIDE DEF covers
  <2> QED BY <1>1, <1>3
<1>5. S(n) \in Nat /\ \A i \in 1..n : r(i) <= S(n)
  BY <1>4
<1> QED BY <1>5 DEF n, r, S

\* The delay of http_retry_policy obeys the server within its bounds.
THEOREM ServerHeeded == Spec => []ServerIsHeeded
<1>1. ASSUME DelayInv PROVE ServerIsHeeded
  <2>1. SUFFICES ASSUME NEW i \in DOMAIN Leaves[tree], NEW leaf, leaf = Leaves[tree][i],
                        "outcome" \in DOMAIN leaf
        PROVE  /\ leaf = tree => pc # "raised"
               /\ pc = "returned" =>
                    /\ leaf = tree /\ leaf.maximum # None => child <= leaf.maximum
                    /\ leaf.outcome.kind = "response" /\ leaf.outcome.header.form \in {"seconds", "date"}
                       => child >= Min({leaf.outcome.header.seconds,
                                        IF leaf.maximum = None THEN MaxRetryAfter ELSE leaf.maximum})
    BY DEF ServerIsHeeded
  <2>2. tree \in Trees
    BY <1>1 DEF DelayInv
  <2>3. i \in 1..Len(Leaves[tree]) /\ leaf \in Leaf
    <3>1. Leaves[tree] \in Seq(Leaf)
      BY <2>2, RealAnswersOfTree
    <3> QED BY <2>1, <3>1
  <2>4. leaf \in Trees /\ ~IsAdditive(leaf)
    BY <2>3 DEF Leaf
  <2>5. /\ leaf.outcome.kind = "response" => leaf.outcome.header.seconds \in Int
        /\ \E default \in 0..MaxSleep :
             /\ leaf.maximum \in {None} \cup 0..MaxSleep
             /\ leaf = RetryAfterLeaf(leaf.id, leaf.outcome, default, leaf.maximum)
    BY <2>1, <2>4, HttpAssumption
  <2>6. PICK default \in 0..MaxSleep :
             /\ leaf.maximum \in {None} \cup 0..MaxSleep
             /\ leaf = RetryAfterLeaf(leaf.id, leaf.outcome, default, leaf.maximum)
    BY <2>5
  <2> DEFINE o == leaf.outcome
             m == leaf.maximum
  <2>7. /\ leaf.kind = "stateful" /\ leaf.fails = FALSE
        /\ leaf.real = RetryAfterDelay(o, default, m)
        /\ leaf.minimal = RetryAfterDelay(TransportError, default, m)
    <3>1. leaf = RetryAfterLeaf(leaf.id, o, default, m)
      BY <2>6
    <3> HIDE DEF o, m
    <3> QED BY <3>1 DEF RetryAfterLeaf
  <2>8. leaf.minimal \in 0..MaxSleep
    <3>1. TransportError.kind # "response"
      BY DEF TransportError
    <3> QED BY <2>6, <2>7, <3>1, RetryAfterBounds
  <2>9. /\ leaf.real \in 0..MaxSleep /\ (m # None => leaf.real <= m)
        /\ o.kind = "response" /\ o.header.form \in {"seconds", "date"} =>
             leaf.real >= Min({o.header.seconds, IF m = None THEN MaxRetryAfter ELSE m})
    <3>1. /\ o.kind = "response" => o.header.seconds \in Int
          /\ m \in {None} \cup 0..MaxSleep /\ leaf.real = RetryAfterDelay(o, default, m)
      BY <2>5, <2>6, <2>7
    <3> HIDE DEF o, m
    <3>2. /\ RetryAfterDelay(o, default, m) \in 0..MaxSleep
          /\ m # None => RetryAfterDelay(o, default, m) <= m
          /\ o.kind = "response" /\ o.header.form \in {"seconds", "date"} =>
               RetryAfterDelay(o, default, m)
                 >= Min({o.header.seconds, IF m = None THEN MaxRetryAfter ELSE m})
      BY <3>1, RetryAfterBounds
    <3> QED BY <3>1, <3>2
  <2>10. RealAnswer(leaf) = leaf.real
    BY <2>7 DEF RealAnswer
  <2>11. ASSUME leaf = tree PROVE pc # "raised"
    <3>1. Valid(Answer(tree))
      BY <2>8, <2>9, <2>11 DEF Answer, Valid
    <3> QED BY <1>1, <2>4, <2>7, <2>11, <3>1 DEF DelayInv
  <2>12. ASSUME pc = "returned"
         PROVE  /\ leaf.real <= child
                /\ leaf = tree => child = leaf.real
    <3> DEFINE n == Len(Leaves[tree])
               S == LeafSum(tree, n)
    <3>1. Len(called) = n /\ child = Saturated(S)
      BY <1>1, <2>12 DEF DelayInv, AllCounted
    <3>2. \A k \in 1..n : RealAnswer(Leaves[tree][k]) \in 0..MaxSleep
      BY <1>1, <2>12, <3>1 DEF DelayInv, AnswersHeld
    <3>3. S \in Nat /\ leaf.real <= S
      BY <2>1, <2>2, <2>3, <2>10, <3>2, SumAtLeast
    <3>4. MaxSleep \in Nat
      BY DelayAssumption, SleepAssumption
    <3>5. ASSUME leaf = tree PROVE S = leaf.real
      <4>1. Leaves[tree] = <<tree>>
        BY <2>2, <2>4, <3>5, LeavesOfTree
      <4>2. n = 1 /\ Leaves[tree][1] = tree /\ 0 \in 0..1 - 1 /\ 0 + 1 = 1
        BY <4>1
      <4>3. LeafSum(tree, 0 + 1) = LeafSum(tree, 0) + RealAnswer(Leaves[tree][0 + 1]) /\ LeafSum(tree, 0) = 0
        BY <2>2, <4>2, RealAnswersOfTree
      <4>4. RealAnswer(tree) \in Int /\ RealAnswer(tree) = leaf.real
        BY <2>9, <2>10, <3>5
      <4> QED BY <4>2, <4>3, <4>4
    <3> HIDE DEF S
    <3>6. child = IF S <= MaxSleep THEN S ELSE MaxSleep
      BY <3>1, <3>3, Saturation
    <3>7. leaf.real \in Nat /\ leaf.real <= MaxSleep
      BY <2>9, <3>4
    <3> QED BY <3>3, <3>4, <3>5, <3>6, <3>7
  <2>13. child \in Int \/ pc # "returned"
    <3>1. SUFFICES ASSUME pc = "returned" PROVE child \in Int
      OBVIOUS
    <3>2. child = Saturated(LeafSum(tree, Len(Leaves[tree]))) /\ Len(called) = Len(Leaves[tree])
      BY <1>1, <3>1 DEF DelayInv, AllCounted
    <3>3. \A k \in 1..Len(Leaves[tree]) : RealAnswer(Leaves[tree][k]) \in 0..MaxSleep
      BY <1>1, <3>1, <3>2 DEF DelayInv, AnswersHeld
    <3>4. LeafSum(tree, Len(Leaves[tree])) \in Nat
      BY <2>2, <3>3, SumAtLeast
    <3>5. MaxSleep \in Nat
      BY DelayAssumption, SleepAssumption
    <3> QED BY <3>2, <3>4, <3>5, Saturation
  <2> DEFINE low == Min({o.header.seconds, IF m = None THEN MaxRetryAfter ELSE m})
  <2>14. ASSUME o.kind = "response" PROVE low \in Int
    <3>1. MaxSleep \in Nat /\ MaxRetryAfter \in Int
      BY DelayAssumption, SleepAssumption, HttpAssumption
    <3>2. m # None => m \in Int
      BY <2>6, <3>1
    <3>3. o.header.seconds \in Int
      BY <2>5, <2>14
    <3> DEFINE b == IF m = None THEN MaxRetryAfter ELSE m
               s == o.header.seconds
    <3>4. b \in Int /\ s \in Int
      BY <3>1, <3>2, <3>3
    <3> HIDE DEF b, s
    <3>5. Min({s, b}) = IF s <= b THEN s ELSE b
      BY <3>4, PairMin
    <3>6. Min({s, b}) \in Int
      BY <3>4, <3>5
    <3> QED BY <3>6 DEF s, b
  <2>15. ASSUME pc = "returned", leaf = tree, m # None PROVE child <= m
    BY <2>9, <2>12, <2>15
  <2>16. ASSUME pc = "returned", o.kind = "response", o.header.form \in {"seconds", "date"}
         PROVE  child >= low
    <3>1. leaf.real >= low /\ low \in Int
      BY <2>9, <2>14, <2>16
    <3>2. leaf.real \in Int
      BY <2>9
    <3> HIDE DEF low
    <3> QED BY <2>12, <2>13, <2>16, <3>1, <3>2
  <2> QED BY <2>11, <2>15, <2>16
<1> QED BY <1>1, DelayInvariant, PTL

-----------------------------------------------------------------------------
(* Flattening, in chains of builder calls. *)

\* _flatten_any_... of two strategies: the parts of the first, then of the second.
Pieces(kind, t) == IF t.kind = kind THEN t.parts ELSE <<t>>

\* What a sequence has in it.
Elements(s) == {s[i] : i \in DOMAIN s}

\* Flattening two strategies keeps the elements of both.
LEMMA FlattenPair ==
  ASSUME NEW X, NEW kind, NEW t, NEW u, Pieces(kind, t) \in Seq(X), Pieces(kind, u) \in Seq(X)
  PROVE  Elements(Flatten(kind, <<t, u>>)) = Elements(Pieces(kind, t)) \cup Elements(Pieces(kind, u))
<1> DEFINE a == Pieces(kind, t)
           b == Pieces(kind, u)
           two == <<t, u>>
           s == [i \in DOMAIN two |-> IF two[i].kind = kind THEN two[i].parts ELSE <<two[i]>>]
<1>1. DOMAIN two = 1..2 /\ two[1] = t /\ two[2] = u /\ Len(two) = 2
  OBVIOUS
<1>2. s = [i \in 1..2 |-> Pieces(kind, two[i])]
  <2> HIDE DEF two
  <2> QED BY <1>1 DEF Pieces
<1>3. Flatten(kind, <<t, u>>) = FlattenSeq(s)
  BY DEF Flatten
<1> HIDE DEF two, s
<1>4. a \in Seq(X) /\ b \in Seq(X)
  OBVIOUS
<1>5. s[1] = a /\ s[2] = b
  BY <1>1, <1>2
<1> HIDE DEF a, b
<1>6. s \in [1..2 -> Seq(X)]
  <2>1. \A i \in 1..2 : i = 1 \/ i = 2
    OBVIOUS
  <2>2. \A i \in 1..2 : s[i] \in Seq(X)
    BY <1>4, <1>5, <2>1
  <2> QED BY <1>2, <2>2
<1>7. s \in Seq(Seq(X)) /\ Len(s) = 2
  <2> DEFINE V == Seq(X)
  <2>1. s \in [1..2 -> V]
    BY <1>6
  <2> HIDE DEF V
  <2>2. s \in Seq(V) /\ Len(s) = 2
    <3>1. \A n \in Nat : \A g \in [1..n -> V] : g \in Seq(V) /\ Len(g) = n
      OBVIOUS
    <3> QED BY <2>1, <3>1
  <2> QED BY <2>2 DEF V
<1>8. PICK f \in [0..Len(s) -> Seq(X)] :
        /\ f[0] = <<>> /\ FlattenSeq(s) = f[Len(s)]
        /\ \A i \in 0..Len(s) - 1 : f[i + 1] = f[i] \o s[i + 1]
  BY <1>7, Flattening
<1>9. FlattenSeq(s) = a \o b
  <2>1. 0 \in 0..2 - 1 /\ 1 \in 0..2 - 1 /\ 0 + 1 = 1 /\ 1 + 1 = 2
    OBVIOUS
  <2>2. f[0] = <<>> /\ FlattenSeq(s) = f[2] /\ f[1] = f[0] \o s[1] /\ f[2] = f[1] \o s[2]
    BY <1>7, <1>8, <2>1
  <2>3. <<>> \o a = a
    BY <1>4, ConcatEmptySeq
  <2> QED BY <1>5, <2>2, <2>3
<1> DEFINE c == a \o b
<1>10. /\ c \in Seq(X) /\ DOMAIN c = 1..Len(a) + Len(b) /\ DOMAIN a = 1..Len(a) /\ DOMAIN b = 1..Len(b)
       /\ Len(a) \in Nat /\ Len(b) \in Nat
       /\ \A i \in 1..Len(a) : c[i] = a[i]
       /\ \A i \in 1..Len(b) : c[Len(a) + i] = b[i]
  BY <1>4
<1> HIDE DEF c
<1>11. ASSUME NEW i \in DOMAIN c
       PROVE  (\E j \in DOMAIN a : c[i] = a[j]) \/ (\E j \in DOMAIN b : c[i] = b[j])
  <2>1. CASE i <= Len(a)
    <3>1. i \in 1..Len(a)
      BY <1>10, <2>1
    <3> QED BY <1>10, <3>1
  <2>2. CASE ~(i <= Len(a))
    <3> DEFINE j == i - Len(a)
    <3>1. j \in 1..Len(b) /\ Len(a) + j = i
      BY <1>10, <2>2
    <3> HIDE DEF j
    <3>2. c[Len(a) + j] = b[j]
      BY <1>10, <3>1
    <3> QED BY <1>10, <3>1, <3>2
  <2> QED BY <2>1, <2>2
<1>12. ASSUME NEW j \in DOMAIN a PROVE \E i \in DOMAIN c : c[i] = a[j]
  BY <1>10
<1>13. ASSUME NEW j \in DOMAIN b PROVE \E i \in DOMAIN c : c[i] = b[j]
  <2>1. Len(a) + j \in DOMAIN c
    BY <1>10
  <2> QED BY <1>10, <2>1
<1>14. Elements(c) = Elements(a) \cup Elements(b)
  BY <1>11, <1>12, <1>13 DEF Elements
<1>15. Flatten(kind, <<t, u>>) = c
  BY <1>3, <1>9 DEF c
<1> QED BY <1>10, <1>14, <1>15 DEF a, b

\* h says yes of a composite as its kind demands.
Combines(h, T) ==
  \A t \in T :
    /\ h[t] \in BOOLEAN
    /\ IsComposite(t) => t.parts \in Seq(T)
    /\ t.kind = "any" => h[t] = (\E i \in DOMAIN t.parts : h[t.parts[i]])
    /\ t.kind = "all" => h[t] = (\A i \in DOMAIN t.parts : h[t.parts[i]])

\* Flattening changes no answer.
LEMMA FlattenedAnswer ==
  ASSUME NEW T, NEW h, Combines(h, T), NEW t \in T, NEW u \in T
  PROVE  /\ AnyOf(Flatten("any", <<t, u>>)) \in T =>
              h[AnyOf(Flatten("any", <<t, u>>))] = (h[t] \/ h[u])
         /\ AllOf(Flatten("all", <<t, u>>)) \in T =>
              h[AllOf(Flatten("all", <<t, u>>))] = (h[t] /\ h[u])
<1>1. ASSUME NEW k \in {"any", "all"}
      PROVE  /\ Pieces(k, t) \in Seq(T) /\ Pieces(k, u) \in Seq(T)
             /\ Elements(Flatten(k, <<t, u>>)) = Elements(Pieces(k, t)) \cup Elements(Pieces(k, u))
  <2>1. ASSUME NEW v \in T PROVE Pieces(k, v) \in Seq(T)
    <3>1. CASE v.kind = k
      BY <3>1 DEF Pieces, Combines, IsComposite
    <3>2. CASE v.kind # k
      BY <3>2 DEF Pieces
    <3> QED BY <3>1, <3>2
  <2>2. Pieces(k, t) \in Seq(T) /\ Pieces(k, u) \in Seq(T)
    BY <2>1
  <2>3. Elements(Flatten(k, <<t, u>>)) = Elements(Pieces(k, t)) \cup Elements(Pieces(k, u))
    <3> DEFINE X == T
    <3>1. Pieces(k, t) \in Seq(X) /\ Pieces(k, u) \in Seq(X)
      BY <2>2
    <3> HIDE DEF X
    <3> QED BY <3>1, FlattenPair
  <2> QED BY <2>2, <2>3
<1>2. ASSUME NEW v \in T PROVE (\E i \in DOMAIN Pieces("any", v) : h[Pieces("any", v)[i]]) <=> h[v]
  <2>1. CASE v.kind = "any"
    BY <2>1, Zenon DEF Pieces, Combines
  <2>2. CASE v.kind # "any"
    <3>1. Pieces("any", v) = <<v>> /\ DOMAIN <<v>> = {1} /\ <<v>>[1] = v
      BY <2>2 DEF Pieces
    <3> QED BY <3>1, Zenon
  <2> QED BY <2>1, <2>2
<1>3. ASSUME NEW v \in T PROVE (\A i \in DOMAIN Pieces("all", v) : h[Pieces("all", v)[i]]) <=> h[v]
  <2>1. CASE v.kind = "all"
    BY <2>1, Zenon DEF Pieces, Combines
  <2>2. CASE v.kind # "all"
    <3>1. Pieces("all", v) = <<v>> /\ DOMAIN <<v>> = {1} /\ <<v>>[1] = v
      BY <2>2 DEF Pieces
    <3> QED BY <3>1, Zenon
  <2> QED BY <2>1, <2>2
<1>4. ASSUME AnyOf(Flatten("any", <<t, u>>)) \in T
      PROVE  h[AnyOf(Flatten("any", <<t, u>>))] = (h[t] \/ h[u])
  <2> DEFINE c == Flatten("any", <<t, u>>)
             a == Pieces("any", t)
             b == Pieces("any", u)
             w == AnyOf(c)
  <2>1. Elements(c) = Elements(a) \cup Elements(b)
    BY <1>1
  <2>2. ((\E i \in DOMAIN a : h[a[i]]) <=> h[t]) /\ ((\E i \in DOMAIN b : h[b[i]]) <=> h[u])
    BY <1>2
  <2>3. w \in T /\ w.kind = "any" /\ w.parts = c
    BY <1>4 DEF AnyOf
  <2> HIDE DEF a, b, c, w
  <2>4. (\E i \in DOMAIN c : h[c[i]]) <=> (\E x \in Elements(c) : h[x])
    BY DEF Elements
  <2>5. (\E x \in Elements(a) \cup Elements(b) : h[x])
          <=> (\E i \in DOMAIN a : h[a[i]]) \/ (\E i \in DOMAIN b : h[b[i]])
    BY DEF Elements
  <2>6. (\E i \in DOMAIN c : h[c[i]]) <=> h[t] \/ h[u]
    BY <2>1, <2>2, <2>4, <2>5
  <2>7. h[w] = (\E i \in DOMAIN c : h[c[i]]) /\ h[w] \in BOOLEAN
    BY <2>3, Zenon DEF Combines
  <2>8. h[w] = (h[t] \/ h[u])
    BY <2>6, <2>7, Zenon
  <2> QED BY <2>8 DEF w, c
<1>5. ASSUME AllOf(Flatten("all", <<t, u>>)) \in T
      PROVE  h[AllOf(Flatten("all", <<t, u>>))] = (h[t] /\ h[u])
  <2> DEFINE c == Flatten("all", <<t, u>>)
             a == Pieces("all", t)
             b == Pieces("all", u)
             w == AllOf(c)
  <2>1. Elements(c) = Elements(a) \cup Elements(b)
    BY <1>1
  <2>2. ((\A i \in DOMAIN a : h[a[i]]) <=> h[t]) /\ ((\A i \in DOMAIN b : h[b[i]]) <=> h[u])
    BY <1>3
  <2>3. w \in T /\ w.kind = "all" /\ w.parts = c
    BY <1>5 DEF AllOf
  <2> HIDE DEF a, b, c, w
  <2>4. (\A i \in DOMAIN c : h[c[i]]) <=> (\A x \in Elements(c) : h[x])
    BY DEF Elements
  <2>5. (\A x \in Elements(a) \cup Elements(b) : h[x])
          <=> (\A i \in DOMAIN a : h[a[i]]) /\ (\A i \in DOMAIN b : h[b[i]])
    BY DEF Elements
  <2>6. (\A i \in DOMAIN c : h[c[i]]) <=> h[t] /\ h[u]
    BY <2>1, <2>2, <2>4, <2>5
  <2>7. h[w] = (\A i \in DOMAIN c : h[c[i]]) /\ h[w] \in BOOLEAN
    BY <2>3, Zenon DEF Combines
  <2>8. h[w] = (h[t] /\ h[u])
    BY <2>6, <2>7, Zenon
  <2> QED BY <2>8 DEF w, c
<1> QED BY <1>4, <1>5

\* The parts of a composite are trees of its sort, and less deep.
LEMMA TreesOfStrategies ==
  /\ \A t \in StopTrees : IsComposite(t) => t.parts \in Seq(StopTrees)
  /\ \A t \in ConditionTrees : IsComposite(t) => t.parts \in Seq(ConditionTrees)
  /\ \A t \in Strategies :
       IsComposite(t) => /\ t.parts \in Seq(Strategies) /\ Len(t.parts) \in Nat
                         /\ DOMAIN t.parts = 1..Len(t.parts)
                         /\ \A i \in DOMAIN t.parts : /\ t.parts[i] \in Strategies
                                                      /\ Depth[t.parts[i]] < Depth[t]
  /\ Depth \in [Strategies -> Nat]
<1>1. \A t \in StopTrees : IsComposite(t) => t.parts \in Seq(StopTrees)
  BY TreeAssumption DEF IsComposite
<1>2. \A t \in ConditionTrees : IsComposite(t) => t.parts \in Seq(ConditionTrees)
  BY TreeAssumption DEF IsComposite
<1>3. StopTrees \subseteq Strategies /\ ConditionTrees \subseteq Strategies
  BY DEF Strategies
<1>4. ASSUME NEW t \in Strategies, IsComposite(t) PROVE t.parts \in Seq(Strategies)
  <2>1. CASE t \in StopTrees
    BY <1>1, <1>3, <1>4, <2>1, SeqMonotonic
  <2>2. CASE t \in ConditionTrees
    BY <1>2, <1>3, <1>4, <2>2, SeqMonotonic
  <2> QED BY <2>1, <2>2 DEF Strategies
<1>5. ASSUME NEW t \in Strategies, IsComposite(t)
      PROVE  /\ Len(t.parts) \in Nat /\ DOMAIN t.parts = 1..Len(t.parts)
             /\ \A i \in DOMAIN t.parts : t.parts[i] \in Strategies
  <2>1. t.parts \in Seq(Strategies)
    BY <1>4, <1>5
  <2> QED BY <2>1
<1>6. /\ Depth \in [Strategies -> Nat]
      /\ \A t \in Strategies :
           IsComposite(t) => \A i \in DOMAIN t.parts : Depth[t.parts[i]] < Depth[t]
  BY TreeAssumption
<1> QED BY <1>1, <1>2, <1>4, <1>5, <1>6

\* h answers for composites as their kind demands, and as leaf does for the others.
Answers(S, leaf, some, each, h) ==
  \A t \in S :
    /\ h[t] \in BOOLEAN
    /\ h[t] <=> \/ ~IsComposite(t) /\ leaf[t]
                \/ t.kind \in some /\ \E i \in DOMAIN t.parts : h[t.parts[i]]
                \/ t.kind \in each /\ \A i \in DOMAIN t.parts : h[t.parts[i]]

\* Holds answers so, whatever the trees.
LEMMA HoldsOfTree ==
  ASSUME NEW S, S \in {StopTrees, ConditionTrees}, NEW leaf, NEW some, NEW each,
         some \subseteq {"any", "all"}, each \subseteq {"any", "all"}
  PROVE  Answers(S, leaf, some, each, Holds(S, leaf, some, each))
<1> DEFINE V == BOOLEAN
           rank == [u \in S |-> Depth[u]]
           body(u, g) == \/ ~IsComposite(u) /\ leaf[u]
                         \/ u.kind \in some /\ \E i \in DOMAIN u.parts : g[u.parts[i]]
                         \/ u.kind \in each /\ \A i \in DOMAIN u.parts : g[u.parts[i]]
           step == [p \in S \X [S -> V] |-> body(p[1], p[2])]
           holds == CHOOSE g : g = [u \in S |-> body(u, g)]
<1>1. Holds(S, leaf, some, each) = holds
  BY Zenon DEF Holds
<1> HIDE DEF holds
<1>2. rank \in [S -> Nat] /\ \A u \in S : rank[u] = Depth[u]
  BY TreesOfStrategies DEF Strategies
<1>4. \A u \in S : \A g : body(u, g) \in BOOLEAN
  OBVIOUS
<1>5. step \in [S \X [S -> V] -> V]
  <2> HIDE DEF body
  <2> QED BY <1>4
<1>6. ASSUME NEW u \in S, NEW g, NEW f, \A v \in S : rank[v] < rank[u] => g[v] = f[v]
      PROVE  body(u, g) = body(u, f)
  <2>1. CASE IsComposite(u)
    <3>1. \A i \in DOMAIN u.parts : u.parts[i] \in S /\ Depth[u.parts[i]] < Depth[u]
      <4>1. u.parts \in Seq(S)
        BY <2>1, TreesOfStrategies
      <4>2. \A i \in DOMAIN u.parts : u.parts[i] \in S
        BY <4>1
      <4>3. u \in Strategies
        BY DEF Strategies
      <4> QED BY <2>1, <4>2, <4>3, TreesOfStrategies
    <3>2. \A i \in DOMAIN u.parts : g[u.parts[i]] = f[u.parts[i]]
      <4> HIDE DEF rank
      <4> QED BY <1>2, <1>6, <3>1
    <3>3. /\ (\E i \in DOMAIN u.parts : g[u.parts[i]]) = (\E i \in DOMAIN u.parts : f[u.parts[i]])
          /\ (\A i \in DOMAIN u.parts : g[u.parts[i]]) = (\A i \in DOMAIN u.parts : f[u.parts[i]])
      BY <3>2, Zenon
    <3> QED BY <3>3, Zenon
  <2>2. CASE ~IsComposite(u)
    <3>1. u.kind \notin some /\ u.kind \notin each
      BY <2>2 DEF IsComposite
    <3> QED BY <3>1, Zenon
  <2> QED BY <2>1, <2>2
<1>7. PICK g \in [S -> V] : \A u \in S : g[u] = body(u, g)
  <2>1. \A u \in S : \A g \in [S -> V] : step[<<u, g>>] = body(u, g)
    <3> HIDE DEF body
    <3> QED BY DEF step
  <2>2. V # {}
    OBVIOUS
  <2>3. LooksBelow(step, S, rank, V)
    <3> HIDE DEF body, step, V, rank
    <3> QED BY <1>2, <1>5, <1>6, <2>1, <2>2 DEF LooksBelow
  <2>4. Solutions(S, V, step) # {}
    <3> HIDE DEF step, V, rank
    <3> QED BY <2>3, Recursion
  <2> HIDE DEF body, step, V
  <2> QED BY <2>1, <2>4 DEF Solutions
<1>8. g = [u \in S |-> body(u, g)]
  <2> HIDE DEF body
  <2> QED BY <1>7
<1>9. holds = [u \in S |-> body(u, holds)]
  <2> HIDE DEF body
  <2> QED BY <1>8, Zenon DEF holds
<1>10. ASSUME NEW t \in S PROVE holds[t] = body(t, holds) /\ body(t, holds) \in BOOLEAN
  <2> HIDE DEF body
  <2> QED BY <1>4, <1>9
<1>11. Answers(S, leaf, some, each, holds)
  BY <1>10, Zenon DEF Answers
<1> QED BY <1>1, <1>11

\* should_stop asks the parts of a composite, and of a limit whether it is reached.
LEMMA StoppingCombines ==
  ASSUME NEW n, NEW e
  PROVE  /\ Combines(Stopping(n, e), StopTrees)
         /\ \A t \in StopTrees :
              /\ t.kind = "attempts" => (Stopping(n, e)[t] <=> ReachesAttempts(n, t.maximum))
              /\ t.kind = "max_time" => (Stopping(n, e)[t] <=> ReachesTime(e, t.seconds))
              /\ t.kind = "forever" => ~Stopping(n, e)[t]
<1> DEFINE leaf == [t \in StopTrees |-> \/ t.kind = "attempts" /\ ReachesAttempts(n, t.maximum)
                                        \/ t.kind = "max_time" /\ ReachesTime(e, t.seconds)]
           h == Holds(StopTrees, leaf, {"any"}, {"all"})
<1>1. Stopping(n, e) = h
  BY DEF Stopping
<1>2. ASSUME NEW t \in StopTrees
      PROVE  /\ h[t] \in BOOLEAN
             /\ h[t] <=> \/ ~IsComposite(t) /\ leaf[t]
                         \/ t.kind \in {"any"} /\ \E i \in DOMAIN t.parts : h[t.parts[i]]
                         \/ t.kind \in {"all"} /\ \A i \in DOMAIN t.parts : h[t.parts[i]]
  <2>1. {"any"} \subseteq {"any", "all"} /\ {"all"} \subseteq {"any", "all"}
    OBVIOUS
  <2> HIDE DEF leaf
  <2>2. Answers(StopTrees, leaf, {"any"}, {"all"}, h)
    BY <2>1, HoldsOfTree
  <2> HIDE DEF h
  <2> QED BY <2>2, Zenon DEF Answers
<1> HIDE DEF h
<1>3. ASSUME NEW t \in StopTrees
      PROVE  /\ t.kind = "any" => h[t] = (\E i \in DOMAIN t.parts : h[t.parts[i]])
             /\ t.kind = "all" => h[t] = (\A i \in DOMAIN t.parts : h[t.parts[i]])
  BY <1>2, Zenon DEF IsComposite
<1>4. ASSUME NEW t \in StopTrees, t.kind \in {"attempts", "max_time", "forever"}
      PROVE  h[t] <=> leaf[t]
  BY <1>2, <1>4 DEF IsComposite
<1>5. ASSUME NEW t \in StopTrees
      PROVE  /\ t.kind = "attempts" => (h[t] <=> ReachesAttempts(n, t.maximum))
             /\ t.kind = "max_time" => (h[t] <=> ReachesTime(e, t.seconds))
             /\ t.kind = "forever" => ~h[t]
  BY <1>4
<1>6. Combines(h, StopTrees)
  BY <1>2, <1>3, TreesOfStrategies DEF Combines
<1> QED BY <1>1, <1>5, <1>6

\* should_retry asks the parts of a composite, and of its own outcomes otherwise.
LEMMA RetryingCombines ==
  ASSUME NEW o
  PROVE  /\ Combines(Retrying(o), ConditionTrees)
         /\ \A c \in ConditionTrees :
              /\ c.kind = "exception" => (Retrying(o)[c] <=> o \in UNION c.types)
              /\ c.kind = "result" => (Retrying(o)[c] <=> o \in Values /\ o \in c.values)
              /\ c.kind = "custom" => (Retrying(o)[c] <=> o \in c.outcomes)
<1> DEFINE leaf == [c \in ConditionTrees |-> \/ c.kind = "exception" /\ o \in UNION c.types
                                             \/ c.kind = "result" /\ o \in Values /\ o \in c.values
                                             \/ c.kind = "custom" /\ o \in c.outcomes]
           h == Holds(ConditionTrees, leaf, {"any"}, {"all"})
<1>1. Retrying(o) = h
  BY DEF Retrying
<1>2. ASSUME NEW t \in ConditionTrees
      PROVE  /\ h[t] \in BOOLEAN
             /\ h[t] <=> \/ ~IsComposite(t) /\ leaf[t]
                         \/ t.kind \in {"any"} /\ \E i \in DOMAIN t.parts : h[t.parts[i]]
                         \/ t.kind \in {"all"} /\ \A i \in DOMAIN t.parts : h[t.parts[i]]
  <2>1. {"any"} \subseteq {"any", "all"} /\ {"all"} \subseteq {"any", "all"}
    OBVIOUS
  <2> HIDE DEF leaf
  <2>2. Answers(ConditionTrees, leaf, {"any"}, {"all"}, h)
    BY <2>1, HoldsOfTree
  <2> HIDE DEF h
  <2> QED BY <2>2, Zenon DEF Answers
<1> HIDE DEF h
<1>3. ASSUME NEW t \in ConditionTrees
      PROVE  /\ t.kind = "any" => h[t] = (\E i \in DOMAIN t.parts : h[t.parts[i]])
             /\ t.kind = "all" => h[t] = (\A i \in DOMAIN t.parts : h[t.parts[i]])
  BY <1>2, Zenon DEF IsComposite
<1>4. ASSUME NEW c \in ConditionTrees, c.kind \in {"exception", "result", "custom"}
      PROVE  h[c] <=> leaf[c]
  BY <1>2, <1>4 DEF IsComposite
<1>5. ASSUME NEW c \in ConditionTrees
      PROVE  /\ c.kind = "exception" => (h[c] <=> o \in UNION c.types)
             /\ c.kind = "result" => (h[c] <=> o \in Values /\ o \in c.values)
             /\ c.kind = "custom" => (h[c] <=> o \in c.outcomes)
  BY <1>4
<1>6. Combines(h, ConditionTrees)
  BY <1>2, <1>3, TreesOfStrategies DEF Combines
<1> QED BY <1>1, <1>5, <1>6

-----------------------------------------------------------------------------
(* How deep a chain builds. *)

\* Max of naturals that have a bound.
LEMMA BoundedMax ==
  ASSUME NEW S, S \subseteq Nat, S # {}, NEW b \in Nat, \A x \in S : x <= b
  PROVE  Max(S) \in S /\ \A x \in S : x <= Max(S)
<1> DEFINE N == {b - x : x \in S}
<1>1. N \in SUBSET Nat /\ N # {}
  <2>1. \A x \in S : x \in Nat /\ x <= b
    OBVIOUS
  <2>2. \A x \in S : b - x \in Nat
    BY <2>1
  <2> QED BY <2>2
<1>2. PICK m \in N : \A n \in N : m <= n
  <2> HIDE DEF N
  <2> QED BY <1>1, LeastNatural
<1>3. PICK y \in S : m = b - y
  OBVIOUS
<1>4. \A x \in S : y >= x
  <2> SUFFICES ASSUME NEW x \in S PROVE y >= x
    OBVIOUS
  <2>1. m <= b - x /\ x \in Nat /\ y \in Nat
    BY <1>2
  <2> QED BY <1>3, <2>1
<1>5. Max(S) \in S /\ \A x \in S : Max(S) >= x
  BY <1>4, Zenon DEF Max
<1> QED BY <1>5

\* The values of a finite sequence have a bound.
LEMMA BoundedValues ==
  ASSUME NEW n \in Nat, NEW f, \A i \in 1..n : f[i] \in Nat
  PROVE  \E b \in Nat : \A i \in 1..n : f[i] <= b
<1> DEFINE Free == {k \in Nat : k <= n /\ ~\E b \in Nat : \A i \in 1..k : f[i] <= b}
<1>1. 0 \notin Free
  OBVIOUS
<1>2. ASSUME NEW k \in Nat, k \notin Free, k + 1 <= n PROVE k + 1 \notin Free
  <2>1. PICK b \in Nat : \A i \in 1..k : f[i] <= b
    BY <1>2
  <2>2. f[k + 1] \in Nat /\ \A i \in 1..k : f[i] \in Nat
    BY <1>2
  <2> DEFINE c == IF f[k + 1] <= b THEN b ELSE f[k + 1]
  <2>3. c \in Nat /\ b <= c /\ f[k + 1] <= c
    BY <2>2
  <2> HIDE DEF c
  <2>4. \A i \in 1..k + 1 : f[i] <= c
    <3> SUFFICES ASSUME NEW i \in 1..k + 1 PROVE f[i] <= c
      OBVIOUS
    <3>1. CASE i = k + 1
      BY <2>3, <3>1
    <3>2. CASE i # k + 1
      <4>1. i \in 1..k
        BY <3>2
      <4> QED BY <2>1, <2>2, <2>3, <4>1
    <3> QED BY <3>1, <3>2
  <2> QED BY <2>3, <2>4
<1>3. Free = {}
  <2> SUFFICES ASSUME Free # {} PROVE FALSE
    OBVIOUS
  <2>1. PICK m \in Free : \A k \in Free : m <= k
    <3>1. Free \in SUBSET Nat
      OBVIOUS
    <3> HIDE DEF Free
    <3> QED BY <3>1, LeastNatural
  <2>2. m \in Nat /\ m # 0 /\ m <= n
    BY <1>1
  <2>3. m - 1 \in Nat /\ ~(m <= m - 1) /\ (m - 1) + 1 = m
    BY <2>2
  <2> HIDE DEF Free
  <2>4. m - 1 \notin Free
    BY <2>1, <2>3
  <2> QED BY <1>2, <2>1, <2>2, <2>3, <2>4
<1> QED BY SMTT(30), <1>3

\* The depth of a tree: above its parts', and by one only.
LEMMA DepthOfTree ==
  ASSUME NEW t \in Strategies
  PROVE  /\ Depth[t] \in Nat
         /\ ~IsComposite(t) => Depth[t] = 0
         /\ IsComposite(t) => Depth[t] >= 1
         /\ IsComposite(t) => \A d \in Nat : (\A i \in DOMAIN t.parts : Depth[t.parts[i]] <= d) => Depth[t] <= d + 1
<1> DEFINE S == Strategies
           V == Nat
           body(u, g) == IF IsComposite(u) THEN 1 + Max({0} \cup {g[u.parts[i]] : i \in DOMAIN u.parts})
                         ELSE 0
           step == [p \in S \X [S -> V] |-> body(p[1], p[2])]
           depth == CHOOSE g : g = [u \in S |-> body(u, g)]
<1>1. Depth = depth
  BY Zenon DEF Depth
<1> HIDE DEF depth
<1>2. Depth \in [S -> Nat]
  BY TreesOfStrategies
<1>3. ASSUME NEW u \in S, NEW g \in [S -> V], IsComposite(u)
      PROVE  LET below == {0} \cup {g[u.parts[i]] : i \in DOMAIN u.parts}
             IN  Max(below) \in below /\ (\A x \in below : x <= Max(below)) /\ Max(below) \in Nat
  <2> DEFINE below == {0} \cup {g[u.parts[i]] : i \in DOMAIN u.parts}
             f == [i \in DOMAIN u.parts |-> g[u.parts[i]]]
             n == Len(u.parts)
  <2>1. n \in Nat /\ DOMAIN u.parts = 1..n /\ \A i \in DOMAIN u.parts : u.parts[i] \in S
    BY <1>3, TreesOfStrategies
  <2> HIDE DEF n
  <2>2. \A i \in 1..n : f[i] \in Nat /\ f[i] = g[u.parts[i]]
    BY <2>1
  <2>3. PICK b \in Nat : \A i \in 1..n : f[i] <= b
    <3> HIDE DEF f
    <3> QED BY <2>1, <2>2, BoundedValues
  <2>4. below \subseteq Nat /\ below # {} /\ \A x \in below : x <= b
    <3> HIDE DEF f
    <3> QED BY <2>1, <2>2, <2>3
  <2>5. Max(below) \in below /\ \A x \in below : x <= Max(below)
    <3> HIDE DEF below
    <3> QED BY <2>4, BoundedMax
  <2> HIDE DEF below
  <2>6. Max(below) \in Nat
    BY <2>4, <2>5
  <2> QED BY <2>5, <2>6 DEF below
<1>4. step \in [S \X [S -> V] -> V]
  <2>1. ASSUME NEW u \in S, NEW g \in [S -> V] PROVE body(u, g) \in V
    <3> DEFINE m == Max({0} \cup {g[u.parts[i]] : i \in DOMAIN u.parts})
    <3>1. CASE IsComposite(u)
      <4>1. m \in Nat
        BY <1>3, <3>1
      <4>2. body(u, g) = 1 + m
        BY <3>1
      <4> HIDE DEF m, body
      <4> QED BY <4>1, <4>2
    <3>2. CASE ~IsComposite(u)
      <4>1. body(u, g) = 0
        BY <3>2
      <4> HIDE DEF body
      <4> QED BY <4>1
    <3> QED BY <3>1, <3>2
  <2> HIDE DEF body
  <2> QED BY <2>1
<1>5. ASSUME NEW u \in S, NEW g \in [S -> V], NEW h \in [S -> V], \A w \in S : Depth[w] < Depth[u] => g[w] = h[w]
      PROVE  body(u, g) = body(u, h)
  <2>1. CASE IsComposite(u)
    <3>1. \A i \in DOMAIN u.parts : g[u.parts[i]] = h[u.parts[i]]
      BY <1>5, <2>1, TreesOfStrategies
    <3>2. {g[u.parts[i]] : i \in DOMAIN u.parts} = {h[u.parts[i]] : i \in DOMAIN u.parts}
      BY <3>1
    <3> QED BY <3>2
  <2>2. CASE ~IsComposite(u)
    BY <2>2
  <2> QED BY <2>1, <2>2
<1>6. PICK g \in [S -> V] : \A u \in S : g[u] = body(u, g)
  <2>1. \A u \in S : \A g \in [S -> V] : step[<<u, g>>] = body(u, g)
    <3> HIDE DEF body
    <3> QED BY DEF step
  <2>2. V # {}
    OBVIOUS
  <2>3. LooksBelow(step, S, Depth, V)
    <3> HIDE DEF body, step, V, S
    <3> QED BY <1>2, <1>4, <1>5, <2>1, <2>2 DEF LooksBelow
  <2>4. Solutions(S, V, step) # {}
    <3> HIDE DEF step, V, S
    <3> QED BY <2>3, Recursion
  <2> HIDE DEF body, step, V, S
  <2> QED BY <2>1, <2>4 DEF Solutions
<1>7. g = [u \in S |-> body(u, g)]
  <2> HIDE DEF body, S
  <2> QED BY <1>6
<1>8. depth = [u \in S |-> body(u, depth)]
  <2> HIDE DEF body
  <2> QED BY <1>7, Zenon DEF depth
<1>9. Depth[t] = body(t, Depth)
  <2> HIDE DEF body
  <2> QED BY <1>1, <1>8
<1>10. ASSUME IsComposite(t), NEW d \in Nat, \A i \in DOMAIN t.parts : Depth[t.parts[i]] <= d
       PROVE  Depth[t] <= d + 1
  <2> DEFINE below == {0} \cup {Depth[t.parts[i]] : i \in DOMAIN t.parts}
  <2>1. Max(below) \in below /\ Max(below) \in Nat
    BY <1>2, <1>3, <1>10
  <2>2. \A x \in below : x <= d
    BY <1>10
  <2>3. Depth[t] = 1 + Max(below)
    BY <1>9, <1>10
  <2> HIDE DEF below
  <2> QED BY <2>1, <2>2, <2>3
<1>11. ASSUME IsComposite(t) PROVE Depth[t] >= 1
  <2> DEFINE m == Max({0} \cup {Depth[t.parts[i]] : i \in DOMAIN t.parts})
  <2>1. m \in Nat
    BY <1>2, <1>3, <1>11
  <2>2. Depth[t] = 1 + m
    BY <1>9, <1>11
  <2> HIDE DEF m
  <2> QED BY <2>1, <2>2
<1>12. ASSUME ~IsComposite(t) PROVE Depth[t] = 0
  BY <1>9, <1>12
<1> HIDE DEF body
<1> QED BY <1>2, <1>10, <1>11, <1>12

\* The moments of a joined strategy.
LEMMA MomentsJoined ==
  ASSUME NEW s \in StopTrees, NEW t \in StopTrees
  PROVE  /\ AnyOf(Flatten("any", <<s, t>>)) \in StopTrees =>
              StopMoments(AnyOf(Flatten("any", <<s, t>>))) = StopMoments(s) \cup StopMoments(t)
         /\ AllOf(Flatten("all", <<s, t>>)) \in StopTrees =>
              StopMoments(AllOf(Flatten("all", <<s, t>>))) = StopMoments(s) \cap StopMoments(t)
<1> DEFINE one == AnyOf(Flatten("any", <<s, t>>))
           all == AllOf(Flatten("all", <<s, t>>))
<1>1. ASSUME NEW m \in Moments
      PROVE  /\ one \in StopTrees =>
                  Stopping(m[1], m[2])[one] = (Stopping(m[1], m[2])[s] \/ Stopping(m[1], m[2])[t])
             /\ all \in StopTrees =>
                  Stopping(m[1], m[2])[all] = (Stopping(m[1], m[2])[s] /\ Stopping(m[1], m[2])[t])
  <2>1. Combines(Stopping(m[1], m[2]), StopTrees)
    BY StoppingCombines
  <2> QED BY <2>1, FlattenedAnswer
<1> HIDE DEF one, all
<1>2. ASSUME one \in StopTrees PROVE StopMoments(one) = StopMoments(s) \cup StopMoments(t)
  <2> SUFFICES ASSUME NEW m \in Moments
               PROVE  ShouldStop(one, m[1], m[2]) <=> ShouldStop(s, m[1], m[2]) \/ ShouldStop(t, m[1], m[2])
    BY DEF StopMoments
  <2> QED BY <1>1, <1>2, Zenon DEF ShouldStop
<1>3. ASSUME all \in StopTrees PROVE StopMoments(all) = StopMoments(s) \cap StopMoments(t)
  <2> SUFFICES ASSUME NEW m \in Moments
               PROVE  ShouldStop(all, m[1], m[2]) <=> ShouldStop(s, m[1], m[2]) /\ ShouldStop(t, m[1], m[2])
    BY DEF StopMoments
  <2> QED BY <1>1, <1>3, Zenon DEF ShouldStop
<1> QED BY <1>2, <1>3 DEF one, all

\* The outcomes of joined conditions.
LEMMA RetriedJoined ==
  ASSUME NEW s \in ConditionTrees, NEW t \in ConditionTrees
  PROVE  /\ AnyOf(Flatten("any", <<s, t>>)) \in ConditionTrees =>
              Retried(AnyOf(Flatten("any", <<s, t>>))) = Retried(s) \cup Retried(t)
         /\ AllOf(Flatten("all", <<s, t>>)) \in ConditionTrees =>
              Retried(AllOf(Flatten("all", <<s, t>>))) = Retried(s) \cap Retried(t)
<1> DEFINE one == AnyOf(Flatten("any", <<s, t>>))
           all == AllOf(Flatten("all", <<s, t>>))
<1>1. ASSUME NEW o \in Outcomes
      PROVE  /\ one \in ConditionTrees => Retrying(o)[one] = (Retrying(o)[s] \/ Retrying(o)[t])
             /\ all \in ConditionTrees => Retrying(o)[all] = (Retrying(o)[s] /\ Retrying(o)[t])
  <2>1. Combines(Retrying(o), ConditionTrees)
    BY RetryingCombines
  <2> QED BY <2>1, FlattenedAnswer
<1> HIDE DEF one, all
<1>2. ASSUME one \in ConditionTrees PROVE Retried(one) = Retried(s) \cup Retried(t)
  <2> SUFFICES ASSUME NEW o \in Outcomes
               PROVE  ShouldRetry(one, o) <=> ShouldRetry(s, o) \/ ShouldRetry(t, o)
    BY DEF Retried
  <2> QED BY <1>1, <1>2, Zenon DEF ShouldRetry
<1>3. ASSUME all \in ConditionTrees PROVE Retried(all) = Retried(s) \cap Retried(t)
  <2> SUFFICES ASSUME NEW o \in Outcomes
               PROVE  ShouldRetry(all, o) <=> ShouldRetry(s, o) /\ ShouldRetry(t, o)
    BY DEF Retried
  <2> QED BY <1>1, <1>3, Zenon DEF ShouldRetry
<1> QED BY <1>2, <1>3 DEF one, all

\* Simple conditions retry what they name.
LEMMA RetriedNames ==
  /\ \A types \in SUBSET Types : OnErrors(types) \in ConditionTrees => Retried(OnErrors(types)) = UNION types
  /\ \A values \in SUBSET Values : OnValues(values) \in ConditionTrees => Retried(OnValues(values)) = values
  /\ \A outcomes \in SUBSET Outcomes :
       OnOutcomes(outcomes) \in ConditionTrees => Retried(OnOutcomes(outcomes)) = outcomes
<1>1. ASSUME NEW types \in SUBSET Types, OnErrors(types) \in ConditionTrees
      PROVE  Retried(OnErrors(types)) = UNION types
  <2> DEFINE c == OnErrors(types)
  <2>1. c.kind = "exception" /\ c.types = types
    BY DEF OnErrors
  <2>2. UNION types \subseteq Outcomes
    BY BuilderAssumption DEF Outcomes
  <2> HIDE DEF c
  <2>3. \A o \in Outcomes : ShouldRetry(c, o) <=> o \in UNION types
    BY <1>1, <2>1, RetryingCombines, Zenon DEF ShouldRetry, c
  <2> QED BY <2>2, <2>3 DEF Retried, c
<1>2. ASSUME NEW values \in SUBSET Values, OnValues(values) \in ConditionTrees
      PROVE  Retried(OnValues(values)) = values
  <2> DEFINE c == OnValues(values)
  <2>1. c.kind = "result" /\ c.values = values
    BY DEF OnValues
  <2> HIDE DEF c
  <2>2. \A o \in Outcomes : ShouldRetry(c, o) <=> o \in Values /\ o \in values
    BY <1>2, <2>1, RetryingCombines, Zenon DEF ShouldRetry, c
  <2> QED BY <2>2 DEF Retried, c, Outcomes
<1>3. ASSUME NEW outcomes \in SUBSET Outcomes, OnOutcomes(outcomes) \in ConditionTrees
      PROVE  Retried(OnOutcomes(outcomes)) = outcomes
  <2> DEFINE c == OnOutcomes(outcomes)
  <2>1. c.kind = "custom" /\ c.outcomes = outcomes
    BY DEF OnOutcomes
  <2> HIDE DEF c
  <2>2. \A o \in Outcomes : ShouldRetry(c, o) <=> o \in outcomes
    BY <1>3, <2>1, RetryingCombines, Zenon DEF ShouldRetry, c
  <2> QED BY <2>2 DEF Retried, c
<1> QED BY <1>1, <1>2, <1>3

\* The parts of a joined tree.
LEMMA JoinedParts ==
  ASSUME NEW T \in {StopTrees, ConditionTrees}, NEW k \in {"any", "all"}, NEW s \in T, NEW t, t \in T \/ t.kind # k
  PROVE  Elements(Flatten(k, <<s, t>>)) = Elements(Pieces(k, s)) \cup Elements(Pieces(k, t))
<1> DEFINE X == T \cup {t}
<1>1. ASSUME NEW v \in {s, t} PROVE Pieces(k, v) \in Seq(X)
  <2>1. CASE v.kind = k
    <3>1. v \in T
      BY <1>1, <2>1
    <3>2. v.parts \in Seq(T)
      BY <2>1, <3>1, TreesOfStrategies DEF IsComposite
    <3>3. v.parts \in Seq(X)
      BY <3>2, SeqMonotonic
    <3> QED BY <2>1, <3>3 DEF Pieces
  <2>2. CASE v.kind # k
    BY <2>2 DEF Pieces
  <2> QED BY <2>1, <2>2
<1> HIDE DEF X
<1> QED BY <1>1, FlattenPair

\* A condition joined by or_ is considered when the tree it joins is.
LEMMA JoinedPart ==
  ASSUME NEW s \in ConditionTrees, NEW c, c.kind # "any", AnyOf(Flatten("any", <<s, c>>)) \in ConditionTrees
  PROVE  c \in ConditionTrees
<1> DEFINE w == AnyOf(Flatten("any", <<s, c>>))
<1>1. w.kind = "any" /\ w.parts = Flatten("any", <<s, c>>)
  BY DEF AnyOf
<1>2. w.parts \in Seq(ConditionTrees)
  BY <1>1, TreesOfStrategies DEF IsComposite
<1>3. Elements(w.parts) = Elements(Pieces("any", s)) \cup Elements(Pieces("any", c))
  BY <1>1, JoinedParts
<1>4. c \in Elements(Pieces("any", c))
  <2>1. Pieces("any", c) = <<c>> /\ 1 \in DOMAIN <<c>> /\ <<c>>[1] = c
    BY DEF Pieces
  <2> QED BY <2>1, Zenon DEF Elements
<1> HIDE DEF w
<1>5. PICK i \in DOMAIN w.parts : w.parts[i] = c
  BY <1>3, <1>4 DEF Elements
<1> QED BY <1>2, <1>5

\* Joining a limit adds a level at most, and none to a composite of the kind.
LEMMA JoinedDepth ==
  ASSUME NEW k \in {"any", "all"}, NEW s \in StopTrees, NEW t \in StopTrees, ~IsComposite(t),
         NEW w \in StopTrees, w.kind = k, w.parts = Flatten(k, <<s, t>>)
  PROVE  Depth[w] <= Depth[s] + 1 /\ (s.kind = k => Depth[w] <= Depth[s])
<1>1. s \in Strategies /\ t \in Strategies /\ w \in Strategies /\ IsComposite(w)
  BY DEF Strategies, IsComposite
<1>2. Depth[s] \in Nat /\ Depth[t] = 0 /\ Depth[w] \in Nat
  BY <1>1, DepthOfTree
<1>3. Elements(w.parts) = Elements(Pieces(k, s)) \cup Elements(Pieces(k, t))
  BY JoinedParts
<1>4. Pieces(k, t) = <<t>>
  BY DEF Pieces, IsComposite
<1>5. ASSUME NEW i \in DOMAIN w.parts
      PROVE  Depth[w.parts[i]] \in Nat /\ Depth[w.parts[i]] <= Depth[s] /\ (s.kind = k => Depth[w.parts[i]] < Depth[s])
  <2> DEFINE x == w.parts[i]
  <2>1. x \in Elements(Pieces(k, s)) \/ x \in Elements(Pieces(k, t))
    BY <1>3 DEF Elements
  <2>2. s.kind = k => IsComposite(s) /\ Depth[s] >= 1
    BY <1>1, DepthOfTree DEF IsComposite
  <2> HIDE DEF x
  <2>3. CASE x \in Elements(Pieces(k, t))
    <3>1. x = t
      BY <1>4, <2>3 DEF Elements
    <3> QED BY <1>2, <2>2, <3>1 DEF x
  <2>4. CASE x \in Elements(Pieces(k, s)) /\ s.kind = k
    <3>1. PICK j \in DOMAIN s.parts : x = s.parts[j]
      BY <2>4 DEF Elements, Pieces
    <3>2. Depth[x] \in Nat /\ Depth[x] < Depth[s]
      BY <1>1, <2>2, <2>4, <3>1, TreesOfStrategies
    <3> QED BY <1>2, <3>2 DEF x
  <2>5. CASE x \in Elements(Pieces(k, s)) /\ s.kind # k
    <3>1. x = s
      BY <2>5 DEF Elements, Pieces
    <3> QED BY <1>2, <2>5, <3>1 DEF x
  <2> QED BY <2>1, <2>3, <2>4, <2>5
<1>6. Depth[w] <= Depth[s] + 1
  BY <1>1, <1>2, <1>5, DepthOfTree
<1>7. ASSUME s.kind = k PROVE Depth[w] <= Depth[s]
  <2>1. Depth[s] >= 1
    BY <1>1, <1>7, DepthOfTree DEF IsComposite
  <2> DEFINE d == Depth[s] - 1
  <2>2. d \in Nat /\ d + 1 = Depth[s]
    BY <1>2, <2>1
  <2>3. \A i \in DOMAIN w.parts : Depth[w.parts[i]] <= d
    BY <1>2, <1>5, <1>7
  <2> HIDE DEF d
  <2>4. Depth[w] <= d + 1
    BY <1>1, <2>2, <2>3, DepthOfTree
  <2> QED BY <2>2, <2>4
<1> QED BY <1>6, <1>7

-----------------------------------------------------------------------------
(* The invariant of a chain of builder calls. *)

\* The inductive invariant of a chain of calls.
StopKept ==
  /\ stop \in StopTrees /\ turns \in Nat /\ lastOp \in {"set", "or", "and"}
  /\ lastOp = "or" => stop.kind = "any"
  /\ lastOp = "and" => stop.kind = "all"
  /\ StopsAsWritten
ConditionKept == condition \in ConditionTrees /\ RetriesAsWritten
BuilderInv == StopKept /\ ConditionKept

\* The default policy means the defaults.
LEMMA BuilderStarts == BuilderInit => BuilderInv
<1> SUFFICES ASSUME BuilderInit PROVE BuilderInv
  OBVIOUS
<1>1. stop \in StopTrees /\ ~IsComposite(stop)
  BY TreeAssumption DEF BuilderInit, Attempts, IsComposite
<1>2. Depth[stop] = 0
  BY <1>1, DepthOfTree DEF Strategies
<1>3. StopKept
  BY <1>1, <1>2 DEF StopKept, StopsAsWritten, BuilderInit
<1>4. condition \in ConditionTrees /\ condition = OnErrors({Exception})
  BY TreeAssumption DEF BuilderInit, DefaultCondition
<1>5. {Exception} \in SUBSET Types /\ UNION {Exception} = Exceptions
  BY BuilderAssumption DEF Exception
<1>6. Retried(condition) = Exceptions
  BY <1>4, <1>5, RetriedNames
<1> QED BY <1>3, <1>4, <1>6 DEF BuilderInv, ConditionKept, RetriesAsWritten, BuilderInit

\* A call that changes the stop strategy keeps the invariant.
LEMMA StopSteps ==
  ASSUME BuilderInv, StopCall, stop' \in StopTrees
  PROVE  BuilderInv'
<1>1. UNCHANGED <<condition, retries>>
  BY DEF StopCall, SetStop, OrStop, AndStop
<1>2. ConditionKept'
  BY <1>1 DEF BuilderInv, ConditionKept, RetriesAsWritten
<1>3. ASSUME NEW t \in Limits \cup UserStops, SetStop(t) PROVE StopKept'
  <2>1. t \in StopTrees /\ t \in Strategies
    BY TreeAssumption DEF Strategies
  <2>2. Depth[t] \in Nat
    BY <2>1, DepthOfTree
  <2> QED BY <1>3, <2>1, <2>2 DEF SetStop, StopKept, StopsAsWritten
<1>4. ASSUME NEW t \in Limits
      PROVE  t \in StopTrees /\ ~IsComposite(t) /\ stop \in StopTrees /\ Depth[stop] \in Nat
  BY TreeAssumption, DepthOfTree DEF BuilderInv, StopKept, Strategies
<1>5. ASSUME NEW t \in Limits, OrStop(t) PROVE StopKept'
  <2> DEFINE w == AnyOf(Flatten("any", <<stop, t>>))
  <2>1. w = stop' /\ w \in StopTrees /\ w.kind = "any" /\ w.parts = Flatten("any", <<stop, t>>)
    BY <1>5 DEF OrStop, AnyOf
  <2>2. StopMoments(stop') = StopMoments(stop) \cup StopMoments(t)
    BY <1>4, <2>1, MomentsJoined
  <2> HIDE DEF w
  <2>3. Depth[w] <= Depth[stop] + 1 /\ (stop.kind = "any" => Depth[w] <= Depth[stop])
    BY <1>4, <2>1, JoinedDepth
  <2>4. Depth[w] \in Nat
    BY <2>1, DepthOfTree DEF Strategies
  <2>5. turns' \in Nat /\ Depth[w] <= turns'
    BY <1>4, <1>5, <2>3, <2>4 DEF OrStop, BuilderInv, StopKept, StopsAsWritten
  <2> QED BY <1>5, <2>1, <2>2, <2>5 DEF OrStop, BuilderInv, StopKept, StopsAsWritten
<1>6. ASSUME NEW t \in Limits, AndStop(t) PROVE StopKept'
  <2> DEFINE w == AllOf(Flatten("all", <<stop, t>>))
  <2>1. w = stop' /\ w \in StopTrees /\ w.kind = "all" /\ w.parts = Flatten("all", <<stop, t>>)
    BY <1>6 DEF AndStop, AllOf
  <2>2. StopMoments(stop') = StopMoments(stop) \cap StopMoments(t)
    BY <1>4, <2>1, MomentsJoined
  <2> HIDE DEF w
  <2>3. Depth[w] <= Depth[stop] + 1 /\ (stop.kind = "all" => Depth[w] <= Depth[stop])
    BY <1>4, <2>1, JoinedDepth
  <2>4. Depth[w] \in Nat
    BY <2>1, DepthOfTree DEF Strategies
  <2>5. turns' \in Nat /\ Depth[w] <= turns'
    BY <1>4, <1>6, <2>3, <2>4 DEF AndStop, BuilderInv, StopKept, StopsAsWritten
  <2> QED BY <1>6, <2>1, <2>2, <2>5 DEF AndStop, BuilderInv, StopKept, StopsAsWritten
<1> QED BY <1>2, <1>3, <1>5, <1>6 DEF StopCall, BuilderInv

\* A call that changes the condition keeps the invariant.
LEMMA ConditionSteps ==
  ASSUME BuilderInv, ConditionCall, condition' \in ConditionTrees
  PROVE  BuilderInv'
<1>1. UNCHANGED <<stop, stopsAt, turns, lastOp>>
  BY DEF ConditionCall, On, RetryIfResult, RetryIf, AnyConditions, AllConditions, OrOn,
         OrRetryIfResult, SetCondition
<1>2. StopKept'
  BY <1>1 DEF BuilderInv, StopKept, StopsAsWritten
<1> SUFFICES ConditionKept'
  BY <1>2 DEF BuilderInv
<1>3. ASSUME NEW c, NEW asked, SetCondition(c, asked), c \in ConditionTrees => Retried(c) = asked
      PROVE  ConditionKept'
  BY <1>3 DEF SetCondition, ConditionKept, RetriesAsWritten
<1>4. condition \in ConditionTrees /\ Retried(condition) = retries
  BY DEF BuilderInv, ConditionKept, RetriesAsWritten
<1>5. CASE On
  <2>1. PICK types \in (SUBSET Types) \ {{}} : SetCondition(OnErrors(types), UNION types)
    BY <1>5 DEF On
  <2> QED BY <1>3, <2>1, RetriedNames
<1>6. CASE RetryIfResult
  <2>1. PICK values \in SUBSET Values : SetCondition(OnValues(values), values)
    BY <1>6 DEF RetryIfResult
  <2> QED BY <1>3, <2>1, RetriedNames
<1>7. CASE RetryIf
  <2>1. PICK outcomes \in SUBSET Outcomes : SetCondition(OnOutcomes(outcomes), outcomes)
    BY <1>7 DEF RetryIf
  <2> QED BY <1>3, <2>1, RetriedNames
<1>8. CASE AnyConditions
  <2>1. PICK c \in Parts, d \in Parts :
          SetCondition(AnyOf(Flatten("any", <<c, d>>)), Retried(c) \cup Retried(d))
    BY <1>8 DEF AnyConditions
  <2>2. c \in ConditionTrees /\ d \in ConditionTrees
    BY TreeAssumption
  <2> QED BY <1>3, <2>1, <2>2, RetriedJoined
<1>9. CASE AllConditions
  <2>1. PICK c \in Parts, d \in Parts :
          SetCondition(AllOf(Flatten("all", <<c, d>>)), Retried(c) \cap Retried(d))
    BY <1>9 DEF AllConditions
  <2>2. c \in ConditionTrees /\ d \in ConditionTrees
    BY TreeAssumption
  <2> QED BY <1>3, <2>1, <2>2, RetriedJoined
<1>10. ASSUME NEW c, c.kind # "any", NEW named, SetCondition(OrCondition(c), retries \cup named),
              c \in ConditionTrees => Retried(c) = named
       PROVE  ConditionKept'
  <2> DEFINE w == AnyOf(Flatten("any", <<condition, c>>))
  <2>1. w \in ConditionTrees /\ SetCondition(w, retries \cup named)
    BY <1>10 DEF SetCondition, OrCondition
  <2>2. c \in ConditionTrees
    BY <1>4, <1>10, <2>1, JoinedPart
  <2>3. Retried(w) = retries \cup named
    BY <1>4, <1>10, <2>1, <2>2, RetriedJoined
  <2> HIDE DEF w
  <2> QED BY <1>3, <2>1, <2>3
<1>11. CASE OrOn
  <2>1. PICK types \in (SUBSET Types) \ {{}} :
          SetCondition(OrCondition(OnErrors(types)), retries \cup UNION types)
    BY <1>11 DEF OrOn
  <2> DEFINE c == OnErrors(types)
  <2>2. c.kind # "any" /\ (c \in ConditionTrees => Retried(c) = UNION types)
    BY RetriedNames DEF OnErrors
  <2> HIDE DEF c
  <2> QED BY <1>10, <2>1, <2>2 DEF c
<1>12. CASE OrRetryIfResult
  <2>1. PICK values \in SUBSET Values :
          SetCondition(OrCondition(OnValues(values)), retries \cup values)
    BY <1>12 DEF OrRetryIfResult
  <2> DEFINE c == OnValues(values)
  <2>2. c.kind # "any" /\ (c \in ConditionTrees => Retried(c) = values)
    BY RetriedNames DEF OnValues
  <2> HIDE DEF c
  <2> QED BY <1>10, <2>1, <2>2 DEF c
<1> QED BY <1>5, <1>6, <1>7, <1>8, <1>9, <1>11, <1>12 DEF ConditionCall

\* Every chain of builder calls keeps the invariant.
THEOREM BuilderInvariant == BuilderSpec => []BuilderInv
<1>1. BuilderInit => BuilderInv
  BY BuilderStarts
<1>2. BuilderInv /\ [BuilderCall]_builderVars => BuilderInv'
  <2> SUFFICES ASSUME BuilderInv, [BuilderCall]_builderVars PROVE BuilderInv'
    OBVIOUS
  <2>1. CASE BuilderCall
    BY <2>1, StopSteps, ConditionSteps DEF BuilderCall
  <2>2. CASE UNCHANGED builderVars
    BY <2>2 DEF builderVars, BuilderInv, StopKept, ConditionKept, StopsAsWritten, RetriesAsWritten
  <2> QED BY <2>1, <2>2
<1> QED BY <1>1, <1>2, PTL DEF BuilderSpec

-----------------------------------------------------------------------------
(* The analyses of stop strategies and of conditions. *)

\* Among any trees there is one none of whose parts is among them.
LEMMA LeastTree ==
  ASSUME NEW T, T \in {StopTrees, ConditionTrees}, NEW Bad, Bad \subseteq T, Bad # {}
  PROVE  \E t \in Bad : IsComposite(t) =>
           /\ t.parts \in Seq(T) /\ t.parts # <<>>
           /\ \A i \in DOMAIN t.parts : t.parts[i] \in T /\ t.parts[i] \notin Bad
<1>1. T \subseteq Strategies
  BY DEF Strategies
<1> DEFINE rank == [t \in T |-> Depth[t]]
<1>2. rank \in [T -> Nat] /\ \A t \in T : rank[t] = Depth[t]
  BY <1>1, TreesOfStrategies
<1>3. PICK t \in Bad : \A u \in Bad : ~(rank[u] < rank[t])
  <2> HIDE DEF rank
  <2> QED BY <1>2, LeastRank
<1> HIDE DEF rank
<1>4. ASSUME IsComposite(t)
      PROVE  /\ t.parts \in Seq(T) /\ t.parts # <<>>
             /\ \A i \in DOMAIN t.parts : t.parts[i] \in T /\ t.parts[i] \notin Bad
  <2>1. t \in T /\ t \in Strategies
    BY <1>1
  <2>2. t.parts \in Seq(T) /\ t.parts # <<>>
    BY <1>4, <2>1, TreeAssumption DEF IsComposite
  <2>3. ASSUME NEW i \in DOMAIN t.parts PROVE t.parts[i] \in T /\ t.parts[i] \notin Bad
    <3>1. t.parts[i] \in T
      BY <2>2
    <3>2. Depth[t.parts[i]] < Depth[t]
      BY <1>4, <2>1, TreesOfStrategies
    <3> QED BY <1>2, <1>3, <2>1, <3>1, <3>2
  <2> QED BY <2>2, <2>3
<1> QED BY <1>4

\* _stop_is_infinite, by the kind of strategy.
LEMMA InfiniteOfTree ==
  ASSUME NEW t \in StopTrees
  PROVE  /\ StopIsInfinite(t) \in BOOLEAN
         /\ t.kind = "forever" => StopIsInfinite(t)
         /\ t.kind \in {"attempts", "max_time"} => ~StopIsInfinite(t)
         /\ t.kind = "any" => (StopIsInfinite(t) <=> \A i \in DOMAIN t.parts : StopIsInfinite(t.parts[i]))
         /\ t.kind = "all" => (StopIsInfinite(t) <=> \E i \in DOMAIN t.parts : StopIsInfinite(t.parts[i]))
<1> DEFINE leaf == [u \in StopTrees |-> u.kind = "forever"]
           h == Holds(StopTrees, leaf, {"all"}, {"any"})
<1>1. Answers(StopTrees, leaf, {"all"}, {"any"}, h)
  <2>1. {"any"} \subseteq {"any", "all"} /\ {"all"} \subseteq {"any", "all"}
    OBVIOUS
  <2> HIDE DEF leaf
  <2> QED BY <2>1, HoldsOfTree
<1>2. \A u : StopIsInfinite(u) = h[u]
  BY Zenon DEF StopIsInfinite
<1>3. leaf[t] = (t.kind = "forever")
  OBVIOUS
<1> HIDE DEF h, leaf
<1>4. /\ h[t] \in BOOLEAN
      /\ h[t] <=> \/ ~IsComposite(t) /\ leaf[t]
                  \/ t.kind \in {"all"} /\ \E i \in DOMAIN t.parts : h[t.parts[i]]
                  \/ t.kind \in {"any"} /\ \A i \in DOMAIN t.parts : h[t.parts[i]]
  BY <1>1, Zenon DEF Answers
<1>5. CASE t.kind \in {"forever", "attempts", "max_time"}
  BY <1>2, <1>3, <1>4, <1>5 DEF IsComposite
<1>6. CASE t.kind = "any"
  <2>1. h[t] <=> \A i \in DOMAIN t.parts : h[t.parts[i]]
    BY <1>4, <1>6 DEF IsComposite
  <2> QED BY <1>2, <1>4, <1>6, <2>1
<1>7. CASE t.kind = "all"
  <2>1. h[t] <=> \E i \in DOMAIN t.parts : h[t.parts[i]]
    BY <1>4, <1>7 DEF IsComposite
  <2> QED BY <1>2, <1>4, <1>7, <2>1
<1> QED BY <1>5, <1>6, <1>7, TreeAssumption DEF IsComposite

\* should_stop, by the kind of strategy.
LEMMA StopsOfTree ==
  ASSUME NEW t \in StopTrees, NEW n, NEW e
  PROVE  /\ ShouldStop(t, n, e) \in BOOLEAN
         /\ t.kind = "attempts" => (ShouldStop(t, n, e) <=> n >= t.maximum)
         /\ t.kind = "max_time" => (ShouldStop(t, n, e) <=> e >= t.seconds)
         /\ t.kind = "forever" => ~ShouldStop(t, n, e)
         /\ t.kind = "any" => (ShouldStop(t, n, e) <=> \E i \in DOMAIN t.parts : ShouldStop(t.parts[i], n, e))
         /\ t.kind = "all" => (ShouldStop(t, n, e) <=> \A i \in DOMAIN t.parts : ShouldStop(t.parts[i], n, e))
<1>1. Combines(Stopping(n, e), StopTrees)
  BY StoppingCombines
<1>2. /\ t.kind = "attempts" => (Stopping(n, e)[t] <=> ReachesAttempts(n, t.maximum))
      /\ t.kind = "max_time" => (Stopping(n, e)[t] <=> ReachesTime(e, t.seconds))
      /\ t.kind = "forever" => ~Stopping(n, e)[t]
  BY StoppingCombines
<1> DEFINE h == Stopping(n, e)
<1>3. \A u : ShouldStop(u, n, e) = h[u]
  BY Zenon DEF ShouldStop
<1> HIDE DEF h
<1>4. /\ h[t] \in BOOLEAN
      /\ t.kind = "any" => h[t] = (\E i \in DOMAIN t.parts : h[t.parts[i]])
      /\ t.kind = "all" => h[t] = (\A i \in DOMAIN t.parts : h[t.parts[i]])
  BY <1>1, Zenon DEF Combines, h
<1>5. /\ t.kind = "any" => (h[t] <=> (\E i \in DOMAIN t.parts : h[t.parts[i]]))
      /\ t.kind = "all" => (h[t] <=> (\A i \in DOMAIN t.parts : h[t.parts[i]]))
  BY <1>4
<1>6. /\ t.kind = "attempts" => (h[t] <=> n >= t.maximum)
      /\ t.kind = "max_time" => (h[t] <=> e >= t.seconds)
      /\ t.kind = "forever" => ~h[t]
  BY <1>2, Zenon DEF ReachesAttempts, ReachesTime, h
<1> QED BY <1>3, <1>4, <1>5, <1>6, Zenon

\* What is analysed as infinite never stops.
LEMMA InfiniteNeverStops ==
  ASSUME NEW n, NEW e, NEW s \in StopTrees, StopIsInfinite(s)
  PROVE  ~ShouldStop(s, n, e)
<1> DEFINE Bad == {t \in StopTrees : StopIsInfinite(t) /\ ShouldStop(t, n, e)}
<1> SUFFICES ASSUME Bad # {} PROVE FALSE
  OBVIOUS
<1>1. PICK t \in Bad : IsComposite(t) =>
           /\ t.parts \in Seq(StopTrees) /\ t.parts # <<>>
           /\ \A i \in DOMAIN t.parts : t.parts[i] \in StopTrees /\ t.parts[i] \notin Bad
  <2>1. Bad \subseteq StopTrees
    OBVIOUS
  <2> HIDE DEF Bad
  <2> QED BY <2>1, LeastTree
<1>2. t \in StopTrees /\ StopIsInfinite(t) /\ ShouldStop(t, n, e)
  OBVIOUS
<1>3. IsComposite(t) => \A i \in DOMAIN t.parts :
           /\ t.parts[i] \in StopTrees /\ DOMAIN t.parts # {}
           /\ ~(StopIsInfinite(t.parts[i]) /\ ShouldStop(t.parts[i], n, e))
  BY <1>1
<1> HIDE DEF Bad
<1>4. IsComposite(t) => DOMAIN t.parts # {}
  BY <1>1
<1> QED BY <1>2, <1>3, <1>4, InfiniteOfTree, StopsOfTree, TreeAssumption DEF IsComposite

\* _stops_after_first_attempt, by the kind of strategy.
LEMMA AtOnceOfTree ==
  ASSUME NEW t \in StopTrees
  PROVE  /\ StopsAfterFirstAttempt(t) \in BOOLEAN
         /\ t.kind = "attempts" => (StopsAfterFirstAttempt(t) <=> t.maximum <= 1)
         /\ t.kind = "max_time" => (StopsAfterFirstAttempt(t) <=> t.seconds <= 0)
         /\ t.kind = "forever" => (StopsAfterFirstAttempt(t) <=> FALSE)
         /\ t.kind = "any" => (StopsAfterFirstAttempt(t) <=> \E i \in DOMAIN t.parts : StopsAfterFirstAttempt(t.parts[i]))
         /\ t.kind = "all" => (StopsAfterFirstAttempt(t) <=> \A i \in DOMAIN t.parts : StopsAfterFirstAttempt(t.parts[i]))
<1> DEFINE leaf == [u \in StopTrees |-> \/ u.kind = "attempts" /\ u.maximum <= 1
                                        \/ u.kind = "max_time" /\ u.seconds <= 0]
           h == Holds(StopTrees, leaf, {"any"}, {"all"})
<1>1. Answers(StopTrees, leaf, {"any"}, {"all"}, h)
  <2>1. {"any"} \subseteq {"any", "all"} /\ {"all"} \subseteq {"any", "all"}
    OBVIOUS
  <2> HIDE DEF leaf
  <2> QED BY <2>1, HoldsOfTree
<1>2. \A u : StopsAfterFirstAttempt(u) = h[u]
  BY Zenon DEF StopsAfterFirstAttempt
<1> HIDE DEF h
<1>3. /\ h[t] \in BOOLEAN
      /\ h[t] <=> \/ ~IsComposite(t) /\ leaf[t]
                  \/ t.kind \in {"any"} /\ \E i \in DOMAIN t.parts : h[t.parts[i]]
                  \/ t.kind \in {"all"} /\ \A i \in DOMAIN t.parts : h[t.parts[i]]
  <2> HIDE DEF leaf
  <2> QED BY <1>1, Zenon DEF Answers
<1>4. ~IsComposite(t) => (h[t] <=> leaf[t])
  <2> HIDE DEF leaf
  <2> QED BY <1>3 DEF IsComposite
<1>5. /\ h[t] \in BOOLEAN
      /\ t.kind = "attempts" => (h[t] <=> t.maximum <= 1)
      /\ t.kind = "max_time" => (h[t] <=> t.seconds <= 0)
      /\ t.kind = "forever" => (h[t] <=> FALSE)
  BY <1>3, <1>4 DEF IsComposite
<1> HIDE DEF leaf
<1>6. /\ t.kind = "any" => (h[t] <=> \E i \in DOMAIN t.parts : h[t.parts[i]])
      /\ t.kind = "all" => (h[t] <=> \A i \in DOMAIN t.parts : h[t.parts[i]])
  BY <1>3 DEF IsComposite
<1> QED BY <1>2, <1>5, <1>6, Zenon

\* _has_max_time, by the kind of strategy.
LEMMA MaxTimeOfTree ==
  ASSUME NEW t \in StopTrees
  PROVE  /\ HasMaxTime(t) \in BOOLEAN
         /\ t.kind = "attempts" => (HasMaxTime(t) <=> FALSE)
         /\ t.kind = "max_time" => (HasMaxTime(t) <=> TRUE)
         /\ t.kind = "forever" => (HasMaxTime(t) <=> FALSE)
         /\ t.kind = "any" => (HasMaxTime(t) <=> \E i \in DOMAIN t.parts : HasMaxTime(t.parts[i]))
         /\ t.kind = "all" => (HasMaxTime(t) <=> \E i \in DOMAIN t.parts : HasMaxTime(t.parts[i]))
<1> DEFINE leaf == [u \in StopTrees |-> u.kind = "max_time"]
           h == Holds(StopTrees, leaf, {"any", "all"}, {})
<1>1. Answers(StopTrees, leaf, {"any", "all"}, {}, h)
  <2>1. {"any", "all"} \subseteq {"any", "all"} /\ {} \subseteq {"any", "all"}
    OBVIOUS
  <2> HIDE DEF leaf
  <2> QED BY <2>1, HoldsOfTree
<1>2. \A u : HasMaxTime(u) = h[u]
  BY Zenon DEF HasMaxTime
<1> HIDE DEF h
<1>3. /\ h[t] \in BOOLEAN
      /\ h[t] <=> \/ ~IsComposite(t) /\ leaf[t]
                  \/ t.kind \in {"any", "all"} /\ \E i \in DOMAIN t.parts : h[t.parts[i]]
                  \/ t.kind \in {} /\ \A i \in DOMAIN t.parts : h[t.parts[i]]
  <2> HIDE DEF leaf
  <2> QED BY <1>1, Zenon DEF Answers
<1>4. ~IsComposite(t) => (h[t] <=> leaf[t])
  <2> HIDE DEF leaf
  <2> QED BY <1>3 DEF IsComposite
<1>5. /\ h[t] \in BOOLEAN
      /\ t.kind = "attempts" => (h[t] <=> FALSE)
      /\ t.kind = "max_time" => (h[t] <=> TRUE)
      /\ t.kind = "forever" => (h[t] <=> FALSE)
  BY <1>3, <1>4 DEF IsComposite
<1> HIDE DEF leaf
<1>6. /\ t.kind = "any" => (h[t] <=> \E i \in DOMAIN t.parts : h[t.parts[i]])
      /\ t.kind = "all" => (h[t] <=> \E i \in DOMAIN t.parts : h[t.parts[i]])
  BY <1>3 DEF IsComposite
<1> QED BY <1>2, <1>5, <1>6, Zenon

\* _has_result_condition, by the kind of condition.
LEMMA ResultOfTree ==
  ASSUME NEW t \in ConditionTrees
  PROVE  /\ HasResultCondition(t) \in BOOLEAN
         /\ t.kind = "exception" => (HasResultCondition(t) <=> FALSE)
         /\ t.kind = "result" => (HasResultCondition(t) <=> TRUE)
         /\ t.kind = "custom" => (HasResultCondition(t) <=> FALSE)
         /\ t.kind = "any" => (HasResultCondition(t) <=> \E i \in DOMAIN t.parts : HasResultCondition(t.parts[i]))
         /\ t.kind = "all" => (HasResultCondition(t) <=> \E i \in DOMAIN t.parts : HasResultCondition(t.parts[i]))
<1> DEFINE leaf == [d \in ConditionTrees |-> d.kind = "result"]
           h == Holds(ConditionTrees, leaf, {"any", "all"}, {})
<1>1. Answers(ConditionTrees, leaf, {"any", "all"}, {}, h)
  <2>1. {"any", "all"} \subseteq {"any", "all"} /\ {} \subseteq {"any", "all"}
    OBVIOUS
  <2> HIDE DEF leaf
  <2> QED BY <2>1, HoldsOfTree
<1>2. \A u : HasResultCondition(u) = h[u]
  BY Zenon DEF HasResultCondition
<1> HIDE DEF h
<1>3. /\ h[t] \in BOOLEAN
      /\ h[t] <=> \/ ~IsComposite(t) /\ leaf[t]
                  \/ t.kind \in {"any", "all"} /\ \E i \in DOMAIN t.parts : h[t.parts[i]]
                  \/ t.kind \in {} /\ \A i \in DOMAIN t.parts : h[t.parts[i]]
  <2> HIDE DEF leaf
  <2> QED BY <1>1, Zenon DEF Answers
<1>4. ~IsComposite(t) => (h[t] <=> leaf[t])
  <2> HIDE DEF leaf
  <2> QED BY <1>3 DEF IsComposite
<1>5. /\ h[t] \in BOOLEAN
      /\ t.kind = "exception" => (h[t] <=> FALSE)
      /\ t.kind = "result" => (h[t] <=> TRUE)
      /\ t.kind = "custom" => (h[t] <=> FALSE)
  BY <1>3, <1>4 DEF IsComposite
<1> HIDE DEF leaf
<1>6. /\ t.kind = "any" => (h[t] <=> \E i \in DOMAIN t.parts : h[t.parts[i]])
      /\ t.kind = "all" => (h[t] <=> \E i \in DOMAIN t.parts : h[t.parts[i]])
  BY <1>3 DEF IsComposite
<1> QED BY <1>2, <1>5, <1>6, Zenon

\* Whether a condition asks a predicate of the user, by its kind.
LEMMA UserOfTree ==
  ASSUME NEW t \in ConditionTrees
  PROVE  /\ HasUserCondition(t) \in BOOLEAN
         /\ t.kind = "exception" => (HasUserCondition(t) <=> FALSE)
         /\ t.kind = "result" => (HasUserCondition(t) <=> FALSE)
         /\ t.kind = "custom" => (HasUserCondition(t) <=> TRUE)
         /\ t.kind = "any" => (HasUserCondition(t) <=> \E i \in DOMAIN t.parts : HasUserCondition(t.parts[i]))
         /\ t.kind = "all" => (HasUserCondition(t) <=> \E i \in DOMAIN t.parts : HasUserCondition(t.parts[i]))
<1> DEFINE leaf == [d \in ConditionTrees |-> d.kind = "custom"]
           h == Holds(ConditionTrees, leaf, {"any", "all"}, {})
<1>1. Answers(ConditionTrees, leaf, {"any", "all"}, {}, h)
  <2>1. {"any", "all"} \subseteq {"any", "all"} /\ {} \subseteq {"any", "all"}
    OBVIOUS
  <2> HIDE DEF leaf
  <2> QED BY <2>1, HoldsOfTree
<1>2. \A u : HasUserCondition(u) = h[u]
  BY Zenon DEF HasUserCondition
<1> HIDE DEF h
<1>3. /\ h[t] \in BOOLEAN
      /\ h[t] <=> \/ ~IsComposite(t) /\ leaf[t]
                  \/ t.kind \in {"any", "all"} /\ \E i \in DOMAIN t.parts : h[t.parts[i]]
                  \/ t.kind \in {} /\ \A i \in DOMAIN t.parts : h[t.parts[i]]
  <2> HIDE DEF leaf
  <2> QED BY <1>1, Zenon DEF Answers
<1>4. ~IsComposite(t) => (h[t] <=> leaf[t])
  <2> HIDE DEF leaf
  <2> QED BY <1>3 DEF IsComposite
<1>5. /\ h[t] \in BOOLEAN
      /\ t.kind = "exception" => (h[t] <=> FALSE)
      /\ t.kind = "result" => (h[t] <=> FALSE)
      /\ t.kind = "custom" => (h[t] <=> TRUE)
  BY <1>3, <1>4 DEF IsComposite
<1> HIDE DEF leaf
<1>6. /\ t.kind = "any" => (h[t] <=> \E i \in DOMAIN t.parts : h[t.parts[i]])
      /\ t.kind = "all" => (h[t] <=> \E i \in DOMAIN t.parts : h[t.parts[i]])
  BY <1>3 DEF IsComposite
<1> QED BY <1>2, <1>5, <1>6, Zenon

\* _has_broad_exception and _has_broad_os_error, by the kind of condition.
LEMMA BroadOfTree ==
  ASSUME NEW t \in ConditionTrees, NEW broad
  PROVE  /\ HasBroad(t, broad) \in BOOLEAN
         /\ t.kind = "exception" => (HasBroad(t, broad) <=> t.types \cap broad # {})
         /\ t.kind = "result" => (HasBroad(t, broad) <=> FALSE)
         /\ t.kind = "custom" => (HasBroad(t, broad) <=> FALSE)
         /\ t.kind = "any" => (HasBroad(t, broad) <=> \E i \in DOMAIN t.parts : HasBroad(t.parts[i], broad))
         /\ t.kind = "all" => (HasBroad(t, broad) <=> \A i \in DOMAIN t.parts : HasBroad(t.parts[i], broad))
<1> DEFINE leaf == [d \in ConditionTrees |-> d.kind = "exception" /\ d.types \cap broad # {}]
           h == Holds(ConditionTrees, leaf, {"any"}, {"all"})
<1>1. Answers(ConditionTrees, leaf, {"any"}, {"all"}, h)
  <2>1. {"any"} \subseteq {"any", "all"} /\ {"all"} \subseteq {"any", "all"}
    OBVIOUS
  <2> HIDE DEF leaf
  <2> QED BY <2>1, HoldsOfTree
<1>2. \A u : HasBroad(u, broad) = h[u]
  BY Zenon DEF HasBroad
<1> HIDE DEF h
<1>3. /\ h[t] \in BOOLEAN
      /\ h[t] <=> \/ ~IsComposite(t) /\ leaf[t]
                  \/ t.kind \in {"any"} /\ \E i \in DOMAIN t.parts : h[t.parts[i]]
                  \/ t.kind \in {"all"} /\ \A i \in DOMAIN t.parts : h[t.parts[i]]
  <2> HIDE DEF leaf
  <2> QED BY <1>1, Zenon DEF Answers
<1>4. ~IsComposite(t) => (h[t] <=> leaf[t])
  <2> HIDE DEF leaf
  <2> QED BY <1>3 DEF IsComposite
<1>5. /\ h[t] \in BOOLEAN
      /\ t.kind = "exception" => (h[t] <=> t.types \cap broad # {})
      /\ t.kind = "result" => (h[t] <=> FALSE)
      /\ t.kind = "custom" => (h[t] <=> FALSE)
  BY <1>3, <1>4 DEF IsComposite
<1> HIDE DEF leaf
<1>6. /\ t.kind = "any" => (h[t] <=> \E i \in DOMAIN t.parts : h[t.parts[i]])
      /\ t.kind = "all" => (h[t] <=> \A i \in DOMAIN t.parts : h[t.parts[i]])
  BY <1>3 DEF IsComposite
<1> QED BY <1>2, <1>5, <1>6, Zenon

\* should_retry, by the kind of condition.
LEMMA RetriesOfTree ==
  ASSUME NEW t \in ConditionTrees, NEW o
  PROVE  /\ ShouldRetry(t, o) \in BOOLEAN
         /\ t.kind = "exception" => (ShouldRetry(t, o) <=> o \in UNION t.types)
         /\ t.kind = "result" => (ShouldRetry(t, o) <=> o \in Values /\ o \in t.values)
         /\ t.kind = "custom" => (ShouldRetry(t, o) <=> o \in t.outcomes)
         /\ t.kind = "any" => (ShouldRetry(t, o) <=> \E i \in DOMAIN t.parts : ShouldRetry(t.parts[i], o))
         /\ t.kind = "all" => (ShouldRetry(t, o) <=> \A i \in DOMAIN t.parts : ShouldRetry(t.parts[i], o))
<1> DEFINE h == Retrying(o)
<1>1. Combines(h, ConditionTrees)
  BY RetryingCombines
<1>2. /\ t.kind = "exception" => (h[t] <=> o \in UNION t.types)
      /\ t.kind = "result" => (h[t] <=> o \in Values /\ o \in t.values)
      /\ t.kind = "custom" => (h[t] <=> o \in t.outcomes)
  BY RetryingCombines
<1>3. \A u : ShouldRetry(u, o) = h[u]
  BY Zenon DEF ShouldRetry
<1> HIDE DEF h
<1>4. /\ h[t] \in BOOLEAN
      /\ t.kind = "any" => h[t] = (\E i \in DOMAIN t.parts : h[t.parts[i]])
      /\ t.kind = "all" => h[t] = (\A i \in DOMAIN t.parts : h[t.parts[i]])
  BY <1>1, Zenon DEF Combines
<1>5. /\ t.kind = "any" => (h[t] <=> \E i \in DOMAIN t.parts : h[t.parts[i]])
      /\ t.kind = "all" => (h[t] <=> \A i \in DOMAIN t.parts : h[t.parts[i]])
  BY <1>4
<1> QED BY <1>2, <1>3, <1>4, <1>5, Zenon

\* What is analysed as stopping after the first attempt does, whatever it takes.
LEMMA AtOnceStops ==
  ASSUME NEW n \in Nat \ {0}, NEW e \in Nat, NEW s \in StopTrees, StopsAfterFirstAttempt(s)
  PROVE  ShouldStop(s, n, e)
<1> DEFINE Bad == {t \in StopTrees : StopsAfterFirstAttempt(t) /\ ~ShouldStop(t, n, e)}
<1> SUFFICES ASSUME Bad # {} PROVE FALSE
  OBVIOUS
<1>1. PICK t \in Bad : IsComposite(t) =>
           /\ t.parts \in Seq(StopTrees) /\ t.parts # <<>>
           /\ \A i \in DOMAIN t.parts : t.parts[i] \in StopTrees /\ t.parts[i] \notin Bad
  <2>1. Bad \subseteq StopTrees
    OBVIOUS
  <2> HIDE DEF Bad
  <2> QED BY <2>1, LeastTree
<1>2. t \in StopTrees /\ StopsAfterFirstAttempt(t) /\ ~ShouldStop(t, n, e)
  OBVIOUS
<1>3. IsComposite(t) => \A i \in DOMAIN t.parts :
           StopsAfterFirstAttempt(t.parts[i]) => ShouldStop(t.parts[i], n, e)
  BY <1>1
<1> HIDE DEF Bad
<1>4. CASE IsComposite(t)
  BY <1>2, <1>3, <1>4, AtOnceOfTree, StopsOfTree DEF IsComposite
<1>5. CASE ~IsComposite(t)
  <2>1. \/ t.kind = "attempts" /\ t.maximum \in Nat
        \/ t.kind = "max_time" /\ t.seconds \in Nat
        \/ t.kind = "forever"
    BY <1>2, <1>5, TreeAssumption
  <2> QED BY <1>2, <2>1, AtOnceOfTree, StopsOfTree
<1> QED BY <1>4, <1>5

\* Without a time limit, the time does not matter.
LEMMA TimelessStops ==
  ASSUME NEW n, NEW e, NEW f, NEW s \in StopTrees, ~HasMaxTime(s)
  PROVE  ShouldStop(s, n, e) <=> ShouldStop(s, n, f)
<1> DEFINE Bad == {t \in StopTrees : ~HasMaxTime(t) /\ ~(ShouldStop(t, n, e) <=> ShouldStop(t, n, f))}
<1> SUFFICES ASSUME Bad # {} PROVE FALSE
  OBVIOUS
<1>1. PICK t \in Bad : IsComposite(t) =>
           /\ t.parts \in Seq(StopTrees) /\ t.parts # <<>>
           /\ \A i \in DOMAIN t.parts : t.parts[i] \in StopTrees /\ t.parts[i] \notin Bad
  <2>1. Bad \subseteq StopTrees
    OBVIOUS
  <2> HIDE DEF Bad
  <2> QED BY <2>1, LeastTree
<1>2. t \in StopTrees /\ ~HasMaxTime(t) /\ ~(ShouldStop(t, n, e) <=> ShouldStop(t, n, f))
  OBVIOUS
<1>3. IsComposite(t) => \A i \in DOMAIN t.parts :
           ~HasMaxTime(t.parts[i]) => (ShouldStop(t.parts[i], n, e) <=> ShouldStop(t.parts[i], n, f))
  BY <1>1
<1> HIDE DEF Bad
<1>4. CASE IsComposite(t)
  <2>1. \A i \in DOMAIN t.parts : ~HasMaxTime(t.parts[i])
    BY <1>2, <1>4, MaxTimeOfTree DEF IsComposite
  <2>2. \A i \in DOMAIN t.parts : ShouldStop(t.parts[i], n, e) <=> ShouldStop(t.parts[i], n, f)
    BY <1>3, <1>4, <2>1
  <2> QED BY <1>2, <1>4, <2>2, StopsOfTree DEF IsComposite
<1>5. CASE ~IsComposite(t)
  <2>1. t.kind = "attempts" \/ t.kind = "max_time" \/ t.kind = "forever"
    BY <1>2, <1>5, TreeAssumption
  <2> QED BY <1>2, <2>1, MaxTimeOfTree, StopsOfTree
<1> QED BY <1>4, <1>5

\* Without a predicate of the user, a condition is broad exactly when it retries the
\* errors that only the broad classes catch.
LEMMA BroadRetries ==
  ASSUME NEW o \in Exceptions, NEW broad, \A T \in Types : o \in T <=> T \in broad,
         NEW c \in ConditionTrees, ~HasUserCondition(c)
  PROVE  HasBroad(c, broad) <=> ShouldRetry(c, o)
<1> DEFINE Bad == {t \in ConditionTrees :
                     ~HasUserCondition(t) /\ ~(HasBroad(t, broad) <=> ShouldRetry(t, o))}
<1> SUFFICES ASSUME Bad # {} PROVE FALSE
  OBVIOUS
<1>1. PICK t \in Bad : IsComposite(t) =>
           /\ t.parts \in Seq(ConditionTrees) /\ t.parts # <<>>
           /\ \A i \in DOMAIN t.parts : t.parts[i] \in ConditionTrees /\ t.parts[i] \notin Bad
  <2>1. Bad \subseteq ConditionTrees
    OBVIOUS
  <2> HIDE DEF Bad
  <2> QED BY <2>1, LeastTree
<1>2. t \in ConditionTrees /\ ~HasUserCondition(t) /\ ~(HasBroad(t, broad) <=> ShouldRetry(t, o))
  OBVIOUS
<1>3. IsComposite(t) => \A i \in DOMAIN t.parts :
           ~HasUserCondition(t.parts[i]) => (HasBroad(t.parts[i], broad) <=> ShouldRetry(t.parts[i], o))
  BY <1>1
<1> HIDE DEF Bad
<1>4. CASE IsComposite(t)
  <2>1. \A i \in DOMAIN t.parts : ~HasUserCondition(t.parts[i])
    BY <1>2, <1>4, UserOfTree DEF IsComposite
  <2>2. \A i \in DOMAIN t.parts : HasBroad(t.parts[i], broad) <=> ShouldRetry(t.parts[i], o)
    BY <1>3, <1>4, <2>1
  <2> QED BY <1>2, <1>4, <2>2, BroadOfTree, RetriesOfTree DEF IsComposite
<1>5. CASE t.kind = "exception"
  <2>1. t.types \subseteq Types
    BY <1>2, <1>5, TreeAssumption DEF IsComposite
  <2>2. o \in UNION t.types <=> t.types \cap broad # {}
    BY <2>1
  <2> QED BY <1>2, <1>5, <2>2, BroadOfTree, RetriesOfTree
<1>6. CASE t.kind = "result"
  <2>1. o \notin Values
    BY BuilderAssumption
  <2> QED BY <1>2, <1>6, <2>1, BroadOfTree, RetriesOfTree
<1>7. CASE t.kind = "custom"
  BY <1>2, <1>7, UserOfTree
<1> QED BY <1>2, <1>4, <1>5, <1>6, <1>7, TreeAssumption

\* Without a predicate of the user, a condition that retries a value asks about values.
LEMMA RetriedResult ==
  ASSUME NEW o \in Values, NEW c \in ConditionTrees, ~HasUserCondition(c), ShouldRetry(c, o)
  PROVE  HasResultCondition(c)
<1> DEFINE Bad == {t \in ConditionTrees :
                     ~HasUserCondition(t) /\ ShouldRetry(t, o) /\ ~HasResultCondition(t)}
<1> SUFFICES ASSUME Bad # {} PROVE FALSE
  OBVIOUS
<1>1. PICK t \in Bad : IsComposite(t) =>
           /\ t.parts \in Seq(ConditionTrees) /\ t.parts # <<>>
           /\ \A i \in DOMAIN t.parts : t.parts[i] \in ConditionTrees /\ t.parts[i] \notin Bad
  <2>1. Bad \subseteq ConditionTrees
    OBVIOUS
  <2> HIDE DEF Bad
  <2> QED BY <2>1, LeastTree
<1>2. t \in ConditionTrees /\ ~HasUserCondition(t) /\ ShouldRetry(t, o) /\ ~HasResultCondition(t)
  OBVIOUS
<1>3. IsComposite(t) => \A i \in DOMAIN t.parts :
           ~HasUserCondition(t.parts[i]) /\ ShouldRetry(t.parts[i], o) => HasResultCondition(t.parts[i])
  BY <1>1
<1> HIDE DEF Bad
<1>4. CASE IsComposite(t)
  <2>1. DOMAIN t.parts # {}
    BY <1>1, <1>4
  <2>2. \A i \in DOMAIN t.parts : ~HasUserCondition(t.parts[i])
    BY <1>2, <1>4, UserOfTree DEF IsComposite
  <2>3. \E i \in DOMAIN t.parts : ShouldRetry(t.parts[i], o)
    BY <1>2, <1>4, <2>1, RetriesOfTree DEF IsComposite
  <2> QED BY <1>2, <1>3, <1>4, <2>2, <2>3, ResultOfTree DEF IsComposite
<1>5. CASE t.kind = "exception"
  <2>1. t.types \subseteq Types
    BY <1>2, <1>5, TreeAssumption DEF IsComposite
  <2>2. o \notin UNION t.types
    BY <2>1, BuilderAssumption
  <2> QED BY <1>2, <1>5, <2>2, RetriesOfTree
<1>6. CASE t.kind = "result"
  BY <1>2, <1>6, ResultOfTree
<1>7. CASE t.kind = "custom"
  BY <1>2, <1>7, UserOfTree
<1> QED BY <1>2, <1>4, <1>5, <1>6, <1>7, TreeAssumption

-----------------------------------------------------------------------------
(* Known attempt limits and estimates. *)

\* Naturals with one that is not above another have a least one.
LEMMA LeastOf ==
  ASSUME NEW S \in SUBSET Nat, S # {}
  PROVE  Min(S) \in S /\ \A x \in S : Min(S) <= x
<1>1. \E m \in S : \A n \in S : m <= n
  BY LeastNatural
<1> QED BY <1>1, Zenon DEF Min

\* What a function on trees says of the parts of t.
BelowOf(t, g) == IF IsComposite(t) THEN {g[t.parts[i]] : i \in DOMAIN t.parts} ELSE {}

\* The largest of what a function says of the parts of t is one of these naturals.
LEMMA LargestBelow ==
  ASSUME NEW t \in StopTrees, IsComposite(t), NEW g, BelowOf(t, g) \subseteq Nat
  PROVE  Max(BelowOf(t, g)) \in BelowOf(t, g) /\ \A x \in BelowOf(t, g) : x <= Max(BelowOf(t, g))
<1> DEFINE below == BelowOf(t, g)
           f == [i \in DOMAIN t.parts |-> g[t.parts[i]]]
           n == Len(t.parts)
<1>1. below = {g[t.parts[i]] : i \in DOMAIN t.parts}
  BY DEF BelowOf
<1>2. t.parts \in Seq(StopTrees) /\ t.parts # <<>>
  BY TreeAssumption DEF IsComposite
<1>3. n \in Nat /\ DOMAIN t.parts = 1..n /\ n # 0
  BY <1>2
<1>4. below \in SUBSET Nat /\ below # {}
  BY <1>1, <1>3
<1>5. \A i \in 1..n : f[i] \in Nat /\ f[i] = g[t.parts[i]]
  <2> HIDE DEF below, n
  <2> QED BY <1>1, <1>3, <1>4
<1>6. PICK b \in Nat : \A i \in 1..n : f[i] <= b
  <2> HIDE DEF f, n
  <2> QED BY <1>3, <1>5, BoundedValues
<1>7. \A x \in below : x <= b
  <2> HIDE DEF f, n, below
  <2> QED BY <1>1, <1>3, <1>5, <1>6
<1> HIDE DEF below
<1> QED BY <1>4, <1>7, BoundedMax DEF below

\* What step makes of a stop strategy depends on what g says of its parts.
LooksAtParts(step, R) ==
  /\ R # {} /\ step \in [StopTrees \X [StopTrees -> R] -> R]
  /\ \A t \in StopTrees : \A g, h \in [StopTrees -> R] :
       BelowOf(t, g) = BelowOf(t, h) => step[<<t, g>>] = step[<<t, h>>]

\* A definition by recursion over the parts of stop strategies has a solution.
LEMMA TreeRecursion ==
  ASSUME NEW R, NEW step, LooksAtParts(step, R)
  PROVE  Solutions(StopTrees, R, step) # {}
<1> USE DEF LooksAtParts
<1> DEFINE rank == [t \in StopTrees |-> Depth[t]]
           T == StopTrees
<1>1. rank \in [T -> Nat] /\ \A t \in T : rank[t] = Depth[t]
  BY TreesOfStrategies DEF Strategies
<1>2. ASSUME NEW t \in T, NEW g \in [T -> R], NEW h \in [T -> R],
             \A u \in T : rank[u] < rank[t] => g[u] = h[u]
      PROVE  step[<<t, g>>] = step[<<t, h>>]
  <2>1. ASSUME IsComposite(t), NEW i \in DOMAIN t.parts PROVE g[t.parts[i]] = h[t.parts[i]]
    <3>1. t \in Strategies
      BY DEF Strategies
    <3>2. t.parts[i] \in T /\ Depth[t.parts[i]] < Depth[t]
      BY <2>1, <3>1, TreesOfStrategies
    <3> HIDE DEF rank
    <3> QED BY <1>1, <1>2, <3>2
  <2>2. BelowOf(t, g) = BelowOf(t, h)
    BY ZenonT(30), <2>1 DEF BelowOf
  <2> QED BY <2>2
<1>3. LooksBelow(step, T, rank, R)
  <2> HIDE DEF rank
  <2> QED BY <1>1, <1>2 DEF LooksBelow
<1> QED
  <2> HIDE DEF T, rank, LooksAtParts
  <2> QED BY <1>3, Recursion DEF T

\* Known limits, and None.
Limited == (Nat \ {0}) \cup {None}

\* A limit or its absence, from the limits of the parts.
LEMMA LimitTyped ==
  ASSUME NEW t \in StopTrees, NEW g, BelowOf(t, g) \subseteq Limited
  PROVE  LimitOf(t, BelowOf(t, g)) \in Limited
<1> DEFINE below == BelowOf(t, g)
           limit == LimitOf(t, below)
<1>0. below \subseteq Limited
  OBVIOUS
<1>1. CASE t.kind \in {"attempts", "max_time", "forever"}
  BY <1>1, TreeAssumption DEF LimitOf, IsComposite, Limited
<1>2. CASE t.kind = "any"
  <2>1. below \ {None} \in SUBSET Nat /\ below \ {None} \subseteq Limited
    BY DEF Limited
  <2>2. limit = LimitOfAnyStop(below \ {None})
    BY <1>2 DEF LimitOf
  <2>3. below \ {None} # {} => Min(below \ {None}) \in below \ {None}
    <3> DEFINE S == below \ {None}
    <3>1. S \in SUBSET Nat
      BY <2>1
    <3> HIDE DEF S
    <3>2. S # {} => Min(S) \in S
      BY <3>1, LeastOf
    <3> QED BY <3>2 DEF S
  <2>4. limit \in Limited
    <3> HIDE DEF below, limit
    <3> QED BY <2>1, <2>2, <2>3 DEF LimitOfAnyStop, Limited
  <2> QED BY <2>4
<1>3. CASE t.kind = "all"
  <2>1. \/ limit = None
        \/ None \notin below /\ limit = Max(below)
    BY <1>3 DEF LimitOf
  <2>2. None \notin below => below \subseteq Nat
    BY DEF Limited
  <2>3. None \notin below => Max(below) \in below
    BY <1>3, <2>2, LargestBelow DEF IsComposite
  <2>4. limit \in Limited
    <3> HIDE DEF below, limit
    <3> QED BY <1>0, <2>1, <2>3 DEF Limited
  <2> QED BY <2>4
<1> QED BY <1>1, <1>2, <1>3, TreeAssumption DEF IsComposite

\* _known_attempt_limit, by the kind of strategy.
LEMMA LimitOfTree ==
  ASSUME NEW t \in StopTrees
  PROVE  /\ KnownAttemptLimit[t] \in Limited
         /\ BelowOf(t, KnownAttemptLimit) \subseteq Limited
         /\ KnownAttemptLimit[t] = LimitOf(t, BelowOf(t, KnownAttemptLimit))
<1> DEFINE body(u, g) == LimitOf(u, BelowOf(u, g))
           Fun == [StopTrees -> Limited]
           step == [p \in StopTrees \X Fun |-> body(p[1], p[2])]
<1>1. \A u \in StopTrees : IsComposite(u) => \A i \in DOMAIN u.parts : u.parts[i] \in StopTrees
  BY TreesOfStrategies
<1>2. ASSUME NEW u \in StopTrees, NEW g \in Fun PROVE body(u, g) \in Limited
  <2>1. BelowOf(u, g) \subseteq Limited
    BY <1>1 DEF BelowOf
  <2> QED BY <2>1, LimitTyped
<1>3. step \in [StopTrees \X Fun -> Limited] /\ \A u \in StopTrees : \A g \in Fun : step[<<u, g>>] = body(u, g)
  <2> HIDE DEF body, Fun
  <2> QED BY <1>2
<1>4. \A u \in StopTrees : \A g, h \in Fun :
        BelowOf(u, g) = BelowOf(u, h) => step[<<u, g>>] = step[<<u, h>>]
  <2> HIDE DEF step
  <2> QED BY <1>3
<1>5. PICK g \in Fun : \A u \in StopTrees : g[u] = body(u, g)
  <2>1. Limited # {}
    BY DEF Limited
  <2>2. LooksAtParts(step, Limited)
    <3> HIDE DEF step
    <3> QED BY <1>3, <1>4, <2>1 DEF LooksAtParts
  <2>3. Solutions(StopTrees, Limited, step) # {}
    <3> HIDE DEF step
    <3> QED BY <2>2, TreeRecursion
  <2> HIDE DEF step, body
  <2> QED BY <1>3, <2>3 DEF Solutions
<1> DEFINE full(u, h) == LimitOf(u, IF IsComposite(u) THEN {h[u.parts[i]] : i \in DOMAIN u.parts} ELSE {})
           limits == CHOOSE h : h = [u \in StopTrees |-> full(u, h)]
<1>6. KnownAttemptLimit = limits
  BY Zenon DEF KnownAttemptLimit
<1>7. \A u, h : full(u, h) = body(u, h)
  BY Zenon DEF BelowOf
<1>8. g = [u \in StopTrees |-> full(u, g)]
  <2> HIDE DEF body, full
  <2> QED BY <1>5, <1>7
<1>9. limits = [u \in StopTrees |-> full(u, limits)]
  <2> HIDE DEF full
  <2> QED BY <1>8, Zenon DEF limits
<1> HIDE DEF limits, full
<1>10. \A u \in StopTrees : limits[u] = body(u, limits)
  <2> HIDE DEF body
  <2> QED BY <1>7, <1>9
<1> DEFINE Bad == {u \in StopTrees : limits[u] \notin Limited}
<1>11. Bad = {}
  <2> SUFFICES ASSUME Bad # {} PROVE FALSE
    OBVIOUS
  <2>1. PICK u \in Bad : IsComposite(u) =>
             /\ u.parts \in Seq(StopTrees) /\ u.parts # <<>>
             /\ \A i \in DOMAIN u.parts : u.parts[i] \in StopTrees /\ u.parts[i] \notin Bad
    <3>1. Bad \subseteq StopTrees
      OBVIOUS
    <3> HIDE DEF Bad
    <3> QED BY <3>1, LeastTree
  <2>2. BelowOf(u, limits) \subseteq Limited
    BY <2>1 DEF BelowOf
  <2>3. u \in StopTrees /\ limits[u] \notin Limited
    OBVIOUS
  <2> HIDE DEF Bad
  <2>4. body(u, limits) \in Limited
    BY <2>2, <2>3, LimitTyped
  <2> QED BY <1>10, <2>3, <2>4
<1>12. \A u \in StopTrees : limits[u] \in Limited
  BY <1>11
<1>13. BelowOf(t, limits) \subseteq Limited
  BY <1>1, <1>12 DEF BelowOf
<1> QED BY <1>6, <1>10, <1>12, <1>13

\* When a strategy has a known limit, and which, from its parts'.
LEMMA LimitByKind ==
  ASSUME NEW t \in StopTrees
  PROVE  /\ t.kind = "attempts" => KnownAttemptLimit[t] = t.maximum
         /\ t.kind \in {"max_time", "forever"} => KnownAttemptLimit[t] = None
         /\ t.kind = "any" =>
              /\ KnownAttemptLimit[t] = None <=> \A i \in DOMAIN t.parts : KnownAttemptLimit[t.parts[i]] = None
              /\ KnownAttemptLimit[t] # None =>
                   \E i \in DOMAIN t.parts : KnownAttemptLimit[t.parts[i]] = KnownAttemptLimit[t]
         /\ t.kind = "all" =>
              /\ KnownAttemptLimit[t] = None <=>
                   \E i \in DOMAIN t.parts : \/ StopIsInfinite(t.parts[i])
                                             \/ KnownAttemptLimit[t.parts[i]] = None
              /\ KnownAttemptLimit[t] # None =>
                   \A i \in DOMAIN t.parts : KnownAttemptLimit[t.parts[i]] <= KnownAttemptLimit[t]
<1> DEFINE below == BelowOf(t, KnownAttemptLimit)
           limit == KnownAttemptLimit[t]
<1>1. limit \in Limited /\ below \subseteq Limited /\ limit = LimitOf(t, below)
  BY LimitOfTree
<1>2. CASE t.kind \in {"attempts", "max_time", "forever"}
  BY <1>1, <1>2 DEF LimitOf
<1>3. IsComposite(t) => below = {KnownAttemptLimit[t.parts[i]] : i \in DOMAIN t.parts}
  BY DEF BelowOf
<1> HIDE DEF below
<1>4. CASE t.kind = "any"
  <2> DEFINE S == below \ {None}
  <2>1. S \in SUBSET Nat /\ None \notin S
    BY <1>1 DEF Limited
  <2>2. limit = IF S = {} THEN None ELSE Min(S)
    BY <1>1, <1>4 DEF LimitOf, LimitOfAnyStop
  <2>3. S # {} => Min(S) \in S
    <3> HIDE DEF S
    <3> QED BY <2>1, LeastOf
  <2>4. below = {KnownAttemptLimit[t.parts[i]] : i \in DOMAIN t.parts}
    BY <1>3, <1>4 DEF IsComposite
  <2>5. limit = None <=> \A x \in below : x = None
    <3>1. S = {} <=> \A x \in below : x = None
      OBVIOUS
    <3> HIDE DEF S
    <3> QED BY <2>1, <2>2, <2>3, <3>1
  <2>6. limit # None => limit \in below
    BY <2>2, <2>3
  <2> HIDE DEF limit, S
  <2>7. (limit = None <=> \A i \in DOMAIN t.parts : KnownAttemptLimit[t.parts[i]] = None)
        /\ (limit # None => \E i \in DOMAIN t.parts : KnownAttemptLimit[t.parts[i]] = limit)
    BY <2>4, <2>5, <2>6
  <2> QED BY <1>4, <2>7 DEF limit
<1>5. CASE t.kind = "all"
  <2>1. below = {KnownAttemptLimit[t.parts[i]] : i \in DOMAIN t.parts}
    BY <1>3, <1>5 DEF IsComposite
  <2> DEFINE endless == \E i \in DOMAIN t.parts : StopIsInfinite(t.parts[i])
  <2>2. limit = IF endless \/ None \in below THEN None ELSE Max(below)
    BY <1>1, <1>5 DEF LimitOf
  <2>3. None \notin below => Max(below) \in below /\ \A x \in below : x <= Max(below)
    <3>1. None \notin below => below \subseteq Nat
      BY <1>1 DEF Limited
    <3> QED BY <1>5, <3>1, LargestBelow DEF IsComposite, below
  <2>4. limit = None <=> endless \/ None \in below
    <3> HIDE DEF endless, limit
    <3> QED BY <2>2, <2>3
  <2>5. limit # None => \A x \in below : x <= limit
    <3> HIDE DEF endless, limit
    <3> QED BY <2>2, <2>3
  <2> HIDE DEF limit
  <2>6. limit = None <=> \E i \in DOMAIN t.parts : \/ StopIsInfinite(t.parts[i])
                                                 \/ KnownAttemptLimit[t.parts[i]] = None
    BY <2>1, <2>4
  <2>7. limit # None => \A i \in DOMAIN t.parts : KnownAttemptLimit[t.parts[i]] <= limit
    BY <2>1, <2>5
  <2> QED BY <1>5, <2>6, <2>7 DEF limit
<1> QED BY <1>2, <1>4, <1>5, TreeAssumption DEF IsComposite

\* What is analysed as infinite has no known limit.
LEMMA InfiniteIsUnlimited ==
  ASSUME NEW s \in StopTrees, StopIsInfinite(s)
  PROVE  KnownAttemptLimit[s] = None
<1> DEFINE Bad == {t \in StopTrees : StopIsInfinite(t) /\ KnownAttemptLimit[t] # None}
<1> SUFFICES ASSUME Bad # {} PROVE FALSE
  OBVIOUS
<1>1. PICK t \in Bad : IsComposite(t) =>
           /\ t.parts \in Seq(StopTrees) /\ t.parts # <<>>
           /\ \A i \in DOMAIN t.parts : t.parts[i] \in StopTrees /\ t.parts[i] \notin Bad
  <2>1. Bad \subseteq StopTrees
    OBVIOUS
  <2> HIDE DEF Bad
  <2> QED BY <2>1, LeastTree
<1>2. t \in StopTrees /\ StopIsInfinite(t) /\ KnownAttemptLimit[t] # None
  OBVIOUS
<1>3. IsComposite(t) => \A i \in DOMAIN t.parts :
           StopIsInfinite(t.parts[i]) => KnownAttemptLimit[t.parts[i]] = None
  BY <1>1
<1> HIDE DEF Bad
<1>4. CASE t.kind = "any"
  BY <1>2, <1>3, <1>4, InfiniteOfTree, LimitByKind DEF IsComposite
<1>5. CASE t.kind = "all"
  BY <1>2, <1>3, <1>5, InfiniteOfTree, LimitByKind DEF IsComposite
<1>6. CASE t.kind \in {"attempts", "max_time", "forever"}
  BY <1>2, <1>6, InfiniteOfTree, LimitByKind
<1> QED BY <1>2, <1>4, <1>5, <1>6, TreeAssumption DEF IsComposite

\* A strategy with a known limit stops when it is reached, whatever the time.
LEMMA LimitStops ==
  ASSUME NEW n \in Nat, NEW e, NEW s \in StopTrees,
         KnownAttemptLimit[s] # None, n >= KnownAttemptLimit[s]
  PROVE  ShouldStop(s, n, e)
<1> DEFINE Bad == {t \in StopTrees : /\ KnownAttemptLimit[t] # None /\ n >= KnownAttemptLimit[t]
                                     /\ ~ShouldStop(t, n, e)}
<1> SUFFICES ASSUME Bad # {} PROVE FALSE
  OBVIOUS
<1>1. PICK t \in Bad : IsComposite(t) =>
           /\ t.parts \in Seq(StopTrees) /\ t.parts # <<>>
           /\ \A i \in DOMAIN t.parts : t.parts[i] \in StopTrees /\ t.parts[i] \notin Bad
  <2>1. Bad \subseteq StopTrees
    OBVIOUS
  <2> HIDE DEF Bad
  <2> QED BY <2>1, LeastTree
<1>2. t \in StopTrees /\ KnownAttemptLimit[t] # None /\ n >= KnownAttemptLimit[t] /\ ~ShouldStop(t, n, e)
  OBVIOUS
<1>3. IsComposite(t) => \A i \in DOMAIN t.parts :
           /\ t.parts[i] \in StopTrees
           /\ KnownAttemptLimit[t.parts[i]] # None /\ n >= KnownAttemptLimit[t.parts[i]]
                => ShouldStop(t.parts[i], n, e)
  BY <1>1
<1> HIDE DEF Bad
<1>4. CASE t.kind = "any"
  BY <1>2, <1>3, <1>4, StopsOfTree, LimitByKind DEF IsComposite
<1>5. CASE t.kind = "all"
  <2>1. \A i \in DOMAIN t.parts : KnownAttemptLimit[t.parts[i]] # None
                                /\ KnownAttemptLimit[t.parts[i]] <= KnownAttemptLimit[t]
    BY <1>2, <1>5, LimitByKind
  <2>2. \A i \in DOMAIN t.parts : n >= KnownAttemptLimit[t.parts[i]]
    <3> SUFFICES ASSUME NEW i \in DOMAIN t.parts PROVE n >= KnownAttemptLimit[t.parts[i]]
      OBVIOUS
    <3>1. KnownAttemptLimit[t.parts[i]] \in Limited /\ KnownAttemptLimit[t] \in Limited
      BY <1>2, <1>3, <1>5, LimitOfTree DEF IsComposite
    <3>2. KnownAttemptLimit[t.parts[i]] \in Int /\ KnownAttemptLimit[t] \in Int
      BY <3>1 DEF Limited, None
    <3> QED BY <1>2, <2>1, <3>2
  <2>3. \A i \in DOMAIN t.parts : ShouldStop(t.parts[i], n, e)
    BY <1>3, <1>5, <2>1, <2>2 DEF IsComposite
  <2> QED BY <1>2, <1>5, <2>3, StopsOfTree
<1>6. CASE t.kind \in {"attempts", "max_time", "forever"}
  BY <1>2, <1>6, StopsOfTree, LimitByKind
<1> QED BY <1>2, <1>4, <1>5, <1>6, TreeAssumption DEF IsComposite

\* A strategy without a time limit has a known limit or never stops.
LEMMA LimitedOrInfinite ==
  ASSUME NEW s \in StopTrees, ~HasMaxTime(s)
  PROVE  StopIsInfinite(s) \/ KnownAttemptLimit[s] # None
<1> DEFINE Bad == {t \in StopTrees : ~HasMaxTime(t) /\ ~StopIsInfinite(t) /\ KnownAttemptLimit[t] = None}
<1> SUFFICES ASSUME Bad # {} PROVE FALSE
  OBVIOUS
<1>1. PICK t \in Bad : IsComposite(t) =>
           /\ t.parts \in Seq(StopTrees) /\ t.parts # <<>>
           /\ \A i \in DOMAIN t.parts : t.parts[i] \in StopTrees /\ t.parts[i] \notin Bad
  <2>1. Bad \subseteq StopTrees
    OBVIOUS
  <2> HIDE DEF Bad
  <2> QED BY <2>1, LeastTree
<1>2. t \in StopTrees /\ ~HasMaxTime(t) /\ ~StopIsInfinite(t) /\ KnownAttemptLimit[t] = None
  OBVIOUS
<1>3. IsComposite(t) => \A i \in DOMAIN t.parts :
           ~HasMaxTime(t.parts[i]) /\ ~StopIsInfinite(t.parts[i]) => KnownAttemptLimit[t.parts[i]] # None
  BY <1>1
<1> HIDE DEF Bad
<1>4. CASE IsComposite(t)
  <2>1. \A i \in DOMAIN t.parts : ~HasMaxTime(t.parts[i])
    BY <1>2, <1>4, MaxTimeOfTree DEF IsComposite
  <2>2. CASE t.kind = "any"
    BY <1>2, <1>3, <1>4, <2>1, <2>2, InfiniteOfTree, LimitByKind
  <2>3. CASE t.kind = "all"
    BY <1>2, <1>3, <1>4, <2>1, <2>3, InfiniteOfTree, LimitByKind
  <2> QED BY <1>4, <2>2, <2>3 DEF IsComposite
<1>5. CASE ~IsComposite(t)
  <2>1. \/ t.kind = "attempts" /\ t.maximum \in Nat
        \/ t.kind = "max_time"
        \/ t.kind = "forever"
    BY <1>2, <1>5, TreeAssumption
  <2> QED BY <1>2, <2>1, MaxTimeOfTree, InfiniteOfTree, LimitByKind DEF None
<1> QED BY <1>4, <1>5

\* The two analyses of limits, put together as estimates.
Estimates == [t \in StopTrees |->
  [maximum |-> KnownAttemptLimit[t], unbounded |-> StopIsInfinite(t)]]

\* An estimate follows from the estimates of the parts as _estimate_attempts says.
LEMMA EstimatesFollow ==
  ASSUME NEW t \in StopTrees
  PROVE  EstimateOf(t, BelowOf(t, Estimates)) = Estimates[t]
<1> DEFINE below == BelowOf(t, Estimates)
           limits == BelowOf(t, KnownAttemptLimit)
           bounded == {e.maximum : e \in below} \ {None}
           L == KnownAttemptLimit
<1>1. Estimates[t] = [maximum |-> L[t], unbounded |-> StopIsInfinite(t)]
  BY DEF Estimates
<1>2. CASE t.kind \in {"attempts", "max_time", "forever"}
  <2>1. StopIsInfinite(t) = (t.kind = "forever")
    BY <1>2, InfiniteOfTree
  <2> QED BY <1>1, <1>2, <2>1, LimitByKind DEF EstimateOf, UpTo, Partial, Unbounded
<1>3. ASSUME IsComposite(t)
      PROVE  /\ limits = {L[t.parts[i]] : i \in DOMAIN t.parts}
             /\ below = {[maximum |-> L[t.parts[i]], unbounded |-> StopIsInfinite(t.parts[i])] :
                           i \in DOMAIN t.parts}
             /\ \A i \in DOMAIN t.parts : t.parts[i] \in StopTrees
  <2>1. \A i \in DOMAIN t.parts : t.parts[i] \in StopTrees
    BY <1>3, TreesOfStrategies
  <2> QED BY <1>3, <2>1 DEF BelowOf, Estimates
<1>4. ASSUME IsComposite(t)
      PROVE  /\ {e.maximum : e \in below} = limits
             /\ (\A e \in below : e.unbounded) <=> \A i \in DOMAIN t.parts : StopIsInfinite(t.parts[i])
             /\ (\E e \in below : e.unbounded) <=> \E i \in DOMAIN t.parts : StopIsInfinite(t.parts[i])
             /\ (\A e \in below : e.maximum # None) <=> None \notin limits
  <2> DEFINE part(i) == [maximum |-> L[t.parts[i]], unbounded |-> StopIsInfinite(t.parts[i])]
  <2>1. \A i : part(i).maximum = L[t.parts[i]] /\ part(i).unbounded = StopIsInfinite(t.parts[i])
    OBVIOUS
  <2>2. below = {part(i) : i \in DOMAIN t.parts} /\ limits = {L[t.parts[i]] : i \in DOMAIN t.parts}
    BY <1>3, <1>4
  <2>3. \A i \in DOMAIN t.parts : part(i) \in below /\ L[t.parts[i]] \in limits
    <3> HIDE DEF below, limits, L, part
    <3> QED BY <2>2
  <2>4. \A e \in below : \E i \in DOMAIN t.parts : e = part(i)
    <3> HIDE DEF below, limits, L, part
    <3> QED BY <2>2
  <2>5. \A l \in limits : \E i \in DOMAIN t.parts : l = L[t.parts[i]]
    <3> HIDE DEF below, limits, L, part
    <3> QED BY <2>2
  <2> HIDE DEF below, limits, L, part
  <2>6. {e.maximum : e \in below} = limits
    BY <2>1, <2>3, <2>4, <2>5
  <2>7. (\A e \in below : e.unbounded) <=> \A i \in DOMAIN t.parts : StopIsInfinite(t.parts[i])
    BY <2>1, <2>3, <2>4, Zenon
  <2>8. (\E e \in below : e.unbounded) <=> \E i \in DOMAIN t.parts : StopIsInfinite(t.parts[i])
    BY <2>1, <2>3, <2>4, Zenon
  <2>9. (\A e \in below : e.maximum # None) <=> None \notin limits
    BY <2>1, <2>3, <2>4, <2>5
  <2> QED BY <2>6, <2>7, <2>8, <2>9
<1>5. L[t] = LimitOf(t, limits) /\ StopIsInfinite(t) \in BOOLEAN
  BY LimitOfTree, InfiniteOfTree
<1>6. ASSUME IsComposite(t), NEW i \in DOMAIN t.parts, StopIsInfinite(t.parts[i])
      PROVE  L[t.parts[i]] = None
  BY <1>3, <1>6, InfiniteIsUnlimited
<1>7. CASE t.kind = "any"
  <2>1. EstimateOf(t, below) = IF bounded # {} THEN UpTo(Min(bounded))
                               ELSE IF UnboundedAny(below) THEN Unbounded ELSE Partial
    BY <1>7 DEF EstimateOf
  <2>2. bounded = limits \ {None}
    BY <1>4, <1>7 DEF IsComposite
  <2>3. L[t] = IF bounded = {} THEN None ELSE Min(bounded)
    BY <1>5, <1>7, <2>2 DEF LimitOf, LimitOfAnyStop
  <2>4. UnboundedAny(below) <=> StopIsInfinite(t)
    BY <1>4, <1>7, InfiniteOfTree DEF UnboundedAny, IsComposite
  <2>5. bounded # {} => ~StopIsInfinite(t)
    BY <1>3, <1>6, <1>7, <2>2, InfiniteOfTree DEF IsComposite
  <2> HIDE DEF bounded, below, L
  <2> QED BY <1>1, <1>5, <2>1, <2>3, <2>4, <2>5 DEF UpTo, Unbounded, Partial, below, L
<1>8. CASE t.kind = "all"
  <2>1. EstimateOf(t, below) = IF \E e \in below : e.unbounded THEN Unbounded
                               ELSE IF \A e \in below : e.maximum # None THEN UpTo(Max(bounded))
                               ELSE Partial
    BY <1>8 DEF EstimateOf
  <2> DEFINE endless == \E i \in DOMAIN t.parts : StopIsInfinite(t.parts[i])
  <2>2. L[t] = IF endless \/ None \in limits THEN None ELSE Max(limits)
    BY <1>5, <1>8 DEF LimitOf
  <2>3. endless <=> StopIsInfinite(t)
    BY <1>8, InfiniteOfTree
  <2>4. EstimateOf(t, below) = IF endless THEN Unbounded
                               ELSE IF None \notin limits THEN UpTo(Max(limits)) ELSE Partial
    <3>1. None \notin limits => bounded = limits
      BY <1>4, <1>8 DEF IsComposite
    <3> HIDE DEF bounded, below, limits
    <3> QED BY <1>4, <1>8, <2>1, <3>1 DEF IsComposite
  <2> HIDE DEF endless, below, L, limits
  <2> QED BY <1>1, <1>5, <2>2, <2>3, <2>4 DEF UpTo, Unbounded, Partial, below, L
<1> QED BY <1>2, <1>7, <1>8, TreeAssumption DEF IsComposite

\* _estimate_attempts and the analyses of the warnings agree on every strategy.
LEMMA EstimateOfTree ==
  ASSUME NEW s \in StopTrees
  PROVE  /\ EstimateAttempts[s].maximum = KnownAttemptLimit[s]
         /\ EstimateAttempts[s].unbounded = StopIsInfinite(s)
<1> DEFINE full(u, h) == EstimateOf(u, IF IsComposite(u) THEN {h[u.parts[i]] : i \in DOMAIN u.parts} ELSE {})
           estimate == CHOOSE h : h = [u \in StopTrees |-> full(u, h)]
<1>1. EstimateAttempts = estimate
  BY Zenon DEF EstimateAttempts
<1>2. \A u, h : full(u, h) = EstimateOf(u, BelowOf(u, h))
  BY Zenon DEF BelowOf
<1>3. Estimates = [u \in StopTrees |-> full(u, Estimates)]
  <2>1. Estimates = [u \in StopTrees |-> Estimates[u]]
    BY DEF Estimates
  <2> HIDE DEF full
  <2> QED BY <1>2, <2>1, EstimatesFollow
<1>4. estimate = [u \in StopTrees |-> full(u, estimate)]
  <2> HIDE DEF full
  <2> QED BY <1>3, Zenon DEF estimate
<1> HIDE DEF estimate, full
<1> DEFINE Bad == {u \in StopTrees : estimate[u] # Estimates[u]}
<1>5. Bad = {}
  <2> SUFFICES ASSUME Bad # {} PROVE FALSE
    OBVIOUS
  <2>1. PICK u \in Bad : IsComposite(u) =>
             /\ u.parts \in Seq(StopTrees) /\ u.parts # <<>>
             /\ \A i \in DOMAIN u.parts : u.parts[i] \in StopTrees /\ u.parts[i] \notin Bad
    <3>1. Bad \subseteq StopTrees
      OBVIOUS
    <3> HIDE DEF Bad
    <3> QED BY <3>1, LeastTree
  <2>2. BelowOf(u, estimate) = BelowOf(u, Estimates)
    <3>1. IsComposite(u) => \A i \in DOMAIN u.parts : estimate[u.parts[i]] = Estimates[u.parts[i]]
      BY <2>1
    <3> QED BY <3>1 DEF BelowOf
  <2>3. u \in StopTrees /\ estimate[u] # Estimates[u]
    OBVIOUS
  <2> HIDE DEF Bad
  <2> QED BY <1>2, <1>3, <1>4, <2>2, <2>3
<1>6. EstimateAttempts[s] = [maximum |-> KnownAttemptLimit[s], unbounded |-> StopIsInfinite(s)]
  BY <1>1, <1>5 DEF Estimates
<1> QED BY <1>6

-----------------------------------------------------------------------------
(* The delays of every strategy. *)

\* Induction up to n: a set with 0 and the successors of its members has them all.
LEMMA Ascent ==
  ASSUME NEW n \in Nat, NEW P, 0 \in P, \A i \in 1..n : i - 1 \in P => i \in P
  PROVE  \A i \in 0..n : i \in P
<1> DEFINE f == [i \in 0..n |-> i]
<1>1. f[0] \in P /\ \A i \in 1..n : f[i - 1] \in P => f[i] \in P
  <2>1. \A i \in 1..n : i \in 0..n /\ i - 1 \in 0..n
    OBVIOUS
  <2> QED BY <2>1
<1>2. \A i \in 0..n : f[i] = i
  OBVIOUS
<1> HIDE DEF f
<1>3. \A i \in 0..n : f[i] \in P
  BY <1>1, Throughout
<1> QED BY <1>2, <1>3

\* The answers that a delay strategy may choose from.
DelaySets == (SUBSET Duration) \ {{}}

\* Grown, unrolled.
Growths(b, f, n) ==
  {g \in [0..n -> Nat] : g[0] = b /\ Grown(b, f, n) = g[n] /\ \A i \in 1..n : g[i] = f * g[i - 1]}

\* Grown is defined by recursion, and this is its recursion.
LEMMA GrownFollows ==
  ASSUME NEW b \in Nat, NEW f \in Nat, NEW n \in Nat
  PROVE  Growths(b, f, n) # {}
<1> DEFINE next == [p \in (1..n) \X Nat |-> f * p[2]]
           body(i, g) == IF i = 0 THEN b ELSE f * g[i - 1]
           grown == CHOOSE g : g = [i \in 0..n |-> body(i, g)]
<1>1. \A i \in 0..n : i # 0 => i \in 1..n /\ i - 1 \in 0..n
  OBVIOUS
<1>2. \A d \in Nat : f * d \in Nat
  OBVIOUS
<1>3. PICK g \in [0..n -> Nat] : g[0] = b /\ \A i \in 1..n : g[i] = f * g[i - 1]
  <2> DEFINE R == Nat
  <2>1. next \in [(1..n) \X R -> R] /\ \A i \in 1..n : \A d \in R : next[<<i, d>>] = f * d
    BY <1>2
  <2> HIDE DEF next, R
  <2>2. Sequels(n, R, b, next) # {}
    <3>1. b \in R
      BY DEF R
    <3> QED BY <2>1, <3>1, Unrolling
  <2>3. \A i \in 1..n : i - 1 \in 0..n
    OBVIOUS
  <2> QED BY <2>1, <2>2, <2>3 DEF Sequels, R
<1>4. \A i \in 0..n : g[i] = body(i, g)
  BY <1>1, <1>3
<1>5. g = [i \in 0..n |-> body(i, g)]
  <2> HIDE DEF body
  <2> QED BY <1>4
<1>6. grown = [i \in 0..n |-> body(i, grown)]
  <2> HIDE DEF body
  <2> QED BY <1>5, Zenon DEF grown
<1>7. Grown(b, f, n) = grown[n]
  BY Zenon DEF Grown
<1> HIDE DEF grown
<1>8. \A i \in 0..n : grown[i] = body(i, grown)
  <2> HIDE DEF body
  <2> QED BY <1>6
<1>9. \A i \in 1..n : i \in 0..n /\ i # 0
  OBVIOUS
<1>10. grown[0] = b /\ \A i \in 1..n : grown[i] = f * grown[i - 1]
  BY <1>8, <1>9
<1>11. \A i \in 0..n : grown[i] \in Nat
  <2>1. \A i \in 1..n : grown[i - 1] \in Nat => grown[i] \in Nat
    BY <1>2, <1>10
  <2> QED BY <1>10, <2>1, Throughout
<1>12. grown \in [0..n -> Nat]
  BY <1>6, <1>11
<1> QED BY <1>7, <1>10, <1>12 DEF Growths

\* Grown, step by step.
LEMMA Growth ==
  ASSUME NEW b \in Nat, NEW f \in Nat, NEW n \in Nat
  PROVE  /\ Grown(b, f, 0) = b /\ Grown(b, f, n) \in Nat
         /\ Grown(b, f, n + 1) = f * Grown(b, f, n)
<1> DEFINE m == n + 1
<1>1. PICK z \in Growths(b, f, 0) : TRUE
  BY GrownFollows
<1>2. PICK g \in Growths(b, f, n) : TRUE
  BY GrownFollows
<1>3. m \in Nat /\ n \in 0..n /\ m \in 1..m /\ m - 1 = n /\ 0 \in 0..n /\ 1..n \subseteq 1..m
  OBVIOUS
<1>4. PICK h \in Growths(b, f, m) : TRUE
  <2> HIDE DEF m
  <2> QED BY <1>3, GrownFollows
<1> DEFINE P == {i \in 0..n : g[i] = h[i]}
<1>5. \A i \in 0..n : i \in P
  <2>1. 0 \in P
    BY <1>2, <1>3, <1>4 DEF Growths
  <2>2. ASSUME NEW i \in 1..n, i - 1 \in P PROVE i \in P
    <3>1. g[i] = f * g[i - 1] /\ h[i] = f * h[i - 1] /\ g[i - 1] = h[i - 1]
      BY <1>2, <1>3, <1>4, <2>2 DEF Growths
    <3> QED BY <3>1
  <2> HIDE DEF P
  <2> QED BY <2>1, <2>2, Ascent
<1> HIDE DEF m
<1>6. h[n] = Grown(b, f, n) /\ h[m] = f * h[n]
  BY <1>2, <1>3, <1>4, <1>5 DEF Growths
<1> QED BY <1>1, <1>2, <1>3, <1>4, <1>6 DEF m, Growths

\* AddedUp, unrolled.
LEMMA AddedUpFollows ==
  ASSUME NEW delays \in Seq(DelaySets)
  PROVE  \E sums \in [0..Len(delays) -> DelaySets] :
           /\ sums[0] = {0} /\ AddedUp(delays) = sums[Len(delays)]
           /\ \A i \in 1..Len(delays) : sums[i] = CutSums(delays[i], sums[i - 1])
<1> DEFINE n == Len(delays)
           cut(i, S) == CutSums(delays[i], S)
           next == [p \in (1..n) \X DelaySets |-> cut(p[1], p[2])]
           body(i, g) == IF i = 0 THEN {0} ELSE cut(i, g[i - 1])
           sums == CHOOSE g : g = [i \in 0..n |-> body(i, g)]
<1>1. n \in Nat /\ \A i \in 1..n : delays[i] \in DelaySets
  OBVIOUS
<1>2. ASSUME NEW i \in 1..n, NEW S \in DelaySets PROVE cut(i, S) \in DelaySets
  <2>1. delays[i] \in DelaySets
    BY <1>1
  <2>2. \A d \in Duration, s \in Duration : Min({d + s, MaxSleep}) \in Duration
    <3> SUFFICES ASSUME NEW d \in Duration, NEW s \in Duration PROVE Min({d + s, MaxSleep}) \in Duration
      OBVIOUS
    <3>1. d + s \in Nat /\ MaxSleep \in Nat
      BY SleepAssumption DEF Duration
    <3>2. Min({d + s, MaxSleep}) = IF d + s <= MaxSleep THEN d + s ELSE MaxSleep
      BY <3>1, PairMin
    <3> DEFINE m == Min({d + s, MaxSleep})
    <3>3. m \in Nat /\ m <= MaxSleep
      BY <3>1, <3>2
    <3> HIDE DEF m
    <3>4. m \in Duration
      BY <3>1, <3>3 DEF Duration
    <3> QED BY <3>4 DEF m
  <2>3. delays[i] \subseteq Duration /\ delays[i] # {} /\ S \subseteq Duration /\ S # {}
    BY <2>1 DEF DelaySets
  <2>4. cut(i, S) \subseteq Duration /\ cut(i, S) # {}
    <3>1. \A p \in delays[i] \X S : p[1] \in Duration /\ p[2] \in Duration
      BY <2>3
    <3>2. \A p \in delays[i] \X S : Min({p[1] + p[2], MaxSleep}) \in Duration
      BY <2>2, <3>1
    <3>3. PICK d \in delays[i], s \in S : TRUE
      BY <2>3
    <3>4. <<d, s>> \in delays[i] \X S
      OBVIOUS
    <3> QED BY <3>2, <3>4 DEF CutSums
  <2> HIDE DEF cut
  <2> QED BY <2>4 DEF DelaySets
<1>3. {0} \in DelaySets
  BY SleepAssumption DEF DelaySets, Duration
<1>4. PICK g \in [0..n -> DelaySets] : g[0] = {0} /\ \A i \in 1..n : g[i] = cut(i, g[i - 1])
  <2>1. next \in [(1..n) \X DelaySets -> DelaySets] /\ \A i \in 1..n : \A S \in DelaySets : next[<<i, S>>] = cut(i, S)
    <3> HIDE DEF cut, n
    <3> QED BY <1>2
  <2> HIDE DEF next, n, cut
  <2>2. Sequels(n, DelaySets, {0}, next) # {}
    BY <1>1, <1>3, <2>1, Unrolling
  <2>3. \A i \in 1..n : i - 1 \in 0..n
    BY <1>1
  <2> QED BY ZenonT(30), <2>1, <2>2, <2>3 DEF Sequels
<1>5. \A i \in 0..n : g[i] = body(i, g)
  <2>1. \A i \in 0..n : i # 0 => i \in 1..n
    BY <1>1
  <2> HIDE DEF cut, n
  <2> QED BY <1>4, <2>1
<1>6. g = [i \in 0..n |-> body(i, g)]
  <2> HIDE DEF body, n
  <2> QED BY <1>5
<1>7. sums = [i \in 0..n |-> body(i, sums)]
  <2> HIDE DEF body, n
  <2> QED BY <1>6, Zenon DEF sums
<1>8. AddedUp(delays) = sums[n]
  BY Zenon DEF AddedUp
<1> HIDE DEF sums
<1>9. sums[0] = {0} /\ \A i \in 1..n : sums[i] = cut(i, sums[i - 1])
  <2>1. \A i \in 0..n : sums[i] = body(i, sums)
    <3> HIDE DEF body, n
    <3> QED BY <1>7
  <2>2. 0 \in 0..n /\ \A i \in 1..n : i \in 0..n /\ i # 0
    BY <1>1
  <2> HIDE DEF n, cut
  <2> QED BY <2>1, <2>2
<1>10. \A i \in 0..n : sums[i] \in DelaySets
  <2> HIDE DEF n, cut
  <2> DEFINE R == DelaySets
  <2> HIDE DEF R
  <2>1. sums[0] \in R
    BY <1>2, <1>3, <1>9 DEF R
  <2>2. ASSUME NEW i \in 1..n, sums[i - 1] \in R PROVE sums[i] \in R
    BY <1>2, <1>3, <1>9, <2>2 DEF R
  <2>3. \A i \in 0..n : sums[i] \in R
    BY <1>1, <2>1, <2>2, Throughout
  <2> QED BY <2>3 DEF R
<1>11. sums \in [0..n -> DelaySets]
  BY <1>7, <1>10
<1> QED BY <1>8, <1>9, <1>11

\* What holds of zero, and of a sum when it does of its terms, holds of all added up.
LEMMA AddedUpIn ==
  ASSUME NEW R, {0} \in R, NEW delays \in Seq(DelaySets),
         \A i \in 1..Len(delays) : \A S \in R : CutSums(delays[i], S) \in R
  PROVE  AddedUp(delays) \in R
<1> DEFINE n == Len(delays)
<1>1. PICK sums \in [0..n -> DelaySets] :
        /\ sums[0] = {0} /\ AddedUp(delays) = sums[n]
        /\ \A i \in 1..n : sums[i] = CutSums(delays[i], sums[i - 1])
  BY AddedUpFollows
<1>2. n \in Nat /\ n \in 0..n
  OBVIOUS
<1>3. sums[0] \in R /\ \A i \in 1..n : sums[i - 1] \in R => sums[i] \in R
  BY <1>1
<1> HIDE DEF n
<1>4. \A i \in 0..n : sums[i] \in R
  BY <1>2, <1>3, Throughout
<1> QED BY <1>1, <1>2, <1>4

\* What is added up from durations is a set of durations.
LEMMA AddedUpTyped ==
  ASSUME NEW delays \in Seq(DelaySets)
  PROVE  AddedUp(delays) \in DelaySets
<1>1. PICK sums \in [0..Len(delays) -> DelaySets] : AddedUp(delays) = sums[Len(delays)]
  BY AddedUpFollows
<1> QED BY <1>1

\* A duration cut at a ceiling is one.
LEMMA CappedTyped ==
  ASSUME NEW d \in Nat, NEW m \in Duration \cup {None}
  PROVE  Capped(d, m) \in Duration /\ (m # None => Capped(d, m) <= m)
<1>1. CASE m = None
  BY <1>1, PairMin, SleepAssumption DEF Capped, Duration, None
<1>2. CASE m # None
  BY <1>2, PairMin, SleepAssumption DEF Capped, Duration, None
<1> QED BY <1>1, <1>2

\* A random delay is a duration.
LEMMA UniformTyped ==
  ASSUME NEW lo \in Duration, NEW hi \in lo..MaxSleep, NEW seed \in Int, NEW n \in Nat
  PROVE  Uniform(lo, hi, seed, n) \in DelaySets
<1>0. lo \in Nat /\ hi \in Nat /\ lo <= hi /\ hi <= MaxSleep /\ MaxSleep \in Nat
  BY SleepAssumption DEF Duration
<1>1. CASE seed = None
  <2>1. Uniform(lo, hi, seed, n) = lo..hi
    BY <1>1 DEF Uniform
  <2>2. lo..hi \subseteq 0..MaxSleep /\ lo \in lo..hi
    BY <1>0
  <2> QED BY <2>1, <2>2 DEF DelaySets, Duration
<1>2. CASE seed # None
  <2> DEFINE w == hi - lo + 1
             k == (seed + n) % w
  <2>1. w \in Nat \ {0} /\ seed + n \in Int
    BY <1>0
  <2> HIDE DEF w
  <2>2. k \in 0..w - 1
    BY <2>1
  <2>3. lo + k \in 0..MaxSleep
    <3> HIDE DEF k
    <3> QED BY <1>0, <2>2 DEF w
  <2>4. Uniform(lo, hi, seed, n) = {lo + k}
    BY <1>2 DEF Uniform, w
  <2> HIDE DEF k
  <2> QED BY <2>3, <2>4 DEF DelaySets, Duration
<1> QED BY <1>1, <1>2

\* A strategy that is no sum answers with durations.
LEMMA LeafTyped ==
  ASSUME NEW t \in DelayTrees, t.kind # "additive", NEW n \in Nat \ {0}
  PROVE  LeafDelays(t, n) \in DelaySets
<1>0. n - 1 \in Nat
  OBVIOUS
<1>1. ValidDelay(t)
  BY DelayTreesAssumption
<1>2. \A d \in Duration : {d} \in DelaySets
  BY DEF DelaySets
<1>3. CASE t.kind = "fixed"
  BY <1>1, <1>2, <1>3 DEF ValidDelay, LeafDelays
<1>4. CASE t.kind = "linear"
  <2>1. t.start \in Nat /\ t.step \in Nat /\ t.maximum \in Duration \cup {None}
    BY <1>1, <1>4, SleepAssumption DEF ValidDelay, Duration
  <2>2. t.step * (n - 1) \in Nat
    BY <1>0, <2>1
  <2>3. LinearDelay(t, n) \in Nat
    BY <2>1, <2>2 DEF LinearDelay
  <2>4. LeafDelays(t, n) = {Capped(LinearDelay(t, n), t.maximum)}
    BY <1>4 DEF LeafDelays
  <2> QED BY <1>2, <2>1, <2>3, <2>4, CappedTyped
<1>5. CASE t.kind = "exponential"
  <2>1. t.base \in Nat /\ t.factor \in Nat /\ t.maximum \in Duration \cup {None}
    BY <1>1, <1>5 DEF ValidDelay
  <2>2. LeafDelays(t, n) = {Capped(Grown(t.base, t.factor, n - 1), t.maximum)}
    BY <1>5 DEF LeafDelays
  <2>3. Grown(t.base, t.factor, n - 1) \in Nat
    BY <1>0, <2>1, Growth
  <2> QED BY <1>2, <2>1, <2>2, <2>3, CappedTyped
<1>6. CASE t.kind = "chain"
  <2>1. t.delays \in Seq(Duration) /\ t.delays # <<>>
    BY <1>1, <1>6 DEF ValidDelay
  <2>2. Len(t.delays) \in Nat \ {0}
    BY <2>1
  <2>3. Min({n, Len(t.delays)}) \in 1..Len(t.delays)
    BY <2>2, PairMin
  <2>4. t.delays[Min({n, Len(t.delays)})] \in Duration
    BY <2>1, <2>3, ElementOfSeq
  <2> QED BY <1>2, <1>6, <2>4 DEF LeafDelays
<1>7. CASE t.kind = "random"
  <2>1. t.minimum \in Duration /\ t.maximum \in t.minimum..MaxSleep /\ t.seed \in Int
    BY <1>1, <1>7 DEF ValidDelay
  <2>2. LeafDelays(t, n) = Uniform(t.minimum, t.maximum, t.seed, n)
    BY <1>7 DEF LeafDelays
  <2> QED BY <2>1, <2>2, UniformTyped
<1>8. CASE t.kind = "random_exponential"
  <2>1. /\ t.base \in Nat /\ t.factor \in Nat /\ t.minimum \in Duration /\ t.seed \in Int
        /\ t.maximum \in (t.minimum..MaxSleep) \cup {None}
    BY <1>1, <1>8 DEF ValidDelay
  <2>2. t.maximum \in Duration \cup {None} /\ t.minimum \in Nat /\ t.minimum <= MaxSleep
    BY <2>1, SleepAssumption DEF Duration
  <2> DEFINE d == Capped(Grown(t.base, t.factor, n - 1), t.maximum)
  <2>3. d \in Duration
    BY <1>0, <2>1, <2>2, Growth, CappedTyped
  <2> HIDE DEF d
  <2>4. Max({t.minimum, d}) \in t.minimum..MaxSleep
    BY <2>2, <2>3, PairMax, SleepAssumption DEF Duration
  <2>5. LeafDelays(t, n) = IF t.base = 0 THEN {t.minimum}
                           ELSE Uniform(t.minimum, Max({t.minimum, d}), t.seed, n)
    BY <1>8 DEF LeafDelays, d
  <2>6. Uniform(t.minimum, Max({t.minimum, d}), t.seed, n) \in DelaySets
    BY <2>1, <2>4, UniformTyped
  <2> QED BY <1>2, <2>1, <2>5, <2>6
<1>9. CASE t.kind = "custom"
  BY <1>1, <1>9 DEF ValidDelay, LeafDelays, DelaySets
<1> QED BY <1>1, <1>3, <1>4, <1>5, <1>6, <1>7, <1>8, <1>9 DEF ValidDelay

\* Among any delay strategies there is one none of whose parts is among them.
LEMMA LeastDelay ==
  ASSUME NEW Bad, Bad \subseteq DelayTrees, Bad # {}
  PROVE  \E t \in Bad : t.kind = "additive" =>
           /\ t.parts \in Seq(DelayTrees)
           /\ \A i \in DOMAIN t.parts : t.parts[i] \in DelayTrees /\ t.parts[i] \notin Bad
<1>1. SumDepth \in [DelayTrees -> Nat]
  BY DelayTreesAssumption
<1>2. PICK t \in Bad : \A u \in Bad : ~(SumDepth[u] < SumDepth[t])
  BY <1>1, LeastRank
<1>3. ASSUME t.kind = "additive"
      PROVE  /\ t.parts \in Seq(DelayTrees)
             /\ \A i \in DOMAIN t.parts : t.parts[i] \in DelayTrees /\ t.parts[i] \notin Bad
  <2>1. t \in DelayTrees /\ ValidDelay(t)
    BY DelayTreesAssumption
  <2>2. t.parts \in Seq(DelayTrees)
    BY <1>3, <2>1 DEF ValidDelay
  <2>3. ASSUME NEW i \in DOMAIN t.parts PROVE t.parts[i] \in DelayTrees /\ t.parts[i] \notin Bad
    <3>1. t.parts[i] \in DelayTrees
      BY <2>2
    <3>2. SumDepth[t.parts[i]] < SumDepth[t]
      BY <1>3, <2>1, DelayTreesAssumption
    <3> QED BY <1>2, <3>1, <3>2
  <2> QED BY <2>2, <2>3
<1> QED BY <1>3

\* next_delay, by the kind of strategy; no delay is negative or above the ceiling.
LEMMA DelaysOfTree ==
  ASSUME NEW t \in DelayTrees, NEW n \in Nat \ {0}
  PROVE  /\ NextDelays(t, n) \in DelaySets
         /\ t.kind = "additive" =>
              NextDelays(t, n) = AddedUp([i \in DOMAIN t.parts |-> NextDelays(t.parts[i], n)])
         /\ t.kind # "additive" => NextDelays(t, n) = LeafDelays(t, n)
<1> DEFINE T == DelayTrees
           body(u, g) == IF u.kind = "additive" THEN AddedUp([i \in DOMAIN u.parts |-> g[u.parts[i]]])
                         ELSE LeafDelays(u, n)
           step == [p \in T \X [T -> DelaySets] |-> body(p[1], p[2])]
           delays == CHOOSE g : g = [u \in T |-> body(u, g)]
<1>1. ASSUME NEW u \in T, u.kind = "additive"
      PROVE  /\ u.parts \in Seq(T) /\ Len(u.parts) \in Nat /\ DOMAIN u.parts = 1..Len(u.parts)
             /\ \A i \in DOMAIN u.parts : u.parts[i] \in T /\ SumDepth[u.parts[i]] < SumDepth[u]
  <2>1. ValidDelay(u)
    BY DelayTreesAssumption
  <2>2. u.parts \in Seq(T)
    BY <1>1, <2>1 DEF ValidDelay
  <2>3. \A i \in DOMAIN u.parts : u.parts[i] \in T
    BY <2>2
  <2>4. Len(u.parts) \in Nat /\ DOMAIN u.parts = 1..Len(u.parts)
    BY <2>2
  <2> QED BY <1>1, <2>2, <2>3, <2>4, DelayTreesAssumption
<1>2. ASSUME NEW u \in T, NEW g, u.kind = "additive" => \A i \in DOMAIN u.parts : g[u.parts[i]] \in DelaySets
      PROVE  body(u, g) \in DelaySets
  <2>1. CASE u.kind = "additive"
    <3> DEFINE s == [i \in DOMAIN u.parts |-> g[u.parts[i]]]
    <3>1. s \in [1..Len(u.parts) -> DelaySets] /\ Len(u.parts) \in Nat
      BY <1>1, <1>2, <2>1
    <3>2. body(u, g) = AddedUp(s)
      BY <2>1
    <3> HIDE DEF s, body
    <3>3. s \in Seq(DelaySets)
      <4>1. \A m \in Nat : \A f \in [1..m -> DelaySets] : f \in Seq(DelaySets)
        OBVIOUS
      <4> QED BY <3>1, <4>1
    <3> QED BY <3>2, <3>3, AddedUpTyped
  <2>2. CASE u.kind # "additive"
    BY <2>2, LeafTyped
  <2> QED BY <2>1, <2>2
<1>3. step \in [T \X [T -> DelaySets] -> DelaySets] /\ \A u \in T : \A g \in [T -> DelaySets] : step[<<u, g>>] = body(u, g)
  <2>1. \A u \in T : \A g \in [T -> DelaySets] : body(u, g) \in DelaySets
    <3> HIDE DEF body
    <3> QED BY <1>1, <1>2
  <2> HIDE DEF body
  <2> QED BY <2>1
<1>4. ASSUME NEW u \in T, NEW g, NEW h, \A w \in T : SumDepth[w] < SumDepth[u] => g[w] = h[w]
      PROVE  body(u, g) = body(u, h)
  <2>1. CASE u.kind = "additive"
    <3>1. \A i \in DOMAIN u.parts : g[u.parts[i]] = h[u.parts[i]]
      BY <1>1, <1>4, <2>1
    <3>2. [i \in DOMAIN u.parts |-> g[u.parts[i]]] = [i \in DOMAIN u.parts |-> h[u.parts[i]]]
      BY <3>1
    <3> QED BY <3>2
  <2>2. CASE u.kind # "additive"
    BY <2>2
  <2> QED BY <2>1, <2>2
<1>5. PICK g \in [T -> DelaySets] : \A u \in T : g[u] = body(u, g)
  <2>1. {0} \in DelaySets
    BY SleepAssumption DEF DelaySets, Duration
  <2>2. LooksBelow(step, T, SumDepth, DelaySets)
    <3> HIDE DEF body, step
    <3> QED BY <1>3, <1>4, <2>1, DelayTreesAssumption DEF LooksBelow
  <2>3. Solutions(T, DelaySets, step) # {}
    <3> HIDE DEF step
    <3> QED BY <2>2, Recursion
  <2> HIDE DEF body, step
  <2> QED BY <1>3, <2>3 DEF Solutions
<1>6. g = [u \in T |-> body(u, g)]
  <2> HIDE DEF body
  <2> QED BY <1>5
<1>7. delays = [u \in T |-> body(u, delays)]
  <2> HIDE DEF body
  <2> QED BY <1>6, Zenon DEF delays
<1>8. \A u : NextDelays(u, n) = delays[u]
  BY Zenon DEF NextDelays, Delays
<1> HIDE DEF delays
<1>9. \A u \in T : delays[u] = body(u, delays)
  <2> HIDE DEF body
  <2> QED BY <1>7
<1> DEFINE Bad == {u \in T : delays[u] \notin DelaySets}
<1>10. Bad = {}
  <2> SUFFICES ASSUME Bad # {} PROVE FALSE
    OBVIOUS
  <2>1. PICK u \in Bad : u.kind = "additive" =>
           /\ u.parts \in Seq(DelayTrees)
           /\ \A i \in DOMAIN u.parts : u.parts[i] \in DelayTrees /\ u.parts[i] \notin Bad
    <3>1. Bad \subseteq DelayTrees
      OBVIOUS
    <3> HIDE DEF Bad
    <3> QED BY <3>1, LeastDelay
  <2>2. u.kind = "additive" => \A i \in DOMAIN u.parts : delays[u.parts[i]] \in DelaySets
    BY <2>1
  <2>3. u \in T /\ delays[u] \notin DelaySets
    OBVIOUS
  <2> HIDE DEF Bad, body
  <2> QED BY <1>2, <1>9, <2>2, <2>3
<1>11. delays[t] \in DelaySets
  BY <1>10
<1>12. t.kind = "additive" =>
         delays[t] = AddedUp([i \in DOMAIN t.parts |-> NextDelays(t.parts[i], n)])
  BY <1>8, <1>9
<1>13. t.kind # "additive" => delays[t] = LeafDelays(t, n)
  BY <1>9
<1> QED BY <1>8, <1>11, <1>12, <1>13, Zenon

-----------------------------------------------------------------------------
(* The invariant of a policy and its executions. *)

\* The inductive invariant of a policy and its execution.
PolicyKept ==
  /\ calls \in 0..MaxCalls /\ delay \in DelayTrees /\ settings.ends \in Endings
\* The state of the execution.
RunKept ==
  /\ attempt \in 0..MaxAttempt /\ elapsed \in Nat
  /\ phase \in {"build", "attempt", "decide", "stopped"}
  /\ waits \in Seq(Int)
  /\ phase = "build" => attempt = 0 /\ elapsed = 0 /\ slept = <<>> /\ waits = <<>> /\ ~busy
  /\ phase # "stopped" => decision = Ends!Undecided
\* After n attempts, at some time the execution was not to be stopped.
GoesOn(t, n) == \E e \in Nat : ~ShouldStop(t, n, e)
\* Each attempt but the first follows one after which it was not to be stopped.
Counted ==
  /\ phase = "attempt" /\ attempt >= 1 => GoesOn(stop, attempt)
  /\ phase \in {"decide", "stopped"} => attempt >= 1 /\ (attempt >= 2 => GoesOn(stop, attempt - 1))
\* The last attempt is retried for its outcome, and the execution stopped when it should be
\* or when its budget could not schedule a retry.
Judged ==
  /\ Exhausted =>
       /\ \/ \E e \in Nat : ShouldStop(stop, attempt, e)
          \/ settings.budget /\ Unscheduled
       /\ decision.error = IF cause = "exception" THEN "itself" ELSE "none"
       /\ decision.retry_cause = cause
  /\ Exhausted \/ phase = "decide" =>
       \E o \in Outcomes : /\ ShouldRetry(condition, o)
                           /\ cause = IF o \in Exceptions THEN "exception" ELSE "result"
ForecastInv == BuilderInv /\ PolicyKept /\ RunKept /\ Counted /\ Judged

\* The invariant holds of the default policy.
LEMMA ForecastStarts == ForecastInit => ForecastInv
<1> SUFFICES ASSUME ForecastInit PROVE ForecastInv
  OBVIOUS
<1>1. BuilderInv
  BY BuilderStarts DEF ForecastInit
<1>2. settings.ends = Ends!DefaultPolicy
  BY DEF ForecastInit, DefaultSettings
<1>3. Ends!DefaultPolicy \in Endings
  BY DEF Ends!DefaultPolicy, Endings, Ends!Policies, Ends!Callbacks, Ends!Factories
<1>4. PolicyKept
  BY <1>2, <1>3, TuningsAssumption, BuilderAssumption DEF ForecastInit, BuilderInit, PolicyKept
<1>5. RunKept
  BY ForecastAssumption DEF ForecastInit, RunKept
<1>6. Counted
  BY DEF ForecastInit, Counted
<1>7. Judged
  BY DEF ForecastInit, Judged, Exhausted, Ends!Undecided
<1> QED BY <1>1, <1>4, <1>5, <1>6, <1>7 DEF ForecastInv

\* A call of the builder keeps it.
LEMMA BuildKeeps == ForecastInv /\ Build => ForecastInv'
<1> SUFFICES ASSUME ForecastInv, Build PROVE ForecastInv'
  OBVIOUS
<1>1. /\ phase = "build" /\ BuilderCall
      /\ UNCHANGED <<delay, settings, attempt, elapsed, cause, decision, slept, waits, busy, phase>>
  BY DEF Build, run
<1>2. BuilderInv'
  BY <1>1, StopSteps, ConditionSteps DEF ForecastInv, BuilderCall
<1>3. calls < MaxCalls /\ calls' = calls + 1
  BY <1>1, Zenon DEF BuilderCall, StopCall, ConditionCall, SetStop, OrStop, AndStop, On, RetryIfResult,
         RetryIf, AnyConditions, AllConditions, OrOn, OrRetryIfResult, SetCondition, Call
<1>4. PolicyKept'
  BY <1>1, <1>3, BuilderAssumption DEF ForecastInv, PolicyKept
<1>5. RunKept'
  BY <1>1 DEF ForecastInv, RunKept
<1>6. Counted'
  BY <1>1 DEF Counted
<1>7. Judged'
  BY <1>1 DEF ForecastInv, RunKept, Judged, Exhausted, Ends!Undecided
<1> QED BY <1>2, <1>4, <1>5, <1>6, <1>7 DEF ForecastInv

\* Starting an execution keeps it.
LEMMA BeginKeeps == ForecastInv /\ Begin => ForecastInv'
<1> SUFFICES ASSUME ForecastInv, Begin PROVE ForecastInv'
  OBVIOUS
<1>1. /\ phase = "build" /\ phase' = "attempt" /\ calls' = MaxCalls
      /\ UNCHANGED <<stop, condition, stopsAt, retries, turns, lastOp>>
      /\ UNCHANGED <<attempt, elapsed, cause, decision, slept, waits, busy>>
  BY DEF Begin, run
<1>2. PICK t \in Tunings[calls] : delay' = t.delay /\ settings' = t.settings
  BY DEF Begin
<1>3. BuilderInv'
  BY <1>1 DEF ForecastInv, BuilderInv, StopKept, ConditionKept, StopsAsWritten, RetriesAsWritten
<1>4. PolicyKept'
  BY <1>1, <1>2, TuningsAssumption, BuilderAssumption DEF ForecastInv, PolicyKept
<1>5. RunKept'
  BY <1>1 DEF ForecastInv, RunKept
<1>6. Counted'
  BY <1>1 DEF Counted, ForecastInv, RunKept
<1>7. Judged'
  BY <1>1 DEF ForecastInv, RunKept, Judged, Exhausted, Ends!Undecided
<1> QED BY <1>3, <1>4, <1>5, <1>6, <1>7 DEF ForecastInv

\* An execution leaves the policy alone.
LEMMA PolicyStays ==
  ASSUME ForecastInv, UNCHANGED policyVars
  PROVE  /\ BuilderInv' /\ PolicyKept'
         /\ UNCHANGED <<stop, condition, delay, settings>>
<1>1. UNCHANGED <<stop, condition, stopsAt, retries, turns, lastOp, calls, delay, settings>>
  BY DEF policyVars, builderVars
<1> QED BY <1>1 DEF ForecastInv, BuilderInv, StopKept, ConditionKept, StopsAsWritten, RetriesAsWritten,
        PolicyKept

\* An attempt keeps it.
LEMMA AttemptKeeps ==
  ASSUME ForecastInv, NEW o \in Outcomes, Attempt(o)
  PROVE  ForecastInv'
<1>1. /\ phase = "attempt" /\ attempt < MaxAttempt /\ attempt' = attempt + 1
      /\ cause' = IF o \in Exceptions THEN "exception" ELSE "result"
      /\ UNCHANGED policyVars /\ waits' = waits
  BY DEF Attempt
<1>2. BuilderInv' /\ PolicyKept' /\ UNCHANGED <<stop, condition, delay, settings>>
  BY <1>1, PolicyStays
<1>3. \/ ShouldRetry(condition, o) /\ phase' = "decide" /\ UNCHANGED decision
      \/ phase' = "stopped" /\ decision'.kind \in {"reject", "accept"}
  BY DEF Attempt, Stop
<1>4. PICK d \in Durations : elapsed' = elapsed + d
  BY DEF Attempt
<1>5. decision = Ends!Undecided /\ attempt \in Nat /\ elapsed \in Nat /\ waits \in Seq(Int)
  BY <1>1 DEF ForecastInv, RunKept
<1>6. RunKept'
  BY <1>1, <1>3, <1>4, <1>5, ForecastAssumption DEF RunKept
<1>7. attempt >= 1 => GoesOn(stop, attempt)
  BY <1>1 DEF ForecastInv, Counted
<1>8. Counted'
  <2>1. (attempt + 1) - 1 = attempt /\ attempt' >= 1 /\ (attempt' >= 2 => attempt >= 1)
    BY <1>1, <1>5
  <2>2. attempt' >= 2 => GoesOn(stop', attempt' - 1)
    BY <1>1, <1>2, <1>7, <2>1
  <2>3. phase' # "attempt"
    BY <1>3
  <2> QED BY <2>1, <2>2, <2>3 DEF Counted
<1>9. Judged'
  <2>1. ~Exhausted'
    BY <1>3, <1>5 DEF Exhausted, Ends!Undecided
  <2>2. phase' = "decide" => ShouldRetry(condition', o)
    BY <1>2, <1>3
  <2> QED BY <1>1, <2>1, <2>2 DEF Judged
<1> QED BY <1>2, <1>6, <1>8, <1>9 DEF ForecastInv

\* What Decide does about a delay of d seconds to which the budget adds w: the retry is
\* scheduled and not stopped before it sleeps, or the execution is exhausted.
Sleeps(d, w) == d + w <= MaxSleep /\ ~ShouldStop(stop, attempt, elapsed + d + w)
Planned(d, w) ==
  /\ waits' = Append(waits, IF d + w <= MaxSleep THEN w ELSE None)
  /\ IF Sleeps(d, w) THEN Sleep(d + w) ELSE Exhaust

\* The history of the budget's waits, with one more.
LEMMA PlanRemembered ==
  ASSUME waits \in Seq(Int), NEW d \in Nat, NEW w \in Nat, Planned(d, w)
  PROVE  /\ waits' \in Seq(Int) /\ Len(waits') = Len(waits) + 1 /\ Len(waits) \in Nat
         /\ \A i \in 1..Len(waits) : waits'[i] = waits[i]
         /\ waits'[Len(waits) + 1] = IF d + w <= MaxSleep THEN w ELSE None
         /\ DOMAIN waits' = 1..Len(waits) + 1
         /\ d + w > MaxSleep => Unscheduled'
<1> DEFINE x == IF d + w <= MaxSleep THEN w ELSE None
<1>1. x \in Int /\ waits' = Append(waits, x)
  BY DEF Planned, None
<1>2. d + w > MaxSleep => x = None
  BY SleepAssumption
<1> HIDE DEF x
<1>3. /\ waits' \in Seq(Int) /\ Len(waits') = Len(waits) + 1 /\ Len(waits) \in Nat
      /\ waits'[Len(waits) + 1] = x /\ \A i \in 1..Len(waits) : waits'[i] = waits[i]
      /\ DOMAIN waits' = 1..Len(waits) + 1
  BY <1>1
<1>4. x = None => Unscheduled'
  <2>1. Len(waits) + 1 \in DOMAIN waits'
    BY <1>3
  <2> QED BY <1>3, <2>1 DEF Unscheduled
<1> QED BY <1>2, <1>3, <1>4 DEF x

\* Deciding what follows an attempt keeps it.
LEMMA DecideKeeps == ForecastInv /\ Decide => ForecastInv'
<1> SUFFICES ASSUME ForecastInv, Decide PROVE ForecastInv'
  OBVIOUS
<1>1. phase = "decide" /\ UNCHANGED <<attempt, cause, busy>> /\ UNCHANGED policyVars
  BY DEF Decide
<1>2. BuilderInv' /\ PolicyKept' /\ UNCHANGED <<stop, condition, delay, settings>>
  BY <1>1, PolicyStays
<1>3. attempt \in Nat /\ elapsed \in Nat /\ attempt >= 1 /\ attempt <= MaxAttempt
      /\ decision = Ends!Undecided /\ delay \in DelayTrees /\ waits \in Seq(Int)
      /\ (attempt >= 2 => GoesOn(stop, attempt - 1))
      /\ \E o \in Outcomes : /\ ShouldRetry(condition, o)
                             /\ cause = IF o \in Exceptions THEN "exception" ELSE "result"
  BY <1>1, ForecastAssumption DEF ForecastInv, RunKept, Counted, Judged, PolicyKept
<1>4. ASSUME Exhaust, waits' \in Seq(Int),
             (\E e \in Nat : ShouldStop(stop, attempt, e)) \/ (settings.budget /\ Unscheduled')
      PROVE  ForecastInv'
  <2>1. /\ phase' = "stopped" /\ elapsed' = elapsed
        /\ decision' = [kind |-> "exhaust", error |-> IF cause = "exception" THEN "itself" ELSE "none",
                        retry_cause |-> cause]
    BY <1>4 DEF Exhaust, Stop
  <2>2. RunKept'
    BY <1>1, <1>3, <1>4, <2>1, ForecastAssumption DEF RunKept
  <2>3. Counted'
    BY <1>1, <1>2, <1>3, <2>1 DEF Counted
  <2>4. Judged'
    BY <1>1, <1>2, <1>3, <1>4, <2>1 DEF Judged, Exhausted
  <2> QED BY <1>2, <2>2, <2>3, <2>4 DEF ForecastInv
<1>5. CASE ShouldStop(stop, attempt, elapsed)
  <2>1. Exhaust /\ waits' = waits
    BY <1>5 DEF Decide
  <2>2. waits' \in Seq(Int)
    BY <1>3, <2>1
  <2> QED BY <1>3, <1>4, <1>5, <2>1, <2>2
<1>6. CASE ~ShouldStop(stop, attempt, elapsed)
  <2>1. PICK d \in NextDelays(delay, attempt), w \in BudgetDelays : Planned(d, w)
    BY <1>6 DEF Decide, Planned, Sleeps
  <2>2. d \in Duration /\ d \in Nat /\ d <= MaxSleep
    <3>1. NextDelays(delay, attempt) \in DelaySets
      <4>1. attempt \in Nat \ {0} /\ delay \in DelayTrees
        BY <1>3
      <4> QED BY <4>1, DelaysOfTree
    <3> QED BY <3>1 DEF DelaySets, Duration
  <2>3. w \in Nat /\ (~settings.budget => w = 0)
    BY ForecastAssumption DEF BudgetDelays
  <2>4. waits' \in Seq(Int) /\ (d + w > MaxSleep => Unscheduled')
    BY <1>3, <2>1, <2>2, <2>3, PlanRemembered
  <2>5. CASE Sleeps(d, w)
    <3>1. elapsed' \in Nat /\ phase' = "attempt" /\ UNCHANGED decision
      BY <1>3, <2>1, <2>2, <2>3, <2>5 DEF Planned, Sleep
    <3>2. RunKept'
      BY <1>1, <1>3, <2>4, <3>1, ForecastAssumption DEF RunKept
    <3>3. GoesOn(stop, attempt)
      BY <1>3, <1>6 DEF GoesOn
    <3>4. Counted'
      BY <1>1, <1>2, <3>1, <3>3 DEF Counted
    <3>5. Judged'
      BY <1>1, <1>2, <1>3, <3>1 DEF Judged, Exhausted, Ends!Undecided
    <3> QED BY <1>2, <3>2, <3>4, <3>5 DEF ForecastInv
  <2>6. CASE ~Sleeps(d, w)
    <3>1. Exhaust
      BY <2>1, <2>6 DEF Planned
    <3>2. CASE d + w <= MaxSleep
      <4>1. ShouldStop(stop, attempt, elapsed + d + w) /\ elapsed + d + w \in Nat
        BY <1>3, <2>2, <2>3, <2>6, <3>2 DEF Sleeps
      <4> QED BY <1>4, <2>4, <3>1, <4>1
    <3>3. CASE ~(d + w <= MaxSleep)
      <4>1. d + w > MaxSleep /\ settings.budget
        BY <2>2, <2>3, <3>3, SleepAssumption
      <4> QED BY <1>4, <2>4, <3>1, <4>1
    <3> QED BY <3>2, <3>3
  <2> QED BY <2>5, <2>6
<1> QED BY <1>5, <1>6

\* Every policy, and every execution of it, keeps the invariant.
THEOREM ForecastInvariant == ForecastSpec => []ForecastInv
<1>1. ForecastInit => ForecastInv
  BY ForecastStarts
<1>2. ForecastInv /\ [ForecastNext]_forecastVars => ForecastInv'
  <2> SUFFICES ASSUME ForecastInv, [ForecastNext]_forecastVars PROVE ForecastInv'
    OBVIOUS
  <2>1. CASE ForecastNext
    BY <2>1, BuildKeeps, BeginKeeps, AttemptKeeps, DecideKeeps DEF ForecastNext
  <2>2. CASE UNCHANGED forecastVars
    BY <2>2, PolicyStays DEF forecastVars, run, ForecastInv, RunKept, Counted, GoesOn, Judged, Exhausted,
       Unscheduled
  <2> QED BY <2>1, <2>2
<1> QED BY <1>1, <1>2, PTL DEF ForecastSpec

-----------------------------------------------------------------------------
(* What the analyses say of an execution. *)

\* An execution that makes another attempt was not stopped after one before it.
LEMMA WentOn ==
  ASSUME ForecastInv, attempt > 1
  PROVE  \E n \in Nat \ {0} : \E e \in Nat : attempt <= n + 1 /\ ~ShouldStop(stop, n, e)
<1>1. attempt \in Nat /\ attempt - 1 \in Nat \ {0} /\ attempt \in Nat \ {0}
      /\ attempt <= (attempt - 1) + 1 /\ attempt <= attempt + 1
  BY ForecastAssumption DEF ForecastInv, RunKept
<1>2. GoesOn(stop, attempt) \/ GoesOn(stop, attempt - 1)
  BY <1>1 DEF ForecastInv, RunKept, Counted
<1>3. CASE GoesOn(stop, attempt)
  BY <1>1, <1>3 DEF GoesOn
<1>4. CASE GoesOn(stop, attempt - 1)
  <2> DEFINE n == attempt - 1
  <2>1. n \in Nat \ {0} /\ attempt <= n + 1 /\ \E e \in Nat : ~ShouldStop(stop, n, e)
    BY <1>1, <1>4 DEF GoesOn
  <2> HIDE DEF n
  <2> QED BY <2>1
<1> QED BY <1>2, <1>3, <1>4

\* A strategy analysed as stopping after the first attempt allows no other.
LEMMA OnlyOnce == ForecastInv /\ StopsAfterFirstAttempt(stop) => attempt <= 1
<1> SUFFICES ASSUME ForecastInv, StopsAfterFirstAttempt(stop), ~(attempt <= 1) PROVE FALSE
  OBVIOUS
<1>1. attempt > 1 /\ stop \in StopTrees
  BY ForecastAssumption DEF ForecastInv, RunKept, BuilderInv, StopKept
<1>2. PICK n \in Nat \ {0} : \E e \in Nat : ~ShouldStop(stop, n, e)
  BY <1>1, WentOn
<1> QED BY <1>1, <1>2, AtOnceStops

\* A known attempt limit is a bound on the attempts.
LEMMA WithinLimit ==
  ForecastInv /\ KnownAttemptLimit[stop] # None =>
    KnownAttemptLimit[stop] \in Nat \ {0} /\ attempt \in Nat /\ attempt <= KnownAttemptLimit[stop]
<1> SUFFICES ASSUME ForecastInv, KnownAttemptLimit[stop] # None
             PROVE  /\ KnownAttemptLimit[stop] \in Nat \ {0} /\ attempt \in Nat
                    /\ attempt <= KnownAttemptLimit[stop]
  OBVIOUS
<1>1. attempt \in Nat /\ stop \in StopTrees
  BY ForecastAssumption DEF ForecastInv, RunKept, BuilderInv, StopKept
<1>2. KnownAttemptLimit[stop] \in Nat \ {0}
  BY <1>1, LimitOfTree DEF Limited
<1>3. CASE attempt > 1
  <2>1. PICK n \in Nat \ {0} : \E e \in Nat : attempt <= n + 1 /\ ~ShouldStop(stop, n, e)
    BY <1>3, WentOn
  <2>2. ~(n >= KnownAttemptLimit[stop])
    BY <1>1, <2>1, LimitStops
  <2> QED BY <1>1, <1>2, <2>1, <2>2
<1>4. CASE ~(attempt > 1)
  BY <1>1, <1>2, <1>4
<1> QED BY <1>1, <1>2, <1>3, <1>4

\* Whatever is chained, and however long, the policy stops when the chain says and
\* its stop strategy is no deeper than the chain changes its mind.
THEOREM StopsForAll == ForecastSpec => []StopsAsWritten
<1>1. ForecastInv => StopsAsWritten
  BY DEF ForecastInv, BuilderInv, StopKept
<1> QED BY <1>1, ForecastInvariant, PTL

\* Whatever is chained, the policy retries the outcomes the chain asks for.
THEOREM RetriesForAll == ForecastSpec => []RetriesAsWritten
<1>1. ForecastInv => RetriesAsWritten
  BY DEF ForecastInv, BuilderInv, ConditionKept
<1> QED BY <1>1, ForecastInvariant, PTL

\* estimate_load, and the analysis of policies that never retry, bound every execution.
THEOREM AttemptsForAll == ForecastSpec => []AnalysesBoundAttempts
<1>1. ForecastInv => AnalysesBoundAttempts
  <2> SUFFICES ASSUME ForecastInv PROVE AnalysesBoundAttempts
    OBVIOUS
  <2> DEFINE most == EstimateAttempts[stop].maximum
  <2>1. stop \in StopTrees
    BY DEF ForecastInv, BuilderInv, StopKept
  <2>2. most = KnownAttemptLimit[stop]
    BY <2>1, EstimateOfTree
  <2>3. ASSUME most # None PROVE attempt <= most /\ 2 * attempt <= EstimateTotalCalls(2)
    <3>1. most \in Nat \ {0} /\ attempt \in Nat /\ attempt <= most
      BY <2>2, <2>3, WithinLimit
    <3>2. EstimateTotalCalls(2) = 2 + 2 * Max({0, most - 1})
      BY <2>3 DEF EstimateTotalCalls
    <3> HIDE DEF most
    <3>3. Max({0, most - 1}) >= most - 1 /\ Max({0, most - 1}) \in Nat
      BY <3>1, PairMax
    <3> QED BY <3>1, <3>2, <3>3
  <2> HIDE DEF most
  <2>4. most = EstimateAttempts[stop].maximum
    BY DEF most
  <2>5. StopsAfterFirstAttempt(stop) => attempt <= 1
    BY OnlyOnce
  <2> QED BY <2>2, <2>3, <2>4, <2>5 DEF AnalysesBoundAttempts
<1> QED BY <1>1, ForecastInvariant, PTL

\* The warnings about retrying forever are about stop strategies that never stop.
LEMMA ForeverWarnings ==
  ASSUME NEW code \in {"forever", "tight_loop_risk", "unbounded_exponential_with_forever",
                       "unbounded_history", "infinite_retry_with_budget"}, Warns(code)
  PROVE  IsForever
<1>1. CASE code = "forever"
  BY <1>1 DEF Warns
<1>2. CASE code = "tight_loop_risk"
  BY <1>2 DEF Warns
<1>3. CASE code = "unbounded_exponential_with_forever"
  BY <1>3 DEF Warns
<1>4. CASE code = "unbounded_history"
  BY <1>4 DEF Warns, UnboundedHistory
<1>5. CASE code = "infinite_retry_with_budget"
  BY <1>5 DEF Warns
<1> QED BY <1>1, <1>2, <1>3, <1>4, <1>5

\* What is analysed as infinite never stops by its strategy, whatever the tree: only a
\* budget that cannot schedule a retry ends such an execution.
THEOREM ForeverForAll == ForecastSpec => []ForeverNeverStops
<1>1. ForecastInv => ForeverNeverStops
  <2> SUFFICES ASSUME ForecastInv PROVE ForeverNeverStops
    OBVIOUS
  <2>1. stop \in StopTrees
    BY DEF ForecastInv, BuilderInv, StopKept
  <2>2. EstimateAttempts[stop].unbounded = StopIsInfinite(stop)
    BY <2>1, EstimateOfTree
  <2>3. Exhausted /\ IsForever => Unscheduled /\ Warns("infinite_retry_with_budget")
    BY <2>1, InfiniteNeverStops DEF ForecastInv, Judged, IsForever, Warns
  <2> QED BY <2>2, <2>3, ForeverWarnings DEF ForeverNeverStops
<1> QED BY <1>1, ForecastInvariant, PTL

\* The warnings about broad classes say which plain errors are retried, and an
\* execution that retries many of them is reported as risky.
THEOREM BroadForAll == ForecastSpec => []BroadMeansBroad
<1>1. ForecastInv => BroadMeansBroad
  <2> SUFFICES ASSUME ForecastInv, ~HasUserCondition(condition) PROVE BroadMeansBroad
    BY DEF BroadMeansBroad
  <2>1. stop \in StopTrees /\ condition \in ConditionTrees /\ retries = Retried(condition)
    BY DEF ForecastInv, BuilderInv, StopKept, ConditionKept, RetriesAsWritten
  <2>2. /\ Exception \in Types
        /\ \A T \in Types : (PlainException \in T <=> T \in {Exception})
                            /\ (PlainOSError \in T <=> T \in {OSError, Exception})
    BY BuilderAssumption, WarningsAssumption DEF Exception
  <2>3. PlainException \in Exceptions /\ PlainOSError \in Exceptions
    BY <2>2 DEF Exception
  <2>4. PlainException \in retries <=> HasBroadException
    BY <2>1, <2>2, <2>3, BroadRetries DEF Retried, Outcomes, HasBroadException
  <2>5. PlainOSError \in retries <=> HasBroadOSError
    BY <2>1, <2>2, <2>3, BroadRetries DEF Retried, Outcomes, HasBroadOSError
  <2>6. (Warns("broad_exception") <=> BroadException) /\ (Warns("broad_os_error") <=> BroadOSError)
    BY DEF Warns
  <2>7. ASSUME PlainException \in retries, attempt > 1, attempt >= ManyAttempts, ~HasMaxTime(stop)
        PROVE  RiskLevel = "risky"
    <3>1. CanRetry
      <4>1. attempt \in Nat
        BY ForecastAssumption DEF ForecastInv, RunKept
      <4> QED BY <2>7, <4>1, OnlyOnce DEF CanRetry
    <3>2. IsForever \/ HighAttemptCount
      <4>1. CASE StopIsInfinite(stop)
        BY <4>1 DEF IsForever
      <4>2. CASE KnownAttemptLimit[stop] # None
        <5>1. ManyAttempts \in Nat
          BY WarningsAssumption
        <5>2. KnownAttemptLimit[stop] >= ManyAttempts
          BY <2>7, <4>2, <5>1, WithinLimit
        <5> QED BY <4>2, <5>2 DEF HighAttemptCount, Limit
      <4> QED BY <2>1, <2>7, <4>1, <4>2, LimitedOrInfinite
    <3>3. Warns("background_broad_exception")
      <4>1. BackgroundBroadException
        BY <2>4, <2>7, <3>1, <3>2 DEF BackgroundBroadException
      <4> QED BY <4>1 DEF Warns
    <3> QED BY <3>3 DEF RiskLevel, Critical
  <2> QED BY <2>4, <2>5, <2>6, <2>7 DEF BroadMeansBroad, BroadException, BroadOSError
<1> QED BY <1>1, ForecastInvariant, PTL

\* The warnings about unseen exhaustion are about what the caller sees.
THEOREM ObservedForAll == ForecastSpec => []ExhaustionIsObserved
<1>1. ForecastInv => ExhaustionIsObserved
  <2> SUFFICES ASSUME ForecastInv, Exhausted, attempt > 1, ~HasUserCondition(condition)
               PROVE  /\ CallerSees = Ends!Returns("value") <=>
                           cause = "result" /\ Warns("result_retry_without_observation")
                      /\ CallerSees.what \in {"fallback", "callback_error"} /\ ~settings.observed <=>
                           Warns("silent_fallback")
    BY DEF ExhaustionIsObserved
  <2> DEFINE p == settings.ends
  <2>1. condition \in ConditionTrees /\ p \in Endings
    BY DEF ForecastInv, BuilderInv, ConditionKept, PolicyKept
  <2>2. CanRetry
    <3>1. attempt \in Nat
      BY ForecastAssumption DEF ForecastInv, RunKept
    <3> QED BY <3>1, OnlyOnce DEF CanRetry
  <2>3. /\ decision.error = IF cause = "exception" THEN "itself" ELSE "none"
        /\ decision.retry_cause = cause
        /\ \E o \in Outcomes : /\ ShouldRetry(condition, o)
                               /\ cause = IF o \in Exceptions THEN "exception" ELSE "result"
    BY DEF ForecastInv, Judged
  <2>4. cause \in {"exception", "result"}
    BY <2>3
  <2>5. cause = "result" => HasResultCondition(condition)
    BY <2>1, <2>3, RetriedResult DEF Outcomes
  <2>6. CallerSees = Ends!FinishExhausted(p, decision)
    BY DEF CallerSees, Exhausted, Ends!Run
  <2>7. /\ p.should_raise_last \in BOOLEAN /\ p.should_return_result \in BOOLEAN
        /\ p.result_exhausted_behavior \in {"return_last", "raise"}
        /\ p.exhausted_callback \in {"none", "returns", "raises"}
        /\ p.exhausted_exception_factory \in {"none", "fresh", "last_error", "not_an_exception"}
        /\ p.should_raise_last <=> /\ ~p.should_return_result /\ p.exhausted_callback = "none"
                                   /\ p.exhausted_exception_factory = "none"
    BY <2>1 DEF Endings, Ends!Policies, Ends!Callbacks, Ends!Factories
  <2>8. /\ Warns("result_retry_without_observation") <=>
             /\ HasResultCondition(condition) /\ ~p.should_return_result
             /\ p.exhausted_callback = "none" /\ p.exhausted_exception_factory = "none"
             /\ p.result_exhausted_behavior # "raise"
        /\ Warns("silent_fallback") <=>
             /\ p.exhausted_callback # "none" /\ ~settings.observed /\ ~p.should_return_result
    BY <2>2 DEF Warns, ResultRetryWithoutObservation, ResultUnobserved, SilentFallback
  <2> HIDE DEF p
  <2>9. CASE p.should_return_result
    BY <2>6, <2>7, <2>8, <2>9 DEF Ends!FinishExhausted, Ends!Returns
  <2>10. CASE ~p.should_return_result /\ p.exhausted_callback # "none"
    BY <2>6, <2>7, <2>8, <2>10 DEF Ends!FinishExhausted, Ends!Returns, Ends!Raises
  <2>11. CASE /\ ~p.should_return_result /\ p.exhausted_callback = "none"
              /\ p.exhausted_exception_factory # "none"
    <3>1. CallerSees = Ends!RaiseFromFactory(p, decision)
      BY <2>6, <2>11 DEF Ends!FinishExhausted
    <3>2. CallerSees \in {Ends!Raises("custom"), Ends!Raises("itself"), Ends!Raises("config_error")}
      BY <2>3, <2>4, <2>7, <3>1 DEF Ends!RaiseFromFactory
    <3> QED BY <2>8, <2>11, <3>2 DEF Ends!Returns, Ends!Raises
  <2>12. CASE /\ ~p.should_return_result /\ p.exhausted_callback = "none"
              /\ p.exhausted_exception_factory = "none"
    <3>1. p.should_raise_last
      BY <2>7, <2>12
    <3>2. CallerSees = IF decision.error # "none" THEN Ends!Raises(decision.error)
                       ELSE IF decision.retry_cause = "result" /\ p.result_exhausted_behavior = "raise"
                       THEN Ends!Raises("RetryExhaustedError") ELSE Ends!Returns("value")
      BY <2>6, <2>12, <3>1 DEF Ends!FinishExhausted
    <3>3. CASE cause = "exception"
      BY <2>3, <2>8, <2>12, <3>2, <3>3 DEF Ends!Returns, Ends!Raises
    <3>4. CASE cause = "result"
      BY <2>3, <2>5, <2>7, <2>8, <2>12, <3>2, <3>4 DEF Ends!Returns, Ends!Raises
    <3> QED BY <2>4, <3>3, <3>4
  <2> QED BY <2>9, <2>10, <2>11, <2>12
<1> QED BY <1>1, ForecastInvariant, PTL

-----------------------------------------------------------------------------
(* What an execution has slept. *)

\* A sum of the first terms depends on these only.
LEMMA SumsAgree ==
  ASSUME NEW s \in Seq(Int), NEW r \in Seq(Int), NEW n \in Nat, n <= Len(s), n <= Len(r),
         \A i \in 1..n : s[i] = r[i]
  PROVE  \A i \in 0..n : SumOfFirst(s, i) = SumOfFirst(r, i)
<1> DEFINE P == {i \in 0..n : SumOfFirst(s, i) = SumOfFirst(r, i)}
<1>1. 0 \in P
  BY Sums
<1>2. ASSUME NEW i \in 1..n, i - 1 \in P PROVE i \in P
  <2> DEFINE j == i - 1
  <2>1. j + 1 = i /\ j \in 0..Len(s) - 1 /\ j \in 0..Len(r) - 1 /\ j + 1 \in 1..n
    OBVIOUS
  <2>2. SumOfFirst(s, j) = SumOfFirst(r, j)
    BY <1>2
  <2> HIDE DEF j
  <2>3. SumOfFirst(s, j + 1) = SumOfFirst(s, j) + s[j + 1]
    BY <2>1, Sums
  <2>4. SumOfFirst(r, j + 1) = SumOfFirst(r, j) + r[j + 1]
    BY <2>1, Sums
  <2>5. s[j + 1] = r[j + 1]
    BY <2>1
  <2> QED BY <2>1, <2>2, <2>3, <2>4, <2>5
<1> HIDE DEF P
<1>3. \A i \in 0..n : i \in P
  BY <1>1, <1>2, Ascent
<1> QED BY <1>3 DEF P

\* A sequence of delays is one of integers.
LEMMA DelaysAreNumbers == ASSUME NEW s \in Seq(Duration) PROVE s \in Seq(Int)
<1>1. Len(s) \in Nat /\ s \in [1..Len(s) -> Duration] /\ Duration \subseteq Int
  BY SleepAssumption DEF Duration
<1>2. s \in [1..Len(s) -> Int]
  BY <1>1
<1>3. \A n \in Nat : \A f \in [1..n -> Int] : f \in Seq(Int)
  OBVIOUS
<1> QED BY <1>1, <1>2, <1>3

\* Appending a term to a sequence of delays adds it to the sum.
LEMMA SumOfAppended ==
  ASSUME NEW s \in Seq(Duration), NEW x \in Duration
  PROVE  /\ Append(s, x) \in Seq(Duration) /\ Len(Append(s, x)) = Len(s) + 1 /\ Len(s) \in Nat
         /\ Append(s, x)[Len(s) + 1] = x /\ \A i \in 1..Len(s) : Append(s, x)[i] = s[i]
         /\ SumSeq(Append(s, x)) = SumSeq(s) + x /\ SumSeq(s) \in Int
         /\ \A i \in 0..Len(s) : SumOfFirst(Append(s, x), i) = SumOfFirst(s, i)
<1> DEFINE r == Append(s, x)
           n == Len(s)
<1>2. r \in Seq(Duration) /\ Len(r) = n + 1 /\ r[n + 1] = x /\ n \in Nat /\ \A i \in 1..n : r[i] = s[i]
  BY Extended
<1>3. s \in Seq(Int) /\ r \in Seq(Int)
  BY <1>2, DelaysAreNumbers
<1> HIDE DEF r
<1>4. \A i \in 0..n : SumOfFirst(r, i) = SumOfFirst(s, i)
  <2>1. n <= Len(s) /\ n <= Len(r)
    BY <1>2
  <2> HIDE DEF n
  <2> QED BY <1>2, <1>3, <2>1, SumsAgree
<1>5. n \in 0..n /\ n \in 0..Len(r) - 1 /\ n \in 0..Len(s)
  BY <1>2
<1>6. SumOfFirst(r, n + 1) = SumOfFirst(r, n) + r[n + 1] /\ SumOfFirst(s, n) \in Int
  BY <1>3, <1>5, Sums
<1>7. SumSeq(r) = SumSeq(s) + x /\ SumSeq(s) \in Int
  BY <1>2, <1>4, <1>5, <1>6 DEF SumSeq
<1> QED BY <1>2, <1>4, <1>7 DEF r

\* The pauses s of an execution: each was taken at some time at which the execution was
\* not to be stopped, nor to be at its end;
Pauses(t, s) ==
  \A k \in 1..Len(s) : \E e \in Nat : ~ShouldStop(t, k, e) /\ ~ShouldStop(t, k, e + s[k])
\* each is a delay of its attempt and what the budget added to it;
DelaysAndWaits(d, s, w) ==
  \A k \in 1..Len(s) : \E x \in NextDelays(d, k) : s[k] = x + w[k]
\* and when only the pauses take time, that time is the sum of those before.
TimedPauses(t, s) ==
  \A k \in 1..Len(s) : /\ ~ShouldStop(t, k, SumOfFirst(s, k - 1))
                       /\ ~ShouldStop(t, k, SumOfFirst(s, k - 1) + s[k])
\* Attempt n is the last one when e seconds have passed.
StopsFrom(t, d, n, e) ==
  ShouldStop(t, n, e) \/ \E x \in NextDelays(d, n) : ShouldStop(t, n, e + x)

\* Only the pauses take time.
RealTime == ~busy /\ ~settings.testing
\* The inductive invariant of what was slept.
Slept ==
  /\ slept \in Seq(Duration) /\ Pauses(stop, slept)
  /\ Len(slept) <= Len(waits) /\ DelaysAndWaits(delay, slept, waits)
  /\ phase # "stopped" => Len(waits) = Len(slept)
  /\ phase \in {"build", "attempt"} => Len(slept) = attempt
  /\ phase \in {"decide", "stopped"} => Len(slept) = attempt - 1
  /\ RealTime => elapsed = SumSeq(slept) /\ TimedPauses(stop, slept)
  /\ Exhausted /\ ~Deferred => StopsFrom(stop, delay, attempt, elapsed)

\* One more pause of x seconds, taken at time e.
LEMMA AnotherPause ==
  ASSUME NEW t, NEW s \in Seq(Duration), NEW x \in Duration, NEW n, n = Len(s) + 1,
         Pauses(t, s),
         NEW e \in Nat, ~ShouldStop(t, n, e), ~ShouldStop(t, n, e + x)
  PROVE  /\ Pauses(t, Append(s, x))
         /\ TimedPauses(t, s) /\ e = SumSeq(s) => TimedPauses(t, Append(s, x))
<1> DEFINE r == Append(s, x)
<1>1. /\ Len(r) = n /\ r[n] = x /\ n - 1 = Len(s) /\ n \in Nat
      /\ \A i \in 1..n - 1 : r[i] = s[i]
      /\ \A i \in 0..n - 1 : SumOfFirst(r, i) = SumOfFirst(s, i)
  BY SumOfAppended
<1> HIDE DEF r
<1>2. \A k \in 1..n : k \in 1..Len(s) \/ k = n
  BY <1>1
<1>3. Pauses(t, r)
  <2>1. ASSUME NEW k \in 1..Len(s)
        PROVE  \E u \in Nat : ~ShouldStop(t, k, u) /\ ~ShouldStop(t, k, u + r[k])
    BY <1>1 DEF Pauses
  <2> QED BY <1>1, <1>2, <2>1 DEF Pauses
<1>4. ASSUME TimedPauses(t, s), e = SumSeq(s) PROVE TimedPauses(t, r)
  <2>1. ASSUME NEW k \in 1..Len(s)
        PROVE  /\ ~ShouldStop(t, k, SumOfFirst(r, k - 1))
               /\ ~ShouldStop(t, k, SumOfFirst(r, k - 1) + r[k])
    <3>1. SumOfFirst(r, k - 1) = SumOfFirst(s, k - 1) /\ r[k] = s[k]
      BY <1>1
    <3> QED BY <1>4, <3>1 DEF TimedPauses
  <2>2. SumOfFirst(r, n - 1) = e
    BY <1>1, <1>4 DEF SumSeq
  <2> QED BY <1>1, <1>2, <2>1, <2>2 DEF TimedPauses
<1> QED BY <1>3, <1>4 DEF r

\* The pause is a delay of its attempt and what the budget added to it.
LEMMA AnotherWait ==
  ASSUME NEW d, NEW s \in Seq(Duration), NEW n, n = Len(s) + 1, NEW x \in Nat, NEW w \in Nat,
         x \in NextDelays(d, n), x + w <= MaxSleep, NEW u, NEW v, DelaysAndWaits(d, s, u),
         \A k \in 1..Len(s) : v[k] = u[k], v[n] = w
  PROVE  x + w \in Duration /\ DelaysAndWaits(d, Append(s, x + w), v)
<1> DEFINE y == x + w
           r == Append(s, y)
<1>1. y \in Duration
  BY SleepAssumption DEF Duration
<1>2. Len(r) = n /\ r[n] = y /\ n \in Nat /\ \A i \in 1..Len(s) : r[i] = s[i]
  <2> HIDE DEF y
  <2> QED BY <1>1, SumOfAppended
<1>3. \A k \in 1..n : k \in 1..Len(s) \/ k = n
  BY <1>2
<1>4. \E z \in NextDelays(d, n) : r[n] = z + v[n]
  BY <1>2
<1> HIDE DEF r, y
<1>5. ASSUME NEW k \in 1..Len(s) PROVE \E z \in NextDelays(d, k) : r[k] = z + v[k]
  BY <1>2 DEF DelaysAndWaits
<1>6. DelaysAndWaits(d, r, v)
  BY <1>2, <1>3, <1>4, <1>5 DEF DelaysAndWaits
<1> QED BY <1>1, <1>6 DEF r, y

\* Nothing was slept when nothing was executed.
LEMMA SleptStarts == ForecastInit => Slept
<1> SUFFICES ASSUME ForecastInit PROVE Slept
  OBVIOUS
<1>1. slept = <<>> /\ waits = <<>> /\ attempt = 0 /\ elapsed = 0 /\ phase = "build" /\ decision = Ends!Undecided
  BY DEF ForecastInit
<1>2. /\ slept \in Seq(Duration) /\ slept \in Seq(Int) /\ Len(slept) = 0 /\ Len(waits) = 0
      /\ 1..Len(slept) = {}
  BY <1>1
<1>3. SumSeq(slept) = 0
  BY <1>2, Sums DEF SumSeq
<1>4. ~Exhausted
  BY <1>1 DEF Exhausted, Ends!Undecided
<1> QED BY <1>1, <1>2, <1>3, <1>4 DEF Slept, Pauses, DelaysAndWaits, TimedPauses

\* Every step keeps the record of what was slept.
LEMMA SleptKept == ForecastInv /\ Slept /\ [ForecastNext]_forecastVars => Slept'
<1> SUFFICES ASSUME ForecastInv, Slept, [ForecastNext]_forecastVars PROVE Slept'
  OBVIOUS
<1>1. CASE Build \/ Begin
  <2>1. phase = "build" /\ UNCHANGED <<attempt, elapsed, slept, waits, busy, decision>>
    BY <1>1 DEF Build, Begin, run
  <2>2. phase' \in {"build", "attempt"}
    BY <1>1, <2>1 DEF Build, Begin
  <2>3. slept = <<>> /\ waits = <<>> /\ attempt = 0 /\ elapsed = 0 /\ decision = Ends!Undecided
    BY <2>1 DEF ForecastInv, RunKept
  <2>4. /\ slept' \in Seq(Duration) /\ slept' \in Seq(Int) /\ Len(slept') = 0 /\ Len(waits') = 0
        /\ 1..Len(slept') = {}
    BY <2>1, <2>3
  <2>5. SumSeq(slept') = 0
    BY <2>4, Sums DEF SumSeq
  <2>6. ~Exhausted'
    BY <2>1, <2>3 DEF Exhausted, Ends!Undecided
  <2> QED BY <2>1, <2>2, <2>3, <2>4, <2>5, <2>6 DEF Slept, Pauses, DelaysAndWaits, TimedPauses
<1>2. ASSUME NEW o \in Outcomes, Attempt(o) PROVE Slept'
  <2>1. /\ phase = "attempt" /\ attempt' = attempt + 1 /\ UNCHANGED <<policyVars, slept, waits>>
        /\ phase' \in {"decide", "stopped"}
    BY <1>2 DEF Attempt, Stop
  <2>2. UNCHANGED <<stop, delay, settings>>
    BY <2>1, PolicyStays
  <2>3. PICK d \in Durations : elapsed' = elapsed + d /\ busy' = (busy \/ d > 0)
    BY <1>2 DEF Attempt
  <2>4. elapsed \in Nat /\ attempt \in Nat /\ d \in Nat /\ decision = Ends!Undecided
    BY <2>1, ForecastAssumption DEF ForecastInv, RunKept
  <2>5. RealTime' => RealTime /\ elapsed' = elapsed
    <3>1. ~busy' => ~busy /\ ~(d > 0)
      BY <2>3, Zenon
    <3>2. ~(d > 0) => elapsed' = elapsed
      BY <2>3, <2>4
    <3> QED BY <2>2, <3>1, <3>2, Zenon DEF RealTime
  <2>6. ~Exhausted'
    BY <1>2, <2>4 DEF Attempt, Stop, Exhausted, Ends!Undecided
  <2> QED BY <2>1, <2>2, <2>4, <2>5, <2>6 DEF Slept
<1>3. CASE Decide
  <2>1. phase = "decide" /\ UNCHANGED <<attempt, busy>> /\ UNCHANGED policyVars
    BY <1>3 DEF Decide
  <2>2. UNCHANGED <<stop, delay, settings>>
    BY <2>1, PolicyStays
  <2>3. /\ attempt \in Nat \ {0} /\ elapsed \in Nat /\ waits \in Seq(Int) /\ delay \in DelayTrees /\ Len(slept) = attempt - 1
        /\ decision = Ends!Undecided
    BY <2>1, ForecastAssumption DEF ForecastInv, RunKept, PolicyKept, Counted, Slept
  <2>4. ASSUME Exhaust, Len(slept) <= Len(waits'), DelaysAndWaits(delay, slept, waits'),
               ~Deferred' => StopsFrom(stop, delay, attempt, elapsed)
        PROVE  Slept'
    <3>1. phase' = "stopped" /\ UNCHANGED <<elapsed, slept>>
      BY <2>4 DEF Exhaust, Stop
    <3> QED BY <2>1, <2>2, <2>3, <2>4, <3>1 DEF Slept, RealTime
  <2>5. CASE ShouldStop(stop, attempt, elapsed)
    <3>1. Exhaust /\ waits' = waits
      BY <1>3, <2>5 DEF Decide
    <3>2. Len(slept) <= Len(waits') /\ DelaysAndWaits(delay, slept, waits')
      BY <3>1 DEF Slept
    <3> QED BY <2>4, <2>5, <3>1, <3>2 DEF StopsFrom
  <2>6. CASE ~ShouldStop(stop, attempt, elapsed)
    <3>1. PICK d \in NextDelays(delay, attempt), w \in BudgetDelays : Planned(d, w)
      BY <1>3, <2>6 DEF Decide, Planned, Sleeps
    <3>2. d \in Nat /\ w \in Nat
      <4>1. NextDelays(delay, attempt) \in DelaySets
        BY <2>3, DelaysOfTree
      <4> QED BY <4>1, ForecastAssumption DEF DelaySets, Duration, BudgetDelays
    <3>3. /\ slept \in Seq(Duration) /\ Pauses(stop, slept) /\ attempt = Len(slept) + 1
          /\ DelaysAndWaits(delay, slept, waits) /\ Len(waits) = Len(slept) /\ Len(slept) \in Nat
      BY <2>1, <2>3 DEF Slept
    <3>4. /\ Len(waits') = attempt /\ \A i \in 1..Len(slept) : waits'[i] = waits[i]
          /\ waits'[attempt] = IF d + w <= MaxSleep THEN w ELSE None
          /\ attempt \in DOMAIN waits'
      BY <2>3, <3>1, <3>2, <3>3, PlanRemembered
    <3>5. CASE ~Sleeps(d, w)
      <4>1. Exhaust
        BY <3>1, <3>5 DEF Planned
      <4>2. Len(slept) <= Len(waits') /\ DelaysAndWaits(delay, slept, waits')
        BY <3>3, <3>4 DEF DelaysAndWaits
      <4>3. ASSUME ~Deferred' PROVE StopsFrom(stop, delay, attempt, elapsed)
        <5>1. waits'[attempt] = 0
          BY <3>4, <4>3 DEF Deferred
        <5>2. w = 0 /\ d + w <= MaxSleep
          BY <3>4, <5>1 DEF None
        <5>3. ShouldStop(stop, attempt, elapsed + d + w) /\ elapsed + d + w = elapsed + d
          BY <2>3, <3>2, <3>5, <5>2 DEF Sleeps
        <5> QED BY <5>3 DEF StopsFrom
      <4> QED BY <2>4, <4>1, <4>2, <4>3
    <3>6. CASE Sleeps(d, w)
      <4> DEFINE y == d + w
      <4>1. y <= MaxSleep /\ waits'[attempt] = w /\ y \in Nat
        BY <3>2, <3>4, <3>6 DEF Sleeps
      <4>2. y \in Duration /\ DelaysAndWaits(delay, Append(slept, y), waits')
        BY <3>2, <3>3, <3>4, <4>1, AnotherWait
      <4>3. ~ShouldStop(stop, attempt, elapsed + y)
        <5>1. elapsed + d + w = elapsed + y
          BY <2>3, <3>2
        <5> HIDE DEF y
        <5> QED BY <3>6, <5>1 DEF Sleeps
      <4>4. Sleep(y)
        BY <3>1, <3>6 DEF Planned
      <4> HIDE DEF y
      <4>5. /\ elapsed' = IF settings.testing THEN elapsed ELSE elapsed + y
            /\ slept' = Append(slept, y) /\ phase' = "attempt" /\ decision' = Ends!Undecided
        BY <2>3, <4>4 DEF Sleep
      <4>6. /\ slept' \in Seq(Duration) /\ Len(slept') = attempt' /\ Len(waits') = Len(slept')
            /\ SumSeq(slept') = SumSeq(slept) + y
        BY <2>1, <3>3, <3>4, <4>2, <4>5, SumOfAppended
      <4>7. /\ Pauses(stop, slept')
            /\ TimedPauses(stop, slept) /\ elapsed = SumSeq(slept) => TimedPauses(stop, slept')
        BY <2>3, <2>6, <3>3, <4>2, <4>3, <4>5, AnotherPause
      <4>8. RealTime' => RealTime /\ elapsed' = elapsed + y
        BY <2>1, <2>2, <4>5 DEF RealTime
      <4>9. ~Exhausted'
        BY <4>5 DEF Exhausted, Ends!Undecided
      <4>10. Len(slept') <= Len(waits') /\ DelaysAndWaits(delay', slept', waits')
        BY <2>2, <2>3, <3>4, <4>2, <4>5, <4>6
      <4> QED BY <2>2, <4>5, <4>6, <4>7, <4>8, <4>9, <4>10 DEF Slept
    <3> QED BY <3>5, <3>6
  <2> QED BY <2>5, <2>6
<1>4. CASE UNCHANGED forecastVars
  <2>1. UNCHANGED <<stop, delay, settings, attempt, elapsed, slept, waits, busy, decision, phase>>
    BY <1>4 DEF forecastVars, policyVars, builderVars, run
  <2> QED BY <2>1 DEF Slept, RealTime, Exhausted, Deferred
<1> QED BY <1>1, <1>2, <1>3, <1>4 DEF ForecastNext

\* What was slept are delays of the policy and what its budget added to them, when it was
\* not to be stopped.
THEOREM SleptInvariant == ForecastSpec => []Slept
BY SleptStarts, SleptKept, ForecastInvariant, PTL DEF ForecastSpec

-----------------------------------------------------------------------------
(* The simulation of a policy. *)

\* What simulate_policy knows after some attempts, before the first one, and when
\* it goes on after a delay.
Simulations == [elapsed : Nat, delays : Seq(Duration), stops : BOOLEAN]
NothingSimulated == [elapsed |-> 0, delays |-> <<>>, stops |-> FALSE]
Delayed(sim, d) == [elapsed |-> sim.elapsed + d, delays |-> Append(sim.delays, d), stops |-> sim.stops]
Ended(sim) == [elapsed |-> sim.elapsed, delays |-> sim.delays, stops |-> TRUE]
SimulatedDelay(n) == CHOOSE x \in NextDelays(delay, n) : TRUE
\* Attempt n is the last one of a simulation.
SimulationStops(sim, n) ==
  \/ sim.stops \/ ShouldStop(stop, n, sim.elapsed)
  \/ ShouldStop(stop, n, sim.elapsed + SimulatedDelay(n))

\* The simulation picks one of the delays, a duration.
LEMMA SimulatedDelayTyped ==
  ASSUME delay \in DelayTrees, NEW n \in Nat \ {0}
  PROVE  SimulatedDelay(n) \in NextDelays(delay, n) /\ SimulatedDelay(n) \in Duration
<1>1. NextDelays(delay, n) \in DelaySets
  BY DelaysOfTree
<1>2. SimulatedDelay(n) \in NextDelays(delay, n)
  BY <1>1, Zenon DEF DelaySets, SimulatedDelay
<1> QED BY <1>1, <1>2 DEF DelaySets

\* One more attempt of a simulation, by the way it ends.
LEMMA SimulateOneStep ==
  ASSUME delay \in DelayTrees, NEW n \in Nat \ {0}, NEW sim \in Simulations
  PROVE  /\ SimulateStep(sim, n) = IF SimulationStops(sim, n) THEN Ended(sim)
                                   ELSE Delayed(sim, SimulatedDelay(n))
         /\ SimulateStep(sim, n) \in Simulations
<1> DEFINE d == SimulatedDelay(n)
<1>1. d \in Duration /\ d \in Nat
  BY SimulatedDelayTyped DEF Duration
<1>2. sim \in [elapsed : Nat, delays : Seq(Duration), stops : BOOLEAN]
  BY DEF Simulations
<1>3. SimulateStep(sim, n) = IF SimulationStops(sim, n) THEN [sim EXCEPT !.stops = TRUE]
                             ELSE [sim EXCEPT !.elapsed = @ + d, !.delays = Append(@, d)]
  BY Zenon DEF SimulateStep, SimulationStops, SimulatedDelay
<1> HIDE DEF d
<1>4. [sim EXCEPT !.stops = TRUE] = Ended(sim)
  <2> DEFINE r == [sim EXCEPT !.stops = TRUE]
  <2>1. r \in Simulations /\ r.elapsed = sim.elapsed /\ r.delays = sim.delays /\ r.stops = TRUE
    BY <1>2 DEF Simulations
  <2> HIDE DEF r
  <2>2. r = [elapsed |-> r.elapsed, delays |-> r.delays, stops |-> r.stops]
    BY <2>1 DEF Simulations
  <2> QED BY <2>1, <2>2 DEF Ended, r
<1>5. [sim EXCEPT !.elapsed = @ + d, !.delays = Append(@, d)] = Delayed(sim, d)
  <2> DEFINE e == sim.elapsed + d
             q == Append(sim.delays, d)
             r == [sim EXCEPT !.elapsed = e, !.delays = q]
  <2>1. e \in Nat /\ q \in Seq(Duration)
    BY <1>1, <1>2
  <2> HIDE DEF e, q
  <2>2. r \in Simulations /\ r.elapsed = e /\ r.delays = q /\ r.stops = sim.stops
    BY <1>2, <2>1 DEF Simulations
  <2> HIDE DEF r
  <2>3. r = [elapsed |-> r.elapsed, delays |-> r.delays, stops |-> r.stops]
    BY <2>2 DEF Simulations
  <2>4. r = [elapsed |-> e, delays |-> q, stops |-> sim.stops]
    BY <2>2, <2>3
  <2> QED BY <2>4 DEF Delayed, e, q, r
<1>6. Ended(sim) \in Simulations
  BY <1>2 DEF Ended, Simulations
<1>7. Delayed(sim, d) \in Simulations
  <2>1. Append(sim.delays, d) \in Seq(Duration) /\ sim.elapsed + d \in Nat
    BY <1>1, <1>2
  <2> QED BY <1>2, <2>1 DEF Delayed, Simulations
<1> QED BY <1>3, <1>4, <1>5, <1>6, <1>7 DEF d

\* Simulate is defined by recursion, and this is its recursion.
LEMMA SimulateFollows ==
  ASSUME delay \in DelayTrees, NEW n \in Nat
  PROVE  \E f \in [0..n -> Simulations] :
           /\ f[0] = NothingSimulated /\ Simulate(n) = f[n]
           /\ \A i \in 1..n : f[i] = SimulateStep(f[i - 1], i)
<1> DEFINE R == Simulations
           next == [p \in (1..n) \X R |-> SimulateStep(p[2], p[1])]
           body(i, g) == IF i = 0 THEN NothingSimulated ELSE SimulateStep(g[i - 1], i)
           after == CHOOSE g : g = [i \in 0..n |-> body(i, g)]
<1>1. \A i \in 1..n : i \in Nat \ {0} /\ i \in 0..n /\ i - 1 \in 0..n
  OBVIOUS
<1>2. next \in [(1..n) \X R -> R] /\ \A i \in 1..n : \A sim \in R : next[<<i, sim>>] = SimulateStep(sim, i)
  BY <1>1, SimulateOneStep
<1>3. NothingSimulated \in R
  BY DEF NothingSimulated, Simulations
<1> HIDE DEF R, next
<1>4. PICK g \in [0..n -> R] : g[0] = NothingSimulated /\ \A i \in 1..n : g[i] = SimulateStep(g[i - 1], i)
  <2>1. Sequels(n, R, NothingSimulated, next) # {}
    BY <1>2, <1>3, Unrolling
  <2> QED BY <1>1, <1>2, <2>1 DEF Sequels
<1>5. g = [i \in 0..n |-> body(i, g)]
  <2>1. \A i \in 0..n : i # 0 => i \in 1..n
    OBVIOUS
  <2>2. \A i \in 0..n : g[i] = body(i, g)
    BY <1>4, <2>1
  <2> HIDE DEF body
  <2> QED BY <2>2
<1>6. after = [i \in 0..n |-> body(i, after)]
  <2> HIDE DEF body
  <2> QED BY <1>5, Zenon DEF after
<1>7. Simulate(n) = after[n]
  BY Zenon DEF Simulate, NothingSimulated
<1> HIDE DEF after
<1>8. after[0] = NothingSimulated /\ \A i \in 1..n : after[i] = SimulateStep(after[i - 1], i)
  <2>1. \A i \in 0..n : after[i] = body(i, after)
    <3> HIDE DEF body
    <3> QED BY <1>6
  <2>2. 0 \in 0..n /\ \A i \in 1..n : i # 0
    OBVIOUS
  <2> QED BY <1>1, <2>1, <2>2
<1>9. \A i \in 0..n : after[i] \in R
  <2>1. ASSUME NEW i \in 1..n, after[i - 1] \in R PROVE after[i] \in R
    BY <1>1, <1>8, <2>1, SimulateOneStep DEF R
  <2> QED BY <1>3, <1>8, <2>1, Throughout
<1>10. after \in [0..n -> Simulations]
  BY <1>6, <1>9 DEF R
<1> QED BY <1>7, <1>8, <1>10

\* Simulate, step by step.
LEMMA SimulationRuns ==
  ASSUME delay \in DelayTrees, NEW n \in Nat
  PROVE  /\ Simulate(0) = NothingSimulated /\ Simulate(n) \in Simulations
         /\ Simulate(n + 1) = SimulateStep(Simulate(n), n + 1)
<1>1. PICK f \in [0..0 -> Simulations] : f[0] = NothingSimulated /\ Simulate(0) = f[0]
  BY SimulateFollows
<1>2. PICK g \in [0..n -> Simulations] : /\ g[0] = NothingSimulated /\ Simulate(n) = g[n]
                                         /\ \A i \in 1..n : g[i] = SimulateStep(g[i - 1], i)
  BY SimulateFollows
<1> DEFINE m == n + 1
<1>3. m \in Nat /\ n \in 0..n /\ m \in 1..m /\ m - 1 = n /\ 0 \in 0..n /\ 1..n \subseteq 1..m
  OBVIOUS
<1>4. PICK h \in [0..m -> Simulations] : /\ h[0] = NothingSimulated /\ Simulate(m) = h[m]
                                         /\ \A i \in 1..m : h[i] = SimulateStep(h[i - 1], i)
  BY <1>3, SimulateFollows
<1> DEFINE P == {i \in 0..n : g[i] = h[i]}
<1>5. \A i \in 0..n : i \in P
  <2>1. 0 \in P
    BY <1>2, <1>3, <1>4
  <2>2. ASSUME NEW i \in 1..n, i - 1 \in P PROVE i \in P
    <3>1. g[i] = SimulateStep(g[i - 1], i) /\ h[i] = SimulateStep(h[i - 1], i) /\ g[i - 1] = h[i - 1]
      BY <1>2, <1>3, <1>4, <2>2
    <3> QED BY <3>1
  <2> HIDE DEF P
  <2> QED BY <2>1, <2>2, Ascent
<1> HIDE DEF m
<1>6. h[n] = Simulate(n) /\ h[m] = SimulateStep(h[n], m)
  BY <1>2, <1>3, <1>4, <1>5
<1> QED BY <1>1, <1>2, <1>3, <1>4, <1>6 DEF m

\* The delays that are certain, and an execution that only pauses.
Certain(n) == \A k \in 1..n : ~Varies(k)

\* A delay that is certain is the one the simulation picks.
LEMMA OnlyDelay ==
  ASSUME delay \in DelayTrees, NEW n \in Nat \ {0}, ~Varies(n), NEW x \in NextDelays(delay, n)
  PROVE  x = SimulatedDelay(n)
<1> DEFINE S == NextDelays(delay, n)
<1>1. S \subseteq Duration /\ x \in S /\ SimulatedDelay(n) \in S
  BY DelaysOfTree, SimulatedDelayTyped DEF DelaySets
<1>2. IsFiniteSet(S) /\ Cardinality(S) \in Nat
  <2>1. IsFiniteSet(Duration)
    <3>1. 0 \in Int /\ MaxSleep \in Int
      BY SleepAssumption
    <3> QED BY <3>1, FS_Interval DEF Duration
  <2> HIDE DEF S
  <2>2. IsFiniteSet(S)
    BY <1>1, <2>1, FS_Subset
  <2> QED BY <2>2, FS_CardinalityType
<1>3. ~(Cardinality(S) > 1)
  BY DEF Varies
<1> HIDE DEF S
<1>4. CASE Cardinality(S) = 0
  BY <1>1, <1>2, <1>4, FS_EmptySet
<1>5. CASE Cardinality(S) = 1
  BY <1>1, <1>2, <1>5, FS_Singleton
<1> QED BY <1>2, <1>3, <1>4, <1>5

\* j attempts of a simulation find the first j of the pauses s.
FindsPauses(j, s) ==
  /\ ~Simulate(j).stops /\ Simulate(j).elapsed = SumOfFirst(s, j)
  /\ Len(Simulate(j).delays) = j /\ \A i \in 1..j : Simulate(j).delays[i] = s[i]

\* A simulation finds the pauses of an execution that only pauses.
LEMMA SimulationFinds ==
  ASSUME delay \in DelayTrees, stop \in StopTrees, NEW s \in Seq(Duration),
         Pauses(stop, s), \A k \in 1..Len(s) : s[k] \in NextDelays(delay, k),
         TimedPauses(stop, s) \/ ~HasMaxTime(stop), Certain(Len(s))
  PROVE  \A j \in 0..Len(s) : FindsPauses(j, s)
<1> DEFINE n == Len(s)
           P == {j \in 0..n : FindsPauses(j, s)}
<1>1. n \in Nat /\ s \in Seq(Int) /\ \A i \in 1..n : s[i] \in Duration
  BY DelaysAreNumbers
<1>2. 0 \in P
  <2>1. Simulate(0) = NothingSimulated
    BY SimulationRuns
  <2>2. SumOfFirst(s, 0) = 0 /\ 0 \in 0..n
    BY <1>1, Sums
  <2> QED BY <2>1, <2>2 DEF FindsPauses, NothingSimulated
<1>3. ASSUME NEW j \in Nat, NEW i \in 1..n, i = j + 1, j \in P PROVE i \in P
  <2> DEFINE sim == Simulate(j)
             d == SimulatedDelay(i)
             e == SumOfFirst(s, j)
  <2>1. /\ ~sim.stops /\ sim.elapsed = e /\ Len(sim.delays) = j
        /\ \A k \in 1..j : sim.delays[k] = s[k]
    BY <1>3 DEF FindsPauses
  <2>2. i \in Nat \ {0} /\ j \in 0..Len(s) - 1 /\ i - 1 = j /\ i \in 1..Len(s)
    BY <1>1, <1>3
  <2>3. sim \in Simulations /\ Simulate(i) = SimulateStep(sim, i)
    BY <1>3, SimulationRuns
  <2>4. s[i] = d
    BY <2>2, OnlyDelay DEF Certain
  <2>5. SumOfFirst(s, i) = e + s[i]
    BY <1>1, <1>3, <2>2, Sums
  <2> HIDE DEF sim, d, e
  <2>6. ~ShouldStop(stop, i, e) /\ ~ShouldStop(stop, i, e + d)
    <3>1. CASE TimedPauses(stop, s)
      BY <2>2, <2>4, <3>1 DEF TimedPauses, e
    <3>2. CASE ~HasMaxTime(stop)
      BY <2>2, <3>2, TimelessStops DEF Pauses
    <3> QED BY <3>1, <3>2
  <2>7. ~SimulationStops(sim, i)
    BY <2>1, <2>6 DEF SimulationStops, d
  <2>8. Simulate(i) = Delayed(sim, d)
    BY <2>2, <2>3, <2>7, SimulateOneStep DEF d
  <2>9. d \in Duration /\ sim.delays \in Seq(Duration)
    BY <1>1, <2>2, <2>3, <2>4 DEF Simulations
  <2>10. /\ ~Simulate(i).stops /\ Simulate(i).elapsed = e + d
         /\ Simulate(i).delays = Append(sim.delays, d)
    BY <2>1, <2>8 DEF Delayed
  <2>11. Len(Append(sim.delays, d)) = i /\ Append(sim.delays, d)[i] = d
         /\ \A k \in 1..j : Append(sim.delays, d)[k] = s[k]
    BY <1>3, <2>1, <2>9, SumOfAppended
  <2>12. \A k \in 1..i : k \in 1..j \/ k = i
    BY <1>3
  <2>13. FindsPauses(i, s)
    BY <2>4, <2>5, <2>10, <2>11, <2>12 DEF FindsPauses
  <2> QED BY <2>2, <2>13
<1>4. ASSUME NEW i \in 1..n, i - 1 \in P PROVE i \in P
  <2>1. i - 1 \in Nat /\ i = (i - 1) + 1
    OBVIOUS
  <2> HIDE DEF P, n
  <2> QED BY <1>3, <1>4, <2>1
<1>5. \A j \in 0..n : j \in P
  <2> HIDE DEF P, n
  <2> QED BY <1>1, <1>2, <1>4, Ascent
<1> QED BY <1>5

\* What an execution slept that its budget has not deferred are delays of the policy.
LEMMA UndeferredDelays ==
  ASSUME ForecastInv, Slept, ~Deferred
  PROVE  \A k \in 1..Len(slept) : slept[k] \in NextDelays(delay, k)
<1> SUFFICES ASSUME NEW k \in 1..Len(slept) PROVE slept[k] \in NextDelays(delay, k)
  OBVIOUS
<1>1. /\ waits \in Seq(Int) /\ Len(slept) <= Len(waits) /\ Len(slept) \in Nat
      /\ delay \in DelayTrees
  BY DEF ForecastInv, RunKept, PolicyKept, Slept
<1>2. k \in DOMAIN waits /\ k \in Nat \ {0}
  BY <1>1
<1>3. waits[k] = 0
  BY <1>2 DEF Deferred
<1>4. PICK x \in NextDelays(delay, k) : slept[k] = x + waits[k]
  BY DEF Slept, DelaysAndWaits
<1>5. x \in Nat
  <2>1. NextDelays(delay, k) \in DelaySets
    BY <1>1, <1>2, DelaysOfTree
  <2> QED BY <2>1 DEF DelaySets, Duration
<1> QED BY <1>3, <1>4, <1>5

\* What has been slept before attempt n ends or begins is what is simulated.
LEMMA SleptIsSimulated ==
  ASSUME ForecastInv, Slept, ~busy, ~Deferred, ~(settings.testing /\ HasMaxTime(stop)), Certain(Len(slept))
  PROVE  /\ ~Simulate(Len(slept)).stops /\ Simulate(Len(slept)).delays = slept
         /\ Simulate(Len(slept)).elapsed = SumSeq(slept)
         /\ Simulate(Len(slept)) \in Simulations
<1> DEFINE n == Len(slept)
<1>1. delay \in DelayTrees /\ stop \in StopTrees
  BY DEF ForecastInv, PolicyKept, BuilderInv, StopKept
<1>2. slept \in Seq(Duration) /\ Pauses(stop, slept) /\ n \in Nat /\ n \in 0..n
  BY DEF Slept
<1>3. TimedPauses(stop, slept) \/ ~HasMaxTime(stop)
  BY DEF Slept, RealTime
<1>4. FindsPauses(n, slept)
  BY <1>1, <1>2, <1>3, UndeferredDelays, SimulationFinds
<1>5. Simulate(n) \in Simulations /\ Simulate(n).delays \in Seq(Duration)
  BY <1>1, <1>2, SimulationRuns DEF Simulations
<1>6. Simulate(n).delays = slept
  <2> DEFINE q == Simulate(n).delays
  <2>1. Len(q) = Len(slept) /\ \A i \in 1..Len(slept) : q[i] = slept[i]
    BY <1>4 DEF FindsPauses
  <2>2. q \in Seq(Duration)
    BY <1>5
  <2> HIDE DEF q, n
  <2>3. q = slept
    BY <1>2, <2>1, <2>2
  <2> QED BY <2>3 DEF q
<1> QED BY <1>4, <1>5, <1>6 DEF FindsPauses, SumSeq

\* simulate() is the execution in which attempts take no time and no retry waits for
\* a slot of a budget, as long as no delay is random.
THEOREM SimulationForAll == ForecastSpec => []SimulationIsTheIdleRun
<1>1. ForecastInv /\ Slept => SimulationIsTheIdleRun
  <2> SUFFICES ASSUME ForecastInv, Slept, Deterministic, ~busy, ~Deferred, ~Warns("for_testing_with_max_time")
               PROVE  /\ phase = "attempt" => slept = Simulate(attempt).delays /\ ~Simulate(attempt).stops
                      /\ Exhausted => slept = Simulate(attempt).delays /\ Simulate(attempt).stops
    BY DEF SimulationIsTheIdleRun
  <2>1. ~(settings.testing /\ HasMaxTime(stop))
    BY DEF Warns
  <2>2. delay \in DelayTrees /\ stop \in StopTrees /\ attempt \in Nat /\ attempt <= MaxAttempt
        /\ MaxAttempt \in Nat /\ (Exhausted => phase = "stopped")
    BY ForecastAssumption DEF ForecastInv, PolicyKept, BuilderInv, StopKept, RunKept, Exhausted, Ends!Undecided
  <2>3. CASE phase = "attempt"
    <3>1. Len(slept) = attempt
      BY <2>3 DEF Slept
    <3>2. Certain(attempt)
      BY <2>2 DEF Certain, Deterministic
    <3>3. ~Exhausted
      BY <2>2, <2>3
    <3> QED BY <2>1, <3>1, <3>2, <3>3, SleptIsSimulated
  <2>4. CASE Exhausted
    <3> DEFINE n == attempt - 1
               sim == Simulate(n)
    <3>1. Len(slept) = n /\ phase # "attempt" /\ attempt \in Nat \ {0} /\ n \in Nat /\ n + 1 = attempt
      BY <2>2, <2>4 DEF Slept, ForecastInv, Counted
    <3>2. Certain(n) /\ ~Varies(attempt)
      <4>1. attempt \in 1..MaxAttempt /\ \A k \in 1..n : k \in 1..MaxAttempt
        BY <2>2, <3>1
      <4> QED BY <4>1 DEF Certain, Deterministic
    <3> HIDE DEF n
    <3>3. ~sim.stops /\ sim.delays = slept /\ sim.elapsed = SumSeq(slept) /\ sim \in Simulations
      BY <2>1, <3>1, <3>2, SleptIsSimulated
    <3>4. Simulate(attempt) = SimulateStep(sim, attempt)
      <4>1. Simulate(n + 1) = SimulateStep(Simulate(n), n + 1)
        BY <2>2, <3>1, SimulationRuns
      <4> QED BY <3>1, <4>1
    <3>5. \/ ShouldStop(stop, attempt, elapsed)
          \/ ShouldStop(stop, attempt, elapsed + SimulatedDelay(attempt))
      BY <2>2, <2>4, <3>1, <3>2, OnlyDelay DEF Slept, StopsFrom
    <3>6. SimulationStops(sim, attempt)
      <4>1. CASE settings.testing
        BY <2>1, <2>2, <3>5, <4>1, TimelessStops DEF SimulationStops
      <4>2. CASE ~settings.testing
        <5>1. elapsed = sim.elapsed
          BY <3>3, <4>2 DEF Slept, RealTime
        <5> QED BY <3>5, <5>1 DEF SimulationStops
      <4> QED BY <4>1, <4>2
    <3> HIDE DEF sim
    <3>7. Simulate(attempt) = Ended(sim)
      BY <2>2, <3>1, <3>3, <3>4, <3>6, SimulateOneStep
    <3> QED BY <3>1, <3>3, <3>7 DEF Ended
  <2> QED BY <2>3, <2>4
<1> QED BY <1>1, ForecastInvariant, SleptInvariant, PTL

\* A longer simulation finds no less to sleep.
LEMMA SimulationGrows ==
  ASSUME delay \in DelayTrees, NEW n \in Nat, NEW m \in Nat
  PROVE  /\ SumSeq(Simulate(n).delays) \in Int /\ SumSeq(Simulate(n + m).delays) \in Int
         /\ SumSeq(Simulate(n + m).delays) >= SumSeq(Simulate(n).delays)
<1> DEFINE total(k) == SumSeq(Simulate(k).delays)
<1>1. ASSUME NEW k \in Nat PROVE total(k) \in Int /\ total(k + 1) \in Int /\ total(k + 1) >= total(k)
  <2> DEFINE sim == Simulate(k)
             d == SimulatedDelay(k + 1)
  <2>1. k + 1 \in Nat \ {0} /\ sim \in Simulations /\ Simulate(k + 1) = SimulateStep(sim, k + 1)
    BY <1>1, SimulationRuns
  <2>2. d \in Duration /\ d \in Nat /\ sim.delays \in Seq(Duration)
    BY <2>1, SimulatedDelayTyped DEF Duration, Simulations
  <2>3. SumSeq(Append(sim.delays, d)) = SumSeq(sim.delays) + d /\ SumSeq(sim.delays) \in Int
    BY <2>2, SumOfAppended
  <2> HIDE DEF sim, d
  <2>4. Simulate(k + 1) = Ended(sim) \/ Simulate(k + 1) = Delayed(sim, d)
    BY <2>1, SimulateOneStep DEF d
  <2>5. Simulate(k + 1).delays = sim.delays \/ Simulate(k + 1).delays = Append(sim.delays, d)
    BY <2>4 DEF Ended, Delayed
  <2>6. total(k) = SumSeq(sim.delays) /\ total(k + 1) = SumSeq(Simulate(k + 1).delays)
    BY DEF sim
  <2>7. SumSeq(Simulate(k + 1).delays) \in {SumSeq(sim.delays), SumSeq(sim.delays) + d}
    BY <2>3, <2>5
  <2> HIDE DEF total
  <2> QED BY <2>2, <2>3, <2>6, <2>7
<1> HIDE DEF total
<1> DEFINE P == {k \in Nat : total(n + k) \in Int /\ total(n + k) >= total(n)}
<1>2. 0 \in P
  <2>1. n + 0 = n /\ total(n) \in Int
    BY <1>1
  <2> QED BY <2>1
<1>3. ASSUME NEW i \in 1..m, i - 1 \in P PROVE i \in P
  <2> DEFINE k == n + (i - 1)
  <2>1. k \in Nat /\ n + i = k + 1
    OBVIOUS
  <2>2. total(k) \in Int /\ total(k) >= total(n)
    BY <1>3
  <2> HIDE DEF k
  <2>3. total(k + 1) \in Int /\ total(k + 1) >= total(n)
    BY <1>1, <2>1, <2>2
  <2> QED BY <2>1, <2>3
<1> HIDE DEF P
<1>4. m \in P
  <2>1. \A i \in 0..m : i \in P
    BY <1>2, <1>3, Ascent
  <2> QED BY <2>1
<1> QED BY <1>1, <1>4 DEF P, total

\* An execution that sleeps longer than is tolerable by the delays of its policy, and
\* not for a budget, was reported by the warnings.
THEOREM LongSleepForAll == ForecastSpec => []LongSleepIsReported
<1>1. ForecastInv /\ Slept => LongSleepIsReported
  <2> SUFFICES ASSUME ForecastInv, Slept, Deterministic, ~busy, ~Deferred, ~IsForever, ~settings.testing,
                      Limit # None \/ attempt <= ProbedAttempts, SumSeq(slept) > LongSleep
               PROVE  (Warns("high_total_sleep") \/ Skipped # {}) /\ RiskLevel # "ok"
    BY DEF LongSleepIsReported
  <2> DEFINE n == Len(slept)
  <2>1. /\ delay \in DelayTrees /\ stop \in StopTrees /\ attempt \in Nat /\ attempt <= MaxAttempt
        /\ MaxAttempt \in Nat /\ ProbedAttempts \in Nat /\ LongSleep \in Nat
    BY ForecastAssumption, WarningsAssumption
       DEF ForecastInv, PolicyKept, BuilderInv, StopKept, RunKept
  <2>2. slept \in Seq(Duration) /\ slept \in Seq(Int) /\ n \in Nat /\ n <= attempt
    <3>1. n = attempt \/ n = attempt - 1
      BY DEF Slept, ForecastInv, RunKept
    <3> QED BY <2>1, <3>1, DelaysAreNumbers DEF Slept
  <2>3. n # 0
    <3>1. n = 0 => SumSeq(slept) = 0
      BY <2>2, Sums DEF SumSeq
    <3> QED BY <2>1, <3>1
  <2>4. CanRetry
    <3>1. 1 \in 1..n /\ 1 \in Nat \ {0}
      BY <2>2, <2>3
    <3>2. PICK e \in Nat : ~ShouldStop(stop, 1, e)
      BY <3>1 DEF Slept, Pauses
    <3> QED BY <2>1, <3>1, <3>2, AtOnceStops DEF CanRetry
  <2>5. TotalSleepCheck
    BY <2>4 DEF TotalSleepCheck
  <2>6. CASE HasUserCallback(delay)
    <3>1. "high_total_sleep" \in Skipped
      BY <2>5, <2>6 DEF Skipped
    <3> QED BY <3>1 DEF RiskLevel
  <2>7. CASE ~HasUserCallback(delay)
    <3>1. n <= SimulatedAttempts /\ SimulatedAttempts \in Nat
      BY <2>1, <2>2, WithinLimit DEF SimulatedAttempts, Limit
    <3>2. Certain(n)
      BY <2>1, <2>2 DEF Certain, Deterministic
    <3>3. Simulate(n).delays = slept
      BY <3>2, SleptIsSimulated
    <3> DEFINE m == SimulatedAttempts - n
    <3>4. m \in Nat /\ n + m = SimulatedAttempts
      BY <2>2, <3>1
    <3> HIDE DEF m, n
    <3>5. /\ SumSeq(Simulate(n + m).delays) \in Int /\ SumSeq(Simulate(n).delays) \in Int
          /\ SumSeq(Simulate(n + m).delays) >= SumSeq(Simulate(n).delays)
      BY <2>1, <2>2, <3>4, SimulationGrows
    <3>6. SumSeq(Simulate(SimulatedAttempts).delays) > LongSleep
      BY <2>1, <3>3, <3>4, <3>5
    <3>7. Warns("high_total_sleep")
      <4>1. HighTotalSleep
        BY <2>5, <2>7, <3>6 DEF HighTotalSleep
      <4> QED BY <4>1 DEF Warns
    <3> QED BY <3>7 DEF RiskLevel, Codes
  <2> QED BY <2>6, <2>7
<1> QED BY <1>1, ForecastInvariant, SleptInvariant, PTL

-----------------------------------------------------------------------------
(* Delays that are always zero, and delays that are random. *)

\* The strategies that a delay strategy is made of are no sums themselves.
LEMMA LeavesOfDelay ==
  ASSUME NEW t \in DelayTrees
  PROVE  /\ LeavesOf[t] \subseteq {u \in DelayTrees : u.kind # "additive"}
         /\ t.kind = "additive" => \A i \in DOMAIN t.parts : LeavesOf[t.parts[i]] \subseteq LeavesOf[t]
         /\ t.kind # "additive" => t \in LeavesOf[t]
<1> DEFINE T == DelayTrees
           L == {u \in T : u.kind # "additive"}
           body(u, g) == IF u.kind = "additive" THEN UNION {g[u.parts[i]] : i \in DOMAIN u.parts} ELSE {u}
           step == [p \in T \X [T -> SUBSET L] |-> body(p[1], p[2])]
           leaves == CHOOSE g : g = [u \in T |-> body(u, g)]
<1>1. ASSUME NEW u \in T, u.kind = "additive"
      PROVE  \A i \in DOMAIN u.parts : u.parts[i] \in T /\ SumDepth[u.parts[i]] < SumDepth[u]
  <2>1. ValidDelay(u)
    BY DelayTreesAssumption
  <2>2. u.parts \in Seq(T)
    BY <1>1, <2>1 DEF ValidDelay
  <2>3. \A i \in DOMAIN u.parts : u.parts[i] \in T
    BY <2>2
  <2> QED BY <1>1, <2>3, DelayTreesAssumption
<1>2. ASSUME NEW u \in T, NEW g, u.kind = "additive" => \A i \in DOMAIN u.parts : g[u.parts[i]] \in SUBSET L
      PROVE  body(u, g) \in SUBSET L
  <2>1. CASE u.kind = "additive"
    <3>1. UNION {g[u.parts[i]] : i \in DOMAIN u.parts} \subseteq L
      <4> HIDE DEF L
      <4> QED BY <1>2, <2>1
    <3> QED BY <2>1, <3>1
  <2>2. CASE u.kind # "additive"
    BY <2>2
  <2> QED BY <2>1, <2>2
<1>3. step \in [T \X [T -> SUBSET L] -> SUBSET L]
      /\ \A u \in T : \A g \in [T -> SUBSET L] : step[<<u, g>>] = body(u, g)
  <2>1. \A u \in T : \A g \in [T -> SUBSET L] : body(u, g) \in SUBSET L
    <3> HIDE DEF body, L
    <3> QED BY <1>1, <1>2
  <2> HIDE DEF body, L
  <2> QED BY <2>1
<1>4. ASSUME NEW u \in T, NEW g, NEW h, \A w \in T : SumDepth[w] < SumDepth[u] => g[w] = h[w]
      PROVE  body(u, g) = body(u, h)
  <2>1. CASE u.kind = "additive"
    <3>1. \A i \in DOMAIN u.parts : g[u.parts[i]] = h[u.parts[i]]
      BY <1>1, <1>4, <2>1
    <3>2. {g[u.parts[i]] : i \in DOMAIN u.parts} = {h[u.parts[i]] : i \in DOMAIN u.parts}
      BY <3>1
    <3> QED BY <3>2
  <2>2. CASE u.kind # "additive"
    BY <2>2
  <2> QED BY <2>1, <2>2
<1>5. PICK g \in [T -> SUBSET L] : \A u \in T : g[u] = body(u, g)
  <2> DEFINE R == SUBSET L
  <2>1. {} \in R
    OBVIOUS
  <2>2. step \in [T \X [T -> R] -> R] /\ \A u \in T : \A g \in [T -> R] : step[<<u, g>>] = body(u, g)
    BY <1>3
  <2> HIDE DEF step, body, L, R
  <2>3. LooksBelow(step, T, SumDepth, R)
    BY <1>4, <2>1, <2>2, DelayTreesAssumption DEF LooksBelow
  <2>4. Solutions(T, R, step) # {}
    BY <2>3, Recursion
  <2> QED BY <2>2, <2>4 DEF Solutions, R
<1>6. g = [u \in T |-> body(u, g)]
  <2> HIDE DEF body, L
  <2> QED BY <1>5
<1>7. leaves = [u \in T |-> body(u, leaves)]
  <2> HIDE DEF body, L
  <2> QED BY <1>6, Zenon DEF leaves
<1>8. \A u : LeavesOf[u] = leaves[u]
  BY Zenon DEF LeavesOf
<1> HIDE DEF leaves
<1>9. \A u \in T : leaves[u] = body(u, leaves)
  <2> HIDE DEF body
  <2> QED BY <1>7
<1> DEFINE Bad == {u \in T : leaves[u] \notin SUBSET L}
<1>10. Bad = {}
  <2> SUFFICES ASSUME Bad # {} PROVE FALSE
    OBVIOUS
  <2>1. PICK u \in Bad : u.kind = "additive" =>
           /\ u.parts \in Seq(DelayTrees)
           /\ \A i \in DOMAIN u.parts : u.parts[i] \in DelayTrees /\ u.parts[i] \notin Bad
    <3>1. Bad \subseteq DelayTrees
      OBVIOUS
    <3> HIDE DEF Bad
    <3> QED BY <3>1, LeastDelay
  <2>2. u.kind = "additive" => \A i \in DOMAIN u.parts : leaves[u.parts[i]] \in SUBSET L
    BY <2>1
  <2>3. u \in T /\ leaves[u] \notin SUBSET L
    OBVIOUS
  <2> HIDE DEF Bad, body, L
  <2> QED BY <1>2, <1>9, <2>2, <2>3
<1>11. leaves[t] \subseteq L
  BY <1>10
<1>12. t.kind = "additive" => \A i \in DOMAIN t.parts : leaves[t.parts[i]] \subseteq leaves[t]
  <2> SUFFICES ASSUME t.kind = "additive" PROVE \A i \in DOMAIN t.parts : leaves[t.parts[i]] \subseteq leaves[t]
    OBVIOUS
  <2>1. leaves[t] = UNION {leaves[t.parts[i]] : i \in DOMAIN t.parts}
    BY <1>9
  <2> QED BY <2>1, Zenon
<1>13. t.kind # "additive" => t \in leaves[t]
  BY <1>9
<1> QED BY <1>8, <1>11, <1>12, <1>13

\* What holds of zero, of sums and of the answers of every leaf holds of a strategy.
LEMMA LeavesDecide ==
  ASSUME NEW R \in SUBSET DelaySets, {0} \in R, \A S, Z \in R : CutSums(S, Z) \in R,
         NEW n \in Nat \ {0}, NEW t \in DelayTrees, \A leaf \in LeavesOf[t] : LeafDelays(leaf, n) \in R
  PROVE  NextDelays(t, n) \in R
<1> DEFINE Fits(u) == \A leaf \in LeavesOf[u] : LeafDelays(leaf, n) \in R
           Bad == {u \in DelayTrees : Fits(u) /\ NextDelays(u, n) \notin R}
<1> SUFFICES ASSUME Bad # {} PROVE FALSE
  OBVIOUS
<1>1. PICK u \in Bad : u.kind = "additive" =>
         /\ u.parts \in Seq(DelayTrees)
         /\ \A i \in DOMAIN u.parts : u.parts[i] \in DelayTrees /\ u.parts[i] \notin Bad
  <2>1. Bad \subseteq DelayTrees
    OBVIOUS
  <2> HIDE DEF Bad
  <2> QED BY <2>1, LeastDelay
<1>2. u \in DelayTrees /\ Fits(u) /\ NextDelays(u, n) \notin R
  OBVIOUS
<1>3. CASE u.kind = "additive"
  <2> DEFINE s == [i \in DOMAIN u.parts |-> NextDelays(u.parts[i], n)]
  <2>1. u.parts \in Seq(DelayTrees) /\ Len(u.parts) \in Nat /\ DOMAIN u.parts = 1..Len(u.parts)
    BY <1>1, <1>3
  <2>2. ASSUME NEW i \in DOMAIN u.parts PROVE NextDelays(u.parts[i], n) \in R
    <3>1. u.parts[i] \in DelayTrees /\ u.parts[i] \notin Bad
      BY <1>1, <1>3
    <3>2. Fits(u.parts[i])
      BY <1>2, <1>3, LeavesOfDelay
    <3> QED BY <3>1, <3>2
  <2>3. s \in [1..Len(u.parts) -> R]
    BY <2>1, <2>2
  <2>4. NextDelays(u, n) = AddedUp(s)
    BY <1>2, <1>3, DelaysOfTree
  <2> HIDE DEF s
  <2>5. s \in Seq(R) /\ Len(s) = Len(u.parts)
    <3>1. \A m \in Nat : \A f \in [1..m -> R] : f \in Seq(R) /\ Len(f) = m
      OBVIOUS
    <3> QED BY <2>1, <2>3, <3>1
  <2>6. s \in Seq(DelaySets)
    <3>1. s \in [1..Len(u.parts) -> DelaySets]
      BY <2>3
    <3>2. \A m \in Nat : \A f \in [1..m -> DelaySets] : f \in Seq(DelaySets)
      OBVIOUS
    <3> QED BY <2>1, <3>1, <3>2
  <2>7. \A i \in 1..Len(s) : \A S \in R : CutSums(s[i], S) \in R
    BY <2>3, <2>5
  <2>8. AddedUp(s) \in R
    BY <2>6, <2>7, AddedUpIn
  <2> QED BY <1>2, <2>4, <2>8
<1>4. CASE u.kind # "additive"
  <2>1. u \in LeavesOf[u] /\ NextDelays(u, n) = LeafDelays(u, n)
    BY <1>2, <1>4, LeavesOfDelay, DelaysOfTree
  <2> QED BY <1>2, <2>1
<1> QED BY <1>3, <1>4

\* Cutting two sums of one delay each.
LEMMA SingleSum ==
  ASSUME NEW a \in Duration, NEW b \in Duration
  PROVE  /\ CutSums({a}, {b}) = {Min({a + b, MaxSleep})}
         /\ Min({a + b, MaxSleep}) \in Duration /\ (a + b = 0 => Min({a + b, MaxSleep}) = 0)
<1>1. a + b \in Nat /\ MaxSleep \in Nat
  BY SleepAssumption DEF Duration
<1>2. Min({a + b, MaxSleep}) = IF a + b <= MaxSleep THEN a + b ELSE MaxSleep
  BY <1>1, PairMin
<1>3. {a} \X {b} = {<<a, b>>}
  OBVIOUS
<1>4. CutSums({a}, {b}) = {Min({a + b, MaxSleep})}
  BY <1>3 DEF CutSums
<1> DEFINE m == Min({a + b, MaxSleep})
<1>5. m \in Nat /\ m <= MaxSleep /\ (a + b = 0 => m = 0)
  BY <1>1, <1>2
<1> HIDE DEF m
<1>6. m \in Duration
  BY <1>1, <1>5 DEF Duration
<1> QED BY <1>4, <1>5, <1>6 DEF m

\* An exponential delay never shrinks.
LEMMA Growing ==
  ASSUME NEW b \in Nat, NEW f \in Nat \ {0}, NEW n \in Nat, NEW m \in Nat
  PROVE  Grown(b, f, n + m) >= Grown(b, f, n)
<1> DEFINE g(k) == Grown(b, f, k)
<1>1. g(0) = b /\ \A k \in Nat : g(k) \in Nat /\ g(k + 1) = f * g(k)
  BY ZenonT(30), Growth
<1>2. \A k \in Nat : g(k + 1) >= g(k)
  <2> SUFFICES ASSUME NEW k \in Nat PROVE g(k + 1) >= g(k)
    OBVIOUS
  <2> DEFINE x == g(k)
  <2>1. x \in Nat /\ g(k + 1) = f * x
    BY <1>1
  <2> HIDE DEF x
  <2>2. f * x >= x
    <3>1. f - 1 \in Nat /\ f * x = (f - 1) * x + x
      BY <2>1
    <3>2. (f - 1) * x \in Nat
      BY <2>1, <3>1
    <3> QED BY <2>1, <3>1, <3>2
  <2> QED BY <2>1, <2>2 DEF x
<1> HIDE DEF g
<1>3. \A i \in 1..m : i - 1 \in Nat /\ i = (i - 1) + 1 /\ n + i = (n + (i - 1)) + 1 /\ n + (i - 1) \in Nat
  OBVIOUS
<1>4. \A i \in 0..m : i \in {j \in Nat : g(n + j) >= g(n)}
  <2> DEFINE P == {j \in Nat : g(n + j) >= g(n)}
  <2>1. 0 \in P
    BY <1>1
  <2>2. ASSUME NEW i \in 1..m, i - 1 \in P PROVE i \in P
    <3> DEFINE k == n + (i - 1)
    <3>1. k \in Nat /\ g(k) >= g(n) /\ n + i = k + 1 /\ i \in Nat
      BY <1>3, <2>2
    <3> HIDE DEF k
    <3>2. g(k + 1) >= g(k) /\ g(k + 1) \in Nat /\ g(k) \in Nat /\ g(n) \in Nat
      BY <1>1, <1>2, <3>1
    <3>3. g(n + i) >= g(n)
      BY <3>1, <3>2
    <3> QED BY <3>1, <3>3
  <2> HIDE DEF P
  <2>3. \A i \in 0..m : i \in P
    BY <2>1, <2>2, Ascent
  <2> QED BY <2>3 DEF P
<1>5. m \in 0..m
  OBVIOUS
<1> QED BY <1>4, <1>5 DEF g

\* It stays at its base when that is zero or the factor is one.
LEMMA Steady ==
  ASSUME NEW b \in Nat, NEW f \in Nat \ {0}, NEW n \in Nat, f = 1 \/ b = 0
  PROVE  Grown(b, f, n) = b
<1> DEFINE g(k) == Grown(b, f, k)
           P == {j \in Nat : g(j) = b}
<1>1. g(0) = b /\ \A k \in Nat : g(k) \in Nat /\ g(k + 1) = f * g(k)
  BY Growth
<1> HIDE DEF g
<1>2. 0 \in P
  BY <1>1
<1>3. ASSUME NEW i \in 1..n, i - 1 \in P PROVE i \in P
  <2> DEFINE k == i - 1
  <2>1. k \in Nat /\ g(k) = b /\ i = k + 1 /\ i \in Nat
    BY <1>3
  <2> HIDE DEF k
  <2>2. g(k + 1) = f * b
    BY <1>1, <2>1
  <2>3. f * b = b
    OBVIOUS
  <2> QED BY <2>1, <2>2, <2>3
<1> HIDE DEF P
<1>4. n \in P
  <2>1. \A i \in 0..n : i \in P
    BY <1>2, <1>3, Ascent
  <2> QED BY <2>1
<1> QED BY <1>4 DEF P, g

\* A ceiling cuts a delay.
LEMMA Cut ==
  ASSUME NEW d \in Nat, NEW m \in Duration \cup {None}
  PROVE  Capped(d, m) \in Duration /\ Capped(d, m) <= d /\ (m # None => Capped(d, m) <= m)
<1>1. CASE m = None
  BY <1>1, PairMin, SleepAssumption DEF Capped, Duration, None
<1>2. CASE m # None
  BY <1>2, PairMin, SleepAssumption DEF Capped, Duration, None
<1> QED BY <1>1, <1>2

\* A range of one value.
LEMMA OneValue ==
  ASSUME NEW lo \in Duration, NEW seed \in Int, NEW n \in Nat
  PROVE  Uniform(lo, lo, seed, n) = {lo}
<1>1. lo \in Nat
  BY SleepAssumption DEF Duration
<1>2. CASE seed = None
  BY <1>1, <1>2 DEF Uniform
<1>3. CASE seed # None
  <2>1. (seed + n) % 1 = 0 /\ lo - lo + 1 = 1 /\ lo + 0 = lo
    BY <1>1
  <2> QED BY <1>3, <2>1 DEF Uniform
<1> QED BY <1>2, <1>3

\* A leaf analysed as always zero answers with zero.
LEMMA ZeroLeaf ==
  ASSUME NEW t \in DelayTrees, t.kind # "additive", LeafIsAlwaysZero(t), NEW n \in Nat \ {0}
  PROVE  LeafDelays(t, n) = {0}
<1>0. n - 1 \in Nat /\ ValidDelay(t) /\ MaxSleep \in Nat /\ 0 \in Duration
  BY DelayTreesAssumption, SleepAssumption DEF Duration
<1>1. \A d \in Nat : \A m \in Duration \cup {None} : d = 0 \/ m = 0 => Capped(d, m) = 0
  <2> SUFFICES ASSUME NEW d \in Nat, NEW m \in Duration \cup {None}, d = 0 \/ m = 0 PROVE Capped(d, m) = 0
    OBVIOUS
  <2>1. Capped(d, m) \in Nat /\ Capped(d, m) <= d /\ (m # None => Capped(d, m) <= m)
    BY <1>0, Cut DEF Duration
  <2> QED BY <2>1 DEF None
<1>2. CASE t.kind = "fixed"
  BY <1>2 DEF LeafIsAlwaysZero, LeafDelays
<1>3. CASE t.kind = "linear"
  <2>1. t.start \in Nat /\ t.step \in Nat /\ t.maximum \in Duration \cup {None}
    BY <1>0, <1>3 DEF ValidDelay, Duration
  <2>2. LinearDelay(t, n) \in Nat /\ (t.start = 0 /\ t.step = 0 => LinearDelay(t, n) = 0)
    <3>1. t.step * (n - 1) \in Nat /\ (t.step = 0 => t.step * (n - 1) = 0)
      BY <1>0, <2>1
    <3> QED BY <2>1, <3>1 DEF LinearDelay
  <2>3. t.maximum = 0 \/ LinearDelay(t, n) = 0
    BY <1>3, <2>2 DEF LeafIsAlwaysZero, LinearIsZero
  <2>4. LeafDelays(t, n) = {Capped(LinearDelay(t, n), t.maximum)}
    BY <1>3 DEF LeafDelays
  <2> QED BY <1>1, <2>1, <2>2, <2>3, <2>4
<1>4. CASE t.kind = "exponential"
  <2>1. t.base \in Nat /\ t.factor \in Nat \ {0} /\ t.maximum \in Duration \cup {None}
    BY <1>0, <1>4 DEF ValidDelay
  <2>2. Grown(t.base, t.factor, n - 1) \in Nat /\ (t.base = 0 => Grown(t.base, t.factor, n - 1) = 0)
    <3>1. Grown(t.base, t.factor, n - 1) \in Nat
      BY <1>0, <2>1, Growth
    <3>2. t.base = 0 => Grown(t.base, t.factor, n - 1) = t.base
      BY <1>0, <2>1, Steady
    <3> QED BY <3>1, <3>2
  <2>3. t.base = 0 \/ t.maximum = 0
    BY <1>4 DEF LeafIsAlwaysZero
  <2>4. LeafDelays(t, n) = {Capped(Grown(t.base, t.factor, n - 1), t.maximum)}
    BY <1>4 DEF LeafDelays
  <2> QED BY <1>1, <2>1, <2>2, <2>3, <2>4
<1>5. CASE t.kind = "chain"
  <2>1. t.delays \in Seq(Duration) /\ t.delays # <<>>
    BY <1>0, <1>5 DEF ValidDelay
  <2>2. Len(t.delays) \in Nat \ {0} /\ DOMAIN t.delays = 1..Len(t.delays)
    BY <2>1
  <2>3. Min({n, Len(t.delays)}) \in 1..Len(t.delays)
    BY <2>2, PairMin
  <2>4. \A i \in DOMAIN t.delays : t.delays[i] = 0
    BY <1>5 DEF LeafIsAlwaysZero
  <2>5. LeafDelays(t, n) = {t.delays[Min({n, Len(t.delays)})]}
    BY <1>5 DEF LeafDelays
  <2> QED BY <2>2, <2>3, <2>4, <2>5
<1>6. CASE t.kind = "random"
  <2>1. t.minimum = 0 /\ t.maximum = 0 /\ t.seed \in Int
    BY <1>0, <1>6 DEF ValidDelay, LeafIsAlwaysZero
  <2>2. LeafDelays(t, n) = Uniform(t.minimum, t.maximum, t.seed, n)
    BY <1>6 DEF LeafDelays
  <2> QED BY <1>0, <2>1, <2>2, OneValue
<1>7. CASE t.kind = "random_exponential"
  <2>1. /\ t.minimum = 0 /\ (t.base = 0 \/ t.maximum = 0) /\ t.seed \in Int
        /\ t.base \in Nat /\ t.factor \in Nat \ {0} /\ t.maximum \in Duration \cup {None}
    BY <1>0, <1>7 DEF ValidDelay, LeafIsAlwaysZero, Duration
  <2>2. CASE t.base = 0
    BY <1>7, <2>1, <2>2 DEF LeafDelays
  <2>3. CASE t.base # 0
    <3>1. Grown(t.base, t.factor, n - 1) \in Nat
      BY <1>0, <2>1, Growth
    <3>2. Capped(Grown(t.base, t.factor, n - 1), t.maximum) = 0
      BY <1>1, <2>1, <2>3, <3>1
    <3>3. Max({t.minimum, Capped(Grown(t.base, t.factor, n - 1), t.maximum)}) = 0
      BY <2>1, <3>2, PairMax
    <3>4. LeafDelays(t, n) = Uniform(0, 0, t.seed, n)
      BY <1>7, <2>1, <2>3, <3>3 DEF LeafDelays
    <3> QED BY <1>0, <2>1, <3>4, OneValue
  <2> QED BY <2>2, <2>3
<1>8. t.kind \in {"fixed", "linear", "exponential", "chain", "random", "random_exponential", "custom"}
  BY <1>0 DEF ValidDelay
<1>9. t.kind # "custom"
  BY DEF LeafIsAlwaysZero
<1> QED BY <1>2, <1>3, <1>4, <1>5, <1>6, <1>7, <1>8, <1>9

\* A delay strategy analysed as always zero makes no execution sleep; a budget may.
THEOREM NoSleepForAll == ForecastSpec => []NoDelayMeansNoSleep
<1>1. ForecastInv /\ Slept => NoDelayMeansNoSleep
  <2> SUFFICES ASSUME ForecastInv, Slept, DelayIsAlwaysZero(delay), NEW k \in DOMAIN slept
               PROVE  slept[k] = waits[k]
    BY DEF NoDelayMeansNoSleep
  <2>1. /\ delay \in DelayTrees /\ slept \in Seq(Duration) /\ waits \in Seq(Int)
        /\ Len(slept) <= Len(waits) /\ DelaysAndWaits(delay, slept, waits)
    BY DEF ForecastInv, PolicyKept, RunKept, Slept
  <2>2. k \in 1..Len(slept) /\ k \in Nat \ {0} /\ waits[k] \in Int
    BY <2>1
  <2> DEFINE R == {{0}}
  <2>3. {0} \in R /\ R \in SUBSET DelaySets
    BY SleepAssumption DEF DelaySets, Duration
  <2>4. \A S, Z \in R : CutSums(S, Z) \in R
    <3>1. 0 \in Duration /\ 0 + 0 = 0
      BY SleepAssumption DEF Duration
    <3>2. CutSums({0}, {0}) = {0}
      BY <3>1, SingleSum
    <3> QED BY <3>2
  <2>5. \A leaf \in LeavesOf[delay] : LeafDelays(leaf, k) \in R
    <3>1. \A leaf \in LeavesOf[delay] : /\ leaf \in DelayTrees /\ leaf.kind # "additive"
                                        /\ LeafIsAlwaysZero(leaf)
      BY <2>1, LeavesOfDelay DEF DelayIsAlwaysZero
    <3> QED BY <2>2, <3>1, ZeroLeaf
  <2> HIDE DEF R
  <2>6. NextDelays(delay, k) \in R
    BY <2>1, <2>2, <2>3, <2>4, <2>5, LeavesDecide
  <2>7. NextDelays(delay, k) = {0}
    BY <2>6 DEF R
  <2>8. slept[k] = 0 + waits[k]
    BY <2>1, <2>2, <2>7 DEF DelaysAndWaits
  <2> QED BY <2>2, <2>8
<1> QED BY <1>1, ForecastInvariant, SleptInvariant, PTL

\* The answers of a strategy that leaves nothing to chance.
Singles == {{x} : x \in Duration}

\* A range with several values is unseeded and wide.
LEMMA ManyValues ==
  ASSUME NEW lo \in Duration, NEW hi \in lo..MaxSleep, NEW seed \in Int, NEW n \in Nat,
         Uniform(lo, hi, seed, n) \notin Singles
  PROVE  seed = None /\ hi > lo
<1>1. lo \in Nat /\ hi \in Nat /\ lo <= hi
  BY SleepAssumption DEF Duration
<1>2. hi # lo
  BY OneValue DEF Singles
<1>3. seed = None
  <2> SUFFICES ASSUME seed # None PROVE Uniform(lo, hi, seed, n) \in Singles
    OBVIOUS
  <2>1. Uniform(lo, hi, seed, n) = {lo + ((seed + n) % (hi - lo + 1))}
    BY DEF Uniform
  <2> DEFINE x == lo + ((seed + n) % (hi - lo + 1))
  <2>2. Uniform(lo, hi, seed, n) = {x} /\ x \in {x}
    BY <2>1
  <2> HIDE DEF x
  <2>3. x \in Duration
    BY <2>2, UniformTyped DEF DelaySets
  <2> QED BY <2>2, <2>3 DEF Singles
<1> QED BY <1>1, <1>2, <1>3

\* A leaf with several answers at attempt n is a callback, or draws from a range with
\* no seed: one that is not empty, or one whose upper bound has grown above the lower.
LEMMA ManyAnswers ==
  ASSUME NEW t \in DelayTrees, t.kind # "additive", NEW n \in Nat \ {0}, LeafDelays(t, n) \notin Singles
  PROVE  \/ t.kind = "custom"
         \/ t.kind = "random" /\ t.maximum > t.minimum /\ t.seed = None
         \/ /\ t.kind = "random_exponential" /\ t.seed = None /\ t.base > 0
            /\ Capped(Grown(t.base, t.factor, n - 1), t.maximum) > t.minimum
<1>0. n - 1 \in Nat /\ ValidDelay(t) /\ n \in Nat
  BY DelayTreesAssumption
<1>1. ASSUME NEW x, LeafDelays(t, n) = {x} PROVE FALSE
  BY <1>1, LeafTyped DEF DelaySets, Singles
<1>2. t.kind \notin {"fixed", "linear", "exponential", "chain"}
  BY <1>1 DEF LeafDelays
<1>3. CASE t.kind = "random"
  <2>1. t.minimum \in Duration /\ t.maximum \in t.minimum..MaxSleep /\ t.seed \in Int
    BY <1>0, <1>3 DEF ValidDelay
  <2>2. Uniform(t.minimum, t.maximum, t.seed, n) \notin Singles
    BY <1>3 DEF LeafDelays
  <2> QED BY <1>0, <1>3, <2>1, <2>2, ManyValues
<1>4. CASE t.kind = "random_exponential"
  <2> DEFINE c == Capped(Grown(t.base, t.factor, n - 1), t.maximum)
             hi == Max({t.minimum, c})
  <2>1. /\ t.base \in Nat /\ t.factor \in Nat \ {0} /\ t.minimum \in Duration /\ t.seed \in Int
        /\ t.maximum \in Duration \cup {None} /\ t.minimum \in Nat
    BY <1>0, <1>4, SleepAssumption DEF ValidDelay, Duration
  <2>2. t.base # 0
    BY <1>1, <1>4 DEF LeafDelays
  <2>3. Grown(t.base, t.factor, n - 1) \in Nat
    BY <1>0, <2>1, Growth
  <2>4. c \in Duration /\ c \in Nat
    <3>1. c \in Duration
      BY <2>1, <2>3, Cut
    <3> QED BY <3>1, SleepAssumption DEF Duration
  <2>5. Uniform(t.minimum, hi, t.seed, n) \notin Singles
    BY <1>4, <2>2 DEF LeafDelays
  <2> HIDE DEF c
  <2>6. hi = IF c >= t.minimum THEN c ELSE t.minimum
    BY <2>1, <2>4, PairMax
  <2>7. hi \in t.minimum..MaxSleep
    BY <2>1, <2>4, <2>6, SleepAssumption DEF Duration
  <2> HIDE DEF hi
  <2>8. t.seed = None /\ hi > t.minimum
    BY <1>0, <2>1, <2>5, <2>7, ManyValues
  <2>9. c > t.minimum
    BY <2>1, <2>4, <2>6, <2>8
  <2> QED BY <1>4, <2>1, <2>2, <2>8, <2>9 DEF c
<1>5. t.kind \in {"fixed", "linear", "exponential", "chain", "random", "random_exponential", "custom"}
  BY <1>0 DEF ValidDelay
<1> QED BY <1>2, <1>3, <1>4, <1>5

\* An exponential range that has opened by attempt n is analysed as able to open within m.
LEMMA OpenRange ==
  ASSUME NEW t \in DelayTrees, t.kind = "random_exponential", t.base > 0, NEW n \in Nat \ {0},
         Capped(Grown(t.base, t.factor, n - 1), t.maximum) > t.minimum,
         NEW m, m = None \/ (m \in Nat /\ m >= n)
  PROVE  RandomExponentialCanVary(t, m)
<1> DEFINE g == Grown(t.base, t.factor, n - 1)
<1>1. /\ t.base \in Nat /\ t.factor \in Nat \ {0} /\ t.minimum \in Nat
      /\ t.maximum \in Duration \cup {None} /\ n - 1 \in Nat
  BY DelayTreesAssumption, SleepAssumption DEF ValidDelay, Duration
<1>2. g \in Nat
  BY <1>1, Growth
<1>3. Capped(g, t.maximum) \in Nat /\ Capped(g, t.maximum) <= g
      /\ (t.maximum # None => Capped(g, t.maximum) <= t.maximum)
  <2> HIDE DEF g
  <2>1. Capped(g, t.maximum) \in Duration /\ Capped(g, t.maximum) <= g
        /\ (t.maximum # None => Capped(g, t.maximum) <= t.maximum)
    BY <1>1, <1>2, Cut
  <2> QED BY <2>1, SleepAssumption DEF Duration
<1>4. g > t.minimum
  BY <1>1, <1>2, <1>3
<1>5. t.maximum # None => t.maximum > t.minimum
  BY <1>1, <1>3, SleepAssumption DEF Duration
<1>6. m # 0
  BY DEF None
<1>7. CASE t.factor <= 1
  <2>1. t.factor = 1 /\ g = t.base
    BY <1>1, <1>7, Steady
  <2> QED BY <1>4, <1>5, <1>6, <1>7, <2>1 DEF RandomExponentialCanVary
<1>8. CASE ~(t.factor <= 1)
  <2>1. ASSUME m # None PROVE CapAt(t, m) > t.minimum
    <3> DEFINE k == m - n
               i == n - 1
    <3>1. k \in Nat /\ i \in Nat /\ i + k = m - 1
      BY <1>1, <2>1
    <3>2. Grown(t.base, t.factor, m - 1) = Grown(t.base, t.factor, i + k) /\ g = Grown(t.base, t.factor, i)
      BY <3>1
    <3> HIDE DEF k, i, g
    <3>3. Grown(t.base, t.factor, i + k) >= Grown(t.base, t.factor, i)
      BY <1>1, <3>1, Growing
    <3>4. Grown(t.base, t.factor, i + k) \in Nat
      <4>1. i + k \in Nat
        BY <3>1
      <4> QED BY <1>1, <4>1, Growth
    <3> QED BY <1>1, <1>2, <1>4, <3>2, <3>3, <3>4 DEF CapAt
  <2> QED BY <1>5, <1>6, <1>8, <2>1 DEF RandomExponentialCanVary
<1> QED BY <1>7, <1>8

\* A delay that may differ between executions is reported as random.
THEOREM RandomnessForAll == ForecastSpec => []RandomnessIsReported
<1>1. ForecastInv /\ Slept => RandomnessIsReported
  <2> SUFFICES ASSUME ForecastInv, Slept, ~HasUserCallback(delay), NEW n \in DOMAIN slept, Varies(n)
               PROVE  /\ HasEffectiveRandomDelay({FALSE})
                      /\ ~Warns("missing_jitter") /\ ~Warns("seeded_random_delay")
    BY DEF RandomnessIsReported
  <2>1. delay \in DelayTrees /\ stop \in StopTrees /\ slept \in Seq(Duration) /\ Pauses(stop, slept)
    BY DEF ForecastInv, PolicyKept, BuilderInv, StopKept, Slept
  <2>2. n \in 1..Len(slept) /\ n \in Nat \ {0} /\ n \in Nat
    BY <2>1
  <2>3. PICK e \in Nat : ~ShouldStop(stop, n, e)
    BY <2>1, <2>2 DEF Pauses
  <2>4. CanRetry
    BY <2>1, <2>2, <2>3, AtOnceStops DEF CanRetry
  <2> DEFINE m == MaximumDelayAttempts
  <2>5. m = None \/ (m \in Nat /\ m >= n)
    <3>1. CASE Limit = None
      BY <2>4, <3>1 DEF MaximumDelayAttempts
    <3>2. CASE Limit # None
      <4>1. Limit \in Nat \ {0}
        BY <2>1, <3>2, LimitOfTree DEF Limit, Limited
      <4>2. ~(n >= Limit)
        BY <2>1, <2>2, <2>3, <3>2, LimitStops DEF Limit
      <4>3. m = Max({0, Limit - 1})
        BY <2>4, <3>2 DEF MaximumDelayAttempts
      <4> HIDE DEF m
      <4>4. m = Limit - 1
        BY <4>1, <4>3, PairMax
      <4> QED BY <2>2, <4>1, <4>2, <4>4
    <3> QED BY <3>1, <3>2
  <2>6. NextDelays(delay, n) \notin Singles
    <3> SUFFICES ASSUME NEW x \in Duration, NextDelays(delay, n) = {x} PROVE FALSE
      BY DEF Singles
    <3>1. Cardinality({x}) = 1
      BY FS_Singleton
    <3> QED BY <3>1 DEF Varies
  <2>7. \A S, Z \in Singles : CutSums(S, Z) \in Singles
    <3> SUFFICES ASSUME NEW x \in Duration, NEW y \in Duration PROVE CutSums({x}, {y}) \in Singles
      BY DEF Singles
    <3> DEFINE z == Min({x + y, MaxSleep})
    <3>1. CutSums({x}, {y}) = {z} /\ z \in Duration
      BY SingleSum
    <3> HIDE DEF z
    <3> QED BY <3>1 DEF Singles
  <2>8. Singles \in SUBSET DelaySets /\ {0} \in Singles
    BY SleepAssumption DEF Singles, DelaySets, Duration
  <2>9. PICK leaf \in LeavesOf[delay] : LeafDelays(leaf, n) \notin Singles
    BY <2>1, <2>2, <2>6, <2>7, <2>8, LeavesDecide
  <2>10. leaf \in DelayTrees /\ leaf.kind # "additive" /\ leaf.kind # "custom"
    BY <2>1, LeavesOfDelay DEF HasUserCallback
  <2>11. /\ leaf.seed = None
         /\ \/ leaf.kind = "random" /\ leaf.maximum > leaf.minimum
            \/ leaf.kind = "random_exponential" /\ RandomExponentialCanVary(leaf, m)
    <3> HIDE DEF m
    <3> QED BY <2>2, <2>5, <2>9, <2>10, ManyAnswers, OpenRange
  <2>12. m # 0
    BY <2>2, <2>5 DEF None
  <2>13. ASSUME NEW seeded, FALSE \in seeded PROVE HasEffectiveRandomDelay(seeded)
    <3>1. (leaf.seed # None) \in seeded
      BY <2>11, <2>13
    <3> QED BY <2>11, <2>12, <3>1 DEF HasEffectiveRandomDelay
  <2>14. HasEffectiveRandomDelay({FALSE}) /\ HasEffectiveRandomDelay(BOOLEAN)
    BY <2>13
  <2>15. ~Warns("missing_jitter")
    BY <2>14 DEF Warns, MissingJitter
  <2>16. ~Warns("seeded_random_delay")
    BY <2>14 DEF Warns, SeededRandomDelay
  <2> QED BY <2>14, <2>15, <2>16
<1> QED BY <1>1, ForecastInvariant, SleptInvariant, PTL
=============================================================================
