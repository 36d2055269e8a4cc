-------------------------- MODULE RecursionProofs --------------------------
(***************************************************************************)
(* Induction and recursion for the proofs about recursive functions, in a  *)
(* form without operator parameters: what is proved by induction is a set, *)
(* and what a recursive function is made of are functions.  And what       *)
(* sequences are made of: which elements, whether any of them twice, and   *)
(* what they add up to.                                                    *)
(***************************************************************************)
EXTENDS Lists, FiniteSetTheorems, TLAPS

-----------------------------------------------------------------------------
(* Induction. *)

\* Among finite sets there is one with none of the others inside.
LEMMA SmallestSet ==
    ASSUME NEW T, T # {}, \A x \in T : IsFiniteSet(x)
    PROVE  \E x \in T : \A y \in T : y \subseteq x => y = x
<1> DEFINE S == UNION T
<1>1. IsWellFoundedOn(StrictSubsetOrdering(S), FiniteSubsetsOf(S))
  BY FS_StrictSubsetOrderingWellFounded
<1>2. T \subseteq FiniteSubsetsOf(S)
  BY DEF FiniteSubsetsOf
<1>3. PICK x \in T : \A y \in T : <<y, x>> \notin StrictSubsetOrdering(S)
  BY <1>1, <1>2, WFMin, Zenon
<1> QED
  BY <1>3, Zenon DEF StrictSubsetOrdering

\* A set of naturals that is not empty has a least element.
LEMMA LeastNatural ==
    ASSUME NEW T, T \subseteq Nat, T # {}
    PROVE  \E n \in T : \A m \in T : n <= m
<1> DEFINE Below(n) == 0 .. n - 1
           below == {Below(n) : n \in T}
<1>1. \A n \in T : IsFiniteSet(Below(n)) /\ Below(n) \subseteq Nat
  BY FS_Interval
<1>2. \A m, n \in T : m < n => m \in Below(n) /\ m \notin Below(m) /\ Below(m) \subseteq Below(n)
  OBVIOUS
<1> HIDE DEF Below
<1>3. \A x \in below : IsFiniteSet(x)
  BY <1>1
<1>4. below # {}
  BY Zenon
<1> HIDE DEF below
<1>5. PICK x \in below : \A y \in below : y \subseteq x => y = x
  BY <1>3, <1>4, SmallestSet
<1>6. PICK n \in T : x = Below(n)
  BY DEF below
<1>7. \A m \in T : Below(m) \in below
  BY DEF below
<1>8. ASSUME NEW m \in T, m < n
      PROVE  FALSE
  BY <1>2, <1>5, <1>6, <1>7, <1>8
<1> QED
  BY <1>8

\* Induction over the naturals.
LEMMA NatSetInduction ==
    ASSUME NEW S, 0 \in S, \A n \in Nat : n \in S => n + 1 \in S
    PROVE  Nat \subseteq S
<1> SUFFICES ASSUME Nat \ S # {} PROVE FALSE
  OBVIOUS
<1>1. PICK n \in Nat \ S : \A m \in Nat \ S : n <= m
  BY LeastNatural, Zenon
<1>2. n - 1 \in Nat /\ n - 1 \notin Nat \ S
  BY <1>1
<1> QED
  BY <1>1, <1>2

\* Induction over the subsets of a finite set.
LEMMA SubsetInduction ==
    ASSUME NEW U, IsFiniteSet(U), NEW S, {} \in S,
           \A T \in SUBSET U, x \in U : T \in S /\ x \notin T => T \cup {x} \in S
    PROVE  SUBSET U \subseteq S
<1> SUFFICES ASSUME (SUBSET U) \ S # {} PROVE FALSE
  OBVIOUS
<1>1. \A T \in SUBSET U : IsFiniteSet(T)
  BY FS_Subset
<1>2. PICK T \in (SUBSET U) \ S : \A R \in (SUBSET U) \ S : R \subseteq T => R = T
  <2> DEFINE bad == (SUBSET U) \ S
  <2>1. bad # {} /\ \A T \in bad : IsFiniteSet(T)
    BY <1>1
  <2> HIDE DEF bad
  <2>2. \E T \in bad : \A R \in bad : R \subseteq T => R = T
    BY <2>1, SmallestSet
  <2> QED
    BY <2>2 DEF bad
<1>3. PICK x \in T : TRUE
  BY <1>2, Zenon
<1>4. T \ {x} \in SUBSET U /\ T \ {x} \in S /\ x \in U
  BY <1>2, <1>3
<1>5. T = (T \ {x}) \cup {x}
  BY <1>3
<1> QED
  BY <1>2, <1>4, <1>5

-----------------------------------------------------------------------------
(* Recursion. *)

\* f repeats step n times, from start.
Upto(n, f, start, step) == f[0] = start /\ \A k \in 0 .. n - 1 : f[k + 1] = step[f[k]]

\* There is one value after n repetitions.
LEMMA IterationIsUnique ==
    ASSUME NEW V, NEW start \in V, NEW step \in [V -> V]
    PROVE  \A n \in Nat : \A f, g \in [0 .. n -> V] :
              Upto(n, f, start, step) /\ Upto(n, g, start, step) => f[n] = g[n]
<1> DEFINE S == {n \in Nat : \A f, g \in [0 .. n -> V] :
                    Upto(n, f, start, step) /\ Upto(n, g, start, step) => f[n] = g[n]}
<1>1. 0 \in S
  BY DEF Upto
<1>2. ASSUME NEW n \in Nat, n \in S
      PROVE  n + 1 \in S
  <2> SUFFICES ASSUME NEW f \in [0 .. n + 1 -> V], NEW g \in [0 .. n + 1 -> V],
                      Upto(n + 1, f, start, step), Upto(n + 1, g, start, step)
               PROVE  f[n + 1] = g[n + 1]
    OBVIOUS
  <2> DEFINE f1 == [k \in 0 .. n |-> f[k]]
             g1 == [k \in 0 .. n |-> g[k]]
  <2>1. f1 \in [0 .. n -> V] /\ g1 \in [0 .. n -> V]
    OBVIOUS
  <2>2. Upto(n, f1, start, step) /\ Upto(n, g1, start, step)
    BY DEF Upto
  <2>3. f1[n] = g1[n]
    BY <1>2, <2>1, <2>2, Zenon
  <2>4. f[n + 1] = step[f[n]] /\ g[n + 1] = step[g[n]]
    BY DEF Upto
  <2> QED
    BY <2>3, <2>4
<1> HIDE DEF S
<1>3. Nat \subseteq S
  BY <1>1, <1>2, NatSetInduction
<1> QED
  BY <1>3 DEF S

\* There is such an iteration.
LEMMA IterationExists ==
    ASSUME NEW V, NEW start \in V, NEW step \in [V -> V]
    PROVE  \A n \in Nat : \E f \in [0 .. n -> V] : Upto(n, f, start, step)
<1> DEFINE S == {n \in Nat : \E f \in [0 .. n -> V] : Upto(n, f, start, step)}
<1>1. 0 \in S
  <2> DEFINE f == [k \in 0 .. 0 |-> start]
  <2>1. f \in [0 .. 0 -> V] /\ f[0] = start
    OBVIOUS
  <2>2. Upto(0, f, start, step)
    BY <2>1 DEF Upto
  <2> QED
    BY <2>1, <2>2
<1>2. ASSUME NEW n \in Nat, n \in S
      PROVE  n + 1 \in S
  <2>1. PICK f \in [0 .. n -> V] : Upto(n, f, start, step)
    BY <1>2
  <2> DEFINE g == [k \in 0 .. n + 1 |-> IF k = n + 1 THEN step[f[n]] ELSE f[k]]
  <2>2. g \in [0 .. n + 1 -> V]
    OBVIOUS
  <2>3. Upto(n + 1, g, start, step)
    BY <2>1 DEF Upto
  <2> QED
    BY <2>2, <2>3
<1> HIDE DEF S
<1>3. Nat \subseteq S
  BY <1>1, <1>2, NatSetInduction
<1> QED
  BY <1>3 DEF S

\* f repeats step without end, from start.
Repeats(f, start, step) == f[0] = start /\ \A n \in Nat : f[n + 1] = step[f[n]]

\* Every step can be repeated without end.
LEMMA Iteration ==
    ASSUME NEW V, NEW start \in V, NEW step \in [V -> V]
    PROVE  \E f \in [Nat -> V] : Repeats(f, start, step)
<1> DEFINE upto(n) == CHOOSE f \in [0 .. n -> V] : Upto(n, f, start, step)
           h == [n \in Nat |-> upto(n)[n]]
<1>1. ASSUME NEW n \in Nat
      PROVE  upto(n) \in [0 .. n -> V] /\ Upto(n, upto(n), start, step)
  BY IterationExists
<1> HIDE DEF upto
<1>2. h \in [Nat -> V] /\ h[0] = start
  BY <1>1 DEF Upto
<1>3. ASSUME NEW n \in Nat
      PROVE  h[n + 1] = step[h[n]]
  <2> DEFINE f == upto(n + 1)
             g == [k \in 0 .. n |-> f[k]]
  <2>1. f \in [0 .. n + 1 -> V] /\ Upto(n + 1, f, start, step)
    BY <1>1
  <2> HIDE DEF f
  <2>2. g \in [0 .. n -> V] /\ Upto(n, g, start, step)
    BY <2>1 DEF Upto
  <2>3. g[n] = upto(n)[n]
    <3> HIDE DEF g
    <3> QED BY <1>1, <2>2, IterationIsUnique, SMTT(30)
  <2>4. f[n + 1] = step[f[n]]
    BY <2>1 DEF Upto
  <2> QED
    BY <2>3, <2>4 DEF f
<1> QED
  BY <1>2, <1>3, Zenon DEF Repeats

\* The right side of a definition: what improve makes of a function at a place
\* depends on the function's values at places of lower rank only.
UsesLowerRanks(D, V, rank, improve) ==
    \A x \in D : \A g, h \in [D -> V] :
        (\A y \in D : rank[y] < rank[x] => g[y] = h[y]) => improve[g][x] = improve[h][x]

\* A function that satisfies the definition.
Solves(f, improve) == f = improve[f]

\* There is one.
LEMMA RankedRecursion ==
    ASSUME NEW D, NEW V, NEW any \in V, NEW rank \in [D -> Nat],
           NEW improve \in [[D -> V] -> [D -> V]], UsesLowerRanks(D, V, rank, improve)
    PROVE  \E f \in [D -> V] : Solves(f, improve)
<1>1. \A x \in D : \A g, h \in [D -> V] :
        (\A y \in D : rank[y] < rank[x] => g[y] = h[y]) => improve[g][x] = improve[h][x]
  BY DEF UsesLowerRanks
<1>2. PICK F \in [Nat -> [D -> V]] : \A n \in Nat : F[n + 1] = improve[F[n]]
  <2> DEFINE W == [D -> V]
             start == [x \in D |-> any]
             step == improve
  <2>1. start \in W /\ step \in [W -> W]
    OBVIOUS
  <2> HIDE DEF W, start, step
  <2>2. \E F \in [Nat -> W] : Repeats(F, start, step)
    BY <2>1, Iteration
  <2> QED
    BY <2>2, Zenon DEF W, step, Repeats
<1> DEFINE S == {n \in Nat : \A x \in D : rank[x] < n => F[n + 1][x] = F[n][x]}
<1>3. 0 \in S
  OBVIOUS
<1>4. ASSUME NEW n \in Nat, n \in S
      PROVE  n + 1 \in S
  <2> SUFFICES ASSUME NEW x \in D, rank[x] < n + 1
               PROVE  F[n + 1 + 1][x] = F[n + 1][x]
    OBVIOUS
  <2>1. \A y \in D : rank[y] < rank[x] => F[n + 1][y] = F[n][y]
    BY <1>4
  <2>2. F[n + 1 + 1] = improve[F[n + 1]] /\ F[n + 1] = improve[F[n]]
    BY <1>2
  <2>3. F[n + 1] \in [D -> V] /\ F[n] \in [D -> V]
    OBVIOUS
  <2>4. improve[F[n + 1]][x] = improve[F[n]][x]
    BY <1>1, <2>1, <2>3, Zenon
  <2> QED
    BY <2>2, <2>4
<1>5. \A n \in Nat : \A x \in D : rank[x] < n => F[n + 1][x] = F[n][x]
  <2> HIDE DEF S
  <2>1. Nat \subseteq S
    BY <1>3, <1>4, NatSetInduction
  <2> QED
    BY <2>1 DEF S
<1> DEFINE f == [x \in D |-> F[rank[x] + 1][x]]
<1>6. f \in [D -> V]
  OBVIOUS
<1>7. ASSUME NEW y \in D
      PROVE  \A n \in Nat : rank[y] < n => F[n][y] = f[y]
  <2>0. PICK r \in Nat : r = rank[y]
    OBVIOUS
  <2> DEFINE R == {n \in Nat : r < n => F[n][y] = f[y]}
  <2>1. 0 \in R
    OBVIOUS
  <2>2. ASSUME NEW n \in Nat, n \in R
        PROVE  n + 1 \in R
    <3>1. CASE r < n
      BY <1>5, <2>0, <2>2, <3>1
    <3>2. CASE r = n
      <4>1. f[y] = F[r + 1][y]
        BY <2>0
      <4> QED
        BY <3>2, <4>1
    <3>3. CASE r > n
      BY <3>3
    <3> HIDE DEF R
    <3> QED
      BY <3>1, <3>2, <3>3
  <2> HIDE DEF R
  <2>3. Nat \subseteq R
    BY <2>1, <2>2, NatSetInduction
  <2> QED
    BY <2>0, <2>3 DEF R
<1>8. ASSUME NEW x \in D
      PROVE  f[x] = improve[f][x]
  <2>1. f[x] = improve[F[rank[x]]][x]
    BY <1>2
  <2> HIDE DEF f
  <2>2. \A y \in D : rank[y] < rank[x] => F[rank[x]][y] = f[y]
    BY <1>7
  <2> QED
    BY <1>1, <1>6, <2>1, <2>2, Zenon
<1> HIDE DEF f
<1>9. improve[f] \in [D -> V]
  BY <1>6
<1> QED
  BY <1>6, <1>8, <1>9 DEF Solves

-----------------------------------------------------------------------------
(* Sequences. *)

\* A sequence without repetition.
Distinct(s) == \A j, k \in DOMAIN s : s[j] = s[k] => j = k

\* The elements of a sequence of sequences.
Elements(ss) == UNION {Range(ss[i]) : i \in DOMAIN ss}

\* A sequence of sequences that have no element twice.
AllDistinct(ss) ==
    /\ \A i \in DOMAIN ss : Distinct(ss[i])
    /\ \A i, j \in DOMAIN ss : i # j => Range(ss[i]) \cap Range(ss[j]) = {}

\* Appending one sequence to another appends its elements.
LEMMA ConcatElements ==
    ASSUME NEW M, NEW s \in Seq(M), NEW t \in Seq(M)
    PROVE  /\ s \o t \in Seq(M)
           /\ Range(s \o t) = Range(s) \cup Range(t)
           /\ Distinct(s) /\ Distinct(t) /\ Range(s) \cap Range(t) = {} => Distinct(s \o t)
<1> DEFINE r == s \o t
<1>1. /\ r \in Seq(M) /\ Len(s) \in Nat /\ Len(t) \in Nat
      /\ DOMAIN r = 1 .. Len(s) + Len(t) /\ DOMAIN s = 1 .. Len(s) /\ DOMAIN t = 1 .. Len(t)
      /\ \A i \in 1 .. Len(s) : r[i] = s[i]
      /\ \A i \in 1 .. Len(t) : r[Len(s) + i] = t[i]
  OBVIOUS
<1> HIDE DEF r
<1>2. ASSUME NEW i \in DOMAIN r
      PROVE  \/ i \in DOMAIN s /\ r[i] = s[i]
             \/ i - Len(s) \in DOMAIN t /\ r[i] = t[i - Len(s)] /\ i \notin DOMAIN s
  <2>1. CASE i <= Len(s)
    BY <1>1, <2>1
  <2>2. CASE i > Len(s)
    <3>1. i - Len(s) \in 1 .. Len(t) /\ i = Len(s) + (i - Len(s)) /\ i \notin DOMAIN s
      BY <1>1, <2>2
    <3> QED
      BY <1>1, <3>1
  <2> QED
    BY <1>1, <2>1, <2>2
<1>3. /\ \A i \in DOMAIN s : i \in DOMAIN r
      /\ \A i \in DOMAIN t : Len(s) + i \in DOMAIN r
  BY <1>1
<1>4. Range(r) = Range(s) \cup Range(t)
  BY <1>1, <1>2, <1>3 DEF Range
<1>5. ASSUME Distinct(s), Distinct(t), Range(s) \cap Range(t) = {}, NEW j \in DOMAIN r, NEW k \in DOMAIN r, r[j] = r[k]
      PROVE  j = k
  <2>1. ASSUME NEW m \in DOMAIN s, NEW n \in DOMAIN t PROVE s[m] # t[n]
    BY <1>5, Zenon DEF Range
  <2>2. CASE j \in DOMAIN s /\ k \in DOMAIN s
    BY <1>1, <1>5, <2>2 DEF Distinct
  <2>3. CASE j \notin DOMAIN s /\ k \notin DOMAIN s
    <3>1. /\ j - Len(s) \in DOMAIN t /\ r[j] = t[j - Len(s)]
          /\ k - Len(s) \in DOMAIN t /\ r[k] = t[k - Len(s)]
      BY <1>2, <2>3
    <3>2. j - Len(s) = k - Len(s)
      BY <1>5, <3>1, Zenon DEF Distinct
    <3>3. j \in Nat /\ k \in Nat
      BY <1>1
    <3> QED
      BY <1>1, <3>2, <3>3
  <2>4. CASE j \in DOMAIN s /\ k \notin DOMAIN s
    BY <1>1, <1>2, <1>5, <2>1, <2>4
  <2>5. CASE j \notin DOMAIN s /\ k \in DOMAIN s
    BY <1>1, <1>2, <1>5, <2>1, <2>5
  <2> QED
    BY <2>2, <2>3, <2>4, <2>5
<1>6. Distinct(s) /\ Distinct(t) /\ Range(s) \cap Range(t) = {} => Distinct(r)
  BY <1>5 DEF Distinct
<1> QED
  BY <1>1, <1>4, <1>6 DEF r

\* Joining keeps the elements, and makes none appear twice.
LEMMA JoinedElements ==
    ASSUME NEW M, NEW ss \in Seq(Seq(M))
    PROVE  /\ Joined(ss) \in Seq(M)
           /\ Range(Joined(ss)) = Elements(ss)
           /\ AllDistinct(ss) => Distinct(Joined(ss))
<1> DEFINE n == Len(ss)
           D == 0 .. n
           V == Seq(M)
           body(f) == [i \in D |-> IF i = 0 THEN << >> ELSE f[i - 1] \o ss[i]]
           improve == [f \in [D -> V] |-> body(f)]
           rank == [i \in D |-> i]
<1>1. n \in Nat /\ DOMAIN ss = 1 .. n /\ \A i \in 1 .. n : ss[i] \in Seq(M)
  OBVIOUS
<1> HIDE DEF n
<1>2. ASSUME NEW i \in D
      PROVE  i \in Nat /\ (i # 0 => i - 1 \in D /\ i - 1 < i /\ i \in 1 .. n /\ ss[i] \in V)
  BY <1>1
<1>3. \E f \in [D -> V] : Solves(f, improve)
  <2>1. rank \in [D -> Nat] /\ << >> \in V
    BY <1>2
  <2>2. improve \in [[D -> V] -> [D -> V]]
    <3> SUFFICES ASSUME NEW f \in [D -> V], NEW i \in D
                 PROVE  (IF i = 0 THEN << >> ELSE f[i - 1] \o ss[i]) \in V
      OBVIOUS
    <3>1. CASE i = 0
      BY <3>1
    <3>2. CASE i # 0
      <4>1. f[i - 1] \in Seq(M) /\ ss[i] \in Seq(M)
        BY <1>2, <3>2, Zenon
      <4> QED
        BY <3>2, <4>1
    <3> QED
      BY <3>1, <3>2
  <2>3. ASSUME NEW i \in D, NEW f \in [D -> V], NEW h \in [D -> V],
               \A j \in D : rank[j] < rank[i] => f[j] = h[j]
        PROVE  improve[f][i] = improve[h][i]
    <3>1. CASE i = 0
      BY <3>1
    <3>2. CASE i # 0
      <4>1. f[i - 1] = h[i - 1]
        BY <1>2, <2>3, <3>2
      <4> QED
        BY <3>2, <4>1, Zenon
    <3> QED
      BY <3>1, <3>2
  <2> HIDE DEF improve, rank, D, V
  <2>4. UsesLowerRanks(D, V, rank, improve)
    BY <2>3 DEF UsesLowerRanks
  <2> QED
    BY <2>1, <2>2, <2>4, RankedRecursion, Zenon
<1>4. PICK f \in [D -> V] : f = body(f)
  BY <1>3, Zenon DEF Solves
<1> DEFINE joined == CHOOSE r : r = body(r)
<1>5. joined = body(joined)
  <2> HIDE DEF body
  <2> QED BY <1>4
<1>6. Joined(ss) = joined[n]
  BY DEF Joined, n
<1>7. ASSUME NEW i \in D
      PROVE  joined[i] = IF i = 0 THEN << >> ELSE joined[i - 1] \o ss[i]
  BY <1>5, Zenon
<1> HIDE DEF joined
<1> DEFINE First(i) == UNION {Range(ss[j]) : j \in 1 .. i}
           Right(i) == /\ joined[i] \in Seq(M) /\ Range(joined[i]) = First(i)
                       /\ AllDistinct(ss) => Distinct(joined[i])
           T == {i \in D : ~ Right(i)}
<1>8. ASSUME NEW i \in D, i # 0 => Right(i - 1)
      PROVE  Right(i)
  <2>1. CASE i = 0
    <3>1. joined[i] = << >> /\ << >> \in Seq(M)
      BY <1>7, <2>1
    <3>2. Range(<< >>) = {} /\ First(0) = {} /\ Distinct(<< >>)
      BY DEF Range, Distinct
    <3> QED
      BY <2>1, <3>1, <3>2
  <2>2. CASE i # 0
    <3> DEFINE s == joined[i - 1]
               t == ss[i]
    <3>1. /\ s \in Seq(M) /\ t \in Seq(M) /\ joined[i] = s \o t
          /\ Range(s) = First(i - 1) /\ (AllDistinct(ss) => Distinct(s))
      BY <1>2, <1>7, <1>8, <2>2, Zenon
    <3>2. First(i) = First(i - 1) \cup Range(t)
      <4>1. 1 .. i = (1 .. i - 1) \cup {i}
        BY <1>2, <2>2
      <4> QED
        BY <4>1
    <3>3. AllDistinct(ss) => Distinct(t) /\ First(i - 1) \cap Range(t) = {}
      <4>1. ASSUME NEW j \in 1 .. i - 1
            PROVE  j \in DOMAIN ss /\ i \in DOMAIN ss /\ j # i
        BY <1>1, <1>2
      <4>2. i \in DOMAIN ss
        BY <1>1, <1>2, <2>2
      <4> QED
        BY <4>1, <4>2 DEF AllDistinct
    <3> HIDE DEF s, t, First
    <3>4. /\ s \o t \in Seq(M) /\ Range(s \o t) = Range(s) \cup Range(t)
          /\ Distinct(s) /\ Distinct(t) /\ Range(s) \cap Range(t) = {} => Distinct(s \o t)
      BY <3>1, ConcatElements
    <3> QED
      BY <3>1, <3>2, <3>3, <3>4
  <2> QED
    BY <2>1, <2>2
<1> HIDE DEF Right
<1>9. T = {}
  <2> SUFFICES ASSUME T # {} PROVE FALSE
    OBVIOUS
  <2>1. T \subseteq Nat
    BY <1>2
  <2>2. PICK i \in T : \A j \in T : i <= j
    <3> HIDE DEF T
    <3> QED BY <2>1, LeastNatural, Zenon
  <2>3. i # 0 => Right(i - 1)
    BY <1>2, <2>2
  <2> QED
    BY <1>8, <2>3
<1>10. Right(n)
  <2>1. n \in D
    BY <1>1
  <2> QED
    BY <1>9, <2>1
<1>11. First(n) = Elements(ss)
  BY <1>1 DEF Elements
<1> QED
  BY <1>6, <1>10, <1>11 DEF Right

\* An enumeration of a finite set has each element once.
LEMMA BijectionElements ==
    ASSUME NEW S, IsFiniteSet(S), NEW s \in Bijection(1 .. Cardinality(S), S)
    PROVE  s \in Seq(S) /\ Range(s) = S /\ Distinct(s)
<1>1. Cardinality(S) \in Nat
  BY FS_CardinalityType
<1> DEFINE n == Cardinality(S)
<1> HIDE DEF n
<1>2. n \in Nat /\ s \in Bijection(1 .. n, S)
  BY <1>1 DEF n
<1>3. s \in [1 .. n -> S] /\ IsInjective(s) /\ \A x \in S : \E i \in 1 .. n : s[i] = x
  BY <1>2 DEF Bijection, Injection, Surjection
<1>4. s \in Seq(S) /\ DOMAIN s = 1 .. n
  BY <1>2, <1>3
<1> QED
  BY <1>3, <1>4 DEF IsInjective, Range, Distinct

\* A page in front of other pages.
LEMMA PrependElements ==
    ASSUME NEW M, NEW p \in Seq(M), NEW ss \in Seq(Seq(M))
    PROVE  /\ <<p>> \o ss \in Seq(Seq(M))
           /\ Elements(<<p>> \o ss) = Range(p) \cup Elements(ss)
           /\ Distinct(p) /\ AllDistinct(ss) /\ Range(p) \cap Elements(ss) = {}
                 => AllDistinct(<<p>> \o ss)
<1> DEFINE r == <<p>> \o ss
           n == Len(ss)
<1>1. /\ r \in Seq(Seq(M)) /\ n \in Nat /\ DOMAIN ss = 1 .. n /\ DOMAIN r = 1 .. n + 1
      /\ r[1] = p /\ \A i \in 1 .. n : r[i + 1] = ss[i]
  OBVIOUS
<1> HIDE DEF r, n
<1>2. ASSUME NEW i \in DOMAIN r, i # 1
      PROVE  i - 1 \in DOMAIN ss /\ r[i] = ss[i - 1] /\ Range(r[i]) \subseteq Elements(ss)
  <2>1. i - 1 \in 1 .. n /\ i = (i - 1) + 1
    BY <1>1, <1>2
  <2>2. i - 1 \in DOMAIN ss /\ r[i] = ss[i - 1]
    BY <1>1, <2>1
  <2> QED
    BY <2>2 DEF Elements
<1>3. 1 \in DOMAIN r /\ \A i \in DOMAIN ss : i + 1 \in DOMAIN r /\ r[i + 1] = ss[i]
  BY <1>1
<1>4. Elements(r) = Range(p) \cup Elements(ss)
  <2>1. Elements(r) \subseteq Range(p) \cup Elements(ss)
    BY <1>1, <1>2, Zenon DEF Elements
  <2>2. Range(p) \subseteq Elements(r)
    BY <1>1, <1>3, Zenon DEF Elements
  <2>3. Elements(ss) \subseteq Elements(r)
    BY <1>3 DEF Elements
  <2> QED
    BY <2>1, <2>2, <2>3
<1>5. ASSUME Distinct(p), AllDistinct(ss), Range(p) \cap Elements(ss) = {}
      PROVE  AllDistinct(r)
  <2>1. ASSUME NEW i \in DOMAIN r PROVE Distinct(r[i])
    BY <1>1, <1>2, <1>5, Zenon DEF AllDistinct
  <2>2. ASSUME NEW i \in DOMAIN r, NEW j \in DOMAIN r, i # j
        PROVE  Range(r[i]) \cap Range(r[j]) = {}
    <3>1. CASE i = 1
      BY <1>1, <1>2, <1>5, <2>2, <3>1
    <3>2. CASE j = 1
      BY <1>1, <1>2, <1>5, <2>2, <3>2
    <3>3. CASE i # 1 /\ j # 1
      <4>1. i - 1 # j - 1
        BY <1>1, <2>2
      <4> QED
        BY <1>2, <1>5, <3>3, <4>1 DEF AllDistinct
    <3> QED
      BY <3>1, <3>2, <3>3
  <2> QED
    BY <2>1, <2>2 DEF AllDistinct
<1> QED
  BY <1>1, <1>4, <1>5 DEF r

\* Pages read before an error are as distinct as all of them.
LEMMA FirstPages ==
    ASSUME NEW M, NEW ss \in Seq(Seq(M)), NEW n \in 0 .. Len(ss), AllDistinct(ss)
    PROVE  /\ SubSeq(ss, 1, n) \in Seq(Seq(M)) /\ AllDistinct(SubSeq(ss, 1, n))
           /\ Elements(SubSeq(ss, 1, n)) \subseteq Elements(ss)
<1> DEFINE r == SubSeq(ss, 1, n)
<1>1. /\ Len(ss) \in Nat /\ n \in Nat /\ DOMAIN ss = 1 .. Len(ss)
      /\ r \in Seq(Seq(M)) /\ DOMAIN r = 1 .. n /\ \A i \in 1 .. n : r[i] = ss[i]
  OBVIOUS
<1>2. \A i \in DOMAIN r : i \in DOMAIN ss /\ r[i] = ss[i]
  BY <1>1
<1> HIDE DEF r
<1> QED
  BY <1>1, <1>2, Zenon DEF AllDistinct, Elements, r

\* A queue is its head and its tail.
LEMMA HeadAndTail ==
    ASSUME NEW M, NEW s \in Seq(M), s # << >>
    PROVE  /\ Head(s) \in M /\ Tail(s) \in Seq(M) /\ Range(s) = {Head(s)} \cup Range(Tail(s))
           /\ Distinct(s) => Distinct(Tail(s)) /\ Head(s) \notin Range(Tail(s))
<1>1. /\ Head(s) = s[1] /\ Len(s) \in Nat \ {0} /\ Head(s) \in M /\ Tail(s) \in Seq(M)
      /\ DOMAIN s = 1 .. Len(s) /\ DOMAIN Tail(s) = 1 .. Len(s) - 1
      /\ \A i \in 1 .. Len(s) - 1 : Tail(s)[i] = s[i + 1]
  OBVIOUS
<1> DEFINE t == Tail(s)
<1>2. \A i \in DOMAIN t : i + 1 \in DOMAIN s /\ t[i] = s[i + 1] /\ i + 1 # 1
  BY <1>1
<1>3. \A i \in DOMAIN s : i = 1 \/ (i - 1 \in DOMAIN t /\ t[i - 1] = s[i])
  BY <1>1
<1>4. 1 \in DOMAIN s
  BY <1>1
<1> HIDE DEF t
<1>5. Range(s) = {Head(s)} \cup Range(t)
  <2>1. ASSUME NEW x \in Range(s) PROVE x \in {Head(s)} \cup Range(t)
    BY <1>1, <1>3 DEF Range
  <2>2. ASSUME NEW x \in Range(t) PROVE x \in Range(s)
    BY <1>2 DEF Range
  <2>3. Head(s) \in Range(s)
    BY <1>1, <1>4 DEF Range
  <2> QED
    BY <2>1, <2>2, <2>3
<1>6. ASSUME Distinct(s) PROVE Distinct(t) /\ Head(s) \notin Range(t)
  <2>1. \A i \in DOMAIN t : i \in Nat
    BY <1>1 DEF t
  <2>2. ASSUME NEW i \in DOMAIN t, NEW j \in DOMAIN t, t[i] = t[j] PROVE i = j
    <3>1. i + 1 = j + 1
      BY <1>2, <1>6, <2>2 DEF Distinct
    <3> QED
      BY <2>1, <3>1
  <2>3. ASSUME NEW i \in DOMAIN t, t[i] = Head(s) PROVE FALSE
    BY <1>1, <1>2, <1>4, <1>6, <2>3 DEF Distinct
  <2> QED
    BY <2>2, <2>3 DEF Distinct, Range
<1> QED
  BY <1>1, <1>5, <1>6 DEF t

-----------------------------------------------------------------------------
(* Sums. *)

\* f[i] is the sum of the first i numbers of a, for i up to n.
PartialSums(n, a, f) ==
    /\ f[0] = 0
    /\ \A i \in 0 .. n : f[i] \in Nat
    /\ \A i \in 1 .. n : a[i] \in Nat /\ f[i] = f[i - 1] + a[i]

\* Total adds the numbers of a sequence one after the other.
LEMMA TotalIsSum ==
    ASSUME NEW s \in Seq(Nat)
    PROVE  \E f : PartialSums(Len(s), s, f) /\ Total(s) = f[Len(s)]
<1> DEFINE n == Len(s)
           D == 0 .. n
           body(f) == [i \in D |-> IF i = 0 THEN 0 ELSE f[i - 1] + s[i]]
           improve == [f \in [D -> Nat] |-> body(f)]
           rank == [i \in D |-> i]
<1>1. n \in Nat /\ \A i \in 1 .. n : s[i] \in Nat
  OBVIOUS
<1> HIDE DEF n
<1>2. ASSUME NEW i \in D
      PROVE  i \in Nat /\ (i # 0 => i - 1 \in D /\ i - 1 < i /\ i \in 1 .. n /\ s[i] \in Nat)
  BY <1>1
<1>3. \E f \in [D -> Nat] : Solves(f, improve)
  <2>1. rank \in [D -> Nat] /\ 0 \in Nat
    BY <1>2
  <2>2. improve \in [[D -> Nat] -> [D -> Nat]]
    <3> SUFFICES ASSUME NEW f \in [D -> Nat], NEW i \in D
                 PROVE  (IF i = 0 THEN 0 ELSE f[i - 1] + s[i]) \in Nat
      OBVIOUS
    <3>1. CASE i = 0
      BY <3>1
    <3>2. CASE i # 0
      <4>1. f[i - 1] \in Nat /\ s[i] \in Nat
        BY <1>2, <3>2, Zenon
      <4>2. f[i - 1] + s[i] \in Nat
        BY <4>1
      <4> QED
        BY <3>2, <4>2, Zenon
    <3> QED
      BY <3>1, <3>2, Zenon
  <2>3. ASSUME NEW i \in D, NEW f \in [D -> Nat], NEW h \in [D -> Nat],
               \A j \in D : rank[j] < rank[i] => f[j] = h[j]
        PROVE  improve[f][i] = improve[h][i]
    <3>1. i # 0 => f[i - 1] = h[i - 1]
      BY <1>2, <2>3
    <3> QED
      BY <3>1, Zenon
  <2> HIDE DEF improve, rank, D
  <2>4. UsesLowerRanks(D, Nat, rank, improve)
    BY <2>3, Zenon DEF UsesLowerRanks
  <2> QED
    BY <2>1, <2>2, <2>4, RankedRecursion, Zenon
<1>4. PICK f \in [D -> Nat] : f = body(f)
  BY <1>3, Zenon DEF Solves
<1> DEFINE total == CHOOSE r : r = body(r)
<1>5. total = body(total)
  <2> HIDE DEF body
  <2> QED BY <1>4
<1>6. Total(s) = total[n]
  BY DEF Total, n
<1>7. ASSUME NEW i \in D
      PROVE  total[i] = IF i = 0 THEN 0 ELSE total[i - 1] + s[i]
  BY <1>5, Zenon
<1>8. total = [i \in D |-> total[i]]
  BY <1>5, Zenon
<1> HIDE DEF total
<1> DEFINE T == {i \in D : total[i] \notin Nat}
<1>9. T = {}
  <2> SUFFICES ASSUME T # {} PROVE FALSE
    OBVIOUS
  <2>1. T \subseteq Nat
    BY <1>2
  <2>2. PICK i \in T : \A j \in T : i <= j
    <3> HIDE DEF T
    <3> QED BY <2>1, LeastNatural, Zenon
  <2>3. i # 0 => total[i - 1] \in Nat
    BY <1>2, <2>2
  <2>4. i # 0 => total[i - 1] + s[i] \in Nat
    <3>1. i # 0 => s[i] \in Nat
      BY <1>2, <2>2, Zenon
    <3> QED
      BY <2>3, <3>1
  <2>5. i \in D /\ total[i] \notin Nat
    BY <2>2
  <2>6. total[i] = IF i = 0 THEN 0 ELSE total[i - 1] + s[i]
    BY <1>7, <2>5
  <2>7. CASE i = 0
    BY <2>5, <2>6, <2>7
  <2>8. CASE i # 0
    BY <2>4, <2>5, <2>6, <2>8, Zenon
  <2> QED
    BY <2>7, <2>8
<1>10. total[0] = 0 /\ \A i \in 0 .. n : total[i] \in Nat
  <2>1. 0 \in D
    BY <1>1
  <2>2. total[0] = 0
    BY <1>7, <2>1, Zenon
  <2> QED
    BY <1>9, <2>2, Zenon
<1>11. \A i \in 1 .. n : i \in D /\ i # 0
  BY <1>1
<1>12. \A i \in 1 .. n : s[i] \in Nat /\ total[i] = total[i - 1] + s[i]
  BY <1>1, <1>7, <1>11, Zenon
<1> QED
  BY <1>6, <1>10, <1>12, Zenon DEF PartialSums, n

\* c is a, of length n, followed by b, of length m, and f, g and h are their sums.
Joins(n, m, a, b, c, f, g, h) ==
    /\ n \in Nat /\ m \in Nat
    /\ \A i \in 1 .. n : c[i] = a[i]
    /\ \A i \in 1 .. m : c[n + i] = b[i]
    /\ PartialSums(n, a, f) /\ PartialSums(m, b, g) /\ PartialSums(n + m, c, h)

\* The sum of a sequence is that of its two parts.
LEMMA SumsOfParts ==
    ASSUME NEW n, NEW m, NEW a, NEW b, NEW c, NEW f, NEW g, NEW h, Joins(n, m, a, b, c, f, g, h)
    PROVE  h[n + m] = f[n] + g[m]
<1> n \in Nat /\ m \in Nat
  BY DEF Joins
<1>0. /\ f[0] = 0 /\ \A i \in 0 .. n : f[i] \in Nat
      /\ \A i \in 1 .. n : a[i] \in Nat /\ f[i] = f[i - 1] + a[i]
      /\ g[0] = 0 /\ \A i \in 0 .. m : g[i] \in Nat
      /\ \A i \in 1 .. m : b[i] \in Nat /\ g[i] = g[i - 1] + b[i]
      /\ h[0] = 0 /\ \A i \in 0 .. n + m : h[i] \in Nat
      /\ \A i \in 1 .. n + m : c[i] \in Nat /\ h[i] = h[i - 1] + c[i]
      /\ (\A i \in 1 .. n : c[i] = a[i]) /\ (\A i \in 1 .. m : c[n + i] = b[i])
  BY DEF PartialSums, Joins
<1> DEFINE part(i) == IF i <= n THEN f[i] ELSE f[n] + g[i - n]
           T == {i \in 0 .. n + m : h[i] # part(i)}
<1>1. T = {}
  <2> SUFFICES ASSUME T # {} PROVE FALSE
    OBVIOUS
  <2>1. T \subseteq Nat
    OBVIOUS
  <2>2. PICK i \in T : \A j \in T : i <= j
    <3> HIDE DEF T
    <3> QED BY <2>1, LeastNatural, Zenon
  <2>3. i \in 0 .. n + m /\ h[i] # part(i)
    BY <2>2
  <2>4. i # 0
    BY <1>0, <2>3
  <2>5. i - 1 \in 0 .. n + m /\ i - 1 < i /\ i \in 1 .. n + m
    BY <2>3, <2>4
  <2>6. h[i - 1] = part(i - 1)
    BY <2>2, <2>5
  <2>7. h[i] = h[i - 1] + c[i] /\ h[i - 1] \in Nat /\ c[i] \in Nat
    BY <1>0, <2>5
  <2>8. CASE i <= n
    <3>1. f[i] = f[i - 1] + a[i] /\ c[i] = a[i] /\ part(i) = f[i] /\ part(i - 1) = f[i - 1]
      BY <1>0, <2>5, <2>8
    <3> QED BY <2>3, <2>6, <2>7, <3>1
  <2>9. CASE ~ (i <= n)
    <3>1. i - n \in 1 .. m /\ n + (i - n) = i /\ (i - n) - 1 \in 0 .. m /\ n \in 0 .. n
      BY <2>5, <2>9
    <3>2. g[i - n] = g[(i - n) - 1] + b[i - n] /\ c[n + (i - n)] = b[i - n] /\ b[i - n] \in Nat
      BY <1>0, <3>1
    <3>3. g[(i - n) - 1] \in Nat /\ f[n] \in Nat
      BY <1>0, <3>1
    <3>4. part(i) = f[n] + g[i - n]
      BY <2>9
    <3>5. part(i - 1) = f[n] + g[(i - n) - 1]
      <4>1. CASE i - 1 = n
        <5>1. (i - n) - 1 = 0 /\ i - 1 <= n
          BY <2>5, <4>1
        <5> QED BY <1>0, <3>3, <4>1, <5>1
      <4>2. CASE i - 1 # n
        <5>1. ~ (i - 1 <= n) /\ (i - 1) - n = (i - n) - 1
          BY <2>5, <2>9, <4>2
        <5> QED BY <5>1
      <4> QED BY <4>1, <4>2
    <3>6. h[i] = (f[n] + g[(i - n) - 1]) + b[i - n]
      BY <2>6, <2>7, <3>1, <3>2, <3>5
    <3>7. h[i] = part(i)
      <4> HIDE DEF part
      <4> QED BY <3>2, <3>3, <3>4, <3>6
    <3> QED BY <2>3, <3>7
  <2> QED BY <2>8, <2>9
<1>2. n + m \in 0 .. n + m /\ n \in 0 .. n /\ m \in 0 .. m /\ (n + m) - n = m
  OBVIOUS
<1>3. h[n + m] = part(n + m)
  BY <1>1, <1>2
<1>4. CASE m = 0
  BY <1>0, <1>2, <1>3, <1>4
<1>5. CASE m # 0
  BY <1>0, <1>2, <1>3, <1>5
<1> QED
  BY <1>4, <1>5

\* The sum of a sequence made of two is that of the two.
LEMMA TotalOfParts ==
    ASSUME NEW s \in Seq(Nat), NEW t \in Seq(Nat), NEW u \in Seq(Nat), Len(u) = Len(s) + Len(t),
           \A i \in 1 .. Len(s) : u[i] = s[i], \A i \in 1 .. Len(t) : u[Len(s) + i] = t[i]
    PROVE  Total(u) = Total(s) + Total(t)
<1> DEFINE n == Len(s)
           m == Len(t)
<1>1. PICK f : PartialSums(n, s, f) /\ Total(s) = f[n]
  BY TotalIsSum, Zenon
<1>2. PICK g : PartialSums(m, t, g) /\ Total(t) = g[m]
  BY TotalIsSum, Zenon
<1>3. PICK h : PartialSums(n + m, u, h) /\ Total(u) = h[n + m]
  BY TotalIsSum, Zenon
<1>4. n \in Nat /\ m \in Nat
  OBVIOUS
<1>5. Joins(n, m, s, t, u, f, g, h)
  BY <1>1, <1>2, <1>3, <1>4, Zenon DEF Joins
<1> HIDE DEF n, m
<1>6. h[n + m] = f[n] + g[m]
  BY <1>5, SumsOfParts
<1> QED
  BY <1>1, <1>2, <1>3, <1>6, Zenon

\* The sum of numbers is a number.
LEMMA TotalType ==
    ASSUME NEW s \in Seq(Nat)
    PROVE  Total(s) \in Nat
<1> DEFINE n == Len(s)
<1>1. PICK f : PartialSums(n, s, f) /\ Total(s) = f[n]
  BY TotalIsSum, Zenon
<1>2. n \in 0 .. n
  OBVIOUS
<1> HIDE DEF n
<1> QED
  BY <1>1, <1>2, Zenon DEF PartialSums

=============================================================================
