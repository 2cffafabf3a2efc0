-------------------------- MODULE TextMergeProofs --------------------------
(***************************************************************************)
(* Proofs about TextMerge, for texts of any length.                        *)
(*                                                                         *)
(* Edits are a path through both texts (Frame).  While they are merged,    *)
(* what is left of them is a rest of it (RestOf), and what was written is  *)
(* what both make of the lines consumed, but for insertions to come        *)
(* (Stands).                                                               *)
(***************************************************************************)
EXTENDS TextMerge, TLAPS, FiniteSetTheorems, NaturalsInduction, SequenceTheorems, WellFoundedInduction

-----------------------------------------------------------------------------
(* Induction and recursion.                                                *)

\* A set of numbers that has 0, and the next number of each it has, has them all.
LEMMA SetInduction ==
  ASSUME NEW S \in SUBSET Nat, 0 \in S, \A n \in S : n + 1 \in S
  PROVE  S = Nat
<1> DEFINE R == OpToRel(<, Nat)
<1> SUFFICES ASSUME Nat \ S # {}  PROVE FALSE
  OBVIOUS
<1>1. PICK m \in Nat \ S : \A k \in Nat \ S : ~(<<k, m>> \in R)
  <2>1. IsWellFoundedOn(R, Nat)
    BY NatLessThanWellFounded
  <2> HIDE DEF R
  <2> QED  BY <2>1, WFMin
<1>2. m # 0 /\ m - 1 \in Nat
  OBVIOUS
<1>3. <<m - 1, m>> \in R
  BY <1>2 DEF OpToRel
<1>4. m - 1 \in S
  BY <1>1, <1>2, <1>3
<1>5. (m - 1) + 1 \in S
  BY <1>4
<1> QED  BY <1>5, <1>2

\* What is so of x if it is of all before x, by a measure, is so of all.
LEMMA MeasureInduction ==
  ASSUME NEW D, NEW mu \in [D -> Nat], NEW S,
         \A x \in D : (\A y \in D : mu[y] < mu[x] => y \in S) => x \in S
  PROVE  D \subseteq S
<1> DEFINE T == {n \in Nat : \A x \in D : mu[x] < n => x \in S}
<1>1. 0 \in T
  OBVIOUS
<1>2. ASSUME NEW n \in T  PROVE n + 1 \in T
  <2>1. ASSUME NEW x \in D, mu[x] < n + 1  PROVE x \in S
    <3>1. \A y \in D : mu[y] < mu[x] => mu[y] < n
      BY <2>1
    <3> QED  BY <3>1
  <2> QED  BY <2>1
<1>3. T = Nat
  <2>1. T \in SUBSET Nat
    OBVIOUS
  <2> HIDE DEF T
  <2> QED  BY <1>1, <1>2, <2>1, SetInduction
<1>4. ASSUME NEW x \in D  PROVE x \in S
  <2>1. mu[x] + 1 \in T
    BY <1>3
  <2> QED  BY <2>1
<1> QED  BY <1>4

Contracts(g, D, C, mu) ==
  \A f, h \in [D -> C], x \in D : (\A y \in D : mu[y] < mu[x] => f[y] = h[y]) => g[f][x] = g[h][x]
Solves(f, g, D, C) == f \in [D -> C] /\ f = g[f]

\* A recursion that takes what it needs from before x, by a measure, defines a
\* function: g makes a function of a function, with the value at x from the values before x.
LEMMA Recursion ==
  ASSUME NEW D, NEW C, NEW mu \in [D -> Nat], NEW g \in [[D -> C] -> [D -> C]], NEW start \in [D -> C],
         Contracts(g, D, C, mu)
  PROVE  \E f : Solves(f, g, D, C)
<1> USE DEF Contracts
<1> DEFINE Up(f, n) == f \in [D -> C] /\ \A x \in D : mu[x] < n => f[x] = g[f][x]
           T == {n \in Nat : \E f \in [D -> C] : Up(f, n)}
           F(n) == CHOOSE f \in [D -> C] : Up(f, n)
           it == [x \in D |-> F(mu[x] + 1)[x]]
<1>1. 0 \in T
  <2>1. Up(start, 0)
    OBVIOUS
  <2> QED  BY <2>1
<1>2. ASSUME NEW n \in T  PROVE n + 1 \in T
  <2>1. PICK f \in [D -> C] : Up(f, n)
    OBVIOUS
  <2>2. g[f] \in [D -> C]
    OBVIOUS
  <2>3. ASSUME NEW x \in D, mu[x] < n + 1  PROVE g[f][x] = g[g[f]][x]
    <3>1. \A y \in D : mu[y] < mu[x] => f[y] = g[f][y]
      BY <2>1, <2>3
    <3> QED  BY <2>2, <3>1
  <2>4. Up(g[f], n + 1)
    BY <2>2, <2>3
  <2> QED  BY <2>2, <2>4
<1>3. T = Nat
  <2>1. T \in SUBSET Nat
    OBVIOUS
  <2> HIDE DEF T
  <2> QED  BY <1>1, <1>2, <2>1, SetInduction
<1>4. \A n \in Nat : F(n) \in [D -> C] /\ Up(F(n), n)
  <2> TAKE n \in Nat
  <2>1. n \in T
    BY <1>3
  <2>2. \E f \in [D -> C] : Up(f, n)
    BY <2>1
  <2> HIDE DEF Up
  <2> QED  BY <2>2
<1>5. ASSUME NEW f \in [D -> C], NEW h \in [D -> C], NEW n \in Nat, Up(f, n), Up(h, n)
      PROVE  \A x \in D : mu[x] < n => f[x] = h[x]
  <2> DEFINE S == {x \in D : mu[x] < n => f[x] = h[x]}
  <2>1. ASSUME NEW x \in D, \A y \in D : mu[y] < mu[x] => y \in S  PROVE x \in S
    <3>1. ASSUME mu[x] < n  PROVE f[x] = h[x]
      <4>1. \A y \in D : mu[y] < mu[x] => f[y] = h[y]
        BY <2>1, <3>1
      <4> QED  BY <1>5, <3>1, <4>1
    <3> QED  BY <3>1
  <2>2. D \subseteq S
    <3> HIDE DEF S
    <3> QED  BY <2>1, MeasureInduction
  <2> QED  BY <2>2
<1>6. ASSUME NEW n \in Nat, NEW x \in D, mu[x] < n  PROVE it[x] = F(n)[x]
  <2>1. mu[x] + 1 \in Nat /\ mu[x] < mu[x] + 1 /\ mu[x] + 1 <= n
    BY <1>6
  <2>2. Up(F(n), mu[x] + 1)
    <3> HIDE DEF F
    <3>1. \A y \in D : mu[y] < mu[x] + 1 => mu[y] < n
      BY <2>1
    <3> QED  BY <1>4, <3>1
  <2>3. F(mu[x] + 1)[x] = F(n)[x]
    <3> HIDE DEF F, Up
    <3> QED  BY <1>4, <1>5, <2>1, <2>2
  <2> QED  BY <2>3
<1>7. it \in [D -> C]
  <2> HIDE DEF F
  <2> QED  BY <1>4
<1>8. ASSUME NEW x \in D  PROVE it[x] = g[it][x]
  <2> DEFINE n == mu[x] + 1
  <2>1. n \in Nat /\ mu[x] < n
    OBVIOUS
  <2> HIDE DEF n, it
  <2>2. it[x] = F(n)[x] /\ \A y \in D : mu[y] < mu[x] => it[y] = F(n)[y]
    <3>1. \A y \in D : mu[y] < mu[x] => mu[y] < n
      BY <2>1
    <3> QED  BY <1>6, <2>1, <3>1
  <2>3. F(n)[x] = g[F(n)][x] /\ F(n) \in [D -> C]
    BY <1>4, <2>1
  <2> HIDE DEF F
  <2> QED  BY <1>7, <2>2, <2>3
<1> HIDE DEF it
<1>9. it = g[it]
  <2>1. g[it] \in [D -> C]
    BY <1>7
  <2> QED  BY <1>7, <1>8, <2>1
<1>10. Solves(it, g, D, C)
  BY <1>7, <1>9 DEF Solves
<1> QED  BY <1>10

-----------------------------------------------------------------------------
(* Greatest and least numbers.                                             *)

\* A set of numbers that is not empty has a least one.
LEMMA MinOf ==
  ASSUME NEW S \in SUBSET Nat, S # {}
  PROVE  Min(S) \in S /\ \A y \in S : Min(S) <= y
<1> DEFINE T == {n \in Nat : \A k \in 0..n : k \notin S}
<1>1. \E x \in S : \A y \in S : x <= y
  <2> SUFFICES ASSUME ~\E x \in S : \A y \in S : x <= y  PROVE FALSE
    OBVIOUS
  <2>1. 0 \in T
    OBVIOUS
  <2>2. ASSUME NEW n \in T  PROVE n + 1 \in T
    <3>1. n + 1 \notin S
      <4> SUFFICES ASSUME n + 1 \in S  PROVE FALSE
        OBVIOUS
      <4>1. ASSUME NEW y \in S  PROVE n + 1 <= y
        <5>1. y \in Nat /\ y \notin 0..n
          OBVIOUS
        <5> QED  BY <5>1
      <4> QED  BY <4>1
    <3> QED  BY <3>1
  <2>3. T = Nat
    <3>1. T \in SUBSET Nat
      OBVIOUS
    <3> HIDE DEF T
    <3> QED  BY <2>1, <2>2, <3>1, SetInduction
  <2>4. \A n \in Nat : n \notin S
    BY <2>3
  <2> QED  BY <2>4
<1> QED  BY <1>1 DEF Min

\* A set of numbers with a bound has a greatest one.
LEMMA MaxOf ==
  ASSUME NEW S \in SUBSET Nat, S # {}, NEW N \in Nat, \A y \in S : y <= N
  PROVE  Max(S) \in S /\ \A y \in S : Max(S) >= y
<1> DEFINE U == {N - y : y \in S}
<1>1. U \in SUBSET Nat /\ U # {}
  <2>1. PICK z \in S : TRUE
    OBVIOUS
  <2>2. N - z \in U
    OBVIOUS
  <2>3. \A y \in S : N - y \in Nat
    OBVIOUS
  <2> QED  BY <2>2, <2>3
<1>2. Min(U) \in U /\ \A y \in U : Min(U) <= y
  <2> HIDE DEF U
  <2> QED  BY <1>1, MinOf
<1>3. PICK x \in S : Min(U) = N - x
  BY <1>2
<1>4. \A y \in S : N - y \in U
  OBVIOUS
<1>5. \A y \in S : N - x <= N - y
  <2> HIDE DEF U
  <2> QED  BY <1>2, <1>3, <1>4
<1>6. \A y \in S : x >= y
  BY <1>5
<1> QED  BY <1>6 DEF Max

\* The least of two numbers.
LEMMA MinOfTwo ==
  ASSUME NEW x \in Nat, NEW y \in Nat
  PROVE  Min({x, y}) = IF x <= y THEN x ELSE y
BY MinOf, {x, y} \in SUBSET Nat, {x, y} # {}

\* What AgreeFrom counts are lines that are the same, inside both segments.
LEMMA AgreeFromFacts ==
  ASSUME NEW a, NEW b, NEW i \in Int, NEW j \in Int, NEW e1 \in Int, NEW e2 \in Int, i <= e1, j <= e2
  PROVE  LET k == AgreeFrom(a, b, i, j, e1, e2)
         IN  k \in Nat /\ k <= e1 - i /\ k <= e2 - j /\ \A t \in 1 .. k : a[i + t] = b[j + t]
<1> DEFINE n == Min({e1 - i, e2 - j})
           S == {k \in 0 .. n : \A t \in 1 .. k : a[i + t] = b[j + t]}
<1>1. e1 - i \in Nat /\ e2 - j \in Nat
  OBVIOUS
<1>2. n \in Nat /\ n <= e1 - i /\ n <= e2 - j
  BY <1>1, MinOfTwo
<1> HIDE DEF n
<1>3. S \in SUBSET Nat /\ 0 \in S /\ \A y \in S : y <= n
  BY <1>2
<1>4. Max(S) \in S
  <2> HIDE DEF S
  <2> QED  BY <1>2, <1>3, MaxOf
<1>5. AgreeFrom(a, b, i, j, e1, e2) = Max(S)
  BY DEF AgreeFrom, n
<1>6. Max(S) \in Nat /\ Max(S) <= n /\ \A t \in 1 .. Max(S) : a[i + t] = b[j + t]
  BY <1>4
<1> HIDE DEF S
<1> QED  BY <1>2, <1>5, <1>6

\* The same of AgreeBack.
LEMMA AgreeBackFacts ==
  ASSUME NEW a, NEW b, NEW i \in Int, NEW j \in Int, NEW s1 \in Int, NEW s2 \in Int, s1 <= i, s2 <= j
  PROVE  LET k == AgreeBack(a, b, i, j, s1, s2)
         IN  k \in Nat /\ k <= i - s1 /\ k <= j - s2 /\ \A t \in 0 .. k - 1 : a[i - t] = b[j - t]
<1> DEFINE n == Min({i - s1, j - s2})
           S == {k \in 0 .. n : \A t \in 0 .. k - 1 : a[i - t] = b[j - t]}
<1>1. i - s1 \in Nat /\ j - s2 \in Nat
  OBVIOUS
<1>2. n \in Nat /\ n <= i - s1 /\ n <= j - s2
  BY <1>1, MinOfTwo
<1> HIDE DEF n
<1>3. S \in SUBSET Nat /\ 0 \in S /\ \A y \in S : y <= n
  BY <1>2
<1>4. Max(S) \in S
  <2> HIDE DEF S
  <2> QED  BY <1>2, <1>3, MaxOf
<1>5. AgreeBack(a, b, i, j, s1, s2) = Max(S)
  BY DEF AgreeBack, n
<1>6. Max(S) \in Nat /\ Max(S) <= n /\ \A t \in 0 .. Max(S) - 1 : a[i - t] = b[j - t]
  BY <1>4
<1> HIDE DEF S
<1> QED  BY <1>2, <1>5, <1>6

\* The same, as one fact.
Backward(k, a, b, i, j, s1, s2) ==
  k \in Nat /\ k <= i - s1 /\ k <= j - s2 /\ \A t \in 0 .. k - 1 : a[i - t] = b[j - t]

LEMMA AgreeBackward ==
  ASSUME NEW a, NEW b, NEW i \in Int, NEW j \in Int, NEW s1 \in Int, NEW s2 \in Int, s1 <= i, s2 <= j
  PROVE  Backward(AgreeBack(a, b, i, j, s1, s2), a, b, i, j, s1, s2)
BY AgreeBackFacts DEF Backward

-----------------------------------------------------------------------------
(* Common segments.                                                        *)

\* A segment of a between s1 and e1 and the equal one of b between s2 and e2.
Common(m, a, b, s1, e1, s2, e2) ==
  /\ m \in Segment
  /\ s1 <= m.sx /\ m.sx <= m.ex /\ m.ex <= e1
  /\ s2 <= m.sy /\ m.sy <= m.ey /\ m.ey <= e2
  /\ m.ex - m.sx = m.ey - m.sy
  /\ \A t \in 1 .. m.ex - m.sx : a[m.sx + t] = b[m.sy + t]

\* The exhaustive search finds a segment that is common to both texts.
LEMMA OptimalFacts ==
  ASSUME NEW a, NEW b, NEW s1 \in Nat, NEW e1 \in Nat, NEW s2 \in Nat, NEW e2 \in Nat, s1 < e1, s2 < e2
  PROVE  Common(OptimalLCS(a, b, s1, e1, s2, e2), a, b, s1, e1, s2, e2)
<1> DEFINE Starts == (s1 .. e1 - 1) \X (s2 .. e2 - 1)
           Size(p) == AgreeFrom(a, b, p[1], p[2], e1, e2)
           longest == Max({Size(p) : p \in Starts})
           Best == {p \in Starts : Size(p) = longest}
           Least(q) == \A r \in Best : q[1] < r[1] \/ (q[1] = r[1] /\ q[2] <= r[2])
           first == CHOOSE q \in Best : Least(q)
           X == {q[1] : q \in Best}
           Y == {q[2] : q \in {r \in Best : r[1] = Min(X)}}
<1>1. ASSUME NEW p \in Starts
      PROVE  /\ p = <<p[1], p[2]>> /\ p[1] \in Nat /\ p[2] \in Nat
             /\ s1 <= p[1] /\ p[1] < e1 /\ s2 <= p[2] /\ p[2] < e2
             /\ Size(p) \in Nat /\ Size(p) <= e1 - p[1] /\ Size(p) <= e2 - p[2]
             /\ \A t \in 1 .. Size(p) : a[p[1] + t] = b[p[2] + t]
  <2>1. /\ p = <<p[1], p[2]>> /\ p[1] \in Nat /\ p[2] \in Nat
        /\ s1 <= p[1] /\ p[1] < e1 /\ s2 <= p[2] /\ p[2] < e2
    OBVIOUS
  <2> QED  BY <2>1, AgreeFromFacts
<1>2. <<s1, s2>> \in Starts
  OBVIOUS
<1> HIDE DEF Starts
<1>3. Best # {}
  <2> DEFINE Sizes == {Size(p) : p \in Starts}
  <2>1. Sizes \in SUBSET Nat /\ Size(<<s1, s2>>) \in Sizes
    BY <1>1, <1>2
  <2>2. \A n \in Sizes : n <= e1
    BY <1>1
  <2> HIDE DEF Sizes
  <2>3. Max(Sizes) \in Sizes
    BY <2>1, <2>2, MaxOf
  <2> QED  BY <2>3 DEF Sizes
<1>4. first \in Best
  <2> HIDE DEF Size, longest
  <2>1. X \in SUBSET Nat /\ X # {}
    BY <1>1, <1>3
  <2> HIDE DEF X
  <2>2. Min(X) \in X /\ \A n \in X : Min(X) <= n
    BY <2>1, MinOf
  <2>3. Y \in SUBSET Nat /\ Y # {}
    BY <1>1, <2>2 DEF X
  <2> HIDE DEF Y
  <2>4. Min(Y) \in Y /\ \A n \in Y : Min(Y) <= n
    BY <2>3, MinOf
  <2>5. PICK q \in Best : q[1] = Min(X) /\ q[2] = Min(Y)
    BY <2>4 DEF Y
  <2>6. ASSUME NEW r \in Best  PROVE q[1] < r[1] \/ (q[1] = r[1] /\ q[2] <= r[2])
    <3>1. q[1] \in Nat /\ r[1] \in Nat /\ q[1] <= r[1]
      BY <1>1, <2>2, <2>5 DEF X
    <3>2. q[1] = r[1] => q[2] <= r[2]
      BY <2>4, <2>5 DEF Y
    <3> QED  BY <3>1, <3>2
  <2>7. Least(q)
    BY <2>6
  <2> HIDE DEF Least, Best
  <2> QED  BY <2>5, <2>7
<1>5. OptimalLCS(a, b, s1, e1, s2, e2) =
        [sx |-> first[1], ex |-> first[1] + longest, sy |-> first[2], ey |-> first[2] + longest]
  BY DEF OptimalLCS, Starts
<1> HIDE DEF first
<1>6. first \in Starts /\ longest = Size(first)
  BY <1>4
<1> HIDE DEF longest, Best, X, Y
<1> DEFINE n == Size(first)
<1>7. /\ first[1] \in Nat /\ first[2] \in Nat /\ n \in Nat
      /\ s1 <= first[1] /\ s2 <= first[2]
      /\ n <= e1 - first[1] /\ n <= e2 - first[2]
      /\ \A t \in 1 .. n : a[first[1] + t] = b[first[2] + t]
  BY <1>1, <1>6
<1> HIDE DEF n
<1>8. OptimalLCS(a, b, s1, e1, s2, e2) =
        [sx |-> first[1], ex |-> first[1] + n, sy |-> first[2], ey |-> first[2] + n]
  BY <1>5, <1>6 DEF n
<1> QED  BY <1>7, <1>8 DEF Common, Segment

\* What the search by lines finds is a common segment.
LEMMA SearchFacts ==
  ASSUME NEW a, NEW b, NEW s1 \in Nat, NEW e1 \in Nat, NEW s2 \in Nat, NEW e2 \in Nat, s1 < e1, s2 < e2
  PROVE  Common(LongestCommonSequence(a, b, s1, e1, s2, e2), a, b, s1, e1, s2, e2)
<1> DEFINE Near(x) == IF x < 0 THEN -x ELSE x
           Equal(i) == {j \in s2 + 1 .. e2 - 1 : a[i + 1] = b[j]}
           Inside(i, j, m) == i < m.ex /\ j >= m.sy /\ j < m.ey
           back(i, j) == AgreeBack(a, b, i, j - 1, s1, s2)
           ahead(i, j) == AgreeFrom(a, b, i + 1, j, e1, e2)
           Match(i, j) == [sx |-> i - back(i, j), sy |-> j - 1 - back(i, j),
                           ex |-> i + 1 + ahead(i, j), ey |-> j + ahead(i, j)]
           Score(m) == (m.ex - m.sx) * (e1 - s1 + e2 - s2)
                         - (Near(m.sx - s1 - m.sy + s2) + Near((m.sx + m.ex) \div 2 - (e1 + s1) \div 2))
           Keep(acc, m) ==
             IF Score(m) > acc.score THEN [acc EXCEPT !.best = m, !.score = Score(m)]
             ELSE IF m.ex > acc.prev.ex THEN [acc EXCEPT !.prev = m] ELSE acc
           Look(acc, i) ==
             IF \E j \in Equal(i) : j = Max(Equal(i)) /\ ~Inside(i, j, acc.best) /\ ~Inside(i, j, acc.prev)
               THEN Keep(acc, Match(i, Max(Equal(i)))) ELSE acc
           none == [sx |-> s1, ex |-> s1, sy |-> s2, ey |-> s2]
           begin == [best |-> none, prev |-> none, score |-> -10000]
           Scan == CHOOSE f : f = [i \in s1 .. e1 |-> IF i = s1 THEN begin ELSE Look(f[i - 1], i - 1)]
           best == Scan[e1].best
           Good == {acc \in Found : Common(acc.best, a, b, s1, e1, s2, e2)}
<1>1. LongestCommonSequence(a, b, s1, e1, s2, e2) =
        [m \in Segment |-> IF m.ex = m.sx THEN OptimalLCS(a, b, s1, e1, s2, e2) ELSE m][best]
  BY DEF LongestCommonSequence
<1>2. ASSUME NEW i \in s1 .. e1 - 1, NEW j \in s2 + 1 .. e2 - 1, a[i + 1] = b[j]
      PROVE  Common(Match(i, j), a, b, s1, e1, s2, e2)
  <2> DEFINE k == back(i, j)
             l == ahead(i, j)
             m == Match(i, j)
  <2>1. /\ k \in Nat /\ k <= i - s1 /\ k <= j - 1 - s2
        /\ \A t \in 0 .. k - 1 : a[i - t] = b[j - 1 - t]
    <3> DEFINE jj == j - 1
    <3>1. i \in Int /\ jj \in Int /\ s1 \in Int /\ s2 \in Int /\ s1 <= i /\ s2 <= jj
      OBVIOUS
    <3>2. k = AgreeBack(a, b, i, jj, s1, s2)
      OBVIOUS
    <3> HIDE DEF jj, k
    <3>3. Backward(k, a, b, i, jj, s1, s2)
      BY <3>1, <3>2, AgreeBackward
    <3>4. k \in Nat /\ k <= i - s1 /\ k <= jj - s2 /\ \A t \in 0 .. k - 1 : a[i - t] = b[jj - t]
      BY <3>3 DEF Backward
    <3> QED  BY <3>4 DEF jj
  <2>2. /\ l \in Nat /\ l <= e1 - (i + 1) /\ l <= e2 - j
        /\ \A t \in 1 .. l : a[i + 1 + t] = b[j + t]
    <3> DEFINE ii == i + 1
    <3>1. /\ ii \in Int /\ j \in Int /\ e1 \in Int /\ e2 \in Int /\ ii <= e1 /\ j <= e2
          /\ l = AgreeFrom(a, b, ii, j, e1, e2)
      OBVIOUS
    <3> HIDE DEF ii, l
    <3>2. l \in Nat /\ l <= e1 - ii /\ l <= e2 - j /\ \A t \in 1 .. l : a[ii + t] = b[j + t]
      BY <3>1, AgreeFromFacts
    <3> QED  BY <3>2 DEF ii
  <2> HIDE DEF k, l
  <2>3. m = [sx |-> i - k, sy |-> j - 1 - k, ex |-> i + 1 + l, ey |-> j + l]
    BY DEF k, l
  <2> HIDE DEF m
  <2>4. i \in Nat /\ j \in Nat
    OBVIOUS
  <2>5. /\ m \in Segment
        /\ s1 <= m.sx /\ m.sx <= m.ex /\ m.ex <= e1
        /\ s2 <= m.sy /\ m.sy <= m.ey /\ m.ey <= e2
        /\ m.ex - m.sx = m.ey - m.sy
    BY <2>1, <2>2, <2>3, <2>4 DEF Segment
  <2>6. ASSUME NEW t \in 1 .. m.ex - m.sx  PROVE a[m.sx + t] = b[m.sy + t]
    <3>1. t \in 1 .. k + 1 + l /\ m.sx + t = i - k + t /\ m.sy + t = j - 1 - k + t
      BY <2>1, <2>2, <2>3, <2>4
    <3>2. CASE t <= k
      <4>1. k - t \in 0 .. k - 1 /\ i - (k - t) = i - k + t /\ j - 1 - (k - t) = j - 1 - k + t
        BY <2>1, <2>4, <3>1, <3>2
      <4>2. a[i - (k - t)] = b[j - 1 - (k - t)]
        BY <2>1, <4>1
      <4> QED  BY <3>1, <4>1, <4>2
    <3>3. CASE t = k + 1
      <4>1. i - k + t = i + 1 /\ j - 1 - k + t = j
        BY <2>1, <2>4, <3>3
      <4> QED  BY <1>2, <3>1, <4>1
    <3>4. CASE t > k + 1
      <4>1. t - (k + 1) \in 1 .. l /\ i + 1 + (t - (k + 1)) = i - k + t /\ j + (t - (k + 1)) = j - 1 - k + t
        BY <2>1, <2>2, <2>4, <3>1, <3>4
      <4>2. a[i + 1 + (t - (k + 1))] = b[j + (t - (k + 1))]
        BY <2>2, <4>1
      <4> QED  BY <3>1, <4>1, <4>2
    <3> QED  BY <2>1, <3>1, <3>2, <3>3, <3>4
  <2> QED  BY <2>5, <2>6 DEF Common, m
<1>3. \A m \in Segment : Score(m) \in Int
  <2>1. ASSUME NEW x \in Int  PROVE Near(x) \in Int
    OBVIOUS
  <2> TAKE m \in Segment
  <2>2. m.ex \in Nat /\ m.sx \in Nat /\ m.sy \in Nat /\ m.ey \in Nat
    BY DEF Segment
  <2>3. m.sx - s1 - m.sy + s2 \in Int /\ (m.sx + m.ex) \div 2 - (e1 + s1) \div 2 \in Int
    BY <2>2
  <2> HIDE DEF Near
  <2>4. (m.ex - m.sx) * (e1 - s1 + e2 - s2) \in Int
    BY <2>2
  <2> QED  BY <2>1, <2>3, <2>4
<1>4. ASSUME NEW acc \in Good, NEW m, Common(m, a, b, s1, e1, s2, e2)  PROVE Keep(acc, m) \in Good
  <2>1. m \in Segment /\ acc \in Found
    BY <1>4 DEF Common
  <2>2. Score(m) \in Int
    BY <1>3, <2>1
  <2> HIDE DEF Score
  <2>3. Keep(acc, m) = IF Score(m) > acc.score THEN [acc EXCEPT !.best = m, !.score = Score(m)]
                       ELSE IF m.ex > acc.prev.ex THEN [acc EXCEPT !.prev = m] ELSE acc
    BY <2>1
  <2> HIDE DEF Keep
  <2>4. CASE Keep(acc, m) = [acc EXCEPT !.best = m, !.score = Score(m)]
    BY <1>4, <2>1, <2>2, <2>4 DEF Found
  <2>5. CASE Keep(acc, m) = [acc EXCEPT !.prev = m]
    BY <1>4, <2>1, <2>5 DEF Found
  <2> QED  BY <2>3, <2>4, <2>5
<1>5. ASSUME NEW acc \in Good, NEW i \in s1 .. e1 - 1  PROVE Look(acc, i) \in Good
  <2>1. acc \in Found /\ i \in Nat
    OBVIOUS
  <2> HIDE DEF Keep, Match, Inside
  <2>2. Look(acc, i) =
          IF \E j \in Equal(i) : j = Max(Equal(i)) /\ ~Inside(i, j, acc.best) /\ ~Inside(i, j, acc.prev)
            THEN Keep(acc, Match(i, Max(Equal(i)))) ELSE acc
    BY <2>1
  <2> HIDE DEF Look
  <2>3. CASE \E j \in Equal(i) : j = Max(Equal(i)) /\ ~Inside(i, j, acc.best) /\ ~Inside(i, j, acc.prev)
    <3>1. Max(Equal(i)) \in s2 + 1 .. e2 - 1 /\ a[i + 1] = b[Max(Equal(i))]
      BY <2>3
    <3>2. Common(Match(i, Max(Equal(i))), a, b, s1, e1, s2, e2)
      BY <1>2, <3>1
    <3> QED  BY <1>4, <2>2, <2>3, <3>2
  <2> QED  BY <2>2, <2>3
<1>6. begin \in Good
  BY DEF Common, Segment, Found
<1> HIDE DEF Look, Good, begin
<1>7. \E f \in [s1 .. e1 -> Good] : f = [i \in s1 .. e1 |-> IF i = s1 THEN begin ELSE Look(f[i - 1], i - 1)]
  <2> DEFINE D == s1 .. e1
             mu == [i \in D |-> i - s1]
             g == [f \in [D -> Good] |-> [i \in D |-> IF i = s1 THEN begin ELSE Look(f[i - 1], i - 1)]]
             start == [i \in D |-> begin]
  <2>1. mu \in [D -> Nat] /\ start \in [D -> Good]
    BY <1>6
  <2>2. \A i \in D : i # s1 => i - 1 \in D /\ i - 1 \in s1 .. e1 - 1 /\ mu[i - 1] < mu[i]
    OBVIOUS
  <2> HIDE DEF D, mu, start
  <2>3. \A f \in [D -> Good], i \in D : (IF i = s1 THEN begin ELSE Look(f[i - 1], i - 1)) \in Good
    BY <1>5, <1>6, <2>2
  <2>4. g \in [[D -> Good] -> [D -> Good]]
    BY <2>3
  <2>5. ASSUME NEW f \in [D -> Good], NEW h \in [D -> Good], NEW i \in D,
               \A y \in D : mu[y] < mu[i] => f[y] = h[y]
        PROVE  g[f][i] = g[h][i]
    <3>1. i # s1 => f[i - 1] = h[i - 1]
      BY <2>2, <2>5
    <3> QED  BY <3>1
  <2>6. \E f : Solves(f, g, D, Good)
    <3> HIDE DEF g
    <3>1. Contracts(g, D, Good, mu)
      BY <2>5 DEF Contracts
    <3> QED  BY <2>1, <2>4, <3>1, Recursion
  <2> QED  BY <2>6 DEF D, Solves
<1>8. Scan = [i \in s1 .. e1 |-> IF i = s1 THEN begin ELSE Look(Scan[i - 1], i - 1)]
  BY <1>7
<1> HIDE DEF Scan
<1>9. Scan[e1] \in Good
  <2> DEFINE T == {n \in Nat : s1 + n <= e1 => Scan[s1 + n] \in Good}
  <2>1. 0 \in T
    BY <1>6, <1>8
  <2>2. ASSUME NEW n \in T  PROVE n + 1 \in T
    <3>1. ASSUME s1 + (n + 1) <= e1  PROVE Scan[s1 + (n + 1)] \in Good
      <4>1. /\ s1 + (n + 1) \in s1 .. e1 /\ s1 + (n + 1) # s1 /\ (s1 + (n + 1)) - 1 = s1 + n
            /\ s1 + n \in s1 .. e1 - 1 /\ s1 + n <= e1
        BY <3>1
      <4>2. Scan[s1 + n] \in Good
        BY <4>1
      <4>3. Scan[s1 + (n + 1)] = Look(Scan[s1 + n], s1 + n)
        <5> HIDE DEF T
        <5>1. \A i \in s1 .. e1 : i # s1 => Scan[i] = Look(Scan[i - 1], i - 1)
          BY <1>8
        <5> QED  BY <4>1, <5>1
      <4> QED  BY <1>5, <4>1, <4>2, <4>3
    <3> QED  BY <3>1
  <2>3. T = Nat
    <3>1. T \in SUBSET Nat
      OBVIOUS
    <3> HIDE DEF T
    <3> QED  BY <2>1, <2>2, <3>1, SetInduction
  <2>4. e1 - s1 \in Nat /\ s1 + (e1 - s1) = e1
    OBVIOUS
  <2>5. \A n \in Nat : s1 + n <= e1 => Scan[s1 + n] \in Good
    BY <2>3
  <2> HIDE DEF T
  <2> QED  BY <2>4, <2>5
<1>10. best \in Segment /\ Common(best, a, b, s1, e1, s2, e2)
  BY <1>9 DEF Good, Common
<1> HIDE DEF best
<1> QED  BY <1>1, <1>10, OptimalFacts

-----------------------------------------------------------------------------
(* Triples and where they lead.                                              *)

Triples == [copy : Nat, del : Nat, ins : Nat]

\* The lines of a and of b that are behind after each edit.
Path(c, R, S, a, b) ==
  /\ R \in [0 .. Len(c) -> Nat] /\ S \in [0 .. Len(c) -> Nat]
  /\ \A k \in 1 .. Len(c) :
       /\ R[k] = R[k - 1] + c[k].copy + c[k].del
       /\ S[k] = S[k - 1] + c[k].copy + c[k].ins
       /\ \A t \in 1 .. c[k].copy : a[R[k - 1] + t] = b[S[k - 1] + t]

Leads(c, a, b, p, m, pp, mm) ==
  \E R, S : /\ Path(c, R, S, a, b)
            /\ R[0] = p /\ S[0] = m /\ R[Len(c)] = pp /\ S[Len(c)] = mm

\* Edits that copy and edits that do not take turns, or several that copy follow each other.
IsCopy(e) == e.copy > 0 /\ e.del = 0 /\ e.ins = 0
IsChange(e) == e.copy = 0 /\ e.del + e.ins > 0
Raw(c) ==
  /\ \A k \in 1 .. Len(c) : IsCopy(c[k]) \/ IsChange(c[k])
  /\ \A k \in 2 .. Len(c) : IsCopy(c[k]) \/ IsCopy(c[k - 1])

\* No edits lead nowhere.
LEMMA LeadsNone ==
  ASSUME NEW a, NEW b, NEW p \in Nat, NEW m \in Nat
  PROVE  Leads(<<>>, a, b, p, m, p, m)
<1>1. Path(<<>>, [k \in 0 .. 0 |-> p], [k \in 0 .. 0 |-> m], a, b)
  BY DEF Path
<1> QED  BY <1>1 DEF Leads

\* Where one edit leads.
LEMMA LeadsOne ==
  ASSUME NEW a, NEW b, NEW p \in Nat, NEW m \in Nat, NEW e \in Triples,
         \A t \in 1 .. e.copy : a[p + t] = b[m + t]
  PROVE  Leads(<<e>>, a, b, p, m, p + e.copy + e.del, m + e.copy + e.ins)
<1> DEFINE R == [k \in 0 .. 1 |-> IF k = 0 THEN p ELSE p + e.copy + e.del]
           S == [k \in 0 .. 1 |-> IF k = 0 THEN m ELSE m + e.copy + e.ins]
<1>1. e.copy \in Nat /\ e.del \in Nat /\ e.ins \in Nat
  BY DEF Triples
<1>2. R \in [0 .. 1 -> Nat] /\ S \in [0 .. 1 -> Nat] /\ R[0] = p /\ S[0] = m
      /\ R[1] = p + e.copy + e.del /\ S[1] = m + e.copy + e.ins
  BY <1>1
<1> HIDE DEF R, S
<1>3. Len(<<e>>) = 1 /\ <<e>>[1] = e /\ \A k \in 1 .. 1 : k = 1 /\ k - 1 = 0
  OBVIOUS
<1>4. Path(<<e>>, R, S, a, b)
  BY <1>2, <1>3 DEF Path
<1> QED  BY <1>2, <1>3, <1>4 DEF Leads

\* One edit leads nowhere else.
LEMMA LeadsOneOnly ==
  ASSUME NEW a, NEW b, NEW p, NEW m, NEW pp, NEW mm, NEW e \in Triples, Leads(<<e>>, a, b, p, m, pp, mm)
  PROVE  /\ p \in Nat /\ m \in Nat /\ pp = p + e.copy + e.del /\ mm = m + e.copy + e.ins
         /\ \A t \in 1 .. e.copy : a[p + t] = b[m + t]
<1>1. PICK R, S : /\ Path(<<e>>, R, S, a, b)
                  /\ R[0] = p /\ S[0] = m /\ R[Len(<<e>>)] = pp /\ S[Len(<<e>>)] = mm
  BY DEF Leads
<1>2. Len(<<e>>) = 1 /\ <<e>>[1] = e /\ 1 - 1 = 0 /\ 1 \in 1 .. 1 /\ 0 \in 0 .. 1
  OBVIOUS
<1> QED  BY <1>1, <1>2 DEF Path

\* Edits and then others.
LEMMA LeadsConcat ==
  ASSUME NEW a, NEW b, NEW c \in Seq(Triples), NEW d \in Seq(Triples),
         NEW p, NEW m, NEW pp, NEW mm, NEW q, NEW n,
         Leads(c, a, b, p, m, pp, mm), Leads(d, a, b, pp, mm, q, n)
  PROVE  Leads(c \o d, a, b, p, m, q, n)
<1>1. PICK R, S : /\ Path(c, R, S, a, b) /\ R[0] = p /\ S[0] = m /\ R[Len(c)] = pp /\ S[Len(c)] = mm
  BY DEF Leads
<1>2. PICK U, V : /\ Path(d, U, V, a, b) /\ U[0] = pp /\ V[0] = mm /\ U[Len(d)] = q /\ V[Len(d)] = n
  BY DEF Leads
<1> DEFINE e == c \o d
           i == Len(c)
           j == Len(d)
           X == [k \in 0 .. i + j |-> IF k <= i THEN R[k] ELSE U[k - i]]
           Y == [k \in 0 .. i + j |-> IF k <= i THEN S[k] ELSE V[k - i]]
<1>3. /\ i \in Nat /\ j \in Nat /\ Len(e) = i + j
      /\ \A k \in 1 .. i : e[k] = c[k]
      /\ \A k \in 1 .. i + j : k > i => e[k] = d[k - i]
  BY ConcatProperties, LenProperties
<1> HIDE DEF e, i, j
<1>4. /\ R \in [0 .. i -> Nat] /\ S \in [0 .. i -> Nat] /\ U \in [0 .. j -> Nat] /\ V \in [0 .. j -> Nat]
      /\ R[i] = U[0] /\ S[i] = V[0]
  BY <1>1, <1>2 DEF Path, i, j
<1>5. X \in [0 .. i + j -> Nat] /\ Y \in [0 .. i + j -> Nat]
  BY <1>3, <1>4
<1>0. /\ \A k \in 1 .. i : /\ R[k] = R[k - 1] + c[k].copy + c[k].del
                            /\ S[k] = S[k - 1] + c[k].copy + c[k].ins
                            /\ \A t \in 1 .. c[k].copy : a[R[k - 1] + t] = b[S[k - 1] + t]
  BY <1>1 DEF Path, i
<1>6. /\ \A k \in 0 .. i : X[k] = R[k] /\ Y[k] = S[k]
      /\ \A k \in i .. i + j : X[k] = U[k - i] /\ Y[k] = V[k - i]
  BY <1>3, <1>4
<1> HIDE DEF X, Y
<1>7. ASSUME NEW k \in 1 .. i + j
      PROVE  /\ X[k] = X[k - 1] + e[k].copy + e[k].del
             /\ Y[k] = Y[k - 1] + e[k].copy + e[k].ins
             /\ \A t \in 1 .. e[k].copy : a[X[k - 1] + t] = b[Y[k - 1] + t]
  <2>1. CASE k <= i
    <3>1. k \in 1 .. i /\ k \in 0 .. i /\ k - 1 \in 0 .. i
      BY <1>3, <2>1
    <3>2. e[k] = c[k] /\ X[k] = R[k] /\ X[k - 1] = R[k - 1] /\ Y[k] = S[k] /\ Y[k - 1] = S[k - 1]
      BY <1>3, <1>6, <3>1
    <3> QED  BY <1>0, <3>1, <3>2
  <2>2. CASE k > i
    <3>1. k - i \in 1 .. j /\ k \in i .. i + j /\ k - 1 \in i .. i + j /\ (k - 1) - i = (k - i) - 1
      BY <1>3, <2>2
    <3>2. e[k] = d[k - i] /\ X[k] = U[k - i] /\ X[k - 1] = U[(k - i) - 1]
          /\ Y[k] = V[k - i] /\ Y[k - 1] = V[(k - i) - 1]
      BY <1>3, <1>6, <2>2, <3>1
    <3> DEFINE l == k - i
    <3> HIDE DEF l
    <3>3. e[k] = d[l] /\ X[k] = U[l] /\ X[k - 1] = U[l - 1] /\ Y[k] = V[l] /\ Y[k - 1] = V[l - 1] /\ l \in 1 .. j
      BY <3>1, <3>2 DEF l
    <3> QED  BY <1>2, <3>3 DEF Path, j
  <2> QED  BY <1>3, <2>1, <2>2
<1>8. Path(e, X, Y, a, b)
  BY <1>3, <1>5, <1>7 DEF Path
<1>9. X[0] = p /\ Y[0] = m /\ X[Len(e)] = q /\ Y[Len(e)] = n
  <2>1. 0 \in 0 .. i /\ i + j \in i .. i + j /\ (i + j) - i = j
    BY <1>3
  <2> QED  BY <1>1, <1>2, <1>3, <1>6, <2>1 DEF j
<1> QED  BY <1>8, <1>9 DEF Leads, e

\* All edits but the last, and the last.
LEMMA LeadsLast ==
  ASSUME NEW a, NEW b, NEW c \in Seq(Triples), c # <<>>, NEW p, NEW m, NEW q, NEW n, Leads(c, a, b, p, m, q, n)
  PROVE  \E pp, mm : /\ Leads(SubSeq(c, 1, Len(c) - 1), a, b, p, m, pp, mm)
                     /\ Leads(<<c[Len(c)]>>, a, b, pp, mm, q, n)
<1>1. PICK R, S : Path(c, R, S, a, b) /\ R[0] = p /\ S[0] = m /\ R[Len(c)] = q /\ S[Len(c)] = n
  BY DEF Leads
<1> DEFINE i == Len(c)
           d == SubSeq(c, 1, i - 1)
           X == [k \in 0 .. i - 1 |-> R[k]]
           Y == [k \in 0 .. i - 1 |-> S[k]]
<1>2. i \in Nat \ {0} /\ c[i] \in Triples
  BY EmptySeq, ElementOfSeq
<1>3. Len(d) = i - 1 /\ \A k \in 1 .. i - 1 : d[k] = c[k]
  <2>1. \A k \in 1 .. i - 1 : c[k] \in Triples
    BY <1>2, ElementOfSeq
  <2> HIDE DEF i
  <2> QED  BY <1>2, <2>1, SubSeqProperties
<1>4. R \in [0 .. i -> Nat] /\ S \in [0 .. i -> Nat]
  BY <1>1 DEF Path
<1>5. \A k \in 1 .. i : /\ R[k] = R[k - 1] + c[k].copy + c[k].del
                         /\ S[k] = S[k - 1] + c[k].copy + c[k].ins
                         /\ \A t \in 1 .. c[k].copy : a[R[k - 1] + t] = b[S[k - 1] + t]
  BY <1>1 DEF Path
<1>6. R[0] = p /\ S[0] = m /\ R[i] = q /\ S[i] = n
  BY <1>1
<1> HIDE DEF i, d
<1>7. Path(d, X, Y, a, b) /\ X[0] = p /\ Y[0] = m /\ X[Len(d)] = R[i - 1] /\ Y[Len(d)] = S[i - 1]
  <2>1. X \in [0 .. i - 1 -> Nat] /\ Y \in [0 .. i - 1 -> Nat] /\ \A k \in 0 .. i - 1 : X[k] = R[k] /\ Y[k] = S[k]
    BY <1>2, <1>4
  <2> HIDE DEF X, Y
  <2>2. 0 \in 0 .. i - 1 /\ i - 1 \in 0 .. i - 1
    BY <1>2
  <2>3. \A k \in 1 .. i - 1 : k \in 1 .. i /\ k \in 0 .. i - 1 /\ k - 1 \in 0 .. i - 1
    BY <1>2
  <2>4. ASSUME NEW k \in 1 .. i - 1
        PROVE  /\ X[k] = X[k - 1] + d[k].copy + d[k].del
               /\ Y[k] = Y[k - 1] + d[k].copy + d[k].ins
               /\ \A t \in 1 .. d[k].copy : a[X[k - 1] + t] = b[Y[k - 1] + t]
    <3>1. d[k] = c[k] /\ X[k] = R[k] /\ X[k - 1] = R[k - 1] /\ Y[k] = S[k] /\ Y[k - 1] = S[k - 1] /\ k \in 1 .. i
      BY <1>3, <2>1, <2>3
    <3> QED  BY <1>5, <3>1
  <2>5. Path(d, X, Y, a, b)
    BY <1>3, <2>1, <2>4 DEF Path
  <2> QED  BY <1>3, <1>6, <2>1, <2>2, <2>5
<1>8. Leads(d, a, b, p, m, R[i - 1], S[i - 1])
  BY <1>7 DEF Leads
<1>9. Leads(<<c[i]>>, a, b, R[i - 1], S[i - 1], q, n)
  <2>1. i - 1 \in 0 .. i /\ i \in 1 .. i
    BY <1>2
  <2>2. R[i - 1] \in Nat /\ S[i - 1] \in Nat
    BY <1>4, <2>1
  <2> DEFINE e == c[i]
             pp == R[i - 1]
             mm == S[i - 1]
  <2>3. /\ R[i] = pp + e.copy + e.del /\ S[i] = mm + e.copy + e.ins
        /\ \A t \in 1 .. e.copy : a[pp + t] = b[mm + t]
    BY <1>5, <2>1
  <2>4. pp \in Nat /\ mm \in Nat /\ e \in Triples
    BY <1>2, <2>2
  <2> HIDE DEF e, pp, mm
  <2>5. Leads(<<e>>, a, b, pp, mm, pp + e.copy + e.del, mm + e.copy + e.ins)
    BY <2>3, <2>4, LeadsOne
  <2> QED  BY <1>6, <2>3, <2>5 DEF e, pp, mm
<1> QED  BY <1>8, <1>9 DEF d, i

-----------------------------------------------------------------------------
(* The edits of diff_by_lines.                                             *)

Quads(a, b) == (0 .. Len(a)) \X (0 .. Len(a)) \X (0 .. Len(b)) \X (0 .. Len(b))

\* Edits that are each a copy or a change, and then others.
LEMMA RawConcat ==
  ASSUME NEW c \in Seq(Triples), NEW d \in Seq(Triples), Raw(c), Raw(d),
         c = <<>> \/ d = <<>> \/ IsCopy(c[Len(c)]) \/ IsCopy(d[1])
  PROVE  c \o d \in Seq(Triples) /\ Raw(c \o d)
<1> DEFINE e == c \o d
           i == Len(c)
           j == Len(d)
<1>1. /\ i \in Nat /\ j \in Nat /\ e \in Seq(Triples) /\ Len(e) = i + j
      /\ \A k \in 1 .. i : e[k] = c[k]
      /\ \A k \in 1 .. i + j : k > i => e[k] = d[k - i]
  BY ConcatProperties, LenProperties
<1>2. i = 0 \/ j = 0 \/ IsCopy(c[i]) \/ IsCopy(d[1])
  BY EmptySeq
<1> HIDE DEF e, i, j
<1>3. ASSUME NEW k \in 1 .. i + j  PROVE IsCopy(e[k]) \/ IsChange(e[k])
  <2>1. CASE k <= i
    BY <1>1, <2>1 DEF Raw, i
  <2>2. CASE k > i
    <3>1. k - i \in 1 .. j /\ e[k] = d[k - i]
      BY <1>1, <2>2
    <3> QED  BY <3>1 DEF Raw, j
  <2> QED  BY <1>1, <2>1, <2>2
<1>4. ASSUME NEW k \in 2 .. i + j  PROVE IsCopy(e[k]) \/ IsCopy(e[k - 1])
  <2>1. CASE k <= i
    <3>1. k \in 2 .. i /\ e[k] = c[k] /\ e[k - 1] = c[k - 1]
      BY <1>1, <2>1
    <3> QED  BY <3>1 DEF Raw, i
  <2>2. CASE k > i + 1
    <3>1. k - i \in 2 .. j /\ e[k] = d[k - i] /\ e[k - 1] = d[(k - 1) - i] /\ (k - 1) - i = (k - i) - 1
      BY <1>1, <2>2
    <3> DEFINE l == k - i
    <3> HIDE DEF l
    <3>2. l \in 2 .. j /\ e[k] = d[l] /\ e[k - 1] = d[l - 1]
      BY <3>1 DEF l
    <3> QED  BY <3>2 DEF Raw, j
  <2>3. CASE k = i + 1
    <3>1. i # 0 /\ j # 0 /\ e[k] = d[k - i] /\ k - i = 1 /\ k - 1 = i /\ e[i] = c[i]
      BY <1>1, <2>3
    <3> QED  BY <1>2, <3>1
  <2> QED  BY <1>1, <2>1, <2>2, <2>3
<1> QED  BY <1>1, <1>3, <1>4 DEF Raw, e

\* One copy, or one change.
LEMMA RawOne ==
  ASSUME NEW e \in Triples, IsCopy(e) \/ IsChange(e)
  PROVE  <<e>> \in Seq(Triples) /\ Raw(<<e>>)
BY DEF Raw

\* No edits at all.
LEMMA RawNone == <<>> \in Seq(Triples) /\ Raw(<<>>)
BY DEF Raw

\* An index beyond x, counted from x.
LEMMA Beyond ==
  ASSUME NEW t \in Nat, NEW x \in Nat, NEW y \in Nat, NEW p \in Nat, NEW q \in Nat, t > x, t <= x + y, p = q + x
  PROVE  t - x \in 1 .. y /\ p + (t - x) = q + t
OBVIOUS

\* Whatever segment is found, the edits between lead from the one text to the other.
LEMMA DiffFacts ==
  ASSUME NEW L, NEW a \in Seq(L), NEW b \in Seq(L), NEW q \in Quads(a, b), q[1] <= q[2], q[3] <= q[4]
  PROVE  /\ DiffStep(a, b)[q] \in Seq(Triples) /\ Raw(DiffStep(a, b)[q])
         /\ Leads(DiffStep(a, b)[q], a, b, q[1], q[3], q[2], q[4])
<1> DEFINE D == Quads(a, b)
           seg(r) == LongestCommonSequence(a, b, r[1], r[2], r[3], r[4])
           around(f, r, m) ==
             IF m.ex > m.sx
               THEN f[<<r[1], m.sx, r[3], m.sy>>] \o <<Triple(m.ex - m.sx, 0, 0)>> \o f[<<m.ex, r[2], m.ey, r[4]>>]
               ELSE <<Triple(0, r[2] - r[1], r[4] - r[3])>>
           body(f, r) ==
             IF r[2] <= r[1] THEN IF r[4] > r[3] THEN <<Triple(0, 0, r[4] - r[3])>> ELSE <<>>
             ELSE IF r[4] <= r[3] THEN <<Triple(0, r[2] - r[1], 0)>>
             ELSE [m \in Segment |-> around(f, r, m)][seg(r)]
           F == CHOOSE f : f = [r \in D |-> body(f, r)]
           short(r) == IF r[2] <= r[1] \/ r[4] <= r[3] THEN 0 ELSE (r[2] - r[1]) + (r[4] - r[3])
           mu == [r \in D |-> short(r)]
<1>1. DiffStep(a, b) = F
  BY DEF DiffStep, Quads
<1>2. ASSUME NEW r \in D
      PROVE  /\ r = <<r[1], r[2], r[3], r[4]>> /\ r[1] \in Nat /\ r[2] \in Nat /\ r[3] \in Nat /\ r[4] \in Nat
             /\ r[1] <= Len(a) /\ r[2] <= Len(a) /\ r[3] <= Len(b) /\ r[4] <= Len(b)
  BY LenProperties DEF Quads
<1>3. ASSUME NEW x \in Nat, NEW y \in Nat, NEW z \in Nat, NEW w \in Nat,
             x <= Len(a), y <= Len(a), z <= Len(b), w <= Len(b)
      PROVE  <<x, y, z, w>> \in D
  BY <1>3, LenProperties DEF Quads
<1> HIDE DEF D
<1>4. mu \in [D -> Nat]
  <2>1. \A r \in D : short(r) \in Nat
    BY <1>2
  <2> HIDE DEF short
  <2> QED  BY <2>1
<1>5. ASSUME NEW r \in D, ~(r[2] <= r[1]), ~(r[4] <= r[3])
      PROVE  LET m == seg(r)
                 before == <<r[1], m.sx, r[3], m.sy>>
                 after == <<m.ex, r[2], m.ey, r[4]>>
             IN  /\ m \in Segment /\ Common(m, a, b, r[1], r[2], r[3], r[4])
                 /\ before \in D /\ after \in D
                 /\ m.ex > m.sx => mu[before] < mu[r] /\ mu[after] < mu[r]
  <2> DEFINE m == seg(r)
             before == <<r[1], m.sx, r[3], m.sy>>
             after == <<m.ex, r[2], m.ey, r[4]>>
  <2>1. Common(m, a, b, r[1], r[2], r[3], r[4])
    BY <1>2, <1>5, SearchFacts
  <2> HIDE DEF m
  <2>2. /\ m \in Segment /\ m.sx \in Nat /\ m.ex \in Nat /\ m.sy \in Nat /\ m.ey \in Nat
        /\ r[1] <= m.sx /\ m.sx <= m.ex /\ m.ex <= r[2]
        /\ r[3] <= m.sy /\ m.sy <= m.ey /\ m.ey <= r[4]
        /\ m.ex - m.sx = m.ey - m.sy
    BY <2>1 DEF Common, Segment
  <2>3. before \in D /\ after \in D
    <3>1. Len(a) \in Nat /\ Len(b) \in Nat /\ r[2] \in Nat /\ r[4] \in Nat /\ r[2] <= Len(a) /\ r[4] <= Len(b)
      BY <1>2, LenProperties
    <3>2. m.sx <= Len(a) /\ m.ex <= Len(a) /\ m.sy <= Len(b) /\ m.ey <= Len(b)
      <4> DEFINE la == Len(a)
                 lb == Len(b)
                 i2 == r[2]
                 i4 == r[4]
                 x1 == m.sx
                 x2 == m.ex
                 y1 == m.sy
                 y2 == m.ey
      <4>1. /\ la \in Nat /\ lb \in Nat /\ i2 \in Nat /\ i4 \in Nat /\ i2 <= la /\ i4 <= lb
            /\ x1 \in Nat /\ x2 \in Nat /\ y1 \in Nat /\ y2 \in Nat
            /\ x1 <= x2 /\ x2 <= i2 /\ y1 <= y2 /\ y2 <= i4
        BY <2>2, <3>1
      <4> HIDE DEF la, lb, i2, i4, x1, x2, y1, y2
      <4>2. x1 <= la /\ x2 <= la /\ y1 <= lb /\ y2 <= lb
        BY <4>1
      <4> QED  BY <4>2 DEF la, lb, x1, x2, y1, y2
    <3> QED  BY <1>2, <1>3, <2>2, <3>2
  <2>4. mu[r] = (r[2] - r[1]) + (r[4] - r[3]) /\ mu[before] = short(before) /\ mu[after] = short(after)
    BY <1>5, <2>3
  <2>5. m.ex > m.sx => short(before) < (r[2] - r[1]) + (r[4] - r[3]) /\ short(after) < (r[2] - r[1]) + (r[4] - r[3])
    <3>1. /\ before[1] = r[1] /\ before[2] = m.sx /\ before[3] = r[3] /\ before[4] = m.sy
          /\ after[1] = m.ex /\ after[2] = r[2] /\ after[3] = m.ey /\ after[4] = r[4]
      OBVIOUS
    <3> HIDE DEF before, after
    <3>2. /\ short(before) = IF m.sx <= r[1] \/ m.sy <= r[3] THEN 0 ELSE (m.sx - r[1]) + (m.sy - r[3])
          /\ short(after) = IF r[2] <= m.ex \/ r[4] <= m.ey THEN 0 ELSE (r[2] - m.ex) + (r[4] - m.ey)
      BY <3>1
    <3> HIDE DEF short
    <3> SUFFICES ASSUME m.ex > m.sx
                 PROVE  /\ short(before) < (r[2] - r[1]) + (r[4] - r[3])
                        /\ short(after) < (r[2] - r[1]) + (r[4] - r[3])
      OBVIOUS
    <3>3. /\ r[1] \in Nat /\ r[2] \in Nat /\ r[3] \in Nat /\ r[4] \in Nat /\ r[1] < r[2] /\ r[3] < r[4]
      BY <1>2, <1>5
    <3> DEFINE i1 == r[1]
               i2 == r[2]
               i3 == r[3]
               i4 == r[4]
               x1 == m.sx
               x2 == m.ex
               y1 == m.sy
               y2 == m.ey
    <3>4. /\ i1 \in Nat /\ i2 \in Nat /\ i3 \in Nat /\ i4 \in Nat /\ i1 < i2 /\ i3 < i4
          /\ x1 \in Nat /\ x2 \in Nat /\ y1 \in Nat /\ y2 \in Nat
          /\ i1 <= x1 /\ x1 < x2 /\ x2 <= i2 /\ i3 <= y1 /\ y1 <= y2 /\ y2 <= i4 /\ x2 - x1 = y2 - y1
      BY <2>2, <3>3
    <3>5. /\ short(before) = IF x1 <= i1 \/ y1 <= i3 THEN 0 ELSE (x1 - i1) + (y1 - i3)
          /\ short(after) = IF i2 <= x2 \/ i4 <= y2 THEN 0 ELSE (i2 - x2) + (i4 - y2)
      BY <3>2
    <3> HIDE DEF i1, i2, i3, i4, x1, x2, y1, y2
    <3>6. /\ (i2 - i1) + (i4 - i3) > 0
          /\ (x1 - i1) + (y1 - i3) < (i2 - i1) + (i4 - i3)
          /\ (i2 - x2) + (i4 - y2) < (i2 - i1) + (i4 - i3)
      BY <3>4
    <3>7. short(before) < (i2 - i1) + (i4 - i3) /\ short(after) < (i2 - i1) + (i4 - i3)
      BY <3>5, <3>6
    <3> QED  BY <3>7 DEF i1, i2, i3, i4
  <2> QED  BY <2>1, <2>2, <2>3, <2>4, <2>5 DEF m
<1> HIDE DEF mu, seg
<1>6. ASSUME NEW c \in Nat, NEW d \in Nat, NEW i \in Nat  PROVE Triple(c, d, i) \in Triples /\ <<Triple(c, d, i)>> \in Seq(Triples)
  BY DEF Triple, Triples
<1>7. ASSUME NEW f, NEW r \in D
      PROVE  /\ r[2] <= r[1] /\ r[4] > r[3] => body(f, r) = <<Triple(0, 0, r[4] - r[3])>>
             /\ r[2] <= r[1] /\ r[4] <= r[3] => body(f, r) = <<>>
             /\ ~(r[2] <= r[1]) /\ r[4] <= r[3] => body(f, r) = <<Triple(0, r[2] - r[1], 0)>>
             /\ ~(r[2] <= r[1]) /\ ~(r[4] <= r[3]) => body(f, r) = around(f, r, seg(r))
  <2>1. ~(r[2] <= r[1]) /\ ~(r[4] <= r[3]) => seg(r) \in Segment
    BY <1>5
  <2> HIDE DEF around
  <2>2. r[4] > r[3] <=> ~(r[4] <= r[3])
    BY <1>2
  <2> QED  BY <2>1, <2>2
<1> HIDE DEF body
<1>8. ASSUME NEW f \in [D -> Seq(Triples)], NEW r \in D  PROVE body(f, r) \in Seq(Triples)
  <2>1. CASE r[2] <= r[1] \/ r[4] <= r[3]
    <3>1. r[4] > r[3] <=> ~(r[4] <= r[3])
      BY <1>2
    <3>2. body(f, r) = <<>> \/ \E c, d, i \in Nat : body(f, r) = <<Triple(c, d, i)>>
      <4>1. /\ r[4] > r[3] => r[4] - r[3] \in Nat
            /\ ~(r[2] <= r[1]) => r[2] - r[1] \in Nat
            /\ 0 \in Nat
        BY <1>2
      <4> QED  BY <1>7, <2>1, <3>1, <4>1
    <3>3. <<>> \in Seq(Triples)
      OBVIOUS
    <3> HIDE DEF Triple
    <3> QED  BY <1>6, <3>2, <3>3
  <2>2. CASE ~(r[2] <= r[1]) /\ ~(r[4] <= r[3])
    <3> DEFINE m == seg(r)
    <3>1. /\ m \in Segment /\ <<r[1], m.sx, r[3], m.sy>> \in D /\ <<m.ex, r[2], m.ey, r[4]>> \in D
      BY <1>5, <2>2
    <3> HIDE DEF m
    <3>2. f[<<r[1], m.sx, r[3], m.sy>>] \in Seq(Triples) /\ f[<<m.ex, r[2], m.ey, r[4]>>] \in Seq(Triples)
      BY <3>1
    <3>3. m.ex > m.sx => m.ex - m.sx \in Nat
      BY <3>1 DEF Segment
    <3>4. r[2] - r[1] \in Nat /\ r[4] - r[3] \in Nat /\ 0 \in Nat
      BY <1>2, <2>2
    <3>5. m.ex > m.sx => <<Triple(m.ex - m.sx, 0, 0)>> \in Seq(Triples)
      BY <1>6, <3>3, <3>4
    <3>6. <<Triple(0, r[2] - r[1], r[4] - r[3])>> \in Seq(Triples)
      BY <1>6, <3>4
    <3>7. around(f, r, m) \in Seq(Triples)
      <4>1. CASE m.ex > m.sx
        <5>1. f[<<r[1], m.sx, r[3], m.sy>>] \o <<Triple(m.ex - m.sx, 0, 0)>> \in Seq(Triples)
          BY <3>2, <3>5, <4>1, ConcatProperties
        <5>2. (f[<<r[1], m.sx, r[3], m.sy>>] \o <<Triple(m.ex - m.sx, 0, 0)>>) \o f[<<m.ex, r[2], m.ey, r[4]>>] \in Seq(Triples)
          BY <3>2, <5>1, ConcatProperties
        <5> QED  BY <4>1, <5>2
      <4>2. CASE ~(m.ex > m.sx)
        BY <3>6, <4>2
      <4> QED  BY <4>1, <4>2
    <3> QED  BY <1>7, <2>2, <3>7 DEF m
  <2> QED  BY <2>1, <2>2
<1>9. \E f : f = [r \in D |-> body(f, r)]
  <2> DEFINE C == Seq(Triples)
             g == [f \in [D -> C] |-> [r \in D |-> body(f, r)]]
             start == [r \in D |-> <<>>]
  <2>1. start \in [D -> C]
    OBVIOUS
  <2>2. g \in [[D -> C] -> [D -> C]]
    BY <1>8
  <2>3. ASSUME NEW f \in [D -> C], NEW h \in [D -> C], NEW r \in D, \A y \in D : mu[y] < mu[r] => f[y] = h[y]
        PROVE  g[f][r] = g[h][r]
    <3>1. body(f, r) = body(h, r)
      <4>1. CASE r[2] <= r[1] \/ r[4] <= r[3]
        <5>1. r[4] > r[3] <=> ~(r[4] <= r[3])
          BY <1>2
        <5> QED  BY <1>7, <4>1, <5>1
      <4>2. CASE ~(r[2] <= r[1]) /\ ~(r[4] <= r[3])
        <5>1. body(f, r) = around(f, r, seg(r)) /\ body(h, r) = around(h, r, seg(r))
          BY <1>7, <4>2
        <5>2. seg(r).ex > seg(r).sx =>
                /\ f[<<r[1], seg(r).sx, r[3], seg(r).sy>>] = h[<<r[1], seg(r).sx, r[3], seg(r).sy>>]
                /\ f[<<seg(r).ex, r[2], seg(r).ey, r[4]>>] = h[<<seg(r).ex, r[2], seg(r).ey, r[4]>>]
          BY <1>5, <2>3, <4>2
        <5> QED  BY <5>1, <5>2
      <4> QED  BY <4>1, <4>2
    <3> QED  BY <3>1
  <2>4. \E f : Solves(f, g, D, C)
    <3> HIDE DEF g, C, start
    <3>1. Contracts(g, D, C, mu)
      BY <2>3 DEF Contracts
    <3> QED  BY <1>4, <2>1, <2>2, <3>1, Recursion
  <2> QED  BY <2>4 DEF Solves
<1>10. F = [r \in D |-> body(F, r)]
  BY <1>9
<1> HIDE DEF F
<1> DEFINE Right(r) == /\ F[r] \in Seq(Triples) /\ Raw(F[r])
                       /\ Leads(F[r], a, b, r[1], r[3], r[2], r[4])
           T == {r \in D : r[1] <= r[2] /\ r[3] <= r[4] => Right(r)}
<1>11. ASSUME NEW r \in D, \A y \in D : mu[y] < mu[r] => y \in T  PROVE r \in T
  <2> SUFFICES ASSUME r[1] <= r[2], r[3] <= r[4]  PROVE Right(r)
    OBVIOUS
  <2>1. F[r] = body(F, r)
    BY <1>10
  <2>2. ASSUME NEW d \in Nat, NEW i \in Nat, d + i > 0, r[2] = r[1] + d, r[4] = r[3] + i, F[r] = <<Triple(0, d, i)>>
        PROVE  Right(r)
    <3> DEFINE e == Triple(0, d, i)
    <3>1. e \in Triples /\ e.copy = 0 /\ e.del = d /\ e.ins = i
      BY <1>6 DEF Triple
    <3> HIDE DEF e
    <3>2. IsChange(e)
      BY <2>2, <3>1 DEF IsChange
    <3>3. Leads(<<e>>, a, b, r[1], r[3], r[1] + e.copy + e.del, r[3] + e.copy + e.ins)
      <4>1. r[1] \in Nat /\ r[3] \in Nat /\ \A t \in 1 .. e.copy : a[r[1] + t] = b[r[3] + t]
        BY <1>2, <3>1
      <4> QED  BY <3>1, <4>1, LeadsOne
    <3>4. r[1] + e.copy + e.del = r[2] /\ r[3] + e.copy + e.ins = r[4]
      BY <1>2, <2>2, <3>1
    <3>5. F[r] = <<e>>
      BY <2>2 DEF e
    <3> QED  BY <3>1, <3>2, <3>3, <3>4, <3>5, RawOne
  <2>3. CASE r[2] <= r[1] /\ r[4] <= r[3]
    <3>1. F[r] = <<>>
      BY <1>7, <2>1, <2>3
    <3>2. r[1] = r[2] /\ r[3] = r[4]
      BY <1>2, <2>3
    <3> QED  BY <1>2, <3>1, <3>2, LeadsNone, RawNone
  <2>4. CASE r[2] <= r[1] /\ ~(r[4] <= r[3])
    <3>1. r[4] > r[3] /\ r[4] - r[3] \in Nat /\ 0 + (r[4] - r[3]) > 0 /\ r[2] = r[1] + 0 /\ r[4] = r[3] + (r[4] - r[3])
      BY <1>2, <2>4
    <3>2. F[r] = <<Triple(0, 0, r[4] - r[3])>>
      BY <1>7, <2>1, <2>4, <3>1
    <3> QED  BY <2>2, <3>1, <3>2
  <2>5. CASE ~(r[2] <= r[1]) /\ r[4] <= r[3]
    <3>1. r[2] - r[1] \in Nat /\ (r[2] - r[1]) + 0 > 0 /\ r[2] = r[1] + (r[2] - r[1]) /\ r[4] = r[3] + 0
      BY <1>2, <2>5
    <3>2. F[r] = <<Triple(0, r[2] - r[1], 0)>>
      BY <1>7, <2>1, <2>5
    <3> QED  BY <2>2, <3>1, <3>2
  <2>6. CASE ~(r[2] <= r[1]) /\ ~(r[4] <= r[3])
    <3> DEFINE m == seg(r)
               before == <<r[1], m.sx, r[3], m.sy>>
               after == <<m.ex, r[2], m.ey, r[4]>>
               e == Triple(m.ex - m.sx, 0, 0)
    <3>1. /\ m \in Segment /\ Common(m, a, b, r[1], r[2], r[3], r[4])
          /\ before \in D /\ after \in D
          /\ m.ex > m.sx => mu[before] < mu[r] /\ mu[after] < mu[r]
      BY <1>5, <2>6
    <3>2. F[r] = IF m.ex > m.sx THEN F[before] \o <<e>> \o F[after] ELSE <<Triple(0, r[2] - r[1], r[4] - r[3])>>
      BY <1>7, <2>1, <2>6
    <3> HIDE DEF m
    <3>3. /\ m.sx \in Nat /\ m.ex \in Nat /\ m.sy \in Nat /\ m.ey \in Nat
          /\ r[1] <= m.sx /\ m.sx <= m.ex /\ m.ex <= r[2]
          /\ r[3] <= m.sy /\ m.sy <= m.ey /\ m.ey <= r[4]
          /\ m.ex - m.sx = m.ey - m.sy
          /\ \A t \in 1 .. m.ex - m.sx : a[m.sx + t] = b[m.sy + t]
      BY <3>1 DEF Common, Segment
    <3>4. CASE m.ex > m.sx
      <4>1. before[1] = r[1] /\ before[2] = m.sx /\ before[3] = r[3] /\ before[4] = m.sy
            /\ after[1] = m.ex /\ after[2] = r[2] /\ after[3] = m.ey /\ after[4] = r[4]
        OBVIOUS
      <4>2. before \in T /\ after \in T
        BY <1>11, <3>1, <3>4
      <4> HIDE DEF before, after
      <4>3. Right(before) /\ Right(after)
        BY <3>3, <4>1, <4>2
      <4>4. m.ex - m.sx \in Nat /\ m.ex - m.sx > 0
        BY <3>3, <3>4
      <4>5. e \in Triples /\ e.copy = m.ex - m.sx /\ e.del = 0 /\ e.ins = 0
        BY <1>6, <4>4 DEF Triple
      <4> HIDE DEF e
      <4>6. IsCopy(e)
        BY <4>4, <4>5 DEF IsCopy
      <4>7. Leads(<<e>>, a, b, m.sx, m.sy, m.ex, m.ey)
        <5>1. Leads(<<e>>, a, b, m.sx, m.sy, m.sx + e.copy + e.del, m.sy + e.copy + e.ins)
          BY <3>3, <4>5, LeadsOne
        <5>2. m.sx + e.copy + e.del = m.ex /\ m.sy + e.copy + e.ins = m.ey
          BY <3>3, <4>5
        <5> QED  BY <5>1, <5>2
      <4>8. <<e>> \in Seq(Triples) /\ Raw(<<e>>)
        BY <4>5, <4>6, RawOne
      <4> DEFINE x == F[before]
                 y == F[after]
      <4>9. /\ x \in Seq(Triples) /\ Raw(x) /\ Leads(x, a, b, r[1], r[3], m.sx, m.sy)
            /\ y \in Seq(Triples) /\ Raw(y) /\ Leads(y, a, b, m.ex, m.ey, r[2], r[4])
        BY <4>1, <4>3
      <4> HIDE DEF x, y
      <4>10. /\ x \o <<e>> \in Seq(Triples) /\ Raw(x \o <<e>>) /\ Leads(x \o <<e>>, a, b, r[1], r[3], m.ex, m.ey)
             /\ x \o <<e>> # <<>> /\ IsCopy((x \o <<e>>)[Len(x \o <<e>>)])
        <5>1. <<e>>[1] = e /\ Len(<<e>>) = 1
          OBVIOUS
        <5>2. x \o <<e>> \in Seq(Triples) /\ Raw(x \o <<e>>)
          BY <4>6, <4>8, <4>9, <5>1, RawConcat
        <5>3. Leads(x \o <<e>>, a, b, r[1], r[3], m.ex, m.ey)
          BY <4>7, <4>8, <4>9, LeadsConcat
        <5>4. Len(x \o <<e>>) = Len(x) + 1 /\ Len(x) \in Nat /\ (x \o <<e>>)[Len(x) + 1] = <<e>>[1]
          <6>1. /\ Len(x \o <<e>>) = Len(x) + 1 /\ Len(x) \in Nat
                /\ \A k \in 1 .. Len(x) + 1 : (x \o <<e>>)[k] = IF k <= Len(x) THEN x[k] ELSE <<e>>[k - Len(x)]
            BY <4>8, <4>9, <5>1, ConcatProperties, LenProperties
          <6>2. Len(x) + 1 \in 1 .. Len(x) + 1 /\ ~(Len(x) + 1 <= Len(x)) /\ (Len(x) + 1) - Len(x) = 1
            BY <6>1
          <6> QED  BY <6>1, <6>2
        <5> QED  BY <4>6, <5>1, <5>2, <5>3, <5>4, EmptySeq
      <4>11. /\ (x \o <<e>>) \o y \in Seq(Triples) /\ Raw((x \o <<e>>) \o y)
             /\ Leads((x \o <<e>>) \o y, a, b, r[1], r[3], r[2], r[4])
        BY <4>9, <4>10, RawConcat, LeadsConcat
      <4>12. F[r] = (x \o <<e>>) \o y
        BY <3>2, <3>4 DEF x, y
      <4> QED  BY <4>11, <4>12
    <3>5. CASE ~(m.ex > m.sx)
      <4>1. r[2] - r[1] \in Nat /\ r[4] - r[3] \in Nat /\ (r[2] - r[1]) + (r[4] - r[3]) > 0
            /\ r[2] = r[1] + (r[2] - r[1]) /\ r[4] = r[3] + (r[4] - r[3])
        BY <1>2, <2>6
      <4>2. F[r] = <<Triple(0, r[2] - r[1], r[4] - r[3])>>
        BY <3>2, <3>5
      <4> QED  BY <2>2, <4>1, <4>2
    <3> QED  BY <3>4, <3>5
  <2> QED  BY <2>3, <2>4, <2>5, <2>6
<1>12. D \subseteq T
  <2> HIDE DEF T
  <2> QED  BY <1>4, <1>11, MeasureInduction
<1>13. q \in T
  BY <1>12 DEF D
<1> QED  BY <1>1, <1>13

-----------------------------------------------------------------------------
(* Joining edits.                                                          *)

\* There is no empty edit, and only the first may copy nothing.
Normal(c) ==
  /\ \A k \in 1 .. Len(c) : c[k].copy + c[k].del + c[k].ins > 0
  /\ \A k \in 2 .. Len(c) : c[k].copy > 0

Open(c) == c = <<>> \/ (c[Len(c)].del = 0 /\ c[Len(c)].ins = 0)

\* An edit appended, or joined with the last one, leaves edits.
LEMMA AppendType ==
  ASSUME NEW c \in Seq(Triples), NEW e \in Triples
  PROVE  AppendTriple(c, e) \in Seq(Triples)
<1> DEFINE n == Len(c)
           f1 == [copy |-> c[n].copy + e.copy, del |-> e.del, ins |-> e.ins]
           f2 == [copy |-> c[n].copy, del |-> c[n].del + e.del, ins |-> c[n].ins + e.ins]
<1>1. n \in Nat /\ (n > 0 => n \in 1 .. n /\ c[n] \in Triples)
  BY LenProperties, ElementOfSeq
<1>2. Append(c, e) \in Seq(Triples)
  BY AppendProperties
<1>3. ASSUME NEW f \in Triples, n > 0  PROVE [c EXCEPT ![n] = f] \in Seq(Triples)
  BY <1>1, <1>3, ExceptSeq
<1>4. n > 0 => f1 \in Triples /\ f2 \in Triples
  BY <1>1 DEF Triples
<1> HIDE DEF f1, f2
<1>5. AppendTriple(c, e) = IF n > 0 /\ c[n].ins = 0 /\ c[n].del = 0 THEN [c EXCEPT ![n] = f1]
                           ELSE IF n > 0 /\ e.copy = 0 /\ (c[n].ins = 0 \/ e.del = 0) THEN [c EXCEPT ![n] = f2]
                           ELSE Append(c, e)
  BY DEF AppendTriple, f1, f2
<1> HIDE DEF n
<1> QED  BY <1>2, <1>3, <1>4, <1>5

\* AppendTriple leads where the edit led, and joins no change to a change before it.
LEMMA AppendFacts ==
  ASSUME NEW a, NEW b, NEW c \in Seq(Triples), NEW e \in Triples, NEW p, NEW m, NEW pp, NEW mm,
         Normal(c), Leads(c, a, b, 0, 0, p, m), Leads(<<e>>, a, b, p, m, pp, mm),
         IsCopy(e) \/ (IsChange(e) /\ Open(c))
  PROVE  LET d == AppendTriple(c, e)
         IN  /\ d \in Seq(Triples) /\ Normal(d) /\ Leads(d, a, b, 0, 0, pp, mm)
             /\ IsCopy(e) => Open(d)
<1> DEFINE n == Len(c)
           d == AppendTriple(c, e)
<1>1. n \in Nat /\ (n > 0 => n \in 1 .. n /\ c[n] \in Triples) /\ (n = 0 => c = <<>>) /\ (n > 0 => c # <<>>)
  BY LenProperties, ElementOfSeq, EmptySeq
<1>2. e.copy \in Nat /\ e.del \in Nat /\ e.ins \in Nat /\ e.copy + e.del + e.ins > 0 /\ <<e>> \in Seq(Triples)
  BY DEF Triples, IsCopy, IsChange
<1>3. CASE n > 0 /\ c[n].ins = 0 /\ c[n].del = 0
  <2> DEFINE f == [copy |-> c[n].copy + e.copy, del |-> e.del, ins |-> e.ins]
             front == SubSeq(c, 1, n - 1)
  <2>1. d = [c EXCEPT ![n] = f]
    BY <1>3 DEF AppendTriple
  <2>2. c[n].copy \in Nat /\ c[n].copy > 0
    <3>1. c[n].copy \in Nat /\ c[n].copy + c[n].del + c[n].ins > 0
      BY <1>1, <1>3 DEF Triples, Normal
    <3> QED  BY <1>3, <3>1
  <2>3. f \in Triples /\ f.copy = c[n].copy + e.copy /\ f.del = e.del /\ f.ins = e.ins /\ f.copy > 0
    <3> DEFINE v == c[n].copy + e.copy
               w == e.del
               z == e.ins
    <3>1. v \in Nat /\ v > 0 /\ w \in Nat /\ z \in Nat
      BY <1>2, <2>2
    <3> HIDE DEF v, w, z
    <3>2. [copy |-> v, del |-> w, ins |-> z] \in Triples
      BY <3>1 DEF Triples
    <3> QED  BY <3>1, <3>2 DEF v, w, z
  <2> HIDE DEF f
  <2>4. /\ d \in Seq(Triples) /\ Len(d) = n /\ \A k \in 1 .. n : d[k] = IF k = n THEN f ELSE c[k]
    BY <1>1, <1>3, <2>1, <2>3, ExceptSeq
  <2>5. PICK q, i : Leads(front, a, b, 0, 0, q, i) /\ Leads(<<c[n]>>, a, b, q, i, p, m)
    BY <1>1, <1>3, LeadsLast
  <2>6. Leads(<<f>>, a, b, q, i, pp, mm)
    <3>1. PICK x \in Nat : x = c[n].copy
      BY <2>2
    <3>2. /\ q \in Nat /\ i \in Nat /\ p = q + x /\ m = i + x
          /\ \A t \in 1 .. x : a[q + t] = b[i + t]
      <4>1. /\ q \in Nat /\ i \in Nat /\ p = q + c[n].copy + c[n].del /\ m = i + c[n].copy + c[n].ins
            /\ \A t \in 1 .. c[n].copy : a[q + t] = b[i + t]
        BY <1>1, <1>3, <2>5, LeadsOneOnly
      <4> QED  BY <1>3, <3>1, <4>1
    <3>3. /\ p \in Nat /\ m \in Nat /\ pp = p + e.copy + e.del /\ mm = m + e.copy + e.ins
          /\ \A t \in 1 .. e.copy : a[p + t] = b[m + t]
      BY LeadsOneOnly
    <3>4. f.copy = x + e.copy
      BY <2>3, <3>1
    <3>5. ASSUME NEW t \in 1 .. f.copy  PROVE a[q + t] = b[i + t]
      <4>1. CASE t <= x
        BY <3>2, <4>1
      <4>2. CASE t > x
        <5>1. t - x \in 1 .. e.copy /\ p + (t - x) = q + t /\ m + (t - x) = i + t
          <6>1. t \in Nat /\ t <= x + e.copy
            BY <1>2, <3>4
          <6> QED  BY <1>2, <3>2, <3>3, <4>2, <6>1, Beyond
        <5>2. a[p + (t - x)] = b[m + (t - x)]
          BY <3>3, <5>1
        <5> QED  BY <5>1, <5>2
      <4> QED  BY <4>1, <4>2
    <3>6. pp = q + f.copy + f.del /\ mm = i + f.copy + f.ins
      <4>1. f.del = e.del /\ f.ins = e.ins
        BY <2>3
      <4>2. pp = (q + x) + e.copy + e.del /\ mm = (i + x) + e.copy + e.ins
        BY <3>2, <3>3
      <4> QED  BY <1>2, <3>2, <3>4, <4>1, <4>2
    <3> QED  BY <2>3, <3>2, <3>5, <3>6, LeadsOne
  <2>7. front \in Seq(Triples) /\ Len(front) = n - 1 /\ \A k \in 1 .. n - 1 : front[k] = c[k]
    <3>1. \A k \in 1 .. n - 1 : c[k] \in Triples
      BY <1>1, ElementOfSeq
    <3> HIDE DEF n
    <3> QED  BY <1>1, <1>3, <3>1, SubSeqProperties
  <2> HIDE DEF front, n, d
  <2>8. d = front \o <<f>>
    <3>1. <<f>> \in Seq(Triples) /\ Len(<<f>>) = 1 /\ <<f>>[1] = f
      BY <2>3
    <3>2. /\ front \o <<f>> \in Seq(Triples) /\ Len(front \o <<f>>) = Len(front) + Len(<<f>>)
          /\ \A k \in 1 .. Len(front) + Len(<<f>>) :
               (front \o <<f>>)[k] = IF k <= Len(front) THEN front[k] ELSE <<f>>[k - Len(front)]
      BY <2>7, <3>1, ConcatProperties
    <3>3. Len(front) + Len(<<f>>) = n
      BY <1>1, <2>7, <3>1
    <3>4. ASSUME NEW k \in 1 .. n  PROVE d[k] = (front \o <<f>>)[k]
      <4>1. CASE k = n
        <5>1. ~(k <= Len(front)) /\ k - Len(front) = 1
          BY <1>1, <2>7, <4>1
        <5> QED  BY <2>4, <3>1, <3>2, <3>3, <4>1, <5>1
      <4>2. CASE k # n
        <5>1. k \in 1 .. n - 1 /\ k <= Len(front)
          BY <1>1, <2>7, <4>2
        <5> QED  BY <2>4, <2>7, <3>2, <3>3, <4>2, <5>1
      <4> QED  BY <4>1, <4>2
    <3> QED  BY <2>4, <3>2, <3>3, <3>4, SeqEqual
  <2>9. Leads(d, a, b, 0, 0, pp, mm)
    <3>1. <<f>> \in Seq(Triples)
      BY <2>3
    <3> QED  BY <2>5, <2>6, <2>7, <2>8, <3>1, LeadsConcat
  <2>10. Normal(d)
    <3>1. ASSUME NEW k \in 1 .. n  PROVE d[k].copy + d[k].del + d[k].ins > 0
      <4>1. f.copy \in Nat /\ f.del \in Nat /\ f.ins \in Nat
        BY <2>3 DEF Triples
      <4> QED  BY <2>3, <2>4, <4>1 DEF Normal, n
    <3>2. ASSUME NEW k \in 2 .. n  PROVE d[k].copy > 0
      <4>1. k \in 1 .. n
        BY <1>1
      <4> QED  BY <2>3, <2>4, <4>1 DEF Normal, n
    <3> QED  BY <2>4, <3>1, <3>2 DEF Normal
  <2>11. IsCopy(e) => Open(d)
    <3>1. n \in 1 .. n
      BY <1>1, <1>3
    <3> QED  BY <2>3, <2>4, <3>1 DEF Open, IsCopy
  <2> QED  BY <2>4, <2>9, <2>10, <2>11 DEF d
<1>4. CASE ~(n > 0 /\ c[n].ins = 0 /\ c[n].del = 0)
  <2>1. n = 0 \/ IsCopy(e)
    BY <1>1, <1>4 DEF Open
  <2>2. ~(n > 0 /\ e.copy = 0)
    BY <1>1, <1>2, <2>1 DEF IsCopy
  <2>3. d = Append(c, e)
    BY <1>4, <2>2 DEF AppendTriple
  <2>4. d = c \o <<e>>
    BY <2>3, AppendIsConcat
  <2> HIDE DEF n, d
  <2>5. /\ d \in Seq(Triples) /\ Len(d) = n + 1 /\ d[n + 1] = e /\ \A k \in 1 .. n : d[k] = c[k]
    BY <2>3, AppendProperties DEF n
  <2>6. Leads(d, a, b, 0, 0, pp, mm)
    BY <1>2, <2>4, LeadsConcat
  <2>7. Normal(d)
    <3>1. ASSUME NEW k \in 1 .. n + 1  PROVE d[k].copy + d[k].del + d[k].ins > 0
      <4>1. k = n + 1 \/ k \in 1 .. n
        BY <1>1
      <4> QED  BY <1>2, <2>5, <4>1 DEF Normal, n
    <3>2. ASSUME NEW k \in 2 .. n + 1  PROVE d[k].copy > 0
      <4>1. CASE k = n + 1
        BY <1>1, <2>1, <2>5, <4>1 DEF IsCopy
      <4>2. CASE k # n + 1
        <5>1. k \in 2 .. n /\ k \in 1 .. n
          BY <1>1, <4>2
        <5> QED  BY <2>5, <5>1 DEF Normal, n
      <4> QED  BY <4>1, <4>2
    <3> QED  BY <2>5, <3>1, <3>2 DEF Normal
  <2>8. IsCopy(e) => Open(d)
    BY <2>5 DEF Open, IsCopy
  <2> QED  BY <2>5, <2>6, <2>7, <2>8 DEF d
<1> QED  BY <1>3, <1>4

\* The fold of the edits goes from the first to the last.
LEMMA FoldFacts ==
  ASSUME NEW t \in Seq(Triples)
  PROVE  \E G \in [0 .. Len(t) -> Seq(Triples)] :
           /\ G[0] = <<>> /\ \A k \in 1 .. Len(t) : G[k] = AppendTriple(G[k - 1], t[k])
           /\ FoldLeft(AppendTriple, <<>>, t) = G[Len(t)]
<1> DEFINE n == Len(t)
           D == SUBSET (1 .. n)
           C == Seq(Triples)
           body(f, s) == IF s = {} THEN <<>> ELSE AppendTriple(f[s \ {Max(s)}], t[Max(s)])
           mu == [s \in D |-> Cardinality(s)]
           start == [s \in D |-> <<>>]
           g == [f \in [D -> C] |-> [s \in D |-> body(f, s)]]
           iter == CHOOSE f : f = [s \in D |-> body(f, s)]
           G == [k \in 0 .. n |-> iter[1 .. k]]
<1>1. n \in Nat /\ DOMAIN t = 1 .. n /\ \A k \in 1 .. n : t[k] \in Triples
  BY LenProperties, ElementOfSeq
<1>2. FoldLeft(AppendTriple, <<>>, t) = iter[1 .. n]
  BY <1>1 DEF FoldLeft, MapThenFoldSet
<1> HIDE DEF n
<1>3. ASSUME NEW s \in D
      PROVE  IsFiniteSet(s) /\ Cardinality(s) \in Nat /\
             (s # {} => Max(s) \in s /\ s \ {Max(s)} \in D /\ Cardinality(s \ {Max(s)}) < Cardinality(s))
  <2>1. IsFiniteSet(s) /\ Cardinality(s) \in Nat
    <3>1. IsFiniteSet(1 .. n)
      BY <1>1, FS_Interval
    <3> QED  BY <3>1, FS_Subset, FS_CardinalityType
  <2>2. s \in SUBSET Nat /\ \A y \in s : y <= n
    BY <1>1
  <2>3. s # {} => Max(s) \in s
    BY <1>1, <2>2, MaxOf
  <2>4. s # {} => Cardinality(s \ {Max(s)}) = Cardinality(s) - 1
    BY <2>1, <2>3, FS_RemoveElement
  <2>5. \A x : s \ {x} \in D
    OBVIOUS
  <2>6. Cardinality(s) - 1 < Cardinality(s)
    BY <2>1
  <2> HIDE DEF D
  <2> QED  BY <2>1, <2>3, <2>4, <2>5, <2>6
<1> HIDE DEF D
<1>4. mu \in [D -> Nat] /\ start \in [D -> C]
  <2>1. \A s \in D : Cardinality(s) \in Nat
    BY <1>3
  <2>2. <<>> \in C
    OBVIOUS
  <2> HIDE DEF C
  <2> QED  BY <2>1, <2>2
<1>5. \A f \in [D -> C], s \in D : body(f, s) \in C
  <2> TAKE f \in [D -> C], s \in D
  <2>1. CASE s = {}
    BY <2>1
  <2>2. CASE s # {}
    <3>1. f[s \ {Max(s)}] \in C /\ t[Max(s)] \in Triples
      BY <1>1, <1>3, <2>2 DEF D
    <3> QED  BY <2>2, <3>1, AppendType
  <2> QED  BY <2>1, <2>2
<1>6. g \in [[D -> C] -> [D -> C]]
  <2> HIDE DEF body, C
  <2> QED  BY <1>5
<1>7. ASSUME NEW f \in [D -> C], NEW h \in [D -> C], NEW s \in D, \A y \in D : mu[y] < mu[s] => f[y] = h[y]
      PROVE  g[f][s] = g[h][s]
  <2> HIDE DEF C
  <2>1. s # {} => f[s \ {Max(s)}] = h[s \ {Max(s)}]
    BY <1>3, <1>7
  <2> QED  BY <2>1
<1>8. \E f : Solves(f, g, D, C)
  <2> HIDE DEF g, C, start, mu
  <2>1. Contracts(g, D, C, mu)
    BY <1>7 DEF Contracts
  <2> QED  BY <1>4, <1>6, <2>1, Recursion
<1>9. iter = [s \in D |-> body(iter, s)]
  <2>1. \E f : f = [s \in D |-> body(f, s)]
    BY <1>8 DEF Solves
  <2> HIDE DEF body
  <2> QED  BY <2>1
<1> HIDE DEF iter
<1>10. G[0] = <<>>
  <2>1. 0 \in 0 .. n /\ 1 .. 0 = {} /\ {} \in D
    BY <1>1 DEF D
  <2>2. iter[{}] = body(iter, {})
    BY <1>9, <2>1
  <2> QED  BY <2>1, <2>2
<1>11. ASSUME NEW k \in 1 .. n  PROVE G[k] = AppendTriple(G[k - 1], t[k])
  <2>1. k \in 0 .. n /\ k - 1 \in 0 .. n /\ 1 .. k \in D /\ 1 .. k # {} /\ (1 .. k) \ {k} = 1 .. (k - 1)
    <3>1. k \in Nat /\ 1 <= k /\ k <= n
      BY <1>1
    <3>2. k \in 0 .. n /\ k - 1 \in 0 .. n /\ k \in 1 .. k
      BY <1>1, <3>1
    <3>3. (1 .. k) \ {k} = 1 .. (k - 1)
      BY <3>1
    <3>4. 1 .. k \subseteq 1 .. n
      BY <1>1, <3>1
    <3> QED  BY <3>2, <3>3, <3>4 DEF D
  <2>2. Max(1 .. k) = k
    <3>1. k \in Nat /\ 1 .. k \in SUBSET Nat /\ 1 .. k # {} /\ k \in 1 .. k /\ \A y \in 1 .. k : y <= k
      OBVIOUS
    <3>2. Max(1 .. k) \in 1 .. k /\ \A y \in 1 .. k : Max(1 .. k) >= y
      BY <3>1, MaxOf
    <3>3. Max(1 .. k) \in Nat /\ Max(1 .. k) <= k /\ Max(1 .. k) >= k
      BY <3>1, <3>2
    <3> QED  BY <3>1, <3>3
  <2>3. iter[1 .. k] = body(iter, 1 .. k)
    <3> HIDE DEF body
    <3> QED  BY <1>9, <2>1
  <2>4. body(iter, 1 .. k) = AppendTriple(iter[(1 .. k) \ {k}], t[k])
    BY <2>1, <2>2
  <2>5. G[k] = iter[1 .. k] /\ G[k - 1] = iter[1 .. (k - 1)]
    BY <2>1
  <2> QED  BY <2>1, <2>3, <2>4, <2>5
<1> HIDE DEF G
<1>12. \A k \in 0 .. n : G[k] \in Seq(Triples)
  <2> DEFINE T == {k \in Nat : k <= n => G[k] \in Seq(Triples)}
  <2>1. 0 \in T
    <3>1. <<>> \in Seq(Triples)
      OBVIOUS
    <3> QED  BY <1>10, <3>1
  <2>2. ASSUME NEW k \in T  PROVE k + 1 \in T
    <3>1. ASSUME k + 1 <= n  PROVE G[k + 1] \in Seq(Triples)
      <4>1. k + 1 \in 1 .. n /\ (k + 1) - 1 = k /\ k <= n /\ t[k + 1] \in Triples
        BY <1>1, <3>1
      <4>2. G[k + 1] = AppendTriple(G[k], t[k + 1])
        BY <1>11, <4>1
      <4>3. G[k] \in Seq(Triples)
        BY <4>1
      <4> QED  BY <4>1, <4>2, <4>3, AppendType
    <3> QED  BY <3>1
  <2>3. T = Nat
    <3>1. T \in SUBSET Nat
      OBVIOUS
    <3> HIDE DEF T
    <3> QED  BY <2>1, <2>2, <3>1, SetInduction
  <2> QED  BY <1>1, <2>3
<1>13. G \in [0 .. n -> Seq(Triples)] /\ G[n] = iter[1 .. n]
  <2>1. n \in 0 .. n
    BY <1>1
  <2>2. \A k \in 0 .. n : G[k] = iter[1 .. k]
    BY DEF G
  <2>3. G = [k \in 0 .. n |-> G[k]]
    BY DEF G
  <2> HIDE DEF G
  <2> QED  BY <1>12, <2>1, <2>2, <2>3
<1> QED  BY <1>2, <1>10, <1>11, <1>13 DEF n

\* Joined, the edits lead where they did one by one.
LEMMA JoinFacts ==
  ASSUME NEW a, NEW b, NEW t \in Seq(Triples), NEW p, NEW m, Raw(t), Leads(t, a, b, 0, 0, p, m)
  PROVE  LET d == FoldLeft(AppendTriple, <<>>, t)
         IN  d \in Seq(Triples) /\ Normal(d) /\ Leads(d, a, b, 0, 0, p, m)
<1> DEFINE n == Len(t)
<1>1. PICK G \in [0 .. n -> Seq(Triples)] :
        /\ G[0] = <<>> /\ \A k \in 1 .. n : G[k] = AppendTriple(G[k - 1], t[k])
        /\ FoldLeft(AppendTriple, <<>>, t) = G[n]
  BY FoldFacts
<1>2. PICK R, S : Path(t, R, S, a, b) /\ R[0] = 0 /\ S[0] = 0 /\ R[n] = p /\ S[n] = m
  BY DEF Leads
<1>3. n \in Nat /\ \A k \in 1 .. n : t[k] \in Triples
  BY LenProperties, ElementOfSeq
<1>4. /\ R \in [0 .. n -> Nat] /\ S \in [0 .. n -> Nat]
      /\ \A k \in 1 .. n :
           /\ R[k] = R[k - 1] + t[k].copy + t[k].del /\ S[k] = S[k - 1] + t[k].copy + t[k].ins
           /\ \A i \in 1 .. t[k].copy : a[R[k - 1] + i] = b[S[k - 1] + i]
  BY <1>2 DEF Path
<1>5. /\ \A k \in 1 .. n : IsCopy(t[k]) \/ IsChange(t[k])
      /\ \A k \in 2 .. n : IsCopy(t[k]) \/ IsCopy(t[k - 1])
  BY DEF Raw
<1> HIDE DEF n
<1> DEFINE Joined(k) == /\ Normal(G[k]) /\ Leads(G[k], a, b, 0, 0, R[k], S[k])
                        /\ (k > 0 /\ IsCopy(t[k])) => Open(G[k])
           T == {k \in Nat : k <= n => Joined(k)}
<1>6. 0 \in T
  <2>1. Normal(<<>>)
    BY DEF Normal
  <2>2. Leads(<<>>, a, b, 0, 0, 0, 0)
    BY LeadsNone
  <2> QED  BY <1>1, <1>2, <2>1, <2>2
<1>7. ASSUME NEW k \in T  PROVE k + 1 \in T
  <2> SUFFICES ASSUME k + 1 <= n  PROVE Joined(k + 1)
    OBVIOUS
  <2>1. k + 1 \in 1 .. n /\ (k + 1) - 1 = k /\ k \in 0 .. n /\ k \in Nat /\ k <= n
    BY <1>3
  <2>2. Joined(k)
    BY <2>1
  <2> HIDE DEF T
  <2>3. t[k + 1] \in Triples /\ G[k] \in Seq(Triples) /\ G[k + 1] = AppendTriple(G[k], t[k + 1])
    <3>1. G[k + 1] = AppendTriple(G[(k + 1) - 1], t[k + 1])
      BY <1>1, <2>1
    <3> QED  BY <1>1, <1>3, <2>1, <3>1
  <2>4. Leads(<<t[k + 1]>>, a, b, R[k], S[k], R[k + 1], S[k + 1])
    <3>1. R[k] \in Nat /\ S[k] \in Nat
      BY <1>4, <2>1
    <3>2. /\ R[k + 1] = R[k] + t[k + 1].copy + t[k + 1].del /\ S[k + 1] = S[k] + t[k + 1].copy + t[k + 1].ins
          /\ \A i \in 1 .. t[k + 1].copy : a[R[k] + i] = b[S[k] + i]
      <4> DEFINE l == k + 1
      <4>1. l \in 1 .. n /\ l - 1 = k
        BY <2>1
      <4> HIDE DEF l
      <4>2. /\ R[l] = R[k] + t[l].copy + t[l].del /\ S[l] = S[k] + t[l].copy + t[l].ins
            /\ \A i \in 1 .. t[l].copy : a[R[k] + i] = b[S[k] + i]
        BY <1>4, <4>1
      <4> QED  BY <4>2 DEF l
    <3> QED  BY <2>3, <3>1, <3>2, LeadsOne
  <2>5. IsCopy(t[k + 1]) \/ (IsChange(t[k + 1]) /\ Open(G[k]))
    <3>1. CASE k = 0
      BY <1>1, <1>5, <2>1, <3>1 DEF Open
    <3>2. CASE k > 0
      <4>1. k + 1 \in 2 .. n
        BY <2>1, <3>2
      <4>2. IsCopy(t[k + 1]) \/ IsCopy(t[(k + 1) - 1])
        BY <1>5, <4>1
      <4> QED  BY <1>5, <2>1, <2>2, <3>2, <4>2
    <3> QED  BY <2>1, <3>1, <3>2
  <2> QED  BY <2>2, <2>3, <2>4, <2>5, AppendFacts
<1>8. T = Nat
  <2>1. T \in SUBSET Nat
    OBVIOUS
  <2> HIDE DEF T
  <2> QED  BY <1>6, <1>7, <2>1, SetInduction
<1>9. Normal(G[n]) /\ Leads(G[n], a, b, 0, 0, R[n], S[n])
  <2>1. n \in T
    BY <1>3, <1>8
  <2> QED  BY <1>3, <2>1
<1>10. G[n] \in Seq(Triples)
  BY <1>1, <1>3
<1> QED  BY <1>1, <1>2, <1>9, <1>10

\* The edits that diff_by_lines finds lead from the one text to the other, are
\* not empty, and none but the first begins without lines that are the same.
LEMMA TextDiffFacts ==
  ASSUME NEW L, NEW a \in Seq(L), NEW b \in Seq(L)
  PROVE  LET d == TextDiff(a, b)
         IN  d \in Seq(Triples) /\ Normal(d) /\ Leads(d, a, b, 0, 0, Len(a), Len(b))
<1> DEFINE foot == AgreeBack(a, b, Len(a), Len(b), 0, 0)
           head == AgreeFrom(a, b, 0, 0, Len(a) - foot, Len(b) - foot)
           Same(n) == IF n > 0 THEN <<Triple(n, 0, 0)>> ELSE <<>>
           q == <<head, Len(a) - foot, head, Len(b) - foot>>
           mid == DiffStep(a, b)[q]
           all == (Same(head) \o mid) \o Same(foot)
<1>1. TextDiff(a, b) = FoldLeft(AppendTriple, <<>>, all)
  BY DEF TextDiff
<1>2. Len(a) \in Nat /\ Len(b) \in Nat
  BY LenProperties
<1>3. /\ foot \in Nat /\ foot <= Len(a) /\ foot <= Len(b)
      /\ \A t \in 0 .. foot - 1 : a[Len(a) - t] = b[Len(b) - t]
  <2>1. /\ foot \in Nat /\ foot <= Len(a) - 0 /\ foot <= Len(b) - 0
        /\ \A t \in 0 .. foot - 1 : a[Len(a) - t] = b[Len(b) - t]
    BY <1>2, AgreeBackFacts
  <2> HIDE DEF foot
  <2> QED  BY <1>2, <2>1
<1> HIDE DEF foot
<1>4. /\ head \in Nat /\ head <= Len(a) - foot /\ head <= Len(b) - foot
      /\ \A t \in 1 .. head : a[t] = b[t]
  <2>1. Len(a) - foot \in Int /\ Len(b) - foot \in Int /\ 0 <= Len(a) - foot /\ 0 <= Len(b) - foot
    BY <1>2, <1>3
  <2>2. /\ head \in Nat /\ head <= (Len(a) - foot) - 0 /\ head <= (Len(b) - foot) - 0
        /\ \A t \in 1 .. head : a[0 + t] = b[0 + t]
    BY <2>1, AgreeFromFacts
  <2> HIDE DEF head
  <2> QED  BY <1>2, <1>3, <2>2
<1> HIDE DEF head
<1>5. /\ q \in Quads(a, b) /\ q[1] = head /\ q[2] = Len(a) - foot /\ q[3] = head /\ q[4] = Len(b) - foot
      /\ q[1] <= q[2] /\ q[3] <= q[4]
  BY <1>2, <1>3, <1>4 DEF Quads
<1>6. /\ mid \in Seq(Triples) /\ Raw(mid)
      /\ Leads(mid, a, b, head, head, Len(a) - foot, Len(b) - foot)
  <2>1. mid \in Seq(Triples) /\ Raw(mid) /\ Leads(mid, a, b, q[1], q[3], q[2], q[4])
    <3> HIDE DEF q
    <3> QED  BY <1>5, DiffFacts
  <2> QED  BY <1>5, <2>1
<1> HIDE DEF mid
<1>7. ASSUME NEW n \in Nat
      PROVE  Same(n) \in Seq(Triples) /\ Raw(Same(n)) /\ (Same(n) # <<>> => IsCopy(Same(n)[1]) /\ IsCopy(Same(n)[Len(Same(n))]))
  <2>1. CASE n > 0
    <3> DEFINE e == Triple(n, 0, 0)
    <3>1. e \in Triples /\ IsCopy(e)
      BY <2>1 DEF Triple, Triples, IsCopy
    <3>2. Same(n) = <<e>>
      BY <2>1
    <3> HIDE DEF e
    <3>3. <<e>>[1] = e /\ Len(<<e>>) = 1
      OBVIOUS
    <3> QED  BY <3>1, <3>2, <3>3, RawOne
  <2>2. CASE ~(n > 0)
    BY <2>2, RawNone
  <2> QED  BY <2>1, <2>2
<1>8. ASSUME NEW n \in Nat, NEW p \in Nat, NEW m \in Nat, \A t \in 1 .. n : a[p + t] = b[m + t]
      PROVE  Leads(Same(n), a, b, p, m, p + n, m + n)
  <2>1. CASE n > 0
    <3> DEFINE e == Triple(n, 0, 0)
    <3>1. e \in Triples /\ e.copy = n /\ e.del = 0 /\ e.ins = 0
      BY DEF Triple, Triples
    <3>2. Same(n) = <<e>>
      BY <2>1
    <3> HIDE DEF e
    <3>3. Leads(<<e>>, a, b, p, m, p + e.copy + e.del, m + e.copy + e.ins)
      BY <1>8, <3>1, LeadsOne
    <3>4. p + e.copy + e.del = p + n /\ m + e.copy + e.ins = m + n
      BY <3>1
    <3> QED  BY <3>2, <3>3, <3>4
  <2>2. CASE ~(n > 0)
    <3>1. p + n = p /\ m + n = m /\ Same(n) = <<>>
      BY <2>2
    <3> HIDE DEF Same
    <3> QED  BY <3>1, LeadsNone
  <2> QED  BY <2>1, <2>2
<1> HIDE DEF Same
<1>9. Leads(Same(head), a, b, 0, 0, head, head)
  <2>1. \A t \in 1 .. head : a[0 + t] = b[0 + t]
    BY <1>4
  <2>2. Leads(Same(head), a, b, 0, 0, 0 + head, 0 + head)
    BY <1>4, <1>8, <2>1
  <2> QED  BY <1>4, <2>2
<1>10. Leads(Same(foot), a, b, Len(a) - foot, Len(b) - foot, Len(a), Len(b))
  <2> DEFINE p == Len(a) - foot
             m == Len(b) - foot
  <2>1. p \in Nat /\ m \in Nat /\ p + foot = Len(a) /\ m + foot = Len(b)
    BY <1>2, <1>3
  <2>2. ASSUME NEW t \in 1 .. foot  PROVE a[p + t] = b[m + t]
    <3>1. foot - t \in 0 .. foot - 1 /\ Len(a) - (foot - t) = p + t /\ Len(b) - (foot - t) = m + t
      BY <1>2, <1>3
    <3> QED  BY <1>3, <3>1
  <2> HIDE DEF p, m
  <2>3. Leads(Same(foot), a, b, p, m, p + foot, m + foot)
    BY <1>3, <1>8, <2>1, <2>2
  <2> QED  BY <2>1, <2>3 DEF p, m
<1> DEFINE front == Same(head) \o mid
           last == Same(foot)
<1>11. /\ front \in Seq(Triples) /\ Raw(front)
       /\ Leads(front, a, b, 0, 0, Len(a) - foot, Len(b) - foot)
  <2> DEFINE first == Same(head)
  <2>1. /\ first \in Seq(Triples) /\ Raw(first) /\ (first # <<>> => IsCopy(first[Len(first)]))
        /\ Leads(first, a, b, 0, 0, head, head)
    BY <1>4, <1>7, <1>9
  <2> HIDE DEF first
  <2>2. first \o mid \in Seq(Triples) /\ Raw(first \o mid) /\ Leads(first \o mid, a, b, 0, 0, Len(a) - foot, Len(b) - foot)
    BY <1>6, <2>1, RawConcat, LeadsConcat
  <2> QED  BY <2>2 DEF first
<1>12. /\ last \in Seq(Triples) /\ Raw(last) /\ (last # <<>> => IsCopy(last[1]))
       /\ Leads(last, a, b, Len(a) - foot, Len(b) - foot, Len(a), Len(b))
  BY <1>3, <1>7, <1>10
<1>13. all = front \o last
  OBVIOUS
<1> HIDE DEF front, last, all
<1>14. all \in Seq(Triples) /\ Raw(all) /\ Leads(all, a, b, 0, 0, Len(a), Len(b))
  BY <1>11, <1>12, <1>13, RawConcat, LeadsConcat
<1> QED  BY <1>1, <1>14, JoinFacts

-----------------------------------------------------------------------------
(* The edits of a whole text.                                              *)

\* Parts of a sum are within its bound.
LEMMA NotMore ==
  ASSUME NEW r \in Nat, NEW c \in Nat, NEW d \in Nat, NEW n \in Nat, r + c + d <= n
  PROVE  r <= r + c + d /\ r + c <= n /\ r <= n
OBVIOUS

\* A sum is not less than its first part.
LEMMA More ==
  ASSUME NEW r \in Nat, NEW c \in Nat, NEW d \in Nat
  PROVE  r <= r + c + d /\ r + c + d \in Nat
OBVIOUS

\* Bounds in a row.
LEMMA NotMoreThan ==
  ASSUME NEW x \in Nat, NEW y \in Nat, NEW z \in Nat, x <= y, y <= z
  PROVE  x <= z
OBVIOUS

Frame(M, R, S, a, b, L) ==
  /\ a \in Seq(L) /\ b \in Seq(L) /\ M \in Seq(Triples) /\ Normal(M) /\ Path(M, R, S, a, b)
  /\ R[0] = 0 /\ S[0] = 0 /\ R[Len(M)] = Len(a) /\ S[Len(M)] = Len(b)

\* What TextDiff finds, and where it leads.
LEMMA DiffFrame ==
  ASSUME NEW L, NEW a \in Seq(L), NEW b \in Seq(L)
  PROVE  \E R, S : Frame(TextDiff(a, b), R, S, a, b, L)
<1> DEFINE M == TextDiff(a, b)
<1>1. M \in Seq(Triples) /\ Normal(M) /\ Leads(M, a, b, 0, 0, Len(a), Len(b))
  BY TextDiffFacts
<1> HIDE DEF M
<1>2. PICK R, S : Path(M, R, S, a, b) /\ R[0] = 0 /\ S[0] = 0 /\ R[Len(M)] = Len(a) /\ S[Len(M)] = Len(b)
  BY <1>1 DEF Leads
<1>3. Frame(M, R, S, a, b, L)
  BY <1>1, <1>2 DEF Frame
<1> QED  BY <1>3 DEF M

\* What is known of each edit of a text.
LEMMA FrameFacts ==
  ASSUME NEW L, NEW a, NEW b, NEW M, NEW R, NEW S, Frame(M, R, S, a, b, L)
  PROVE  /\ Len(M) \in Nat /\ Len(a) \in Nat /\ Len(b) \in Nat
         /\ \A k \in 0 .. Len(M) : R[k] \in Nat /\ S[k] \in Nat
         /\ \A k \in 1 .. Len(M) :
              /\ M[k] \in Triples /\ M[k].copy \in Nat /\ M[k].del \in Nat /\ M[k].ins \in Nat
              /\ M[k].copy + M[k].del + M[k].ins > 0
              /\ k >= 2 => M[k].copy > 0
              /\ R[k] = R[k - 1] + M[k].copy + M[k].del
              /\ S[k] = S[k - 1] + M[k].copy + M[k].ins
              /\ \A t \in 1 .. M[k].copy : a[R[k - 1] + t] = b[S[k - 1] + t]
<1>1. /\ a \in Seq(L) /\ b \in Seq(L) /\ M \in Seq(Triples) /\ Normal(M) /\ Path(M, R, S, a, b)
  BY DEF Frame
<1>2. Len(M) \in Nat /\ Len(a) \in Nat /\ Len(b) \in Nat
  BY <1>1, LenProperties
<1>3. \A k \in 0 .. Len(M) : R[k] \in Nat /\ S[k] \in Nat
  BY <1>1 DEF Path
<1>4. ASSUME NEW k \in 1 .. Len(M)
      PROVE  /\ M[k] \in Triples /\ M[k].copy \in Nat /\ M[k].del \in Nat /\ M[k].ins \in Nat
             /\ M[k].copy + M[k].del + M[k].ins > 0
             /\ k >= 2 => M[k].copy > 0
             /\ R[k] = R[k - 1] + M[k].copy + M[k].del
             /\ S[k] = S[k - 1] + M[k].copy + M[k].ins
             /\ \A t \in 1 .. M[k].copy : a[R[k - 1] + t] = b[S[k - 1] + t]
  <2>1. M[k] \in Triples
    BY <1>1, ElementOfSeq
  <2>2. k >= 2 => k \in 2 .. Len(M)
    BY <1>2
  <2>3. M[k].copy \in Nat /\ M[k].del \in Nat /\ M[k].ins \in Nat
    BY <2>1 DEF Triples
  <2>4. M[k].copy + M[k].del + M[k].ins > 0 /\ (k >= 2 => M[k].copy > 0)
    BY <1>1, <2>2 DEF Normal
  <2> QED  BY <1>1, <2>1, <2>3, <2>4 DEF Path
<1> QED  BY <1>2, <1>3, <1>4

\* A text is left behind edit by edit.
LEMMA Onward ==
  ASSUME NEW L, NEW a, NEW b, NEW M, NEW R, NEW S, Frame(M, R, S, a, b, L),
         NEW i \in 0 .. Len(M), NEW j \in 0 .. Len(M), i <= j
  PROVE  R[i] <= R[j] /\ S[i] <= S[j]
<1> DEFINE T == {d \in Nat : i + d <= Len(M) => R[i] <= R[i + d] /\ S[i] <= S[i + d]}
<1>1. Len(M) \in Nat /\ i \in Nat /\ j \in Nat /\ R[i] \in Nat /\ S[i] \in Nat
  BY FrameFacts
<1>2. 0 \in T
  BY <1>1
<1>3. ASSUME NEW d \in T  PROVE d + 1 \in T
  <2> SUFFICES ASSUME i + (d + 1) <= Len(M)  PROVE R[i] <= R[i + (d + 1)] /\ S[i] <= S[i + (d + 1)]
    OBVIOUS
  <2> DEFINE k == i + (d + 1)
  <2>1. d \in Nat /\ k \in 1 .. Len(M) /\ k - 1 = i + d /\ k - 1 \in 0 .. Len(M) /\ i + d <= Len(M)
    BY <1>1
  <2>2. R[i] <= R[k - 1] /\ S[i] <= S[k - 1]
    BY <2>1
  <2> HIDE DEF k
  <2>3. /\ R[k - 1] \in Nat /\ S[k - 1] \in Nat /\ M[k].copy \in Nat /\ M[k].del \in Nat /\ M[k].ins \in Nat
        /\ R[k] = R[k - 1] + M[k].copy + M[k].del /\ S[k] = S[k - 1] + M[k].copy + M[k].ins
    BY <2>1, FrameFacts
  <2>4. R[i] <= R[k] /\ S[i] <= S[k]
    <3>2. R[k - 1] <= R[k] /\ S[k - 1] <= S[k] /\ R[k] \in Nat /\ S[k] \in Nat
      <4> DEFINE r == R[k - 1]
                 w == S[k - 1]
                 c == M[k].copy
                 e == M[k].del
                 h == M[k].ins
      <4>1. r \in Nat /\ w \in Nat /\ c \in Nat /\ e \in Nat /\ h \in Nat /\ R[k] = r + c + e /\ S[k] = w + c + h
        BY <2>3
      <4> HIDE DEF r, w, c, e, h
      <4>2. r <= R[k] /\ w <= S[k] /\ R[k] \in Nat /\ S[k] \in Nat
        BY <4>1
      <4> QED  BY <4>2 DEF r, w
    <3> QED  BY <1>1, <2>2, <2>3, <3>2, NotMoreThan
  <2> QED  BY <2>4 DEF k
<1>4. T = Nat
  <2>1. T \in SUBSET Nat
    OBVIOUS
  <2> HIDE DEF T
  <2> QED  BY <1>2, <1>3, <2>1, SetInduction
<1>5. j - i \in Nat /\ i + (j - i) = j
  BY <1>1
<1>6. \A e \in Nat : i + e <= Len(M) => R[i] <= R[i + e] /\ S[i] <= S[i + e]
  BY <1>4
<1>7. i + (j - i) <= Len(M) => R[i] <= R[i + (j - i)] /\ S[i] <= S[i + (j - i)]
  BY <1>5, <1>6
<1> HIDE DEF T
<1> QED  BY <1>1, <1>5, <1>7

\* Edits stay within both texts.
LEMMA Within ==
  ASSUME NEW L, NEW a, NEW b, NEW M, NEW R, NEW S, Frame(M, R, S, a, b, L), NEW k \in 0 .. Len(M)
  PROVE  R[k] \in Nat /\ S[k] \in Nat /\ R[k] <= Len(a) /\ S[k] <= Len(b)
<1>1. Len(M) \in Nat /\ Len(M) \in 0 .. Len(M) /\ k <= Len(M)
  BY FrameFacts
<1>2. R[k] <= R[Len(M)] /\ S[k] <= S[Len(M)]
  BY <1>1, Onward
<1> QED  BY <1>2, FrameFacts DEF Frame

\* The lines of a part of a text.
LEMMA LinesAre ==
  ASSUME NEW a, NEW n \in Nat, NEW k \in Nat, NEW V, \A i \in n + 1 .. n + k : a[i] \in V
  PROVE  /\ Lines(a, n, k) \in Seq(V) /\ Len(Lines(a, n, k)) = k
         /\ \A i \in 1 .. k : Lines(a, n, k)[i] = a[n + i]
<1>1. /\ SubSeq(a, n + 1, n + k) \in Seq(V)
      /\ Len(SubSeq(a, n + 1, n + k)) = IF n + 1 <= n + k THEN (n + k) - (n + 1) + 1 ELSE 0
      /\ \A i \in 1 .. (n + k) - (n + 1) + 1 : SubSeq(a, n + 1, n + k)[i] = a[(n + 1) + i - 1]
  BY SubSeqProperties
<1>2. (n + k) - (n + 1) + 1 = k /\ (IF n + 1 <= n + k THEN k ELSE 0) = k /\ \A i \in 1 .. k : (n + 1) + i - 1 = n + i
  OBVIOUS
<1> QED  BY <1>1, <1>2 DEF Lines

\* The same, for a part that is inside the text.
LEMMA LinesFacts ==
  ASSUME NEW L, NEW a \in Seq(L), NEW n \in Nat, NEW k \in Nat, n + k <= Len(a)
  PROVE  /\ Lines(a, n, k) \in Seq(L) /\ Len(Lines(a, n, k)) = k
         /\ \A i \in 1 .. k : Lines(a, n, k)[i] = a[n + i]
<1>1. \A i \in n + 1 .. n + k : i \in 1 .. Len(a)
  BY LenProperties
<1>2. \A i \in n + 1 .. n + k : a[i] \in L
  BY <1>1, ElementOfSeq
<1> QED  BY <1>2, LinesAre

\* A part of no lines.
LEMMA LinesNone == ASSUME NEW a, NEW n \in Nat  PROVE Lines(a, n, 0) = <<>>
BY SubSeqEmpty DEF Lines

Alike(a, b, n, m, k) == \A i \in 1 .. k : a[n + i] = b[m + i]

\* Parts with the same lines are the same part.
LEMMA LinesSame ==
  ASSUME NEW a, NEW b, NEW n \in Nat, NEW m \in Nat, NEW k \in Nat, Alike(a, b, n, m, k)
  PROVE  Lines(a, n, k) = Lines(b, m, k)
<1> DEFINE s == Lines(a, n, k)
           t == Lines(b, m, k)
           V == {a[i] : i \in n + 1 .. n + k} \cup {b[i] : i \in m + 1 .. m + k}
<1>1. s \in Seq(V) /\ Len(s) = k /\ \A i \in 1 .. k : s[i] = a[n + i]
  <2>1. \A i \in n + 1 .. n + k : a[i] \in V
    OBVIOUS
  <2> HIDE DEF V
  <2> QED  BY <2>1, LinesAre
<1>2. t \in Seq(V) /\ Len(t) = k /\ \A i \in 1 .. k : t[i] = b[m + i]
  <2>1. \A i \in m + 1 .. m + k : b[i] \in V
    OBVIOUS
  <2> HIDE DEF V
  <2> QED  BY <2>1, LinesAre
<1> HIDE DEF s, t, V
<1>3. \A i \in 1 .. k : s[i] = t[i]
  BY <1>1, <1>2 DEF Alike
<1>4. s = t
  BY <1>1, <1>2, <1>3, SeqEqual
<1> QED  BY <1>4 DEF s, t

\* Two parts in a row are one.
LEMMA LinesJoin ==
  ASSUME NEW L, NEW a \in Seq(L), NEW n \in Nat, NEW k \in Nat, NEW l \in Nat, n + k + l <= Len(a)
  PROVE  Lines(a, n, k) \o Lines(a, n + k, l) = Lines(a, n, k + l)
<1> DEFINE s == Lines(a, n, k)
           t == Lines(a, n + k, l)
           u == Lines(a, n, k + l)
<1>0. /\ Len(a) \in Nat /\ n + k \in Nat /\ k + l \in Nat
      /\ n + k <= Len(a) /\ (n + k) + l <= Len(a) /\ n + (k + l) <= Len(a)
  BY LenProperties
<1>1. s \in Seq(L) /\ Len(s) = k /\ \A i \in 1 .. k : s[i] = a[n + i]
  BY <1>0, LinesFacts
<1>2. t \in Seq(L) /\ Len(t) = l /\ \A i \in 1 .. l : t[i] = a[(n + k) + i]
  BY <1>0, LinesFacts
<1>3. u \in Seq(L) /\ Len(u) = k + l /\ \A i \in 1 .. k + l : u[i] = a[n + i]
  BY <1>0, LinesFacts
<1> HIDE DEF s, t, u
<1>4. /\ s \o t \in Seq(L) /\ Len(s \o t) = k + l
      /\ \A i \in 1 .. k + l : (s \o t)[i] = IF i <= k THEN s[i] ELSE t[i - k]
  BY <1>1, <1>2, ConcatProperties
<1>5. ASSUME NEW i \in 1 .. k + l  PROVE (s \o t)[i] = u[i]
  <2>1. CASE i <= k
    <3>1. i \in 1 .. k
      BY <2>1
    <3> QED  BY <1>1, <1>3, <1>4, <2>1, <3>1
  <2>2. CASE ~(i <= k)
    <3>1. i - k \in 1 .. l /\ (n + k) + (i - k) = n + i
      BY <2>2
    <3> QED  BY <1>2, <1>3, <1>4, <2>2, <3>1
  <2> QED  BY <2>1, <2>2
<1>6. s \o t = u
  BY <1>3, <1>4, <1>5, SeqEqual
<1> QED  BY <1>6 DEF s, t, u

\* Reached computes the positions of the edits.
LEMMA ReachedIs ==
  ASSUME NEW L, NEW a, NEW b, NEW M, NEW R, NEW S, Frame(M, R, S, a, b, L)
  PROVE  Reached(M) = [k \in 0 .. Len(M) |-> <<R[k], S[k]>>]
<1> DEFINE n == Len(M)
           body(f, k) == IF k = 0 THEN <<0, 0>>
                         ELSE <<f[k - 1][1] + M[k].copy + M[k].del, f[k - 1][2] + M[k].copy + M[k].ins>>
           F == CHOOSE f : f = [k \in 0 .. n |-> body(f, k)]
           G == [k \in 0 .. n |-> <<R[k], S[k]>>]
<1>1. Reached(M) = F
  BY DEF Reached
<1>2. n \in Nat /\ R[0] = 0 /\ S[0] = 0
  BY FrameFacts DEF Frame
<1>3. \A k \in 1 .. n : R[k] = R[k - 1] + M[k].copy + M[k].del /\ S[k] = S[k - 1] + M[k].copy + M[k].ins
  BY FrameFacts
<1> HIDE DEF n
<1>4. ASSUME NEW k \in 0 .. n  PROVE G[k] = body(G, k)
  <2>1. CASE k = 0
    BY <1>2, <2>1
  <2>2. CASE k # 0
    <3>1. k \in 1 .. n /\ k - 1 \in 0 .. n
      BY <1>2, <2>2
    <3>2. G[k - 1][1] = R[k - 1] /\ G[k - 1][2] = S[k - 1] /\ G[k] = <<R[k], S[k]>>
      BY <3>1
    <3> HIDE DEF G
    <3> QED  BY <1>3, <2>2, <3>1, <3>2
  <2> QED  BY <2>1, <2>2
<1>5. G = [k \in 0 .. n |-> body(G, k)]
  <2>1. G = [k \in 0 .. n |-> G[k]]
    OBVIOUS
  <2> HIDE DEF G, body
  <2> QED  BY <1>4, <2>1
<1>6. F = [k \in 0 .. n |-> body(F, k)]
  <2> HIDE DEF G, body
  <2> QED  BY <1>5
<1> DEFINE T == {k \in Nat : k <= n => F[k] = <<R[k], S[k]>>}
<1> HIDE DEF F, G
<1>7. 0 \in T
  <2>1. 0 \in 0 .. n
    BY <1>2
  <2> QED  BY <1>2, <1>6, <2>1
<1>8. ASSUME NEW k \in T  PROVE k + 1 \in T
  <2> SUFFICES ASSUME k + 1 <= n  PROVE F[k + 1] = <<R[k + 1], S[k + 1]>>
    OBVIOUS
  <2> DEFINE l == k + 1
  <2>1. l \in 1 .. n /\ l \in 0 .. n /\ l # 0 /\ l - 1 = k /\ k <= n
    BY <1>2
  <2>2. F[l - 1] = <<R[l - 1], S[l - 1]>>
    BY <2>1
  <2> HIDE DEF l, T
  <2>3. F[l] = <<F[l - 1][1] + M[l].copy + M[l].del, F[l - 1][2] + M[l].copy + M[l].ins>>
    BY <1>6, <2>1
  <2>4. F[l - 1][1] = R[l - 1] /\ F[l - 1][2] = S[l - 1]
    BY <2>2
  <2>5. R[l] = R[l - 1] + M[l].copy + M[l].del /\ S[l] = S[l - 1] + M[l].copy + M[l].ins
    BY <1>3, <2>1
  <2>6. F[l] = <<R[l], S[l]>>
    BY <2>3, <2>4, <2>5
  <2> QED  BY <2>6 DEF l
<1>9. T = Nat
  <2>1. T \in SUBSET Nat
    OBVIOUS
  <2> HIDE DEF T
  <2> QED  BY <1>7, <1>8, <2>1, SetInduction
<1>10. \A k \in 0 .. n : F[k] = <<R[k], S[k]>>
  BY <1>9
<1>11. F = [k \in 0 .. n |-> F[k]]
  <2> HIDE DEF body
  <2> QED  BY <1>6
<1> QED  BY <1>1, <1>10, <1>11 DEF n

\* What an edit copies is the same in both texts.
LEMMA CopiedLines ==
  ASSUME NEW L, NEW a, NEW b, NEW M, NEW R, NEW S, Frame(M, R, S, a, b, L), NEW k \in 1 .. Len(M)
  PROVE  Lines(a, R[k - 1], M[k].copy) = Lines(b, S[k - 1], M[k].copy)
<1> DEFINE n == R[k - 1]
           m == S[k - 1]
           l == M[k].copy
<1>1. n \in Nat /\ m \in Nat /\ l \in Nat /\ \A t \in 1 .. l : a[n + t] = b[m + t]
  <2>1. k - 1 \in 0 .. Len(M)
    BY FrameFacts
  <2> QED  BY <2>1, FrameFacts
<1> HIDE DEF n, m, l
<1>2. Lines(a, n, l) = Lines(b, m, l)
  <2>1. Alike(a, b, n, m, l)
    BY <1>1 DEF Alike
  <2> QED  BY <1>1, <2>1, LinesSame
<1> QED  BY <1>2 DEF n, m, l

\* The edits that diff_by_lines finds lead from the one text to the other.
THEOREM DiffLeads ==
  ASSUME NEW L, NEW a \in Seq(L), NEW b \in Seq(L)
  PROVE  LeadsTo(TextDiff(a, b), a, b)
<1> DEFINE M == TextDiff(a, b)
<1>1. PICK R, S : Frame(M, R, S, a, b, L)
  BY DiffFrame
<1> HIDE DEF M
<1>2. Len(M) \in Nat /\ R[Len(M)] = Len(a) /\ S[Len(M)] = Len(b)
  BY <1>1, FrameFacts DEF Frame
<1>3. \A k \in 0 .. Len(M) : Reached(M)[k] = <<R[k], S[k]>>
  BY <1>1, ReachedIs
<1>4. ASSUME NEW k \in 1 .. Len(M)
      PROVE  Lines(a, Reached(M)[k - 1][1], M[k].copy) = Lines(b, Reached(M)[k - 1][2], M[k].copy)
  <2>1. k \in 0 .. Len(M) /\ k - 1 \in 0 .. Len(M)
    BY <1>2
  <2>2. Reached(M)[k - 1][1] = R[k - 1] /\ Reached(M)[k - 1][2] = S[k - 1]
    BY <1>3, <2>1
  <2>7. Lines(a, R[k - 1], M[k].copy) = Lines(b, S[k - 1], M[k].copy)
    BY <1>1, CopiedLines
  <2> QED  BY <2>2, <2>7
<1>5. Reached(M)[Len(M)] = <<Len(a), Len(b)>>
  BY <1>2, <1>3
<1>6. LeadsTo(M, a, b)
  BY <1>4, <1>5 DEF LeadsTo
<1> QED  BY <1>6 DEF M

-----------------------------------------------------------------------------
(* What is kept of the origin, and what is inserted where.                 *)

\* The place an edit inserts at.
Place(M, R, k) == R[k - 1] + M[k].copy

\* The place of an edit is between its two ends.
LEMMA PlaceFacts ==
  ASSUME NEW L, NEW a, NEW b, NEW M, NEW R, NEW S, Frame(M, R, S, a, b, L), NEW k \in 1 .. Len(M)
  PROVE  /\ R[k - 1] \in Nat /\ R[k] \in Nat /\ S[k - 1] \in Nat /\ S[k] \in Nat /\ Place(M, R, k) \in Nat
         /\ R[k - 1] <= Place(M, R, k) /\ Place(M, R, k) <= R[k] /\ R[k] <= Len(a) /\ S[k] <= Len(b)
         /\ k >= 2 => R[k - 1] < Place(M, R, k)
         /\ R[k] = Place(M, R, k) + M[k].del
         /\ S[k] = S[k - 1] + M[k].copy + M[k].ins
<1>1. Len(M) \in Nat /\ k \in 0 .. Len(M) /\ k - 1 \in 0 .. Len(M)
  BY FrameFacts
<1>2. /\ R[k - 1] \in Nat /\ R[k] \in Nat /\ R[k] <= Len(a) /\ S[k - 1] \in Nat /\ S[k] \in Nat /\ S[k] <= Len(b)
  BY <1>1, Within
<1> DEFINE r == R[k - 1]
           c == M[k].copy
           d == M[k].del
<1>3. /\ c \in Nat /\ d \in Nat /\ (k >= 2 => c > 0) /\ R[k] = r + c + d
      /\ S[k] = S[k - 1] + M[k].copy + M[k].ins
  BY FrameFacts
<1>4. Place(M, R, k) = r + c /\ r \in Nat
  BY <1>2 DEF Place
<1> HIDE DEF r, c, d
<1>5. /\ r + c \in Nat /\ r <= r + c /\ r + c <= R[k] /\ (k >= 2 => r < r + c) /\ R[k] = (r + c) + d
  BY <1>3, <1>4
<1> QED  BY <1>2, <1>3, <1>4, <1>5 DEF r, d

\* Two edits change different places.
LEMMA PlacesApart ==
  ASSUME NEW L, NEW a, NEW b, NEW M, NEW R, NEW S, Frame(M, R, S, a, b, L),
         NEW k \in 1 .. Len(M), NEW l \in 1 .. Len(M), k < l
  PROVE  R[k] < Place(M, R, l) /\ R[k] <= R[l - 1]
<1>1. /\ Len(M) \in Nat /\ k \in 0 .. Len(M) /\ l - 1 \in 0 .. Len(M) /\ k <= l - 1 /\ l >= 2
  BY FrameFacts
<1>2. R[k] <= R[l - 1]
  BY <1>1, Onward
<1>3. R[k] \in Nat /\ R[l - 1] \in Nat /\ Place(M, R, l) \in Nat /\ R[l - 1] < Place(M, R, l)
  BY <1>1, PlaceFacts
<1> QED  BY <1>2, <1>3

\* An edit keeps the lines it copies and no other.
LEMMA KeptIs ==
  ASSUME NEW L, NEW a, NEW b, NEW M, NEW R, NEW S, Frame(M, R, S, a, b, L),
         NEW k \in 1 .. Len(M), NEW g \in Nat
  PROVE  /\ R[k - 1] < g /\ g <= Place(M, R, k) => Kept(M, g)
         /\ Place(M, R, k) < g /\ g <= R[k] => ~Kept(M, g)
<1>1. \A l \in 1 .. Len(M) : Reached(M)[l - 1][1] = R[l - 1]
  <2> TAKE l \in 1 .. Len(M)
  <2>1. l - 1 \in 0 .. Len(M)
    BY FrameFacts
  <2> QED  BY <2>1, ReachedIs
<1>2. Kept(M, g) <=> \E l \in 1 .. Len(M) : R[l - 1] < g /\ g <= Place(M, R, l)
  <2>1. ASSUME NEW l \in 1 .. Len(M)
        PROVE  g \in R[l - 1] + 1 .. R[l - 1] + M[l].copy <=> R[l - 1] < g /\ g <= Place(M, R, l)
    <3>1. R[l - 1] \in Nat /\ Place(M, R, l) = R[l - 1] + M[l].copy /\ Place(M, R, l) \in Nat
      BY PlaceFacts DEF Place
    <3> QED  BY <3>1
  <2>2. Kept(M, g) <=> \E l \in 1 .. Len(M) : g \in R[l - 1] + 1 .. R[l - 1] + M[l].copy
    BY <1>1 DEF Kept
  <2> QED  BY <2>1, <2>2
<1>3. ASSUME Place(M, R, k) < g, g <= R[k], NEW l \in 1 .. Len(M), R[l - 1] < g, g <= Place(M, R, l)  PROVE FALSE
  <2>1. /\ R[k] \in Nat /\ Place(M, R, k) \in Nat /\ R[k - 1] \in Nat /\ R[k - 1] <= Place(M, R, k)
    BY PlaceFacts
  <2>2. /\ R[l] \in Nat /\ Place(M, R, l) \in Nat /\ R[l - 1] \in Nat /\ Place(M, R, l) <= R[l]
    BY PlaceFacts
  <2>3. CASE l < k
    <3>1. R[l] <= R[k - 1]
      BY <2>3, PlacesApart
    <3>2. Place(M, R, l) <= Place(M, R, k)
      BY <2>1, <2>2, <3>1
    <3> QED  BY <1>3, <2>1, <2>2, <3>2
  <2>4. CASE k < l
    <3>1. R[k] <= R[l - 1]
      BY <2>4, PlacesApart
    <3> QED  BY <1>3, <2>1, <2>2, <3>1
  <2>5. CASE l = k
    BY <1>3, <2>1, <2>5
  <2> QED  BY <2>3, <2>4, <2>5, FrameFacts
<1> QED  BY <1>2, <1>3

\* What is inserted at the place of an edit is its insertion, elsewhere nothing.
LEMMA InsertedIs ==
  ASSUME NEW L, NEW a, NEW b, NEW M, NEW R, NEW S, Frame(M, R, S, a, b, L)
  PROVE  /\ \A k \in 1 .. Len(M) : Inserted(M, b, Place(M, R, k)) = Lines(b, S[k - 1] + M[k].copy, M[k].ins)
         /\ \A gap : (\A k \in 1 .. Len(M) : Place(M, R, k) # gap) => Inserted(M, b, gap) = <<>>
<1> DEFINE Here(gap) == {k \in 1 .. Len(M) : Place(M, R, k) = gap /\ M[k].ins > 0}
           Least(gap) == Min(Here(gap))
<1>1. \A k \in 1 .. Len(M) : Reached(M)[k - 1] = <<R[k - 1], S[k - 1]>>
  <2> TAKE k \in 1 .. Len(M)
  <2>1. k - 1 \in 0 .. Len(M)
    BY FrameFacts
  <2> QED  BY <2>1, ReachedIs
<1>2. ASSUME NEW gap
      PROVE  Inserted(M, b, gap) =
               IF Here(gap) = {} THEN <<>>
               ELSE Lines(b, Reached(M)[Least(gap) - 1][2] + M[Least(gap)].copy, M[Least(gap)].ins)
  <2>1. {k \in 1 .. Len(M) : Reached(M)[k - 1][1] + M[k].copy = gap /\ M[k].ins > 0} = Here(gap)
    BY <1>1 DEF Place
  <2> HIDE DEF Here
  <2> QED  BY <2>1 DEF Inserted
<1>3. ASSUME NEW k \in 1 .. Len(M)
      PROVE  Inserted(M, b, Place(M, R, k)) = Lines(b, S[k - 1] + M[k].copy, M[k].ins)
  <2> DEFINE gap == Place(M, R, k)
  <2>1. ASSUME NEW l \in 1 .. Len(M), Place(M, R, l) = gap  PROVE l = k
    <3>1. /\ R[k] \in Nat /\ gap \in Nat /\ gap <= R[k] /\ R[l] \in Nat /\ Place(M, R, l) <= R[l]
      BY PlaceFacts
    <3>2. CASE l < k
      <4>1. R[l] < gap
        BY <3>2, PlacesApart
      <4> QED  BY <2>1, <3>1, <4>1
    <3>3. CASE k < l
      <4>1. R[k] < Place(M, R, l)
        BY <3>3, PlacesApart
      <4> QED  BY <2>1, <3>1, <4>1
    <3> QED  BY <3>2, <3>3
  <2>2. M[k].ins \in Nat /\ S[k - 1] \in Nat /\ M[k].copy \in Nat
    BY FrameFacts, PlaceFacts
  <2>3. CASE M[k].ins = 0
    <3>1. Here(gap) = {}
      BY <2>1, <2>3
    <3>2. Lines(b, S[k - 1] + M[k].copy, 0) = <<>>
      <4>1. S[k - 1] + M[k].copy \in Nat
        BY <2>2
      <4> QED  BY <4>1, LinesNone
    <3> QED  BY <1>2, <2>3, <3>1, <3>2
  <2>4. CASE M[k].ins > 0
    <3>1. Here(gap) = {k}
      BY <2>1, <2>4
    <3>2. Least(gap) = k
      <4>1. {k} \in SUBSET Nat /\ {k} # {}
        OBVIOUS
      <4>2. Min({k}) \in {k}
        BY <4>1, MinOf
      <4> QED  BY <3>1, <4>2
    <3> HIDE DEF Here, Least
    <3>3. Here(gap) # {}
      BY <3>1
    <3>4. Inserted(M, b, gap) = Lines(b, Reached(M)[Least(gap) - 1][2] + M[Least(gap)].copy, M[Least(gap)].ins)
      BY <1>2, <3>3
    <3>5. Reached(M)[k - 1][2] = S[k - 1]
      BY <1>1
    <3> QED  BY <3>2, <3>4, <3>5
  <2> QED  BY <2>2, <2>3, <2>4
<1>4. ASSUME NEW gap, \A k \in 1 .. Len(M) : Place(M, R, k) # gap  PROVE Inserted(M, b, gap) = <<>>
  BY <1>2, <1>4
<1> QED  BY <1>3, <1>4

-----------------------------------------------------------------------------
(* The edits that are left when p lines of the origin and m lines of the   *)
(* other text are consumed.                                                *)

LeftFrom(c, M, R, S, p, m, k, x) ==
  /\ p = R[k] + x /\ m = S[k] + x
  /\ c \in Seq(Triples) /\ Len(c) = Len(M) - k
  /\ c = <<>> => x = 0
  /\ c # <<>> => /\ x + c[1].copy = M[k + 1].copy /\ c[1].del = M[k + 1].del /\ c[1].ins = M[k + 1].ins
                 /\ c[1] # Triple(0, 0, 0)
  /\ \A j \in 2 .. Len(c) : c[j] = M[k + j]
Left(c, M, R, S, p, m) == \E k \in 0 .. Len(M), x \in Nat : LeftFrom(c, M, R, S, p, m, k, x)

\* The first of the edits, and the others.
LEMMA SeqParts ==
  ASSUME NEW c \in Seq(Triples), c # <<>>
  PROVE  /\ Len(c) \in Nat /\ Len(c) > 0 /\ Head(c) = c[1] /\ c[1] \in Triples
         /\ Tail(c) \in Seq(Triples) /\ Len(Tail(c)) = Len(c) - 1
         /\ \A j \in 1 .. Len(c) - 1 : Tail(c)[j] = c[j + 1]
         /\ c[1].copy \in Nat /\ c[1].del \in Nat /\ c[1].ins \in Nat
<1>1. Len(c) \in Nat /\ Len(c) > 0
  BY EmptySeq
<1>2. Head(c) = c[1]
  OBVIOUS
<1>3. 1 \in 1 .. Len(c)
  BY <1>1
<1>4. c[1] \in Triples
  BY <1>3, ElementOfSeq
<1> QED  BY <1>1, <1>2, <1>4, HeadTailProperties DEF Triples

\* The edit of which nothing is left is the one with three zeros.
LEMMA NotNothing ==
  ASSUME NEW e \in Triples
  PROVE  /\ e # Triple(0, 0, 0) <=> e.copy + e.del + e.ins > 0
         /\ e.copy > 0 \/ e.del > 0 \/ e.ins > 0 <=> e # Triple(0, 0, 0)
BY DEF Triple, Triples

HeadIs(h, l, M, R, S, p, m, k, x) ==
  /\ l \in 1 .. Len(M) /\ l - 1 = k /\ l = k + 1 /\ h \in Triples /\ h.copy \in Nat /\ h.del \in Nat /\ h.ins \in Nat
  /\ p \in Nat /\ m \in Nat /\ R[k] \in Nat /\ S[k] \in Nat
  /\ Place(M, R, l) = p + h.copy /\ R[l] = p + h.copy + h.del
  /\ S[k] + M[l].copy = m + h.copy /\ S[l] = m + h.copy + h.ins
  /\ h.copy + h.del + h.ins > 0
  /\ R[k] + x = p /\ S[k] + x = m
  /\ x + h.copy = M[l].copy /\ h.del = M[l].del /\ h.ins = M[l].ins

\* What is left begins with an edit of which something is copied already.
LEMMA LeftHead ==
  ASSUME NEW L, NEW a, NEW b, NEW M, NEW R, NEW S, Frame(M, R, S, a, b, L), NEW c, NEW p, NEW m,
         NEW k \in 0 .. Len(M), NEW x \in Nat, LeftFrom(c, M, R, S, p, m, k, x), c # <<>>
  PROVE  Head(c) = c[1] /\ HeadIs(Head(c), k + 1, M, R, S, p, m, k, x)
<1> DEFINE l == k + 1
           h == Head(c)
<1>1. /\ c \in Seq(Triples) /\ Len(c) = Len(M) - k /\ p = R[k] + x /\ m = S[k] + x
      /\ x + c[1].copy = M[k + 1].copy /\ c[1].del = M[k + 1].del /\ c[1].ins = M[k + 1].ins
      /\ c[1] # Triple(0, 0, 0)
  BY DEF LeftFrom
<1>2. /\ Len(c) \in Nat /\ Len(c) > 0 /\ h = c[1] /\ h \in Triples
      /\ h.copy \in Nat /\ h.del \in Nat /\ h.ins \in Nat
  BY <1>1, SeqParts
<1>3. l \in 1 .. Len(M) /\ l - 1 = k /\ l = k + 1
  BY <1>1, <1>2, FrameFacts
<1> HIDE DEF l
<1>4. /\ R[k] \in Nat /\ S[k] \in Nat /\ Place(M, R, l) = R[k] + M[l].copy
      /\ R[l] = R[k] + M[l].copy + M[l].del /\ S[l] = S[k] + M[l].copy + M[l].ins
      /\ M[l].copy \in Nat /\ M[l].del \in Nat /\ M[l].ins \in Nat
  BY <1>3, PlaceFacts, FrameFacts DEF Place
<1>5. x + h.copy = M[l].copy /\ h.del = M[l].del /\ h.ins = M[l].ins
  BY <1>1, <1>2 DEF l
<1> HIDE DEF h
<1>6. h.copy + h.del + h.ins > 0
  BY <1>1, <1>2, NotNothing
<1>7. /\ Place(M, R, l) = p + h.copy /\ R[l] = p + h.copy + h.del
      /\ S[k] + M[l].copy = m + h.copy /\ S[l] = m + h.copy + h.ins /\ p \in Nat /\ m \in Nat
  <2> DEFINE r == R[k]
             s == S[k]
             y == h.copy
             d == h.del
             i == h.ins
  <2>1. /\ Place(M, R, l) = r + (x + y) /\ R[l] = r + (x + y) + d
        /\ S[k] + M[l].copy = s + (x + y) /\ S[l] = s + (x + y) + i
        /\ p = r + x /\ m = s + x /\ r \in Nat /\ s \in Nat /\ y \in Nat /\ d \in Nat /\ i \in Nat
    BY <1>1, <1>2, <1>4, <1>5
  <2> HIDE DEF r, s, y, d, i
  <2>2. /\ Place(M, R, l) = p + y /\ R[l] = p + y + d
        /\ S[k] + M[l].copy = m + y /\ S[l] = m + y + i /\ p \in Nat /\ m \in Nat
    BY <2>1
  <2> QED  BY <2>2 DEF y, d, i
<1>8. HeadIs(h, l, M, R, S, p, m, k, x)
  BY <1>1, <1>2, <1>3, <1>4, <1>5, <1>6, <1>7 DEF HeadIs
<1> QED  BY <1>2, <1>8 DEF h, l

\* What the first of the edits that are left does to the lines that come next.
LEMMA LeftFacts ==
  ASSUME NEW L, NEW a, NEW b, NEW M, NEW R, NEW S, Frame(M, R, S, a, b, L),
         NEW c, NEW p, NEW m, Left(c, M, R, S, p, m), c # <<>>
  PROVE  LET h == Head(c) IN
         /\ c \in Seq(Triples) /\ p \in Nat /\ m \in Nat
         /\ h \in Triples /\ h.copy \in Nat /\ h.del \in Nat /\ h.ins \in Nat /\ h.copy + h.del + h.ins > 0
         /\ p + h.copy + h.del <= Len(a) /\ m + h.copy + h.ins <= Len(b)
         /\ Alike(a, b, p, m, h.copy)
         /\ \A g \in Nat : p < g /\ g <= p + h.copy => Kept(M, g)
         /\ \A g \in Nat : p + h.copy < g /\ g <= p + h.copy + h.del => ~Kept(M, g)
         /\ Inserted(M, b, p + h.copy) = Lines(b, m + h.copy, h.ins)
         /\ \A g \in Nat : p < g /\ g <= p + h.copy + h.del /\ g # p + h.copy => Inserted(M, b, g) = <<>>
<1> DEFINE h == Head(c)
<1>1. PICK k \in 0 .. Len(M), x \in Nat : LeftFrom(c, M, R, S, p, m, k, x)
  BY DEF Left
<1> DEFINE l == k + 1
<1>0. HeadIs(h, l, M, R, S, p, m, k, x)
  BY <1>1, LeftHead
<1> HIDE DEF l, h
<1>2. /\ h \in Triples /\ h.copy \in Nat /\ h.del \in Nat /\ h.ins \in Nat
      /\ p \in Nat /\ m \in Nat /\ R[k] \in Nat /\ S[k] \in Nat
      /\ Place(M, R, l) = p + h.copy /\ R[l] = p + h.copy + h.del
      /\ S[k] + M[l].copy = m + h.copy /\ S[l] = m + h.copy + h.ins
      /\ h.copy + h.del + h.ins > 0
      /\ R[k] + x = p /\ S[k] + x = m
      /\ x + h.copy = M[l].copy /\ h.del = M[l].del /\ h.ins = M[l].ins
  BY <1>0 DEF HeadIs
<1>3. l \in 1 .. Len(M) /\ l - 1 = k
  BY <1>0 DEF HeadIs
<1>4. c \in Seq(Triples)
  BY <1>1 DEF LeftFrom
<1>5. R[l] <= Len(a) /\ S[l] <= Len(b) /\ R[l] \in Nat
  BY <1>3, PlaceFacts
<1>6. Alike(a, b, p, m, h.copy)
  <2>1. \A t \in 1 .. M[l].copy : a[R[k] + t] = b[S[k] + t]
    <3>1. \A t \in 1 .. M[l].copy : a[R[l - 1] + t] = b[S[l - 1] + t]
      BY <1>3, FrameFacts
    <3> QED  BY <1>3, <3>1
  <2>2. ASSUME NEW t \in 1 .. h.copy  PROVE a[p + t] = b[m + t]
    <3>1. x + t \in 1 .. M[l].copy /\ R[k] + (x + t) = p + t /\ S[k] + (x + t) = m + t
      <4> DEFINE y == h.copy
                 r == R[k]
                 s == S[k]
      <4>1. /\ t \in Nat /\ 1 <= t /\ t <= y /\ y \in Nat /\ r \in Nat /\ s \in Nat
            /\ r + x = p /\ s + x = m /\ x + y = M[l].copy
        BY <1>2
      <4> HIDE DEF y, r, s
      <4>2. x + t \in 1 .. M[l].copy /\ r + (x + t) = p + t /\ s + (x + t) = m + t
        BY <4>1
      <4> QED  BY <4>2 DEF r, s
    <3> QED  BY <2>1, <3>1
  <2> QED  BY <2>2 DEF Alike
<1>7. ASSUME NEW g \in Nat
      PROVE  /\ p < g /\ g <= p + h.copy => Kept(M, g)
             /\ p + h.copy < g /\ g <= p + h.copy + h.del => ~Kept(M, g)
  <2>1. /\ R[l - 1] < g /\ g <= Place(M, R, l) => Kept(M, g)
        /\ Place(M, R, l) < g /\ g <= R[l] => ~Kept(M, g)
    BY <1>3, KeptIs
  <2>2. p < g => R[k] < g
    BY <1>2
  <2> QED  BY <1>2, <1>3, <2>1, <2>2
<1>8. Inserted(M, b, p + h.copy) = Lines(b, m + h.copy, h.ins)
  <2>1. Inserted(M, b, Place(M, R, l)) = Lines(b, S[l - 1] + M[l].copy, M[l].ins)
    BY <1>3, InsertedIs
  <2> QED  BY <1>2, <1>3, <2>1
<1>9. ASSUME NEW g \in Nat, p < g, g <= p + h.copy + h.del, g # p + h.copy  PROVE Inserted(M, b, g) = <<>>
  <2>1. ASSUME NEW j \in 1 .. Len(M)  PROVE Place(M, R, j) # g
    <3>1. Place(M, R, j) \in Nat /\ R[j] \in Nat /\ Place(M, R, j) <= R[j]
      BY PlaceFacts
    <3>2. CASE j < l
      <4>1. R[j] <= R[l - 1]
        BY <1>3, <3>2, PlacesApart
      <4> QED  BY <1>2, <1>3, <1>9, <3>1, <4>1
    <3>3. CASE j = l
      BY <1>2, <1>9, <3>3
    <3>4. CASE l < j
      <4>1. R[l] < Place(M, R, j)
        BY <1>3, <3>4, PlacesApart
      <4>2. R[l] = p + h.copy + h.del
        BY <1>2
      <4> QED  BY <1>5, <1>9, <3>1, <4>1, <4>2
    <3> QED  BY <1>3, <3>2, <3>3, <3>4
  <2> QED  BY <2>1, InsertedIs
<1> QED  BY <1>2, <1>4, <1>5, <1>6, <1>7, <1>8, <1>9 DEF h

\* At the beginning all edits are left.
LEMMA LeftBegin ==
  ASSUME NEW L, NEW a, NEW b, NEW M, NEW R, NEW S, Frame(M, R, S, a, b, L)
  PROVE  Left(M, M, R, S, 0, 0)
<1>1. M \in Seq(Triples) /\ Len(M) \in Nat /\ R[0] = 0 /\ S[0] = 0 /\ 0 \in 0 .. Len(M)
  BY FrameFacts DEF Frame
<1>2. M # <<>> => M[1] # Triple(0, 0, 0) /\ 0 + M[1].copy = M[1].copy
  <2> SUFFICES ASSUME M # <<>>  PROVE M[1] # Triple(0, 0, 0) /\ 0 + M[1].copy = M[1].copy
    OBVIOUS
  <2>1. 1 \in 1 .. Len(M)
    BY <1>1, EmptySeq
  <2>2. M[1] \in Triples /\ M[1].copy \in Nat /\ M[1].copy + M[1].del + M[1].ins > 0
    BY <2>1, FrameFacts
  <2> QED  BY <2>2, NotNothing
<1>3. \A j \in 2 .. Len(M) : 0 + j = j
  OBVIOUS
<1>4. LeftFrom(M, M, R, S, 0, 0, 0, 0)
  BY <1>1, <1>2, <1>3 DEF LeftFrom
<1> QED  BY <1>1, <1>4 DEF Left

\* At the end none is.
LEMMA LeftEnd ==
  ASSUME NEW L, NEW a, NEW b, NEW M, NEW R, NEW S, Frame(M, R, S, a, b, L),
         NEW p, NEW m, Left(<<>>, M, R, S, p, m)
  PROVE  p = Len(a) /\ m = Len(b)
<1>1. PICK k \in 0 .. Len(M), x \in Nat : LeftFrom(<<>>, M, R, S, p, m, k, x)
  BY DEF Left
<1>2. x = 0 /\ p = R[k] + 0 /\ m = S[k] + 0 /\ Len(<<>>) = Len(M) - k
  BY <1>1 DEF LeftFrom
<1>3. k = Len(M)
  BY <1>2, FrameFacts
<1> QED  BY <1>2, <1>3, FrameFacts DEF Frame

\* The first edit is done.
LEMMA LeftTail ==
  ASSUME NEW L, NEW a, NEW b, NEW M, NEW R, NEW S, Frame(M, R, S, a, b, L),
         NEW c, NEW p, NEW m, Left(c, M, R, S, p, m), c # <<>>
  PROVE  /\ Tail(c) \in Seq(Triples)
         /\ Left(Tail(c), M, R, S, p + Head(c).copy + Head(c).del, m + Head(c).copy + Head(c).ins)
         /\ Tail(c) # <<>> => Head(Tail(c)).copy > 0 /\ Head(Tail(c)) # Triple(0, 0, 0)
<1> DEFINE h == Head(c)
           d == Tail(c)
<1>1. PICK k \in 0 .. Len(M), x \in Nat : LeftFrom(c, M, R, S, p, m, k, x)
  BY DEF Left
<1> DEFINE l == k + 1
<1>2. HeadIs(h, l, M, R, S, p, m, k, x)
  BY <1>1, LeftHead
<1>3. /\ c \in Seq(Triples) /\ Len(c) = Len(M) - k /\ \A j \in 2 .. Len(c) : c[j] = M[k + j]
  BY <1>1 DEF LeftFrom
<1>4. /\ Len(c) \in Nat /\ Len(c) > 0 /\ d \in Seq(Triples) /\ Len(d) = Len(c) - 1
      /\ \A j \in 1 .. Len(c) - 1 : d[j] = c[j + 1]
  BY <1>3, SeqParts
<1>5. Len(M) \in Nat /\ l \in 1 .. Len(M) /\ l \in 0 .. Len(M) /\ Len(d) = Len(M) - l
  BY <1>2, <1>3, <1>4, FrameFacts DEF HeadIs
<1>6. ASSUME NEW j \in 1 .. Len(d)  PROVE d[j] = M[l + j]
  <2>1. j + 1 \in 2 .. Len(c) /\ j \in 1 .. Len(c) - 1 /\ k + (j + 1) = l + j
    BY <1>4
  <2> QED  BY <1>3, <1>4, <2>1
<1>7. ASSUME d # <<>>  PROVE d[1] = M[l + 1] /\ M[l + 1].copy > 0 /\ d[1] # Triple(0, 0, 0) /\ Head(d) = d[1]
  <2>1. Len(d) > 0 /\ Head(d) = d[1]
    BY <1>4, <1>7, SeqParts
  <2>2. 1 \in 1 .. Len(d) /\ l + 1 \in 1 .. Len(M) /\ l + 1 >= 2
    BY <1>4, <1>5, <2>1
  <2>3. M[l + 1] \in Triples /\ M[l + 1].copy > 0
    BY <2>2, FrameFacts
  <2>4. d[1] = M[l + 1]
    BY <1>6, <2>2
  <2> QED  BY <2>1, <2>3, <2>4, NotNothing
<1>8. /\ p + h.copy + h.del = R[l] + 0 /\ m + h.copy + h.ins = S[l] + 0
  <2>1. R[l] \in Nat /\ S[l] \in Nat
    BY <1>5, PlaceFacts
  <2>2. p + h.copy + h.del = R[l] /\ m + h.copy + h.ins = S[l]
    BY <1>2 DEF HeadIs
  <2> QED  BY <2>1, <2>2
<1>9. LeftFrom(d, M, R, S, p + h.copy + h.del, m + h.copy + h.ins, l, 0)
  <2>1. d # <<>> => 0 + d[1].copy = M[l + 1].copy
    <3> SUFFICES ASSUME d # <<>>  PROVE 0 + d[1].copy = M[l + 1].copy
      OBVIOUS
    <3>1. d[1].copy \in Nat
      BY <1>4, SeqParts
    <3> QED  BY <1>7, <3>1
  <2>2. \A j \in 2 .. Len(d) : d[j] = M[l + j]
    BY <1>4, <1>6
  <2> HIDE DEF d, l, h
  <2> QED  BY <1>4, <1>5, <1>7, <1>8, <2>1, <2>2 DEF LeftFrom
<1> HIDE DEF l
<1>10. Left(d, M, R, S, p + h.copy + h.del, m + h.copy + h.ins)
  BY <1>5, <1>9 DEF Left
<1> QED  BY <1>4, <1>7, <1>10

\* What Copied changes.
LEMMA CopiedFacts ==
  ASSUME NEW c \in Seq(Triples), c # <<>>, NEW n \in Nat, n <= Head(c).copy
  PROVE  LET d == Copied(c, n) IN
         /\ d \in Seq(Triples) /\ d # <<>> /\ Len(d) = Len(c) /\ Head(d) = d[1] /\ Tail(d) = Tail(c)
         /\ d[1].copy = Head(c).copy - n /\ d[1].del = Head(c).del /\ d[1].ins = Head(c).ins
         /\ \A j \in 2 .. Len(c) : d[j] = c[j]
<1> DEFINE e == [Head(c) EXCEPT !.copy = @ - n]
           d == Copied(c, n)
           t == Tail(c)
<1>1. /\ Len(c) \in Nat /\ Len(c) > 0 /\ Head(c) = c[1] /\ c[1] \in Triples
      /\ t \in Seq(Triples) /\ Len(t) = Len(c) - 1
      /\ \A j \in 1 .. Len(c) - 1 : t[j] = c[j + 1]
      /\ c[1].copy \in Nat /\ c[1].del \in Nat /\ c[1].ins \in Nat
  BY SeqParts
<1>2. e \in Triples /\ e.copy = Head(c).copy - n /\ e.del = Head(c).del /\ e.ins = Head(c).ins
  <2> DEFINE h == Head(c)
             y == h.copy
             z == y - n
  <2>1. h \in Triples /\ y \in Nat /\ n <= y
    BY <1>1
  <2> HIDE DEF h, y
  <2>2. z \in Nat
    BY <2>1
  <2> HIDE DEF z
  <2>3. e = [h EXCEPT !.copy = z]
    BY DEF h, y, z
  <2>4. e \in Triples /\ e.copy = z /\ e.del = h.del /\ e.ins = h.ins
    BY <2>1, <2>2, <2>3 DEF Triples
  <2> QED  BY <2>4 DEF h, y, z
<1>3. d = <<e>> \o t
  BY DEF Copied
<1> HIDE DEF e, d, t
<1>4. <<e>> \in Seq(Triples) /\ Len(<<e>>) = 1 /\ <<e>>[1] = e
  BY <1>2
<1>5. /\ d \in Seq(Triples) /\ Len(d) = Len(<<e>>) + Len(t)
      /\ \A i \in 1 .. Len(<<e>>) + Len(t) : d[i] = IF i <= Len(<<e>>) THEN <<e>>[i] ELSE t[i - Len(<<e>>)]
  BY <1>1, <1>3, <1>4, ConcatProperties
<1>6. Len(d) = Len(c) /\ d # <<>>
  BY <1>1, <1>4, <1>5, EmptySeq
<1>7. d[1] = e
  <2>1. 1 \in 1 .. Len(<<e>>) + Len(t) /\ 1 <= Len(<<e>>)
    BY <1>1, <1>4
  <2> QED  BY <1>4, <1>5, <2>1
<1>8. ASSUME NEW j \in 2 .. Len(c)  PROVE d[j] = c[j]
  <2>1. j \in 1 .. Len(<<e>>) + Len(t) /\ ~(j <= Len(<<e>>)) /\ j - Len(<<e>>) = j - 1
        /\ j - 1 \in 1 .. Len(c) - 1 /\ (j - 1) + 1 = j
    BY <1>1, <1>4
  <2>2. d[j] = t[j - 1]
    BY <1>5, <2>1
  <2>3. t[j - 1] = c[(j - 1) + 1]
    BY <1>1, <2>1
  <2> QED  BY <2>1, <2>2, <2>3
<1>9. Head(d) = d[1] /\ Tail(d) \in Seq(Triples) /\ Len(Tail(d)) = Len(d) - 1
      /\ \A j \in 1 .. Len(d) - 1 : Tail(d)[j] = d[j + 1]
  BY <1>5, <1>6, SeqParts
<1>10. Tail(d) = t
  <2>1. ASSUME NEW j \in 1 .. Len(Tail(d))  PROVE Tail(d)[j] = t[j]
    <3>1. j \in 1 .. Len(d) - 1 /\ j \in 1 .. Len(c) - 1 /\ j + 1 \in 2 .. Len(c)
      BY <1>1, <1>6, <1>9
    <3> QED  BY <1>1, <1>8, <1>9, <3>1
  <2> QED  BY <1>1, <1>6, <1>9, <2>1, SeqEqual
<1> QED  BY <1>2, <1>5, <1>6, <1>7, <1>8, <1>9, <1>10 DEF d, t

\* The insertion that comes next.
Pend(c, text, m) == IF c # <<>> /\ Head(c).copy = 0 THEN Lines(text, m, Head(c).ins) ELSE <<>>

\* Some of the lines that the first edit copies are done.
LEMMA LeftCopied ==
  ASSUME NEW L, NEW a, NEW b, NEW M, NEW R, NEW S, Frame(M, R, S, a, b, L),
         NEW c, NEW p, NEW m, Left(c, M, R, S, p, m), c # <<>>, NEW n \in Nat, n <= Head(c).copy
  PROVE  LET f == Finished(Copied(c, n)) IN
         /\ f \in Seq(Triples) /\ Left(f, M, R, S, p + n, m + n)
         /\ n = 0 => f = c
         /\ n < Head(c).copy => f # <<>> /\ Head(f).copy = Head(c).copy - n
         /\ n > 0 => Pend(f, b, m + n) = Inserted(M, b, p + n)
<1> DEFINE h == Head(c)
           d == Copied(c, n)
<1>1. PICK k \in 0 .. Len(M), x \in Nat : LeftFrom(c, M, R, S, p, m, k, x)
  BY DEF Left
<1>2. HeadIs(h, k + 1, M, R, S, p, m, k, x) /\ h = c[1]
  BY <1>1, LeftHead
<1>3. /\ c \in Seq(Triples) /\ Len(c) = Len(M) - k /\ \A j \in 2 .. Len(c) : c[j] = M[k + j]
      /\ c[1] # Triple(0, 0, 0)
  BY <1>1 DEF LeftFrom
<1>4. /\ d \in Seq(Triples) /\ d # <<>> /\ Len(d) = Len(c) /\ Head(d) = d[1] /\ Tail(d) = Tail(c)
      /\ d[1].copy = h.copy - n /\ d[1].del = h.del /\ d[1].ins = h.ins
      /\ \A j \in 2 .. Len(c) : d[j] = c[j]
  BY <1>3, CopiedFacts
<1>5. d[1] \in Triples
  BY <1>4, SeqParts
<1> HIDE DEF h
<1>6. /\ h.copy \in Nat /\ h.del \in Nat /\ h.ins \in Nat /\ R[k] \in Nat /\ S[k] \in Nat
      /\ p \in Nat /\ m \in Nat /\ R[k] + x = p /\ S[k] + x = m /\ x + h.copy = M[k + 1].copy
      /\ h.del = M[k + 1].del /\ h.ins = M[k + 1].ins
      /\ h.copy + h.del + h.ins > 0
  BY <1>2 DEF HeadIs
<1>7. /\ Inserted(M, b, p + h.copy) = Lines(b, m + h.copy, h.ins)
      /\ \A g \in Nat : p < g /\ g <= p + h.copy + h.del /\ g # p + h.copy => Inserted(M, b, g) = <<>>
  BY LeftFacts DEF h
<1>8. /\ Tail(c) \in Seq(Triples) /\ Left(Tail(c), M, R, S, p + h.copy + h.del, m + h.copy + h.ins)
      /\ Tail(c) # <<>> => Head(Tail(c)).copy > 0
  BY LeftTail DEF h
<1>9. n < h.copy => Inserted(M, b, p + n) = <<>> \/ n = 0
  <2> DEFINE y == h.copy
             e == h.del
  <2> SUFFICES ASSUME n < h.copy, n # 0  PROVE Inserted(M, b, p + n) = <<>>
    OBVIOUS
  <2>1. y \in Nat /\ e \in Nat /\ n < y
    BY <1>6
  <2> HIDE DEF y, e
  <2>2. p + n \in Nat /\ p < p + n /\ p + n <= p + y + e /\ p + n # p + y
    BY <1>6, <2>1
  <2> QED  BY <1>7, <2>2 DEF y, e
<1>10. CASE d[1] = Triple(0, 0, 0)
  <2>1. Finished(d) = Tail(c)
    BY <1>4, <1>10 DEF Finished
  <2>2. n = h.copy /\ h.del = 0 /\ h.ins = 0
    <3> DEFINE y == h.copy
    <3>1. d[1].copy = 0 /\ d[1].del = 0 /\ d[1].ins = 0
      BY <1>10 DEF Triple
    <3>2. y \in Nat /\ y - n = 0 /\ h.del = 0 /\ h.ins = 0
      BY <1>4, <1>6, <3>1
    <3> HIDE DEF y
    <3>3. n = y
      BY <3>2
    <3> QED  BY <3>2, <3>3 DEF y
  <2>3. p + h.copy + h.del = p + n /\ m + h.copy + h.ins = m + n
    BY <1>6, <2>2
  <2>4. Pend(Tail(c), b, m + n) = <<>>
    BY <1>8 DEF Pend
  <2>5. Inserted(M, b, p + n) = <<>>
    <3>1. Lines(b, m + n, 0) = <<>>
      <4>1. m + n \in Nat
        BY <1>6
      <4> QED  BY <4>1, LinesNone
    <3> QED  BY <1>7, <2>2, <3>1
  <2>6. n # 0
    BY <1>6, <2>2
  <2> QED  BY <1>6, <1>8, <2>1, <2>2, <2>3, <2>4, <2>5, <2>6 DEF h
<1>11. CASE d[1] # Triple(0, 0, 0)
  <2>1. Finished(d) = d
    BY <1>4, <1>11 DEF Finished
  <2>2. LeftFrom(d, M, R, S, p + n, m + n, k, x + n)
    <3>1. (x + n) + d[1].copy = M[k + 1].copy /\ p + n = R[k] + (x + n) /\ m + n = S[k] + (x + n)
      <4> DEFINE y == h.copy
                 r == R[k]
                 s == S[k]
      <4>1. /\ y \in Nat /\ r \in Nat /\ s \in Nat /\ r + x = p /\ s + x = m /\ x + y = M[k + 1].copy
            /\ d[1].copy = y - n
        BY <1>4, <1>6
      <4> HIDE DEF y, r, s
      <4>2. (x + n) + (y - n) = x + y /\ p + n = r + (x + n) /\ m + n = s + (x + n)
        BY <4>1
      <4> QED  BY <4>1, <4>2 DEF r, s
    <3>2. \A j \in 2 .. Len(d) : d[j] = M[k + j]
      BY <1>3, <1>4
    <3> HIDE DEF d
    <3> QED  BY <1>3, <1>4, <1>6, <1>11, <3>1, <3>2 DEF LeftFrom
  <2>3. Left(d, M, R, S, p + n, m + n)
    <3>1. x + n \in Nat
      OBVIOUS
    <3> QED  BY <2>2, <3>1 DEF Left
  <2>4. n = 0 => d = c
    <3> SUFFICES ASSUME n = 0  PROVE d = c
      OBVIOUS
    <3>1. d[1] = c[1]
      <4>1. c[1] \in Triples /\ d[1].copy = c[1].copy /\ d[1].del = c[1].del /\ d[1].ins = c[1].ins
        BY <1>2, <1>3, <1>4, <1>6, SeqParts
      <4> QED  BY <1>5, <4>1 DEF Triples
    <3>2. \A j \in 1 .. Len(d) : d[j] = c[j]
      <4>1. \A j \in 1 .. Len(d) : j = 1 \/ j \in 2 .. Len(c)
        BY <1>3, <1>4, LenProperties
      <4> QED  BY <1>4, <3>1, <4>1
    <3> HIDE DEF d
    <3> QED  BY <1>3, <1>4, <3>2, SeqEqual
  <2>5. n > 0 => Pend(d, b, m + n) = Inserted(M, b, p + n)
    <3> SUFFICES ASSUME n > 0  PROVE Pend(d, b, m + n) = Inserted(M, b, p + n)
      OBVIOUS
    <3>1. CASE n < h.copy
      <4>1. Head(d).copy # 0 /\ n # 0
        <5> DEFINE u == Head(d).copy
                   v == h.copy
        <5>1. u = v - n /\ v \in Nat /\ n < v
          BY <1>4, <1>6, <3>1
        <5> HIDE DEF u, v
        <5>2. u # 0 /\ n # 0
          BY <5>1
        <5> QED  BY <5>2 DEF u
      <4> QED  BY <1>9, <3>1, <4>1 DEF Pend
    <3>2. CASE n = h.copy
      <4>1. Head(d).copy = 0 /\ Head(d).ins = h.ins
        <5> DEFINE y == h.copy
        <5>1. y \in Nat /\ n = y /\ Head(d).copy = y - n /\ Head(d).ins = h.ins
          BY <1>4, <1>6, <3>2
        <5> HIDE DEF y
        <5> QED  BY <5>1
      <4>2. Pend(d, b, m + n) = Lines(b, m + n, h.ins)
        BY <1>4, <4>1 DEF Pend
      <4> QED  BY <1>7, <3>2, <4>2
    <3> QED  BY <1>6, <3>1, <3>2 DEF h
  <2> QED  BY <1>4, <2>1, <2>3, <2>4, <2>5 DEF h
<1> QED  BY <1>10, <1>11

-----------------------------------------------------------------------------
(* The text with both edits, line by line.                                 *)

Iterates(f, n, C, c0, g) ==
  f \in [0 .. n -> C] /\ f[0] = c0 /\ \A k \in 1 .. n : f[k] = g[<<k, f[k - 1]>>]

\* A function that is defined step by step exists.
LEMMA Iteration ==
  ASSUME NEW n \in Nat, NEW C, NEW c0 \in C, NEW g \in [(1 .. n) \X C -> C]
  PROVE  \E f : Iterates(f, n, C, c0, g)
<1> DEFINE T == {j \in Nat : j <= n => \E f : Iterates(f, j, C, c0, g)}
<1>1. 0 \in T
  <2> DEFINE f == [k \in 0 .. 0 |-> c0]
  <2>1. Iterates(f, 0, C, c0, g)
    BY DEF Iterates
  <2> QED  BY <2>1
<1>2. ASSUME NEW j \in T  PROVE j + 1 \in T
  <2> SUFFICES ASSUME j + 1 <= n  PROVE \E f : Iterates(f, j + 1, C, c0, g)
    OBVIOUS
  <2>1. j \in Nat /\ j <= n /\ j + 1 \in 1 .. n
    OBVIOUS
  <2>2. PICK f : Iterates(f, j, C, c0, g)
    BY <2>1
  <2>3. f[j] \in C /\ f \in [0 .. j -> C] /\ f[0] = c0 /\ \A k \in 1 .. j : f[k] = g[<<k, f[k - 1]>>]
    BY <2>1, <2>2 DEF Iterates
  <2> DEFINE c == g[<<j + 1, f[j]>>]
             h == [k \in 0 .. j + 1 |-> IF k = j + 1 THEN c ELSE f[k]]
  <2>4. c \in C
    BY <2>1, <2>3
  <2> HIDE DEF c
  <2>5. h \in [0 .. j + 1 -> C] /\ h[0] = c0
    BY <2>1, <2>3, <2>4
  <2>6. ASSUME NEW k \in 1 .. j + 1  PROVE h[k] = g[<<k, h[k - 1]>>]
    <3>1. CASE k = j + 1
      <4>1. h[k] = c /\ k - 1 = j /\ h[k - 1] = f[j]
        BY <2>1, <3>1
      <4> QED  BY <3>1, <4>1 DEF c
    <3>2. CASE k # j + 1
      <4>1. k \in 1 .. j /\ h[k] = f[k] /\ h[k - 1] = f[k - 1]
        BY <2>1, <3>2
      <4> QED  BY <2>3, <4>1
    <3> QED  BY <3>1, <3>2
  <2> HIDE DEF h
  <2>7. Iterates(h, j + 1, C, c0, g)
    BY <2>5, <2>6 DEF Iterates
  <2> QED  BY <2>7
<1>3. T = Nat
  <2>1. T \in SUBSET Nat
    OBVIOUS
  <2> HIDE DEF T
  <2> QED  BY <1>1, <1>2, <2>1, SetInduction
<1> QED  BY <1>3

Both(x, z) == IF x = z THEN x ELSE x \o z
Gap(mine, yours, M, Y, g) == Both(Inserted(M, mine, g), Inserted(Y, yours, g))
Line(origin, M, Y, g) == IF Kept(M, g) /\ Kept(Y, g) THEN <<origin[g]>> ELSE <<>>

Growth(U, origin, mine, yours, M, Y, L) ==
  /\ U \in [0 .. Len(origin) -> Seq(L)] /\ U[0] = Gap(mine, yours, M, Y, 0)
  /\ \A g \in 1 .. Len(origin) :
       U[g] = U[g - 1] \o Line(origin, M, Y, g) \o Gap(mine, yours, M, Y, g)

\* Both insertions of a gap are a text.
LEMMA BothType ==
  ASSUME NEW L, NEW x \in Seq(L), NEW z \in Seq(L)
  PROVE  Both(x, z) \in Seq(L) /\ Both(<<>>, x) = x /\ Both(x, <<>>) = x /\ Both(x, x) = x
BY ConcatProperties, ConcatEmptySeq, EmptySeq DEF Both

\* What is inserted is a text.
LEMMA InsertedType ==
  ASSUME NEW L, NEW a, NEW b, NEW M, NEW R, NEW S, Frame(M, R, S, a, b, L), NEW gap
  PROVE  Inserted(M, b, gap) \in Seq(L)
<1>1. CASE \A k \in 1 .. Len(M) : Place(M, R, k) # gap
  <2>1. Inserted(M, b, gap) = <<>>
    BY <1>1, InsertedIs
  <2> QED  BY <2>1, EmptySeq
<1>2. ASSUME NEW k \in 1 .. Len(M), Place(M, R, k) = gap  PROVE Inserted(M, b, gap) \in Seq(L)
  <2> DEFINE n == S[k - 1] + M[k].copy
             i == M[k].ins
  <2>1. Inserted(M, b, gap) = Lines(b, n, i)
    BY <1>2, InsertedIs
  <2>2. b \in Seq(L)
    BY DEF Frame
  <2>3. n \in Nat /\ i \in Nat /\ n + i <= Len(b)
    <3>1. /\ S[k - 1] \in Nat /\ M[k].copy \in Nat /\ M[k].ins \in Nat
          /\ S[k] = S[k - 1] + M[k].copy + M[k].ins /\ S[k] <= Len(b)
      BY FrameFacts, PlaceFacts
    <3> QED  BY <3>1
  <2> HIDE DEF n, i
  <2> QED  BY <2>1, <2>2, <2>3, LinesFacts
<1> QED  BY <1>1, <1>2

\* BothEdits grows line by line.
LEMMA BothIs ==
  ASSUME NEW L, NEW origin \in Seq(L), NEW mine \in Seq(L), NEW yours \in Seq(L), NEW M, NEW Y,
         \A g \in 0 .. Len(origin) : Gap(mine, yours, M, Y, g) \in Seq(L)
  PROVE  \E U : /\ Growth(U, origin, mine, yours, M, Y, L)
                /\ BothEdits(origin, mine, yours, M, Y) = U[Len(origin)]
<1> DEFINE n == Len(origin)
           ins(g) == IF Inserted(M, mine, g) = Inserted(Y, yours, g) THEN Inserted(M, mine, g)
                     ELSE Inserted(M, mine, g) \o Inserted(Y, yours, g)
           body(f, g) == IF g = 0 THEN ins(0)
                         ELSE f[g - 1] \o (IF Kept(M, g) /\ Kept(Y, g) THEN <<origin[g]>> ELSE <<>>) \o ins(g)
           F == CHOOSE f : f = [g \in 0 .. n |-> body(f, g)]
           C == Seq(L)
           gap(g) == Gap(mine, yours, M, Y, g)
           line(g) == Line(origin, M, Y, g)
           grow == [q \in (1 .. n) \X C |-> q[2] \o line(q[1]) \o gap(q[1])]
<1>1. BothEdits(origin, mine, yours, M, Y) = F[n]
  BY DEF BothEdits
<1>2. n \in Nat
  BY LenProperties
<1>3. \A g : ins(g) = gap(g)
  BY DEF Gap, Both
<1>4. \A f, g : body(f, g) = IF g = 0 THEN gap(0) ELSE f[g - 1] \o line(g) \o gap(g)
  <2> HIDE DEF gap
  <2>1. \A g : line(g) = IF Kept(M, g) /\ Kept(Y, g) THEN <<origin[g]>> ELSE <<>>
    BY DEF Line
  <2> HIDE DEF line
  <2> QED  BY <1>3, <2>1
<1>5. \A g \in 0 .. n : gap(g) \in C
  OBVIOUS
<1>6. \A g \in 1 .. n : line(g) \in C
  <2> TAKE g \in 1 .. n
  <2>1. origin[g] \in L
    BY ElementOfSeq
  <2> QED  BY <2>1 DEF Line
<1> HIDE DEF body, gap, line, ins, n
<1>7. grow \in [(1 .. n) \X C -> C]
  <2>1. ASSUME NEW k \in 1 .. n, NEW x \in C  PROVE x \o line(k) \o gap(k) \in C
    <3>1. k \in 0 .. n
      BY <1>2
    <3>2. line(k) \in Seq(L) /\ gap(k) \in Seq(L)
      BY <1>5, <1>6, <3>1
    <3>3. x \o line(k) \in Seq(L)
      BY <3>2, ConcatProperties
    <3> QED  BY <3>2, <3>3, ConcatProperties
  <2> HIDE DEF C
  <2> QED  BY <2>1
<1>8. gap(0) \in C
  BY <1>2, <1>5
<1>9. PICK U : Iterates(U, n, C, gap(0), grow)
  <2> HIDE DEF C, grow
  <2> QED  BY <1>2, <1>7, <1>8, Iteration
<1>10. /\ U \in [0 .. n -> C] /\ U[0] = gap(0) /\ \A k \in 1 .. n : U[k] = U[k - 1] \o line(k) \o gap(k)
  <2>1. /\ U \in [0 .. n -> C] /\ U[0] = gap(0) /\ \A k \in 1 .. n : U[k] = grow[<<k, U[k - 1]>>]
    BY <1>9 DEF Iterates
  <2>2. ASSUME NEW k \in 1 .. n  PROVE U[k] = U[k - 1] \o line(k) \o gap(k)
    <3>1. U[k - 1] \in C
      BY <1>2, <2>1
    <3> HIDE DEF C
    <3> QED  BY <2>1, <3>1
  <2> QED  BY <2>1, <2>2
<1> HIDE DEF grow, C
<1>11. U = [g \in 0 .. n |-> body(U, g)]
  <2>1. ASSUME NEW g \in 0 .. n  PROVE U[g] = body(U, g)
    <3>1. CASE g = 0
      BY <1>4, <1>10, <3>1
    <3>2. CASE g # 0
      <4>1. g \in 1 .. n
        BY <1>2, <3>2
      <4> QED  BY <1>4, <1>10, <3>2, <4>1
    <3> QED  BY <3>1, <3>2
  <2> QED  BY <1>10, <2>1
<1>12. F = [g \in 0 .. n |-> body(F, g)]
  BY <1>11
<1> HIDE DEF F
<1> DEFINE T == {k \in Nat : k <= n => F[k] = U[k]}
<1>13. 0 \in T
  <2>1. 0 \in 0 .. n
    BY <1>2
  <2> QED  BY <1>4, <1>10, <1>12, <2>1
<1>14. ASSUME NEW k \in T  PROVE k + 1 \in T
  <2> SUFFICES ASSUME k + 1 <= n  PROVE F[k + 1] = U[k + 1]
    OBVIOUS
  <2> DEFINE l == k + 1
  <2>1. l \in 1 .. n /\ l \in 0 .. n /\ l # 0 /\ l - 1 = k /\ F[l - 1] = U[l - 1]
    BY <1>2
  <2> HIDE DEF l, T
  <2>2. F[l] = F[l - 1] \o line(l) \o gap(l)
    BY <1>4, <1>12, <2>1
  <2>3. F[l] = U[l]
    BY <1>10, <2>1, <2>2
  <2> QED  BY <2>3 DEF l
<1>15. T = Nat
  <2>1. T \in SUBSET Nat
    OBVIOUS
  <2> HIDE DEF T
  <2> QED  BY <1>13, <1>14, <2>1, SetInduction
<1>16. F[n] = U[n]
  <2>1. n \in T
    BY <1>2, <1>15
  <2> QED  BY <1>2, <2>1
<1>17. Growth(U, origin, mine, yours, M, Y, L)
  BY <1>10 DEF Growth, n, C, gap, line
<1> QED  BY <1>1, <1>16, <1>17 DEF n

Grouped(x, y, z) == (x \o y) \o z = x \o (y \o z)

\* Three texts in a row.
LEMMA Regroup ==
  ASSUME NEW L, NEW x \in Seq(L), NEW y \in Seq(L), NEW z \in Seq(L)
  PROVE  Grouped(x, y, z)
BY ConcatAssociative DEF Grouped

AllKept(M, Y, p, d) == \A g \in Nat : p < g /\ g <= p + d => Kept(M, g) /\ Kept(Y, g)
NoneKept(M, Y, p, d) == \A g \in Nat : p < g /\ g <= p + d => ~(Kept(M, g) /\ Kept(Y, g))

Clean(mine, yours, M, Y, p, d) == \A g \in Nat : p < g /\ g < p + d => Gap(mine, yours, M, Y, g) = <<>>
Typed(mine, yours, M, Y, origin, L) == \A g \in 0 .. Len(origin) : Gap(mine, yours, M, Y, g) \in Seq(L)

Copies(U, origin, mine, yours, M, Y, p, d) ==
  U[p + d] = (U[p] \o Lines(origin, p, d)) \o Gap(mine, yours, M, Y, p + d)
SkipsTo(U, mine, yours, M, Y, p, d) == U[p + d] = U[p] \o Gap(mine, yours, M, Y, p + d)

\* From line p to line q = p + d nothing is inserted, and every line is kept, or none.
LEMMA Steady ==
  ASSUME NEW L, NEW origin \in Seq(L), NEW mine, NEW yours, NEW M, NEW Y, NEW U,
         Growth(U, origin, mine, yours, M, Y, L),
         Typed(mine, yours, M, Y, origin, L),
         NEW p \in Nat, NEW d \in Nat, d > 0, p + d <= Len(origin), Clean(mine, yours, M, Y, p, d)
  PROVE  /\ AllKept(M, Y, p, d) => Copies(U, origin, mine, yours, M, Y, p, d)
         /\ NoneKept(M, Y, p, d) => SkipsTo(U, mine, yours, M, Y, p, d)
<1> DEFINE n == Len(origin)
           gap(g) == Gap(mine, yours, M, Y, g)
           line(g) == Line(origin, M, Y, g)
           All == AllKept(M, Y, p, d)
           No == NoneKept(M, Y, p, d)
           some(e) == IF All THEN Lines(origin, p, e) ELSE <<>>
<1>1. /\ n \in Nat /\ \A g \in 0 .. n : U[g] \in Seq(L) /\ gap(g) \in Seq(L)
      /\ \A g \in 1 .. n : U[g] = U[g - 1] \o line(g) \o gap(g)
  BY LenProperties DEF Growth, Typed
<1>2. \A e \in 0 .. d : some(e) \in Seq(L)
  <2> TAKE e \in 0 .. d
  <2>1. e \in Nat /\ p + e <= n
    BY <1>1
  <2>2. Lines(origin, p, e) \in Seq(L)
    BY <2>1, LinesFacts
  <2> QED  BY <2>2, EmptySeq
<1>3. ASSUME All \/ No, NEW e \in Nat, e + 1 <= d  PROVE some(e) \o line(p + (e + 1)) = some(e + 1)
  <2>1. p + e + 1 = p + (e + 1) /\ p + (e + 1) \in Nat /\ p < p + (e + 1) /\ p + (e + 1) <= p + d
        /\ p + e + 1 <= n /\ p + e \in Nat /\ p + e + 1 \in 1 .. n
    BY <1>1, <1>3
  <2>2. CASE All
    <3>1. line(p + (e + 1)) = <<origin[p + (e + 1)]>>
      BY <2>1, <2>2 DEF Line, AllKept
    <3>2. Lines(origin, p + e, 1) = <<origin[p + (e + 1)]>>
      <4>1. /\ Lines(origin, p + e, 1) \in Seq(L) /\ Len(Lines(origin, p + e, 1)) = 1
            /\ \A i \in 1 .. 1 : Lines(origin, p + e, 1)[i] = origin[(p + e) + i]
        <5> DEFINE q == p + e
                   w == 1
        <5>1. q \in Nat /\ w \in Nat /\ q + w <= Len(origin)
          BY <2>1
        <5> HIDE DEF q, w
        <5>2. /\ Lines(origin, q, w) \in Seq(L) /\ Len(Lines(origin, q, w)) = w
              /\ \A i \in 1 .. w : Lines(origin, q, w)[i] = origin[q + i]
          BY <5>1, LinesFacts
        <5> QED  BY <5>2 DEF q, w
      <4>2. origin[p + (e + 1)] \in L
        BY <2>1, ElementOfSeq
      <4> DEFINE s == Lines(origin, p + e, 1)
                 x == origin[p + (e + 1)]
                 t == <<x>>
      <4>3. s \in Seq(L) /\ Len(s) = 1 /\ s[1] = x
        BY <2>1, <4>1
      <4> HIDE DEF s, x
      <4>4. t \in Seq(L) /\ Len(t) = 1 /\ t[1] = x
        BY <4>2 DEF x
      <4> HIDE DEF t
      <4>5. s = t
        BY <4>3, <4>4, SeqEqual
      <4> QED  BY <4>5 DEF s, t, x
    <3>3. Lines(origin, p, e) \o Lines(origin, p + e, 1) = Lines(origin, p, e + 1)
      BY <2>1, LinesJoin
    <3> QED  BY <2>2, <3>1, <3>2, <3>3
  <2>3. CASE ~All
    <3>1. line(p + (e + 1)) = <<>>
      BY <1>3, <2>1, <2>3 DEF Line, NoneKept
    <3> QED  BY <2>3, <3>1, EmptySeq, ConcatEmptySeq
  <2> QED  BY <2>2, <2>3
<1>4. some(0) = <<>>
  BY LinesNone
<1>5. \A g \in Nat : p < g /\ g < p + d => gap(g) = <<>>
  BY DEF Clean
<1> HIDE DEF gap, line, All, No, some, n
<1> DEFINE W(e) == U[p + e] = U[p] \o some(e)
           T == {i \in Nat : i < d => W(i)}
<1>6. ASSUME All \/ No  PROVE U[p + d] = (U[p] \o some(d)) \o gap(p + d)
  <2>1. 0 \in T
    <3>1. U[p] \in Seq(L) /\ p + 0 = p
      BY <1>1 DEF n
    <3> QED  BY <1>4, <3>1, ConcatEmptySeq
  <2>2. ASSUME NEW e \in T, e + 1 <= d  PROVE U[p + (e + 1)] = (U[p] \o some(e + 1)) \o gap(p + (e + 1))
    <3> DEFINE l == p + (e + 1)
    <3>1. e \in Nat /\ e < d /\ l \in 1 .. n /\ l - 1 = p + e /\ p \in 0 .. n /\ l \in 0 .. n
          /\ e \in 0 .. d /\ e + 1 \in 0 .. d
      BY <1>1, <2>2 DEF n
    <3>2. U[p + e] = U[p] \o some(e)
      BY <3>1
    <3>3. some(e) \o line(l) = some(e + 1)
      BY <1>3, <1>6, <2>2, <3>1
    <3> HIDE DEF l, T
    <3>4. U[l] = U[p + e] \o line(l) \o gap(l)
      BY <1>1, <3>1
    <3>5. U[p] \in Seq(L) /\ some(e) \in Seq(L) /\ line(l) \in Seq(L)
      <4>1. line(l) \in Seq(L)
        <5>1. origin[l] \in L
          BY <3>1, ElementOfSeq DEF n
        <5> QED  BY <5>1 DEF line, Line
      <4> QED  BY <1>1, <1>2, <1>6, <3>1, <4>1
    <3>6. (U[p] \o some(e)) \o line(l) = U[p] \o (some(e) \o line(l))
      <4>1. Grouped(U[p], some(e), line(l))
        BY <3>5, Regroup
      <4> QED  BY <4>1 DEF Grouped
    <3>7. U[l] = (U[p] \o some(e + 1)) \o gap(l)
      BY <3>2, <3>3, <3>4, <3>6
    <3> QED  BY <3>7 DEF l
  <2>3. ASSUME NEW e \in T  PROVE e + 1 \in T
    <3> SUFFICES ASSUME e + 1 < d  PROVE W(e + 1)
      <4> HIDE DEF W
      <4> QED  OBVIOUS
    <3>1. p + (e + 1) \in Nat /\ p < p + (e + 1) /\ p + (e + 1) < p + d /\ e + 1 \in 0 .. d /\ p \in 0 .. n
          /\ e + 1 <= d
      BY <1>1 DEF n
    <3>2. gap(p + (e + 1)) = <<>>
      BY <1>5, <3>1
    <3>3. U[p] \in Seq(L) /\ some(e + 1) \in Seq(L)
      BY <1>1, <1>2, <1>6, <3>1
    <3>4. U[p] \o some(e + 1) \in Seq(L)
      BY <3>3, ConcatProperties
    <3>5. U[p + (e + 1)] = (U[p] \o some(e + 1)) \o gap(p + (e + 1))
      <4> HIDE DEF T
      <4> QED  BY <2>2, <3>1
    <3> HIDE DEF T
    <3> QED  BY <3>2, <3>4, <3>5, ConcatEmptySeq
  <2>4. T = Nat
    <3>1. T \in SUBSET Nat
      OBVIOUS
    <3> HIDE DEF T
    <3> QED  BY <2>1, <2>3, <3>1, SetInduction
  <2> DEFINE e == d - 1
  <2>5. e \in Nat /\ e + 1 <= d /\ e + 1 = d
    OBVIOUS
  <2> HIDE DEF e, T
  <2> QED  BY <2>2, <2>4, <2>5
<1>7. All => U[p + d] = (U[p] \o Lines(origin, p, d)) \o gap(p + d)
  BY <1>6 DEF some
<1>8. No => U[p + d] = U[p] \o gap(p + d)
  <2> SUFFICES ASSUME No  PROVE U[p + d] = U[p] \o gap(p + d)
    OBVIOUS
  <2>1. ~All
    <3>1. p + d \in Nat /\ p < p + d
      OBVIOUS
    <3> QED  BY <3>1 DEF All, No, AllKept, NoneKept
  <2>2. U[p] \in Seq(L)
    BY <1>1 DEF n
  <2> QED  BY <1>6, <2>1, <2>2, ConcatEmptySeq DEF some
<1> QED  BY <1>7, <1>8 DEF All, No, gap, Copies, SkipsTo

-----------------------------------------------------------------------------
(* What is left of the edits of one side, whatever came before.            *)

RestOf(c, M, a, b, L, p, m) == \E R, S : Frame(M, R, S, a, b, L) /\ Left(c, M, R, S, p, m)

\* Nothing is left at the end of both texts.
LEMMA RestEnd ==
  ASSUME NEW L, NEW a, NEW b, NEW M, NEW p, NEW m, RestOf(<<>>, M, a, b, L, p, m)
  PROVE  p = Len(a) /\ m = Len(b) /\ p \in Nat /\ m \in Nat /\ a \in Seq(L) /\ b \in Seq(L)
<1>1. PICK R, S : Frame(M, R, S, a, b, L) /\ Left(<<>>, M, R, S, p, m)
  BY DEF RestOf
<1>2. p = Len(a) /\ m = Len(b)
  BY <1>1, LeftEnd
<1>3. a \in Seq(L) /\ b \in Seq(L)
  BY <1>1 DEF Frame
<1> QED  BY <1>2, <1>3, LenProperties

\* What LeftFacts says.
RestHead(c, h, M, a, b, L, p, m) ==
  /\ a \in Seq(L) /\ b \in Seq(L) /\ c \in Seq(Triples) /\ p \in Nat /\ m \in Nat
  /\ h \in Triples /\ h.copy \in Nat /\ h.del \in Nat /\ h.ins \in Nat /\ h.copy + h.del + h.ins > 0
  /\ p + h.copy + h.del <= Len(a) /\ m + h.copy + h.ins <= Len(b)
  /\ Alike(a, b, p, m, h.copy)
  /\ \A g \in Nat : p < g /\ g <= p + h.copy => Kept(M, g)
  /\ \A g \in Nat : p + h.copy < g /\ g <= p + h.copy + h.del => ~Kept(M, g)
  /\ Inserted(M, b, p + h.copy) = Lines(b, m + h.copy, h.ins)
  /\ \A g \in Nat : p < g /\ g <= p + h.copy + h.del /\ g # p + h.copy => Inserted(M, b, g) = <<>>

\* LeftFacts, without the positions of the edits.
LEMMA RestFacts ==
  ASSUME NEW L, NEW a, NEW b, NEW M, NEW c, NEW p, NEW m, RestOf(c, M, a, b, L, p, m), c # <<>>
  PROVE  RestHead(c, Head(c), M, a, b, L, p, m)
<1>1. PICK R, S : Frame(M, R, S, a, b, L) /\ Left(c, M, R, S, p, m)
  BY DEF RestOf
<1>2. a \in Seq(L) /\ b \in Seq(L)
  BY <1>1 DEF Frame
<1> QED  BY <1>1, <1>2, LeftFacts DEF RestHead

\* LeftTail, without the positions of the edits.
LEMMA RestTail ==
  ASSUME NEW L, NEW a, NEW b, NEW M, NEW c, NEW p, NEW m, RestOf(c, M, a, b, L, p, m), c # <<>>
  PROVE  /\ Tail(c) \in Seq(Triples) /\ Finished(Tail(c)) = Tail(c)
         /\ RestOf(Tail(c), M, a, b, L, p + Head(c).copy + Head(c).del, m + Head(c).copy + Head(c).ins)
         /\ Tail(c) # <<>> => Head(Tail(c)).copy > 0
         /\ Pend(Tail(c), b, m + Head(c).copy + Head(c).ins) = <<>>
<1>1. PICK R, S : Frame(M, R, S, a, b, L) /\ Left(c, M, R, S, p, m)
  BY DEF RestOf
<1>2. /\ Tail(c) \in Seq(Triples)
      /\ Left(Tail(c), M, R, S, p + Head(c).copy + Head(c).del, m + Head(c).copy + Head(c).ins)
      /\ Tail(c) # <<>> => Head(Tail(c)).copy > 0 /\ Head(Tail(c)) # Triple(0, 0, 0)
  BY <1>1, LeftTail
<1>3. RestOf(Tail(c), M, a, b, L, p + Head(c).copy + Head(c).del, m + Head(c).copy + Head(c).ins)
  BY <1>1, <1>2 DEF RestOf
<1>4. Finished(Tail(c)) = Tail(c)
  BY <1>2 DEF Finished
<1>5. Pend(Tail(c), b, m + Head(c).copy + Head(c).ins) = <<>>
  BY <1>2 DEF Pend
<1> QED  BY <1>2, <1>3, <1>4, <1>5

\* LeftCopied, without the positions of the edits.
LEMMA RestCopied ==
  ASSUME NEW L, NEW a, NEW b, NEW M, NEW c, NEW p, NEW m, RestOf(c, M, a, b, L, p, m), c # <<>>,
         NEW n \in Nat, n <= Head(c).copy
  PROVE  LET f == Finished(Copied(c, n)) IN
         /\ f \in Seq(Triples) /\ RestOf(f, M, a, b, L, p + n, m + n)
         /\ n = 0 => f = c
         /\ n < Head(c).copy => f # <<>> /\ Head(f).copy = Head(c).copy - n
         /\ n > 0 => Pend(f, b, m + n) = Inserted(M, b, p + n)
<1>1. PICK R, S : Frame(M, R, S, a, b, L) /\ Left(c, M, R, S, p, m)
  BY DEF RestOf
<1> DEFINE f == Finished(Copied(c, n))
<1>2. /\ f \in Seq(Triples) /\ Left(f, M, R, S, p + n, m + n)
      /\ n = 0 => f = c
      /\ n < Head(c).copy => f # <<>> /\ Head(f).copy = Head(c).copy - n
      /\ n > 0 => Pend(f, b, m + n) = Inserted(M, b, p + n)
  BY <1>1, LeftCopied
<1>3. RestOf(f, M, a, b, L, p + n, m + n)
  <2> HIDE DEF f
  <2> QED  BY <1>1, <1>2 DEF RestOf
<1> HIDE DEF f
<1> QED  BY <1>2, <1>3 DEF f

\* What is consumed is within both texts.
LEMMA RestRange ==
  ASSUME NEW L, NEW a, NEW b, NEW M, NEW c, NEW p, NEW m, RestOf(c, M, a, b, L, p, m)
  PROVE  /\ a \in Seq(L) /\ b \in Seq(L) /\ c \in Seq(Triples)
         /\ p \in Nat /\ m \in Nat /\ p <= Len(a) /\ m <= Len(b) /\ Len(a) \in Nat /\ Len(b) \in Nat
         /\ Pend(c, b, m) \in Seq(L)
<1>1. CASE c = <<>>
  <2>1. p = Len(a) /\ m = Len(b) /\ p \in Nat /\ m \in Nat /\ a \in Seq(L) /\ b \in Seq(L)
    BY <1>1, RestEnd
  <2>2. <<>> \in Seq(Triples) /\ <<>> \in Seq(L)
    BY EmptySeq
  <2> QED  BY <1>1, <2>1, <2>2 DEF Pend
<1>2. CASE c # <<>>
  <2> DEFINE h == Head(c)
  <2>1. RestHead(c, h, M, a, b, L, p, m)
    BY <1>2, RestFacts
  <2> HIDE DEF h
  <2>2. /\ a \in Seq(L) /\ b \in Seq(L) /\ c \in Seq(Triples) /\ p \in Nat /\ m \in Nat
        /\ h.copy \in Nat /\ h.del \in Nat /\ h.ins \in Nat
        /\ p + h.copy + h.del <= Len(a) /\ m + h.copy + h.ins <= Len(b)
    BY <2>1 DEF RestHead
  <2>3. Len(a) \in Nat /\ Len(b) \in Nat
    BY <2>2, LenProperties
  <2>4. p <= Len(a) /\ m <= Len(b)
    BY <2>2, <2>3, NotMore
  <2>5. Pend(c, b, m) \in Seq(L)
    <3>1. CASE h.copy = 0
      <4>1. m + h.ins <= Len(b)
        BY <2>2, <3>1
      <4>2. Lines(b, m, h.ins) \in Seq(L)
        BY <2>2, <4>1, LinesFacts
      <4> QED  BY <3>1, <4>2, <1>2 DEF Pend, h
    <3>2. CASE h.copy # 0
      BY <3>2, EmptySeq DEF Pend, h
    <3> QED  BY <3>1, <3>2
  <2> QED  BY <2>2, <2>3, <2>4, <2>5
<1> QED  BY <1>1, <1>2

\* What is left at first.
LEMMA RestBegin ==
  ASSUME NEW L, NEW a \in Seq(L), NEW b \in Seq(L)
  PROVE  LET M == TextDiff(a, b) IN
         /\ M \in Seq(Triples) /\ RestOf(M, M, a, b, L, 0, 0) /\ Pend(M, b, 0) = Inserted(M, b, 0)
         /\ \A g : Inserted(M, b, g) \in Seq(L)
<1> DEFINE M == TextDiff(a, b)
<1>1. PICK R, S : Frame(M, R, S, a, b, L)
  BY DiffFrame
<1> HIDE DEF M
<1>2. Left(M, M, R, S, 0, 0)
  BY <1>1, LeftBegin
<1>3. RestOf(M, M, a, b, L, 0, 0)
  BY <1>1, <1>2 DEF RestOf
<1>4. M \in Seq(Triples)
  BY <1>1 DEF Frame
<1>5. \A g : Inserted(M, b, g) \in Seq(L)
  BY <1>1, InsertedType
<1>6. Pend(M, b, 0) = Inserted(M, b, 0)
  <2>1. CASE M = <<>>
    <3>1. \A k \in 1 .. Len(M) : Place(M, R, k) # 0
      BY <2>1, EmptySeq
    <3>2. Inserted(M, b, 0) = <<>>
      BY <1>1, <3>1, InsertedIs
    <3> QED  BY <2>1, <3>2 DEF Pend
  <2>2. CASE M # <<>>
    <3> DEFINE h == Head(M)
    <3>1. RestHead(M, h, M, a, b, L, 0, 0)
      BY <1>3, <2>2, RestFacts
    <3>2. h = M[1] /\ h.copy \in Nat /\ 1 \in 1 .. Len(M)
      BY <1>4, <2>2, SeqParts
    <3>3. CASE h.copy = 0
      <4>1. Inserted(M, b, 0 + h.copy) = Lines(b, 0 + h.copy, h.ins)
        BY <3>1 DEF RestHead
      <4> HIDE DEF h
      <4>2. Inserted(M, b, 0) = Lines(b, 0, h.ins)
        BY <3>3, <4>1
      <4> QED  BY <2>2, <3>3, <4>2 DEF Pend, h
    <3>4. CASE h.copy # 0
      <4>1. ASSUME NEW k \in 1 .. Len(M)  PROVE Place(M, R, k) # 0
        <5>1. CASE k = 1
          <6>1. Place(M, R, k) = R[0] + M[1].copy /\ R[0] = 0
            BY <1>1, <5>1 DEF Place, Frame
          <6> HIDE DEF h
          <6> QED  BY <3>2, <3>4, <6>1
        <5>2. CASE k # 1
          <6>1. k >= 2
            BY <5>2
          <6>2. R[k - 1] \in Nat /\ R[k - 1] < Place(M, R, k) /\ Place(M, R, k) \in Nat
            BY <1>1, <6>1, PlaceFacts
          <6> QED  BY <6>2
        <5> QED  BY <5>1, <5>2
      <4>2. Inserted(M, b, 0) = <<>>
        BY <1>1, <4>1, InsertedIs
      <4> QED  BY <3>4, <4>2 DEF Pend
    <3> QED  BY <3>3, <3>4
  <2> QED  BY <2>1, <2>2
<1> QED  BY <1>3, <1>4, <1>5, <1>6 DEF M

-----------------------------------------------------------------------------
(* The steps of the merge.                                                 *)

Texts(origin, mine, yours, M, Y, U, L) ==
  /\ origin \in Seq(L) /\ mine \in Seq(L) /\ yours \in Seq(L)
  /\ Growth(U, origin, mine, yours, M, Y, L)
  /\ \A g : Inserted(M, mine, g) \in Seq(L) /\ Inserted(Y, yours, g) \in Seq(L)

\* What is merged so far is what both edits make of the p lines consumed, but
\* for the insertions that come next.
Stands(p, m, y, out, c1, c2, origin, mine, yours, M, Y, U, L) ==
  /\ RestOf(c1, M, origin, mine, L, p, m) /\ RestOf(c2, Y, origin, yours, L, p, y)
  /\ out \in Seq(L) /\ out \o Both(Pend(c1, mine, m), Pend(c2, yours, y)) = U[p]

Coming(x, z, mine, yours, M, Y, p, d) ==
  /\ d > 0 => x = Inserted(M, mine, p + d) /\ z = Inserted(Y, yours, p + d)
  /\ d = 0 => x = <<>> /\ z = <<>>
Follows(U, p, d, x, z) == U[p] \o Both(x, z) = U[p + d]

\* None of the next d lines is kept, and nothing is inserted between them.
LEMMA Advance ==
  ASSUME NEW L, NEW origin, NEW mine, NEW yours, NEW M, NEW Y, NEW U, Texts(origin, mine, yours, M, Y, U, L),
         NEW p \in Nat, NEW d \in Nat, p + d <= Len(origin), NoneKept(M, Y, p, d), Clean(mine, yours, M, Y, p, d),
         NEW x, NEW z, Coming(x, z, mine, yours, M, Y, p, d)
  PROVE  Follows(U, p, d, x, z)
<1>1. origin \in Seq(L) /\ Growth(U, origin, mine, yours, M, Y, L)
  BY DEF Texts
<1>2. Typed(mine, yours, M, Y, origin, L)
  BY BothType DEF Texts, Gap, Typed
<1>3. Len(origin) \in Nat /\ U[p] \in Seq(L)
  <2>1. Len(origin) \in Nat
    BY <1>1, LenProperties
  <2>2. p \in 0 .. Len(origin)
    BY <2>1
  <2> QED  BY <1>1, <2>1, <2>2 DEF Growth
<1>4. CASE d = 0
  <2>1. Both(x, z) = <<>> /\ p + d = p
    BY <1>4 DEF Both, Coming
  <2> QED  BY <1>3, <2>1, ConcatEmptySeq DEF Follows
<1>5. CASE d > 0
  <2>2. U[p + d] = U[p] \o Gap(mine, yours, M, Y, p + d)
    <3>1. d > 0 /\ p + d <= Len(origin)
      BY <1>5
    <3>2. SkipsTo(U, mine, yours, M, Y, p, d)
      BY <1>1, <1>2, <3>1, Steady
    <3> QED  BY <3>2 DEF SkipsTo
  <2> QED  BY <1>5, <2>2 DEF Gap, Coming, Follows
<1> QED  BY <1>4, <1>5

\* Both sides copy.
LEMMA CopyBoth ==
  ASSUME NEW L, NEW origin, NEW mine, NEW yours, NEW M, NEW Y, NEW U, Texts(origin, mine, yours, M, Y, U, L),
         NEW p, NEW m, NEW y, NEW out, NEW c1, NEW c2,
         Stands(p, m, y, out, c1, c2, origin, mine, yours, M, Y, U, L),
         c1 # <<>>, c2 # <<>>, NEW n \in Nat, n > 0, n <= Head(c1).copy, n <= Head(c2).copy
  PROVE  Stands(p + n, m + n, y + n, out \o Lines(origin, p, n), Finished(Copied(c1, n)), Finished(Copied(c2, n)),
                origin, mine, yours, M, Y, U, L)
<1> DEFINE h1 == Head(c1)
           h2 == Head(c2)
           f1 == Finished(Copied(c1, n))
           f2 == Finished(Copied(c2, n))
<1>1. /\ RestOf(c1, M, origin, mine, L, p, m) /\ RestOf(c2, Y, origin, yours, L, p, y)
      /\ out \in Seq(L) /\ out \o Both(Pend(c1, mine, m), Pend(c2, yours, y)) = U[p]
  BY DEF Stands
<1>2. RestHead(c1, h1, M, origin, mine, L, p, m) /\ RestHead(c2, h2, Y, origin, yours, L, p, y)
  BY <1>1, RestFacts
<1>3. RestOf(f1, M, origin, mine, L, p + n, m + n) /\ Pend(f1, mine, m + n) = Inserted(M, mine, p + n)
  BY <1>1, RestCopied
<1>4. RestOf(f2, Y, origin, yours, L, p + n, y + n) /\ Pend(f2, yours, y + n) = Inserted(Y, yours, p + n)
  BY <1>1, RestCopied
<1>5. Pend(c1, mine, m) = <<>> /\ Pend(c2, yours, y) = <<>>
  BY DEF Pend
<1>6. U[p] = out
  BY <1>1, <1>5, BothType, ConcatEmptySeq, EmptySeq
<1> HIDE DEF h1, h2, f1, f2
<1>7. /\ p \in Nat /\ origin \in Seq(L) /\ Len(origin) \in Nat
      /\ h1.copy \in Nat /\ h1.del \in Nat /\ h2.copy \in Nat /\ h2.del \in Nat
      /\ p + h1.copy + h1.del <= Len(origin)
  BY <1>2, LenProperties DEF RestHead
<1>8. /\ p + n <= Len(origin) /\ p + n \in Nat
      /\ \A g \in Nat : g <= p + n => g <= p + h1.copy /\ g <= p + h2.copy
      /\ \A g \in Nat : g < p + n => /\ g <= p + h1.copy + h1.del /\ g # p + h1.copy
                                     /\ g <= p + h2.copy + h2.del /\ g # p + h2.copy
  <2> DEFINE a1 == h1.copy
             b1 == h1.del
             a2 == h2.copy
             b2 == h2.del
  <2>1. a1 \in Nat /\ b1 \in Nat /\ a2 \in Nat /\ b2 \in Nat /\ n <= a1 /\ n <= a2 /\ p + a1 + b1 <= Len(origin)
    BY <1>7 DEF h1, h2
  <2> HIDE DEF a1, b1, a2, b2
  <2>2. /\ p + n <= Len(origin) /\ p + n \in Nat
        /\ \A g \in Nat : g <= p + n => g <= p + a1 /\ g <= p + a2
        /\ \A g \in Nat : g < p + n => g <= p + a1 + b1 /\ g # p + a1 /\ g <= p + a2 + b2 /\ g # p + a2
    BY <1>7, <2>1
  <2> QED  BY <2>2 DEF a1, b1, a2, b2
<1>9. AllKept(M, Y, p, n)
  BY <1>2, <1>8 DEF RestHead, AllKept
<1>10. Clean(mine, yours, M, Y, p, n)
  <2>1. \A g \in Nat : p < g /\ g < p + n => Inserted(M, mine, g) = <<>> /\ Inserted(Y, yours, g) = <<>>
    BY <1>2, <1>8 DEF RestHead
  <2> QED  BY <2>1 DEF Gap, Both, Clean
<1>11. Typed(mine, yours, M, Y, origin, L)
  BY BothType DEF Texts, Gap, Typed
<1>12. U[p + n] = (U[p] \o Lines(origin, p, n)) \o Gap(mine, yours, M, Y, p + n)
  <2>1. Growth(U, origin, mine, yours, M, Y, L)
    BY DEF Texts
  <2>2. origin \in Seq(L) /\ p \in Nat /\ p + n <= Len(origin)
    BY <1>7, <1>8
  <2>3. Copies(U, origin, mine, yours, M, Y, p, n)
    BY <1>9, <1>10, <1>11, <2>1, <2>2, Steady
  <2> QED  BY <2>3 DEF Copies
<1>13. (out \o Lines(origin, p, n)) \o Both(Pend(f1, mine, m + n), Pend(f2, yours, y + n)) = U[p + n]
  BY <1>3, <1>4, <1>6, <1>12 DEF Gap
<1>14. out \o Lines(origin, p, n) \in Seq(L)
  <2>1. Lines(origin, p, n) \in Seq(L)
    BY <1>7, <1>8, LinesFacts
  <2> QED  BY <1>1, <2>1, ConcatProperties
<1> QED  BY <1>3, <1>4, <1>13, <1>14 DEF Stands, f1, f2

\* One side has an edit where the other copies: c are the edits of the one, of a
\* text b, and cc those of the other, of a text bb.
LEMMA OneAlone ==
  ASSUME NEW L, NEW a, NEW b, NEW bb, NEW M, NEW MM, NEW c, NEW cc, NEW p, NEW m, NEW mm,
         RestOf(c, M, a, b, L, p, m), RestOf(cc, MM, a, bb, L, p, mm), c # <<>>, cc # <<>>,
         Head(c).copy = 0, Head(cc).copy > 0, Head(c).del <= Head(cc).copy
  PROVE  LET d == Head(c).del
             i == Head(c).ins
             f == Finished(Copied(cc, d))
         IN  /\ d \in Nat /\ i \in Nat /\ p \in Nat /\ p + d <= Len(a) /\ m + i <= Len(b) /\ d + i > 0
             /\ RestOf(f, MM, a, bb, L, p + d, mm + d) /\ RestOf(Tail(c), M, a, b, L, p + d, m + i)
             /\ Pend(Tail(c), b, m + i) = <<>> /\ Pend(cc, bb, mm) = <<>>
             /\ Pend(c, b, m) = Lines(b, m, i) /\ Lines(b, m, i) \in Seq(L)
             /\ d = 0 => Pend(f, bb, mm + d) = <<>>
             /\ d > 0 => Pend(f, bb, mm + d) = Inserted(MM, bb, p + d) /\ Inserted(M, b, p + d) = <<>>
             /\ \A g \in Nat : p < g /\ g <= p + d => ~Kept(M, g) /\ Inserted(M, b, g) = <<>>
             /\ \A g \in Nat : p < g /\ g < p + d => Inserted(MM, bb, g) = <<>>
<1> DEFINE h == Head(c)
           hh == Head(cc)
           d == h.del
           i == h.ins
           f == Finished(Copied(cc, d))
<1>1. RestHead(c, h, M, a, b, L, p, m) /\ RestHead(cc, hh, MM, a, bb, L, p, mm)
  BY RestFacts
<1>2. /\ d \in Nat /\ i \in Nat /\ p \in Nat /\ m \in Nat /\ hh.copy \in Nat /\ hh.del \in Nat
      /\ h.copy + d + i > 0 /\ p + h.copy + d <= Len(a) /\ m + h.copy + i <= Len(b)
      /\ a \in Seq(L) /\ b \in Seq(L) /\ mm \in Nat
  BY <1>1 DEF RestHead
<1>3. h.copy = 0 /\ d <= hh.copy /\ hh.copy > 0
  OBVIOUS
<1>4. RestOf(f, MM, a, bb, L, p + d, mm + d) /\ (d = 0 => f = cc) /\ (d > 0 => Pend(f, bb, mm + d) = Inserted(MM, bb, p + d))
  <2>1. d \in Nat /\ d <= Head(cc).copy
    BY <1>2
  <2> HIDE DEF d
  <2> QED  BY <2>1, RestCopied
<1>5. RestOf(Tail(c), M, a, b, L, p + h.copy + h.del, m + h.copy + h.ins) /\ Pend(Tail(c), b, m + h.copy + h.ins) = <<>>
  BY RestTail
<1>6. Pend(cc, bb, mm) = <<>> /\ Pend(c, b, m) = Lines(b, m, i)
  BY DEF Pend
<1> HIDE DEF h, hh, f
<1>7. /\ p + d <= Len(a) /\ m + i <= Len(b) /\ d + i > 0 /\ p + h.copy + h.del = p + d /\ m + h.copy + h.ins = m + i
      /\ p + h.copy = p /\ mm + 0 = mm
  <2> DEFINE x == h.copy
  <2>1. x = 0 /\ d \in Nat /\ i \in Nat
    BY <1>2, <1>3
  <2>2. x + d + i > 0 /\ p + x + d <= Len(a) /\ m + x + i <= Len(b)
    BY <1>2
  <2> HIDE DEF x, d, i
  <2>3. p + d <= Len(a) /\ m + i <= Len(b) /\ d + i > 0 /\ p + x + d = p + d /\ m + x + i = m + i /\ p + x = p /\ mm + 0 = mm
    BY <1>2, <2>1, <2>2
  <2> QED  BY <2>3 DEF x, d, i
<1>8. Lines(b, m, i) \in Seq(L)
  BY <1>2, <1>7, LinesFacts
<1> HIDE DEF d, i
<1>9. d = 0 => Pend(f, bb, mm + d) = <<>>
  BY <1>4, <1>6, <1>7
<1>10. ASSUME NEW g \in Nat, p < g, g <= p + d  PROVE ~Kept(M, g) /\ Inserted(M, b, g) = <<>>
  <2>1. p + h.copy < g /\ g <= p + h.copy + h.del /\ g # p + h.copy
    BY <1>2, <1>7, <1>10
  <2>2. g \in Nat /\ p < g
    BY <1>10
  <2> QED  BY <1>1, <2>1, <2>2 DEF RestHead
<1>11. ASSUME NEW g \in Nat, p < g, g < p + d  PROVE Inserted(MM, bb, g) = <<>>
  <2>1. g <= p + hh.copy + hh.del /\ g # p + hh.copy
    <3> DEFINE x == hh.copy
               y == hh.del
    <3>1. x \in Nat /\ y \in Nat /\ d <= x
      BY <1>2, <1>3
    <3> HIDE DEF x, y
    <3>2. g <= p + x + y /\ g # p + x
      BY <1>2, <1>11, <3>1
    <3> QED  BY <3>2 DEF x, y
  <2> QED  BY <1>1, <1>11, <2>1 DEF RestHead
<1>12. d > 0 => Inserted(M, b, p + d) = <<>>
  <2> SUFFICES ASSUME d > 0  PROVE Inserted(M, b, p + d) = <<>>
    OBVIOUS
  <2>1. p + d \in Nat /\ p < p + d /\ p + d <= p + d
    BY <1>2
  <2> QED  BY <1>10, <2>1
<1>13. RestOf(Tail(c), M, a, b, L, p + d, m + i) /\ Pend(Tail(c), b, m + i) = <<>>
  BY <1>5, <1>7
<1> QED  BY <1>2, <1>4, <1>6, <1>7, <1>8, <1>9, <1>10, <1>11, <1>12, <1>13 DEF d, i, f, h

\* An edit of yours where mine is copied.
LEMMA YoursAlone ==
  ASSUME NEW L, NEW origin, NEW mine, NEW yours, NEW M, NEW Y, NEW U, Texts(origin, mine, yours, M, Y, U, L),
         NEW p, NEW m, NEW y, NEW out, NEW c1, NEW c2,
         Stands(p, m, y, out, c1, c2, origin, mine, yours, M, Y, U, L),
         c1 # <<>>, c2 # <<>>, Head(c2).copy = 0, Head(c1).copy > 0, Head(c2).del <= Head(c1).copy
  PROVE  LET d == Head(c2).del
             i == Head(c2).ins
         IN  Stands(p + d, m + d, y + i, out \o Lines(yours, y, i), Finished(Copied(c1, d)), Tail(c2),
                    origin, mine, yours, M, Y, U, L)
<1> DEFINE d == Head(c2).del
           i == Head(c2).ins
           f == Finished(Copied(c1, d))
<1>1. /\ RestOf(c1, M, origin, mine, L, p, m) /\ RestOf(c2, Y, origin, yours, L, p, y)
      /\ out \in Seq(L) /\ out \o Both(Pend(c1, mine, m), Pend(c2, yours, y)) = U[p]
  BY DEF Stands
<1>2. /\ d \in Nat /\ i \in Nat /\ p \in Nat /\ p + d <= Len(origin)
      /\ RestOf(f, M, origin, mine, L, p + d, m + d) /\ RestOf(Tail(c2), Y, origin, yours, L, p + d, y + i)
      /\ Pend(Tail(c2), yours, y + i) = <<>> /\ Pend(c1, mine, m) = <<>>
      /\ Pend(c2, yours, y) = Lines(yours, y, i) /\ Lines(yours, y, i) \in Seq(L)
      /\ d = 0 => Pend(f, mine, m + d) = <<>>
      /\ d > 0 => Pend(f, mine, m + d) = Inserted(M, mine, p + d) /\ Inserted(Y, yours, p + d) = <<>>
      /\ \A g \in Nat : p < g /\ g <= p + d => ~Kept(Y, g) /\ Inserted(Y, yours, g) = <<>>
      /\ \A g \in Nat : p < g /\ g < p + d => Inserted(M, mine, g) = <<>>
  BY <1>1, OneAlone
<1> HIDE DEF d, i, f
<1>3. out \o Lines(yours, y, i) = U[p] /\ out \o Lines(yours, y, i) \in Seq(L)
  BY <1>1, <1>2, BothType, ConcatProperties
<1>4. NoneKept(M, Y, p, d)
  BY <1>2 DEF NoneKept
<1>5. Clean(mine, yours, M, Y, p, d)
  <2>1. ASSUME NEW g \in Nat, p < g, g < p + d  PROVE Inserted(M, mine, g) = <<>> /\ Inserted(Y, yours, g) = <<>>
    BY <1>2, <2>1
  <2> QED  BY <2>1 DEF Clean, Gap, Both
<1>6. U[p] \o Both(Pend(f, mine, m + d), Pend(Tail(c2), yours, y + i)) = U[p + d]
  <2>1. Coming(Pend(f, mine, m + d), Pend(Tail(c2), yours, y + i), mine, yours, M, Y, p, d)
    BY <1>2 DEF Coming
  <2>2. d \in Nat /\ p \in Nat /\ p + d <= Len(origin)
    BY <1>2
  <2>3. Follows(U, p, d, Pend(f, mine, m + d), Pend(Tail(c2), yours, y + i))
    BY <1>4, <1>5, <2>1, <2>2, Advance
  <2> QED  BY <2>3 DEF Follows
<1> QED  BY <1>2, <1>3, <1>6 DEF Stands, d, i, f

\* An edit of mine where yours is copied.
LEMMA MineAlone ==
  ASSUME NEW L, NEW origin, NEW mine, NEW yours, NEW M, NEW Y, NEW U, Texts(origin, mine, yours, M, Y, U, L),
         NEW p, NEW m, NEW y, NEW out, NEW c1, NEW c2,
         Stands(p, m, y, out, c1, c2, origin, mine, yours, M, Y, U, L),
         c1 # <<>>, c2 # <<>>, Head(c1).copy = 0, Head(c2).copy > 0, Head(c1).del <= Head(c2).copy
  PROVE  LET d == Head(c1).del
             i == Head(c1).ins
         IN  Stands(p + d, m + i, y + d, out \o Lines(mine, m, i), Tail(c1), Finished(Copied(c2, d)),
                    origin, mine, yours, M, Y, U, L)
<1> DEFINE d == Head(c1).del
           i == Head(c1).ins
           f == Finished(Copied(c2, d))
<1>1. /\ RestOf(c1, M, origin, mine, L, p, m) /\ RestOf(c2, Y, origin, yours, L, p, y)
      /\ out \in Seq(L) /\ out \o Both(Pend(c1, mine, m), Pend(c2, yours, y)) = U[p]
  BY DEF Stands
<1>2. /\ d \in Nat /\ i \in Nat /\ p \in Nat /\ p + d <= Len(origin)
      /\ RestOf(f, Y, origin, yours, L, p + d, y + d) /\ RestOf(Tail(c1), M, origin, mine, L, p + d, m + i)
      /\ Pend(Tail(c1), mine, m + i) = <<>> /\ Pend(c2, yours, y) = <<>>
      /\ Pend(c1, mine, m) = Lines(mine, m, i) /\ Lines(mine, m, i) \in Seq(L)
      /\ d = 0 => Pend(f, yours, y + d) = <<>>
      /\ d > 0 => Pend(f, yours, y + d) = Inserted(Y, yours, p + d) /\ Inserted(M, mine, p + d) = <<>>
      /\ \A g \in Nat : p < g /\ g <= p + d => ~Kept(M, g) /\ Inserted(M, mine, g) = <<>>
      /\ \A g \in Nat : p < g /\ g < p + d => Inserted(Y, yours, g) = <<>>
  BY <1>1, OneAlone
<1> HIDE DEF d, i, f
<1>3. out \o Lines(mine, m, i) = U[p] /\ out \o Lines(mine, m, i) \in Seq(L)
  BY <1>1, <1>2, BothType, ConcatProperties
<1>4. NoneKept(M, Y, p, d)
  BY <1>2 DEF NoneKept
<1>5. Clean(mine, yours, M, Y, p, d)
  <2>1. ASSUME NEW g \in Nat, p < g, g < p + d  PROVE Inserted(M, mine, g) = <<>> /\ Inserted(Y, yours, g) = <<>>
    BY <1>2, <2>1
  <2> QED  BY <2>1 DEF Clean, Gap, Both
<1>6. U[p] \o Both(Pend(Tail(c1), mine, m + i), Pend(f, yours, y + d)) = U[p + d]
  <2>1. Coming(Pend(Tail(c1), mine, m + i), Pend(f, yours, y + d), mine, yours, M, Y, p, d)
    BY <1>2 DEF Coming
  <2>2. d \in Nat /\ p \in Nat /\ p + d <= Len(origin)
    BY <1>2
  <2>3. Follows(U, p, d, Pend(Tail(c1), mine, m + i), Pend(f, yours, y + d))
    BY <1>4, <1>5, <2>1, <2>2, Advance
  <2> QED  BY <2>3 DEF Follows
<1> QED  BY <1>2, <1>3, <1>6 DEF Stands, d, i, f

\* An edit that comes before anything is copied.
LEMMA EditNow ==
  ASSUME NEW L, NEW a, NEW b, NEW M, NEW c, NEW p, NEW m, RestOf(c, M, a, b, L, p, m), c # <<>>, Head(c).copy = 0
  PROVE  LET d == Head(c).del
             i == Head(c).ins
         IN  /\ d \in Nat /\ i \in Nat /\ p \in Nat /\ p + d <= Len(a) /\ m + i <= Len(b) /\ d + i > 0
             /\ RestOf(Tail(c), M, a, b, L, p + d, m + i) /\ Pend(Tail(c), b, m + i) = <<>>
             /\ Finished(Tail(c)) = Tail(c) /\ Tail(c) \in Seq(Triples)
             /\ Tail(c) # <<>> => p + d < Len(a)
             /\ Pend(c, b, m) = Lines(b, m, i) /\ Lines(b, m, i) \in Seq(L)
             /\ \A g \in Nat : p < g /\ g <= p + d => ~Kept(M, g) /\ Inserted(M, b, g) = <<>>
<1> DEFINE h == Head(c)
           d == h.del
           i == h.ins
           t == Tail(c)
<1>1. RestHead(c, h, M, a, b, L, p, m)
  BY RestFacts
<1>2. /\ d \in Nat /\ i \in Nat /\ p \in Nat /\ m \in Nat
      /\ h.copy + d + i > 0 /\ p + h.copy + d <= Len(a) /\ m + h.copy + i <= Len(b)
      /\ a \in Seq(L) /\ b \in Seq(L)
  BY <1>1 DEF RestHead
<1>3. h.copy = 0
  OBVIOUS
<1>4. RestOf(t, M, a, b, L, p + h.copy + h.del, m + h.copy + h.ins) /\ Pend(t, b, m + h.copy + h.ins) = <<>>
      /\ Finished(t) = t /\ t \in Seq(Triples) /\ (t # <<>> => Head(t).copy > 0)
  BY RestTail
<1>5. Pend(c, b, m) = Lines(b, m, i)
  BY DEF Pend
<1> HIDE DEF h, t
<1>6. /\ p + d <= Len(a) /\ m + i <= Len(b) /\ d + i > 0 /\ p + h.copy + h.del = p + d /\ m + h.copy + h.ins = m + i
      /\ p + h.copy = p
  <2> DEFINE x == h.copy
  <2>1. x = 0 /\ d \in Nat /\ i \in Nat
    BY <1>2, <1>3
  <2>2. x + d + i > 0 /\ p + x + d <= Len(a) /\ m + x + i <= Len(b)
    BY <1>2
  <2> HIDE DEF x, d, i
  <2>3. p + d <= Len(a) /\ m + i <= Len(b) /\ d + i > 0 /\ p + x + d = p + d /\ m + x + i = m + i /\ p + x = p
    BY <1>2, <2>1, <2>2
  <2> QED  BY <2>3 DEF x, d, i
<1>7. Lines(b, m, i) \in Seq(L)
  BY <1>2, <1>6, LinesFacts
<1> HIDE DEF d, i
<1>8. ASSUME NEW g \in Nat, p < g, g <= p + d  PROVE ~Kept(M, g) /\ Inserted(M, b, g) = <<>>
  <2>1. p + h.copy < g /\ g <= p + h.copy + h.del /\ g # p + h.copy
    BY <1>2, <1>6, <1>8
  <2>2. g \in Nat /\ p < g
    BY <1>8
  <2> QED  BY <1>1, <2>1, <2>2 DEF RestHead
<1>9. RestOf(t, M, a, b, L, p + d, m + i) /\ Pend(t, b, m + i) = <<>>
  BY <1>4, <1>6
<1>10. t # <<>> => p + d < Len(a)
  <2> SUFFICES ASSUME t # <<>>  PROVE p + d < Len(a)
    OBVIOUS
  <2> DEFINE k == Head(t)
  <2>1. RestHead(t, k, M, a, b, L, p + d, m + i)
    BY <1>9, RestFacts
  <2> HIDE DEF k
  <2>2. k.copy \in Nat /\ k.del \in Nat /\ (p + d) + k.copy + k.del <= Len(a)
    BY <2>1 DEF RestHead
  <2>3. k.copy > 0
    BY <1>4 DEF k
  <2> DEFINE x == k.copy
             z == k.del
             q == p + d
  <2>4. x \in Nat /\ z \in Nat /\ q \in Nat /\ q + x + z <= Len(a) /\ x > 0 /\ Len(a) \in Nat
    BY <1>2, <2>2, <2>3, LenProperties
  <2> HIDE DEF x, z, q
  <2>5. q < Len(a)
    BY <2>4
  <2> QED  BY <2>5 DEF q
<1> QED  BY <1>2, <1>4, <1>5, <1>6, <1>7, <1>8, <1>9, <1>10 DEF d, i, h, t

\* Both sides have the same edit.
LEMMA BothAlike ==
  ASSUME NEW L, NEW origin, NEW mine, NEW yours, NEW M, NEW Y, NEW U, Texts(origin, mine, yours, M, Y, U, L),
         NEW p, NEW m, NEW y, NEW out, NEW c1, NEW c2,
         Stands(p, m, y, out, c1, c2, origin, mine, yours, M, Y, U, L),
         c1 # <<>>, c2 # <<>>, Head(c1) = Head(c2), Head(c1).copy = 0,
         Lines(mine, m, Head(c1).ins) = Lines(yours, y, Head(c1).ins)
  PROVE  LET d == Head(c1).del
             i == Head(c1).ins
         IN  Stands(p + d, m + i, y + i, out \o Lines(mine, m, i), Tail(c1), Tail(c2),
                    origin, mine, yours, M, Y, U, L)
<1> DEFINE d == Head(c1).del
           i == Head(c1).ins
<1>1. /\ RestOf(c1, M, origin, mine, L, p, m) /\ RestOf(c2, Y, origin, yours, L, p, y)
      /\ out \in Seq(L) /\ out \o Both(Pend(c1, mine, m), Pend(c2, yours, y)) = U[p]
  BY DEF Stands
<1>2. /\ d \in Nat /\ i \in Nat /\ p \in Nat /\ p + d <= Len(origin)
      /\ RestOf(Tail(c1), M, origin, mine, L, p + d, m + i) /\ Pend(Tail(c1), mine, m + i) = <<>>
      /\ Pend(c1, mine, m) = Lines(mine, m, i) /\ Lines(mine, m, i) \in Seq(L)
      /\ \A g \in Nat : p < g /\ g <= p + d => ~Kept(M, g) /\ Inserted(M, mine, g) = <<>>
  BY <1>1, EditNow
<1>3. /\ RestOf(Tail(c2), Y, origin, yours, L, p + d, y + i) /\ Pend(Tail(c2), yours, y + i) = <<>>
      /\ Pend(c2, yours, y) = Lines(yours, y, i)
      /\ \A g \in Nat : p < g /\ g <= p + d => ~Kept(Y, g) /\ Inserted(Y, yours, g) = <<>>
  <2> DEFINE d2 == Head(c2).del
             i2 == Head(c2).ins
  <2>1. d = d2 /\ i = i2 /\ Head(c2).copy = 0
    OBVIOUS
  <2>2. /\ RestOf(Tail(c2), Y, origin, yours, L, p + d2, y + i2) /\ Pend(Tail(c2), yours, y + i2) = <<>>
        /\ Pend(c2, yours, y) = Lines(yours, y, i2)
        /\ \A g \in Nat : p < g /\ g <= p + d2 => ~Kept(Y, g) /\ Inserted(Y, yours, g) = <<>>
    BY <1>1, <2>1, EditNow
  <2> HIDE DEF d, i, d2, i2
  <2> QED  BY <2>1, <2>2
<1>4. Lines(mine, m, i) = Lines(yours, y, i)
  OBVIOUS
<1> HIDE DEF d, i
<1>5. out \o Lines(mine, m, i) = U[p] /\ out \o Lines(mine, m, i) \in Seq(L)
  BY <1>1, <1>2, <1>3, <1>4, BothType, ConcatProperties
<1>6. NoneKept(M, Y, p, d)
  BY <1>2 DEF NoneKept
<1>7. Clean(mine, yours, M, Y, p, d)
  <2>1. ASSUME NEW g \in Nat, p < g, g < p + d  PROVE Inserted(M, mine, g) = <<>> /\ Inserted(Y, yours, g) = <<>>
    BY <1>2, <1>3, <2>1
  <2> QED  BY <2>1 DEF Clean, Gap, Both
<1>8. d > 0 => Inserted(M, mine, p + d) = <<>> /\ Inserted(Y, yours, p + d) = <<>>
  <2> SUFFICES ASSUME d > 0  PROVE Inserted(M, mine, p + d) = <<>> /\ Inserted(Y, yours, p + d) = <<>>
    OBVIOUS
  <2>1. p + d \in Nat /\ p < p + d /\ p + d <= p + d
    BY <1>2
  <2> QED  BY <1>2, <1>3, <2>1
<1>9. U[p] \o Both(Pend(Tail(c1), mine, m + i), Pend(Tail(c2), yours, y + i)) = U[p + d]
  <2>1. Coming(Pend(Tail(c1), mine, m + i), Pend(Tail(c2), yours, y + i), mine, yours, M, Y, p, d)
    BY <1>2, <1>3, <1>8 DEF Coming
  <2>2. d \in Nat /\ p \in Nat /\ p + d <= Len(origin)
    BY <1>2
  <2>3. Follows(U, p, d, Pend(Tail(c1), mine, m + i), Pend(Tail(c2), yours, y + i))
    BY <1>6, <1>7, <2>1, <2>2, Advance
  <2> QED  BY <2>3 DEF Follows
<1> QED  BY <1>2, <1>3, <1>5, <1>9 DEF Stands, d, i

\* One side is at its end: the other has at most an insertion left.
LEMMA AtEnd ==
  ASSUME NEW L, NEW a, NEW b, NEW bb, NEW M, NEW MM, NEW c, NEW p, NEW m, NEW mm,
         RestOf(c, M, a, b, L, p, m), RestOf(<<>>, MM, a, bb, L, p, mm), c # <<>>
  PROVE  /\ p = Len(a) /\ Head(c).copy = 0 /\ Pend(c, b, m) = Lines(b, m, Head(c).ins)
         /\ Head(c).ins \in Nat /\ m + Head(c).ins = Len(b)
<1> DEFINE h == Head(c)
           t == Tail(c)
<1>1. p = Len(a) /\ p \in Nat
  BY RestEnd
<1>2. RestHead(c, h, M, a, b, L, p, m)
  BY RestFacts
<1>3. h.copy = 0
  <2> HIDE DEF h
  <2> DEFINE x == h.copy
             z == h.del
  <2>1. x \in Nat /\ z \in Nat /\ p + x + z <= Len(a)
    BY <1>2 DEF RestHead
  <2> HIDE DEF x, z
  <2>2. x = 0
    BY <1>1, <2>1
  <2> QED  BY <2>2 DEF x
<1>4. /\ RestOf(t, M, a, b, L, p + h.del, m + h.ins) /\ Pend(c, b, m) = Lines(b, m, h.ins)
      /\ t # <<>> => p + h.del < Len(a)
      /\ p + h.del <= Len(a) /\ h.del \in Nat /\ h.ins \in Nat
  BY <1>3, EditNow
<1> HIDE DEF h, t
<1>5. t = <<>>
  <2>1. ~(p + h.del < Len(a))
    <3> DEFINE z == h.del
    <3>1. z \in Nat
      BY <1>4
    <3> HIDE DEF z
    <3>2. ~(p + z < Len(a))
      BY <1>1, <3>1
    <3> QED  BY <3>2 DEF z
  <2> QED  BY <1>4, <2>1
<1>6. m + h.ins = Len(b)
  BY <1>4, <1>5, RestEnd
<1> QED  BY <1>1, <1>3, <1>4, <1>6 DEF h

-----------------------------------------------------------------------------
(* The steps of MergeStep.                                                 *)

MergeStates(L) ==
  [p : Nat, m : Nat, y : Nat, out : Seq(L), failed : BOOLEAN, c1 : Seq(Triples), c2 : Seq(Triples)]
At(p, m, y, out, failed, c1, c2) ==
  [p |-> p, m |-> m, y |-> y, out |-> out, failed |-> failed, c1 |-> c1, c2 |-> c2]

SetP(s, v) == [s EXCEPT !.p = v]
SetM(s, v) == [s EXCEPT !.m = v]
SetY(s, v) == [s EXCEPT !.y = v]
SetOut(s, v) == [s EXCEPT !.out = v]
SetC1(s, v) == [s EXCEPT !.c1 = v]
SetC2(s, v) == [s EXCEPT !.c2 = v]
SetAll(s, o, pp, mm, yy, d1, d2) ==
  [s EXCEPT !.out = o, !.p = pp, !.m = mm, !.y = yy, !.c1 = d1, !.c2 = d2]
SetMine(s, o, pp, yy, mm, d2, d1) ==
  [s EXCEPT !.out = o, !.p = pp, !.y = yy, !.m = mm, !.c2 = d2, !.c1 = d1]
SetEnd(s, o, d1, d2) == [s EXCEPT !.out = o, !.c1 = d1, !.c2 = d2]
SetDone(s, d1, d2) == [s EXCEPT !.c1 = d1, !.c2 = d2]

\* A state with one field set.
LEMMA PutOne ==
  ASSUME NEW p, NEW m, NEW y, NEW out, NEW f, NEW c1, NEW c2, NEW v, NEW s, s = At(p, m, y, out, f, c1, c2)
  PROVE  /\ SetP(s, v) = At(v, m, y, out, f, c1, c2)
         /\ SetM(s, v) = At(p, v, y, out, f, c1, c2)
         /\ SetY(s, v) = At(p, m, v, out, f, c1, c2)
         /\ SetOut(s, v) = At(p, m, y, v, f, c1, c2)
         /\ SetC1(s, v) = At(p, m, y, out, f, v, c2)
         /\ SetC2(s, v) = At(p, m, y, out, f, c1, v)
<1>1. SetP(s, v) = At(v, m, y, out, f, c1, c2)
  BY DEF At, SetP
<1>2. SetM(s, v) = At(p, v, y, out, f, c1, c2)
  BY DEF At, SetM
<1>3. SetY(s, v) = At(p, m, v, out, f, c1, c2)
  BY DEF At, SetY
<1>4. SetOut(s, v) = At(p, m, y, v, f, c1, c2)
  BY DEF At, SetOut
<1>5. SetC1(s, v) = At(p, m, y, out, f, v, c2)
  BY DEF At, SetC1
<1>6. SetC2(s, v) = At(p, m, y, out, f, c1, v)
  BY DEF At, SetC2
<1> QED  BY <1>1, <1>2, <1>3, <1>4, <1>5, <1>6

\* A state with the fields set that a step of the merge sets.
LEMMA PutAll ==
  ASSUME NEW p, NEW m, NEW y, NEW out, NEW f, NEW c1, NEW c2, NEW s, s = At(p, m, y, out, f, c1, c2),
         NEW o, NEW pp, NEW mm, NEW yy, NEW d1, NEW d2
  PROVE  /\ SetAll(s, o, pp, mm, yy, d1, d2) = At(pp, mm, yy, o, f, d1, d2)
         /\ SetMine(s, o, pp, yy, mm, d2, d1) = At(pp, mm, yy, o, f, d1, d2)
         /\ SetEnd(s, o, d1, d2) = At(p, m, y, o, f, d1, d2)
         /\ SetDone(s, d1, d2) = At(p, m, y, out, f, d1, d2)
<1>1. SetAll(s, o, pp, mm, yy, d1, d2) = SetC2(SetC1(SetY(SetM(SetP(SetOut(s, o), pp), mm), yy), d1), d2)
  BY DEF SetAll, SetP, SetM, SetY, SetOut, SetC1, SetC2
<1>2. SetMine(s, o, pp, yy, mm, d2, d1) = SetC1(SetC2(SetM(SetY(SetP(SetOut(s, o), pp), yy), mm), d2), d1)
  BY DEF SetMine, SetP, SetM, SetY, SetOut, SetC1, SetC2
<1>3. SetEnd(s, o, d1, d2) = SetC2(SetC1(SetOut(s, o), d1), d2)
  BY DEF SetEnd, SetOut, SetC1, SetC2
<1>4. SetDone(s, d1, d2) = SetC2(SetC1(s, d1), d2)
  BY DEF SetDone, SetC1, SetC2
<1>5. SetOut(s, o) = At(p, m, y, o, f, c1, c2)
  BY PutOne
<1>6. SetP(SetOut(s, o), pp) = At(pp, m, y, o, f, c1, c2)
  BY <1>5, PutOne
<1>7. SetM(SetP(SetOut(s, o), pp), mm) = At(pp, mm, y, o, f, c1, c2)
  BY <1>6, PutOne
<1>8. SetY(SetM(SetP(SetOut(s, o), pp), mm), yy) = At(pp, mm, yy, o, f, c1, c2)
  BY <1>7, PutOne
<1>9. SetC1(SetY(SetM(SetP(SetOut(s, o), pp), mm), yy), d1) = At(pp, mm, yy, o, f, d1, c2)
  BY <1>8, PutOne
<1>10. SetAll(s, o, pp, mm, yy, d1, d2) = At(pp, mm, yy, o, f, d1, d2)
  BY <1>1, <1>9, PutOne
<1>11. SetY(SetP(SetOut(s, o), pp), yy) = At(pp, m, yy, o, f, c1, c2)
  BY <1>6, PutOne
<1>12. SetM(SetY(SetP(SetOut(s, o), pp), yy), mm) = At(pp, mm, yy, o, f, c1, c2)
  BY <1>11, PutOne
<1>13. SetC2(SetM(SetY(SetP(SetOut(s, o), pp), yy), mm), d2) = At(pp, mm, yy, o, f, c1, d2)
  BY <1>12, PutOne
<1>14. SetMine(s, o, pp, yy, mm, d2, d1) = At(pp, mm, yy, o, f, d1, d2)
  BY <1>2, <1>13, PutOne
<1>15. SetC1(SetOut(s, o), d1) = At(p, m, y, o, f, d1, c2)
  BY <1>5, PutOne
<1>16. SetEnd(s, o, d1, d2) = At(p, m, y, o, f, d1, d2)
  BY <1>3, <1>15, PutOne
<1>17. SetC1(s, d1) = At(p, m, y, out, f, d1, c2)
  BY PutOne
<1>18. SetDone(s, d1, d2) = At(p, m, y, out, f, d1, d2)
  BY <1>4, <1>17, PutOne
<1> QED  BY <1>10, <1>14, <1>16, <1>18

\* The fields of a state.
LEMMA AtFields ==
  ASSUME NEW p, NEW m, NEW y, NEW out, NEW f, NEW c1, NEW c2, NEW s, s = At(p, m, y, out, f, c1, c2)
  PROVE  s.p = p /\ s.m = m /\ s.y = y /\ s.out = out /\ s.failed = f /\ s.c1 = c1 /\ s.c2 = c2
BY DEF At

EndStep(s, t, mine, yours) ==
  /\ s.c1 = <<>> \/ s.c2 = <<>>
  /\ \E r : /\ t = At(s.p, s.m, s.y, s.out \o r, s.failed, <<>>, <<>>)
            /\ s.c1 # <<>> => r = Lines(mine, s.m, Head(s.c1).ins)
            /\ s.c1 = <<>> /\ s.c2 # <<>> => r = Lines(yours, s.y, Head(s.c2).ins)
            /\ s.c1 = <<>> /\ s.c2 = <<>> => r = <<>>
CopyStep(s, t, origin) ==
  /\ s.c1 # <<>> /\ s.c2 # <<>>
  /\ \E n \in Nat : /\ n > 0 /\ n <= Head(s.c1).copy /\ n <= Head(s.c2).copy
                    /\ t = At(s.p + n, s.m + n, s.y + n, s.out \o Lines(origin, s.p, n), s.failed,
                              Finished(Copied(s.c1, n)), Finished(Copied(s.c2, n)))
YoursNext(s) ==
  /\ s.c1 # <<>> /\ s.c2 # <<>>
  /\ Head(s.c2).copy = 0 /\ Head(s.c1).copy > 0 /\ Head(s.c2).del <= Head(s.c1).copy
YoursStep(s, t, yours) ==
  /\ YoursNext(s)
  /\ t = At(s.p + Head(s.c2).del, s.m + Head(s.c2).del, s.y + Head(s.c2).ins,
            s.out \o Lines(yours, s.y, Head(s.c2).ins), s.failed,
            Finished(Copied(s.c1, Head(s.c2).del)), Tail(s.c2))
MineNext(s) ==
  /\ s.c1 # <<>> /\ s.c2 # <<>>
  /\ Head(s.c1).copy = 0 /\ Head(s.c2).copy > 0 /\ Head(s.c1).del <= Head(s.c2).copy
MineStep(s, t, mine) ==
  /\ MineNext(s)
  /\ t = At(s.p + Head(s.c1).del, s.m + Head(s.c1).ins, s.y + Head(s.c1).del,
            s.out \o Lines(mine, s.m, Head(s.c1).ins), s.failed,
            Tail(s.c1), Finished(Copied(s.c2, Head(s.c1).del)))
SameNext(s, mine, yours) ==
  /\ s.c1 # <<>> /\ s.c2 # <<>>
  /\ Head(s.c1) = Head(s.c2) /\ Head(s.c1).copy = 0
  /\ Lines(mine, s.m, Head(s.c1).ins) = Lines(yours, s.y, Head(s.c1).ins)
SameStep(s, t, mine, yours) ==
  /\ SameNext(s, mine, yours)
  /\ t = At(s.p + Head(s.c1).del, s.m + Head(s.c1).ins, s.y + Head(s.c1).ins,
            s.out \o Lines(mine, s.m, Head(s.c1).ins), s.failed,
            Tail(s.c1), Tail(s.c2))
FailStep(s, t, mine, yours) ==
  /\ s.c1 # <<>> /\ s.c2 # <<>> /\ (Head(s.c1).copy = 0 \/ Head(s.c2).copy = 0)
  /\ ~YoursNext(s) /\ ~MineNext(s) /\ ~SameNext(s, mine, yours)
  /\ t = [s EXCEPT !.failed = TRUE]

Standing(s, origin, mine, yours, M, Y, U, L) ==
  /\ s \in MergeStates(L) /\ ~s.failed
  /\ Stands(s.p, s.m, s.y, s.out, s.c1, s.c2, origin, mine, yours, M, Y, U, L)

\* A step of the merge is the end, a copy, an edit of one side, one of both, or a conflict.
LEMMA StepCases ==
  ASSUME NEW L, NEW origin, NEW mine, NEW yours, NEW M, NEW Y, NEW U, NEW s,
         Standing(s, origin, mine, yours, M, Y, U, L)
  PROVE  LET t == MergeStep(origin, mine, yours, s) IN
         \/ EndStep(s, t, mine, yours) \/ CopyStep(s, t, origin) \/ YoursStep(s, t, yours)
         \/ MineStep(s, t, mine) \/ SameStep(s, t, mine, yours) \/ FailStep(s, t, mine, yours)
<1> DEFINE t == MergeStep(origin, mine, yours, s)
           h1 == Head(s.c1)
           h2 == Head(s.c2)
           n == Min({h1.copy, h2.copy})
           rest == IF s.c1 # <<>> THEN Lines(mine, s.m, h1.ins)
                   ELSE IF s.c2 # <<>> THEN Lines(yours, s.y, h2.ins) ELSE <<>>
           Done(r) == [r EXCEPT !.c1 = Finished(@), !.c2 = Finished(@)]
           byYours == h1.copy >= h2.del /\ h1.copy > 0 /\ h2.del + h2.ins > 0
           byMine == h2.copy >= h1.del /\ h2.copy > 0 /\ h1.del + h1.ins > 0
           alike == h1 = h2 /\ Lines(mine, s.m, h1.ins) = Lines(yours, s.y, h1.ins)
           tCopy == Done([s EXCEPT !.out = @ \o Lines(origin, s.p, n), !.p = @ + n, !.m = @ + n, !.y = @ + n,
                                   !.c1 = Copied(@, n), !.c2 = Copied(@, n)])
           tYours == Done([s EXCEPT !.out = @ \o Lines(yours, s.y, h2.ins), !.p = @ + h2.del,
                                    !.m = @ + h2.del, !.y = @ + h2.ins,
                                    !.c1 = Copied(@, h2.del), !.c2 = Tail(@)])
           tMine == Done([s EXCEPT !.out = @ \o Lines(mine, s.m, h1.ins), !.p = @ + h1.del,
                                   !.y = @ + h1.del, !.m = @ + h1.ins,
                                   !.c2 = Copied(@, h1.del), !.c1 = Tail(@)])
           tSame == Done([s EXCEPT !.out = @ \o Lines(mine, s.m, h1.ins), !.p = @ + h1.del,
                                   !.m = @ + h1.ins, !.y = @ + h1.ins, !.c1 = Tail(@), !.c2 = Tail(@)])
           tEnd == [s EXCEPT !.out = @ \o rest, !.c1 = <<>>, !.c2 = <<>>]
<1>1. s \in MergeStates(L) /\ ~s.failed /\ s.failed = FALSE
      /\ RestOf(s.c1, M, origin, mine, L, s.p, s.m) /\ RestOf(s.c2, Y, origin, yours, L, s.p, s.y)
  BY DEF Standing, Stands, MergeStates
<1>2. s = At(s.p, s.m, s.y, s.out, s.failed, s.c1, s.c2)
  BY <1>1 DEF MergeStates, At
<1>3. t = IF s.failed THEN s
          ELSE IF s.c1 = <<>> \/ s.c2 = <<>> THEN tEnd
          ELSE IF n > 0 THEN tCopy ELSE IF byYours THEN tYours ELSE IF byMine THEN tMine
          ELSE IF alike THEN tSame ELSE [s EXCEPT !.failed = TRUE]
  BY DEF MergeStep
<1>4. tEnd = At(s.p, s.m, s.y, s.out \o rest, s.failed, <<>>, <<>>)
  <2> DEFINE none == <<>>
             o == s.out \o rest
  <2> HIDE DEF none, o
  <2>1. SetEnd(s, o, none, none) = At(s.p, s.m, s.y, o, s.failed, none, none)
    BY <1>2, PutAll
  <2> QED  BY <2>1 DEF SetEnd, none, o
<1>5. tCopy = At(s.p + n, s.m + n, s.y + n, s.out \o Lines(origin, s.p, n), s.failed,
                Finished(Copied(s.c1, n)), Finished(Copied(s.c2, n)))
  <2> DEFINE r == SetAll(s, s.out \o Lines(origin, s.p, n), s.p + n, s.m + n, s.y + n,
                        Copied(s.c1, n), Copied(s.c2, n))
  <2> HIDE DEF n
  <2>1. r = At(s.p + n, s.m + n, s.y + n, s.out \o Lines(origin, s.p, n), s.failed,
             Copied(s.c1, n), Copied(s.c2, n))
    BY <1>2, PutAll
  <2>2. tCopy = SetDone(r, Finished(r.c1), Finished(r.c2))
    BY DEF SetAll, SetDone
  <2> HIDE DEF r
  <2>3. r.c1 = Copied(s.c1, n) /\ r.c2 = Copied(s.c2, n)
    BY <2>1, AtFields
  <2>4. SetDone(r, Finished(r.c1), Finished(r.c2)) = At(s.p + n, s.m + n, s.y + n, s.out \o Lines(origin, s.p, n), s.failed,
             Finished(Copied(s.c1, n)), Finished(Copied(s.c2, n)))
    BY <2>1, <2>3, PutAll
  <2> HIDE DEF tCopy
  <2> QED  BY <2>2, <2>4
<1>6. tYours = At(s.p + h2.del, s.m + h2.del, s.y + h2.ins, s.out \o Lines(yours, s.y, h2.ins), s.failed,
                 Finished(Copied(s.c1, h2.del)), Finished(Tail(s.c2)))
  <2> DEFINE r == SetAll(s, s.out \o Lines(yours, s.y, h2.ins), s.p + h2.del, s.m + h2.del, s.y + h2.ins,
                        Copied(s.c1, h2.del), Tail(s.c2))
  <2> HIDE DEF h2
  <2>1. r = At(s.p + h2.del, s.m + h2.del, s.y + h2.ins, s.out \o Lines(yours, s.y, h2.ins), s.failed,
             Copied(s.c1, h2.del), Tail(s.c2))
    BY <1>2, PutAll
  <2>2. tYours = SetDone(r, Finished(r.c1), Finished(r.c2))
    BY DEF SetAll, SetDone
  <2> HIDE DEF r
  <2>3. r.c1 = Copied(s.c1, h2.del) /\ r.c2 = Tail(s.c2)
    BY <2>1, AtFields
  <2>4. SetDone(r, Finished(r.c1), Finished(r.c2)) = At(s.p + h2.del, s.m + h2.del, s.y + h2.ins, s.out \o Lines(yours, s.y, h2.ins), s.failed,
             Finished(Copied(s.c1, h2.del)), Finished(Tail(s.c2)))
    BY <2>1, <2>3, PutAll
  <2> HIDE DEF tYours
  <2> QED  BY <2>2, <2>4
<1>7. tMine = At(s.p + h1.del, s.m + h1.ins, s.y + h1.del, s.out \o Lines(mine, s.m, h1.ins), s.failed,
                Finished(Tail(s.c1)), Finished(Copied(s.c2, h1.del)))
  <2> DEFINE r == SetMine(s, s.out \o Lines(mine, s.m, h1.ins), s.p + h1.del, s.y + h1.del, s.m + h1.ins,
                        Copied(s.c2, h1.del), Tail(s.c1))
  <2> HIDE DEF h1
  <2>1. r = At(s.p + h1.del, s.m + h1.ins, s.y + h1.del, s.out \o Lines(mine, s.m, h1.ins), s.failed,
             Tail(s.c1), Copied(s.c2, h1.del))
    BY <1>2, PutAll
  <2>2. tMine = SetDone(r, Finished(r.c1), Finished(r.c2))
    BY DEF SetMine, SetDone
  <2> HIDE DEF r
  <2>3. r.c1 = Tail(s.c1) /\ r.c2 = Copied(s.c2, h1.del)
    BY <2>1, AtFields
  <2>4. SetDone(r, Finished(r.c1), Finished(r.c2)) = At(s.p + h1.del, s.m + h1.ins, s.y + h1.del, s.out \o Lines(mine, s.m, h1.ins), s.failed,
             Finished(Tail(s.c1)), Finished(Copied(s.c2, h1.del)))
    BY <2>1, <2>3, PutAll
  <2> HIDE DEF tMine
  <2> QED  BY <2>2, <2>4
<1>8. tSame = At(s.p + h1.del, s.m + h1.ins, s.y + h1.ins, s.out \o Lines(mine, s.m, h1.ins), s.failed,
                Finished(Tail(s.c1)), Finished(Tail(s.c2)))
  <2> DEFINE r == SetAll(s, s.out \o Lines(mine, s.m, h1.ins), s.p + h1.del, s.m + h1.ins, s.y + h1.ins,
                        Tail(s.c1), Tail(s.c2))
  <2> HIDE DEF h1
  <2>1. r = At(s.p + h1.del, s.m + h1.ins, s.y + h1.ins, s.out \o Lines(mine, s.m, h1.ins), s.failed,
             Tail(s.c1), Tail(s.c2))
    BY <1>2, PutAll
  <2>2. tSame = SetDone(r, Finished(r.c1), Finished(r.c2))
    BY DEF SetAll, SetDone
  <2> HIDE DEF r
  <2>3. r.c1 = Tail(s.c1) /\ r.c2 = Tail(s.c2)
    BY <2>1, AtFields
  <2>4. SetDone(r, Finished(r.c1), Finished(r.c2)) = At(s.p + h1.del, s.m + h1.ins, s.y + h1.ins, s.out \o Lines(mine, s.m, h1.ins), s.failed,
             Finished(Tail(s.c1)), Finished(Tail(s.c2)))
    BY <2>1, <2>3, PutAll
  <2> HIDE DEF tSame
  <2> QED  BY <2>2, <2>4
<1> HIDE DEF t, tEnd, tCopy, tYours, tMine, tSame
<1>9. CASE s.c1 = <<>> \/ s.c2 = <<>>
  <2>1. t = At(s.p, s.m, s.y, s.out \o rest, s.failed, <<>>, <<>>)
    BY <1>1, <1>3, <1>4, <1>9
  <2>2. EndStep(s, t, mine, yours)
    BY <1>9, <2>1 DEF EndStep
  <2> QED  BY <2>2 DEF t
<1>10. CASE s.c1 # <<>> /\ s.c2 # <<>>
  <2>1. RestHead(s.c1, h1, M, origin, mine, L, s.p, s.m) /\ RestHead(s.c2, h2, Y, origin, yours, L, s.p, s.y)
    BY <1>1, <1>10, RestFacts
  <2>2. Finished(Tail(s.c1)) = Tail(s.c1) /\ Finished(Tail(s.c2)) = Tail(s.c2)
    BY <1>1, <1>10, RestTail
  <2>3. h1.copy \in Nat /\ h2.copy \in Nat /\ h1.del \in Nat /\ h2.del \in Nat /\ h1.ins \in Nat /\ h2.ins \in Nat
        /\ h1.copy + h1.del + h1.ins > 0 /\ h2.copy + h2.del + h2.ins > 0
    BY <2>1 DEF RestHead
  <2>4. n \in {h1.copy, h2.copy} /\ n <= h1.copy /\ n <= h2.copy /\ n \in Nat
    <3>1. {h1.copy, h2.copy} \in SUBSET Nat /\ {h1.copy, h2.copy} # {}
      BY <2>3
    <3>2. Min({h1.copy, h2.copy}) \in {h1.copy, h2.copy} /\ \A x \in {h1.copy, h2.copy} : Min({h1.copy, h2.copy}) <= x
      BY <3>1, MinOf
    <3> QED  BY <2>3, <3>2
  <2> HIDE DEF n
  <2>5. CASE n > 0
    <3>1. t = tCopy
      BY <1>1, <1>3, <1>10, <2>5
    <3>2. CopyStep(s, t, origin)
      BY <1>5, <1>10, <2>4, <2>5, <3>1 DEF CopyStep
    <3> QED  BY <3>2 DEF t
  <2>6. CASE ~(n > 0)
    <3>1. n = 0 /\ (h1.copy = 0 \/ h2.copy = 0)
      BY <2>4, <2>6
    <3>2. byYours <=> YoursNext(s)
      <4>1. ASSUME byYours  PROVE YoursNext(s)
        <5>1. h2.copy = 0
          BY <3>1, <4>1
        <5> QED  BY <1>10, <2>3, <4>1, <5>1 DEF YoursNext
      <4>2. ASSUME YoursNext(s)  PROVE byYours
        <5>1. h2.copy = 0 /\ h1.copy > 0 /\ h2.del <= h1.copy
          BY <4>2 DEF YoursNext
        <5> HIDE DEF h1, h2
        <5>2. h2.del + h2.ins > 0
          <6> DEFINE x == h2.copy
                     z == h2.del
                     w == h2.ins
          <6>1. x = 0 /\ z \in Nat /\ w \in Nat /\ x + z + w > 0
            BY <2>3, <5>1
          <6> HIDE DEF x, z, w
          <6>2. z + w > 0
            BY <6>1
          <6> QED  BY <6>2 DEF z, w
        <5> QED  BY <2>3, <5>1, <5>2
      <4> HIDE DEF byYours
      <4> QED  BY <4>1, <4>2
    <3>3. byMine <=> MineNext(s)
      <4>1. ASSUME byMine  PROVE MineNext(s)
        <5>1. h1.copy = 0
          BY <3>1, <4>1
        <5> QED  BY <1>10, <2>3, <4>1, <5>1 DEF MineNext
      <4>2. ASSUME MineNext(s)  PROVE byMine
        <5>1. h1.copy = 0 /\ h2.copy > 0 /\ h1.del <= h2.copy
          BY <4>2 DEF MineNext
        <5> HIDE DEF h1, h2
        <5>2. h1.del + h1.ins > 0
          <6> DEFINE x == h1.copy
                     z == h1.del
                     w == h1.ins
          <6>1. x = 0 /\ z \in Nat /\ w \in Nat /\ x + z + w > 0
            BY <2>3, <5>1
          <6> HIDE DEF x, z, w
          <6>2. z + w > 0
            BY <6>1
          <6> QED  BY <6>2 DEF z, w
        <5> QED  BY <2>3, <5>1, <5>2
      <4> HIDE DEF byMine
      <4> QED  BY <4>1, <4>2
    <3>4. alike <=> SameNext(s, mine, yours)
      <4>1. h1 = h2 => h1.copy = 0
        BY <3>1
      <4> QED  BY <1>10, <4>1 DEF SameNext
    <3>5. t = IF YoursNext(s) THEN tYours ELSE IF MineNext(s) THEN tMine
              ELSE IF SameNext(s, mine, yours) THEN tSame ELSE [s EXCEPT !.failed = TRUE]
      <4> HIDE DEF byYours, byMine, alike
      <4> QED  BY <1>1, <1>3, <1>10, <2>6, <3>2, <3>3, <3>4
    <3>6. CASE YoursNext(s)
      <4>1. YoursStep(s, t, yours)
        BY <1>6, <2>2, <3>5, <3>6 DEF YoursStep
      <4> QED  BY <4>1 DEF t
    <3>7. CASE ~YoursNext(s) /\ MineNext(s)
      <4>1. MineStep(s, t, mine)
        BY <1>7, <2>2, <3>5, <3>7 DEF MineStep
      <4> QED  BY <4>1 DEF t
    <3>8. CASE ~YoursNext(s) /\ ~MineNext(s) /\ SameNext(s, mine, yours)
      <4>1. SameStep(s, t, mine, yours)
        BY <1>8, <2>2, <3>5, <3>8 DEF SameStep
      <4> QED  BY <4>1 DEF t
    <3>9. CASE ~YoursNext(s) /\ ~MineNext(s) /\ ~SameNext(s, mine, yours)
      <4>1. FailStep(s, t, mine, yours)
        BY <1>10, <3>1, <3>5, <3>9 DEF FailStep
      <4> QED  BY <4>1 DEF t
    <3> QED  BY <3>6, <3>7, <3>8, <3>9
  <2> QED  BY <2>5, <2>6
<1> QED  BY <1>9, <1>10

-----------------------------------------------------------------------------
(* What a step keeps, and how many steps there can be.                     *)

MergeEnded(s, origin, U, L) ==
  s \in MergeStates(L) /\ ~s.failed /\ s.c1 = <<>> /\ s.c2 = <<>> /\ s.out = U[Len(origin)]
Remaining(s, origin, mine, yours) == (Len(origin) - s.p) + (Len(mine) - s.m) + (Len(yours) - s.y)
Onwards(t, s, origin, mine, yours, M, Y, U, L) ==
  /\ Standing(t, origin, mine, yours, M, Y, U, L)
  /\ Remaining(t, origin, mine, yours) + 1 <= Remaining(s, origin, mine, yours)

\* What remains is a number, and not more than there is.
LEMMA RemainingIs ==
  ASSUME NEW L, NEW origin, NEW mine, NEW yours, NEW M, NEW Y, NEW U, NEW s,
         Standing(s, origin, mine, yours, M, Y, U, L)
  PROVE  /\ Remaining(s, origin, mine, yours) \in Nat
         /\ Remaining(s, origin, mine, yours) <= Len(origin) + Len(mine) + Len(yours)
         /\ s.p \in Nat /\ s.m \in Nat /\ s.y \in Nat
         /\ Len(origin) \in Nat /\ Len(mine) \in Nat /\ Len(yours) \in Nat
<1>1. RestOf(s.c1, M, origin, mine, L, s.p, s.m) /\ RestOf(s.c2, Y, origin, yours, L, s.p, s.y)
  BY DEF Standing, Stands
<1>2. /\ s.p \in Nat /\ s.m \in Nat /\ s.y \in Nat
      /\ s.p <= Len(origin) /\ s.m <= Len(mine) /\ s.y <= Len(yours)
      /\ Len(origin) \in Nat /\ Len(mine) \in Nat /\ Len(yours) \in Nat
  BY <1>1, RestRange
<1> DEFINE a == s.p
           b == s.m
           c == s.y
           la == Len(origin)
           lb == Len(mine)
           lc == Len(yours)
<1>3. Remaining(s, origin, mine, yours) = (la - a) + (lb - b) + (lc - c)
  BY DEF Remaining
<1> HIDE DEF a, b, c, la, lb, lc
<1>4. a \in Nat /\ b \in Nat /\ c \in Nat /\ a <= la /\ b <= lb /\ c <= lc /\ la \in Nat /\ lb \in Nat /\ lc \in Nat
  BY <1>2 DEF a, b, c, la, lb, lc
<1>5. (la - a) + (lb - b) + (lc - c) \in Nat /\ (la - a) + (lb - b) + (lc - c) <= la + lb + lc
  BY <1>4
<1> QED  BY <1>2, <1>3, <1>5 DEF la, lb, lc

\* A step that consumes a line leaves less.
LEMMA Moved ==
  ASSUME NEW L, NEW origin, NEW mine, NEW yours, NEW M, NEW Y, NEW U, NEW s, NEW t,
         Standing(s, origin, mine, yours, M, Y, U, L),
         NEW p, NEW m, NEW y, NEW out, NEW c1, NEW c2, t = At(p, m, y, out, s.failed, c1, c2),
         Stands(p, m, y, out, c1, c2, origin, mine, yours, M, Y, U, L),
         p + m + y >= s.p + s.m + s.y + 1
  PROVE  Onwards(t, s, origin, mine, yours, M, Y, U, L)
<1>1. t.p = p /\ t.m = m /\ t.y = y /\ t.out = out /\ t.failed = s.failed /\ t.c1 = c1 /\ t.c2 = c2
  BY AtFields
<1>2. s.failed = FALSE
  BY DEF Standing, MergeStates
<1>3. RestOf(c1, M, origin, mine, L, p, m) /\ RestOf(c2, Y, origin, yours, L, p, y) /\ out \in Seq(L)
  BY DEF Stands
<1>4. /\ c1 \in Seq(Triples) /\ c2 \in Seq(Triples) /\ p \in Nat /\ m \in Nat /\ y \in Nat
      /\ p <= Len(origin) /\ m <= Len(mine) /\ y <= Len(yours)
      /\ Len(origin) \in Nat /\ Len(mine) \in Nat /\ Len(yours) \in Nat
  BY <1>3, RestRange
<1>5. t \in MergeStates(L)
  BY <1>2, <1>3, <1>4 DEF MergeStates, At
<1>6. Standing(t, origin, mine, yours, M, Y, U, L)
  BY <1>1, <1>2, <1>5 DEF Standing
<1>7. s.p \in Nat /\ s.m \in Nat /\ s.y \in Nat
  BY RemainingIs
<1> DEFINE a == s.p
           b == s.m
           c == s.y
           la == Len(origin)
           lb == Len(mine)
           lc == Len(yours)
<1>8. Remaining(s, origin, mine, yours) = (la - a) + (lb - b) + (lc - c)
  BY DEF Remaining
<1>9. Remaining(t, origin, mine, yours) = (la - p) + (lb - m) + (lc - y)
  BY <1>1 DEF Remaining
<1>10. a \in Nat /\ b \in Nat /\ c \in Nat /\ la \in Nat /\ lb \in Nat /\ lc \in Nat /\ p + m + y >= a + b + c + 1
  BY <1>4, <1>7
<1> HIDE DEF a, b, c, la, lb, lc
<1>11. (la - p) + (lb - m) + (lc - y) + 1 <= (la - a) + (lb - b) + (lc - c)
  BY <1>4, <1>10
<1> QED  BY <1>6, <1>8, <1>9, <1>11 DEF Onwards

\* The last step completes the text.
LEMMA LastStep ==
  ASSUME NEW L, NEW origin, NEW mine, NEW yours, NEW M, NEW Y, NEW U, Texts(origin, mine, yours, M, Y, U, L),
         NEW s, NEW t, Standing(s, origin, mine, yours, M, Y, U, L), EndStep(s, t, mine, yours)
  PROVE  MergeEnded(t, origin, U, L)
<1> DEFINE x == Pend(s.c1, mine, s.m)
           z == Pend(s.c2, yours, s.y)
<1>1. PICK r : /\ t = At(s.p, s.m, s.y, s.out \o r, s.failed, <<>>, <<>>)
               /\ s.c1 # <<>> => r = Lines(mine, s.m, Head(s.c1).ins)
               /\ s.c1 = <<>> /\ s.c2 # <<>> => r = Lines(yours, s.y, Head(s.c2).ins)
               /\ s.c1 = <<>> /\ s.c2 = <<>> => r = <<>>
  BY DEF EndStep
<1>2. /\ RestOf(s.c1, M, origin, mine, L, s.p, s.m) /\ RestOf(s.c2, Y, origin, yours, L, s.p, s.y)
      /\ s.out \in Seq(L) /\ s.out \o Both(x, z) = U[s.p] /\ s.failed = FALSE
  BY DEF Standing, Stands, MergeStates
<1>3. /\ s.p \in Nat /\ s.m \in Nat /\ s.y \in Nat /\ x \in Seq(L) /\ z \in Seq(L)
  BY <1>2, RestRange
<1>4. s.p = Len(origin) /\ r = Both(x, z)
  <2>1. CASE s.c1 = <<>> /\ s.c2 = <<>>
    <3>1. s.p = Len(origin)
      <4>1. RestOf(<<>>, M, origin, mine, L, s.p, s.m)
        BY <1>2, <2>1
      <4> QED  BY <4>1, RestEnd
    <3>2. x = <<>> /\ z = <<>>
      BY <2>1 DEF Pend
    <3>3. Both(x, z) = <<>>
      BY <3>2 DEF Both
    <3> QED  BY <1>1, <2>1, <3>1, <3>3
  <2>2. CASE s.c1 # <<>>
    <3>1. s.c2 = <<>>
      BY <2>2 DEF EndStep
    <3>2. RestOf(<<>>, Y, origin, yours, L, s.p, s.y)
      BY <1>2, <3>1
    <3>3. s.p = Len(origin) /\ x = Lines(mine, s.m, Head(s.c1).ins)
      BY <1>2, <2>2, <3>2, AtEnd
    <3>4. z = <<>>
      BY <3>1 DEF Pend
    <3>5. Both(x, z) = x
      <4> HIDE DEF x, z
      <4> QED  BY <1>3, <3>4, BothType
    <3> QED  BY <1>1, <2>2, <3>3, <3>5
  <2>3. CASE s.c1 = <<>> /\ s.c2 # <<>>
    <3>1. RestOf(<<>>, M, origin, mine, L, s.p, s.m)
      BY <1>2, <2>3
    <3>2. s.p = Len(origin) /\ z = Lines(yours, s.y, Head(s.c2).ins)
      BY <1>2, <2>3, <3>1, AtEnd
    <3>3. x = <<>>
      BY <2>3 DEF Pend
    <3>4. Both(x, z) = z
      <4> HIDE DEF x, z
      <4> QED  BY <1>3, <3>3, BothType
    <3> QED  BY <1>1, <2>3, <3>2, <3>4
  <2> QED  BY <2>1, <2>2, <2>3
<1> DEFINE out == s.out \o r
<1>5. out = U[Len(origin)] /\ out \in Seq(L)
  <2>1. out = U[Len(origin)]
    BY <1>2, <1>4
  <2>2. Both(x, z) \in Seq(L)
    <3> HIDE DEF x, z
    <3> QED  BY <1>3, BothType
  <2>3. out \in Seq(L)
    <3> HIDE DEF x, z
    <3> QED  BY <1>2, <1>4, <2>2, ConcatProperties
  <2> QED  BY <2>1, <2>3
<1> DEFINE none == <<>>
<1>6. none \in Seq(Triples)
  BY EmptySeq
<1> HIDE DEF none, out
<1>7. t = At(s.p, s.m, s.y, out, s.failed, none, none)
  BY <1>1 DEF none, out
<1>8. t.p = s.p /\ t.m = s.m /\ t.y = s.y /\ t.out = out /\ t.failed = s.failed /\ t.c1 = none /\ t.c2 = none
  BY <1>7, AtFields
<1>9. t \in MergeStates(L)
  BY <1>2, <1>3, <1>5, <1>6, <1>7 DEF MergeStates, At
<1> QED  BY <1>2, <1>5, <1>8, <1>9 DEF MergeEnded, none

\* All the steps but the last and the one that fails.
LEMMA StepOn ==
  ASSUME NEW L, NEW origin, NEW mine, NEW yours, NEW M, NEW Y, NEW U, Texts(origin, mine, yours, M, Y, U, L),
         NEW s, NEW t, Standing(s, origin, mine, yours, M, Y, U, L),
         CopyStep(s, t, origin) \/ YoursStep(s, t, yours) \/ MineStep(s, t, mine) \/ SameStep(s, t, mine, yours)
  PROVE  Onwards(t, s, origin, mine, yours, M, Y, U, L)
<1>2. /\ RestOf(s.c1, M, origin, mine, L, s.p, s.m) /\ RestOf(s.c2, Y, origin, yours, L, s.p, s.y)
      /\ Stands(s.p, s.m, s.y, s.out, s.c1, s.c2, origin, mine, yours, M, Y, U, L)
  BY DEF Standing, Stands
<1>3. s.p \in Nat /\ s.m \in Nat /\ s.y \in Nat
  BY RemainingIs
<1>5. CASE CopyStep(s, t, origin)
  <2>1. PICK n \in Nat : /\ n > 0 /\ n <= Head(s.c1).copy /\ n <= Head(s.c2).copy
                         /\ t = At(s.p + n, s.m + n, s.y + n, s.out \o Lines(origin, s.p, n), s.failed,
                                   Finished(Copied(s.c1, n)), Finished(Copied(s.c2, n)))
    BY <1>5 DEF CopyStep
  <2>2. Stands(s.p + n, s.m + n, s.y + n, s.out \o Lines(origin, s.p, n), Finished(Copied(s.c1, n)),
               Finished(Copied(s.c2, n)), origin, mine, yours, M, Y, U, L)
    BY <1>2, <1>5, <2>1, CopyBoth DEF CopyStep
  <2>3. (s.p + n) + (s.m + n) + (s.y + n) >= s.p + s.m + s.y + 1
    BY <1>3, <2>1
  <2>4. Onwards(t, s, origin, mine, yours, M, Y, U, L)
    BY <2>1, <2>2, <2>3, Moved
  <2> QED  BY <2>4
<1>6. CASE YoursStep(s, t, yours)
  <2> DEFINE d == Head(s.c2).del
             i == Head(s.c2).ins
  <2>1. /\ s.c1 # <<>> /\ s.c2 # <<>>
        /\ Head(s.c2).copy = 0 /\ Head(s.c1).copy > 0 /\ Head(s.c2).del <= Head(s.c1).copy
        /\ t = At(s.p + d, s.m + d, s.y + i, s.out \o Lines(yours, s.y, i), s.failed,
                  Finished(Copied(s.c1, d)), Tail(s.c2))
    BY <1>6 DEF YoursStep, YoursNext
  <2>2. Stands(s.p + d, s.m + d, s.y + i, s.out \o Lines(yours, s.y, i), Finished(Copied(s.c1, d)), Tail(s.c2),
               origin, mine, yours, M, Y, U, L)
    BY <1>2, <2>1, YoursAlone
  <2>3. d \in Nat /\ i \in Nat /\ d + i > 0
    BY <1>2, <2>1, EditNow
  <2> HIDE DEF d, i
  <2>4. (s.p + d) + (s.m + d) + (s.y + i) >= s.p + s.m + s.y + 1
    BY <1>3, <2>3
  <2>5. Onwards(t, s, origin, mine, yours, M, Y, U, L)
    BY <2>1, <2>2, <2>4, Moved
  <2> QED  BY <2>5
<1>7. CASE MineStep(s, t, mine)
  <2> DEFINE d == Head(s.c1).del
             i == Head(s.c1).ins
  <2>1. /\ s.c1 # <<>> /\ s.c2 # <<>>
        /\ Head(s.c1).copy = 0 /\ Head(s.c2).copy > 0 /\ Head(s.c1).del <= Head(s.c2).copy
        /\ t = At(s.p + d, s.m + i, s.y + d, s.out \o Lines(mine, s.m, i), s.failed,
                  Tail(s.c1), Finished(Copied(s.c2, d)))
    BY <1>7 DEF MineStep, MineNext
  <2>2. Stands(s.p + d, s.m + i, s.y + d, s.out \o Lines(mine, s.m, i), Tail(s.c1), Finished(Copied(s.c2, d)),
               origin, mine, yours, M, Y, U, L)
    BY <1>2, <2>1, MineAlone
  <2>3. d \in Nat /\ i \in Nat /\ d + i > 0
    BY <1>2, <2>1, EditNow
  <2> HIDE DEF d, i
  <2>4. (s.p + d) + (s.m + i) + (s.y + d) >= s.p + s.m + s.y + 1
    BY <1>3, <2>3
  <2>5. Onwards(t, s, origin, mine, yours, M, Y, U, L)
    BY <2>1, <2>2, <2>4, Moved
  <2> QED  BY <2>5
<1>8. CASE SameStep(s, t, mine, yours)
  <2> DEFINE d == Head(s.c1).del
             i == Head(s.c1).ins
  <2>1. /\ s.c1 # <<>> /\ s.c2 # <<>>
        /\ Head(s.c1) = Head(s.c2) /\ Head(s.c1).copy = 0
        /\ Lines(mine, s.m, Head(s.c1).ins) = Lines(yours, s.y, Head(s.c1).ins)
        /\ t = At(s.p + d, s.m + i, s.y + i, s.out \o Lines(mine, s.m, i), s.failed, Tail(s.c1), Tail(s.c2))
    BY <1>8 DEF SameStep, SameNext
  <2>2. Stands(s.p + d, s.m + i, s.y + i, s.out \o Lines(mine, s.m, i), Tail(s.c1), Tail(s.c2),
               origin, mine, yours, M, Y, U, L)
    BY <1>2, <2>1, BothAlike
  <2>3. d \in Nat /\ i \in Nat /\ d + i > 0
    BY <1>2, <2>1, EditNow
  <2> HIDE DEF d, i
  <2>4. (s.p + d) + (s.m + i) + (s.y + i) >= s.p + s.m + s.y + 1
    BY <1>3, <2>3
  <2>5. Onwards(t, s, origin, mine, yours, M, Y, U, L)
    BY <2>1, <2>2, <2>4, Moved
  <2> QED  BY <2>5
<1> QED  BY <1>5, <1>6, <1>7, <1>8

\* A step fails, ends the merge, or goes on with less.
LEMMA StepKeeps ==
  ASSUME NEW L, NEW origin, NEW mine, NEW yours, NEW M, NEW Y, NEW U, Texts(origin, mine, yours, M, Y, U, L),
         NEW s, Standing(s, origin, mine, yours, M, Y, U, L)
  PROVE  LET t == MergeStep(origin, mine, yours, s) IN
         /\ t \in MergeStates(L)
         /\ t.failed \/ MergeEnded(t, origin, U, L) \/ Onwards(t, s, origin, mine, yours, M, Y, U, L)
<1> DEFINE t == MergeStep(origin, mine, yours, s)
<1>1. \/ EndStep(s, t, mine, yours) \/ CopyStep(s, t, origin) \/ YoursStep(s, t, yours)
      \/ MineStep(s, t, mine) \/ SameStep(s, t, mine, yours) \/ FailStep(s, t, mine, yours)
  BY StepCases
<1> HIDE DEF t
<1>2. s \in MergeStates(L)
  BY DEF Standing
<1>4. CASE EndStep(s, t, mine, yours)
  BY <1>4, LastStep DEF MergeEnded, t
<1>5. CASE CopyStep(s, t, origin) \/ YoursStep(s, t, yours) \/ MineStep(s, t, mine) \/ SameStep(s, t, mine, yours)
  <2>1. Onwards(t, s, origin, mine, yours, M, Y, U, L)
    BY <1>5, StepOn
  <2> QED  BY <2>1 DEF Onwards, Standing, t
<1>9. CASE FailStep(s, t, mine, yours)
  <2>1. t = [s EXCEPT !.failed = TRUE]
    BY <1>9 DEF FailStep
  <2>2. t.failed = TRUE /\ t \in MergeStates(L)
    BY <1>2, <2>1 DEF MergeStates
  <2> QED  BY <2>2 DEF t
<1> QED  BY <1>1, <1>4, <1>5, <1>9

\* A merge that has ended does not change.
LEMMA EndedStays ==
  ASSUME NEW L, NEW origin, NEW mine, NEW yours, NEW U, NEW s, MergeEnded(s, origin, U, L)
  PROVE  MergeStep(origin, mine, yours, s) = s
<1> DEFINE rest == IF s.c1 # <<>> THEN Lines(mine, s.m, Head(s.c1).ins)
                   ELSE IF s.c2 # <<>> THEN Lines(yours, s.y, Head(s.c2).ins) ELSE <<>>
           none == <<>>
           o == s.out \o rest
<1>1. s \in MergeStates(L) /\ ~s.failed /\ s.c1 = none /\ s.c2 = none
  BY DEF MergeEnded
<1>2. MergeStep(origin, mine, yours, s) = [s EXCEPT !.out = o, !.c1 = none, !.c2 = none]
  BY <1>1 DEF MergeStep
<1>3. rest = <<>>
  BY <1>1
<1>4. s.out \in Seq(L)
  BY <1>1 DEF MergeStates
<1> HIDE DEF rest
<1>5. o = s.out
  BY <1>3, <1>4, ConcatEmptySeq
<1> HIDE DEF none, o
<1>6. s = At(s.p, s.m, s.y, s.out, s.failed, none, none)
  BY <1>1 DEF MergeStates, At
<1>7. SetEnd(s, o, none, none) = At(s.p, s.m, s.y, o, s.failed, none, none)
  BY <1>6, PutAll
<1> QED  BY <1>2, <1>5, <1>6, <1>7 DEF SetEnd

-----------------------------------------------------------------------------
(* The whole merge.                                                        *)

MergeStart(origin, mine, yours) ==
  [p |-> 0, m |-> 0, y |-> 0, out |-> <<>>, failed |-> FALSE,
   c1 |-> TextDiff(origin, mine), c2 |-> TextDiff(origin, yours)]
MergeSteps(origin, mine, yours) == 2 * (Len(origin) + Len(mine) + Len(yours)) + 3

\* The states one after the other.
MergeRun(S, n, C, origin, mine, yours) ==
  /\ S \in [0 .. n -> C] /\ S[0] = MergeStart(origin, mine, yours)
  /\ \A k \in 1 .. n : S[k] = MergeStep(origin, mine, yours, S[k - 1])

\* What holds at the start and is kept by the steps holds of every state.
LEMMA MergeIs ==
  ASSUME NEW L, NEW origin \in Seq(L), NEW mine \in Seq(L), NEW yours \in Seq(L), NEW C,
         MergeStart(origin, mine, yours) \in C, \A s \in C : MergeStep(origin, mine, yours, s) \in C
  PROVE  \E S : /\ MergeRun(S, MergeSteps(origin, mine, yours), C, origin, mine, yours)
                /\ Merge3(origin, mine, yours) = S[MergeSteps(origin, mine, yours)]
<1> DEFINE n == MergeSteps(origin, mine, yours)
           start == MergeStart(origin, mine, yours)
           step(s) == MergeStep(origin, mine, yours, s)
           body(f, k) == IF k > 0 THEN step(f[k - 1]) ELSE start
           F == CHOOSE f : f = [k \in 0 .. n |-> body(f, k)]
           next == [q \in (1 .. n) \X C |-> step(q[2])]
<1>1. Merge3(origin, mine, yours) = F[n]
  BY DEF Merge3, MergeSteps, MergeStart
<1>2. n \in Nat
  <2> DEFINE la == Len(origin)
             lb == Len(mine)
             lc == Len(yours)
  <2>1. la \in Nat /\ lb \in Nat /\ lc \in Nat
    BY LenProperties
  <2>2. n = 2 * (la + lb + lc) + 3
    BY DEF MergeSteps
  <2> HIDE DEF la, lb, lc
  <2> QED  BY <2>1, <2>2
<1>3. start \in C /\ \A s \in C : step(s) \in C
  OBVIOUS
<1> HIDE DEF n, start, step
<1>4. next \in [(1 .. n) \X C -> C]
  BY <1>3
<1>5. PICK S : Iterates(S, n, C, start, next)
  <2> HIDE DEF next
  <2> QED  BY <1>2, <1>3, <1>4, Iteration
<1>6. S \in [0 .. n -> C] /\ S[0] = start /\ \A k \in 1 .. n : S[k] = step(S[k - 1])
  <2>1. S \in [0 .. n -> C] /\ S[0] = start /\ \A k \in 1 .. n : S[k] = next[<<k, S[k - 1]>>]
    BY <1>5 DEF Iterates
  <2>2. ASSUME NEW k \in 1 .. n  PROVE S[k] = step(S[k - 1])
    <3>1. S[k - 1] \in C
      BY <1>2, <2>1
    <3> QED  BY <2>1, <3>1
  <2> QED  BY <2>1, <2>2
<1> HIDE DEF next
<1>7. S = [k \in 0 .. n |-> body(S, k)]
  <2>1. ASSUME NEW k \in 0 .. n  PROVE S[k] = body(S, k)
    <3>1. CASE k = 0
      BY <1>6, <3>1
    <3>2. CASE k # 0
      <4>1. k \in 1 .. n /\ k > 0
        BY <1>2, <3>2
      <4> QED  BY <1>6, <4>1
    <3> QED  BY <3>1, <3>2
  <2> HIDE DEF body
  <2> QED  BY <1>6, <2>1
<1>8. F = [k \in 0 .. n |-> body(F, k)]
  <2> HIDE DEF body
  <2> QED  BY <1>7
<1> HIDE DEF F
<1> DEFINE T == {k \in Nat : k <= n => F[k] = S[k]}
<1>9. 0 \in T
  <2>1. 0 \in 0 .. n
    BY <1>2
  <2> QED  BY <1>6, <1>8, <2>1
<1>10. ASSUME NEW k \in T  PROVE k + 1 \in T
  <2> SUFFICES ASSUME k + 1 <= n  PROVE F[k + 1] = S[k + 1]
    OBVIOUS
  <2> DEFINE l == k + 1
  <2>1. l \in 1 .. n /\ l \in 0 .. n /\ l > 0 /\ l - 1 = k /\ F[l - 1] = S[l - 1]
    BY <1>2
  <2> HIDE DEF l, T
  <2>2. F[l] = step(F[l - 1])
    BY <1>8, <2>1
  <2>3. F[l] = S[l]
    BY <1>6, <2>1, <2>2
  <2> QED  BY <2>3 DEF l
<1>11. T = Nat
  <2>1. T \in SUBSET Nat
    OBVIOUS
  <2> HIDE DEF T
  <2> QED  BY <1>9, <1>10, <2>1, SetInduction
<1>12. F[n] = S[n]
  <2>1. n \in T
    BY <1>2, <1>11
  <2> QED  BY <1>2, <2>1
<1>13. MergeRun(S, n, C, origin, mine, yours)
  BY <1>6 DEF MergeRun, start, step
<1> QED  BY <1>1, <1>12, <1>13 DEF n

MergeKept(L, origin, mine, yours, M, Y, U) ==
  {s \in MergeStates(L) : \/ s.failed \/ MergeEnded(s, origin, U, L)
                          \/ Standing(s, origin, mine, yours, M, Y, U, L)}

\* The same of any state that can be met.
LEMMA KeptStep ==
  ASSUME NEW L, NEW origin, NEW mine, NEW yours, NEW M, NEW Y, NEW U, Texts(origin, mine, yours, M, Y, U, L),
         NEW s \in MergeKept(L, origin, mine, yours, M, Y, U)
  PROVE  LET t == MergeStep(origin, mine, yours, s) IN
         /\ t \in MergeKept(L, origin, mine, yours, M, Y, U)
         /\ t.failed \/ MergeEnded(t, origin, U, L)
            \/ (~s.failed /\ ~MergeEnded(s, origin, U, L) /\ Onwards(t, s, origin, mine, yours, M, Y, U, L))
<1> DEFINE t == MergeStep(origin, mine, yours, s)
<1>1. s \in MergeStates(L)
  BY DEF MergeKept
<1>2. CASE s.failed
  <2>1. t = s
    BY <1>2 DEF MergeStep
  <2> HIDE DEF t
  <2> QED  BY <1>1, <1>2, <2>1 DEF t, MergeKept
<1>3. CASE MergeEnded(s, origin, U, L)
  <2>1. t = s
    BY <1>3, EndedStays
  <2> HIDE DEF t
  <2> QED  BY <1>1, <1>3, <2>1 DEF t, MergeKept
<1>4. CASE ~s.failed /\ ~MergeEnded(s, origin, U, L)
  <2>1. Standing(s, origin, mine, yours, M, Y, U, L)
    BY <1>4 DEF MergeKept
  <2>2. /\ t \in MergeStates(L)
        /\ t.failed \/ MergeEnded(t, origin, U, L) \/ Onwards(t, s, origin, mine, yours, M, Y, U, L)
    BY <2>1, StepKeeps
  <2> HIDE DEF t
  <2>3. t \in MergeKept(L, origin, mine, yours, M, Y, U)
    BY <2>2 DEF MergeKept, Onwards
  <2> QED  BY <1>4, <2>2, <2>3 DEF t
<1> QED  BY <1>2, <1>3, <1>4

\* The merge begins with no line consumed, all edits left, and nothing merged.
LEMMA MergeBegins ==
  ASSUME NEW L, NEW origin \in Seq(L), NEW mine \in Seq(L), NEW yours \in Seq(L)
  PROVE  LET M == TextDiff(origin, mine)
             Y == TextDiff(origin, yours)
         IN  \E U : /\ Texts(origin, mine, yours, M, Y, U, L)
                    /\ BothEdits(origin, mine, yours, M, Y) = U[Len(origin)]
                    /\ MergeStart(origin, mine, yours) \in MergeKept(L, origin, mine, yours, M, Y, U)
                    /\ Standing(MergeStart(origin, mine, yours), origin, mine, yours, M, Y, U, L)
<1> DEFINE M == TextDiff(origin, mine)
           Y == TextDiff(origin, yours)
           start == MergeStart(origin, mine, yours)
<1>1. /\ M \in Seq(Triples) /\ RestOf(M, M, origin, mine, L, 0, 0) /\ Pend(M, mine, 0) = Inserted(M, mine, 0)
      /\ \A g : Inserted(M, mine, g) \in Seq(L)
  BY RestBegin
<1>2. /\ Y \in Seq(Triples) /\ RestOf(Y, Y, origin, yours, L, 0, 0) /\ Pend(Y, yours, 0) = Inserted(Y, yours, 0)
      /\ \A g : Inserted(Y, yours, g) \in Seq(L)
  BY RestBegin
<1>3. start = At(0, 0, 0, <<>>, FALSE, M, Y)
  BY DEF MergeStart, At
<1> HIDE DEF M, Y, start
<1>4. \A g \in 0 .. Len(origin) : Gap(mine, yours, M, Y, g) \in Seq(L)
  BY <1>1, <1>2, BothType DEF Gap
<1>5. PICK U : /\ Growth(U, origin, mine, yours, M, Y, L)
               /\ BothEdits(origin, mine, yours, M, Y) = U[Len(origin)]
  BY <1>4, BothIs
<1>6. Texts(origin, mine, yours, M, Y, U, L)
  BY <1>1, <1>2, <1>5 DEF Texts
<1>7. U[0] = Both(Pend(M, mine, 0), Pend(Y, yours, 0)) /\ U[0] \in Seq(L)
  <2>1. U[0] = Gap(mine, yours, M, Y, 0) /\ 0 \in 0 .. Len(origin)
    BY <1>5, LenProperties DEF Growth
  <2> QED  BY <1>1, <1>2, <1>4, <2>1 DEF Gap
<1>8. Stands(0, 0, 0, <<>>, M, Y, origin, mine, yours, M, Y, U, L)
  <2>1. <<>> \in Seq(L)
    BY EmptySeq
  <2> DEFINE x == Both(Pend(M, mine, 0), Pend(Y, yours, 0))
  <2> HIDE DEF x
  <2>2. x \in Seq(L)
    BY <1>7 DEF x
  <2>3. <<>> \o x = x
    BY <2>2, ConcatEmptySeq
  <2> QED  BY <1>1, <1>2, <1>7, <2>1, <2>3 DEF Stands, x
<1>9. start \in MergeStates(L)
  <2>1. <<>> \in Seq(L)
    BY EmptySeq
  <2> QED  BY <1>1, <1>2, <1>3, <2>1 DEF MergeStates, At
<1>10. /\ start.p = 0 /\ start.m = 0 /\ start.y = 0 /\ start.out = <<>> /\ start.failed = FALSE
       /\ start.c1 = M /\ start.c2 = Y
  BY <1>3 DEF At
<1>11. Standing(start, origin, mine, yours, M, Y, U, L)
  BY <1>8, <1>9, <1>10 DEF Standing
<1>12. start \in MergeKept(L, origin, mine, yours, M, Y, U)
  BY <1>9, <1>11 DEF MergeKept
<1> QED  BY <1>5, <1>6, <1>11, <1>12 DEF M, Y, start

\* As many steps as Merge3 takes are enough to come to an end.
LEMMA MergeCloses ==
  ASSUME NEW L, NEW origin \in Seq(L), NEW mine \in Seq(L), NEW yours \in Seq(L), NEW M, NEW Y, NEW U,
         Texts(origin, mine, yours, M, Y, U, L),
         Standing(MergeStart(origin, mine, yours), origin, mine, yours, M, Y, U, L),
         NEW C, C \subseteq MergeKept(L, origin, mine, yours, M, Y, U),
         MergeStart(origin, mine, yours) \in C, \A s \in C : MergeStep(origin, mine, yours, s) \in C
  PROVE  LET merged == Merge3(origin, mine, yours) IN
         merged \in C /\ (merged.failed \/ MergeEnded(merged, origin, U, L))
<1> DEFINE start == MergeStart(origin, mine, yours)
           n == MergeSteps(origin, mine, yours)
           total == Len(origin) + Len(mine) + Len(yours)
<1>1. Standing(start, origin, mine, yours, M, Y, U, L)
  OBVIOUS
<1>4. PICK S : MergeRun(S, n, C, origin, mine, yours) /\ Merge3(origin, mine, yours) = S[n]
  <2> HIDE DEF n
  <2> QED  BY MergeIs DEF n
<1>5. S \in [0 .. n -> C] /\ S[0] = start /\ \A k \in 1 .. n : S[k] = MergeStep(origin, mine, yours, S[k - 1])
  BY <1>4 DEF MergeRun
<1>6. total \in Nat /\ n = 2 * total + 3
  <2> DEFINE la == Len(origin)
             lb == Len(mine)
             lc == Len(yours)
  <2>1. la \in Nat /\ lb \in Nat /\ lc \in Nat
    BY LenProperties
  <2>2. n = 2 * (la + lb + lc) + 3 /\ total = la + lb + lc
    BY DEF MergeSteps
  <2> HIDE DEF la, lb, lc
  <2> QED  BY <2>1, <2>2
<1>7. n \in Nat /\ n > total
  <2> HIDE DEF n, total
  <2> QED  BY <1>6
<1> DEFINE left(k) == Remaining(S[k], origin, mine, yours)
           on(k) == Standing(S[k], origin, mine, yours, M, Y, U, L) /\ ~MergeEnded(S[k], origin, U, L)
           T == {k \in Nat : k <= n /\ on(k) => left(k) + k <= total}
<1> HIDE DEF start, n
<1>8. 0 \in T
  <2>1. left(0) \in Nat /\ left(0) <= total
    BY <1>1, <1>5, RemainingIs
  <2> HIDE DEF left, on, total
  <2> QED  BY <1>6, <2>1
<1>9. ASSUME NEW k \in T  PROVE k + 1 \in T
  <2> SUFFICES ASSUME k + 1 <= n, on(k + 1)  PROVE left(k + 1) + (k + 1) <= total
    OBVIOUS
  <2> DEFINE l == k + 1
             s == S[k]
             t == S[l]
  <2>1. l \in 1 .. n /\ l - 1 = k /\ k \in 0 .. n /\ k \in Nat
    BY <1>7
  <2>2. s \in C /\ t = MergeStep(origin, mine, yours, s)
    <3> HIDE DEF l, T, on, left
    <3> QED  BY <1>5, <2>1
  <2> HIDE DEF l, s
  <2>3. t.failed \/ MergeEnded(t, origin, U, L)
        \/ (~s.failed /\ ~MergeEnded(s, origin, U, L) /\ Onwards(t, s, origin, mine, yours, M, Y, U, L))
    BY <1>1, <2>2, KeptStep
  <2>4. on(l)
    BY DEF l
  <2>5. ~s.failed /\ ~MergeEnded(s, origin, U, L) /\ Onwards(t, s, origin, mine, yours, M, Y, U, L)
    BY <2>3, <2>4 DEF Standing
  <2>6. on(k)
    BY <2>2, <2>5 DEF s, MergeKept
  <2>7. left(k) + k <= total
    <3> HIDE DEF on, left, total
    <3> QED  BY <1>7, <2>1, <2>6
  <2>8. left(l) + 1 <= left(k)
    BY <2>5 DEF Onwards, s
  <2>9. left(k) \in Nat /\ left(l) \in Nat
    BY <2>4, <2>6, RemainingIs
  <2>10. left(l) + (k + 1) <= total
    <3> HIDE DEF left, total
    <3> QED  BY <1>6, <2>1, <2>7, <2>8, <2>9
  <2> QED  BY <2>10 DEF l
<1>10. T = Nat
  <2>1. T \in SUBSET Nat
    OBVIOUS
  <2> HIDE DEF T
  <2> QED  BY <1>8, <1>9, <2>1, SetInduction
<1>11. ~on(n)
  <2> SUFFICES ASSUME on(n)  PROVE FALSE
    OBVIOUS
  <2>1. left(n) + n <= total
    <3> HIDE DEF left, on, total
    <3>1. n \in T
      BY <1>7, <1>10
    <3> QED  BY <1>7, <3>1
  <2>2. left(n) \in Nat
    BY RemainingIs
  <2> HIDE DEF left, on, total
  <2> QED  BY <1>6, <1>7, <2>1, <2>2
<1>12. S[n] \in C
  BY <1>5, <1>7
<1>13. S[n].failed \/ MergeEnded(S[n], origin, U, L)
  BY <1>11, <1>12 DEF MergeKept
<1> QED  BY <1>4, <1>12, <1>13

\* A merge without a conflict has both edits.
LEMMA MergeMeets ==
  ASSUME NEW L, NEW origin \in Seq(L), NEW mine \in Seq(L), NEW yours \in Seq(L)
  PROVE  LET merged == Merge3(origin, mine, yours) IN
         ~merged.failed =>
           merged.out = BothEdits(origin, mine, yours, TextDiff(origin, mine), TextDiff(origin, yours))
<1> DEFINE M == TextDiff(origin, mine)
           Y == TextDiff(origin, yours)
<1>1. PICK U : /\ Texts(origin, mine, yours, M, Y, U, L)
               /\ BothEdits(origin, mine, yours, M, Y) = U[Len(origin)]
               /\ MergeStart(origin, mine, yours) \in MergeKept(L, origin, mine, yours, M, Y, U)
               /\ Standing(MergeStart(origin, mine, yours), origin, mine, yours, M, Y, U, L)
  BY MergeBegins
<1> HIDE DEF M, Y
<1> DEFINE C == MergeKept(L, origin, mine, yours, M, Y, U)
           merged == Merge3(origin, mine, yours)
<1>2. \A s \in C : MergeStep(origin, mine, yours, s) \in C
  BY <1>1, KeptStep
<1>3. merged \in C /\ (merged.failed \/ MergeEnded(merged, origin, U, L))
  <2>1. C \subseteq MergeKept(L, origin, mine, yours, M, Y, U) /\ MergeStart(origin, mine, yours) \in C
    BY <1>1
  <2> HIDE DEF C
  <2> QED  BY <1>1, <1>2, <2>1, MergeCloses
<1> HIDE DEF merged
<1>4. ~merged.failed => merged.out = BothEdits(origin, mine, yours, M, Y)
  BY <1>1, <1>3 DEF MergeEnded
<1> QED  BY <1>4 DEF merged, M, Y

-----------------------------------------------------------------------------
(* A text compared with itself.                                            *)

\* Edits that lead nowhere are none.
LEMMA LeadsNowhere ==
  ASSUME NEW a, NEW b, NEW c \in Seq(Triples), Raw(c), NEW p, NEW m, Leads(c, a, b, p, m, p, m)
  PROVE  c = <<>>
<1> SUFFICES ASSUME c # <<>>  PROVE FALSE
  OBVIOUS
<1> DEFINE n == Len(c)
<1>1. PICK R, S : Path(c, R, S, a, b) /\ R[0] = p /\ S[0] = m /\ R[n] = p /\ S[n] = m
  BY DEF Leads
<1>2. n \in Nat /\ n # 0 /\ \A k \in 1 .. n : c[k] \in Triples
  BY LenProperties, ElementOfSeq, EmptySeq
<1>3. /\ R \in [0 .. n -> Nat] /\ S \in [0 .. n -> Nat]
      /\ \A k \in 1 .. n : /\ R[k] = R[k - 1] + c[k].copy + c[k].del
                           /\ S[k] = S[k - 1] + c[k].copy + c[k].ins
  BY <1>1 DEF Path
<1>4. ASSUME NEW k \in 1 .. n
      PROVE  c[k].copy \in Nat /\ c[k].del \in Nat /\ c[k].ins \in Nat /\ c[k].copy + c[k].del + c[k].ins > 0
  <2>1. c[k].copy \in Nat /\ c[k].del \in Nat /\ c[k].ins \in Nat
    BY <1>2 DEF Triples
  <2>2. IsCopy(c[k]) \/ IsChange(c[k])
    BY DEF Raw
  <2> DEFINE x == c[k].copy
             y == c[k].del
             z == c[k].ins
  <2>3. (x > 0 /\ y = 0 /\ z = 0) \/ (x = 0 /\ y + z > 0)
    BY <2>2 DEF IsCopy, IsChange
  <2>4. x \in Nat /\ y \in Nat /\ z \in Nat
    BY <2>1
  <2> HIDE DEF x, y, z
  <2>5. x + y + z > 0
    BY <2>3, <2>4
  <2> QED  BY <2>1, <2>5 DEF x, y, z
<1> HIDE DEF n
<1> DEFINE T == {k \in Nat : k <= n => R[k] \in Nat /\ S[k] \in Nat /\ (IF k = 0 THEN R[k] + S[k] = p + m ELSE R[k] + S[k] > p + m)}
<1>5. p \in Nat /\ m \in Nat /\ 0 \in T
  <2>1. 0 \in 0 .. n
    BY <1>2
  <2> QED  BY <1>1, <1>3, <2>1
<1>6. ASSUME NEW k \in T  PROVE k + 1 \in T
  <2> SUFFICES ASSUME k + 1 <= n
               PROVE  R[k + 1] \in Nat /\ S[k + 1] \in Nat /\ R[k + 1] + S[k + 1] > p + m
    OBVIOUS
  <2> DEFINE l == k + 1
  <2>1. l \in 1 .. n /\ l \in 0 .. n /\ l - 1 = k /\ k <= n /\ k \in Nat
    BY <1>2
  <2>2. R[k] \in Nat /\ S[k] \in Nat /\ R[k] + S[k] >= p + m
    BY <1>5, <2>1
  <2> HIDE DEF l, T
  <2>3. R[l] = R[k] + c[l].copy + c[l].del /\ S[l] = S[k] + c[l].copy + c[l].ins /\ R[l] \in Nat /\ S[l] \in Nat
    BY <1>3, <2>1
  <2> DEFINE x == c[l].copy
             y == c[l].del
             z == c[l].ins
  <2>4. x \in Nat /\ y \in Nat /\ z \in Nat /\ x + y + z > 0
    BY <1>4, <2>1
  <2>5. R[l] = R[k] + x + y /\ S[l] = S[k] + x + z
    BY <2>3
  <2> HIDE DEF x, y, z
  <2>6. R[l] + S[l] > p + m
    <3> DEFINE u == R[k]
               v == S[k]
               uu == R[l]
               vv == S[l]
    <3>1. /\ u \in Nat /\ v \in Nat /\ u + v >= p + m /\ uu = u + x + y /\ vv = v + x + z
          /\ p \in Nat /\ m \in Nat
      BY <1>5, <2>2, <2>5
    <3> HIDE DEF u, v, uu, vv
    <3>2. uu + vv > p + m
      BY <2>4, <3>1
    <3> QED  BY <3>2 DEF uu, vv
  <2> QED  BY <2>3, <2>6 DEF l
<1>7. T = Nat
  <2>1. T \in SUBSET Nat
    OBVIOUS
  <2> HIDE DEF T
  <2> QED  BY <1>5, <1>6, <2>1, SetInduction
<1>8. R[n] + S[n] > p + m
  <2>1. n \in T
    BY <1>2, <1>7
  <2> QED  BY <1>2, <2>1
<1> QED  BY <1>1, <1>5, <1>8

\* A text compared with itself is one copy.
LEMMA SelfDiff ==
  ASSUME NEW L, NEW a \in Seq(L)
  PROVE  TextDiff(a, a) = IF Len(a) > 0 THEN <<Triple(Len(a), 0, 0)>> ELSE <<>>
<1> DEFINE foot == AgreeBack(a, a, Len(a), Len(a), 0, 0)
           head == AgreeFrom(a, a, 0, 0, Len(a) - foot, Len(a) - foot)
           Same(n) == IF n > 0 THEN <<Triple(n, 0, 0)>> ELSE <<>>
           q == <<head, Len(a) - foot, head, Len(a) - foot>>
           mid == DiffStep(a, a)[q]
           all == (Same(head) \o mid) \o Same(foot)
           len == Len(a)
<1>1. TextDiff(a, a) = FoldLeft(AppendTriple, <<>>, all)
  BY DEF TextDiff
<1>2. len \in Nat
  BY LenProperties
<1>3. foot = len
  <2> DEFINE n == Min({len - 0, len - 0})
             K == {k \in 0 .. n : \A t \in 0 .. k - 1 : a[len - t] = a[len - t]}
  <2>1. foot = Max(K)
    BY DEF AgreeBack
  <2>2. len - 0 \in Nat /\ len - 0 = len
    BY <1>2
  <2>3. n = len
    <3> HIDE DEF len
    <3> QED  BY <2>2, MinOfTwo
  <2> HIDE DEF len, n, foot
  <2>4. K \in SUBSET Nat /\ len \in K /\ \A y \in K : y <= len
    BY <1>2, <2>3
  <2> HIDE DEF K
  <2>5. Max(K) \in K /\ \A y \in K : Max(K) >= y
    BY <1>2, <2>4, MaxOf
  <2>6. Max(K) \in Nat /\ Max(K) <= len /\ Max(K) >= len
    BY <2>4, <2>5
  <2> QED  BY <1>2, <2>1, <2>6
<1> HIDE DEF foot
<1>4. head = 0
  <2>1. Len(a) - foot = 0
    BY <1>2, <1>3
  <2>2. head = AgreeFrom(a, a, 0, 0, 0, 0)
    BY <2>1
  <2> HIDE DEF head
  <2>3. LET k == AgreeFrom(a, a, 0, 0, 0, 0) IN k \in Nat /\ k <= 0 - 0
    BY AgreeFromFacts
  <2> QED  BY <2>2, <2>3
<1> HIDE DEF head
<1>5. mid = <<>>
  <2>1. /\ q \in Quads(a, a) /\ q[1] = 0 /\ q[2] = 0 /\ q[3] = 0 /\ q[4] = 0
        /\ q[1] <= q[2] /\ q[3] <= q[4]
    BY <1>2, <1>3, <1>4 DEF Quads
  <2>2. mid \in Seq(Triples) /\ Raw(mid) /\ Leads(mid, a, a, q[1], q[3], q[2], q[4])
    <3> HIDE DEF q
    <3> QED  BY <2>1, DiffFacts
  <2> HIDE DEF mid
  <2>3. Leads(mid, a, a, 0, 0, 0, 0)
    BY <2>1, <2>2
  <2> QED  BY <2>2, <2>3, LeadsNowhere
<1> HIDE DEF mid
<1>6. Same(foot) \in Seq(Triples) /\ Same(head) = <<>>
  <2>1. Triple(foot, 0, 0) \in Triples
    BY <1>2, <1>3 DEF Triple, Triples
  <2>2. <<Triple(foot, 0, 0)>> \in Seq(Triples) /\ <<>> \in Seq(Triples)
    <3> HIDE DEF foot
    <3> DEFINE e == Triple(foot, 0, 0)
    <3>1. e \in Triples
      BY <2>1
    <3> HIDE DEF e
    <3>2. <<e>> \in Seq(Triples) /\ <<>> \in Seq(Triples)
      BY <3>1
    <3> QED  BY <3>2 DEF e
  <2> QED  BY <1>4, <2>2
<1> DEFINE t == Same(foot)
<1>7. all = t
  <2>1. Same(head) = <<>> /\ t \in Seq(Triples)
    BY <1>6
  <2>2. all = (<<>> \o <<>>) \o t
    BY <1>5, <2>1
  <2> HIDE DEF t
  <2>3. <<>> \o <<>> = <<>>
    OBVIOUS
  <2> QED  BY <2>1, <2>2, <2>3, ConcatEmptySeq
<1>8. t \in Seq(Triples)
  BY <1>6
<1> HIDE DEF all
<1>9. FoldLeft(AppendTriple, <<>>, t) = t
  <2>1. PICK G \in [0 .. Len(t) -> Seq(Triples)] :
          /\ G[0] = <<>> /\ \A k \in 1 .. Len(t) : G[k] = AppendTriple(G[k - 1], t[k])
          /\ FoldLeft(AppendTriple, <<>>, t) = G[Len(t)]
    <3> HIDE DEF t
    <3> QED  BY <1>8, FoldFacts
  <2>2. CASE foot > 0
    <3> DEFINE e == Triple(foot, 0, 0)
    <3>1. t = <<e>>
      BY <2>2
    <3> HIDE DEF e, t
    <3>2. Len(t) = 1 /\ t[1] = e
      BY <3>1
    <3>3. G[1] = AppendTriple(<<>>, e)
      <4>1. 1 \in 1 .. Len(t) /\ 1 - 1 = 0
        BY <3>2
      <4> QED  BY <2>1, <3>2, <4>1
    <3>4. AppendTriple(<<>>, e) = <<e>>
      <4>1. Append(<<>>, e) = <<e>> /\ ~(Len(<<>>) > 0)
        OBVIOUS
      <4> QED  BY <4>1 DEF AppendTriple
    <3> QED  BY <2>1, <3>1, <3>2, <3>3, <3>4
  <2>3. CASE ~(foot > 0)
    <3>1. t = <<>>
      BY <2>3
    <3> HIDE DEF t
    <3> QED  BY <2>1, <3>1
  <2> QED  BY <2>2, <2>3
<1> QED  BY <1>1, <1>3, <1>7, <1>9

-----------------------------------------------------------------------------
(* The merges that cannot fail.                                            *)

\* All lines of a text are the text.
LEMMA WholeText ==
  ASSUME NEW L, NEW a \in Seq(L)
  PROVE  Lines(a, 0, Len(a)) = a /\ Lines(a, 0, 0) = <<>>
<1>1. Len(a) \in Nat /\ 0 + Len(a) <= Len(a) /\ 0 \in Nat
  BY LenProperties
<1> DEFINE s == Lines(a, 0, Len(a))
<1>2. s \in Seq(L) /\ Len(s) = Len(a) /\ \A i \in 1 .. Len(a) : s[i] = a[0 + i]
  BY <1>1, LinesFacts
<1> HIDE DEF s
<1>3. \A i \in 1 .. Len(a) : s[i] = a[i]
  BY <1>1, <1>2
<1>4. s = a
  BY <1>2, <1>3, SeqEqual
<1> QED  BY <1>4, LinesNone DEF s

UpTo(out, a, n) == out = Lines(a, 0, n)

\* A part of a text grows by the lines that follow it.
LEMMA UpToMore ==
  ASSUME NEW L, NEW a \in Seq(L), NEW n \in Nat, NEW k \in Nat, n + k <= Len(a), NEW out, UpTo(out, a, n)
  PROVE  UpTo(out \o Lines(a, n, k), a, n + k)
<1> DEFINE z == 0
<1>1. z \in Nat /\ z + n = n /\ z + n + k <= Len(a)
  OBVIOUS
<1>2. out = Lines(a, z, n)
  BY DEF UpTo
<1> HIDE DEF z
<1>3. Lines(a, z, n) \o Lines(a, z + n, k) = Lines(a, z, n + k)
  BY <1>1, LinesJoin
<1>4. out \o Lines(a, n, k) = Lines(a, z, n + k)
  BY <1>1, <1>2, <1>3
<1> QED  BY <1>4 DEF UpTo, z

\* A part that has come to the end is the text.
LEMMA UpToEnd ==
  ASSUME NEW L, NEW a \in Seq(L), NEW out, UpTo(out, a, Len(a))
  PROVE  out = a /\ out \o <<>> = a
BY WholeText, ConcatEmptySeq DEF UpTo

\* When nothing but copies is left, the copies are the lines of the text.
LEMMA CopyIsLines ==
  ASSUME NEW L, NEW a, NEW b, NEW M, NEW c, NEW p, NEW m, RestOf(c, M, a, b, L, p, m), c # <<>>,
         NEW n \in Nat, n <= Head(c).copy
  PROVE  Lines(a, p, n) = Lines(b, m, n) /\ m + n <= Len(b) /\ m \in Nat /\ p + n <= Len(a) /\ p \in Nat
<1> DEFINE h == Head(c)
<1>1. RestHead(c, h, M, a, b, L, p, m)
  BY RestFacts
<1> HIDE DEF h
<1>2. /\ p \in Nat /\ m \in Nat /\ h.copy \in Nat /\ h.del \in Nat /\ h.ins \in Nat
      /\ p + h.copy + h.del <= Len(a) /\ m + h.copy + h.ins <= Len(b) /\ Alike(a, b, p, m, h.copy)
  BY <1>1 DEF RestHead
<1>3. Len(a) \in Nat /\ Len(b) \in Nat
  BY RestRange
<1> DEFINE x == h.copy
           d == h.del
           i == h.ins
<1>4. x \in Nat /\ d \in Nat /\ i \in Nat /\ n <= x /\ p + x + d <= Len(a) /\ m + x + i <= Len(b)
      /\ Alike(a, b, p, m, x)
  BY <1>2 DEF h
<1> HIDE DEF x, d, i
<1>5. Alike(a, b, p, m, n)
  BY <1>4 DEF Alike
<1>6. m + n <= Len(b) /\ p + n <= Len(a)
  <2> DEFINE la == Len(a)
             lb == Len(b)
  <2>1. la \in Nat /\ lb \in Nat /\ p \in Nat /\ m \in Nat /\ p + x + d <= la /\ m + x + i <= lb
    BY <1>2, <1>3, <1>4
  <2> HIDE DEF la, lb
  <2>2. m + n <= lb /\ p + n <= la
    BY <1>4, <2>1
  <2> QED  BY <2>2 DEF la, lb
<1>7. Lines(a, p, n) = Lines(b, m, n)
  BY <1>2, <1>5, LinesSame
<1> QED  BY <1>2, <1>6, <1>7

\* Mine and yours are the same: so are the edits, the lines consumed and what
\* is merged.
AsOne(s, L, origin, mine, M, U) ==
  /\ Standing(s, origin, mine, mine, M, M, U, L)
  /\ s.c1 = s.c2 /\ s.m = s.y /\ UpTo(s.out, mine, s.m)
OneKept(L, origin, mine, M, U) ==
  {s \in MergeKept(L, origin, mine, mine, M, M, U) :
     ~s.failed /\ ((MergeEnded(s, origin, U, L) /\ s.out = mine) \/ AsOne(s, L, origin, mine, M, U))}

\* With the same edits on both sides, no step can fail.
LEMMA OneStays ==
  ASSUME NEW L, NEW origin, NEW mine, NEW M, NEW U, Texts(origin, mine, mine, M, M, U, L),
         NEW s \in OneKept(L, origin, mine, M, U)
  PROVE  MergeStep(origin, mine, mine, s) \in OneKept(L, origin, mine, M, U)
<1> DEFINE t == MergeStep(origin, mine, mine, s)
<1>1. s \in MergeKept(L, origin, mine, mine, M, M, U) /\ ~s.failed
  BY DEF OneKept
<1>2. t \in MergeKept(L, origin, mine, mine, M, M, U)
  BY <1>1, KeptStep
<1>3. CASE MergeEnded(s, origin, U, L) /\ s.out = mine
  <2>1. t = s
    BY <1>3, EndedStays
  <2> QED  BY <2>1
<1>4. CASE AsOne(s, L, origin, mine, M, U)
  <2>1. /\ Standing(s, origin, mine, mine, M, M, U, L)
        /\ s.c1 = s.c2 /\ s.m = s.y /\ UpTo(s.out, mine, s.m)
    BY <1>4 DEF AsOne
  <2>2. RestOf(s.c1, M, origin, mine, L, s.p, s.m) /\ RestOf(s.c2, M, origin, mine, L, s.p, s.y)
    BY <2>1 DEF Standing, Stands
  <2>3. mine \in Seq(L) /\ s.m \in Nat /\ s.y \in Nat /\ s.p \in Nat
    BY <2>2, RestRange
  <2>4. \/ EndStep(s, t, mine, mine) \/ CopyStep(s, t, origin) \/ YoursStep(s, t, mine)
        \/ MineStep(s, t, mine) \/ SameStep(s, t, mine, mine) \/ FailStep(s, t, mine, mine)
    BY <2>1, StepCases
  <2> HIDE DEF t
  <2>5. CASE EndStep(s, t, mine, mine)
    <3>1. MergeEnded(t, origin, U, L)
      BY <2>1, <2>5, LastStep
    <3>2. s.c1 = <<>> /\ s.c2 = <<>>
      BY <2>1, <2>5 DEF EndStep
    <3>3. PICK r : t = At(s.p, s.m, s.y, s.out \o r, s.failed, <<>>, <<>>) /\ r = <<>>
      BY <2>5, <3>2 DEF EndStep
    <3> DEFINE none == <<>>
               o == s.out \o r
    <3> HIDE DEF none, o
    <3>4. t = At(s.p, s.m, s.y, o, s.failed, none, none)
      BY <3>3 DEF none, o
    <3>5. t.out = o
      BY <3>4, AtFields
    <3>6. s.m = Len(mine)
      <4>1. RestOf(<<>>, M, origin, mine, L, s.p, s.m)
        BY <2>2, <3>2
      <4> QED  BY <4>1, RestEnd
    <3>7. o = mine
      <4>1. UpTo(s.out, mine, Len(mine))
        BY <2>1, <3>6
      <4>2. s.out \o <<>> = mine
        BY <2>3, <4>1, UpToEnd
      <4> QED  BY <3>3, <4>2 DEF o
    <3> QED  BY <1>2, <3>1, <3>5, <3>7 DEF OneKept, MergeEnded, t
  <2>6. CASE CopyStep(s, t, origin)
    <3>1. Onwards(t, s, origin, mine, mine, M, M, U, L)
      BY <2>1, <2>6, StepOn
    <3>2. s.c1 # <<>> /\ s.c2 # <<>>
      BY <2>6 DEF CopyStep
    <3>3. PICK n \in Nat : /\ n > 0 /\ n <= Head(s.c1).copy /\ n <= Head(s.c2).copy
                           /\ t = At(s.p + n, s.m + n, s.y + n, s.out \o Lines(origin, s.p, n), s.failed,
                                     Finished(Copied(s.c1, n)), Finished(Copied(s.c2, n)))
      BY <2>6 DEF CopyStep
    <3>4. /\ t.m = s.m + n /\ t.y = s.y + n /\ t.out = s.out \o Lines(origin, s.p, n)
          /\ t.c1 = Finished(Copied(s.c1, n)) /\ t.c2 = Finished(Copied(s.c2, n))
      BY <3>3 DEF At
    <3>5. Lines(origin, s.p, n) = Lines(mine, s.m, n) /\ s.m + n <= Len(mine)
      BY <2>2, <3>2, <3>3, CopyIsLines
    <3>6. UpTo(s.out \o Lines(mine, s.m, n), mine, s.m + n)
      BY <2>1, <2>3, <3>5, UpToMore
    <3>7. AsOne(t, L, origin, mine, M, U)
      BY <2>1, <3>1, <3>4, <3>5, <3>6 DEF AsOne, Onwards
    <3> QED  BY <1>2, <3>1, <3>7 DEF OneKept, Onwards, Standing, t
  <2>7. CASE YoursStep(s, t, mine)
    <3>1. Head(s.c2).copy = 0 /\ Head(s.c1).copy > 0
      BY <2>7 DEF YoursStep, YoursNext
    <3> QED  BY <2>1, <3>1
  <2>8. CASE MineStep(s, t, mine)
    <3>1. Head(s.c1).copy = 0 /\ Head(s.c2).copy > 0
      BY <2>8 DEF MineStep, MineNext
    <3> QED  BY <2>1, <3>1
  <2>9. CASE SameStep(s, t, mine, mine)
    <3>1. Onwards(t, s, origin, mine, mine, M, M, U, L)
      BY <2>1, <2>9, StepOn
    <3> DEFINE d == Head(s.c1).del
               i == Head(s.c1).ins
    <3>2. /\ s.c1 # <<>> /\ s.c2 # <<>> /\ Head(s.c1).copy = 0
          /\ t = At(s.p + d, s.m + i, s.y + i, s.out \o Lines(mine, s.m, i), s.failed, Tail(s.c1), Tail(s.c2))
      BY <2>9 DEF SameStep, SameNext
    <3>3. /\ t.m = s.m + i /\ t.y = s.y + i /\ t.out = s.out \o Lines(mine, s.m, i)
          /\ t.c1 = Tail(s.c1) /\ t.c2 = Tail(s.c2)
      BY <3>2 DEF At
    <3>4. i \in Nat /\ s.m + i <= Len(mine)
      BY <2>2, <3>2, EditNow
    <3> HIDE DEF i
    <3>5. UpTo(s.out \o Lines(mine, s.m, i), mine, s.m + i)
      BY <2>1, <2>3, <3>4, UpToMore
    <3>6. AsOne(t, L, origin, mine, M, U)
      BY <2>1, <3>1, <3>3, <3>5 DEF AsOne, Onwards
    <3> QED  BY <1>2, <3>1, <3>6 DEF OneKept, Onwards, Standing, t
  <2>10. CASE FailStep(s, t, mine, mine)
    <3>1. SameNext(s, mine, mine)
      BY <2>1, <2>10 DEF SameNext, FailStep
    <3> QED  BY <2>10, <3>1 DEF FailStep
  <2> QED  BY <2>4, <2>5, <2>6, <2>7, <2>8, <2>9, <2>10
<1> QED  BY <1>3, <1>4 DEF OneKept

\* Two sides with the same text are merged to it.
LEMMA MergeOfOne ==
  ASSUME NEW L, NEW origin \in Seq(L), NEW mine \in Seq(L)
  PROVE  ~Merge3(origin, mine, mine).failed /\ Merge3(origin, mine, mine).out = mine
<1> DEFINE M == TextDiff(origin, mine)
           start == MergeStart(origin, mine, mine)
           merged == Merge3(origin, mine, mine)
<1>1. PICK U : /\ Texts(origin, mine, mine, M, M, U, L)
               /\ start \in MergeKept(L, origin, mine, mine, M, M, U)
               /\ Standing(start, origin, mine, mine, M, M, U, L)
  BY MergeBegins
<1>2. start.failed = FALSE /\ start.c1 = M /\ start.c2 = M /\ start.m = 0 /\ start.y = 0 /\ start.out = <<>>
  BY DEF MergeStart
<1> HIDE DEF M, start
<1> DEFINE C == OneKept(L, origin, mine, M, U)
<1>3. start \in C
  <2>1. UpTo(start.out, mine, start.m)
    BY <1>2, WholeText DEF UpTo
  <2> QED  BY <1>1, <1>2, <2>1 DEF OneKept, AsOne
<1>4. \A s \in C : MergeStep(origin, mine, mine, s) \in C
  BY <1>1, OneStays
<1>5. C \subseteq MergeKept(L, origin, mine, mine, M, M, U)
  BY DEF OneKept
<1>6. merged \in C /\ (merged.failed \/ MergeEnded(merged, origin, U, L))
  <2> HIDE DEF C
  <2> QED  BY <1>1, <1>3, <1>4, <1>5, MergeCloses DEF start
<1> HIDE DEF merged
<1>7. ~merged.failed /\ merged.c1 = <<>>
  BY <1>6 DEF OneKept, MergeEnded
<1>8. CASE merged.out = mine
  BY <1>7, <1>8 DEF merged
<1>9. CASE AsOne(merged, L, origin, mine, M, U)
  <2>1. RestOf(<<>>, M, origin, mine, L, merged.p, merged.m) /\ UpTo(merged.out, mine, merged.m)
    BY <1>7, <1>9 DEF AsOne, Standing, Stands
  <2>2. merged.m = Len(mine)
    BY <2>1, RestEnd
  <2>3. merged.out = mine
    BY <2>1, <2>2, UpToEnd
  <2> QED  BY <1>7, <2>3 DEF merged
<1> QED  BY <1>6, <1>8, <1>9 DEF OneKept

\* Nothing but copies is left of the edits of a text that is the origin.
OnlyCopy(c, n) == c = IF n > 0 THEN <<Triple(n, 0, 0)>> ELSE <<>>

\* The one copy that is left.
LEMMA OnlyCopyFacts ==
  ASSUME NEW n \in Nat, NEW c, OnlyCopy(c, n), c # <<>>
  PROVE  n > 0 /\ Head(c).copy = n /\ Head(c).del = 0 /\ Head(c).ins = 0
BY DEF OnlyCopy, Triple

\* A part of that copy is done.
LEMMA OnlyCopyLess ==
  ASSUME NEW n \in Nat, NEW c, OnlyCopy(c, n), c # <<>>, NEW d \in Nat, d <= n
  PROVE  OnlyCopy(Finished(Copied(c, d)), n - d)
<1> DEFINE e == Triple(n, 0, 0)
           f == [e EXCEPT !.copy = n - d]
<1>1. c = <<e>> /\ n > 0
  BY DEF OnlyCopy
<1>2. f = Triple(n - d, 0, 0) /\ e.copy = n
  BY DEF Triple
<1>3. [e EXCEPT !.copy = @ - d] = f
  BY <1>2
<1> HIDE DEF e, f
<1>4. Copied(c, d) = <<f>>
  <2>1. Head(c) = e /\ Tail(c) = <<>> /\ <<f>> \o <<>> = <<f>>
    BY <1>1
  <2> QED  BY <1>3, <2>1 DEF Copied
<1>5. Head(<<f>>) = f /\ Tail(<<f>>) = <<>> /\ <<f>> # <<>>
  OBVIOUS
<1>6. f = Triple(0, 0, 0) <=> n - d = 0
  BY <1>2 DEF Triple
<1>7. CASE n - d = 0
  <2>1. Finished(<<f>>) = <<>>
    BY <1>5, <1>6, <1>7 DEF Finished
  <2>2. ~(n - d > 0)
    BY <1>7
  <2> QED  BY <1>4, <2>1, <2>2 DEF OnlyCopy
<1>8. CASE n - d # 0
  <2>1. Finished(<<f>>) = <<f>>
    BY <1>5, <1>6, <1>8 DEF Finished
  <2>2. n - d > 0
    BY <1>8
  <2> QED  BY <1>2, <1>4, <2>1, <2>2 DEF OnlyCopy
<1> QED  BY <1>7, <1>8

\* Mine is the origin: the merge is yours.
MinePlain(s, L, origin, yours, M, Y, U) ==
  /\ Standing(s, origin, origin, yours, M, Y, U, L)
  /\ OnlyCopy(s.c1, Len(origin) - s.p) /\ UpTo(s.out, yours, s.y)
MineKept(L, origin, yours, M, Y, U) ==
  {s \in MergeKept(L, origin, origin, yours, M, Y, U) :
     ~s.failed /\ ((MergeEnded(s, origin, U, L) /\ s.out = yours) \/ MinePlain(s, L, origin, yours, M, Y, U))}

\* With nothing but a copy on the side of mine, no step can fail.
LEMMA MineStays ==
  ASSUME NEW L, NEW origin, NEW yours, NEW M, NEW Y, NEW U, Texts(origin, origin, yours, M, Y, U, L),
         NEW s \in MineKept(L, origin, yours, M, Y, U)
  PROVE  MergeStep(origin, origin, yours, s) \in MineKept(L, origin, yours, M, Y, U)
<1> DEFINE t == MergeStep(origin, origin, yours, s)
<1>1. s \in MergeKept(L, origin, origin, yours, M, Y, U) /\ ~s.failed
  BY DEF MineKept
<1>2. t \in MergeKept(L, origin, origin, yours, M, Y, U)
  BY <1>1, KeptStep
<1>3. CASE MergeEnded(s, origin, U, L) /\ s.out = yours
  <2>1. t = s
    BY <1>3, EndedStays
  <2> QED  BY <2>1
<1>4. CASE MinePlain(s, L, origin, yours, M, Y, U)
  <2>1. /\ Standing(s, origin, origin, yours, M, Y, U, L)
        /\ OnlyCopy(s.c1, Len(origin) - s.p) /\ UpTo(s.out, yours, s.y)
    BY <1>4 DEF MinePlain
  <2>2. RestOf(s.c1, M, origin, origin, L, s.p, s.m) /\ RestOf(s.c2, Y, origin, yours, L, s.p, s.y)
    BY <2>1 DEF Standing, Stands
  <2>3. /\ origin \in Seq(L) /\ yours \in Seq(L) /\ s.m \in Nat /\ s.y \in Nat /\ s.p \in Nat
        /\ Len(origin) \in Nat /\ s.p <= Len(origin)
    BY <2>2, RestRange
  <2> DEFINE n == Len(origin) - s.p
  <2>4. n \in Nat /\ n = Len(origin) - s.p
    BY <2>3
  <2>5. s.c1 # <<>> => n > 0 /\ Head(s.c1).copy = n /\ Head(s.c1).del = 0 /\ Head(s.c1).ins = 0
    BY <2>1, <2>4, OnlyCopyFacts
  <2>6. ASSUME NEW d \in Nat, d <= n, s.c1 # <<>>  PROVE OnlyCopy(Finished(Copied(s.c1, d)), Len(origin) - (s.p + d))
    <3>1. n - d = Len(origin) - (s.p + d)
      BY <2>3
    <3> HIDE DEF n
    <3>2. OnlyCopy(Finished(Copied(s.c1, d)), n - d)
      BY <2>1, <2>4, <2>6, OnlyCopyLess
    <3> QED  BY <3>1, <3>2
  <2>7. \/ EndStep(s, t, origin, yours) \/ CopyStep(s, t, origin) \/ YoursStep(s, t, yours)
        \/ MineStep(s, t, origin) \/ SameStep(s, t, origin, yours) \/ FailStep(s, t, origin, yours)
    BY <2>1, StepCases
  <2> HIDE DEF t, n
  <2>8. CASE EndStep(s, t, origin, yours)
    <3>1. MergeEnded(t, origin, U, L)
      BY <2>1, <2>8, LastStep
    <3>2. s.c1 = <<>>
      <4> SUFFICES ASSUME s.c1 # <<>>  PROVE FALSE
        OBVIOUS
      <4>1. s.c2 = <<>>
        BY <2>8 DEF EndStep
      <4>2. RestOf(<<>>, Y, origin, yours, L, s.p, s.y)
        BY <2>2, <4>1
      <4>3. Head(s.c1).copy = 0
        BY <2>2, <4>2, AtEnd
      <4> QED  BY <2>5, <4>3
    <3>3. PICK r : /\ t = At(s.p, s.m, s.y, s.out \o r, s.failed, <<>>, <<>>)
                   /\ s.c2 # <<>> => r = Lines(yours, s.y, Head(s.c2).ins)
                   /\ s.c2 = <<>> => r = <<>>
      BY <2>8, <3>2 DEF EndStep
    <3> DEFINE none == <<>>
               o == s.out \o r
    <3> HIDE DEF none, o
    <3>4. t = At(s.p, s.m, s.y, o, s.failed, none, none)
      BY <3>3 DEF none, o
    <3>5. t.out = o
      BY <3>4, AtFields
    <3>6. o = yours
      <4>1. CASE s.c2 = <<>>
        <5>1. RestOf(<<>>, Y, origin, yours, L, s.p, s.y)
          BY <2>2, <4>1
        <5>2. s.y = Len(yours)
          BY <5>1, RestEnd
        <5>3. UpTo(s.out, yours, Len(yours))
          BY <2>1, <5>2
        <5>4. s.out \o <<>> = yours
          BY <2>3, <5>3, UpToEnd
        <5> QED  BY <3>3, <4>1, <5>4 DEF o
      <4>2. CASE s.c2 # <<>>
        <5>1. RestOf(<<>>, M, origin, origin, L, s.p, s.m)
          BY <2>2, <3>2
        <5> DEFINE i == Head(s.c2).ins
        <5>2. i \in Nat /\ s.y + i = Len(yours)
          BY <2>2, <4>2, <5>1, AtEnd
        <5>3. o = s.out \o Lines(yours, s.y, i)
          BY <3>3, <4>2 DEF o
        <5> HIDE DEF i
        <5>4. Len(yours) <= Len(yours)
          BY <2>3, LenProperties
        <5>5. UpTo(s.out \o Lines(yours, s.y, i), yours, s.y + i)
          BY <2>1, <2>3, <5>2, <5>4, UpToMore
        <5>6. UpTo(o, yours, Len(yours))
          BY <5>2, <5>3, <5>5
        <5> QED  BY <2>3, <5>6, UpToEnd
      <4> QED  BY <4>1, <4>2
    <3> QED  BY <1>2, <3>1, <3>5, <3>6 DEF MineKept, MergeEnded, t
  <2>9. CASE CopyStep(s, t, origin)
    <3>1. Onwards(t, s, origin, origin, yours, M, Y, U, L)
      BY <2>1, <2>9, StepOn
    <3>2. s.c1 # <<>> /\ s.c2 # <<>>
      BY <2>9 DEF CopyStep
    <3>3. PICK k \in Nat : /\ k > 0 /\ k <= Head(s.c1).copy /\ k <= Head(s.c2).copy
                           /\ t = At(s.p + k, s.m + k, s.y + k, s.out \o Lines(origin, s.p, k), s.failed,
                                     Finished(Copied(s.c1, k)), Finished(Copied(s.c2, k)))
      BY <2>9 DEF CopyStep
    <3>4. /\ t.p = s.p + k /\ t.y = s.y + k /\ t.out = s.out \o Lines(origin, s.p, k)
          /\ t.c1 = Finished(Copied(s.c1, k))
      BY <3>3 DEF At
    <3>5. Lines(origin, s.p, k) = Lines(yours, s.y, k) /\ s.y + k <= Len(yours)
      BY <2>2, <3>2, <3>3, CopyIsLines
    <3>6. UpTo(s.out \o Lines(yours, s.y, k), yours, s.y + k)
      BY <2>1, <2>3, <3>5, UpToMore
    <3>7. k <= n
      BY <2>5, <3>2, <3>3
    <3>8. OnlyCopy(Finished(Copied(s.c1, k)), Len(origin) - (s.p + k))
      BY <2>6, <3>2, <3>7
    <3>9. MinePlain(t, L, origin, yours, M, Y, U)
      BY <3>1, <3>4, <3>5, <3>6, <3>8 DEF MinePlain, Onwards
    <3> QED  BY <1>2, <3>1, <3>9 DEF MineKept, Onwards, Standing, t
  <2>10. CASE YoursStep(s, t, yours)
    <3>1. Onwards(t, s, origin, origin, yours, M, Y, U, L)
      BY <2>1, <2>10, StepOn
    <3> DEFINE d == Head(s.c2).del
               i == Head(s.c2).ins
    <3>2. /\ s.c1 # <<>> /\ s.c2 # <<>> /\ Head(s.c2).copy = 0 /\ d <= Head(s.c1).copy
          /\ t = At(s.p + d, s.m + d, s.y + i, s.out \o Lines(yours, s.y, i), s.failed,
                    Finished(Copied(s.c1, d)), Tail(s.c2))
      BY <2>10 DEF YoursStep, YoursNext
    <3>3. /\ t.p = s.p + d /\ t.y = s.y + i /\ t.out = s.out \o Lines(yours, s.y, i)
          /\ t.c1 = Finished(Copied(s.c1, d))
      BY <3>2 DEF At
    <3>4. d \in Nat /\ i \in Nat /\ s.y + i <= Len(yours)
      BY <2>2, <3>2, EditNow
    <3>5. d <= n
      BY <2>5, <3>2
    <3> HIDE DEF d, i
    <3>6. UpTo(s.out \o Lines(yours, s.y, i), yours, s.y + i)
      BY <2>1, <2>3, <3>4, UpToMore
    <3>7. OnlyCopy(Finished(Copied(s.c1, d)), Len(origin) - (s.p + d))
      BY <2>6, <3>2, <3>4, <3>5
    <3>8. MinePlain(t, L, origin, yours, M, Y, U)
      BY <3>1, <3>3, <3>6, <3>7 DEF MinePlain, Onwards
    <3> QED  BY <1>2, <3>1, <3>8 DEF MineKept, Onwards, Standing, t
  <2>11. CASE MineStep(s, t, origin)
    <3>1. s.c1 # <<>> /\ Head(s.c1).copy = 0
      BY <2>11 DEF MineStep, MineNext
    <3> QED  BY <2>5, <3>1
  <2>12. CASE SameStep(s, t, origin, yours)
    <3>1. s.c1 # <<>> /\ Head(s.c1).copy = 0
      BY <2>12 DEF SameStep, SameNext
    <3> QED  BY <2>5, <3>1
  <2>13. CASE FailStep(s, t, origin, yours)
    <3>1. s.c1 # <<>> /\ s.c2 # <<>> /\ (Head(s.c1).copy = 0 \/ Head(s.c2).copy = 0) /\ ~YoursNext(s)
      BY <2>13 DEF FailStep
    <3> DEFINE d == Head(s.c2).del
    <3>2. n > 0 /\ Head(s.c1).copy = n /\ Head(s.c2).copy = 0
      BY <2>5, <3>1
    <3>3. d \in Nat /\ s.p + d <= Len(origin)
      BY <2>2, <3>1, <3>2, EditNow
    <3> HIDE DEF d
    <3>4. d <= n
      BY <2>3, <2>4, <3>3
    <3> QED  BY <3>1, <3>2, <3>4 DEF YoursNext, d
  <2> QED  BY <2>7, <2>8, <2>9, <2>10, <2>11, <2>12, <2>13
<1> QED  BY <1>3, <1>4 DEF MineKept

\* Where mine is the origin, the merge is yours.
LEMMA MergeOfYours ==
  ASSUME NEW L, NEW origin \in Seq(L), NEW yours \in Seq(L)
  PROVE  ~Merge3(origin, origin, yours).failed /\ Merge3(origin, origin, yours).out = yours
<1> DEFINE M == TextDiff(origin, origin)
           Y == TextDiff(origin, yours)
           start == MergeStart(origin, origin, yours)
           merged == Merge3(origin, origin, yours)
<1>1. PICK U : /\ Texts(origin, origin, yours, M, Y, U, L)
               /\ start \in MergeKept(L, origin, origin, yours, M, Y, U)
               /\ Standing(start, origin, origin, yours, M, Y, U, L)
  BY MergeBegins
<1>2. start.failed = FALSE /\ start.c1 = M /\ start.c2 = Y /\ start.p = 0 /\ start.y = 0 /\ start.out = <<>>
  BY DEF MergeStart
<1>3. OnlyCopy(M, Len(origin))
  BY SelfDiff DEF OnlyCopy
<1> HIDE DEF M, Y, start
<1> DEFINE C == MineKept(L, origin, yours, M, Y, U)
<1>4. start \in C
  <2>1. UpTo(start.out, yours, start.y)
    BY <1>2, WholeText DEF UpTo
  <2>2. Len(origin) - 0 = Len(origin)
    BY LenProperties
  <2> QED  BY <1>1, <1>2, <1>3, <2>1, <2>2 DEF MineKept, MinePlain
<1>5. \A s \in C : MergeStep(origin, origin, yours, s) \in C
  BY <1>1, MineStays
<1>6. C \subseteq MergeKept(L, origin, origin, yours, M, Y, U)
  BY DEF MineKept
<1>7. merged \in C /\ (merged.failed \/ MergeEnded(merged, origin, U, L))
  <2> HIDE DEF C
  <2> QED  BY <1>1, <1>4, <1>5, <1>6, MergeCloses DEF start
<1> HIDE DEF merged
<1>8. ~merged.failed /\ merged.c2 = <<>>
  BY <1>7 DEF MineKept, MergeEnded
<1>9. CASE merged.out = yours
  BY <1>8, <1>9 DEF merged
<1>10. CASE MinePlain(merged, L, origin, yours, M, Y, U)
  <2>1. RestOf(<<>>, Y, origin, yours, L, merged.p, merged.y) /\ UpTo(merged.out, yours, merged.y)
    BY <1>8, <1>10 DEF MinePlain, Standing, Stands
  <2>2. merged.y = Len(yours)
    BY <2>1, RestEnd
  <2>3. merged.out = yours
    BY <2>1, <2>2, UpToEnd
  <2> QED  BY <1>8, <2>3 DEF merged
<1> QED  BY <1>7, <1>9, <1>10 DEF MineKept

\* Yours is the origin: the merge is mine.
YoursPlain(s, L, origin, mine, M, Y, U) ==
  /\ Standing(s, origin, mine, origin, M, Y, U, L)
  /\ OnlyCopy(s.c2, Len(origin) - s.p) /\ UpTo(s.out, mine, s.m)
YoursKept(L, origin, mine, M, Y, U) ==
  {s \in MergeKept(L, origin, mine, origin, M, Y, U) :
     ~s.failed /\ ((MergeEnded(s, origin, U, L) /\ s.out = mine) \/ YoursPlain(s, L, origin, mine, M, Y, U))}

\* With nothing but a copy on the side of yours, no step can fail.
LEMMA YoursStays ==
  ASSUME NEW L, NEW origin, NEW mine, NEW M, NEW Y, NEW U, Texts(origin, mine, origin, M, Y, U, L),
         NEW s \in YoursKept(L, origin, mine, M, Y, U)
  PROVE  MergeStep(origin, mine, origin, s) \in YoursKept(L, origin, mine, M, Y, U)
<1> DEFINE t == MergeStep(origin, mine, origin, s)
<1>1. s \in MergeKept(L, origin, mine, origin, M, Y, U) /\ ~s.failed
  BY DEF YoursKept
<1>2. t \in MergeKept(L, origin, mine, origin, M, Y, U)
  BY <1>1, KeptStep
<1>3. CASE MergeEnded(s, origin, U, L) /\ s.out = mine
  <2>1. t = s
    BY <1>3, EndedStays
  <2> QED  BY <2>1
<1>4. CASE YoursPlain(s, L, origin, mine, M, Y, U)
  <2>1. /\ Standing(s, origin, mine, origin, M, Y, U, L)
        /\ OnlyCopy(s.c2, Len(origin) - s.p) /\ UpTo(s.out, mine, s.m)
    BY <1>4 DEF YoursPlain
  <2>2. RestOf(s.c2, Y, origin, origin, L, s.p, s.y) /\ RestOf(s.c1, M, origin, mine, L, s.p, s.m)
    BY <2>1 DEF Standing, Stands
  <2>3. /\ origin \in Seq(L) /\ mine \in Seq(L) /\ s.m \in Nat /\ s.y \in Nat /\ s.p \in Nat
        /\ Len(origin) \in Nat /\ s.p <= Len(origin)
    BY <2>2, RestRange
  <2> DEFINE n == Len(origin) - s.p
  <2>4. n \in Nat /\ n = Len(origin) - s.p
    BY <2>3
  <2>5. s.c2 # <<>> => n > 0 /\ Head(s.c2).copy = n /\ Head(s.c2).del = 0 /\ Head(s.c2).ins = 0
    BY <2>1, <2>4, OnlyCopyFacts
  <2>6. ASSUME NEW d \in Nat, d <= n, s.c2 # <<>>  PROVE OnlyCopy(Finished(Copied(s.c2, d)), Len(origin) - (s.p + d))
    <3>1. n - d = Len(origin) - (s.p + d)
      BY <2>3
    <3> HIDE DEF n
    <3>2. OnlyCopy(Finished(Copied(s.c2, d)), n - d)
      BY <2>1, <2>4, <2>6, OnlyCopyLess
    <3> QED  BY <3>1, <3>2
  <2>7. \/ EndStep(s, t, mine, origin) \/ CopyStep(s, t, origin) \/ YoursStep(s, t, origin)
        \/ MineStep(s, t, mine) \/ SameStep(s, t, mine, origin) \/ FailStep(s, t, mine, origin)
    BY <2>1, StepCases
  <2> HIDE DEF t, n
  <2>8. CASE EndStep(s, t, mine, origin)
    <3>1. MergeEnded(t, origin, U, L)
      BY <2>1, <2>8, LastStep
    <3>2. s.c2 = <<>>
      <4> SUFFICES ASSUME s.c2 # <<>>  PROVE FALSE
        OBVIOUS
      <4>1. s.c1 = <<>>
        BY <2>8 DEF EndStep
      <4>2. RestOf(<<>>, M, origin, mine, L, s.p, s.m)
        BY <2>2, <4>1
      <4>3. Head(s.c2).copy = 0
        BY <2>2, <4>2, AtEnd
      <4> QED  BY <2>5, <4>3
    <3>3. PICK r : /\ t = At(s.p, s.m, s.y, s.out \o r, s.failed, <<>>, <<>>)
                   /\ s.c1 # <<>> => r = Lines(mine, s.m, Head(s.c1).ins)
                   /\ s.c1 = <<>> => r = <<>>
      BY <2>8, <3>2 DEF EndStep
    <3> DEFINE none == <<>>
               o == s.out \o r
    <3> HIDE DEF none, o
    <3>4. t = At(s.p, s.m, s.y, o, s.failed, none, none)
      BY <3>3 DEF none, o
    <3>5. t.out = o
      BY <3>4, AtFields
    <3>6. o = mine
      <4>1. CASE s.c1 = <<>>
        <5>1. RestOf(<<>>, M, origin, mine, L, s.p, s.m)
          BY <2>2, <4>1
        <5>2. s.m = Len(mine)
          BY <5>1, RestEnd
        <5>3. UpTo(s.out, mine, Len(mine))
          BY <2>1, <5>2
        <5>4. s.out \o <<>> = mine
          BY <2>3, <5>3, UpToEnd
        <5> QED  BY <3>3, <4>1, <5>4 DEF o
      <4>2. CASE s.c1 # <<>>
        <5>1. RestOf(<<>>, Y, origin, origin, L, s.p, s.y)
          BY <2>2, <3>2
        <5> DEFINE i == Head(s.c1).ins
        <5>2. i \in Nat /\ s.m + i = Len(mine)
          BY <2>2, <4>2, <5>1, AtEnd
        <5>3. o = s.out \o Lines(mine, s.m, i)
          BY <3>3, <4>2 DEF o
        <5> HIDE DEF i
        <5>4. Len(mine) <= Len(mine)
          BY <2>3, LenProperties
        <5>5. UpTo(s.out \o Lines(mine, s.m, i), mine, s.m + i)
          BY <2>1, <2>3, <5>2, <5>4, UpToMore
        <5>6. UpTo(o, mine, Len(mine))
          BY <5>2, <5>3, <5>5
        <5> QED  BY <2>3, <5>6, UpToEnd
      <4> QED  BY <4>1, <4>2
    <3> QED  BY <1>2, <3>1, <3>5, <3>6 DEF YoursKept, MergeEnded, t
  <2>9. CASE CopyStep(s, t, origin)
    <3>1. Onwards(t, s, origin, mine, origin, M, Y, U, L)
      BY <2>1, <2>9, StepOn
    <3>2. s.c1 # <<>> /\ s.c2 # <<>>
      BY <2>9 DEF CopyStep
    <3>3. PICK k \in Nat : /\ k > 0 /\ k <= Head(s.c1).copy /\ k <= Head(s.c2).copy
                           /\ t = At(s.p + k, s.m + k, s.y + k, s.out \o Lines(origin, s.p, k), s.failed,
                                     Finished(Copied(s.c1, k)), Finished(Copied(s.c2, k)))
      BY <2>9 DEF CopyStep
    <3>4. /\ t.p = s.p + k /\ t.m = s.m + k /\ t.out = s.out \o Lines(origin, s.p, k)
          /\ t.c2 = Finished(Copied(s.c2, k))
      BY <3>3 DEF At
    <3>5. Lines(origin, s.p, k) = Lines(mine, s.m, k) /\ s.m + k <= Len(mine)
      BY <2>2, <3>2, <3>3, CopyIsLines
    <3>6. UpTo(s.out \o Lines(mine, s.m, k), mine, s.m + k)
      BY <2>1, <2>3, <3>5, UpToMore
    <3>7. k <= n
      BY <2>5, <3>2, <3>3
    <3>8. OnlyCopy(Finished(Copied(s.c2, k)), Len(origin) - (s.p + k))
      BY <2>6, <3>2, <3>7
    <3>9. YoursPlain(t, L, origin, mine, M, Y, U)
      BY <3>1, <3>4, <3>5, <3>6, <3>8 DEF YoursPlain, Onwards
    <3> QED  BY <1>2, <3>1, <3>9 DEF YoursKept, Onwards, Standing, t
  <2>10. CASE MineStep(s, t, mine)
    <3>1. Onwards(t, s, origin, mine, origin, M, Y, U, L)
      BY <2>1, <2>10, StepOn
    <3> DEFINE d == Head(s.c1).del
               i == Head(s.c1).ins
    <3>2. /\ s.c2 # <<>> /\ s.c1 # <<>> /\ Head(s.c1).copy = 0 /\ d <= Head(s.c2).copy
          /\ t = At(s.p + d, s.m + i, s.y + d, s.out \o Lines(mine, s.m, i), s.failed,
                    Tail(s.c1), Finished(Copied(s.c2, d)))
      BY <2>10 DEF MineStep, MineNext
    <3>3. /\ t.p = s.p + d /\ t.m = s.m + i /\ t.out = s.out \o Lines(mine, s.m, i)
          /\ t.c2 = Finished(Copied(s.c2, d))
      BY <3>2 DEF At
    <3>4. d \in Nat /\ i \in Nat /\ s.m + i <= Len(mine)
      BY <2>2, <3>2, EditNow
    <3>5. d <= n
      BY <2>5, <3>2
    <3> HIDE DEF d, i
    <3>6. UpTo(s.out \o Lines(mine, s.m, i), mine, s.m + i)
      BY <2>1, <2>3, <3>4, UpToMore
    <3>7. OnlyCopy(Finished(Copied(s.c2, d)), Len(origin) - (s.p + d))
      BY <2>6, <3>2, <3>4, <3>5
    <3>8. YoursPlain(t, L, origin, mine, M, Y, U)
      BY <3>1, <3>3, <3>6, <3>7 DEF YoursPlain, Onwards
    <3> QED  BY <1>2, <3>1, <3>8 DEF YoursKept, Onwards, Standing, t
  <2>11. CASE YoursStep(s, t, origin)
    <3>1. s.c2 # <<>> /\ Head(s.c2).copy = 0
      BY <2>11 DEF YoursStep, YoursNext
    <3> QED  BY <2>5, <3>1
  <2>12. CASE SameStep(s, t, mine, origin)
    <3>1. s.c2 # <<>> /\ Head(s.c2).copy = 0
      BY <2>12 DEF SameStep, SameNext
    <3> QED  BY <2>5, <3>1
  <2>13. CASE FailStep(s, t, mine, origin)
    <3>1. s.c1 # <<>> /\ s.c2 # <<>> /\ (Head(s.c1).copy = 0 \/ Head(s.c2).copy = 0) /\ ~MineNext(s)
      BY <2>13 DEF FailStep
    <3> DEFINE d == Head(s.c1).del
    <3>2. n > 0 /\ Head(s.c2).copy = n /\ Head(s.c1).copy = 0
      BY <2>5, <3>1
    <3>3. d \in Nat /\ s.p + d <= Len(origin)
      BY <2>2, <3>1, <3>2, EditNow
    <3> HIDE DEF d
    <3>4. d <= n
      BY <2>3, <2>4, <3>3
    <3> QED  BY <3>1, <3>2, <3>4 DEF MineNext, d
  <2> QED  BY <2>7, <2>8, <2>9, <2>10, <2>11, <2>12, <2>13
<1> QED  BY <1>3, <1>4 DEF YoursKept

\* Where yours is the origin, the merge is mine.
LEMMA MergeOfMine ==
  ASSUME NEW L, NEW origin \in Seq(L), NEW mine \in Seq(L)
  PROVE  ~Merge3(origin, mine, origin).failed /\ Merge3(origin, mine, origin).out = mine
<1> DEFINE M == TextDiff(origin, mine)
           Y == TextDiff(origin, origin)
           start == MergeStart(origin, mine, origin)
           merged == Merge3(origin, mine, origin)
<1>1. PICK U : /\ Texts(origin, mine, origin, M, Y, U, L)
               /\ start \in MergeKept(L, origin, mine, origin, M, Y, U)
               /\ Standing(start, origin, mine, origin, M, Y, U, L)
  BY MergeBegins
<1>2. start.failed = FALSE /\ start.c1 = M /\ start.c2 = Y /\ start.p = 0 /\ start.m = 0 /\ start.out = <<>>
  BY DEF MergeStart
<1>3. OnlyCopy(Y, Len(origin))
  BY SelfDiff DEF OnlyCopy
<1> HIDE DEF M, Y, start
<1> DEFINE C == YoursKept(L, origin, mine, M, Y, U)
<1>4. start \in C
  <2>1. UpTo(start.out, mine, start.m)
    BY <1>2, WholeText DEF UpTo
  <2>2. Len(origin) - 0 = Len(origin)
    BY LenProperties
  <2> QED  BY <1>1, <1>2, <1>3, <2>1, <2>2 DEF YoursKept, YoursPlain
<1>5. \A s \in C : MergeStep(origin, mine, origin, s) \in C
  BY <1>1, YoursStays
<1>6. C \subseteq MergeKept(L, origin, mine, origin, M, Y, U)
  BY DEF YoursKept
<1>7. merged \in C /\ (merged.failed \/ MergeEnded(merged, origin, U, L))
  <2> HIDE DEF C
  <2> QED  BY <1>1, <1>4, <1>5, <1>6, MergeCloses DEF start
<1> HIDE DEF merged
<1>8. ~merged.failed /\ merged.c1 = <<>>
  BY <1>7 DEF YoursKept, MergeEnded
<1>9. CASE merged.out = mine
  BY <1>8, <1>9 DEF merged
<1>10. CASE YoursPlain(merged, L, origin, mine, M, Y, U)
  <2>1. RestOf(<<>>, M, origin, mine, L, merged.p, merged.m) /\ UpTo(merged.out, mine, merged.m)
    BY <1>8, <1>10 DEF YoursPlain, Standing, Stands
  <2>2. merged.m = Len(mine)
    BY <2>1, RestEnd
  <2>3. merged.out = mine
    BY <2>1, <2>2, UpToEnd
  <2> QED  BY <1>8, <2>3 DEF merged
<1> QED  BY <1>7, <1>9, <1>10 DEF YoursKept

\* The merge of any three texts (libpkg/merge3.c, with the edits of
\* libpkg/diff.c): the edits found lead from the origin to mine and to yours;
\* a merge that finds no conflict is, line by line, the text with both edits;
\* and when only one side has changed, or both in the same way, there is no
\* conflict and the merge is the changed text.
THEOREM MergeOfAnyTexts ==
  ASSUME NEW L, NEW origin \in Seq(L), NEW mine \in Seq(L), NEW yours \in Seq(L)
  PROVE  MergedRight(origin, mine, yours)
<1> DEFINE merged == Merge3(origin, mine, yours)
           m == TextDiff(origin, mine)
           y == TextDiff(origin, yours)
<1>1. LeadsTo(m, origin, mine) /\ LeadsTo(y, origin, yours)
  BY DiffLeads
<1>2. ~merged.failed => merged.out = BothEdits(origin, mine, yours, m, y)
  BY MergeMeets
<1>3. mine = origin \/ mine = yours => ~merged.failed /\ merged.out = yours
  <2>1. ASSUME mine = origin  PROVE ~merged.failed /\ merged.out = yours
    <3>1. ~Merge3(origin, origin, yours).failed /\ Merge3(origin, origin, yours).out = yours
      BY MergeOfYours
    <3> QED  BY <2>1, <3>1
  <2>2. ASSUME mine = yours  PROVE ~merged.failed /\ merged.out = yours
    <3>1. ~Merge3(origin, mine, mine).failed /\ Merge3(origin, mine, mine).out = mine
      BY MergeOfOne
    <3> QED  BY <2>2, <3>1
  <2> QED  BY <2>1, <2>2
<1>4. yours = origin => ~merged.failed /\ merged.out = mine
  <2>1. ASSUME yours = origin  PROVE ~merged.failed /\ merged.out = mine
    <3>1. ~Merge3(origin, mine, origin).failed /\ Merge3(origin, mine, origin).out = mine
      BY MergeOfMine
    <3> QED  BY <2>1, <3>1
  <2> QED  BY <2>1
<1> HIDE DEF merged, m, y
<1>5. \E w \in {merged}, mm \in {m}, yy \in {y} :
        /\ LeadsTo(mm, origin, mine) /\ LeadsTo(yy, origin, yours)
        /\ ~w.failed => w.out = BothEdits(origin, mine, yours, mm, yy)
        /\ mine = origin \/ mine = yours => ~w.failed /\ w.out = yours
        /\ yours = origin => ~w.failed /\ w.out = mine
  BY <1>1, <1>2, <1>3, <1>4
<1> QED  BY <1>5 DEF MergedRight, merged, m, y

-----------------------------------------------------------------------------
(* The lines of one side only.                                             *)

Has(text, x) == \E k \in 1 .. Len(text) : text[k] = x

\* A line of two texts in a row is a line of one of them.
LEMMA HasConcat ==
  ASSUME NEW L, NEW a \in Seq(L), NEW b \in Seq(L), NEW x
  PROVE  Has(a \o b, x) <=> Has(a, x) \/ Has(b, x)
<1> DEFINE c == a \o b
           i == Len(a)
           j == Len(b)
<1>1. /\ i \in Nat /\ j \in Nat /\ Len(c) = i + j
      /\ \A k \in 1 .. i : c[k] = a[k]
      /\ \A k \in 1 .. i + j : k > i => c[k] = b[k - i]
  BY ConcatProperties, LenProperties
<1> HIDE DEF c, i, j
<1>2. ASSUME NEW k \in 1 .. Len(c), c[k] = x  PROVE Has(a, x) \/ Has(b, x)
  <2>1. CASE k <= i
    <3>1. k \in 1 .. i /\ a[k] = x
      BY <1>1, <1>2, <2>1
    <3> QED  BY <3>1 DEF Has, i
  <2>2. CASE ~(k <= i)
    <3>1. k - i \in 1 .. j /\ b[k - i] = x
      BY <1>1, <1>2, <2>2
    <3> QED  BY <3>1 DEF Has, j
  <2> QED  BY <2>1, <2>2
<1>3. ASSUME NEW k \in 1 .. i, a[k] = x  PROVE Has(c, x)
  <2>1. k \in 1 .. Len(c) /\ c[k] = x
    BY <1>1, <1>3
  <2> QED  BY <2>1 DEF Has
<1>4. ASSUME NEW k \in 1 .. j, b[k] = x  PROVE Has(c, x)
  <2> DEFINE l == i + k
  <2>1. l \in 1 .. i + j /\ l > i /\ l - i = k
    BY <1>1
  <2>2. c[l] = x /\ l \in 1 .. Len(c)
    BY <1>1, <1>4, <2>1
  <2> QED  BY <2>2 DEF Has
<1> QED  BY <1>2, <1>3, <1>4 DEF Has, c, i, j

\* The empty text has no line.
LEMMA HasNone == ASSUME NEW x  PROVE ~Has(<<>>, x)
BY EmptySeq DEF Has

\* A line of a part of a text is a line of the text.
LEMMA HasLines ==
  ASSUME NEW L, NEW a \in Seq(L), NEW n \in Nat, NEW k \in Nat, n + k <= Len(a), NEW x
  PROVE  /\ Has(Lines(a, n, k), x) => Has(a, x)
         /\ \A i \in Nat : n < i /\ i <= n + k /\ a[i] = x => Has(Lines(a, n, k), x)
<1> DEFINE s == Lines(a, n, k)
<1>1. Len(a) \in Nat /\ Len(s) = k /\ \A i \in 1 .. k : s[i] = a[n + i]
  BY LinesFacts, LenProperties
<1> HIDE DEF s
<1>2. ASSUME NEW i \in 1 .. Len(s), s[i] = x  PROVE Has(a, x)
  <2>1. n + i \in 1 .. Len(a) /\ a[n + i] = x
    BY <1>1, <1>2
  <2> QED  BY <2>1 DEF Has
<1>3. ASSUME NEW i \in Nat, n < i, i <= n + k, a[i] = x  PROVE Has(s, x)
  <2>1. i - n \in 1 .. k /\ n + (i - n) = i
    BY <1>3
  <2>2. s[i - n] = x
    BY <1>1, <1>3, <2>1
  <2> QED  BY <1>1, <2>1, <2>2 DEF Has
<1> QED  BY <1>2, <1>3 DEF Has, s

\* What the edits to a text insert are its lines.
LEMMA InsertedOf ==
  ASSUME NEW L, NEW a, NEW b, NEW M, NEW R, NEW S, Frame(M, R, S, a, b, L), NEW gap, NEW x,
         Has(Inserted(M, b, gap), x)
  PROVE  Has(b, x)
<1>1. CASE \A k \in 1 .. Len(M) : Place(M, R, k) # gap
  <2>1. Inserted(M, b, gap) = <<>>
    BY <1>1, InsertedIs
  <2> QED  BY <2>1, HasNone
<1>2. ASSUME NEW k \in 1 .. Len(M), Place(M, R, k) = gap  PROVE Has(b, x)
  <2> DEFINE n == S[k - 1] + M[k].copy
             i == M[k].ins
  <2>1. Inserted(M, b, gap) = Lines(b, n, i)
    BY <1>2, InsertedIs
  <2>2. b \in Seq(L)
    BY DEF Frame
  <2>3. n \in Nat /\ i \in Nat /\ n + i <= Len(b)
    <3>1. /\ S[k - 1] \in Nat /\ M[k].copy \in Nat /\ M[k].ins \in Nat
          /\ S[k] = S[k - 1] + M[k].copy + M[k].ins /\ S[k] <= Len(b)
      BY FrameFacts, PlaceFacts
    <3> QED  BY <3>1
  <2> HIDE DEF n, i
  <2> QED  BY <2>1, <2>2, <2>3, HasLines
<1> QED  BY <1>1, <1>2

\* A line of a text that its origin does not have is inserted somewhere.
LEMMA InsertedHas ==
  ASSUME NEW L, NEW a, NEW b, NEW M, NEW R, NEW S, Frame(M, R, S, a, b, L), NEW x, ~Has(a, x), Has(b, x)
  PROVE  \E gap \in 0 .. Len(a) : Has(Inserted(M, b, gap), x)
<1> DEFINE Somewhere == \E gap \in 0 .. Len(a) : Has(Inserted(M, b, gap), x)
           T == {k \in Nat : k <= Len(M) => \A i \in 1 .. S[k] : b[i] = x => Somewhere}
<1>1. Len(M) \in Nat /\ Len(a) \in Nat /\ Len(b) \in Nat /\ S[0] = 0 /\ S[Len(M)] = Len(b) /\ b \in Seq(L)
  BY FrameFacts DEF Frame
<1> HIDE DEF Somewhere
<1>2. 0 \in T
  BY <1>1
<1>3. ASSUME NEW k \in T  PROVE k + 1 \in T
  <2> SUFFICES ASSUME k + 1 <= Len(M), NEW i \in 1 .. S[k + 1], b[i] = x  PROVE Somewhere
    OBVIOUS
  <2> DEFINE l == k + 1
             r == R[l - 1]
             s == S[l - 1]
             c == M[l].copy
             n == M[l].ins
  <2>1. l \in 1 .. Len(M) /\ l - 1 = k /\ k \in Nat /\ k <= Len(M)
    BY <1>1
  <2> HIDE DEF l
  <2>2. /\ s \in Nat /\ r \in Nat /\ c \in Nat /\ n \in Nat /\ S[l] = s + c + n /\ S[l] <= Len(b)
        /\ Place(M, R, l) = r + c /\ r + c <= Len(a)
        /\ \A t \in 1 .. c : a[r + t] = b[s + t]
        /\ Inserted(M, b, Place(M, R, l)) = Lines(b, s + c, n)
    <3>1. /\ R[l - 1] \in Nat /\ R[l] \in Nat /\ S[l - 1] \in Nat /\ Place(M, R, l) \in Nat
          /\ Place(M, R, l) <= R[l] /\ R[l] <= Len(a) /\ S[l] <= Len(b)
      BY <2>1, PlaceFacts
    <3>2. /\ M[l].copy \in Nat /\ M[l].ins \in Nat /\ S[l] = S[l - 1] + M[l].copy + M[l].ins
          /\ \A t \in 1 .. M[l].copy : a[R[l - 1] + t] = b[S[l - 1] + t]
      BY <2>1, FrameFacts
    <3>3. Place(M, R, l) <= Len(a)
      BY <1>1, <3>1
    <3>4. Place(M, R, l) = r + c
      BY DEF Place
    <3>5. Inserted(M, b, Place(M, R, l)) = Lines(b, s + c, n)
      BY <2>1, InsertedIs
    <3> QED  BY <3>1, <3>2, <3>3, <3>4, <3>5
  <2>3. i \in 1 .. S[l]
    BY DEF l
  <2> HIDE DEF r, s, c, n
  <2>4. CASE i <= s
    <3>1. i \in 1 .. S[k]
      BY <2>1, <2>2, <2>3, <2>4 DEF s
    <3> QED  BY <2>1, <3>1
  <2>5. CASE i > s /\ i <= s + c
    <3>1. i - s \in 1 .. c /\ s + (i - s) = i /\ r + (i - s) \in 1 .. Len(a)
      BY <1>1, <2>2, <2>3, <2>5
    <3>2. a[r + (i - s)] = x
      BY <2>2, <3>1
    <3> QED  BY <3>1, <3>2 DEF Has
  <2>6. CASE i > s + c
    <3>1. i \in Nat /\ s + c \in Nat /\ (s + c) + n <= Len(b) /\ i <= (s + c) + n
      BY <1>1, <2>2, <2>3
    <3>2. Has(Lines(b, s + c, n), x)
      BY <1>1, <2>2, <2>6, <3>1, HasLines
    <3>3. r + c \in 0 .. Len(a)
      BY <1>1, <2>2
    <3> QED  BY <2>2, <3>2, <3>3 DEF Somewhere
  <2> QED  BY <2>2, <2>3, <2>4, <2>5, <2>6
<1>4. T = Nat
  <2>1. T \in SUBSET Nat
    OBVIOUS
  <2> HIDE DEF T
  <2> QED  BY <1>2, <1>3, <2>1, SetInduction
<1>5. PICK i \in 1 .. Len(b) : b[i] = x
  BY DEF Has
<1>6. Len(M) \in T
  BY <1>1, <1>4
<1> QED  BY <1>1, <1>5, <1>6 DEF Somewhere

\* Of what comes at a gap, only the insertions of mine have a line of mine only.
LEMMA OwnGap ==
  ASSUME NEW L, NEW origin, NEW mine, NEW yours, NEW M, NEW Y, NEW U, Texts(origin, mine, yours, M, Y, U, L),
         NEW R, NEW S, Frame(Y, R, S, origin, yours, L),
         NEW x, ~Has(origin, x), ~Has(yours, x), NEW g \in 0 .. Len(origin)
  PROVE  /\ Gap(mine, yours, M, Y, g) \in Seq(L)
         /\ Has(Gap(mine, yours, M, Y, g), x) <=> Has(Inserted(M, mine, g), x)
         /\ g > 0 => Line(origin, M, Y, g) \in Seq(L) /\ ~Has(Line(origin, M, Y, g), x)
<1> DEFINE a == Inserted(M, mine, g)
           b == Inserted(Y, yours, g)
<1>1. a \in Seq(L) /\ b \in Seq(L) /\ ~Has(b, x) /\ origin \in Seq(L)
  BY InsertedOf DEF Texts
<1> HIDE DEF a, b
<1>2. Both(a, b) \in Seq(L) /\ (Has(Both(a, b), x) <=> Has(a, x))
  <2>1. Both(a, b) \in Seq(L)
    BY <1>1, BothType
  <2>2. Has(a \o b, x) <=> Has(a, x) \/ Has(b, x)
    BY <1>1, HasConcat
  <2> QED  BY <1>1, <2>1, <2>2 DEF Both
<1>3. Gap(mine, yours, M, Y, g) = Both(a, b)
  BY DEF Gap, a, b
<1>4. ASSUME g > 0  PROVE Line(origin, M, Y, g) \in Seq(L) /\ ~Has(Line(origin, M, Y, g), x)
  <2> DEFINE l == origin[g]
  <2>1. g \in 1 .. Len(origin)
    BY <1>1, <1>4, LenProperties
  <2>2. l \in L /\ l # x
    BY <1>1, <2>1, ElementOfSeq DEF Has
  <2> HIDE DEF l
  <2>3. <<l>> \in Seq(L) /\ ~Has(<<l>>, x)
    BY <2>2 DEF Has
  <2>4. <<>> \in Seq(L) /\ ~Has(<<>>, x)
    BY EmptySeq, HasNone
  <2>5. Line(origin, M, Y, g) = IF Kept(M, g) /\ Kept(Y, g) THEN <<l>> ELSE <<>>
    BY DEF Line, l
  <2> QED  BY <2>3, <2>4, <2>5
<1> QED  BY <1>1, <1>2, <1>3, <1>4 DEF a

\* A line of mine only is in the merge when it is among the insertions of mine.
LEMMA OwnGrows ==
  ASSUME NEW L, NEW origin, NEW mine, NEW yours, NEW M, NEW Y, NEW U, Texts(origin, mine, yours, M, Y, U, L),
         NEW R, NEW S, Frame(Y, R, S, origin, yours, L), NEW x, ~Has(origin, x), ~Has(yours, x)
  PROVE  Has(U[Len(origin)], x) <=> \E h \in 0 .. Len(origin) : Has(Inserted(M, mine, h), x)
<1> DEFINE n == Len(origin)
           Own(h) == Has(Inserted(M, mine, h), x)
           T == {g \in Nat : g <= n => (Has(U[g], x) <=> \E h \in 0 .. g : Own(h))}
<1>1. /\ n \in Nat /\ \A g \in 0 .. n : U[g] \in Seq(L)
      /\ U[0] = Gap(mine, yours, M, Y, 0)
      /\ \A g \in 1 .. n : U[g] = U[g - 1] \o Line(origin, M, Y, g) \o Gap(mine, yours, M, Y, g)
  <2>1. origin \in Seq(L) /\ Growth(U, origin, mine, yours, M, Y, L)
    BY DEF Texts
  <2> QED  BY <2>1, LenProperties DEF Growth
<1>2. 0 \in T
  <2>1. Has(U[0], x) <=> Own(0)
    BY <1>1, OwnGap
  <2> HIDE DEF Own, n
  <2>2. \A h \in 0 .. 0 : h = 0
    OBVIOUS
  <2> QED  BY <1>1, <2>1, <2>2
<1>3. ASSUME NEW k \in T  PROVE k + 1 \in T
  <2> SUFFICES ASSUME k + 1 <= n  PROVE Has(U[k + 1], x) <=> \E h \in 0 .. k + 1 : Own(h)
    OBVIOUS
  <2> DEFINE g == k + 1
             line == Line(origin, M, Y, g)
             gap == Gap(mine, yours, M, Y, g)
  <2>1. g \in 1 .. n /\ g \in 0 .. n /\ g - 1 = k /\ k \in 0 .. n /\ g > 0 /\ k \in Nat
    BY <1>1
  <2> HIDE DEF n, g
  <2>2. /\ gap \in Seq(L) /\ line \in Seq(L) /\ ~Has(line, x) /\ (Has(gap, x) <=> Own(g))
    BY <2>1, OwnGap DEF n
  <2>3. U[g] = U[k] \o line \o gap /\ U[k] \in Seq(L)
    BY <1>1, <2>1
  <2> HIDE DEF line, gap, Own
  <2>4. U[k] \o line \in Seq(L)
    BY <2>2, <2>3, ConcatProperties
  <2>5. Has(U[k] \o line, x) <=> Has(U[k], x)
    BY <2>2, <2>3, HasConcat
  <2>6. Has(U[g], x) <=> Has(U[k], x) \/ Own(g)
    <3> DEFINE u == U[k] \o line
    <3>1. u \in Seq(L) /\ U[g] = u \o gap /\ (Has(u, x) <=> Has(U[k], x))
      BY <2>3, <2>4, <2>5
    <3> HIDE DEF u
    <3>2. Has(u \o gap, x) <=> Has(u, x) \/ Has(gap, x)
      BY <2>2, <3>1, HasConcat
    <3> QED  BY <2>2, <3>1, <3>2
  <2>7. Has(U[k], x) <=> \E h \in 0 .. k : Own(h)
    BY <1>1, <2>1
  <2>8. (\E h \in 0 .. g : Own(h)) <=> (\E h \in 0 .. k : Own(h)) \/ Own(g)
    <3>1. \A h : h \in 0 .. g <=> h \in 0 .. k \/ h = g
      BY <2>1
    <3> QED  BY <3>1
  <2> QED  BY <2>6, <2>7, <2>8 DEF g
<1>4. T = Nat
  <2>1. T \in SUBSET Nat
    OBVIOUS
  <2> HIDE DEF T
  <2> QED  BY <1>2, <1>3, <2>1, SetInduction
<1>5. n \in T
  BY <1>1, <1>4
<1> QED  BY <1>1, <1>5

\* A merge without a conflict (libpkg/merge3.c) keeps each line that only mine
\* has, and it gets no line from anywhere but the three texts: a line that is in
\* neither the origin nor yours is in the merge if and only if it is in mine.
THEOREM OwnLinesMerged ==
  ASSUME NEW L, NEW origin \in Seq(L), NEW mine \in Seq(L), NEW yours \in Seq(L),
         ~Merge3(origin, mine, yours).failed
  PROVE  /\ Merge3(origin, mine, yours).out \in Seq(L)
         /\ \A x : ~Has(origin, x) /\ ~Has(yours, x) =>
              (Has(Merge3(origin, mine, yours).out, x) <=> Has(mine, x))
<1> DEFINE M == TextDiff(origin, mine)
           Y == TextDiff(origin, yours)
           out == Merge3(origin, mine, yours).out
<1>1. PICK U : /\ Texts(origin, mine, yours, M, Y, U, L)
               /\ BothEdits(origin, mine, yours, M, Y) = U[Len(origin)]
               /\ MergeStart(origin, mine, yours) \in MergeKept(L, origin, mine, yours, M, Y, U)
               /\ Standing(MergeStart(origin, mine, yours), origin, mine, yours, M, Y, U, L)
  BY MergeBegins
<1>2. out = U[Len(origin)]
  BY <1>1, MergeMeets
<1>3. PICK R, S : Frame(Y, R, S, origin, yours, L)
  BY DiffFrame
<1>4. PICK R1, S1 : Frame(M, R1, S1, origin, mine, L)
  BY DiffFrame
<1> HIDE DEF M, Y, out
<1>5. out \in Seq(L)
  <2> DEFINE n == Len(origin)
  <2>1. U \in [0 .. n -> Seq(L)] /\ n \in Nat /\ out = U[n]
    BY <1>1, <1>2, LenProperties DEF Texts, Growth
  <2> HIDE DEF n
  <2>2. n \in 0 .. n
    BY <2>1
  <2> QED  BY <2>1, <2>2
<1>6. ASSUME NEW x, ~Has(origin, x), ~Has(yours, x)  PROVE Has(out, x) <=> Has(mine, x)
  <2>1. Has(out, x) <=> \E h \in 0 .. Len(origin) : Has(Inserted(M, mine, h), x)
    BY <1>1, <1>2, <1>3, <1>6, OwnGrows
  <2>2. Has(mine, x) => \E h \in 0 .. Len(origin) : Has(Inserted(M, mine, h), x)
    BY <1>4, <1>6, InsertedHas
  <2>3. \A h : Has(Inserted(M, mine, h), x) => Has(mine, x)
    BY <1>4, InsertedOf
  <2> QED  BY <2>1, <2>2, <2>3
<1> QED  BY <1>5, <1>6 DEF out
=============================================================================
