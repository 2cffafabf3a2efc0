--------------------------- MODULE PkgPlanProofs ---------------------------
(***************************************************************************)
(* Proofs about PkgPlan, for any number of names, any problem and any of   *)
(* what the solver may answer: plans keep dependencies whole, keep files   *)
(* apart and lose no name; the jobs do what the solver said, in whatever   *)
(* order; locked packages stay; and solving again gets somewhere.          *)
(*                                                                         *)
(* First loops and recursions, of which each lemma about the model's is an *)
(* instance; then what the recursion over the universe achieves; then an   *)
(* inductive invariant for each part of the plan: UniverseInv, RequestInv, *)
(* CalmInv, AnswerInv, JobsInv, ExecuteInv and TypeInv.                    *)
(***************************************************************************)
EXTENDS PkgPlan, TLAPS, FiniteSetTheorems, NaturalsInduction, SequenceTheorems, WellFoundedInduction

-----------------------------------------------------------------------------
(* Loops and recursion.                                                    *)

\* A set of numbers that has 0, and the next number of each it has, has them all.
LEMMA SetInduction ==
  ASSUME NEW S \in SUBSET Nat, 0 \in S, \A n \in S : n + 1 \in S
  PROVE  S = Nat
<1> DEFINE R == OpToRel(<, Nat)
<1> SUFFICES ASSUME Nat \ S # {}  PROVE FALSE
  OBVIOUS
<1>1. PICK m \in Nat \ S : \A k \in Nat \ S : ~(<<k, m>> \in R)
  <2>1. IsWellFoundedOn(R, Nat)
    BY NatLessThanWellFounded
  <2> HIDE DEF R
  <2> QED  BY <2>1, WFMin
<1>2. m # 0 /\ m - 1 \in Nat
  OBVIOUS
<1>3. <<m - 1, m>> \in R
  BY <1>2 DEF OpToRel
<1>4. m - 1 \in S
  BY <1>1, <1>2, <1>3
<1>5. (m - 1) + 1 \in S
  BY <1>4
<1> QED  BY <1>5, <1>2

\* What is true of the first numbers and passes to the next is true up to K.
LEMMA BoundedInduction ==
  ASSUME NEW K \in Nat, NEW S, 0 \in S, \A n \in 1..K : n - 1 \in S => n \in S
  PROVE  0..K \subseteq S
<1> DEFINE T == {n \in Nat : n <= K => n \in S}
<1>1. 0 \in T
  OBVIOUS
<1>2. ASSUME NEW n \in T  PROVE n + 1 \in T
  <2>1. CASE n + 1 <= K
    <3>1. n + 1 \in 1..K /\ (n + 1) - 1 = n /\ n \in S
      BY <2>1
    <3> QED  BY <3>1
  <2> QED  BY <2>1
<1>3. T = Nat
  <2>1. T \in SUBSET Nat
    OBVIOUS
  <2> HIDE DEF T
  <2> QED  BY <1>1, <1>2, <2>1, SetInduction
<1> QED  BY <1>3

\* The states a loop goes through.
Walks(walk, K, names, s, step) ==
  walk = [n \in 0..K |->
           IF n = 0 THEN s ELSE IF n \in names THEN step[n][walk[n - 1]] ELSE walk[n - 1]]

LEMMA WalkExists ==
  ASSUME NEW K \in Nat, NEW names, NEW s, NEW step
  PROVE  \E walk : Walks(walk, K, names, s, step)
<1> DEFINE Good == {k \in Nat : \E walk : Walks(walk, k, names, s, step)}
<1>1. 0 \in Good
  <2> DEFINE z == [n \in 0..0 |-> s]
  <2>1. Walks(z, 0, names, s, step)
    BY DEF Walks
  <2> QED  BY <2>1
<1>2. ASSUME NEW k \in Good  PROVE k + 1 \in Good
  <2>1. PICK walk : Walks(walk, k, names, s, step)
    OBVIOUS
  <2> DEFINE last == IF k + 1 \in names THEN step[k + 1][walk[k]] ELSE walk[k]
             next == [n \in 0..(k + 1) |-> IF n = k + 1 THEN last ELSE walk[n]]
  <2>2. \A n \in 0..k : walk[n] = IF n = 0 THEN s ELSE IF n \in names THEN step[n][walk[n - 1]] ELSE walk[n - 1]
    BY <2>1 DEF Walks
  <2>3. \A n \in 0..(k + 1) :
          next[n] = IF n = 0 THEN s ELSE IF n \in names THEN step[n][next[n - 1]] ELSE next[n - 1]
    <3> TAKE n \in 0..(k + 1)
    <3>1. CASE n = k + 1
      <4>1. n # 0 /\ n - 1 = k /\ next[n - 1] = walk[k] /\ next[n] = last
        BY <3>1
      <4> QED  BY <4>1, <3>1
    <3>2. CASE n # k + 1
      <4>1. n \in 0..k /\ next[n] = walk[n] /\ (n # 0 => n - 1 \in 0..(k + 1) /\ next[n - 1] = walk[n - 1])
        BY <3>2
      <4> HIDE DEF next
      <4> QED  BY <4>1, <2>2
    <3> QED  BY <3>1, <3>2
  <2>4. next = [n \in 0..(k + 1) |-> next[n]]
    OBVIOUS
  <2> HIDE DEF next
  <2>5. Walks(next, k + 1, names, s, step)
    BY <2>3, <2>4 DEF Walks
  <2> QED  BY <2>5
<1>3. Good = Nat
  <2>1. Good \in SUBSET Nat
    OBVIOUS
  <2> HIDE DEF Good
  <2> QED  BY <1>1, <1>2, <2>1, SetInduction
<1> QED  BY <1>3

\* What holds before a loop, and of the state after each name when it held before,
\* holds after the loop.  R[n] is the set of states that may be there after the name n.
LEMMA ForEachInduction ==
  ASSUME NEW names, NEW s, NEW step, NEW R,
         s \in R[0],
         \A n \in Uids : \A t \in R[n - 1] : IF n \in names THEN step[n][t] \in R[n] ELSE t \in R[n]
  PROVE  ForEach(names, s, step) \in R[Size]
<1>1. PICK w0 : Walks(w0, Size, names, s, step)
  BY WalkExists, SolveAssumption
<1> DEFINE walk == CHOOSE w : Walks(w, Size, names, s, step)
<1>2. Walks(walk, Size, names, s, step)
  BY <1>1
<1>3. ForEach(names, s, step) = walk[Size]
  BY DEF ForEach, Walks
<1> HIDE DEF walk
<1> DEFINE S == {n \in 0..Size : walk[n] \in R[n]}
<1>4. 0 \in S
  BY <1>2, SolveAssumption DEF Walks
<1>5. ASSUME NEW n \in 1..Size, n - 1 \in S  PROVE n \in S
  <2>1. walk[n] = IF n \in names THEN step[n][walk[n - 1]] ELSE walk[n - 1]
    BY <1>2, SolveAssumption DEF Walks
  <2> QED  BY <2>1, <1>5 DEF Uids
<1>6. 0..Size \subseteq S
  <2> HIDE DEF S
  <2> QED  BY <1>4, <1>5, BoundedInduction, SolveAssumption
<1> QED  BY <1>3, <1>6, SolveAssumption

\* The same for a set that the loop does not leave.
LEMMA ForEachStays ==
  ASSUME NEW names, NEW s, NEW step, NEW S,
         s \in S, \A n \in names \cap Uids : \A t \in S : step[n][t] \in S
  PROVE  ForEach(names, s, step) \in S
<1> DEFINE R == [n \in 0..Size |-> S]
<1>1. /\ s \in R[0] /\ R[Size] = S
      /\ \A n \in Uids : \A t \in R[n - 1] : IF n \in names THEN step[n][t] \in R[n] ELSE t \in R[n]
  BY SolveAssumption DEF Uids
<1> HIDE DEF R
<1> QED  BY <1>1, ForEachInduction

\* The names up to one are the names before it and itself.
LEMMA UpTo ==
  ASSUME NEW n \in Uids
  PROVE  /\ n \in 0..Size /\ n - 1 \in 0..Size /\ n \in Nat
         /\ \A m \in Uids : m <= n => m <= n - 1 \/ m = n
BY SolveAssumption DEF Uids

LEMMA WalksAgree ==
  ASSUME NEW a, NEW b, NEW K \in Nat, NEW L \in Nat, K <= L, NEW names, NEW s, NEW step,
         Walks(a, K, names, s, step), Walks(b, L, names, s, step)
  PROVE  \A n \in 0..K : a[n] = b[n]
<1> DEFINE S == {n \in 0..K : a[n] = b[n]}
<1>1. 0 \in S
  BY DEF Walks
<1>2. ASSUME NEW n \in 1..K, n - 1 \in S  PROVE n \in S
  <2>1. n \in 0..K /\ n \in 0..L /\ n # 0 /\ a[n - 1] = b[n - 1]
    BY <1>2
  <2>2. a[n] = IF n \in names THEN step[n][a[n - 1]] ELSE a[n - 1]
    BY <2>1 DEF Walks
  <2>3. b[n] = IF n \in names THEN step[n][b[n - 1]] ELSE b[n - 1]
    BY <2>1 DEF Walks
  <2> QED  BY <2>1, <2>2, <2>3
<1>3. 0..K \subseteq S
  <2> HIDE DEF S
  <2> QED  BY <1>1, <1>2, BoundedInduction
<1> QED  BY <1>3

\* A recursion over the numbers defines a function.
Recurs(it, z, g) == it = [n \in Nat |-> IF n = 0 THEN z ELSE g[it[n - 1]]]

LEMMA Recursion ==
  ASSUME NEW z, NEW g
  PROVE  \E it : Recurs(it, z, g)
<1> DEFINE step == [n \in Nat |-> g]
           W(k) == CHOOSE w : Walks(w, k, Nat, z, step)
           it == [n \in Nat |-> W(n)[n]]
<1>1. \A k \in Nat : Walks(W(k), k, Nat, z, step)
  BY WalkExists
<1> HIDE DEF W
<1>2. ASSUME NEW n \in Nat  PROVE it[n] = IF n = 0 THEN z ELSE g[it[n - 1]]
  <2>1. CASE n = 0
    BY <1>1, <2>1 DEF Walks
  <2>2. CASE n # 0
    <3>1. n - 1 \in Nat /\ n - 1 <= n /\ n - 1 \in 0..(n - 1) /\ n \in 0..n
      BY <2>2
    <3>2. W(n)[n] = step[n][W(n)[n - 1]]
      <4> HIDE DEF step
      <4> QED  BY <1>1, <2>2, <3>1 DEF Walks
    <3>3. W(n - 1)[n - 1] = W(n)[n - 1]
      <4> HIDE DEF step
      <4> QED  BY <1>1, <3>1, WalksAgree
    <3> QED  BY <2>2, <3>1, <3>2, <3>3
  <2> QED  BY <2>1, <2>2
<1>3. it = [n \in Nat |-> it[n]]
  OBVIOUS
<1> HIDE DEF it
<1>4. Recurs(it, z, g)
  BY <1>2, <1>3 DEF Recurs
<1> QED  BY <1>4

\* What is so at the start and passes from each number to the next is so of all.
LEMMA Stays ==
  ASSUME NEW it, NEW S, it[0] \in S, \A n \in Nat : it[n] \in S => it[n + 1] \in S
  PROVE  \A n \in Nat : it[n] \in S
<1> DEFINE T == {n \in Nat : it[n] \in S}
<1>1. T \in SUBSET Nat /\ 0 \in T /\ \A n \in T : n + 1 \in T
  OBVIOUS
<1>2. T = Nat
  <2> HIDE DEF T
  <2> QED  BY <1>1, SetInduction
<1> QED  BY <1>2

-----------------------------------------------------------------------------
(* Problems, packages and universes.                                       *)

LEMMA ItemFacts ==
  /\ \A n \in Uids : /\ Local(n) \in Items /\ Local(n)[1] = n /\ IsLocal(Local(n))
                     /\ Remote(n) \in Items /\ Remote(n)[1] = n /\ ~IsLocal(Remote(n))
  /\ \A i \in Items : i[1] \in Uids /\ i = IF IsLocal(i) THEN Local(i[1]) ELSE Remote(i[1])
  /\ \A m, n : Local(m) # Remote(n)
BY DEF Items, Sides, Local, Remote, IsLocal

LEMMA ItemsFinite == IsFiniteSet(Items) /\ Cardinality(Items) = 2 * Size
<1>1. IsFiniteSet(Uids) /\ Cardinality(Uids) = Size
  BY FS_Interval, SolveAssumption DEF Uids
<1>2. IsFiniteSet({"local"}) /\ Cardinality({"local"}) = 1
  BY FS_Singleton
<1>3. Sides = {"local"} \cup {"remote"}
  BY DEF Sides
<1>4. IsFiniteSet(Sides) /\ Cardinality(Sides) = 2
  BY <1>2, <1>3, FS_AddElement
<1> QED  BY <1>1, <1>4, FS_Product, SolveAssumption DEF Items

LEMMA ProblemFacts ==
  ASSUME NEW w \in Problems
  PROVE  /\ w.type \in JobTypes /\ w.asked \subseteq Uids /\ w.forced \in BOOLEAN /\ w.missing \in BOOLEAN
         /\ w.local \subseteq Uids /\ w.offer \in [Uids -> Offers] /\ w.dep \in [Items -> SUBSET Uids]
         /\ w.clash \subseteq Items \X Items
         /\ w.locked \subseteq w.local /\ w.automatic \subseteq w.local /\ w.vital \subseteq w.local
         /\ \A n \in Uids : (n \notin w.local => w.dep[Local(n)] = {}) /\ (~HasRemote(w, n) => w.dep[Remote(n)] = {})
         /\ \A c \in w.clash : ~(IsLocal(c[1]) /\ IsLocal(c[2]))
<1>1. \A i \in Items : (IF IsLocal(i) THEN i[1] \notin w.local ELSE w.offer[i[1]] = "none") => w.dep[i] = {}
  BY DEF Problems
<1>2. \A n \in Uids : (n \notin w.local => w.dep[Local(n)] = {}) /\ (~HasRemote(w, n) => w.dep[Remote(n)] = {})
  BY <1>1, ItemFacts DEF HasRemote
<1> QED  BY <1>2 DEF Problems

LEMMA UniverseFacts ==
  /\ EmptyUniverse \in Universes
  /\ \A u \in Universes : u.items \subseteq Items /\ u.done \subseteq Items /\ u.order \in Seq(Uids)
  /\ \A r \in Results : r.u \in Universes /\ r.ok \in BOOLEAN
BY DEF Universes, Results, EmptyUniverse

LEMMA ChainFacts ==
  ASSUME NEW u \in Universes, NEW n \in Uids
  PROVE  Chain(u, n) # {} <=> Local(n) \in u.items \/ Remote(n) \in u.items
BY ItemFacts, UniverseFacts DEF Chain

LEMMA DependantsFacts ==
  ASSUME NEW w \in Problems, NEW i \in Items
  PROVE  Dependants(w, i) \subseteq w.local
BY DEF Dependants

\* The names of a universe are those in its order.
Ordered(u) == {u.order[n] : n \in DOMAIN u.order} = {i[1] : i \in u.items}

LEMMA AddFacts ==
  ASSUME NEW u \in Universes, NEW i \in Items
  PROVE  /\ Add(u, i) \in Universes
         /\ Add(u, i).items = u.items \cup {i} /\ Add(u, i).done = u.done
         /\ Ordered(u) => Ordered(Add(u, i))
<1> DEFINE v == Add(u, i)
<1>1. i[1] \in Uids
  BY ItemFacts
<1>2. /\ v = [items |-> u.items \cup {i}, done |-> u.done,
               order |-> IF Chain(u, i[1]) = {} THEN Append(u.order, i[1]) ELSE u.order]
  BY DEF Add
<1>3. v \in Universes
  BY <1>1, <1>2, UniverseFacts DEF Universes
<1>4. ASSUME Ordered(u)  PROVE Ordered(v)
  <2>1. {j[1] : j \in v.items} = {j[1] : j \in u.items} \cup {i[1]}
    BY <1>2
  <2>2. CASE Chain(u, i[1]) = {}
    <3>1. v.order = Append(u.order, i[1])
      BY <1>2, <2>2
    <3>2. DOMAIN v.order = DOMAIN u.order \cup {Len(u.order) + 1} /\ DOMAIN u.order = 1..Len(u.order)
      BY <3>1, <1>1, UniverseFacts
    <3>3. \A n \in DOMAIN u.order : v.order[n] = u.order[n]
      BY <3>1, <1>1, UniverseFacts
    <3>4. v.order[Len(u.order) + 1] = i[1]
      BY <3>1, <1>1, UniverseFacts
    <3>5. {v.order[n] : n \in DOMAIN v.order} = {u.order[n] : n \in DOMAIN u.order} \cup {i[1]}
      BY <3>2, <3>3, <3>4
    <3> QED  BY <3>5, <2>1, <1>4 DEF Ordered
  <2>3. CASE Chain(u, i[1]) # {}
    <3>1. i[1] \in {j[1] : j \in u.items} /\ v.order = u.order
      BY <2>3, <1>2 DEF Chain
    <3> QED  BY <3>1, <2>1, <1>4 DEF Ordered
  <2> QED  BY <2>2, <2>3
<1> QED  BY <1>2, <1>3, <1>4

-----------------------------------------------------------------------------
(* Processing.  Good says what calls that nest k deep achieve: the         *)
(* universe stays fit for the problem and grows, and, when nothing is      *)
(* missing and k is enough for the packages that are left, whatever was    *)
(* processed has its dependencies and its dependants in it.                *)

\* Only what is installed and not locked, or offered, is in the universe, and what is
\* installed comes first.
Fits(w, u, i) ==
  IF IsLocal(i) THEN i[1] \in w.local \ w.locked
  ELSE HasRemote(w, i[1]) /\ ~IsDelete(w) /\ (i[1] \in w.local => Local(i[1]) \in u.items)
Fit(w, u) == u \in Universes /\ u.done \subseteq u.items /\ Ordered(u) /\ \A i \in u.items : Fits(w, u, i)
Callable(w, u, i) == i \in Items /\ (IsLocked(w, i) \/ Fits(w, u, i)) /\ (IsLocal(i) => i[1] \in w.local)

Grows(u, v) == u.items \subseteq v.items /\ u.done \subseteq v.done
Left(u) == Cardinality(Items \ u.done)

\* Nothing keeps dependencies from being found.
Satisfiable(w) ==
  /\ \A n \in w.local : w.dep[Local(n)] \subseteq w.local
  /\ \A i \in Items : \A d \in w.dep[i] : d \in w.local \/ HasRemote(w, d)
Thorough(w) == ~IsDelete(w) /\ Satisfiable(w)
Met(w, u, d) == Chain(u, d) # {} \/ d \in w.locked
Handled(w, u, i) == \A d \in w.dep[i] \cup Dependants(w, i) : Met(w, u, d)

Brings(w, k, u, v) ==
  /\ Fit(w, v) /\ Grows(u, v) /\ v.items \ u.items \subseteq v.done
  /\ Thorough(w) /\ Left(u) < k => \A i \in v.done \ u.done : Handled(w, v, i)
Good(w, k, F) ==
  \A i \in Items, u \in Universes :
    Fit(w, u) /\ Callable(w, u, i) =>
      /\ F[i][u] \in Results /\ Brings(w, k, u, F[i][u].u)
      /\ F[i][u].ok => i \in F[i][u].u.items
      /\ Thorough(w) /\ Left(u) < k => F[i][u].ok \/ IsLocked(w, i)

LEMMA LeftFacts ==
  ASSUME NEW u \in Universes, NEW v \in Universes, u.done \subseteq v.done
  PROVE  /\ Left(u) \in Nat /\ Left(v) \in Nat /\ Left(v) <= Left(u)
         /\ \A i \in v.done \ u.done : Left(v) < Left(u)
<1>1. /\ IsFiniteSet(Items \ u.done) /\ Cardinality(Items \ u.done) \in Nat
      /\ IsFiniteSet(Items \ v.done) /\ Cardinality(Items \ v.done) \in Nat
  BY ItemsFinite, FS_Subset, FS_CardinalityType
<1>2. Items \ v.done \subseteq Items \ u.done
  OBVIOUS
<1>3. Cardinality(Items \ v.done) <= Cardinality(Items \ u.done)
  BY <1>1, <1>2, FS_Subset
<1>4. ASSUME NEW i \in v.done \ u.done  PROVE Cardinality(Items \ v.done) < Cardinality(Items \ u.done)
  <2>1. i \in Items \ u.done /\ i \notin Items \ v.done
    BY UniverseFacts
  <2> QED  BY <2>1, <1>1, <1>2, <1>3, FS_Subset
<1> QED  BY <1>1, <1>3, <1>4 DEF Left

LEMMA MetGrows ==
  ASSUME NEW w, NEW u \in Universes, NEW v \in Universes, Grows(u, v)
  PROVE  /\ \A d : Met(w, u, d) => Met(w, v, d)
         /\ \A i : Handled(w, u, i) => Handled(w, v, i)
<1>1. \A d : Met(w, u, d) => Met(w, v, d)
  BY DEF Met, Chain, Grows
<1> QED  BY <1>1 DEF Handled

LEMMA BringsItself ==
  ASSUME NEW w, NEW k, NEW u, Fit(w, u)
  PROVE  Brings(w, k, u, u)
BY DEF Brings, Grows

LEMMA BringsOn ==
  ASSUME NEW w, NEW k \in Nat, NEW u \in Universes, NEW v, NEW x, Brings(w, k, u, v), Brings(w, k, v, x)
  PROVE  Brings(w, k, u, x)
<1>1. v \in Universes /\ x \in Universes
  BY DEF Brings, Fit
<1>2. Fit(w, x) /\ Grows(u, x) /\ x.items \ u.items \subseteq x.done
  BY DEF Brings, Grows
<1>3. ASSUME Thorough(w), Left(u) < k, NEW i \in x.done \ u.done  PROVE Handled(w, x, i)
  <2>1. Left(v) < k
    BY <1>1, <1>3, LeftFacts DEF Brings, Grows
  <2>2. CASE i \in v.done
    BY <1>1, <1>3, <2>2, MetGrows DEF Brings
  <2>3. CASE i \notin v.done
    BY <1>3, <2>1, <2>3 DEF Brings
  <2> QED  BY <2>2, <2>3
<1> QED  BY <1>2, <1>3 DEF Brings

LEMMA CallableFacts ==
  ASSUME NEW w \in Problems, NEW u \in Universes, NEW n \in Uids
  PROVE  /\ n \in w.local => Callable(w, u, Local(n))
         /\ HasRemote(w, n) /\ ~IsDelete(w) /\ (n \in w.local => Local(n) \in u.items) => Callable(w, u, Remote(n))
         /\ IsLocked(w, Local(n)) <=> n \in w.locked
         /\ ~IsLocked(w, Remote(n))
BY ItemFacts DEF Callable, Fits, IsLocked

\* One name of a list of dependencies or dependants.
LEMMA DepBrings ==
  ASSUME NEW w \in Problems, ~IsDelete(w), NEW k \in Nat, NEW F, Good(w, k, F),
         NEW t \in Results, Fit(w, t.u), NEW d \in Uids
  PROVE  LET x == ProcessDep(w, F, t, d)
         IN /\ x \in Results /\ Brings(w, k, t.u, x.u)
            /\ Thorough(w) /\ Left(t.u) < k /\ t.ok /\ (d \in w.local \/ HasRemote(w, d)) => x.ok /\ Met(w, x.u, d)
            /\ t.ok /\ d \in w.local => x.ok
<1> DEFINE x == ProcessDep(w, F, t, d)
           isLocal == d \in w.local
           a == IF isLocal THEN F[Local(d)][t.u] ELSE t
           wants == a.ok /\ HasRemote(w, d) /\ NeedUpgrade(w, d)
           b == IF wants THEN F[Remote(d)][a.u] ELSE a
<1>0. Local(d) \in Items /\ Remote(d) \in Items /\ t.u \in Universes /\ t.ok \in BOOLEAN
  BY ItemFacts, UniverseFacts
<1>1. CASE ~t.ok \/ Chain(t.u, d) # {}
  <2>1. x = t
    BY <1>1 DEF ProcessDep
  <2>2. Chain(t.u, d) # {} => Met(w, t.u, d)
    BY DEF Met
  <2> QED  BY <2>1, <2>2, <1>1, BringsItself
<1>2. CASE t.ok /\ Chain(t.u, d) = {} /\ ~isLocal /\ ~HasRemote(w, d)
  <2>1. x = [u |-> t.u, ok |-> w.missing]
    BY <1>2 DEF ProcessDep
  <2>2. x \in Results /\ x.u = t.u
    BY <2>1, ProblemFacts DEF Results
  <2> QED  BY <2>2, <1>2, BringsItself
<1>3. CASE t.ok /\ Chain(t.u, d) = {} /\ (isLocal \/ HasRemote(w, d))
  <2>1. x = [u |-> b.u, ok |-> isLocal \/ b.ok]
    BY <1>3 DEF ProcessDep
  <2>2. /\ a \in Results /\ Brings(w, k, t.u, a.u)
        /\ isLocal /\ a.ok => Local(d) \in a.u.items
        /\ isLocal /\ Thorough(w) /\ Left(t.u) < k => a.ok \/ d \in w.locked
    <3>1. CASE isLocal
      <4>1. Callable(w, t.u, Local(d)) /\ a = F[Local(d)][t.u]
        BY <3>1, <1>0, CallableFacts
      <4> HIDE DEF a
      <4> QED  BY <4>1, <1>0, CallableFacts DEF Good
    <3>2. CASE ~isLocal
      <4>1. a = t
        BY <3>2
      <4> QED  BY <4>1, <3>2, BringsItself
    <3> QED  BY <3>1, <3>2
  <2>3. a.u \in Universes /\ Fit(w, a.u) /\ Left(a.u) <= Left(t.u) /\ Left(a.u) \in Nat /\ Left(t.u) \in Nat
    BY <2>2, <1>0, UniverseFacts, LeftFacts DEF Brings, Grows
  <2>4. /\ b \in Results /\ Brings(w, k, a.u, b.u)
        /\ wants /\ b.ok => Remote(d) \in b.u.items
        /\ wants /\ Thorough(w) /\ Left(a.u) < k => b.ok
    <3>1. CASE wants
      <4>1. Callable(w, a.u, Remote(d)) /\ b = F[Remote(d)][a.u] /\ ~IsLocked(w, Remote(d))
        BY <3>1, <2>2, <2>3, CallableFacts
      <4> HIDE DEF a, b, wants
      <4> QED  BY <4>1, <1>0, <2>3 DEF Good
    <3>2. CASE ~wants
      <4>1. b = a
        BY <3>2
      <4> HIDE DEF a, b, wants
      <4> QED  BY <4>1, <3>2, <2>2, <2>3, BringsItself
    <3> QED  BY <3>1, <3>2
  <2> HIDE DEF a, b
  <2>5. x \in Results /\ x.u = b.u /\ (x.ok <=> isLocal \/ b.ok)
    <3>1. b.u \in Universes /\ b.ok \in BOOLEAN
      BY <2>4, UniverseFacts
    <3>2. x.u = b.u /\ x.ok = (isLocal \/ b.ok)
      BY <2>1
    <3>3. x \in Results
      BY <2>1, <3>1 DEF Results
    <3> QED  BY <3>2, <3>3
  <2>6. Brings(w, k, t.u, x.u)
    BY <2>2, <2>4, <2>5, <1>0, BringsOn
  <2>7. ASSUME Thorough(w), Left(t.u) < k  PROVE x.ok /\ Met(w, x.u, d)
    <3>1. CASE isLocal
      <4>1. CASE d \in w.locked
        BY <4>1, <3>1, <2>5 DEF Met
      <4>2. CASE d \notin w.locked
        <5>1. Local(d) \in b.u.items /\ b.u \in Universes
          BY <4>2, <3>1, <2>2, <2>4, <2>7, UniverseFacts DEF Brings, Grows
        <5> QED  BY <5>1, <2>5, <3>1, ChainFacts DEF Met
      <4> QED  BY <4>1, <4>2
    <3>2. CASE ~isLocal
      <4>1. a = t /\ a.ok /\ NeedUpgrade(w, d) /\ HasRemote(w, d)
        BY <3>2, <1>3 DEF a, NeedUpgrade
      <4>2. b.ok /\ Remote(d) \in b.u.items /\ b.u \in Universes
        BY <4>1, <2>3, <2>4, <2>7, UniverseFacts
      <4> QED  BY <4>2, <2>5, ChainFacts DEF Met
    <3> QED  BY <3>1, <3>2
  <2>8. isLocal => x.ok
    BY <2>5
  <2> HIDE DEF x
  <2> QED  BY <2>5, <2>6, <2>7, <2>8, <1>3 DEF x
<1> HIDE DEF x
<1> QED  BY <1>1, <1>2, <1>3, <1>0 DEF x

\* The list.
LEMMA DepsBring ==
  ASSUME NEW w \in Problems, ~IsDelete(w), NEW k \in Nat, NEW F, Good(w, k, F),
         NEW s \in Results, Fit(w, s.u), NEW names \in SUBSET Uids
  PROVE  LET x == ProcessDeps(w, F, s, names)
         IN /\ x \in Results /\ Brings(w, k, s.u, x.u)
            /\ Thorough(w) /\ Left(s.u) < k /\ s.ok /\ (\A d \in names : d \in w.local \/ HasRemote(w, d)) =>
                 x.ok /\ \A d \in names : Met(w, x.u, d)
            /\ s.ok /\ names \subseteq w.local => x.ok
<1> DEFINE Sure == Thorough(w) /\ Left(s.u) < k /\ s.ok /\ \A d \in names : d \in w.local \/ HasRemote(w, d)
           R == [n \in 0..Size |-> {t \in Results :
                   /\ Brings(w, k, s.u, t.u)
                   /\ Sure => t.ok /\ \A d \in names : d <= n => Met(w, t.u, d)
                   /\ s.ok /\ names \subseteq w.local => t.ok}]
           step == [d \in Uids |-> [t \in Results |-> ProcessDep(w, F, t, d)]]
<1>1. s \in R[0]
  BY BringsItself, SolveAssumption DEF Uids
<1>2. ASSUME NEW n \in Uids, NEW t \in R[n - 1]
      PROVE  IF n \in names THEN step[n][t] \in R[n] ELSE t \in R[n]
  <2>0. n \in 0..Size /\ n - 1 \in 0..Size /\ n \in Nat
    BY UpTo
  <2>1. /\ t \in Results /\ Brings(w, k, s.u, t.u)
        /\ Sure => t.ok /\ \A d \in names : d <= n - 1 => Met(w, t.u, d)
        /\ s.ok /\ names \subseteq w.local => t.ok
    BY <1>2, <2>0
  <2>2. \A d \in names : d <= n => d <= n - 1 \/ d = n
    BY UpTo
  <2>3. CASE n \notin names
    BY <2>0, <2>1, <2>2, <2>3
  <2>4. CASE n \in names
    <3> DEFINE x == ProcessDep(w, F, t, n)
    <3>1. step[n][t] = x
      BY <2>1
    <3>2. Fit(w, t.u) /\ s.u \in Universes /\ t.u \in Universes /\ Left(t.u) <= Left(s.u)
          /\ Left(t.u) \in Nat /\ Left(s.u) \in Nat
      BY <2>1, UniverseFacts, LeftFacts DEF Brings, Grows
    <3>3. /\ x \in Results /\ Brings(w, k, t.u, x.u)
          /\ Thorough(w) /\ Left(t.u) < k /\ t.ok /\ (n \in w.local \/ HasRemote(w, n)) => x.ok /\ Met(w, x.u, n)
          /\ t.ok /\ n \in w.local => x.ok
      BY <2>1, <3>2, DepBrings
    <3> HIDE DEF x
    <3>4. Brings(w, k, s.u, x.u)
      BY <2>1, <3>2, <3>3, BringsOn
    <3>5. ASSUME Sure  PROVE x.ok /\ \A d \in names : d <= n => Met(w, x.u, d)
      <4>1. x.ok /\ Met(w, x.u, n)
        BY <2>1, <2>4, <3>2, <3>3, <3>5
      <4>2. \A d \in names : d <= n - 1 => Met(w, x.u, d)
        BY <2>1, <3>2, <3>3, <3>5, MetGrows, UniverseFacts DEF Brings
      <4> QED  BY <4>1, <4>2, <2>2
    <3>6. s.ok /\ names \subseteq w.local => x.ok
      BY <2>1, <2>4, <3>3
    <3> HIDE DEF step, Sure
    <3>7. x \in R[n]
      BY <2>0, <3>3, <3>4, <3>5, <3>6
    <3> QED  BY <3>1, <3>7, <2>4
  <2> QED  BY <2>3, <2>4
<1>3. ProcessDeps(w, F, s, names) \in R[Size]
  <2>1. ProcessDeps(w, F, s, names) = ForEach(names, s, step)
    BY DEF ProcessDeps
  <2> HIDE DEF R, step
  <2> QED  BY <1>1, <1>2, <2>1, ForEachInduction
<1>4. Size \in 0..Size /\ \A d \in names : d <= Size
  BY SolveAssumption DEF Uids
<1> QED  BY <1>3, <1>4

LEMMA MarkFacts ==
  ASSUME NEW w \in Problems, NEW u \in Universes, Fit(w, u), NEW i \in Items, Fits(w, u, i)
  PROVE  /\ Fit(w, Mark(u, i)) /\ Grows(u, Mark(u, i)) /\ Mark(u, i).items = u.items \cup {i}
         /\ Mark(u, i).done = u.done \cup {i}
         /\ Fit(w, Add(u, i)) /\ Grows(u, Add(u, i)) /\ Add(u, i).items = u.items \cup {i} /\ Add(u, i).done = u.done
<1> DEFINE v == Mark(u, i)
           a == Add(u, i)
<1>1. a \in Universes /\ a.items = u.items \cup {i} /\ a.done = u.done /\ Ordered(a)
  BY AddFacts DEF Fit
<1> HIDE DEF a
<1>2. v = [items |-> a.items, done |-> a.done \cup {i}, order |-> a.order]
  BY DEF Mark, a
<1> HIDE DEF v
<1>3. v \in Universes /\ v.items = u.items \cup {i} /\ v.done = u.done \cup {i} /\ v.order = a.order
  BY <1>1, <1>2 DEF Universes
<1>4. Ordered(v)
  BY <1>1, <1>3 DEF Ordered
<1>5. \A j \in u.items \cup {i} : Fits(w, v, j) /\ Fits(w, a, j)
  BY <1>1, <1>3 DEF Fit, Fits
<1>6. Fit(w, v) /\ Fit(w, a) /\ Grows(u, v) /\ Grows(u, a)
  BY <1>1, <1>3, <1>4, <1>5 DEF Fit, Grows
<1> QED  BY <1>1, <1>3, <1>6 DEF v, a

\* A call whose own calls do what they should does what it should.
LEMMA ItemBrings ==
  ASSUME NEW w \in Problems, NEW k \in Nat, NEW F, Good(w, k, F),
         NEW i \in Items, NEW u \in Universes, Fit(w, u), Callable(w, u, i)
  PROVE  LET r == ProcessItem(w, F, u, i)
         IN /\ r \in Results /\ Brings(w, k + 1, u, r.u)
            /\ r.ok => i \in r.u.items
            /\ i \in r.u.done \/ IsLocked(w, i)
            /\ Thorough(w) /\ Left(u) < k + 1 => r.ok \/ IsLocked(w, i)
            /\ IsLocal(i) /\ w.dep[i] \subseteq w.local => r.ok \/ IsLocked(w, i)
<1> DEFINE r == ProcessItem(w, F, u, i)
           start == [u |-> Mark(u, i), ok |-> TRUE]
           x == ProcessDeps(w, F, start, w.dep[i])
<1>1. CASE i \notin u.items /\ IsLocked(w, i)
  <2>1. r = [u |-> u, ok |-> FALSE]
    BY <1>1 DEF ProcessItem
  <2>2. r \in Results /\ r.u = u /\ ~r.ok
    BY <2>1 DEF Results
  <2> QED  BY <2>2, <1>1, BringsItself
<1>2. CASE ~(i \notin u.items /\ IsLocked(w, i)) /\ i \in u.done
  <2>1. r = [u |-> u, ok |-> TRUE]
    BY <1>2 DEF ProcessItem
  <2>2. r \in Results /\ r.u = u /\ r.ok /\ i \in u.items /\ i \in r.u.done
    BY <2>1, <1>2 DEF Results, Fit
  <2> QED  BY <2>2, BringsItself
<1>3. CASE ~(i \notin u.items /\ IsLocked(w, i)) /\ i \notin u.done
  <2>1. Fits(w, u, i)
    BY <1>3 DEF Callable, Fit
  <2>2. /\ start \in Results /\ start.u = Mark(u, i) /\ start.ok /\ Fit(w, start.u) /\ Grows(u, start.u)
        /\ start.u.items = u.items \cup {i} /\ start.u.done = u.done \cup {i}
    BY <2>1, MarkFacts DEF Results, Fit
  <2> HIDE DEF start
  <2>3. CASE IsDelete(w)
    <3>1. r = start
      BY <1>3, <2>3 DEF ProcessItem, start
    <3>2. ~Thorough(w)
      BY <2>3 DEF Thorough
    <3> QED  BY <2>2, <3>1, <3>2 DEF Brings
  <2>4. CASE ~IsDelete(w)
    <3>1. w.dep[i] \in SUBSET Uids /\ Dependants(w, i) \in SUBSET Uids /\ Dependants(w, i) \subseteq w.local
      BY ProblemFacts, DependantsFacts
    <3>2. r = ProcessDeps(w, F, x, Dependants(w, i))
      BY <1>3, <2>4 DEF ProcessItem, start
    <3>3. /\ x \in Results /\ Brings(w, k, start.u, x.u)
          /\ Thorough(w) /\ Left(start.u) < k => x.ok /\ \A d \in w.dep[i] : Met(w, x.u, d)
          /\ w.dep[i] \subseteq w.local => x.ok
      BY <2>2, <2>4, <3>1, DepsBring DEF Thorough, Satisfiable
    <3> HIDE DEF x, r
    <3>4. Fit(w, x.u) /\ Grows(start.u, x.u) /\ x.u \in Universes /\ start.u \in Universes
      BY <2>2, <3>3, UniverseFacts DEF Brings
    <3>5. Left(x.u) <= Left(start.u) /\ Left(start.u) < Left(u) /\ Left(x.u) \in Nat /\ Left(start.u) \in Nat /\ Left(u) \in Nat
      BY <1>3, <2>2, <3>4, LeftFacts DEF Grows
    <3>6. /\ r \in Results /\ Brings(w, k, x.u, r.u)
          /\ Thorough(w) /\ Left(x.u) < k /\ x.ok => r.ok /\ \A d \in Dependants(w, i) : Met(w, r.u, d)
          /\ x.ok => r.ok
      BY <2>4, <3>1, <3>2, <3>3, <3>4, DepsBring
    <3>7. r.u \in Universes /\ Brings(w, k, start.u, r.u) /\ Grows(x.u, r.u)
      <4>1. r.u \in Universes /\ Grows(x.u, r.u)
        BY <3>6, UniverseFacts DEF Brings
      <4> QED  BY <4>1, <3>3, <3>4, <3>6, BringsOn
    <3>8. Fit(w, r.u) /\ Grows(u, r.u) /\ i \in r.u.items /\ i \in r.u.done /\ r.u.items \ u.items \subseteq r.u.done
      <4>1. Fit(w, r.u) /\ Grows(start.u, r.u) /\ r.u.items \ start.u.items \subseteq r.u.done
        BY <3>7 DEF Brings
      <4> QED  BY <4>1, <2>2 DEF Grows
    <3>9. ASSUME Thorough(w), Left(u) < k + 1
          PROVE  r.ok /\ \A j \in r.u.done \ u.done : Handled(w, r.u, j)
      <4>1. Left(start.u) < k /\ Left(x.u) < k
        BY <3>5, <3>9
      <4>2. \A d \in w.dep[i] : Met(w, r.u, d)
        BY <3>3, <3>4, <3>7, <3>9, <4>1, MetGrows
      <4>3. r.ok /\ Handled(w, r.u, i)
        BY <3>3, <3>6, <3>9, <4>1, <4>2 DEF Handled
      <4>4. \A j \in r.u.done \ start.u.done : Handled(w, r.u, j)
        BY <3>7, <3>9, <4>1 DEF Brings
      <4> QED  BY <2>2, <4>3, <4>4
    <3>10. Brings(w, k + 1, u, r.u)
      BY <3>8, <3>9 DEF Brings
    <3> QED  BY <3>3, <3>6, <3>8, <3>9, <3>10 DEF r
  <2> QED  BY <2>3, <2>4
<1> QED  BY <1>1, <1>2, <1>3

\* The calls that may nest k deep.
Nests(it, w) ==
  it = [depth \in Nat |->
         [j \in Items |-> [v \in Universes |->
           IF depth = 0 THEN [u |-> v, ok |-> FALSE] ELSE ProcessItem(w, it[depth - 1], v, j)]]]

Processors == [Items -> [Universes -> Results]]

LEMMA ItemType ==
  ASSUME NEW w \in Problems, NEW F \in Processors, NEW u \in Universes, NEW i \in Items
  PROVE  ProcessItem(w, F, u, i) \in Results
<1>1. ASSUME NEW t \in Results, NEW d \in Uids  PROVE ProcessDep(w, F, t, d) \in Results
  <2> DEFINE isLocal == d \in w.local
             a == IF isLocal THEN F[Local(d)][t.u] ELSE t
             b == IF a.ok /\ HasRemote(w, d) /\ NeedUpgrade(w, d) THEN F[Remote(d)][a.u] ELSE a
  <2>0. Local(d) \in Items /\ Remote(d) \in Items
    BY ItemFacts
  <2>1. a \in Results
    BY <2>0, UniverseFacts DEF Processors
  <2> HIDE DEF a
  <2>2. b \in Results
    BY <2>0, <2>1, UniverseFacts DEF Processors
  <2>3. ProcessDep(w, F, t, d) = IF ~t.ok \/ Chain(t.u, d) # {} THEN t
                                 ELSE IF ~isLocal /\ ~HasRemote(w, d) THEN [u |-> t.u, ok |-> w.missing]
                                 ELSE [u |-> b.u, ok |-> isLocal \/ b.ok]
    BY DEF ProcessDep, a
  <2> HIDE DEF b
  <2>4. t.u \in Universes /\ b.u \in Universes /\ w.missing \in BOOLEAN
    BY <2>2, UniverseFacts, ProblemFacts
  <2>5. [u |-> t.u, ok |-> w.missing] \in Results /\ [u |-> b.u, ok |-> isLocal \/ b.ok] \in Results
    BY <2>4 DEF Results
  <2> QED  BY <2>3, <2>5
<1>2. ASSUME NEW s \in Results, NEW names  PROVE ProcessDeps(w, F, s, names) \in Results
  <2> DEFINE step == [d \in Uids |-> [t \in Results |-> ProcessDep(w, F, t, d)]]
  <2>1. \A d \in names \cap Uids : \A t \in Results : step[d][t] \in Results
    BY <1>1
  <2>2. ProcessDeps(w, F, s, names) = ForEach(names, s, step)
    BY DEF ProcessDeps
  <2> HIDE DEF step
  <2> QED  BY <2>1, <2>2, ForEachStays
<1>3. Mark(u, i) \in Universes
  <2>1. Add(u, i) \in Universes
    BY AddFacts
  <2> QED  BY <2>1 DEF Mark, Universes
<1>4. [u |-> u, ok |-> FALSE] \in Results /\ [u |-> u, ok |-> TRUE] \in Results /\ [u |-> Mark(u, i), ok |-> TRUE] \in Results
  BY <1>3 DEF Results
<1> QED  BY <1>2, <1>4 DEF ProcessItem

\* What a call achieves, however deep it nests.
LEMMA NestedCalls ==
  ASSUME NEW w \in Problems
  PROVE  \E it : /\ Nests(it, w)
                 /\ \A k \in Nat : it[k] \in Processors /\ Good(w, k, it[k])
<1> DEFINE None == [j \in Items |-> [v \in Universes |-> [u |-> v, ok |-> FALSE]]]
           One(F) == [j \in Items |-> [v \in Universes |-> ProcessItem(w, F, v, j)]]
           g == [F \in Processors |-> One(F)]
<1>1. PICK it : Recurs(it, None, g)
  BY Recursion
<1>2. None \in Processors
  BY DEF Processors, Results
<1>3. \A F \in Processors : One(F) \in Processors
  BY ItemType DEF Processors
<1> HIDE DEF One
<1>4. \A n \in Nat : n + 1 # 0 /\ (n + 1) - 1 = n /\ n + 1 \in Nat
  OBVIOUS
<1>5. it[0] = None /\ \A n \in Nat : it[n + 1] = g[it[n]]
  <2> HIDE DEF None, g
  <2> QED  BY <1>1, <1>4 DEF Recurs
<1>6. \A n \in Nat : it[n] \in Processors
  <2>1. it[0] \in Processors /\ \A n \in Nat : it[n] \in Processors => it[n + 1] \in Processors
    BY <1>2, <1>3, <1>5
  <2> QED  BY <2>1, Stays
<1>7. \A n \in Nat : it[n + 1] = One(it[n])
  BY <1>5, <1>6
<1>8. Nests(it, w)
  <2>1. \A n \in Nat : it[n] = [j \in Items |-> [v \in Universes |->
           IF n = 0 THEN [u |-> v, ok |-> FALSE] ELSE ProcessItem(w, it[n - 1], v, j)]]
    <3> TAKE n \in Nat
    <3>1. CASE n = 0
      BY <1>5, <3>1
    <3>2. CASE n # 0
      <4>1. n - 1 \in Nat /\ (n - 1) + 1 = n
        BY <3>2
      <4>2. it[n] = One(it[n - 1])
        BY <1>7, <4>1
      <4> QED  BY <3>2, <4>2 DEF One
    <3> QED  BY <3>1, <3>2
  <2>2. it = [n \in Nat |-> it[n]]
    BY <1>1 DEF Recurs
  <2> HIDE DEF None, g
  <2> QED  BY <2>1, <2>2 DEF Nests
<1>9. \A k \in Nat : Good(w, k, it[k])
  <2> DEFINE T == {k \in Nat : Good(w, k, it[k])}
  <2>1. 0 \in T
    <3> SUFFICES ASSUME NEW i \in Items, NEW u \in Universes, Fit(w, u)
                 PROVE  /\ it[0][i][u] \in Results /\ Brings(w, 0, u, it[0][i][u].u) /\ ~it[0][i][u].ok
                        /\ ~(Left(u) < 0)
      BY DEF Good
    <3>1. it[0][i][u] = [u |-> u, ok |-> FALSE]
      BY <1>5
    <3>2. it[0][i][u] \in Results
      BY <1>2, <1>5 DEF Processors
    <3> QED  BY <3>1, <3>2, BringsItself, LeftFacts
  <2>2. ASSUME NEW k \in T  PROVE k + 1 \in T
    <3>1. k \in Nat /\ Good(w, k, it[k])
      OBVIOUS
    <3> HIDE DEF T, g, None
    <3>2. it[k + 1] = One(it[k])
      BY <1>7, <3>1
    <3>3. ASSUME NEW i \in Items, NEW u \in Universes  PROVE it[k + 1][i][u] = ProcessItem(w, it[k], u, i)
      BY <3>2 DEF One
    <3>4. ASSUME NEW i \in Items, NEW u \in Universes, Fit(w, u), Callable(w, u, i)
          PROVE  /\ it[k + 1][i][u] \in Results /\ Brings(w, k + 1, u, it[k + 1][i][u].u)
                 /\ it[k + 1][i][u].ok => i \in it[k + 1][i][u].u.items
                 /\ Thorough(w) /\ Left(u) < k + 1 => it[k + 1][i][u].ok \/ IsLocked(w, i)
      <4> DEFINE r == it[k + 1][i][u]
      <4>1. r = ProcessItem(w, it[k], u, i)
        BY <3>3
      <4> HIDE DEF r
      <4>2. r \in Results /\ Brings(w, k + 1, u, r.u) /\ (r.ok => i \in r.u.items)
            /\ (Thorough(w) /\ Left(u) < k + 1 => r.ok \/ IsLocked(w, i))
        BY <3>1, <3>4, <4>1, ItemBrings
      <4> QED  BY <4>2 DEF r
    <3>5. Good(w, k + 1, it[k + 1])
      BY <3>4 DEF Good
    <3> QED  BY <3>1, <3>5 DEF T
  <2>3. T = Nat
    <3>1. T \in SUBSET Nat
      OBVIOUS
    <3> HIDE DEF T
    <3> QED  BY <2>1, <2>2, <3>1, SetInduction
  <2> QED  BY <2>3
<1> QED  BY <1>6, <1>8, <1>9

(* One level of the nested calls is ProcessItem with the level below.      *)
LEMMA NestsStep ==
  ASSUME NEW w, NEW F, Nests(F, w), NEW n \in Nat
  PROVE  F[n + 1] = [j \in Items |-> [v \in Universes |-> ProcessItem(w, F[n], v, j)]]
<1>1. n + 1 \in Nat /\ n + 1 # 0 /\ (n + 1) - 1 = n
  OBVIOUS
<1>2. \A m \in Nat : F[m] = [j \in Items |-> [v \in Universes |->
           IF m = 0 THEN [u |-> v, ok |-> FALSE] ELSE ProcessItem(w, F[m - 1], v, j)]]
  BY DEF Nests
<1>3. F[n + 1] = [j \in Items |-> [v \in Universes |->
           IF n + 1 = 0 THEN [u |-> v, ok |-> FALSE] ELSE ProcessItem(w, F[(n + 1) - 1], v, j)]]
  BY <1>1, <1>2
<1> QED  BY <1>1, <1>3

LEMMA ProcessIs ==
  ASSUME NEW w \in Problems
  PROVE  \E F \in Processors :
           Good(w, 2 * Size, F) /\ \A i \in Items, u \in Universes : Process(w, u, i) = ProcessItem(w, F, u, i)
<1> DEFINE it == CHOOSE f : Nests(f, w)
           k == 2 * Size
<1>1. \A i, u : Process(w, u, i) = it[k + 1][i][u]
  BY DEF Process, Nests
<1>2. PICK f : Nests(f, w) /\ \A n \in Nat : f[n] \in Processors /\ Good(w, n, f[n])
  BY NestedCalls
<1>3. Nests(it, w)
  BY <1>2
<1> HIDE DEF it
<1>4. it = f
  <2> DEFINE S == {n \in Nat : it[n] = f[n]}
  <2>1. 0 \in S
    BY <1>2, <1>3 DEF Nests
  <2>2. ASSUME NEW n \in S  PROVE n + 1 \in S
    <3>1. n \in Nat /\ n + 1 \in Nat /\ n + 1 # 0 /\ (n + 1) - 1 = n /\ it[n] = f[n]
      OBVIOUS
    <3> HIDE DEF S, k
    <3>2. it[n + 1] = [j \in Items |-> [v \in Universes |-> ProcessItem(w, it[n], v, j)]]
      BY <1>3, <3>1, NestsStep
    <3>3. f[n + 1] = [j \in Items |-> [v \in Universes |-> ProcessItem(w, f[n], v, j)]]
      BY <1>2, <3>1, NestsStep
    <3>4. it[n + 1] = f[n + 1]
      BY <3>1, <3>2, <3>3
    <3> QED  BY <3>1, <3>4 DEF S
  <2>3. S = Nat
    <3>1. S \in SUBSET Nat
      OBVIOUS
    <3> HIDE DEF S
    <3> QED  BY <2>1, <2>2, <3>1, SetInduction
  <2>4. \A n \in Nat : it[n] = f[n]
    <3> TAKE n \in Nat
    <3>1. n \in S
      BY <2>3
    <3> QED  BY <3>1
  <2>5. it = [n \in Nat |-> it[n]] /\ f = [n \in Nat |-> f[n]]
    BY <1>2, <1>3 DEF Nests
  <2> QED  BY <2>4, <2>5
<1>5. k \in Nat /\ k + 1 \in Nat /\ (k + 1) - 1 = k /\ k + 1 # 0
  BY SolveAssumption
<1> HIDE DEF k
<1>6. f[k + 1] = [j \in Items |-> [v \in Universes |-> ProcessItem(w, f[k], v, j)]]
  BY <1>2, <1>5, NestsStep
<1>7. ASSUME NEW i \in Items, NEW u \in Universes  PROVE Process(w, u, i) = ProcessItem(w, f[k], u, i)
  <2>1. Process(w, u, i) = f[k + 1][i][u]
    BY <1>1, <1>4
  <2> QED  BY <2>1, <1>6
<1>8. f[k] \in Processors /\ Good(w, k, f[k])
  BY <1>2, <1>5
<1>9. \E F \in Processors : Good(w, k, F) /\ \A i \in Items, u \in Universes : Process(w, u, i) = ProcessItem(w, F, u, i)
  BY <1>7, <1>8
<1> QED  BY <1>9 DEF k

LEMMA ProcessType ==
  ASSUME NEW w \in Problems, NEW i \in Items, NEW u \in Universes
  PROVE  Process(w, u, i) \in Results
BY ProcessIs, ItemType

\* What becomes of a package, of the installed ones and of the offered ones.
LEMMA ProcessFacts ==
  ASSUME NEW w \in Problems, NEW i \in Items, NEW u \in Universes, Fit(w, u), Callable(w, u, i)
  PROVE  LET r == Process(w, u, i)
         IN /\ r \in Results /\ Fit(w, r.u) /\ Grows(u, r.u) /\ r.u.items \ u.items \subseteq r.u.done
            /\ r.ok => i \in r.u.items
            /\ i \in r.u.done \/ IsLocked(w, i)
            /\ Thorough(w) => /\ r.ok \/ IsLocked(w, i)
                              /\ \A j \in r.u.done \ u.done : Handled(w, r.u, j)
            /\ IsLocal(i) /\ w.dep[i] \subseteq w.local => r.ok \/ IsLocked(w, i)
<1> DEFINE r == Process(w, u, i)
           k == 2 * Size
<1>1. PICK F \in Processors : Good(w, k, F) /\ r = ProcessItem(w, F, u, i)
  BY ProcessIs
<1>2. k \in Nat
  BY SolveAssumption
<1>3. Left(u) < k + 1
  <2>1. IsFiniteSet(Items \ u.done) /\ Cardinality(Items \ u.done) <= Cardinality(Items)
    BY ItemsFinite, FS_Subset
  <2> QED  BY <2>1, ItemsFinite, <1>2, FS_CardinalityType DEF Left
<1> HIDE DEF r, k
<1>4. /\ r \in Results /\ Brings(w, k + 1, u, r.u)
      /\ r.ok => i \in r.u.items
      /\ i \in r.u.done \/ IsLocked(w, i)
      /\ Thorough(w) /\ Left(u) < k + 1 => r.ok \/ IsLocked(w, i)
      /\ IsLocal(i) /\ w.dep[i] \subseteq w.local => r.ok \/ IsLocked(w, i)
  BY <1>1, <1>2, ItemBrings
<1> QED  BY <1>3, <1>4 DEF r, Brings

-----------------------------------------------------------------------------
(* Requests.                                                               *)

\* Whatever was processed, as what is offered always is, has its dependencies and
\* its dependants in the universe.
Complete(w, u) ==
  /\ \A i \in u.items : ~IsLocal(i) => i \in u.done
  /\ Thorough(w) => \A i \in u.done : Handled(w, u, i)

LEMMA FindFacts ==
  ASSUME NEW w \in Problems, ~IsDelete(w), NEW u \in Universes, Fit(w, u), NEW n \in Uids
  PROVE  LET f == FindUpgrade(w, u, n)
         IN /\ Fit(w, f.u) /\ f.u.done = u.done /\ u.items \subseteq f.u.items
            /\ f.is = "ok" => Remote(n) \in f.u.items
            /\ \A i \in f.u.items \ u.items : IsLocal(i) \/ (f.is = "ok" /\ i = Remote(n))
<1> DEFINE f == FindUpgrade(w, u, n)
           withLocal == IF n \in w.local THEN Add(u, Local(n)) ELSE u
           both == Add(withLocal, Remote(n))
           knows == Chain(u, n) # {} /\ (w.forced => Remote(n) \in u.items)
           alone == Dependants(w, Local(n)) = {}
<1>0. Local(n) \in Items /\ Remote(n) \in Items /\ IsLocal(Local(n)) /\ Local(n)[1] = n /\ Remote(n)[1] = n /\ ~IsLocal(Remote(n))
  BY ItemFacts
<1>1. ASSUME n \in w.local \ w.locked
      PROVE  Fit(w, Add(u, Local(n))) /\ Add(u, Local(n)).items = u.items \cup {Local(n)} /\ Add(u, Local(n)).done = u.done
  BY <1>0, <1>1, MarkFacts DEF Fits
<1>2. f = IF n \notin w.local /\ ~HasRemote(w, n) THEN [u |-> u, is |-> "fatal"]
          ELSE IF ~HasRemote(w, n) \/ n \in w.locked
               THEN IF ~alone THEN [u |-> u, is |-> "ignored"]
                    ELSE IF n \in w.locked THEN [u |-> u, is |-> "locked"]
                    ELSE [u |-> Add(u, Local(n)), is |-> "fatal"]
          ELSE IF knows THEN [u |-> u, is |-> IF Remote(n) \in u.items THEN "ok" ELSE "installed"]
          ELSE IF w.forced \/ NeedUpgrade(w, n) THEN [u |-> both, is |-> "ok"]
          ELSE [u |-> withLocal, is |-> "installed"]
  BY DEF FindUpgrade
<1> HIDE DEF f, knows, alone
<1>3. CASE n \notin w.local /\ ~HasRemote(w, n)
  <2>1. f.u = u /\ f.is = "fatal"
    BY <1>2, <1>3
  <2> QED  BY <2>1 DEF f
<1>4. CASE ~(n \notin w.local /\ ~HasRemote(w, n)) /\ (~HasRemote(w, n) \/ n \in w.locked)
  <2>1. CASE ~alone
    <3>1. f.u = u /\ f.is = "ignored"
      BY <1>2, <1>4, <2>1
    <3> QED  BY <3>1 DEF f
  <2>2. CASE alone /\ n \in w.locked
    <3>1. f.u = u /\ f.is = "locked"
      BY <1>2, <1>4, <2>2
    <3> QED  BY <3>1 DEF f
  <2>3. CASE alone /\ n \notin w.locked
    <3>1. f.u = Add(u, Local(n)) /\ f.is = "fatal"
      BY <1>2, <1>4, <2>3
    <3> QED  BY <3>1, <1>0, <1>1, <1>4, <2>3 DEF f
  <2> QED  BY <2>1, <2>2, <2>3
<1>5. CASE HasRemote(w, n) /\ n \notin w.locked /\ knows
  <2>1. f.u = u /\ f.is = IF Remote(n) \in u.items THEN "ok" ELSE "installed"
    BY <1>2, <1>5
  <2> QED  BY <2>1 DEF f
<1>6. CASE HasRemote(w, n) /\ n \notin w.locked /\ ~knows
  <2>1. /\ Fit(w, withLocal) /\ withLocal.done = u.done /\ (n \in w.local => Local(n) \in withLocal.items)
        /\ u.items \subseteq withLocal.items /\ withLocal.items \subseteq u.items \cup {Local(n)}
    <3>1. CASE n \in w.local
      BY <1>1, <1>6, <3>1
    <3>2. CASE n \notin w.local
      BY <3>2
    <3> QED  BY <3>1, <3>2
  <2> HIDE DEF withLocal
  <2>2. CASE w.forced \/ NeedUpgrade(w, n)
    <3>1. f.u = both /\ f.is = "ok"
      BY <1>2, <1>6, <2>2 DEF withLocal
    <3>2. Fits(w, withLocal, Remote(n)) /\ withLocal \in Universes
      BY <1>0, <1>6, <2>1 DEF Fits, Fit
    <3>3. Fit(w, both) /\ both.items = withLocal.items \cup {Remote(n)} /\ both.done = withLocal.done
      BY <3>2, <1>0, <2>1, MarkFacts
    <3> QED  BY <1>0, <2>1, <3>1, <3>3 DEF f
  <2>3. CASE ~(w.forced \/ NeedUpgrade(w, n))
    <3>1. f.u = withLocal /\ f.is = "installed"
      BY <1>2, <1>6, <2>3 DEF withLocal
    <3> QED  BY <1>0, <2>1, <3>1 DEF f
  <2> QED  BY <2>2, <2>3
<1> QED  BY <1>3, <1>4, <1>5, <1>6

\* The state before the first name
LEMMA BeginsFit ==
  ASSUME NEW w \in Problems
  PROVE  /\ Fit(w, EmptyUniverse) /\ EmptyUniverse.items = {} /\ EmptyUniverse.done = {}
         /\ [u |-> EmptyUniverse, is |-> "ok", request |-> {}] \in Requests
<1>1. EmptyUniverse.items = {} /\ EmptyUniverse.done = {} /\ EmptyUniverse.order = <<>>
  BY DEF EmptyUniverse
<1>2. Ordered(EmptyUniverse)
  BY <1>1 DEF Ordered
<1> QED  BY <1>1, <1>2, UniverseFacts DEF Fit, Requests, Outcomes

LEMMA FindAllFacts ==
  ASSUME NEW w \in Problems, ~IsDelete(w)
  PROVE  LET f == FindAll(w)
         IN /\ f \in Requests /\ Fit(w, f.u) /\ f.u.done = {}
            /\ \A n \in f.request : Remote(n) \in f.u.items
            /\ \A i \in f.u.items : IsLocal(i) \/ i[1] \in f.request
<1> DEFINE S == {s \in Requests : /\ Fit(w, s.u) /\ s.u.done = {}
                                  /\ \A n \in s.request : Remote(n) \in s.u.items
                                  /\ \A i \in s.u.items : IsLocal(i) \/ i[1] \in s.request}
           names == IF w.asked = {} THEN Candidates(w) ELSE w.asked
           s0 == [u |-> EmptyUniverse, is |-> "ok", request |-> {}]
           step == [n \in Uids |-> [s \in Requests |-> FindNext(w, s, n)]]
<1>1. s0 \in S
  BY BeginsFit
<1>2. ASSUME NEW n \in names \cap Uids, NEW s \in S  PROVE step[n][s] \in S
  <2> DEFINE f == FindUpgrade(w, s.u, n)
             is == IF w.asked # {} /\ f.is \in {"fatal", "locked"} THEN f.is ELSE s.is
             x == [u |-> f.u, is |-> is, request |-> IF f.is = "ok" THEN s.request \cup {n} ELSE s.request]
  <2>1. step[n][s] = FindNext(w, s, n) /\ s \in Requests /\ s.u \in Universes
    BY DEF Requests
  <2>2. CASE s.is # "ok" \/ (w.type = "upgrade" /\ n \notin w.local)
    BY <2>1, <2>2 DEF FindNext
  <2>3. CASE ~(s.is # "ok" \/ (w.type = "upgrade" /\ n \notin w.local))
    <3>1. FindNext(w, s, n) = x
      BY <2>3 DEF FindNext
    <3>2. /\ Fit(w, f.u) /\ f.u.done = s.u.done /\ s.u.items \subseteq f.u.items
          /\ f.is = "ok" => Remote(n) \in f.u.items
          /\ \A i \in f.u.items \ s.u.items : IsLocal(i) \/ (f.is = "ok" /\ i = Remote(n))
      BY <2>1, FindFacts
    <3> HIDE DEF f
    <3>3. x \in Requests /\ x.u = f.u /\ x.request = IF f.is = "ok" THEN s.request \cup {n} ELSE s.request
      <4>1. f.u \in Universes /\ is \in Outcomes
        BY <3>2, <2>1 DEF Fit, Outcomes, Requests
      <4> HIDE DEF is
      <4> QED  BY <4>1, <2>1 DEF Requests
    <3> HIDE DEF x
    <3>4. x \in S
      BY <3>2, <3>3, ItemFacts
    <3> HIDE DEF step, S
    <3> QED  BY <2>1, <3>1, <3>4
  <2> QED  BY <2>2, <2>3
<1>3. FindAll(w) = ForEach(names, s0, step)
  BY DEF FindAll
<1> HIDE DEF S, names, s0, step
<1>4. FindAll(w) \in S
  BY <1>1, <1>2, <1>3, ForEachStays
<1> QED  BY <1>4 DEF S

LEMMA RequestInstallFacts ==
  ASSUME NEW w \in Problems, ~IsDelete(w)
  PROVE  LET r == RequestInstall(w)
         IN /\ r.is \in Outcomes /\ r.request \subseteq Uids
            /\ Fit(w, r.u) /\ Complete(w, r.u)
            /\ \A n \in r.request : Remote(n) \in r.u.items
<1> DEFINE f == FindAll(w)
           step == [n \in Uids |-> [v \in Universes |-> Process(w, v, Remote(n)).u]]
           R == [n \in 0..Size |-> {v \in Universes :
                   /\ Fit(w, v) /\ Grows(f.u, v) /\ v.items \ f.u.items \subseteq v.done
                   /\ \A m \in f.request : m <= n => Remote(m) \in v.done
                   /\ Thorough(w) => \A i \in v.done : Handled(w, v, i)}]
           x == ForEach(f.request, f.u, step)
<1>1. /\ f \in Requests /\ Fit(w, f.u) /\ f.u.done = {}
      /\ \A n \in f.request : Remote(n) \in f.u.items
      /\ \A i \in f.u.items : IsLocal(i) \/ i[1] \in f.request
  BY FindAllFacts
<1>2. RequestInstall(w) = [u |-> x, is |-> f.is, request |-> f.request]
  BY DEF RequestInstall
<1>3. f.is \in Outcomes /\ f.request \subseteq Uids /\ f.u \in Universes
  BY <1>1 DEF Requests
<1> HIDE DEF f
<1>4. f.u \in R[0]
  BY <1>1, <1>3, SolveAssumption DEF Grows, Uids
<1>5. ASSUME NEW n \in Uids, NEW v \in R[n - 1]
      PROVE  IF n \in f.request THEN step[n][v] \in R[n] ELSE v \in R[n]
  <2>0. n \in 0..Size /\ n - 1 \in 0..Size /\ n \in Nat
    BY UpTo
  <2>1. /\ v \in Universes /\ Fit(w, v) /\ Grows(f.u, v) /\ v.items \ f.u.items \subseteq v.done
        /\ \A m \in f.request : m <= n - 1 => Remote(m) \in v.done
        /\ Thorough(w) => \A i \in v.done : Handled(w, v, i)
    BY <1>5, <2>0
  <2>2. \A m \in f.request : m <= n => m <= n - 1 \/ m = n
    BY UpTo, <1>3
  <2>3. CASE n \notin f.request
    BY <2>0, <2>1, <2>2, <2>3
  <2>4. CASE n \in f.request
    <3> DEFINE p == Process(w, v, Remote(n))
    <3>1. step[n][v] = p.u
      BY <2>1
    <3>2. Remote(n) \in v.items /\ Remote(n) \in Items /\ ~IsLocked(w, Remote(n))
      BY <1>1, <2>1, <2>4, ItemFacts DEF Grows, IsLocked
    <3>3. Callable(w, v, Remote(n))
      BY <2>1, <3>2, ItemFacts DEF Callable, Fit
    <3>4. /\ p \in Results /\ Fit(w, p.u) /\ Grows(v, p.u) /\ p.u.items \ v.items \subseteq p.u.done
          /\ Remote(n) \in p.u.done
          /\ Thorough(w) => \A j \in p.u.done \ v.done : Handled(w, p.u, j)
      BY <2>1, <3>2, <3>3, ProcessFacts
    <3> HIDE DEF p
    <3>5. p.u \in Universes /\ Grows(f.u, p.u) /\ p.u.items \ f.u.items \subseteq p.u.done
      BY <2>1, <3>4, UniverseFacts DEF Grows
    <3>6. \A m \in f.request : m <= n => Remote(m) \in p.u.done
      BY <2>1, <2>2, <3>4 DEF Grows
    <3>7. Thorough(w) => \A i \in p.u.done : Handled(w, p.u, i)
      BY <2>1, <3>4, <3>5, MetGrows
    <3>8. p.u \in R[n]
      BY <2>0, <3>4, <3>5, <3>6, <3>7
    <3> HIDE DEF step, R
    <3> QED  BY <3>1, <3>8, <2>4
  <2> QED  BY <2>3, <2>4
<1>6. x \in R[Size]
  <2> HIDE DEF R, step
  <2> QED  BY <1>4, <1>5, ForEachInduction
<1>7. Size \in 0..Size /\ \A m \in f.request : m <= Size
  BY <1>3, SolveAssumption DEF Uids
<1> HIDE DEF x
<1>8. /\ Fit(w, x) /\ Grows(f.u, x) /\ x.items \ f.u.items \subseteq x.done
      /\ \A m \in f.request : Remote(m) \in x.done
      /\ Thorough(w) => \A i \in x.done : Handled(w, x, i)
  BY <1>6, <1>7
<1>9. ASSUME NEW i \in x.items, ~IsLocal(i)  PROVE i \in x.done
  <2>1. CASE i \in f.u.items
    <3>1. i[1] \in f.request /\ i \in Items
      BY <1>1, <1>3, <1>9, <2>1, UniverseFacts
    <3>2. i = Remote(i[1])
      BY <3>1, <1>9, ItemFacts
    <3> QED  BY <3>1, <3>2, <1>8
  <2> QED  BY <2>1, <1>8
<1>10. Complete(w, x) /\ \A n \in f.request : Remote(n) \in x.items
  BY <1>8, <1>9 DEF Complete, Fit
<1> QED  BY <1>2, <1>3, <1>8, <1>10

\* Installed packages that are not locked join one by one.
LEMMA JoinFacts ==
  ASSUME NEW w \in Problems, NEW u \in Universes, Fit(w, u), NEW names, names \subseteq w.local \ w.locked,
         NEW step,
         \A n \in names, v \in Universes :
           step[n][v] = Add(v, Local(n)) \/ (Local(n) \in v.items /\ step[n][v] = v)
  PROVE  LET x == ForEach(names, u, step)
         IN Fit(w, x) /\ u.items \subseteq x.items /\ \A n \in names : Local(n) \in x.items
<1> DEFINE R == [n \in 0..Size |-> {v \in Universes :
                   /\ Fit(w, v) /\ u.items \subseteq v.items
                   /\ \A m \in names : m <= n => Local(m) \in v.items}]
<1>0. names \subseteq Uids
  BY ProblemFacts
<1>1. u \in R[0]
  BY <1>0, SolveAssumption DEF Uids
<1>2. ASSUME NEW n \in Uids, NEW v \in R[n - 1]
      PROVE  IF n \in names THEN step[n][v] \in R[n] ELSE v \in R[n]
  <2>0. n \in 0..Size /\ n - 1 \in 0..Size /\ n \in Nat
    BY UpTo
  <2>1. /\ v \in Universes /\ Fit(w, v) /\ u.items \subseteq v.items
        /\ \A m \in names : m <= n - 1 => Local(m) \in v.items
    BY <1>2, <2>0
  <2>2. \A m \in names : m <= n => m <= n - 1 \/ m = n
    BY <1>0, UpTo
  <2>3. CASE n \notin names
    BY <2>0, <2>1, <2>2, <2>3
  <2>4. CASE n \in names
    <3>1. Fits(w, v, Local(n)) /\ Local(n) \in Items
      BY <2>4, <1>0, ItemFacts DEF Fits
    <3>2. Fit(w, Add(v, Local(n))) /\ Add(v, Local(n)).items = v.items \cup {Local(n)}
      BY <2>1, <3>1, MarkFacts
    <3>3. Fit(w, step[n][v]) /\ step[n][v].items = v.items \cup {Local(n)}
      BY <2>1, <2>4, <3>2
    <3>4. step[n][v] \in Universes
      BY <3>3 DEF Fit
    <3>5. step[n][v] \in R[n]
      BY <2>0, <2>1, <2>2, <3>3, <3>4
    <3> HIDE DEF R
    <3> QED  BY <3>5, <2>4
  <2> QED  BY <2>3, <2>4
<1>3. ForEach(names, u, step) \in R[Size]
  <2> HIDE DEF R
  <2> QED  BY <1>1, <1>2, ForEachInduction
<1>4. Size \in 0..Size /\ \A m \in names : m <= Size
  BY <1>0, SolveAssumption DEF Uids
<1> QED  BY <1>3, <1>4

\* The names to delete so far and the universe that has their packages.
Chosen(w, s) == s \in Requests /\ Fit(w, s.u) /\ \A n \in s.request : Local(n) \in s.u.items

\* With a name its dependants are in the set.
Closed(w, names) == \A n \in names : Dependants(w, Local(n)) \subseteq names

\* Nothing that is locked depends on any of the names.
Free(w, T) == \A n \in T : Dependants(w, Local(n)) \subseteq T \ w.locked

LEMMA RoundFacts ==
  ASSUME NEW w \in Problems, NEW s, Chosen(w, s)
  PROVE  LET x == WithNext(w, s)
         IN /\ Chosen(w, x) /\ s.request \subseteq x.request
            /\ x.is \in {s.is, "fatal"}
            /\ \A T : Free(w, T) /\ s.request \subseteq T => x.is = s.is /\ x.request \subseteq T
            /\ Closed(w, s.request) => x = s
            /\ ~w.forced /\ x.is = "ok" => \/ Closed(w, s.request)
                                           \/ Cardinality(x.request) > Cardinality(s.request)
<1> DEFINE x == WithNext(w, s)
           all == UNION {Dependants(w, Local(n)) : n \in s.request}
           more == all \ s.request
           step == [n \in Uids |-> [v \in Universes |-> AddUnlessLocked(w, v, Local(n))]]
           added == ForEach(more, s.u, step)
<1>1. s \in Requests /\ s.u \in Universes /\ s.is \in Outcomes /\ s.request \subseteq Uids /\ Fit(w, s.u)
      /\ \A n \in s.request : Local(n) \in s.u.items
  BY DEF Chosen, Requests
<1>2. x = IF w.forced \/ more = {} THEN s
          ELSE IF more \cap w.locked # {} THEN [u |-> s.u, is |-> "fatal", request |-> s.request]
          ELSE [u |-> added, is |-> s.is, request |-> s.request \cup more]
  BY DEF WithNext
<1>3. all \subseteq w.local /\ w.local \subseteq Uids
  <2>1. \A n \in s.request : Dependants(w, Local(n)) \subseteq w.local
    BY <1>1, ItemFacts, DependantsFacts
  <2> QED  BY <2>1, ProblemFacts
<1>4. \A T : Free(w, T) /\ s.request \subseteq T => more \subseteq T \ w.locked
  BY DEF Free
<1>5. more = {} <=> Closed(w, s.request)
  BY DEF Closed
<1>6. \A n \in more : n \notin s.request
  OBVIOUS
<1> HIDE DEF all, more, x, added
<1>7. CASE w.forced \/ more = {}
  <2>1. x = s
    BY <1>2, <1>7
  <2> QED  BY <2>1, <1>5, <1>7 DEF x
<1>8. CASE ~(w.forced \/ more = {}) /\ more \cap w.locked # {}
  <2>1. x = [u |-> s.u, is |-> "fatal", request |-> s.request]
    BY <1>2, <1>8
  <2>2. x \in Requests
    BY <1>1, <2>1 DEF Requests, Outcomes
  <2>3. x.u = s.u /\ x.is = "fatal" /\ x.request = s.request
    BY <2>1
  <2>4. \A T : ~(Free(w, T) /\ s.request \subseteq T)
    BY <1>4, <1>8
  <2>5. Chosen(w, x)
    BY <1>1, <2>2, <2>3 DEF Chosen
  <2> QED  BY <1>5, <1>8, <2>3, <2>4, <2>5 DEF x
<1>9. CASE ~(w.forced \/ more = {}) /\ more \cap w.locked = {}
  <2>1. more \subseteq w.local \ w.locked /\ more \subseteq Uids
    BY <1>3, <1>9 DEF more
  <2>2. \A n \in more, v \in Universes : step[n][v] = AddUnlessLocked(w, v, Local(n))
    BY <2>1
  <2>3. \A n \in more : ~IsLocked(w, Local(n))
    BY <2>1, ItemFacts DEF IsLocked
  <2>4. \A n \in more, v \in Universes :
          step[n][v] = Add(v, Local(n)) \/ (Local(n) \in v.items /\ step[n][v] = v)
    BY <2>2, <2>3 DEF AddUnlessLocked
  <2> HIDE DEF step
  <2>5. Fit(w, added) /\ s.u.items \subseteq added.items /\ \A n \in more : Local(n) \in added.items
    BY <1>1, <2>1, <2>4, JoinFacts DEF added
  <2>6. x = [u |-> added, is |-> s.is, request |-> s.request \cup more]
    BY <1>2, <1>9
  <2>7. x \in Requests
    <3>1. added \in Universes
      BY <2>5 DEF Fit
    <3> QED  BY <1>1, <2>1, <2>6, <3>1 DEF Requests
  <2>8. x.u = added /\ x.is = s.is /\ x.request = s.request \cup more
    BY <2>6
  <2>9. Chosen(w, x)
    BY <1>1, <2>5, <2>7, <2>8 DEF Chosen
  <2>10. Cardinality(x.request) > Cardinality(s.request)
    <3>1. IsFiniteSet(Uids)
      BY FS_Interval, SolveAssumption DEF Uids
    <3>2. IsFiniteSet(x.request) /\ s.request \subseteq x.request /\ s.request # x.request
      BY <3>1, <1>1, <1>6, <1>9, <2>1, <2>8, FS_Subset
    <3>3. Cardinality(s.request) < Cardinality(x.request) /\ Cardinality(s.request) \in Nat /\ Cardinality(x.request) \in Nat
      BY <3>2, FS_Subset, FS_CardinalityType
    <3> QED  BY <3>3
  <2> QED  BY <1>4, <1>5, <1>9, <2>8, <2>9, <2>10 DEF x
<1> QED  BY <1>7, <1>8, <1>9

LEMMA WithDependantsFacts ==
  ASSUME NEW w \in Problems, NEW s, Chosen(w, s)
  PROVE  LET x == WithDependants(w, s)
         IN /\ Chosen(w, x) /\ x.is \in {s.is, "fatal"}
            /\ \A T : Free(w, T) /\ s.request \subseteq T => x.is = s.is
            /\ ~w.forced /\ x.is = "ok" => Closed(w, x.request)
<1> DEFINE R == [n \in 0..Size |-> {t \in Requests :
                   /\ Chosen(w, t) /\ t.is \in {s.is, "fatal"}
                   /\ \A T : Free(w, T) /\ s.request \subseteq T => t.is = s.is /\ t.request \subseteq T
                   /\ ~w.forced /\ t.is = "ok" => Closed(w, t.request) \/ Cardinality(t.request) >= n}]
           step == [round \in Uids |-> [t \in Requests |-> WithNext(w, t)]]
<1>0. IsFiniteSet(Uids) /\ Cardinality(Uids) = Size
  BY FS_Interval, SolveAssumption DEF Uids
<1>1. \A t \in Requests : IsFiniteSet(t.request) /\ Cardinality(t.request) \in Nat /\ t.request \subseteq Uids
  BY <1>0, FS_Subset, FS_CardinalityType DEF Requests
<1>2. s \in R[0]
  <2>1. s \in Requests
    BY DEF Chosen
  <2>2. Cardinality(s.request) >= 0
    BY <1>1, <2>1
  <2>3. 0 \in 0..Size
    BY SolveAssumption
  <2> QED  BY <2>1, <2>2, <2>3
<1>3. ASSUME NEW n \in Uids, NEW t \in R[n - 1]
      PROVE  IF n \in Uids THEN step[n][t] \in R[n] ELSE t \in R[n]
  <2>0. n \in 0..Size /\ n - 1 \in 0..Size /\ n \in Nat
    BY UpTo
  <2>1. /\ t \in Requests /\ Chosen(w, t) /\ t.is \in {s.is, "fatal"}
        /\ \A T : Free(w, T) /\ s.request \subseteq T => t.is = s.is /\ t.request \subseteq T
        /\ ~w.forced /\ t.is = "ok" => Closed(w, t.request) \/ Cardinality(t.request) >= n - 1
    BY <1>3, <2>0
  <2> DEFINE x == WithNext(w, t)
  <2>2. step[n][t] = x
    BY <2>1
  <2>3. /\ Chosen(w, x) /\ t.request \subseteq x.request
        /\ x.is \in {t.is, "fatal"}
        /\ \A T : Free(w, T) /\ t.request \subseteq T => x.is = t.is /\ x.request \subseteq T
        /\ Closed(w, t.request) => x = t
        /\ ~w.forced /\ x.is = "ok" => \/ Closed(w, t.request)
                                       \/ Cardinality(x.request) > Cardinality(t.request)
    BY <2>1, RoundFacts
  <2> HIDE DEF x
  <2>4. x \in Requests
    BY <2>3 DEF Chosen
  <2>5. ASSUME ~w.forced, x.is = "ok"  PROVE Closed(w, x.request) \/ Cardinality(x.request) >= n
    <3>1. CASE Closed(w, t.request)
      BY <2>3, <3>1
    <3>2. CASE ~Closed(w, t.request)
      <4>1. Cardinality(x.request) > Cardinality(t.request) /\ t.is = "ok"
        BY <2>1, <2>3, <2>5, <3>2
      <4> QED  BY <4>1, <3>2, <2>0, <2>1, <2>4, <2>5, <1>1
    <3> QED  BY <3>1, <3>2
  <2>6. x.is \in {s.is, "fatal"} /\ \A T : Free(w, T) /\ s.request \subseteq T => x.is = s.is /\ x.request \subseteq T
    BY <2>1, <2>3
  <2>7. x \in R[n]
    BY <2>0, <2>3, <2>4, <2>5, <2>6
  <2> HIDE DEF step, R
  <2> QED  BY <2>2, <2>7
<1> DEFINE x == WithDependants(w, s)
<1>4. x \in R[Size]
  <2>1. x = ForEach(Uids, s, step)
    BY DEF WithDependants
  <2> HIDE DEF R, step, x
  <2> QED  BY <1>2, <1>3, <2>1, ForEachInduction
<1>5. Size \in 0..Size
  BY SolveAssumption
<1> HIDE DEF x
<1>6. /\ x \in Requests /\ Chosen(w, x) /\ x.is \in {s.is, "fatal"}
      /\ \A T : Free(w, T) /\ s.request \subseteq T => x.is = s.is /\ x.request \subseteq T
      /\ ~w.forced /\ x.is = "ok" => Closed(w, x.request) \/ Cardinality(x.request) >= Size
  BY <1>4, <1>5
<1>7. ASSUME Cardinality(x.request) >= Size  PROVE Closed(w, x.request)
  <2>1. x.request = Uids
    <3>1. x.request \in SUBSET Uids /\ Cardinality(x.request) \in Nat
      BY <1>1, <1>6
    <3>2. Cardinality(x.request) <= Cardinality(Uids) /\ (Cardinality(x.request) = Cardinality(Uids) => x.request = Uids)
      BY <1>0, <3>1, FS_Subset
    <3> QED  BY <1>0, <1>7, <3>1, <3>2, SolveAssumption
  <2>2. \A n \in Uids : Dependants(w, Local(n)) \subseteq Uids
    BY ItemFacts, DependantsFacts, ProblemFacts
  <2> QED  BY <2>1, <2>2 DEF Closed
<1> QED  BY <1>6, <1>7 DEF x

LEMMA RequestDeinstallFacts ==
  ASSUME NEW w \in Problems
  PROVE  LET r == RequestDeinstall(w)
         IN Chosen(w, r) /\ (~w.forced /\ r.is = "ok" => Closed(w, r.request))
<1> DEFINE chosen == (IF w.asked = {} THEN w.local ELSE w.asked \cap w.local) \ w.locked
           step == [n \in Uids |-> [v \in Universes |-> Add(v, Local(n))]]
           u == ForEach(chosen, EmptyUniverse, step)
           s == [u |-> u, is |-> "ok", request |-> chosen]
<1>1. chosen \subseteq w.local \ w.locked /\ chosen \subseteq Uids
  BY ProblemFacts
<1> HIDE DEF chosen
<1>2. \A n \in chosen, v \in Universes :
        step[n][v] = Add(v, Local(n)) \/ (Local(n) \in v.items /\ step[n][v] = v)
  BY <1>1
<1> HIDE DEF step
<1>3. Fit(w, u) /\ \A n \in chosen : Local(n) \in u.items
  BY <1>1, <1>2, BeginsFit, JoinFacts, UniverseFacts
<1> HIDE DEF u
<1>4. s \in Requests
  BY <1>1, <1>3 DEF Requests, Outcomes, Fit
<1>5. Chosen(w, s)
  BY <1>3, <1>4 DEF Chosen
<1>6. RequestDeinstall(w) = WithDependants(w, s)
  BY DEF RequestDeinstall, chosen, u, step
<1> HIDE DEF s
<1> QED  BY <1>5, <1>6, WithDependantsFacts

\* The tests that may nest k deep.
TestOnce(w, test, m, v) ==
  ForEach(Dependants(w, Local(m)), [u |-> v, is |-> "yes"],
          [d \in Uids |-> [s \in Verdicts |-> TestNext(w, test, s, d)]])
Tests(it, w) ==
  it = [depth \in Nat |-> [m \in Uids |-> [v \in Universes |->
         IF depth = 0 THEN [u |-> v, is |-> "endless"] ELSE TestOnce(w, it[depth - 1], m, v)]]]
Testers == [Uids -> [Universes -> Verdicts]]

LEMMA TestType ==
  ASSUME NEW w \in Problems, NEW test \in Testers, NEW m \in Uids, NEW v \in Universes
  PROVE  TestOnce(w, test, m, v) \in Verdicts
<1> DEFINE step == [d \in Uids |-> [s \in Verdicts |-> TestNext(w, test, s, d)]]
<1>1. ASSUME NEW d \in Uids, NEW s \in Verdicts  PROVE step[d][s] \in Verdicts
  <2> DEFINE p == Process(w, s.u, Local(d))
  <2>1. s.u \in Universes /\ Local(d) \in Items
    BY ItemFacts DEF Verdicts
  <2>2. p.u \in Universes
    BY <2>1, ProcessType, UniverseFacts
  <2>3. [u |-> s.u, is |-> "no"] \in Verdicts /\ test[d][p.u] \in Verdicts
    BY <2>1, <2>2 DEF Verdicts, Testers
  <2>4. TestNext(w, test, s, d) = IF s.is # "yes" THEN s
                                  ELSE IF d \notin w.automatic \/ ~p.ok THEN [u |-> s.u, is |-> "no"]
                                  ELSE test[d][p.u]
    BY DEF TestNext
  <2> QED  BY <2>3, <2>4
<1>2. [u |-> v, is |-> "yes"] \in Verdicts
  BY DEF Verdicts
<1>3. TestOnce(w, test, m, v) = ForEach(Dependants(w, Local(m)), [u |-> v, is |-> "yes"], step)
  BY DEF TestOnce
<1> HIDE DEF step
<1> QED  BY <1>1, <1>2, <1>3, ForEachStays

LEMMA TestsExist ==
  ASSUME NEW w \in Problems, NEW it, Tests(it, w)
  PROVE  /\ \A m \in Uids, v \in Universes : it[0][m][v].u = v /\ it[0][m][v].is = "endless"
         /\ \A k \in Nat : it[k] \in Testers
         /\ \A k \in Nat, m \in Uids, v \in Universes : it[k + 1][m][v] = TestOnce(w, it[k], m, v)
<1>1. \A k \in Nat : it[k + 1] = [m \in Uids |-> [v \in Universes |-> TestOnce(w, it[k], m, v)]]
  <2> TAKE k \in Nat
  <2>1. k + 1 \in Nat /\ k + 1 # 0 /\ (k + 1) - 1 = k
    OBVIOUS
  <2>2. it[k + 1] = [m \in Uids |-> [v \in Universes |->
           IF k + 1 = 0 THEN [u |-> v, is |-> "endless"] ELSE TestOnce(w, it[(k + 1) - 1], m, v)]]
    BY <2>1 DEF Tests
  <2> QED  BY <2>1, <2>2
<1>2. it[0] = [m \in Uids |-> [v \in Universes |-> [u |-> v, is |-> "endless"]]]
  BY DEF Tests
<1>3. it[0] \in Testers
  BY <1>2 DEF Testers, Verdicts
<1>4. ASSUME NEW k \in Nat, it[k] \in Testers  PROVE it[k + 1] \in Testers
  <2>1. \A m \in Uids, v \in Universes : TestOnce(w, it[k], m, v) \in Verdicts
    BY <1>4, TestType
  <2>2. [m \in Uids |-> [v \in Universes |-> TestOnce(w, it[k], m, v)]] \in Testers
    BY <2>1 DEF Testers
  <2> QED  BY <1>1, <2>2
<1>5. \A k \in Nat : it[k] \in Testers
  BY <1>3, <1>4, Stays
<1>6. ASSUME NEW k \in Nat, NEW m \in Uids, NEW v \in Universes  PROVE it[k + 1][m][v] = TestOnce(w, it[k], m, v)
  <2>1. it[k + 1] = [j \in Uids |-> [u \in Universes |-> TestOnce(w, it[k], j, u)]]
    BY <1>1
  <2> QED  BY <2>1
<1> QED  BY <1>2, <1>5, <1>6

Keeps(w, v, u) == Fit(w, u) /\ v.items \subseteq u.items

\* A test leaves the universe fit, and who passes has dependants that passed and are
\* not locked.
Passed(w, it) ==
  {m \in Uids : \E k \in Nat : \E v \in Universes : Fit(w, v) /\ it[k][m][v].is = "yes"}

LEMMA TestOnceFacts ==
  ASSUME NEW w \in Problems, NEW it, Tests(it, w), NEW k \in Nat,
         \A m \in Uids, v \in Universes : Fit(w, v) => Keeps(w, v, it[k][m][v].u),
         NEW m \in Uids, NEW v \in Universes, Fit(w, v)
  PROVE  LET x == TestOnce(w, it[k], m, v)
         IN Keeps(w, v, x.u) /\ (x.is = "yes" => Dependants(w, Local(m)) \subseteq Passed(w, it) \ w.locked)
<1> DEFINE names == Dependants(w, Local(m))
           R == [n \in 0..Size |-> {t \in Verdicts :
                   Keeps(w, v, t.u) /\ (t.is = "yes" => \A d \in names : d <= n => d \in Passed(w, it) \ w.locked)}]
           step == [d \in Uids |-> [s \in Verdicts |-> TestNext(w, it[k], s, d)]]
           z == [u |-> v, is |-> "yes"]
           x == TestOnce(w, it[k], m, v)
<1>0. names \subseteq w.local /\ names \subseteq Uids
  BY ItemFacts, DependantsFacts, ProblemFacts
<1> HIDE DEF names
<1>1. z \in R[0]
  <2>1. z \in Verdicts /\ z.u = v /\ Keeps(w, v, v)
    BY DEF Verdicts, Keeps
  <2>2. \A d \in names : ~(d <= 0)
    BY <1>0 DEF Uids
  <2>3. 0 \in 0..Size
    BY SolveAssumption
  <2> QED  BY <2>1, <2>2, <2>3
<1>2. ASSUME NEW n \in Uids, NEW s \in R[n - 1]
      PROVE  IF n \in names THEN step[n][s] \in R[n] ELSE s \in R[n]
  <2>0. n \in 0..Size /\ n - 1 \in 0..Size /\ n \in Nat
    BY UpTo
  <2>1. s \in Verdicts /\ Keeps(w, v, s.u) /\ (s.is = "yes" => \A d \in names : d <= n - 1 => d \in Passed(w, it) \ w.locked)
    BY <1>2, <2>0
  <2>2. \A d \in names : d <= n => d <= n - 1 \/ d = n
    BY <1>0, UpTo
  <2>3. CASE n \notin names
    BY <2>0, <2>1, <2>2, <2>3
  <2>4. CASE n \in names
    <3> DEFINE p == Process(w, s.u, Local(n))
               y == TestNext(w, it[k], s, n)
    <3>1. step[n][s] = y
      BY <2>1
    <3>2. y = IF s.is # "yes" THEN s
              ELSE IF n \notin w.automatic \/ ~p.ok THEN [u |-> s.u, is |-> "no"]
              ELSE it[k][n][p.u]
      BY DEF TestNext
    <3>3. s.u \in Universes /\ Callable(w, s.u, Local(n)) /\ Local(n) \in Items
      BY <1>0, <2>1, <2>4, CallableFacts, ItemFacts DEF Verdicts
    <3>4. p \in Results /\ Keeps(w, v, p.u) /\ Fit(w, p.u) /\ (p.ok => Local(n) \in p.u.items)
      BY <2>1, <3>3, ProcessFacts DEF Keeps, Grows
    <3> HIDE DEF p, y
    <3>5. CASE s.is # "yes"
      <4>1. y = s /\ y \in R[n]
        BY <2>0, <2>1, <3>2, <3>5
      <4> HIDE DEF R, step
      <4> QED  BY <3>1, <4>1, <2>4
    <3>6. CASE s.is = "yes" /\ (n \notin w.automatic \/ ~p.ok)
      <4>1. y = [u |-> s.u, is |-> "no"]
        BY <3>2, <3>6
      <4>2. y \in Verdicts /\ Keeps(w, v, y.u) /\ y.is # "yes"
        BY <4>1, <3>3, <2>1 DEF Verdicts
      <4>3. y \in R[n]
        BY <2>0, <4>2
      <4> HIDE DEF R, step
      <4> QED  BY <3>1, <4>3, <2>4
    <3>7. CASE s.is = "yes" /\ ~(n \notin w.automatic \/ ~p.ok)
      <4>1. y = it[k][n][p.u] /\ p.u \in Universes
        BY <3>2, <3>4, <3>7, UniverseFacts
      <4>2. y \in Verdicts /\ Keeps(w, v, y.u)
        <5>1. it[k] \in Testers
          BY TestsExist
        <5>2. Keeps(w, p.u, y.u)
          BY <3>4, <4>1
        <5> QED  BY <4>1, <5>1, <5>2, <3>4 DEF Testers, Keeps
      <4>3. n \notin w.locked
        BY <3>4, <3>7, ItemFacts DEF Fit, Fits
      <4>4. y.is = "yes" => n \in Passed(w, it)
        BY <3>4, <4>1 DEF Passed
      <4>5. y \in R[n]
        BY <2>0, <2>1, <2>2, <3>7, <4>2, <4>3, <4>4
      <4> HIDE DEF R, step
      <4> QED  BY <3>1, <4>5, <2>4
    <3> QED  BY <3>5, <3>6, <3>7
  <2> QED  BY <2>3, <2>4
<1>3. x \in R[Size]
  <2>1. x = ForEach(names, z, step)
    BY DEF TestOnce, names
  <2> HIDE DEF R, step, z, x
  <2> QED  BY <1>1, <1>2, <2>1, ForEachInduction
<1>4. Size \in 0..Size /\ \A d \in names : d <= Size
  BY <1>0, SolveAssumption DEF Uids
<1> HIDE DEF x
<1>5. Keeps(w, v, x.u) /\ (x.is = "yes" => names \subseteq Passed(w, it) \ w.locked)
  BY <1>3, <1>4
<1> QED  BY <1>5 DEF x, names

LEMMA TestFacts ==
  ASSUME NEW w \in Problems
  PROVE  \E T \in SUBSET Uids :
           /\ Free(w, T)
           /\ \A n \in Uids, u \in Universes :
                LET t == TestAutomatic(w, u, n)
                IN t \in Verdicts /\ (Fit(w, u) => Keeps(w, u, t.u) /\ (t.is = "yes" => n \in T))
<1> DEFINE None == [m \in Uids |-> [v \in Universes |-> [u |-> v, is |-> "endless"]]]
           One(F) == [m \in Uids |-> [v \in Universes |-> TestOnce(w, F, m, v)]]
           g == [F \in Testers |-> One(F)]
           it == CHOOSE f : Tests(f, w)
<1>1. \E f : Tests(f, w)
  <2>1. PICK f : Recurs(f, None, g)
    BY Recursion
  <2>2. None \in Testers
    BY DEF Testers, Verdicts
  <2>3. \A F \in Testers : One(F) \in Testers
    BY TestType DEF Testers
  <2> HIDE DEF One
  <2>4. \A n \in Nat : n + 1 # 0 /\ (n + 1) - 1 = n /\ n + 1 \in Nat
    OBVIOUS
  <2>5. f[0] = None /\ \A n \in Nat : f[n + 1] = g[f[n]]
    <3> HIDE DEF None, g
    <3> QED  BY <2>1, <2>4 DEF Recurs
  <2>6. \A n \in Nat : f[n] \in Testers
    <3>1. f[0] \in Testers /\ \A n \in Nat : f[n] \in Testers => f[n + 1] \in Testers
      BY <2>2, <2>3, <2>5
    <3> QED  BY <3>1, Stays
  <2>7. \A n \in Nat : f[n + 1] = One(f[n])
    BY <2>5, <2>6
  <2>8. \A n \in Nat : f[n] = [m \in Uids |-> [v \in Universes |->
           IF n = 0 THEN [u |-> v, is |-> "endless"] ELSE TestOnce(w, f[n - 1], m, v)]]
    <3> TAKE n \in Nat
    <3>1. CASE n = 0
      BY <2>5, <3>1
    <3>2. CASE n # 0
      <4>1. n - 1 \in Nat /\ (n - 1) + 1 = n
        BY <3>2
      <4>2. f[n] = One(f[n - 1])
        BY <2>7, <4>1
      <4> QED  BY <3>2, <4>2 DEF One
    <3> QED  BY <3>1, <3>2
  <2>9. f = [n \in Nat |-> f[n]]
    BY <2>1 DEF Recurs
  <2> HIDE DEF None, g
  <2>10. Tests(f, w)
    BY <2>8, <2>9 DEF Tests
  <2> QED  BY <2>10
<1>2. Tests(it, w)
  BY <1>1
<1>3. \A u, n : TestAutomatic(w, u, n) = it[Size][n][u]
  BY DEF TestAutomatic, Tests, TestOnce
<1> HIDE DEF it, One, None, g
<1>4. \A k \in Nat : \A m \in Uids, v \in Universes : Fit(w, v) => Keeps(w, v, it[k][m][v].u)
  <2> DEFINE T == {k \in Nat : \A m \in Uids, v \in Universes : Fit(w, v) => Keeps(w, v, it[k][m][v].u)}
  <2>1. 0 \in T
    <3>1. \A m \in Uids, v \in Universes : it[0][m][v].u = v
      BY <1>2, TestsExist
    <3>2. \A m \in Uids, v \in Universes : Fit(w, v) => Keeps(w, v, it[0][m][v].u)
      BY <3>1 DEF Keeps
    <3> QED  BY <3>2
  <2>2. ASSUME NEW k \in T  PROVE k + 1 \in T
    <3>1. k \in Nat /\ k + 1 \in Nat /\ \A m \in Uids, v \in Universes : Fit(w, v) => Keeps(w, v, it[k][m][v].u)
      OBVIOUS
    <3>2. \A m \in Uids, v \in Universes : it[k + 1][m][v] = TestOnce(w, it[k], m, v)
      BY <1>2, <3>1, TestsExist
    <3> HIDE DEF T
    <3>3. \A m \in Uids, v \in Universes : Fit(w, v) => Keeps(w, v, it[k + 1][m][v].u)
      BY <1>2, <3>1, <3>2, TestOnceFacts
    <3> QED  BY <3>1, <3>3 DEF T
  <2>3. T = Nat
    <3>1. T \in SUBSET Nat
      OBVIOUS
    <3> HIDE DEF T
    <3> QED  BY <2>1, <2>2, <3>1, SetInduction
  <2> QED  BY <2>3
<1> DEFINE T == Passed(w, it)
<1>5. Free(w, T)
  <2>1. ASSUME NEW m \in T  PROVE Dependants(w, Local(m)) \subseteq T \ w.locked
    <3>1. PICK k \in Nat, v \in Universes : Fit(w, v) /\ it[k][m][v].is = "yes"
      BY DEF Passed
    <3>2. m \in Uids
      BY DEF Passed
    <3>3. k # 0
      <4>1. it[0][m][v].is = "endless"
        BY <1>2, <3>2, TestsExist
      <4> QED  BY <3>1, <4>1
    <3>4. k - 1 \in Nat /\ (k - 1) + 1 = k
      BY <3>3
    <3>5. it[k][m][v] = TestOnce(w, it[k - 1], m, v)
      BY <1>2, <3>2, <3>4, TestsExist
    <3> HIDE DEF T
    <3>6. TestOnce(w, it[k - 1], m, v).is = "yes"
      BY <3>1, <3>5
    <3> QED  BY <1>2, <1>4, <3>1, <3>2, <3>4, <3>6, TestOnceFacts DEF T
  <2> HIDE DEF T
  <2> QED  BY <2>1 DEF Free
<1>6. \A n \in Uids, u \in Universes :
        LET t == TestAutomatic(w, u, n)
        IN t \in Verdicts /\ (Fit(w, u) => Keeps(w, u, t.u) /\ (t.is = "yes" => n \in T))
  <2> TAKE n \in Uids, u \in Universes
  <2>1. Size \in Nat
    BY SolveAssumption
  <2>2. it[Size] \in Testers
    BY <1>2, <2>1, TestsExist
  <2>3. it[Size][n][u] \in Verdicts
    BY <2>2 DEF Testers
  <2>4. Fit(w, u) => Keeps(w, u, it[Size][n][u].u) /\ (it[Size][n][u].is = "yes" => n \in T)
    BY <1>4, <2>1 DEF Passed
  <2> QED  BY <1>3, <2>3, <2>4
<1>7. T \in SUBSET Uids
  BY DEF Passed
<1> HIDE DEF T
<1> QED  BY <1>5, <1>6, <1>7

LEMMA RequestAutoremoveFacts ==
  ASSUME NEW w \in Problems
  PROVE  LET r == RequestAutoremove(w)
         IN Chosen(w, r) /\ (~w.forced /\ r.is = "ok" => Closed(w, r.request))
<1>1. PICK T \in SUBSET Uids :
        /\ Free(w, T)
        /\ \A n \in Uids, u \in Universes :
             LET t == TestAutomatic(w, u, n)
             IN t \in Verdicts /\ (Fit(w, u) => Keeps(w, u, t.u) /\ (t.is = "yes" => n \in T))
  BY TestFacts
<1> DEFINE names == (w.automatic \ w.vital) \ w.locked
           s0 == [u |-> EmptyUniverse, is |-> "ok", request |-> {}]
           step == [n \in Uids |-> [s \in Requests |-> Autoremove(w, s, n)]]
           S == {s \in Requests : Chosen(w, s) /\ s.request \subseteq T}
           first == ForEach(names, s0, step)
           all == WithDependants(w, first)
           r == RequestAutoremove(w)
<1>2. names \subseteq w.local \ w.locked /\ names \subseteq Uids
  BY ProblemFacts
<1> HIDE DEF names
<1>3. s0 \in S
  BY BeginsFit DEF Chosen
<1>4. ASSUME NEW n \in names \cap Uids, NEW s \in S  PROVE step[n][s] \in S
  <2> DEFINE t == TestAutomatic(w, s.u, n)
             x == Autoremove(w, s, n)
  <2>1. s \in Requests /\ s.u \in Universes /\ Fit(w, s.u) /\ s.request \subseteq T /\ s.request \subseteq Uids /\ Chosen(w, s)
        /\ \A m \in s.request : Local(m) \in s.u.items
    BY DEF Requests, Chosen
  <2>2. step[n][s] = x
    BY <2>1
  <2>3. t \in Verdicts /\ Keeps(w, s.u, t.u) /\ (t.is = "yes" => n \in T) /\ t.u \in Universes
    BY <1>1, <2>1 DEF Verdicts
  <2>4. x = IF s.is # "ok" THEN s
            ELSE IF t.is = "yes" THEN [u |-> Add(t.u, Local(n)), is |-> "ok", request |-> s.request \cup {n}]
            ELSE [u |-> t.u, is |-> IF t.is = "no" THEN "ok" ELSE "endless", request |-> s.request]
    BY DEF Autoremove
  <2> HIDE DEF x, t
  <2>5. CASE s.is # "ok"
    BY <2>2, <2>4, <2>5
  <2>6. CASE s.is = "ok" /\ t.is = "yes"
    <3>1. x = [u |-> Add(t.u, Local(n)), is |-> "ok", request |-> s.request \cup {n}]
      BY <2>4, <2>6
    <3>2. Fits(w, t.u, Local(n)) /\ Local(n) \in Items
      BY <1>2, <1>4, ItemFacts DEF Fits
    <3>3. Fit(w, Add(t.u, Local(n))) /\ Add(t.u, Local(n)).items = t.u.items \cup {Local(n)}
      BY <2>3, <3>2, MarkFacts DEF Keeps
    <3>4. x \in Requests /\ x.u = Add(t.u, Local(n)) /\ x.request = s.request \cup {n}
      BY <2>1, <3>1, <3>3 DEF Requests, Outcomes, Fit
    <3>5. Chosen(w, x) /\ x.request \subseteq T
      BY <2>1, <2>3, <2>6, <3>3, <3>4 DEF Chosen, Keeps
    <3>6. x \in S
      BY <3>4, <3>5
    <3> HIDE DEF S, step
    <3> QED  BY <2>2, <3>6
  <2>7. CASE s.is = "ok" /\ t.is # "yes"
    <3>1. x = [u |-> t.u, is |-> IF t.is = "no" THEN "ok" ELSE "endless", request |-> s.request]
      BY <2>4, <2>7
    <3>2. x \in Requests /\ x.u = t.u /\ x.request = s.request
      BY <2>1, <2>3, <3>1 DEF Requests, Outcomes
    <3>3. Chosen(w, x)
      BY <2>1, <2>3, <3>2 DEF Chosen, Keeps
    <3>4. x \in S
      BY <2>1, <3>2, <3>3
    <3> HIDE DEF S, step
    <3> QED  BY <2>2, <3>4
  <2> QED  BY <2>5, <2>6, <2>7
<1>5. r = IF first.is = "ok" THEN [u |-> all.u, is |-> "ok", request |-> all.request] ELSE first
  BY DEF RequestAutoremove, names
<1> HIDE DEF step, all, r
<1>6. first \in S
  <2> HIDE DEF S, s0
  <2> QED  BY <1>3, <1>4, ForEachStays
<1> HIDE DEF first
<1>7. CASE first.is # "ok"
  BY <1>5, <1>6, <1>7 DEF r
<1>8. CASE first.is = "ok"
  <2>1. /\ Chosen(w, all) /\ all.is = first.is
        /\ ~w.forced /\ all.is = "ok" => Closed(w, all.request)
    BY <1>1, <1>6, WithDependantsFacts DEF all
  <2>2. all.u \in Universes /\ all.request \subseteq Uids
    BY <2>1 DEF Chosen, Requests
  <2>3. r = [u |-> all.u, is |-> "ok", request |-> all.request]
    BY <1>5, <1>8
  <2>4. r \in Requests /\ r.u = all.u /\ r.is = "ok" /\ r.request = all.request
    BY <2>2, <2>3 DEF Requests, Outcomes
  <2> QED  BY <1>8, <2>1, <2>4 DEF Chosen, r
<1> QED  BY <1>7, <1>8

\* What is handed to the solver
LEMMA RequestFacts ==
  ASSUME NEW w \in Problems
  PROVE  LET r == Request(w)
         IN /\ r.is \in Outcomes /\ r.request \subseteq Uids
            /\ Fit(w, r.u) /\ Complete(w, r.u)
            /\ \A n \in r.request : Wanted(w, n) \in r.u.items
            /\ IsDelete(w) /\ ~w.forced /\ r.is = "ok" => Closed(w, r.request)
<1>1. CASE ~IsDelete(w)
  <2>1. Request(w) = RequestInstall(w)
    BY <1>1 DEF Request, IsDelete
  <2> QED  BY <1>1, <2>1, RequestInstallFacts DEF Wanted
<1>2. CASE IsDelete(w)
  <2> DEFINE r == Request(w)
  <2>1. Chosen(w, r) /\ (~w.forced /\ r.is = "ok" => Closed(w, r.request))
    BY <1>2, RequestAutoremoveFacts, RequestDeinstallFacts DEF Request, IsDelete
  <2> HIDE DEF r
  <2>2. r.is \in Outcomes /\ r.request \subseteq Uids /\ Fit(w, r.u) /\ \A n \in r.request : Local(n) \in r.u.items
    BY <2>1 DEF Chosen, Requests
  <2>3. Complete(w, r.u)
    BY <1>2, <2>2 DEF Complete, Thorough, Fit, Fits
  <2> QED  BY <1>2, <2>1, <2>2, <2>3 DEF Wanted, r
<1> QED  BY <1>1, <1>2

-----------------------------------------------------------------------------
(* The universe of a plan.                                                 *)

\* Owners of files join the universe, all of them when the database is whole, but
\* for the locked ones.
LEMMA JoinedFacts ==
  ASSUME problem \in Problems, Fit(problem, universe), Complete(problem, universe)
  PROVE  LET j == Joined
         IN /\ Fit(problem, j.u) /\ Complete(problem, j.u) /\ Grows(universe, j.u)
            /\ j.names \subseteq Owners /\ \A n \in j.names : Local(n) \in j.u.items
            /\ Whole => Owners \ problem.locked \subseteq j.names
<1> DEFINE R == [n \in 0..Size |-> {s \in JoinedUniverses :
                   /\ Fit(problem, s.u) /\ Grows(universe, s.u) /\ s.u.items \ universe.items \subseteq s.u.done
                   /\ Thorough(problem) => \A i \in s.u.done : Handled(problem, s.u, i)
                   /\ s.names \subseteq Owners /\ \A m \in s.names : Local(m) \in s.u.items
                   /\ Whole => \A m \in Owners \ problem.locked : m <= n => m \in s.names}]
           step == [n \in Uids |-> [s \in JoinedUniverses |-> Join(s, n)]]
           z == [u |-> universe, names |-> {}]
<1>0. Owners \subseteq problem.local /\ Owners \subseteq Uids /\ universe \in Universes
  BY ProblemFacts DEF Owners, Fit
<1>1. z \in R[0]
  <2>1. z \in JoinedUniverses /\ z.u = universe /\ z.names = {}
    BY <1>0 DEF JoinedUniverses
  <2>2. \A m \in Owners : ~(m <= 0)
    BY <1>0 DEF Uids
  <2>3. 0 \in 0..Size
    BY SolveAssumption
  <2>4. Grows(universe, universe) /\ (Thorough(problem) => \A i \in universe.done : Handled(problem, universe, i))
    BY DEF Grows, Complete
  <2> QED  BY <2>1, <2>2, <2>3, <2>4
<1>2. ASSUME NEW n \in Uids, NEW s \in R[n - 1]
      PROVE  IF n \in Owners THEN step[n][s] \in R[n] ELSE s \in R[n]
  <2>0. n \in 0..Size /\ n - 1 \in 0..Size /\ n \in Nat
    BY UpTo
  <2>1. /\ s \in JoinedUniverses /\ Fit(problem, s.u) /\ Grows(universe, s.u)
        /\ s.u.items \ universe.items \subseteq s.u.done
        /\ Thorough(problem) => \A i \in s.u.done : Handled(problem, s.u, i)
        /\ s.names \subseteq Owners /\ \A m \in s.names : Local(m) \in s.u.items
        /\ Whole => \A m \in Owners \ problem.locked : m <= n - 1 => m \in s.names
    BY <1>2, <2>0
  <2>2. \A m \in Owners : m <= n => m <= n - 1 \/ m = n
    BY <1>0, UpTo
  <2>3. CASE n \notin Owners
    BY <2>0, <2>1, <2>2, <2>3
  <2>4. CASE n \in Owners
    <3> DEFINE p == Process(problem, s.u, Local(n))
               x == Join(s, n)
    <3>1. step[n][s] = x
      BY <2>1
    <3>2. x = [u |-> p.u, names |-> IF p.ok THEN s.names \cup {n} ELSE s.names]
      BY DEF Join
    <3>3. s.u \in Universes /\ s.names \subseteq Uids /\ Callable(problem, s.u, Local(n)) /\ Local(n) \in Items
          /\ IsLocal(Local(n)) /\ (IsLocked(problem, Local(n)) <=> n \in problem.locked)
      BY <1>0, <2>1, <2>4, CallableFacts, ItemFacts DEF JoinedUniverses
    <3>4. /\ p \in Results /\ Fit(problem, p.u) /\ Grows(s.u, p.u) /\ p.u.items \ s.u.items \subseteq p.u.done
          /\ p.ok => Local(n) \in p.u.items
          /\ Thorough(problem) => \A j \in p.u.done \ s.u.done : Handled(problem, p.u, j)
          /\ problem.dep[Local(n)] \subseteq problem.local => p.ok \/ n \in problem.locked
      BY <2>1, <3>3, ProcessFacts
    <3> HIDE DEF p, x
    <3>5. p.u \in Universes /\ Grows(universe, p.u) /\ p.u.items \ universe.items \subseteq p.u.done
      BY <2>1, <3>4, UniverseFacts DEF Grows
    <3>6. Thorough(problem) => \A i \in p.u.done : Handled(problem, p.u, i)
      BY <2>1, <3>3, <3>4, <3>5, MetGrows
    <3>7. x.u = p.u /\ x.names = IF p.ok THEN s.names \cup {n} ELSE s.names
      BY <3>2
    <3>8. x \in JoinedUniverses
      BY <3>2, <3>3, <3>5 DEF JoinedUniverses
    <3>9. x.names \subseteq Owners /\ \A m \in x.names : Local(m) \in x.u.items
      BY <2>1, <2>4, <3>4, <3>7 DEF Grows
    <3>10. Whole => \A m \in Owners \ problem.locked : m <= n => m \in x.names
      <4>1. Whole => problem.dep[Local(n)] \subseteq problem.local
        BY <1>0, <2>4 DEF Whole
      <4> QED  BY <2>1, <2>2, <2>4, <3>4, <3>7, <4>1
    <3>11. x \in R[n]
      BY <2>0, <3>4, <3>5, <3>6, <3>7, <3>8, <3>9, <3>10
    <3> HIDE DEF step, R
    <3> QED  BY <3>1, <3>11, <2>4
  <2> QED  BY <2>3, <2>4
<1> DEFINE j == Joined
<1>3. j \in R[Size]
  <2>1. j = ForEach(Owners, z, step)
    BY DEF Joined
  <2> HIDE DEF R, step, z, j
  <2> QED  BY <1>1, <1>2, <2>1, ForEachInduction
<1>4. Size \in 0..Size /\ \A m \in Owners : m <= Size
  BY <1>0, SolveAssumption DEF Uids
<1> HIDE DEF j
<1>5. /\ Fit(problem, j.u) /\ Grows(universe, j.u) /\ j.u.items \ universe.items \subseteq j.u.done
      /\ Thorough(problem) => \A i \in j.u.done : Handled(problem, j.u, i)
      /\ j.names \subseteq Owners /\ \A m \in j.names : Local(m) \in j.u.items
      /\ Whole => \A m \in Owners \ problem.locked : m \in j.names
  BY <1>3, <1>4
<1>6. Complete(problem, j.u)
  BY <1>5 DEF Complete, Grows
<1> QED  BY <1>5, <1>6 DEF j

\* What the other steps leave alone
LEMMA QuietSteps ==
  ASSUME Next
  PROVE  \/ Requested
         \/ \E M \in Answers(problem, universe, known, assume, failed) : Solved(M)
         \/ Checked
         \/ /\ UNCHANGED <<problem, request, universe, solved, known, model>>
            /\ pc # "request" /\ pc' # "request"
<1> USE DEF input, ordering
<1>1. CASE \E M \in Answers(problem, universe, known, assume, failed) : SolvedAgain(M)
  BY <1>1 DEF SolvedAgain
<1>2. CASE \E i \in Items : Unsolved(i) \/ Answer(i)
  BY <1>2 DEF Unsolved, Answer
<1>3. CASE SetsPriority
  BY <1>3 DEF SetsPriority
<1>4. CASE Order
  BY <1>4 DEF Order
<1>5. CASE Do \/ Stops \/ Finish
  BY <1>5 DEF Do, Stops, Finish
<1> QED  BY <1>1, <1>2, <1>3, <1>4, <1>5 DEF Next

UniverseInv ==
  /\ problem \in Problems
  /\ Fit(problem, universe) /\ Complete(problem, universe)
  /\ Fit(problem, solved) /\ Complete(problem, solved) /\ Grows(solved, universe)
  /\ known \subseteq universe.items \X universe.items
  /\ pc = "request" => known = {} /\ solved = EmptyUniverse

\* What pkg_jobs_universe_process and its callers build is fit and complete: the
\* universe that was solved and the one there is.
THEOREM UniverseAlways == Spec => []UniverseInv
<1>1. ASSUME Init  PROVE UniverseInv
  <2>1. problem \in Problems /\ universe = EmptyUniverse /\ solved = EmptyUniverse /\ known = {}
    BY <1>1 DEF Init, Begin
  <2>2. Fit(problem, EmptyUniverse) /\ EmptyUniverse.items = {} /\ EmptyUniverse.done = {}
    BY <2>1, BeginsFit
  <2>3. Complete(problem, EmptyUniverse) /\ Grows(EmptyUniverse, EmptyUniverse)
    BY <2>2 DEF Complete, Grows
  <2> QED  BY <2>1, <2>2, <2>3 DEF UniverseInv
<1>2. ASSUME UniverseInv, [Next]_vars  PROVE UniverseInv'
  <2>1. CASE UNCHANGED vars
    BY <1>2, <2>1 DEF UniverseInv, vars, ordering, Fit, Fits, Complete, Grows, Ordered, Thorough, Handled, Met, Chain
  <2>2. CASE Requested
    <3> DEFINE r == Request(problem)
    <3>1. /\ problem' = problem /\ solved' = solved /\ known' = known /\ universe' = r.u
          /\ pc = "request" /\ pc' # "request"
      BY <2>2 DEF Requested
    <3>2. Fit(problem, r.u) /\ Complete(problem, r.u)
      BY <1>2, RequestFacts DEF UniverseInv
    <3>3. solved = EmptyUniverse /\ known = {} /\ Grows(solved, r.u)
      BY <1>2, <3>1 DEF UniverseInv, Grows, EmptyUniverse
    <3> HIDE DEF r
    <3> QED  BY <1>2, <3>1, <3>2, <3>3 DEF UniverseInv
  <2>3. CASE \E M \in Answers(problem, universe, known, assume, failed) : Solved(M)
    <3>1. /\ problem' = problem /\ solved' = universe /\ known' = known /\ universe' = universe
          /\ pc' # "request"
      BY <2>3 DEF Solved, input
    <3>2. Grows(universe, universe)
      BY DEF Grows
    <3> QED  BY <1>2, <3>1, <3>2 DEF UniverseInv
  <2>4. CASE Checked
    <3> DEFINE j == Joined
               found == Conflicts(j.u, j.names)
    <3>1. /\ problem' = problem /\ universe' = j.u /\ known' = known \cup found
          /\ solved' = solved \/ solved' = EmptyUniverse
          /\ pc' # "request"
      BY <2>4 DEF Checked, input
    <3>2. Fit(problem, j.u) /\ Complete(problem, j.u) /\ Grows(universe, j.u)
      BY <1>2, JoinedFacts DEF UniverseInv
    <3>3. found \subseteq j.u.items \X j.u.items
      BY DEF Conflicts
    <3> HIDE DEF j, found
    <3>4. known' \subseteq universe'.items \X universe'.items
      BY <1>2, <3>1, <3>2, <3>3 DEF UniverseInv, Grows
    <3>5. /\ Grows(solved, j.u) /\ Grows(EmptyUniverse, j.u)
          /\ Fit(problem, EmptyUniverse) /\ Complete(problem, EmptyUniverse)
      BY <1>2, <3>2, BeginsFit DEF UniverseInv, Grows, Complete
    <3> QED  BY <1>2, <3>1, <3>2, <3>4, <3>5 DEF UniverseInv
  <2>5. CASE UNCHANGED <<problem, request, universe, solved, known, model>> /\ pc # "request" /\ pc' # "request"
    BY <1>2, <2>5 DEF UniverseInv
  <2> QED  BY <1>2, <2>1, <2>2, <2>3, <2>4, <2>5, QuietSteps
<1> QED  BY <1>1, <1>2, PTL DEF Spec

\* What was asked for is there, and goes together with everything that needs it.
Begun == pc \notin {"request", "refused"}
RequestInv ==
  /\ request \subseteq Uids
  /\ Begun => /\ \A n \in request : Wanted(problem, n) \in universe.items
              /\ IsDelete(problem) /\ ~problem.forced => Closed(problem, request)
              /\ DOMAIN assume = {Wanted(problem, n) : n \in request}

\* What pkg_jobs_solve asks for is in the universe, and what it asks to delete is
\* closed under dependants.
THEOREM RequestAlways == Spec => []RequestInv
<1>1. ASSUME Init  PROVE RequestInv
  BY <1>1 DEF Init, Begin, RequestInv, Begun
<1>2. ASSUME UniverseInv, RequestInv, [Next]_vars  PROVE RequestInv'
  <2> USE DEF input, ordering
  <2>1. CASE UNCHANGED vars
    BY <1>2, <2>1 DEF RequestInv, Begun, vars
  <2>2. CASE Requested
    <3> DEFINE r == Request(problem)
    <3>1. /\ problem' = problem /\ universe' = r.u /\ request' = r.request /\ pc' \in {"solve", "refused"}
          /\ pc' = "solve" => r.is = "ok" /\ assume' = Assumed(problem, r.request)
      BY <2>2 DEF Requested
    <3>2. /\ r.request \subseteq Uids /\ \A n \in r.request : Wanted(problem, n) \in r.u.items
          /\ IsDelete(problem) /\ ~problem.forced /\ r.is = "ok" => Closed(problem, r.request)
      BY <1>2, RequestFacts DEF UniverseInv
    <3> HIDE DEF r
    <3> QED  BY <3>1, <3>2 DEF RequestInv, Begun, Assumed
  <2>3. CASE \E M \in Answers(problem, universe, known, assume, failed) : Solved(M)
    BY <1>2, <2>3 DEF Solved, RequestInv, Begun
  <2>4. CASE \E M \in Answers(problem, universe, known, assume, failed) : SolvedAgain(M)
    BY <1>2, <2>4 DEF SolvedAgain, RequestInv, Begun
  <2>5. CASE Checked
    <3>1. /\ problem' = problem /\ request' = request /\ universe' = Joined.u /\ pc = "check"
          /\ assume' = assume \/ assume' = Assumed(problem, request)
      BY <2>5 DEF Checked
    <3>2. Grows(universe, Joined.u)
      BY <1>2, JoinedFacts DEF UniverseInv
    <3>3. DOMAIN assume' = {Wanted(problem, n) : n \in request}
      BY <1>2, <3>1 DEF RequestInv, Begun, Assumed
    <3> QED  BY <1>2, <3>1, <3>2, <3>3 DEF RequestInv, Begun, Grows
  <2>6. ASSUME NEW i \in Items, Unsolved(i) \/ Answer(i)  PROVE RequestInv'
    <3>1. /\ UNCHANGED <<problem, request, universe>> /\ DOMAIN assume' = DOMAIN assume /\ Begun
      BY <2>6 DEF Unsolved, Answer, Begun
    <3> QED  BY <1>2, <3>1 DEF RequestInv
  <2>7. CASE SetsPriority
    BY <1>2, <2>7 DEF SetsPriority, RequestInv, Begun
  <2>8. CASE Order
    BY <1>2, <2>8 DEF Order, RequestInv, Begun
  <2>9. CASE Do \/ Stops \/ Finish
    BY <1>2, <2>9 DEF Do, Stops, Finish, RequestInv, Begun
  <2> QED  BY <1>2, <2>1, <2>2, <2>3, <2>4, <2>5, <2>6, <2>7, <2>8, <2>9 DEF Next
<1> QED  BY <1>1, <1>2, UniverseAlways, PTL DEF Spec

-----------------------------------------------------------------------------
(* Answers of the solver.                                                  *)

Implied(w, u, clashes, told) == {i \in u.items : \A M \in Models(w, u, clashes, told) : i \in M}
Possible(w, u, clashes, told) == UNION Models(w, u, clashes, told)
Keep(w, u, clashes, told, P, lost) ==
  Implied(w, u, clashes, told) \cup (Possible(w, u, clashes, told) \cap PhaseTrue(w, u, P, lost))
Some(w, u, clashes, told, P, lost) ==
  {M \in Models(w, u, clashes, told) : Keep(w, u, clashes, told, P, lost) \subseteq M}
Best(w, u, clashes, told, P, lost) ==
  {M \in Some(w, u, clashes, told, P, lost) :
     \A N \in Some(w, u, clashes, told, P, lost) :
       N \cap NoPhase(u, P, lost) = M \cap NoPhase(u, P, lost) => M \subseteq N}

LEMMA AnswersAre ==
  ASSUME NEW w, NEW u, NEW clashes, NEW told, NEW lost, NEW M \in Answers(w, u, clashes, told, lost)
  PROVE  \E P \in Examined(w, u, told) :
           LET best == Best(w, u, clashes, told, P, lost)
           IN M \in IF best = {} THEN Models(w, u, clashes, told) ELSE best
BY DEF Answers, Best, Some, Keep, Possible, Implied

LEMMA AnswersAreModels ==
  ASSUME NEW w, NEW u, NEW clashes, NEW told, NEW lost, NEW M \in Answers(w, u, clashes, told, lost)
  PROVE  M \in Models(w, u, clashes, told) /\ M \subseteq u.items /\ Rules(w, u, clashes, M)
<1>1. M \in Models(w, u, clashes, told)
  BY AnswersAre DEF Best, Some
<1> QED  BY <1>1 DEF Models

\* One package of each name, and of a name that was asked for the new one: without
\* conflicts that is a model.
OneOfEach(w, u, wants, M) ==
  /\ M \subseteq u.items
  /\ \A n \in Uids : Chain(u, n) # {} => \E i \in M : i[1] = n
  /\ \A i, j \in M : i[1] = j[1] => i = j
  /\ \A n \in wants : Remote(n) \in M

LEMMA OneOfEachModels ==
  ASSUME NEW w \in Problems, ~IsDelete(w), NEW u \in Universes, NEW wants \in SUBSET Uids,
         NEW M, OneOfEach(w, u, wants, M)
  PROVE  M \in Models(w, u, {}, Assumed(w, wants))
<1>1. M \in SUBSET u.items
  BY DEF OneOfEach
<1>2. ASSUME NEW i \in u.items, NEW d \in w.dep[i]  PROVE DependRule(w, u, i, d, M)
  <2>1. d \in Uids
    BY ProblemFacts, UniverseFacts
  <2> QED  BY <2>1 DEF OneOfEach, DependRule, Chain
<1>3. \A i, j \in u.items : ConflictRule({}, i, j, M) /\ ChainRule(i, j, M)
  BY DEF OneOfEach, ConflictRule, ChainRule
<1>4. Meets(Assumed(w, wants), M)
  <2>1. \A n \in wants : Wanted(w, n) \in M
    BY DEF Wanted, OneOfEach
  <2> QED  BY <2>1 DEF Meets, Assumed
<1> QED  BY <1>1, <1>2, <1>3, <1>4 DEF Models, Rules

\* What an install or upgrade gets in the end when nothing is in conflict
Usual(u, wants) ==
  {i \in u.items : IF i[1] \in wants THEN ~IsLocal(i) ELSE IsLocal(i) \/ Local(i[1]) \notin u.items}

LEMMA UsualFacts ==
  ASSUME NEW w \in Problems, NEW u \in Universes, NEW wants \in SUBSET Uids,
         \A n \in wants : Remote(n) \in u.items
  PROVE  /\ OneOfEach(w, u, wants, Usual(u, wants))
         /\ \A k \in u.items :
              k[1] \notin wants =>
                OneOfEach(w, u, wants, {i \in Usual(u, wants) : i[1] # k[1]} \cup {k})
<1> DEFINE D == Usual(u, wants)
<1>1. D \subseteq u.items
  BY DEF Usual
<1>2. ASSUME NEW n \in Uids, Chain(u, n) # {}  PROVE \E i \in D : i[1] = n
  <2>1. Local(n) \in u.items \/ Remote(n) \in u.items
    BY <1>2, ChainFacts
  <2>2. CASE n \in wants
    BY <2>2, ItemFacts DEF Usual
  <2>3. CASE n \notin wants
    BY <2>1, <2>3, ItemFacts DEF Usual
  <2> QED  BY <2>2, <2>3
<1>3. ASSUME NEW i \in D, NEW j \in D, i[1] = j[1]  PROVE i = j
  <2>1. i \in Items /\ j \in Items /\ i \in u.items /\ j \in u.items
    BY UniverseFacts DEF Usual
  <2>2. IsLocal(i) <=> IsLocal(j)
    <3>1. i[1] \in Uids /\ (IsLocal(i) => i = Local(i[1])) /\ (IsLocal(j) => j = Local(i[1]))
      BY <1>3, <2>1, ItemFacts
    <3> QED  BY <1>3, <2>1, <3>1 DEF Usual
  <2> QED  BY <1>3, <2>1, <2>2, ItemFacts
<1>4. \A n \in wants : Remote(n) \in D
  BY ItemFacts DEF Usual
<1> HIDE DEF D
<1>5. OneOfEach(w, u, wants, D)
  BY <1>1, <1>2, <1>3, <1>4 DEF OneOfEach
<1>6. ASSUME NEW k \in u.items, k[1] \notin wants
      PROVE  OneOfEach(w, u, wants, {i \in D : i[1] # k[1]} \cup {k})
  BY <1>1, <1>2, <1>3, <1>4, <1>6, ItemFacts DEF OneOfEach
<1> QED  BY <1>5, <1>6 DEF D

\* Nothing goes when nothing is in conflict.
LEMMA CalmInstall ==
  ASSUME NEW w \in Problems, ~IsDelete(w), NEW u \in Universes, NEW wants \in SUBSET Uids,
         \A n \in wants : Remote(n) \in u.items
  PROVE  /\ Models(w, u, {}, Assumed(w, wants)) # {}
         /\ \A M \in Answers(w, u, {}, Assumed(w, wants), {}) : Gone(u, M) = {}
<1> DEFINE told == Assumed(w, wants)
           all == Models(w, u, {}, told)
           D == Usual(u, wants)
<1>1. OneOfEach(w, u, wants, D)
  BY UsualFacts
<1>2. D \in all
  BY <1>1, OneOfEachModels
<1>3. ASSUME NEW k \in u.items, k[1] \notin wants
      PROVE  ({i \in D : i[1] # k[1]} \cup {k}) \in all
  BY <1>3, UsualFacts, OneOfEachModels
<1>4. ASSUME NEW M \in all
      PROVE  /\ M \subseteq u.items /\ \A n \in wants : Remote(n) \in M /\ Local(n) \notin M
             /\ \A i \in M : \A d \in w.dep[i] : Chain(u, d) # {} => Chain(u, d) \cap M # {}
             /\ \A i, j \in M : i[1] = j[1] => i = j
  <2>1. M \subseteq u.items /\ Rules(w, u, {}, M) /\ Meets(told, M)
    BY DEF Models
  <2>2. \A i, j \in M : i[1] = j[1] => i = j
    BY <2>1 DEF Rules, ChainRule
  <2>3. \A n \in wants : Remote(n) \in M
    BY <2>1 DEF Meets, Assumed, Wanted
  <2>4. \A n \in wants : Local(n) \notin M
    BY <2>2, <2>3, ItemFacts
  <2>5. \A i \in M : \A d \in w.dep[i] : Chain(u, d) # {} => Chain(u, d) \cap M # {}
    BY <2>1 DEF Rules, DependRule
  <2> QED  BY <2>1, <2>2, <2>3, <2>4, <2>5
<1>5. ASSUME NEW P \in Examined(w, u, told)
      PROVE  /\ Best(w, u, {}, told, P, {}) # {}
             /\ \A M \in Best(w, u, {}, told, P, {}) : Gone(u, M) = {}
  <2> DEFINE implied == Implied(w, u, {}, told)
             possible == Possible(w, u, {}, told)
             phase == PhaseTrue(w, u, P, {})
             keep == Keep(w, u, {}, told, P, {})
             some == Some(w, u, {}, told, P, {})
             L == keep \cup {i \in D : \A j \in keep : j[1] # i[1]}
             least == {i \in u.items : \A N \in some : i \in N}
  <2>1. keep = implied \cup (possible \cap phase)
    BY DEF Keep
  <2>2. implied \subseteq u.items /\ \A i \in implied : \A M \in all : i \in M
    BY DEF Implied
  <2>3. possible \subseteq u.items /\ implied \subseteq possible /\ \A M \in all : M \subseteq possible
    BY <1>2, <1>4, <2>2 DEF Possible
  <2>4. \A n \in wants : Remote(n) \in implied /\ Local(n) \notin possible
    BY <1>4 DEF Implied, Possible
  <2>5. \A k \in u.items : k[1] \notin wants => k \in possible
    BY <1>3, <2>3
  <2>6. \A i \in implied, k \in u.items : i[1] \notin wants /\ i[1] = k[1] => i = k
    BY <1>3, <2>2
  <2>7. /\ \A i \in phase : i \in u.items /\ IF i[1] \in P THEN i = Selected(w, u, i[1]) ELSE IsLocal(i)
        /\ \A i \in u.items : (IF i[1] \in P THEN i = Selected(w, u, i[1]) ELSE IsLocal(i)) => i \in phase
    BY DEF PhaseTrue
  <2>8. some = {M \in all : keep \subseteq M}
    BY DEF Some
  <2> HIDE DEF implied, possible, phase, keep, some, all, told, D
  <2>9. keep \subseteq u.items /\ keep \subseteq possible
    BY <2>1, <2>2, <2>3
  <2>10. ASSUME NEW i \in keep, NEW j \in keep, i[1] = j[1]  PROVE i = j
    <3>1. i \in u.items /\ j \in u.items /\ i \in Items /\ j \in Items /\ i \in possible /\ j \in possible
      BY <2>9, UniverseFacts
    <3>2. CASE i[1] \in wants
      BY <2>4, <2>10, <3>1, <3>2, ItemFacts
    <3>3. CASE i[1] \notin wants /\ (i \in implied \/ j \in implied)
      BY <2>6, <2>10, <3>1, <3>3
    <3>4. CASE i \in phase /\ j \in phase
      BY <2>7, <2>10, <3>1, <3>4, ItemFacts
    <3> QED  BY <2>1, <3>2, <3>3, <3>4
  <2>11. ASSUME NEW n \in Uids, Local(n) \in u.items  PROVE \E i \in keep : i[1] = n
    <3>1. CASE n \in wants
      BY <2>1, <2>4, <3>1, ItemFacts
    <3>2. CASE n \notin wants /\ n \in P
      <4>1. Selected(w, u, n) \in u.items /\ Selected(w, u, n)[1] = n
        BY <2>11, ItemFacts DEF Selected
      <4>2. Selected(w, u, n) \in phase /\ Selected(w, u, n) \in possible
        BY <2>5, <2>7, <3>2, <4>1
      <4> QED  BY <2>1, <4>1, <4>2
    <3>3. CASE n \notin wants /\ n \notin P
      <4>1. Local(n) \in phase /\ Local(n) \in possible /\ Local(n)[1] = n
        BY <2>5, <2>7, <2>11, <3>3, ItemFacts
      <4> QED  BY <2>1, <4>1
    <3> QED  BY <3>1, <3>2, <3>3
  <2>12. OneOfEach(w, u, wants, L)
    <3>1. L \subseteq u.items
      BY <1>1, <2>9 DEF OneOfEach
    <3>2. ASSUME NEW n \in Uids, Chain(u, n) # {}  PROVE \E i \in L : i[1] = n
      BY <1>1, <3>2 DEF OneOfEach
    <3>3. \A i, j \in L : i[1] = j[1] => i = j
      BY <1>1, <2>10 DEF OneOfEach
    <3>4. \A n \in wants : Remote(n) \in L
      BY <2>1, <2>4
    <3> HIDE DEF L
    <3> QED  BY <3>1, <3>2, <3>3, <3>4 DEF OneOfEach
  <2>13. L \in some
    <3>1. L \in all
      BY <2>12, OneOfEachModels DEF all, told
    <3> QED  BY <2>8, <3>1
  <2> HIDE DEF L
  <2>14. keep \subseteq least /\ least \subseteq L /\ least \subseteq u.items /\ \A N \in some : least \subseteq N
    BY <2>8, <2>9, <2>13
  <2>15. least \in all
    <3>1. ASSUME NEW i \in least, NEW d \in w.dep[i], Chain(u, d) # {}  PROVE Chain(u, d) \cap least # {}
      <4>0. d \in Uids
        BY <2>14, ProblemFacts, UniverseFacts
      <4>1. CASE Local(d) \in u.items
        <5>1. PICK k \in keep : k[1] = d
          BY <2>11, <4>0, <4>1
        <5> QED  BY <5>1, <2>9, <2>14 DEF Chain
      <4>2. CASE Local(d) \notin u.items
        <5>1. Remote(d) \in u.items /\ \A k \in Chain(u, d) : k = Remote(d)
          BY <3>1, <4>0, <4>2, ItemFacts, UniverseFacts DEF Chain
        <5>2. \A N \in some : Chain(u, d) \cap N # {}
          BY <1>4, <2>8, <2>14, <3>1
        <5>3. \A N \in some : Remote(d) \in N
          BY <5>1, <5>2
        <5>4. Remote(d) \in least
          BY <5>1, <5>3
        <5> QED  BY <5>1, <5>4, <4>0, ItemFacts DEF Chain
      <4> QED  BY <4>1, <4>2
    <3>2. \A i, j \in least : i[1] = j[1] => i = j
      BY <2>12, <2>14 DEF OneOfEach
    <3>3. \A n \in wants : Wanted(w, n) \in least
      BY <2>1, <2>4, <2>14 DEF Wanted
    <3> HIDE DEF least
    <3>4. Meets(told, least)
      BY <3>3 DEF Meets, Assumed, told
    <3>5. Rules(w, u, {}, least)
      BY <2>14, <3>1, <3>2 DEF Rules, DependRule, ConflictRule, ChainRule
    <3> QED  BY <2>14, <3>4, <3>5 DEF all, Models
  <2> HIDE DEF least
  <2>16. least \in Best(w, u, {}, told, P, {})
    BY <2>8, <2>14, <2>15 DEF Best, some
  <2>17. ASSUME NEW M \in Best(w, u, {}, told, P, {})  PROVE Gone(u, M) = {}
    <3>1. keep \subseteq M
      BY <2>8 DEF Best, some
    <3> QED  BY <2>9, <2>11, <3>1 DEF Gone, Chain
  <2> QED  BY <2>16, <2>17
<1> QED  BY <1>2, <1>5, AnswersAre

\* Exactly what was asked for goes when it is closed under dependants.
LEMMA CalmDelete ==
  ASSUME NEW w \in Problems, IsDelete(w), NEW u, Fit(w, u), NEW wants \in SUBSET Uids,
         \A n \in wants : Local(n) \in u.items
  PROVE  /\ Models(w, u, {}, Assumed(w, wants)) # {}
         /\ Closed(w, wants) =>
              \A M \in Answers(w, u, {}, Assumed(w, wants), {}) : M = u.items \ {Local(n) : n \in wants}
<1> DEFINE told == Assumed(w, wants)
           all == Models(w, u, {}, told)
           rest == u.items \ {Local(n) : n \in wants}
<1>0. DOMAIN told = {Local(n) : n \in wants} /\ \A i \in DOMAIN told : told[i] = FALSE
  BY DEF Assumed, Wanted
<1>1. {} \in all
  <2>1. Rules(w, u, {}, {})
    BY DEF Rules, DependRule, ConflictRule, ChainRule
  <2>2. Meets(told, {})
    <3>1. \A i \in DOMAIN told : (i \in {}) = FALSE
      OBVIOUS
    <3> HIDE DEF told
    <3> QED  BY <1>0, <3>1 DEF Meets
  <2> QED  BY <2>1, <2>2 DEF Models
<1>2. \A i \in u.items : IsLocal(i) /\ i[1] \in w.local /\ i[1] \in Uids /\ i = Local(i[1])
  BY ItemFacts, UniverseFacts DEF Fit, Fits
<1>3. ASSUME NEW M \in all  PROVE M \subseteq rest
  BY <1>0, <1>3 DEF Models, Meets
<1>4. ASSUME Closed(w, wants)  PROVE rest \in all
  <2>1. ASSUME NEW i \in rest, NEW d \in w.dep[i], Chain(u, d) # {}  PROVE Chain(u, d) \cap rest # {}
    <3>1. d \in Uids
      BY ProblemFacts, UniverseFacts DEF Fit
    <3>2. Local(d) \in Chain(u, d)
      BY <1>2, <2>1 DEF Chain
    <3>3. d \notin wants
      <4>1. i[1] \in Dependants(w, Local(d))
        BY <1>2, <3>1, ItemFacts DEF Dependants
      <4> QED  BY <1>2, <1>4, <4>1 DEF Closed
    <3>4. Local(d) \in rest
      <4>1. \A n \in wants : Local(n) # Local(d)
        BY <3>1, <3>3, ItemFacts
      <4> QED  BY <3>2, <4>1 DEF Chain
    <3> QED  BY <3>2, <3>4
  <2>2. \A i, j \in u.items : i[1] = j[1] => i = j
    BY <1>2
  <2>3. Meets(told, rest)
    <3>1. \A i \in DOMAIN told : (i \in rest) = FALSE
      BY <1>0
    <3> HIDE DEF told, rest
    <3> QED  BY <1>0, <3>1 DEF Meets
  <2>4. rest \in SUBSET u.items
    OBVIOUS
  <2> HIDE DEF rest, told
  <2>5. Rules(w, u, {}, rest)
    BY <2>1, <2>2 DEF Rules, DependRule, ConflictRule, ChainRule
  <2> QED  BY <2>3, <2>4, <2>5 DEF Models
<1>5. ASSUME Closed(w, wants), NEW P \in Examined(w, u, told)
      PROVE  Best(w, u, {}, told, P, {}) = {rest}
  <2>1. Possible(w, u, {}, told) = rest /\ Implied(w, u, {}, told) \subseteq rest
    BY <1>3, <1>4, <1>5 DEF Possible, Implied
  <2>2. PhaseTrue(w, u, P, {}) = u.items
    <3>1. w.type # "upgrade"
      BY DEF IsDelete
    <3>2. \A i \in u.items : Selected(w, u, i[1]) = i
      BY <1>2, <3>1 DEF Selected
    <3> QED  BY <1>2, <3>2 DEF PhaseTrue
  <2>3. Keep(w, u, {}, told, P, {}) = rest
    BY <2>1, <2>2 DEF Keep
  <2> HIDE DEF rest, all, told
  <2>4. Some(w, u, {}, told, P, {}) = {rest}
    BY <1>3, <1>4, <1>5, <2>3 DEF Some, all
  <2> QED  BY <2>4 DEF Best
<1>6. ASSUME Closed(w, wants), NEW M \in Answers(w, u, {}, told, {})  PROVE M = rest
  <2> HIDE DEF rest, all, told
  <2> QED  BY <1>5, <1>6, AnswersAre
<1> QED  BY <1>1, <1>6

-----------------------------------------------------------------------------
(* The answer the jobs are made from.                                      *)

\* Until a conflict is registered the solver is asked once.
CalmInv ==
  /\ IsDelete(problem) => known = {} /\ pc # "check"
  /\ known = {} => /\ attempts = 0 /\ failed = {} /\ pc # "ask"
                   /\ Begun => assume = Assumed(problem, request)

\* Without conflicts what the requests say can be had at once, and nobody is asked again.
LEMMA CalmModels ==
  ASSUME UniverseInv, RequestInv, CalmInv, Begun, known = {}
  PROVE  /\ Models(problem, universe, known, assume) # {}
         /\ ~IsDelete(problem) =>
              \A M \in Answers(problem, universe, known, assume, failed) : Gone(universe, M) = {}
         /\ IsDelete(problem) /\ ~problem.forced =>
              \A M \in Answers(problem, universe, known, assume, failed) :
                M = universe.items \ {Local(n) : n \in request}
<1>1. /\ problem \in Problems /\ Fit(problem, universe) /\ universe \in Universes
      /\ request \in SUBSET Uids /\ \A n \in request : Wanted(problem, n) \in universe.items
      /\ IsDelete(problem) /\ ~problem.forced => Closed(problem, request)
      /\ known = {} /\ failed = {} /\ assume = Assumed(problem, request)
  BY DEF UniverseInv, RequestInv, CalmInv, Fit
<1>2. CASE ~IsDelete(problem)
  BY <1>1, <1>2, CalmInstall DEF Wanted
<1>3. CASE IsDelete(problem)
  BY <1>1, <1>3, CalmDelete DEF Wanted
<1> QED  BY <1>2, <1>3

\* Without a registered conflict nothing fails in pkg_solve_sat_problem and no second
\* opinion is asked for.
THEOREM CalmAlways == Spec => []CalmInv
<1>1. ASSUME Init  PROVE CalmInv
  BY <1>1 DEF Init, Begin, CalmInv, Begun
<1>2. ASSUME UniverseInv, RequestInv, CalmInv, [Next]_vars  PROVE CalmInv'
  <2> USE DEF input, ordering
  <2>1. CASE UNCHANGED vars
    BY <1>2, <2>1 DEF CalmInv, Begun, vars
  <2>2. CASE Requested
    BY <1>2, <2>2 DEF Requested, CalmInv, UniverseInv, Begun
  <2>3. CASE \E M \in Answers(problem, universe, known, assume, failed) : Solved(M)
    BY <1>2, <2>3 DEF Solved, CalmInv, Begun
  <2>4. ASSUME NEW M \in Answers(problem, universe, known, assume, failed), SolvedAgain(M)  PROVE CalmInv'
    <3>1. ~IsDelete(problem) /\ Gone(universe, M) # {} /\ Begun
      BY <2>4 DEF SolvedAgain, AskAgain, Begun
    <3>2. known # {}
      BY <1>2, <3>1, CalmModels
    <3>3. UNCHANGED <<problem, known, pc>>
      BY <2>4 DEF SolvedAgain
    <3> QED  BY <3>1, <3>2, <3>3 DEF CalmInv
  <2>5. CASE Checked
    <3>1. ~IsDelete(problem) /\ problem' = problem
      BY <1>2, <2>5 DEF Checked, CalmInv
    <3>2. CASE Conflicts(Joined.u, Joined.names) \subseteq known
      <4>1. known' = known /\ pc' = "order" /\ Begun /\ UNCHANGED <<request, assume, failed, attempts>>
        BY <2>5, <3>2 DEF Checked, Begun
      <4> QED  BY <1>2, <3>1, <4>1 DEF CalmInv, Begun
    <3>3. CASE ~(Conflicts(Joined.u, Joined.names) \subseteq known)
      <4>1. known' # {}
        BY <2>5, <3>3 DEF Checked
      <4> QED  BY <3>1, <4>1 DEF CalmInv
    <3> QED  BY <3>2, <3>3
  <2>6. ASSUME NEW i \in Items, Unsolved(i)  PROVE CalmInv'
    <3>1. Models(problem, universe, known, assume) = {} /\ Begun /\ UNCHANGED <<problem, known>> /\ pc' # "check"
      BY <2>6 DEF Unsolved, Begun
    <3>2. known # {}
      BY <1>2, <3>1, CalmModels
    <3> QED  BY <1>2, <3>1, <3>2 DEF CalmInv
  <2>7. ASSUME NEW i \in Items, Answer(i)  PROVE CalmInv'
    BY <1>2, <2>7 DEF Answer, CalmInv
  <2>8. CASE SetsPriority
    BY <1>2, <2>8 DEF SetsPriority, CalmInv, Begun
  <2>9. CASE Order
    BY <1>2, <2>9 DEF Order, CalmInv, Begun
  <2>10. CASE Do \/ Stops \/ Finish
    BY <1>2, <2>10 DEF Do, Stops, Finish, CalmInv, Begun
  <2> QED  BY <1>2, <2>1, <2>2, <2>3, <2>4, <2>5, <2>6, <2>7, <2>8, <2>9, <2>10 DEF Next
<1> QED  BY <1>1, <1>2, UniverseAlways, RequestAlways, PTL DEF Spec

\* The answer the jobs were made from obeys the rules still.
Answered == pc \in {"check", "order", "execute", "done", "failed"}
AnswerInv ==
  /\ model \subseteq solved.items
  /\ Answered =>
       /\ Rules(problem, solved, known, model)
       /\ ~IsDelete(problem) /\ known = {} => Gone(solved, model) = {}
       /\ IsDelete(problem) /\ ~problem.forced => /\ model = solved.items \ {Local(n) : n \in request}
                                                  /\ Closed(problem, request)
                                                  /\ \A n \in request : Local(n) \in solved.items
       /\ pc = "check" => universe = solved

\* From the solution on the plan is an answer that obeys all rules there are, those
\* of pkg_solve_jobs_to_sat with the conflicts that pkg_jobs_check_conflicts registers.
THEOREM AnswerAlways == Spec => []AnswerInv
<1>1. ASSUME Init  PROVE AnswerInv
  BY <1>1 DEF Init, Begin, AnswerInv, Answered
<1>2. ASSUME UniverseInv, RequestInv, CalmInv, AnswerInv, [Next]_vars  PROVE AnswerInv'
  <2> USE DEF input, ordering
  <2>1. CASE UNCHANGED vars
    BY <1>2, <2>1 DEF AnswerInv, Answered, vars
  <2>2. CASE Requested
    BY <1>2, <2>2 DEF Requested, AnswerInv, Answered
  <2>3. ASSUME NEW M \in Answers(problem, universe, known, assume, failed), Solved(M)  PROVE AnswerInv'
    <3>1. /\ UNCHANGED <<problem, request, known, universe>> /\ model' = M /\ solved' = universe /\ Begun
      BY <2>3 DEF Solved, Begun
    <3>2. M \subseteq universe.items /\ Rules(problem, universe, known, M)
      BY AnswersAreModels
    <3>3. ~IsDelete(problem) /\ known = {} => Gone(universe, M) = {}
      BY <1>2, <3>1, CalmModels
    <3>4. IsDelete(problem) /\ ~problem.forced => /\ M = universe.items \ {Local(n) : n \in request}
                                                  /\ Closed(problem, request)
                                                  /\ \A n \in request : Local(n) \in universe.items
      BY <1>2, <3>1, CalmModels DEF CalmInv, RequestInv, Wanted
    <3> QED  BY <3>1, <3>2, <3>3, <3>4 DEF AnswerInv
  <2>4. CASE \E M \in Answers(problem, universe, known, assume, failed) : SolvedAgain(M)
    BY <1>2, <2>4 DEF SolvedAgain, AnswerInv, Answered
  <2>5. CASE Checked
    <3>1. CASE Conflicts(Joined.u, Joined.names) \subseteq known
      <4>1. known' = known /\ pc' = "order" /\ pc = "check" /\ UNCHANGED <<problem, request, model, solved>>
        BY <2>5, <3>1 DEF Checked
      <4> QED  BY <1>2, <4>1 DEF AnswerInv, Answered
    <3>2. CASE ~(Conflicts(Joined.u, Joined.names) \subseteq known)
      <4>1. model' = {} /\ pc' = "solve"
        BY <2>5, <3>2 DEF Checked
      <4> QED  BY <4>1 DEF AnswerInv, Answered
    <3> QED  BY <3>1, <3>2
  <2>6. CASE \E i \in Items : Unsolved(i) \/ Answer(i)
    BY <1>2, <2>6 DEF Unsolved, Answer, AnswerInv, Answered
  <2>7. CASE SetsPriority
    BY <1>2, <2>7 DEF SetsPriority, AnswerInv, Answered
  <2>8. CASE Order
    BY <1>2, <2>8 DEF Order, AnswerInv, Answered
  <2>9. CASE Do \/ Stops \/ Finish
    BY <1>2, <2>9 DEF Do, Stops, Finish, AnswerInv, Answered
  <2> QED  BY <1>2, <2>1, <2>2, <2>3, <2>4, <2>5, <2>6, <2>7, <2>8, <2>9 DEF Next
<1> QED  BY <1>1, <1>2, UniverseAlways, RequestAlways, CalmAlways, PTL DEF Spec

-----------------------------------------------------------------------------
(* What the answer means for the database.                                 *)

\* What is installed and has no variable stays, what has one goes or stays as the
\* answer says.
LEMMA EndFacts ==
  ASSUME UniverseInv, AnswerInv
  PROVE  /\ \A i \in End : i \in Items /\ (i \in model \/ (i \in Installed(problem) /\ i \notin solved.items))
         /\ \A i \in Items : (i \in Installed(problem) /\ i \notin solved.items) \/ i \in model => i \in End
         /\ \A i \in solved.items : IsLocal(i) => i \in Installed(problem)
<1>1. solved.items \subseteq Items /\ model \subseteq solved.items /\ \A i \in solved.items : Fits(problem, solved, i)
  BY UniverseFacts DEF UniverseInv, AnswerInv, Fit
<1> QED  BY <1>1 DEF End, Target, Installed, Fits

\* An install or upgrade without conflicts or failures keeps every installed name:
\* the phases of pkg_solve_picosat_iter suffice for the first answer to do so.
THEOREM NameKept == Spec => []NothingLost
<1>1. UniverseInv /\ AnswerInv => NothingLost
  <2> SUFFICES ASSUME UniverseInv, AnswerInv, Planned, ~IsDelete(problem), known = {}, NEW n \in problem.local
               PROVE  Has(End, n)
    BY DEF NothingLost
  <2>1. Gone(solved, model) = {}
    BY DEF AnswerInv, Answered, Planned
  <2>2. n \in Uids /\ Local(n) \in Installed(problem) /\ Local(n) \in Items /\ Local(n)[1] = n
    <3>1. n \in Uids
      BY ProblemFacts DEF UniverseInv
    <3> QED  BY <3>1, ItemFacts DEF Installed
  <2>3. CASE Local(n) \in solved.items
    <3>1. Chain(solved, n) \cap model # {}
      BY <2>1, <2>2, <2>3 DEF Gone
    <3>2. PICK i \in model : i[1] = n
      BY <3>1 DEF Chain
    <3>3. i \in Items
      BY UniverseFacts DEF UniverseInv, AnswerInv, Fit
    <3> QED  BY <3>2, <3>3, EndFacts DEF Has
  <2>4. CASE Local(n) \notin solved.items
    BY <2>2, <2>4, EndFacts DEF Has
  <2> QED  BY <2>3, <2>4
<1> QED  BY <1>1, UniverseAlways, AnswerAlways, PTL

\* No plan leaves a package without what it depends on, but where dependants were
\* overlooked.
THEOREM DependenciesPlanned == Spec => []PlanDeps
<1>1. UniverseInv /\ RequestInv /\ AnswerInv => PlanDeps
  <2> SUFFICES ASSUME UniverseInv, RequestInv, AnswerInv, Planned, ~Missing, ~Forced,
                      NEW i \in End, IsUnlocked(i), NEW d \in problem.dep[i]
               PROVE  Has(End, d) \/ Overlooked(i, d)
    BY DEF PlanDeps
  <2>1. i \in Items /\ d \in Uids /\ Local(d) \in Items /\ Local(d)[1] = d
    BY EndFacts, ProblemFacts, ItemFacts DEF UniverseInv
  <2>2. Satisfiable(problem)
    BY DEF Missing, Whole, Satisfiable
  <2>3. \A n \in problem.local : Local(n) \in Items /\ Local(n) \in Installed(problem) /\ Local(n)[1] = n
    <3>1. problem.local \subseteq Uids
      BY ProblemFacts DEF UniverseInv
    <3> QED  BY <3>1, ItemFacts DEF Installed
  <2>4. /\ problem \in Problems /\ Fit(problem, solved) /\ Complete(problem, solved) /\ solved \in Universes
        /\ model \subseteq solved.items /\ Rules(problem, solved, known, model)
    BY DEF UniverseInv, AnswerInv, Answered, Planned, Fit
  <2>5. ASSUME Chain(solved, d) \cap model # {}  PROVE Has(End, d)
    <3>1. PICK j \in model : j[1] = d
      BY <2>5 DEF Chain
    <3>2. j \in Items
      BY <2>4, UniverseFacts
    <3> QED  BY <3>1, <3>2, EndFacts DEF Has
  <2>6. ASSUME d \in problem.local, Local(d) \notin solved.items  PROVE Has(End, d)
    BY <2>3, <2>6, EndFacts DEF Has
  <2>7. CASE i \in model
    <3>1. Chain(solved, d) # {} => Chain(solved, d) \cap model # {}
      BY <2>4, <2>7 DEF Rules, DependRule
    <3>2. CASE Chain(solved, d) = {}
      <4>1. Local(d) \notin solved.items
        BY <3>2, <2>1 DEF Chain
      <4>2. d \in problem.local
        <5>1. CASE IsLocal(i)
          <6>1. i[1] \in problem.local /\ i = Local(i[1])
            BY <2>1, <2>4, <2>7, <5>1, ItemFacts DEF Fit, Fits
          <6> QED  BY <6>1, <2>2 DEF Satisfiable
        <5>2. CASE ~IsLocal(i)
          <6>1. i \in solved.done /\ ~IsDelete(problem)
            BY <2>4, <2>7, <5>2 DEF Complete, Fit, Fits
          <6>2. Met(problem, solved, d)
            BY <6>1, <2>2, <2>4 DEF Complete, Thorough, Handled
          <6> QED  BY <6>2, <3>2, <2>4, ProblemFacts DEF Met
        <5> QED  BY <5>1, <5>2
      <4> QED  BY <4>1, <4>2, <2>6
    <3> QED  BY <3>1, <3>2, <2>5
  <2>8. CASE i \notin model
    <3>1. i \in Installed(problem) /\ i \notin solved.items
      BY <2>8, EndFacts
    <3>2. IsLocal(i) /\ i[1] \in problem.local /\ i = Local(i[1]) /\ i[1] \notin problem.locked /\ i[1] \in Uids
      BY <2>1, <3>1, ItemFacts DEF Installed, IsUnlocked, IsLocked
    <3>3. d \in problem.local
      BY <2>2, <3>2 DEF Satisfiable
    <3>4. i[1] \in Dependants(problem, Local(d))
      BY <2>1, <3>2, ItemFacts DEF Dependants
    <3>5. CASE IsDelete(problem)
      \* Packages that are in the universe and go were asked for, with their dependants.
      <4>1. /\ model = solved.items \ {Local(n) : n \in request} /\ Closed(problem, request)
            /\ \A n \in request : Local(n) \in solved.items
        BY <3>5 DEF AnswerInv, Answered, Planned, Forced
      <4>2. d \notin request
        BY <3>1, <3>2, <3>4, <4>1 DEF Closed
      <4>3. CASE Local(d) \in solved.items
        <5>1. \A n \in request : Local(n) # Local(d)
          BY <4>2 DEF Local
        <5>2. Local(d) \in model
          BY <4>1, <4>3, <5>1
        <5> QED  BY <2>1, <5>2, EndFacts DEF Has
      <4>4. CASE Local(d) \notin solved.items
        BY <2>6, <3>3, <4>4
      <4> QED  BY <4>3, <4>4
    <3>6. CASE ~IsDelete(problem) /\ Local(d) \in solved.done
      <4>1. Met(problem, solved, i[1])
        BY <2>2, <2>4, <3>4, <3>6 DEF Complete, Thorough, Handled
      <4>2. Remote(i[1]) \in solved.items
        BY <2>4, <3>1, <3>2, <4>1, ChainFacts DEF Met
      <4>3. Local(i[1]) \in solved.items
        BY <2>4, <3>2, <4>2, ItemFacts DEF Fit, Fits
      <4> QED  BY <3>1, <3>2, <4>3
    <3>7. CASE ~IsDelete(problem) /\ Local(d) \notin solved.done
      BY <2>6, <3>1, <3>3, <3>7 DEF Overlooked
    <3> QED  BY <3>5, <3>6, <3>7
  <2> QED  BY <2>7, <2>8
<1> QED  BY <1>1, UniverseAlways, RequestAlways, AnswerAlways, PTL

-----------------------------------------------------------------------------
(* Jobs.                                                                   *)

\* A job installs what the catalogue offers and removes what is installed.
Removing == {"delete", "upgradeRemove"}
Proper(job) ==
  /\ job \in Jobs
  /\ job.type \in Removing <=> IsLocal(job.item)
  /\ job.old = IF job.type = "upgrade" THEN {Local(job.item[1])} ELSE {}
Come(S) == {i \in Items : \E job \in S : i = job.item /\ job.type \notin Removing}
Go(S) == {i \in Items : \E job \in S : i \in job.old \/ (i = job.item /\ job.type \in Removing)}

\* What an answer adds and what it takes away
Coming(M) == {i \in M : ~IsLocal(i)}
Going(u, M) == {i \in u.items : IsLocal(i) /\ i \notin M}

\* The job of each name, if it has one
JobIs(u, M, n, job) == JobOf(u, M, n) = <<job>>

LEMMA JobOfFacts ==
  ASSUME NEW u \in Universes, NEW M \in SUBSET u.items, NEW n \in Uids
  PROVE  /\ JobOf(u, M, n) = <<>> \/ \E job \in Jobs : JobIs(u, M, n, job)
         /\ \A job \in Jobs : JobIs(u, M, n, job) =>
              /\ Proper(job) /\ job.item[1] = n
              /\ IF job.type \in Removing THEN Dropped(u, M, n) /\ ~Added(u, M, n)
                 ELSE Added(u, M, n) /\ (job.type = "upgrade" <=> Dropped(u, M, n))
         /\ Added(u, M, n) \/ Dropped(u, M, n) => \E job \in Jobs : JobIs(u, M, n, job)
<1> DEFINE up == [type |-> "upgrade", item |-> Remote(n), old |-> {Local(n)}]
           in == [type |-> "install", item |-> Remote(n), old |-> {}]
           out == [type |-> "delete", item |-> Local(n), old |-> {}]
<1>1. /\ Local(n) \in Items /\ Local(n)[1] = n /\ IsLocal(Local(n))
      /\ Remote(n) \in Items /\ Remote(n)[1] = n /\ ~IsLocal(Remote(n))
  BY ItemFacts
<1>2. up \in Jobs /\ in \in Jobs /\ out \in Jobs
  BY <1>1 DEF Jobs
<1>3. /\ up.type = "upgrade" /\ up.item = Remote(n) /\ up.old = {Local(n)}
      /\ in.type = "install" /\ in.item = Remote(n) /\ in.old = {}
      /\ out.type = "delete" /\ out.item = Local(n) /\ out.old = {}
  OBVIOUS
<1> HIDE DEF up, in, out
<1>4. Proper(up) /\ Proper(in) /\ Proper(out)
  BY <1>1, <1>2, <1>3 DEF Proper, Removing
<1>5. JobOf(u, M, n) = IF Added(u, M, n) /\ Dropped(u, M, n) THEN <<up>>
                       ELSE IF Added(u, M, n) THEN <<in>>
                       ELSE IF Dropped(u, M, n) THEN <<out>>
                       ELSE <<>>
  BY DEF JobOf, up, in, out
<1>6. CASE Added(u, M, n) /\ Dropped(u, M, n)
  <2>1. JobOf(u, M, n) = <<up>> /\ \A job : JobIs(u, M, n, job) <=> job = up
    BY <1>5, <1>6 DEF JobIs
  <2> QED  BY <2>1, <1>1, <1>2, <1>3, <1>4, <1>6 DEF Removing
<1>7. CASE Added(u, M, n) /\ ~Dropped(u, M, n)
  <2>1. JobOf(u, M, n) = <<in>> /\ \A job : JobIs(u, M, n, job) <=> job = in
    BY <1>5, <1>7 DEF JobIs
  <2> QED  BY <2>1, <1>1, <1>2, <1>3, <1>4, <1>7 DEF Removing
<1>8. CASE ~Added(u, M, n) /\ Dropped(u, M, n)
  <2>1. JobOf(u, M, n) = <<out>> /\ \A job : JobIs(u, M, n, job) <=> job = out
    BY <1>5, <1>8 DEF JobIs
  <2> QED  BY <2>1, <1>1, <1>2, <1>3, <1>4, <1>8 DEF Removing
<1>9. CASE ~Added(u, M, n) /\ ~Dropped(u, M, n)
  <2>1. JobOf(u, M, n) = <<>> /\ \A job : ~JobIs(u, M, n, job)
    BY <1>5, <1>9 DEF JobIs
  <2> QED  BY <2>1, <1>9
<1> QED  BY <1>6, <1>7, <1>8, <1>9

\* A sequence and what is in it, one element longer or not
LEMMA RangeFacts ==
  ASSUME NEW S, NEW s \in Seq(S)
  PROVE  /\ Range(s) \subseteq S /\ s \o <<>> = s
         /\ \A e \in S : /\ s \o <<e>> \in Seq(S) /\ Range(s \o <<e>>) = Range(s) \cup {e}
                         /\ Append(s, e) \in Seq(S) /\ Range(Append(s, e)) = Range(s) \cup {e}
<1>1. DOMAIN s = 1..Len(s) /\ Len(s) \in Nat /\ \A k \in 1..Len(s) : s[k] \in S
  OBVIOUS
<1>2. ASSUME NEW e \in S  PROVE Append(s, e) \in Seq(S) /\ Range(Append(s, e)) = Range(s) \cup {e}
  <2> DEFINE t == Append(s, e)
  <2>1. t \in Seq(S) /\ DOMAIN t = DOMAIN s \cup {Len(s) + 1} /\ t[Len(s) + 1] = e
        /\ \A k \in DOMAIN s : t[k] = s[k]
    BY <1>1
  <2> HIDE DEF t
  <2>2. Range(t) = Range(s) \cup {e}
    BY <2>1 DEF Range
  <2> QED  BY <2>1, <2>2 DEF t
<1>3. \A e \in S : s \o <<e>> = Append(s, e)
  BY AppendIsConcat
<1>4. s \o <<>> = s
  BY ConcatEmptySeq
<1>5. Range(s) \subseteq S
  BY <1>1 DEF Range
<1> QED  BY <1>2, <1>3, <1>4, <1>5

\* The jobs are those of the names of the universe, and what they change is what the
\* answer changes.
LEMMA JobsOfFacts ==
  ASSUME problem \in Problems, Fit(problem, universe), NEW M \in SUBSET universe.items
  PROVE  /\ JobsOf(M) \in Seq(Jobs) /\ \A job \in Range(JobsOf(M)) : Proper(job)
         /\ Come(Range(JobsOf(M))) = Coming(M) /\ Go(Range(JobsOf(M))) = Going(universe, M)
<1> DEFINE names == universe.order
           K == Len(names)
           Is(it) == it = [k \in 0..K |-> IF k = 0 THEN <<>> ELSE it[k - 1] \o JobOf(universe, M, names[k])]
           it == CHOOSE f : Is(f)
           step == [k \in 1..K |-> [s \in Seq(Jobs) |-> s \o JobOf(universe, M, names[k])]]
           Of(k) == {job \in Jobs : \E j \in 1..k : JobIs(universe, M, names[j], job)}
<1>1. universe \in Universes /\ names \in Seq(Uids) /\ K \in Nat /\ \A k \in 1..K : names[k] \in Uids
  BY UniverseFacts DEF Fit
<1>2. JobsOf(M) = it[K]
  BY DEF JobsOf
<1> HIDE DEF names, K
<1>3. ASSUME NEW k \in 1..K, NEW s \in Seq(Jobs)
      PROVE  /\ s \o JobOf(universe, M, names[k]) \in Seq(Jobs)
             /\ Range(s \o JobOf(universe, M, names[k])) =
                  Range(s) \cup {job \in Jobs : JobIs(universe, M, names[k], job)}
  <2> DEFINE n == names[k]
  <2>0. n \in Uids
    BY <1>1
  <2> HIDE DEF n
  <2>1. CASE JobOf(universe, M, n) = <<>>
    <3>1. \A job : ~JobIs(universe, M, n, job)
      BY <2>1 DEF JobIs
    <3> QED  BY <2>1, <3>1, RangeFacts DEF n
  <2>2. ASSUME NEW job \in Jobs, JobIs(universe, M, n, job)
        PROVE  /\ s \o JobOf(universe, M, n) \in Seq(Jobs)
               /\ Range(s \o JobOf(universe, M, n)) = Range(s) \cup {j \in Jobs : JobIs(universe, M, n, j)}
    <3>1. {j \in Jobs : JobIs(universe, M, n, j)} = {job}
      BY <2>2 DEF JobIs
    <3>2. JobOf(universe, M, n) = <<job>>
      BY <2>2 DEF JobIs
    <3> QED  BY <3>1, <3>2, RangeFacts
  <2> QED  BY <1>1, <2>0, <2>1, <2>2, JobOfFacts DEF n
<1>4. \E f : Is(f)
  <2>1. PICK w : Walks(w, K, 1..K, <<>>, step)
    BY <1>1, WalkExists
  <2>a. \A k \in 1..K, s \in Seq(Jobs) : step[k][s] = s \o JobOf(universe, M, names[k])
    OBVIOUS
  <2> HIDE DEF step, Is
  <2>b. w = [k \in 0..K |-> w[k]]
    BY <2>1, Zenon DEF Walks
  <2>c. w[0] = <<>>
    BY <1>1, <2>1 DEF Walks
  <2>2. ASSUME NEW k \in 1..K  PROVE w[k] = step[k][w[k - 1]]
    <3>1. k \in 0..K /\ k # 0
      BY <1>1
    <3> QED  BY <2>1, <3>1 DEF Walks
  <2> DEFINE S == {k \in 0..K : w[k] \in Seq(Jobs)}
  <2>3. 0..K \subseteq S
    <3>0. <<>> \in Seq(Jobs)
      OBVIOUS
    <3>1. 0 \in S
      <4>1. 0 \in 0..K
        BY <1>1
      <4>2. w[0] \in Seq(Jobs)
        BY <2>c, <3>0
      <4> QED  BY <4>1, <4>2
    <3>2. ASSUME NEW k \in 1..K, k - 1 \in S  PROVE k \in S
      <4>1. w[k - 1] \in Seq(Jobs) /\ k \in 0..K
        BY <1>1, <3>2
      <4>2. w[k] \in Seq(Jobs)
        BY <1>3, <2>a, <2>2, <4>1
      <4> QED  BY <4>1, <4>2
    <3> HIDE DEF S
    <3> QED  BY <1>1, <3>1, <3>2, BoundedInduction
  <2>4. \A k \in 1..K : w[k] = w[k - 1] \o JobOf(universe, M, names[k])
    <3> TAKE k \in 1..K
    <3>1. k - 1 \in 0..K
      BY <1>1
    <3>2. w[k - 1] \in Seq(Jobs)
      BY <2>3, <3>1
    <3> QED  BY <2>a, <2>2, <3>2
  <2>5. \A k \in 0..K : w[k] = IF k = 0 THEN <<>> ELSE w[k - 1] \o JobOf(universe, M, names[k])
    <3> TAKE k \in 0..K
    <3>1. k = 0 \/ k \in 1..K
      BY <1>1
    <3> QED  BY <2>c, <2>4, <3>1
  <2>6. Is(w)
    <3>1. [k \in 0..K |-> w[k]] =
            [k \in 0..K |-> IF k = 0 THEN <<>> ELSE w[k - 1] \o JobOf(universe, M, names[k])]
      BY <2>5
    <3> QED  BY <2>b, <3>1 DEF Is
  <2> QED  BY <2>6
<1>5. Is(it)
  BY <1>4
<1> HIDE DEF it
<1>6. it[0] = <<>> /\ \A k \in 1..K : it[k] = it[k - 1] \o JobOf(universe, M, names[k])
  BY <1>1, <1>5
<1>7. 0..K \subseteq {k \in 0..K : it[k] \in Seq(Jobs) /\ Range(it[k]) = Of(k)}
  <2> DEFINE S == {k \in 0..K : it[k] \in Seq(Jobs) /\ Range(it[k]) = Of(k)}
  <2>1. 0 \in S
    <3>1. Range(<<>>) = {} /\ <<>> \in Seq(Jobs)
      BY DEF Range
    <3>2. Of(0) = {}
      OBVIOUS
    <3>3. it[0] \in Seq(Jobs) /\ Range(it[0]) = Of(0)
      BY <1>6, <3>1, <3>2
    <3>4. 0 \in 0..K
      BY <1>1
    <3> HIDE DEF Of
    <3> QED  BY <3>3, <3>4
  <2>2. ASSUME NEW k \in 1..K, k - 1 \in S  PROVE k \in S
    <3>1. it[k - 1] \in Seq(Jobs) /\ Range(it[k - 1]) = Of(k - 1) /\ k \in 0..K
      BY <1>1, <2>2
    <3>2. it[k] \in Seq(Jobs) /\ Range(it[k]) = Of(k - 1) \cup {job \in Jobs : JobIs(universe, M, names[k], job)}
      BY <1>3, <1>6, <3>1
    <3>3. \A j : j \in 1..k <=> j \in 1..(k - 1) \/ j = k
      BY <1>1
    <3>4. Of(k) = Of(k - 1) \cup {job \in Jobs : JobIs(universe, M, names[k], job)}
      BY <3>3
    <3> QED  BY <3>1, <3>2, <3>4
  <2> HIDE DEF S
  <2>3. 0..K \subseteq S
    BY <1>1, <2>1, <2>2, BoundedInduction
  <2> QED  BY <2>3 DEF S
<1>8. JobsOf(M) \in Seq(Jobs) /\ Range(JobsOf(M)) = Of(K)
  <2>1. K \in 0..K
    BY <1>1
  <2> QED  BY <1>2, <1>7, <2>1
<1>9. \A i \in universe.items : \E k \in 1..K : names[k] = i[1]
  <2>1. {names[k] : k \in DOMAIN names} = {i[1] : i \in universe.items}
    BY <1>1 DEF Fit, Ordered, names
  <2>2. DOMAIN names = 1..K
    BY <1>1 DEF K
  <2> QED  BY <2>1, <2>2
<1>10. \A job \in Of(K) : Proper(job)
  BY <1>1, JobOfFacts
<1>11. \A job \in Of(K) : \E n \in Uids : JobIs(universe, M, n, job)
  BY <1>1
<1>12. \A n \in Uids, job \in Jobs : n \in {i[1] : i \in universe.items} /\ JobIs(universe, M, n, job) => job \in Of(K)
  BY <1>9
<1> HIDE DEF Of, Is
<1>13. Come(Of(K)) = Coming(M)
  <2>1. ASSUME NEW job \in Of(K), job.type \notin Removing  PROVE job.item \in Coming(M)
    <3>1. PICK n \in Uids : JobIs(universe, M, n, job)
      BY <1>11
    <3>2. job \in Jobs /\ Proper(job)
      BY <1>10 DEF Of
    <3>3. job.item[1] = n /\ Added(universe, M, n)
      BY <1>1, <2>1, <3>1, <3>2, JobOfFacts
    <3>4. job.item \in Items /\ ~IsLocal(job.item)
      BY <2>1, <3>2 DEF Proper, Jobs
    <3>5. job.item = Remote(n)
      BY <3>3, <3>4, ItemFacts
    <3> QED  BY <3>3, <3>4, <3>5 DEF Coming, Added
  <2>2. ASSUME NEW i \in Coming(M)  PROVE i \in Come(Of(K))
    <3>1. i \in universe.items /\ i \in M /\ ~IsLocal(i) /\ i \in Items /\ i[1] \in Uids /\ i = Remote(i[1])
      BY <1>1, <2>2, ItemFacts, UniverseFacts DEF Coming
    <3>2. Added(universe, M, i[1])
      BY <3>1 DEF Added
    <3>3. PICK job \in Jobs : JobIs(universe, M, i[1], job)
      BY <1>1, <3>1, <3>2, JobOfFacts
    <3>4. Proper(job) /\ job.item[1] = i[1] /\ job.type \notin Removing
      BY <1>1, <3>1, <3>2, <3>3, JobOfFacts
    <3>5. job.item = i
      BY <3>1, <3>4, ItemFacts DEF Proper, Jobs
    <3>6. job \in Of(K)
      BY <1>12, <3>1, <3>3
    <3> QED  BY <3>1, <3>4, <3>5, <3>6 DEF Come
  <2> QED  BY <2>1, <2>2 DEF Come
<1>14. Go(Of(K)) = Going(universe, M)
  <2>1. ASSUME NEW job \in Of(K), NEW i \in Items, i \in job.old \/ (i = job.item /\ job.type \in Removing)
        PROVE  i \in Going(universe, M)
    <3>1. PICK n \in Uids : JobIs(universe, M, n, job)
      BY <1>11
    <3>2. job \in Jobs /\ Proper(job)
      BY <1>10 DEF Of
    <3>a. job.type \in Removing \/ job.type = "upgrade"
      BY <2>1, <3>2 DEF Proper
    <3>3. job.item[1] = n /\ Dropped(universe, M, n)
      BY <1>1, <3>1, <3>2, <3>a, JobOfFacts
    <3>b. job.item \in Items
      BY <3>2 DEF Jobs
    <3>4. i = Local(n)
      BY <2>1, <3>2, <3>3, <3>b, ItemFacts DEF Proper
    <3> QED  BY <3>3, <3>4, ItemFacts DEF Going, Dropped
  <2>2. ASSUME NEW i \in Going(universe, M)  PROVE i \in Go(Of(K))
    <3>1. i \in universe.items /\ i \notin M /\ IsLocal(i) /\ i \in Items /\ i[1] \in Uids /\ i = Local(i[1])
      BY <1>1, <2>2, ItemFacts, UniverseFacts DEF Going
    <3>2. Dropped(universe, M, i[1])
      BY <3>1 DEF Dropped
    <3>3. PICK job \in Jobs : JobIs(universe, M, i[1], job)
      BY <1>1, <3>1, <3>2, JobOfFacts
    <3>4. Proper(job) /\ job.item[1] = i[1] /\ (job.type \in Removing \/ job.type = "upgrade")
      BY <1>1, <3>1, <3>2, <3>3, JobOfFacts
    <3>5. (job.type \in Removing /\ job.item = i) \/ i \in job.old
      BY <3>1, <3>4, ItemFacts DEF Proper, Jobs
    <3>6. job \in Of(K)
      BY <1>12, <3>1, <3>3
    <3> QED  BY <3>1, <3>5, <3>6 DEF Go
  <2> QED  BY <2>1, <2>2 DEF Go
<1> QED  BY <1>8, <1>10, <1>13, <1>14

\* A job that is split changes what it did.
LEMMA SplitFacts ==
  ASSUME NEW js \in Seq(Jobs), \A job \in Range(js) : Proper(job),
         NEW k \in DOMAIN js, js[k].type = "upgrade"
  PROVE  LET new == SplitJob(js, k)
         IN /\ new \in Seq(Jobs) /\ \A job \in Range(new) : Proper(job)
            /\ Come(Range(new)) = Come(Range(js)) /\ Go(Range(new)) = Go(Range(js))
<1> DEFINE n == js[k].item[1]
           a == [type |-> "upgradeInstall", item |-> js[k].item, old |-> {}]
           b == [type |-> "upgradeRemove", item |-> Old(js[k]), old |-> {}]
           s == [js EXCEPT ![k] = a]
           rest == {js[j] : j \in DOMAIN js \ {k}}
<1>1. js[k] \in Range(js) /\ Proper(js[k]) /\ js[k] \in Jobs /\ js[k].item \in Items /\ n \in Uids
  <2>1. js[k] \in Range(js)
    BY DEF Range
  <2>2. js[k] \in Jobs
    BY <2>1, RangeFacts
  <2>3. js[k].item \in Items
    BY <2>2 DEF Jobs
  <2> QED  BY <2>1, <2>2, <2>3, ItemFacts
<1>2. js[k].old = {Local(n)} /\ ~IsLocal(js[k].item) /\ Old(js[k]) = Local(n) /\ Local(n) \in Items /\ IsLocal(Local(n))
  BY <1>1, ItemFacts DEF Proper, Old, Removing
<1>3. a \in Jobs /\ b \in Jobs /\ Proper(a) /\ Proper(b)
  BY <1>1, <1>2 DEF Jobs, Proper, Removing
<1>4. /\ a.type = "upgradeInstall" /\ a.item = js[k].item /\ a.old = {}
      /\ b.type = "upgradeRemove" /\ b.item = Local(n) /\ b.old = {}
  BY <1>2
<1>5. SplitJob(js, k) = Append(s, b)
  BY DEF SplitJob
<1> HIDE DEF a, b
<1>6. s \in Seq(Jobs) /\ Range(s) = rest \cup {a} /\ Range(js) = rest \cup {js[k]}
  <2>1. DOMAIN s = DOMAIN js /\ s[k] = a /\ \A j \in DOMAIN js \ {k} : s[j] = js[j]
    OBVIOUS
  <2> HIDE DEF s
  <2>2. s \in Seq(Jobs)
    <3>1. DOMAIN js = 1..Len(js) /\ Len(js) \in Nat /\ \A j \in 1..Len(js) : js[j] \in Jobs
      OBVIOUS
    <3>2. s \in [1..Len(js) -> Jobs]
      <4>1. s \in [DOMAIN js -> Jobs]
        BY <1>3, <3>1 DEF s
      <4> QED  BY <3>1, <4>1
    <3> QED  BY <3>1, <3>2
  <2>3. rest \cup {a} = {s[j] : j \in DOMAIN s}
    BY <2>1
  <2>4. rest \cup {js[k]} = {js[j] : j \in DOMAIN js}
    OBVIOUS
  <2> QED  BY <2>2, <2>3, <2>4 DEF Range
<1> HIDE DEF s, rest
<1>7. Append(s, b) \in Seq(Jobs) /\ Range(Append(s, b)) = rest \cup {a, b}
  <2>1. s \in Seq(Jobs) /\ b \in Jobs
    BY <1>3, <1>6
  <2>2. \A e \in Jobs : Append(s, e) \in Seq(Jobs) /\ Range(Append(s, e)) = Range(s) \cup {e}
    BY <2>1, RangeFacts, Zenon
  <2>3. Append(s, b) \in Seq(Jobs) /\ Range(Append(s, b)) = Range(s) \cup {b}
    BY <2>1, <2>2, Zenon
  <2> QED  BY <1>6, <2>3
<1>8. \A job \in rest \cup {a, b} : Proper(job)
  BY <1>3, <1>6
<1>9. Come(rest \cup {a, b}) = Come(rest \cup {js[k]})
  BY <1>1, <1>4 DEF Come, Removing
<1>10. Go(rest \cup {a, b}) = Go(rest \cup {js[k]})
  BY <1>1, <1>2, <1>4 DEF Go, Removing
<1> QED  BY <1>5, <1>6, <1>7, <1>8, <1>9, <1>10

\* Until the plan is made there are no jobs; from then on they do what the answer says.
JobsInv ==
  /\ jobs \in Seq(Jobs) /\ \A job \in Range(jobs) : Proper(job)
  /\ at \in 1..(Len(jobs) + 1) /\ (pc # "order" => at = 1)
  /\ ~Answered => jobs = <<>>
  /\ Answered => Come(Range(jobs)) = Coming(model) /\ Go(Range(jobs)) = Going(solved, model)

LEMMA NoJobs == <<>> \in Seq(Jobs) /\ Len(<<>>) = 0 /\ \A job \in Range(<<>>) : Proper(job)
BY DEF Range

\* What is sorted has the same jobs.
LEMMA OrderFacts ==
  ASSUME NEW js \in Seq(Jobs), NEW order \in Bijection(DOMAIN js, DOMAIN js)
  PROVE  LET new == [k \in DOMAIN js |-> js[order[k]]]
         IN new \in Seq(Jobs) /\ Len(new) = Len(js) /\ Range(new) = Range(js)
<1> DEFINE new == [k \in DOMAIN js |-> js[order[k]]]
<1>1. DOMAIN js = 1..Len(js) /\ Len(js) \in Nat /\ \A k \in 1..Len(js) : js[k] \in Jobs
  OBVIOUS
<1>2. /\ \A k \in DOMAIN js : order[k] \in DOMAIN js
      /\ \A j \in DOMAIN js : \E k \in DOMAIN js : order[k] = j
  BY DEF Bijection, Injection, Surjection
<1>3. new \in [1..Len(js) -> Jobs]
  BY <1>1, <1>2
<1>4. new \in Seq(Jobs) /\ Len(new) = Len(js)
  BY <1>1, <1>3
<1>5. DOMAIN new = DOMAIN js /\ \A k \in DOMAIN js : new[k] = js[order[k]]
  OBVIOUS
<1> HIDE DEF new
<1>6. Range(new) = Range(js)
  <2>1. ASSUME NEW k \in DOMAIN new  PROVE new[k] \in Range(js)
    BY <1>2, <1>5, <2>1 DEF Range
  <2>2. ASSUME NEW j \in DOMAIN js  PROVE js[j] \in Range(new)
    <3>1. PICK k \in DOMAIN js : order[k] = j
      BY <1>2
    <3> QED  BY <1>5, <3>1 DEF Range
  <2> QED  BY <2>1, <2>2 DEF Range
<1> QED  BY <1>4, <1>6 DEF new

\* Splitting upgrades (pkg_jobs_set_execute_priority) and sorting (pkg_jobs_set_prio-
\* rities) lose no change the answer makes and add none.
THEOREM JobsAlways == Spec => []JobsInv
<1>1. ASSUME Init  PROVE JobsInv
  <2>1. 1 \in 1..(0 + 1)
    OBVIOUS
  <2> QED  BY <1>1, <2>1, NoJobs DEF Init, Begin, JobsInv, Answered
<1>2. ASSUME UniverseInv, JobsInv, [Next]_vars  PROVE JobsInv'
  <2> USE DEF input, ordering
  <2>1. CASE UNCHANGED vars
    BY <1>2, <2>1 DEF JobsInv, Answered, vars
  <2>2. CASE Requested
    <3>1. pc = "request" /\ pc' \in {"solve", "refused"} /\ UNCHANGED <<jobs, at>>
      BY <2>2 DEF Requested
    <3> QED  BY <1>2, <3>1 DEF JobsInv, Answered
  <2>3. ASSUME NEW M \in Answers(problem, universe, known, assume, failed), Solved(M)  PROVE JobsInv'
    <3>1. M \in SUBSET universe.items /\ problem \in Problems /\ Fit(problem, universe)
      BY <1>2, AnswersAreModels DEF UniverseInv
    <3>2. jobs' = JobsOf(M) /\ model' = M /\ solved' = universe /\ pc' \in {"order", "check"} /\ pc = "solve"
          /\ at' = at
      BY <2>3 DEF Solved
    <3>3. /\ jobs' \in Seq(Jobs) /\ \A job \in Range(jobs') : Proper(job)
          /\ Come(Range(jobs')) = Coming(M) /\ Go(Range(jobs')) = Going(universe, M)
      BY <3>1, <3>2, JobsOfFacts
    <3>4. at' = 1 /\ 1 \in 1..(Len(jobs') + 1)
      BY <1>2, <3>2, <3>3 DEF JobsInv
    <3> QED  BY <3>2, <3>3, <3>4 DEF JobsInv, Answered
  <2>4. CASE \E M \in Answers(problem, universe, known, assume, failed) : SolvedAgain(M)
    BY <1>2, <2>4 DEF SolvedAgain, JobsInv, Answered
  <2>5. CASE Checked
    <3>1. CASE Conflicts(Joined.u, Joined.names) \subseteq known
      <4>1. pc' = "order" /\ pc = "check" /\ UNCHANGED <<model, solved, jobs, at>>
        BY <2>5, <3>1 DEF Checked
      <4> QED  BY <1>2, <4>1 DEF JobsInv, Answered
    <3>2. CASE ~(Conflicts(Joined.u, Joined.names) \subseteq known)
      <4>1. jobs' = <<>> /\ pc' = "solve" /\ at' = at /\ pc = "check"
        BY <2>5, <3>2 DEF Checked
      <4>2. at' = 1 /\ 1 \in 1..(0 + 1)
        BY <1>2, <4>1 DEF JobsInv
      <4> QED  BY <4>1, <4>2, NoJobs DEF JobsInv, Answered
    <3> QED  BY <3>1, <3>2
  <2>6. CASE \E i \in Items : Unsolved(i) \/ Answer(i)
    <3>1. pc \in {"solve", "ask"} /\ pc' \in {"solve", "ask"} /\ UNCHANGED <<jobs, at>>
      BY <2>6 DEF Unsolved, Answer
    <3> QED  BY <1>2, <3>1 DEF JobsInv, Answered
  <2>7. CASE SetsPriority
    <3>1. pc = "order" /\ UNCHANGED <<pc, model, solved>>
      BY <2>7 DEF SetsPriority
    <3>2. jobs \in Seq(Jobs) /\ \A job \in Range(jobs) : Proper(job)
      BY <1>2 DEF JobsInv
    <3>3. CASE jobs' = jobs
      <4>1. at <= Len(jobs) /\ (at' = 1 \/ at' = at + 1)
        BY <2>7 DEF SetsPriority
      <4>2. at' \in 1..(Len(jobs) + 1)
        BY <1>2, <3>2, <4>1 DEF JobsInv
      <4> QED  BY <1>2, <3>1, <3>3, <4>2 DEF JobsInv, Answered
    <3>4. CASE jobs' # jobs
      <4>1. at <= Len(jobs) /\ jobs' = SplitJob(jobs, at) /\ jobs[at].type = "upgrade"
        BY <2>7, <3>4 DEF SetsPriority, SetPriority
      <4>2. at \in DOMAIN jobs /\ at' = 1
        BY <1>2, <2>7, <3>2, <3>4, <4>1 DEF SetsPriority, JobsInv
      <4>3. /\ jobs' \in Seq(Jobs) /\ \A job \in Range(jobs') : Proper(job)
            /\ Come(Range(jobs')) = Come(Range(jobs)) /\ Go(Range(jobs')) = Go(Range(jobs))
        BY <3>2, <4>1, <4>2, SplitFacts
      <4>4. 1 \in 1..(Len(jobs') + 1)
        BY <4>3
      <4> QED  BY <1>2, <3>1, <4>2, <4>3, <4>4 DEF JobsInv, Answered
    <3> QED  BY <3>3, <3>4
  <2>8. CASE Order
    <3>1. pc = "order" /\ pc' = "execute" /\ UNCHANGED <<model, solved>>
      BY <2>8 DEF Order
    <3>2. jobs \in Seq(Jobs)
      BY <1>2 DEF JobsInv
    <3>3. jobs' \in Seq(Jobs) /\ Range(jobs') = Range(jobs)
      BY <2>8, <3>2, OrderFacts DEF Order
    <3>4. at' = 1 /\ 1 \in 1..(Len(jobs') + 1)
      BY <2>8, <3>3 DEF Order
    <3> QED  BY <1>2, <3>1, <3>3, <3>4 DEF JobsInv, Answered
  <2>9. CASE Do \/ Stops \/ Finish
    BY <1>2, <2>9 DEF Do, Stops, Finish, JobsInv, Answered
  <2> QED  BY <1>2, <2>1, <2>2, <2>3, <2>4, <2>5, <2>6, <2>7, <2>8, <2>9 DEF Next
<1> QED  BY <1>1, <1>2, UniverseAlways, PTL DEF Spec

-----------------------------------------------------------------------------
(* Execution.                                                              *)

\* The jobs that were done, and what they made of the database
DoneJobs == {jobs[k] : k \in 1..executed}
ExecuteInv ==
  /\ executed \in 0..Len(jobs)
  /\ pc \notin {"execute", "done", "failed"} => executed = 0
  /\ pc = "done" => executed = Len(jobs)
  /\ installed = (Installed(problem) \ Go(DoneJobs)) \cup Come(DoneJobs)

LEMMA NothingDone == Come({}) = {} /\ Go({}) = {}
BY DEF Come, Go

\* What jobs install is not installed before, and what they remove is.
LEMMA SidesFacts ==
  ASSUME NEW S, \A job \in S : Proper(job)
  PROVE  (\A i \in Come(S) : i \in Items /\ ~IsLocal(i)) /\ (\A i \in Go(S) : i \in Items /\ IsLocal(i))
<1>1. ASSUME NEW i \in Come(S)  PROVE i \in Items /\ ~IsLocal(i)
  BY <1>1 DEF Come, Proper
<1>2. ASSUME NEW i \in Go(S)  PROVE i \in Items /\ IsLocal(i)
  <2>1. PICK job \in S : i \in Items /\ (i \in job.old \/ (i = job.item /\ job.type \in Removing))
    BY <1>2 DEF Go
  <2>2. CASE i \in job.old
    <3>1. i = Local(job.item[1])
      <4>1. Proper(job)
        BY <2>1
      <4> QED  BY <2>2, <4>1 DEF Proper
    <3>2. IsLocal(i)
      BY <3>1 DEF Local, IsLocal
    <3> QED  BY <2>1, <3>2
  <2>3. CASE i = job.item /\ job.type \in Removing
    BY <2>1, <2>3 DEF Proper
  <2> QED  BY <2>1, <2>2, <2>3
<1> QED  BY <1>1, <1>2

\* At every moment of pkg_jobs_execute the database is what it was, changed by the
\* jobs that were done.
THEOREM ExecuteAlways == Spec => []ExecuteInv
<1>1. ASSUME Init  PROVE ExecuteInv
  <2>1. jobs = <<>> /\ executed = 0 /\ pc = "request" /\ installed = Installed(problem)
    BY <1>1 DEF Init, Begin
  <2>2. DoneJobs = {}
    BY <2>1 DEF DoneJobs
  <2>3. executed \in 0..Len(jobs)
    BY <2>1, NoJobs
  <2> QED  BY <2>1, <2>2, <2>3, NothingDone DEF ExecuteInv
<1>2. ASSUME JobsInv, JobsInv', ExecuteInv, [Next]_vars  PROVE ExecuteInv'
  <2> USE DEF input, ordering
  <2>0. jobs \in Seq(Jobs) /\ Len(jobs) \in Nat /\ executed \in Nat /\ jobs' \in Seq(Jobs) /\ Len(jobs') \in Nat
    BY <1>2 DEF JobsInv, ExecuteInv
  <2>1. CASE UNCHANGED vars
    BY <1>2, <2>1 DEF ExecuteInv, DoneJobs, vars
  <2>2. CASE /\ UNCHANGED <<problem, installed, executed>>
             /\ pc \notin {"execute", "done", "failed"} /\ pc' # "done"
    <3>1. executed = 0 /\ executed' = 0 /\ 0 \in 0..Len(jobs')
      BY <1>2, <2>0, <2>2 DEF ExecuteInv
    <3>2. DoneJobs = {} /\ DoneJobs' = {}
      BY <3>1 DEF DoneJobs
    <3> QED  BY <1>2, <2>2, <3>1, <3>2 DEF ExecuteInv
  <2>3. CASE Do
    <3> DEFINE job == jobs[executed + 1]
    <3>1. /\ pc = "execute" /\ pc' = pc /\ executed' = executed + 1 /\ executed < Len(jobs)
          /\ jobs' = jobs /\ problem' = problem
          /\ installed' = IF job.type \in Removing THEN installed \ {job.item}
                          ELSE (installed \ job.old) \cup {job.item}
      BY <2>3 DEF Do, Removing
    <3>2. /\ executed + 1 \in DOMAIN jobs /\ executed' \in 0..Len(jobs')
          /\ 1..(executed + 1) = 1..executed \cup {executed + 1}
      BY <2>0, <3>1
    <3>3. DoneJobs' = DoneJobs \cup {job}
      BY <3>1, <3>2 DEF DoneJobs
    <3>4. \A k \in 1..executed : k \in DOMAIN jobs
      BY <2>0, <3>1
    <3>5. Proper(job) /\ \A j \in DoneJobs : Proper(j)
      BY <1>2, <3>2, <3>4 DEF JobsInv, Range, DoneJobs
    <3> HIDE DEF job
    <3>6. job.item \in Items /\ (job.type \notin Removing => ~IsLocal(job.item))
          /\ (job.type \in Removing => job.old = {} /\ IsLocal(job.item))
          /\ \A i \in job.old : i \in Items /\ IsLocal(i)
      <4>1. job \in Jobs /\ job.item \in Items /\ job.item[1] \in Uids
        BY <3>5, ItemFacts DEF Proper, Jobs
      <4> QED  BY <3>5, <4>1, ItemFacts DEF Proper, Removing
    <3>7. Come(DoneJobs \cup {job}) = Come(DoneJobs) \cup (IF job.type \in Removing THEN {} ELSE {job.item})
      BY <3>6 DEF Come
    <3>8. Go(DoneJobs \cup {job}) = Go(DoneJobs) \cup (IF job.type \in Removing THEN {job.item} ELSE job.old)
      BY <3>6 DEF Go
    <3>9. (\A i \in Come(DoneJobs) : ~IsLocal(i)) /\ (\A i \in Go(DoneJobs) : IsLocal(i))
      BY <3>5, SidesFacts
    <3>10. installed = (Installed(problem) \ Go(DoneJobs)) \cup Come(DoneJobs)
      BY <1>2 DEF ExecuteInv
    <3>11. installed' = (Installed(problem) \ Go(DoneJobs')) \cup Come(DoneJobs')
      BY <3>1, <3>3, <3>6, <3>7, <3>8, <3>9, <3>10
    <3> QED  BY <3>1, <3>2, <3>11 DEF ExecuteInv
  <2>4. CASE Stops
    BY <1>2, <2>4 DEF Stops, ExecuteInv, DoneJobs
  <2>5. CASE Finish
    BY <1>2, <2>5 DEF Finish, ExecuteInv, DoneJobs
  <2>6. CASE Requested
    BY <2>2, <2>6 DEF Requested
  <2>7. CASE \E M \in Answers(problem, universe, known, assume, failed) : Solved(M) \/ SolvedAgain(M)
    BY <2>2, <2>7 DEF Solved, SolvedAgain
  <2>8. CASE \E i \in Items : Unsolved(i) \/ Answer(i)
    BY <2>2, <2>8 DEF Unsolved, Answer
  <2>9. CASE Checked
    <3>1. pc = "check" /\ pc' \in {"order", "solve"} /\ UNCHANGED <<problem, installed, executed>>
      BY <2>9 DEF Checked
    <3> QED  BY <2>2, <3>1
  <2>10. CASE SetsPriority
    BY <2>2, <2>10 DEF SetsPriority
  <2>11. CASE Order
    BY <2>2, <2>11 DEF Order
  <2> QED  BY <1>2, <2>1, <2>3, <2>4, <2>5, <2>6, <2>7, <2>8, <2>9, <2>10, <2>11 DEF Next
<1> QED  BY <1>1, <1>2, JobsAlways, PTL DEF Spec

\* A locked package has no variable and no job: it stays.  pkg_jobs_universe_add_pkg
\* is where the lock is looked at, whoever calls it.
THEOREM LockedStay == Spec => []LockedKept
<1>1. UniverseInv /\ JobsInv /\ ExecuteInv => LockedKept
  <2> SUFFICES ASSUME UniverseInv, JobsInv, ExecuteInv, NEW n \in problem.locked  PROVE Local(n) \in installed
    BY DEF LockedKept
  <2>1. n \in Uids /\ n \in problem.local /\ Local(n) \in Items /\ IsLocal(Local(n)) /\ Local(n)[1] = n
    BY ProblemFacts, ItemFacts DEF UniverseInv
  <2>2. Local(n) \in Installed(problem)
    BY <2>1 DEF Installed
  <2>3. Local(n) \notin solved.items
    BY <2>1 DEF UniverseInv, Fit, Fits
  <2>4. Local(n) \notin Go(Range(jobs))
    <3>1. Local(n) \notin Going(solved, model)
      BY <2>3 DEF Going
    <3>2. Answered => Go(Range(jobs)) = Going(solved, model)
      BY DEF JobsInv
    <3>3. ~Answered => Range(jobs) = {}
      BY DEF JobsInv, Range
    <3> QED  BY <3>1, <3>2, <3>3, NothingDone
  <2>5. DoneJobs \subseteq Range(jobs)
    BY DEF DoneJobs, Range, JobsInv, ExecuteInv
  <2>6. Local(n) \notin Go(DoneJobs)
    BY <2>4, <2>5 DEF Go
  <2> QED  BY <2>2, <2>6 DEF ExecuteInv
<1> QED  BY <1>1, UniverseAlways, JobsAlways, ExecuteAlways, PTL

\* The jobs of pkg_jobs_execute make the changes the solver said and no others, in
\* whatever order and wherever they stop.
THEOREM CarriedOut == Spec => []AsPlanned
<1>1. UniverseInv /\ AnswerInv /\ JobsInv /\ ExecuteInv /\ LockedKept => AsPlanned
  <2> SUFFICES ASSUME UniverseInv, AnswerInv, JobsInv, ExecuteInv, LockedKept  PROVE AsPlanned
    OBVIOUS
  <2>1. jobs \in Seq(Jobs) /\ executed \in 0..Len(jobs)
    BY DEF JobsInv, ExecuteInv
  <2>2. DoneJobs \subseteq Range(jobs) /\ (pc = "done" => DoneJobs = Range(jobs))
    BY <2>1 DEF DoneJobs, Range, ExecuteInv
  <2>3. model \subseteq solved.items /\ model \subseteq Items
    BY UniverseFacts DEF UniverseInv, AnswerInv, Fit
  <2>4. \A i \in solved.items : IsLocal(i) => i \in Installed(problem)
    BY EndFacts
  <2>5. \A i \in Installed(problem) : IsLocal(i)
    BY DEF Installed
  <2>6. ASSUME Planned \/ pc = "failed"
        PROVE  /\ Come(Range(jobs)) = Coming(model) /\ Go(Range(jobs)) = Going(solved, model)
               /\ installed = (Installed(problem) \ Go(DoneJobs)) \cup Come(DoneJobs)
    BY <2>6 DEF JobsInv, ExecuteInv, Answered, Planned
  <2>7. ASSUME Planned \/ pc = "failed"
        PROVE  Installed(problem) \cap End \subseteq installed /\ installed \subseteq Installed(problem) \cup End
    <3>1. Come(DoneJobs) \subseteq Coming(model) /\ Go(DoneJobs) \subseteq Going(solved, model)
      <4>1. Come(DoneJobs) \subseteq Come(Range(jobs)) /\ Go(DoneJobs) \subseteq Go(Range(jobs))
        BY <2>2 DEF Come, Go
      <4> QED  BY <2>6, <2>7, <4>1
    <3>2. installed = (Installed(problem) \ Go(DoneJobs)) \cup Come(DoneJobs)
      BY <2>6, <2>7
    <3> QED  BY <2>3, <3>1, <3>2 DEF End, Target, Going, Coming
  <2>8. ASSUME pc = "done"  PROVE installed = End
    <3>1. installed = (Installed(problem) \ Going(solved, model)) \cup Coming(model)
      BY <2>2, <2>6, <2>8 DEF Planned
    <3> QED  BY <2>3, <2>4, <2>5, <3>1 DEF End, Target, Going, Coming
  <2> QED  BY <2>7, <2>8 DEF AsPlanned
<1> QED  BY <1>1, UniverseAlways, AnswerAlways, JobsAlways, ExecuteAlways, LockedStay, PTL

-----------------------------------------------------------------------------
(* Files in common.                                                        *)

LEMMA ClashSymmetric == \A i, j : Clash(i, j) <=> Clash(j, i)
BY DEF Clash

\* A package of the answer that the catalogue offers has a job and is compared.
LEMMA ComparedFacts ==
  ASSUME JobsInv, AnswerInv, UniverseInv, pc = "check"
  PROVE  \A i \in model : ~IsLocal(i) => i \in Compared
<1> SUFFICES ASSUME NEW i \in model, ~IsLocal(i)  PROVE i \in Compared
  OBVIOUS
<1>1. i \in solved.items /\ universe = solved
  BY DEF AnswerInv, Answered
<1>2. i \in Come(Range(jobs))
  BY DEF JobsInv, Answered, Coming
<1>3. PICK job \in Range(jobs) : i = job.item /\ job.type \notin Removing
  BY <1>2 DEF Come
<1>4. PICK n \in DOMAIN jobs : job = jobs[n]
  BY DEF Range
<1> QED  BY <1>1, <1>3, <1>4 DEF Compared, Removing

\* A check that finds nothing new has seen every two files in common.
LEMMA NothingNew ==
  ASSUME UniverseInv, AnswerInv, JobsInv, pc = "check", Whole,
         Conflicts(Joined.u, Joined.names) \subseteq known,
         NEW i \in model, ~IsLocal(i), NEW j \in End, IsUnlocked(j)
  PROVE  ~Clash(i, j)
<1> SUFFICES ASSUME Clash(i, j)  PROVE FALSE
  OBVIOUS
<1> DEFINE u == Joined.u
           owners == Joined.names
<1>1. /\ problem \in Problems /\ universe = solved /\ solved.items \subseteq Items
      /\ known \subseteq solved.items \X solved.items /\ i \in solved.items /\ j \in Items
      /\ i \in Compared /\ i \in Items /\ j[1] \in Uids
  BY ComparedFacts, UniverseFacts, EndFacts, ItemFacts DEF UniverseInv, AnswerInv, Answered, Fit
<1>2. /\ Grows(universe, u) /\ \A n \in owners : Local(n) \in u.items
      /\ Owners \ problem.locked \subseteq owners
  BY JoinedFacts DEF UniverseInv
<1>3. Conflicts(u, owners) \subseteq known
  OBVIOUS
<1> HIDE DEF u, owners
<1>4. i \in u.items
  BY <1>1, <1>2 DEF Grows
<1>5. ASSUME j \in u.items, (\E k \in Compared : k[1] = j[1] /\ Clash(i, k)) \/ (j[1] \in owners /\ Clash(i, Local(j[1])))
      PROVE  <<i, j>> \in known
  <2>1. <<i, j>> \in u.items \X u.items
    BY <1>4, <1>5
  <2>2. <<i, j>> \in Conflicts(u, owners)
    BY <1>1, <1>5, <2>1 DEF Conflicts
  <2> QED  BY <1>3, <2>2
<1>6. ASSUME j \in model  PROVE <<i, j>> \notin known
  <2>1. ConflictRule(known, i, j, model)
    BY <1>1, <1>6 DEF AnswerInv, Answered, Rules
  <2> QED  BY <1>6, <2>1 DEF ConflictRule
<1>7. CASE ~IsLocal(j)
  <2>1. j \in model
    BY <1>7, EndFacts DEF Installed
  <2>2. j \in Compared /\ j \in u.items
    BY <1>1, <1>2, <1>7, <2>1, ComparedFacts DEF AnswerInv, Grows
  <2> QED  BY <1>5, <1>6, <2>1, <2>2
<1>8. CASE IsLocal(j)
  <2>1. j = Local(j[1])
    BY <1>1, <1>8, ItemFacts
  <2>2. j[1] \in problem.local
    <3>1. j \in Installed(problem)
      <4>1. j \in model => j \in solved.items
        BY DEF AnswerInv
      <4> QED  BY <1>8, <4>1, EndFacts
    <3> QED  BY <3>1 DEF Installed
  <2>3. j[1] \in owners
    <3>1. j[1] \in Owners
      BY <1>1, <2>1, <2>2 DEF Owners
    <3>2. j[1] \notin problem.locked
      BY <1>8 DEF IsUnlocked, IsLocked
    <3> QED  BY <1>2, <3>1, <3>2
  <2>4. j \in u.items
    BY <1>2, <2>1, <2>3
  <2>5. <<i, j>> \in known
    BY <1>5, <2>1, <2>3, <2>4
  <2>6. j \in solved.items
    BY <1>1, <2>5
  <2>7. j \in model
    BY <2>6, EndFacts
  <2> QED  BY <1>6, <2>5, <2>7
<1> QED  BY <1>7, <1>8

\* A deletion has nothing to check: all that is left was installed before.
LEMMA DeleteClashes ==
  ASSUME UniverseInv, AnswerInv, IsDelete(problem), NEW i \in End, NEW j \in End
  PROVE  ~Clash(i, j)
<1>1. \A k \in End : IsLocal(k)
  <2> TAKE k \in End
  <2>1. CASE k \in model
    BY <2>1 DEF UniverseInv, AnswerInv, Fit, Fits
  <2>2. CASE k \notin model
    BY <2>2, EndFacts DEF Installed
  <2> QED  BY <2>1, <2>2
<1>2. \A c \in problem.clash : ~(IsLocal(c[1]) /\ IsLocal(c[2]))
  BY ProblemFacts DEF UniverseInv
<1> QED  BY <1>1, <1>2 DEF Clash

\* No plan that is carried out leaves two packages with a file in common, when the
\* database it begins with is whole.
THEOREM FilesApart == Spec => []PlanClash
<1> DEFINE ClashInv == ~IsDelete(problem) => PlanClash
<1>1. ASSUME Init  PROVE ClashInv
  BY <1>1 DEF Init, Begin, PlanClash, Planned
<1>2. ASSUME UniverseInv, AnswerInv, JobsInv, ClashInv, [Next]_vars
      PROVE  ClashInv'
  <2> USE DEF input, ordering
  <2>1. CASE UNCHANGED <<problem, solved, model>> /\ (Planned' => Planned)
    BY <1>2, <2>1 DEF PlanClash, Whole, End, Clash, IsUnlocked
  <2>2. CASE Checked /\ Conflicts(Joined.u, Joined.names) \subseteq known
    <3>1. pc = "check" /\ UNCHANGED <<problem, solved, model>>
      BY <2>2 DEF Checked
    <3>2. ASSUME Whole, NEW i \in End, NEW j \in End, IsUnlocked(i), IsUnlocked(j)  PROVE ~Clash(i, j)
      <4>1. ~IsLocal(i) => i \in model
        BY EndFacts, <1>2 DEF Installed
      <4>2. ~IsLocal(j) => j \in model
        BY EndFacts, <1>2 DEF Installed
      <4>3. Clash(i, j) => ~(IsLocal(i) /\ IsLocal(j))
        BY <1>2, ProblemFacts DEF UniverseInv, Clash
      <4> QED  BY <1>2, <2>2, <3>1, <3>2, <4>1, <4>2, <4>3, NothingNew, ClashSymmetric
    <3> QED  BY <3>1, <3>2 DEF PlanClash, Whole, End, Clash, IsUnlocked
  <2>3. CASE Checked /\ ~(Conflicts(Joined.u, Joined.names) \subseteq known)
    <3>1. pc' = "solve"
      BY <2>3 DEF Checked
    <3> QED  BY <3>1 DEF PlanClash, Planned
  <2>4. CASE Requested
    <3>1. pc' \in {"solve", "refused"}
      BY <2>4 DEF Requested
    <3> QED  BY <3>1 DEF PlanClash, Planned
  <2>5. CASE \E M \in Answers(problem, universe, known, assume, failed) : Solved(M)
    <3>1. problem' = problem /\ (pc' = "check" \/ IsDelete(problem))
      BY <2>5 DEF Solved
    <3> QED  BY <3>1 DEF PlanClash, Planned
  <2>6. CASE \E M \in Answers(problem, universe, known, assume, failed) : SolvedAgain(M)
    BY <2>1, <2>6 DEF SolvedAgain, Planned
  <2>7. CASE \E i \in Items : Unsolved(i) \/ Answer(i)
    BY <2>1, <2>7 DEF Unsolved, Answer, Planned
  <2>8. CASE SetsPriority
    BY <2>1, <2>8 DEF SetsPriority, Planned
  <2>9. CASE Order
    BY <2>1, <2>9 DEF Order, Planned
  <2>10. CASE Do \/ Stops \/ Finish
    BY <2>1, <2>10 DEF Do, Stops, Finish, Planned
  <2>11. CASE UNCHANGED vars
    BY <2>1, <2>11 DEF vars, Planned
  <2> QED  BY <1>2, <2>2, <2>3, <2>4, <2>5, <2>6, <2>7, <2>8, <2>9, <2>10, <2>11 DEF Next
<1>3. UniverseInv /\ AnswerInv /\ ClashInv => PlanClash
  BY DeleteClashes DEF PlanClash
<1> QED  BY <1>1, <1>2, <1>3, UniverseAlways, AnswerAlways, JobsAlways, PTL DEF Spec

-----------------------------------------------------------------------------
(* Priorities.                                                             *)

Raisers == [Calls -> Priorities]

LEMMA CallFacts ==
  ASSUME NEW f \in Priorities, NEW i \in Items, NEW p \in Nat, NEW why \in Reasons
  PROVE  /\ Call(f, i, p, why) \in Calls
         /\ f[i] \in Nat /\ f[i] + 1 \in Nat /\ p + 1 \in Nat
         /\ \A raise \in Raisers : raise[Call(f, i, p, why)] \in Priorities
<1>1. Call(f, i, p, why) \in Calls
  BY DEF Call, Calls
<1>2. f[i] \in Nat
  BY DEF Priorities
<1> QED  BY <1>1, <1>2 DEF Raisers

\* The loops of the recursion
LEMMA AtLeastType ==
  ASSUME NEW w, NEW u, NEW f \in Priorities, NEW i, NEW p \in Nat, NEW why
  PROVE  AtLeast(w, u, f, i, p, why) \in Nat
<1> DEFINE More(max, j) == IF j \in u.items /\ f[j] >= max THEN f[j] + 1 ELSE max
           step == [n \in Uids |-> [max \in Nat |-> More(More(max, Local(n)), Remote(n))]]
<1>1. \A max \in Nat, j \in Items : More(max, j) \in Nat
  BY DEF Priorities
<1> HIDE DEF More
<1>2. \A n \in Uids : \A max \in Nat : step[n][max] \in Nat
  BY <1>1, ItemFacts
<1>3. AtLeast(w, u, f, i, p, why) = ForEach(Above(w, i, why), p, step)
  BY DEF AtLeast, More
<1> HIDE DEF step
<1>4. ForEach(Above(w, i, why), p, step) \in Nat
  BY <1>2, ForEachStays
<1> QED  BY <1>3, <1>4

LoweredBy(w, u, raise, c) ==
  LET Lower(f, j) == IF j \in u.items /\ f[j] < c.p + 1 THEN raise[Call(f, j, c.p + 1, c.why)] ELSE f
  IN ForEach(Below(w, c.item, c.why), [c.prio EXCEPT ![c.item] = c.p],
             [n \in Uids |-> [f \in Priorities |-> Lower(Lower(f, Local(n)), Remote(n))]])
ClearedBy(u, names, raise, i, lowered) ==
  LET Before(f, j) == IF j \in u.items /\ TooLate(f, i, j) THEN raise[Call(f, j, f[i] + 1, "conflict")] ELSE f
  IN ForEach(names, lowered, [n \in Uids |-> [f \in Priorities |-> Before(f, Local(n))]])

LEMMA LoweredType ==
  ASSUME NEW w, NEW u, NEW raise \in Raisers, NEW c \in Calls
  PROVE  LoweredBy(w, u, raise, c) \in Priorities
<1> DEFINE Lower(f, j) == IF j \in u.items /\ f[j] < c.p + 1 THEN raise[Call(f, j, c.p + 1, c.why)] ELSE f
           step == [n \in Uids |-> [f \in Priorities |-> Lower(Lower(f, Local(n)), Remote(n))]]
           z == [c.prio EXCEPT ![c.item] = c.p]
<1>1. c.prio \in Priorities /\ c.item \in Items /\ c.p \in Nat /\ c.why \in Reasons
  BY DEF Calls
<1>2. c.p + 1 \in Nat
  BY <1>1
<1>3. \A f \in Priorities, j \in Items : Lower(f, j) \in Priorities
  BY <1>1, <1>2, CallFacts
<1>4. z \in Priorities
  BY <1>1 DEF Priorities
<1> HIDE DEF Lower, z
<1>5. \A n \in Uids : \A f \in Priorities : step[n][f] \in Priorities
  BY <1>3, ItemFacts
<1>6. LoweredBy(w, u, raise, c) = ForEach(Below(w, c.item, c.why), z, step)
  BY DEF LoweredBy, Lower, z
<1> HIDE DEF step
<1> QED  BY <1>4, <1>5, <1>6, ForEachStays

LEMMA ClearedType ==
  ASSUME NEW u, NEW names, NEW raise \in Raisers, NEW i \in Items, NEW lowered \in Priorities
  PROVE  ClearedBy(u, names, raise, i, lowered) \in Priorities
<1> DEFINE Before(f, j) == IF j \in u.items /\ TooLate(f, i, j) THEN raise[Call(f, j, f[i] + 1, "conflict")] ELSE f
           step == [n \in Uids |-> [f \in Priorities |-> Before(f, Local(n))]]
<1>0. "conflict" \in Reasons
  BY DEF Reasons
<1>1. ASSUME NEW f \in Priorities, NEW j \in Items  PROVE Before(f, j) \in Priorities
  <2>1. f[i] + 1 \in Nat
    BY DEF Priorities
  <2>2. raise[Call(f, j, f[i] + 1, "conflict")] \in Priorities
    BY <1>0, <2>1, CallFacts
  <2> QED  BY <2>2
<1> HIDE DEF Before
<1>2. \A n \in Uids : \A f \in Priorities : step[n][f] \in Priorities
  BY <1>1, ItemFacts
<1>3. ClearedBy(u, names, raise, i, lowered) = ForEach(names, lowered, step)
  BY DEF ClearedBy, Before
<1> HIDE DEF step
<1> QED  BY <1>2, <1>3, ForEachStays

\* One call leaves every package a priority.
LEMMA RaiseItemType ==
  ASSUME NEW w, NEW u, NEW links, NEW raise \in Raisers, NEW c \in Calls
  PROVE  RaiseItem(w, u, links, raise, c) \in Priorities
<1> DEFINE i == c.item
           lowered == LoweredBy(w, u, raise, c)
           top == AtLeast(w, u, lowered, i, c.p, c.why)
           cleared == IF IsLocal(i) THEN lowered ELSE ClearedBy(u, ConflictNames(links, i), raise, i, lowered)
           Rest(f) == IF IsLocal(i) /\ Remote(i[1]) \in u.items THEN raise[Call(f, Remote(i[1]), c.p, c.why)] ELSE f
<1>1. c.prio \in Priorities /\ i \in Items /\ c.p \in Nat /\ c.why \in Reasons /\ Remote(i[1]) \in Items
  BY ItemFacts DEF Calls
<1>2. RaiseItem(w, u, links, raise, c) =
        IF c.p > RecursionLimit THEN c.prio
        ELSE IF (~IsLocal(i) /\ c.why \in {"conflict", "delete"}) \/ c.prio[i] > c.p THEN Rest(c.prio)
        ELSE IF top # c.p THEN raise[Call(lowered, i, top, c.why)] ELSE Rest(cleared)
  BY DEF RaiseItem, LoweredBy, ClearedBy
<1>3. lowered \in Priorities
  BY LoweredType
<1> HIDE DEF lowered
<1>4. top \in Nat
  BY <1>1, <1>3, AtLeastType
<1> HIDE DEF top
<1>5. cleared \in Priorities
  BY <1>1, <1>3, ClearedType
<1> HIDE DEF i, cleared
<1>6. \A f \in Priorities : Rest(f) \in Priorities
  BY <1>1, CallFacts
<1> HIDE DEF Rest
<1>7. raise[Call(lowered, i, top, c.why)] \in Priorities
  BY <1>1, <1>3, <1>4, CallFacts
<1> QED  BY <1>1, <1>2, <1>5, <1>6, <1>7

\* And so do calls that nest.
RaisesOf(it, w, u, links) ==
  it = [depth \in Nat |->
         [d \in Calls |-> IF depth = 0 THEN d.prio ELSE RaiseItem(w, u, links, it[depth - 1], d)]]

LEMMA RaiseType ==
  ASSUME NEW w, NEW u, NEW links, NEW c \in Calls
  PROVE  Raise(w, u, links, c) \in Priorities
<1> DEFINE None == [d \in Calls |-> d.prio]
           One(F) == [d \in Calls |-> RaiseItem(w, u, links, F, d)]
           g == [F \in Raisers |-> One(F)]
           it == CHOOSE f : RaisesOf(f, w, u, links)
<1>1. None \in Raisers
  BY DEF Raisers, Calls
<1>2. \A F \in Raisers : One(F) \in Raisers
  BY RaiseItemType DEF Raisers
<1>3. \E f : RaisesOf(f, w, u, links)
  <2>1. PICK f : Recurs(f, None, g)
    BY Recursion
  <2> HIDE DEF One
  <2>2. \A n \in Nat : n + 1 # 0 /\ (n + 1) - 1 = n /\ n + 1 \in Nat
    OBVIOUS
  <2>3. f[0] = None /\ \A n \in Nat : f[n + 1] = g[f[n]]
    <3> HIDE DEF None, g
    <3> QED  BY <2>1, <2>2 DEF Recurs
  <2>4. \A n \in Nat : f[n] \in Raisers
    <3>1. f[0] \in Raisers /\ \A n \in Nat : f[n] \in Raisers => f[n + 1] \in Raisers
      BY <1>1, <1>2, <2>3
    <3> QED  BY <3>1, Stays
  <2>5. \A n \in Nat : f[n + 1] = One(f[n])
    BY <2>3, <2>4
  <2>6. \A n \in Nat : f[n] =
          [d \in Calls |-> IF n = 0 THEN d.prio ELSE RaiseItem(w, u, links, f[n - 1], d)]
    <3> TAKE n \in Nat
    <3>1. CASE n = 0
      BY <2>3, <3>1
    <3>2. CASE n # 0
      <4>1. n - 1 \in Nat /\ (n - 1) + 1 = n
        BY <3>2
      <4>2. f[n] = One(f[n - 1])
        BY <2>5, <4>1
      <4> QED  BY <3>2, <4>2 DEF One
    <3> QED  BY <3>1, <3>2
  <2>7. f = [n \in Nat |-> f[n]]
    BY <2>1 DEF Recurs
  <2>8. RaisesOf(f, w, u, links)
    <3> HIDE DEF None, g
    <3> QED  BY <2>6, <2>7, Zenon DEF RaisesOf
  <2> QED  BY <2>8
<1>4. RaisesOf(it, w, u, links)
  BY <1>3
<1>5. Raise(w, u, links, c) = it[2 * (RecursionLimit + 2)][c]
  BY DEF Raise, RaisesOf
<1> HIDE DEF it
<1>6. \A n \in Nat : it[n] = [d \in Calls |-> IF n = 0 THEN d.prio ELSE RaiseItem(w, u, links, it[n - 1], d)]
  BY <1>4 DEF RaisesOf
<1>7. \A n \in Nat : it[n] \in Raisers
  <2>1. it[0] \in Raisers
    BY <1>1, <1>6
  <2>2. ASSUME NEW n \in Nat, it[n] \in Raisers  PROVE it[n + 1] \in Raisers
    <3>1. n + 1 \in Nat /\ n + 1 # 0 /\ (n + 1) - 1 = n
      OBVIOUS
    <3>2. it[n + 1] = One(it[n])
      BY <1>6, <3>1
    <3> HIDE DEF One
    <3> QED  BY <1>2, <2>2, <3>2
  <2> QED  BY <2>1, <2>2, Stays
<1>8. 2 * (RecursionLimit + 2) \in Nat
  BY PriorityAssumption
<1> QED  BY <1>5, <1>7, <1>8 DEF Raisers

\* Setting the priority of a job leaves every package one.
LEMMA SetPriorityType ==
  ASSUME NEW w, NEW u, NEW links, NEW f \in Priorities, NEW job, Proper(job)
  PROVE  SetPriority(w, u, links, f, job).prio \in Priorities
<1>1. job \in Jobs /\ job.item \in Items /\ job.item[1] \in Uids
  BY ItemFacts DEF Proper, Jobs
<1>2. Raised(w, u, links, f, job) \in Priorities
  <2> DEFINE c == Call(f, job.item, 0, IF job.type = "delete" THEN "delete" ELSE "request")
  <2>1. c \in Calls
    BY <1>1 DEF Call, Calls, Reasons
  <2>2. Raise(w, u, links, c) \in Priorities
    BY <2>1, RaiseType
  <2> QED  BY <2>2 DEF Raised
<1>3. ASSUME job.type = "upgrade"  PROVE RaiseConflicts(w, u, links, f, job) \in Priorities
  <2>1. Old(job) = Local(job.item[1])
    BY <1>3 DEF Old, Proper
  <2>2. Old(job) \in Items
    BY <1>1, <2>1, ItemFacts
  <2>3. ASSUME NEW h \in Priorities, NEW n \in Uids  PROVE RaiseConflict(w, u, links, job, h, n) \in Priorities
    <3> DEFINE a == Call(h, Old(job), h[Remote(n)] + 1, "conflict")
               k == Raise(w, u, links, a)
               b == Call(k, job.item, k[job.item], "request")
    <3>1. "conflict" \in Reasons /\ "request" \in Reasons /\ Remote(n) \in Items
      BY ItemFacts DEF Reasons
    <3>2. h[Remote(n)] + 1 \in Nat
      BY <3>1 DEF Priorities
    <3>3. a \in Calls
      BY <2>2, <3>1, <3>2, CallFacts
    <3>4. k \in Priorities
      BY <3>3, RaiseType
    <3> HIDE DEF k
    <3>5. k[job.item] \in Nat
      BY <1>1, <3>4 DEF Priorities
    <3>6. b \in Calls
      BY <1>1, <3>1, <3>4, <3>5, CallFacts
    <3>7. Raise(w, u, links, b) \in Priorities
      BY <3>6, RaiseType
    <3> QED  BY <3>7 DEF RaiseConflict, k
  <2> DEFINE step == [n \in Uids |-> [h \in Priorities |-> RaiseConflict(w, u, links, job, h, n)]]
  <2>4. \A n \in Uids : \A h \in Priorities : step[n][h] \in Priorities
    BY <2>3
  <2>5. RaiseConflicts(w, u, links, f, job) = ForEach(ConflictNames(links, Old(job)), f, step)
    BY DEF RaiseConflicts
  <2> HIDE DEF step
  <2> QED  BY <2>4, <2>5, ForEachStays
<1> QED  BY <1>2, <1>3 DEF SetPriority

-----------------------------------------------------------------------------
(* Types, and that solving comes to an end.                                *)

TypeInv ==
  /\ pc \in {"request", "solve", "ask", "check", "order", "execute", "done", "failed", "refused"}
  /\ pc \in {"request", "refused"} => DOMAIN assume = {}
  /\ \A i \in DOMAIN assume : assume[i] \in BOOLEAN
  /\ failed \subseteq Uids /\ attempts \in 0..MaxAttempts
  /\ prio \in Priorities

LEMMA AssumedType ==
  ASSUME NEW w, NEW names
  PROVE  \A i \in DOMAIN Assumed(w, names) : Assumed(w, names)[i] \in BOOLEAN
BY DEF Assumed, IsDelete

\* What the solver is told to assume and how often it failed (pkg_solve_sat_problem),
\* and the priorities (pkg_jobs_set_priorities), keep their types.
THEOREM TypeAlways == Spec => []TypeInv
<1>1. ASSUME Init  PROVE TypeInv
  <2>1. pc = "request" /\ DOMAIN assume = {} /\ failed = {} /\ attempts = 0 /\ prio = [i \in Items |-> 0]
    BY <1>1 DEF Init, Begin
  <2> QED  BY <2>1, PlanAssumption DEF TypeInv, Priorities
<1>2. ASSUME JobsInv, TypeInv, [Next]_vars  PROVE TypeInv'
  <2> USE DEF input, ordering
  <2>1. CASE UNCHANGED <<assume, failed, attempts, prio>> /\ pc \notin {"request", "refused"}
             /\ pc' \in {"solve", "ask", "check", "order", "execute", "done", "failed"}
    BY <1>2, <2>1 DEF TypeInv
  <2>2. CASE Requested
    BY <1>2, <2>2, AssumedType DEF Requested, TypeInv
  <2>3. CASE \E M \in Answers(problem, universe, known, assume, failed) : Solved(M)
    BY <2>1, <2>3 DEF Solved
  <2>4. CASE \E M \in Answers(problem, universe, known, assume, failed) : SolvedAgain(M)
    BY <1>2, <2>4 DEF SolvedAgain, TypeInv, Gone
  <2>5. CASE Checked
    <3>1. /\ UNCHANGED prio /\ pc' \in {"order", "solve"}
          /\ UNCHANGED <<assume, failed, attempts>> \/ (assume' = Assumed(problem, request) /\ failed' = {} /\ attempts' = 0)
      BY <2>5 DEF Checked
    <3> QED  BY <1>2, <3>1, AssumedType, PlanAssumption DEF TypeInv
  <2>6. ASSUME NEW i \in Items, Unsolved(i)  PROVE TypeInv'
    <3>1. /\ UNCHANGED <<prio, failed>> /\ pc = "solve" /\ pc' \in {"solve", "ask"}
          /\ assume' = assume \/ assume' = [assume EXCEPT ![i] = ~@]
          /\ IF attempts + 1 < MaxAttempts THEN attempts' = attempts + 1 ELSE attempts' = MaxAttempts
      BY <2>6 DEF Unsolved
    <3>2. attempts' \in 0..MaxAttempts
      BY <1>2, <3>1, PlanAssumption DEF TypeInv
    <3>3. \A j \in DOMAIN assume' : assume'[j] \in BOOLEAN
      BY <1>2, <3>1, <2>6 DEF TypeInv, Unsolved
    <3> QED  BY <1>2, <3>1, <3>2, <3>3 DEF TypeInv
  <2>7. ASSUME NEW i \in Items, Answer(i)  PROVE TypeInv'
    <3>1. /\ UNCHANGED <<prio, failed, attempts>> /\ pc' = "solve" /\ i \in DOMAIN assume
          /\ assume' = assume \/ assume' = [assume EXCEPT ![i] = ~@]
      BY <2>7 DEF Answer
    <3> QED  BY <1>2, <3>1 DEF TypeInv
  <2>8. CASE SetsPriority
    <3> DEFINE r == SetPriority(problem, universe, known, prio, jobs[at])
    <3>1. pc = "order" /\ pc' = pc /\ UNCHANGED <<assume, failed, attempts>> /\ at <= Len(jobs)
          /\ (prio' = r.prio \/ prio' = Zeroed(r.prio, jobs))
      BY <2>8 DEF SetsPriority
    <3>2. at \in DOMAIN jobs /\ Proper(jobs[at])
      BY <1>2, <3>1 DEF JobsInv, Range
    <3>3. r.prio \in Priorities
      BY <1>2, <3>2, SetPriorityType DEF TypeInv
    <3> HIDE DEF r
    <3>4. prio' \in Priorities
      BY <3>1, <3>3 DEF Zeroed, Priorities
    <3> QED  BY <1>2, <3>1, <3>4 DEF TypeInv
  <2>9. CASE Order
    <3>1. prio' \in Priorities /\ pc' = "execute" /\ pc = "order" /\ UNCHANGED <<assume, failed, attempts>>
      BY <2>9 DEF Order, Priorities
    <3> QED  BY <1>2, <3>1 DEF TypeInv
  <2>10. CASE Do \/ Stops \/ Finish
    BY <1>2, <2>10 DEF Do, Stops, Finish, TypeInv
  <2>11. CASE UNCHANGED vars
    BY <1>2, <2>11 DEF vars, TypeInv
  <2> QED  BY <1>2, <2>2, <2>3, <2>4, <2>5, <2>6, <2>7, <2>8, <2>9, <2>10, <2>11 DEF Next
<1> QED  BY <1>1, <1>2, JobsAlways, PTL DEF Spec

\* Every variable has its type, whatever the recursions over the universe and the
\* priorities return.
THEOREM TypeCorrect == Spec => []TypeOK
<1>1. UniverseInv /\ RequestInv /\ AnswerInv /\ JobsInv /\ ExecuteInv /\ TypeInv => TypeOK
  <2> SUFFICES ASSUME UniverseInv, RequestInv, AnswerInv, JobsInv, ExecuteInv, TypeInv  PROVE TypeOK
    OBVIOUS
  <2>1. /\ problem \in Problems /\ universe.items \subseteq Items /\ universe.done \subseteq universe.items
        /\ {universe.order[n] : n \in DOMAIN universe.order} = {i[1] : i \in universe.items}
        /\ solved.items \subseteq universe.items /\ solved.items \subseteq Items
    BY UniverseFacts DEF UniverseInv, Fit, Ordered, Grows
  <2>2. known \subseteq Items \X Items /\ request \subseteq Uids /\ model \subseteq solved.items
    BY <2>1 DEF UniverseInv, RequestInv, AnswerInv
  <2>3. DOMAIN assume \subseteq universe.items
    BY DEF RequestInv, Begun, TypeInv
  <2>4. (\A n \in DOMAIN jobs : jobs[n] \in Jobs) /\ at \in 1..Len(jobs) + 1 /\ executed \in 0..Len(jobs)
    BY DEF JobsInv, ExecuteInv
  <2>5. installed \subseteq Items
    BY DEF ExecuteInv, Installed, Come
  <2> QED  BY <2>1, <2>2, <2>3, <2>4, <2>5 DEF TypeOK, TypeInv
<1> QED  BY <1>1, UniverseAlways, RequestAlways, AnswerAlways, JobsAlways, ExecuteAlways, TypeAlways, PTL

\* Every time the solver is asked again something has been learnt, or counted, or
\* it is the second opinion.
THEOREM SolvingProgresses == Spec => Progresses
<1>1. ASSUME UniverseInv, TypeInv, [Next]_vars, pc' = "solve", ~UNCHANGED vars
      PROVE  \/ pc \in {"request", "ask"}
             \/ known \subseteq known' /\ known # known'
             \/ known = known' /\ attempts < attempts'
             \/ known = known' /\ attempts = attempts' /\ failed = {} /\ failed' # {}
  <2> USE DEF input, ordering
  <2>1. CASE Requested
    BY <2>1 DEF Requested
  <2>2. CASE \E M \in Answers(problem, universe, known, assume, failed) : Solved(M)
    BY <1>1, <2>2 DEF Solved
  <2>3. CASE \E M \in Answers(problem, universe, known, assume, failed) : SolvedAgain(M)
    BY <2>3 DEF SolvedAgain, AskAgain
  <2>4. CASE Checked
    BY <1>1, <2>4 DEF Checked
  <2>5. CASE \E i \in Items : Unsolved(i)
    <3>1. known' = known /\ attempts' = attempts + 1
      BY <1>1, <2>5 DEF Unsolved
    <3> QED  BY <1>1, <3>1 DEF TypeInv
  <2>6. CASE \E i \in Items : Answer(i)
    BY <2>6 DEF Answer
  <2>7. CASE SetsPriority \/ Order \/ Do \/ Stops \/ Finish
    BY <1>1, <2>7 DEF SetsPriority, Order, Do, Stops, Finish
  <2> QED  BY <1>1, <2>1, <2>2, <2>3, <2>4, <2>5, <2>6, <2>7 DEF Next
<1> QED  BY <1>1, TypeAlways, UniverseAlways, PTL DEF Spec, Progresses

=============================================================================
